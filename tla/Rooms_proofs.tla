---------------------------- MODULE Rooms_proofs ----------------------------
(***************************************************************************)
(* Theorems about Rooms, for any rooms on any servers.                     *)
(***************************************************************************)
EXTENDS Rooms, TLAPS

(* The types, in parts.                                                    *)
TablesTyped ==
    /\ exists \subseteq Rooms /\ member \subseteq exists /\ online \subseteq Servers
    /\ rows \subseteq Rooms /\ history \subseteq Rooms /\ sessions \subseteq Rooms
    /\ late \subseteq Rooms /\ excused \subseteq Servers
FlowTyped ==
    /\ flow \in [Rooms -> Flows]
    /\ acts \in 0..MaxActs /\ faults \in 0..MaxFaults
SyncTyped ==
    /\ sync \in [Servers -> Sync]
    /\ \A s \in Servers : sync[s].has \subseteq of(s) /\ sync[s].todo \subseteq of(s)

(* What is on the chain; the work for a room that is joined is there once, *)
(* as long as the user waits for it.                                       *)
ChainTyped ==
    /\ chain \in Seq(Op)
    /\ \A i \in DOMAIN chain :
          chain[i].op = "join" => flow[chain[i].room] = "queued"
    /\ \A i, j \in DOMAIN chain :
          chain[i].op = "join" /\ chain[j] = chain[i] => i = j

(* A room stands in the list as often as it was created or joined here, and*)
(* once more.                                                              *)
Entering == {"create", "created", "join", "joined", "members", "queued"}
ListBounded ==
    /\ list \in [Rooms -> Nat]
    /\ \A r \in Rooms : /\ list[r] <= acts + 1
                        /\ flow[r] \in Entering => list[r] <= acts /\ acts >= 1

(* What the user has begun with a room says whether the server counts us   *)
(* in, but for what others do meanwhile.                                   *)
FlowIsTrue ==
    \A r \in Rooms :
        /\ flow[r] \in {"create", "join", "deleted"} => r \notin member
        /\ flow[r] \in {"created", "joined", "members", "queued"} =>
              r \in member \/ ServerOf[r] \in excused

(* The list of rooms of a server without an excuse is as it was read, and  *)
(* the table is true before the list is fetched and after it is applied.   *)
ListIsFresh ==
    \A s \in Servers \ excused : sync[s].at = "answered" => sync[s].has = member \cap of(s)
TableIsTrue ==
    \A r \in Rooms :
        /\ ServerOf[r] \in online \ excused /\ sync[ServerOf[r]].at \in {"no", "members"}
        /\ flow[r] \notin {"created", "joined", "deleted"}
        => (r \in rows <=> r \in member)

RoomsIInv ==
    /\ TablesTyped /\ FlowTyped /\ SyncTyped /\ ChainTyped /\ ListBounded
    /\ FlowIsTrue /\ ListIsFresh /\ TableIsTrue /\ NothingLeftOver

-----------------------------------------------------------------------------
(* What the operators of the chain do.                                     *)
LEMMA OpFields ==
    ASSUME NEW o \in Op
    PROVE  o.op \in {"join", "session", "message"} /\ o.room \in Rooms
           /\ o = [op |-> o.op, room |-> o.room]
BY DEF Op

LEMMA Appended ==
    ASSUME NEW q \in Seq(Op), NEW o \in Op
    PROVE  /\ Append(q, o) \in Seq(Op) /\ DOMAIN q \subseteq DOMAIN Append(q, o)
           /\ \A k \in DOMAIN q : Append(q, o)[k] = q[k]
           /\ \A k \in DOMAIN Append(q, o) \ DOMAIN q : Append(q, o)[k] = o /\ k = Len(q) + 1
<1>1. /\ Append(q, o) \in Seq(Op) /\ Len(Append(q, o)) = Len(q) + 1
      /\ \A k \in 1..Len(q) : Append(q, o)[k] = q[k]
      /\ Append(q, o)[Len(q) + 1] = o
      /\ DOMAIN q = 1..Len(q) /\ DOMAIN Append(q, o) = 1..Len(Append(q, o)) /\ Len(q) \in Nat
  OBVIOUS
<1>2. QED  BY <1>1

LEMMA Tailed ==
    ASSUME NEW q \in Seq(Op), q # <<>>
    PROVE  /\ Tail(q) \in Seq(Op) /\ 1 \in DOMAIN q /\ Head(q) = q[1] /\ q[1] \in Op
           /\ \A k \in DOMAIN Tail(q) :
                 k \in Nat \ {0} /\ k + 1 \in DOMAIN q /\ Tail(q)[k] = q[k + 1]
OBVIOUS

(* Work that is no join comes to the chain.                                *)
LEMMA Enqueued ==
    ASSUME ChainTyped, NEW r \in Rooms, NEW a \in {"session", "message"},
           chain' = Append(chain, [op |-> a, room |-> r]), UNCHANGED flow
    PROVE  ChainTyped'
<1> DEFINE o == [op |-> a, room |-> r]
<1>1. o \in Op /\ o.op # "join"
  BY DEF Op
<1>2. chain' = Append(chain, o) /\ chain \in Seq(Op)
  BY DEF ChainTyped
<1> HIDE DEF o
<1>3. /\ chain' \in Seq(Op) /\ DOMAIN chain \subseteq DOMAIN chain'
      /\ \A k \in DOMAIN chain : chain'[k] = chain[k]
      /\ \A k \in DOMAIN chain' \ DOMAIN chain : chain'[k] = o
  BY <1>1, <1>2, Appended
<1>4. QED  BY <1>1, <1>3 DEF ChainTyped

(* The head of the chain is done.                                          *)
LEMMA Dequeued ==
    ASSUME ChainTyped, NEW o \in Op, runs(o)
    PROVE  /\ chain' \in Seq(Op) /\ o.room \in Rooms
           /\ \A k \in DOMAIN chain' :
                 /\ k \in Nat \ {0} /\ k + 1 \in DOMAIN chain /\ chain'[k] = chain[k + 1]
           /\ 1 \in DOMAIN chain /\ chain[1] = o
<1>1. chain \in Seq(Op) /\ chain # <<>> /\ Head(chain) = o /\ chain' = Tail(chain)
  BY DEF ChainTyped, runs
<1>2. QED  BY <1>1, Tailed, OpFields

LEMMA DequeuedTyped ==
    ASSUME ChainTyped, NEW o \in Op, runs(o),
           \A r \in Rooms : flow'[r] = flow[r] \/ (o.op = "join" /\ r = o.room)
    PROVE  ChainTyped'
<1>1. /\ chain' \in Seq(Op) /\ o.room \in Rooms
      /\ \A k \in DOMAIN chain' :
            /\ k \in Nat \ {0} /\ k + 1 \in DOMAIN chain /\ chain'[k] = chain[k + 1]
      /\ 1 \in DOMAIN chain /\ chain[1] = o
  BY Dequeued
<1>2. \A i, j \in DOMAIN chain' : chain'[i].op = "join" /\ chain'[j] = chain'[i] => i = j
  BY <1>1 DEF ChainTyped
<1>3. ASSUME NEW i \in DOMAIN chain', chain'[i].op = "join"
      PROVE  flow'[chain'[i].room] = "queued"
  <2>1. chain[i + 1].op = "join" /\ i + 1 \in DOMAIN chain /\ i + 1 # 1
    BY <1>1, <1>3
  <2>2. flow[chain[i + 1].room] = "queued" /\ chain[i + 1] \in Op /\ chain[i + 1] # o
    BY <1>1, <2>1 DEF ChainTyped
  <2>3. chain[i + 1].room \in Rooms /\ ~(o.op = "join" /\ chain[i + 1].room = o.room)
    BY <2>1, <2>2, OpFields
  <2>4. QED  BY <1>1, <2>2, <2>3
<1>4. QED  BY <1>1, <1>2, <1>3 DEF ChainTyped

(* Flows change; the chain does not.                                       *)
LEMMA FlowsOn ==
    ASSUME ChainTyped, UNCHANGED chain,
           \A r \in Rooms : flow[r] = "queued" => flow'[r] = "queued"
    PROVE  ChainTyped'
<1>1. \A i \in DOMAIN chain : chain[i].room \in Rooms
  <2>1. \A i \in DOMAIN chain : chain[i] \in Op
    BY DEF ChainTyped
  <2>2. QED  BY <2>1, OpFields
<1>2. QED  BY <1>1 DEF ChainTyped

(* What the event of a user who left may do to the tables and to the list. *)
UserLeft(r) ==
    /\ list' \in [Rooms -> Nat] /\ \A q \in Rooms : list'[q] <= list[q]
    /\ rows' \subseteq rows /\ history' \subseteq history /\ sessions' \subseteq sessions
    /\ history' \cup sessions' \subseteq rows' \cup late
    /\ \A q \in Rooms \ {r} : q \in rows' <=> q \in rows

LEMMA UserLeftDoes ==
    ASSUME TablesTyped, ListBounded, NothingLeftOver, NEW r \in Rooms, NEW u,
           handleUserLeftRoom(r, u)
    PROVE  UserLeft(r)
<1>1. CASE UNCHANGED <<tables, list>>
  BY <1>1 DEF UserLeft, tables, ListBounded, NothingLeftOver
<1>2. CASE performLocalRoomCleanup(r)
  BY <1>2 DEF performLocalRoomCleanup, cleanUp, UserLeft, ListBounded,
         NothingLeftOver
<1>3. CASE history' \in {history, history \ {r}} /\ UNCHANGED <<rows, sessions, list>>
  BY <1>3 DEF UserLeft, ListBounded, NothingLeftOver
<1>4. QED  BY <1>1, <1>2, <1>3 DEF handleUserLeftRoom

(* Every step keeps the invariant, action by action.                       *)
LEMMA StepKeeps ==
    ASSUME RoomsIInv, [Next]_vars
    PROVE  RoomsIInv'
<1>0. /\ ServerOf \in [Rooms -> Servers]
      /\ MaxActs \in Nat /\ MaxFaults \in Nat
  BY RoomsAssumption
<1> USE <1>0 DEF RoomsIInv
<1>1. ASSUME NEW r \in Rooms, createRoom(r)
      PROVE  RoomsIInv'
  <2>1. TablesTyped' /\ SyncTyped' /\ ListIsFresh' /\ NothingLeftOver'
    BY <1>1 DEF createRoom, Asks, Acts, servers, tables, TablesTyped,
           SyncTyped, ListIsFresh, NothingLeftOver
  <2>2. FlowTyped'
    BY <1>1 DEF createRoom, begin, Asks, Acts, servers, tables, FlowTyped,
           Flows
  <2>3. ChainTyped'
    BY <1>1, FlowsOn DEF createRoom, begin, Asks, FlowTyped
  <2>4. ListBounded'
    BY <1>1 DEF createRoom, begin, Asks, Acts, servers, tables, ListBounded,
           Entering, FlowTyped
  <2>5. FlowIsTrue'
    BY <1>1 DEF createRoom, begin, Asks, Acts, servers, tables, FlowIsTrue,
           TablesTyped, FlowTyped
  <2>6. TableIsTrue'
    BY <1>1 DEF createRoom, begin, Asks, Acts, servers, tables, TableIsTrue,
           FlowIsTrue, ListIsFresh, SyncTyped, Sync, TablesTyped, FlowTyped, of
  <2>7. QED  BY <2>1, <2>2, <2>3, <2>4, <2>5, <2>6
<1>2. ASSUME NEW r \in Rooms, joinRoom(r)
      PROVE  RoomsIInv'
  <2>1. TablesTyped' /\ SyncTyped' /\ ListIsFresh' /\ NothingLeftOver'
    BY <1>2 DEF joinRoom, Asks, Acts, servers, tables, TablesTyped, SyncTyped,
           ListIsFresh, NothingLeftOver
  <2>2. FlowTyped'
    BY <1>2 DEF joinRoom, begin, Asks, Acts, servers, tables, FlowTyped, Flows
  <2>3. ChainTyped'
    BY <1>2, FlowsOn DEF joinRoom, begin, Asks, FlowTyped
  <2>4. ListBounded'
    BY <1>2 DEF joinRoom, begin, Asks, Acts, servers, tables, ListBounded,
           Entering, FlowTyped
  <2>5. FlowIsTrue'
    BY <1>2 DEF joinRoom, begin, Asks, Acts, servers, tables, FlowIsTrue,
           TablesTyped, FlowTyped
  <2>6. TableIsTrue'
    BY <1>2 DEF joinRoom, begin, Asks, Acts, servers, tables, TableIsTrue,
           FlowIsTrue, ListIsFresh, SyncTyped, Sync, TablesTyped, FlowTyped, of
  <2>7. QED  BY <2>1, <2>2, <2>3, <2>4, <2>5, <2>6
<1>3. ASSUME NEW r \in Rooms, deleteRoom(r)
      PROVE  RoomsIInv'
  <2>1. TablesTyped' /\ SyncTyped' /\ ListIsFresh' /\ NothingLeftOver'
    BY <1>3 DEF deleteRoom, Asks, Acts, servers, tables, TablesTyped,
           SyncTyped, ListIsFresh, NothingLeftOver
  <2>2. FlowTyped'
    BY <1>3 DEF deleteRoom, begin, Asks, Acts, servers, tables, FlowTyped,
           Flows
  <2>3. ChainTyped'
    BY <1>3, FlowsOn DEF deleteRoom, begin, Asks, FlowTyped
  <2>4. ListBounded'
    BY <1>3 DEF deleteRoom, begin, Asks, Acts, servers, tables, ListBounded,
           Entering, FlowTyped
  <2>5. FlowIsTrue'
    BY <1>3 DEF deleteRoom, begin, Asks, Acts, servers, tables, FlowIsTrue,
           TablesTyped, FlowTyped
  <2>6. TableIsTrue'
    BY <1>3 DEF deleteRoom, begin, Asks, Acts, servers, tables, TableIsTrue,
           FlowIsTrue, ListIsFresh, SyncTyped, Sync, TablesTyped, FlowTyped, of
  <2>7. QED  BY <2>1, <2>2, <2>3, <2>4, <2>5, <2>6
<1>4. ASSUME NEW r \in Rooms, serverCreates(r)
      PROVE  RoomsIInv'
  <2>1. SyncTyped' /\ NothingLeftOver'
    BY <1>4 DEF serverCreates, tables, counters, SyncTyped, NothingLeftOver
  <2>2. TablesTyped'
    BY <1>4 DEF serverCreates, begin, overtaken, excuse, tables, counters,
           TablesTyped
  <2>3. FlowTyped'
    BY <1>4 DEF serverCreates, begin, overtaken, excuse, tables, counters,
           FlowTyped, Flows
  <2>4. ChainTyped'
    BY <1>4, FlowsOn DEF serverCreates, begin, Asks, FlowTyped
  <2>5. ListBounded'
    BY <1>4 DEF serverCreates, begin, overtaken, excuse, tables, counters,
           ListBounded, Entering, FlowTyped
  <2>6. FlowIsTrue'
    BY <1>4 DEF serverCreates, begin, overtaken, excuse, tables, counters,
           FlowIsTrue, TablesTyped, FlowTyped
  <2>7. ListIsFresh'
    BY <1>4 DEF serverCreates, begin, overtaken, excuse, tables, counters,
           ListIsFresh, SyncTyped, Sync, TablesTyped, FlowTyped, of
  <2>8. TableIsTrue'
    BY <1>4 DEF serverCreates, begin, overtaken, excuse, tables, counters,
           TableIsTrue, FlowIsTrue, ListIsFresh, SyncTyped, Sync, TablesTyped,
           FlowTyped, of
  <2>9. QED  BY <2>1, <2>2, <2>3, <2>4, <2>5, <2>6, <2>7, <2>8
<1>5. ASSUME NEW r \in Rooms, serverJoins(r)
      PROVE  RoomsIInv'
  <2>1. SyncTyped' /\ NothingLeftOver'
    BY <1>5 DEF serverJoins, tables, counters, SyncTyped, NothingLeftOver
  <2>2. TablesTyped'
    BY <1>5 DEF serverJoins, begin, overtaken, excuse, tables, counters,
           TablesTyped
  <2>3. FlowTyped'
    BY <1>5 DEF serverJoins, begin, overtaken, excuse, tables, counters,
           FlowTyped, Flows
  <2>4. ChainTyped'
    BY <1>5, FlowsOn DEF serverJoins, begin, Asks, FlowTyped
  <2>5. ListBounded'
    BY <1>5 DEF serverJoins, begin, overtaken, excuse, tables, counters,
           ListBounded, Entering, FlowTyped
  <2>6. FlowIsTrue'
    BY <1>5 DEF serverJoins, begin, overtaken, excuse, tables, counters,
           FlowIsTrue, TablesTyped, FlowTyped
  <2>7. ListIsFresh'
    BY <1>5 DEF serverJoins, begin, overtaken, excuse, tables, counters,
           ListIsFresh, SyncTyped, Sync, TablesTyped, FlowTyped, of
  <2>8. TableIsTrue'
    BY <1>5 DEF serverJoins, begin, overtaken, excuse, tables, counters,
           TableIsTrue, FlowIsTrue, ListIsFresh, SyncTyped, Sync, TablesTyped,
           FlowTyped, of
  <2>9. QED  BY <2>1, <2>2, <2>3, <2>4, <2>5, <2>6, <2>7, <2>8
<1>6. ASSUME NEW r \in Rooms, serverDeletes(r)
      PROVE  RoomsIInv'
  <2>1. SyncTyped' /\ NothingLeftOver'
    BY <1>6 DEF serverDeletes, tables, counters, SyncTyped, NothingLeftOver
  <2>2. TablesTyped'
    BY <1>6 DEF serverDeletes, begin, overtaken, excuse, tables, counters,
           TablesTyped
  <2>3. FlowTyped'
    BY <1>6 DEF serverDeletes, begin, overtaken, excuse, tables, counters,
           FlowTyped, Flows
  <2>4. ChainTyped'
    BY <1>6, FlowsOn DEF serverDeletes, begin, Asks, FlowTyped
  <2>5. ListBounded'
    BY <1>6 DEF serverDeletes, begin, overtaken, excuse, tables, counters,
           ListBounded, Entering, FlowTyped
  <2>6. FlowIsTrue'
    BY <1>6 DEF serverDeletes, begin, overtaken, excuse, tables, counters,
           FlowIsTrue, TablesTyped, FlowTyped
  <2>7. ListIsFresh'
    BY <1>6 DEF serverDeletes, begin, overtaken, excuse, tables, counters,
           ListIsFresh, SyncTyped, Sync, TablesTyped, FlowTyped, of
  <2>8. TableIsTrue'
    BY <1>6 DEF serverDeletes, begin, overtaken, excuse, tables, counters,
           TableIsTrue, FlowIsTrue, ListIsFresh, SyncTyped, Sync, TablesTyped,
           FlowTyped, of
  <2>9. QED  BY <2>1, <2>2, <2>3, <2>4, <2>5, <2>6, <2>7, <2>8
<1>7. ASSUME NEW r \in Rooms, requestFails(r)
      PROVE  RoomsIInv'
  <2>1. SyncTyped' /\ NothingLeftOver'
    BY <1>7 DEF requestFails, Fails, servers, tables, SyncTyped,
           NothingLeftOver
  <2>2. TablesTyped'
    BY <1>7 DEF requestFails, begin, Fails, excuse, servers, tables,
           TablesTyped
  <2>3. FlowTyped'
    BY <1>7 DEF requestFails, begin, Fails, excuse, servers, tables, FlowTyped,
           Flows
  <2>4. ChainTyped'
    BY <1>7, FlowsOn DEF requestFails, begin, Asks, FlowTyped
  <2>5. ListBounded'
    BY <1>7 DEF requestFails, begin, Fails, excuse, servers, tables,
           ListBounded, Entering, FlowTyped
  <2>6. FlowIsTrue'
    BY <1>7 DEF requestFails, begin, Fails, excuse, servers, tables,
           FlowIsTrue, TablesTyped, FlowTyped
  <2>7. ListIsFresh'
    BY <1>7 DEF requestFails, begin, Fails, excuse, servers, tables,
           ListIsFresh, SyncTyped, Sync, TablesTyped, FlowTyped, of
  <2>8. TableIsTrue'
    BY <1>7 DEF requestFails, begin, Fails, excuse, servers, tables,
           TableIsTrue, FlowIsTrue, ListIsFresh, SyncTyped, Sync, TablesTyped,
           FlowTyped, of
  <2>9. QED  BY <2>1, <2>2, <2>3, <2>4, <2>5, <2>6, <2>7, <2>8
<1>8. ASSUME NEW r \in Rooms, created(r)
      PROVE  RoomsIInv'
  <2>1. SyncTyped' /\ ListIsFresh'
    BY <1>8 DEF created, servers, counters, SyncTyped, ListIsFresh
  <2>2. TablesTyped'
    BY <1>8 DEF created, begin, addRoomToList, servers, counters, TablesTyped
  <2>3. FlowTyped'
    BY <1>8 DEF created, begin, addRoomToList, servers, counters, FlowTyped,
           Flows
  <2>4. ChainTyped'
    BY <1>8, FlowsOn DEF created, begin, Asks, FlowTyped
  <2>5. ListBounded'
    BY <1>8 DEF created, begin, addRoomToList, servers, counters, ListBounded,
           Entering, FlowTyped
  <2>6. FlowIsTrue'
    BY <1>8 DEF created, begin, addRoomToList, servers, counters, FlowIsTrue,
           TablesTyped, FlowTyped
  <2>7. TableIsTrue'
    BY <1>8 DEF created, begin, addRoomToList, servers, counters, TableIsTrue,
           FlowIsTrue, ListIsFresh, SyncTyped, Sync, TablesTyped, FlowTyped, of
  <2>8. NothingLeftOver'
    BY <1>8 DEF created, begin, addRoomToList, servers, counters,
           NothingLeftOver, TablesTyped
  <2>9. QED  BY <2>1, <2>2, <2>3, <2>4, <2>5, <2>6, <2>7, <2>8
<1>9. ASSUME NEW r \in Rooms, joined(r)
      PROVE  RoomsIInv'
  <2>1. SyncTyped' /\ ListIsFresh'
    BY <1>9 DEF joined, servers, counters, SyncTyped, ListIsFresh
  <2>2. TablesTyped'
    BY <1>9 DEF joined, begin, servers, counters, TablesTyped
  <2>3. FlowTyped'
    BY <1>9 DEF joined, begin, servers, counters, FlowTyped, Flows
  <2>4. ChainTyped'
    BY <1>9, FlowsOn DEF joined, begin, Asks, FlowTyped
  <2>5. ListBounded'
    BY <1>9 DEF joined, begin, servers, counters, ListBounded, Entering,
           FlowTyped
  <2>6. FlowIsTrue'
    BY <1>9 DEF joined, begin, servers, counters, FlowIsTrue, TablesTyped,
           FlowTyped
  <2>7. TableIsTrue'
    BY <1>9 DEF joined, begin, servers, counters, TableIsTrue, FlowIsTrue,
           ListIsFresh, SyncTyped, Sync, TablesTyped, FlowTyped, of
  <2>8. NothingLeftOver'
    BY <1>9 DEF joined, begin, servers, counters, NothingLeftOver, TablesTyped
  <2>9. QED  BY <2>1, <2>2, <2>3, <2>4, <2>5, <2>6, <2>7, <2>8
<1>10. ASSUME NEW r \in Rooms, joinMembers(r)
      PROVE  RoomsIInv'
  <2>1. TablesTyped' /\ SyncTyped' /\ ListIsFresh' /\ NothingLeftOver'
    BY <1>10 DEF joinMembers, servers, tables, counters, TablesTyped,
           SyncTyped, ListIsFresh, NothingLeftOver
  <2>2. FlowTyped'
    BY <1>10 DEF joinMembers, begin, servers, tables, counters, FlowTyped,
           Flows
  <2>3. ChainTyped'
    <3> DEFINE o == [op |-> "join", room |-> r]
    <3>1. o \in Op /\ o.op = "join" /\ o.room = r /\ chain \in Seq(Op)
      BY DEF Op, ChainTyped
    <3>2. chain' = Append(chain, o) /\ flow[r] = "members" /\ flow' = [flow EXCEPT ![r] = "queued"]
      BY <1>10 DEF joinMembers, begin
    <3> HIDE DEF o
    <3>3. /\ chain' \in Seq(Op) /\ DOMAIN chain \subseteq DOMAIN chain'
          /\ \A k \in DOMAIN chain : chain'[k] = chain[k] /\ chain[k] \in Op /\ chain[k].room \in Rooms
          /\ \A k \in DOMAIN chain' \ DOMAIN chain : chain'[k] = o /\ k = Len(chain) + 1
      <4>1. \A k \in DOMAIN chain : chain[k] \in Op
        BY <3>1
      <4>2. QED  BY <3>1, <3>2, <4>1, Appended, OpFields
    <3>4. \A k \in DOMAIN chain : chain[k] # o
      BY <3>1, <3>2 DEF ChainTyped
    <3>5. \A i \in DOMAIN chain' : chain'[i].op = "join" => flow'[chain'[i].room] = "queued"
      BY <3>1, <3>2, <3>3 DEF ChainTyped, FlowTyped
    <3>6. \A i, j \in DOMAIN chain' : chain'[i].op = "join" /\ chain'[j] = chain'[i] => i = j
      BY <3>3, <3>4 DEF ChainTyped
    <3>7. QED  BY <3>3, <3>5, <3>6 DEF ChainTyped
  <2>4. ListBounded'
    BY <1>10 DEF joinMembers, begin, servers, tables, counters, ListBounded,
           Entering, FlowTyped
  <2>5. FlowIsTrue'
    BY <1>10 DEF joinMembers, begin, servers, tables, counters, FlowIsTrue,
           TablesTyped, FlowTyped
  <2>6. TableIsTrue'
    BY <1>10 DEF joinMembers, begin, servers, tables, counters, TableIsTrue,
           FlowIsTrue, ListIsFresh, SyncTyped, Sync, TablesTyped, FlowTyped, of
  <2>7. QED  BY <2>1, <2>2, <2>3, <2>4, <2>5, <2>6
<1>11. ASSUME NEW r \in Rooms, deleted(r)
      PROVE  RoomsIInv'
  <2>1. SyncTyped' /\ ListIsFresh'
    BY <1>11 DEF deleted, performLocalRoomCleanup, cleanUp, servers, counters,
           SyncTyped, ListIsFresh
  <2>2. TablesTyped'
    BY <1>11 DEF deleted, begin, performLocalRoomCleanup, cleanUp, servers,
           counters, TablesTyped
  <2>3. FlowTyped'
    BY <1>11 DEF deleted, begin, performLocalRoomCleanup, cleanUp, servers,
           counters, FlowTyped, Flows
  <2>4. ChainTyped'
    BY <1>11, FlowsOn DEF deleted, begin, Asks, FlowTyped
  <2>5. ListBounded'
    BY <1>11 DEF deleted, begin, performLocalRoomCleanup, cleanUp, servers,
           counters, ListBounded, Entering, FlowTyped
  <2>6. FlowIsTrue'
    BY <1>11 DEF deleted, begin, performLocalRoomCleanup, cleanUp, servers,
           counters, FlowIsTrue, TablesTyped, FlowTyped
  <2>7. TableIsTrue'
    BY <1>11 DEF deleted, begin, performLocalRoomCleanup, cleanUp, servers,
           counters, TableIsTrue, FlowIsTrue, ListIsFresh, SyncTyped, Sync,
           TablesTyped, FlowTyped, of
  <2>8. NothingLeftOver'
    BY <1>11 DEF deleted, begin, performLocalRoomCleanup, cleanUp, servers,
           counters, NothingLeftOver, TablesTyped
  <2>9. QED  BY <2>1, <2>2, <2>3, <2>4, <2>5, <2>6, <2>7, <2>8
<1>12. ASSUME NEW r \in Rooms, roomGone(r)
      PROVE  RoomsIInv'
  <2>1. SyncTyped' /\ ChainTyped'
    BY <1>12 DEF roomGone, Acts, onRoomDeleted, performLocalRoomCleanup,
           cleanUp, tables, SyncTyped, ChainTyped
  <2>2. TablesTyped'
    BY <1>12 DEF roomGone, Acts, onRoomDeleted, performLocalRoomCleanup,
           cleanUp, overtaken, excuse, tables, TablesTyped
  <2>3. FlowTyped'
    BY <1>12 DEF roomGone, Acts, onRoomDeleted, performLocalRoomCleanup,
           cleanUp, overtaken, excuse, tables, FlowTyped, Flows
  <2>4. ListBounded'
    BY <1>12 DEF roomGone, Acts, onRoomDeleted, performLocalRoomCleanup,
           cleanUp, overtaken, excuse, tables, ListBounded, Entering, FlowTyped
  <2>5. FlowIsTrue'
    BY <1>12 DEF roomGone, Acts, onRoomDeleted, performLocalRoomCleanup,
           cleanUp, overtaken, excuse, tables, FlowIsTrue, TablesTyped,
           FlowTyped
  <2>6. ListIsFresh'
    BY <1>12 DEF roomGone, Acts, onRoomDeleted, performLocalRoomCleanup,
           cleanUp, overtaken, excuse, tables, ListIsFresh, SyncTyped, Sync,
           TablesTyped, FlowTyped, of
  <2>7. TableIsTrue'
    BY <1>12 DEF roomGone, Acts, onRoomDeleted, performLocalRoomCleanup,
           cleanUp, overtaken, excuse, tables, TableIsTrue, FlowIsTrue,
           ListIsFresh, SyncTyped, Sync, TablesTyped, FlowTyped, of
  <2>8. NothingLeftOver'
    BY <1>12 DEF roomGone, Acts, onRoomDeleted, performLocalRoomCleanup,
           cleanUp, overtaken, excuse, tables, NothingLeftOver, TablesTyped
  <2>9. QED  BY <2>1, <2>2, <2>3, <2>4, <2>5, <2>6, <2>7, <2>8
<1>13. ASSUME NEW r \in Rooms, handleIncomingMessage(r)
      PROVE  RoomsIInv'
  <2>1. /\ TablesTyped' /\ SyncTyped' /\ FlowIsTrue'
        /\ ListIsFresh' /\ TableIsTrue' /\ NothingLeftOver'
    BY <1>13 DEF handleIncomingMessage, servers, tables, TablesTyped,
           SyncTyped, FlowIsTrue, ListIsFresh, TableIsTrue, NothingLeftOver
  <2>2. FlowTyped' /\ ListBounded'
    BY <1>13 DEF handleIncomingMessage, Acts, FlowTyped, Flows, ListBounded,
           Entering
  <2>3. ChainTyped'
    BY <1>13, Enqueued DEF handleIncomingMessage
  <2>4. QED  BY <2>1, <2>2, <2>3
<1>a. ASSUME NEW r \in Rooms, weLeave(r)
      PROVE  RoomsIInv'
  <2>0. UserLeft(r)
    BY <1>a, UserLeftDoes DEF weLeave
  <2>1. SyncTyped' /\ ChainTyped'
    BY <1>a DEF weLeave, SyncTyped, ChainTyped
  <2>2. TablesTyped' /\ FlowTyped' /\ ListBounded' /\ NothingLeftOver'
    BY <1>a, <2>0 DEF weLeave, UserLeft, Acts, overtaken, excuse, TablesTyped,
           FlowTyped, Flows, ListBounded, Entering, NothingLeftOver
  <2>3. FlowIsTrue'
    BY <1>a DEF weLeave, Acts, overtaken, excuse, FlowIsTrue, TablesTyped,
           FlowTyped
  <2>4. ListIsFresh'
    BY <1>a DEF weLeave, overtaken, excuse, ListIsFresh, SyncTyped, Sync,
           TablesTyped, of
  <2>5. TableIsTrue'
    <3>1. ASSUME NEW q \in Rooms, q # r
          PROVE  (q \in rows' <=> q \in rows) /\ (q \in member' <=> q \in member)
      BY <1>a, <2>0, <3>1 DEF weLeave, UserLeft
    <3>2. ASSUME ServerOf[r] \in online' \ excused'
          PROVE  r \notin rows' /\ r \notin member'
      <4>1. ~custom(ServerOf[r]) /\ ServerOf[r] \in online
        BY <1>a, <3>2 DEF weLeave, excuse
      <4>2. r \notin rows'
        BY <1>a, <4>1 DEF weLeave, custom, handleUserLeftRoom,
               performLocalRoomCleanup, cleanUp
      <4> QED  BY <1>a, <4>2 DEF weLeave
    <3>3. /\ online' \ excused' \subseteq online \ excused
          /\ sync' = sync /\ flow' = flow
      BY <1>a DEF weLeave, excuse
    <3> QED  BY <3>1, <3>2, <3>3 DEF TableIsTrue
  <2>6. QED  BY <2>1, <2>2, <2>3, <2>4, <2>5
<1>b. ASSUME NEW r \in Rooms, NEW u \in Users, anotherLeaves(r, u)
      PROVE  RoomsIInv'
  <2>0. UserLeft(r)
    BY <1>b, UserLeftDoes DEF anotherLeaves
  <2>1. SyncTyped' /\ ChainTyped'
    BY <1>b DEF anotherLeaves, SyncTyped, ChainTyped
  <2>2. TablesTyped' /\ FlowTyped' /\ ListBounded' /\ NothingLeftOver'
    BY <1>b, <2>0 DEF anotherLeaves, servers, UserLeft, Acts, excuse,
           TablesTyped, FlowTyped, Flows, ListBounded, Entering, NothingLeftOver
  <2>3. FlowIsTrue' /\ ListIsFresh'
    BY <1>b DEF anotherLeaves, servers, excuse, FlowIsTrue, ListIsFresh
  <2>4. TableIsTrue'
    <3>1. ASSUME NEW q \in Rooms, ServerOf[q] \in online' \ excused'
          PROVE  q \in rows' <=> q \in rows
      <4>1. CASE q # r
        BY <2>0, <4>1 DEF UserLeft
      <4>2. CASE q = r
        BY <1>b, <3>1, <4>2 DEF anotherLeaves, excuse, handleUserLeftRoom,
               tables
      <4> QED  BY <4>1, <4>2
    <3>2. /\ online' \ excused' \subseteq online \ excused
          /\ sync' = sync /\ flow' = flow /\ member' = member
      BY <1>b DEF anotherLeaves, servers, excuse
    <3> QED  BY <3>1, <3>2 DEF TableIsTrue
  <2>5. QED  BY <2>1, <2>2, <2>3, <2>4
<1>14. ASSUME NEW r \in Rooms, joinOperation(r)
      PROVE  RoomsIInv'
  <2> DEFINE o == [op |-> "join", room |-> r]
  <2>a. o \in Op /\ o.op = "join" /\ o.room = r
    BY DEF Op
  <2>b. runs(o) /\ noted(r) /\ flow' = [flow EXCEPT ![r] = "no"]
    BY <1>14 DEF joinOperation, begin
  <2> HIDE DEF o
  <2>c. flow[r] = "queued"
    BY <2>a, <2>b, Dequeued DEF ChainTyped
  <2>1. SyncTyped' /\ ListIsFresh'
    BY <1>14 DEF joinOperation, noted, servers, counters, SyncTyped,
           ListIsFresh
  <2>2. TablesTyped'
    BY <1>14 DEF joinOperation, noted, begin, addRoomToList, servers, counters,
           TablesTyped
  <2>3. FlowTyped'
    BY <1>14 DEF joinOperation, noted, begin, addRoomToList, servers, counters,
           FlowTyped, Flows
  <2>4. ChainTyped'
    <3>1. \A q \in Rooms : flow'[q] = flow[q] \/ (o.op = "join" /\ q = o.room)
      BY <2>a, <2>b DEF FlowTyped
    <3>2. QED  BY <2>a, <2>b, <3>1, DequeuedTyped
  <2>5. ListBounded'
    BY <1>14, <2>c DEF joinOperation, begin, addRoomToList, counters,
           ListBounded,
      Entering, FlowTyped
  <2>6. FlowIsTrue'
    BY <1>14 DEF joinOperation, noted, begin, addRoomToList, servers, counters,
           FlowIsTrue, TablesTyped, FlowTyped
  <2>7. TableIsTrue'
    BY <1>14, <2>c DEF joinOperation, begin, servers, TableIsTrue, FlowTyped
  <2>8. NothingLeftOver'
    BY <1>14 DEF joinOperation, noted, begin, addRoomToList, servers, counters,
           NothingLeftOver, TablesTyped
  <2>9. QED  BY <2>1, <2>2, <2>3, <2>4, <2>5, <2>6, <2>7, <2>8
<1>15. ASSUME NEW r \in Rooms, setSession(r)
      PROVE  RoomsIInv'
  <2> DEFINE o == [op |-> "session", room |-> r]
  <2>a. o \in Op /\ o.op = "session" /\ o.room = r
    BY DEF Op
  <2>b. runs(o) /\ noted(r) /\ flow' = flow
    BY <1>15 DEF setSession, begin
  <2> HIDE DEF o
  <2>1. /\ FlowTyped' /\ SyncTyped' /\ ListBounded' /\ FlowIsTrue'
        /\ ListIsFresh' /\ TableIsTrue'
    BY <1>15 DEF setSession, noted, servers, counters, FlowTyped, SyncTyped,
           ListBounded, FlowIsTrue, ListIsFresh, TableIsTrue
  <2>2. TablesTyped'
    BY <1>15 DEF setSession, noted, servers, counters, TablesTyped
  <2>3. ChainTyped'
    <3>1. \A q \in Rooms : flow'[q] = flow[q] \/ (o.op = "join" /\ q = o.room)
      BY <2>a, <2>b DEF FlowTyped
    <3>2. QED  BY <2>a, <2>b, <3>1, DequeuedTyped
  <2>4. NothingLeftOver'
    BY <1>15 DEF setSession, noted, servers, counters, NothingLeftOver,
           TablesTyped
  <2>5. QED  BY <2>1, <2>2, <2>3, <2>4
<1>16. ASSUME NEW r \in Rooms, processEnvelope(r)
      PROVE  RoomsIInv'
  <2> DEFINE o == [op |-> "message", room |-> r]
  <2>a. o \in Op /\ o.op = "message" /\ o.room = r
    BY DEF Op
  <2>b. runs(o) /\ noted(r) /\ flow' = flow
    BY <1>16 DEF processEnvelope, begin
  <2> HIDE DEF o
  <2>1. /\ FlowTyped' /\ SyncTyped' /\ ListBounded' /\ FlowIsTrue'
        /\ ListIsFresh' /\ TableIsTrue'
    BY <1>16 DEF processEnvelope, noted, servers, counters, FlowTyped,
           SyncTyped, ListBounded, FlowIsTrue, ListIsFresh, TableIsTrue
  <2>2. TablesTyped'
    BY <1>16 DEF processEnvelope, noted, servers, counters, TablesTyped
  <2>3. ChainTyped'
    <3>1. \A q \in Rooms : flow'[q] = flow[q] \/ (o.op = "join" /\ q = o.room)
      BY <2>a, <2>b DEF FlowTyped
    <3>2. QED  BY <2>a, <2>b, <3>1, DequeuedTyped
  <2>4. NothingLeftOver'
    BY <1>16 DEF processEnvelope, noted, servers, counters, NothingLeftOver,
           TablesTyped
  <2>5. QED  BY <2>1, <2>2, <2>3, <2>4
<1>17. ASSUME NEW s \in Servers, startSync(s)
      PROVE  RoomsIInv'
  <2>1. FlowTyped' /\ ChainTyped' /\ ListBounded' /\ NothingLeftOver'
    BY <1>17 DEF startSync, servers, tables, counters, FlowTyped, ChainTyped,
           ListBounded, NothingLeftOver
  <2>2. TablesTyped'
    BY <1>17 DEF startSync, busy, servers, tables, counters, TablesTyped
  <2>3. SyncTyped'
    BY <1>17 DEF startSync, busy, servers, tables, counters, SyncTyped, Sync,
           of, TablesTyped
  <2>4. FlowIsTrue'
    <3>1. \A r \in Rooms : ServerOf[r] \in excused /\ flow[r] # "no" => ServerOf[r] \in excused'
      BY <1>17 DEF startSync, busy, of
    <3>2. QED  BY <1>17, <3>1 DEF startSync, servers, FlowIsTrue
  <2>5. ListIsFresh'
    BY <1>17 DEF startSync, busy, servers, tables, counters, ListIsFresh,
           SyncTyped, Sync, TablesTyped, FlowTyped, of
  <2>6. TableIsTrue'
    BY <1>17 DEF startSync, busy, servers, tables, counters, TableIsTrue,
           FlowIsTrue, ListIsFresh, SyncTyped, Sync, TablesTyped, FlowTyped, of
  <2>7. QED  BY <2>1, <2>2, <2>3, <2>4, <2>5, <2>6
<1>18. ASSUME NEW s \in Servers, alreadySyncing(s)
      PROVE  RoomsIInv'
  <2>1. /\ FlowTyped' /\ SyncTyped' /\ ChainTyped' /\ ListBounded'
        /\ NothingLeftOver'
    BY <1>18 DEF alreadySyncing, servers, tables, counters, FlowTyped,
           SyncTyped, ChainTyped, ListBounded, NothingLeftOver
  <2>2. TablesTyped'
    BY <1>18 DEF alreadySyncing, excuse, servers, tables, counters, TablesTyped
  <2>3. FlowIsTrue'
    BY <1>18 DEF alreadySyncing, excuse, servers, tables, counters, FlowIsTrue,
           TablesTyped, FlowTyped
  <2>4. ListIsFresh'
    BY <1>18 DEF alreadySyncing, excuse, servers, tables, counters,
           ListIsFresh, SyncTyped, Sync, TablesTyped, FlowTyped, of
  <2>5. TableIsTrue'
    BY <1>18 DEF alreadySyncing, excuse, servers, tables, counters,
           TableIsTrue, FlowIsTrue, ListIsFresh, SyncTyped, Sync, TablesTyped,
           FlowTyped, of
  <2>6. QED  BY <2>1, <2>2, <2>3, <2>4, <2>5
<1>19. ASSUME NEW s \in Servers, disconnect(s)
      PROVE  RoomsIInv'
  <2>1. /\ FlowTyped' /\ SyncTyped' /\ ChainTyped' /\ ListBounded'
        /\ FlowIsTrue' /\ ListIsFresh' /\ NothingLeftOver'
    BY <1>19 DEF disconnect, servers, tables, counters, FlowTyped, SyncTyped,
           ChainTyped, ListBounded, FlowIsTrue, ListIsFresh, NothingLeftOver
  <2>2. TablesTyped'
    BY <1>19 DEF disconnect, servers, tables, counters, TablesTyped
  <2>3. TableIsTrue'
    BY <1>19 DEF disconnect, servers, tables, counters, TableIsTrue,
           FlowIsTrue, ListIsFresh, SyncTyped, Sync, TablesTyped, FlowTyped, of
  <2>4. QED  BY <2>1, <2>2, <2>3
<1>20. ASSUME NEW s \in Servers, getAllRooms(s)
      PROVE  RoomsIInv'
  <2>1. /\ TablesTyped' /\ FlowTyped' /\ ChainTyped' /\ ListBounded'
        /\ FlowIsTrue' /\ NothingLeftOver'
    BY <1>20 DEF getAllRooms, servers, tables, counters, TablesTyped,
           FlowTyped, ChainTyped, ListBounded, FlowIsTrue, NothingLeftOver
  <2>2. SyncTyped'
    <3>1. member \cap of(s) \in SUBSET Rooms
      BY DEF TablesTyped
    <3>2. sync' = [sync EXCEPT ![s] = [@ EXCEPT !.at = "answered", !.has = member \cap of(s)]]
      BY <1>20 DEF getAllRooms
    <3>3. [sync[s] EXCEPT !.at = "answered", !.has = member \cap of(s)] \in Sync
      BY <3>1 DEF SyncTyped, Sync
    <3>4. QED  BY <3>2, <3>3 DEF SyncTyped, Sync
  <2>3. ListIsFresh'
    BY <1>20 DEF getAllRooms, servers, tables, counters, ListIsFresh,
           SyncTyped, Sync, TablesTyped, FlowTyped, of
  <2>4. TableIsTrue'
    BY <1>20 DEF getAllRooms, servers, tables, counters, TableIsTrue,
           FlowIsTrue, ListIsFresh, SyncTyped, Sync, TablesTyped, FlowTyped, of
  <2>5. QED  BY <2>1, <2>2, <2>3, <2>4
<1>21. ASSUME NEW s \in Servers, getAllRoomsFails(s)
      PROVE  RoomsIInv'
  <2>1. ChainTyped' /\ ListBounded' /\ NothingLeftOver'
    BY <1>21 DEF getAllRoomsFails, Fails, servers, tables, ChainTyped,
           ListBounded, NothingLeftOver
  <2>2. TablesTyped'
    BY <1>21 DEF getAllRoomsFails, Fails, excuse, thenMembers, servers, tables,
           TablesTyped
  <2>3. FlowTyped'
    BY <1>21 DEF getAllRoomsFails, Fails, excuse, thenMembers, servers, tables,
           FlowTyped, Flows
  <2>4. SyncTyped'
    BY <1>21 DEF getAllRoomsFails, Fails, excuse, thenMembers, servers, tables,
           SyncTyped, Sync, of, TablesTyped
  <2>5. FlowIsTrue'
    BY <1>21 DEF getAllRoomsFails, Fails, excuse, thenMembers, servers, tables,
           FlowIsTrue, TablesTyped, FlowTyped
  <2>6. ListIsFresh'
    BY <1>21 DEF getAllRoomsFails, Fails, excuse, thenMembers, servers, tables,
           ListIsFresh, SyncTyped, Sync, TablesTyped, FlowTyped, of
  <2>7. TableIsTrue'
    BY <1>21 DEF getAllRoomsFails, Fails, excuse, thenMembers, servers, tables,
           TableIsTrue, FlowIsTrue, ListIsFresh, SyncTyped, Sync, TablesTyped,
           FlowTyped, of
  <2>8. QED  BY <2>1, <2>2, <2>3, <2>4, <2>5, <2>6, <2>7
<1>22. ASSUME NEW s \in Servers, syncAllRoomsFromBackend(s)
      PROVE  RoomsIInv'
  <2>1. FlowTyped' /\ ChainTyped' /\ FlowIsTrue'
    BY <1>22 DEF syncAllRoomsFromBackend, servers, counters, FlowTyped,
           ChainTyped, FlowIsTrue
  <2>2. TablesTyped'
    <3>1. sync[s].has \subseteq Rooms
      BY DEF SyncTyped, of
    <3>2. QED  BY <1>22, <3>1 DEF syncAllRoomsFromBackend, servers, TablesTyped
  <2>3. SyncTyped'
    BY <1>22 DEF syncAllRoomsFromBackend, orphans, setAllRooms, listed,
           thenMembers, servers, counters, SyncTyped, Sync, of, TablesTyped
  <2>4. ListBounded'
    BY <1>22 DEF syncAllRoomsFromBackend, orphans, setAllRooms, listed,
           thenMembers, servers, counters, ListBounded, Entering, FlowTyped
  <2>5. ListIsFresh'
    BY <1>22 DEF syncAllRoomsFromBackend, orphans, setAllRooms, listed,
           thenMembers, servers, counters, ListIsFresh, SyncTyped, Sync,
           TablesTyped, FlowTyped, of
  <2>6. TableIsTrue'
    BY <1>22 DEF syncAllRoomsFromBackend, orphans, setAllRooms, listed,
           thenMembers, servers, counters, TableIsTrue, FlowIsTrue,
           ListIsFresh, SyncTyped, Sync, TablesTyped, FlowTyped, of
  <2>7. NothingLeftOver'
    BY <1>22 DEF syncAllRoomsFromBackend, orphans, setAllRooms, listed,
           thenMembers, servers, counters, NothingLeftOver, TablesTyped
  <2>8. QED  BY <2>1, <2>2, <2>3, <2>4, <2>5, <2>6, <2>7
<1>23. ASSUME NEW s \in Servers, syncRoomMembersAndSessions(s)
      PROVE  RoomsIInv'
  <2>1. /\ TablesTyped' /\ FlowTyped' /\ ListBounded' /\ FlowIsTrue'
        /\ NothingLeftOver'
    BY <1>23 DEF syncRoomMembersAndSessions, servers, tables, counters,
           TablesTyped, FlowTyped, ListBounded, FlowIsTrue, NothingLeftOver
  <2>2. SyncTyped'
    BY <1>23 DEF syncRoomMembersAndSessions, servers, tables, counters,
           SyncTyped, Sync, of, TablesTyped
  <2>3. ChainTyped'
    <3>1. PICK r \in sync[s].todo :
            chain' = IF r \in sessions THEN chain ELSE Append(chain, [op |-> "session", room |-> r])
      BY <1>23 DEF syncRoomMembersAndSessions
    <3>2. r \in Rooms
      BY DEF SyncTyped, of
    <3>3. UNCHANGED flow
      BY <1>23 DEF syncRoomMembersAndSessions
    <3>4. CASE chain' = chain
      BY <3>3, <3>4 DEF ChainTyped
    <3>5. CASE chain' = Append(chain, [op |-> "session", room |-> r])
      BY <3>2, <3>3, <3>5, Enqueued
    <3>6. QED  BY <3>1, <3>4, <3>5
  <2>4. ListIsFresh'
    BY <1>23 DEF syncRoomMembersAndSessions, servers, tables, counters,
           ListIsFresh, SyncTyped, Sync, TablesTyped, FlowTyped, of
  <2>5. TableIsTrue'
    BY <1>23 DEF syncRoomMembersAndSessions, servers, tables, counters,
           TableIsTrue, FlowIsTrue, ListIsFresh, SyncTyped, Sync, TablesTyped,
           FlowTyped, of
  <2>6. QED  BY <2>1, <2>2, <2>3, <2>4, <2>5
<1>24. ASSUME NEW s \in Servers, onConnectedEnds(s)
      PROVE  RoomsIInv'
  <2>1. /\ TablesTyped' /\ FlowTyped' /\ ChainTyped' /\ ListBounded'
        /\ FlowIsTrue' /\ NothingLeftOver'
    BY <1>24 DEF onConnectedEnds, servers, tables, counters, TablesTyped,
           FlowTyped, ChainTyped, ListBounded, FlowIsTrue, NothingLeftOver
  <2>2. SyncTyped'
    BY <1>24 DEF onConnectedEnds, servers, tables, counters, SyncTyped, Sync,
           of, TablesTyped
  <2>3. ListIsFresh'
    BY <1>24 DEF onConnectedEnds, servers, tables, counters, ListIsFresh,
           SyncTyped, Sync, TablesTyped, FlowTyped, of
  <2>4. TableIsTrue'
    BY <1>24 DEF onConnectedEnds, servers, tables, counters, TableIsTrue,
           FlowIsTrue, ListIsFresh, SyncTyped, Sync, TablesTyped, FlowTyped, of
  <2>5. QED  BY <2>1, <2>2, <2>3, <2>4
<1>25. ASSUME loadRooms
      PROVE  RoomsIInv'
  <2>1. /\ TablesTyped' /\ FlowTyped' /\ SyncTyped' /\ ChainTyped'
        /\ FlowIsTrue' /\ ListIsFresh' /\ TableIsTrue' /\ NothingLeftOver'
    BY <1>25 DEF loadRooms, servers, tables, counters, TablesTyped, FlowTyped,
           SyncTyped, ChainTyped, FlowIsTrue, ListIsFresh, TableIsTrue,
           NothingLeftOver
  <2>2. ListBounded'
    BY <1>25 DEF loadRooms, setAllRooms, listed, servers, tables, counters,
           ListBounded, Entering, FlowTyped
  <2>3. QED  BY <2>1, <2>2
<1>26. ASSUME restart
      PROVE  RoomsIInv'
  <2>1. NothingLeftOver'
    BY <1>26 DEF restart, Fails, servers, tables, NothingLeftOver
  <2>2. TablesTyped'
    BY <1>26 DEF restart, Fails, NoSync, listed, servers, tables, TablesTyped
  <2>3. FlowTyped'
    BY <1>26 DEF restart, Fails, NoSync, listed, servers, tables, FlowTyped,
           Flows
  <2>4. SyncTyped'
    BY <1>26 DEF restart, Fails, NoSync, listed, servers, tables, SyncTyped,
           Sync, of, TablesTyped
  <2>5. ChainTyped'
    BY <1>26 DEF restart, Fails, NoSync, listed, servers, tables, ChainTyped,
           FlowTyped
  <2>6. ListBounded'
    BY <1>26 DEF restart, Fails, NoSync, listed, servers, tables, ListBounded,
           Entering, FlowTyped
  <2>7. FlowIsTrue'
    BY <1>26 DEF restart, Fails, NoSync, listed, servers, tables, FlowIsTrue,
           TablesTyped, FlowTyped
  <2>8. ListIsFresh'
    BY <1>26 DEF restart, Fails, NoSync, listed, servers, tables, ListIsFresh,
           SyncTyped, Sync, TablesTyped, FlowTyped, of
  <2>9. TableIsTrue'
    BY <1>26 DEF restart, Fails, NoSync, listed, servers, tables, TableIsTrue,
           FlowIsTrue, ListIsFresh, SyncTyped, Sync, TablesTyped, FlowTyped, of
  <2>10. QED  BY <2>1, <2>2, <2>3, <2>4, <2>5, <2>6, <2>7, <2>8, <2>9
<1>27. CASE UNCHANGED vars
  BY <1>27 DEF vars, servers, tables, counters, TablesTyped, FlowTyped,
         SyncTyped, ChainTyped, ListBounded, FlowIsTrue, ListIsFresh,
         TableIsTrue, NothingLeftOver
<1>28. QED
  BY <1>1, <1>2, <1>3, <1>4, <1>5, <1>6, <1>7, <1>8, <1>9, <1>10, <1>11, <1>12,
         <1>13, <1>14, <1>15, <1>16, <1>17, <1>18, <1>19, <1>20, <1>21, <1>22,
         <1>23, <1>24, <1>25, <1>26, <1>27, <1>a, <1>b
     DEF Next, Answers, Syncs

LEMMA InitKeeps == Init => RoomsIInv
<1> SUFFICES ASSUME Init
             PROVE  RoomsIInv
  OBVIOUS
<1>0. /\ ServerOf \in [Rooms -> Servers] /\ Entered \subseteq Founded /\ Founded \subseteq Rooms
      /\ MaxActs \in Nat /\ MaxFaults \in Nat
  BY RoomsAssumption
<1>1. TablesTyped /\ FlowTyped /\ ListBounded /\ NothingLeftOver
  BY <1>0 DEF Init, listed, Flows, Entering, TablesTyped, FlowTyped,
         ListBounded,
              NothingLeftOver
<1>2. SyncTyped
  <2>1. NoSync \in Sync /\ NoSync.has = {} /\ NoSync.todo = {}
    BY DEF NoSync, Sync
  <2>2. QED  BY <2>1 DEF Init, SyncTyped
<1>3. ChainTyped /\ FlowIsTrue /\ TableIsTrue
  BY DEF Init, ChainTyped, FlowIsTrue, TableIsTrue
<1>4. ListIsFresh
  BY DEF Init, NoSync, ListIsFresh
<1>5. QED  BY <1>1, <1>2, <1>3, <1>4 DEF RoomsIInv

LEMMA Invariance == Spec => []RoomsIInv
<1>1. Init => RoomsIInv
  BY InitKeeps
<1>2. RoomsIInv /\ [Next]_vars => RoomsIInv'
  BY StepKeeps
<1>3. QED  BY <1>1, <1>2, PTL DEF Spec

-----------------------------------------------------------------------------
(* Every variable has its type, a room is listed no more often than it was *)
(* entered here, and nothing of a room is left but by work that ran late   *)
(* (performLocalRoomCleanup, syncAllRoomsFromBackend).                     *)
THEOREM NothingStaysBehind == Spec => []RoomsInv
<1>1. RoomsIInv => RoomsInv
  <2> SUFFICES ASSUME RoomsIInv
               PROVE  RoomsInv
    OBVIOUS
  <2>1. list \in [Rooms -> 0 .. MaxActs + 1]
    <3>1. /\ list \in [Rooms -> Nat] /\ acts \in 0..MaxActs
          /\ \A r \in Rooms : list[r] <= acts + 1
      BY DEF RoomsIInv, ListBounded, FlowTyped
    <3>2. \A r \in Rooms : list[r] \in 0 .. MaxActs + 1
      BY <3>1, RoomsAssumption
    <3>3. QED  BY <3>1, <3>2
  <2>2. \A s \in Servers : sync[s].has \cup sync[s].todo \subseteq of(s)
    BY DEF RoomsIInv, SyncTyped
  <2>3. QED
    BY <2>1, <2>2 DEF RoomsIInv, TablesTyped, FlowTyped, SyncTyped, ChainTyped,
                      RoomsInv, TypeOK
<1>2. QED  BY <1>1, Invariance, PTL

(* A table without an excuse has the rooms of its server, when nothing is  *)
(* under way (syncAllRoomsFromBackend, onRoomDeleted).                     *)
THEOREM TableMatchesServer == Spec => []SyncedIsTrue
<1>1. RoomsIInv => SyncedIsTrue
  <2> SUFFICES ASSUME RoomsIInv, NEW s \in online \ excused, Idle(s)
               PROVE  rows \cap of(s) = member \cap of(s)
    BY DEF SyncedIsTrue
  <2>1. \A r \in of(s) : r \in Rooms /\ ServerOf[r] = s /\ flow[r] = "no"
    BY DEF Idle, busy, of
  <2>2. \A r \in of(s) : r \in rows <=> r \in member
    BY <2>1 DEF Idle, RoomsIInv, TableIsTrue
  <2>3. QED  BY <2>2
<1>2. QED  BY <1>1, Invariance, PTL

(* A row that goes while we are in its room was overtaken by a list that   *)
(* was read before we were (syncAllRoomsFromBackend), or fell to a leave on*)
(* a custom server that was taken for ours (handleUserLeftRoom).           *)
THEOREM RowsGoWithTheRoom == Spec => KeptWhileMember
<1> DEFINE Kept ==
      \A r \in (rows \ rows') \cap member' :
          overtakenBy(r) \/ (custom(ServerOf[r]) /\ anotherLeaves(r, GlobalId))
<1>1. ASSUME RoomsIInv, [Next]_vars
      PROVE  Kept
  <2>0. ServerOf \in [Rooms -> Servers]
    BY RoomsAssumption
  <2>1. \/ rows \subseteq rows'
        \/ \E r \in Rooms : \/ deleted(r) \/ roomGone(r) \/ weLeave(r)
                            \/ \E u \in Users : anotherLeaves(r, u)
        \/ \E s \in Servers : syncAllRoomsFromBackend(s)
    BY <1>1 DEF Next, Answers, Syncs, vars, tables, createRoom, joinRoom,
           deleteRoom,
           serverCreates, serverJoins, serverDeletes, requestFails, created, joined,
           joinMembers, handleIncomingMessage, joinOperation, setSession,
           processEnvelope, startSync, alreadySyncing, disconnect, getAllRooms,
           getAllRoomsFails, syncRoomMembersAndSessions, onConnectedEnds, loadRooms,
           restart
  <2>2. ASSUME NEW r \in Rooms, deleted(r)
        PROVE  Kept
    <3>1. r \notin member
      BY <1>1, <2>2 DEF deleted, RoomsIInv, FlowIsTrue
    <3>2. rows \ rows' \subseteq {r} /\ UNCHANGED member
      BY <2>2 DEF deleted, performLocalRoomCleanup, cleanUp, servers
    <3>3. QED  BY <3>1, <3>2
  <2>3. ASSUME NEW r \in Rooms, roomGone(r)
        PROVE  Kept
    BY <2>3 DEF roomGone, onRoomDeleted, performLocalRoomCleanup, cleanUp,
           tables
  <2>4. ASSUME NEW s \in Servers, syncAllRoomsFromBackend(s)
        PROVE  Kept
    <3>1. /\ rows \ rows' \subseteq orphans(s) /\ UNCHANGED member
          /\ sync[s].at = "answered"
      BY <2>4 DEF syncAllRoomsFromBackend, servers
    <3>2. \A r \in orphans(s) : ServerOf[r] = s /\ r \notin sync[s].has /\ r \in of(s)
      BY DEF orphans, of
    <3>3. s \notin excused => sync[s].has = member \cap of(s)
      BY <1>1, <3>1 DEF RoomsIInv, ListIsFresh
    <3>4. QED  BY <3>1, <3>2, <3>3 DEF overtakenBy
  <2>5. ASSUME NEW r \in Rooms, weLeave(r)
        PROVE  Kept
    <3>1. UserLeft(r) /\ r \notin member'
      BY <1>1, <2>5, UserLeftDoes DEF RoomsIInv, weLeave
    <3>2. rows \ rows' \subseteq {r}
      BY <1>1, <3>1 DEF UserLeft, RoomsIInv, TablesTyped
    <3>3. QED  BY <3>1, <3>2
  <2>6. ASSUME NEW r \in Rooms, NEW u \in Users, anotherLeaves(r, u)
        PROVE  Kept
    <3>1. UserLeft(r)
      BY <1>1, <2>6, UserLeftDoes DEF RoomsIInv, anotherLeaves
    <3>2. rows \ rows' \subseteq {r}
      BY <1>1, <3>1 DEF UserLeft, RoomsIInv, TablesTyped
    <3>3. CASE u = GlobalId
      BY <2>6, <3>2, <3>3 DEF anotherLeaves, custom
    <3>4. CASE u # GlobalId
      BY <2>6, <3>4 DEF anotherLeaves, handleUserLeftRoom, tables
    <3>5. QED  BY <3>3, <3>4
  <2>7. QED  BY <2>1, <2>2, <2>3, <2>4, <2>5, <2>6
<1>2. QED  BY <1>1, Invariance, PTL DEF Spec, KeptWhileMember
=============================================================================
