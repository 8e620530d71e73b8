----------------------------- MODULE SenderKeys -----------------------------
(***************************************************************************)
(* The sender keys of one room: SenderKeyService and the parts of          *)
(* ChatService that call it. Every device makes a key, hands it to the     *)
(* devices of the other members through the server, pair by pair, and      *)
(* then sends one ciphertext for all of them.                              *)
(*                                                                         *)
(* A device runs its Signal operations on one promise chain (messageQueue) *)
(* and awaits the server inside them. An operation that goes on after such *)
(* an await leaves what remains at the front of the queue, so that what    *)
(* arrives meanwhile comes after it. Only deviceLinked is not on the chain.*)
(* The server (members, distributions it keeps, envelopes) is external.    *)
(***************************************************************************)
EXTENDS Integers, Sequences, FiniteSets, SequencesExt

CONSTANTS
    Users,
    Devices,      \* a device is <<user, deviceId>>; deviceId 1 is the primary
    Founders,     \* users in the room from the start
    Refetches,    \* devices whose native errors say "error 19" (iOS)
    Shaky,        \* bound: devices whose calls fail, whose socket drops and
                  \* whose app is killed
    Threshold,    \* SENDER_KEY_THRESHOLD (4 in the code)
    Limit,        \* SENDER_KEY_MESSAGE_ROTATION_THRESHOLD (1000)
    MaxMade,      \* bound: keys a device makes
    MaxActs,      \* bound: messages, departures, links
    MaxFaults     \* bound: calls of the server or of libsignal that fail

primary(u) == <<u, 1>>

ASSUME SenderKeysAssumption ==
    /\ Devices \subseteq Users \X (Nat \ {0})
    /\ \A u \in Users : primary(u) \in Devices
    /\ Founders \subseteq Users
    /\ Refetches \subseteq Users \X (Nat \ {0}) /\ Shaky \subseteq Devices
    /\ Threshold \in Nat /\ Limit \in Nat \ {0}
    /\ MaxMade \in Nat \ {0} /\ MaxActs \in Nat /\ MaxFaults \in Nat

VARIABLES
    members,  \* users in the room, as the server has them
    linked,   \* devices that exist
    flag,     \* the server's useSenderKeys of the room
    pending,  \* distributions the server keeps for a device
    online,   \* devices with a socket
    uses,     \* devices whose row of the room says useSenderKeys = 1
    row,      \* distributionId of the sender_key_session row (room, own user)
    count,    \* its messageCount
    keys,     \* sender keys in the native store of a device
    made,     \* distribution ids made for a device
    paired,   \* users a device has a session row with
    queue,    \* messageQueue of a device
    linking,  \* deviceLinked handlers that have not run
    lost,     \* history: devices that gave up a message they were served for
    failed,   \* history: devices with a call that failed
    dropped,  \* history: devices that were offline
    killed,   \* history: devices killed with work to do
    unasked,  \* history: devices that set up a small room and did not fetch
    untold,   \* history: devices that had a distribution nobody told them of
    borrowed, \* history: devices whose own row a sibling's key overwrote
    acts, faults

serverVars == <<members, linked, flag>>
keyVars == <<row, count, keys, made>>
vars == <<serverVars, pending, online, uses, keyVars, paired, queue, linking,
          lost, failed, dropped, killed, unasked, untold, borrowed, acts,
          faults>>

-----------------------------------------------------------------------------
user(d) == d[1]
Siblings(d) == {e \in linked : user(e) = user(d) /\ e # d}
InRoom == {d \in linked : user(d) \in members}

(* A distribution id names the device it was made for and counts; none is  *)
(* a room without a row. A sender key is libsignal's (address, id) record. *)
Ids == Devices \X (1..MaxMade)
none == <<>>
Keys == [by : Devices, id : Ids]
ownKey(d) == [by |-> d, id |-> row[d]]

Pending == [to : Devices, key : Keys]
Holds(e, k) == k \in keys[e] \/ [to |-> e, key |-> k] \in pending

Op == [op : {"fetch", "init", "sync", "send"}]
      \cup [op : {"setup", "joined", "established"}, who : SUBSET Users]
      \cup [op : {"give"}, key : Keys, to : SUBSET Devices, on : BOOLEAN]
      \cup [op : {"message", "packet"}, key : Keys, due : BOOLEAN, again : BOOLEAN]

do(o) == [op |-> o]
give(k, S, b) == [op |-> "give", key |-> k, to |-> S, on |-> b]

Runs(d, o) ==
    /\ d \in InRoom /\ d \in online
    /\ queue[d] # <<>> /\ Head(queue[d]).op = o

(* The queues after d goes on with s and every device of S is sent t.      *)
queued(d, s, S, t) ==
    [e \in Devices |-> (IF e = d THEN s \o Tail(queue[d]) ELSE queue[e])
                       \o (IF e \in S THEN t ELSE <<>>)]
goesOn(d, s) == queue' = queued(d, s, {}, <<>>)

Fails(d) == /\ d \in Shaky /\ faults < MaxFaults /\ faults' = faults + 1
            /\ failed' = failed \cup {d}
Succeeds == UNCHANGED <<failed, faults>>

Acts == acts < MaxActs /\ acts' = acts + 1

-----------------------------------------------------------------------------
(* A room below the threshold, or one whose members have all given each    *)
(* other their first key; it keeps its keys, more or less used, when       *)
(* members leave.                                                          *)
Init ==
    /\ members = Founders /\ linked = {primary(u) : u \in Users}
    /\ flag \in {b \in BOOLEAN : Cardinality(Founders) >= Threshold => b}
    /\ LET E == IF flag THEN {primary(u) : u \in Founders} ELSE {}
       IN  /\ uses = E
           /\ row = [d \in Devices |-> IF d \in E THEN <<d, 1>> ELSE none]
           /\ made = [d \in Devices |-> IF d \in E THEN 1 ELSE 0]
           /\ keys = [d \in Devices |-> IF d \in E
                        THEN {[by |-> e, id |-> <<e, 1>>] : e \in E} ELSE {}]
    /\ paired = [d \in Devices |->
                    IF user(d) \in Founders /\ d \in linked
                    THEN Founders \ {user(d)} ELSE {}]
    /\ \E n \in 0..Limit :
          count = [d \in Devices |-> IF row[d] = none THEN 0 ELSE n]
    /\ queue = [d \in Devices |-> <<>>]
    /\ pending = {} /\ online = linked /\ linking = {}
    /\ lost = {} /\ failed = {} /\ dropped = {} /\ killed = {} /\ unasked = {}
    /\ untold = {} /\ borrowed = {}
    /\ acts = 0 /\ faults = 0

-----------------------------------------------------------------------------
(* expandTargets. Of a peer's devices the primary alone is followed here:  *)
(* only a session made for an earlier pair-wise message serves the others. *)
expandTargets(S) == {primary(u) : u \in S}

(* distributeSenderKey: ensureSession for each, what cannot be encrypted   *)
(* is left out, the rest goes up in one call and the server tells those    *)
(* who are online (a fetch that waits at the end of a queue is enough).    *)
(* initializeSenderKeys then sets useSenderKeys (o.on).                    *)
told(S) == {e \in S \cap online \cap InRoom :
               queue[e] = <<>> \/ Last(queue[e]).op # "fetch"}

sent(k, S) == /\ pending' = pending \cup {[to |-> e, key |-> k] : e \in S}
              /\ untold' = untold \cup (S \ (online \cap InRoom))

upload(d, o, S) ==
    /\ sent(o.key, S)
    /\ paired' = [paired EXCEPT ![d] = @ \cup {user(e) : e \in S}]
    /\ uses' = IF o.on THEN uses \cup {d} ELSE uses
    /\ queue' = queued(d, <<>>, told(S), <<do("fetch")>>)

distributeSenderKey(d) ==
    /\ Runs(d, "give")
    /\ LET o == Head(queue[d])
       IN  \/ Succeeds /\ upload(d, o, o.to)
           \/ \E S \in SUBSET o.to : S # o.to /\ Fails(d) /\ upload(d, o, S)
           \/ /\ Fails(d)
              /\ goesOn(d, <<>>)
              /\ UNCHANGED <<pending, untold, paired, uses>>
    /\ UNCHANGED <<serverVars, online, keyVars, linking, lost, dropped, killed,
                   unasked, borrowed, acts>>

(* initializeSenderKeysIfNeeded, initializeSenderKeys: the row is written  *)
(* before the key goes to anybody.                                         *)
Needed(d) == row[d] = none /\ Cardinality(members) >= Threshold

initializeSenderKeys(d) ==
    /\ Runs(d, "init")
    /\ \/ /\ Needed(d) /\ made[d] < MaxMade /\ Succeeds
          /\ LET id == <<d, made[d] + 1>>
                 k == [by |-> d, id |-> id]
             IN  /\ made' = [made EXCEPT ![d] = @ + 1]
                 /\ keys' = [keys EXCEPT ![d] = @ \cup {k}]
                 /\ row' = [row EXCEPT ![d] = id]
                 /\ count' = [count EXCEPT ![d] = 0]
                 /\ goesOn(d, <<give(k, expandTargets(members \ {user(d)}),
                                     TRUE)>>)
          /\ flag' = TRUE
       \/ /\ Needed(d) /\ Fails(d)
          /\ goesOn(d, <<>>) /\ UNCHANGED <<keyVars, flag>>
       \/ /\ ~Needed(d) /\ Succeeds
          /\ goesOn(d, <<>>) /\ UNCHANGED <<keyVars, flag>>
    /\ UNCHANGED <<members, linked, pending, online, uses, paired, linking,
                   lost, dropped, killed, unasked, untold, borrowed, acts>>

(* Mutant of Redistributes: a key that has not been used is kept back.     *)
RedistributesIfUsed(d) == d \in uses /\ row[d] # none /\ count[d] > 0

(* redistributeToNewMembers: createSenderKeySession returns the chain of   *)
(* the row's id, and makes one where the device has none.                  *)
Redistributes(d) == d \in uses /\ row[d] # none

gives(d, S) == IF Redistributes(d) /\ S # {}
               THEN <<give(ownKey(d), expandTargets(S), FALSE)>> ELSE <<>>
createSenderKeySession(d, S) ==
    keys' = IF Redistributes(d) /\ S # {}
            THEN [keys EXCEPT ![d] = @ \cup {ownKey(d)}] ELSE keys

(* fetchAndProcessPendingSenderKeys: what the device is sent goes to its   *)
(* native store and to the row of the sender's user, its own user          *)
(* included; then useSenderKeys, and a key of its own if it has none.      *)
Arrived(d) == {p \in pending : p.to = d}
fromSiblings(d, A) == {p \in A : p.key.by \in Siblings(d)}

process(d, A) ==
    /\ keys' = [keys EXCEPT ![d] = @ \cup {p.key : p \in A}]
    /\ pending' = pending \ A
    /\ IF fromSiblings(d, A) = {} THEN UNCHANGED <<row, count, borrowed>>
       ELSE /\ \E p \in fromSiblings(d, A) : row' = [row EXCEPT ![d] = p.key.id]
            /\ count' = [count EXCEPT ![d] = 0]
            /\ borrowed' = borrowed \cup {d}

fetchAndProcessPendingSenderKeys(d) ==
    /\ Runs(d, "fetch")
    /\ \/ /\ Succeeds /\ process(d, Arrived(d))
          /\ IF Arrived(d) = {}
             THEN goesOn(d, <<>>) /\ UNCHANGED uses
             ELSE /\ goesOn(d, IF row'[d] = none THEN <<do("init")>> ELSE <<>>)
                  /\ uses' = uses \cup {d}
       \/ /\ Fails(d) /\ goesOn(d, <<>>)      \* the GET, or mark-delivered
          /\ \E A \in {{}, Arrived(d)} : process(d, A)
          /\ UNCHANGED uses
    /\ UNCHANGED <<serverVars, online, made, paired, linking, lost, dropped,
                   killed, unasked, untold, acts>>

-----------------------------------------------------------------------------
(* A message or a control packet to the room: encryptWithSenderKey, which  *)
(* may rotate first, or pair by pair when there is no key. The server      *)
(* gives it to every device of the members but the sender.                 *)
others(d) == InRoom \ {d}

message(t, e, k) == [op |-> t, key |-> k, again |-> FALSE, due |-> Holds(e, k)]

Groupwise(d) == d \in uses /\ row[d] # none /\ ownKey(d) \in keys[d]
shouldRotate(d) == d \in uses /\ row[d] # none /\ count[d] >= Limit

encryptWithSenderKey(d, t) ==
    queue' = [e \in Devices |->
                 (IF e = d THEN Tail(queue[d]) ELSE queue[e])
                 \o (IF e \in others(d) THEN <<message(t, e, ownKey(d))>>
                     ELSE <<>>)]

(* Pair by pair: no sender key has to do with it.                          *)
encryptPairwise(d) == goesOn(d, <<>>)

sendMessage(d) ==
    /\ Runs(d, "send") /\ ~shouldRotate(d) /\ Succeeds
    /\ IF Groupwise(d)
       THEN /\ \E t \in {"message", "packet"} : encryptWithSenderKey(d, t)
            /\ count' = [count EXCEPT ![d] = @ + 1]
       ELSE encryptPairwise(d) /\ UNCHANGED count
    /\ UNCHANGED <<serverVars, pending, online, uses, row, keys, made, paired,
                   linking, lost, dropped, killed, unasked, untold, borrowed,
                   acts>>

(* rotateSenderKey: the native module makes a key under an id of its own,  *)
(* which is distributed; the row keeps its id and the message its key.     *)
rotateSenderKey(d) ==
    /\ Runs(d, "send") /\ shouldRotate(d) /\ made[d] < MaxMade
    /\ made' = [made EXCEPT ![d] = @ + 1]
    /\ LET k == [by |-> d, id |-> <<d, made[d] + 1>>]
           T == expandTargets(members \ {user(d)})
       IN  /\ keys' = [keys EXCEPT ![d] = @ \cup {k}]
           /\ \/ \E S \in SUBSET T :
                 /\ IF S = T THEN Succeeds ELSE Fails(d)
                 /\ sent(k, S)
                 /\ paired' = [paired EXCEPT ![d] = @ \cup {user(e) : e \in S}]
                 /\ count' = [count EXCEPT ![d] = 0]
                 /\ queue' = queued(d, <<do("send")>>, told(S), <<do("fetch")>>)
              \/ /\ Fails(d) /\ encryptPairwise(d)
                 /\ UNCHANGED <<pending, untold, paired, count>>
    /\ UNCHANGED <<serverVars, online, uses, row, linking, lost, dropped,
                   killed, unasked, borrowed, acts>>

(* Mutant of fetchesFirst: the count of retries is looked at the other way.*)
fetchesAgain(d, o) == o.key \notin keys[d] /\ d \in Refetches /\ o.again

fetchesFirst(d, o) == o.key \notin keys[d] /\ d \in Refetches /\ ~o.again

(* decryptWithSenderKey: no key and an error that says so: fetch, once,    *)
(* and try again. Otherwise what was sent is gone.                         *)
decryptWithSenderKey(d, t) ==
    /\ Runs(d, t)
    /\ LET o == Head(queue[d])
       IN  IF fetchesFirst(d, o)
           THEN /\ goesOn(d, <<do("fetch"), [o EXCEPT !.again = TRUE]>>)
                /\ UNCHANGED lost
           ELSE /\ goesOn(d, <<>>)
                /\ lost' = IF o.key \notin keys[d] /\ o.due
                           THEN lost \cup {d} ELSE lost
    /\ Succeeds
    /\ UNCHANGED <<serverVars, pending, online, uses, keyVars, paired, linking,
                   dropped, killed, unasked, untold, borrowed, acts>>

handleSenderKeyMessage(d) == decryptWithSenderKey(d, "message")
handleControlPacket(d) == decryptWithSenderKey(d, "packet")

-----------------------------------------------------------------------------
(* setSession of each of S, which fails for those not in T.                *)
setSessions(d, T) == paired' = [paired EXCEPT ![d] = @ \cup T]
Strangers(d, S) == S \ ({user(d)} \cup paired[d])

(* joinRoom, on the chain: sessions with the members found, a packet to    *)
(* tell them, and the sender keys when there are enough of them.           *)
setUp(d) ==
    /\ Runs(d, "setup")
    /\ LET M == Head(queue[d]).who
           enough == Cardinality(M) + 1 >= Threshold
       IN  /\ \E T \in SUBSET M :
              /\ IF T = M THEN Succeeds ELSE Fails(d)
              /\ setSessions(d, T)
              /\ queue' = queued(d, IF enough THEN <<do("fetch"), do("init")>>
                                    ELSE <<>>,
                                 {e \in InRoom : user(e) \in T},
                                 <<[op |-> "established", who |-> {user(d)}]>>)
           /\ unasked' = IF enough \/ Arrived(d) = {} THEN unasked
                         ELSE unasked \cup {d}
    /\ UNCHANGED <<serverVars, pending, online, uses, keyVars, linking, lost,
                   dropped, killed, untold, borrowed, acts>>

(* handleSystemMessage user_joined: someone without a session row.         *)
userJoined(d) ==
    /\ Runs(d, "joined")
    /\ LET N == Strangers(d, Head(queue[d]).who)
       IN  \/ /\ Succeeds /\ setSessions(d, N)
              /\ createSenderKeySession(d, N) /\ goesOn(d, gives(d, N))
           \/ /\ N # {} /\ Fails(d) /\ goesOn(d, <<>>)
              /\ UNCHANGED <<paired, keys>>
    /\ UNCHANGED <<serverVars, pending, online, uses, row, count, made,
                   linking, lost, dropped, killed, unasked, untold, borrowed,
                   acts>>

(* processControlPacket SESSION_ESTABLISHED: whoever it is from.           *)
sessionEstablished(d) ==
    /\ Runs(d, "established") /\ Succeeds
    /\ LET N == Head(queue[d]).who
       IN  createSenderKeySession(d, N) /\ goesOn(d, gives(d, N))
    /\ UNCHANGED <<serverVars, pending, online, uses, row, count, made, paired,
                   linking, lost, dropped, killed, unasked, untold, borrowed,
                   acts>>

(* Mutant of fetchPendingSenderKeysForServer: a room with keys of its own  *)
(* is not asked for.                                                       *)
fetchIfNew(d) == IF flag /\ row[d] = none THEN <<do("init"), do("fetch")>>
                 ELSE <<do("init")>>

fetchPendingSenderKeysForServer(d) ==
    IF flag THEN <<do("init"), do("fetch")>> ELSE <<do("init")>>

(* onConnected: syncAllRoomsFromBackend takes the server's useSenderKeys,  *)
(* syncRoomMembersAndSessions welcomes those without a session, and        *)
(* fetchPendingSenderKeysForServer makes a key, then fetches.              *)
onConnected(d) ==
    /\ Runs(d, "sync")
    /\ uses' = IF flag THEN uses \cup {d} ELSE uses \ {d}
    /\ LET fetches == fetchPendingSenderKeysForServer(d)
           N == Strangers(d, members)
           welcomed == flag /\ row[d] # none /\ N # {}
       IN  \/ /\ Succeeds /\ setSessions(d, N)
              /\ keys' = IF welcomed THEN [keys EXCEPT ![d] = @ \cup {ownKey(d)}]
                         ELSE keys
              /\ goesOn(d, (IF welcomed
                            THEN <<give(ownKey(d), expandTargets(N), FALSE)>>
                            ELSE <<>>) \o fetches)
           \/ Fails(d) /\ goesOn(d, fetches) /\ UNCHANGED <<paired, keys>>
    /\ UNCHANGED <<serverVars, pending, online, row, count, made, linking,
                   lost, dropped, killed, unasked, untold, borrowed, acts>>

(* deviceLinked, beside the chain: the new device alone is given the key.  *)
deviceLinked(d, e) ==
    /\ <<d, e>> \in linking /\ d \in online /\ d \in InRoom
    /\ linking' = linking \ {<<d, e>>}
    /\ IF Redistributes(d)
       THEN /\ keys' = [keys EXCEPT ![d] = @ \cup {ownKey(d)}]
            /\ \/ /\ Succeeds
                  /\ sent(ownKey(d), {e})
                  /\ queue' = [queue EXCEPT ![e] =
                                  @ \o (IF e \in told({e}) THEN <<do("fetch")>> ELSE <<>>)]
               \/ Fails(d) /\ UNCHANGED <<pending, untold, queue>>
       ELSE Succeeds /\ UNCHANGED <<keys, pending, untold, queue>>
    /\ UNCHANGED <<serverVars, online, uses, row, count, made, paired, lost,
                   dropped, killed, unasked, borrowed, acts>>

-----------------------------------------------------------------------------
(* What the user does: joins (the members found are those before), leaves  *)
(* (performLocalRoomCleanup: rows go, native keys stay), writes.           *)
joinRoom(u) ==
    /\ u \notin members /\ primary(u) \in online
    /\ members' = members \cup {u}
    /\ uses' = IF flag THEN uses \cup {primary(u)} ELSE uses
    /\ queue' = [e \in Devices |->
                   IF e = primary(u) THEN <<[op |-> "setup", who |-> members]>>
                   ELSE IF e \in InRoom \cap online
                   THEN Append(queue[e], [op |-> "joined", who |-> {u}])
                   ELSE queue[e]]
    /\ UNCHANGED <<linked, flag, pending, online, keyVars, paired, linking,
                   lost, failed, dropped, killed, unasked, untold, borrowed,
                   acts, faults>>

(* Bound: users with one device.                                           *)
deleteRoom(u) ==
    /\ Acts /\ u \in members /\ primary(u) \in online
    /\ Siblings(primary(u)) = {} /\ members # {u}
    /\ members' = members \ {u}
    /\ uses' = uses \ {primary(u)}
    /\ row' = [row EXCEPT ![primary(u)] = none]
    /\ count' = [count EXCEPT ![primary(u)] = 0]
    /\ paired' = [paired EXCEPT ![primary(u)] = {}]
    /\ queue' = [queue EXCEPT ![primary(u)] = <<>>]
    /\ untold' = IF Arrived(primary(u)) = {} THEN untold
                 ELSE untold \cup {primary(u)}
    /\ UNCHANGED <<linked, flag, pending, online, keys, made, linking, lost,
                   failed, dropped, killed, unasked, borrowed, faults>>

sendEnvelope(d) ==
    /\ Acts /\ d \in InRoom /\ d \in online
    /\ queue' = [queue EXCEPT ![d] = Append(@, do("send"))]
    /\ UNCHANGED <<serverVars, pending, online, uses, keyVars, paired, linking,
                   lost, failed, dropped, killed, unasked, untold, borrowed,
                   faults>>

(* A device is linked: it connects, and the user's others are told.        *)
link(d) ==
    /\ Acts /\ d \notin linked /\ user(d) \in members
    /\ linked' = linked \cup {d} /\ online' = online \cup {d}
    /\ linking' = linking \cup {<<e, d>> : e \in Siblings(d) \cap online}
    /\ queue' = [queue EXCEPT ![d] = <<do("sync")>>]
    /\ UNCHANGED <<members, flag, pending, uses, keyVars, paired, lost, failed,
                   dropped, killed, unasked, untold, borrowed, faults>>

(* Bound: once.                                                            *)
drop(d) ==
    /\ d \in Shaky \ dropped /\ d \in online /\ d \in InRoom
    /\ online' = online \ {d} /\ dropped' = dropped \cup {d}
    /\ UNCHANGED <<serverVars, pending, uses, keyVars, paired, queue, linking,
                   lost, failed, killed, unasked, untold, borrowed, acts,
                   faults>>

(* The app is killed with work to do: what was on the chain is gone (the   *)
(* socket has told the server that it received it), the tables and native  *)
(* stores stay. It starts again with connect. Bound: once, as drop.        *)
kill(d) ==
    /\ d \in Shaky \ dropped /\ d \in online /\ d \in InRoom
    /\ queue[d] # <<>> \/ \E e \in Devices : <<d, e>> \in linking
    /\ online' = online \ {d} /\ dropped' = dropped \cup {d}
    /\ queue' = [queue EXCEPT ![d] = <<>>]
    /\ linking' = {l \in linking : l[1] # d}
    /\ killed' = killed \cup {d}
    /\ LET M == {o \in ToSet(queue[d]) : o.op \in {"message", "packet"}}
       IN  lost' = IF \E o \in M : o.due THEN lost \cup {d} ELSE lost
    /\ UNCHANGED <<serverVars, pending, uses, keyVars, paired, failed, unasked,
                   untold, borrowed, acts, faults>>

connect(d) ==
    /\ d \in linked \ online
    /\ online' = online \cup {d}
    /\ queue' = [queue EXCEPT ![d] = Append(@, do("sync"))]
    /\ UNCHANGED <<serverVars, pending, uses, keyVars, paired, linking, lost,
                   failed, dropped, killed, unasked, untold, borrowed, acts,
                   faults>>

-----------------------------------------------------------------------------
Works(d) ==
    \/ distributeSenderKey(d) \/ initializeSenderKeys(d)
    \/ fetchAndProcessPendingSenderKeys(d)
    \/ sendMessage(d) \/ rotateSenderKey(d)
    \/ handleSenderKeyMessage(d) \/ handleControlPacket(d)
    \/ setUp(d) \/ userJoined(d) \/ sessionEstablished(d) \/ onConnected(d)

Next ==
    \/ \E d \in Devices : Works(d) \/ connect(d)
    \/ \E d, e \in Devices : deviceLinked(d, e)
    \/ \E u \in Users : joinRoom(u) \/ deleteRoom(u)
    \/ \E d \in Devices : sendEnvelope(d) \/ link(d) \/ drop(d) \/ kill(d)

(* The chain runs on; a socket comes back (Connection).                    *)
Spec == /\ Init /\ [][Next]_vars
        /\ WF_vars(\E d \in Devices : Works(d) \/ connect(d))

-----------------------------------------------------------------------------
TypeOK ==
    /\ members \subseteq Users /\ linked \subseteq Devices /\ flag \in BOOLEAN
    /\ pending \subseteq Pending /\ online \subseteq linked
    /\ uses \subseteq Devices
    /\ row \in [Devices -> Ids \cup {none}]
    /\ count \in [Devices -> 0..Limit] /\ made \in [Devices -> 0..MaxMade]
    /\ keys \in [Devices -> SUBSET Keys]
    /\ paired \in [Devices -> SUBSET Users]
    /\ queue \in [Devices -> Seq(Op)]
    /\ linking \subseteq Devices \X Devices
    /\ lost \cup failed \cup dropped \cup killed \subseteq Devices
    /\ unasked \cup untold \cup borrowed \subseteq Devices
    /\ acts \in 0..MaxActs /\ faults \in 0..MaxFaults

(* A message under a key that its device had been sent before is read,     *)
(* unless a call of that device failed, its app was killed with work on    *)
(* the chain, or its native errors are not understood and a key was        *)
(* announced when it could not hear: it was offline, or left the room      *)
(* before it had fetched.                                                  *)
ServedIsRead == \A d \in lost :
    d \in failed \cup killed \/ (d \notin Refetches /\ d \in untold)

(* A device that encrypts with its sender key has sent that key to every   *)
(* other member, or will: the key is about to go to the member, the news   *)
(* of the member waits on its chain, or the member has yet to give it. A   *)
(* kill loses what waits on a chain, and the next connect passes over a    *)
(* member that has a session row: two devices of which neither was killed  *)
(* with work on its chain are meant.                                       *)
Awaits(d, e) ==
    \/ \E i \in DOMAIN queue[d] :
          LET o == queue[d][i]
          IN  \/ o.op = "give" /\ o.key = ownKey(d) /\ e \in o.to
              \/ o.op = "established" /\ user(e) \in o.who
    \/ \E i \in DOMAIN queue[e] :
          queue[e][i].op = "setup" /\ user(d) \in queue[e][i].who

MembersServed ==
    \A d \in InRoom : \A u \in members \ {user(d)} :
        Groupwise(d) /\ {d, primary(u)} \cap (failed \cup killed) = {}
            /\ d \notin borrowed =>
            Holds(primary(u), ownKey(d)) \/ Awaits(d, primary(u))

(* Types, and no member forgotten when a sender key is made or rotated,    *)
(* whatever order joins, sessions, messages and reconnections come in.     *)
SenderKeysInv == TypeOK /\ MembersServed

(* When users have stopped acting, no distribution waits for a device that *)
(* is in the room, also if it was offline when it was announced or killed  *)
(* before it had fetched, and every primary device has a key of its own in *)
(* a room of enough members. A device that was sent a distribution which   *)
(* it did not fetch before it left, or after, does not look for it when it *)
(* joins a room that is still below the threshold: it may wait for ever.   *)
Settled ==
    /\ \A d \in InRoom : d \in failed \cup unasked \/ Arrived(d) = {}
    /\ failed \cup killed = {} => \A u \in members : ~Needed(primary(u))

KeysArrive == <>[]Settled
=============================================================================
