----------------------------- MODULE Inbox_proofs -----------------------------
(***************************************************************************)
(* Proofs about Inbox, for any rooms, messages, members and bounds.        *)
(***************************************************************************)
EXTENDS Inbox, FiniteSetTheorems, TLAPS

(* READ packets in the serial queue only name messages that were on the    *)
(* screen.                                                                 *)
PacketsKnown ==
    \A k \in DOMAIN chain :
        chain[k].kind = "packet" => chain[k].ids \subseteq seen

ScreenInv == TypeOK /\ PacketsKnown /\ ReadOnlyIfSeen /\ NothingVanishes

-----------------------------------------------------------------------------
(* The unread messages of a table are finitely many.                       *)
LEMMA UnreadFinite ==
    ASSUME NEW r, NEW R \in SUBSET Msgs, NEW S
    PROVE  IsFiniteSet(Unread(r, R, S)) /\ countUnread(r, R, S) \in Nat
<1>1. Unread(r, R, S) \subseteq Msgs
  BY DEF Unread, In
<1>2. IsFiniteSet(Unread(r, R, S))
  BY <1>1, FS_Subset, InboxAssumption
<1> QED
  BY <1>2, FS_CardinalityType DEF countUnread

(* A new unread row of a room adds one to the count of its room.           *)
LEMMA UnreadGrows ==
    ASSUME NEW R \in SUBSET Msgs, NEW S \in SUBSET Msgs,
           NEW m \in Msgs \ Mine, m \notin R
    PROVE  countUnread(RoomOf[m], R \cup {m}, S \ {m})
             = countUnread(RoomOf[m], R, S) + 1
<1> DEFINE r == RoomOf[m]
<1>1. Unread(r, R \cup {m}, S \ {m}) = Unread(r, R, S) \cup {m}
  BY DEF Unread, In
<1>2. m \notin Unread(r, R, S) /\ IsFiniteSet(Unread(r, R, S))
  BY UnreadFinite DEF Unread, In
<1> QED
  BY <1>1, <1>2, FS_AddElement DEF countUnread

(* Rows that are deleted take away what uncounted adds.                    *)
LEMMA RowsDeleted ==
    ASSUME TypeOK, NEW q \in Rooms, NEW D \in SUBSET Msgs, In(q, D) = D,
           deleteRows(q, D)
    PROVE  /\ rows' \subseteq rows /\ read' = read /\ idStatus' = idStatus
           /\ uncounted' \in [Rooms -> Nat] /\ unreadCount' = unreadCount
           /\ \A r \in Rooms : countUnread(r, rows', read') + uncounted'[r]
                               = countUnread(r, rows, read) + uncounted[r]
<1>1. /\ rows' = rows \ D /\ read' = read /\ rows \in SUBSET Msgs
      /\ uncounted' = [uncounted EXCEPT ![q] =
                         @ + countUnread(q, rows, read) - countUnread(q, rows', read)]
      /\ uncounted \in [Rooms -> Nat] /\ unreadCount' = unreadCount
      /\ idStatus' = idStatus
  BY DEF deleteRows, TypeOK
<1>2. /\ countUnread(q, rows, read) \in Nat /\ countUnread(q, rows', read) \in Nat
      /\ countUnread(q, rows', read) <= countUnread(q, rows, read)
  <2>1. IsFiniteSet(Unread(q, rows, read)) /\ countUnread(q, rows, read) \in Nat
    BY <1>1, UnreadFinite
  <2>2. Unread(q, rows', read) \subseteq Unread(q, rows, read)
    BY <1>1 DEF Unread, In
  <2> QED
    BY <2>1, <2>2, FS_Subset, FS_CardinalityType DEF countUnread
<1>3. \A r \in Rooms : r # q => countUnread(r, rows', read) = countUnread(r, rows, read)
  <2> SUFFICES ASSUME NEW r \in Rooms, r # q
               PROVE  countUnread(r, rows', read) = countUnread(r, rows, read)
    OBVIOUS
  <2>1. Unread(r, rows', read) = Unread(r, rows, read)
    BY <1>1 DEF Unread, In
  <2> QED
    BY <2>1 DEF countUnread
<1>4. uncounted' \in [Rooms -> Nat]
  BY <1>1, <1>2
<1>5. uncounted'[q] = uncounted[q] + countUnread(q, rows, read)
                        - countUnread(q, rows', read)
  BY <1>1
<1>6. ASSUME NEW r \in Rooms
      PROVE  countUnread(r, rows', read') + uncounted'[r]
               = countUnread(r, rows, read) + uncounted[r]
  <2>1. CASE r = q
    <3>1. uncounted[q] \in Nat
      BY <1>1
    <3>2. countUnread(q, rows', read') = countUnread(q, rows', read)
      BY <1>1
    <3> QED
      BY <1>2, <1>5, <2>1, <3>1, <3>2
  <2>2. CASE r # q
    BY <1>1, <1>3, <2>2
  <2> QED
    BY <2>1, <2>2
<1> QED
  BY <1>1, <1>4, <1>6

-----------------------------------------------------------------------------
(* The types of the operations at the head of the queue.                   *)
LEMMA HeadType ==
    ASSUME TypeOK, chain # <<>>
    PROVE  /\ Head(chain) \in Op
           /\ Tail(chain) \in Seq(Op)
           /\ Head(chain).kind = "envelope" => Head(chain).env \in Envelopes
           /\ Head(chain).kind = "packet" => Head(chain).ids \subseteq Msgs
<1>1. Head(chain) \in Op /\ Tail(chain) \in Seq(Op)
  BY DEF TypeOK
<1> QED
  BY <1>1 DEF Op, EnvelopeOps, PacketOps

(* The queue keeps what it knew when its head is done, when an envelope    *)
(* comes in, and when it is left alone; the screen has shown more by then. *)
LEMMA TailKnown ==
    ASSUME TypeOK, PacketsKnown, chain # <<>>, chain' = Tail(chain), seen \subseteq seen'
    PROVE  PacketsKnown' /\ chain' \in Seq(Op)
<1>1. /\ chain \in Seq(Op) /\ chain' \in Seq(Op)
      /\ \A k \in DOMAIN chain' : k + 1 \in DOMAIN chain /\ chain'[k] = chain[k + 1]
  BY DEF TypeOK
<1> QED
  BY <1>1 DEF PacketsKnown

LEMMA AppendKnown ==
    ASSUME TypeOK, PacketsKnown, NEW e \in Envelopes, seen' = seen,
           chain' = Append(chain, [kind |-> "envelope", env |-> e])
    PROVE  PacketsKnown' /\ chain' \in Seq(Op)
<1> DEFINE o == [kind |-> "envelope", env |-> e]
<1>1. o \in Op /\ o.kind = "envelope"
  BY DEF Op, EnvelopeOps
<1> HIDE DEF o
<1>2. chain' = Append(chain, o)
  BY DEF o
<1>3. /\ chain \in Seq(Op) /\ chain' \in Seq(Op)
      /\ \A k \in DOMAIN chain' :
            (k \in DOMAIN chain /\ chain'[k] = chain[k]) \/ chain'[k] = o
  BY <1>1, <1>2 DEF TypeOK
<1> QED
  BY <1>1, <1>3 DEF PacketsKnown

LEMMA SameKnown ==
    ASSUME PacketsKnown, chain' = chain, seen \subseteq seen'
    PROVE  PacketsKnown'
BY DEF PacketsKnown

(* The packets of a set of messages, in any order, name no other message.  *)
LEMMA PacketsOf ==
    ASSUME NEW S \in SUBSET Msgs, NEW q \in SetToSeqs(Packets(S))
    PROVE  /\ q \in Seq(Op)
           /\ \A k \in DOMAIN q : q[k].ids \subseteq S
<1> DEFINE packet == [m \in S |-> [kind |-> "packet",
                                   ids |-> {n \in S : SenderOf[n] = SenderOf[m]}]]
<1>1. packet \in Surjection(S, Packets(S))
  BY DEF Packets, Surjection
<1>2. IsFiniteSet(Packets(S))
  BY <1>1, FS_Subset, FS_Surjection, InboxAssumption
<1>3. Cardinality(Packets(S)) \in Nat /\ q \in [1..Cardinality(Packets(S)) -> Packets(S)]
  BY <1>2, FS_CardinalityType DEF SetToSeqs
<1>4. \A p \in Packets(S) : p \in Op /\ p.ids \subseteq S
  BY DEF Packets, Op, PacketOps
<1> QED
  BY <1>3, <1>4

(* An envelope's arrival and its key's expiry keep ScreenInv.              *)
LEMMA ArrivalScreen ==
    ASSUME ScreenInv, NEW e \in Envelopes,
           handleIncomingMessage(e) \/ keyExpires(e)
    PROVE  ScreenInv'
<1> USE DEF ScreenInv, tableVars, storeVars, history, boundVars
<1>1. CASE handleIncomingMessage(e)
  <2>1. PacketsKnown' /\ chain' \in Seq(Op)
    BY <1>1, AppendKnown, SameKnown DEF handleIncomingMessage, TypeOK
  <2>2. processing' \subseteq Envelopes
    BY <1>1 DEF handleIncomingMessage, TypeOK
  <2>3. arrivals' \in Nat
    BY <1>1 DEF handleIncomingMessage, TypeOK
  <2> QED
    BY <1>1, <2>1, <2>2, <2>3 DEF handleIncomingMessage, TypeOK,
           ReadOnlyIfSeen,
       NothingVanishes, In
<1>2. CASE keyExpires(e)
  BY <1>2 DEF keyExpires, TypeOK, PacketsKnown, ReadOnlyIfSeen,
         NothingVanishes, In
<1> QED
  BY <1>1, <1>2

(* So does a dropped envelope, a flush and a closed room.                  *)
LEMMA QuietScreen ==
    ASSUME ScreenInv, drop \/ flush \/ closeRoom
    PROVE  ScreenInv'
<1> USE DEF ScreenInv, tableVars, storeVars, history, boundVars, queueVars
<1>1. CASE drop
  BY <1>1, TailKnown DEF drop, Running, TypeOK, ReadOnlyIfSeen,
         NothingVanishes, In
<1>2. CASE flush
  BY <1>2 DEF flush, flushMerges, TypeOK, PacketsKnown, ReadOnlyIfSeen,
     NothingVanishes, In
<1>3. CASE closeRoom
  BY <1>3 DEF closeRoom, TypeOK, PacketsKnown, ReadOnlyIfSeen, NothingVanishes,
         In
<1> QED
  BY <1>1, <1>2, <1>3

(* A new message goes to the table and to the batch.                       *)
LEMMA MessageScreen ==
    ASSUME ScreenInv, handleUserMessage
    PROVE  ScreenInv'
<1> USE DEF ScreenInv, boundVars
<1> DEFINE m == Head(chain).env
<1>1. m \in Msgs /\ RoomOf[m] \in Rooms
  BY InboxAssumption DEF handleUserMessage
<1>2. idStatus' \in [Msgs -> Status] /\ memStatus' \in [Msgs -> Status]
  BY <1>1 DEF handleUserMessage, TypeOK, Status
<1>3. unreadCount' \in [Rooms -> Nat]
  BY <1>1 DEF handleUserMessage, TypeOK
<1>4. PacketsKnown' /\ chain' \in Seq(Op)
  BY TailKnown DEF handleUserMessage, Running
<1>5. TypeOK'
  BY <1>1, <1>2, <1>3, <1>4 DEF handleUserMessage, TypeOK
<1>6. ReadOnlyIfSeen'
  BY DEF handleUserMessage, ReadOnlyIfSeen
<1>7. NothingVanishes'
  BY DEF handleUserMessage, NothingVanishes, In
<1> QED
  BY <1>4, <1>5, <1>6, <1>7

(* A READ packet of another device changes no set but the read ones.       *)
LEMMA SelfReadScreen ==
    ASSUME ScreenInv, selfRead
    PROVE  ScreenInv'
<1> USE DEF ScreenInv, boundVars, history
<1> DEFINE s == Head(chain).env
<1>1. s \in Syncs /\ SyncRoom[s] \in Rooms /\ PacketsKnown' /\ chain' \in Seq(Op)
  BY TailKnown, InboxAssumption DEF selfRead, Running
<1>2. /\ rows' = rows /\ shown' = shown /\ batch' = batch /\ seen' = seen
      /\ told' = told /\ currentRoom' = currentRoom
  BY DEF selfRead
<1>3. read' \subseteq Msgs /\ memRead' \subseteq Msgs
  BY DEF selfRead, TypeOK
<1>4. memStatus' \in [Msgs -> Status]
  BY DEF selfRead, TypeOK, Status
<1>5. countUnread(SyncRoom[s], rows, read') \in Nat
  BY UnreadFinite DEF TypeOK
<1>a. \/ UNCHANGED <<unreadCount, uncounted>>
      \/ /\ recomputeRoomUnread(SyncRoom[s], read')
         /\ uncounted' = [uncounted EXCEPT ![SyncRoom[s]] = 0]
  BY Zenon DEF selfRead
<1>6. unreadCount' \in [Rooms -> Nat] /\ uncounted' \in [Rooms -> Nat]
  <2>1. CASE UNCHANGED <<unreadCount, uncounted>>
    BY <2>1 DEF TypeOK
  <2>2. CASE /\ recomputeRoomUnread(SyncRoom[s], read')
             /\ uncounted' = [uncounted EXCEPT ![SyncRoom[s]] = 0]
    BY <2>2, <1>1, <1>5 DEF recomputeRoomUnread, TypeOK
  <2> QED
    BY <1>a, <2>1, <2>2
<1> QED
  BY <1>1, <1>2, <1>3, <1>4, <1>6 DEF selfRead, TypeOK, ReadOnlyIfSeen,
     NothingVanishes, In

(* What a load from the table shows of the room, and leaves of others.     *)
LEMMA LoadShows ==
    ASSUME TypeOK, NEW r \in Rooms, NEW R \in SUBSET Msgs, NEW T,
           loadRoomMessages(r, R, T)
    PROVE  /\ shown' \subseteq Msgs /\ batch' \subseteq Msgs /\ memRead' \subseteq Msgs
           /\ memStatus' \in [Msgs -> Status]
           /\ In(r, R) \subseteq shown'
           /\ \A m \in shown \cup batch : RoomOf[m] # r => m \in shown' \cup batch'
BY DEF loadRoomMessages, In, TypeOK, Status

(* Opening a room puts its rows on the screen.                             *)
LEMMA OpenScreen ==
    ASSUME ScreenInv, NEW r \in Rooms, openRoom(r)
    PROVE  ScreenInv'
<1> USE DEF ScreenInv
<1>1. Picked(r) \subseteq Msgs /\ Picked(r) \subseteq In(r, shown)
  BY DEF Picked, In, TypeOK
<1>2. /\ seen' \subseteq Msgs /\ seen \subseteq seen' /\ Picked(r) \subseteq seen'
      /\ In(r, rows) \subseteq seen'
  BY <1>1 DEF openRoom, In, TypeOK
<1>3. PICK q \in SetToSeqs(Packets(Picked(r))) : chain' = chain \o q
  BY DEF openRoom, markRoomAsRead
<1>4. q \in Seq(Op) /\ \A k \in DOMAIN q : q[k].ids \subseteq Picked(r)
  BY <1>1, PacketsOf
<1>5. PacketsKnown' /\ chain' \in Seq(Op)
  <2>1. /\ chain' \in Seq(Op)
        /\ \A k \in DOMAIN chain' : \/ k \in DOMAIN chain /\ chain'[k] = chain[k]
                                    \/ \E j \in DOMAIN q : chain'[k] = q[j]
    <3>1. chain \in Seq(Op)
      BY DEF TypeOK
    <3>2. \A k \in DOMAIN (chain \o q) :
             \/ k \in DOMAIN chain /\ (chain \o q)[k] = chain[k]
             \/ k - Len(chain) \in DOMAIN q /\ (chain \o q)[k] = q[k - Len(chain)]
      BY <1>4, <3>1
    <3> QED
      BY <1>3, <1>4, <3>1, <3>2
  <2> QED
    BY <1>2, <1>4, <2>1 DEF PacketsKnown
<1>6. loadRoomMessages(r, rows, Picked(r))
  BY DEF openRoom
<1>7. TypeOK'
  <2>1. /\ unreadCount' \in [Rooms -> Nat] /\ uncounted' \in [Rooms -> Nat]
        /\ opens' \in Nat /\ currentRoom' \in Rooms
    BY DEF openRoom, markRoomAsRead, TypeOK
  <2>2. /\ shown' \subseteq Msgs /\ batch' \subseteq Msgs /\ memRead' \subseteq Msgs
        /\ memStatus' \in [Msgs -> Status]
    BY <1>6, LoadShows DEF TypeOK
  <2>3. read' \subseteq Msgs
    BY <1>1 DEF openRoom, markRoomAsRead, TypeOK
  <2> QED
    BY <1>2, <1>5, <2>1, <2>2, <2>3 DEF openRoom, TypeOK
<1>8. ReadOnlyIfSeen'
  BY <1>2 DEF openRoom, ReadOnlyIfSeen
<1>9. NothingVanishes'
  BY <1>6, LoadShows DEF openRoom, NothingVanishes, TypeOK, In
<1> QED
  BY <1>5, <1>7, <1>8, <1>9

(* A packet that is sent names what was on the screen.                     *)
LEMMA PacketScreen ==
    ASSUME ScreenInv, sendControlPacket
    PROVE  ScreenInv'
<1> USE DEF ScreenInv, boundVars, tableVars, storeVars
<1>1. PacketsKnown' /\ chain' \in Seq(Op)
  BY TailKnown DEF sendControlPacket, sendPacket, Running
<1>2. Head(chain).ids \subseteq seen
  <2>1. 1 \in DOMAIN chain /\ Head(chain) = chain[1] /\ chain[1].kind = "packet"
    BY DEF sendControlPacket, sendPacket, Running, TypeOK
  <2> QED
    BY <2>1 DEF PacketsKnown
<1>3. told' \subseteq seen /\ told' \subseteq Msgs
  BY <1>2 DEF sendControlPacket, sendPacket, ReadOnlyIfSeen, TypeOK
<1> QED
  BY <1>1, <1>3 DEF sendControlPacket, sendPacket, TypeOK, ReadOnlyIfSeen,
         NothingVanishes, In

(* Counters read from the table, a member who left and a restart.          *)
LEMMA LoadScreen ==
    ASSUME ScreenInv,
           \/ loadRooms \/ restart
           \/ \E r \in Rooms, u \in Leavers : handleUserLeftRoom(r, u)
    PROVE  ScreenInv'
<1> USE DEF ScreenInv, tableVars, storeVars, queueVars, boundVars, history
<1>1. \A r \in Rooms : countUnread(r, rows, read) \in Nat
  BY UnreadFinite DEF TypeOK
<1>2. CASE loadRooms
  BY <1>1, <1>2 DEF loadRooms, TypeOK, PacketsKnown, ReadOnlyIfSeen,
         NothingVanishes, In
<1>3. CASE restart
  <2>1. TypeOK'
    BY <1>1, <1>3 DEF restart, TypeOK
  <2> QED
    BY <1>3, <2>1, InboxAssumption DEF restart, PacketsKnown, ReadOnlyIfSeen,
           NothingVanishes
<1>4. ASSUME NEW r \in Rooms, NEW u \in Leavers, handleUserLeftRoom(r, u)
      PROVE  ScreenInv'
  <2> DEFINE D == {m \in In(r, rows) : SenderOf[m] = u}
  <2>0. deleteRows(r, D) /\ loadRoomMessages(r, rows', {})
    BY <1>4 DEF handleUserLeftRoom
  <2>1. /\ rows' \in SUBSET Msgs /\ rows' \subseteq rows /\ loadRoomMessages(r, rows', {})
        /\ read' = read /\ idStatus' = idStatus /\ unreadCount' = unreadCount
        /\ uncounted' \in [Rooms -> Nat]
    <3>1. D \in SUBSET Msgs /\ In(r, D) = D
      BY DEF In, TypeOK
    <3> HIDE DEF D
    <3> QED
      BY <2>0, <3>1, RowsDeleted DEF TypeOK
  <2>2. gone' \subseteq Users
    BY <1>4, InboxAssumption DEF handleUserLeftRoom, TypeOK
  <2>3. TypeOK'
    BY <1>4, <2>1, <2>2, LoadShows DEF handleUserLeftRoom, TypeOK
  <2>4. NothingVanishes'
    BY <1>4, <2>1, LoadShows DEF handleUserLeftRoom, NothingVanishes, In
  <2> QED
    BY <1>4, <2>3, <2>4 DEF handleUserLeftRoom, PacketsKnown, ReadOnlyIfSeen
<1> QED
  BY <1>2, <1>3, <1>4

(* A message that is deleted goes from the table and from what is shown; a *)
(* copy in the batch stays.                                                *)
LEMMA RemovedScreen ==
    ASSUME ScreenInv, messageDeleted \/ \E m \in Msgs : deleteMessageForEveryone(m)
    PROVE  ScreenInv'
<1> USE DEF ScreenInv, queueVars, boundVars, history
<1>1. PICK m \in Msgs : removeMessage(m)
  <2>1. CASE messageDeleted
    <3>1. DeletedMsg[Head(chain).env] \in Msgs
      BY <2>1, InboxAssumption DEF messageDeleted
    <3> QED
      BY <2>1, <3>1 DEF messageDeleted
  <2> QED
    BY <2>1 DEF deleteMessageForEveryone
<1>2. RoomOf[m] \in Rooms /\ {m} \in SUBSET Msgs /\ In(RoomOf[m], {m}) = {m}
  BY InboxAssumption DEF In
<1>3. /\ rows' \subseteq rows \ {m} /\ read' = read /\ idStatus' = idStatus
      /\ uncounted' \in [Rooms -> Nat] /\ unreadCount' = unreadCount
  BY <1>1, <1>2, RowsDeleted DEF removeMessage, deleteRows
<1>4. /\ shown' = shown \ {m} /\ batch' = batch /\ memStatus' = memStatus
      /\ memRead' = memRead
  BY <1>1 DEF removeMessage
<1>5. /\ currentRoom' = currentRoom /\ processing' = processing /\ arrivals' = arrivals
      /\ opens' = opens /\ gone' = gone /\ restarts' = restarts /\ seen' = seen
      /\ told' = told
  BY DEF messageDeleted, deleteMessageForEveryone
<1>6. PacketsKnown' /\ chain' \in Seq(Op)
  <2>1. CASE messageDeleted
    BY <1>5, <2>1, TailKnown DEF messageDeleted, Running
  <2>2. CASE \E n \in Msgs : deleteMessageForEveryone(n)
    BY <1>5, <2>2, SameKnown DEF deleteMessageForEveryone, TypeOK
  <2> QED
    BY <2>1, <2>2
<1>7. TypeOK'
  BY <1>3, <1>4, <1>5, <1>6 DEF TypeOK
<1>8. NothingVanishes'
  BY <1>3, <1>4, <1>5 DEF NothingVanishes, In
<1> QED
  BY <1>5, <1>6, <1>7, <1>8 DEF ReadOnlyIfSeen

LEMMA ScreenStep ==
    ASSUME ScreenInv, [Next]_vars
    PROVE  ScreenInv'
<1>1. CASE UNCHANGED vars
  BY <1>1 DEF vars, tableVars, storeVars, queueVars, boundVars, history,
         ScreenInv,
     TypeOK, PacketsKnown, ReadOnlyIfSeen, NothingVanishes, In
<1>2. CASE Next
  BY <1>2, ArrivalScreen, QuietScreen, MessageScreen, SelfReadScreen,
         OpenScreen,
     PacketScreen, LoadScreen, RemovedScreen DEF Next, chainStep
<1> QED
  BY <1>1, <1>2

LEMMA Screen == Spec => []ScreenInv
<1>1. Init => ScreenInv
  BY InboxAssumption DEF Init, ScreenInv, TypeOK, PacketsKnown, ReadOnlyIfSeen,
     NothingVanishes, Status
<1>2. ScreenInv /\ [Next]_vars => ScreenInv'
  BY ScreenStep
<1> QED
  BY <1>1, <1>2, PTL DEF Spec

(* The tables, the store, the screen and the serial queue keep their types.*)
THEOREM TypeCorrect == Spec => []TypeOK
<1>1. ScreenInv => TypeOK
  BY DEF ScreenInv
<1> QED
  BY <1>1, Screen, PTL

(* Nothing vanishes from an open room, whatever loads, flushes, messages   *)
(* and departures come in which order.                                     *)
THEOREM ScreenFaithful == Spec => []NothingVanishes
<1>1. ScreenInv => NothingVanishes
  BY DEF ScreenInv
<1> QED
  BY <1>1, Screen, PTL

(* Senders are told READ only of messages that were on the screen, however *)
(* long the packet waits in the serial queue.                              *)
THEOREM ToldIsSeen == Spec => []ReadOnlyIfSeen
<1>1. ScreenInv => ReadOnlyIfSeen
  BY DEF ScreenInv
<1> QED
  BY <1>1, Screen, PTL

-----------------------------------------------------------------------------
(* The counter. A message only adds to the count of its own room.          *)
LEMMA OtherRoomsKept ==
    ASSUME NEW r, NEW R, NEW S, NEW R2, NEW S2,
           In(r, R) = In(r, R2), In(r, S) = In(r, S2)
    PROVE  countUnread(r, R, S) = countUnread(r, R2, S2)
<1>1. Unread(r, R, S) = Unread(r, R2, S2)
  BY DEF Unread, In
<1> QED
  BY <1>1 DEF countUnread

LEMMA CountsType ==
    ASSUME TypeOK
    PROVE  \A r \in Rooms : /\ unreadCount[r] \in Nat /\ uncounted[r] \in Nat
                            /\ countUnread(r, rows, read) \in Nat
BY UnreadFinite DEF TypeOK

LEMMA MessageCounted ==
    ASSUME ScreenInv, NeverOverstated, handleUserMessage
    PROVE  NeverOverstated'
<1> DEFINE m == Head(chain).env
           isRead == currentRoom = RoomOf[m] \/ m \in Mine
<1>1. /\ m \in Msgs /\ m \notin rows /\ RoomOf[m] \in Rooms /\ TypeOK
      /\ rows \subseteq Msgs /\ read \subseteq Msgs /\ unreadCount \in [Rooms -> Nat]
  BY HeadType, InboxAssumption DEF handleUserMessage, Running, ScreenInv,
         TypeOK
<1>2. /\ rows' = rows \cup {m} /\ uncounted' = uncounted
      /\ read' = IF isRead THEN read \cup {m} ELSE read \ {m}
      /\ unreadCount' = IF isRead THEN unreadCount
                        ELSE [unreadCount EXCEPT ![RoomOf[m]] = @ + 1]
  BY DEF handleUserMessage
<1> HIDE DEF m
<1> SUFFICES ASSUME NEW r \in Rooms
             PROVE  unreadCount'[r] <= countUnread(r, rows', read') + uncounted[r]
  BY <1>2 DEF NeverOverstated
<1>3. /\ unreadCount[r] <= countUnread(r, rows, read) + uncounted[r]
      /\ unreadCount[r] \in Nat /\ uncounted[r] \in Nat
      /\ countUnread(r, rows, read) \in Nat
  BY <1>1, CountsType DEF NeverOverstated
<1>4. CASE isRead
  <2>1. Unread(r, rows', read') = Unread(r, rows, read)
    BY <1>1, <1>2, <1>4 DEF Unread, In
  <2> QED
    BY <1>2, <1>3, <1>4, <2>1 DEF countUnread
<1>5. CASE ~isRead /\ r = RoomOf[m]
  <2>1. countUnread(r, rows', read') = countUnread(r, rows, read) + 1
    BY <1>1, <1>2, <1>5, UnreadGrows
  <2>2. unreadCount'[r] = unreadCount[r] + 1
    BY <1>1, <1>2, <1>5
  <2> QED
    BY <1>3, <2>1, <2>2
<1>6. CASE ~isRead /\ r # RoomOf[m]
  <2>1. Unread(r, rows', read') = Unread(r, rows, read)
    BY <1>1, <1>2, <1>6 DEF Unread, In
  <2>2. unreadCount'[r] = unreadCount[r]
    BY <1>1, <1>2, <1>6
  <2> QED
    BY <1>3, <2>1, <2>2 DEF countUnread
<1> QED
  BY <1>4, <1>5, <1>6

(* A room whose counter and rows are left alone keeps what it may claim.   *)
LEMMA KeptCounted ==
    ASSUME TypeOK, NeverOverstated, NEW r \in Rooms, In(r, rows') = In(r, rows),
           In(r, read') = In(r, read), unreadCount'[r] = unreadCount[r],
           uncounted'[r] = uncounted[r]
    PROVE  unreadCount'[r] <= countUnread(r, rows', read') + uncounted'[r]
<1>1. countUnread(r, rows', read') = countUnread(r, rows, read)
  BY OtherRoomsKept
<1> QED
  BY <1>1 DEF NeverOverstated

(* A READ packet of another device only touches rows of its room, whose    *)
(* count is taken anew.                                                    *)
LEMMA SelfReadCounted ==
    ASSUME ScreenInv, NeverOverstated, selfRead
    PROVE  NeverOverstated'
<1> DEFINE s == Head(chain).env
<1>1. PICK applied \in SUBSET SyncOf[s] :
        /\ read' = read \cup (applied \cap rows)
        /\ IF applied = {} THEN unreadCount' = unreadCount /\ uncounted' = uncounted
           ELSE /\ recomputeRoomUnread(SyncRoom[s], read')
                /\ uncounted' = [uncounted EXCEPT ![SyncRoom[s]] = 0]
  BY DEF selfRead
<1>2. /\ s \in Syncs /\ rows' = rows /\ rows \subseteq Msgs /\ read' \subseteq Msgs
      /\ unreadCount \in [Rooms -> Nat] /\ TypeOK /\ uncounted \in [Rooms -> Nat]
  BY SelfReadScreen DEF selfRead, ScreenInv, TypeOK
<1>3. \A m \in applied : RoomOf[m] = SyncRoom[s]
  BY <1>1, <1>2, InboxAssumption
<1> HIDE DEF s
<1> SUFFICES ASSUME NEW r \in Rooms
             PROVE  unreadCount'[r] <= countUnread(r, rows', read') + uncounted'[r]
  BY DEF NeverOverstated
<1>4. CASE applied # {} /\ r = SyncRoom[s]
  <2>1. countUnread(r, rows, read') \in Nat
    BY <1>2, UnreadFinite
  <2>2. unreadCount'[r] = countUnread(r, rows, read') /\ uncounted'[r] = 0
    BY <1>1, <1>2, <1>4 DEF recomputeRoomUnread
  <2> QED
    BY <1>2, <2>1, <2>2
<1>5. CASE applied = {} \/ r # SyncRoom[s]
  <2>1. In(r, read') = In(r, read) /\ In(r, rows') = In(r, rows)
    BY <1>1, <1>2, <1>3, <1>5 DEF In
  <2>2. unreadCount'[r] = unreadCount[r] /\ uncounted'[r] = uncounted[r]
    BY <1>1, <1>2, <1>5 DEF recomputeRoomUnread
  <2> QED
    BY <1>2, <2>1, <2>2, KeptCounted
<1> QED
  BY <1>4, <1>5

(* Opening a room zeroes its counter and reads no row of another room.     *)
LEMMA OpenCounted ==
    ASSUME ScreenInv, NeverOverstated, NEW q \in Rooms, openRoom(q)
    PROVE  NeverOverstated'
<1>1. /\ rows' = rows /\ rows \subseteq Msgs /\ unreadCount \in [Rooms -> Nat]
      /\ read' = read \cup (Picked(q) \cap rows) /\ TypeOK
      /\ unreadCount' = [unreadCount EXCEPT ![q] = 0]
      /\ uncounted' = [uncounted EXCEPT ![q] = 0] /\ uncounted \in [Rooms -> Nat]
  BY DEF openRoom, markRoomAsRead, ScreenInv, TypeOK
<1> SUFFICES ASSUME NEW r \in Rooms
             PROVE  unreadCount'[r] <= countUnread(r, rows', read') + uncounted'[r]
  BY DEF NeverOverstated
<1>2. CASE r = q
  <2>1. countUnread(r, rows', read') \in Nat
    BY <1>1, UnreadFinite
  <2> QED
    BY <1>1, <1>2, <2>1
<1>3. CASE r # q
  <2>1. In(r, read') = In(r, read) /\ In(r, rows') = In(r, rows)
    BY <1>1, <1>3 DEF In, Picked
  <2> QED
    BY <1>1, <1>3, <2>1, KeptCounted
<1> QED
  BY <1>2, <1>3

(* Counters taken from the table, and steps that touch neither.            *)
LEMMA LoadCounted ==
    ASSUME ScreenInv, NeverOverstated, loadRooms \/ restart
    PROVE  NeverOverstated'
<1>1. /\ rows' = rows /\ read' = read /\ rows \subseteq Msgs
      /\ unreadCount' = [r \in Rooms |-> countUnread(r, rows, read)]
      /\ uncounted' = [r \in Rooms |-> 0]
  BY DEF loadRooms, restart, tableVars, ScreenInv, TypeOK
<1>2. \A r \in Rooms : countUnread(r, rows, read) \in Nat
  BY <1>1, UnreadFinite
<1> QED
  BY <1>1, <1>2 DEF NeverOverstated

LEMMA QuietCounted ==
    ASSUME NeverOverstated,
           \/ drop \/ flush \/ closeRoom \/ sendControlPacket \/ UNCHANGED vars
           \/ \E e \in Envelopes : handleIncomingMessage(e) \/ keyExpires(e)
    PROVE  NeverOverstated'
<1>1. /\ rows' = rows /\ read' = read /\ unreadCount' = unreadCount
      /\ uncounted' = uncounted
  BY DEF drop, flush, closeRoom, sendControlPacket, sendPacket, vars,
         handleIncomingMessage,
     keyExpires, tableVars, boundVars
<1> QED
  BY <1>1 DEF NeverOverstated

(* Rows that are deleted are uncounted until the next count.               *)
LEMMA DeletedCounted ==
    ASSUME ScreenInv, NeverOverstated,
           \/ messageDeleted \/ \E m \in Msgs : deleteMessageForEveryone(m)
           \/ \E r \in Rooms, u \in Leavers : handleUserLeftRoom(r, u)
    PROVE  NeverOverstated'
<1>1. PICK q \in Rooms, D \in SUBSET Msgs : In(q, D) = D /\ deleteRows(q, D)
  <2>1. ASSUME NEW r \in Rooms, NEW u \in Leavers, handleUserLeftRoom(r, u)
        PROVE  \E q \in Rooms, D \in SUBSET Msgs : In(q, D) = D /\ deleteRows(q, D)
    <3> DEFINE D == {m \in In(r, rows) : SenderOf[m] = u}
    <3>1. D \in SUBSET Msgs /\ In(r, D) = D /\ deleteRows(r, D)
      BY <2>1 DEF In, handleUserLeftRoom, ScreenInv, TypeOK
    <3> HIDE DEF D
    <3> QED
      BY <3>1
  <2>2. ASSUME NEW m \in Msgs, removeMessage(m)
        PROVE  \E q \in Rooms, D \in SUBSET Msgs : In(q, D) = D /\ deleteRows(q, D)
    <3>1. RoomOf[m] \in Rooms /\ {m} \in SUBSET Msgs /\ In(RoomOf[m], {m}) = {m}
      BY InboxAssumption DEF In
    <3> QED
      BY <2>2, <3>1 DEF removeMessage
  <2>3. messageDeleted => \E m \in Msgs : removeMessage(m)
    BY InboxAssumption DEF messageDeleted
  <2> QED
    BY <2>1, <2>2, <2>3 DEF deleteMessageForEveryone
<1>2. /\ unreadCount' = unreadCount
      /\ \A r \in Rooms : countUnread(r, rows', read') + uncounted'[r]
                          = countUnread(r, rows, read) + uncounted[r]
  BY <1>1, RowsDeleted DEF ScreenInv
<1> QED
  BY <1>2 DEF NeverOverstated

LEMMA CounterStep ==
    ASSUME ScreenInv, NeverOverstated, [Next]_vars
    PROVE  NeverOverstated'
BY MessageCounted, SelfReadCounted, OpenCounted, LoadCounted, QuietCounted,
   DeletedCounted
   DEF Next, chainStep

(* The unread counter of a room never claims more messages than the table  *)
(* holds unread and was relieved of since it was last counted              *)
(* (recomputeRoomUnread, loadRooms, markRoomAsRead).                       *)
THEOREM CounterNeverOverstated == Spec => []NeverOverstated
<1>1. Init => ScreenInv /\ NeverOverstated
  <2>1. Init => ScreenInv
    BY InboxAssumption DEF Init, ScreenInv, TypeOK, PacketsKnown,
           ReadOnlyIfSeen,
       NothingVanishes, Status
  <2>2. ASSUME Init PROVE NeverOverstated
    <3>1. /\ rows \in SUBSET Msgs /\ unreadCount = [r \in Rooms |-> 0]
          /\ uncounted = [r \in Rooms |-> 0]
      BY <2>2 DEF Init
    <3>2. \A r \in Rooms : countUnread(r, rows, read) \in Nat
      BY <3>1, UnreadFinite
    <3> QED
      BY <3>1, <3>2 DEF NeverOverstated
  <2> QED
    BY <2>1, <2>2
<1>2. ScreenInv /\ NeverOverstated /\ [Next]_vars => (ScreenInv /\ NeverOverstated)'
  BY ScreenStep, CounterStep
<1> QED
  BY <1>1, <1>2, PTL DEF Spec

-----------------------------------------------------------------------------
(* The unread messages of a room that were not on the screen yet.          *)
Unseen(r) == Unread(r, rows, read) \ seen

(* They are no more than the unread messages.                              *)
LEMMA UnseenBound ==
    ASSUME NEW r, NEW R \in SUBSET Msgs, NEW S, NEW Z
    PROVE  /\ IsFiniteSet(Unread(r, R, S) \ Z)
           /\ Cardinality(Unread(r, R, S) \ Z) \in Nat
           /\ Cardinality(Unread(r, R, S) \ Z) <= countUnread(r, R, S)
<1>1. IsFiniteSet(Unread(r, R, S))
  BY UnreadFinite
<1> QED
  BY <1>1, FS_Subset, FS_CardinalityType DEF countUnread

LEMMA FewerUnseen ==
    ASSUME TypeOK, NEW r \in Rooms, UnseenIsCounted,
           Unseen(r)' \subseteq Unseen(r), unreadCount'[r] = unreadCount[r]
    PROVE  Cardinality(Unseen(r)') <= unreadCount'[r]
<1>1. IsFiniteSet(Unseen(r)) /\ Cardinality(Unseen(r)) <= unreadCount[r]
  BY UnseenBound DEF UnseenIsCounted, Unseen, TypeOK
<1>2. /\ IsFiniteSet(Unseen(r)') /\ Cardinality(Unseen(r)') <= Cardinality(Unseen(r))
      /\ Cardinality(Unseen(r)') \in Nat /\ Cardinality(Unseen(r)) \in Nat
  BY <1>1, FS_Subset, FS_CardinalityType
<1>3. unreadCount[r] \in Nat
  BY DEF TypeOK
<1> QED
  BY <1>1, <1>2, <1>3

(* A message that comes in unseen adds one to both sides.                  *)
LEMMA MessageUnseen ==
    ASSUME ScreenInv, UnseenIsCounted, handleUserMessage
    PROVE  UnseenIsCounted'
<1> DEFINE m == Head(chain).env
           isRead == currentRoom = RoomOf[m] \/ m \in Mine
<1>1. /\ TypeOK /\ m \in Msgs /\ RoomOf[m] \in Rooms /\ unreadCount \in [Rooms -> Nat]
  BY InboxAssumption DEF handleUserMessage, ScreenInv, TypeOK
<1>2. /\ rows' = rows \cup {m}
      /\ read' = IF isRead THEN read \cup {m} ELSE read \ {m}
      /\ seen' = IF currentRoom = RoomOf[m] THEN seen \cup {m} ELSE seen
      /\ unreadCount' = IF isRead THEN unreadCount
                        ELSE [unreadCount EXCEPT ![RoomOf[m]] = @ + 1]
  BY DEF handleUserMessage
<1> HIDE DEF m
<1> SUFFICES ASSUME NEW r \in Rooms
             PROVE  Cardinality(Unseen(r)') <= unreadCount'[r]
  BY DEF UnseenIsCounted, Unseen
<1>3. CASE isRead \/ r # RoomOf[m]
  <2>1. Unseen(r)' \subseteq Unseen(r)
    BY <1>2, <1>3 DEF Unseen, Unread, In
  <2>2. unreadCount'[r] = unreadCount[r]
    BY <1>1, <1>2, <1>3
  <2> QED
    BY <1>1, <2>1, <2>2, FewerUnseen
<1>4. CASE ~isRead /\ r = RoomOf[m]
  <2>1. Unseen(r)' \subseteq Unseen(r) \cup {m}
    BY <1>2, <1>4 DEF Unseen, Unread, In
  <2>2. /\ IsFiniteSet(Unseen(r)) /\ Cardinality(Unseen(r)) \in Nat
        /\ Cardinality(Unseen(r)) <= unreadCount[r]
    BY <1>1, UnseenBound DEF UnseenIsCounted, Unseen, TypeOK
  <2>3. /\ IsFiniteSet(Unseen(r) \cup {m})
        /\ Cardinality(Unseen(r) \cup {m}) \in Nat
        /\ Cardinality(Unseen(r) \cup {m}) <= Cardinality(Unseen(r)) + 1
    BY <2>2, FS_AddElement, FS_CardinalityType
  <2>4. /\ Cardinality(Unseen(r)') \in Nat
        /\ Cardinality(Unseen(r)') <= Cardinality(Unseen(r) \cup {m})
    BY <2>1, <2>3, FS_Subset, FS_CardinalityType
  <2>5. unreadCount'[r] = unreadCount[r] + 1 /\ unreadCount[r] \in Nat
    BY <1>1, <1>2, <1>4
  <2> QED
    BY <2>2, <2>3, <2>4, <2>5
<1> QED
  BY <1>3, <1>4

(* Counters taken from the table count all unread messages.                *)
LEMMA LoadUnseen ==
    ASSUME ScreenInv, loadRooms \/ restart
    PROVE  UnseenIsCounted'
<1>1. /\ rows \in SUBSET Msgs /\ rows' = rows /\ read' = read /\ seen' = seen
      /\ unreadCount' = [r \in Rooms |-> countUnread(r, rows, read)]
  BY DEF loadRooms, restart, tableVars, history, ScreenInv, TypeOK
<1> QED
  BY <1>1, UnseenBound DEF UnseenIsCounted

(* A READ packet of another device takes the count of its room anew, and   *)
(* reads no row of another.                                                *)
LEMMA SelfReadUnseen ==
    ASSUME ScreenInv, UnseenIsCounted, selfRead
    PROVE  UnseenIsCounted'
<1> DEFINE s == Head(chain).env
<1>1. PICK applied \in SUBSET SyncOf[s] :
        /\ read' = read \cup (applied \cap rows)
        /\ IF applied = {} THEN unreadCount' = unreadCount
           ELSE recomputeRoomUnread(SyncRoom[s], read')
  BY DEF selfRead
<1>2. /\ TypeOK /\ rows' = rows /\ rows \in SUBSET Msgs /\ seen' = seen
      /\ unreadCount \in [Rooms -> Nat]
  BY DEF selfRead, history, ScreenInv, TypeOK
<1> HIDE DEF s
<1> SUFFICES ASSUME NEW r \in Rooms
             PROVE  Cardinality(Unseen(r)') <= unreadCount'[r]
  BY DEF UnseenIsCounted, Unseen
<1>3. CASE applied = {} \/ r # SyncRoom[s]
  <2>1. Unseen(r)' \subseteq Unseen(r)
    BY <1>1, <1>2 DEF Unseen, Unread
  <2>2. unreadCount'[r] = unreadCount[r]
    BY <1>1, <1>2, <1>3 DEF recomputeRoomUnread
  <2> QED
    BY <1>2, <2>1, <2>2, FewerUnseen
<1>4. CASE applied # {} /\ r = SyncRoom[s]
  <2>1. unreadCount'[r] = countUnread(r, rows, read')
    BY <1>1, <1>2, <1>4 DEF recomputeRoomUnread
  <2>2. Unseen(r)' = Unread(r, rows, read') \ seen
    BY <1>2 DEF Unseen
  <2> QED
    BY <1>2, <2>1, <2>2, UnseenBound
<1> QED
  BY <1>3, <1>4

(* Opening a room shows all its rows; other rooms keep their counters.     *)
LEMMA OpenUnseen ==
    ASSUME ScreenInv, UnseenIsCounted, NEW q \in Rooms, openRoom(q)
    PROVE  UnseenIsCounted'
<1>1. /\ TypeOK /\ rows' = rows /\ unreadCount \in [Rooms -> Nat]
      /\ read \subseteq read' /\ seen \subseteq seen' /\ In(q, rows) \subseteq seen'
      /\ unreadCount' = [unreadCount EXCEPT ![q] = 0]
  BY DEF openRoom, markRoomAsRead, ScreenInv, TypeOK, In
<1> SUFFICES ASSUME NEW r \in Rooms
             PROVE  Cardinality(Unseen(r)') <= unreadCount'[r]
  BY DEF UnseenIsCounted, Unseen
<1>2. CASE r = q
  <2>1. Unseen(r)' = {}
    BY <1>1, <1>2 DEF Unseen, Unread, In
  <2> QED
    BY <1>1, <1>2, <2>1, FS_EmptySet
<1>3. CASE r # q
  <2>1. Unseen(r)' \subseteq Unseen(r) /\ unreadCount'[r] = unreadCount[r]
    BY <1>1, <1>3 DEF Unseen, Unread
  <2> QED
    BY <1>1, <2>1, FewerUnseen
<1> QED
  BY <1>2, <1>3

(* Other steps touch no counter, and no row but those they delete.         *)
LEMMA QuietUnseen ==
    ASSUME ScreenInv, UnseenIsCounted,
           \/ drop \/ flush \/ closeRoom \/ sendControlPacket \/ UNCHANGED vars
           \/ \E e \in Envelopes : handleIncomingMessage(e) \/ keyExpires(e)
           \/ messageDeleted \/ \E m \in Msgs : deleteMessageForEveryone(m)
           \/ \E r \in Rooms, u \in Leavers : handleUserLeftRoom(r, u)
    PROVE  UnseenIsCounted'
<1>1. /\ TypeOK /\ rows' \subseteq rows /\ read' = read /\ seen' = seen
      /\ unreadCount' = unreadCount
  BY DEF messageDeleted, deleteMessageForEveryone, removeMessage, deleteRows, drop, flush, closeRoom, sendControlPacket, sendPacket, vars,
         handleIncomingMessage,
     keyExpires, handleUserLeftRoom, tableVars, history, ScreenInv
<1>2. \A r \in Rooms : Unseen(r)' \subseteq Unseen(r)
  BY <1>1 DEF Unseen, Unread, In
<1>3. \A r \in Rooms : Cardinality(Unseen(r)') <= unreadCount'[r]
  BY <1>1, <1>2, FewerUnseen
<1> QED
  BY <1>3 DEF UnseenIsCounted, Unseen

(* The counter of a room never misses a message that came in unseen.       *)
THEOREM CounterNeverMisses == Spec => []UnseenIsCounted
<1>1. Init => ScreenInv /\ UnseenIsCounted
  <2>1. Init => ScreenInv
    BY InboxAssumption DEF Init, ScreenInv, TypeOK, PacketsKnown,
           ReadOnlyIfSeen,
       NothingVanishes, Status
  <2>2. ASSUME Init PROVE UnseenIsCounted
    <3>1. unreadCount = [r \in Rooms |-> 0] /\ \A r \in Rooms : Unseen(r) = {}
      BY <2>2 DEF Init, Unseen, Unread, In
    <3> QED
      BY <3>1, FS_EmptySet DEF UnseenIsCounted, Unseen
  <2> QED
    BY <2>1, <2>2
<1>2. ScreenInv /\ UnseenIsCounted /\ [Next]_vars => (ScreenInv /\ UnseenIsCounted)'
  <2>1. ASSUME ScreenInv, UnseenIsCounted, [Next]_vars PROVE UnseenIsCounted'
    BY <2>1, MessageUnseen, LoadUnseen, SelfReadUnseen, OpenUnseen, QuietUnseen
       DEF Next, chainStep
  <2> QED
    BY <2>1, ScreenStep
<1> QED
  BY <1>1, <1>2, PTL DEF Spec
=============================================================================
