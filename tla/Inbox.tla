-------------------------------- MODULE Inbox --------------------------------
(***************************************************************************)
(* Incoming messages in src/src/services/chat.service.ts: the envelopes a  *)
(* socket hands over, the serial queue that processes them, their rows in  *)
(* the messages table, the store that shows them (a batch flushed 150 ms   *)
(* later), the unread counter of each room, the chat screen that opens and *)
(* closes a room, markRoomAsRead, the READ packets of our own other        *)
(* devices, and messages that are deleted for everyone. The rooms are in   *)
(* the list of rooms throughout.                                           *)
(*                                                                         *)
(* The database driver is synchronous (openDatabaseSync): an await on it   *)
(* lets no event, timer or screen in between. Code between two awaits on   *)
(* the Signal module, a socket or a timer is one step. A packet that is    *)
(* not sent inline is put into the serial queue and not awaited.           *)
(***************************************************************************)
EXTENDS Integers, Sequences, FiniteSets, SequencesExt

CONSTANTS
    Msgs,        \* messages of others, and of our own other devices
    Mine,        \* the latter: copies of what another device of ours sent
    OtherId,     \* does their server know us by an id other than userId?
    Rooms,
    NoRoom,      \* currentRoomId when no chat is open
    RoomOf,      \* the room of each message
    Users,
    SenderOf,    \* its sender
    Syncs,       \* MESSAGE_READ packets of our other devices
    SyncRoom,    \* the room of each
    SyncOf,      \* and the messages of it they name
    Deletions,   \* message_deleted envelopes
    DeletedMsg,  \* the message each deletes
    Leavers,     \* members who leave their rooms
    MaxArrivals, \* bound: envelopes that arrive, copies included
    MaxOpens,    \* bound: times a room is opened
    MaxRestarts  \* bound: restarts of the app

Envelopes == Msgs \cup Syncs \cup Deletions

ASSUME InboxAssumption ==
    /\ IsFiniteSet(Msgs)
    /\ Mine \subseteq Msgs
    /\ OtherId \in BOOLEAN
    /\ NoRoom \notin Rooms
    /\ RoomOf \in [Msgs -> Rooms]
    /\ SenderOf \in [Msgs -> Users]
    /\ Msgs \cap Syncs = {} /\ Deletions \cap (Msgs \cup Syncs) = {}
    /\ DeletedMsg \in [Deletions -> Msgs]
    /\ SyncRoom \in [Syncs -> Rooms]
    /\ SyncOf \in [Syncs -> SUBSET (Msgs \ Mine)]
    /\ \A s \in Syncs : \A m \in SyncOf[s] : RoomOf[m] = SyncRoom[s]
    /\ Leavers \subseteq Users
    /\ MaxArrivals \in Nat /\ MaxOpens \in Nat /\ MaxRestarts \in Nat

VARIABLES
    rows,        \* messages with a row in the messages table
    read,        \* rows with a time in `read`
    idStatus,    \* idStatus of each row
    shown,       \* messages in store.messages
    batch,       \* messages in pendingAddMessages
    memStatus,   \* idStatus of the copy in either
    memRead,     \* copies with a time in `read`
    unreadCount, \* of each room in the store
    currentRoom, \* currentRoomId
    chain,       \* messageQueue: the operations still to run
    processing,  \* processingMessages: the dedup keys
    arrivals,    \* envelopes that arrived so far
    opens,       \* rooms opened so far
    gone,        \* members who left
    restarts,
    seen,        \* history: messages that were ever on the screen
    told,        \* history: messages a READ packet told their sender of
    uncounted    \* history: unread rows of a room that were deleted since its
                 \* counter was last counted

tableVars == <<rows, read, idStatus>>
storeVars == <<shown, batch, memStatus, memRead>>
queueVars == <<chain, processing>>
boundVars == <<arrivals, opens, gone, restarts>>
history == <<seen, told>>
vars == <<tableVars, storeVars, unreadCount, currentRoom, queueVars, boundVars,
          history, uncounted>>

-----------------------------------------------------------------------------
Status == {"SENT", "DELIVERED", "READ"}

In(r, S) == {m \in S : RoomOf[m] = r}

(* countUnreadIncoming and the count of findAllWithMetadata: rows of others*)
(* without a time in `read`. Copies of our own messages always have one.   *)
Unread(r, R, S) == {m \in In(r, R) \ S : m \notin Mine}
countUnread(r, R, S) == Cardinality(Unread(r, R, S))

EnvelopeOps == [kind : {"envelope"}, env : Envelopes]
PacketOps == [kind : {"packet"}, ids : SUBSET Msgs]
Op == EnvelopeOps \cup PacketOps

-----------------------------------------------------------------------------
Init ==
    /\ rows = {} /\ read = {}
    /\ idStatus = [m \in Msgs |-> "DELIVERED"]
    /\ shown = {} /\ batch = {}
    /\ memStatus = [m \in Msgs |-> "DELIVERED"]
    /\ memRead = {}
    /\ unreadCount = [r \in Rooms |-> 0]
    /\ currentRoom = NoRoom
    /\ chain = <<>> /\ processing = {}
    /\ arrivals = 0
    /\ opens = 0 /\ gone = {} /\ restarts = 0
    /\ seen = {} /\ told = {} /\ uncounted = [r \in Rooms |-> 0]

(* An envelope arrives; a copy of one that is queued, or was processed     *)
(* less than 60 s ago, is dropped.                                         *)
handleIncomingMessage(e) ==
    /\ arrivals < MaxArrivals
    /\ arrivals' = arrivals + 1
    /\ IF e \in processing
       THEN UNCHANGED <<chain, processing>>
       ELSE /\ processing' = processing \cup {e}
            /\ chain' = Append(chain, [kind |-> "envelope", env |-> e])
    /\ UNCHANGED <<tableVars, storeVars, unreadCount, currentRoom, opens, gone,
                   restarts, history, uncounted>>

(* The 60 s timer of processEnvelope, set when the envelope was processed. *)
keyExpires(e) ==
    /\ e \in processing
    /\ \A k \in DOMAIN chain : chain[k].kind = "envelope" => chain[k].env # e
    /\ processing' = processing \ {e}
    /\ UNCHANGED <<tableVars, storeVars, unreadCount, currentRoom, chain,
                   boundVars, history, uncounted>>

-----------------------------------------------------------------------------
Running(kind) == chain # <<>> /\ Head(chain).kind = kind

(* findById finds the row; or there is no ciphertext, or decrypt fails.    *)
drop ==
    /\ Running("envelope")
    /\ chain' = Tail(chain)
    /\ UNCHANGED <<tableVars, storeVars, unreadCount, currentRoom, processing,
                   boundVars, history, uncounted>>

(* handleUserMessage and handleSenderKeyMessage once the ciphertext is     *)
(* decrypted: the row, the batch, the counter, and a receipt. A copy that  *)
(* still shows, its row having been deleted, wins over that in the batch.  *)
handleUserMessage ==
    /\ Running("envelope")
    /\ LET m == Head(chain).env
           room == RoomOf[m]
           isViewingRoom == currentRoom = room
           status == IF m \in Mine THEN "SENT"
                     ELSE IF isViewingRoom THEN "READ" ELSE "DELIVERED"
           isRead == isViewingRoom \/ m \in Mine
       IN  /\ m \in Msgs
           /\ m \notin rows
           /\ rows' = rows \cup {m}
           /\ read' = IF isRead THEN read \cup {m} ELSE read \ {m}
           /\ idStatus' = [idStatus EXCEPT ![m] = status]
           /\ batch' = batch \cup {m}
           /\ IF m \in shown THEN UNCHANGED <<memStatus, memRead>>
              ELSE /\ memStatus' = [memStatus EXCEPT ![m] = status]
                   /\ memRead' = IF isRead THEN memRead \cup {m} ELSE memRead \ {m}
           /\ unreadCount' = IF isRead THEN unreadCount
                             ELSE [unreadCount EXCEPT ![room] = @ + 1]
           /\ seen' = IF isViewingRoom THEN seen \cup {m} ELSE seen
           /\ told' \in IF isViewingRoom /\ m \notin Mine
                        THEN {told, told \cup {m}} ELSE {told}
    /\ chain' = Tail(chain)
    /\ UNCHANGED <<shown, currentRoom, processing, boundVars, uncounted>>

(* Mutant of recomputeRoomUnread: the counter is left as it is.            *)
keepRoomUnread(r, S) == UNCHANGED unreadCount

recomputeRoomUnread(r, S) ==
    unreadCount' = [unreadCount EXCEPT ![r] = countUnread(r, rows, S)]

(* A MESSAGE_READ of another device of ours: resolveMessageStatus looks in *)
(* the store first and in the table second; ids it finds in neither, or    *)
(* that are read already, are skipped.                                     *)
selfRead ==
    /\ Running("envelope")
    /\ LET s == Head(chain).env
           isUnread(m) == IF m \in shown THEN m \notin memRead
                          ELSE m \in rows \ read
           applied == {m \in SyncOf[s] : isUnread(m)}
           copies == applied \cap (shown \cup batch)
       IN  /\ s \in Syncs
           /\ read' = read \cup (applied \cap rows)
           /\ memStatus' = [m \in Msgs |-> IF m \in copies THEN "READ" ELSE memStatus[m]]
           /\ memRead' = memRead \cup copies
           /\ IF applied = {} THEN UNCHANGED <<unreadCount, uncounted>>
              ELSE /\ recomputeRoomUnread(SyncRoom[s], read')
                   /\ uncounted' = [uncounted EXCEPT ![SyncRoom[s]] = 0]
    /\ chain' = Tail(chain)
    /\ UNCHANGED <<rows, idStatus, shown, batch, currentRoom, processing,
                   boundVars, history>>

-----------------------------------------------------------------------------
(* Mutant of _flushMessageBatch: the batch replaces what was shown.        *)
flushReplaces == shown' = batch

(* _flushMessageBatch: the batch is merged into what is shown.             *)
flushMerges == shown' = shown \cup batch

(* The batch timer fires.                                                  *)
flush ==
    /\ batch # {}
    /\ flushMerges
    /\ batch' = {}
    /\ UNCHANGED <<tableVars, memStatus, memRead, unreadCount, currentRoom,
                   queueVars, boundVars, history, uncounted>>

(* loadRoomMessages and setMessages: the rows of the room (R of the table) *)
(* replace what is shown, and messages waiting in the batch are added. The *)
(* copies of the messages in toRead are then marked READ.                  *)
loadRoomMessages(r, R, toRead) ==
    LET loaded == In(r, R) IN
    /\ shown' = (shown \ In(r, Msgs)) \cup loaded \cup In(r, batch)
    /\ batch' = batch \ In(r, Msgs)
    /\ memStatus' = [m \in Msgs |-> IF m \in toRead THEN "READ"
                                    ELSE IF m \in loaded THEN idStatus[m]
                                    ELSE memStatus[m]]
    /\ memRead' = (memRead \ loaded) \cup (read \cap loaded)

(* Mutant of Picked: the messages of every room.                           *)
PickedAnywhere(r) == {m \in shown : memStatus[m] # "READ"}

(* The messages markRoomAsRead picks: by sender and status of the copies.  *)
Picked(r) == {m \in In(r, shown) :
                /\ m \in Mine => OtherId
                /\ memStatus[m] # "READ"}

(* sendReadReceipt: one packet per sender.                                 *)
Packets(S) == {[kind |-> "packet", ids |-> {m \in S : SenderOf[m] = u}] :
                 u \in {SenderOf[m] : m \in S}}

(* Mutants of markRoomAsRead: the counter goes down by what was picked; or *)
(* the counters of all rooms are zeroed.                                   *)
markDecrements(r) ==
    /\ read' = read \cup (Picked(r) \cap rows)
    /\ unreadCount' = [unreadCount EXCEPT ![r] = @ - Cardinality(Picked(r))]
    /\ UNCHANGED chain

markZeroesAll(r) ==
    /\ read' = read \cup (Picked(r) \cap rows)
    /\ unreadCount' = [q \in Rooms |-> 0]
    /\ UNCHANGED chain

(* markRoomAsRead on what the store shows when it is called; the packets   *)
(* are left to the serial queue, whether they are sent or not.             *)
markRoomAsRead(r) ==
    /\ read' = read \cup (Picked(r) \cap rows)
    /\ unreadCount' = [unreadCount EXCEPT ![r] = 0]
    /\ \E q \in SetToSeqs(Packets(Picked(r))) : chain' = chain \o q

(* The chat screen opens: setCurrentRoom, the counter, loadRoomMessages    *)
(* and markRoomAsRead, which picks its messages before the load has rows   *)
(* and marks their copies after it has replaced them.                      *)
openRoom(r) ==
    /\ currentRoom = NoRoom
    /\ opens < MaxOpens
    /\ currentRoom' = r
    /\ opens' = opens + 1
    /\ markRoomAsRead(r)
    /\ loadRoomMessages(r, rows, Picked(r))
    /\ seen' = seen \cup In(r, rows \cup shown \cup batch)
    /\ uncounted' = [uncounted EXCEPT ![r] = 0]
    /\ UNCHANGED <<rows, idStatus, processing, arrivals, gone, restarts, told>>

closeRoom ==
    /\ currentRoom # NoRoom
    /\ currentRoom' = NoRoom
    /\ UNCHANGED <<tableVars, storeVars, unreadCount, queueVars, boundVars, history,
                   uncounted>>

(* sendPacket, over a connected socket: the senders of the messages learn  *)
(* that they were read, at once or when they come back. Its answer is not  *)
(* waited for; not connected, it throws, and nobody tries again.           *)
sendPacket(ids) == told' \in {told, told \cup ids}

(* The packet is encrypted and emitted, or dropped: encrypt fails or the   *)
(* socket is not connected.                                                *)
sendControlPacket ==
    /\ Running("packet")
    /\ chain' = Tail(chain)
    /\ sendPacket(Head(chain).ids)
    /\ UNCHANGED <<tableVars, storeVars, unreadCount, currentRoom, processing,
                   boundVars, seen, uncounted>>

-----------------------------------------------------------------------------
(* loadRooms: at the start, on every connect and on pull-to-refresh.       *)
loadRooms ==
    /\ unreadCount' = [r \in Rooms |-> countUnread(r, rows, read)]
    /\ uncounted' = [r \in Rooms |-> 0]
    /\ UNCHANGED <<tableVars, storeVars, currentRoom, queueVars, boundVars, history>>

(* Rows of room r go; its counter is left as it is.                        *)
deleteRows(r, D) ==
    /\ rows' = rows \ D
    /\ uncounted' = [uncounted EXCEPT ![r] =
                        @ + countUnread(r, rows, read) - countUnread(r, rows \ D, read)]
    /\ UNCHANGED <<read, idStatus, unreadCount>>

(* handleUserLeftRoom for another member, outside the serial queue.        *)
handleUserLeftRoom(r, u) ==
    /\ u \notin gone
    /\ gone' = gone \cup {u}
    /\ deleteRows(r, {m \in In(r, rows) : SenderOf[m] = u})
    /\ loadRoomMessages(r, rows', {})
    /\ UNCHANGED <<currentRoom, queueVars, arrivals, opens, restarts, history>>

(* The row and the copy that shows; one that waits in the batch stays, and *)
(* shows when the batch is flushed.                                        *)
removeMessage(m) ==
    /\ deleteRows(RoomOf[m], {m})
    /\ shown' = shown \ {m}
    /\ UNCHANGED <<batch, memStatus, memRead>>

(* message_deleted: another user, or another device of ours, has deleted   *)
(* the message; it may not have come yet.                                  *)
messageDeleted ==
    /\ Running("envelope") /\ Head(chain).env \in Deletions
    /\ removeMessage(DeletedMsg[Head(chain).env])
    /\ chain' = Tail(chain)
    /\ UNCHANGED <<currentRoom, processing, boundVars, history>>

(* The user deletes a message that was on the screen; the menu offers it   *)
(* for the messages of others as well. The request ends outside the serial *)
(* queue.                                                                  *)
deleteMessageForEveryone(m) ==
    /\ m \in seen /\ m \in rows \cup shown
    /\ removeMessage(m)
    /\ UNCHANGED <<currentRoom, queueVars, boundVars, history>>

(* The app is killed and starts again.                                     *)
restart ==
    /\ restarts < MaxRestarts
    /\ restarts' = restarts + 1
    /\ shown' = {} /\ batch' = {}
    /\ currentRoom' = NoRoom
    /\ chain' = <<>> /\ processing' = {}
    /\ unreadCount' = [r \in Rooms |-> countUnread(r, rows, read)]
    /\ uncounted' = [r \in Rooms |-> 0]
    /\ UNCHANGED <<tableVars, memStatus, memRead, arrivals, opens, gone, history>>

-----------------------------------------------------------------------------
chainStep == drop \/ handleUserMessage \/ selfRead \/ messageDeleted
             \/ sendControlPacket

Next ==
    \/ \E e \in Envelopes : handleIncomingMessage(e) \/ keyExpires(e)
    \/ chainStep
    \/ flush
    \/ \E r \in Rooms : openRoom(r)
    \/ closeRoom
    \/ loadRooms
    \/ \E r \in Rooms, u \in Leavers : handleUserLeftRoom(r, u)
    \/ \E m \in Msgs : deleteMessageForEveryone(m)
    \/ restart

Spec == Init /\ [][Next]_vars

-----------------------------------------------------------------------------
TypeOK ==
    /\ rows \subseteq Msgs
    /\ read \subseteq Msgs
    /\ idStatus \in [Msgs -> Status]
    /\ shown \subseteq Msgs
    /\ batch \subseteq Msgs
    /\ memStatus \in [Msgs -> Status]
    /\ memRead \subseteq Msgs
    /\ unreadCount \in [Rooms -> Nat]
    /\ currentRoom \in Rooms \cup {NoRoom}
    /\ chain \in Seq(Op)
    /\ processing \subseteq Envelopes
    /\ arrivals \in Nat
    /\ opens \in Nat
    /\ gone \subseteq Users
    /\ restarts \in Nat
    /\ seen \subseteq Msgs
    /\ told \subseteq Msgs
    /\ uncounted \in [Rooms -> Nat]

(* A sender is told that a message was read only if it was on the screen,  *)
(* although the packet that tells so waits in the serial queue while rooms *)
(* close, messages arrive and senders leave.                               *)
ReadOnlyIfSeen == told \subseteq seen

(* The open room shows every row it has, in store.messages or in the batch *)
(* about to be flushed, whatever loads and flushes came in which order.    *)
NothingVanishes ==
    currentRoom # NoRoom => In(currentRoom, rows) \subseteq shown \cup batch

(* The counter of a room claims no more unread messages than the table     *)
(* has, and those whose rows were deleted since it was last counted (a     *)
(* member left, or a message was deleted for everyone; neither counts      *)
(* anew): arrivals, openings and READ packets of other devices never count *)
(* a message twice or one that was read.                                   *)
NeverOverstated ==
    \A r \in Rooms : unreadCount[r] <= countUnread(r, rows, read) + uncounted[r]

(* "The DB recompute is the robust invariant" (chat.service.ts:3193): the  *)
(* counter never misses an unread message that was not yet on the screen,  *)
(* whichever of the four writers of the counter wrote last.                *)
UnseenIsCounted ==
    \A r \in Rooms :
        Cardinality(Unread(r, rows, read) \ seen) <= unreadCount[r]

=============================================================================
