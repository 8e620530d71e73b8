------------------------------- MODULE Outbox -------------------------------
(***************************************************************************)
(* The life of an outgoing message in src/src/services/chat.service.ts:    *)
(* its row in the messages table, the serial queue (a promise chain) that  *)
(* sends it, the retry queue it is parked in while its server is not       *)
(* connected, the retry of stuck rows on every connect, the receipts that  *)
(* advance its status, and a restart of the app.                           *)
(*                                                                         *)
(* The retry queue appears here as the set of messages it holds and the    *)
(* one send it awaits (RetryPromise; its array and passes are RetryQueue). *)
(* Servers are external: they accept, reject or never answer a send.       *)
(***************************************************************************)
EXTENDS Integers, Sequences, FiniteSets

CONSTANTS
    Msgs,          \* outgoing messages
    Group,         \* those sent with a sender key: the server names them
    Volatile,      \* those the server does not store for offline recipients
    Servers,       \* the servers the client is configured for
    ServerOf,      \* the server of each message's room
    DefaultServer, \* the server whose row has isDefault = 1
    MaxTries,      \* bound: sends of one parked message (5 in the code)
    MaxRestarts,   \* bound: restarts of the app
    MaxCopies,     \* bound: copies of one message a server accepts
    MaxChain       \* bound: operations waiting in the serial queue

ASSUME OutboxAssumption ==
    /\ Group \subseteq Msgs
    /\ Volatile \subseteq Msgs
    /\ ServerOf \in [Msgs -> Servers]
    /\ DefaultServer \in Servers
    /\ MaxTries \in Nat /\ MaxRestarts \in Nat /\ MaxCopies \in Nat
    /\ MaxChain \in Nat

VARIABLES
    created,    \* messages with a row in the messages table
    status,     \* idStatus of each row
    rowId,      \* its id: 0 is the client's, k the server's k-th copy
    old,        \* rows older than MAX_RETRY_AGE_MS (2 hours)
    chain,      \* messageQueue: the operation that runs and those behind it
    step,       \* where the running operation is
    parked,     \* messages in queueService
    tries,      \* their retryCount
    flight,     \* messages whose queued send is awaited (at most one)
    landing,    \* rows a queued send renamed and whose status it has yet to set
    connected,  \* servers whose socket is connected
    sync,       \* where onConnected is, for each server
    stuck,      \* rows each onConnected still has to retry
    answer,     \* what the server did with the send each path awaits
    copies,     \* copies of each message a server accepted
    reached,    \* messages the server of their own room accepted
    restarts

rowVars == <<created, status, rowId, old>>
queueVars == <<parked, tries, flight, landing>>
syncVars == <<connected, sync, stuck>>
sentVars == <<copies, reached>>
netVars == <<answer, sentVars>>
vars == <<rowVars, chain, step, queueVars, syncVars, netVars, restarts>>

-----------------------------------------------------------------------------
(* MessageStatus.                                                          *)
UNDELIVERED == -2
FAILED == -1
PENDING == 0
SENDING == 1
SENT == 2
DELIVERED == 3
READ == 4
MessageStatus == UNDELIVERED..READ

(* Operations of the serial queue: id is the row id they are about, by the *)
(* server whose onConnected awaits a retry.                                *)
SendOps == [kind : {"send"}, msg : Msgs, id : {0}]
RetryOps == [kind : {"retry"}, msg : Msgs, id : Nat, by : Servers]
ReceiptOps == [kind : {"receipt"}, msg : Msgs, id : Nat, st : {DELIVERED, READ}]
Op == SendOps \cup RetryOps \cup ReceiptOps

(* The two places a send is awaited, and what the server did with it; copy *)
(* is the number of the copy an accepted send made.                        *)
Paths == {"chain", "queue"}
Answer == [is : {"none", "pending", "accepted", "rejected"}, copy : Nat]
NoAnswer == [is |-> "none", copy |-> 0]
Pending == [is |-> "pending", copy |-> 0]

(* Mutant of findStuckSending: it looks for PENDING rows only.             *)
findPending == {m \in created : status[m] = PENDING /\ ~old[m]}

(* messageRepository.findStuckSending, without the rows past the cutoff.   *)
findStuckSending ==
    {m \in created : status[m] \in {PENDING, SENDING} /\ ~old[m]}

(* Status after an acknowledged send.                                      *)
effectiveStatus(m, delivered) ==
    IF m \in Volatile /\ ~delivered THEN UNDELIVERED ELSE SENT

-----------------------------------------------------------------------------
Init ==
    /\ created = {}
    /\ status = [m \in Msgs |-> PENDING]
    /\ rowId = [m \in Msgs |-> 0]
    /\ old = [m \in Msgs |-> FALSE]
    /\ chain = <<>>
    /\ step = "ready"
    /\ parked = {} /\ flight = {} /\ landing = {}
    /\ tries = [m \in Msgs |-> 0]
    /\ connected = {}
    /\ sync = [s \in Servers |-> "idle"]
    /\ stuck = [s \in Servers |-> {}]
    /\ answer = [p \in Paths |-> NoAnswer]
    /\ copies = [m \in Msgs |-> 0]
    /\ reached = {}
    /\ restarts = 0

(* sendEnvelope up to its operation: the optimistic row, then the chain.   *)
sendEnvelope(m) ==
    /\ m \notin created
    /\ Len(chain) < MaxChain
    /\ created' = created \cup {m}
    /\ status' = [status EXCEPT ![m] = SENDING]
    /\ chain' = Append(chain, [kind |-> "send", msg |-> m, id |-> 0])
    /\ UNCHANGED <<rowId, old, step, queueVars, syncVars, netVars, restarts>>

-----------------------------------------------------------------------------
(* UPDATE messages SET idStatus = st WHERE id = id.                        *)
updateStatus(m, id, st) ==
    status' = IF rowId[m] = id THEN [status EXCEPT ![m] = st] ELSE status

(* Mutant of replaceId: the WHERE clause is lost.                          *)
replaceAnyId(m, id, copy) == rowId' = [rowId EXCEPT ![m] = copy]

(* Mutant of replaceId: an answer that names no id is written as it is.    *)
replaceMissingId(m, id, copy) == rowId' = [rowId EXCEPT ![m] = -1]

(* UPDATE messages SET id = copy WHERE id = id.                            *)
replaceId(m, id, copy) ==
    rowId' = IF rowId[m] = id THEN [rowId EXCEPT ![m] = copy] ELSE rowId

(* The acknowledged row takes its status from the server's word on         *)
(* delivery, which only matters for volatile messages.                     *)
acknowledge(m, id) ==
    \E delivered \in BOOLEAN : updateStatus(m, id, effectiveStatus(m, delivered))

(* The running operation is the head of the chain.                         *)
op == Head(chain)
Sending(where) == /\ chain # <<>> /\ op.kind \in {"send", "retry"}
                  /\ step = where
Finish == /\ chain' = Tail(chain)
          /\ step' = "ready"
          /\ answer' = [answer EXCEPT !["chain"] = NoAnswer]

(* SocketService.emit: an acknowledgement is awaited, for 30 s at most.    *)
emit(p) == answer' = [answer EXCEPT ![p] = Pending]

(* SocketService.sendMessage, to server s on path p; it throws when the    *)
(* socket is not connected.                                                *)
sendMessage(p, s) == s \in connected /\ emit(p)

(* A ciphertext per device travels under the client's id, one for the      *)
(* whole room (a sender key) gets an id from the server.                   *)
wireIds(m) == IF m \in Group THEN 1..copies[m] ELSE {0}

(* encrypt succeeds and the socket is connected: the send is emitted.      *)
emitSend ==
    /\ Sending("ready")
    /\ sendMessage("chain", ServerOf[op.msg])
    /\ step' = "emitted"
    /\ UNCHANGED <<rowVars, chain, queueVars, syncVars, sentVars, restarts>>

(* encrypt throws, or the server answers without success.                  *)
sendFails ==
    /\ \/ Sending("ready")
       \/ Sending("emitted") /\ answer["chain"].is = "rejected"
    /\ updateStatus(op.msg, op.id, FAILED)
    /\ Finish
    /\ UNCHANGED <<created, rowId, old, queueVars, syncVars, sentVars, restarts>>

(* 'Socket not connected': a first send parks the encrypted body in the    *)
(* retry queue and stays SENDING ...                                       *)
sendParks ==
    /\ Sending("ready")
    /\ op.kind = "send"
    /\ ServerOf[op.msg] \notin connected
    /\ parked' = parked \cup {op.msg}
    /\ tries' = [tries EXCEPT ![op.msg] = 0]
    /\ Finish
    /\ UNCHANGED <<rowVars, flight, landing, syncVars, sentVars, restarts>>

(* Mutant of sendTimesOut: the row is taken for sent.                      *)
sendTimesOutSent ==
    /\ Sending("emitted")
    /\ op.kind = "send"
    /\ updateStatus(op.msg, op.id, SENT)
    /\ Finish
    /\ UNCHANGED <<created, rowId, old, queueVars, syncVars, sentVars, restarts>>

(* ... and so does a first send without an answer for 30 s ...             *)
sendTimesOut ==
    /\ Sending("emitted")
    /\ op.kind = "send"
    /\ Finish
    /\ UNCHANGED <<rowVars, queueVars, syncVars, sentVars, restarts>>

(* ... but a retry marks the row FAILED in both cases.                     *)
retryFails ==
    /\ \/ Sending("ready") /\ ServerOf[op.msg] \notin connected
       \/ Sending("emitted")
    /\ op.kind = "retry"
    /\ updateStatus(op.msg, op.id, FAILED)
    /\ Finish
    /\ UNCHANGED <<created, rowId, old, queueVars, syncVars, sentVars, restarts>>

(* An acknowledged send of a row that keeps its id: one write.             *)
Renames(m, id) == m \in Group /\ id = 0

sendAcknowledged ==
    /\ Sending("emitted")
    /\ answer["chain"].is = "accepted"
    /\ ~Renames(op.msg, op.id)
    /\ acknowledge(op.msg, op.id)
    /\ Finish
    /\ UNCHANGED <<created, rowId, old, queueVars, syncVars, sentVars, restarts>>

(* Otherwise replaceId comes first ...                                     *)
sendRenames ==
    /\ Sending("emitted")
    /\ answer["chain"].is = "accepted"
    /\ Renames(op.msg, op.id)
    /\ replaceId(op.msg, op.id, answer["chain"].copy)
    /\ step' = "renamed"
    /\ UNCHANGED <<created, status, old, chain, queueVars, syncVars, netVars,
                   restarts>>

(* ... and updateStatus of the row with the server's id second.            *)
renamedAcknowledged ==
    /\ Sending("renamed")
    /\ acknowledge(op.msg, answer["chain"].copy)
    /\ Finish
    /\ UNCHANGED <<created, rowId, old, queueVars, syncVars, sentVars, restarts>>

-----------------------------------------------------------------------------
(* Receipts come through the serial queue too (handleIncomingMessage).     *)
receiveReceipt(m, id, st) ==
    /\ m \in reached
    /\ id \in wireIds(m)
    /\ Len(chain) < MaxChain
    /\ chain' = Append(chain, [kind |-> "receipt", msg |-> m, id |-> id, st |-> st])
    /\ UNCHANGED <<rowVars, step, queueVars, syncVars, netVars, restarts>>

Receipt(where) == chain # <<>> /\ op.kind = "receipt" /\ step = where

(* Mutant of Advances: DELIVERED is applied to any row.                    *)
AdvancesAlways(current) ==
    \/ op.st = DELIVERED
    \/ op.st = READ /\ current \in PENDING..DELIVERED

(* processControlPacket on the status resolveMessageStatus read: PENDING   *)
(* stands for no row.                                                      *)
Advances(current) ==
    \/ op.st = DELIVERED /\ current < DELIVERED
    \/ op.st = READ /\ current \in PENDING..DELIVERED

resolveReceipt ==
    /\ Receipt("ready")
    /\ IF rowId[op.msg] = op.id /\ Advances(status[op.msg])
       THEN step' = "resolved" /\ UNCHANGED <<chain, answer>>
       ELSE Finish
    /\ UNCHANGED <<rowVars, queueVars, syncVars, sentVars, restarts>>

applyReceipt ==
    /\ Receipt("resolved")
    /\ updateStatus(op.msg, op.id, op.st)
    /\ Finish
    /\ UNCHANGED <<created, rowId, old, queueVars, syncVars, sentVars, restarts>>

-----------------------------------------------------------------------------
(* The retry queue (processQueue), off the serial queue. A queued body     *)
(* holds the backend's number of its room, which says nothing of a server: *)
(* getSocketForRoom takes it for a room of the default server.             *)
queueServer == DefaultServer

queueSends(m) ==
    /\ m \in parked
    /\ flight = {}
    /\ tries[m] < MaxTries
    /\ \/ /\ sendMessage("queue", queueServer)
          /\ flight' = {m}
          /\ UNCHANGED tries
       \/ /\ queueServer \notin connected
          /\ tries' = [tries EXCEPT ![m] = @ + 1]
          /\ UNCHANGED <<flight, answer>>
    /\ UNCHANGED <<rowVars, chain, step, parked, landing, syncVars, sentVars, restarts>>

(* Rejected, or no answer for 30 s.                                        *)
queueSendFails ==
    /\ \E m \in flight : tries' = [tries EXCEPT ![m] = @ + 1]
    /\ flight' = {}
    /\ answer' = [answer EXCEPT !["queue"] = NoAnswer]
    /\ UNCHANGED <<rowVars, chain, step, parked, landing, syncVars, sentVars, restarts>>

(* onSuccess of sendEnvelope's queued body: not awaited by the queue.      *)
queueOnSuccess ==
    /\ answer["queue"].is = "accepted"
    /\ \E m \in flight :
         /\ parked' = parked \ {m}
         /\ IF m \in Group
            THEN /\ replaceId(m, 0, answer["queue"].copy)
                 /\ landing' = landing \cup {[msg |-> m, id |-> answer["queue"].copy]}
                 /\ UNCHANGED status
            ELSE /\ acknowledge(m, 0)
                 /\ UNCHANGED <<rowId, landing>>
    /\ flight' = {}
    /\ answer' = [answer EXCEPT !["queue"] = NoAnswer]
    /\ UNCHANGED <<created, old, chain, step, tries, syncVars, sentVars, restarts>>

onSuccessLands ==
    /\ \E l \in landing : acknowledge(l.msg, l.id) /\ landing' = landing \ {l}
    /\ UNCHANGED <<created, rowId, old, chain, step, parked, tries, flight,
                   syncVars, netVars, restarts>>

queueOnError(m) ==
    /\ m \in parked
    /\ flight = {}
    /\ tries[m] >= MaxTries
    /\ parked' = parked \ {m}
    /\ updateStatus(m, 0, FAILED)
    /\ UNCHANGED <<created, rowId, old, chain, step, tries, flight, landing,
                   syncVars, netVars, restarts>>

-----------------------------------------------------------------------------
(* Sockets, and onConnected: connectingLocks drops a connect while the     *)
(* previous onConnected of the server still runs.                          *)
connect(s) ==
    /\ s \notin connected
    /\ connected' = connected \cup {s}
    /\ sync' = IF sync[s] = "idle" THEN [sync EXCEPT ![s] = "syncing"] ELSE sync
    /\ UNCHANGED <<rowVars, chain, step, queueVars, stuck, netVars, restarts>>

disconnect(s) ==
    /\ s \in connected
    /\ connected' = connected \ {s}
    /\ UNCHANGED <<rowVars, chain, step, queueVars, sync, stuck, netVars, restarts>>

(* retrySendingMessages: the stuck rows of every server, as they are now,  *)
(* after syncing rooms, forceProcess and the sender keys ...               *)
retrySendingMessages(s) ==
    /\ sync[s] = "syncing"
    /\ sync' = [sync EXCEPT ![s] = "retrying"]
    /\ stuck' = [stuck EXCEPT ![s] = {[msg |-> m, id |-> rowId[m]] : m \in findStuckSending}]
    /\ UNCHANGED <<rowVars, chain, step, queueVars, connected, netVars, restarts>>

AwaitsRetry(s) ==
    \E k \in DOMAIN chain : chain[k].kind = "retry" /\ chain[k].by = s

(* ... each retried by an operation of its own, one awaited at a time.     *)
retryMessageSend(s) ==
    /\ sync[s] = "retrying"
    /\ ~AwaitsRetry(s)
    /\ Len(chain) < MaxChain
    /\ \E r \in stuck[s] :
         /\ stuck' = [stuck EXCEPT ![s] = @ \ {r}]
         /\ chain' = Append(chain, [kind |-> "retry", msg |-> r.msg, id |-> r.id, by |-> s])
    /\ UNCHANGED <<rowVars, step, queueVars, connected, sync, netVars, restarts>>

endOnConnected(s) ==
    /\ sync[s] = "retrying"
    /\ ~AwaitsRetry(s)
    /\ stuck[s] = {}
    /\ sync' = [sync EXCEPT ![s] = "idle"]
    /\ UNCHANGED <<rowVars, chain, step, queueVars, connected, stuck, netVars, restarts>>

-----------------------------------------------------------------------------
(* Servers: a send that is never accepted was lost on the way, one that is *)
(* accepted may still lose its acknowledgement.                            *)
Awaited(p) == IF p = "chain" THEN {op.msg} ELSE flight
Asked(p, m) == IF p = "chain" THEN ServerOf[m] ELSE queueServer

serverAccepts(p) ==
    /\ answer[p].is = "pending"
    /\ \E m \in Awaited(p) :
         /\ copies[m] < MaxCopies
         /\ copies' = [copies EXCEPT ![m] = @ + 1]
         /\ reached' = IF Asked(p, m) = ServerOf[m] THEN reached \cup {m} ELSE reached
         /\ answer' = [answer EXCEPT ![p] = [is |-> "accepted", copy |-> copies[m] + 1]]
    /\ UNCHANGED <<rowVars, chain, step, queueVars, syncVars, restarts>>

serverRejects(p) ==
    /\ answer[p].is = "pending"
    /\ answer' = [answer EXCEPT ![p].is = "rejected"]
    /\ UNCHANGED <<rowVars, chain, step, queueVars, syncVars, sentVars, restarts>>

(* Two hours go by since the message was written.                          *)
age(m) ==
    /\ m \in created
    /\ ~old[m]
    /\ old' = [old EXCEPT ![m] = TRUE]
    /\ UNCHANGED <<created, status, rowId, chain, step, queueVars, syncVars,
                   netVars, restarts>>

(* The app is killed and starts again; recoverStuckMessages runs before    *)
(* anything else does.                                                     *)
restart ==
    /\ restarts < MaxRestarts
    /\ restarts' = restarts + 1
    /\ status' = [m \in Msgs |->
                    IF m \in created /\ status[m] \in {PENDING, SENDING} /\ old[m]
                    THEN FAILED ELSE status[m]]
    /\ chain' = <<>> /\ step' = "ready"
    /\ parked' = {} /\ flight' = {} /\ landing' = {}
    /\ connected' = {}
    /\ sync' = [s \in Servers |-> "idle"]
    /\ stuck' = [s \in Servers |-> {}]
    /\ answer' = [p \in Paths |-> NoAnswer]
    /\ UNCHANGED <<created, rowId, old, tries, sentVars>>

-----------------------------------------------------------------------------
chainStep ==
    \/ emitSend \/ sendFails \/ sendParks \/ sendTimesOut \/ retryFails
    \/ sendAcknowledged \/ sendRenames \/ renamedAcknowledged
    \/ resolveReceipt \/ applyReceipt

queueStep ==
    \/ \E m \in Msgs : queueSends(m) \/ queueOnError(m)
    \/ queueSendFails
    \/ queueOnSuccess

syncStep(s) ==
    retrySendingMessages(s) \/ retryMessageSend(s) \/ endOnConnected(s)

Next ==
    \/ \E m \in Msgs : sendEnvelope(m) \/ age(m)
    \/ \E m \in Msgs, id \in 0..MaxCopies, st \in {DELIVERED, READ} :
          receiveReceipt(m, id, st)
    \/ chainStep
    \/ queueStep
    \/ onSuccessLands
    \/ \E s \in Servers : connect(s) \/ disconnect(s) \/ syncStep(s)
    \/ \E p \in Paths : serverAccepts(p) \/ serverRejects(p)
    \/ restart

(* Operations run to their end (emit's timeout bounds every await), the    *)
(* queue's interval fires, onConnected runs on (SF: a full chain disables  *)
(* its retries for a while).                                               *)
Fairness ==
    /\ WF_vars(chainStep)
    /\ WF_vars(queueStep)
    /\ WF_vars(onSuccessLands)
    /\ \A s \in Servers : SF_vars(syncStep(s))

Spec == Init /\ [][Next]_vars /\ Fairness
-----------------------------------------------------------------------------
TypeOK ==
    /\ created \subseteq Msgs
    /\ status \in [Msgs -> MessageStatus]
    /\ rowId \in [Msgs -> Nat]
    /\ old \in [Msgs -> BOOLEAN]
    /\ chain \in Seq(Op)
    /\ step \in {"ready", "emitted", "renamed", "resolved"}
    /\ parked \subseteq Msgs
    /\ tries \in [Msgs -> Nat]
    /\ flight \subseteq Msgs
    /\ landing \subseteq [msg : Msgs, id : Nat]
    /\ connected \subseteq Servers
    /\ sync \in [Servers -> {"idle", "syncing", "retrying"}]
    /\ stuck \in [Servers -> SUBSET [msg : Msgs, id : Nat]]
    /\ answer \in [Paths -> Answer]
    /\ copies \in [Msgs -> Nat]
    /\ reached \subseteq Msgs
    /\ restarts \in Nat

(* The status shown to the user never says more than what happened: a row  *)
(* is SENT, UNDELIVERED, DELIVERED or READ only if the server of its room  *)
(* accepted a copy of it, whichever path sent it and whatever was retried, *)
(* renamed, restarted or received late in between. It holds of a client    *)
(* with one server.                                                        *)
SentMeansAccepted ==
    \A m \in Msgs : status[m] \in {UNDELIVERED, SENT, DELIVERED, READ} => m \in reached

(* A row has the client's id or the id of a copy a server really made,     *)
(* and only rows of sender-key rooms are ever renamed.                     *)
RowIdIsReal ==
    \A m \in Msgs : rowId[m] <= copies[m] /\ (rowId[m] # 0 => m \in Group)

(* Types, and row ids that stay the ones the server knows the message by,  *)
(* whichever of first send, queue and retry is acknowledged first.         *)
OutboxInv == TypeOK /\ RowIdIsReal

(* A row is renamed at most once: no second acknowledgement of the same    *)
(* message (first send, queued send, retry) moves it to another copy, so   *)
(* the receipts for the copy it names keep finding it.                     *)
RenamedOnce == [][\A m \in Msgs : rowId[m] # 0 => rowId'[m] = rowId[m]]_rowId

(* A receipt only ever raises the status of its row, although the status   *)
(* is read before an await and written after it.                           *)
ReceiptsOnlyAdvance ==
    [][applyReceipt => \A m \in Msgs : status'[m] >= status[m]]_vars

(* No message stays SENDING for ever if the socket of its server keeps     *)
(* dropping and coming back (the app goes to the background and returns):  *)
(* it is acknowledged, fails, or passes the two-hour cutoff. Only          *)
(* onConnected picks up a row whose acknowledgement was lost.              *)
SendingResolves ==
    \A m \in Msgs :
        ([]<>(ServerOf[m] \in connected) /\ []<>(ServerOf[m] \notin connected))
            => (status[m] = SENDING ~> (status[m] # SENDING \/ old[m]))

=============================================================================
