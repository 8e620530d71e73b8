----------------------------- MODULE RetryQueue -----------------------------
(***************************************************************************)
(* The in-memory retry queue of src/src/services/queue.service.ts.         *)
(*                                                                         *)
(* JavaScript runs to completion: between two awaits nothing else runs.    *)
(* The only await of processQueue is the one on sendFunction, so the loop  *)
(* is in one of three places (pc): no pass is running ("idle"), the loop   *)
(* body runs ("loop", no other code may run) or a send is awaited          *)
(* ("await", any other code may run and may change the array under it).    *)
(*                                                                         *)
(* Time is one tick per second; an entry keeps the seconds left before its *)
(* nextRetryAt instead of the absolute time.                               *)
(***************************************************************************)
EXTENDS Integers, Sequences, FiniteSets, SequencesExt

CONSTANTS
    Ids,              \* ids of the envelopes handed to addMessage
    RoomOf,           \* the id_room in the body of each of them
    CleanupRooms,     \* the room ids removeMessagesByRoom is called with
    ClearsDuringPass, \* may destroy() come while a send is awaited?
    MaxRetries,       \* default of addMessage: 5
    MaxBackoff,       \* seconds: 60
    NoItem            \* item when no send is awaited

ASSUME ConstantsAssumption ==
    /\ RoomOf \in [Ids -> Int]
    /\ CleanupRooms \subseteq Int
    /\ ClearsDuringPass \in BOOLEAN
    /\ MaxRetries \in Nat
    /\ MaxBackoff \in Nat
    /\ NoItem \notin Ids

VARIABLES
    messageQueue,      \* the array of entries
    sendFunction,      \* has setSendFunction been called?
    processorInterval, \* is the 5 s interval armed?
    isProcessing,      \* the re-entrance flag of processQueue
    pc,                \* where the running pass is
    index,             \* its loop variable i (counted from 1)
    item,              \* the envelope whose send is awaited
    due,               \* the entries with nextRetryAt <= now, the pass's now
    accepted,          \* history: ids ever accepted by addMessage
    removed,           \* history: ids a caller took out of the queue
    failures,          \* history: sends of each id that did not succeed
    onSuccess,         \* how often each id's onSuccess was called
    onError            \* how often each id's onError was called

retryQueueVars == <<messageQueue, sendFunction, processorInterval, isProcessing, pc,
                    index, item, due, accepted, removed, failures, onSuccess,
                    onError>>

passVars == <<isProcessing, pc, index, item, due>>
callerVars == <<failures, onSuccess, onError>>
history == <<accepted, removed>>
wiring == <<sendFunction, processorInterval>>

Entry == [id : Ids, retryCount : Nat, wait : Nat]

Queued == {messageQueue[k].id : k \in DOMAIN messageQueue}

-----------------------------------------------------------------------------
(* Math.min(Math.pow(2, retryCount) * 1000, 60000), in seconds.            *)
calculateBackoff(retryCount) ==
    IF 2 ^ retryCount < MaxBackoff THEN 2 ^ retryCount ELSE MaxBackoff

ASSUME BackoffAssumption ==
    \A n \in 0..MaxRetries : calculateBackoff(n) \in Nat

(* Array.prototype.splice(k, 1): nothing happens beyond the end.           *)
Splice(q, k) == IF k \in DOMAIN q THEN RemoveAt(q, k) ELSE q

(* Array.prototype.filter: the subsequence of q at the positions in keep.  *)
Filtered(q, keep) ==
    LET n == Cardinality(keep)
        increasing == {f \in [1..n -> keep] :
                         \A a, b \in 1..n : a < b => f[a] < f[b]}
    IN  {[a \in 1..n |-> q[f[a]]] : f \in increasing}

(* The event loop is free to run other code.                               *)
EventLoopFree == pc # "loop"

-----------------------------------------------------------------------------
QueueInit ==
    /\ messageQueue = <<>>
    /\ sendFunction = FALSE
    /\ processorInterval = FALSE
    /\ isProcessing = FALSE
    /\ pc = "idle"
    /\ index = 0
    /\ item = NoItem
    /\ due = {}
    /\ accepted = {}
    /\ removed = {}
    /\ failures = [m \in Ids |-> 0]
    /\ onSuccess = [m \in Ids |-> 0]
    /\ onError = [m \in Ids |-> 0]

(* setSendFunction and startProcessor, called together by ChatService.init *)
start ==
    /\ EventLoopFree
    /\ ~processorInterval
    /\ sendFunction' = TRUE
    /\ processorInterval' = TRUE
    /\ UNCHANGED <<messageQueue, passVars, history, callerVars>>

(* stopProcessor and clearQueue, called together by ChatService.destroy;   *)
(* neither touches isProcessing or a pass that is awaiting its send.       *)
destroy ==
    /\ EventLoopFree
    /\ pc = "await" => ClearsDuringPass
    /\ processorInterval
    /\ processorInterval' = FALSE
    /\ messageQueue' = <<>>
    /\ removed' = removed \cup Queued
    /\ UNCHANGED <<sendFunction, passVars, accepted, callerVars>>

(* addMessage: an id already in the queue is ignored; callers generate a   *)
(* fresh id for every message, so an id that left the queue never returns. *)
addMessage(m) ==
    /\ EventLoopFree
    /\ m \notin Queued
    /\ m \notin accepted
    /\ messageQueue' = Append(messageQueue,
            [id |-> m, retryCount |-> 0, wait |-> calculateBackoff(0)])
    /\ accepted' = accepted \cup {m}
    /\ UNCHANGED <<wiring, passVars, removed, callerVars>>

(* removeMessagesByRoom, called by ChatService.performLocalRoomCleanup.    *)
KeptWithout(r) ==
    Filtered(messageQueue, {k \in DOMAIN messageQueue : RoomOf[messageQueue[k].id] # r})

removeMessagesByRoom(r) ==
    /\ EventLoopFree
    /\ messageQueue' \in KeptWithout(r)
    /\ removed' = removed \cup {m \in Queued : RoomOf[m] = r}
    /\ UNCHANGED <<wiring, passVars, accepted, callerVars>>

(* A second goes by.                                                       *)
tick ==
    /\ EventLoopFree
    /\ messageQueue' = [k \in DOMAIN messageQueue |->
            [messageQueue[k] EXCEPT !.wait = IF @ > 0 THEN @ - 1 ELSE 0]]
    /\ UNCHANGED <<wiring, passVars, history, callerVars>>

-----------------------------------------------------------------------------
(* processQueue up to the loop: not when a pass runs, the queue is empty   *)
(* or no send function is configured.                                      *)
beginPass ==
    /\ pc = "idle"
    /\ ~isProcessing
    /\ messageQueue # <<>>
    /\ sendFunction
    /\ isProcessing' = TRUE
    /\ pc' = "loop"
    /\ index' = Len(messageQueue)
    /\ due' = {messageQueue[k].id :
                 k \in {j \in DOMAIN messageQueue : messageQueue[j].wait = 0}}
    /\ UNCHANGED <<messageQueue, wiring, item, history, callerVars>>

(* The interval callback, every 5 seconds while the processor runs.        *)
intervalFires == processorInterval /\ beginPass

(* forceProcess, called by ChatService.onConnected.                        *)
forceProcess == beginPass

(* Mutant of endPass: the flag is not reset.                               *)
endPassForgetsFlag ==
    /\ pc = "loop"
    /\ index = 0
    /\ pc' = "idle"
    /\ UNCHANGED <<messageQueue, wiring, isProcessing, index, item, due, history,
                   callerVars>>

(* The loop condition i >= 0 fails: the pass ends and resets the flag.     *)
endPass ==
    /\ pc = "loop"
    /\ index = 0
    /\ isProcessing' = FALSE
    /\ pc' = "idle"
    /\ UNCHANGED <<messageQueue, wiring, index, item, due, history, callerVars>>

(* messageQueue[i] is undefined: reading item.retryCount throws a          *)
(* TypeError outside the try, so the line that resets the flag never runs. *)
loopThrows ==
    /\ pc = "loop"
    /\ index > Len(messageQueue)
    /\ pc' = "idle"
    /\ UNCHANGED <<messageQueue, wiring, isProcessing, index, item, due,
                   history, callerVars>>

(* Mutant of giveUp: one try too early.                                    *)
giveUpEarly ==
    /\ pc = "loop"
    /\ index \in DOMAIN messageQueue
    /\ messageQueue[index].retryCount >= MaxRetries - 1
    /\ onError' = [onError EXCEPT ![messageQueue[index].id] = @ + 1]
    /\ messageQueue' = Splice(messageQueue, index)
    /\ index' = index - 1
    /\ UNCHANGED <<wiring, isProcessing, pc, item, due, history, failures,
                   onSuccess>>

(* Max retries exceeded: onError, and the entry is spliced out.            *)
giveUp ==
    /\ pc = "loop"
    /\ index \in DOMAIN messageQueue
    /\ messageQueue[index].retryCount >= MaxRetries
    /\ onError' = [onError EXCEPT ![messageQueue[index].id] = @ + 1]
    /\ messageQueue' = Splice(messageQueue, index)
    /\ index' = index - 1
    /\ UNCHANGED <<wiring, isProcessing, pc, item, due, history, failures,
                   onSuccess>>

(* now < nextRetryAt.                                                      *)
skipNotDue ==
    /\ pc = "loop"
    /\ index \in DOMAIN messageQueue
    /\ messageQueue[index].retryCount < MaxRetries
    /\ messageQueue[index].id \notin due
    /\ index' = index - 1
    /\ UNCHANGED <<messageQueue, wiring, isProcessing, pc, item, due, history,
                   callerVars>>

(* sendFunction(item.data) is called and awaited.                          *)
send ==
    /\ pc = "loop"
    /\ index \in DOMAIN messageQueue
    /\ messageQueue[index].retryCount < MaxRetries
    /\ messageQueue[index].id \in due
    /\ item' = messageQueue[index].id
    /\ pc' = "await"
    /\ UNCHANGED <<messageQueue, wiring, isProcessing, index, due, history,
                   callerVars>>

(* Mutant of sendSucceeds: the entry stays in the array.                   *)
sendSucceedsKeeps ==
    /\ pc = "await"
    /\ onSuccess' = [onSuccess EXCEPT ![item] = @ + 1]
    /\ index' = index - 1
    /\ item' = NoItem
    /\ pc' = "loop"
    /\ UNCHANGED <<messageQueue, wiring, isProcessing, due, history, failures,
                   onError>>

(* The send resolves with success: onSuccess, then splice(i, 1), whatever  *)
(* stands at i by now.                                                     *)
sendSucceeds ==
    /\ pc = "await"
    /\ onSuccess' = [onSuccess EXCEPT ![item] = @ + 1]
    /\ messageQueue' = Splice(messageQueue, index)
    /\ index' = index - 1
    /\ item' = NoItem
    /\ pc' = "loop"
    /\ UNCHANGED <<wiring, isProcessing, due, history, failures, onError>>

(* Mutant of scheduleRetry: retryCount is not incremented.                 *)
scheduleRetryForgets(m) ==
    /\ messageQueue' = [k \in DOMAIN messageQueue |->
         IF messageQueue[k].id = m
         THEN [messageQueue[k] EXCEPT !.wait = calculateBackoff(messageQueue[k].retryCount)]
         ELSE messageQueue[k]]
    /\ due' = due \ {m}

(* scheduleRetry(item): no effect on the array if item left it meanwhile.  *)
scheduleRetry(m) ==
    LET retryCount(k) == messageQueue[k].retryCount + 1 IN
    /\ messageQueue' = [k \in DOMAIN messageQueue |->
         IF messageQueue[k].id = m
         THEN [id |-> m, retryCount |-> retryCount(k),
               wait |-> calculateBackoff(retryCount(k))]
         ELSE messageQueue[k]]
    /\ due' = due \ {m}

(* The send resolves without success or rejects (not connected, timeout).  *)
sendThrows ==
    /\ pc = "await"
    /\ failures' = [failures EXCEPT ![item] = @ + 1]
    /\ scheduleRetry(item)
    /\ index' = index - 1
    /\ item' = NoItem
    /\ pc' = "loop"
    /\ UNCHANGED <<wiring, isProcessing, history, onSuccess, onError>>

-----------------------------------------------------------------------------
loopStep == endPass \/ loopThrows \/ giveUp \/ skipNotDue \/ send

QueueNext ==
    \/ start
    \/ destroy
    \/ \E m \in Ids : addMessage(m)
    \/ \E r \in CleanupRooms : removeMessagesByRoom(r)
    \/ tick
    \/ intervalFires
    \/ forceProcess
    \/ loopStep
    \/ sendSucceeds
    \/ sendThrows

(* Time goes by (SF: the synchronous part of a pass disables tick again    *)
(* and again), the interval fires, the loop runs on, and emit's 30 s       *)
(* timeout answers a send that the server does not.                        *)
QueueFairness ==
    /\ SF_retryQueueVars(tick)
    /\ WF_retryQueueVars(intervalFires)
    /\ WF_retryQueueVars(loopStep)
    /\ WF_retryQueueVars(sendSucceeds \/ sendThrows)

QueueSpec == QueueInit /\ [][QueueNext]_retryQueueVars /\ QueueFairness
-----------------------------------------------------------------------------
QueueTypeOK ==
    /\ messageQueue \in Seq(Entry)
    /\ sendFunction \in BOOLEAN
    /\ processorInterval \in BOOLEAN
    /\ isProcessing \in BOOLEAN
    /\ pc \in {"idle", "loop", "await"}
    /\ index \in Nat
    /\ item \in Ids \cup {NoItem}
    /\ due \subseteq Ids
    /\ accepted \subseteq Ids
    /\ removed \subseteq Ids
    /\ failures \in [Ids -> Nat]
    /\ onSuccess \in [Ids -> Nat]
    /\ onError \in [Ids -> Nat]

(* addMessage's findIndex keeps a message from being queued twice, however *)
(* passes, retries, removals and splices shuffle the array.                *)
UniqueIds ==
    \A a, b \in DOMAIN messageQueue :
        messageQueue[a].id = messageQueue[b].id => a = b

(* A message is reported failed (onError marks it FAILED for the user)     *)
(* only after maxRetries sends of it failed, and no message is tried more  *)
(* than maxRetries times without success, even when the array is changed   *)
(* under a running pass.                                                   *)
FailsOnlyWhenExhausted ==
    \A m \in Ids : /\ onError[m] > 0 => failures[m] = MaxRetries
                   /\ failures[m] <= MaxRetries

(* An entry's retryCount counts the failed sends of its message, and a     *)
(* send is only awaited for a message with a try left. With UniqueIds this *)
(* makes FailsOnlyWhenExhausted inductive.                                 *)
CountsFailures ==
    /\ Queued \subseteq accepted
    /\ \A m \in Ids \ accepted : failures[m] = 0
    /\ \A k \in DOMAIN messageQueue :
         messageQueue[k].retryCount = failures[messageQueue[k].id]
    /\ pc = "await" => index > 0 /\ item \in accepted /\ failures[item] < MaxRetries

(* What holds however callers disturb a running pass: no message is queued *)
(* twice, tried more often than maxRetries or reported failed before.      *)
RobustInv == QueueTypeOK /\ UniqueIds /\ CountsFailures /\ FailsOnlyWhenExhausted

(* While a send is awaited the loop index keeps pointing at its entry, so  *)
(* the splice(i, 1) after it removes the entry that was sent.              *)
RemovesSafely ==
    pc = "await" => /\ index \in DOMAIN messageQueue
                    /\ messageQueue[index].id = item

(* The flag is set exactly while a pass runs, so the processor really      *)
(* "Checks every 5 seconds for messages ready to retry"                    *)
(* (queue.service.ts:120): a flag left over makes every later pass return. *)
ProcessorNotStuck == isProcessing <=> pc # "idle"

(* An accepted message is in the queue, or a caller took it out, or        *)
(* exactly one of its callbacks was called exactly once: nothing is lost   *)
(* silently, nothing is reported twice, nothing is sent again once sent.   *)
EndsOnce ==
    \A m \in accepted :
        \/ m \in Queued /\ m \notin removed /\ onSuccess[m] + onError[m] = 0
        \/ m \notin Queued /\ m \in removed /\ onSuccess[m] + onError[m] = 0
        \/ m \notin Queued /\ m \notin removed /\ onSuccess[m] + onError[m] = 1

(* The two disturbances above excluded: nothing clears the queue while a   *)
(* send is awaited, and no room is cleaned up under the id its queued      *)
(* bodies hold.                                                            *)
Undisturbed ==
    /\ ~ClearsDuringPass
    /\ \A m \in Ids : RoomOf[m] \notin CleanupRooms

(* Then RemovesSafely, ProcessorNotStuck and EndsOnce hold together, and   *)
(* the loop index never runs past the array: each step of the pass needs   *)
(* all of them, so they are one invariant.                                 *)
OrderlyInv ==
    /\ RobustInv
    /\ RemovesSafely
    /\ ProcessorNotStuck
    /\ EndsOnce
    /\ pc = "loop" => index <= Len(messageQueue)
    /\ \A m \in Ids \ accepted : m \notin removed /\ onSuccess[m] + onError[m] = 0

(* A message the processor holds is eventually sent, given up or removed,  *)
(* as long as the processor is not stopped.                                *)
EventuallyEnds ==
    \A m \in Ids : m \in Queued ~> (m \notin Queued \/ ~processorInterval)

(* What the queue promises its callers, as an abstract specification.      *)
Fate(m) ==
    IF m \notin accepted THEN "new"
    ELSE IF m \in Queued THEN "queued"
    ELSE IF onSuccess[m] > 0 THEN "sent"
    ELSE IF onError[m] > 0 THEN "failed"
    ELSE IF m \in removed THEN "removed" ELSE "lost"

Promise == INSTANCE RetryPromise
    WITH fate <- [m \in Ids |-> Fate(m)], attempts <- failures

(* The array, the passes and the backoff implement the promise.            *)
KeepsPromise == Promise!Spec
=============================================================================
