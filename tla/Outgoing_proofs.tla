-------------------------- MODULE Outgoing_proofs --------------------------
(***************************************************************************)
(* Theorems about the way of a message out: RetryQueue and Outbox, which   *)
(* keeps the queue to what RetryPromise says of it.                        *)
(***************************************************************************)
EXTENDS RetryQueue, Outbox, TLAPS, FiniteSetTheorems, SequenceTheorems,
        WellFoundedInduction

(***************************************************************************)
(* RetryQueue, for any number of messages, any retry limit and any backoff *)
(* cap: what holds whoever clears the queue under a pass, and, where       *)
(* nobody does, that the index stays on the entry that is sent, the        *)
(* processor never gets stuck, every message ends exactly once, and the    *)
(* queue implements RetryPromise.                                          *)
(***************************************************************************)

LEMMA RemoveAtProperties ==
  ASSUME NEW S, NEW q \in Seq(S), NEW k \in DOMAIN q
  PROVE  /\ RemoveAt(q, k) \in Seq(S)
         /\ Len(RemoveAt(q, k)) = Len(q) - 1
         /\ \A j \in 1..Len(q)-1 :
              RemoveAt(q, k)[j] = IF j < k THEN q[j] ELSE q[j+1]
<1> DEFINE a == SubSeq(q, 1, k-1)
           b == SubSeq(q, k+1, Len(q))
<1>1. k \in 1..Len(q) /\ Len(q) \in Nat
  OBVIOUS
<1>2. a \in Seq(S) /\ Len(a) = k - 1 /\ \A j \in 1..k-1 : a[j] = q[j]
  BY <1>1
<1>3. b \in Seq(S) /\ Len(b) = Len(q) - k /\ \A j \in 1..Len(q)-k : b[j] = q[k+j]
  BY <1>1
<1>4. RemoveAt(q, k) = a \o b
  BY DEF RemoveAt
<1> HIDE DEF a, b
<1>5. a \o b \in Seq(S) /\ Len(a \o b) = Len(q) - 1
  BY <1>1, <1>2, <1>3, ConcatProperties
<1>6. \A j \in 1..Len(q)-1 : (a \o b)[j] = IF j < k THEN q[j] ELSE q[j+1]
  <2> TAKE j \in 1..Len(q)-1
  <2>1. (a \o b)[j] = IF j <= Len(a) THEN a[j] ELSE b[j - Len(a)]
    <3>1. j \in 1..Len(a) + Len(b)
      BY <1>1, <1>2, <1>3
    <3>2. QED  BY <3>1, <1>2, <1>3, ConcatProperties
  <2>2. CASE j < k
    BY <2>1, <2>2, <1>1, <1>2
  <2>3. CASE ~(j < k)
    <3>1. j - Len(a) \in 1..Len(q)-k /\ k + (j - Len(a)) = j + 1
      BY <2>3, <1>1, <1>2
    <3>2. b[j - Len(a)] = q[j + 1]
      BY <3>1, <1>3
    <3>3. QED  BY <2>1, <2>3, <3>2, <1>1, <1>2
  <2>4. QED  BY <2>2, <2>3
<1>7. QED
  BY <1>4, <1>5, <1>6

(* The entries of r are entries of q, each taken from a place of its own.  *)
Picks(r, q) ==
  \E f \in [DOMAIN r -> DOMAIN q] :
     /\ \A a, b \in DOMAIN r : a # b => f[a] # f[b]
     /\ \A a \in DOMAIN r : r[a] = q[f[a]]

LEMMA FilteredProperties ==
  ASSUME NEW S, NEW q \in Seq(S), NEW keep \in SUBSET DOMAIN q,
         NEW r \in Filtered(q, keep)
  PROVE  r \in Seq(S) /\ Picks(r, q)
<1>1. DOMAIN q = 1..Len(q) /\ Len(q) \in Nat
  OBVIOUS
<1>2. IsFiniteSet(keep)
  <2>1. IsFiniteSet(1..Len(q))
    BY <1>1, FS_Interval
  <2>2. QED
    BY <1>1, <2>1, FS_Subset
<1> DEFINE n == Cardinality(keep)
<1>3. n \in Nat
  BY <1>2, FS_CardinalityType
<1>4. PICK f \in [1..n -> keep] : /\ \A a, b \in 1..n : a < b => f[a] < f[b]
                                /\ r = [a \in 1..n |-> q[f[a]]]
  BY DEF Filtered
<1> HIDE DEF n
<1>5. \A a \in 1..n : f[a] \in 1..Len(q) /\ q[f[a]] \in S
  BY <1>1, <1>4
<1>6. r \in Seq(S) /\ DOMAIN r = 1..n
  BY <1>3, <1>4, <1>5
<1>7. ASSUME NEW a \in 1..n, NEW b \in 1..n, a # b
      PROVE  f[a] # f[b]
  <2>1. a < b \/ b < a
    BY <1>3, <1>7
  <2>2. f[a] \in Int /\ f[b] \in Int
    BY <1>5, <1>1
  <2>3. QED
    BY <1>4, <2>1, <2>2
<1>8. f \in [DOMAIN r -> DOMAIN q] /\ \A a \in DOMAIN r : r[a] = q[f[a]]
  BY <1>4, <1>6
<1>9. QED
  BY <1>6, <1>7, <1>8 DEF Picks

-----------------------------------------------------------------------------
(* The parts of RobustInv that only depend on the array and the history,   *)
(* for an array whose entries all come from the old one, one place each.   *)
LEMMA Subarray ==
  ASSUME RobustInv,
         accepted \subseteq accepted', accepted' \subseteq Ids,
         failures' = failures,
         messageQueue' \in Seq(Entry),
         NEW f \in [DOMAIN messageQueue' -> DOMAIN messageQueue],
         \A a, b \in DOMAIN messageQueue' : a # b => f[a] # f[b],
         \A a \in DOMAIN messageQueue' :
            /\ messageQueue'[a].id = messageQueue[f[a]].id
            /\ messageQueue'[a].retryCount = messageQueue[f[a]].retryCount
  PROVE  /\ UniqueIds'
         /\ (Queued \subseteq accepted)'
         /\ (\A m \in Ids \ accepted : failures[m] = 0)'
         /\ (\A k \in DOMAIN messageQueue :
               messageQueue[k].retryCount = failures[messageQueue[k].id])'
         /\ Queued' \subseteq Queued
<1>1. UniqueIds'
  BY DEF RobustInv, UniqueIds
<1>2. Queued' \subseteq Queued
  BY DEF Queued
<1>3. (Queued \subseteq accepted)'
  BY <1>2 DEF RobustInv, CountsFailures
<1>4. (\A m \in Ids \ accepted : failures[m] = 0)'
  BY DEF RobustInv, CountsFailures
<1>5. (\A k \in DOMAIN messageQueue :
         messageQueue[k].retryCount = failures[messageQueue[k].id])'
  BY DEF RobustInv, CountsFailures
<1>6. QED
  BY <1>1, <1>2, <1>3, <1>4, <1>5

(* Splicing one entry out.                                                 *)
LEMMA SpliceStep ==
  ASSUME RobustInv, messageQueue' = Splice(messageQueue, index),
         accepted' = accepted, failures' = failures
  PROVE  /\ messageQueue' \in Seq(Entry)
         /\ UniqueIds'
         /\ (Queued \subseteq accepted)'
         /\ (\A m \in Ids \ accepted : failures[m] = 0)'
         /\ (\A k \in DOMAIN messageQueue :
               messageQueue[k].retryCount = failures[messageQueue[k].id])'
<1>1. messageQueue \in Seq(Entry) /\ accepted \subseteq Ids
  BY DEF RobustInv, QueueTypeOK
<1>2. CASE index \notin DOMAIN messageQueue
  <2>1. messageQueue' = messageQueue
    BY <1>2 DEF Splice
  <2>2. QED
    BY <1>1, <2>1 DEF RobustInv, UniqueIds, CountsFailures, Queued
<1>3. CASE index \in DOMAIN messageQueue
  <2>1. messageQueue' = RemoveAt(messageQueue, index)
    BY <1>3 DEF Splice
  <2>2. /\ messageQueue' \in Seq(Entry)
        /\ Len(messageQueue') = Len(messageQueue) - 1
        /\ \A j \in 1..Len(messageQueue)-1 :
             messageQueue'[j] = IF j < index THEN messageQueue[j]
                                             ELSE messageQueue[j+1]
    BY <1>1, <1>3, <2>1, RemoveAtProperties
  <2> DEFINE f == [j \in DOMAIN messageQueue' |-> IF j < index THEN j ELSE j+1]
  <2>3. /\ DOMAIN messageQueue = 1..Len(messageQueue)
        /\ DOMAIN messageQueue' = 1..Len(messageQueue)-1
        /\ Len(messageQueue) \in Nat
        /\ index \in 1..Len(messageQueue)
    BY <1>1, <1>3, <2>2
  <2>4. f \in [DOMAIN messageQueue' -> DOMAIN messageQueue]
    BY <2>3
  <2>5. \A a, b \in DOMAIN messageQueue' : a # b => f[a] # f[b]
    BY <2>3
  <2>6. \A a \in DOMAIN messageQueue' : messageQueue'[a] = messageQueue[f[a]]
    BY <2>2, <2>3
  <2> HIDE DEF f
  <2>7. QED
    BY <1>1, <2>2, <2>4, <2>5, <2>6, Subarray
<1>4. QED
  BY <1>2, <1>3
-----------------------------------------------------------------------------
LEMMA QueuedType ==
  ASSUME QueueTypeOK
  PROVE  /\ \A k \in DOMAIN messageQueue : messageQueue[k] \in Entry
         /\ Queued \subseteq Ids
<1>1. \A k \in DOMAIN messageQueue : messageQueue[k] \in Entry
  BY DEF QueueTypeOK
<1>2. \A e \in Entry : e.id \in Ids
  BY DEF Entry
<1>3. QED
  BY <1>1, <1>2 DEF Queued

LEMMA InitRobust == QueueInit => RobustInv
<1> SUFFICES ASSUME QueueInit PROVE RobustInv
  OBVIOUS
<1> USE ConstantsAssumption DEF QueueInit
<1>1. QueueTypeOK
  <2>1. messageQueue \in Seq(Entry)
    OBVIOUS
  <2>2. /\ failures \in [Ids -> Nat] /\ onSuccess \in [Ids -> Nat]
        /\ onError \in [Ids -> Nat]
    OBVIOUS
  <2>3. QED
    BY <2>1, <2>2 DEF QueueTypeOK
<1>2. UniqueIds
  BY DEF UniqueIds
<1>3. CountsFailures
  BY DEF CountsFailures, Queued
<1>4. FailsOnlyWhenExhausted
  BY DEF FailsOnlyWhenExhausted
<1>5. QED
  BY <1>1, <1>2, <1>3, <1>4 DEF RobustInv

LEMMA AddRobust ==
  ASSUME RobustInv, NEW m \in Ids, addMessage(m)
  PROVE  RobustInv'
<1> DEFINE e == [id |-> m, retryCount |-> 0, wait |-> calculateBackoff(0)]
<1>1. e \in Entry
  BY ConstantsAssumption, BackoffAssumption DEF Entry
<1>2. messageQueue \in Seq(Entry) /\ messageQueue' = Append(messageQueue, e)
  BY DEF RobustInv, QueueTypeOK, addMessage
<1> HIDE DEF e
<1>3. /\ messageQueue' \in Seq(Entry)
      /\ DOMAIN messageQueue' = 1..Len(messageQueue)+1
      /\ DOMAIN messageQueue = 1..Len(messageQueue)
      /\ \A k \in DOMAIN messageQueue : messageQueue'[k] = messageQueue[k]
      /\ messageQueue'[Len(messageQueue)+1] = e
      /\ \A k \in DOMAIN messageQueue' :
            k \in DOMAIN messageQueue \/ k = Len(messageQueue)+1
  BY <1>1, <1>2
<1>4. e.id = m /\ e.retryCount = 0
  BY DEF e
<1>5. \A k \in DOMAIN messageQueue : messageQueue[k].id # m
  BY DEF addMessage, Queued
<1>6. QueueTypeOK'
  BY <1>3 DEF RobustInv, QueueTypeOK, addMessage, wiring, passVars, callerVars
<1>7. UniqueIds'
  BY <1>3, <1>4, <1>5 DEF RobustInv, UniqueIds
<1>8. CountsFailures'
  BY <1>3, <1>4, <1>5
  DEF RobustInv, CountsFailures, QueueTypeOK, Queued, addMessage, passVars, callerVars
<1>9. FailsOnlyWhenExhausted'
  BY DEF RobustInv, FailsOnlyWhenExhausted, addMessage, callerVars
<1>10. QED
  BY <1>6, <1>7, <1>8, <1>9 DEF RobustInv

LEMMA RemoveByRoomRobust ==
  ASSUME RobustInv, NEW r \in CleanupRooms, removeMessagesByRoom(r)
  PROVE  RobustInv'
<1> DEFINE keep == {k \in DOMAIN messageQueue : RoomOf[messageQueue[k].id] # r}
<1>1. messageQueue \in Seq(Entry) /\ messageQueue' \in Filtered(messageQueue, keep)
  BY DEF RobustInv, QueueTypeOK, removeMessagesByRoom, KeptWithout
<1>2. keep \in SUBSET DOMAIN messageQueue
  OBVIOUS
<1> HIDE DEF keep
<1>3. messageQueue' \in Seq(Entry) /\ Picks(messageQueue', messageQueue)
  BY <1>1, <1>2, FilteredProperties
<1>4. PICK f \in [DOMAIN messageQueue' -> DOMAIN messageQueue] :
           /\ \A a, b \in DOMAIN messageQueue' : a # b => f[a] # f[b]
           /\ \A a \in DOMAIN messageQueue' : messageQueue'[a] = messageQueue[f[a]]
  BY <1>3 DEF Picks
<1>5. /\ accepted' = accepted /\ failures' = failures /\ onError' = onError
      /\ accepted \subseteq Ids
      /\ UNCHANGED <<pc, index, item>>
  BY DEF RobustInv, QueueTypeOK, removeMessagesByRoom, KeptWithout, callerVars,
         passVars
<1>6. /\ UniqueIds'
      /\ (Queued \subseteq accepted)'
      /\ (\A m \in Ids \ accepted : failures[m] = 0)'
      /\ (\A k \in DOMAIN messageQueue :
            messageQueue[k].retryCount = failures[messageQueue[k].id])'
  BY <1>3, <1>4, <1>5, Subarray
<1>7. QueueTypeOK'
  <2>1. Queued \subseteq Ids
    BY QueuedType DEF RobustInv
  <2>2. (removed \subseteq Ids)'
    BY <2>1 DEF RobustInv, QueueTypeOK, removeMessagesByRoom, KeptWithout
  <2>3. QED
    BY <1>3, <2>2
    DEF RobustInv, QueueTypeOK, removeMessagesByRoom, KeptWithout, wiring, passVars, callerVars
<1>8. CountsFailures'
  BY <1>5, <1>6 DEF RobustInv, CountsFailures
<1>9. FailsOnlyWhenExhausted'
  BY <1>5 DEF RobustInv, FailsOnlyWhenExhausted
<1>10. QED
  BY <1>6, <1>7, <1>8, <1>9 DEF RobustInv

LEMMA TickRobust == ASSUME RobustInv, tick PROVE RobustInv'
<1>1. messageQueue \in Seq(Entry)
  BY DEF RobustInv, QueueTypeOK
<1> DEFINE older(e) == [e EXCEPT !.wait = IF @ > 0 THEN @ - 1 ELSE 0]
<1>a. \A e \in Entry :
        older(e) \in Entry /\ older(e).id = e.id
                           /\ older(e).retryCount = e.retryCount
  BY DEF Entry
<1>b. messageQueue' = [k \in DOMAIN messageQueue |-> older(messageQueue[k])]
  BY DEF tick
<1>c. \A k \in DOMAIN messageQueue : messageQueue[k] \in Entry
  BY QueuedType DEF RobustInv
<1> HIDE DEF older
<1>2. /\ messageQueue' \in Seq(Entry)
      /\ DOMAIN messageQueue' = DOMAIN messageQueue
      /\ \A k \in DOMAIN messageQueue :
           /\ messageQueue'[k].id = messageQueue[k].id
           /\ messageQueue'[k].retryCount = messageQueue[k].retryCount
  BY <1>1, <1>a, <1>b, <1>c
<1>3. UNCHANGED <<pc, index, item, accepted, failures, onError>>
  BY DEF tick, passVars, history, callerVars
<1>4. QueueTypeOK'
  BY <1>2 DEF RobustInv, QueueTypeOK, tick, wiring, passVars, history,
         callerVars
<1>5. UniqueIds'
  BY <1>2 DEF RobustInv, UniqueIds
<1>6. CountsFailures'
  BY <1>2, <1>3 DEF RobustInv, CountsFailures, Queued
<1>7. FailsOnlyWhenExhausted'
  BY <1>3 DEF RobustInv, FailsOnlyWhenExhausted
<1>8. QED
  BY <1>4, <1>5, <1>6, <1>7 DEF RobustInv

LEMMA GiveUpRobust == ASSUME RobustInv, giveUp PROVE RobustInv'
<1> USE ConstantsAssumption
<1>1. /\ messageQueue' = Splice(messageQueue, index)
      /\ accepted' = accepted /\ failures' = failures /\ pc' = pc /\ pc = "loop"
      /\ item' = item
  BY DEF giveUp, history
<1>2. /\ messageQueue' \in Seq(Entry)
      /\ UniqueIds'
      /\ (Queued \subseteq accepted)'
      /\ (\A m \in Ids \ accepted : failures[m] = 0)'
      /\ (\A k \in DOMAIN messageQueue :
            messageQueue[k].retryCount = failures[messageQueue[k].id])'
  BY <1>1, SpliceStep
<1>3. /\ messageQueue \in Seq(Entry) /\ index \in 1..Len(messageQueue)
      /\ messageQueue[index] \in Entry
  BY DEF RobustInv, QueueTypeOK, giveUp
<1>4. index' \in Nat
  BY <1>3 DEF giveUp
<1>5. QueueTypeOK'
  <2>1. onError' \in [Ids -> Nat]
    <3>1. messageQueue[index].id \in Ids
      BY <1>3 DEF Entry
    <3>2. QED
      BY <3>1 DEF RobustInv, QueueTypeOK, giveUp
  <2>2. QED
    BY <1>2, <1>4, <2>1 DEF RobustInv, QueueTypeOK, giveUp, wiring, history
<1>6. CountsFailures'
  BY <1>1, <1>2 DEF CountsFailures
<1>7. FailsOnlyWhenExhausted'
  <2> DEFINE m0 == messageQueue[index].id
  <2>1. m0 \in Ids /\ failures[m0] >= MaxRetries /\ failures[m0] <= MaxRetries
    BY <1>3 DEF RobustInv, CountsFailures, FailsOnlyWhenExhausted, giveUp,
           Entry
  <2>2. failures \in [Ids -> Nat] /\ onError \in [Ids -> Nat]
    BY DEF RobustInv, QueueTypeOK
  <2>3. failures[m0] = MaxRetries
    BY <2>1, <2>2
  <2>4. onError' = [onError EXCEPT ![m0] = @ + 1]
    BY DEF giveUp
  <2> HIDE DEF m0
  <2>5. QED
    BY <1>1, <2>1, <2>2, <2>3, <2>4 DEF RobustInv, FailsOnlyWhenExhausted
<1>8. QED
  BY <1>2, <1>5, <1>6, <1>7 DEF RobustInv
LEMMA SendSucceedsRobust == ASSUME RobustInv, sendSucceeds PROVE RobustInv'
<1>1. /\ messageQueue' = Splice(messageQueue, index)
      /\ UNCHANGED <<accepted, failures, onError>> /\ pc' = "loop"
  BY DEF sendSucceeds, history
<1>2. /\ messageQueue' \in Seq(Entry)
      /\ UniqueIds'
      /\ (Queued \subseteq accepted)'
      /\ (\A m \in Ids \ accepted : failures[m] = 0)'
      /\ (\A k \in DOMAIN messageQueue :
            messageQueue[k].retryCount = failures[messageQueue[k].id])'
  BY <1>1, SpliceStep
<1>3. index' \in Nat /\ item \in Ids
  BY DEF RobustInv, QueueTypeOK, CountsFailures, sendSucceeds
<1>4. QueueTypeOK'
  <2>1. onSuccess' \in [Ids -> Nat]
    BY <1>3 DEF RobustInv, QueueTypeOK, sendSucceeds
  <2>2. QED
    BY <1>2, <1>3, <2>1 DEF RobustInv, QueueTypeOK, sendSucceeds, wiring,
           history
<1>5. CountsFailures'
  BY <1>1, <1>2 DEF CountsFailures
<1>6. FailsOnlyWhenExhausted'
  BY <1>1 DEF RobustInv, FailsOnlyWhenExhausted
<1>7. QED
  BY <1>2, <1>4, <1>5, <1>6 DEF RobustInv

LEMMA SendFailsRobust == ASSUME RobustInv, sendThrows PROVE RobustInv'
<1> USE ConstantsAssumption
<1>1. /\ messageQueue \in Seq(Entry)
      /\ \A k \in DOMAIN messageQueue : messageQueue[k] \in Entry
      /\ failures \in [Ids -> Nat]
      /\ item \in Ids /\ item \in accepted
      /\ index' \in Nat
      /\ failures[item] < MaxRetries
      /\ UNCHANGED <<accepted, onError>> /\ pc' = "loop"
      /\ failures' = [failures EXCEPT ![item] = @ + 1]
  BY QueuedType DEF RobustInv, QueueTypeOK, CountsFailures, sendThrows, history
<1> DEFINE retried(e) == [id |-> item, retryCount |-> e.retryCount + 1,
                          wait |-> calculateBackoff(e.retryCount + 1)]
           update(e) == IF e.id = item THEN retried(e) ELSE e
<1>2. messageQueue' = [k \in DOMAIN messageQueue |-> update(messageQueue[k])]
  BY DEF sendThrows, scheduleRetry
<1>3. ASSUME NEW k \in DOMAIN messageQueue
      PROVE  LET e == messageQueue[k] IN
             /\ update(e) \in Entry
             /\ update(e).id = e.id
             /\ update(e).retryCount = failures'[e.id]
  <2> DEFINE e == messageQueue[k]
  <2>1. e \in Entry /\ e.id \in Ids /\ e.retryCount \in Nat
    BY <1>1 DEF Entry
  <2>2. e.retryCount = failures[e.id]
    BY DEF RobustInv, CountsFailures
  <2> HIDE DEF e
  <2>3. CASE e.id = item
    <3>1. e.retryCount + 1 \in 0..MaxRetries
      BY <1>1, <2>1, <2>2, <2>3
    <3>2. calculateBackoff(e.retryCount + 1) \in Nat
      BY <3>1, BackoffAssumption
    <3>3. /\ retried(e) \in Entry
          /\ retried(e).id = e.id
          /\ retried(e).retryCount = e.retryCount + 1
      <4>1. item \in Ids /\ e.retryCount + 1 \in Nat /\ item = e.id
        BY <1>1, <2>1, <2>3
      <4>2. QED
        BY <3>2, <4>1 DEF Entry
    <3>4. failures'[e.id] = e.retryCount + 1
      BY <1>1, <2>1, <2>2, <2>3
    <3>5. QED
      BY <2>3, <3>3, <3>4 DEF e
  <2>4. CASE e.id # item
    <3>1. failures'[e.id] = failures[e.id]
      BY <1>1, <2>1, <2>4
    <3>2. QED
      BY <2>1, <2>2, <2>4, <3>1 DEF e
  <2>5. QED
    BY <2>3, <2>4
<1> HIDE DEF update
<1>4. /\ messageQueue' \in Seq(Entry)
      /\ DOMAIN messageQueue' = DOMAIN messageQueue
      /\ \A k \in DOMAIN messageQueue :
           /\ messageQueue'[k].id = messageQueue[k].id
           /\ messageQueue'[k].retryCount = failures'[messageQueue[k].id]
  <2>1. \A k \in DOMAIN messageQueue :
          /\ update(messageQueue[k]) \in Entry
          /\ update(messageQueue[k]).id = messageQueue[k].id
          /\ update(messageQueue[k]).retryCount = failures'[messageQueue[k].id]
    BY <1>3
  <2>2. DOMAIN messageQueue = 1..Len(messageQueue) /\ Len(messageQueue) \in Nat
    BY <1>1
  <2>3. messageQueue' \in Seq(Entry)
    BY <1>2, <2>1, <2>2
  <2>4. QED
    BY <1>2, <2>1, <2>3
<1>5. QueueTypeOK'
  <2>1. failures' \in [Ids -> Nat] /\ (due \subseteq Ids)'
    <3>1. failures' \in [Ids -> Nat]
      BY <1>1
    <3>2. (due \subseteq Ids)'
      BY DEF RobustInv, QueueTypeOK, sendThrows, scheduleRetry
    <3>3. QED
      BY <3>1, <3>2
  <2>2. QED
    BY <1>1, <1>4, <2>1 DEF RobustInv, QueueTypeOK, sendThrows, wiring, history
<1>6. UniqueIds'
  BY <1>4 DEF RobustInv, UniqueIds
<1>7. CountsFailures'
  <2>1. (Queued \subseteq accepted)'
    BY <1>1, <1>4 DEF RobustInv, CountsFailures, Queued
  <2>2. (\A m \in Ids \ accepted : failures[m] = 0)'
    BY <1>1 DEF RobustInv, CountsFailures
  <2>3. QED
    BY <1>1, <1>4, <2>1, <2>2 DEF CountsFailures
<1>8. FailsOnlyWhenExhausted'
  BY <1>1 DEF RobustInv, FailsOnlyWhenExhausted
<1>9. QED
  BY <1>5, <1>6, <1>7, <1>8 DEF RobustInv

(* The steps that change neither the array nor the history.                *)
LEMMA ControlRobust ==
  ASSUME RobustInv,
         start \/ beginPass \/ endPass \/ loopThrows \/ skipNotDue \/ send
  PROVE  RobustInv'
<1> USE ConstantsAssumption DEF passVars, callerVars, wiring, history
<1>1. UNCHANGED <<messageQueue, accepted, removed, failures, onSuccess, onError>>
  BY DEF start, beginPass, endPass, loopThrows, skipNotDue, send
<1>2. messageQueue \in Seq(Entry) /\ Len(messageQueue) \in Nat /\ Queued \subseteq Ids
  BY QueuedType DEF RobustInv, QueueTypeOK
<1>3. QueueTypeOK'
  <2>1. CASE start
    BY <1>1, <2>1 DEF RobustInv, QueueTypeOK, start
  <2>2. CASE beginPass
    <3>1. due' \subseteq Queued
      BY <2>2 DEF beginPass, Queued
    <3>2. QED
      BY <1>1, <1>2, <2>2, <3>1 DEF RobustInv, QueueTypeOK, beginPass
  <2>3. CASE endPass
    BY <1>1, <2>3 DEF RobustInv, QueueTypeOK, endPass
  <2>4. CASE loopThrows
    BY <1>1, <2>4 DEF RobustInv, QueueTypeOK, loopThrows
  <2>5. CASE skipNotDue
    BY <1>1, <1>2, <2>5 DEF RobustInv, QueueTypeOK, skipNotDue
  <2>6. CASE send
    <3>1. item' \in Ids
      BY <1>2, <2>6 DEF send, Queued
    <3>2. QED
      BY <1>1, <2>6, <3>1 DEF RobustInv, QueueTypeOK, send
  <2>7. QED
    BY <2>1, <2>2, <2>3, <2>4, <2>5, <2>6
<1>4. UniqueIds' /\ FailsOnlyWhenExhausted'
  BY <1>1 DEF RobustInv, UniqueIds, FailsOnlyWhenExhausted
<1>5. (pc = "await" => index > 0 /\ item \in accepted /\ failures[item] < MaxRetries)'
  <2>1. CASE send
    <3>1. index \in 1..Len(messageQueue) /\ index' = index
          /\ item' = messageQueue[index].id /\ item' \in Queued
      BY <1>2, <2>1 DEF send, Queued
    <3>2. messageQueue[index].retryCount = failures[item']
      BY <3>1, <1>2 DEF RobustInv, CountsFailures
    <3>3. item' \in accepted
      BY <3>1 DEF RobustInv, CountsFailures
    <3>4. QED
      BY <1>1, <2>1, <3>1, <3>2, <3>3 DEF send
  <2>2. CASE start
    BY <1>1, <2>2 DEF RobustInv, CountsFailures, start
  <2>3. CASE beginPass \/ endPass \/ loopThrows \/ skipNotDue
    BY <2>3 DEF beginPass, endPass, loopThrows, skipNotDue
  <2>4. QED
    BY <2>1, <2>2, <2>3
<1>6. CountsFailures'
  BY <1>1, <1>5 DEF RobustInv, CountsFailures, Queued
<1>7. QED
  BY <1>3, <1>4, <1>6 DEF RobustInv

LEMMA DestroyRobust == ASSUME RobustInv, destroy PROVE RobustInv'
<1> USE DEF passVars, callerVars
<1>1. messageQueue' = <<>> /\ Queued \subseteq Ids
      /\ UNCHANGED <<pc, index, item, accepted, failures, onError>>
  BY QueuedType DEF RobustInv, destroy
<1>2. QueueTypeOK'
  <2>1. messageQueue' \in Seq(Entry) /\ (removed \subseteq Ids)'
    BY <1>1 DEF RobustInv, QueueTypeOK, destroy
  <2>2. QED
    BY <2>1 DEF RobustInv, QueueTypeOK, destroy
<1>3. UniqueIds'
  BY <1>1 DEF UniqueIds
<1>4. CountsFailures'
  BY <1>1 DEF RobustInv, CountsFailures, Queued
<1>5. FailsOnlyWhenExhausted'
  BY <1>1 DEF RobustInv, FailsOnlyWhenExhausted
<1>6. QED
  BY <1>2, <1>3, <1>4, <1>5 DEF RobustInv
LEMMA NextRobust == ASSUME RobustInv, [QueueNext]_retryQueueVars PROVE RobustInv'
<1>1. CASE start \/ beginPass \/ endPass \/ loopThrows \/ skipNotDue \/ send
  BY <1>1, ControlRobust
<1>2. CASE intervalFires \/ forceProcess
  <2>1. beginPass
    BY <1>2 DEF intervalFires, forceProcess
  <2>2. QED
    BY <2>1, ControlRobust
<1>3. CASE destroy
  BY <1>3, DestroyRobust
<1>4. CASE \E m \in Ids : addMessage(m)
  BY <1>4, AddRobust
<1>5. CASE \E r \in CleanupRooms : removeMessagesByRoom(r)
  BY <1>5, RemoveByRoomRobust
<1>6. CASE tick
  BY <1>6, TickRobust
<1>7. CASE giveUp
  BY <1>7, GiveUpRobust
<1>8. CASE sendSucceeds
  BY <1>8, SendSucceedsRobust
<1>9. CASE sendThrows
  BY <1>9, SendFailsRobust
<1>10. CASE UNCHANGED retryQueueVars
  BY <1>10
  DEF retryQueueVars, RobustInv, QueueTypeOK, UniqueIds, CountsFailures, Queued, FailsOnlyWhenExhausted
<1>11. QED
  BY <1>1, <1>2, <1>3, <1>4, <1>5, <1>6, <1>7, <1>8, <1>9, <1>10
  DEF QueueNext, loopStep

(* The inductive invariant holds of every execution, whoever changes the   *)
(* array under a running pass.                                             *)
THEOREM Robust == QueueSpec => []RobustInv
<1>1. QueueInit => RobustInv
  BY InitRobust
<1>2. RobustInv /\ [QueueNext]_retryQueueVars => RobustInv'
  BY NextRobust
<1>3. QED
  BY <1>1, <1>2, PTL DEF QueueSpec

(* Every variable of the queue keeps its type.                             *)
THEOREM TypeCorrect == QueueSpec => []QueueTypeOK
<1>1. RobustInv => QueueTypeOK
  BY DEF RobustInv
<1>2. QED
  BY <1>1, Robust, PTL

(* No message is reported failed before maxRetries sends of it failed, and *)
(* none is tried again after that.                                         *)
THEOREM FailureIsEarned == QueueSpec => []FailsOnlyWhenExhausted
<1>1. RobustInv => FailsOnlyWhenExhausted
  BY DEF RobustInv
<1>2. QED
  BY <1>1, Robust, PTL

-----------------------------------------------------------------------------
(* Passes that nobody disturbs.                                            *)
(* A set of naturals has a least element.                                  *)
LEMMA LeastNatural ==
  ASSUME NEW T \in SUBSET Nat, T # {}
  PROVE  \E x \in T : \A y \in T : x <= y
<1>1. PICK x \in T : \A y \in T : ~(<<y, x>> \in OpToRel(<, Nat))
  BY NatLessThanWellFounded, WFMin
<1>2. \A y \in T : ~(y < x)
  BY <1>1 DEF OpToRel
<1>3. QED
  BY <1>2

(* The only increasing function of 1..n to itself is the identity.         *)
LEMMA IncreasingIsIdentity ==
  ASSUME NEW n \in Nat, NEW f \in [1..n -> 1..n],
         \A a, b \in 1..n : a < b => f[a] < f[b]
  PROVE  \A a \in 1..n : f[a] = a
<1>1. \A a \in 1..n : f[a] >= a
  <2> DEFINE T == {a \in 1..n : f[a] < a}
  <2>1. SUFFICES ASSUME T # {} PROVE FALSE
    OBVIOUS
  <2>0. T \in SUBSET Nat
    OBVIOUS
  <2>2. PICK a \in T : \A b \in T : a <= b
    <3> HIDE DEF T
    <3>1. QED  BY <2>1, <2>0, LeastNatural
  <2>3. a \in 1..n /\ f[a] < a /\ f[a] \in 1..n
    OBVIOUS
  <2>4. a - 1 \in 1..n /\ a - 1 \notin T
    BY <2>2, <2>3
  <2>5. f[a - 1] >= a - 1 /\ f[a - 1] < f[a]
    BY <2>3, <2>4
  <2>6. QED
    BY <2>3, <2>4, <2>5
<1>2. \A a \in 1..n : f[a] <= a
  <2> DEFINE T == {d \in 0..n : n - d \in 1..n /\ f[n - d] > n - d}
  <2>1. SUFFICES ASSUME NEW a \in 1..n, f[a] > a PROVE FALSE
    OBVIOUS
  <2>2. n - a \in T
    BY <2>1
  <2>0. T \in SUBSET Nat
    OBVIOUS
  <2>3. PICK d \in T : \A e \in T : d <= e
    <3> HIDE DEF T
    <3>1. QED  BY <2>2, <2>0, LeastNatural
  <2>4. d \in 0..n /\ n - d \in 1..n /\ f[n - d] > n - d /\ f[n - d] \in 1..n
    OBVIOUS
  <2>5. d # 0 /\ d - 1 \in 0..n /\ n - (d - 1) \in 1..n /\ n - d < n - (d - 1)
    BY <2>4
  <2>6. d - 1 \notin T
    <3> HIDE DEF T
    <3>1. QED  BY <2>3, <2>4
  <2>7. f[n - (d - 1)] \in 1..n
    BY <2>5
  <2>8. f[n - (d - 1)] <= n - (d - 1)
    BY <2>5, <2>6, <2>7
  <2>9. f[n - d] < f[n - (d - 1)]
    BY <2>4, <2>5
  <2>10. QED
    BY <2>4, <2>5, <2>8, <2>7, <2>9
<1>3. QED
  BY <1>1, <1>2

(* A filter that keeps everything changes nothing.                         *)
LEMMA FilteredAll ==
  ASSUME NEW S, NEW q \in Seq(S), NEW r \in Filtered(q, DOMAIN q)
  PROVE  r = q
<1>1. DOMAIN q = 1..Len(q) /\ Len(q) \in Nat
  OBVIOUS
<1>2. Cardinality(DOMAIN q) = Len(q)
  BY <1>1, FS_Interval
<1>3. PICK f \in [1..Len(q) -> DOMAIN q] :
         /\ \A a, b \in 1..Len(q) : a < b => f[a] < f[b]
         /\ r = [a \in 1..Len(q) |-> q[f[a]]]
  BY <1>2 DEF Filtered
<1>4. \A a \in 1..Len(q) : f[a] = a
  BY <1>1, <1>3, IncreasingIsIdentity
<1>5. QED
  BY <1>1, <1>3, <1>4
-----------------------------------------------------------------------------
(* Splicing the entry at index out takes its id, and no other, out of the  *)
(* queue.                                                                  *)
LEMMA SpliceIds ==
  ASSUME RobustInv, index \in DOMAIN messageQueue,
         messageQueue' = Splice(messageQueue, index)
  PROVE  /\ Queued' = Queued \ {messageQueue[index].id}
         /\ Len(messageQueue') = Len(messageQueue) - 1
<1> DEFINE q == messageQueue
           r == messageQueue'
<1>1. /\ q \in Seq(Entry) /\ DOMAIN q = 1..Len(q) /\ Len(q) \in Nat
      /\ index \in 1..Len(q)
  BY DEF RobustInv, QueueTypeOK
<1>2. /\ r \in Seq(Entry) /\ Len(r) = Len(q) - 1
      /\ \A j \in 1..Len(q)-1 : r[j] = IF j < index THEN q[j] ELSE q[j+1]
  BY <1>1, RemoveAtProperties DEF Splice
<1>3. DOMAIN r = 1..Len(q)-1
  BY <1>2
<1>4. \A a, b \in DOMAIN q : q[a].id = q[b].id => a = b
  BY DEF RobustInv, UniqueIds
<1> HIDE DEF q, r
<1>5. ASSUME NEW k \in DOMAIN r
      PROVE  \E j \in DOMAIN q : j # index /\ r[k] = q[j]
  <2>1. CASE k < index
    BY <1>1, <1>2, <1>3, <1>5, <2>1
  <2>2. CASE ~(k < index)
    <3>1. k + 1 \in DOMAIN q /\ k + 1 # index /\ r[k] = q[k + 1]
      BY <1>1, <1>2, <1>3, <1>5, <2>2
    <3>2. QED  BY <3>1
  <2>3. QED  BY <2>1, <2>2
<1>6. ASSUME NEW j \in DOMAIN q, j # index
      PROVE  \E k \in DOMAIN r : r[k] = q[j]
  <2>1. CASE j < index
    BY <1>1, <1>2, <1>3, <1>6, <2>1
  <2>2. CASE ~(j < index)
    <3>1. j - 1 \in DOMAIN r /\ r[j - 1] = q[j]
      BY <1>1, <1>2, <1>3, <1>6, <2>2
    <3>2. QED  BY <3>1
  <2>3. QED  BY <2>1, <2>2
<1>7. {r[k].id : k \in DOMAIN r} = {q[j].id : j \in DOMAIN q} \ {q[index].id}
  <2>1. ASSUME NEW k \in DOMAIN r
        PROVE  r[k].id \in {q[j].id : j \in DOMAIN q} \ {q[index].id}
    BY <1>1, <1>4, <1>5, <2>1
  <2>2. ASSUME NEW j \in DOMAIN q, q[j].id # q[index].id
        PROVE  q[j].id \in {r[k].id : k \in DOMAIN r}
    BY <1>6, <2>2
  <2>3. QED  BY <2>1, <2>2
<1>8. QED
  BY <1>2, <1>7 DEF Queued, q, r

LEMMA InitOrderly == QueueInit => OrderlyInv
<1> SUFFICES ASSUME QueueInit PROVE OrderlyInv
  OBVIOUS
<1>1. RobustInv
  BY InitRobust
<1>2. RemovesSafely /\ ProcessorNotStuck /\ EndsOnce
  BY DEF QueueInit, RemovesSafely, ProcessorNotStuck, EndsOnce
<1>3. pc = "loop" => index <= Len(messageQueue)
  BY DEF QueueInit
<1>4. \A m \in Ids \ accepted : m \notin removed /\ onSuccess[m] + onError[m] = 0
  BY DEF QueueInit
<1>5. QED
  BY <1>1, <1>2, <1>3, <1>4 DEF OrderlyInv

LEMMA AddOrderly ==
  ASSUME OrderlyInv, NEW m \in Ids, addMessage(m)
  PROVE  OrderlyInv'
<1> DEFINE e == [id |-> m, retryCount |-> 0, wait |-> calculateBackoff(0)]
<1>1. RobustInv'
  BY AddRobust DEF OrderlyInv
<1>2. messageQueue \in Seq(Entry) /\ messageQueue' = Append(messageQueue, e)
  BY DEF OrderlyInv, RobustInv, QueueTypeOK, addMessage
<1>3. e.id = m /\ e \in Entry
  BY ConstantsAssumption, BackoffAssumption DEF Entry
<1> HIDE DEF e
<1>4. /\ DOMAIN messageQueue \subseteq DOMAIN messageQueue'
      /\ \A k \in DOMAIN messageQueue : messageQueue'[k] = messageQueue[k]
      /\ messageQueue'[Len(messageQueue)+1] = e
      /\ Len(messageQueue)+1 \in DOMAIN messageQueue'
      /\ \A k \in DOMAIN messageQueue' :
            k \in DOMAIN messageQueue \/ k = Len(messageQueue)+1
  BY <1>2, <1>3
<1>5. Queued' = Queued \cup {m}
  BY <1>3, <1>4 DEF Queued
<1>6. /\ m \notin Queued /\ m \notin accepted /\ accepted' = accepted \cup {m}
      /\ pc # "loop"
      /\ UNCHANGED <<isProcessing, pc, index, item, removed, onSuccess, onError>>
  BY DEF addMessage, EventLoopFree, passVars, callerVars
<1>7. RemovesSafely'
  BY <1>4, <1>6 DEF OrderlyInv, RemovesSafely
<1>8. ProcessorNotStuck'
  BY <1>6 DEF OrderlyInv, ProcessorNotStuck
<1>9. EndsOnce'
  BY <1>5, <1>6 DEF OrderlyInv, EndsOnce
<1>10. QED
  BY <1>1, <1>6, <1>7, <1>8, <1>9 DEF OrderlyInv

LEMMA RemoveByRoomKeepsAll ==
  ASSUME Undisturbed, RobustInv, NEW r \in CleanupRooms, removeMessagesByRoom(r)
  PROVE  UNCHANGED retryQueueVars
<1>1. messageQueue \in Seq(Entry) /\ Queued \subseteq Ids
  BY QueuedType DEF RobustInv, QueueTypeOK
<1>2. \A k \in DOMAIN messageQueue : messageQueue[k].id \in Ids
  BY <1>1 DEF Queued
<1>3. {k \in DOMAIN messageQueue : RoomOf[messageQueue[k].id] # r}
         = DOMAIN messageQueue
  BY <1>2 DEF Undisturbed
<1>4. messageQueue' \in Filtered(messageQueue, DOMAIN messageQueue)
  BY <1>3 DEF removeMessagesByRoom, KeptWithout
<1>5. messageQueue' = messageQueue
  BY <1>1, <1>4, FilteredAll
<1>6. removed' = removed
  BY <1>1 DEF removeMessagesByRoom, Undisturbed
<1>7. QED
  BY <1>5, <1>6 DEF removeMessagesByRoom, retryQueueVars, wiring, passVars,
         callerVars

(* The steps that leave the ids of the array where they are.               *)
LEMMA SameIds ==
  ASSUME RobustInv, messageQueue' \in Seq(Entry),
         DOMAIN messageQueue' = DOMAIN messageQueue,
         \A k \in DOMAIN messageQueue : messageQueue'[k].id = messageQueue[k].id
  PROVE  Queued' = Queued /\ Len(messageQueue') = Len(messageQueue)
<1>1. Queued' = Queued
  BY DEF Queued
<1>2. messageQueue \in Seq(Entry)
  BY DEF RobustInv, QueueTypeOK
<1>3. QED
  BY <1>1, <1>2

LEMMA TickOrderly == ASSUME OrderlyInv, tick PROVE OrderlyInv'
<1>1. RobustInv /\ RobustInv'
  BY TickRobust DEF OrderlyInv
<1>2. /\ DOMAIN messageQueue' = DOMAIN messageQueue
      /\ \A k \in DOMAIN messageQueue : messageQueue'[k].id = messageQueue[k].id
  <2>1. \A k \in DOMAIN messageQueue : messageQueue[k] \in Entry
    BY <1>1, QueuedType DEF RobustInv
  <2>2. QED
    BY <2>1 DEF tick, Entry
<1>3. messageQueue' \in Seq(Entry)
  BY <1>1 DEF RobustInv, QueueTypeOK
<1>4. Queued' = Queued /\ Len(messageQueue') = Len(messageQueue)
  BY <1>1, <1>2, <1>3, SameIds
<1>5. UNCHANGED <<isProcessing, pc, index, item, accepted, removed, onSuccess, onError>>
  BY DEF tick, passVars, history, callerVars
<1>6. RemovesSafely'
  BY <1>2, <1>5 DEF OrderlyInv, RemovesSafely
<1>7. ProcessorNotStuck'
  BY <1>5 DEF OrderlyInv, ProcessorNotStuck
<1>8. EndsOnce'
  BY <1>4, <1>5 DEF OrderlyInv, EndsOnce
<1>9. QED
  BY <1>1, <1>4, <1>5, <1>6, <1>7, <1>8 DEF OrderlyInv

LEMMA GiveUpOrderly == ASSUME OrderlyInv, giveUp PROVE OrderlyInv'
<1> DEFINE m0 == messageQueue[index].id
<1>1. RobustInv /\ RobustInv'
  BY GiveUpRobust DEF OrderlyInv
<1>2. /\ pc = "loop" /\ pc' = pc /\ index \in DOMAIN messageQueue
      /\ messageQueue' = Splice(messageQueue, index)
      /\ index' = index - 1
      /\ onError' = [onError EXCEPT ![m0] = @ + 1]
      /\ UNCHANGED <<isProcessing, item, accepted, removed, onSuccess>>
  BY DEF giveUp, history
<1>3. m0 \in Queued /\ m0 \in Ids /\ m0 \in accepted
  BY <1>1, <1>2, QueuedType DEF Queued, RobustInv, CountsFailures
<1>4. Queued' = Queued \ {m0} /\ Len(messageQueue') = Len(messageQueue) - 1
  BY <1>1, <1>2, SpliceIds
<1> HIDE DEF m0
<1>5. /\ onError \in [Ids -> Nat] /\ onSuccess \in [Ids -> Nat]
      /\ accepted \subseteq Ids
  BY <1>1 DEF RobustInv, QueueTypeOK
<1>6. /\ onError'[m0] = onError[m0] + 1
      /\ \A m \in Ids \ {m0} : onError'[m] = onError[m]
  BY <1>2, <1>3, <1>5
<1>7. RemovesSafely'
  BY <1>2 DEF RemovesSafely
<1>8. ProcessorNotStuck'
  BY <1>2 DEF OrderlyInv, ProcessorNotStuck
<1>9. EndsOnce'
  <2> SUFFICES ASSUME NEW m \in accepted
               PROVE  \/ m \in Queued' /\ m \notin removed /\ onSuccess[m] + onError'[m] = 0
                      \/ m \notin Queued' /\ m \in removed /\ onSuccess[m] + onError'[m] = 0
                      \/ m \notin Queued' /\ m \notin removed /\ onSuccess[m] + onError'[m] = 1
    BY <1>2 DEF EndsOnce
  <2>1. \/ m \in Queued /\ m \notin removed /\ onSuccess[m] + onError[m] = 0
        \/ m \notin Queued /\ m \in removed /\ onSuccess[m] + onError[m] = 0
        \/ m \notin Queued /\ m \notin removed /\ onSuccess[m] + onError[m] = 1
    BY DEF OrderlyInv, EndsOnce
  <2>2. CASE m = m0
    BY <1>3, <1>4, <1>5, <1>6, <2>1, <2>2
  <2>3. CASE m # m0
    BY <1>4, <1>5, <1>6, <2>1, <2>3
  <2>4. QED  BY <2>2, <2>3
<1>10. index' <= Len(messageQueue')
  <2>1. /\ index \in Nat /\ Len(messageQueue) \in Nat /\ index <= Len(messageQueue)
    BY <1>1, <1>2 DEF OrderlyInv, RobustInv, QueueTypeOK
  <2>2. QED  BY <1>2, <1>4, <2>1
<1>11. \A m \in Ids \ accepted : m \notin removed /\ onSuccess[m] + onError'[m] = 0
  BY <1>3, <1>6 DEF OrderlyInv
<1>12. QED
  BY <1>1, <1>2, <1>7, <1>8, <1>9, <1>10, <1>11 DEF OrderlyInv

LEMMA SendSucceedsOrderly == ASSUME OrderlyInv, sendSucceeds PROVE OrderlyInv'
<1>1. RobustInv /\ RobustInv'
  BY SendSucceedsRobust DEF OrderlyInv
<1>2. /\ pc = "await" /\ pc' = "loop"
      /\ messageQueue' = Splice(messageQueue, index)
      /\ index' = index - 1
      /\ onSuccess' = [onSuccess EXCEPT ![item] = @ + 1]
      /\ UNCHANGED <<isProcessing, accepted, removed, onError>>
  BY DEF sendSucceeds, history
<1>3. index \in DOMAIN messageQueue /\ messageQueue[index].id = item
  BY <1>2 DEF OrderlyInv, RemovesSafely
<1>4. item \in Queued /\ item \in Ids /\ item \in accepted
  BY <1>1, <1>3, QueuedType DEF Queued, RobustInv, CountsFailures
<1>5. Queued' = Queued \ {item} /\ Len(messageQueue') = Len(messageQueue) - 1
  BY <1>1, <1>2, <1>3, SpliceIds
<1>6. /\ onError \in [Ids -> Nat] /\ onSuccess \in [Ids -> Nat]
      /\ accepted \subseteq Ids
  BY <1>1 DEF RobustInv, QueueTypeOK
<1>7. /\ onSuccess'[item] = onSuccess[item] + 1
      /\ \A m \in Ids \ {item} : onSuccess'[m] = onSuccess[m]
  BY <1>2, <1>4, <1>6
<1>8. RemovesSafely'
  BY <1>2 DEF RemovesSafely
<1>9. ProcessorNotStuck'
  BY <1>2 DEF OrderlyInv, ProcessorNotStuck
<1>10. EndsOnce'
  <2> SUFFICES ASSUME NEW m \in accepted
               PROVE  \/ m \in Queued' /\ m \notin removed /\ onSuccess'[m] + onError[m] = 0
                      \/ m \notin Queued' /\ m \in removed /\ onSuccess'[m] + onError[m] = 0
                      \/ m \notin Queued' /\ m \notin removed /\ onSuccess'[m] + onError[m] = 1
    BY <1>2 DEF EndsOnce
  <2>1. \/ m \in Queued /\ m \notin removed /\ onSuccess[m] + onError[m] = 0
        \/ m \notin Queued /\ m \in removed /\ onSuccess[m] + onError[m] = 0
        \/ m \notin Queued /\ m \notin removed /\ onSuccess[m] + onError[m] = 1
    BY DEF OrderlyInv, EndsOnce
  <2>2. CASE m = item
    BY <1>4, <1>5, <1>6, <1>7, <2>1, <2>2
  <2>3. CASE m # item
    BY <1>5, <1>6, <1>7, <2>1, <2>3
  <2>4. QED  BY <2>2, <2>3
<1>11. index' <= Len(messageQueue')
  <2>1. /\ index \in Nat /\ Len(messageQueue) \in Nat /\ index <= Len(messageQueue)
    BY <1>1, <1>3 DEF RobustInv, QueueTypeOK
  <2>2. QED  BY <1>2, <1>5, <2>1
<1>12. \A m \in Ids \ accepted : m \notin removed /\ onSuccess'[m] + onError[m] = 0
  BY <1>4, <1>7 DEF OrderlyInv
<1>13. QED
  BY <1>1, <1>2, <1>8, <1>9, <1>10, <1>11, <1>12 DEF OrderlyInv

LEMMA SendFailsOrderly == ASSUME OrderlyInv, sendThrows PROVE OrderlyInv'
<1>1. RobustInv /\ RobustInv'
  BY SendFailsRobust DEF OrderlyInv
<1>2. /\ pc = "await" /\ pc' = "loop" /\ index' = index - 1
      /\ UNCHANGED <<isProcessing, accepted, removed, onSuccess, onError>>
  BY DEF sendThrows, history
<1>3. /\ DOMAIN messageQueue' = DOMAIN messageQueue
      /\ \A k \in DOMAIN messageQueue : messageQueue'[k].id = messageQueue[k].id
  BY DEF sendThrows, scheduleRetry
<1>4. messageQueue' \in Seq(Entry)
  BY <1>1 DEF RobustInv, QueueTypeOK
<1>5. Queued' = Queued /\ Len(messageQueue') = Len(messageQueue)
  BY <1>1, <1>3, <1>4, SameIds
<1>6. RemovesSafely'
  BY <1>2 DEF RemovesSafely
<1>7. ProcessorNotStuck'
  BY <1>2 DEF OrderlyInv, ProcessorNotStuck
<1>8. EndsOnce'
  BY <1>2, <1>5 DEF OrderlyInv, EndsOnce
<1>9. index' <= Len(messageQueue')
  <2>1. index \in DOMAIN messageQueue
    BY <1>2 DEF OrderlyInv, RemovesSafely
  <2>2. /\ index \in Nat /\ Len(messageQueue) \in Nat /\ index <= Len(messageQueue)
    BY <1>1, <2>1 DEF RobustInv, QueueTypeOK
  <2>3. QED  BY <1>2, <1>5, <2>2
<1>10. QED
  BY <1>1, <1>2, <1>6, <1>7, <1>8, <1>9 DEF OrderlyInv

LEMMA ControlOrderly ==
  ASSUME OrderlyInv,
         start \/ beginPass \/ endPass \/ loopThrows \/ skipNotDue \/ send
  PROVE  OrderlyInv'
<1>1. RobustInv /\ RobustInv'
  BY ControlRobust DEF OrderlyInv
<1>2. UNCHANGED <<messageQueue, accepted, removed, onSuccess, onError>>
  BY DEF start, beginPass, endPass, loopThrows, skipNotDue, send, history,
         callerVars
<1>3. messageQueue \in Seq(Entry) /\ index \in Nat /\ Len(messageQueue) \in Nat
  BY <1>1 DEF RobustInv, QueueTypeOK
<1>4. ~loopThrows
  BY <1>3 DEF OrderlyInv, loopThrows
<1>5. EndsOnce'
  BY <1>2 DEF OrderlyInv, EndsOnce, Queued
<1>6. RemovesSafely' /\ ProcessorNotStuck'
  <2>1. CASE start
    BY <2>1 DEF start, passVars, OrderlyInv, RemovesSafely, ProcessorNotStuck
  <2>2. CASE beginPass
    BY <2>2 DEF beginPass, OrderlyInv, RemovesSafely, ProcessorNotStuck
  <2>3. CASE endPass
    BY <2>3 DEF endPass, OrderlyInv, RemovesSafely, ProcessorNotStuck
  <2>4. CASE skipNotDue
    BY <2>4 DEF skipNotDue, OrderlyInv, RemovesSafely, ProcessorNotStuck
  <2>5. CASE send
    BY <2>5 DEF send, OrderlyInv, RemovesSafely, ProcessorNotStuck
  <2>6. QED  BY <1>4, <2>1, <2>2, <2>3, <2>4, <2>5
<1>7. pc' = "loop" => index' <= Len(messageQueue')
  <2>1. CASE start
    BY <1>2, <2>1 DEF start, passVars, EventLoopFree
  <2>2. CASE beginPass
    BY <1>2, <1>3, <2>2 DEF beginPass
  <2>3. CASE endPass \/ send
    BY <2>3 DEF endPass, send
  <2>4. CASE skipNotDue
    BY <1>2, <1>3, <2>4 DEF skipNotDue, OrderlyInv
  <2>5. QED  BY <1>4, <2>1, <2>2, <2>3, <2>4
<1>8. QED
  BY <1>1, <1>2, <1>5, <1>6, <1>7 DEF OrderlyInv

LEMMA DestroyOrderly == ASSUME Undisturbed, OrderlyInv, destroy PROVE OrderlyInv'
<1>1. RobustInv /\ RobustInv'
  BY DestroyRobust DEF OrderlyInv
<1>2. pc = "idle" /\ pc' = pc /\ messageQueue' = <<>>
      /\ removed' = removed \cup Queued
      /\ UNCHANGED <<isProcessing, index, item, accepted, onSuccess, onError>>
  BY <1>1 DEF destroy, Undisturbed, EventLoopFree, passVars, callerVars,
         RobustInv, QueueTypeOK
<1>3. Queued' = {}
  BY <1>2 DEF Queued
<1>4. Queued \subseteq accepted
  BY <1>1 DEF RobustInv, CountsFailures
<1>5. EndsOnce'
  BY <1>2, <1>3 DEF OrderlyInv, EndsOnce
<1>6. RemovesSafely' /\ ProcessorNotStuck'
  BY <1>2 DEF OrderlyInv, RemovesSafely, ProcessorNotStuck
<1>7. QED
  BY <1>1, <1>2, <1>4, <1>5, <1>6 DEF OrderlyInv

LEMMA StutterOrderly == ASSUME OrderlyInv, UNCHANGED retryQueueVars PROVE OrderlyInv'
<1>1. RobustInv'
  BY NextRobust DEF OrderlyInv
<1>2. (RemovesSafely /\ ProcessorNotStuck /\ EndsOnce)'
  BY DEF retryQueueVars, OrderlyInv, RemovesSafely, ProcessorNotStuck,
         EndsOnce, Queued
<1>3. QED
  BY <1>1, <1>2 DEF retryQueueVars, OrderlyInv

LEMMA NextOrderly ==
  ASSUME Undisturbed, OrderlyInv, [QueueNext]_retryQueueVars
  PROVE  OrderlyInv'
<1>1. CASE start \/ beginPass \/ endPass \/ loopThrows \/ skipNotDue \/ send
  BY <1>1, ControlOrderly
<1>2. CASE intervalFires \/ forceProcess
  BY <1>2, ControlOrderly DEF intervalFires, forceProcess
<1>3. CASE destroy
  BY <1>3, DestroyOrderly
<1>4. CASE \E m \in Ids : addMessage(m)
  BY <1>4, AddOrderly
<1>5. CASE \E r \in CleanupRooms : removeMessagesByRoom(r)
  <2>1. UNCHANGED retryQueueVars
    BY <1>5, RemoveByRoomKeepsAll DEF OrderlyInv
  <2>2. QED  BY <2>1, StutterOrderly
<1>6. CASE tick
  BY <1>6, TickOrderly
<1>7. CASE giveUp
  BY <1>7, GiveUpOrderly
<1>8. CASE sendSucceeds
  BY <1>8, SendSucceedsOrderly
<1>9. CASE sendThrows
  BY <1>9, SendFailsOrderly
<1>10. CASE UNCHANGED retryQueueVars
  BY <1>10, StutterOrderly
<1>11. QED
  BY <1>1, <1>2, <1>3, <1>4, <1>5, <1>6, <1>7, <1>8, <1>9, <1>10 DEF QueueNext,
         loopStep

(* While nobody clears the queue under an awaited send, the orderly        *)
(* invariant holds of every execution.                                     *)
THEOREM Orderly == Undisturbed => (QueueSpec => []OrderlyInv)
<1> SUFFICES ASSUME Undisturbed PROVE QueueSpec => []OrderlyInv
  OBVIOUS
<1>1. QueueInit => OrderlyInv
  BY InitOrderly
<1>2. OrderlyInv /\ [QueueNext]_retryQueueVars => OrderlyInv'
  BY NextOrderly
<1>3. QED
  BY <1>1, <1>2, PTL DEF QueueSpec

(* The splice after a send takes out the message that was sent.            *)
THEOREM RemovesTheOneSent == Undisturbed => (QueueSpec => []RemovesSafely)
<1> SUFFICES ASSUME Undisturbed PROVE QueueSpec => []RemovesSafely
  OBVIOUS
<1>1. OrderlyInv => RemovesSafely
  BY DEF OrderlyInv
<1>2. QED
  BY <1>1, Orderly, PTL

(* The processor's flag is set only while a pass runs.                     *)
THEOREM NeverStuck == Undisturbed => (QueueSpec => []ProcessorNotStuck)
<1> SUFFICES ASSUME Undisturbed PROVE QueueSpec => []ProcessorNotStuck
  OBVIOUS
<1>1. OrderlyInv => ProcessorNotStuck
  BY DEF OrderlyInv
<1>2. QED
  BY <1>1, Orderly, PTL

(* Every message accepted is queued, taken out or reported exactly once.   *)
THEOREM MessagesEndOnce == Undisturbed => (QueueSpec => []EndsOnce)
<1> SUFFICES ASSUME Undisturbed PROVE QueueSpec => []EndsOnce
  OBVIOUS
<1>1. OrderlyInv => EndsOnce
  BY DEF OrderlyInv
<1>2. QED
  BY <1>1, Orderly, PTL

-----------------------------------------------------------------------------
(* The refinement of RetryPromise.                                         *)
LEMMA FateValues ==
  ASSUME OrderlyInv, NEW m \in Ids
  PROVE  /\ Fate(m) = "new" <=> m \notin accepted
         /\ Fate(m) = "queued" <=> m \in Queued
         /\ m \in accepted /\ onSuccess[m] = 1 /\ onError[m] = 0 => Fate(m) = "sent"
         /\ m \in accepted /\ onError[m] = 1 /\ onSuccess[m] = 0 => Fate(m) = "failed"
<1>1. Queued \subseteq accepted
  BY DEF OrderlyInv, RobustInv, CountsFailures
<1>2. onSuccess[m] \in Nat /\ onError[m] \in Nat
  BY DEF OrderlyInv, RobustInv, QueueTypeOK
<1>3. m \in Queued => onSuccess[m] = 0 /\ onError[m] = 0
  BY <1>1, <1>2 DEF OrderlyInv, EndsOnce
<1>4. QED
  BY <1>1, <1>2, <1>3 DEF Fate

LEMMA InitFates == QueueInit => Promise!Init
<1> SUFFICES ASSUME QueueInit PROVE Promise!Init
  OBVIOUS
<1>1. \A m \in Ids : Fate(m) = "new"
  BY DEF QueueInit, Fate
<1>2. QED
  BY <1>1 DEF QueueInit, Promise!Init

LEMMA AddRefines ==
  ASSUME OrderlyInv, OrderlyInv', NEW m \in Ids, addMessage(m)
  PROVE  Promise!Accept(m)
<1>1. /\ m \notin accepted /\ accepted' = accepted \cup {m}
      /\ UNCHANGED <<removed, failures, onSuccess, onError>>
  BY DEF addMessage, callerVars
<1>2. Queued' = Queued \cup {m}
  <2> DEFINE e == [id |-> m, retryCount |-> 0, wait |-> calculateBackoff(0)]
  <2>1. messageQueue \in Seq(Entry) /\ messageQueue' = Append(messageQueue, e)
    BY DEF OrderlyInv, RobustInv, QueueTypeOK, addMessage
  <2>2. e.id = m
    OBVIOUS
  <2> HIDE DEF e
  <2>3. /\ DOMAIN messageQueue' = DOMAIN messageQueue \cup {Len(messageQueue) + 1}
        /\ \A k \in DOMAIN messageQueue : messageQueue'[k] = messageQueue[k]
        /\ messageQueue'[Len(messageQueue)+1] = e
    BY <2>1
  <2>4. QED  BY <2>2, <2>3 DEF Queued
<1>3. Fate(m) = "new" /\ Fate(m)' = "queued"
  <2>1. Fate(m) = "new"
    BY <1>1, FateValues
  <2>2. Fate(m)' = "queued"
    BY <1>1, <1>2 DEF Fate
  <2>3. QED  BY <2>1, <2>2
<1>4. ASSUME NEW x \in Ids, x # m PROVE Fate(x)' = Fate(x)
  BY <1>1, <1>2, <1>4 DEF Fate
<1>5. QED
  BY <1>1, <1>3, <1>4 DEF Promise!Accept

LEMMA GiveUpRefines ==
  ASSUME OrderlyInv, OrderlyInv', giveUp
  PROVE  \E m \in Ids : Promise!GiveUp(m)
<1>1. index \in DOMAIN messageQueue /\ messageQueue[index].retryCount >= MaxRetries
  BY DEF giveUp
<1>2. messageQueue[index].id \in Queued /\ messageQueue[index].id \in Ids
  BY <1>1, QueuedType DEF Queued, OrderlyInv, RobustInv
<1>3. PICK m \in Ids : m = messageQueue[index].id
  BY <1>2
<1>4. /\ messageQueue' = Splice(messageQueue, index)
      /\ onError' = [onError EXCEPT ![m] = @ + 1]
      /\ UNCHANGED <<accepted, removed, failures, onSuccess>>
  BY <1>3 DEF giveUp, history
<1>5. m \in Queued /\ m \in accepted
  BY <1>2, <1>3 DEF OrderlyInv, RobustInv, CountsFailures
<1>6. Queued' = Queued \ {m}
  BY <1>1, <1>3, <1>4, SpliceIds DEF OrderlyInv
<1>7. failures[m] = MaxRetries
  <2>1. failures[m] >= MaxRetries /\ failures[m] <= MaxRetries /\ failures[m] \in Nat
    BY <1>1, <1>3
    DEF OrderlyInv, RobustInv, QueueTypeOK, CountsFailures, FailsOnlyWhenExhausted
  <2>2. QED  BY <2>1, ConstantsAssumption
<1>8. onSuccess[m] = 0 /\ onError[m] = 0 /\ onError \in [Ids -> Nat]
  <2>1. onSuccess[m] \in Nat /\ onError[m] \in Nat /\ onError \in [Ids -> Nat]
    BY DEF OrderlyInv, RobustInv, QueueTypeOK
  <2>2. QED  BY <1>5, <2>1 DEF OrderlyInv, EndsOnce
<1>9. Fate(m) = "queued" /\ Fate(m)' = "failed"
  BY <1>4, <1>5, <1>6, <1>8 DEF Fate
<1>10. ASSUME NEW x \in Ids, x # m PROVE Fate(x)' = Fate(x)
  BY <1>4, <1>6, <1>8, <1>10 DEF Fate
<1>11. QED
  BY <1>4, <1>7, <1>9, <1>10 DEF Promise!GiveUp

LEMMA SendRefines ==
  ASSUME OrderlyInv, OrderlyInv', sendSucceeds
  PROVE  \E m \in Ids : Promise!Send(m)
<1>1. index \in DOMAIN messageQueue /\ messageQueue[index].id = item
  BY DEF sendSucceeds, OrderlyInv, RemovesSafely
<1>2. item \in Queued /\ item \in Ids
  BY <1>1, QueuedType DEF Queued, OrderlyInv, RobustInv
<1>3. PICK m \in Ids : m = item
  BY <1>2
<1>4. /\ messageQueue' = Splice(messageQueue, index)
      /\ onSuccess' = [onSuccess EXCEPT ![m] = @ + 1]
      /\ UNCHANGED <<accepted, removed, failures, onError>>
  BY <1>3 DEF sendSucceeds, history
<1>5. m \in Queued /\ m \in accepted
  BY <1>2, <1>3 DEF OrderlyInv, RobustInv, CountsFailures
<1>6. Queued' = Queued \ {m}
  BY <1>1, <1>3, <1>4, SpliceIds DEF OrderlyInv
<1>7. failures[m] < MaxRetries
  BY <1>3 DEF sendSucceeds, OrderlyInv, RobustInv, CountsFailures
<1>8. onSuccess \in [Ids -> Nat] /\ onSuccess[m] \in Nat
  BY DEF OrderlyInv, RobustInv, QueueTypeOK
<1>9. Fate(m) = "queued" /\ Fate(m)' = "sent"
  BY <1>4, <1>5, <1>6, <1>8 DEF Fate
<1>10. ASSUME NEW x \in Ids, x # m PROVE Fate(x)' = Fate(x)
  BY <1>4, <1>6, <1>8, <1>10 DEF Fate
<1>11. QED
  BY <1>4, <1>7, <1>9, <1>10 DEF Promise!Send

LEMMA FailRefines ==
  ASSUME OrderlyInv, OrderlyInv', sendThrows
  PROVE  \E m \in Ids : Promise!Fail(m)
<1>1. index \in DOMAIN messageQueue /\ messageQueue[index].id = item
  BY DEF sendThrows, OrderlyInv, RemovesSafely
<1>2. item \in Queued /\ item \in Ids
  BY <1>1, QueuedType DEF Queued, OrderlyInv, RobustInv
<1>3. PICK m \in Ids : m = item
  BY <1>2
<1>4. /\ failures' = [failures EXCEPT ![m] = @ + 1]
      /\ UNCHANGED <<accepted, removed, onSuccess, onError>>
  BY <1>3 DEF sendThrows, history
<1>5. Queued' = Queued
  <2>1. /\ DOMAIN messageQueue' = DOMAIN messageQueue
        /\ \A k \in DOMAIN messageQueue : messageQueue'[k].id = messageQueue[k].id
    BY DEF sendThrows, scheduleRetry
  <2>2. QED  BY <2>1 DEF Queued
<1>6. failures[m] < MaxRetries
  BY <1>3 DEF sendThrows, OrderlyInv, RobustInv, CountsFailures
<1>7. Fate(m) = "queued"
  BY <1>2, <1>3 DEF Fate, OrderlyInv, RobustInv, CountsFailures
<1>8. \A x \in Ids : Fate(x)' = Fate(x)
  BY <1>4, <1>5 DEF Fate
<1>9. QED
  BY <1>4, <1>6, <1>7, <1>8 DEF Promise!Fail

LEMMA DestroyRefines ==
  ASSUME OrderlyInv, OrderlyInv', destroy
  PROVE  \E S \in SUBSET Ids : Promise!Remove(S)
<1>1. /\ messageQueue' = <<>> /\ removed' = removed \cup Queued
      /\ UNCHANGED <<accepted, failures, onSuccess, onError>>
  BY DEF destroy, callerVars
<1>2. Queued' = {}
  BY <1>1 DEF Queued
<1>3. PICK S \in SUBSET Ids : S = Queued
  BY QueuedType DEF OrderlyInv, RobustInv
<1>4. \A m \in S : m \in accepted /\ onSuccess[m] = 0 /\ onError[m] = 0
  <2>1. TAKE m \in S
  <2>2. m \in accepted
    BY <1>3, <2>1 DEF OrderlyInv, RobustInv, CountsFailures
  <2>3. onSuccess[m] \in Nat /\ onError[m] \in Nat
    BY <2>1 DEF OrderlyInv, RobustInv, QueueTypeOK
  <2>4. QED  BY <1>3, <2>1, <2>2, <2>3 DEF OrderlyInv, EndsOnce
<1>5. \A m \in S : Fate(m) = "queued" /\ Fate(m)' = "removed"
  BY <1>1, <1>2, <1>3, <1>4 DEF Fate
<1>6. \A m \in Ids \ S : Fate(m)' = Fate(m)
  BY <1>1, <1>2, <1>3 DEF Fate
<1>7. Promise!Remove(S)
  BY <1>1, <1>5, <1>6 DEF Promise!Remove
<1>8. QED
  BY <1>7

(* Every other step changes no fate.                                       *)
LEMMA SameFates ==
  ASSUME UNCHANGED <<accepted, removed, failures, onSuccess, onError>>,
         Queued' = Queued
  PROVE  UNCHANGED Promise!vars
<1>1. \A m \in Ids : Fate(m)' = Fate(m)
  BY DEF Fate
<1>2. QED
  BY <1>1 DEF Promise!vars

LEMMA StepRefines ==
  ASSUME Undisturbed, OrderlyInv, OrderlyInv', [QueueNext]_retryQueueVars
  PROVE  [Promise!Next]_(Promise!vars)
<1>1. CASE start \/ beginPass \/ endPass \/ loopThrows \/ skipNotDue \/ send
  <2>1. UNCHANGED <<messageQueue, accepted, removed, failures, onSuccess, onError>>
    BY <1>1 DEF start, beginPass, endPass, loopThrows, skipNotDue, send,
           history, callerVars
  <2>2. QED  BY <2>1, SameFates DEF Queued
<1>2. CASE intervalFires \/ forceProcess
  <2>1. UNCHANGED <<messageQueue, accepted, removed, failures, onSuccess, onError>>
    BY <1>2 DEF intervalFires, forceProcess, beginPass, history, callerVars
  <2>2. QED  BY <2>1, SameFates DEF Queued
<1>3. CASE destroy
  BY <1>3, DestroyRefines DEF Promise!Next
<1>4. CASE \E m \in Ids : addMessage(m)
  BY <1>4, AddRefines DEF Promise!Next
<1>5. CASE \E r \in CleanupRooms : removeMessagesByRoom(r)
  <2>1. UNCHANGED retryQueueVars
    BY <1>5, RemoveByRoomKeepsAll DEF OrderlyInv
  <2>2. QED  BY <2>1, SameFates DEF retryQueueVars, Queued
<1>6. CASE tick
  <2>1. \A k \in DOMAIN messageQueue : messageQueue[k] \in Entry
    BY QueuedType DEF OrderlyInv, RobustInv
  <2>2. /\ DOMAIN messageQueue' = DOMAIN messageQueue
        /\ \A k \in DOMAIN messageQueue : messageQueue'[k].id = messageQueue[k].id
    BY <1>6, <2>1 DEF tick, Entry
  <2>3. Queued' = Queued
    BY <2>2 DEF Queued
  <2>4. QED  BY <1>6, <2>3, SameFates DEF tick, history, callerVars
<1>7. CASE giveUp
  BY <1>7, GiveUpRefines DEF Promise!Next
<1>8. CASE sendSucceeds
  BY <1>8, SendRefines DEF Promise!Next
<1>9. CASE sendThrows
  BY <1>9, FailRefines DEF Promise!Next
<1>10. CASE UNCHANGED retryQueueVars
  BY <1>10, SameFates DEF retryQueueVars, Queued
<1>11. QED
  BY <1>1, <1>2, <1>3, <1>4, <1>5, <1>6, <1>7, <1>8, <1>9, <1>10 DEF QueueNext,
         loopStep

(* The queue keeps the promise: it implements RetryPromise.                *)
THEOREM QueueKeepsPromise == Undisturbed => (QueueSpec => KeepsPromise)
<1> SUFFICES ASSUME Undisturbed PROVE QueueSpec => KeepsPromise
  OBVIOUS
<1>1. QueueInit => Promise!Init
  BY InitFates
<1>2. OrderlyInv /\ OrderlyInv' /\ [QueueNext]_retryQueueVars => [Promise!Next]_(Promise!vars)
  BY StepRefines
<1>3. QED
  BY <1>1, <1>2, Orderly, PTL DEF QueueSpec, KeepsPromise, Promise!Spec
-----------------------------------------------------------------------------
(***************************************************************************)
(* Outbox, for any messages, servers and bounds.                           *)
(***************************************************************************)

(* The types, in parts.                                                    *)
RowsTyped ==
    /\ created \subseteq Msgs /\ status \in [Msgs -> MessageStatus]
    /\ rowId \in [Msgs -> Nat] /\ old \in [Msgs -> BOOLEAN]
ChainTyped ==
    chain \in Seq(Op) /\ step \in {"ready", "emitted", "renamed", "resolved"}
QueueTyped ==
    /\ parked \subseteq Msgs /\ tries \in [Msgs -> Nat] /\ flight \subseteq Msgs
    /\ landing \subseteq [msg : Msgs, id : Nat]
SyncTyped ==
    /\ connected \subseteq Servers
    /\ sync \in [Servers -> {"idle", "syncing", "retrying"}]
    /\ stuck \in [Servers -> SUBSET [msg : Msgs, id : Nat]]
NetTyped ==
    /\ answer \in [Paths -> Answer] /\ copies \in [Msgs -> Nat]
    /\ reached \subseteq Msgs /\ restarts \in Nat

(* An operation that has begun is at the head of the chain. A receipt that *)
(* was resolved still raises the status of its row when it is applied: all *)
(* that others write in between is below DELIVERED.                        *)
AtHead ==
    /\ step # "ready" => chain # <<>>
    /\ step \in {"emitted", "renamed"} => op.kind \in {"send", "retry"}
    /\ step = "renamed" => answer["chain"].is = "accepted"
    /\ answer["chain"].is # "none" => step \in {"emitted", "renamed"}
    /\ step = "resolved" => op.kind = "receipt" /\ status[op.msg] <= op.st

(* The queue awaits one send at a time, and the copy an answer names is    *)
(* one that a server made.                                                 *)
AnswerIsReal ==
    /\ \A m, n \in flight : m = n
    /\ answer["chain"].is = "accepted" => answer["chain"].copy <= copies[op.msg]
    /\ answer["queue"].is = "accepted" =>
          \A m \in flight : answer["queue"].copy <= copies[m]

OutboxIInv ==
    /\ RowsTyped /\ ChainTyped /\ QueueTyped /\ SyncTyped /\ NetTyped
    /\ AtHead /\ RowIdIsReal /\ AnswerIsReal

(* What says that a message was accepted says so of one that was: a shown  *)
(* status, an acknowledgement that is awaited or lands, and a receipt.     *)
AcceptedIsReached ==
    /\ SentMeansAccepted
    /\ answer["chain"].is = "accepted" => op.msg \in reached
    /\ answer["queue"].is = "accepted" => flight \subseteq reached
    /\ \A l \in landing : l.msg \in reached
    /\ \A k \in DOMAIN chain : chain[k].kind = "receipt" => chain[k].msg \in reached

-----------------------------------------------------------------------------
(* What the operators of the chain and of the table return.                *)
LEMMA OpFields ==
    ASSUME NEW o \in Op
    PROVE  /\ o.msg \in Msgs /\ o.id \in Nat /\ o.kind \in {"send", "retry", "receipt"}
           /\ o.kind = "receipt" => o.st \in {DELIVERED, READ}
BY DEF Op, SendOps, RetryOps, ReceiptOps

LEMMA Running ==
    ASSUME ChainTyped, chain # <<>>
    PROVE  /\ op \in Op /\ op.msg \in Msgs /\ op.id \in Nat
           /\ op.kind = "receipt" => op.st \in {DELIVERED, READ}
<1>1. chain \in Seq(Op)
  BY DEF ChainTyped
<1>2. op \in Op
  BY <1>1 DEF op
<1>3. QED  BY <1>2, OpFields

LEMMA Appended ==
    ASSUME NEW q \in Seq(Op), NEW o \in Op
    PROVE  /\ Append(q, o) \in Seq(Op) /\ Append(q, o) # <<>>
           /\ q # <<>> => Head(Append(q, o)) = Head(q)
           /\ \A k \in DOMAIN Append(q, o) :
                 Append(q, o)[k] = o \/ (k \in DOMAIN q /\ Append(q, o)[k] = q[k])
<1>1. /\ Append(q, o) \in Seq(Op) /\ Len(Append(q, o)) = Len(q) + 1
      /\ \A k \in 1..Len(q) : Append(q, o)[k] = q[k]
      /\ Append(q, o)[Len(q) + 1] = o
  OBVIOUS
<1>2. Append(q, o) # <<>> /\ (q # <<>> => Head(Append(q, o)) = Head(q))
  BY <1>1
<1>3. ASSUME NEW k \in DOMAIN Append(q, o)
      PROVE  Append(q, o)[k] = o \/ (k \in DOMAIN q /\ Append(q, o)[k] = q[k])
  <2>1. k \in 1..Len(q) \/ k = Len(q) + 1
    BY <1>1
  <2>2. QED  BY <1>1, <2>1
<1>4. QED  BY <1>1, <1>2, <1>3

LEMMA Tailed ==
    ASSUME NEW q \in Seq(Op), q # <<>>
    PROVE  /\ Tail(q) \in Seq(Op)
           /\ \A k \in DOMAIN Tail(q) : k + 1 \in DOMAIN q /\ Tail(q)[k] = q[k + 1]
OBVIOUS

LEMMA StatusNames ==
    /\ MessageStatus = -2..4 /\ {UNDELIVERED, FAILED, PENDING} = {-2, -1, 0}
    /\ UNDELIVERED = -2 /\ FAILED = -1 /\ PENDING = 0
    /\ SENDING = 1 /\ SENT = 2 /\ DELIVERED = 3 /\ READ = 4
BY DEF MessageStatus, UNDELIVERED, FAILED, PENDING, SENDING, SENT, DELIVERED,
       READ

LEMMA Written ==
    ASSUME RowsTyped, NEW m \in Msgs, NEW id, NEW st \in MessageStatus,
           updateStatus(m, id, st)
    PROVE  /\ status' \in [Msgs -> MessageStatus]
           /\ \A n \in Msgs : status'[n] = status[n] \/ (n = m /\ status'[n] = st)
           /\ status'[m] = IF rowId[m] = id THEN st ELSE status[m]
BY DEF RowsTyped, updateStatus

LEMMA Acknowledged ==
    ASSUME RowsTyped, NEW m \in Msgs, NEW id, acknowledge(m, id)
    PROVE  /\ status' \in [Msgs -> MessageStatus]
           /\ \A n \in Msgs : status'[n] = status[n]
                                \/ (n = m /\ status'[n] \in {UNDELIVERED, SENT})
<1>1. PICK delivered \in BOOLEAN : updateStatus(m, id, effectiveStatus(m, delivered))
  BY DEF acknowledge
<1>2. effectiveStatus(m, delivered) \in {UNDELIVERED, SENT}
  BY DEF effectiveStatus
<1>3. effectiveStatus(m, delivered) \in MessageStatus
  BY <1>2, StatusNames
<1>4. QED  BY <1>1, <1>2, <1>3, Written

LEMMA Renamed ==
    ASSUME RowsTyped, NEW m \in Msgs, NEW id, NEW copy \in Nat, replaceId(m, id, copy)
    PROVE  /\ rowId' \in [Msgs -> Nat]
           /\ \A n \in Msgs : rowId'[n] = rowId[n]
                                \/ (n = m /\ rowId[n] = id /\ rowId'[n] = copy)
BY DEF RowsTyped, replaceId

-----------------------------------------------------------------------------
(* An operation that ends leaves nothing at the head that has begun.       *)
LEMMA Finished ==
    ASSUME OutboxIInv, chain # <<>>, Finish,
           UNCHANGED <<flight, landing, copies>>
    PROVE  /\ ChainTyped' /\ AtHead' /\ AnswerIsReal'
           /\ answer' \in [Paths -> Answer]
           /\ answer'["chain"].is = "none" /\ answer'["queue"] = answer["queue"]
<1>1. answer' \in [Paths -> Answer]
  BY DEF OutboxIInv, NetTyped, Finish, NoAnswer, Answer, Paths
<1>2. answer'["chain"].is = "none" /\ answer'["queue"] = answer["queue"]
  BY DEF OutboxIInv, NetTyped, Finish, NoAnswer, Paths
<1>3. ChainTyped'
  BY Tailed DEF OutboxIInv, ChainTyped, Finish
<1>4. AtHead'
  BY <1>2 DEF AtHead, Finish
<1>5. AnswerIsReal'
  BY <1>2 DEF OutboxIInv, AnswerIsReal
<1>6. QED  BY <1>1, <1>2, <1>3, <1>4, <1>5

(* Operations that end and write nothing but a status.                     *)
LEMMA FinishKeeps ==
    ASSUME OutboxIInv, chain # <<>>, Finish,
           UNCHANGED <<created, rowId, old, queueVars, syncVars, sentVars, restarts>>,
           status' \in [Msgs -> MessageStatus]
    PROVE  OutboxIInv'
<1>1. UNCHANGED <<flight, landing, copies>>
  BY DEF queueVars, sentVars
<1>2. /\ ChainTyped' /\ AtHead' /\ AnswerIsReal' /\ answer' \in [Paths -> Answer]
  BY <1>1, Finished
<1>3. RowsTyped' /\ QueueTyped' /\ SyncTyped'
  BY DEF OutboxIInv, RowsTyped, QueueTyped, SyncTyped, queueVars, syncVars
<1>4. NetTyped' /\ RowIdIsReal'
  BY <1>2 DEF OutboxIInv, NetTyped, RowIdIsReal, sentVars
<1>5. QED  BY <1>2, <1>3, <1>4 DEF OutboxIInv

(* An operation that joins the chain, with or without a row of its own.    *)
LEMMA JoinKeeps ==
    ASSUME OutboxIInv, NEW o \in Op, chain' = Append(chain, o),
           UNCHANGED <<rowId, old, step, queueVars, netVars, restarts>>,
           created' \subseteq Msgs, SyncTyped',
           \/ UNCHANGED status
           \/ \E m \in Msgs : status' = [status EXCEPT ![m] = SENDING]
    PROVE  OutboxIInv'
<1>1. /\ chain' \in Seq(Op) /\ chain' # <<>>
      /\ chain # <<>> => Head(chain') = Head(chain)
  BY Appended DEF OutboxIInv, ChainTyped
<1>2. status' \in [Msgs -> MessageStatus]
  BY StatusNames DEF OutboxIInv, RowsTyped
<1>3. \A n \in Msgs : status'[n] = status[n] \/ status'[n] = 1
  BY StatusNames DEF OutboxIInv, RowsTyped
<1>4. RowsTyped' /\ ChainTyped' /\ QueueTyped' /\ NetTyped' /\ RowIdIsReal'
  BY <1>1, <1>2 DEF OutboxIInv, RowsTyped, ChainTyped, QueueTyped, NetTyped,
         RowIdIsReal,
         queueVars, netVars, sentVars
<1>5. chain # <<>> => op' = op /\ op.msg \in Msgs
  BY <1>1, Running DEF op, OutboxIInv
<1>6. AtHead'
  <2>1. ASSUME step = "resolved"
        PROVE  op'.kind = "receipt" /\ status'[op'.msg] <= op'.st
    <3>1. /\ chain # <<>> /\ op' = op /\ op.kind = "receipt" /\ op.msg \in Msgs
          /\ status[op.msg] <= op.st /\ op.st \in {3, 4}
      BY <2>1, <1>5, Running, StatusNames DEF OutboxIInv, AtHead
    <3>2. QED  BY <3>1, <1>3
  <2>2. QED
    BY <2>1, <1>1, <1>5 DEF OutboxIInv, AtHead, netVars
<1>7. AnswerIsReal'
  <2>1. answer["chain"].is = "accepted" => chain # <<>>
    BY DEF OutboxIInv, AtHead
  <2>2. QED
    BY <2>1, <1>5 DEF OutboxIInv, AnswerIsReal, queueVars, netVars, sentVars
<1>8. QED  BY <1>4, <1>6, <1>7 DEF OutboxIInv

(* Steps beside the chain, which write no status above DELIVERED.          *)
LEMMA BesideKeeps ==
    ASSUME OutboxIInv, UNCHANGED <<chain, step>>,
           answer'["chain"] = answer["chain"],
           RowsTyped', QueueTyped', SyncTyped', NetTyped', RowIdIsReal', AnswerIsReal',
           \A n \in Msgs : status'[n] = status[n] \/ status'[n] <= DELIVERED
    PROVE  OutboxIInv'
<1>1. ChainTyped'
  BY DEF OutboxIInv, ChainTyped
<1>2. op' = op
  BY DEF op
<1>3. AtHead'
  <2>1. ASSUME step = "resolved"
        PROVE  status'[op.msg] <= op.st
    <3>1. /\ op.msg \in Msgs /\ status[op.msg] <= op.st /\ op.st \in {3, 4}
      BY <2>1, Running, StatusNames DEF OutboxIInv, AtHead
    <3>2. status'[op.msg] \in -2..4 /\ DELIVERED = 3
      BY <3>1, StatusNames DEF RowsTyped
    <3>3. QED  BY <3>1, <3>2
  <2>2. QED  BY <2>1, <1>2 DEF OutboxIInv, AtHead
<1>4. QED  BY <1>1, <1>3 DEF OutboxIInv

-----------------------------------------------------------------------------
(* The steps of the chain.                                                 *)
LEMMA ChainKeeps ==
    ASSUME OutboxIInv, chainStep
    PROVE  OutboxIInv'
<1> USE DEF OutboxIInv
<1>0. chain # <<>>
  BY DEF chainStep, emitSend, sendMessage, emit, sendFails, sendParks,
         sendTimesOut, retryFails,
         sendAcknowledged, sendRenames, renamedAcknowledged, resolveReceipt,
         applyReceipt, Sending, Receipt
<1>1. PICK m \in Msgs, i \in Nat : op.msg = m /\ op.id = i
  BY <1>0, Running
<1>2. CASE emitSend
  <2>1. answer' \in [Paths -> Answer] /\ answer'["queue"] = answer["queue"]
        /\ answer'["chain"] = Pending
    BY <1>2 DEF emitSend, sendMessage, emit, NetTyped, Paths, Answer, Pending
  <2>2. /\ UNCHANGED <<rowVars, chain, queueVars, syncVars, sentVars, restarts>>
        /\ step = "ready" /\ step' = "emitted" /\ op.kind \in {"send", "retry"}
    BY <1>2 DEF emitSend, sendMessage, emit, Sending
  <2>3. RowsTyped' /\ ChainTyped' /\ QueueTyped' /\ SyncTyped'
    BY <2>2 DEF RowsTyped, ChainTyped, QueueTyped, SyncTyped, rowVars,
           queueVars, syncVars
  <2>4. NetTyped' /\ RowIdIsReal'
    BY <2>1, <2>2 DEF NetTyped, RowIdIsReal, sentVars, rowVars
  <2>5. AtHead'
    BY <1>0, <2>1, <2>2 DEF AtHead, op
  <2>6. AnswerIsReal'
    BY <2>1, <2>2 DEF AnswerIsReal, Pending, queueVars, sentVars
  <2>7. QED  BY <2>3, <2>4, <2>5, <2>6
<1>3. CASE sendFails \/ retryFails
  <2>1. updateStatus(m, i, FAILED)
    BY <1>1, <1>3 DEF sendFails, retryFails
  <2>2. status' \in [Msgs -> MessageStatus]
    BY <2>1, Written, StatusNames
  <2>3. QED
    BY <1>0, <1>3, <2>2, FinishKeeps DEF sendFails, retryFails
<1>4. CASE sendParks
  <2>1. /\ UNCHANGED <<rowVars, flight, landing, syncVars, sentVars, restarts>>
        /\ Finish /\ parked' = parked \cup {m} /\ tries' = [tries EXCEPT ![m] = 0]
    BY <1>1, <1>4 DEF sendParks
  <2>2. /\ ChainTyped' /\ AtHead' /\ AnswerIsReal' /\ answer' \in [Paths -> Answer]
    BY <1>0, <2>1, Finished DEF sentVars
  <2>3. RowsTyped' /\ QueueTyped' /\ SyncTyped'
    BY <2>1 DEF RowsTyped, QueueTyped, SyncTyped, rowVars, syncVars
  <2>4. NetTyped' /\ RowIdIsReal'
    BY <2>1, <2>2 DEF NetTyped, RowIdIsReal, rowVars, sentVars
  <2>5. QED  BY <2>2, <2>3, <2>4
<1>5. CASE sendTimesOut
  BY <1>0, <1>5, FinishKeeps DEF sendTimesOut, rowVars, RowsTyped
<1>6. CASE sendAcknowledged
  <2>1. acknowledge(m, i)
    BY <1>1, <1>6 DEF sendAcknowledged
  <2>2. QED
    BY <1>0, <1>6, <2>1, Acknowledged, FinishKeeps DEF sendAcknowledged
<1>7. CASE sendRenames
  <2>1. PICK c \in Nat : answer["chain"].copy = c
    BY DEF NetTyped, Paths, Answer
  <2>2. /\ replaceId(m, i, c) /\ step = "emitted" /\ step' = "renamed"
        /\ answer["chain"].is = "accepted" /\ m \in Group /\ c <= copies[m]
        /\ UNCHANGED <<created, status, old, chain, queueVars, syncVars, netVars, restarts>>
    BY <1>1, <1>7, <2>1 DEF sendRenames, Sending, Renames, AnswerIsReal
  <2>3. /\ rowId' \in [Msgs -> Nat]
        /\ \A n \in Msgs : rowId'[n] = rowId[n] \/ (n = m /\ rowId'[n] = c)
    BY <2>2, Renamed
  <2>4. RowsTyped' /\ ChainTyped' /\ QueueTyped' /\ SyncTyped' /\ NetTyped'
    BY <2>2, <2>3 DEF RowsTyped, ChainTyped, QueueTyped, SyncTyped, NetTyped,
           queueVars, syncVars, netVars, sentVars
  <2>5. RowIdIsReal'
    BY <2>2, <2>3 DEF RowIdIsReal, netVars, sentVars
  <2>6. AtHead' /\ AnswerIsReal'
    BY <2>2 DEF AtHead, AnswerIsReal, op, queueVars, netVars, sentVars
  <2>7. QED  BY <2>4, <2>5, <2>6
<1>8. CASE renamedAcknowledged
  <2>1. PICK c \in Nat : answer["chain"].copy = c
    BY DEF NetTyped, Paths, Answer
  <2>2. acknowledge(m, c)
    BY <1>1, <1>8, <2>1 DEF renamedAcknowledged
  <2>3. QED
    BY <1>0, <1>8, <2>2, Acknowledged, FinishKeeps DEF renamedAcknowledged
<1>9. CASE resolveReceipt
  <2>1. CASE Finish
    BY <1>0, <1>9, <2>1, FinishKeeps DEF resolveReceipt, rowVars, RowsTyped
  <2>2. CASE ~Finish
    <3>1. /\ op.kind = "receipt" /\ step = "ready" /\ step' = "resolved"
          /\ Advances(status[m])
          /\ UNCHANGED <<rowVars, chain, answer, queueVars, syncVars, sentVars, restarts>>
      BY <1>1, <1>9, <2>2 DEF resolveReceipt, Receipt
    <3>2. status[m] <= op.st
      <4>1. op.st \in {3, 4} /\ status[m] \in -2..4
        BY <1>0, <3>1, Running, StatusNames DEF RowsTyped
      <4>2. QED  BY <3>1, <4>1, StatusNames DEF Advances
    <3>3. RowsTyped' /\ ChainTyped' /\ QueueTyped' /\ SyncTyped' /\ NetTyped'
      BY <3>1 DEF RowsTyped, ChainTyped, QueueTyped, SyncTyped, NetTyped,
             rowVars, queueVars, syncVars, sentVars
    <3>4. RowIdIsReal' /\ AnswerIsReal'
      BY <3>1 DEF RowIdIsReal, AnswerIsReal, op, rowVars, queueVars, sentVars
    <3>5. AtHead'
      BY <1>0, <1>1, <3>1, <3>2 DEF AtHead, op, rowVars
    <3>6. QED  BY <3>3, <3>4, <3>5
  <2>3. QED  BY <2>1, <2>2
<1>10. CASE applyReceipt
  <2>1. PICK st \in MessageStatus : op.st = st
    BY <1>0, <1>10, Running, StatusNames DEF applyReceipt, Receipt
  <2>2. updateStatus(m, i, st)
    BY <1>1, <1>10, <2>1 DEF applyReceipt
  <2>3. QED
    BY <1>0, <1>10, <2>2, Written, FinishKeeps DEF applyReceipt
<1>11. QED
  BY <1>2, <1>3, <1>4, <1>5, <1>6, <1>7, <1>8, <1>9, <1>10 DEF chainStep

-----------------------------------------------------------------------------
(* The steps beside the chain: the retry queue ...                         *)
LEMMA QueueKeeps ==
    ASSUME OutboxIInv, queueStep \/ onSuccessLands
    PROVE  OutboxIInv'
<1> USE DEF OutboxIInv
<1>1. ASSUME NEW m \in Msgs, queueSends(m)
      PROVE  OutboxIInv'
  <2>1. /\ UNCHANGED <<rowVars, chain, step, parked, landing, syncVars, sentVars, restarts>>
        /\ flight = {} /\ flight' \in {{}, {m}} /\ tries' \in [Msgs -> Nat]
        /\ answer' \in [Paths -> Answer] /\ answer'["chain"] = answer["chain"]
        /\ answer'["queue"].is = "accepted" => flight' = flight
    BY <1>1 DEF queueSends, sendMessage, emit, QueueTyped, NetTyped, Paths,
           Answer, Pending
  <2>2. RowsTyped' /\ QueueTyped' /\ SyncTyped' /\ NetTyped' /\ RowIdIsReal'
    BY <2>1 DEF RowsTyped, QueueTyped, SyncTyped, NetTyped, RowIdIsReal,
           rowVars,
           syncVars, sentVars
  <2>3. AnswerIsReal'
    BY <2>1 DEF AnswerIsReal, op, sentVars
  <2>4. QED  BY <2>1, <2>2, <2>3, BesideKeeps DEF rowVars
<1>2. ASSUME NEW m \in Msgs, queueOnError(m)
      PROVE  OutboxIInv'
  <2>1. /\ UNCHANGED <<created, rowId, old, chain, step, tries, flight, landing,
                       syncVars, netVars, restarts>>
        /\ parked' \subseteq Msgs /\ updateStatus(m, 0, FAILED)
    BY <1>2 DEF queueOnError, QueueTyped
  <2>2. /\ status' \in [Msgs -> MessageStatus]
        /\ \A n \in Msgs : status'[n] = status[n] \/ status'[n] <= DELIVERED
    BY <2>1, Written, StatusNames
  <2>3. RowsTyped' /\ QueueTyped' /\ SyncTyped' /\ NetTyped' /\ RowIdIsReal'
    BY <2>1, <2>2 DEF RowsTyped, QueueTyped, SyncTyped, NetTyped, RowIdIsReal,
           syncVars, netVars, sentVars
  <2>4. AnswerIsReal'
    BY <2>1 DEF AnswerIsReal, op, netVars, sentVars
  <2>5. QED  BY <2>1, <2>2, <2>3, <2>4, BesideKeeps DEF netVars
<1>3. CASE queueSendFails
  <2>1. /\ UNCHANGED <<rowVars, chain, step, parked, landing, syncVars, sentVars, restarts>>
        /\ flight' = {} /\ tries' \in [Msgs -> Nat]
        /\ answer' \in [Paths -> Answer] /\ answer'["chain"] = answer["chain"]
    BY <1>3 DEF queueSendFails, QueueTyped, NetTyped, Paths, Answer, NoAnswer
  <2>2. RowsTyped' /\ QueueTyped' /\ SyncTyped' /\ NetTyped' /\ RowIdIsReal'
    BY <2>1 DEF RowsTyped, QueueTyped, SyncTyped, NetTyped, RowIdIsReal,
           rowVars,
           syncVars, sentVars
  <2>3. AnswerIsReal'
    BY <2>1 DEF AnswerIsReal, op, sentVars
  <2>4. QED  BY <2>1, <2>2, <2>3, BesideKeeps DEF rowVars
<1>4. CASE queueOnSuccess
  <2>1. PICK m \in flight :
          /\ parked' = parked \ {m}
          /\ IF m \in Group
             THEN /\ replaceId(m, 0, answer["queue"].copy)
                  /\ landing' = landing \cup {[msg |-> m, id |-> answer["queue"].copy]}
                  /\ UNCHANGED status
             ELSE acknowledge(m, 0) /\ UNCHANGED <<rowId, landing>>
    BY <1>4 DEF queueOnSuccess
  <2>2. PICK c \in Nat : answer["queue"].copy = c
    BY DEF NetTyped, Paths, Answer
  <2>3. /\ UNCHANGED <<created, old, chain, step, tries, syncVars, sentVars, restarts>>
        /\ flight' = {} /\ answer["queue"].is = "accepted"
        /\ answer' \in [Paths -> Answer] /\ answer'["chain"] = answer["chain"]
    BY <1>4 DEF queueOnSuccess, NetTyped, Paths, Answer, NoAnswer
  <2>4. m \in Msgs /\ c <= copies[m]
    BY <2>2, <2>3 DEF QueueTyped, AnswerIsReal
  <2>5. /\ status' \in [Msgs -> MessageStatus] /\ rowId' \in [Msgs -> Nat]
        /\ landing' \subseteq [msg : Msgs, id : Nat]
        /\ \A n \in Msgs : status'[n] = status[n] \/ status'[n] <= DELIVERED
        /\ RowIdIsReal'
    <3>1. CASE m \in Group
      <4>1. replaceId(m, 0, c)
        BY <2>1, <2>2, <3>1
      <4>2. /\ rowId' \in [Msgs -> Nat]
            /\ \A n \in Msgs : rowId'[n] = rowId[n] \/ (n = m /\ rowId'[n] = c)
        BY <2>4, <4>1, Renamed
      <4>3. RowIdIsReal'
        BY <2>3, <2>4, <3>1, <4>2 DEF RowIdIsReal, sentVars
      <4>4. landing' \subseteq [msg : Msgs, id : Nat]
        BY <2>1, <2>2, <2>4, <3>1 DEF QueueTyped
      <4>5. QED  BY <2>1, <3>1, <4>2, <4>3, <4>4 DEF RowsTyped
    <3>2. CASE m \notin Group
      <4>1. acknowledge(m, 0)
        BY <2>1, <3>2
      <4>2. /\ status' \in [Msgs -> MessageStatus]
            /\ \A n \in Msgs : status'[n] = status[n] \/ status'[n] <= DELIVERED
        BY <2>4, <4>1, Acknowledged, StatusNames
      <4>3. QED
        BY <2>1, <2>3, <3>2, <4>2 DEF RowsTyped, QueueTyped, RowIdIsReal,
               sentVars
    <3>3. QED  BY <3>1, <3>2
  <2>6. RowsTyped' /\ QueueTyped' /\ SyncTyped' /\ NetTyped'
    BY <2>1, <2>3, <2>5 DEF RowsTyped, QueueTyped, SyncTyped, NetTyped,
           syncVars, sentVars
  <2>7. AnswerIsReal'
    <3>1. answer'["queue"].is = "none"
      BY <1>4 DEF queueOnSuccess, NetTyped, Paths, NoAnswer
    <3>2. QED  BY <2>3, <3>1 DEF AnswerIsReal, op, sentVars
  <2>8. QED  BY <2>3, <2>5, <2>6, <2>7, BesideKeeps
<1>5. CASE onSuccessLands
  <2>1. PICK l \in landing : acknowledge(l.msg, l.id) /\ landing' = landing \ {l}
    BY <1>5 DEF onSuccessLands
  <2>2. UNCHANGED <<created, rowId, old, chain, step, parked, tries, flight,
                    syncVars, netVars, restarts>>
    BY <1>5 DEF onSuccessLands
  <2>3. PICK m \in Msgs, i \in Nat : l.msg = m /\ l.id = i
    BY DEF QueueTyped
  <2>4. /\ status' \in [Msgs -> MessageStatus]
        /\ \A n \in Msgs : status'[n] = status[n] \/ status'[n] <= DELIVERED
    BY <2>1, <2>3, Acknowledged, StatusNames
  <2>5. RowsTyped' /\ QueueTyped' /\ SyncTyped' /\ NetTyped' /\ RowIdIsReal'
    BY <2>1, <2>2, <2>4 DEF RowsTyped, QueueTyped, SyncTyped, NetTyped,
           RowIdIsReal,
           syncVars, netVars, sentVars
  <2>6. AnswerIsReal'
    BY <2>2 DEF AnswerIsReal, op, netVars, sentVars
  <2>7. QED  BY <2>2, <2>4, <2>5, <2>6, BesideKeeps DEF netVars
<1>6. QED
  BY <1>1, <1>2, <1>3, <1>4, <1>5 DEF queueStep

(* ... the sockets, onConnected, and the passing of time ...               *)
LEMMA SyncKeeps ==
    ASSUME OutboxIInv, NEW s \in Servers, connect(s) \/ disconnect(s) \/ syncStep(s)
    PROVE  OutboxIInv'
<1> USE DEF OutboxIInv
<1>1. CASE connect(s) \/ disconnect(s) \/ retrySendingMessages(s) \/ endOnConnected(s)
  <2>1. UNCHANGED <<rowVars, chain, step, queueVars, netVars, restarts>>
    BY <1>1 DEF connect, disconnect, retrySendingMessages, endOnConnected
  <2>2. SyncTyped'
    <3>1. {[msg |-> m, id |-> rowId[m]] : m \in findStuckSending}
              \subseteq [msg : Msgs, id : Nat]
      BY DEF findStuckSending, RowsTyped
    <3>2. QED
      BY <1>1, <3>1 DEF connect, disconnect, retrySendingMessages,
             endOnConnected, SyncTyped
  <2>3. RowsTyped' /\ QueueTyped' /\ NetTyped' /\ RowIdIsReal'
    BY <2>1 DEF RowsTyped, QueueTyped, NetTyped, RowIdIsReal, rowVars,
           queueVars,
           netVars, sentVars
  <2>4. AnswerIsReal'
    BY <2>1 DEF AnswerIsReal, op, queueVars, netVars, sentVars
  <2>5. QED  BY <2>1, <2>2, <2>3, <2>4, BesideKeeps DEF rowVars, netVars
<1>2. CASE retryMessageSend(s)
  <2>1. PICK r \in stuck[s] :
          /\ stuck' = [stuck EXCEPT ![s] = @ \ {r}]
          /\ chain' = Append(chain, [kind |-> "retry", msg |-> r.msg, id |-> r.id, by |-> s])
    BY <1>2 DEF retryMessageSend
  <2>2. r.msg \in Msgs /\ r.id \in Nat
    BY DEF SyncTyped
  <2>3. [kind |-> "retry", msg |-> r.msg, id |-> r.id, by |-> s] \in Op
    BY <2>2 DEF Op, RetryOps
  <2>4. /\ UNCHANGED <<rowVars, step, queueVars, netVars, restarts>> /\ SyncTyped'
    BY <1>2, <2>1 DEF retryMessageSend, SyncTyped
  <2>5. QED  BY <2>1, <2>3, <2>4, JoinKeeps DEF rowVars, RowsTyped
<1>3. QED  BY <1>1, <1>2 DEF syncStep

(* ... messages and receipts that join the chain ...                       *)
LEMMA ArrivalKeeps ==
    ASSUME OutboxIInv, NEW m \in Msgs,
           \/ sendEnvelope(m) \/ age(m)
           \/ \E id \in 0..MaxCopies, st \in {DELIVERED, READ} : receiveReceipt(m, id, st)
    PROVE  OutboxIInv'
<1> USE DEF OutboxIInv
<1>1. CASE sendEnvelope(m)
  <2>1. [kind |-> "send", msg |-> m, id |-> 0] \in Op
    BY DEF Op, SendOps
  <2>2. /\ UNCHANGED <<rowId, old, step, queueVars, syncVars, netVars, restarts>>
        /\ chain' = Append(chain, [kind |-> "send", msg |-> m, id |-> 0])
        /\ created' \subseteq Msgs /\ status' = [status EXCEPT ![m] = SENDING]
    BY <1>1 DEF sendEnvelope, RowsTyped
  <2>3. SyncTyped'
    BY <2>2 DEF SyncTyped, syncVars
  <2>4. QED  BY <2>1, <2>2, <2>3, JoinKeeps
<1>2. CASE age(m)
  <2>1. /\ UNCHANGED <<created, status, rowId, chain, step, queueVars, syncVars,
                       netVars, restarts>>
        /\ old' \in [Msgs -> BOOLEAN]
    BY <1>2 DEF age, RowsTyped
  <2>2. RowsTyped' /\ QueueTyped' /\ SyncTyped' /\ NetTyped' /\ RowIdIsReal'
    BY <2>1 DEF RowsTyped, QueueTyped, SyncTyped, NetTyped, RowIdIsReal,
           queueVars,
           syncVars, netVars, sentVars
  <2>3. AnswerIsReal'
    BY <2>1 DEF AnswerIsReal, op, queueVars, netVars, sentVars
  <2>4. QED  BY <2>1, <2>2, <2>3, BesideKeeps DEF netVars
<1>3. ASSUME NEW id \in 0..MaxCopies, NEW st \in {DELIVERED, READ}, receiveReceipt(m, id, st)
      PROVE  OutboxIInv'
  <2>1. id \in Nat
    BY OutboxAssumption
  <2>2. [kind |-> "receipt", msg |-> m, id |-> id, st |-> st] \in Op
    BY <2>1 DEF Op, ReceiptOps
  <2>3. /\ UNCHANGED <<rowVars, step, queueVars, syncVars, netVars, restarts>>
        /\ chain' = Append(chain, [kind |-> "receipt", msg |-> m, id |-> id, st |-> st])
    BY <1>3 DEF receiveReceipt
  <2>4. SyncTyped'
    BY <2>3 DEF SyncTyped, syncVars
  <2>5. QED  BY <2>2, <2>3, <2>4, JoinKeeps DEF rowVars, RowsTyped
<1>4. QED  BY <1>1, <1>2, <1>3

(* ... the servers' answers ...                                            *)
LEMMA AnswerKeeps ==
    ASSUME OutboxIInv, NEW p \in Paths, serverAccepts(p) \/ serverRejects(p)
    PROVE  OutboxIInv'
<1> USE DEF OutboxIInv
<1>1. CASE serverAccepts(p)
  <2>1. PICK m \in Awaited(p) :
          /\ copies' = [copies EXCEPT ![m] = @ + 1]
          /\ reached' = IF Asked(p, m) = ServerOf[m] THEN reached \cup {m} ELSE reached
          /\ answer' = [answer EXCEPT ![p] = [is |-> "accepted", copy |-> copies[m] + 1]]
    BY <1>1 DEF serverAccepts
  <2>2. /\ UNCHANGED <<rowVars, chain, step, queueVars, syncVars, restarts>>
        /\ answer[p].is = "pending"
    BY <1>1 DEF serverAccepts
  <2>3. m \in Msgs /\ (p = "chain" => chain # <<>> /\ m = op.msg) /\ (p = "queue" => m \in flight)
    <3>1. CASE p = "chain"
      <4>1. chain # <<>>
        BY <2>2, <3>1 DEF AtHead
      <4>2. QED  BY <3>1, <4>1, Running DEF Awaited
    <3>2. CASE p = "queue"
      BY <3>2 DEF Awaited, QueueTyped
    <3>3. QED  BY <3>1, <3>2 DEF Paths
  <2>4. /\ copies' \in [Msgs -> Nat] /\ copies'[m] = copies[m] + 1
        /\ \A n \in Msgs : copies[n] <= copies'[n] /\ copies[n] \in Nat
    BY <2>1, <2>3 DEF NetTyped
  <2>5. NetTyped'
    <3>1. [is |-> "accepted", copy |-> copies[m] + 1] \in Answer
      BY <2>3 DEF NetTyped, Answer
    <3>2. reached' \subseteq Msgs
      BY <2>1, <2>3 DEF NetTyped
    <3>3. QED  BY <2>1, <2>2, <2>4, <3>1, <3>2 DEF NetTyped
  <2>6. RowsTyped' /\ ChainTyped' /\ QueueTyped' /\ SyncTyped'
    BY <2>2 DEF RowsTyped, ChainTyped, QueueTyped, SyncTyped, rowVars,
           queueVars, syncVars
  <2>7. RowIdIsReal'
    BY <2>2, <2>4 DEF RowIdIsReal, RowsTyped, rowVars
  <2>8. /\ answer'[p].is = "accepted" /\ answer'[p].copy = copies'[m]
        /\ \A q \in Paths \ {p} : answer'[q] = answer[q]
    BY <2>1, <2>4 DEF NetTyped
  <2>9. AtHead'
    BY <2>2, <2>8 DEF AtHead, op, rowVars, Paths
  <2>10. AnswerIsReal'
    <3>1. op' = op /\ UNCHANGED flight
      BY <2>2 DEF op, queueVars
    <3>2. answer'["chain"].is = "accepted" => answer'["chain"].copy <= copies'[op.msg]
      <4>1. CASE p = "chain"
        BY <2>3, <2>4, <2>8, <4>1
      <4>2. CASE p # "chain"
        <5>1. ASSUME answer["chain"].is = "accepted"
              PROVE  answer["chain"].copy <= copies'[op.msg]
          <6>1. chain # <<>> /\ op.msg \in Msgs /\ answer["chain"].copy <= copies[op.msg]
            BY <5>1, Running DEF AtHead, AnswerIsReal
          <6>2. answer["chain"].copy \in Nat
            BY DEF NetTyped, Paths, Answer
          <6>3. QED  BY <2>4, <6>1, <6>2
        <5>2. QED  BY <2>8, <4>2, <5>1 DEF Paths
      <4>3. QED  BY <4>1, <4>2
    <3>3. answer'["queue"].is = "accepted" =>
              \A n \in flight : answer'["queue"].copy <= copies'[n]
      <4>1. CASE p = "queue"
        BY <2>3, <2>4, <2>8, <4>1 DEF AnswerIsReal
      <4>2. CASE p # "queue"
        <5>1. ASSUME answer["queue"].is = "accepted", NEW n \in flight
              PROVE  answer["queue"].copy <= copies'[n]
          <6>1. n \in Msgs /\ answer["queue"].copy <= copies[n]
            BY <5>1 DEF AnswerIsReal, QueueTyped
          <6>2. answer["queue"].copy \in Nat
            BY DEF NetTyped, Paths, Answer
          <6>3. QED  BY <2>4, <6>1, <6>2
        <5>2. QED  BY <2>8, <4>2, <5>1 DEF Paths
      <4>3. QED  BY <4>1, <4>2
    <3>4. QED  BY <3>1, <3>2, <3>3 DEF AnswerIsReal
  <2>11. QED  BY <2>5, <2>6, <2>7, <2>9, <2>10
<1>2. CASE serverRejects(p)
  <2>1. /\ UNCHANGED <<rowVars, chain, step, queueVars, syncVars, sentVars, restarts>>
        /\ answer[p].is = "pending" /\ answer' = [answer EXCEPT ![p].is = "rejected"]
    BY <1>2 DEF serverRejects
  <2>2. /\ answer' \in [Paths -> Answer] /\ answer'[p].is = "rejected"
        /\ \A q \in Paths \ {p} : answer'[q] = answer[q]
    BY <2>1 DEF NetTyped, Answer
  <2>3. RowsTyped' /\ ChainTyped' /\ QueueTyped' /\ SyncTyped' /\ NetTyped' /\ RowIdIsReal'
    BY <2>1, <2>2 DEF RowsTyped, ChainTyped, QueueTyped, SyncTyped, NetTyped,
           RowIdIsReal, rowVars, queueVars, syncVars, sentVars
  <2>4. AtHead'
    BY <2>1, <2>2 DEF AtHead, op, rowVars, Paths
  <2>5. AnswerIsReal'
    BY <2>1, <2>2 DEF AnswerIsReal, op, queueVars, sentVars, Paths
  <2>6. QED  BY <2>3, <2>4, <2>5
<1>3. QED  BY <1>1, <1>2

(* ... and a restart.                                                      *)
LEMMA RestartKeeps ==
    ASSUME OutboxIInv, restart
    PROVE  OutboxIInv'
<1> USE DEF OutboxIInv
<1>1. \A m \in Msgs : (IF m \in created /\ status[m] \in {PENDING, SENDING} /\ old[m]
                       THEN FAILED ELSE status[m]) \in MessageStatus
  BY StatusNames DEF RowsTyped
<1>2. RowsTyped' /\ SyncTyped' /\ QueueTyped'
  BY <1>1 DEF restart, RowsTyped, SyncTyped, QueueTyped
<1>3. chain' \in Seq(Op) /\ step' = "ready"
  BY DEF restart
<1>4. NetTyped' /\ RowIdIsReal'
  BY DEF restart, NetTyped, RowIdIsReal, NoAnswer, Answer, sentVars
<1>5. AtHead' /\ AnswerIsReal'
  BY DEF restart, AtHead, AnswerIsReal, NoAnswer, Paths
<1>6. QED  BY <1>2, <1>3, <1>4, <1>5 DEF ChainTyped

LEMMA StepKeeps ==
    ASSUME OutboxIInv, [Next]_vars
    PROVE  OutboxIInv'
<1>1. CASE UNCHANGED vars
  BY <1>1 DEF vars, rowVars, queueVars, syncVars, netVars, sentVars,
         OutboxIInv,
         RowsTyped, ChainTyped, QueueTyped, SyncTyped, NetTyped, AtHead, RowIdIsReal,
         AnswerIsReal, op
<1>2. CASE Next
  BY <1>2, ChainKeeps, QueueKeeps, SyncKeeps, ArrivalKeeps, AnswerKeeps,
         RestartKeeps
     DEF Next
<1>3. QED  BY <1>1, <1>2

LEMMA InitKeeps ==
    Init => OutboxIInv
<1> SUFFICES ASSUME Init  PROVE OutboxIInv
  OBVIOUS
<1>1. RowsTyped /\ QueueTyped /\ SyncTyped
  BY StatusNames DEF Init, RowsTyped, QueueTyped, SyncTyped
<1>2. ChainTyped /\ AtHead
  BY DEF Init, ChainTyped, AtHead, Paths, NoAnswer
<1>3. NetTyped /\ RowIdIsReal /\ AnswerIsReal
  BY DEF Init, NetTyped, RowIdIsReal, AnswerIsReal, Answer, NoAnswer, Paths
<1>4. QED  BY <1>1, <1>2, <1>3 DEF OutboxIInv

LEMMA Invariance ==
    Spec => []OutboxIInv
BY InitKeeps, StepKeeps, PTL DEF Spec

(* Theorem. For any servers, messages and bounds: types, and a row has the *)
(* client's id or the id of a copy a server really made, whichever of      *)
(* first send, queue and retry is acknowledged first.                      *)
THEOREM RowIdsAreReal ==
    Spec => []OutboxInv
<1>1. OutboxIInv => OutboxInv
  BY DEF OutboxIInv, OutboxInv, TypeOK, RowsTyped, ChainTyped, QueueTyped,
         SyncTyped,
         NetTyped
<1>2. QED  BY <1>1, Invariance, PTL

(* Theorem. A receipt only ever raises the status of its row, although the *)
(* status was read before an await.                                        *)
THEOREM ReceiptsRaise ==
    Spec => ReceiptsOnlyAdvance
<1>1. ASSUME OutboxIInv, applyReceipt, NEW m \in Msgs
      PROVE  status'[m] >= status[m]
  <2>1. chain # <<>> /\ op.msg \in Msgs /\ op.st \in MessageStatus
    BY <1>1, Running, StatusNames DEF applyReceipt, Receipt, OutboxIInv
  <2>2. PICK n \in Msgs, i \in Nat, st \in MessageStatus :
            op.msg = n /\ op.id = i /\ op.st = st
    BY <2>1, <1>1, Running DEF OutboxIInv
  <2>3. updateStatus(n, i, st) /\ status[n] <= st
    BY <1>1, <2>2 DEF applyReceipt, Receipt, OutboxIInv, AtHead
  <2>4. status[m] \in -2..4
    BY <1>1, StatusNames DEF OutboxIInv, RowsTyped
  <2>5. QED  BY <1>1, <2>3, <2>4, Written DEF OutboxIInv
<1>2. OutboxIInv /\ [Next]_vars => [applyReceipt => \A m \in Msgs : status'[m] >= status[m]]_vars
  BY <1>1
<1>3. QED  BY <1>2, Invariance, PTL DEF Spec, ReceiptsOnlyAdvance

(* Theorem. A row is renamed at most once: no second acknowledgement moves *)
(* it to another copy.                                                     *)
THEOREM OneNamePerRow ==
    Spec => RenamedOnce
<1> DEFINE Kept == \A m \in Msgs : rowId[m] # 0 => rowId'[m] = rowId[m]
<1>1. ASSUME OutboxIInv, Next
      PROVE  Kept
  <2>1. CASE sendRenames
    <3>1. chain # <<>> /\ op.id = 0
      BY <2>1 DEF sendRenames, Sending, Renames
    <3>2. PICK m \in Msgs, c \in Nat : op.msg = m /\ answer["chain"].copy = c
      BY <1>1, <3>1, Running DEF OutboxIInv, NetTyped, Paths, Answer
    <3>3. replaceId(m, 0, c)
      BY <2>1, <3>1, <3>2 DEF sendRenames
    <3>4. QED  BY <1>1, <3>3, Renamed DEF OutboxIInv
  <2>2. CASE queueOnSuccess
    <3>1. PICK m \in flight : replaceId(m, 0, answer["queue"].copy) \/ UNCHANGED rowId
      BY <2>2 DEF queueOnSuccess
    <3>2. PICK c \in Nat : answer["queue"].copy = c
      BY <1>1 DEF OutboxIInv, NetTyped, Paths, Answer
    <3>3. m \in Msgs
      BY <1>1 DEF OutboxIInv, QueueTyped
    <3>4. replaceId(m, 0, c) \/ UNCHANGED rowId
      BY <3>1, <3>2
    <3>5. QED  BY <1>1, <3>3, <3>4, Renamed DEF OutboxIInv
  <2>3. CASE UNCHANGED rowId
    BY <2>3
  <2>4. QED
    BY <1>1, <2>1, <2>2, <2>3
       DEF Next, sendEnvelope, age, receiveReceipt, chainStep, emitSend, sendMessage, emit, sendFails,
           sendParks, sendTimesOut, retryFails, sendAcknowledged, renamedAcknowledged,
           resolveReceipt, applyReceipt, queueStep, queueSends, queueOnError,
           queueSendFails, onSuccessLands, connect, disconnect, syncStep,
           retrySendingMessages, retryMessageSend, endOnConnected, serverAccepts,
           serverRejects, restart, rowVars
<1>2. OutboxIInv /\ [Next]_vars => [Kept]_rowId
  BY <1>1 DEF vars, rowVars
<1>3. QED  BY <1>2, Invariance, PTL DEF Spec, RenamedOnce

-----------------------------------------------------------------------------
(* With one server, what is accepted is accepted by the room's own. Ends   *)
(* of operations show nothing that is not reached.                         *)
LEMMA FinishReached ==
    ASSUME OutboxIInv, AcceptedIsReached, chain # <<>>, Finish,
           UNCHANGED <<flight, landing, sentVars>>,
           \A n \in Msgs : \/ status'[n] = status[n] \/ status'[n] = FAILED
                           \/ n \in reached
    PROVE  AcceptedIsReached'
<1>1. chain \in Seq(Op) /\ UNCHANGED <<copies, reached>>
  BY DEF OutboxIInv, ChainTyped, sentVars
<1>2. answer'["chain"].is = "none" /\ answer'["queue"] = answer["queue"]
  BY <1>1, Finished
<1>3. SentMeansAccepted'
  BY <1>1, StatusNames DEF AcceptedIsReached, SentMeansAccepted
<1>4. \A k \in DOMAIN chain' : chain'[k].kind = "receipt" => chain'[k].msg \in reached
  BY <1>1, Tailed DEF AcceptedIsReached, Finish
<1>5. QED  BY <1>1, <1>2, <1>3, <1>4 DEF AcceptedIsReached

LEMMA ChainReached ==
    ASSUME OutboxIInv, AcceptedIsReached, chainStep
    PROVE  AcceptedIsReached'
<1> USE DEF OutboxIInv
<1>0. chain # <<>>
  BY DEF chainStep, emitSend, sendMessage, emit, sendFails, sendParks,
         sendTimesOut, retryFails,
         sendAcknowledged, sendRenames, renamedAcknowledged, resolveReceipt,
         applyReceipt, Sending, Receipt
<1>1. PICK m \in Msgs, i \in Nat : op.msg = m /\ op.id = i
  BY <1>0, Running
<1>2. CASE emitSend
  <2>1. answer'["queue"] = answer["queue"] /\ answer'["chain"] = Pending
    BY <1>2 DEF emitSend, sendMessage, emit, NetTyped, Paths
  <2>2. UNCHANGED <<status, chain, flight, landing, reached>>
    BY <1>2 DEF emitSend, sendMessage, emit, rowVars, queueVars, sentVars
  <2>3. QED
    BY <2>1, <2>2 DEF AcceptedIsReached, SentMeansAccepted, Pending
<1>3. CASE sendFails \/ retryFails
  <2>1. updateStatus(m, i, FAILED)
    BY <1>1, <1>3 DEF sendFails, retryFails
  <2>2. \A n \in Msgs : status'[n] = status[n] \/ status'[n] = FAILED
    BY <2>1, Written, StatusNames
  <2>3. QED
    BY <1>0, <1>3, <2>2, FinishReached DEF sendFails, retryFails, queueVars
<1>4. CASE sendParks \/ sendTimesOut
  BY <1>0, <1>4, FinishReached DEF sendParks, sendTimesOut, rowVars, queueVars
<1>5. CASE sendAcknowledged \/ renamedAcknowledged
  <2>1. PICK c \in Nat : acknowledge(m, c)
    <3>1. PICK c \in Nat : answer["chain"].copy = c
      BY DEF NetTyped, Paths, Answer
    <3>2. acknowledge(m, i) \/ acknowledge(m, c)
      BY <1>1, <1>5, <3>1 DEF sendAcknowledged, renamedAcknowledged
    <3>3. QED  BY <3>2
  <2>2. m \in reached
    BY <1>1, <1>5 DEF sendAcknowledged, renamedAcknowledged, Sending, AtHead,
           AcceptedIsReached
  <2>3. \A n \in Msgs : status'[n] = status[n] \/ n \in reached
    BY <2>1, <2>2, Acknowledged
  <2>4. QED
    BY <1>0, <1>5, <2>3, FinishReached DEF sendAcknowledged,
           renamedAcknowledged, queueVars
<1>6. CASE sendRenames
  BY <1>6 DEF sendRenames, AcceptedIsReached, SentMeansAccepted, op, queueVars,
         netVars,
              sentVars
<1>7. CASE resolveReceipt
  <2>1. CASE Finish
    BY <1>0, <1>7, <2>1, FinishReached DEF resolveReceipt, rowVars, queueVars
  <2>2. CASE ~Finish
    BY <1>7, <2>2 DEF resolveReceipt, AcceptedIsReached, SentMeansAccepted, op,
           rowVars,
           queueVars, sentVars
  <2>3. QED  BY <2>1, <2>2
<1>8. CASE applyReceipt
  <2>1. PICK st \in MessageStatus : op.st = st
    BY <1>0, <1>8, Running, StatusNames DEF applyReceipt, Receipt
  <2>2. updateStatus(m, i, st)
    BY <1>1, <1>8, <2>1 DEF applyReceipt
  <2>3. m \in reached
    <3>1. 1 \in DOMAIN chain /\ op = chain[1]
      BY <1>0 DEF ChainTyped, op
    <3>2. QED
      BY <1>1, <1>8, <3>1 DEF applyReceipt, Receipt, AcceptedIsReached
  <2>4. \A n \in Msgs : status'[n] = status[n] \/ n \in reached
    BY <2>2, <2>3, Written
  <2>5. QED
    BY <1>0, <1>8, <2>4, FinishReached DEF applyReceipt, queueVars
<1>9. QED
  BY <1>2, <1>3, <1>4, <1>5, <1>6, <1>7, <1>8 DEF chainStep

LEMMA QueueReached ==
    ASSUME OutboxIInv, AcceptedIsReached, queueStep \/ onSuccessLands
    PROVE  AcceptedIsReached'
<1> USE DEF OutboxIInv
<1>1. ASSUME NEW m \in Msgs, queueSends(m)
      PROVE  AcceptedIsReached'
  <2>1. /\ UNCHANGED <<status, chain, landing, reached>> /\ answer'["chain"] = answer["chain"]
        /\ flight = {}
        /\ answer'["queue"].is = "accepted" => UNCHANGED <<flight, answer>>
    BY <1>1 DEF queueSends, sendMessage, emit, NetTyped, Paths, Pending,
           rowVars, sentVars
  <2>2. QED  BY <2>1 DEF AcceptedIsReached, SentMeansAccepted, op
<1>2. ASSUME NEW m \in Msgs, queueOnError(m)
      PROVE  AcceptedIsReached'
  <2>1. /\ UNCHANGED <<chain, flight, landing, answer, reached>>
        /\ updateStatus(m, 0, FAILED)
    BY <1>2 DEF queueOnError, netVars, sentVars
  <2>2. \A n \in Msgs : status'[n] = status[n] \/ status'[n] = FAILED
    BY <2>1, Written, StatusNames
  <2>3. QED
    BY <2>1, <2>2, StatusNames DEF AcceptedIsReached, SentMeansAccepted, op
<1>3. CASE queueSendFails
  <2>1. /\ UNCHANGED <<status, chain, landing, reached>> /\ flight' = {}
        /\ answer'["chain"] = answer["chain"]
    BY <1>3 DEF queueSendFails, NetTyped, Paths, rowVars, sentVars
  <2>2. QED  BY <2>1 DEF AcceptedIsReached, SentMeansAccepted, op
<1>4. CASE queueOnSuccess
  <2>1. PICK m \in flight :
          \/ /\ landing' = landing \cup {[msg |-> m, id |-> answer["queue"].copy]}
             /\ UNCHANGED status
          \/ acknowledge(m, 0) /\ UNCHANGED landing
    BY <1>4 DEF queueOnSuccess
  <2>2. /\ UNCHANGED <<chain, reached>> /\ flight' = {} /\ answer["queue"].is = "accepted"
        /\ answer'["chain"] = answer["chain"]
    BY <1>4 DEF queueOnSuccess, NetTyped, Paths, sentVars
  <2>3. m \in reached /\ m \in Msgs
    BY <2>2 DEF AcceptedIsReached, QueueTyped
  <2>4. \A n \in Msgs : status'[n] = status[n] \/ n \in reached
    BY <2>1, <2>3, Acknowledged
  <2>5. \A l \in landing' : l.msg \in reached
    BY <2>1, <2>3 DEF AcceptedIsReached
  <2>6. QED
    BY <2>2, <2>4, <2>5 DEF AcceptedIsReached, SentMeansAccepted, op
<1>5. CASE onSuccessLands
  <2>1. PICK l \in landing : acknowledge(l.msg, l.id) /\ landing' = landing \ {l}
    BY <1>5 DEF onSuccessLands
  <2>2. UNCHANGED <<chain, flight, answer, reached>>
    BY <1>5 DEF onSuccessLands, netVars, sentVars
  <2>3. PICK m \in Msgs, i \in Nat : l.msg = m /\ l.id = i
    BY DEF QueueTyped
  <2>4. \A n \in Msgs : status'[n] = status[n] \/ n \in reached
    BY <2>1, <2>3, Acknowledged DEF AcceptedIsReached
  <2>5. QED
    BY <2>1, <2>2, <2>4 DEF AcceptedIsReached, SentMeansAccepted, op
<1>6. QED
  BY <1>1, <1>2, <1>3, <1>4, <1>5 DEF queueStep

LEMMA JoinReached ==
    ASSUME OutboxIInv, AcceptedIsReached, NEW o \in Op, chain' = Append(chain, o),
           UNCHANGED <<flight, landing, answer, reached>>,
           o.kind = "receipt" => o.msg \in reached,
           \A n \in Msgs : status'[n] = status[n] \/ status'[n] = SENDING
    PROVE  AcceptedIsReached'
<1>1. chain \in Seq(Op)
  BY DEF OutboxIInv, ChainTyped
<1>2. answer["chain"].is = "accepted" => op' = op
  BY <1>1, Appended DEF OutboxIInv, AtHead, op
<1>3. \A k \in DOMAIN chain' : chain'[k].kind = "receipt" => chain'[k].msg \in reached
  BY <1>1, Appended DEF AcceptedIsReached
<1>4. SentMeansAccepted'
  BY StatusNames DEF AcceptedIsReached, SentMeansAccepted
<1>5. QED  BY <1>2, <1>3, <1>4 DEF AcceptedIsReached

LEMMA OthersReached ==
    ASSUME OutboxIInv, AcceptedIsReached,
           \/ \E m \in Msgs : sendEnvelope(m) \/ age(m)
           \/ \E m \in Msgs, id \in 0..MaxCopies, st \in {DELIVERED, READ} :
                 receiveReceipt(m, id, st)
           \/ \E s \in Servers : connect(s) \/ disconnect(s) \/ syncStep(s)
           \/ restart \/ UNCHANGED vars
    PROVE  AcceptedIsReached'
<1> USE DEF OutboxIInv
<1>1. ASSUME NEW m \in Msgs, sendEnvelope(m)
      PROVE  AcceptedIsReached'
  <2>1. [kind |-> "send", msg |-> m, id |-> 0] \in Op
    BY DEF Op, SendOps
  <2>2. \A n \in Msgs : status'[n] = status[n] \/ status'[n] = SENDING
    BY <1>1 DEF sendEnvelope, RowsTyped
  <2>3. QED
    BY <1>1, <2>1, <2>2, JoinReached DEF sendEnvelope, queueVars, netVars,
           sentVars
<1>2. ASSUME NEW m \in Msgs, NEW id \in 0..MaxCopies, NEW st \in {DELIVERED, READ},
             receiveReceipt(m, id, st)
      PROVE  AcceptedIsReached'
  <2>1. [kind |-> "receipt", msg |-> m, id |-> id, st |-> st] \in Op
    BY OutboxAssumption DEF Op, ReceiptOps
  <2>2. QED
    BY <1>2, <2>1, JoinReached DEF receiveReceipt, rowVars, queueVars, netVars,
           sentVars
<1>3. ASSUME NEW s \in Servers, retryMessageSend(s)
      PROVE  AcceptedIsReached'
  <2>1. PICK r \in stuck[s] :
          chain' = Append(chain, [kind |-> "retry", msg |-> r.msg, id |-> r.id, by |-> s])
    BY <1>3 DEF retryMessageSend
  <2>2. r.msg \in Msgs /\ r.id \in Nat
    BY DEF SyncTyped
  <2>3. [kind |-> "retry", msg |-> r.msg, id |-> r.id, by |-> s] \in Op
    BY <2>2 DEF Op, RetryOps
  <2>4. QED
    BY <1>3, <2>1, <2>3, JoinReached DEF retryMessageSend, rowVars, queueVars,
           netVars,
           sentVars
<1>4. CASE UNCHANGED <<status, chain, flight, landing, answer, reached>>
  BY <1>4 DEF AcceptedIsReached, SentMeansAccepted, op
<1>5. CASE restart
  <2>1. \A n \in Msgs : status'[n] = status[n] \/ status'[n] = FAILED
    BY <1>5 DEF restart, RowsTyped
  <2>2. /\ chain' = <<>> /\ landing' = {} /\ UNCHANGED reached
        /\ answer'["chain"].is = "none" /\ answer'["queue"].is = "none"
    BY <1>5 DEF restart, sentVars, Paths, NoAnswer
  <2>3. QED
    BY <2>1, <2>2, StatusNames DEF AcceptedIsReached, SentMeansAccepted
<1>6. QED
  BY <1>1, <1>2, <1>3, <1>4, <1>5
     DEF age, connect, disconnect, syncStep, retrySendingMessages, endOnConnected, vars,
         rowVars, queueVars, netVars, sentVars

LEMMA AnswerReached ==
    ASSUME OutboxIInv, AcceptedIsReached, \A m \in Msgs : ServerOf[m] = DefaultServer,
           NEW p \in Paths, serverAccepts(p) \/ serverRejects(p)
    PROVE  AcceptedIsReached'
<1> USE DEF OutboxIInv
<1>1. CASE serverAccepts(p)
  <2>1. PICK m \in Awaited(p) :
          /\ reached' = IF Asked(p, m) = ServerOf[m] THEN reached \cup {m} ELSE reached
          /\ answer' = [answer EXCEPT ![p] = [is |-> "accepted", copy |-> copies[m] + 1]]
    BY <1>1 DEF serverAccepts
  <2>2. UNCHANGED <<status, chain, flight, landing>> /\ answer[p].is = "pending"
    BY <1>1 DEF serverAccepts, rowVars, queueVars
  <2>3. m \in Msgs /\ (p = "chain" => m = op.msg) /\ (p = "queue" => m \in flight)
    <3>1. CASE p = "chain"
      <4>1. chain # <<>>
        BY <2>2, <3>1 DEF AtHead
      <4>2. QED  BY <3>1, <4>1, Running DEF Awaited
    <3>2. CASE p = "queue"
      BY <3>2 DEF Awaited, QueueTyped
    <3>3. QED  BY <3>1, <3>2 DEF Paths
  <2>4. reached' = reached \cup {m}
    BY <2>1, <2>3 DEF Asked, queueServer
  <2>5. \A q \in Paths \ {p} : answer'[q] = answer[q]
    BY <2>1 DEF NetTyped
  <2>6. QED
    BY <2>2, <2>3, <2>4, <2>5 DEF AcceptedIsReached, SentMeansAccepted,
           AnswerIsReal, op,
           Paths
<1>2. CASE serverRejects(p)
  <2>1. /\ UNCHANGED <<status, chain, flight, landing, reached>>
        /\ answer'[p].is = "rejected" /\ \A q \in Paths \ {p} : answer'[q] = answer[q]
    BY <1>2 DEF serverRejects, NetTyped, Answer, rowVars, queueVars, sentVars
  <2>2. QED
    BY <2>1 DEF AcceptedIsReached, SentMeansAccepted, op, Paths
<1>3. QED  BY <1>1, <1>2

(* Theorem. A client with one server shows a message as sent, undelivered, *)
(* delivered or read only if that server accepted a copy of it, whichever  *)
(* path sent it and whatever was retried, renamed, restarted or received   *)
(* late in between.                                                        *)
THEOREM SentIsAccepted ==
    ASSUME Servers = {DefaultServer}
    PROVE  Spec => []SentMeansAccepted
<1>1. \A m \in Msgs : ServerOf[m] = DefaultServer
  BY OutboxAssumption
<1>2. Init => AcceptedIsReached
  BY StatusNames DEF Init, AcceptedIsReached, SentMeansAccepted, Paths,
         NoAnswer
<1>3. OutboxIInv /\ AcceptedIsReached /\ [Next]_vars => AcceptedIsReached'
  BY <1>1, ChainReached, QueueReached, OthersReached, AnswerReached DEF Next
<1>4. AcceptedIsReached => SentMeansAccepted
  BY DEF AcceptedIsReached
<1>5. QED  BY <1>2, <1>3, <1>4, Invariance, PTL DEF Spec
=============================================================================
