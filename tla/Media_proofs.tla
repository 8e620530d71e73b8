---------------------------- MODULE Media_proofs ----------------------------
(***************************************************************************)
(* Theorems about Media, for any messages of any kinds.                    *)
(***************************************************************************)
EXTENDS Media, TLAPS

(* The types, in parts.                                                    *)
TablesTyped ==
    /\ status \in [Ids -> Statuses] /\ body \in [Ids -> SUBSET Parts]
    /\ expiry \in [Ids -> {"none", "running", "past"}] /\ files \subseteq Ids
ChainTyped ==
    /\ preparing \subseteq Ours /\ chain \in Seq(Op)
    /\ at \in {"start", "uploaded", "accepted"}
    /\ retries \subseteq [id : Ours, body : SUBSET Parts]
ScreenTyped ==
    /\ up \in BOOLEAN /\ deletion \in [Ids -> {"no", "asked"}]
    /\ downloads \subseteq Theirs /\ viewer \in Theirs \cup {NoMessage}
    /\ shown \in BOOLEAN /\ (shown => viewer # NoMessage)
HistoryTyped ==
    /\ blobs \subseteq Ids /\ accepted \subseteq Ours \X SUBSET Parts
    /\ cached \subseteq Ours /\ used \subseteq Ids
    /\ acts \in 0..MaxActs /\ faults \in 0..MaxFaults

(* A message that was not sent or received yet has left no trace, so that  *)
(* none comes back into an open viewer.                                    *)
NoTrace ==
    /\ \A i \in Ids \ used : status[i] = "none" /\ body[i] = {}
    /\ cached \subseteq used
    /\ viewer # NoMessage => viewer \in used

(* Wherever a reference of ours waits to be delivered - in the operation   *)
(* that runs, in a row, in a row that was read to be sent again - its blob *)
(* is up. Blobs of ours never go.                                          *)
BlobIsUp ==
    /\ at # "start" => chain # <<>>
    /\ at = "uploaded" => Head(chain).id \in blobs
    /\ \A k \in DOMAIN chain : "ref" \in chain[k].body => chain[k].id \in blobs
    /\ \A m \in retries : "ref" \in m.body => m.id \in blobs
    /\ \A i \in Ours : "ref" \in body[i] => i \in blobs

(* An image of ours is in its row or on disk from the first write on, and  *)
(* a file from the time its bytes were put aside.                          *)
DataKept ==
    \A i \in Ours : exists(i) =>
        /\ KindOf[i] \in {"image", "persistent"} => hasData(i)
        /\ KindOf[i] = "file" /\ i \in cached => "path" \in body[i]

MediaIInv ==
    /\ TablesTyped /\ ChainTyped /\ ScreenTyped /\ HistoryTyped
    /\ NoTrace /\ PathIsReal /\ ShownIsDated
    /\ BlobIsUp /\ ReferencesResolve /\ DataKept

-----------------------------------------------------------------------------
(* What the operators of the chain and of the tables do.                   *)
LEMMA Appended ==
    ASSUME NEW q \in Seq(Op), NEW o \in Op
    PROVE  /\ Append(q, o) \in Seq(Op) /\ Append(q, o) # <<>>
           /\ q # <<>> => Head(Append(q, o)) = Head(q)
           /\ \A k \in DOMAIN Append(q, o) :
                 Append(q, o)[k] = o \/ (k \in DOMAIN q /\ Append(q, o)[k] = q[k])
<1>1. /\ Append(q, o) \in Seq(Op) /\ Len(Append(q, o)) = Len(q) + 1
      /\ \A k \in 1..Len(q) : Append(q, o)[k] = q[k]
      /\ Append(q, o)[Len(q) + 1] = o
  OBVIOUS
<1>2. Append(q, o) # <<>> /\ (q # <<>> => Head(Append(q, o)) = Head(q))
  BY <1>1
<1>3. ASSUME NEW k \in DOMAIN Append(q, o)
      PROVE  Append(q, o)[k] = o \/ (k \in DOMAIN q /\ Append(q, o)[k] = q[k])
  <2>1. k \in 1..Len(q) \/ k = Len(q) + 1
    BY <1>1
  <2>2. QED  BY <1>1, <2>1
<1>4. QED  BY <1>1, <1>2, <1>3

LEMMA Tailed ==
    ASSUME NEW q \in Seq(Op), q # <<>>
    PROVE  /\ Tail(q) \in Seq(Op)
           /\ \A k \in DOMAIN Tail(q) : k + 1 \in DOMAIN q /\ Tail(q)[k] = q[k + 1]
OBVIOUS

LEMMA Enqueued ==
    ASSUME ChainTyped, NEW i \in Ours, NEW a \in {"send", "retry"},
           NEW b \in SUBSET Parts, chain' = enqueued(i, a, b)
    PROVE  /\ chain' \in Seq(Op) /\ chain' # <<>>
           /\ chain # <<>> => Head(chain') = Head(chain)
           /\ \A k \in DOMAIN chain' :
                 \/ chain'[k].id = i /\ chain'[k].body = b
                 \/ k \in DOMAIN chain /\ chain'[k] = chain[k]
<1> DEFINE o == [op |-> a, id |-> i, body |-> b]
<1>1. o \in Op /\ o.id = i /\ o.body = b
  BY DEF Op
<1>2. chain' = Append(chain, o)
  BY DEF enqueued
<1> HIDE DEF o
<1>3. QED  BY <1>1, <1>2, Appended DEF ChainTyped

LEMMA Dequeued ==
    ASSUME ChainTyped, chain # <<>>, ends
    PROVE  /\ chain' \in Seq(Op) /\ at' = "start"
           /\ \A k \in DOMAIN chain' : k + 1 \in DOMAIN chain /\ chain'[k] = chain[k + 1]
BY Tailed DEF ChainTyped, ends

LEMMA Running ==
    ASSUME ChainTyped, NEW o \in {chain[k] : k \in 1..Len(chain)}, NEW s, runs(o, s)
    PROVE  /\ chain # <<>> /\ o = Head(chain) /\ o = chain[1] /\ 1 \in DOMAIN chain
           /\ at = s
           /\ o.id \in Ours /\ o.body \in SUBSET Parts
<1>1. chain \in Seq(Op) /\ chain # <<>>
  BY DEF ChainTyped
<1>2. o = Head(chain) /\ at = s /\ Head(chain) = chain[1] /\ 1 \in DOMAIN chain
  BY <1>1 DEF runs
<1>3. o \in Op
  BY <1>1, <1>2
<1>4. QED  BY <1>1, <1>2, <1>3 DEF Op

LEMMA BodyWritten ==
    ASSUME TablesTyped, NEW i \in Ids, NEW b \in SUBSET Parts, Body(i, b)
    PROVE  /\ body' \in [Ids -> SUBSET Parts]
           /\ \A j \in Ids : body'[j] = IF j = i /\ exists(i) THEN b ELSE body[j]
BY DEF TablesTyped, Body

LEMMA StatusWritten ==
    ASSUME TablesTyped, NEW i \in Ids, NEW st \in Statuses, Status(i, st)
    PROVE  /\ status' \in [Ids -> Statuses]
           /\ \A j \in Ids : status'[j] = IF j = i /\ exists(i) THEN st ELSE status[j]
BY DEF TablesTyped, Status

(* A row that is written as an operation ends stays a row.                 *)
LEMMA StatusKeepsRows ==
    ASSUME TablesTyped, NEW i \in Ids, NEW st \in Statuses \ {"none"}, Status(i, st)
    PROVE  /\ status' \in [Ids -> Statuses]
           /\ \A j \in Ids : /\ status'[j] = "none" <=> status[j] = "none"
                             /\ j # i => status'[j] = status[j]
BY StatusWritten DEF exists

LEMMA Saved ==
    ASSUME TablesTyped, NEW i \in Ids, NEW b \in SUBSET Parts,
           \/ files' = files \cup {i} /\ Body(i, b)
           \/ UNCHANGED <<files, body>>
    PROVE  /\ body' \in [Ids -> SUBSET Parts] /\ files' \subseteq Ids
           /\ files \subseteq files'
           /\ \A j \in Ids :
                 \/ body'[j] = body[j]
                 \/ j = i /\ body'[j] = b /\ i \in files' /\ exists(i)
BY BodyWritten DEF TablesTyped

LEMMA Counted ==
    ASSUME HistoryTyped, NoBound \/ Fails
    PROVE  acts' \in 0..MaxActs /\ faults' \in 0..MaxFaults
BY MediaAssumption DEF HistoryTyped, NoBound, Fails

LEMMA OnChain ==
    ASSUME ChainTyped
    PROVE  /\ \A k \in DOMAIN chain : chain[k].id \in Ours /\ chain[k].body \in SUBSET Parts
           /\ chain # <<>> => Head(chain) = chain[1] /\ 1 \in DOMAIN chain
<1>1. chain \in Seq(Op)
  BY DEF ChainTyped
<1>2. /\ \A k \in DOMAIN chain : chain[k] \in Op
      /\ chain # <<>> => Head(chain) = chain[1] /\ 1 \in DOMAIN chain
  BY <1>1
<1>3. QED  BY <1>2 DEF Op

(* Every step keeps it, action by action.                                  *)
LEMMA StepKeeps ==
    ASSUME MediaIInv, [Next]_vars
    PROVE  MediaIInv'
<1>0. /\ Ours \cap Theirs = {} /\ NoMessage \notin Ids /\ KindOf \in [Ids -> Kinds]
      /\ MaxActs \in Nat /\ MaxFaults \in Nat
  BY MediaAssumption
<1> USE <1>0 DEF MediaIInv, Ids
<1>1. ASSUME NEW i \in Ours, sendImageMessage(i), UNCHANGED up
      PROVE  MediaIInv'
  <2>1. ScreenTyped' /\ ReferencesResolve'
    BY <1>1 DEF sendImageMessage, sendImage, opening, ScreenTyped,
           ReferencesResolve, hasData, exists
  <2>2. TablesTyped'
    BY <1>1 DEF sendImageMessage, sendImage, fresh, takesPlace, Acts, opening,
           TablesTyped, Statuses, Parts
  <2>3. ChainTyped'
    BY <1>1 DEF sendImageMessage, sendImage, fresh, takesPlace, Acts, opening,
           ChainTyped, Op, Parts
  <2>4. HistoryTyped'
    BY <1>1 DEF sendImageMessage, sendImage, fresh, takesPlace, Acts, opening,
           HistoryTyped
  <2>5. NoTrace'
    BY <1>1 DEF sendImageMessage, sendImage, fresh, takesPlace, Acts, opening,
           NoTrace, exists, TablesTyped, HistoryTyped, ScreenTyped
  <2>6. PathIsReal'
    BY <1>1 DEF sendImageMessage, sendImage, fresh, takesPlace, Acts, opening,
           PathIsReal, exists, TablesTyped
  <2>7. ShownIsDated'
    BY <1>1 DEF sendImageMessage, sendImage, fresh, takesPlace, Acts, opening,
           ShownIsDated, exists, NoTrace, TablesTyped, ScreenTyped
  <2>8. BlobIsUp'
    BY <1>1 DEF sendImageMessage, sendImage, fresh, takesPlace, Acts, opening,
           BlobIsUp, exists, TablesTyped, ChainTyped, HistoryTyped,
           ScreenTyped, Op
  <2>9. DataKept'
    BY <1>1 DEF sendImageMessage, sendImage, fresh, takesPlace, Acts, opening,
           DataKept, exists, hasData, TablesTyped, HistoryTyped, NoTrace,
           PathIsReal, ScreenTyped, ChainTyped, Op
  <2>10. QED  BY <2>1, <2>2, <2>3, <2>4, <2>5, <2>6, <2>7, <2>8, <2>9
<1>2. ASSUME NEW i \in Ours, sendPersistentImageMessage(i), UNCHANGED up
      PROVE  MediaIInv'
  <2>1. ScreenTyped' /\ ReferencesResolve'
    BY <1>2 DEF sendPersistentImageMessage, sendImage, opening, ScreenTyped,
           ReferencesResolve, hasData, exists
  <2>2. TablesTyped'
    BY <1>2 DEF sendPersistentImageMessage, sendImage, fresh, takesPlace, Acts,
           opening, TablesTyped, Statuses, Parts
  <2>3. ChainTyped'
    BY <1>2 DEF sendPersistentImageMessage, sendImage, fresh, takesPlace, Acts,
           opening, ChainTyped, Op, Parts
  <2>4. HistoryTyped'
    BY <1>2 DEF sendPersistentImageMessage, sendImage, fresh, takesPlace, Acts,
           opening, HistoryTyped
  <2>5. NoTrace'
    BY <1>2 DEF sendPersistentImageMessage, sendImage, fresh, takesPlace, Acts,
           opening, NoTrace, exists, TablesTyped, HistoryTyped, ScreenTyped
  <2>6. PathIsReal'
    BY <1>2 DEF sendPersistentImageMessage, sendImage, fresh, takesPlace, Acts,
           opening, PathIsReal, exists, TablesTyped
  <2>7. ShownIsDated'
    BY <1>2 DEF sendPersistentImageMessage, sendImage, fresh, takesPlace, Acts,
           opening, ShownIsDated, exists, NoTrace, TablesTyped, ScreenTyped
  <2>8. BlobIsUp'
    BY <1>2 DEF sendPersistentImageMessage, sendImage, fresh, takesPlace, Acts,
           opening, BlobIsUp, exists, TablesTyped, ChainTyped, HistoryTyped,
           ScreenTyped, Op
  <2>9. DataKept'
    BY <1>2 DEF sendPersistentImageMessage, sendImage, fresh, takesPlace, Acts,
           opening, DataKept, exists, hasData, TablesTyped, HistoryTyped,
           NoTrace, PathIsReal, ScreenTyped, ChainTyped, Op
  <2>10. QED  BY <2>1, <2>2, <2>3, <2>4, <2>5, <2>6, <2>7, <2>8, <2>9
<1>3. ASSUME NEW i \in Ours, sendFileMessage(i), UNCHANGED up
      PROVE  MediaIInv'
  <2>1. ScreenTyped' /\ ReferencesResolve'
    BY <1>3 DEF sendFileMessage, sendFile, opening, ScreenTyped,
           ReferencesResolve, hasData, exists
  <2>2. TablesTyped'
    BY <1>3 DEF sendFileMessage, sendFile, fresh, takesPlace, enqueue,
           enqueued, Acts, opening, TablesTyped, Statuses, Parts
  <2>3. ChainTyped'
    BY <1>3 DEF sendFileMessage, sendFile, fresh, takesPlace, enqueue,
           enqueued, Acts, opening, ChainTyped, Op, Parts
  <2>4. HistoryTyped'
    BY <1>3 DEF sendFileMessage, sendFile, fresh, takesPlace, enqueue,
           enqueued, Acts, opening, HistoryTyped
  <2>5. NoTrace'
    BY <1>3 DEF sendFileMessage, sendFile, fresh, takesPlace, enqueue,
           enqueued, Acts, opening, NoTrace, exists, TablesTyped, HistoryTyped,
           ScreenTyped
  <2>6. PathIsReal'
    BY <1>3 DEF sendFileMessage, sendFile, fresh, takesPlace, enqueue,
           enqueued, Acts, opening, PathIsReal, exists, TablesTyped
  <2>7. ShownIsDated'
    BY <1>3 DEF sendFileMessage, sendFile, fresh, takesPlace, enqueue,
           enqueued, Acts, opening, ShownIsDated, exists, NoTrace, TablesTyped,
           ScreenTyped
  <2>8. BlobIsUp'
    BY <1>3 DEF sendFileMessage, sendFile, fresh, takesPlace, enqueue,
           enqueued, Acts, opening, BlobIsUp, exists, TablesTyped, ChainTyped,
           HistoryTyped, ScreenTyped, Op
  <2>9. DataKept'
    BY <1>3 DEF sendFileMessage, sendFile, fresh, takesPlace, enqueue,
           enqueued, Acts, opening, DataKept, exists, hasData, TablesTyped,
           HistoryTyped, NoTrace, PathIsReal, ScreenTyped, ChainTyped, Op
  <2>10. QED  BY <2>1, <2>2, <2>3, <2>4, <2>5, <2>6, <2>7, <2>8, <2>9
<1>4. ASSUME NEW i \in Ours, sendEphemeralImageMessage(i), UNCHANGED up
      PROVE  MediaIInv'
  <2>1. ScreenTyped' /\ ReferencesResolve'
    BY <1>4 DEF sendEphemeralImageMessage, opening, ScreenTyped,
           ReferencesResolve, hasData, exists
  <2>2. TablesTyped'
    BY <1>4 DEF sendEphemeralImageMessage, fresh, takesPlace, enqueue,
           enqueued, Acts, opening, TablesTyped, Statuses, Parts
  <2>3. ChainTyped'
    BY <1>4 DEF sendEphemeralImageMessage, fresh, takesPlace, enqueue,
           enqueued, Acts, opening, ChainTyped, Op, Parts
  <2>4. HistoryTyped'
    BY <1>4 DEF sendEphemeralImageMessage, fresh, takesPlace, enqueue,
           enqueued, Acts, opening, HistoryTyped
  <2>5. NoTrace'
    BY <1>4 DEF sendEphemeralImageMessage, fresh, takesPlace, enqueue,
           enqueued, Acts, opening, NoTrace, exists, TablesTyped, HistoryTyped,
           ScreenTyped
  <2>6. PathIsReal'
    BY <1>4 DEF sendEphemeralImageMessage, fresh, takesPlace, enqueue,
           enqueued, Acts, opening, PathIsReal, exists, TablesTyped
  <2>7. ShownIsDated'
    BY <1>4 DEF sendEphemeralImageMessage, fresh, takesPlace, enqueue,
           enqueued, Acts, opening, ShownIsDated, exists, NoTrace, TablesTyped,
           ScreenTyped
  <2>8. BlobIsUp'
    <3>1. chain' = enqueued(i, "send", {}) /\ UNCHANGED <<at, retries, blobs>>
      BY <1>4 DEF sendEphemeralImageMessage, fresh, takesPlace, enqueue
    <3>2. \A j \in Ours : "ref" \in body'[j] => "ref" \in body[j]
      BY <1>4 DEF sendEphemeralImageMessage, fresh, takesPlace, enqueue,
             TablesTyped
    <3>3. /\ chain' # <<>> /\ (chain # <<>> => Head(chain') = Head(chain))
          /\ \A k \in DOMAIN chain' : \/ chain'[k].id = i /\ chain'[k].body = {}
                                      \/ k \in DOMAIN chain /\ chain'[k] = chain[k]
      BY <3>1, Enqueued
    <3>4. QED  BY <3>1, <3>2, <3>3 DEF BlobIsUp
  <2>9. DataKept'
    BY <1>4 DEF sendEphemeralImageMessage, fresh, takesPlace, enqueue,
           enqueued, Acts, opening, DataKept, exists, hasData, TablesTyped,
           HistoryTyped, NoTrace, PathIsReal, ScreenTyped, ChainTyped, Op
  <2>10. QED  BY <2>1, <2>2, <2>3, <2>4, <2>5, <2>6, <2>7, <2>8, <2>9
<1>5. ASSUME NEW i \in Ours, NEW old \in Ours \ {i}, resendMessage(i, old), UNCHANGED up
      PROVE  MediaIInv'
  <2>1. ScreenTyped' /\ ReferencesResolve'
    BY <1>5 DEF resendMessage, sendImage, opening, ScreenTyped,
           ReferencesResolve, hasData, exists
  <2>2. TablesTyped'
    BY <1>5 DEF resendMessage, sendImage, fresh, takesPlace, Acts, opening,
           TablesTyped, Statuses, Parts
  <2>3. ChainTyped'
    BY <1>5 DEF resendMessage, sendImage, fresh, takesPlace, Acts, opening,
           ChainTyped, Op, Parts
  <2>4. HistoryTyped'
    BY <1>5 DEF resendMessage, sendImage, fresh, takesPlace, Acts, opening,
           HistoryTyped
  <2>5. NoTrace'
    BY <1>5 DEF resendMessage, sendImage, fresh, takesPlace, Acts, opening,
           NoTrace, exists, TablesTyped, HistoryTyped, ScreenTyped
  <2>6. PathIsReal'
    BY <1>5 DEF resendMessage, sendImage, fresh, takesPlace, Acts, opening,
           PathIsReal, exists, TablesTyped
  <2>7. ShownIsDated'
    <3>1. UNCHANGED <<viewer, shown, expiry>> /\ (shown => viewer \in Theirs)
      BY <1>5 DEF resendMessage, sendImage, opening, ScreenTyped
    <3>2. \A j \in Theirs : status'[j] = status[j]
      BY <1>5 DEF resendMessage, sendImage, takesPlace, TablesTyped
    <3>3. QED  BY <3>1, <3>2 DEF ShownIsDated, exists
  <2>8. BlobIsUp'
    BY <1>5 DEF resendMessage, sendImage, fresh, takesPlace, Acts, opening,
           BlobIsUp, exists, TablesTyped, ChainTyped, HistoryTyped,
           ScreenTyped, Op
  <2>9. DataKept'
    BY <1>5 DEF resendMessage, sendImage, fresh, takesPlace, Acts, opening,
           DataKept, exists, hasData, TablesTyped, HistoryTyped, NoTrace,
           PathIsReal, ScreenTyped, ChainTyped, Op
  <2>10. QED  BY <2>1, <2>2, <2>3, <2>4, <2>5, <2>6, <2>7, <2>8, <2>9
<1>6. ASSUME NEW i \in Ours, NEW old \in Ours \ {i}, resendFileMessage(i, old), UNCHANGED up
      PROVE  MediaIInv'
  <2>1. ScreenTyped' /\ ReferencesResolve'
    BY <1>6 DEF resendFileMessage, sendFile, opening, ScreenTyped,
           ReferencesResolve, hasData, exists
  <2>2. TablesTyped'
    BY <1>6 DEF resendFileMessage, sendFile, fresh, takesPlace, enqueue,
           enqueued, Acts, opening, TablesTyped, Statuses, Parts
  <2>3. ChainTyped'
    BY <1>6 DEF resendFileMessage, sendFile, fresh, takesPlace, enqueue,
           enqueued, Acts, opening, ChainTyped, Op, Parts
  <2>4. HistoryTyped'
    BY <1>6 DEF resendFileMessage, sendFile, fresh, takesPlace, enqueue,
           enqueued, Acts, opening, HistoryTyped
  <2>5. NoTrace'
    BY <1>6 DEF resendFileMessage, sendFile, fresh, takesPlace, enqueue,
           enqueued, Acts, opening, NoTrace, exists, TablesTyped, HistoryTyped,
           ScreenTyped
  <2>6. PathIsReal'
    BY <1>6 DEF resendFileMessage, sendFile, fresh, takesPlace, enqueue,
           enqueued, Acts, opening, PathIsReal, exists, TablesTyped
  <2>7. ShownIsDated'
    BY <1>6 DEF resendFileMessage, sendFile, fresh, takesPlace, enqueue,
           enqueued, Acts, opening, ShownIsDated, exists, NoTrace, TablesTyped,
           ScreenTyped
  <2>8. BlobIsUp'
    <3>1. chain' = enqueued(i, "send", {}) /\ UNCHANGED <<at, retries, blobs>>
      BY <1>6 DEF resendFileMessage, sendFile, fresh, takesPlace, enqueue
    <3>2. \A j \in Ours : "ref" \in body'[j] => "ref" \in body[j]
      BY <1>6 DEF resendFileMessage, sendFile, fresh, takesPlace, enqueue,
             TablesTyped
    <3>3. /\ chain' # <<>> /\ (chain # <<>> => Head(chain') = Head(chain))
          /\ \A k \in DOMAIN chain' : \/ chain'[k].id = i /\ chain'[k].body = {}
                                      \/ k \in DOMAIN chain /\ chain'[k] = chain[k]
      BY <3>1, Enqueued
    <3>4. QED  BY <3>1, <3>2, <3>3 DEF BlobIsUp
  <2>9. DataKept'
    BY <1>6 DEF resendFileMessage, sendFile, fresh, takesPlace, enqueue,
           enqueued, Acts, opening, DataKept, exists, hasData, TablesTyped,
           HistoryTyped, NoTrace, PathIsReal, ScreenTyped, ChainTyped, Op
  <2>10. QED  BY <2>1, <2>2, <2>3, <2>4, <2>5, <2>6, <2>7, <2>8, <2>9
<1>7. ASSUME NEW i \in Ours, resendTextMessage(i), UNCHANGED up
      PROVE  MediaIInv'
  <2>1. ChainTyped' /\ ScreenTyped' /\ ReferencesResolve'
    BY <1>7 DEF resendTextMessage, sending, opening, ChainTyped, ScreenTyped,
           ReferencesResolve, hasData, exists
  <2>2. TablesTyped'
    BY <1>7 DEF resendTextMessage, canResend, Row, Acts, sending, opening,
           TablesTyped, Statuses, Parts
  <2>3. HistoryTyped'
    BY <1>7 DEF resendTextMessage, canResend, Row, Acts, sending, opening,
           HistoryTyped
  <2>4. NoTrace'
    BY <1>7 DEF resendTextMessage, canResend, Row, Acts, sending, opening,
           NoTrace, exists, TablesTyped, HistoryTyped, ScreenTyped
  <2>5. PathIsReal'
    BY <1>7 DEF resendTextMessage, canResend, Row, Acts, sending, opening,
           PathIsReal, exists, TablesTyped
  <2>6. ShownIsDated'
    BY <1>7 DEF resendTextMessage, canResend, Row, Acts, sending, opening,
           ShownIsDated, exists, NoTrace, TablesTyped, ScreenTyped
  <2>7. BlobIsUp'
    BY <1>7 DEF resendTextMessage, canResend, Row, Acts, sending, opening,
           BlobIsUp, exists, TablesTyped, ChainTyped, HistoryTyped,
           ScreenTyped, Op
  <2>8. DataKept'
    BY <1>7 DEF resendTextMessage, canResend, Row, Acts, sending, opening,
           DataKept, exists, hasData, TablesTyped, HistoryTyped, NoTrace,
           PathIsReal, ScreenTyped, ChainTyped, Op
  <2>9. QED  BY <2>1, <2>2, <2>3, <2>4, <2>5, <2>6, <2>7, <2>8
<1>8. ASSUME NEW i \in Ours, prepared(i), UNCHANGED up
      PROVE  MediaIInv'
  <2>a. /\ preparing' \subseteq Ours
        /\ UNCHANGED <<up, status, expiry, at, retries, deletion, opening, blobs,
                       accepted, cached, used>>
    BY <1>8 DEF prepared, ChainTyped
  <2>b. \/ files' = files \cup {i} /\ Body(i, {"path"})
        \/ UNCHANGED <<files, body>>
    BY <1>8 DEF prepared, save
  <2>c. chain' = enqueued(i, "send", {}) \/ UNCHANGED chain
    BY <1>8 DEF prepared, enqueue
  <2>d. NoBound \/ Fails
    BY <1>8 DEF prepared
  <2>e. /\ body' \in [Ids -> SUBSET Parts] /\ files' \subseteq Ids /\ files \subseteq files'
        /\ \A j \in Ids : \/ body'[j] = body[j]
                          \/ j = i /\ body'[j] = {"path"} /\ i \in files' /\ exists(i)
    <3>1. i \in Ids /\ {"path"} \in SUBSET Parts /\ TablesTyped
      BY DEF Parts
    <3>2. QED  BY ONLY <2>b, <3>1, Saved
  <2>f. /\ chain' \in Seq(Op) /\ (chain # <<>> => chain' # <<>> /\ Head(chain') = Head(chain))
        /\ \A k \in DOMAIN chain' :
              \/ chain'[k].id = i /\ chain'[k].body = {}
              \/ k \in DOMAIN chain /\ chain'[k] = chain[k]
    BY <2>c, Enqueued DEF ChainTyped
  <2>1. ScreenTyped' /\ ShownIsDated' /\ ReferencesResolve'
    BY <1>8 DEF prepared, opening, ScreenTyped, ShownIsDated,
           ReferencesResolve, hasData, exists
  <2>2. TablesTyped'
    BY <2>a, <2>e DEF TablesTyped
  <2>3. ChainTyped'
    BY <2>a, <2>f DEF ChainTyped
  <2>4. HistoryTyped'
    BY <2>a, <2>d, Counted DEF HistoryTyped
  <2>5. NoTrace'
    BY <2>a, <2>e DEF opening, exists, NoTrace
  <2>6. PathIsReal'
    BY <2>a, <2>e DEF PathIsReal
  <2>7. BlobIsUp'
    <3>1. ASSUME NEW j \in Ours, "ref" \in body'[j]
          PROVE  "ref" \in body[j]
      <4>1. body'[j] = body[j] \/ body'[j] = {"path"}
        BY <2>e
      <4>2. "ref" \notin {"path"}
        OBVIOUS
      <4>3. QED  BY ONLY <3>1, <4>1, <4>2
    <3>2. (at' # "start" => chain' # <<>>) /\ (at' = "uploaded" => Head(chain').id \in blobs')
      BY <2>a, <2>f DEF BlobIsUp
    <3>3. \A k \in DOMAIN chain' : "ref" \in chain'[k].body => chain'[k].id \in blobs'
      BY <2>a, <2>f DEF BlobIsUp
    <3>4. QED  BY <2>a, <3>1, <3>2, <3>3 DEF BlobIsUp
  <2>8. DataKept'
    BY <2>a, <2>e DEF DataKept, hasData, exists
  <2>9. QED  BY <2>1, <2>2, <2>3, <2>4, <2>5, <2>6, <2>7, <2>8
<1>9. ASSUME NEW o \in {chain[k] : k \in 1..Len(chain)}, uploaded(o), UNCHANGED up
      PROVE  MediaIInv'
  <2> DEFINE b == {"ref"} \cup ({"path"} \cap body[o.id])
  <2>a. /\ chain # <<>> /\ o = Head(chain) /\ at = "start" /\ o.id \in Ours
    BY <1>9, Running DEF uploaded
  <2>b. UNCHANGED <<up, expiry, files, preparing, retries, deletion, opening, accepted,
                   cached, used>>
    BY <1>9 DEF uploaded
  <2>c. \/ /\ blobs' = blobs \cup {o.id} /\ (Body(o.id, b) \/ UNCHANGED body)
           /\ KindOf[o.id] = "file" \/ UNCHANGED body
           /\ at' = "uploaded" /\ UNCHANGED <<chain, status>>
        \/ /\ blobs \subseteq blobs' /\ blobs' \subseteq blobs \cup {o.id} /\ UNCHANGED body
           /\ ends /\ Status(o.id, "FAILED")
    BY <1>9 DEF uploaded, upload, goesOn
  <2>d. NoBound \/ Fails
    BY <1>9 DEF uploaded
  <2> HIDE DEF b
  <2>e. b \in SUBSET Parts /\ ("path" \in b <=> "path" \in body[o.id])
    BY DEF b, Parts
  <2>f. /\ body' \in [Ids -> SUBSET Parts]
        /\ \A j \in Ids : \/ body'[j] = body[j]
                          \/ j = o.id /\ KindOf[j] = "file" /\ body'[j] = b
                             /\ exists(o.id) /\ j \in blobs'
    <3>1. o.id \in Ids /\ TablesTyped /\ body \in [Ids -> SUBSET Parts]
      BY <2>a DEF TablesTyped
    <3>2. CASE UNCHANGED body
      BY <3>1, <3>2
    <3>3. CASE Body(o.id, b) /\ blobs' = blobs \cup {o.id} /\ KindOf[o.id] = "file"
      <4>1. /\ body' \in [Ids -> SUBSET Parts]
            /\ \A j \in Ids : body'[j] = IF j = o.id /\ exists(o.id) THEN b ELSE body[j]
        BY ONLY <2>e, <3>1, <3>3, BodyWritten
      <4>2. QED  BY <3>3, <4>1
    <3>4. QED  BY <2>c, <3>2, <3>3
  <2>g. /\ status' \in [Ids -> Statuses]
        /\ \A j \in Ids : status'[j] = "none" <=> status[j] = "none"
    BY <2>a, <2>c, StatusKeepsRows DEF TablesTyped, Statuses
  <2>h. /\ blobs \subseteq blobs' /\ blobs' \subseteq Ids
    BY <2>a, <2>c DEF HistoryTyped
  <2>i. /\ chain' \in Seq(Op)
        /\ \/ UNCHANGED chain /\ at' = "uploaded" /\ o.id \in blobs'
           \/ at' = "start" /\ \A k \in DOMAIN chain' :
                                 k + 1 \in DOMAIN chain /\ chain'[k] = chain[k + 1]
    BY <2>a, <2>c, Dequeued DEF ChainTyped
  <2>1. ScreenTyped'
    BY <1>9 DEF uploaded, opening, ScreenTyped, hasData, exists
  <2>2. TablesTyped'
    BY <2>b, <2>f, <2>g DEF TablesTyped
  <2>3. ChainTyped'
    BY <2>b, <2>i DEF ChainTyped
  <2>4. HistoryTyped'
    BY <2>b, <2>d, <2>h, Counted DEF HistoryTyped
  <2>5. NoTrace'
    BY <2>b, <2>f, <2>g DEF opening, exists, NoTrace
  <2>6. PathIsReal'
    BY <2>a, <2>b, <2>e, <2>f DEF PathIsReal
  <2>7. ShownIsDated'
    BY <2>b, <2>g DEF opening, exists, ShownIsDated, ScreenTyped
  <2>8. BlobIsUp'
    BY <2>a, <2>b, <2>f, <2>h, <2>i DEF BlobIsUp, ChainTyped
  <2>9. ReferencesResolve'
    BY <2>b, <2>h DEF ReferencesResolve
  <2>10. DataKept'
    BY <2>a, <2>b, <2>e, <2>f, <2>g DEF DataKept, hasData, exists
  <2>11. QED  BY <2>1, <2>2, <2>3, <2>4, <2>5, <2>6, <2>7, <2>8, <2>9, <2>10
<1>10. ASSUME NEW o \in {chain[k] : k \in 1..Len(chain)}, emitSendMessage(o), UNCHANGED up
      PROVE  MediaIInv'
  <2>a. /\ chain # <<>> /\ o = Head(chain) /\ o = chain[1] /\ 1 \in DOMAIN chain
        /\ o.id \in Ours /\ o.body \in SUBSET Parts
        /\ at = IF uploads(o) THEN "uploaded" ELSE "start"
    BY <1>10, Running DEF emitSendMessage, readyToEmit
  <2>b. UNCHANGED <<up, body, expiry, files, preparing, retries, deletion, opening, blobs,
                   cached, used>>
    BY <1>10 DEF emitSendMessage, readyToEmit
  <2>c. \/ /\ accepted' = accepted \cup {<<o.id, delivered(o)>>}
           /\ at' = "accepted" /\ UNCHANGED <<chain, status>>
        \/ ends /\ Status(o.id, "FAILED") /\ UNCHANGED accepted
    BY <1>10 DEF emitSendMessage, readyToEmit, goesOn
  <2>d. NoBound \/ Fails
    BY <1>10 DEF emitSendMessage, readyToEmit
  <2>e. delivered(o) \in SUBSET Parts /\ ("ref" \in delivered(o) => o.id \in blobs)
    BY <2>a DEF delivered, Parts, BlobIsUp
  <2>f. /\ accepted' \subseteq Ours \X SUBSET Parts
        /\ \A a \in accepted' : a \in accepted \/ a = <<o.id, delivered(o)>>
    BY <2>a, <2>c, <2>e DEF HistoryTyped
  <2>g. /\ status' \in [Ids -> Statuses]
        /\ \A j \in Ids : status'[j] = "none" <=> status[j] = "none"
    BY <2>a, <2>c, StatusKeepsRows DEF TablesTyped, Statuses
  <2>i. /\ chain' \in Seq(Op)
        /\ \/ UNCHANGED chain /\ at' = "accepted"
           \/ at' = "start" /\ \A k \in DOMAIN chain' :
                                 k + 1 \in DOMAIN chain /\ chain'[k] = chain[k + 1]
    BY <2>a, <2>c, Dequeued DEF ChainTyped
  <2>1. ScreenTyped' /\ PathIsReal'
    BY <1>10 DEF emitSendMessage, readyToEmit, opening, ScreenTyped,
           PathIsReal, hasData,
           exists
  <2>2. TablesTyped'
    BY <2>b, <2>g DEF TablesTyped
  <2>3. ChainTyped'
    BY <2>b, <2>i DEF ChainTyped
  <2>4. HistoryTyped'
    BY <2>b, <2>d, <2>f, Counted DEF HistoryTyped
  <2>5. NoTrace'
    BY <2>b, <2>g DEF opening, exists, NoTrace
  <2>6. ShownIsDated'
    BY <2>b, <2>g DEF opening, exists, ShownIsDated, ScreenTyped
  <2>7. BlobIsUp'
    BY <2>a, <2>b, <2>i DEF BlobIsUp, ChainTyped
  <2>8. ReferencesResolve'
    BY <2>b, <2>e, <2>f DEF ReferencesResolve
  <2>9. DataKept'
    BY <2>b, <2>g DEF DataKept, hasData, exists
  <2>10. QED  BY <2>1, <2>2, <2>3, <2>4, <2>5, <2>6, <2>7, <2>8, <2>9
<1>11. ASSUME NEW o \in {chain[k] : k \in 1..Len(chain)}, answered(o), UNCHANGED up
      PROVE  MediaIInv'
  <2>a. /\ chain # <<>> /\ o = Head(chain) /\ o.id \in Ours
    BY <1>11, Running DEF answered
  <2>b. /\ ends
        /\ UNCHANGED <<up, expiry, preparing, retries, deletion, opening, blobs, accepted,
                       cached, used>>
    BY <1>11 DEF answered
  <2>c. \E st \in {"SENT", "UNDELIVERED", "FAILED"} : Status(o.id, st)
    BY <1>11 DEF answered
  <2>d. NoBound \/ Fails
    BY <1>11 DEF answered
  <2>e. \/ files' = files \cup {o.id} /\ Body(o.id, {"path"})
        \/ UNCHANGED <<files, body>>
    BY <1>11 DEF answered, persistImageToFilesystem, save
  <2>f. /\ body' \in [Ids -> SUBSET Parts] /\ files' \subseteq Ids /\ files \subseteq files'
        /\ \A j \in Ids : \/ body'[j] = body[j]
                          \/ j = o.id /\ body'[j] = {"path"} /\ j \in files'
    <3>1. o.id \in Ids /\ {"path"} \in SUBSET Parts /\ TablesTyped
      BY <2>a DEF Parts
    <3>2. QED  BY ONLY <2>e, <3>1, Saved
  <2>g. /\ status' \in [Ids -> Statuses]
        /\ \A j \in Ids : status'[j] = "none" <=> status[j] = "none"
    BY <2>a, <2>c, StatusKeepsRows DEF Statuses
  <2>h. \A j \in Ids : status[j] = "none" => body'[j] = body[j]
    BY <2>a, <2>e, BodyWritten DEF exists, Parts
  <2>i. /\ chain' \in Seq(Op) /\ at' = "start"
        /\ \A k \in DOMAIN chain' : k + 1 \in DOMAIN chain /\ chain'[k] = chain[k + 1]
    BY <2>a, <2>b, Dequeued
  <2>1. ScreenTyped' /\ ReferencesResolve'
    BY <1>11 DEF answered, opening, ScreenTyped, ReferencesResolve, hasData,
           exists
  <2>2. TablesTyped'
    BY <2>b, <2>f, <2>g DEF TablesTyped
  <2>3. ChainTyped'
    BY <2>b, <2>i DEF ChainTyped
  <2>4. HistoryTyped'
    BY <2>b, <2>d, Counted DEF HistoryTyped
  <2>5. NoTrace'
    BY <2>b, <2>g, <2>h DEF opening, exists, NoTrace
  <2>6. PathIsReal'
    BY <2>b, <2>f DEF PathIsReal
  <2>7. ShownIsDated'
    BY <2>b, <2>g DEF opening, exists, ShownIsDated, ScreenTyped
  <2>8. BlobIsUp'
    BY <2>b, <2>f, <2>i DEF BlobIsUp
  <2>9. DataKept'
    BY <2>b, <2>f, <2>g DEF DataKept, hasData, exists
  <2>10. QED  BY <2>1, <2>2, <2>3, <2>4, <2>5, <2>6, <2>7, <2>8, <2>9
<1>12. ASSUME retrySendingMessages, UNCHANGED up
      PROVE  MediaIInv'
  <2>1. /\ TablesTyped' /\ ScreenTyped' /\ NoTrace' /\ PathIsReal'
        /\ ShownIsDated' /\ ReferencesResolve' /\ DataKept'
    BY <1>12 DEF retrySendingMessages, tables, opening, TablesTyped,
           ScreenTyped, NoTrace, PathIsReal, ShownIsDated, ReferencesResolve,
           DataKept, hasData, exists
  <2>2. ChainTyped'
    <3>1. retries' \subseteq [id : Ours, body : SUBSET Parts]
      BY <1>12 DEF retrySendingMessages, TablesTyped
    <3>2. QED  BY <1>12, <3>1 DEF retrySendingMessages, ChainTyped
  <2>3. HistoryTyped'
    BY <1>12 DEF retrySendingMessages, Acts, tables, opening, HistoryTyped
  <2>4. BlobIsUp'
    BY <1>12 DEF retrySendingMessages, Acts, tables, opening, BlobIsUp, exists,
           TablesTyped, ChainTyped, HistoryTyped, ScreenTyped, Op
  <2>5. QED  BY <2>1, <2>2, <2>3, <2>4
<1>13. ASSUME retryMessageSend, UNCHANGED up
      PROVE  MediaIInv'
  <2>1. /\ TablesTyped' /\ ScreenTyped' /\ HistoryTyped' /\ NoTrace'
        /\ PathIsReal' /\ ShownIsDated' /\ ReferencesResolve' /\ DataKept'
    BY <1>13 DEF retryMessageSend, tables, opening, counters, TablesTyped,
           ScreenTyped, HistoryTyped, NoTrace, PathIsReal, ShownIsDated,
           ReferencesResolve, DataKept, hasData, exists
  <2>2. ChainTyped'
    BY <1>13 DEF retryMessageSend, enqueued, tables, opening, counters,
           ChainTyped, Op, Parts
  <2>3. BlobIsUp'
    <3>1. PICK m \in retries : /\ retries' = retries \ {m}
                                /\ chain' = enqueued(m.id, "retry", m.body)
      BY <1>13 DEF retryMessageSend
    <3>2. /\ m.id \in Ours /\ m.body \in SUBSET Parts
          /\ "ref" \in m.body => m.id \in blobs
      BY DEF ChainTyped, BlobIsUp
    <3>3. /\ chain' # <<>> /\ (chain # <<>> => Head(chain') = Head(chain))
          /\ \A k \in DOMAIN chain' :
                \/ chain'[k].id = m.id /\ chain'[k].body = m.body
                \/ k \in DOMAIN chain /\ chain'[k] = chain[k]
      BY <3>1, <3>2, Enqueued
    <3>4. UNCHANGED <<at, blobs, body>>
      BY <1>13 DEF retryMessageSend, tables
    <3>5. QED  BY <3>1, <3>2, <3>3, <3>4 DEF BlobIsUp
  <2>4. QED  BY <2>1, <2>2, <2>3
<1>14. ASSUME NEW i \in Ours, deleteMessageForEveryone(i), UNCHANGED up
      PROVE  MediaIInv'
  <2>1. /\ TablesTyped' /\ ChainTyped' /\ NoTrace' /\ PathIsReal'
        /\ ShownIsDated' /\ BlobIsUp' /\ ReferencesResolve' /\ DataKept'
    BY <1>14 DEF deleteMessageForEveryone, tables, sending, opening,
           TablesTyped, ChainTyped, NoTrace, PathIsReal, ShownIsDated,
           BlobIsUp, ReferencesResolve, DataKept, hasData, exists
  <2>2. ScreenTyped'
    BY <1>14 DEF deleteMessageForEveryone, Acts, tables, sending, opening,
           ScreenTyped
  <2>3. HistoryTyped'
    BY <1>14 DEF deleteMessageForEveryone, Acts, tables, sending, opening,
           HistoryTyped
  <2>4. QED  BY <2>1, <2>2, <2>3
<1>15. ASSUME NEW i \in Ours, deleted(i), UNCHANGED up
      PROVE  MediaIInv'
  <2>1. ChainTyped' /\ ReferencesResolve'
    BY <1>15 DEF deleted, sending, opening, ChainTyped, ReferencesResolve,
           hasData, exists
  <2>2. TablesTyped'
    BY <1>15 DEF deleted, removeMessage, Row, NoBound, Fails, sending, opening,
           TablesTyped, Statuses, Parts
  <2>3. ScreenTyped'
    BY <1>15 DEF deleted, removeMessage, Row, NoBound, Fails, sending, opening,
           ScreenTyped
  <2>4. HistoryTyped'
    <3>1. NoBound \/ Fails
      BY <1>15 DEF deleted
    <3>2. QED  BY <1>15, <3>1, Counted DEF deleted, HistoryTyped
  <2>5. NoTrace'
    BY <1>15 DEF deleted, removeMessage, Row, NoBound, Fails, sending, opening,
           NoTrace, exists, TablesTyped, HistoryTyped, ScreenTyped
  <2>6. PathIsReal'
    BY <1>15 DEF deleted, removeMessage, Row, NoBound, Fails, sending, opening,
           PathIsReal, exists, TablesTyped
  <2>7. ShownIsDated'
    BY <1>15 DEF deleted, removeMessage, Row, NoBound, Fails, sending, opening,
           ShownIsDated, exists, NoTrace, TablesTyped, ScreenTyped
  <2>8. BlobIsUp'
    BY <1>15 DEF deleted, removeMessage, Row, NoBound, Fails, sending, opening,
           BlobIsUp, exists, TablesTyped, ChainTyped, HistoryTyped,
           ScreenTyped, Op
  <2>9. DataKept'
    BY <1>15 DEF deleted, removeMessage, Row, NoBound, Fails, sending, opening,
           DataKept, exists, hasData, TablesTyped, HistoryTyped, NoTrace,
           PathIsReal, ScreenTyped, ChainTyped, Op
  <2>10. QED  BY <2>1, <2>2, <2>3, <2>4, <2>5, <2>6, <2>7, <2>8, <2>9
<1>16. ASSUME NEW t \in Theirs, handleUserMessage(t), UNCHANGED up
      PROVE  MediaIInv'
  <2>1. ChainTyped'
    BY <1>16 DEF handleUserMessage, sending, ChainTyped, hasData, exists
  <2>2. TablesTyped'
    BY <1>16 DEF handleUserMessage, Row, Acts, sending, TablesTyped, Statuses,
           Parts
  <2>3. ScreenTyped'
    BY <1>16 DEF handleUserMessage, Row, Acts, sending, ScreenTyped
  <2>4. HistoryTyped'
    BY <1>16 DEF handleUserMessage, Row, Acts, sending, HistoryTyped
  <2>5. NoTrace'
    BY <1>16 DEF handleUserMessage, Row, Acts, sending, NoTrace, exists,
           TablesTyped, HistoryTyped, ScreenTyped
  <2>6. PathIsReal'
    BY <1>16 DEF handleUserMessage, Row, Acts, sending, PathIsReal, exists,
           TablesTyped
  <2>7. ShownIsDated'
    BY <1>16 DEF handleUserMessage, Row, Acts, sending, ShownIsDated, exists,
           NoTrace, TablesTyped, ScreenTyped
  <2>8. BlobIsUp'
    BY <1>16 DEF handleUserMessage, Row, Acts, sending, BlobIsUp, exists,
           TablesTyped, ChainTyped, HistoryTyped, ScreenTyped, Op
  <2>9. ReferencesResolve'
    BY <1>16 DEF handleUserMessage, Row, Acts, sending, ReferencesResolve,
           BlobIsUp, ChainTyped, Op
  <2>10. DataKept'
    BY <1>16 DEF handleUserMessage, Row, Acts, sending, DataKept, exists,
           hasData, TablesTyped, HistoryTyped, NoTrace, PathIsReal,
           ScreenTyped, ChainTyped, Op
  <2>11. QED  BY <2>1, <2>2, <2>3, <2>4, <2>5, <2>6, <2>7, <2>8, <2>9, <2>10
<1>17. ASSUME NEW t \in Theirs, handleMessageDeleted(t), UNCHANGED up
      PROVE  MediaIInv'
  <2>1. ChainTyped' /\ ScreenTyped' /\ ReferencesResolve'
    BY <1>17 DEF handleMessageDeleted, sending, opening, ChainTyped,
           ScreenTyped, ReferencesResolve, hasData, exists
  <2>2. TablesTyped'
    BY <1>17 DEF handleMessageDeleted, removeMessage, Row, Acts, sending,
           opening, TablesTyped, Statuses, Parts
  <2>3. HistoryTyped'
    BY <1>17 DEF handleMessageDeleted, removeMessage, Row, Acts, sending,
           opening, HistoryTyped
  <2>4. NoTrace'
    BY <1>17 DEF handleMessageDeleted, removeMessage, Row, Acts, sending,
           opening, NoTrace, exists, TablesTyped, HistoryTyped, ScreenTyped
  <2>5. PathIsReal'
    BY <1>17 DEF handleMessageDeleted, removeMessage, Row, Acts, sending,
           opening, PathIsReal, exists, TablesTyped
  <2>6. ShownIsDated'
    BY <1>17 DEF handleMessageDeleted, removeMessage, Row, Acts, sending,
           opening, ShownIsDated, exists, NoTrace, TablesTyped, ScreenTyped
  <2>7. BlobIsUp'
    BY <1>17 DEF handleMessageDeleted, removeMessage, Row, Acts, sending,
           opening, BlobIsUp, exists, TablesTyped, ChainTyped, HistoryTyped,
           ScreenTyped, Op
  <2>8. DataKept'
    BY <1>17 DEF handleMessageDeleted, removeMessage, Row, Acts, sending,
           opening, DataKept, exists, hasData, TablesTyped, HistoryTyped,
           NoTrace, PathIsReal, ScreenTyped, ChainTyped, Op
  <2>9. QED  BY <2>1, <2>2, <2>3, <2>4, <2>5, <2>6, <2>7, <2>8
<1>18. ASSUME NEW t \in Theirs, handlePress(t), UNCHANGED up
      PROVE  MediaIInv'
  <2>1. /\ TablesTyped' /\ ChainTyped' /\ NoTrace' /\ PathIsReal'
        /\ ShownIsDated' /\ BlobIsUp' /\ ReferencesResolve' /\ DataKept'
    BY <1>18 DEF handlePress, tables, sending, TablesTyped, ChainTyped,
           NoTrace, PathIsReal, ShownIsDated, BlobIsUp, ReferencesResolve,
           DataKept, hasData, exists
  <2>2. ScreenTyped'
    BY <1>18 DEF handlePress, Acts, tables, sending, ScreenTyped
  <2>3. HistoryTyped'
    BY <1>18 DEF handlePress, Acts, tables, sending, HistoryTyped
  <2>4. QED  BY <2>1, <2>2, <2>3
<1>19. ASSUME NEW t \in Theirs, handleImagePress(t), UNCHANGED up
      PROVE  MediaIInv'
  <2>1. /\ TablesTyped' /\ ChainTyped' /\ PathIsReal' /\ BlobIsUp'
        /\ ReferencesResolve' /\ DataKept'
    BY <1>19 DEF handleImagePress, tables, sending, TablesTyped, ChainTyped,
           PathIsReal, BlobIsUp, ReferencesResolve, DataKept, hasData, exists
  <2>2. ScreenTyped'
    BY <1>19 DEF handleImagePress, canBeViewed, Acts, tables, sending,
           ScreenTyped
  <2>3. HistoryTyped'
    BY <1>19 DEF handleImagePress, canBeViewed, Acts, tables, sending,
           HistoryTyped
  <2>4. NoTrace'
    BY <1>19 DEF handleImagePress, canBeViewed, Acts, tables, sending, NoTrace,
           exists, TablesTyped, HistoryTyped, ScreenTyped
  <2>5. ShownIsDated'
    BY <1>19 DEF handleImagePress, canBeViewed, Acts, tables, sending,
           ShownIsDated, exists, NoTrace, TablesTyped, ScreenTyped
  <2>6. QED  BY <2>1, <2>2, <2>3, <2>4, <2>5
<1>20. ASSUME NEW t \in Theirs, downloadAndDecryptPersistentImage(t), UNCHANGED up
      PROVE  MediaIInv'
  <2>a. \/ files' = files \cup {t} /\ Body(t, {"path"})
        \/ UNCHANGED <<files, body>>
    BY <1>20 DEF downloadAndDecryptPersistentImage, fetched, save
  <2>1. ChainTyped' /\ ShownIsDated' /\ ReferencesResolve'
    BY <1>20 DEF downloadAndDecryptPersistentImage, fetched, sending,
           ChainTyped, ShownIsDated, ReferencesResolve, hasData, exists
  <2>2. TablesTyped'
    BY <1>20, <2>a, Saved DEF downloadAndDecryptPersistentImage, fetched,
           TablesTyped, Parts
  <2>3. ScreenTyped'
    BY <1>20 DEF downloadAndDecryptPersistentImage, fetched, save, Body,
           NoBound, Fails, sending, ScreenTyped
  <2>4. HistoryTyped'
    <3>1. NoBound \/ Fails
      BY <1>20 DEF downloadAndDecryptPersistentImage, fetched
    <3>2. QED  BY <1>20, <3>1, Counted DEF downloadAndDecryptPersistentImage,
           fetched, HistoryTyped
  <2>5. NoTrace'
    BY <1>20 DEF downloadAndDecryptPersistentImage, fetched, save, Body,
           NoBound, Fails, sending, NoTrace, exists, TablesTyped, HistoryTyped,
           ScreenTyped
  <2>6. PathIsReal'
    BY <1>20 DEF downloadAndDecryptPersistentImage, fetched, save, Body,
           NoBound, Fails, sending, PathIsReal, exists, TablesTyped
  <2>7. BlobIsUp'
    BY <1>20 DEF downloadAndDecryptPersistentImage, fetched, save, Body,
           NoBound, Fails, sending, BlobIsUp, exists, TablesTyped, ChainTyped,
           HistoryTyped, ScreenTyped, Op
  <2>8. DataKept'
    BY <1>20 DEF downloadAndDecryptPersistentImage, fetched, save, Body,
           NoBound, Fails, sending, DataKept, exists, hasData, TablesTyped,
           HistoryTyped, NoTrace, PathIsReal, ScreenTyped, ChainTyped, Op
  <2>9. QED  BY <2>1, <2>2, <2>3, <2>4, <2>5, <2>6, <2>7, <2>8
<1>21. ASSUME NEW t \in Theirs, downloadAndDecryptFile(t), UNCHANGED up
      PROVE  MediaIInv'
  <2>a. \/ files' = files \cup {t} /\ Body(t, {"ref", "path"})
        \/ UNCHANGED <<files, body>>
    BY <1>21 DEF downloadAndDecryptFile, fetched, save
  <2>1. ChainTyped' /\ ShownIsDated' /\ ReferencesResolve'
    BY <1>21 DEF downloadAndDecryptFile, fetched, sending, ChainTyped,
           ShownIsDated, ReferencesResolve, hasData, exists
  <2>2. TablesTyped'
    BY <1>21, <2>a, Saved DEF downloadAndDecryptFile, fetched, TablesTyped,
           Parts
  <2>3. ScreenTyped'
    BY <1>21 DEF downloadAndDecryptFile, fetched, save, Body, NoBound, Fails,
           sending, ScreenTyped
  <2>4. HistoryTyped'
    <3>1. NoBound \/ Fails
      BY <1>21 DEF downloadAndDecryptFile, fetched
    <3>2. QED  BY <1>21, <3>1, Counted DEF downloadAndDecryptFile, fetched,
           HistoryTyped
  <2>5. NoTrace'
    BY <1>21 DEF downloadAndDecryptFile, fetched, save, Body, NoBound, Fails,
           sending, NoTrace, exists, TablesTyped, HistoryTyped, ScreenTyped
  <2>6. PathIsReal'
    BY <1>21 DEF downloadAndDecryptFile, fetched, save, Body, NoBound, Fails,
           sending, PathIsReal, exists, TablesTyped
  <2>7. BlobIsUp'
    BY <1>21 DEF downloadAndDecryptFile, fetched, save, Body, NoBound, Fails,
           sending, BlobIsUp, exists, TablesTyped, ChainTyped, HistoryTyped,
           ScreenTyped, Op
  <2>8. DataKept'
    BY <1>21 DEF downloadAndDecryptFile, fetched, save, Body, NoBound, Fails,
           sending, DataKept, exists, hasData, TablesTyped, HistoryTyped,
           NoTrace, PathIsReal, ScreenTyped, ChainTyped, Op
  <2>9. QED  BY <2>1, <2>2, <2>3, <2>4, <2>5, <2>6, <2>7, <2>8
<1>22. ASSUME loadImage, UNCHANGED up
      PROVE  MediaIInv'
  <2>1. /\ ChainTyped' /\ HistoryTyped' /\ NoTrace' /\ PathIsReal'
        /\ BlobIsUp' /\ ReferencesResolve' /\ DataKept'
    BY <1>22 DEF loadImage, sending, counters, ChainTyped, HistoryTyped,
           NoTrace, PathIsReal, BlobIsUp, ReferencesResolve, DataKept, hasData,
           exists
  <2>2. TablesTyped'
    BY <1>22 DEF loadImage, setExpiry, sending, counters, TablesTyped,
           Statuses, Parts
  <2>3. ScreenTyped'
    BY <1>22 DEF loadImage, setExpiry, sending, counters, ScreenTyped
  <2>4. ShownIsDated'
    BY <1>22 DEF loadImage, setExpiry, sending, counters, ShownIsDated, exists,
           NoTrace, TablesTyped, ScreenTyped
  <2>5. QED  BY <2>1, <2>2, <2>3, <2>4
<1>23. ASSUME loadGone, UNCHANGED up
      PROVE  MediaIInv'
  <2>1. ChainTyped'
    BY <1>23 DEF loadGone, closes, sending, counters, ChainTyped, hasData,
           exists
  <2>2. TablesTyped'
    BY <1>23 DEF loadGone, expireMessage, Body, closes, sending, counters,
           TablesTyped, Statuses, Parts
  <2>3. ScreenTyped'
    BY <1>23 DEF loadGone, expireMessage, Body, closes, sending, counters,
           ScreenTyped
  <2>4. HistoryTyped'
    BY <1>23 DEF loadGone, expireMessage, Body, closes, sending, counters,
           HistoryTyped
  <2>5. NoTrace'
    BY <1>23 DEF loadGone, expireMessage, Body, closes, sending, counters,
           NoTrace, exists, TablesTyped, HistoryTyped, ScreenTyped
  <2>6. PathIsReal'
    BY <1>23 DEF loadGone, expireMessage, Body, closes, sending, counters,
           PathIsReal, exists, TablesTyped
  <2>7. ShownIsDated'
    BY <1>23 DEF loadGone, expireMessage, Body, closes, sending, counters,
           ShownIsDated, exists, NoTrace, TablesTyped, ScreenTyped
  <2>8. BlobIsUp'
    BY <1>23 DEF loadGone, expireMessage, Body, closes, sending, counters,
           BlobIsUp, exists, TablesTyped, ChainTyped, HistoryTyped,
           ScreenTyped, Op
  <2>9. ReferencesResolve'
    BY <1>23 DEF loadGone, expireMessage, Body, closes, sending, counters,
           ReferencesResolve, BlobIsUp, ChainTyped, Op
  <2>10. DataKept'
    BY <1>23 DEF loadGone, expireMessage, Body, closes, sending, counters,
           DataKept, exists, hasData, TablesTyped, HistoryTyped, NoTrace,
           PathIsReal, ScreenTyped, ChainTyped, Op
  <2>11. QED  BY <2>1, <2>2, <2>3, <2>4, <2>5, <2>6, <2>7, <2>8, <2>9, <2>10
<1>24. ASSUME countdownEnds, UNCHANGED up
      PROVE  MediaIInv'
  <2>a. /\ \A j \in Ours : j \in blobs => j \in blobs'
        /\ \A j \in Ours : "ref" \in body'[j] => "ref" \in body[j]
        /\ UNCHANGED <<chain, at, retries, accepted>>
    BY <1>24 DEF countdownEnds, expireMessage, Body, closes, tables, sending,
           opening, ScreenTyped, TablesTyped, HistoryTyped
  <2>1. ChainTyped'
    BY <1>24 DEF countdownEnds, closes, sending, counters, ChainTyped, hasData,
           exists
  <2>2. TablesTyped'
    BY <1>24 DEF countdownEnds, expireMessage, Body, closes, sending, counters,
           TablesTyped, Statuses, Parts
  <2>3. ScreenTyped'
    BY <1>24 DEF countdownEnds, expireMessage, Body, closes, sending, counters,
           ScreenTyped
  <2>4. HistoryTyped'
    BY <1>24 DEF countdownEnds, expireMessage, Body, closes, sending, counters,
           HistoryTyped
  <2>5. NoTrace'
    BY <1>24 DEF countdownEnds, expireMessage, Body, closes, sending, counters,
           NoTrace, exists, TablesTyped, HistoryTyped, ScreenTyped
  <2>6. PathIsReal'
    BY <1>24 DEF countdownEnds, expireMessage, Body, closes, sending, counters,
           PathIsReal, exists, TablesTyped
  <2>7. ShownIsDated'
    BY <1>24 DEF countdownEnds, expireMessage, Body, closes, sending, counters,
           ShownIsDated, exists, NoTrace, TablesTyped, ScreenTyped
  <2>8. BlobIsUp'
    <3>1. \A m \in retries : m.id \in Ours
      BY DEF ChainTyped
    <3>2. QED  BY <2>a, <3>1, OnChain DEF BlobIsUp
  <2>9. ReferencesResolve'
    BY <2>a DEF ReferencesResolve, HistoryTyped
  <2>10. DataKept'
    BY <1>24 DEF countdownEnds, expireMessage, Body, closes, sending, counters,
           DataKept, exists, hasData, TablesTyped, HistoryTyped, NoTrace,
           PathIsReal, ScreenTyped, ChainTyped, Op
  <2>11. QED  BY <2>1, <2>2, <2>3, <2>4, <2>5, <2>6, <2>7, <2>8, <2>9, <2>10
<1>25. ASSUME handleClose, UNCHANGED up
      PROVE  MediaIInv'
  <2>a. /\ \A j \in Ours : j \in blobs => j \in blobs'
        /\ \A j \in Ours : "ref" \in body'[j] => "ref" \in body[j]
        /\ UNCHANGED <<chain, at, retries, accepted>>
    BY <1>25 DEF handleClose, expireMessage, Body, closes, tables, sending,
           opening, ScreenTyped, TablesTyped, HistoryTyped
  <2>1. ChainTyped'
    BY <1>25 DEF handleClose, closes, sending, counters, ChainTyped, hasData,
           exists
  <2>2. TablesTyped'
    BY <1>25 DEF handleClose, expireMessage, Body, closes, sending, counters,
           TablesTyped, Statuses, Parts
  <2>3. ScreenTyped'
    BY <1>25 DEF handleClose, expireMessage, Body, closes, sending, counters,
           ScreenTyped
  <2>4. HistoryTyped'
    BY <1>25 DEF handleClose, expireMessage, Body, closes, sending, counters,
           HistoryTyped
  <2>5. NoTrace'
    BY <1>25 DEF handleClose, expireMessage, Body, closes, sending, counters,
           NoTrace, exists, TablesTyped, HistoryTyped, ScreenTyped
  <2>6. PathIsReal'
    BY <1>25 DEF handleClose, expireMessage, Body, closes, sending, counters,
           PathIsReal, exists, TablesTyped
  <2>7. ShownIsDated'
    BY <1>25 DEF handleClose, expireMessage, Body, closes, sending, counters,
           ShownIsDated, exists, NoTrace, TablesTyped, ScreenTyped
  <2>8. BlobIsUp'
    <3>1. \A m \in retries : m.id \in Ours
      BY DEF ChainTyped
    <3>2. QED  BY <2>a, <3>1, OnChain DEF BlobIsUp
  <2>9. ReferencesResolve'
    BY <2>a DEF ReferencesResolve, HistoryTyped
  <2>10. DataKept'
    BY <1>25 DEF handleClose, expireMessage, Body, closes, sending, counters,
           DataKept, exists, hasData, TablesTyped, HistoryTyped, NoTrace,
           PathIsReal, ScreenTyped, ChainTyped, Op
  <2>11. QED  BY <2>1, <2>2, <2>3, <2>4, <2>5, <2>6, <2>7, <2>8, <2>9, <2>10
<1>26. ASSUME unmount, UNCHANGED up
      PROVE  MediaIInv'
  <2>1. /\ TablesTyped' /\ ChainTyped' /\ PathIsReal' /\ BlobIsUp'
        /\ ReferencesResolve' /\ DataKept'
    BY <1>26 DEF unmount, closes, tables, sending, TablesTyped, ChainTyped,
           PathIsReal, BlobIsUp, ReferencesResolve, DataKept, hasData, exists
  <2>2. ScreenTyped'
    BY <1>26 DEF unmount, closes, Acts, tables, sending, ScreenTyped
  <2>3. HistoryTyped'
    BY <1>26 DEF unmount, closes, Acts, tables, sending, HistoryTyped
  <2>4. NoTrace'
    BY <1>26 DEF unmount, closes, Acts, tables, sending, NoTrace, exists,
           TablesTyped, HistoryTyped, ScreenTyped
  <2>5. ShownIsDated'
    BY <1>26 DEF unmount, closes, Acts, tables, sending, ShownIsDated, exists,
           NoTrace, TablesTyped, ScreenTyped
  <2>6. QED  BY <2>1, <2>2, <2>3, <2>4, <2>5
<1>27. ASSUME NEW t \in Theirs, expires(t), UNCHANGED up
      PROVE  MediaIInv'
  <2>1. /\ ChainTyped' /\ ScreenTyped' /\ HistoryTyped' /\ NoTrace'
        /\ PathIsReal' /\ BlobIsUp' /\ ReferencesResolve' /\ DataKept'
    BY <1>27 DEF expires, sending, opening, counters, ChainTyped, ScreenTyped,
           HistoryTyped, NoTrace, PathIsReal, BlobIsUp, ReferencesResolve,
           DataKept, hasData, exists
  <2>2. TablesTyped'
    BY <1>27 DEF expires, sending, opening, counters, TablesTyped, Statuses,
           Parts
  <2>3. ShownIsDated'
    BY <1>27 DEF expires, sending, opening, counters, ShownIsDated, exists,
           NoTrace, TablesTyped, ScreenTyped
  <2>4. QED  BY <2>1, <2>2, <2>3
<1>28. ASSUME NEW t \in Theirs, blobGoes(t), UNCHANGED up
      PROVE  MediaIInv'
  <2>a. /\ \A j \in Ours : j \in blobs => j \in blobs'
        /\ \A j \in Ours : "ref" \in body'[j] => "ref" \in body[j]
        /\ UNCHANGED <<chain, at, retries, accepted>>
    BY <1>28 DEF blobGoes, Acts, tables, sending, opening, ScreenTyped,
           TablesTyped, HistoryTyped
  <2>1. /\ TablesTyped' /\ ChainTyped' /\ ScreenTyped' /\ NoTrace'
        /\ PathIsReal' /\ ShownIsDated' /\ DataKept'
    BY <1>28 DEF blobGoes, tables, sending, opening, TablesTyped, ChainTyped,
           ScreenTyped, NoTrace, PathIsReal, ShownIsDated, DataKept, hasData,
           exists
  <2>2. HistoryTyped'
    BY <1>28 DEF blobGoes, Acts, tables, sending, opening, HistoryTyped
  <2>3. BlobIsUp'
    <3>1. \A m \in retries : m.id \in Ours
      BY DEF ChainTyped
    <3>2. QED  BY <2>a, <3>1, OnChain DEF BlobIsUp
  <2>4. ReferencesResolve'
    BY <2>a DEF ReferencesResolve, HistoryTyped
  <2>5. QED  BY <2>1, <2>2, <2>3, <2>4
<1>29. ASSUME kill
      PROVE  MediaIInv'
  <2>1. /\ TablesTyped' /\ HistoryTyped' /\ PathIsReal' /\ ReferencesResolve'
        /\ DataKept'
    BY <1>29 DEF kill, closes, tables, counters, TablesTyped, HistoryTyped,
           PathIsReal, ReferencesResolve, DataKept, hasData, exists
  <2>2. ChainTyped'
    BY <1>29 DEF kill, closes, tables, counters, ChainTyped, Op, Parts
  <2>3. ScreenTyped'
    BY <1>29 DEF kill, closes, tables, counters, ScreenTyped
  <2>4. NoTrace'
    BY <1>29 DEF kill, closes, tables, counters, NoTrace, exists, TablesTyped,
           HistoryTyped, ScreenTyped
  <2>5. ShownIsDated'
    BY <1>29 DEF kill, closes, tables, counters, ShownIsDated, exists, NoTrace,
           TablesTyped, ScreenTyped
  <2>6. BlobIsUp'
    BY <1>29 DEF kill, closes, tables, counters, BlobIsUp, exists, TablesTyped,
           ChainTyped, HistoryTyped, ScreenTyped, Op
  <2>7. QED  BY <2>1, <2>2, <2>3, <2>4, <2>5, <2>6
<1>30. ASSUME initialize
      PROVE  MediaIInv'
  <2>1. ChainTyped' /\ HistoryTyped' /\ ReferencesResolve'
    BY <1>30 DEF initialize, sending, opening, counters, ChainTyped,
           HistoryTyped, ReferencesResolve, hasData, exists
  <2>2. TablesTyped'
    BY <1>30 DEF initialize, recoverStuckMessages,
           cleanupExpiredEphemeralMessages, sending, opening, counters,
           TablesTyped, Statuses, Parts
  <2>3. ScreenTyped'
    BY <1>30 DEF initialize, recoverStuckMessages,
           cleanupExpiredEphemeralMessages, sending, opening, counters,
           ScreenTyped
  <2>4. NoTrace'
    BY <1>30 DEF initialize, recoverStuckMessages,
           cleanupExpiredEphemeralMessages, sending, opening, counters,
           NoTrace, exists, TablesTyped, HistoryTyped, ScreenTyped
  <2>5. PathIsReal'
    BY <1>30 DEF initialize, recoverStuckMessages,
           cleanupExpiredEphemeralMessages, sending, opening, counters,
           PathIsReal, exists, TablesTyped
  <2>6. ShownIsDated'
    BY <1>30 DEF initialize, recoverStuckMessages,
           cleanupExpiredEphemeralMessages, sending, opening, counters,
           ShownIsDated, exists, NoTrace, TablesTyped, ScreenTyped
  <2>7. BlobIsUp'
    BY <1>30 DEF initialize, recoverStuckMessages,
           cleanupExpiredEphemeralMessages, sending, opening, counters,
           BlobIsUp, exists, TablesTyped, ChainTyped, HistoryTyped,
           ScreenTyped, Op
  <2>8. DataKept'
    BY <1>30 DEF initialize, recoverStuckMessages,
           cleanupExpiredEphemeralMessages, sending, opening, counters,
           DataKept, exists, hasData, TablesTyped, HistoryTyped, NoTrace,
           PathIsReal, ScreenTyped, ChainTyped, Op
  <2>9. QED  BY <2>1, <2>2, <2>3, <2>4, <2>5, <2>6, <2>7, <2>8
<1>31. CASE UNCHANGED vars
  BY <1>31 DEF vars, tables, sending, opening, counters, TablesTyped,
         ChainTyped, ScreenTyped, HistoryTyped, NoTrace, PathIsReal,
         ShownIsDated, BlobIsUp, ReferencesResolve, DataKept, hasData, exists
<1>32. QED
  BY <1>1, <1>2, <1>3, <1>4, <1>5, <1>6, <1>7, <1>8, <1>9, <1>10, <1>11, <1>12,
         <1>13, <1>14, <1>15, <1>16, <1>17, <1>18, <1>19, <1>20, <1>21, <1>22,
         <1>23, <1>24, <1>25, <1>26, <1>27, <1>28, <1>29, <1>30, <1>31
     DEF Next, AppStep, Sending, Operation, Deleting, Opening, Viewing

LEMMA InitKeeps == Init => MediaIInv
<1> SUFFICES ASSUME Init
             PROVE  MediaIInv
  OBVIOUS
<1>0. MaxActs \in Nat /\ MaxFaults \in Nat
  BY MediaAssumption
<1>1. TablesTyped /\ ChainTyped /\ ScreenTyped /\ HistoryTyped
  <2>1. TablesTyped /\ ChainTyped /\ HistoryTyped
    BY <1>0 DEF Init, Ids, Statuses, TablesTyped, ChainTyped, HistoryTyped
  <2>2. up \in BOOLEAN /\ shown \in BOOLEAN /\ (shown => viewer # NoMessage)
    BY Zenon DEF Init
  <2>3. /\ deletion \in [Ids -> {"no", "asked"}]
        /\ downloads \subseteq Theirs /\ viewer \in Theirs \cup {NoMessage}
    BY DEF Init
  <2>4. QED  BY <2>1, <2>2, <2>3 DEF ScreenTyped
<1>2. NoTrace /\ PathIsReal /\ ShownIsDated
  BY DEF Init, Ids, NoTrace, PathIsReal, ShownIsDated
<1>3. BlobIsUp /\ ReferencesResolve /\ DataKept
  BY DEF Init, Ids, BlobIsUp, ReferencesResolve, DataKept, exists
<1>4. QED  BY <1>1, <1>2, <1>3 DEF MediaIInv

LEMMA Invariance == Spec => []MediaIInv
<1>1. Init => MediaIInv
  BY InitKeeps
<1>2. MediaIInv /\ [Next]_vars => MediaIInv'
  BY StepKeeps
<1>3. QED  BY <1>1, <1>2, PTL DEF Spec

-----------------------------------------------------------------------------
(* A delivered reference always has its blob: the upload comes first, at   *)
(* the first attempt, in what a row says, and in what a reconnection read  *)
(* to send again (sendFileMessage, retrySendingMessages).                  *)
THEOREM BlobsComeFirst == Spec => []ReferencesResolve
<1>1. MediaIInv => ReferencesResolve
  BY DEF MediaIInv
<1>2. QED  BY <1>1, Invariance, PTL

(* Every variable has its type, every row that names a file has it on      *)
(* disk, and what is shown is dated (image-file.utils, file-handler.utils, *)
(* EphemeralImageViewer).                                                  *)
THEOREM RowsAreTrue == Spec => []MediaInv
<1>1. MediaIInv => MediaInv
  <2>1. MediaIInv => TypeOK
    <3> SUFFICES ASSUME MediaIInv
                 PROVE  TypeOK
      OBVIOUS
    <3>1. TablesTyped /\ ChainTyped /\ ScreenTyped /\ HistoryTyped
      BY DEF MediaIInv
    <3>2. downloads \subseteq Ids /\ viewer \in Ids \cup {NoMessage}
      BY <3>1 DEF ScreenTyped, Ids
    <3>3. up \in BOOLEAN /\ shown \in BOOLEAN
      BY <3>1, Zenon DEF ScreenTyped
    <3>4. QED
      BY <3>1, <3>2, <3>3, Zenon DEF TablesTyped, ChainTyped, ScreenTyped,
             HistoryTyped, TypeOK
  <2>2. QED  BY <2>1 DEF MediaIInv, MediaInv
<1>2. QED  BY <1>1, Invariance, PTL

(* Whatever failed, an image or a file of ours can be sent anew from the   *)
(* row or from the disk (resendMessage, resendFileMessage).                *)
THEOREM FailuresKeepTheirData == Spec => []CanBeResent
<1>1. MediaIInv => CanBeResent
  <2> SUFFICES ASSUME MediaIInv, NEW i \in Ours, canResend(i), KindOf[i] # "ephemeral"
               PROVE  \/ hasData(i) \/ "source" \in body[i]
                      \/ KindOf[i] = "file" /\ i \notin cached
    BY DEF CanBeResent
  <2>1. exists(i) /\ i \in Ids /\ KindOf[i] \in Kinds
    BY MediaAssumption DEF canResend, exists, Ids
  <2>2. CASE KindOf[i] \in {"image", "persistent"}
    BY <2>1, <2>2 DEF MediaIInv, DataKept
  <2>3. CASE KindOf[i] = "file"
    BY <2>1, <2>3 DEF MediaIInv, DataKept, PathIsReal, hasData
  <2>4. QED  BY <2>1, <2>2, <2>3 DEF Kinds
<1>2. QED  BY <1>1, Invariance, PTL
=============================================================================
