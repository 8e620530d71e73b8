------------------------------- MODULE Media -------------------------------
(***************************************************************************)
(* Images and files: what is sent with an upload, what is kept on disk,    *)
(* and what is opened here (ChatService, the utilities for images and      *)
(* files, the viewer of ephemeral images, the bubble of a file).           *)
(*                                                                         *)
(* A message is a row; its body is the set of what it holds: the data      *)
(* itself ("inline"), the picker's own file ("source"), the path of a file *)
(* of ours ("path"), the name and key of a blob on the server ("ref").     *)
(***************************************************************************)
EXTENDS Naturals, Sequences, FiniteSets

CONSTANTS
    Ours, Theirs,   \* messages that we send, and that others send
    KindOf,         \* the type of a message
    NoMessage,
    MaxActs,        \* bound: what users do
    MaxFaults       \* bound: requests, answers and writes that fail, and restarts

Ids == Ours \cup Theirs
Kinds == {"image", "persistent", "ephemeral", "file"}

ASSUME MediaAssumption ==
    /\ Ours \cap Theirs = {} /\ NoMessage \notin Ids
    /\ KindOf \in [Ids -> Kinds]
    /\ MaxActs \in Nat /\ MaxFaults \in Nat

VARIABLES
    status,     \* of the rows in the message table
    body,
    expiry,     \* has the time to view it begun, or passed?
    files,      \* the messages whose file is on disk
    preparing,  \* messages whose thumbnails are being made
    chain,      \* the serial queue of signal operations
    at,         \* how far the operation at its head is
    retries,    \* rows that retrySendingMessages still has to send
    deletion,   \* deleteMessageForEveryone, per message
    downloads,  \* messages whose blob is being fetched
    viewer,     \* the message in the viewer of ephemeral images
    shown,      \* is its image on the screen?
    blobs,      \* the blobs on the server, by message
    up,         \* is the app running?
    accepted,   \* what the server took to deliver: messages and their bodies
    \* history variables
    cached,     \* files whose bytes could be put aside when they were sent
    used, acts, faults

tables == <<status, body, expiry>>
sending == <<preparing, chain, at, retries>>
opening == <<downloads, viewer, shown>>
counters == <<used, acts, faults>>
vars == <<up, tables, files, sending, deletion, opening, blobs, accepted, cached, counters>>

-----------------------------------------------------------------------------
Statuses == {"none", "SENDING", "SENT", "UNDELIVERED", "FAILED", "received"}
Parts == {"inline", "source", "path", "ref"}
Op == [op : {"send", "retry"}, id : Ours, body : SUBSET Parts]

exists(i) == status[i] # "none"
Row(i, st, b) ==
    status' = [status EXCEPT ![i] = st] /\ body' = [body EXCEPT ![i] = b]
Body(i, b) == body' = [body EXCEPT ![i] = IF exists(i) THEN b ELSE @]
Status(i, st) == status' = [status EXCEPT ![i] = IF exists(i) THEN st ELSE @]

Acts == acts < MaxActs /\ acts' = acts + 1 /\ UNCHANGED faults
Fails == faults < MaxFaults /\ faults' = faults + 1 /\ UNCHANGED acts
NoBound == UNCHANGED <<acts, faults>>

Init ==
    /\ status = [i \in Ids |-> "none"] /\ body = [i \in Ids |-> {}]
    /\ expiry = [i \in Ids |-> "none"] /\ files = {} /\ preparing = {}
    /\ chain = <<>> /\ at = "start" /\ retries = {} /\ deletion = [i \in Ids |-> "no"]
    /\ downloads = {} /\ viewer = NoMessage /\ shown = FALSE
    /\ up = TRUE /\ blobs = {} /\ accepted = {} /\ cached = {}
    /\ used = {} /\ acts = 0 /\ faults = 0

-----------------------------------------------------------------------------
(* Sending. A row first; then thumbnails, or the bytes put aside; then the *)
(* operation on the serial queue.                                          *)
enqueued(i, o, b) == Append(chain, [op |-> o, id |-> i, body |-> b])
enqueue(i) == chain' = enqueued(i, "send", {})

(* A row takes the place of the one sent anew, whose file stays.           *)
takesPlace(i, old, b) ==
    /\ status' = [status EXCEPT ![i] = "SENDING", ![old] = IF old = i THEN "SENDING" ELSE "none"]
    /\ body' = [body EXCEPT ![i] = b, ![old] = IF old = i THEN b ELSE {}]

fresh(i) == i \in Ours \ used /\ used' = used \cup {i}

(* A volatile image, and one that is kept on the server.                   *)
sendImage(i, old, kind) ==
    /\ fresh(i) /\ KindOf[i] = kind
    /\ takesPlace(i, old, {"inline"}) /\ preparing' = preparing \cup {i}
    /\ UNCHANGED <<expiry, files, chain, at, retries, deletion, opening, blobs,
                   accepted, cached>>
sendFile(i, old) ==
    /\ fresh(i) /\ KindOf[i] = "file" /\ enqueue(i)
    /\ \E ok \in BOOLEAN :
        /\ takesPlace(i, old, IF ok THEN {"source", "path"} ELSE {"source"})
        /\ files' = IF ok THEN files \cup {i} ELSE files
        /\ cached' = IF ok THEN cached \cup {i} ELSE cached
    /\ UNCHANGED <<expiry, preparing, at, retries, deletion, opening, blobs, accepted>>

sendImageMessage(i) == Acts /\ sendImage(i, i, "image")
sendPersistentImageMessage(i) == Acts /\ sendImage(i, i, "persistent")
sendFileMessage(i) == Acts /\ sendFile(i, i)
sendEphemeralImageMessage(i) ==
    /\ Acts /\ fresh(i) /\ KindOf[i] = "ephemeral"
    /\ takesPlace(i, i, {}) /\ enqueue(i)
    /\ UNCHANGED <<expiry, files, preparing, at, retries, deletion, opening, blobs,
                   accepted, cached>>

canResend(i) == i \in Ours /\ status[i] \in {"FAILED", "UNDELIVERED"}

(* With the data in the row, or from the file that it names.               *)
hasData(i) == "inline" \in body[i] \/ ("path" \in body[i] /\ i \in files)

resendMessage(i, old) ==
    /\ Acts /\ canResend(old) /\ KindOf[old] \in {"image", "persistent"}
    /\ hasData(old)
    /\ sendImage(i, old, "image") \/ sendImage(i, old, "persistent")
resendFileMessage(i, old) ==
    /\ Acts /\ canResend(old) /\ KindOf[old] = "file"
    /\ hasData(old) \/ "source" \in body[old]
    /\ sendFile(i, old)
(* Whatever is no image and no file is sent anew as a text.                *)
resendTextMessage(old) ==
    /\ Acts /\ canResend(old) /\ KindOf[old] = "ephemeral"
    /\ Row(old, "none", {})
    /\ UNCHANGED <<expiry, files, sending, deletion, opening, blobs, accepted, cached, used>>

(* Mutant of save: the path is noted whether or not the file was written.  *)
savePathFirst(i, ok, b) ==
    /\ files' = IF ok THEN files \cup {i} ELSE files
    /\ Body(i, b)

save(i, ok, b) ==
    IF ok THEN files' = files \cup {i} /\ Body(i, b) ELSE UNCHANGED <<files, body>>

(* Thumbnails are ready. An image for the server is put on disk first;     *)
(* when that fails nothing more happens to its row.                        *)
prepared(i) ==
    /\ i \in preparing /\ preparing' = preparing \ {i}
    /\ UNCHANGED <<status, expiry, at, retries, deletion, opening, blobs, accepted,
                   cached, used>>
    /\ \/ KindOf[i] = "image" /\ enqueue(i) /\ UNCHANGED <<files, body>> /\ NoBound
       \/ KindOf[i] = "persistent" /\ save(i, TRUE, {"path"}) /\ enqueue(i) /\ NoBound
       \/ KindOf[i] = "persistent" /\ save(i, FALSE, {"path"}) /\ UNCHANGED chain /\ Fails

-----------------------------------------------------------------------------
(* The operations on the serial queue.                                     *)
runs(o, stage) == o = Head(chain) /\ at = stage
ends == chain' = Tail(chain) /\ at' = "start"
goesOn(stage) == at' = stage /\ UNCHANGED chain

uploads(o) == o.op = "send" /\ KindOf[o.id] # "image"

(* Mutant of upload: it is begun, and not waited for.                      *)
uploadNoWait(o, ok) ==
    /\ blobs' \in {blobs, blobs \cup {o.id}}
    /\ IF ok /\ KindOf[o.id] = "file"
       THEN Body(o.id, {"ref"} \cup ({"path"} \cap body[o.id]))
       ELSE UNCHANGED body

(* The blob goes up; then the row of a file names it and, for its source,  *)
(* the copy that was put aside, if there is one.                           *)
upload(o, ok) ==
    /\ \/ blobs' = blobs \cup {o.id}
       \/ ~ok /\ UNCHANGED blobs
    /\ IF ok /\ KindOf[o.id] = "file"
       THEN Body(o.id, {"ref"} \cup ({"path"} \cap body[o.id]))
       ELSE UNCHANGED body

uploaded(o) ==
    /\ runs(o, "start") /\ uploads(o)
    /\ \/ upload(o, TRUE) /\ goesOn("uploaded") /\ UNCHANGED status /\ NoBound
       \/ upload(o, FALSE) /\ ends /\ Status(o.id, "FAILED") /\ Fails
    /\ UNCHANGED <<expiry, files, preparing, retries, deletion, opening, accepted,
                   cached, used>>

(* What is delivered: the reference to the blob, or, from a row that is    *)
(* retried, its body as it was read.                                       *)
delivered(o) ==
    IF o.op = "send" THEN IF uploads(o) THEN {"ref"} ELSE {"inline"} ELSE o.body

(* A file or a persistent image is encrypted and emitted once its blob is  *)
(* up, an ephemeral one at once.                                           *)
readyToEmit(o) == runs(o, IF uploads(o) THEN "uploaded" ELSE "start")

emitSendMessage(o) ==
    /\ readyToEmit(o)
    /\ \/ /\ accepted' = accepted \cup {<<o.id, delivered(o)>>}
          /\ goesOn("accepted") /\ UNCHANGED status /\ NoBound
       \/ ends /\ Status(o.id, "FAILED") /\ UNCHANGED accepted /\ Fails
    /\ UNCHANGED <<body, expiry, files, preparing, retries, deletion, opening, blobs,
                   cached, used>>

(* Mutant of persistImageToFilesystem: the data goes, written or not.      *)
persistAnyway(i, ok) ==
    /\ files' = IF ok THEN files \cup {i} ELSE files
    /\ Body(i, {})

persistImageToFilesystem(i, ok) == save(i, ok, {"path"})

(* The answer, or none. An image that has been sent is put on disk.        *)
answered(o) ==
    /\ runs(o, "accepted") /\ ends
    /\ \/ NoBound /\ \/ Status(o.id, "SENT")
                     \/ KindOf[o.id] = "image" /\ Status(o.id, "UNDELIVERED")
       \/ Fails /\ Status(o.id, "FAILED")
    /\ IF o.op = "send" /\ KindOf[o.id] = "image"
       THEN \E ok \in BOOLEAN : persistImageToFilesystem(o.id, ok)
       ELSE UNCHANGED <<files, body>>
    /\ UNCHANGED <<expiry, preparing, retries, deletion, opening, blobs, accepted,
                   cached, used>>

(* A connection comes up: every row that is SENDING is read, and sent anew *)
(* as it was read, one after the other.                                    *)
retrySendingMessages ==
    /\ Acts /\ retries = {}
    /\ retries' = {[id |-> i, body |-> body[i]] : i \in {j \in Ours : status[j] = "SENDING"}}
    /\ retries' # {}
    /\ UNCHANGED <<tables, files, preparing, chain, at, deletion, opening, blobs,
                   accepted, cached, used>>
retryMessageSend ==
    \E m \in retries :
        /\ \A k \in 1..Len(chain) : chain[k].op # "retry"
        /\ retries' = retries \ {m} /\ chain' = enqueued(m.id, "retry", m.body)
        /\ UNCHANGED <<tables, files, preparing, at, deletion, opening, blobs,
                       accepted, cached, counters>>

-----------------------------------------------------------------------------
(* Deleting for everyone. The server does it first, if it has the message; *)
(* then the file of an image goes, and the row. A file that is no image,   *)
(* and an image that the app named otherwise, stay on disk.                *)
hasMessage(i) == \E a \in accepted : a[1] = i

deleteMessageForEveryone(i) ==
    /\ Acts /\ i \in Ours /\ exists(i) /\ deletion[i] = "no" /\ hasMessage(i)
    /\ deletion' = [deletion EXCEPT ![i] = "asked"]
    /\ UNCHANGED <<tables, files, sending, opening, blobs, accepted, cached, used>>

ownNamed(i) == KindOf[i] = "file" \/ (i \in Ours /\ KindOf[i] = "persistent")
removeMessage(i) ==
    /\ files' = IF ownNamed(i) THEN files ELSE files \ {i}
    /\ Row(i, "none", {})

deleted(i) ==
    /\ deletion[i] = "asked" /\ deletion' = [deletion EXCEPT ![i] = "no"]
    /\ \/ exists(i) /\ removeMessage(i) /\ NoBound
       \/ ~exists(i) /\ UNCHANGED <<files, status, body>> /\ NoBound
       \/ UNCHANGED <<files, status, body>> /\ Fails
    /\ UNCHANGED <<expiry, sending, opening, blobs, accepted, cached, used>>

-----------------------------------------------------------------------------
(* Receiving. A volatile image brings its data, and is put on disk; the    *)
(* blob of one kept on the server is fetched at once, that of a file when  *)
(* it is pressed, that of an ephemeral image when it is viewed.            *)
handleUserMessage(i) ==
    /\ Acts /\ i \in Theirs \ used /\ used' = used \cup {i}
    /\ blobs' = IF KindOf[i] = "image" THEN blobs ELSE blobs \cup {i}
    /\ downloads' = IF KindOf[i] = "persistent" THEN downloads \cup {i} ELSE downloads
    /\ \E ok \in BOOLEAN :
        /\ files' = IF KindOf[i] = "image" /\ ok THEN files \cup {i} ELSE files
        /\ Row(i, "received", IF KindOf[i] # "image" THEN {"ref"}
                              ELSE IF ok THEN {"path"} ELSE {"inline"})
    /\ UNCHANGED <<expiry, sending, deletion, viewer, shown, accepted, cached>>

handleMessageDeleted(i) ==
    /\ Acts /\ i \in Theirs /\ exists(i) /\ removeMessage(i)
    /\ UNCHANGED <<expiry, sending, deletion, opening, blobs, accepted, cached, used>>

(* Pressing a file that is not on disk.                                    *)
handlePress(i) ==
    /\ Acts /\ KindOf[i] = "file" /\ i \notin downloads
    /\ "ref" \in body[i] /\ ~("path" \in body[i] /\ i \in files)
    /\ downloads' = downloads \cup {i}
    /\ UNCHANGED <<tables, files, sending, deletion, viewer, shown, blobs, accepted,
                   cached, used>>

(* The blob comes, or is gone, or does not come. What was deleted in the   *)
(* meantime leaves its file.                                               *)
fetched(i, b) ==
    /\ i \in downloads /\ downloads' = downloads \ {i}
    /\ \/ i \in blobs /\ save(i, TRUE, b) /\ NoBound
       \/ i \notin blobs /\ UNCHANGED <<files, body>> /\ NoBound
       \/ UNCHANGED <<files, body>> /\ Fails
    /\ UNCHANGED <<status, expiry, sending, deletion, viewer, shown, blobs, accepted,
                   cached, used>>

downloadAndDecryptPersistentImage(i) == KindOf[i] = "persistent" /\ fetched(i, {"path"})
downloadAndDecryptFile(i) == KindOf[i] = "file" /\ fetched(i, {"ref", "path"})

-----------------------------------------------------------------------------
(* The viewer of ephemeral images.                                         *)
canBeViewed(i) == "ref" \in body[i] /\ expiry[i] # "past"
handleImagePress(i) ==
    /\ Acts /\ KindOf[i] = "ephemeral" /\ viewer = NoMessage /\ canBeViewed(i)
    /\ viewer' = i
    /\ UNCHANGED <<tables, files, sending, deletion, downloads, shown, blobs, accepted,
                   cached, used>>

closes == viewer' = NoMessage /\ shown' = FALSE

setExpiry(i) == expiry' = [expiry EXCEPT ![i] = IF exists(i) THEN "running" ELSE @]

loadImage ==
    /\ viewer # NoMessage /\ ~shown /\ viewer \in blobs
    /\ setExpiry(viewer) /\ shown' = TRUE
    /\ UNCHANGED <<status, body, files, sending, deletion, downloads, viewer, blobs,
                   accepted, cached, counters>>

(* What was viewed is wiped, and the server is told, if it can be.         *)
expireMessage(i) ==
    /\ Body(i, {}) /\ expiry' = [expiry EXCEPT ![i] = IF exists(i) THEN "past" ELSE @]
    /\ blobs' \in {blobs, blobs \ {i}}

loadGone ==
    /\ viewer # NoMessage /\ ~shown /\ viewer \notin blobs
    /\ expireMessage(viewer) /\ closes
    /\ UNCHANGED <<status, files, sending, deletion, downloads, accepted, cached, counters>>
countdownEnds ==
    /\ shown /\ expiry[viewer] # "running"
    /\ expireMessage(viewer) /\ closes
    /\ UNCHANGED <<status, files, sending, deletion, downloads, accepted, cached, counters>>
handleClose ==
    /\ viewer # NoMessage /\ closes
    /\ IF shown THEN expireMessage(viewer) ELSE UNCHANGED <<body, expiry, blobs>>
    /\ UNCHANGED <<status, files, sending, deletion, downloads, accepted, cached, counters>>
(* The screen is left, or the app locked: the timer stops, nothing is gone.*)
unmount ==
    /\ Acts /\ shown /\ closes
    /\ UNCHANGED <<tables, files, sending, deletion, downloads, blobs, accepted, cached,
                   used>>

expires(i) ==
    /\ expiry[i] = "running" /\ expiry' = [expiry EXCEPT ![i] = "past"]
    /\ UNCHANGED <<status, body, files, sending, deletion, opening, blobs, accepted,
                   cached, counters>>
(* Viewed on another of our devices, or kept for its time.                 *)
blobGoes(i) ==
    /\ Acts /\ i \in Theirs \cap blobs
    /\ blobs' = blobs \ {i}
    /\ UNCHANGED <<tables, files, sending, deletion, opening, accepted, cached, used>>

-----------------------------------------------------------------------------
(* The app ends, at any point, and begins again: what was sent long ago has*)
(* failed, and what may no longer be viewed is wiped.                      *)
kill ==
    /\ up /\ up' = FALSE
    /\ chain' = <<>> /\ at' = "start" /\ preparing' = {} /\ retries' = {}
    /\ deletion' = [i \in Ids |-> "no"] /\ downloads' = {} /\ closes
    /\ UNCHANGED <<tables, files, blobs, accepted, cached, counters>>

recoverStuckMessages ==
    \E old \in {{}, {i \in Ids : status[i] = "SENDING"}} :
        status' = [i \in Ids |-> IF i \in old THEN "FAILED" ELSE status[i]]

(* Mutant of cleanupExpiredEphemeralMessages: what was viewed in an earlier*)
(* run of the app is passed over.                                          *)
cleanupNothing == UNCHANGED body

cleanupExpiredEphemeralMessages ==
    body' = [i \in Ids |-> IF KindOf[i] = "ephemeral" /\ expiry[i] = "past" THEN {}
                           ELSE body[i]]

initialize ==
    /\ ~up /\ up' = TRUE
    /\ recoverStuckMessages /\ cleanupExpiredEphemeralMessages
    /\ UNCHANGED <<expiry, files, sending, deletion, opening, blobs, accepted, cached,
                   counters>>

-----------------------------------------------------------------------------
Sending(i) ==
    \/ sendImageMessage(i) \/ sendPersistentImageMessage(i) \/ sendFileMessage(i)
    \/ sendEphemeralImageMessage(i)
    \/ prepared(i) \/ resendTextMessage(i)
    \/ \E old \in Ours \ {i} : resendMessage(i, old) \/ resendFileMessage(i, old)

Operation ==
    \E o \in {chain[k] : k \in 1..Len(chain)} :
        uploaded(o) \/ emitSendMessage(o) \/ answered(o)

Deleting(i) == deleteMessageForEveryone(i) \/ deleted(i)
Opening(i) ==
    \/ handleUserMessage(i) \/ handleMessageDeleted(i) \/ handlePress(i) \/ handleImagePress(i)
    \/ downloadAndDecryptPersistentImage(i) \/ downloadAndDecryptFile(i)
Viewing == loadImage \/ loadGone \/ countdownEnds \/ handleClose \/ unmount

AppStep ==
    \/ \E i \in Ours : Sending(i) \/ Deleting(i)
    \/ \E i \in Theirs : Opening(i)
    \/ Operation \/ Viewing \/ retrySendingMessages \/ retryMessageSend

Next ==
    \/ up /\ UNCHANGED up /\ AppStep
    \/ UNCHANGED up /\ \E i \in Theirs : expires(i) \/ blobGoes(i)
    \/ kill \/ initialize

Spec == Init /\ [][Next]_vars

(* Time passes, and the app is started again and again.                    *)
LivelySpec ==
    /\ Spec /\ []<><<initialize>>_vars
    /\ \A i \in Theirs : WF_vars(UNCHANGED up /\ expires(i))

-----------------------------------------------------------------------------
(* Properties.                                                             *)
(* Every variable has its type, and no image is shown without its viewer.  *)
TypeOK ==
    /\ up \in BOOLEAN /\ status \in [Ids -> Statuses] /\ body \in [Ids -> SUBSET Parts]
    /\ expiry \in [Ids -> {"none", "running", "past"}]
    /\ files \subseteq Ids /\ preparing \subseteq Ours
    /\ chain \in Seq(Op) /\ at \in {"start", "uploaded", "accepted"}
    /\ retries \subseteq [id : Ours, body : SUBSET Parts]
    /\ deletion \in [Ids -> {"no", "asked"}]
    /\ downloads \subseteq Ids /\ viewer \in Ids \cup {NoMessage} /\ shown \in BOOLEAN
    /\ shown => viewer # NoMessage
    /\ blobs \subseteq Ids /\ accepted \subseteq Ours \X SUBSET Parts
    /\ cached \subseteq Ours /\ used \subseteq Ids
    /\ acts \in 0..MaxActs /\ faults \in 0..MaxFaults

(* What is delivered with a reference to a blob can be fetched: the blob   *)
(* was up before the message went, at the first attempt and at a retry of  *)
(* what the row held, restarts and lost answers notwithstanding.           *)
ReferencesResolve == \A a \in accepted : "ref" \in a[2] => a[1] \in blobs

(* A row that names a file has it on disk: files are written before they   *)
(* are named, and go only with the row, though downloads, retries and      *)
(* deletions overlap.                                                      *)
PathIsReal == \A i \in Ids : "path" \in body[i] => i \in files

(* An image or a file that failed, or was not delivered, can be sent anew: *)
(* its data is in the row or on disk, whatever the operation did to the    *)
(* row before it failed. (A file whose bytes could not be put aside and    *)
(* whose upload went well is the exception.)                               *)
CanBeResent ==
    \A i \in Ours : canResend(i) /\ KindOf[i] # "ephemeral" =>
        hasData(i) \/ "source" \in body[i] \/ (KindOf[i] = "file" /\ i \notin cached)

(* What is on the screen for a time has that time in its row, as long as   *)
(* there is one, so that no restart makes it last.                         *)
ShownIsDated == shown /\ exists(viewer) => expiry[viewer] # "none"

(* Types, and rows that say what is on the disk and on the screen.         *)
MediaInv == TypeOK /\ PathIsReal /\ ShownIsDated

(* What was shown is wiped from the table, though the screen may be left   *)
(* or the app killed while the time runs.                                  *)
ShownIsWiped == \A i \in Theirs : (shown /\ viewer = i) ~> "ref" \notin body[i]
============================================================================
