------------------------------ MODULE Devices ------------------------------
(***************************************************************************)
(* Which devices get a copy of a message (SessionService, the fan-out of   *)
(* ChatService.encrypt and the native sessions), in one room of the default*)
(* server with one peer.                                                   *)
(*                                                                         *)
(* A user links devices to an account and revokes them. The client keeps a *)
(* list of each user's devices, which it fetches with their keys when it   *)
(* connects, when an event tells it of a new device and when it sets up a  *)
(* session; it needs a session with every device it encrypts for. Answers  *)
(* come late, events are lost while it is offline, messages from devices it*)
(* does not know yet set up sessions of their own, and a message is made   *)
(* device by device while all of this goes on.                             *)
(***************************************************************************)
EXTENDS Naturals, Sequences, FiniteSets

CONSTANTS
    Peer, Own,    \* the two users of the room
    MaxDevice,    \* bound: devices of a user
    MaxLinks,     \* bound: devices that are linked
    MaxFetches,   \* bound: requests for keys under way
    MaxSends,     \* bound: messages that are sent
    MaxReceives,  \* bound: messages that are received
    MaxRevoked,   \* bound: devices that are revoked
    MaxFaults     \* bound: requests, messages, native calls and runs that fail

ASSUME DevicesAssumption ==
    /\ Peer # Own
    /\ {MaxDevice, MaxFetches} \subseteq Nat \ {0}
    /\ {MaxSends, MaxReceives, MaxLinks, MaxRevoked, MaxFaults} \subseteq Nat

VARIABLES
    published,  \* the devices of a user that have keys on the server
    linked,     \* the devices a user has ever linked
    connected,  \* the socket
    syncing,    \* the sync of onConnected is still to come
    list,       \* deviceMap
    fresh,      \* the peer's list was fetched less than a minute ago
    csv,        \* remote_known_devices of the session table
    rows,       \* the devices that have a row in the session table
    warm,       \* the devices that have a session in the native module's memory
    records,    \* the devices that have a session in its store
    fetches,    \* requests for keys
    send,       \* the message that is being encrypted
    links, sent, received, revoked, faults

server == <<published, linked>>
socket == <<connected, syncing>>
lists == <<list, fresh, csv>>
sessions == <<rows, warm, records>>
counters == <<links, sent, received, revoked, faults>>
vars == <<server, socket, lists, sessions, fetches, send, counters>>

-----------------------------------------------------------------------------
Users == {Peer, Own}
Primary == 1
ownDeviceId == Primary
Devices == Primary..MaxDevice

(* What fetched keys are for: the list alone, a first session, the session *)
(* of a device whose message could not be read, or a device of a message.  *)
Purposes == {"list", "set", "recover", "send"}
Fetch == [user : Users, for : Purposes, read : BOOLEAN,
          devices : SUBSET Devices]

Send == [at : {"no", "device", "fetch", "encrypt", "done"}, user : Users,
         device : Devices, todo : SUBSET Devices, copies : [Users -> SUBSET Devices],
         known : [Users -> SUBSET Devices], failed : BOOLEAN]
nobody == [u \in Users |-> {}]
NoSend == [at |-> "no", user |-> Peer, device |-> Primary, todo |-> {},
           copies |-> nobody, known |-> nobody, failed |-> FALSE]

Fails == faults < MaxFaults /\ faults' = faults + 1
Succeeds == UNCHANGED faults

with(f, u, d) == [f EXCEPT ![u] = @ \cup {d}]

Init ==
    /\ published = [u \in Users |-> {Primary}] /\ linked = published
    /\ connected = FALSE /\ syncing = FALSE
    /\ list = nobody /\ fresh = FALSE /\ csv = nobody
    /\ rows = nobody /\ warm = nobody /\ records = nobody
    /\ fetches = {} /\ send = NoSend
    /\ links = 0 /\ sent = 0 /\ received = 0 /\ revoked = 0 /\ faults = 0

-----------------------------------------------------------------------------
(* Requests for keys. (Two that are alike are one until they are read.)    *)
Room(n) == Cardinality(fetches) + n <= MaxFetches
request(F, u, for) == F \cup {[user |-> u, for |-> for, read |-> FALSE, devices |-> {}]}

(* The session table: rows of a user and a device.                         *)
findByUserAndRoom(u) == rows[u]
findByUserRoomAndDevice(u, d) == d \in rows[u]
upsert(u, d) == rows' = with(rows, u, d)
deleteByUserAndRoom(u) == rows' = [rows EXCEPT ![u] = {}]

(* The list is written into the user's rows: without any, nowhere.         *)
updateRemoteKnownDevicesForUser(u, devices) ==
    csv' = IF findByUserAndRoom(u) = {} THEN csv ELSE [csv EXCEPT ![u] = devices]

updateRemoteDeviceMap(u, devices) ==
    /\ list' = [list EXCEPT ![u] = devices]
    /\ fresh' = (fresh \/ u = Peer)
    /\ updateRemoteKnownDevicesForUser(u, devices)

invalidateRemoteDeviceMap(u) ==
    /\ list' = [list EXCEPT ![u] = {}]
    /\ fresh' = (fresh /\ u # Peer)
    /\ csv' = [csv EXCEPT ![u] = {}]

(* Mutant of establish: the session is stored and not kept in memory.      *)
establishCold(u, d) ==
    /\ UNCHANGED warm /\ records' = with(records, u, d)
    /\ upsert(u, d)

(* setRemoteUserKeys, establishSession and the row of the session table.   *)
establish(u, d) ==
    /\ warm' = with(warm, u, d) /\ records' = with(records, u, d)
    /\ upsert(u, d)

(* A session that has a row is there, and resuming it makes it warm.       *)
resumeSession(u, d) == warm' = with(warm, u, d)

(* It resumes the session of one row: that which was used last.            *)
ensureSession(u) == \E d \in findByUserAndRoom(u) : resumeSession(u, d)

(* The server reads its keys; the answer is under way.                     *)
getRemoteKeys(f) ==
    /\ ~f.read
    /\ fetches' = (fetches \ {f}) \cup {[f EXCEPT !.read = TRUE,
                                             !.devices = published[f.user]]}
    /\ UNCHANGED <<server, socket, lists, sessions, send, counters>>

(* A request that fails leaves everything as it is: a message goes on      *)
(* without the device.                                                     *)
skip(s) == [s EXCEPT !.at = "device", !.todo = @ \ {s.device}]

fetchFails(f) ==
    /\ Fails /\ fetches' = fetches \ {f}
    /\ send' = IF f.for = "send" THEN skip([send EXCEPT !.failed = TRUE]) ELSE send
    /\ UNCHANGED <<server, socket, lists, sessions, links, sent, received, revoked>>

refreshRemoteDeviceMap(f) ==
    /\ f.read /\ f.for = "list"
    /\ updateRemoteDeviceMap(f.user, f.devices)
    /\ fetches' = fetches \ {f}
    /\ UNCHANGED <<server, socket, sessions, send, counters>>

(* Without a session the primary device's keys are taken. When they cannot *)
(* be, all of the user's rows go.                                          *)
setSession(f) ==
    /\ f.read /\ f.for = "set" /\ fetches' = fetches \ {f}
    /\ \/ /\ Succeeds /\ updateRemoteDeviceMap(f.user, f.devices)
          /\ establish(f.user, Primary)
       \/ /\ Fails
          /\ list' = [list EXCEPT ![f.user] = f.devices]
          /\ fresh' = (fresh \/ f.user = Peer)
          /\ csv' = [csv EXCEPT ![f.user] = {}]
          /\ deleteByUserAndRoom(f.user)
          /\ UNCHANGED <<warm, records>>
    /\ UNCHANGED <<server, socket, send, links, sent, received, revoked>>

(* The identity is looked up in the session of the first device, in memory.*)
(* (Nobody changes it.) Where there is none, a row of any of the user's    *)
(* devices makes the recovery be refused.                                  *)
assertIdentityNotChanged(u) ==
    Primary \in warm[u] \cap records[u] \/ findByUserAndRoom(u) = {}

applyRemoteKeys(u) ==
    warm' = with(warm, u, Primary) /\ records' = with(records, u, Primary)

(* The keys are those of the first device, whichever could not be read.    *)
recoverSession(f) ==
    /\ f.read /\ f.for = "recover" /\ fetches' = fetches \ {f}
    /\ updateRemoteDeviceMap(f.user, f.devices)
    /\ \/ assertIdentityNotChanged(f.user) /\ applyRemoteKeys(f.user)
       \/ ~assertIdentityNotChanged(f.user) /\ UNCHANGED <<warm, records>>
    /\ UNCHANGED <<server, socket, rows, send, counters>>

(* Mutant of keysCannotBeTaken: the row is there before the session.       *)
rowsAnyway(u, d) == rows' = with(rows, u, d) /\ UNCHANGED <<warm, records>>

keysCannotBeTaken(u, d) == UNCHANGED sessions

(* A device the message is to go to has no session yet, of the peer or of  *)
(* our own: the session is made from the keys, if the device has any.      *)
sessionFromKeys(f) ==
    /\ f.read /\ f.for = "send" /\ fetches' = fetches \ {f}
    /\ updateRemoteDeviceMap(f.user, f.devices)
    /\ \/ /\ send.device \in f.devices /\ Succeeds
          /\ establish(f.user, send.device)
          /\ send' = [send EXCEPT !.at = "encrypt"]
       \/ /\ send.device \in f.devices /\ Fails
          /\ keysCannotBeTaken(f.user, send.device)
          /\ send' = skip([send EXCEPT !.failed = TRUE])
       \/ /\ send.device \notin f.devices /\ Succeeds
          /\ send' = skip(send) /\ UNCHANGED sessions
    /\ UNCHANGED <<server, socket, links, sent, received, revoked>>

ensureSessionForRemotePeerDevice(f) == f.user = Peer /\ sessionFromKeys(f)

ensureSessionForOwnLinkedDevice(f) == f.user = Own /\ sessionFromKeys(f)

throttleExpires ==
    /\ fresh /\ fresh' = FALSE
    /\ UNCHANGED <<server, socket, list, csv, sessions, fetches, send, counters>>

-----------------------------------------------------------------------------
(* The server's users. The event of a device comes at once, or, when the   *)
(* socket is down, never.                                                  *)
onPeerDeviceLinked(u) ==
    /\ Room(1)
    /\ invalidateRemoteDeviceMap(u)
    /\ fetches' = request(fetches, u, "list")

onDeviceRevoked(u, d) == warm' = [warm EXCEPT ![u] = @ \ {d}]

link(u, d) ==
    /\ links < MaxLinks /\ links' = links + 1
    /\ d \notin linked[u] /\ d - 1 \in linked[u]
    /\ published' = with(published, u, d) /\ linked' = with(linked, u, d)
    /\ \/ connected /\ onPeerDeviceLinked(u)
       \/ ~connected /\ UNCHANGED <<lists, fetches>>
    /\ UNCHANGED <<socket, sessions, send, sent, received, revoked, faults>>

revoke(u, d) ==
    /\ d \in published[u] \ {Primary} /\ revoked < MaxRevoked /\ revoked' = revoked + 1
    /\ published' = [published EXCEPT ![u] = @ \ {d}]
    /\ \/ connected /\ onDeviceRevoked(u, d)
       \/ ~connected /\ UNCHANGED warm
    /\ UNCHANGED <<linked, socket, lists, rows, records, fetches, send, links,
                   sent, received, faults>>

-----------------------------------------------------------------------------
(* The socket.                                                             *)
connect ==
    /\ ~connected /\ connected' = TRUE /\ syncing' = TRUE
    /\ UNCHANGED <<server, lists, sessions, fetches, send, counters>>

disconnect ==
    /\ connected /\ connected' = FALSE /\ syncing' = FALSE
    /\ UNCHANGED <<server, lists, sessions, fetches, send, counters>>

(* Mutant of refreshMember: a peer with a session is left alone.           *)
refreshNobody(F) == IF rows[Peer] = {} THEN request(F, Peer, "set") ELSE F

refreshMember(F) ==
    IF rows[Peer] = {} THEN request(F, Peer, "set")
    ELSE IF fresh THEN F ELSE request(F, Peer, "list")

syncRoomMembersAndSessions ==
    /\ syncing /\ syncing' = FALSE /\ Room(2)
    /\ fetches' = refreshMember(request(fetches, Own, "list"))
    /\ UNCHANGED <<server, connected, lists, sessions, send, counters>>

(* A message of a device that knows us: reading it sets up its session,    *)
(* and a row is made for the very device that sent it. If its pre-key is   *)
(* gone, the session is recovered.                                         *)
ensureSessionInDatabase(u, d) ==
    IF findByUserRoomAndDevice(u, d) THEN UNCHANGED rows ELSE upsert(u, d)

receive(u, d) ==
    /\ connected /\ received < MaxReceives /\ received' = received + 1
    /\ d \in published[u] /\ <<u, d>> # <<Own, ownDeviceId>>
    /\ \/ /\ Succeeds /\ UNCHANGED fetches
          /\ warm' = with(warm, u, d) /\ records' = with(records, u, d)
          /\ ensureSessionInDatabase(u, d)
       \/ /\ Fails /\ Room(1) /\ fetches' = request(fetches, u, "recover")
          /\ UNCHANGED sessions
    /\ UNCHANGED <<server, socket, lists, send, links, sent, revoked>>

-----------------------------------------------------------------------------
(* A message is encrypted for the peer's devices, then for our other ones. *)
(* (Bound: one message at a time.) ensureSession warms the session of the  *)
(* row that was used last.                                                 *)
startEncrypt ==
    /\ send.at \in {"no", "done"}
    /\ sent < MaxSends /\ sent' = sent + 1
    /\ ensureSession(Peer)
    /\ LET devices == IF list[Peer] = {} THEN {Primary} ELSE list[Peer]
       IN  send' = [NoSend EXCEPT !.at = "device", !.todo = devices,
                                  !.known = [nobody EXCEPT ![Peer] = devices]]
    /\ UNCHANGED <<server, socket, lists, rows, records, fetches, links, received, revoked,
                   faults>>

(* The primary device's session is taken to exist.                         *)
needsNoSession(u, d) == u = Peer /\ d = Primary

ensureDevice(d) ==
    /\ send.at = "device" /\ d \in send.todo
    /\ LET u == send.user
           now(at) == send' = [send EXCEPT !.at = at, !.device = d]
       IN  \/ needsNoSession(u, d) /\ now("encrypt") /\ UNCHANGED <<warm, fetches>>
           \/ /\ ~needsNoSession(u, d) /\ findByUserRoomAndDevice(u, d)
              /\ resumeSession(u, d) /\ now("encrypt") /\ UNCHANGED fetches
           \/ /\ ~needsNoSession(u, d) /\ ~findByUserRoomAndDevice(u, d)
              /\ Room(1) /\ fetches' = request(fetches, u, "send") /\ now("fetch") /\ UNCHANGED warm
    /\ UNCHANGED <<server, socket, lists, rows, records, counters>>

(* Only the peer's primary device may not be missed.                       *)
encryptMessage ==
    /\ send.at = "encrypt"
    /\ LET u == send.user
       IN  IF send.device \in warm[u] \cap records[u]
           THEN send' = skip([send EXCEPT !.copies = with(@, u, send.device)])
           ELSE IF needsNoSession(u, send.device) THEN send' = NoSend
           ELSE send' = skip(send)
    /\ UNCHANGED <<server, socket, lists, sessions, fetches, counters>>

selfFanOut ==
    /\ send.at = "device" /\ send.todo = {} /\ send.user = Peer
    /\ LET devices == list[Own] \ {ownDeviceId}
       IN  send' = [send EXCEPT !.user = Own, !.todo = devices, !.known[Own] = devices]
    /\ UNCHANGED <<server, socket, lists, sessions, fetches, counters>>

encrypted ==
    /\ send.at = "device" /\ send.todo = {} /\ send.user = Own
    /\ send' = IF send.copies = nobody THEN NoSend ELSE [send EXCEPT !.at = "done"]
    /\ UNCHANGED <<server, socket, lists, sessions, fetches, counters>>

-----------------------------------------------------------------------------
(* A restart. loadSessions makes the sessions of all rows warm and takes   *)
(* the lists from them.                                                    *)
loadSessions ==
    /\ Fails
    /\ list' = csv /\ fresh' = FALSE
    /\ warm' = rows
    /\ connected' = FALSE /\ syncing' = FALSE
    /\ fetches' = {} /\ send' = NoSend
    /\ UNCHANGED <<server, csv, rows, records, links, sent, received, revoked>>

-----------------------------------------------------------------------------
Answers == \E f \in fetches :
    \/ getRemoteKeys(f) \/ refreshRemoteDeviceMap(f) \/ setSession(f)
    \/ recoverSession(f) \/ ensureSessionForRemotePeerDevice(f)
    \/ ensureSessionForOwnLinkedDevice(f)
Encrypting == (\E d \in Devices : ensureDevice(d)) \/ encryptMessage
              \/ selfFanOut \/ encrypted

Next ==
    \/ \E u \in Users, d \in Devices : link(u, d) \/ revoke(u, d) \/ receive(u, d)
    \/ connect \/ disconnect \/ syncRoomMembersAndSessions \/ throttleExpires
    \/ Answers \/ (\E f \in fetches : fetchFails(f))
    \/ startEncrypt \/ Encrypting \/ loadSessions

(* Requests are answered, and again and again the app connects and stays   *)
(* connected long enough to sync, more than a minute after the last list.  *)
SyncsAnew == syncRoomMembersAndSessions /\ ~fresh
Spec == /\ Init /\ [][Next]_vars
        /\ WF_vars(Answers) /\ WF_vars(Encrypting)
        /\ SF_vars(SyncsAnew)
LivelySpec == Spec /\ []<><<SyncsAnew>>_vars

-----------------------------------------------------------------------------
TypeOK ==
    /\ published \in [Users -> SUBSET Devices] /\ linked \in [Users -> SUBSET Devices]
    /\ connected \in BOOLEAN /\ syncing \in BOOLEAN
    /\ list \in [Users -> SUBSET Devices] /\ csv \in [Users -> SUBSET Devices]
    /\ fresh \in BOOLEAN
    /\ rows \in [Users -> SUBSET Devices] /\ warm \in [Users -> SUBSET Devices]
    /\ records \in [Users -> SUBSET Devices]
    /\ fetches \subseteq Fetch
    /\ send \in Send
    /\ send.at = "fetch" <=> (\E f \in fetches : f.for = "send")
    /\ links \in 0..MaxLinks /\ sent \in 0..MaxSends /\ received \in 0..MaxReceives
    /\ revoked \in 0..MaxRevoked /\ faults \in 0..MaxFaults

(* Every row of the session table stands for a session the native module   *)
(* has stored. Resuming a session does not look for it: without it no      *)
(* message could ever be encrypted for the device.                         *)
RowsHaveRecords == \A u \in Users : rows[u] \subseteq records[u]

(* Types, and rows that can be resumed, however fetches, incoming messages *)
(* and restarts interleave and whichever of their calls fail.              *)
DevicesInv == TypeOK /\ RowsHaveRecords

(* A message that goes out has a copy for every device that was known when *)
(* its fan-out began and is still there, unless a request of it failed.    *)
KnownAreServed ==
    send.at = "done" /\ ~send.failed =>
        \A u \in Users : send.known[u] \cap published[u] \subseteq send.copies[u]

(* However answers, events and restarts interleave, the lists are right in *)
(* the end.                                                                *)
ListsCatchUp == <>[](list = published)

=============================================================================
