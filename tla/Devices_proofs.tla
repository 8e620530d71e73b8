--------------------------- MODULE Devices_proofs ---------------------------
(***************************************************************************)
(* Theorems about Devices, for any two users and any bounds.               *)
(***************************************************************************)
EXTENDS Devices, TLAPS

(* Nothing names a device that was never linked. A revoked device does not *)
(* come back, so that what is linked and not published is gone for good.   *)
OnlyLinked ==
    /\ Primary \in linked[Peer]
    /\ \A u \in Users : /\ published[u] \subseteq linked[u]
                        /\ list[u] \subseteq linked[u] /\ csv[u] \subseteq linked[u]
                        /\ send.known[u] \subseteq linked[u]
    /\ \A f \in fetches : f.devices \subseteq linked[f.user]

(* A message waits for one request at a time, and when the answer lacks    *)
(* the device the device is gone.                                          *)
OneRequest ==
    /\ \A f, g \in fetches : f.for = "send" /\ g.for = "send" => f = g
    /\ \A f \in fetches : f.for = "send" =>
          /\ f.user = send.user
          /\ f.read /\ send.device \notin f.devices =>
                send.device \notin published[f.user]

(* A device has its copy, or the message is still to come to it.           *)
InTurn ==
    /\ send.todo \subseteq send.known[send.user]
    /\ send.at \in {"fetch", "encrypt"} => send.device \in send.todo
    /\ send.at = "done" => send.todo = {}
    /\ send.at # "no" /\ ~send.failed =>
          \A u \in Users : send.known[u] \cap published[u] \subseteq
              send.copies[u] \cup (IF u = send.user THEN send.todo ELSE {})

(* A device whose turn it is to be encrypted for has a session, in the     *)
(* store and, unless it was revoked, in memory.                            *)
HasSession ==
    send.at = "encrypt" /\ ~needsNoSession(send.user, send.device) =>
        /\ send.device \in records[send.user]
        /\ send.device \in published[send.user] => send.device \in warm[send.user]

(* The types, in parts.                                                    *)
TablesTyped ==
    /\ published \in [Users -> SUBSET Devices] /\ linked \in [Users -> SUBSET Devices]
    /\ list \in [Users -> SUBSET Devices] /\ csv \in [Users -> SUBSET Devices]
    /\ rows \in [Users -> SUBSET Devices] /\ warm \in [Users -> SUBSET Devices]
    /\ records \in [Users -> SUBSET Devices]
FlagsTyped ==
    connected \in BOOLEAN /\ syncing \in BOOLEAN /\ fresh \in BOOLEAN
FetchesTyped == fetches \subseteq Fetch
SendTyped == send \in Send
Matched == send.at = "fetch" <=> (\E f \in fetches : f.for = "send")
CountersTyped ==
    /\ links \in 0..MaxLinks /\ sent \in 0..MaxSends /\ received \in 0..MaxReceives
    /\ revoked \in 0..MaxRevoked /\ faults \in 0..MaxFaults

DevicesIInv ==
    /\ TablesTyped /\ FlagsTyped /\ FetchesTyped /\ SendTyped /\ CountersTyped
    /\ Matched /\ RowsHaveRecords /\ OnlyLinked /\ OneRequest /\ InTurn /\ HasSession

-----------------------------------------------------------------------------
(* What the operators of the tables, the requests and the message return.  *)
LEMMA WithTyped ==
    ASSUME NEW t \in [Users -> SUBSET Devices], NEW u \in Users, NEW d \in Devices
    PROVE  with(t, u, d) \in [Users -> SUBSET Devices]
BY DEF with

LEMMA Updated ==
    ASSUME TablesTyped, NEW u \in Users, NEW D \in SUBSET Devices,
           updateRemoteDeviceMap(u, D)
    PROVE  list' \in [Users -> SUBSET Devices] /\ csv' \in [Users -> SUBSET Devices]
BY DEF TablesTyped, updateRemoteDeviceMap, updateRemoteKnownDevicesForUser,
       findByUserAndRoom

LEMMA Requested ==
    ASSUME NEW F \in SUBSET Fetch, NEW u \in Users, NEW w \in Purposes
    PROVE  /\ request(F, u, w) \in SUBSET Fetch
           /\ \A g \in request(F, u, w) : g \notin F =>
                 g.user = u /\ g.for = w /\ ~g.read /\ g.devices = {}
           /\ \E g \in request(F, u, w) : g.for = w
<1> DEFINE new == [user |-> u, for |-> w, read |-> FALSE, devices |-> {}]
<1>1. /\ new \in Fetch /\ new.user = u /\ new.for = w
      /\ new.read = FALSE /\ new.devices = {}
  BY DEF Fetch
<1>2. request(F, u, w) = F \cup {new}
  BY DEF request
<1> HIDE DEF new
<1>3. QED  BY <1>1, <1>2

(* Two messages that differ in their progress only.                        *)
SameMessage(s, t) ==
    t \in Send /\ t.user = s.user /\ t.known = s.known

LEMMA Skipped ==
    ASSUME NEW s \in Send
    PROVE  /\ SameMessage(s, skip(s)) /\ skip(s).at = "device"
           /\ skip(s).todo = s.todo \ {s.device} /\ skip(s).device = s.device
           /\ skip(s).copies = s.copies /\ skip(s).failed = s.failed
BY DEF Send, SameMessage, skip

LEMMA Failed ==
    ASSUME NEW s \in Send
    PROVE  /\ SameMessage(s, [s EXCEPT !.failed = TRUE])
           /\ [s EXCEPT !.failed = TRUE].todo = s.todo
           /\ [s EXCEPT !.failed = TRUE].device = s.device
           /\ [s EXCEPT !.failed = TRUE].failed = TRUE
BY DEF Send, SameMessage

LEMMA NoSendTyped ==
    /\ NoSend \in Send /\ NoSend.at = "no" /\ NoSend.todo = {}
    /\ \A u \in Users : NoSend.known[u] = {}
<1>1. Primary \in Devices
  BY DevicesAssumption DEF Primary, Devices
<1>2. QED  BY <1>1 DEF NoSend, Send, nobody, Users

(* Every step keeps the invariant: one step per action, and under it one   *)
(* per part.                                                               *)
LEMMA StepKeeps ==
    ASSUME DevicesIInv, [Next]_vars
    PROVE  DevicesIInv'
<1>0. MaxLinks \in Nat /\ MaxSends \in Nat /\ MaxReceives \in Nat /\ MaxRevoked \in Nat
      /\ MaxFaults \in Nat /\ Peer # Own /\ Primary \in Devices
  BY DevicesAssumption DEF Primary, Devices
<1> USE <1>0 DEF DevicesIInv, Users
<1>1. ASSUME NEW u \in Users, NEW d \in Devices, link(u, d)
      PROVE  DevicesIInv'
  <2>1. TablesTyped'
    BY <1>1 DEF link, with, onPeerDeviceLinked, invalidateRemoteDeviceMap,
           request, server, socket, lists, sessions, counters, TablesTyped
  <2>2. FlagsTyped'
    BY <1>1 DEF link, with, onPeerDeviceLinked, invalidateRemoteDeviceMap,
           request, server, socket, lists, sessions, counters, FlagsTyped
  <2>3. CountersTyped'
    BY <1>1 DEF link, with, onPeerDeviceLinked, invalidateRemoteDeviceMap,
           request, server, socket, lists, sessions, counters, CountersTyped
  <2>4. RowsHaveRecords'
    BY <1>1 DEF link, with, onPeerDeviceLinked, invalidateRemoteDeviceMap,
           request, server, socket, lists, sessions, counters, RowsHaveRecords,
           TablesTyped
  <2>5. SendTyped' /\ Matched'
    BY <1>1 DEF link, with, onPeerDeviceLinked, invalidateRemoteDeviceMap,
           request, server, socket, lists, sessions, counters, SendTyped, Send,
           Matched, TablesTyped, FetchesTyped, Fetch, Purposes
  <2>6. FetchesTyped'
    BY <1>1, Requested DEF link, onPeerDeviceLinked, FetchesTyped, Purposes
  <2>7. OnlyLinked' /\ OneRequest'
    BY <1>1 DEF link, with, onPeerDeviceLinked, invalidateRemoteDeviceMap,
           request, server, socket, lists, sessions, counters, OnlyLinked,
           OneRequest, TablesTyped, FetchesTyped, Fetch, Purposes, SendTyped,
           Send, Matched, InTurn
  <2>8. InTurn'
    BY <1>1 DEF link, with, onPeerDeviceLinked, invalidateRemoteDeviceMap,
           request, server, socket, lists, sessions, counters, InTurn,
           TablesTyped, FetchesTyped, Fetch, Purposes, SendTyped, Send,
           Matched, OneRequest, OnlyLinked
  <2>9. HasSession'
    BY <1>1 DEF link, with, onPeerDeviceLinked, invalidateRemoteDeviceMap,
           request, server, socket, lists, sessions, counters, HasSession,
           needsNoSession, TablesTyped, FetchesTyped, Fetch, Purposes,
           SendTyped, Send, Matched, OneRequest, InTurn, RowsHaveRecords,
           OnlyLinked
  <2>10. QED  BY <2>1, <2>2, <2>3, <2>4, <2>5, <2>6, <2>7, <2>8, <2>9
<1>2. ASSUME NEW u \in Users, NEW d \in Devices, revoke(u, d)
      PROVE  DevicesIInv'
  <2>1. TablesTyped' /\ FlagsTyped' /\ CountersTyped' /\ RowsHaveRecords'
    BY <1>2 DEF revoke, onDeviceRevoked, server, socket, lists, sessions,
           counters, TablesTyped, FlagsTyped, CountersTyped, RowsHaveRecords
  <2>2. FetchesTyped' /\ SendTyped' /\ Matched'
    BY <1>2 DEF revoke, onDeviceRevoked, server, socket, lists, sessions,
           counters, FetchesTyped, Fetch, Purposes, SendTyped, Send, Matched,
           TablesTyped
  <2>3. OnlyLinked' /\ OneRequest'
    BY <1>2 DEF revoke, onDeviceRevoked, server, socket, lists, sessions,
           counters, OnlyLinked, OneRequest, TablesTyped, FetchesTyped, Fetch,
           Purposes, SendTyped, Send, Matched, InTurn
  <2>4. InTurn'
    BY <1>2 DEF revoke, onDeviceRevoked, server, socket, lists, sessions,
           counters, InTurn, TablesTyped, FetchesTyped, Fetch, Purposes,
           SendTyped, Send, Matched, OneRequest
  <2>5. HasSession'
    BY <1>2 DEF revoke, onDeviceRevoked, server, socket, lists, sessions,
           counters, HasSession, needsNoSession, TablesTyped, FetchesTyped,
           Fetch, Purposes, SendTyped, Send, Matched, OneRequest, InTurn,
           RowsHaveRecords
  <2>6. QED  BY <2>1, <2>2, <2>3, <2>4, <2>5
<1>3. ASSUME NEW u \in Users, NEW d \in Devices, receive(u, d)
      PROVE  DevicesIInv'
  <2>1. TablesTyped' /\ FlagsTyped' /\ CountersTyped' /\ RowsHaveRecords'
    BY <1>3 DEF receive, ensureSessionInDatabase, findByUserRoomAndDevice,
           establish, upsert, with, request, Succeeds, Fails, server,
           socket, lists, sessions, counters, TablesTyped, FlagsTyped,
           CountersTyped, RowsHaveRecords
  <2>2. SendTyped' /\ Matched'
    BY <1>3 DEF receive, ensureSessionInDatabase, findByUserRoomAndDevice,
           establish, upsert, with, request, Succeeds, Fails, server,
           socket, lists, sessions, counters, SendTyped, Send, Matched,
           TablesTyped, FetchesTyped, Fetch, Purposes
  <2>3. FetchesTyped'
    BY <1>3, Requested DEF receive, ensureSessionInDatabase,
           findByUserRoomAndDevice, FetchesTyped, Purposes
  <2>4. OnlyLinked' /\ OneRequest'
    BY <1>3 DEF receive, ensureSessionInDatabase, findByUserRoomAndDevice,
           establish, upsert, with, request, Succeeds, Fails, server,
           socket, lists, sessions, counters, OnlyLinked, OneRequest,
           TablesTyped, FetchesTyped, Fetch, Purposes, SendTyped, Send,
           Matched, InTurn
  <2>5. InTurn'
    BY <1>3 DEF receive, ensureSessionInDatabase, findByUserRoomAndDevice,
           establish, upsert, with, request, Succeeds, Fails, server,
           socket, lists, sessions, counters, InTurn, TablesTyped,
           FetchesTyped, Fetch, Purposes, SendTyped, Send, Matched, OneRequest
  <2>6. HasSession'
    BY <1>3 DEF receive, ensureSessionInDatabase, findByUserRoomAndDevice,
           establish, upsert, with, request, Succeeds, Fails, server,
           socket, lists, sessions, counters, HasSession, needsNoSession,
           TablesTyped, FetchesTyped, Fetch, Purposes, SendTyped, Send,
           Matched, OneRequest, InTurn, RowsHaveRecords
  <2>7. QED  BY <2>1, <2>2, <2>3, <2>4, <2>5, <2>6
<1>4. CASE connect
  <2>1. TablesTyped' /\ FlagsTyped' /\ CountersTyped' /\ RowsHaveRecords'
    BY <1>4 DEF connect, server, socket, lists, sessions, counters,
           TablesTyped, FlagsTyped, CountersTyped, RowsHaveRecords
  <2>2. FetchesTyped' /\ SendTyped' /\ Matched'
    BY <1>4 DEF connect, server, socket, lists, sessions, counters,
           FetchesTyped, Fetch, Purposes, SendTyped, Send, Matched, TablesTyped
  <2>3. OnlyLinked' /\ OneRequest'
    BY <1>4 DEF connect, server, socket, lists, sessions, counters, OnlyLinked,
           OneRequest, TablesTyped, FetchesTyped, Fetch, Purposes, SendTyped,
           Send, Matched, InTurn
  <2>4. InTurn'
    BY <1>4 DEF connect, server, socket, lists, sessions, counters, InTurn,
           TablesTyped, FetchesTyped, Fetch, Purposes, SendTyped, Send,
           Matched, OneRequest
  <2>5. HasSession'
    BY <1>4 DEF connect, server, socket, lists, sessions, counters, HasSession,
           needsNoSession, TablesTyped, FetchesTyped, Fetch, Purposes,
           SendTyped, Send, Matched, OneRequest, InTurn, RowsHaveRecords
  <2>6. QED  BY <2>1, <2>2, <2>3, <2>4, <2>5
<1>5. CASE disconnect
  <2>1. TablesTyped' /\ FlagsTyped' /\ CountersTyped' /\ RowsHaveRecords'
    BY <1>5 DEF disconnect, server, socket, lists, sessions, counters,
           TablesTyped, FlagsTyped, CountersTyped, RowsHaveRecords
  <2>2. FetchesTyped' /\ SendTyped' /\ Matched'
    BY <1>5 DEF disconnect, server, socket, lists, sessions, counters,
           FetchesTyped, Fetch, Purposes, SendTyped, Send, Matched, TablesTyped
  <2>3. OnlyLinked' /\ OneRequest'
    BY <1>5 DEF disconnect, server, socket, lists, sessions, counters,
           OnlyLinked, OneRequest, TablesTyped, FetchesTyped, Fetch, Purposes,
           SendTyped, Send, Matched, InTurn
  <2>4. InTurn'
    BY <1>5 DEF disconnect, server, socket, lists, sessions, counters, InTurn,
           TablesTyped, FetchesTyped, Fetch, Purposes, SendTyped, Send,
           Matched, OneRequest
  <2>5. HasSession'
    BY <1>5 DEF disconnect, server, socket, lists, sessions, counters,
           HasSession, needsNoSession, TablesTyped, FetchesTyped, Fetch,
           Purposes, SendTyped, Send, Matched, OneRequest, InTurn,
           RowsHaveRecords
  <2>6. QED  BY <2>1, <2>2, <2>3, <2>4, <2>5
<1>6. CASE syncRoomMembersAndSessions
  <2>1. TablesTyped' /\ FlagsTyped' /\ CountersTyped' /\ RowsHaveRecords'
    BY <1>6 DEF syncRoomMembersAndSessions, refreshMember, request, server,
           socket, lists, sessions, counters, TablesTyped, FlagsTyped,
           CountersTyped, RowsHaveRecords
  <2>2. SendTyped' /\ Matched'
    BY <1>6 DEF syncRoomMembersAndSessions, refreshMember, request, server,
           socket, lists, sessions, counters, SendTyped, Send, Matched,
           TablesTyped, FetchesTyped, Fetch, Purposes
  <2>3. FetchesTyped'
    <3>1. request(fetches, Own, "list") \in SUBSET Fetch
      BY Requested DEF FetchesTyped, Purposes
    <3>2. QED
      BY <1>6, <3>1, Requested DEF syncRoomMembersAndSessions, refreshMember,
             FetchesTyped, Purposes
  <2>4. OnlyLinked' /\ OneRequest'
    BY <1>6 DEF syncRoomMembersAndSessions, refreshMember, request, server,
           socket, lists, sessions, counters, OnlyLinked, OneRequest,
           TablesTyped, FetchesTyped, Fetch, Purposes, SendTyped, Send,
           Matched, InTurn
  <2>5. InTurn'
    BY <1>6 DEF syncRoomMembersAndSessions, refreshMember, request, server,
           socket, lists, sessions, counters, InTurn, TablesTyped,
           FetchesTyped, Fetch, Purposes, SendTyped, Send, Matched, OneRequest
  <2>6. HasSession'
    BY <1>6 DEF syncRoomMembersAndSessions, refreshMember, request, server,
           socket, lists, sessions, counters, HasSession, needsNoSession,
           TablesTyped, FetchesTyped, Fetch, Purposes, SendTyped, Send,
           Matched, OneRequest, InTurn, RowsHaveRecords
  <2>7. QED  BY <2>1, <2>2, <2>3, <2>4, <2>5, <2>6
<1>7. CASE throttleExpires
  <2>1. TablesTyped' /\ FlagsTyped' /\ CountersTyped' /\ RowsHaveRecords'
    BY <1>7 DEF throttleExpires, server, socket, lists, sessions, counters,
           TablesTyped, FlagsTyped, CountersTyped, RowsHaveRecords
  <2>2. FetchesTyped' /\ SendTyped' /\ Matched'
    BY <1>7 DEF throttleExpires, server, socket, lists, sessions, counters,
           FetchesTyped, Fetch, Purposes, SendTyped, Send, Matched, TablesTyped
  <2>3. OnlyLinked' /\ OneRequest'
    BY <1>7 DEF throttleExpires, server, socket, lists, sessions, counters,
           OnlyLinked, OneRequest, TablesTyped, FetchesTyped, Fetch, Purposes,
           SendTyped, Send, Matched, InTurn
  <2>4. InTurn'
    BY <1>7 DEF throttleExpires, server, socket, lists, sessions, counters,
           InTurn, TablesTyped, FetchesTyped, Fetch, Purposes, SendTyped, Send,
           Matched, OneRequest
  <2>5. HasSession'
    BY <1>7 DEF throttleExpires, server, socket, lists, sessions, counters,
           HasSession, needsNoSession, TablesTyped, FetchesTyped, Fetch,
           Purposes, SendTyped, Send, Matched, OneRequest, InTurn,
           RowsHaveRecords
  <2>6. QED  BY <2>1, <2>2, <2>3, <2>4, <2>5
<1>8. ASSUME NEW f \in fetches, getRemoteKeys(f)
      PROVE  DevicesIInv'
  <2>0. PICK g \in Fetch : /\ fetches' = (fetches \ {f}) \cup {g}
                         /\ g.user = f.user /\ g.for = f.for /\ g.read
                         /\ g.devices = published[f.user]
    <3>0. f \in Fetch /\ f.user \in Users
      BY DEF FetchesTyped, Fetch
    <3>1. f \in Fetch /\ published[f.user] \in SUBSET Devices
      <4>1. published \in [Users -> SUBSET Devices]
        BY DEF TablesTyped
      <4> HIDE DEF Users
      <4>2. QED  BY <3>0, <4>1
    <3> DEFINE g == [f EXCEPT !.read = TRUE, !.devices = published[f.user]]
    <3>2. /\ g \in Fetch /\ g.user = f.user /\ g.for = f.for /\ g.read
          /\ g.devices = published[f.user]
      BY <3>1 DEF Fetch
    <3>3. fetches' = (fetches \ {f}) \cup {g}
      BY <1>8 DEF getRemoteKeys
    <3> HIDE DEF g
    <3>4. QED  BY <3>2, <3>3
  <2>1. TablesTyped' /\ FlagsTyped' /\ CountersTyped' /\ RowsHaveRecords'
    BY <1>8 DEF getRemoteKeys, server, socket, lists, sessions, counters,
           TablesTyped, FlagsTyped, CountersTyped, RowsHaveRecords
  <2>2. FetchesTyped' /\ SendTyped'
    BY <1>8 DEF getRemoteKeys, server, socket, lists, sessions, counters,
           FetchesTyped, Fetch, Purposes, SendTyped, Send, TablesTyped
  <2>3. Matched'
    BY <1>8, <2>0 DEF getRemoteKeys, Matched
  <2>4. OnlyLinked'
    BY <1>8 DEF getRemoteKeys, server, socket, lists, sessions, counters,
           OnlyLinked, TablesTyped, FetchesTyped, Fetch, Purposes, SendTyped,
           Send
  <2>5. OneRequest'
    BY <1>8, <2>0 DEF getRemoteKeys, OneRequest, server
  <2>6. InTurn'
    BY <1>8 DEF getRemoteKeys, server, socket, lists, sessions, counters,
           InTurn, TablesTyped, FetchesTyped, Fetch, Purposes, SendTyped, Send,
           Matched, OneRequest
  <2>7. HasSession'
    BY <1>8 DEF getRemoteKeys, server, socket, lists, sessions, counters,
           HasSession, needsNoSession, TablesTyped, FetchesTyped, Fetch,
           Purposes, SendTyped, Send, Matched, OneRequest, InTurn,
           RowsHaveRecords
  <2>8. QED  BY <2>1, <2>2, <2>3, <2>4, <2>5, <2>6, <2>7
<1>9. ASSUME NEW f \in fetches, refreshRemoteDeviceMap(f)
      PROVE  DevicesIInv'
  <2>1. FlagsTyped' /\ CountersTyped' /\ RowsHaveRecords'
    BY <1>9 DEF refreshRemoteDeviceMap, updateRemoteDeviceMap,
           updateRemoteKnownDevicesForUser, findByUserAndRoom, server, socket,
           lists, sessions, counters, FlagsTyped, CountersTyped,
           RowsHaveRecords, TablesTyped
  <2>2. TablesTyped'
    <3>1. f.user \in Users /\ f.devices \in SUBSET Devices
      BY DEF FetchesTyped, Fetch
    <3>2. QED  BY <1>9, <3>1, Updated DEF refreshRemoteDeviceMap, server,
           sessions, TablesTyped
  <2>3. FetchesTyped' /\ SendTyped' /\ Matched'
    BY <1>9 DEF refreshRemoteDeviceMap, updateRemoteDeviceMap,
           updateRemoteKnownDevicesForUser, findByUserAndRoom, server, socket,
           lists, sessions, counters, FetchesTyped, Fetch, Purposes, SendTyped,
           Send, Matched, TablesTyped
  <2>4. OnlyLinked' /\ OneRequest'
    BY <1>9 DEF refreshRemoteDeviceMap, updateRemoteDeviceMap,
           updateRemoteKnownDevicesForUser, findByUserAndRoom, server, socket,
           lists, sessions, counters, OnlyLinked, OneRequest, TablesTyped,
           FetchesTyped, Fetch, Purposes, SendTyped, Send, Matched, InTurn
  <2>5. InTurn'
    BY <1>9 DEF refreshRemoteDeviceMap, updateRemoteDeviceMap,
           updateRemoteKnownDevicesForUser, findByUserAndRoom, server, socket,
           lists, sessions, counters, InTurn, TablesTyped, FetchesTyped, Fetch,
           Purposes, SendTyped, Send, Matched, OneRequest
  <2>6. HasSession'
    BY <1>9 DEF refreshRemoteDeviceMap, updateRemoteDeviceMap,
           updateRemoteKnownDevicesForUser, findByUserAndRoom, server, socket,
           lists, sessions, counters, HasSession, needsNoSession, TablesTyped,
           FetchesTyped, Fetch, Purposes, SendTyped, Send, Matched, OneRequest,
           InTurn, RowsHaveRecords
  <2>7. QED  BY <2>1, <2>2, <2>3, <2>4, <2>5, <2>6
<1>10. ASSUME NEW f \in fetches, setSession(f)
      PROVE  DevicesIInv'
  <2>1. TablesTyped'
    <3>1. f.user \in Users /\ f.devices \in SUBSET Devices
      BY DEF FetchesTyped, Fetch
    <3>2. CASE updateRemoteDeviceMap(f.user, f.devices) /\ establish(f.user, Primary)
      <4>1. list' \in [Users -> SUBSET Devices] /\ csv' \in [Users -> SUBSET Devices]
        BY <3>1, <3>2, Updated
      <4>2. QED
        BY <1>10, <3>1, <3>2, <4>1, WithTyped DEF setSession,
               deleteByUserAndRoom, establish, upsert,
               server, TablesTyped
    <3>3. CASE ~(updateRemoteDeviceMap(f.user, f.devices) /\ establish(f.user, Primary))
      BY <1>10, <3>1, <3>3 DEF setSession, deleteByUserAndRoom, server,
             TablesTyped
    <3>4. QED  BY <3>2, <3>3
  <2>2. FlagsTyped'
    BY <1>10 DEF setSession, deleteByUserAndRoom, updateRemoteDeviceMap,
           updateRemoteKnownDevicesForUser, findByUserAndRoom, establish,
           upsert, with, Succeeds,
           Fails, server, socket, lists, sessions, counters, FlagsTyped
  <2>3. CountersTyped'
    BY <1>10 DEF setSession, deleteByUserAndRoom, updateRemoteDeviceMap,
           updateRemoteKnownDevicesForUser, findByUserAndRoom, establish,
           upsert, with, Succeeds,
           Fails, server, socket, lists, sessions, counters, CountersTyped
  <2>4. RowsHaveRecords'
    BY <1>10 DEF setSession, deleteByUserAndRoom, updateRemoteDeviceMap,
           updateRemoteKnownDevicesForUser, findByUserAndRoom, establish,
           upsert, with, Succeeds,
           Fails, server, socket, lists, sessions, counters, RowsHaveRecords,
           TablesTyped
  <2>5. FetchesTyped' /\ SendTyped' /\ Matched'
    BY <1>10 DEF setSession, deleteByUserAndRoom, updateRemoteDeviceMap,
           updateRemoteKnownDevicesForUser, findByUserAndRoom, establish,
           upsert, with, Succeeds,
           Fails, server, socket, lists, sessions, counters, FetchesTyped,
           Fetch, Purposes, SendTyped, Send, Matched, TablesTyped
  <2>6. OnlyLinked' /\ OneRequest'
    BY <1>10 DEF setSession, deleteByUserAndRoom, updateRemoteDeviceMap,
           updateRemoteKnownDevicesForUser, findByUserAndRoom, establish,
           upsert, with, Succeeds,
           Fails, server, socket, lists, sessions, counters, OnlyLinked,
           OneRequest, TablesTyped, FetchesTyped, Fetch, Purposes, SendTyped,
           Send, Matched, InTurn
  <2>7. InTurn'
    BY <1>10 DEF setSession, deleteByUserAndRoom, updateRemoteDeviceMap,
           updateRemoteKnownDevicesForUser, findByUserAndRoom, establish,
           upsert, with, Succeeds,
           Fails, server, socket, lists, sessions, counters, InTurn,
           TablesTyped, FetchesTyped, Fetch, Purposes, SendTyped, Send,
           Matched, OneRequest
  <2>8. HasSession'
    BY <1>10 DEF setSession, deleteByUserAndRoom, updateRemoteDeviceMap,
           updateRemoteKnownDevicesForUser, findByUserAndRoom, establish,
           upsert, with, Succeeds,
           Fails, server, socket, lists, sessions, counters, HasSession,
           needsNoSession, TablesTyped, FetchesTyped, Fetch, Purposes,
           SendTyped, Send, Matched, OneRequest, InTurn, RowsHaveRecords
  <2>9. QED  BY <2>1, <2>2, <2>3, <2>4, <2>5, <2>6, <2>7, <2>8
<1>11. ASSUME NEW f \in fetches, recoverSession(f)
      PROVE  DevicesIInv'
  <2>1. FlagsTyped' /\ CountersTyped' /\ RowsHaveRecords'
    BY <1>11 DEF recoverSession, assertIdentityNotChanged, applyRemoteKeys,
           updateRemoteDeviceMap,
           updateRemoteKnownDevicesForUser, findByUserAndRoom, with, server,
           socket,
           lists, sessions, counters, FlagsTyped, CountersTyped,
           RowsHaveRecords, TablesTyped
  <2>2. TablesTyped'
    <3>1. f.user \in Users /\ f.devices \in SUBSET Devices
      BY DEF FetchesTyped, Fetch
    <3>2. list' \in [Users -> SUBSET Devices] /\ csv' \in [Users -> SUBSET Devices]
      BY <1>11, <3>1, Updated DEF recoverSession
    <3>3. QED  BY <1>11, <3>1, <3>2, WithTyped DEF recoverSession, assertIdentityNotChanged,
           applyRemoteKeys, server,
           TablesTyped
  <2>3. FetchesTyped' /\ SendTyped' /\ Matched'
    BY <1>11 DEF recoverSession, assertIdentityNotChanged, applyRemoteKeys,
           updateRemoteDeviceMap,
           updateRemoteKnownDevicesForUser, findByUserAndRoom, with, server,
           socket,
           lists, sessions, counters, FetchesTyped, Fetch, Purposes, SendTyped,
           Send, Matched, TablesTyped
  <2>4. OnlyLinked' /\ OneRequest'
    BY <1>11 DEF recoverSession, assertIdentityNotChanged, applyRemoteKeys,
           updateRemoteDeviceMap,
           updateRemoteKnownDevicesForUser, findByUserAndRoom, with, server,
           socket,
           lists, sessions, counters, OnlyLinked, OneRequest, TablesTyped,
           FetchesTyped, Fetch, Purposes, SendTyped, Send, Matched, InTurn
  <2>5. InTurn'
    BY <1>11 DEF recoverSession, assertIdentityNotChanged, applyRemoteKeys,
           updateRemoteDeviceMap,
           updateRemoteKnownDevicesForUser, findByUserAndRoom, with, server,
           socket,
           lists, sessions, counters, InTurn, TablesTyped, FetchesTyped, Fetch,
           Purposes, SendTyped, Send, Matched, OneRequest
  <2>6. HasSession'
    BY <1>11 DEF recoverSession, assertIdentityNotChanged, applyRemoteKeys,
           updateRemoteDeviceMap,
           updateRemoteKnownDevicesForUser, findByUserAndRoom, with, server,
           socket,
           lists, sessions, counters, HasSession, needsNoSession, TablesTyped,
           FetchesTyped, Fetch, Purposes, SendTyped, Send, Matched, OneRequest,
           InTurn, RowsHaveRecords
  <2>7. QED  BY <2>1, <2>2, <2>3, <2>4, <2>5, <2>6
<1>12. ASSUME NEW f \in fetches, sessionFromKeys(f)
      PROVE  DevicesIInv'
  <2>a. f \in fetches /\ f \in Fetch /\ f.for = "send" /\ f.read /\ send \in Send
    BY <1>12 DEF sessionFromKeys, FetchesTyped, SendTyped
  <2>b. /\ send.at = "fetch" /\ f.user = send.user /\ send.device \in send.todo
        /\ send.device \in Devices /\ fetches' = fetches \ {f}
        /\ \A g \in fetches' : g.for # "send"
    BY <1>12, <2>a DEF sessionFromKeys, OneRequest, Matched,
           InTurn, Send
  <2>c. /\ SameMessage(send, send') /\ send'.device = send.device
        /\ send'.copies = send.copies
        /\ \/ /\ send'.at = "encrypt" /\ send'.todo = send.todo
              /\ send'.failed = send.failed
              /\ establish(f.user, send.device)
           \/ /\ send'.at = "device" /\ send'.todo = send.todo \ {send.device}
              /\ UNCHANGED sessions
              /\ \/ send'.failed
                 \/ send'.failed = send.failed /\ send.device \notin f.devices
    <3>1. CASE send' = [send EXCEPT !.at = "encrypt"] /\ establish(f.user, send.device)
      BY <2>a, <3>1 DEF Send, SameMessage
    <3>2. CASE send' = skip([send EXCEPT !.failed = TRUE]) /\ UNCHANGED sessions
      <4>1. [send EXCEPT !.failed = TRUE] \in Send
        BY <2>a, Failed DEF SameMessage
      <4>2. [send EXCEPT !.failed = TRUE].copies = send.copies
        BY <2>a DEF Send
      <4>3. QED  BY <2>a, <3>2, <4>1, <4>2, Failed, Skipped DEF SameMessage
    <3>3. CASE /\ send' = skip(send) /\ UNCHANGED sessions
               /\ send.device \notin f.devices
      BY <2>a, <3>3, Skipped
    <3>4. \/ send' = [send EXCEPT !.at = "encrypt"] /\ establish(f.user, send.device)
          \/ send' = skip([send EXCEPT !.failed = TRUE]) /\ UNCHANGED sessions
          \/ /\ send' = skip(send) /\ UNCHANGED sessions
             /\ send.device \notin f.devices
      BY <1>12 DEF sessionFromKeys, keysCannotBeTaken
    <3>5. QED  BY <3>1, <3>2, <3>3, <3>4
  <2>d. UNCHANGED <<published, linked>>
    BY <1>12 DEF sessionFromKeys, server
  <2>1. FlagsTyped' /\ CountersTyped' /\ RowsHaveRecords'
    BY <1>12 DEF sessionFromKeys, updateRemoteDeviceMap,
           updateRemoteKnownDevicesForUser, findByUserAndRoom,
           establish, upsert, with, keysCannotBeTaken, skip, Succeeds, Fails, server,
           socket, lists, sessions, counters, FlagsTyped, CountersTyped,
           RowsHaveRecords, TablesTyped
  <2>2. TablesTyped'
    <3>1. f.user \in Users /\ f.devices \in SUBSET Devices
      BY <2>a DEF Fetch
    <3>2. list' \in [Users -> SUBSET Devices] /\ csv' \in [Users -> SUBSET Devices]
      BY <1>12, <3>1, Updated DEF sessionFromKeys
    <3>3. rows' \in [Users -> SUBSET Devices] /\ warm' \in [Users -> SUBSET Devices]
          /\ records' \in [Users -> SUBSET Devices]
      <4>1. CASE establish(f.user, send.device)
        BY <2>b, <3>1, <4>1, WithTyped DEF establish, upsert, TablesTyped
      <4>2. CASE UNCHANGED sessions
        BY <4>2 DEF sessions, TablesTyped
      <4>3. QED  BY <2>c, <4>1, <4>2
    <3>4. QED  BY <2>d, <3>2, <3>3 DEF TablesTyped
  <2>3. FetchesTyped'
    BY <1>12 DEF sessionFromKeys, updateRemoteDeviceMap,
           updateRemoteKnownDevicesForUser, findByUserAndRoom,
           establish, upsert, with, keysCannotBeTaken, skip, Succeeds, Fails, server,
           socket, lists, sessions, counters, FetchesTyped, Fetch, Purposes,
           TablesTyped
  <2>4. SendTyped'
    BY <2>c DEF SendTyped, SameMessage
  <2>5. Matched'
    BY <2>b, <2>c DEF Matched
  <2>6. OnlyLinked' /\ OneRequest'
    BY <1>12 DEF sessionFromKeys, updateRemoteDeviceMap,
           updateRemoteKnownDevicesForUser, findByUserAndRoom,
           establish, upsert, with, keysCannotBeTaken, skip, Succeeds, Fails, server,
           socket, lists, sessions, counters, OnlyLinked, OneRequest,
           TablesTyped, FetchesTyped, Fetch, Purposes, SendTyped, Send,
           Matched, InTurn
  <2>7. InTurn'
    BY <2>a, <2>b, <2>c, <2>d DEF InTurn, OneRequest, SameMessage
  <2>8. HasSession'
    <3>1. send'.at = "encrypt" => send.device \in records'[f.user] \cap warm'[f.user]
      BY <2>a, <2>b, <2>c DEF establish, upsert, with, TablesTyped, Fetch
    <3>2. QED  BY <2>b, <2>c, <3>1 DEF HasSession, SameMessage
  <2>9. QED  BY <2>1, <2>2, <2>3, <2>4, <2>5, <2>6, <2>7, <2>8
<1>13. ASSUME NEW f \in fetches, fetchFails(f)
      PROVE  DevicesIInv'
  <2>1. TablesTyped' /\ FlagsTyped' /\ CountersTyped' /\ RowsHaveRecords'
    BY <1>13 DEF fetchFails, skip, Fails, server, socket, lists, sessions,
           counters, TablesTyped, FlagsTyped, CountersTyped, RowsHaveRecords
  <2>2. FetchesTyped' /\ SendTyped'
    BY <1>13 DEF fetchFails, skip, Fails, server, socket, lists, sessions,
           counters, FetchesTyped, Fetch, Purposes, SendTyped, Send,
           TablesTyped
  <2>3. Matched'
    <3>1. send \in Send
      BY DEF SendTyped
    <3>2. CASE f.for = "send"
      <4>1. send'.at = "device"
        <5>1. [send EXCEPT !.failed = TRUE] \in Send
          BY <3>1, Failed DEF SameMessage
        <5>2. QED  BY <1>13, <3>2, <5>1, Skipped DEF fetchFails
      <4>2. QED  BY <1>13, <3>2, <4>1 DEF fetchFails, Matched, OneRequest
    <3>3. CASE f.for # "send"
      BY <1>13, <3>3 DEF fetchFails, Matched
    <3>4. QED  BY <3>2, <3>3
  <2>4. OnlyLinked' /\ OneRequest'
    BY <1>13 DEF fetchFails, skip, Fails, server, socket, lists, sessions,
           counters, OnlyLinked, OneRequest, TablesTyped, FetchesTyped, Fetch,
           Purposes, SendTyped, Send, Matched, InTurn
  <2>5. InTurn'
    BY <1>13 DEF fetchFails, skip, Fails, server, socket, lists, sessions,
           counters, InTurn, TablesTyped, FetchesTyped, Fetch, Purposes,
           SendTyped, Send, Matched, OneRequest
  <2>6. HasSession'
    BY <1>13 DEF fetchFails, skip, Fails, server, socket, lists, sessions,
           counters, HasSession, needsNoSession, TablesTyped, FetchesTyped,
           Fetch, Purposes, SendTyped, Send, Matched, OneRequest, InTurn,
           RowsHaveRecords
  <2>7. QED  BY <2>1, <2>2, <2>3, <2>4, <2>5, <2>6
<1>14. CASE startEncrypt
  <2>1. TablesTyped' /\ FlagsTyped' /\ CountersTyped' /\ RowsHaveRecords'
    BY <1>14 DEF startEncrypt, ensureSession, resumeSession, findByUserAndRoom,
           with, NoSend, nobody, server, socket, lists,
           sessions, counters, TablesTyped, FlagsTyped, CountersTyped,
           RowsHaveRecords
  <2>2. FetchesTyped' /\ SendTyped' /\ Matched'
    BY <1>14 DEF startEncrypt, NoSend, nobody, server, socket, lists,
           sessions, counters, FetchesTyped, Fetch, Purposes, SendTyped, Send,
           Matched, TablesTyped
  <2>3. OnlyLinked' /\ OneRequest'
    BY <1>14 DEF startEncrypt, ensureSession, resumeSession, findByUserAndRoom,
           with, NoSend, nobody, server, socket, lists,
           sessions, counters, OnlyLinked, OneRequest, TablesTyped,
           FetchesTyped, Fetch, Purposes, SendTyped, Send, Matched, InTurn
  <2>4. InTurn'
    BY <1>14 DEF startEncrypt, ensureSession, resumeSession, findByUserAndRoom,
           with, NoSend, nobody, server, socket, lists,
           sessions, counters, InTurn, TablesTyped, FetchesTyped, Fetch,
           Purposes, SendTyped, Send, Matched, OneRequest
  <2>5. HasSession'
    BY <1>14 DEF startEncrypt, ensureSession, resumeSession, findByUserAndRoom,
           with, NoSend, nobody, server, socket, lists,
           sessions, counters, HasSession, needsNoSession, TablesTyped,
           FetchesTyped, Fetch, Purposes, SendTyped, Send, Matched, OneRequest,
           InTurn, RowsHaveRecords
  <2>6. QED  BY <2>1, <2>2, <2>3, <2>4, <2>5
<1>15. ASSUME NEW d \in Devices, ensureDevice(d)
      PROVE  DevicesIInv'
  <2>a. send \in Send /\ send.user \in Users /\ send.at = "device" /\ d \in send.todo
    BY <1>15 DEF ensureDevice, findByUserRoomAndDevice, resumeSession,
           SendTyped, Send
  <2>b. /\ SameMessage(send, send') /\ send'.device = d /\ send'.todo = send.todo
        /\ send'.copies = send.copies /\ send'.failed = send.failed
        /\ \/ /\ send'.at = "encrypt" /\ UNCHANGED fetches
              /\ \/ needsNoSession(send.user, d) /\ UNCHANGED warm
                 \/ d \in rows[send.user] /\ warm' = with(warm, send.user, d)
           \/ /\ send'.at = "fetch" /\ fetches' = request(fetches, send.user, "send")
              /\ UNCHANGED warm
    BY <1>15, <2>a DEF ensureDevice, findByUserRoomAndDevice, resumeSession,
           Send, SameMessage
  <2>c. UNCHANGED <<published, linked, list, csv, rows, records>>
    BY <1>15 DEF ensureDevice, findByUserRoomAndDevice, resumeSession, server,
           lists
  <2>d. \A g \in fetches : g.for # "send"
    BY <2>a DEF Matched
  <2>e. /\ request(fetches, send.user, "send") \in SUBSET Fetch
        /\ \A g \in request(fetches, send.user, "send") : g \notin fetches =>
              g.user = send.user /\ g.for = "send" /\ ~g.read /\ g.devices = {}
        /\ \E g \in request(fetches, send.user, "send") : g.for = "send"
    BY <2>a, Requested DEF FetchesTyped, Purposes
  <2>1. TablesTyped' /\ FlagsTyped' /\ CountersTyped' /\ RowsHaveRecords'
    BY <1>15 DEF ensureDevice, findByUserRoomAndDevice, resumeSession, with,
           request, server, socket, lists, sessions,
           counters, TablesTyped, FlagsTyped, CountersTyped, RowsHaveRecords
  <2>2. FetchesTyped'
    BY <2>b, <2>e DEF FetchesTyped
  <2>3. SendTyped'
    BY <2>b DEF SendTyped, SameMessage
  <2>4. Matched'
    BY <2>b, <2>d, <2>e DEF Matched
  <2>5. OnlyLinked'
    BY <2>a, <2>b, <2>c, <2>e DEF OnlyLinked, SameMessage, TablesTyped
  <2>6. OneRequest'
    <3>1. \A g \in fetches' : g.for = "send" => ~g.read /\ g.user = send'.user
      BY <2>b, <2>d, <2>e DEF SameMessage
    <3>2. \A g, h \in fetches' : g.for = "send" /\ h.for = "send" => g = h
      BY <2>b, <2>d DEF request
    <3>3. QED  BY <3>1, <3>2 DEF OneRequest
  <2>7. InTurn'
    BY <2>a, <2>b, <2>c DEF InTurn, SameMessage
  <2>8. HasSession'
    BY <2>a, <2>b, <2>c DEF HasSession, SameMessage, RowsHaveRecords, with,
           TablesTyped
  <2>9. QED  BY <2>1, <2>2, <2>3, <2>4, <2>5, <2>6, <2>7, <2>8
<1>16. CASE encryptMessage
  <2>a. /\ send \in Send /\ send.at = "encrypt" /\ send.device \in send.todo
        /\ send.user \in Users /\ send.device \in Devices
        /\ send.copies \in [Users -> SUBSET Devices]
    BY <1>16 DEF encryptMessage, SendTyped, Send, InTurn
  <2>b. UNCHANGED <<published, linked, list, csv, rows, warm, records, fetches>>
    BY <1>16 DEF encryptMessage, server, lists, sessions
  <2>c. \/ send' = NoSend
        \/ /\ SameMessage(send, send') /\ send'.at = "device"
           /\ send'.todo = send.todo \ {send.device} /\ send'.failed = send.failed
           /\ \/ send'.copies = with(send.copies, send.user, send.device)
              \/ /\ send'.copies = send.copies
                 /\ send.device \notin published[send.user]
    <3>1. CASE send.device \in warm[send.user] \cap records[send.user]
      <4> DEFINE s == [send EXCEPT !.copies = with(@, send.user, send.device)]
      <4>1. with(send.copies, send.user, send.device) \in [Users -> SUBSET Devices]
        BY <2>a, WithTyped
      <4>2. /\ s \in Send /\ s.copies = with(send.copies, send.user, send.device)
            /\ SameMessage(send, s) /\ s.todo = send.todo /\ s.device = send.device
            /\ s.failed = send.failed
        BY <2>a, <4>1 DEF Send, SameMessage
      <4>3. send' = skip(s)
        BY <1>16, <3>1 DEF encryptMessage
      <4> HIDE DEF s
      <4>4. QED  BY <4>2, <4>3, Skipped DEF SameMessage
    <3>2. CASE send.device \notin warm[send.user] \cap records[send.user]
      <4>1. CASE needsNoSession(send.user, send.device)
        BY <1>16, <3>2, <4>1 DEF encryptMessage
      <4>2. CASE ~needsNoSession(send.user, send.device)
        <5>1. send' = skip(send)
          BY <1>16, <3>2, <4>2 DEF encryptMessage
        <5>2. send.device \notin published[send.user]
          BY <2>a, <3>2, <4>2 DEF HasSession
        <5>3. QED  BY <2>a, <5>1, <5>2, Skipped
      <4>3. QED  BY <4>1, <4>2
    <3>3. QED  BY <3>1, <3>2
  <2>1. TablesTyped' /\ FlagsTyped' /\ CountersTyped' /\ RowsHaveRecords'
    BY <1>16 DEF encryptMessage, skip, with, NoSend, nobody, server, socket,
           lists, sessions, counters, TablesTyped, FlagsTyped, CountersTyped,
           RowsHaveRecords
  <2>2. FetchesTyped'
    BY <1>16 DEF encryptMessage, skip, with, NoSend, nobody, server, socket,
           lists, sessions, counters, FetchesTyped, Fetch, Purposes,
           TablesTyped
  <2>3. SendTyped'
    BY <2>c, NoSendTyped DEF SendTyped, SameMessage
  <2>4. Matched'
    BY <2>a, <2>b, <2>c, NoSendTyped DEF Matched
  <2>5. OnlyLinked'
    BY <2>b, <2>c, NoSendTyped DEF OnlyLinked, SameMessage
  <2>6. OneRequest'
    BY <2>a, <2>b DEF OneRequest, Matched
  <2>7. InTurn'
    BY <2>a, <2>b, <2>c, NoSendTyped DEF InTurn, SameMessage, with
  <2>8. HasSession'
    BY <2>c, NoSendTyped DEF HasSession
  <2>9. QED  BY <2>1, <2>2, <2>3, <2>4, <2>5, <2>6, <2>7, <2>8
<1>17. CASE selfFanOut
  <2>1. TablesTyped' /\ FlagsTyped' /\ CountersTyped' /\ RowsHaveRecords'
    BY <1>17 DEF selfFanOut, server, socket, lists, sessions, counters,
           TablesTyped, FlagsTyped, CountersTyped, RowsHaveRecords
  <2>2. FetchesTyped' /\ SendTyped' /\ Matched'
    BY <1>17 DEF selfFanOut, server, socket, lists, sessions, counters,
           FetchesTyped, Fetch, Purposes, SendTyped, Send, Matched, TablesTyped
  <2>3. OnlyLinked' /\ OneRequest'
    BY <1>17 DEF selfFanOut, server, socket, lists, sessions, counters,
           OnlyLinked, OneRequest, TablesTyped, FetchesTyped, Fetch, Purposes,
           SendTyped, Send, Matched, InTurn
  <2>4. InTurn'
    BY <1>17 DEF selfFanOut, server, socket, lists, sessions, counters, InTurn,
           TablesTyped, FetchesTyped, Fetch, Purposes, SendTyped, Send,
           Matched, OneRequest
  <2>5. HasSession'
    BY <1>17 DEF selfFanOut, server, socket, lists, sessions, counters,
           HasSession, needsNoSession, TablesTyped, FetchesTyped, Fetch,
           Purposes, SendTyped, Send, Matched, OneRequest, InTurn,
           RowsHaveRecords
  <2>6. QED  BY <2>1, <2>2, <2>3, <2>4, <2>5
<1>18. CASE encrypted
  <2>1. TablesTyped' /\ FlagsTyped' /\ CountersTyped' /\ RowsHaveRecords'
    BY <1>18 DEF encrypted, NoSend, nobody, server, socket, lists, sessions,
           counters, TablesTyped, FlagsTyped, CountersTyped, RowsHaveRecords
  <2>2. FetchesTyped' /\ SendTyped' /\ Matched'
    BY <1>18 DEF encrypted, NoSend, nobody, server, socket, lists, sessions,
           counters, FetchesTyped, Fetch, Purposes, SendTyped, Send, Matched,
           TablesTyped
  <2>3. OnlyLinked' /\ OneRequest'
    BY <1>18 DEF encrypted, NoSend, nobody, server, socket, lists, sessions,
           counters, OnlyLinked, OneRequest, TablesTyped, FetchesTyped, Fetch,
           Purposes, SendTyped, Send, Matched, InTurn
  <2>4. InTurn'
    BY <1>18 DEF encrypted, NoSend, nobody, server, socket, lists, sessions,
           counters, InTurn, TablesTyped, FetchesTyped, Fetch, Purposes,
           SendTyped, Send, Matched, OneRequest
  <2>5. HasSession'
    BY <1>18 DEF encrypted, NoSend, nobody, server, socket, lists, sessions,
           counters, HasSession, needsNoSession, TablesTyped, FetchesTyped,
           Fetch, Purposes, SendTyped, Send, Matched, OneRequest, InTurn,
           RowsHaveRecords
  <2>6. QED  BY <2>1, <2>2, <2>3, <2>4, <2>5
<1>19. CASE loadSessions
  <2>1. TablesTyped'
    BY <1>19 DEF loadSessions, Fails, NoSend, nobody, server, socket, lists,
           sessions, counters, TablesTyped
  <2>2. FlagsTyped'
    BY <1>19 DEF loadSessions, Fails, NoSend, nobody, server, socket, lists,
           sessions, counters, FlagsTyped
  <2>3. CountersTyped'
    BY <1>19 DEF loadSessions, Fails, NoSend, nobody, server, socket, lists,
           sessions, counters, CountersTyped
  <2>4. RowsHaveRecords'
    BY <1>19 DEF loadSessions, Fails, NoSend, nobody, server, socket, lists,
           sessions, counters, RowsHaveRecords, TablesTyped
  <2>5. FetchesTyped' /\ SendTyped' /\ Matched'
    BY <1>19 DEF loadSessions, Fails, NoSend, nobody, server, socket, lists,
           sessions, counters, FetchesTyped, Fetch, Purposes, SendTyped, Send,
           Matched, TablesTyped
  <2>6. OnlyLinked' /\ OneRequest'
    BY <1>19 DEF loadSessions, Fails, NoSend, nobody, server, socket, lists,
           sessions, counters, OnlyLinked, OneRequest, TablesTyped,
           FetchesTyped, Fetch, Purposes, SendTyped, Send, Matched, InTurn
  <2>7. InTurn'
    BY <1>19 DEF loadSessions, Fails, NoSend, nobody, server, socket, lists,
           sessions, counters, InTurn, TablesTyped, FetchesTyped, Fetch,
           Purposes, SendTyped, Send, Matched, OneRequest
  <2>8. HasSession'
    BY <1>19 DEF loadSessions, Fails, NoSend, nobody, server, socket, lists,
           sessions, counters, HasSession, needsNoSession, TablesTyped,
           FetchesTyped, Fetch, Purposes, SendTyped, Send, Matched, OneRequest,
           InTurn, RowsHaveRecords
  <2>9. QED  BY <2>1, <2>2, <2>3, <2>4, <2>5, <2>6, <2>7, <2>8
<1>20. CASE UNCHANGED vars
  BY <1>20 DEF vars, server, socket, lists, sessions, counters, TablesTyped,
         FlagsTyped, FetchesTyped, SendTyped, CountersTyped, Matched,
         RowsHaveRecords, OnlyLinked, OneRequest, InTurn, HasSession
<1>21. QED
  BY <1>1, <1>2, <1>3, <1>4, <1>5, <1>6, <1>7, <1>8, <1>9, <1>10, <1>11, <1>12,
         <1>13, <1>14, <1>15, <1>16, <1>17, <1>18, <1>19, <1>20 DEF Next,
         Answers, ensureSessionForRemotePeerDevice, ensureSessionForOwnLinkedDevice, Encrypting
LEMMA InitKeeps ==
    Init => DevicesIInv
<1> SUFFICES ASSUME Init  PROVE DevicesIInv
  OBVIOUS
<1>1. Primary \in Devices /\ Peer \in Users /\ Peer # Own
  BY DevicesAssumption DEF Primary, Devices, Users
<1>2. TablesTyped /\ FlagsTyped /\ FetchesTyped
  BY <1>1 DEF Init, TablesTyped, FlagsTyped, FetchesTyped, nobody, Users
<1>3. SendTyped /\ Matched
  BY NoSendTyped DEF Init, SendTyped, Matched
<1>4. CountersTyped
  BY DevicesAssumption DEF Init, CountersTyped
<1>5. RowsHaveRecords /\ OneRequest
  BY DEF Init, RowsHaveRecords, OneRequest
<1>6. OnlyLinked
  BY <1>1, NoSendTyped DEF Init, OnlyLinked, nobody, Users
<1>7. InTurn /\ HasSession
  BY NoSendTyped DEF Init, InTurn, HasSession
<1>8. QED  BY <1>2, <1>3, <1>4, <1>5, <1>6, <1>7 DEF DevicesIInv

LEMMA Invariance ==
    Spec => []DevicesIInv
BY InitKeeps, StepKeeps, PTL DEF Spec

-----------------------------------------------------------------------------
(* Theorem. Every row of the session table stands for a session that the   *)
(* native module has stored, however fetches, messages, events, restarts   *)
(* and failures interleave (with the types of all variables).              *)
THEOREM RowsCanBeResumed ==
    Spec => []DevicesInv
<1>1. DevicesIInv => DevicesInv
  BY DEF DevicesIInv, DevicesInv, TypeOK, TablesTyped, FlagsTyped,
         FetchesTyped,
         SendTyped, CountersTyped, Matched
<1>2. QED  BY <1>1, Invariance, PTL

(* Theorem. A message that goes out has a copy for every device that was   *)
(* known when its fan-out began and is still there, unless one of its own  *)
(* requests failed: no answer, event or revocation in between costs a copy.*)
THEOREM NobodyIsSkipped ==
    Spec => []KnownAreServed
<1>1. DevicesIInv => KnownAreServed
  BY DEF DevicesIInv, KnownAreServed, InTurn
<1>2. QED  BY <1>1, Invariance, PTL
=============================================================================
