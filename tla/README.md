# A verification project for TilliT (tillit-app)

TilliT is an end-to-end encrypted messenger written in TypeScript (React Native,
Expo). The client keeps its messages in SQLite, talks to one or more backends
over REST and socket.io, and encrypts with the Signal protocol through a native
module. This directory holds TLA+ models of the parts of the client whose
correctness depends on the order in which things happen, the TLC runs that check
them on small instances, and TLAPS proofs of what holds for every instance.

1. Inventory; 2. What is modelled; 3. The runs; 4. What is proved; 5. What the models
show of the code; 6. Order of the work; 7. Not modelled.

File names without a path are in `src/src/services/`.

## 1. Inventory

JavaScript runs to completion: concurrency in this program is the interleaving
of asynchronous functions at their `await`s, with timers, socket events, app
state changes and the user.

| component | state | operations | talks to | what is hard |
|---|---|---|---|---|
| Retry queue, `queue.service.ts` | array of entries (id, body, retryCount, nextRetryAt, callbacks), `isProcessing`, the interval | addMessage, removeMessagesByRoom, clearQueue, startProcessor, stopProcessor, forceProcess, processQueue | called by chat.service; calls its sendFunction and the callbacks | the array changes while a pass awaits a send; retry limits; backoff |
| Outgoing messages, `chat.service.ts` sendEnvelope, retrySendingMessages, retryMessageSend, recoverStuckMessages | rows of `messages` (idStatus, id), the serial promise chain `messageQueue`, `connectingLocks` | sendEnvelope, emitSendMessage, callbacks of queued bodies, onConnected, receipts | DB, retry queue, sockets, Signal | three paths send one message; replaceId and updateStatus are two writes; lost acknowledgements; restarts; several servers |
| Incoming messages, `chat.service.ts` handleIncomingMessage to processControlPacket | `processingMessages` (60 s), rows, unread counters | handleIncomingMessage, handleUserMessage, handleSenderKeyMessage, handleControlPacket, handleSystemMessage, markRoomAsRead | DB, Signal, sockets | duplicates, order of decryption, receipts before acknowledgements, read state of several devices |
| Room routing, `utils/server-id.ts`, `server-registry.ts` getSocketForRoom | none; local room id = server * 10^9 + backend id | toLocalRoomId, toBackendRoomId, resolveServerId | everything that sends | ids that lose their server |
| Server registry, `server-registry.ts` | servers, API and socket instances, tokens, `reauthInProgress`, `unlockInFlight` | loadServers, addServer, removeServer, connectAll, disconnectAll, reconnectServer, authenticateServer | api, socket, keystore | re-authentication racing reconnects and logout |
| Socket connection, `socket.service.ts`, `tor-websocket.ts` | socket instance, connection state, handlers | connect, disconnect, emit with a 30 s timeout, auth-error handling | socket.io, server registry | connect racing disconnect; stale sockets' events |
| Sender keys, `sender-key.service.ts` | distribution ids, per-room sessions, retry table | create, distribute, fetch pending, rotate, redistribute to new members | Signal, API, DB | rotation against sends in flight; members that join or leave |
| Sessions and pre-keys, `session.service.ts` | session rows, pre-key ids, signed pre-key | ensureSession, refreshPreKeysIfNeeded, uploadKeys, resume | Signal, API | replenishing on several servers; partial upload |
| Devices and linking, `device.service.ts`, `provisioning-link.ts`, `stores/device.store.ts` | linked devices, device id, provisioning state | link, claim, unlink, fan-out lists | Signal, API | fan-out lists that are stale; relink |
| App life cycle, `app-init.service.ts`, `stores/auth.store.ts`, `stores/app.store.ts` | initialised, lock, background state | initialize, background, foreground, logout, wipe | everything | background racing connect; logout halfway |
| Member and room synchronisation, `chat.service.ts` syncAllRoomsFromBackend, syncRoomMembersAndSessions | rooms, members | on every connect | API, sessions, sender keys | concurrent syncs of several servers |
| Stores, `stores/*.ts` | what the screens show | setters | UI | stay equal to the DB |
| Database, `src/src/db` | SQLite | repositories, migrations | everything | each call is one statement |
| REST client, `api.service.ts`, `auth-api-bridge.ts` | token | request, refresh | server registry | 401 and re-authentication |
| Tor, `modules/tor-proxy`, `tor.service.ts`, `tor-axios-adapter.ts` | native proxy | start, stop, request | sockets | native code |
| Signal, `src/modules/signal-protocol` | native key store | encrypt, decrypt, sessions | | native code, external library |
| Media, `chat.service.ts` sendImageMessage to deleteMessageForEveryone, `utils/image.ts`, `utils/file.ts`, EphemeralImageViewerModal, MessageBubble | rows and their bodies, files on disk, blobs on the server, the viewer | send, upload, persist, download, view, resend, delete, clean-up at the start | serial queue, API, disk | upload, row and packet are three steps; a failed write; a kill while an image is viewed |
| Health check, `health-check.service.ts` | bans of servers | checkAll | server registry | bans lifted while a connection is made |
| Push, discovery, diagnostics, seed, UI | | | | I/O, no protocol of their own |

The hazards, each at its line, are listed in `PROJECT.json` with the properties
that would catch them going wrong.

## 2. What is modelled

Each component has one module, an `MC` module and `.cfg` of its own. Eight `_proofs`
modules hold the theorems: `Outgoing_proofs` those of RetryQueue and Outbox,
`Keys_proofs` those of Pairing, PreKeys and SenderKeys, the others those of the module
they are named after. The modules meet where the code does: RetryQueue implements
`RetryPromise`, which is how Outbox uses it; Outbox, Inbox, SenderKeys, Rooms and Media
each have the serial queue (`chain`, `queue`) of `ChatService` with the operations that
concern them; Connection says when sockets come back, which the others assume of their
environment.

In every module a comment box says what it covers, a constant marked "bound" caps what
the environment does, and a variable marked "history" exists for a property only. An
operator called "Mutant of ..." is a plausible mistake in the code it stands beside; no
action uses it, and `PROJECT.json` names the property that TLC finds violated when it
takes the place of the definition it mutates.

### RetryQueue (`queue.service.ts`) and RetryPromise

`processQueue` awaits in one place only, so the loop is in one of three places
(`pc`): no pass, inside the loop body (no other code may run), or awaiting
`sendFunction` (any other code may run and may change the array). The array, the
loop variable, the re-entrance flag and the interval are variables of their own;
each early return, `continue` and callback is an action (`giveUp`, `skipNotDue`,
`send`, `sendSucceeds`, `sendThrows`, `endPass`, and `loopThrows` for reading
past the array). Time is a tick per second; an entry holds the seconds left, and
`due` keeps which entries were due at the `now` a pass read when it began.
`accepted`, `removed`, `failures`, `onSuccess` and `onError` are history.

`RetryPromise` says what the queue owes its callers with a fate and a count of
attempts per message, and no array, loop or clock. `KeepsPromise` is the
refinement: the detailed specification implements it under the mapping `Fate`.

Two constants choose what the environment does: `ClearsDuringPass` (may
`destroy` come while a send is awaited?) and `CleanupRooms` (the ids
`removeMessagesByRoom` is called with). In the app these are local room ids,
queued bodies hold the backend's, and so nothing ever matches.

### Outbox (`chat.service.ts`, outgoing)

A message is its row (`status`, `rowId`, `old`), its place in the serial queue
(`chain`, with `step` for where the running operation is), in the retry queue
(`parked`, `tries`, `flight`) and at its server (`copies`, `reached`).
`sendEnvelope` writes the row and appends an operation; an operation runs through
`emitSend` to one of `sendAcknowledged`, `sendRenames` then
`renamedAcknowledged` (sender-key rooms: the server names the message),
`sendFails`, `sendParks` or `sendTimesOut`. `onConnected` is the machine in
`sync`: `connect`, `retrySendingMessages` (which takes the stuck rows as they are
now), one `retryMessageSend` at a time, `endOnConnected`. Receipts pass the same
serial queue in two steps (`resolveReceipt` reads the status, `applyReceipt`
writes it). `restart` loses everything but the rows and runs
`recoverStuckMessages`. `disconnect`, `serverAccepts` and `serverRejects` are
external; an unanswered send is one the server never acts on or whose
acknowledgement `sendTimesOut` overtakes.

The SQLite driver is synchronous (`openDatabaseSync`), so that only a crash can
really fall between two writes of one handler. Outbox lets other steps in at
those awaits too (`sendRenames` and `renamedAcknowledged`, `resolveReceipt` and
`applyReceipt`): it has more behaviours than the code, and its invariants hold
in all of them.

`OutboxInv` is `TypeOK` and `RowIdIsReal`; the others relate a row to what the server
did (`SentMeansAccepted`) and a state to the next (`RenamedOnce`,
`ReceiptsOnlyAdvance`).

The retry queue is abstracted to the set it holds: one send awaited at a time, a
limit of tries, callbacks; order and backoff are left open, which is what
`RetryQueue` is shown to refine in `RetryPromise`.

### Inbox (`chat.service.ts`, incoming; `chat.store.ts`; `app/chat/[id].tsx`)

A message that comes in has a row (`rows`, `read`, `idStatus`) and a copy in the
store, which first waits in the batch flushed after 150 ms (`batch`) and then
shows (`shown`); `memStatus` and `memRead` are what the copy says, which is not
always what the row says. `unreadCount` is written by four parts of the code:
`handleUserMessage` adds one, `openRoom` zeroes it, `selfRead` (a MESSAGE_READ of
another device of ours) and `loadRooms` count anew. (A fifth, `addRoomToList`, gives a
room that is made or joined a counter of 0; the rooms of Inbox are there from the start.)
Rows go with a member who leaves (`handleUserLeftRoom`), with a `message_deleted`
(`messageDeleted`) and when the user deletes a message (`deleteMessageForEveryone`). None
of these counts anew, and `uncounted` remembers how many unread rows they took since
the counter was last counted. The serial queue is `chain`: envelopes (`drop`,
`handleUserMessage`, `selfRead`, `messageDeleted`) and the READ packets that
`markRoomAsRead` leaves there (`sendControlPacket`, sent or lost).

Since the database driver is synchronous and packets that are not inline are
queued without being awaited, the whole effect that opens a chat runs before any
other event: `openRoom` is one step, and the order inside it is kept. It picks
messages from the store as it was (`Picked`), the load replaces the store, and
only then the copies of the picked messages become READ. `handleUserLeftRoom`
and the end of `deleteMessageForEveryone` run outside the serial queue. `seen`, `told`
and `uncounted` are history. `handleUserMessage`
stands for handleSenderKeyMessage too, which does the same after another way to
decrypt; a self-fanout copy is a message in `Mine`, and `OtherId` says whether the
server of the room knows us by an id other than `userId`.

### Connection (`socket.service.ts`, `server-registry.ts`, `app-init.service.ts`, `health-check.service.ts`)

`net[s]` is the SocketService of a server: its `connectionState`, `this.socket` and
every socket.io connection it ever started that is still alive, because `connect()`
called between a drop and socket.io's own attempt makes a second one beside the
first (`leaked`). `task[s]` says where each of three authentications of a server is
(`boot`, `reauth`, `add`), which the code lets overlap; `by` and `loops` are the
`ensureSocketsConnected` loops and the server each awaits. `initialize`, the steps of
`bootStep` and `bootDone` are AppInitService.initialize, cut at those of its awaits that
change what the connections depend on: the instances of the table's servers
(`loadServers`), those of the default one (`ensureDefaultServer`), the token of an early
login (`migrateToken`), the handlers (`registerHandlers`, ChatService.init) and the
sockets (`connectSockets`). `booting` says how far it is, and anything may happen in
between: a logout is overtaken by the rest (`Loading` is what the boot will still make,
and goes to `orphans`), and the user may reconnect a server before its handlers are
there (`early`). `background`, `becomeInactive` and
`activate` are the AppState handler; `onConnect` .. `onAuthError` the socket's listeners;
`authOk` .. `keysDropped` the ends of an authentication; `userLogout`, `lockedLogout`,
`addServer`, `removeServer`, `tapReconnect` the user. The two ways to sign out differ:
the profile screen calls AppInitService.logout (`logout`), as a refusal by the default
server and a revocation do, while the locked screen only clears the store of `auth.store`
(`lockedLogout`). `out` remembers that the former has run. The servers are those of the table and, if it
has none that is the default one, a row `ensureDefaultServer` makes (`Known`).
`onNewMessage` acknowledges what makes an envelope whether or not anybody listens
(`missed`), and `onDeviceRevoked` logs this very device out. `why` records the reason a server was given up
for, so that `ComesBack` can say that nothing else leaves one alone.

### SenderKeys (`sender-key.service.ts` and its callers in `chat.service.ts`)

One room, devices `<<user, id>>`, each with its serial queue, the key rows of its
database (`row`, `count`), its native key store (`keys`) and the users it has a session
with (`paired`). A server keeps distributions (`pending`) until they are fetched and
tells the devices that are online. An operation that awaits the server in its middle
leaves the rest of itself at the front of the queue, so that news that comes meanwhile
is behind it. `initializeSenderKeys`, `distributeSenderKey`,
`fetchAndProcessPendingSenderKeys`, `rotateSenderKey`, `sendMessage` and
`handleSenderKeyMessage` (which fetches and tries again, on errors it understands) are
the service, and `handleControlPacket` does for a packet to the room what the latter does
for a message; `setUp`, `userJoined`, `sessionEstablished`, `onConnected` and
`deviceLinked` are its callers. `kill` ends the app: the chain is in memory and is lost, tables and
native stores stay, and `connect` starts it again. What excuses a device is history: a
call of it failed (`failed`), it was killed with work on its chain (`killed`), a key was
given to the server for it while it could not be told (`untold`), it joined a room still
below the threshold with keys it had not fetched (`unasked`), or a sibling's key took
the place of its own (`borrowed`).

### PreKeys (`session.service.ts`, `server-registry.ts`, the native module)

A pre-key is an id and how often one was made under that id (`gen`): a peer's first
message can be read if the native store still has, under the ids it names, the very
keys it used. `refreshPreKeysForServer` reads what the server has left and calls the
native module; `replenishPreKeys` is the native call with the storing of its result
(`storePreKeys` keeps the newest `Stored` in the metadata); `syncPublicKeys` is the
upload; `restart` and `unlock` reload what was kept. `lock` is `refreshLocks`, released
by the first task that fails (`Promise.all`). Android and iOS differ in what they
reload; the constant `Android` chooses.

### Pairing (`device.service.ts`, `stores/device.store.ts`, claim-device and link-device screens)

Both sides of linking a device: `pairing` and `prim` are what the two stores have,
`starts`, `polls`, `scans` and `completes` the calls under way, each of which goes on
with whatever pairing the store has by the time it is answered. A key is the number of
the session, or of the scan, it was made for; a payload and a safety number are pairs
of such keys. The server's sessions expire (`expire`); screens are left
(`closeClaim`, `handleCancel`, `closeLink`) with calls under way. When the device has
been registered already, cancelling asks the server to revoke it first and clears the
store when that is answered, whatever pairing is there by then (`revokes`,
`revokeMyDevice`). `install` is the confirmation of the
new device's user, with the number it was given for (`sn`); `strayed` says that a
number was confirmed for other keys than its own (section 5).

### Devices (`session.service.ts`, `chat.service.ts` encrypt, the native sessions)

For two users of a room: the devices the server publishes, the client's `list`
(`deviceMap`), the column `remote_known_devices` (`csv`), the rows of the session table,
and what the native module has in memory (`warm`) and in its store (`records`).
`fetches` are the requests for keys, which carry the list as the server read it
(`getRemoteKeys`) and are answered later in any order. A message that is sent goes
through `startEncrypt`, `ensureDevice`, `encryptMessage`, `selfFanOut`, `encrypted`
device by device while all of this goes on.

### Rooms (`chat.service.ts`, `db/repositories/room.repository.ts`)

`exists` and `member` are the servers' rooms; `rows`, `history`, `sessions` and `list`
are the tables and what the screen shows. What the user begins with a room is a `flow`
with the request, the server's step, the answer and the app's step as actions of their
own (`createRoom`, `serverCreates`, `created`, ...). `startSync` .. `onConnectedEnds` is
`onConnected` of one server; `alreadySyncing` is the connect that finds it running and
is ignored. The list of rooms is read at one moment (`getAllRooms`) and applied at
another (`syncAllRoomsFromBackend`). Work for a room waits on `chain` and runs whether
or not the room is still there (`late`). Servers give out user ids of their own
(`OwnId`), and signing in gave us `GlobalId`; a server that knows us by another is a
`custom` one. `roomGone` is a room its owner deletes, `weLeave` our leave on another device
and `anotherLeaves` somebody else's; both of these arrive at `handleUserLeftRoom`, which
compares the id with `GlobalId` on every server. `excused` collects the servers that have a
reason to be out of date; a connect that finds the user idle clears it.

### Media (`chat.service.ts`, `utils/image.ts`, `utils/file.ts`, EphemeralImageViewerModal, MessageBubble)

A message is a row whose body is a set: the data itself (`inline`), the picker's file
(`source`), a file of ours (`path`), a blob's name and key (`ref`). Sending writes a row
and, at once or when thumbnails are ready (`prepared`), appends an operation to the
serial queue, which uploads (`uploaded`), emits (`emitSendMessage`) and hears an answer
(`answered`). `retrySendingMessages` reads bodies when a connection comes up and sends
them later as they were read. `save` writes the file first and then the row.
`resendMessage` puts a new row in the place of the failed one. The viewer is `viewer`
and `shown`, its time `expiry`; `unmount` leaves it running, `kill` and `initialize`
are a restart with `cleanupExpiredEphemeralMessages`.

### Account (`login.tsx`, `locked.tsx`, `stores/auth.store.ts`, `app-init.service.ts`, `db/client.ts`)

Identities are numbers. The keychain, the two token slots (`temp` before the registry is
loaded, `default` after), the user id, the database file (the identities it holds rows
of) and the key that opens it are written one by one; `step` is the await the login
screen or the deletion of an account is at, and `Order` the sequence of a login. A
restart can fall between any two. Leaving the app locks the keystore (`unlocked`), and
so does the permission dialog that a successful login brings up (`dialog`).

## 3. The runs

Every run checks a type invariant and everything else that is claimed of its module on
one instance. `PROJECT.json` lists, for each property, a mutant that TLC finds violated.

| run | question | instance |
|---|---|---|
| `RetryQueue_orderly` | index, flag, exactly-once end, liveness, refinement | 3 messages, 2 rooms, 2 retries, backoff cap 2 s, no clearing under an awaited send |
| `RetryQueue_disturbed` | what survives when the array is filtered and cleared during a send | the same, cleanup by the ids bodies hold |
| `Outbox_resolves` | renamed once, never more than accepted, never SENDING for ever | one volatile message of a sender-key room; 3 copies, 2 tries, 2 operations in the chain, a restart |
| `Inbox_rooms` | what is shown, told and counted | a message of another user in each of 2 rooms, a copy of our own, a member who leaves, a READ of another device, a deletion; 3 arrivals (copies included), 2 openings, a restart, deletions by us at any time |
| `Connection_comesback` | true state, quiet after logout, nobody is forgotten | the default server and one the user adds, 2 connections of a service alive, 1 loop, 1 attempt, 2 failures, 2 acts of the user |
| `SenderKeys_served` | every member is given the key, messages under it are read, no key waits for ever | a user with a second device, a user who joins, whose calls fail and whose app is killed; threshold 2, rotation after 1 message, 2 keys per device |
| `PreKeys_lasting` | ids are made once, only shared keys lose messages, pools are refilled | 2 servers, 2 first messages, 1 failure, unlock or restart; batches of 1, threshold 1, 2 kept |
| `Pairing_agreed` | only what both confirmed is installed, confirmations end | 3 sessions, 2 scans, 1 failure, 1 screen left |
| `Devices_known` | known devices get their copy, lists become right, rows can be resumed | 2 users with 2 devices, 1 link, 1 revocation, 2 requests, 1 message each way, 1 failure or restart |
| `Rooms_synced` | a sync is true, what drops a room we are in, the tables catch up | 1 room on the default server, 1 on a custom server that knows us by another id, 2 user ids; 2 acts (messages included), 1 failure or restart |
| `Media_opened` | references and paths resolve, failures can be sent anew, what was viewed is wiped | 5 messages of ours of every kind (2 files, for sending anew), 3 of others; 3 acts, 1 failure, kills at any point |
| `Account_ours` | one identity's rows, its session, an open database | 3 identities, 2 restarts, 2 failures |

Bounds. Three entries of the retry queue put a neighbour on both sides of the entry a
pass is at; two retries separate the first, a middle and the last failure; a cap of 2 s
reaches both branches of `calculateBackoff`. In Outbox, three copies let each of the
three paths be acknowledged once, and two operations let a receipt or a retry queue up
behind a send; `MaxTries` stands for the code's 5. One message is enough for what the
paths do to a row; that the invariants hold of any number of messages is proved. In
Inbox, three arrivals let a copy come while its key is held, after it expired, or after
a deletion or a member who left took the row along; two openings let a room be closed, receive and be
opened again. In Connection two live connections are one more than the code means to
have; a failure and a second one let a reconnection fail while another path is under
way. In SenderKeys a threshold of 2 makes the second member the one that switches the
room to sender keys; two keys per device allow one rotation. The case that `unasked`
excuses in `KeysArrive` needs a larger instance, of threshold 3 and three keys per
device; the property says it, so that it does not hold by the choice of the threshold. PreKeys uses batches of one
so that a pool runs out and the metadata is trimmed after two. In Pairing three sessions
let the loop of one pairing fail with the id of a third while a confirmation waits for
the second (section 5); `PairingInv` is proved for any number of them. In Rooms each of
two servers has a room whose rows no sync of the other may touch, and two user ids are
ours on the two servers, each that of a stranger on the other. In Media
three acts are: to send, to reconnect or delete, and to send anew. Three identities are
a first, its successor, and one after a restart. Every counter is bounded by the guard
that names its constant. No symmetry is used.

`CHECK_DEADLOCK FALSE` stands in the runs whose bounds can all be used up (there the
model stops although the app would go on); RetryQueue, Outbox and Inbox are checked for
deadlock.

Fairness, and why the code justifies it:

* RetryQueue: seconds go by (`SF`, since the synchronous part of a pass disables the
  tick), the interval fires, the loop runs on, and an awaited send ends, since
  `SocketService.emit` rejects after 30 s.
* Outbox: the chain, the retry queue and `onConnected` run on. Nothing is assumed of the
  network: the property itself says "if the socket of its server keeps dropping and
  coming back".
* Connection: socket.io goes on with what it started, requests are answered or fail, and
  the user answers the prompt for the keystore. The user's acts are free.
* SenderKeys: the chains run on and a socket comes back, as Connection shows.
* PreKeys: the app comes to the foreground again and again (which calls the refresh) and
  requests are answered. Pairing: requests and native calls end, and the server lets
  sessions expire, which is what ends a poll loop that nobody answers.
* Devices, Rooms and Media state in `LivelySpec` that the app connects, or is started,
  again and again. Without it `ListsCatchUp`, `RoomsCatchUp` and `ShownIsWiped` are false,
  as the code has nothing else that repairs a lost event or wipes a viewed image whose
  screen was left.

## 4. What is proved

For every value of the constants that the assumptions in the modules allow. Each
`_proofs` module states an inductive invariant in named parts, shows action by action
that every step keeps it, and derives the properties the runs check. TLC checked each
inductive invariant before it was proved.

* `Outgoing_proofs`, first about the retry queue (from `ConstantsAssumption` and `BackoffAssumption`: the backoff of a
  count up to the limit is a natural number; the prover has no theory of `2^n`, TLC
  evaluates it). Whoever changes the array under a running pass: `RobustInv`. That a
  message is reported failed only when its tries are used up is not inductive: each
  entry's `retryCount` must equal the failed sends of its message, a send is only
  awaited for a message with a try left, and no message is queued twice. The lemma
  `Subarray` says the invariant survives any step that picks entries of the array,
  which covers `splice`, `filter` and `tick` at once.
* If nothing clears the queue under an awaited send and no
  cleanup matches (`Undisturbed`), `OrderlyInv` and the refinement `KeepsPromise`. The
  invariant adds that the loop index never passes the end of the array; `SpliceIds` and
  `FilteredAll` (an increasing function of 1..n to itself is the identity) carry it.
* Then about Outbox, for any messages, servers, tries, copies and restarts: `OutboxInv`,
  `RenamedOnce` and `ReceiptsOnlyAdvance`. `RowIdIsReal` needs that the copy an answer
  names is one a server made (`AnswerIsReal`); that a receipt which was resolved still
  raises its row when it is applied needs that whatever others write in between is
  below DELIVERED (`AtHead`). `SentMeansAccepted` is proved for one server
  (`SentIsAccepted`), from `AcceptedIsReached`: every awaited acknowledgement, every
  renamed row and every receipt on the chain is of an accepted message. With a second
  server it is false (section 5).
* `Inbox_proofs`: `TypeOK`, `NothingVanishes`, `ReadOnlyIfSeen`, and the counter from both
  sides. `ReadOnlyIfSeen` needs that a packet on the chain only names messages that were
  on the screen (`PacketsKnown`). `NeverOverstated` counts the rows that went uncounted
  with it, which is what makes it inductive. The lemma `LoadShows` says what a load shows of its
  room and keeps of others. The counter lemmas (`UnreadGrows`, `OtherRoomsKept`,
  `FewerUnseen`) compare cardinalities before and after a step.
* `Connection_proofs`: `ConnectionInv` and `LoggedOutIsQuiet`. Neither is inductive. That a
  message is acknowledged only where it is heard needs that a server without handlers is
  being added (`HeardInTime`), and that whatever a server still has after it was dropped,
  a connection, a token, a step of an authentication, was in flight at that moment
  (`DroppedIsOrphan`); a step on the path "boot" is of a server of the table, one on
  "add" is not (`OwnPaths`); before the boot has loaded the servers there is nothing but
  tokens (`Untouched`), until it has registered the handlers only what the user has
  reconnected (`BootIsQuiet`), and after a logout an instance can only come from a boot
  it has overtaken (`OutIsOrphan`). `Connects` says what
  `connect()` does to a set of services, `LoggedOut` what a logout does from any state
  that a refusal leaves, `TaskFrame` what a step of an authentication keeps.
* `Devices_proofs`: `DevicesInv` and `KnownAreServed`. A device of a message has its copy
  or is still to come (`InTurn`); what was linked and is not published is gone for good
  (`OnlyLinked`); a device whose turn it is has a session (`HasSession`); a message waits
  for one request (`OneRequest`).
* `Rooms_proofs`: `RoomsInv`, `SyncedIsTrue` and `KeptWhileMember`. `FlowIsTrue` says what an
  operation under way knows of our membership, `ListIsFresh` that the list of a server
  without an excuse is still what the server would answer (a leave that
  `handleUserLeftRoom` takes for another's is an excuse), `TableIsTrue` that the table
  agrees outside a sync. The bound of `list` counts what was entered here
  (`ListBounded`) and needs that the work of a join is on the chain once.
* `Media_proofs`: `MediaInv`, `ReferencesResolve` and `CanBeResent`. `BlobIsUp` follows a
  reference through all the places it waits in: the running operation, the chain, a row,
  and a row that was read to be sent again. `DataKept` says an image is in its row or on
  disk from the first write on. `NoTrace` keeps a message that is yet to come out of an
  open viewer.
* `Account_proofs`: `AccountInv`, `SessionIsOurs`, `LockedOnlyIfLeft` and `DatabaseKept`. Its
  invariant is one part per store: where the user is (`ScreenPart`), whose rows a file
  can hold and when it is about to be deleted (`RowsPart`), the key (`KeyPart`), the
  keystore's window (`LockPart`) and the tokens (`SessionPart`).

* `Keys_proofs`, about Pairing: `PairingInv`. That an installed identity was confirmed on
  both sides is not inductive: a payload goes from the primary's confirmation through a
  request, the server, an answer of a poll, the pairing of the store and the installation,
  and at every place it must be of a number the primary's user confirmed
  (`PayloadsAgreed`). The new device's confirmation carries the number it was given for
  (`InstallIsConfirmed`), and a session keeps the key of the one scan that opened it
  (`KeyIs`, `NumberIsShared`), so that two numbers of a session are the same.
* About PreKeys: `PreKeysInv` and `LostOnlyIfShared`. No id beyond the last one is in use and
  the metadata remembers the last, however it is trimmed (`IdsAreAhead`); at most one
  native call of a kind is about to use the ids that follow (`CallsAreApart`). A message is
  lost only to another that has used its key, because the native store has every key that
  no message has used (`NativeHas`, `UsedIsRead`), every key there is has been made
  (`KeysAreMade`), and a server gives a key away once (`PoolsApart`, `FirstsApart`).
* About SenderKeys: `SenderKeysInv` and `ServedIsRead`. `RowsAreOfMembers` says that a device
  outside the room has no row and nothing to fetch, and that a key is handed out at once,
  before anything else on the chain of a device that was not killed; `KeysAreServed` strengthens `MembersServed` to keys that
  are not used yet. `MessagesAreServed` looks at the chains: a served message has its key,
  or its key is on the way and a fetch stands before the message, and a device that was
  told has that fetch on its chain. Every operation takes the head off one chain and
  appends to others, and the lemmas about sequences say what that does to each part.

Only model-checked:

* Liveness (`EventuallyEnds`, `SendingResolves`, `ComesBack`, `KeysArrive`, `PoolsRefilled`,
  `WaitEnds`, `ListsCatchUp`, `RoomsCatchUp`, `ShownIsWiped`): the prover does not reach
  fairness and ENABLED. Every invariant and every other action property that a run checks
  is proved, but for `SentMeansAccepted`, which is proved for clients of one server.

Bounds that are constants are arbitrary in the proofs; what the modules fix stays
fixed: one room in SenderKeys, two users in Devices, one default server in Account.

## 5. What the models show of the code

The models were written from the code, and the properties say what holds. These are
executions that a reader would not expect, or that a comment or document denies; each
is allowed by the models and excused, where a property would meet it, by a named
condition or history variable.

Retry queue and outgoing messages

* `destroy()` under an awaited send leaves `isProcessing` set (`queue.service.ts:165`): the
  next pass returns at once, for good. Refilled in time, the same line splices a new
  message out. `RetryQueue_disturbed` reaches both; `OrderlyInv` needs `ClearsDuringPass`
  to be false.
* `removeMessagesByRoom` compares the backend's number of a room with the local id it is
  given (`queue.service.ts:96`) and matches only on the default server.
* A queued body has lost the server of its room and goes to the default server
  (`chat.service.ts:101`): `SentMeansAccepted` is a property of a client with one server.
* `onConnected` retries every row that is SENDING, also those the retry queue still has,
  and those of other servers (`chat.service.ts:346`, `:3290`); a message can be sent twice.
  The row is still renamed only once.
* The acknowledgement of a retry or of a queued send writes SENT over DELIVERED or READ
  (`chat.service.ts:2593`), so only receipts advance a status for sure.
* `recoverStuckMessages` leaves rows younger than two hours SENDING
  (`chat.service.ts:3266`), where `src/ARCHITECTURE.md:922` says they are marked failed.

Incoming messages

* The first opening of a room after a restart marks nothing read (`app/chat/[id].tsx:133`):
  the pick reads the store before the load has filled it.
* A message that is READ can be picked again by a later opening (`chat.service.ts:3148`).
  On a server that knows us by another id, copies of our own messages are marked READ.
* The counter is not counted anew when unread rows go, with a member who left
  (`chat.service.ts:3537`) or when a message is deleted by its sender or by us (`:1283`,
  `:3110`): it stays too high until something counts, and `NeverOverstated` allows for the
  rows that went (`uncounted`). A message of a member who left comes back from the batch
  (`:3554`), and so does a deleted one that waited there: `removeMessage` takes it out of
  what shows only (`chat.store.ts:325`). Only the newest 50 rows are loaded
  (`chat.service.ts:3445`).

Connections

* `connect()` between a drop and socket.io's own attempt makes a second connection, which
  `disconnect()` never stops (`socket.service.ts:294`).
* PRIMARY_INACTIVE leaves the state CONNECTING, which every reconnecting path skips
  (`socket.service.ts:408`). A logout while the app boots is overtaken by the rest of the
  boot, which makes instances, may store the migrated token and sets `initialized`
  (`app-init.service.ts:93`, `:195`), and an authentication under way at logout writes its
  token afterwards (`server-registry.ts:524`). `LoggedOutIsQuiet` excuses both (`orphans`).
* Signing out on the lock screen runs only auth.store's `logout`, whose comment leaves
  tokens to AppInitService.logout (`auth.store.ts:294`), which `locked.tsx:57` does not
  call: tokens, sockets and loops stay. `LoggedOutIsQuiet` is therefore about
  AppInitService.logout ("disconnect all sockets and clear tokens",
  `app-init.service.ts:509`), and says nothing after a sign-out on the lock screen.
* A server that the user reconnects while the app boots may change its state, and
  acknowledge messages, before ChatService.init has registered handlers (`early`).
* A message of a server that is being added is acknowledged although no handler is
  registered (`missed`); the server does not send it again.

Keys, sessions and devices

* All servers are given the same one-time pre-keys (`server-registry.ts:616`).
  The last rotation of the signed pre-key is stored before its upload
  (`session.service.ts:1002`), and ids start again at `MAX_VAL`.
* A sibling's distribution overwrites the id a linked device sends under
  (`sender-key.service.ts:236`). `rotateSenderKey` leaves the old id in the row (`:328`),
  and the retry table is never read (`:412`). The text "error 19" that lets a message be
  fetched for and read again is not in Android's errors (`chat.service.ts:816`).
* The fan-out skips a peer's primary session when a row exists that another device of
  the peer made (`chat.service.ts:1373`). The device list is keyed by the bare user id,
  which servers do not share (`session.service.ts:54`).
* A late answer of `linkInit` to a screen that was left gives the pairing another session
  than the one its loop polls (`device.service.ts:333`), and `cancelNewDeviceLink` clears
  whatever pairing there is when its request is answered (`:772`).
* A loop fails with the id of whatever pairing the store has (`:523`, `:605`). With the
  loop of an earlier pairing alive, a confirmation of a later one can wait for ever, as
  its waiter is rejected by nobody; three sessions reach it. `WaitEnds` is stated for a
  loop that is alone.
* `onPubkeyShared` checks that there is a pairing, not whose (`device.service.ts:501`): the
  number of a pairing that was left is written over that of the next, and so is the
  number of a scan that was left (`:209`). A user can then confirm the number of keys that
  are not the ones installed (`strayed`). Three sessions are needed for an identity that
  one of the users has not confirmed; the attempt to prove the invariant without the
  exception found it.
* A device that leaves a room with keys it has not fetched, and joins again while the
  room is below the threshold, does not fetch them (`chat.service.ts:3021`): the keys may
  wait for ever (`unasked`), and on Android a message under such a key is lost (`untold`).
* The session row of a new member is written (`chat.service.ts:1223`) before our key goes
  to it (`:1236`), and the chain is in memory: an app that is killed in between does not
  hand the key out later, as `onConnected` passes over members with a session row
  (`:473`). The member is left without the key (`killed`).
* A recovery looks the identity up in the session of the peer's first device
  (`session.service.ts:813`); where only a row of another device exists it is refused.

Rooms

* `addRoomToList` does not look for the room (`chat.service.ts:3038`): a room can stand in
  the list twice until the next load.
* A list read before a room is made or joined removes it as an orphan with its messages
  (`:399`); the next sync brings the room back, not the messages.
* `handleUserLeftRoom` tells who left by the id of signing in (`:3530`), where its
  neighbours look at the server's own as well (`:465`, `:1214`). On a custom server a room
  left on another device keeps its row until the next sync, and somebody whose number
  there is our id of signing in takes the room's row and messages along, although we are
  in it. `SyncedIsTrue` and `KeptWhileMember` name both.
* A connect that finds `onConnected` running is ignored (`:316`), and work on the serial
  queue writes rows for a room that is gone (`:2976`).

Media

* An image that is SENDING at a connect is retried with its row's body, a local path
  (`chat.service.ts:3387`). When the answer is lost after the server accepted, the row
  FAILED is sent anew and arrives twice. An ephemeral image that failed is sent anew as
  the text of its body (`app/chat/[id].tsx:355`).
* A file whose bytes could not be put aside and whose upload went well has lost its
  source when the packet fails: the exception in `CanBeResent`.
* Deleting for everyone leaves the cached copy of a file, the sender's copy of a
  persistent image (named by a fresh UUID) and the blob; a download that ends after
  the deletion leaves its file.

Account

* Signing out on the lock screen only clears the store (`auth.store.ts:290`): the token
  stays, and a restart undoes the sign-out (`undone`).
* `wipeAndCreate` destroys the registry first, so `clearAllTokens` misses
  `token_server_1`. It is overwritten by the next login, which is what keeps
  `SessionIsOurs`.
* `initialized` outlives a sign-out, the deletion of the identity and a claim in the same
  run (`app-init.service.ts:45`): nothing opens the database, although
  `db/client.ts:310` says it must be open before any call (`claimed`).

## 6. Order of the work

1. RetryQueue with RetryPromise, Outbox, Inbox: the way of a message (done, proved).
2. Connection: boot, reconnection, re-authentication, logout (done, proved).
3. SenderKeys, PreKeys: who can decrypt what (done, proved).
4. Pairing and Devices: linking, and the fan-out (done, proved).
5. Rooms, Media, Account (done, proved).
6. What would come next: a form of `SentMeansAccepted` for several servers; the
   other devices of a peer in SenderKeys; the rotation of the signed pre-key; pagination
   and profile packets in Inbox; an Outbox of two messages on two servers in one run,
   which needs a smaller state than the present one.

## 7. Not modelled

The native Tor proxy and its adapters, discovery, diagnostics and the seed data are I/O
without a protocol. Migrations run before anything else and once. Of the native Signal
module only what it does to the stored pre-keys, and who holds which key, is modelled;
its cryptography is an external library and is modelled by what the TypeScript code
relies on. Left out of modelled components: push registration, profile and typing
packets, pagination, renaming of rooms, sharing and saving of images, the migration of
the default server's URL, the buffering of TorWebSocket, rotation of sender keys by age
(`handleMemberLeft` and the retry table have no caller and no reader). `PROJECT.json`
lists each component with its status and, under "hazards", what no property covers and
why.
