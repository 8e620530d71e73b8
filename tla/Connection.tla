----------------------------- MODULE Connection -----------------------------
(***************************************************************************)
(* The connections of the client: SocketService (one socket.io connection  *)
(* per server), ServerRegistry (which authenticates and connects them) and *)
(* AppInitService (which boots, and disconnects and reconnects them as the *)
(* app goes to the background and comes back).                             *)
(*                                                                         *)
(* JavaScript runs to completion between awaits, so an action is what runs *)
(* between two of them. A token that ApiService holds in memory is awaited *)
(* without letting anything else run, hence connect() is one step. What    *)
(* socket.io does with a connection (reconnect after a drop, never after   *)
(* the server refused it) and what a server answers are external.          *)
(***************************************************************************)
EXTENDS Integers, FiniteSets

CONSTANTS
    Servers,      \* servers the client may know
    Configured,   \* those in the servers table at launch
    Default,      \* the one with isDefault = 1
    Sockets,      \* bound: socket.io connections of one SocketService alive
    Loops,        \* bound: ensureSocketsConnected loops at a time
    MaxAttempts,  \* reconnectionAttempts (10 in the code)
    MaxFaults,    \* bound: failures of the network, refusals, bans
    MaxActs       \* bound: things the user does

ASSUME ConnectionAssumption ==
    /\ Configured \subseteq Servers
    /\ Default \in Servers
    /\ Sockets \subseteq Nat \ {0}
    /\ Loops \subseteq Nat \ {0}
    /\ MaxAttempts \in Nat /\ MaxFaults \in Nat /\ MaxActs \in Nat

VARIABLES
    net,         \* the SocketService of each server
    token,       \* servers with a token (ApiService, SecureStore)
    task,        \* where each authentication of each server is
    by,          \* the loop that awaits reconnectServer, or 0
    loops,       \* servers each ensureSocketsConnected has left
    checking,    \* servers checkAll has left
    present,     \* servers with instances in the registry
    heard,       \* those whose socket handlers are registered
    banned,      \* server.store bannedServers
    inactive,    \* server.store primaryInactiveServers
    seen,        \* server.store connectionStates
    app,         \* AppState
    auth,        \* isAuthenticated
    bio,         \* isBiometricAuthenticated
    unlocked,    \* the keystore's unlock window is open
    booting,     \* how far initialize() is
    initialized, \* AppInitService.initialized
    why,         \* history: why a server was last given up
    leaked,      \* history: servers connected while socket.io was to retry
    missed,      \* history: servers a message of which nobody heard
    orphans,     \* history: servers dropped while loaded or authenticated
    early,       \* history: servers reconnected before ChatService.init
    out,         \* history: AppInitService.logout has run
    faults, acts

appVars == <<app, auth, bio, unlocked, booting, initialized>>
storeVars == <<banned, inactive>>
pastVars == <<early, out>>
taskVars == <<task, by, loops, checking>>
regVars == <<present, heard, orphans>>
vars == <<net, token, taskVars, regVars, storeVars, pastVars, seen, appVars,
          why, leaked, missed, faults, acts>>

-----------------------------------------------------------------------------
States == {"CLOSED", "CONNECTING", "CONNECTED"}
Wires == {"none", "opening", "open", "waiting"}
Paths == {"boot", "reauth", "add"}
Steps == {"idle", "auth", "keys"}
Boots == {"no", "opening", "loading", "migrating", "restoring", "ready",
          "connecting"}
Reasons == {"none", "exhausted", "kicked", "inactive", "rejected", "banned",
            "noToken", "noAuth"}

(* ensureDefaultServer: the servers of the table and, if none of them is   *)
(* the default one, a row made for it.                                     *)
Known == Configured \cup {Default}

(* A SocketService: its connectionState, this.socket (0 is null) and every *)
(* socket.io connection it started that has not stopped.                   *)
Net == [state : States, cur : Sockets \cup {0}, wire : [Sockets -> Wires],
        tries : [Sockets -> 0..MaxAttempts]]

Fresh == [state |-> "CLOSED", cur |-> 0, wire |-> [k \in Sockets |-> "none"],
          tries |-> [k \in Sockets |-> 0]]

Busy(s) == \E p \in Paths : task[s][p] # "idle"
Live(n) == {k \in Sockets : n.wire[k] # "none"}
Free(n) == Sockets \ Live(n)

(* CLOSED after a drop, with socket.io about to try again: connect() then  *)
(* starts a second connection beside this one.                             *)
Waiting(n) == \E k \in Sockets : n.wire[k] = "waiting"

(* SocketService.disconnect: only this.socket is stopped.                  *)
disconnect(n) ==
    [n EXCEPT !.state = "CLOSED", !.cur = 0,
              !.wire = [k \in Sockets |-> IF k = n.cur THEN "none" ELSE @[k]]]

(* The end of SocketService.connect: io(), attachListeners, connect().     *)
opened(n) ==
    LET k == CHOOSE k \in Free(n) : \A j \in Free(n) : k <= j
    IN  [n EXCEPT !.state = "CONNECTING", !.cur = k,
                  !.wire[k] = "opening", !.tries[k] = 0]

(* Mutant of Opens: connect() starts while a connection is being made.     *)
OpensAnyway(s, ts, bs) == s \notin bs /\ s \in ts /\ net[s].state # "CONNECTED"

(* Its guards: not banned, a token, CLOSED.                                *)
Opens(s, ts, bs) == s \notin bs /\ s \in ts /\ net[s].state = "CLOSED"

(* connect() of the servers in S, with tokens ts and bans bs.              *)
connect(S, ts, bs) ==
    LET O == {s \in S : Opens(s, ts, bs)}
    IN  /\ \A s \in O : Free(net[s]) # {}
        /\ net' = [s \in Servers |-> IF s \in O THEN opened(net[s]) ELSE net[s]]
        /\ leaked' = leaked \cup {s \in O : Waiting(net[s])}
        /\ why' = [s \in Servers |-> IF s \in O THEN "none" ELSE why[s]]

(* connectAll, up to its await: a server with a token is connected, one    *)
(* without is authenticated first, a banned one is left alone.             *)
connectAll(S, ts, bs) ==
    /\ connect(S, ts, bs)
    /\ task' = [s \in Servers |-> IF s \in S \ (ts \cup bs)
                                 THEN [task[s] EXCEPT !["boot"] = "auth"]
                                 ELSE task[s]]

(* updateState: the handlers, H being those registered, write the store.   *)
ShownTo(H) ==
    seen' = [s \in Servers |-> IF s \in H /\ net'[s].state # net[s].state
                              THEN net'[s].state ELSE seen[s]]
Shown == ShownTo(heard)

(* server.store: the flags of a server, and what goes with it.             *)
setBanned(s, b) == banned' = IF b THEN banned \cup {s} ELSE banned \ {s}
setPrimaryInactive(s, b) ==
    inactive' = IF b THEN inactive \cup {s} ELSE inactive \ {s}
removeFromStore(s) ==
    /\ setBanned(s, FALSE) /\ setPrimaryInactive(s, FALSE)
    /\ seen' = [seen EXCEPT ![s] = "CLOSED"]

(* onMessage, onPacket, onStateChange, ...: handlers for the servers in S, *)
(* H having theirs; and what drops them.                                   *)
subscribe(H, S) == H \cup S
clearAllServiceHandlers(H, S) == H \ S

(* ChatService.init, for the servers in S: every handler is made anew.     *)
chatInit(S) == subscribe(clearAllServiceHandlers(heard, S), S)

(* onServerAdded: addServer tells that the server is there, and its        *)
(* handlers are registered.                                                *)
serverAdded(s, p) == IF p = "add" THEN subscribe(heard, {s}) ELSE heard

(* The servers are there and ChatService.init has yet to run.              *)
Unheard == {"loading", "migrating", "restoring"}

(* An onAuthError handler is registered at the end of initialize().        *)
authHeard(s) == initialized /\ s \in heard

-----------------------------------------------------------------------------
Init ==
    /\ net = [s \in Servers |-> Fresh]
    /\ token \in SUBSET Known
    /\ task = [s \in Servers |-> [p \in Paths |-> "idle"]]
    /\ by = [s \in Servers |-> 0]
    /\ loops = [i \in Loops |-> {}]
    /\ checking = {}
    /\ present = {} /\ heard = {} /\ orphans = {}
    /\ banned = {} /\ inactive = {}
    /\ seen = [s \in Servers |-> "CLOSED"]
    /\ app = "active"
    /\ auth = TRUE /\ bio = FALSE /\ unlocked = FALSE
    /\ booting = "no" /\ initialized = FALSE
    /\ early = {} /\ out = FALSE
    /\ why = [s \in Servers |-> "none"]
    /\ leaked = {} /\ missed = {}
    /\ faults = 0 /\ acts = 0

Fault == faults < MaxFaults /\ faults' = faults + 1
Act == acts < MaxActs /\ acts' = acts + 1 /\ UNCHANGED <<faults, missed>>

(* clearAll, the sockets being n0: disconnected, their handlers dropped,   *)
(* and no instance is left.                                                *)
clearAll(n0) ==
    /\ net' = [s \in Servers |->
                 IF s \in present THEN disconnect(n0[s]) ELSE n0[s]]
    /\ heard' = clearAllServiceHandlers(heard, present)
    /\ present' = {}

(* What a boot will still make of the servers, whoever logs out meanwhile: *)
(* their instances, that of the default one, or its token.                 *)
Loading ==
    {s \in Known : \/ booting = "opening"
                   \/ booting \in {"loading", "migrating"} /\ s = Default}

(* Mutant of logout: the tokens stay in SecureStore.                       *)
logoutKeepsTokens(n0) ==
    /\ clearAll(n0)
    /\ token' = token
    /\ seen' = [s \in Servers |-> IF s \in heard THEN "CLOSED" ELSE seen[s]]
    /\ orphans' = orphans \cup {s \in Servers : Busy(s)} \cup Loading
    /\ loops' = [i \in Loops |-> {}] /\ checking' = {}
    /\ auth' = FALSE /\ bio' = FALSE /\ initialized' = FALSE /\ out' = TRUE
    /\ UNCHANGED <<banned, app, unlocked, booting, why, leaked, early>>

(* AppInitService.logout, n0 being the sockets it finds: chatService       *)
(* .destroy, clearAll, the tokens. A boot and an authentication in flight  *)
(* go on.                                                                  *)
logout(n0) ==
    /\ clearAll(n0)
    /\ token' = {}
    /\ seen' = [s \in Servers |-> IF s \in heard THEN "CLOSED" ELSE seen[s]]
    /\ orphans' = orphans \cup {s \in Servers : Busy(s)} \cup Loading
    /\ loops' = [i \in Loops |-> {}] /\ checking' = {}
    /\ auth' = FALSE /\ bio' = FALSE /\ initialized' = FALSE /\ out' = TRUE
    /\ UNCHANGED <<banned, app, unlocked, booting, why, leaked, early>>

(* reconnectServer up to its first await, from caller i (a loop, or 0):    *)
(* nothing if one runs already; n0 as above.                               *)
reconnectServer(s, i, n0) ==
    IF task[s]["reauth"] # "idle"
    THEN net' = n0 /\ UNCHANGED <<task, by>>
    ELSE /\ net' = [n0 EXCEPT ![s] = disconnect(@)]
         /\ task' = [task EXCEPT ![s]["reauth"] = "auth"]
         /\ by' = [by EXCEPT ![s] = i]

-----------------------------------------------------------------------------
(* Events of connection k of server s (attachListeners).                   *)
Wire(s, k, w, st) == [net EXCEPT ![s].wire[k] = w, ![s].state = st]

(* 'connect'.                                                              *)
onConnect(s, k) ==
    /\ net[s].wire[k] = "opening"
    /\ net' = [Wire(s, k, "open", "CONNECTED") EXCEPT ![s].tries[k] = 0]
    /\ setPrimaryInactive(s, FALSE)
    /\ Shown
    /\ UNCHANGED <<pastVars, token, taskVars, regVars, banned, appVars, why,
                   leaked, faults, acts, missed>>

(* 'connect_error' when the network fails: socket.io will try again.       *)
onNetworkError(s, k) ==
    /\ net[s].wire[k] = "opening" /\ Fault
    /\ net' = Wire(s, k, "waiting", net[s].state)
    /\ UNCHANGED <<pastVars, token, taskVars, regVars, storeVars, seen,
                   appVars, why, leaked, acts, missed>>

(* 'disconnect': socket.io will try again, unless the server asked for it. *)
onDisconnect(s, k) ==
    /\ net[s].wire[k] = "open" /\ Fault
    /\ \/ net' = Wire(s, k, "waiting", "CLOSED") /\ UNCHANGED why
       \/ /\ net' = Wire(s, k, "none", "CLOSED")
          /\ why' = [why EXCEPT ![s] = "kicked"]
    /\ Shown
    /\ UNCHANGED <<pastVars, token, taskVars, regVars, storeVars, appVars,
                   leaked, acts, missed>>

onReconnectAttempt(s, k) ==
    /\ net[s].wire[k] = "waiting" /\ net[s].tries[k] < MaxAttempts
    /\ net' = [Wire(s, k, "opening", "CONNECTING") EXCEPT ![s].tries[k] = @ + 1]
    /\ Shown
    /\ UNCHANGED <<pastVars, token, taskVars, regVars, storeVars, appVars, why,
                   leaked, faults, acts, missed>>

onReconnectFailed(s, k) ==
    /\ net[s].wire[k] = "waiting" /\ net[s].tries[k] = MaxAttempts
    /\ net' = [net EXCEPT ![s] = disconnect([@ EXCEPT !.wire[k] = "none"])]
    /\ why' = [why EXCEPT ![s] = "exhausted"]
    /\ Shown
    /\ UNCHANGED <<pastVars, token, taskVars, regVars, storeVars, appVars,
                   leaked, faults, acts, missed>>

(* 'connect_error' when the server refuses: socket.io does not try again.  *)
Refused(s, k) == net[s].wire[k] = "opening" /\ Fault

onBanned(s, k) ==
    /\ Refused(s, k)
    /\ setBanned(s, TRUE)
    /\ net' = [net EXCEPT ![s] = disconnect([@ EXCEPT !.wire[k] = "none"])]
    /\ why' = [why EXCEPT ![s] = "banned"]
    /\ Shown
    /\ UNCHANGED <<pastVars, token, taskVars, regVars, inactive, appVars,
                   leaked, acts, missed>>

onPrimaryInactive(s, k) ==
    /\ Refused(s, k)
    /\ setPrimaryInactive(s, TRUE)
    /\ net' = Wire(s, k, "none", net[s].state)
    /\ why' = [why EXCEPT ![s] = "inactive"]
    /\ UNCHANGED <<pastVars, token, taskVars, regVars, banned, seen, appVars,
                   leaked, acts, missed>>

onAuthError(s, k) ==
    LET n0 == [net EXCEPT ![s] = disconnect([@ EXCEPT !.wire[k] = "none"])]
    IN  /\ Refused(s, k)
        /\ \/ authHeard(s) /\ s = Default /\ s \notin banned /\ logout(n0)
              /\ UNCHANGED <<task, by>>
           \/ /\ authHeard(s) => s = Default /\ s \in banned
              /\ net' = n0 /\ Shown
              /\ why' = [why EXCEPT ![s] = "rejected"]
              /\ UNCHANGED <<token, taskVars, regVars, banned, pastVars,
                             appVars, leaked>>
           \/ /\ authHeard(s) /\ s # Default
              /\ reconnectServer(s, 0, n0) /\ Shown
              /\ UNCHANGED <<token, loops, checking, regVars, banned, pastVars,
                             appVars, why, leaked>>
        /\ UNCHANGED <<inactive, acts, missed>>

(* The data of a message: the message inside, or none, and whether the     *)
(* wrapper names the room and the sender.                                  *)
Data == [inner : {"none", "invalid", "envelope"}, ids : BOOLEAN]

normalizeEnvelopeCandidate(d) == d.inner = "envelope"
normalizeFromSocketWrapper(d) == d.ids
extractEnvelope(d) ==
    normalizeEnvelopeCandidate(d) \/ normalizeFromSocketWrapper(d)

(* 'newMessage' and 'newPacket': what makes an envelope is acknowledged,   *)
(* after which the server does not send it again, and given to the         *)
(* handlers there are; anything else is refused.                           *)
onNewMessage(s, k) ==
    /\ net[s].wire[k] = "open"
    /\ \E d \in Data : missed' = IF extractEnvelope(d) /\ s \notin heard
                                 THEN missed \cup {s} ELSE missed
    /\ UNCHANGED <<pastVars, net, token, taskVars, regVars, storeVars, seen,
                   appVars, why, leaked, faults, acts>>

(* 'deviceRevoked' of this very device, from the default server.           *)
onDeviceRevoked(s, k) ==
    /\ net[s].wire[k] = "open" /\ s = Default /\ s \in heard /\ Fault
    /\ logout(net)
    /\ UNCHANGED <<task, by, inactive, acts, missed>>

-----------------------------------------------------------------------------
(* initialize(), called from the unlocked chats screen, awaits the         *)
(* database. It is not told of a logout between its awaits, which are those *)
(* between the steps below.                                                *)
initialize ==
    /\ booting' = "opening"
    /\ UNCHANGED <<net, token, task, loops, checking, present, heard, seen,
                   why, leaked, initialized>>

(* ensureSocketsConnected, from initialize() or on 'active', and checkAll. *)
ensureSocketsConnected(check) ==
    /\ \E i \in Loops :
          /\ loops[i] = {} /\ \A s \in Servers : by[s] # i
          /\ loops' = [loops EXCEPT ![i] = present]
    /\ checking' = IF check /\ checking = {} THEN present ELSE checking
    /\ UNCHANGED <<net, token, task, present, heard, seen, why, leaked,
                   booting, initialized>>

(* The unlock on the locked screen, which lets the chats screen call       *)
(* initialize(); the screen stays mounted while initialize() runs.         *)
unlock ==
    /\ auth /\ ~bio /\ app = "active" /\ booting = "no"
    /\ bio' = TRUE /\ unlocked' = TRUE
    /\ IF initialized THEN ensureSocketsConnected(FALSE) ELSE initialize
    /\ UNCHANGED <<by, orphans, storeVars, pastVars, app, auth, faults, acts,
                   missed>>

(* One step of initialize(), from an await to the next.                    *)
boots(from, to) ==
    /\ booting = from /\ booting' = to
    /\ UNCHANGED <<by, loops, checking, orphans, storeVars, pastVars, app,
                   auth, bio, unlocked, initialized, faults, acts, missed>>

(* loadServers: instances for the servers of the table.                    *)
loadServers ==
    /\ boots("opening", "loading")
    /\ present' = Configured
    /\ UNCHANGED <<net, token, task, heard, seen, why, leaked>>

(* ensureDefaultServer: a row and instances for the default one.           *)
ensureDefaultServer ==
    /\ boots("loading", "migrating")
    /\ present' = present \cup ({Default} \ Configured)
    /\ UNCHANGED <<net, token, task, heard, seen, why, leaked>>

(* The token of a login that ran before the servers were loaded becomes    *)
(* that of the default server.                                             *)
migrateToken ==
    /\ boots("migrating", "restoring")
    /\ token' \in {token, token \cup {Default}}
    /\ UNCHANGED <<net, task, present, heard, seen, why, leaked>>

(* After the stuck messages and the sessions, the handlers are registered. *)
registerHandlers ==
    /\ boots("restoring", "ready")
    /\ heard' = chatInit(present)
    /\ UNCHANGED <<net, token, task, present, seen, why, leaked>>

(* After the rooms, the pre-keys and the profile, the sockets.             *)
connectSockets ==
    /\ boots("ready", "connecting")
    /\ connectAll(present, token, banned)
    /\ Shown
    /\ UNCHANGED <<token, present, heard>>

bootStep == \/ loadServers \/ ensureDefaultServer \/ migrateToken
            \/ registerHandlers \/ connectSockets

(* connectAll has returned: lifecycle and auth handlers are registered,    *)
(* whoever logged out meanwhile.                                           *)
bootDone ==
    /\ booting = "connecting" /\ \A s \in Servers : task[s]["boot"] = "idle"
    /\ booting' = "no" /\ initialized' = TRUE
    /\ checking' = IF checking = {} THEN present ELSE checking
    /\ UNCHANGED <<pastVars, net, token, task, by, loops, regVars, storeVars,
                   seen, app, auth, bio, unlocked, why, leaked, faults, acts,
                   missed>>

(* handleAppStateChange, subscribed to once initialize() is done.          *)
background ==
    /\ app # "background" /\ Act
    /\ app' = "background"
    /\ IF initialized
       THEN /\ net' = [s \in Servers |->
                         IF s \in present THEN disconnect(net[s]) ELSE net[s]]
            /\ unlocked' = FALSE
            /\ Shown
       ELSE UNCHANGED <<net, unlocked, seen>>
    /\ UNCHANGED <<pastVars, token, taskVars, regVars, storeVars, auth, bio,
                   booting, initialized, why, leaked>>

becomeInactive ==
    /\ app = "active" /\ Act
    /\ app' = "inactive"
    /\ UNCHANGED <<pastVars, net, token, taskVars, regVars, storeVars, seen,
                   auth, bio, unlocked, booting, initialized, why, leaked>>

(* 'active': after LOCK_TIMEOUT with the keystore locked the user has to   *)
(* unlock; otherwise the sockets are looked after.                         *)
activate ==
    /\ app # "active"
    /\ app' = "active"
    /\ \/ /\ initialized /\ auth /\ ~unlocked
          /\ bio' = FALSE
          /\ UNCHANGED <<net, token, task, present, heard, seen, why, leaked,
                         booting, initialized, loops, checking>>
       \/ /\ initialized /\ auth /\ bio
          /\ ensureSocketsConnected(TRUE) /\ UNCHANGED bio
       \/ /\ ~(initialized /\ auth /\ bio)
          /\ UNCHANGED <<net, token, task, present, heard, seen, why, leaked,
                         booting, initialized, loops, checking, bio>>
    /\ UNCHANGED <<pastVars, by, orphans, storeVars, auth, unlocked, faults,
                   acts, missed>>

(* The next server of a loop.                                              *)
loopStep(i, s) ==
    /\ s \in loops[i] /\ \A r \in Servers : by[r] # i
    /\ loops' = [loops EXCEPT ![i] = @ \ {s}]
    /\ \/ /\ s \notin present \/ s \in banned \/ net[s].state # "CLOSED"
          /\ UNCHANGED <<net, task, by, why, leaked>>
       \/ /\ s \in present \ banned /\ net[s].state = "CLOSED" /\ s \in token
          /\ connect({s}, token, banned) /\ UNCHANGED <<task, by>>
       \/ /\ s \in present \ banned /\ net[s].state = "CLOSED" /\ s \notin token
          /\ reconnectServer(s, i, net) /\ UNCHANGED <<why, leaked>>
    /\ Shown
    /\ UNCHANGED <<pastVars, token, checking, regVars, storeVars, appVars,
                   faults, acts, missed>>

-----------------------------------------------------------------------------
(* Authentication of s on path p: challenge, signatures (for which the     *)
(* keystore has to be open), token. It writes the token of a server that   *)
(* was dropped meanwhile as well.                                          *)
prompt ==
    /\ ~unlocked /\ app = "active"
    /\ \E s \in Servers, p \in Paths : task[s][p] = "auth"
    /\ unlocked' = TRUE
    /\ UNCHANGED <<pastVars, net, token, taskVars, regVars, storeVars, seen,
                   app, auth, bio, booting, initialized, why, leaked, faults,
                   acts, missed>>

authOk(s, p) ==
    /\ task[s][p] = "auth" /\ unlocked
    /\ token' = token \cup {s}
    /\ \/ UNCHANGED <<banned, faults>>
       \/ Fault /\ setBanned(s, TRUE)
    /\ task' = [task EXCEPT ![s][p] = IF p = "boot" THEN "idle" ELSE "keys"]
    /\ LET bs == banned'
       IN  IF p = "boot" /\ s \notin bs THEN connect({s}, token', bs)
           ELSE /\ why' = IF s \in bs THEN [why EXCEPT ![s] = "banned"] ELSE why
                /\ UNCHANGED <<net, leaked>>
    /\ Shown
    /\ UNCHANGED <<pastVars, by, loops, checking, regVars, inactive, appVars,
                   acts, missed>>

(* removeServer: disconnect, the token, the instances, the store.          *)
removed(s) ==
    /\ net' = IF s \in present THEN [net EXCEPT ![s] = disconnect(@)] ELSE net
    /\ token' = token \ {s}
    /\ present' = present \ {s} /\ heard' = clearAllServiceHandlers(heard, {s})
    /\ removeFromStore(s)

(* Mutant of Ended: who awaits reconnectServer never learns that it ended. *)
EndedSilently(s, p) ==
    /\ task' = [task EXCEPT ![s][p] = "idle"]
    /\ UNCHANGED by

(* An authentication ends, and with it the wait of the loop that began it. *)
Ended(s, p) ==
    /\ task' = [task EXCEPT ![s][p] = "idle"]
    /\ by' = IF p = "reauth" THEN [by EXCEPT ![s] = 0] ELSE by

(* It fails, and ApiService drops the token on a 401. A server being added *)
(* is removed again.                                                       *)
authFail(s, p) ==
    /\ task[s][p] = "auth" /\ Fault
    /\ Ended(s, p)
    /\ why' = [why EXCEPT ![s] = "noAuth"]
    /\ IF p = "add"
       THEN /\ removed(s)
            /\ orphans' = orphans \cup {r \in {s} : task[s]["reauth"] # "idle"}
       ELSE /\ token' \in {token, token \ {s}}
            /\ banned' \in IF p = "boot" THEN {banned, banned \cup {s}}
                          ELSE {banned}
            /\ UNCHANGED <<net, regVars, inactive, seen>>
    /\ UNCHANGED <<pastVars, loops, checking, appVars, leaked, acts, missed>>

(* The upload of the pre-keys ends, well or not, and the server is         *)
(* connected, by addServer after the callbacks that register its handlers. *)
keysDone(s, p) ==
    /\ task[s][p] = "keys" /\ s \in present /\ s \in token
    /\ Ended(s, p)
    /\ heard' = serverAdded(s, p)
    /\ connect({s}, token, banned)
    /\ ShownTo(heard')
    /\ UNCHANGED <<pastVars, token, loops, checking, present, orphans,
                   storeVars, appVars, faults, acts, missed>>

(* It was answered 401, or the token was dropped before: connect() finds   *)
(* none and calls the auth handlers. The handler of a server other than    *)
(* the default one finds reconnectServer running if it runs.               *)
keysDenied(s, p) ==
    /\ task[s][p] = "keys" /\ s \in present
    /\ IF s \in token THEN Fault ELSE UNCHANGED faults
    /\ \/ /\ s = Default /\ s \notin banned /\ authHeard(s)
          /\ Ended(s, p) /\ logout(net)
       \/ /\ s = Default => s \in banned \/ ~authHeard(s)
          /\ p = "reauth" \/ s \in banned
          /\ Ended(s, p)
          /\ token' = token \ {s}
          /\ why' = [why EXCEPT ![s] = "noToken"]
          /\ heard' = serverAdded(s, p)
          /\ UNCHANGED <<net, seen, loops, checking, present, orphans, banned,
                         pastVars, appVars, leaked>>
       \/ /\ p = "add" /\ s \notin banned
          /\ LET t == [task EXCEPT ![s]["add"] = "idle"]
             IN  IF task[s]["reauth"] = "idle"
                 THEN /\ task' = [t EXCEPT ![s]["reauth"] = "auth"]
                      /\ net' = [net EXCEPT ![s] = disconnect(@)]
                 ELSE task' = t /\ UNCHANGED net
          /\ token' = token \ {s}
          /\ heard' = serverAdded(s, p)
          /\ ShownTo(heard')
          /\ UNCHANGED <<by, loops, checking, present, orphans, banned,
                         pastVars, appVars, why, leaked>>
    /\ UNCHANGED <<inactive, acts, missed>>

(* The server was dropped meanwhile: addServer's callbacks throw,          *)
(* reconnectServer connects the socket it holds.                           *)
keysDropped(s, p) ==
    /\ task[s][p] = "keys" /\ s \notin present
    /\ Ended(s, p)
    /\ IF p = "reauth" THEN connect({s}, {s}, banned)
       ELSE UNCHANGED <<net, leaked, why>>
    /\ UNCHANGED <<pastVars, token, loops, checking, regVars, storeVars, seen,
                   appVars, faults, acts, missed>>

(* HealthCheckService.checkServer: anything but a ban lifts a ban, and a   *)
(* 401 drops the token.                                                    *)
checkServer(s) ==
    /\ s \in checking
    /\ checking' = checking \ {s}
    /\ \/ /\ banned' = IF s \in present THEN banned \ {s} ELSE banned
          /\ UNCHANGED <<net, token, why, faults>>
       \/ /\ s \in present /\ Fault
          /\ setBanned(s, FALSE) /\ token' = token \ {s}
          /\ UNCHANGED <<net, why>>
       \/ /\ s \in present /\ Fault
          /\ setBanned(s, TRUE)
          /\ net' = IF s \in banned THEN net
                    ELSE [net EXCEPT ![s] = disconnect(@)]
          /\ why' = [why EXCEPT ![s] = "banned"]
          /\ UNCHANGED token
    /\ Shown
    /\ UNCHANGED <<pastVars, task, by, loops, regVars, inactive, appVars,
                   leaked, acts, missed>>

-----------------------------------------------------------------------------
(* What the user does: reconnect, add and remove a server, log out.        *)
tapReconnect(s) ==
    /\ app = "active" /\ auth /\ bio /\ s \in present /\ Act
    /\ reconnectServer(s, 0, net)
    /\ early' = IF booting \in Unheard THEN early \cup {s} ELSE early
    /\ Shown
    /\ UNCHANGED <<out, token, loops, checking, regVars, storeVars, appVars,
                   why, leaked>>

addServer(s) ==
    /\ app = "active" /\ auth /\ bio /\ initialized /\ Act
    /\ s \in Servers \ (Known \cup present) /\ net[s] = Fresh
    /\ task[s] = [p \in Paths |-> "idle"]
    /\ present' = present \cup {s}
    /\ task' = [task EXCEPT ![s]["add"] = "auth"]
    /\ UNCHANGED <<pastVars, net, token, by, loops, checking, heard, orphans,
                   storeVars, seen, appVars, why, leaked>>

removeServer(s) ==
    /\ app = "active" /\ auth /\ bio /\ s \in present \ {Default} /\ Act
    /\ removed(s)
    /\ orphans' = orphans \cup {r \in {s} : Busy(r)}
    /\ UNCHANGED <<pastVars, taskVars, appVars, why, leaked>>

userLogout ==
    /\ app = "active" /\ auth /\ bio /\ Act
    /\ logout(net)
    /\ UNCHANGED <<task, by, inactive>>

(* Signing out on the locked screen calls auth.store's logout alone: the   *)
(* sockets, the tokens, loops and authentications stay.                    *)
lockedLogout ==
    /\ app = "active" /\ auth /\ ~bio /\ Act
    /\ auth' = FALSE /\ bio' = FALSE
    /\ UNCHANGED <<net, token, taskVars, regVars, storeVars, pastVars, seen,
                   app, unlocked, booting, initialized, why, leaked>>

-----------------------------------------------------------------------------
SocketEvent(s, k) ==
    \/ onConnect(s, k) \/ onNetworkError(s, k) \/ onDisconnect(s, k)
    \/ onReconnectAttempt(s, k) \/ onReconnectFailed(s, k)
    \/ onBanned(s, k) \/ onPrimaryInactive(s, k) \/ onAuthError(s, k)
    \/ onNewMessage(s, k) \/ onDeviceRevoked(s, k)

Next ==
    \/ \E s \in Servers, k \in Sockets : SocketEvent(s, k)
    \/ unlock \/ bootStep \/ bootDone \/ background \/ becomeInactive
    \/ activate \/ prompt
    \/ \E i \in Loops, s \in Servers : loopStep(i, s)
    \/ \E s \in Servers, p \in Paths : 
          \/ authOk(s, p) \/ authFail(s, p)
          \/ keysDone(s, p) \/ keysDenied(s, p) \/ keysDropped(s, p)
    \/ \E s \in Servers :
          \/ checkServer(s)
          \/ tapReconnect(s) \/ addServer(s) \/ removeServer(s)
    \/ userLogout \/ lockedLogout

(* socket.io goes on with what it started, awaits end, loops go on, and    *)
(* the user answers the prompt for the keystore.                           *)
Fairness ==
    /\ \A s \in Servers, k \in Sockets :
          /\ WF_vars(onConnect(s, k))
          /\ WF_vars(onReconnectAttempt(s, k) \/ onReconnectFailed(s, k))
    /\ \A i \in Loops, s \in Servers : WF_vars(loopStep(i, s))
    /\ \A s \in Servers, p \in Paths :
          /\ WF_vars(authOk(s, p))
          /\ WF_vars(keysDone(s, p) \/ keysDenied(s, p) \/ keysDropped(s, p))
    /\ WF_vars(prompt) /\ WF_vars(bootStep) /\ WF_vars(bootDone)

Spec == Init /\ [][Next]_vars /\ Fairness

-----------------------------------------------------------------------------
TypeOK ==
    /\ net \in [Servers -> Net]
    /\ task \in [Servers -> [Paths -> Steps]]
    /\ by \in [Servers -> Loops \cup {0}]
    /\ loops \in [Loops -> SUBSET Servers]
    /\ {token, checking, present, heard, banned, inactive, leaked, missed,
        orphans, early} \subseteq SUBSET Servers
    /\ heard \subseteq present
    /\ seen \in [Servers -> States]
    /\ app \in {"active", "inactive", "background"}
    /\ {auth, bio, unlocked, initialized, out} \subseteq BOOLEAN
    /\ booting \in Boots
    /\ why \in [Servers -> Reasons]
    /\ faults \in 0..MaxFaults /\ acts \in 0..MaxActs

(* The connectionState of a service says what its connection does:         *)
(* CONNECTED is one that is open and not flagged as waiting for the        *)
(* primary, CLOSED one that is neither open nor being opened, and nothing  *)
(* else is alive (the events of socket.io against connect, disconnect and  *)
(* reconnectServer). It ends where connect() was called between a drop and *)
(* socket.io's own attempt, which makes a second connection.               *)
StateIsTrue ==
    \A s \in Servers \ leaked :
        /\ Live(net[s]) \subseteq {net[s].cur}
        /\ net[s].state = "CONNECTED" =>
              /\ net[s].cur # 0 /\ net[s].wire[net[s].cur] = "open"
              /\ s \notin inactive
        /\ net[s].state = "CONNECTING" => net[s].cur # 0
        /\ \A k \in Sockets :
              net[s].wire[k] \in {"opening", "open"} => net[s].state # "CLOSED"

(* The store shows the state of every server known at launch, whatever     *)
(* order boot, reconnects and logout take (updateState's handlers). Only   *)
(* of a server the user reconnected by hand before the handlers were       *)
(* registered (chatService.init) may it have missed a change.              *)
StoreShowsState ==
    \A s \in (heard \cap Known) \ early : seen[s] = net[s].state

(* A message the client acknowledged was given to its handlers, if it is   *)
(* of a server known at launch (the acknowledgement in 'newMessage' comes  *)
(* first, whoever is registered). A server being added may be connected    *)
(* before its handlers are registered, by a loop or by the user, and one   *)
(* the user reconnects while the app boots; what was dropped while being   *)
(* loaded or authenticated, or is a second connection, is heard by nobody. *)
AckedIsHandled ==
    /\ missed \cap Known \subseteq orphans \cup leaked \cup early
    /\ \A s \in Servers \ (heard \cup orphans \cup leaked \cup early) :
          (\E k \in Sockets : net[s].wire[k] = "open") =>
              task[s]["add"] # "idle"

(* Types, a state that neither the service nor the store gets wrong, and   *)
(* no message that is acknowledged and lost.                               *)
ConnectionInv == TypeOK /\ StateIsTrue /\ StoreShowsState /\ AckedIsHandled

(* After AppInitService.logout ("disconnect all sockets and clear tokens") *)
(* a server has a live connection or a token only if it was being loaded   *)
(* by the boot or authenticated when the user logged out, or once had two  *)
(* connections. Signing out on the locked screen calls no such logout.     *)
LoggedOutIsQuiet ==
    out => \A s \in Servers :
        Live(net[s]) # {} \/ s \in token => s \in orphans \cup leaked

(* In the foreground, unlocked and booted, a server the client knows is    *)
(* connected in the end, unless it was given up for a reason `why` lists   *)
(* (attempts exhausted, refused, banned, no authentication), removed, or   *)
(* the app is left or locked.                                              *)
Away(s) == \/ app # "active" \/ ~bio \/ s \notin present
           \/ net[s].state = "CONNECTED" \/ why[s] # "none"
ComesBack == \A s \in Servers : (initialized /\ s \in heard) ~> Away(s)

=============================================================================
