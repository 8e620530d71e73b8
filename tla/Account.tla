------------------------------- MODULE Account -------------------------------
(***************************************************************************)
(* Identity and session of one installation: the login screen, the lock    *)
(* screen, auth.store, and what AppInitService does at login and logout.   *)
(*                                                                         *)
(* An identity is a number; the account a server keeps for it (the subject *)
(* of its tokens) has the same one. Five stores have to agree and are      *)
(* written one by one, with awaits between: the keychain, the tokens and   *)
(* the user id in SecureStore, the database file and the key that opens    *)
(* it. The app may end between two writes. A step of the login names what  *)
(* it waits for. Other servers and linked devices have modules of their    *)
(* own; the server and the installation of a claimed identity are external.*)
(***************************************************************************)
EXTENDS Naturals, Sequences

CONSTANTS
    MaxIds,    \* bound: identities made or claimed
    MaxStarts, \* bound: restarts of the app
    MaxFaults  \* bound: calls and prompts that fail, tokens that are refused

ASSUME AccountAssumption == {MaxIds, MaxStarts, MaxFaults} \subseteq Nat

VARIABLES
    stored,   \* identity in the keychain
    tokens,   \* token_server_0 ("temp") and token_server_1 ("default")
    userKey,  \* signal_user_id
    rows,     \* identities the database file holds rows of
    dbKey,    \* does the keychain hold the key that opens the file?
    loaded,   \* localUser of the native module
    unlocked, \* the keystore's window
    dbOpen,   \* is the file open? (sqliteDb)
    registry, \* has the registry an instance for the default server?
    ready,    \* AppInitService.initialized, its listeners are registered
    dialog,   \* does the push permission dialog wait for an answer?
    auth, bio, userId,  \* isAuthenticated, isBiometricAuthenticated, userId
    step,     \* what the login screen, or the deletion, waits for
    shown,    \* the login screen's identityState, or "elsewhere"
    awaiting, \* identity whose authentication the registry waits for
    undone,   \* history: a sign-out was, or is to be, undone
    left,     \* history: the user left the app
    tooLate,  \* history: a login found the keystore locked
    claimed,  \* history: an identity was claimed by an app that had started
    made, starts, faults

kept == <<stored, tokens, userKey, rows, dbKey>>
native == <<loaded, unlocked>>
app == <<dbOpen, registry, ready, dialog>>
session == <<auth, bio, userId>>
screen == <<step, shown>>
history == <<undone, left, tooLate, claimed>>
bounds == <<made, starts, faults>>
vars == <<kept, native, app, session, screen, awaiting, history, bounds>>

-----------------------------------------------------------------------------
Ids == 0..MaxIds
none == 0
Slots == {"temp", "default"}

(* readKeyMaterial, authenticateWithBackend (the challenge, the signed     *)
(* answer, the token and the user id saved), syncPublicKeys.               *)
(* Mutant of Order: the keys are read when they are needed.                *)
readsLast == <<"challenge", "answer", "user", "flip", "read", "sync">>
Order == <<"read", "challenge", "answer", "user", "flip", "sync">>

Then(s) == LET i == CHOOSE i \in DOMAIN Order : Order[i] = s
           IN  IF i = Len(Order) THEN "idle" ELSE Order[i + 1]
Goes(s) == step = s /\ step' = Then(s)
Stops == step' = "idle" /\ UNCHANGED shown

Steps == {Order[i] : i \in DOMAIN Order}
         \cup {"idle", "load", "wipe", "ask", "make", "erase", "close", "clear"}

Fails == faults < MaxFaults /\ faults' = faults + 1
Succeeds == UNCHANGED faults

checkIdentity(i) == shown' = IF i # none THEN "found" ELSE "not_found"

(* getDefaultApi: before the registry is loaded, an instance for server 0. *)
ownSlot == IF registry THEN "default" ELSE "temp"

Init ==
    /\ stored = none /\ tokens = [s \in Slots |-> none] /\ userKey = none
    /\ rows = {} /\ dbKey = FALSE /\ loaded = none /\ unlocked = FALSE
    /\ dbOpen = FALSE /\ registry = FALSE /\ ready = FALSE /\ dialog = FALSE
    /\ auth = FALSE /\ bio = FALSE /\ userId = none
    /\ step = "idle" /\ shown = "not_found" /\ awaiting = none
    /\ undone = FALSE /\ left = FALSE /\ tooLate = FALSE
    /\ claimed = FALSE /\ made = 0 /\ starts = 0 /\ faults = 0

-----------------------------------------------------------------------------
(* clearAll empties the keychain, the database's key included.             *)
resetIdentityState ==
    /\ stored' = none /\ dbKey' = FALSE
    /\ unlocked' = FALSE /\ loaded' = none

(* Mutants of wipeDatabaseFiles: forgotten, and without closing the file.  *)
wipesNothing == UNCHANGED <<rows, dbOpen>>
wipesOpenFile == rows' = {} /\ UNCHANGED dbOpen

wipeDatabaseFiles == rows' = {} /\ dbOpen' = FALSE

(* An open database is kept as it is; a file the keychain has no key for   *)
(* is deleted. What is written then is of the identities given.            *)
initDatabase(written) ==
    /\ dbOpen' = TRUE /\ dbKey' = (dbKey \/ ~dbOpen)
    /\ rows' = (IF dbOpen \/ dbKey THEN rows ELSE {}) \cup written

(* Mutant of migrated: a token that is there is kept.                      *)
migratedIfNone(t) ==
    IF t["temp"] = none \/ t["default"] # none THEN t
    ELSE [t EXCEPT !["default"] = t["temp"], !["temp"] = none]

(* loadServers and ensureDefaultServer, of the token of the login.         *)
migrated(t) == IF t["temp"] = none THEN t
               ELSE [t EXCEPT !["default"] = t["temp"], !["temp"] = none]

(* auth.store's logout; the screen it leads to looks for an identity.      *)
signedOut(i) ==
    /\ userKey' = none /\ auth' = FALSE /\ bio' = FALSE /\ userId' = none
    /\ checkIdentity(i)
    /\ undone' = (undone \/ awaiting # none)

-----------------------------------------------------------------------------
(* The buttons of the login screen, which only a login leaves (_layout).   *)
OnLogin == shown # "elsewhere" /\ step = "idle"

continueWithExisting ==
    /\ OnLogin /\ shown = "found" /\ step' = "load"
    /\ UNCHANGED <<kept, native, app, session, shown, awaiting, history, bounds>>

(* authenticate and loadStoredLocalUser.                                   *)
load ==
    /\ step = "load" /\ UNCHANGED shown
    /\ \/ /\ Succeeds /\ stored # none
          /\ unlocked' = TRUE /\ loaded' = stored /\ step' = Order[1]
       \/ (Fails \/ (stored = none /\ Succeeds)) /\ Stops /\ UNCHANGED native
    /\ UNCHANGED <<kept, app, session, awaiting, history, made, starts>>

(* destroy and clearIdentity, then the tokens and the file, then a prompt. *)
wipeAndCreate ==
    /\ OnLogin /\ made < MaxIds
    /\ step' = "wipe" /\ shown' = "not_found"
    /\ registry' = FALSE /\ ready' = FALSE /\ dialog' = FALSE
    /\ resetIdentityState
    /\ UNCHANGED <<tokens, userKey, rows, dbOpen, session, awaiting, history,
                   bounds>>

wipe ==
    /\ step = "wipe" /\ step' = "ask"
    /\ tokens' = [tokens EXCEPT ![ownSlot] = none]
    /\ wipeDatabaseFiles
    /\ UNCHANGED <<stored, userKey, dbKey, native, registry, ready, dialog,
                   session, shown, awaiting, history, bounds>>

ask ==
    /\ step = "ask" /\ UNCHANGED shown
    /\ \/ Succeeds /\ unlocked' = TRUE /\ initDatabase({}) /\ step' = "make"
       \/ Fails /\ Stops /\ UNCHANGED <<unlocked, rows, dbKey, dbOpen>>
    /\ UNCHANGED <<stored, tokens, userKey, loaded, registry, ready, dialog,
                   session, awaiting, history, made, starts>>

(* performIdentitySetup, which clears everything when it fails.            *)
initializeIdentity ==
    /\ step = "make" /\ UNCHANGED shown
    /\ \/ /\ Succeeds /\ made' = made + 1
          /\ stored' = made + 1 /\ loaded' = made + 1 /\ step' = Order[1]
          /\ UNCHANGED <<unlocked, dbKey>>
       \/ Fails /\ Stops /\ resetIdentityState /\ UNCHANGED made
    /\ UNCHANGED <<tokens, userKey, rows, app, session, awaiting, history, starts>>

(* getDeviceAuthPublicKey and, with the challenge, signWithDeviceAuth read *)
(* protected storage.                                                      *)
readProtected(s) ==
    /\ step = s
    /\ \/ Succeeds /\ unlocked /\ Goes(s) /\ UNCHANGED <<shown, tooLate>>
       \/ /\ Succeeds /\ ~unlocked /\ Stops /\ tooLate' = TRUE
       \/ /\ Fails /\ Stops /\ UNCHANGED tooLate
    /\ UNCHANGED <<kept, native, app, session, awaiting, undone, left,
                   claimed, made, starts>>

readKeyMaterial == readProtected("read")
signChallenge == readProtected("challenge")

(* The token, then the user id, then the store, on which _layout leaves    *)
(* the login screen. The sync goes on behind it.                           *)
authenticated ==
    /\ step = "answer"
    /\ \/ /\ Succeeds /\ Goes("answer") /\ UNCHANGED shown
          /\ tokens' = [tokens EXCEPT ![ownSlot] = loaded]
       \/ Fails /\ Stops /\ UNCHANGED tokens
    /\ UNCHANGED <<stored, userKey, rows, dbKey, native, app, session, awaiting,
                   history, made, starts>>

userSaved ==
    /\ Goes("user") /\ UNCHANGED shown /\ userKey' = loaded
    /\ UNCHANGED <<stored, tokens, rows, dbKey, native, app, session, awaiting,
                   history, bounds>>

flip ==
    /\ Goes("flip") /\ shown' = "elsewhere"
    /\ auth' = TRUE /\ bio' = TRUE /\ userId' = loaded
    /\ UNCHANGED <<kept, native, app, awaiting, history, bounds>>

syncPublicKeys ==
    /\ Goes("sync") /\ UNCHANGED shown /\ (Succeeds \/ Fails)
    /\ UNCHANGED <<kept, native, app, session, awaiting, history, made, starts>>

deleteLocalIdentity ==
    /\ OnLogin /\ shown = "found" /\ step' = "erase"
    /\ resetIdentityState
    /\ UNCHANGED <<tokens, userKey, rows, app, session, shown, awaiting, history,
                   bounds>>

erase ==
    /\ step = "erase" /\ step' = "idle" /\ shown' = "not_found"
    /\ tokens' = [tokens EXCEPT ![ownSlot] = none]
    /\ wipeDatabaseFiles
    /\ UNCHANGED <<stored, userKey, dbKey, native, registry, ready, dialog,
                   session, awaiting, history, bounds>>

(* confirmNewDeviceSafetyAndInstall (Pairing), and back to this screen.    *)
claim ==
    /\ OnLogin /\ shown = "not_found" /\ made < MaxIds
    /\ made' = made + 1 /\ stored' = made + 1 /\ loaded' = made + 1
    /\ unlocked' = TRUE /\ shown' = "found"
    /\ claimed' = (claimed \/ dbOpen \/ ready)
    /\ UNCHANGED <<tokens, userKey, rows, dbKey, app, session, step, awaiting,
                   undone, left, tooLate, starts, faults>>

-----------------------------------------------------------------------------
(* AppInitService.initialize, when the tabs are shown: the database, the   *)
(* registry, the rooms of the account, connectAll (which authenticates     *)
(* where there is no token) and the request for push notifications.        *)
initialize ==
    /\ auth /\ bio /\ ~ready /\ (unlocked \/ dbOpen)
    /\ ready' = TRUE /\ registry' = TRUE /\ dialog' \in BOOLEAN
    /\ tokens' = migrated(tokens)
    /\ awaiting' = IF tokens'["default"] = none THEN loaded ELSE awaiting
    /\ initDatabase({loaded} \ {none})
    /\ UNCHANGED <<stored, userKey, native, session, screen, history, bounds>>

(* authenticateServer's answer: the token, and the store if the registry   *)
(* still knows the default server.                                         *)
answered ==
    /\ awaiting # none /\ awaiting' = none
    /\ \/ /\ Succeeds /\ tokens' = [tokens EXCEPT !["default"] = awaiting]
          /\ IF registry
             THEN auth' = TRUE /\ userId' = awaiting /\ UNCHANGED bio
             ELSE UNCHANGED session
       \/ Fails /\ UNCHANGED <<tokens, session>>
    /\ UNCHANGED <<stored, userKey, rows, dbKey, native, app, screen, history,
                   made, starts>>

(* A 401, on which the token goes and the registry authenticates again.    *)
refused ==
    /\ ready /\ auth /\ tokens["default"] # none /\ awaiting = none /\ Fails
    /\ tokens' = [tokens EXCEPT !["default"] = none]
    /\ awaiting' \in {none, loaded}
    /\ UNCHANGED <<stored, userKey, rows, dbKey, native, app, session, screen,
                   history, made, starts>>

(* The listeners lock the keystore when the app goes to the background,    *)
(* which the permission dialog does as well, and ask for an unlock after   *)
(* thirty seconds.                                                         *)
locks == unlocked' = FALSE /\ (bio' = FALSE \/ UNCHANGED bio)

background ==
    /\ ready /\ locks /\ left' = TRUE
    /\ UNCHANGED <<kept, loaded, app, auth, userId, screen, awaiting, undone,
                   tooLate, claimed, bounds>>

pushDialog ==
    /\ dialog /\ dialog' = FALSE /\ locks
    /\ UNCHANGED <<kept, loaded, dbOpen, registry, ready, auth, userId, screen,
                   awaiting, history, bounds>>

(* The lock screen: useBiometricAuth's authenticate, which tolerates that  *)
(* there is no identity, and its sign out, which calls the store only.     *)
OnLockScreen == auth /\ ~bio /\ shown = "elsewhere"

unlock ==
    /\ OnLockScreen /\ bio' = TRUE /\ unlocked' = TRUE
    /\ loaded' = IF stored # none THEN stored ELSE loaded
    /\ UNCHANGED <<kept, app, auth, userId, screen, awaiting, history, bounds>>

signOut ==
    /\ OnLockScreen /\ step = "idle"
    /\ signedOut(stored)
    /\ UNCHANGED <<stored, tokens, rows, dbKey, native, app, step, awaiting,
                   left, tooLate, claimed, bounds>>

(* The profile: logout, which a revoked device does as well, and           *)
(* deleteAccount with its two awaits. The dialog is modal.                 *)
OnProfile == auth /\ bio /\ ready /\ ~dialog /\ step = "idle"

(* The names of the tokens are those of the database's servers.            *)
clearTokens == tokens' = IF dbOpen THEN [tokens EXCEPT !["default"] = none]
                         ELSE tokens

logout ==
    /\ OnProfile /\ clearTokens
    /\ signedOut(stored)
    /\ registry' = FALSE /\ ready' = FALSE
    /\ UNCHANGED <<stored, rows, dbKey, native, dbOpen, dialog, step, awaiting,
                   left, tooLate, claimed, bounds>>

deleteAccount ==
    /\ OnProfile /\ step' = "close"
    /\ UNCHANGED <<kept, native, app, session, shown, awaiting, history, bounds>>

close ==
    /\ step = "close" /\ step' = "clear"
    /\ registry' = FALSE /\ resetIdentityState
    /\ UNCHANGED <<tokens, userKey, rows, dbOpen, ready, dialog, session, shown,
                   awaiting, history, bounds>>

clear ==
    /\ step = "clear" /\ step' = "idle" /\ clearTokens
    /\ rows' = IF dbOpen THEN {} ELSE rows
    /\ signedOut(none)
    /\ ready' = FALSE /\ dialog' = FALSE
    /\ UNCHANGED <<stored, dbKey, native, dbOpen, registry, awaiting,
                   left, tooLate, claimed, bounds>>

-----------------------------------------------------------------------------
(* The app ends at any moment and starts again: loadStoredToken, with a    *)
(* token that may have expired. The registry is not loaded, so that both   *)
(* names are looked at, and both cleared.                                  *)
restored == IF tokens["default"] # none THEN tokens["default"] ELSE tokens["temp"]

loadStoredToken ==
    \/ /\ restored # none /\ auth' = TRUE /\ UNCHANGED tokens
       /\ userId' = IF userKey # none THEN userKey ELSE restored
    \/ /\ tokens' = [s \in Slots |-> none]
       /\ auth' = (userKey # none) /\ userId' = userKey

restart ==
    /\ starts < MaxStarts /\ starts' = starts + 1
    /\ loadStoredToken /\ bio' = FALSE
    /\ loaded' = none /\ unlocked' = FALSE
    /\ dbOpen' = FALSE /\ registry' = FALSE /\ ready' = FALSE /\ dialog' = FALSE
    /\ step' = "idle" /\ awaiting' = none
    /\ IF auth' THEN shown' = "elsewhere" ELSE checkIdentity(stored)
    /\ undone' = (undone \/ (userKey = none /\ auth'))
    /\ UNCHANGED <<stored, userKey, rows, dbKey, left, tooLate, claimed, made,
                   faults>>

Next ==
    \/ continueWithExisting \/ load
    \/ wipeAndCreate \/ wipe \/ ask \/ initializeIdentity
    \/ readKeyMaterial \/ signChallenge \/ authenticated \/ userSaved \/ flip
    \/ syncPublicKeys
    \/ deleteLocalIdentity \/ erase \/ claim
    \/ initialize \/ answered \/ refused
    \/ background \/ pushDialog \/ unlock \/ signOut
    \/ logout \/ deleteAccount \/ close \/ clear
    \/ restart

Spec == Init /\ [][Next]_vars

-----------------------------------------------------------------------------
(* What is in memory is what the keychain holds.                           *)
TypeOK ==
    /\ stored \in Ids /\ tokens \in [Slots -> Ids] /\ userKey \in Ids
    /\ rows \subseteq 1..MaxIds /\ loaded \in {none, stored}
    /\ dbKey \in BOOLEAN /\ unlocked \in BOOLEAN /\ dbOpen \in BOOLEAN
    /\ registry \in BOOLEAN /\ ready \in BOOLEAN /\ dialog \in BOOLEAN
    /\ auth \in BOOLEAN /\ bio \in BOOLEAN
    /\ userId \in Ids /\ step \in Steps /\ shown \in {"found", "not_found", "elsewhere"}
    /\ awaiting \in Ids
    /\ undone \in BOOLEAN /\ left \in BOOLEAN /\ tooLate \in BOOLEAN
    /\ claimed \in BOOLEAN
    /\ made \in Ids /\ starts \in 0..MaxStarts /\ faults \in 0..MaxFaults

(* No identity sees rows of another, however its predecessor ended.        *)
RowsAreOurs == ready /\ bio /\ loaded # none => rows \subseteq {loaded}

(* Types, and a database of one identity.                                  *)
AccountInv == TypeOK /\ RowsAreOurs

(* The unlocked app uses the token and the user id of the identity it has  *)
(* loaded, also where a sign-out on the lock screen or a login that failed *)
(* left a predecessor's token behind, unless that sign-out was undone by a *)
(* request that was under way, or by a restart that found the token.       *)
SessionIsOurs ==
    ready /\ bio /\ loaded # none /\ ~undone =>
        tokens["default"] \in {none, loaded} /\ userId = loaded

(* A login finds the keystore locked only if the user has left the app:    *)
(* the permission dialog that its own success brings up does not disturb   *)
(* it (readKeyMaterial's comment).                                         *)
LockedOnlyIfLeft == tooLate => left

(* A running, unlocked app has an open database (initDatabase "MUST be     *)
(* called and succeed before any getDatabase() call", client.ts:310), and  *)
(* the keychain holds the key that opens it at the next start, unless an   *)
(* identity was claimed by an app that had started before.                 *)
DatabaseKept == ready /\ bio /\ loaded # none /\ ~claimed => dbOpen /\ dbKey
=============================================================================
