------------------------------ MODULE Pairing ------------------------------
(***************************************************************************)
(* Linking a new device (DeviceService, device.store, the claim-device and *)
(* link-device screens and the native module's provisioning functions).    *)
(*                                                                         *)
(* The new device opens a session on the server, shows it as a QR code and *)
(* polls. The primary scans it, shares a key and, once its user has        *)
(* compared the safety numbers, deposits the identity encrypted for the    *)
(* new device, which installs it when its own user has confirmed. Screens  *)
(* can be left while requests and native calls are under way: what follows *)
(* them works on whatever pairing the store has then. The server is        *)
(* external, and so are the users, who confirm equal numbers only.         *)
(***************************************************************************)
EXTENDS Naturals, FiniteSets

CONSTANTS
    MaxSessions,  \* bound: pairings the new device starts
    MaxScans,     \* bound: codes the primary scans
    MaxFailures,    \* bound: requests, answers and native calls that fail
    MaxLeaves     \* bound: screens that are left before the end

ASSUME PairingAssumption ==
    /\ {MaxSessions, MaxScans} \subseteq Nat \ {0}
    /\ {MaxFailures, MaxLeaves} \subseteq Nat

VARIABLES
    server,     \* the link sessions
    pairing,    \* pairingNewDevice of the new device's store
    starts,     \* linkInit requests: their session, and whether the screen
                \* that sent them still wants to poll
    polls,      \* loops of pollNewDeviceSessionResult
    aborted,    \* pollAborted
    waiter,     \* sessions that have a payloadArrivalResolver
    install,    \* the user's confirmation on the new device
    identity,   \* the payload the new device has installed
    claiming,   \* the claim-device screen is open
    revokes,    \* revokeMyDevice requests of pairings that were cancelled
    prim,       \* pairingPrimary of the primary's store
    scans,      \* handlePrimaryScannedQR calls under way
    completes,  \* linkComplete requests
    linkOpen,    \* the link-device screen is open
    scanLock,   \* scanLockRef of that screen
    agreed,     \* history: the numbers each user has confirmed
    strayed,    \* history: a number was confirmed for other keys than its own
    sessions, scanned, failures, leaves

newVars == <<pairing, starts, polls, aborted, waiter, install, identity, claiming,
             revokes>>
primVars == <<prim, scans, completes, linkOpen, scanLock>>
counters == <<sessions, scanned, failures, leaves>>
agreement == <<agreed, strayed>>
pairingVars == <<server, newVars, primVars, agreement, counters>>

-----------------------------------------------------------------------------
Sessions == 1..MaxSessions
Scans == 1..MaxScans

(* A session's id also names the ephemeral key the new device made for it, *)
(* and a scan's number the primary's. A payload is encrypted, and a safety *)
(* number computed, with two keys; the identity is always the same.        *)
KeyPair == (0..MaxSessions) \X (0..MaxScans)
None == <<0, 0>>

(* Authenticated encryption: only the keys it was made with open a payload.*)
opens(payload, e, p) == payload # None /\ payload = <<e, p>>

Phases == {"null", "idle", "init", "waiting", "polling", "safetyCheck",
           "installing", "done", "error"}
PairingState ==
    {x \in [phase : Phases, session : 0..MaxSessions, priv : 0..MaxSessions,
            p : 0..MaxScans, payload : KeyPair, share : BOOLEAN,
            sn : KeyPair, confirmed : BOOLEAN] :
        x.phase \in {"waiting", "polling"} => x.session # 0}
emptyNewDevice == [phase |-> "null", session |-> 0, priv |-> 0, p |-> 0,
                   payload |-> None, share |-> FALSE, sn |-> None, confirmed |-> FALSE]

PrimaryState == [phase : {"null", "idle", "scanning", "safetyCheck", "completing",
                          "done", "error"},
                 session : 0..MaxSessions, e : 0..MaxSessions, p : 0..MaxScans,
                 sn : KeyPair]
emptyPrimary == [phase |-> "null", session |-> 0, e |-> 0, p |-> 0, sn |-> None]

(* A link session of the server.                                           *)
LinkSession == [at : {"none", "waiting", "shared", "completed", "consumed",
                      "expired"},
                p : 0..MaxScans, payload : KeyPair]

(* Calls that are under way.                                               *)
Start == [session : Sessions, stops : BOOLEAN, polls : BOOLEAN]
Scan == [p : Scans, session : Sessions, at : {"keys", "share"}]
Complete == [session : Sessions, payload : KeyPair]
Revoke == [id : 1..MaxLeaves, back : BOOLEAN]     \* back: it closes the screen

(* What a confirmation of the new device is at; sn is the number.          *)
Install == [at : {"no", "auth", "wait", "consume"}, session : 0..MaxSessions,
            payload : KeyPair, priv : 0..MaxSessions, p : 0..MaxScans,
            sn : KeyPair]
NoInstall == [at |-> "no", session |-> 0, payload |-> None, priv |-> 0, p |-> 0,
              sn |-> None]

(* What the server answers a poll with.                                    *)
Answer == [completed : BOOLEAN, p : 0..MaxScans, payload : KeyPair]
Poll == [session : Sessions, at : {"ask", "number", "peek"}, handled : BOOLEAN,
         answer : Answer, priv : 0..MaxSessions, of : 0..MaxSessions,
         share : BOOLEAN, sn : KeyPair]
noAnswer == [completed |-> FALSE, p |-> 0, payload |-> None]
newPoll(s) == [session |-> s, at |-> "ask", handled |-> FALSE, answer |-> noAnswer,
               priv |-> 0, of |-> 0, share |-> FALSE, sn |-> None]

CallFails == failures < MaxFailures /\ failures' = failures + 1
CallSucceeds == UNCHANGED failures
Leaves == leaves < MaxLeaves /\ leaves' = leaves + 1

PairingInit ==
    /\ server = [s \in Sessions |-> [at |-> "none", p |-> 0, payload |-> None]]
    /\ pairing = emptyNewDevice /\ starts = {} /\ polls = {} /\ aborted = {}
    /\ waiter = {} /\ install = NoInstall /\ identity = None /\ claiming = FALSE
    /\ revokes = {} /\ prim = emptyPrimary /\ scans = {} /\ completes = {}
    /\ linkOpen = FALSE /\ scanLock = FALSE
    /\ agreed = [new |-> {}, primary |-> {}] /\ strayed = FALSE
    /\ sessions = 0 /\ scanned = 0 /\ failures = 0 /\ leaves = 0

-----------------------------------------------------------------------------
(* The store: a pairing that is gone is made anew by some of its actions   *)
(* and left alone by others.                                               *)
setNewDeviceError == pairing' = [pairing EXCEPT !.phase = "error"]
setNewDevicePhase(phase) ==
    pairing' = IF pairing.phase = "null" THEN pairing ELSE [pairing EXCEPT !.phase = phase]
setNewDeviceSafetyNumber(sn) ==
    pairing' = IF pairing.phase = "null" THEN pairing ELSE [pairing EXCEPT !.sn = sn]
setPrimaryError == prim' = [prim EXCEPT !.phase = "error"]

(* The new device starts: a pairing with its key, and linkInit.            *)
startNewDeviceLink(stops) ==
    /\ sessions < MaxSessions /\ sessions' = sessions + 1
    /\ pairing' = [emptyNewDevice EXCEPT !.phase = "init", !.priv = sessions + 1]
    /\ starts' = starts \cup {[session |-> sessions + 1, stops |-> stops, polls |-> TRUE]}

openClaim ==
    /\ ~claiming /\ claiming' = TRUE /\ install.at = "no"
    /\ identity = None
    /\ startNewDeviceLink(TRUE)
    /\ UNCHANGED <<server, polls, aborted, waiter, install, identity, revokes,
                   primVars, agreement, scanned, failures, leaves>>

(* The prompt that unlocks the device covers the screen.                   *)
Unlocking == install.at = "auth"

handleRetry ==
    /\ claiming /\ ~Unlocking /\ pairing.phase = "error"
    /\ startNewDeviceLink(FALSE)
    /\ UNCHANGED <<server, polls, aborted, waiter, install, identity, claiming,
                   revokes, primVars, agreement, scanned, failures, leaves>>

(* linkInit answers. The screen goes on to poll the session the store has. *)
linkInit(r) ==
    /\ starts' = starts \ {r}
    /\ \/ /\ CallSucceeds
          /\ server' = [server EXCEPT ![r.session].at = "waiting"]
          /\ pairing' = [pairing EXCEPT !.session = r.session,
                            !.phase = IF r.polls THEN "polling" ELSE "waiting"]
          /\ polls' = IF r.polls THEN polls \cup {newPoll(r.session)} ELSE polls
       \/ CallFails /\ setNewDeviceError /\ UNCHANGED <<server, polls>>
    /\ UNCHANGED <<aborted, waiter, install, identity, claiming, revokes,
                   primVars, agreement, sessions, scanned, leaves>>

(* Mutant of rejectPayloadWaiter: the wait goes on.                        *)
rejectNobody(s) == UNCHANGED <<waiter, install>>

rejectPayloadWaiter(s) ==
    /\ waiter' = waiter \ {s}
    /\ install' = IF s \in waiter THEN NoInstall ELSE install

(* A pairing is cancelled: its loop is to stop, and what a confirmation    *)
(* waits for is rejected. If its payload has come, the device it was given *)
(* is revoked first, and whatever pairing there is then is cleared.        *)
Revokes == pairing.phase \in {"safetyCheck", "installing"} /\ pairing.payload # None

cancelNewDeviceLink(back) ==
    /\ Leaves
    /\ aborted' = IF pairing.session = 0 THEN aborted ELSE aborted \cup {pairing.session}
    /\ rejectPayloadWaiter(pairing.session)
    /\ IF Revokes
       THEN /\ revokes' = revokes \cup {[id |-> leaves + 1, back |-> back]}
            /\ UNCHANGED pairing
       ELSE pairing' = emptyNewDevice /\ UNCHANGED revokes

screenCloses ==
    /\ claiming' = FALSE
    /\ starts' = {[r EXCEPT !.polls = @ /\ ~r.stops] : r \in starts}

(* The user goes back.                                                     *)
closeClaim ==
    /\ claiming /\ screenCloses /\ ~Unlocking
    /\ IF pairing.phase \in {"null", "done"}
       THEN pairing' = emptyNewDevice /\ UNCHANGED <<aborted, waiter, install, revokes, leaves>>
       ELSE cancelNewDeviceLink(FALSE)
    /\ UNCHANGED <<server, polls, identity, primVars, agreement, sessions,
                   scanned, failures>>

(* The user cancels, or the numbers do not match: the screen stays until   *)
(* the device is revoked.                                                  *)
handleCancel ==
    /\ claiming /\ ~Unlocking /\ Revokes
    /\ cancelNewDeviceLink(TRUE)
    /\ UNCHANGED <<server, starts, polls, identity, claiming, primVars, agreement,
                   sessions, scanned, failures>>

revokeMyDevice(v) ==
    /\ revokes' = revokes \ {v} /\ pairing' = emptyNewDevice
    /\ IF v.back THEN screenCloses ELSE UNCHANGED <<claiming, starts>>
    /\ UNCHANGED <<server, polls, aborted, waiter, install, identity, primVars,
                   agreement, counters>>

-----------------------------------------------------------------------------
exits(l) == polls' = polls \ {l} /\ aborted' = aborted \ {l.session}
pollGoesOn(l, m) == polls' = (polls \ {l}) \cup {m} /\ UNCHANGED aborted

(* The loop sleeps and looks at its flag before it asks again.             *)
sleeps(l, m) == IF l.session \in aborted THEN exits(l)
                ELSE pollGoesOn(l, [m EXCEPT !.at = "ask", !.answer = noAnswer])

(* A pairing to which an answer can be applied: it has its keys.           *)
HasKeys == pairing.phase # "null" /\ pairing.priv # 0

(* onCompletedReady, as far as the native peek.                            *)
onCompletedReady(l, a, now) ==
    IF HasKeys
    THEN /\ pairing' = [now EXCEPT !.p = a.p, !.payload = a.payload]
         /\ pollGoesOn(l, [l EXCEPT !.at = "peek", !.handled = TRUE, !.answer = a,
                         !.priv = now.priv, !.of = now.session, !.share = now.share,
                         !.sn = now.sn])
    ELSE pairing' = now /\ exits(l)

(* The end of a session, for the pairing the store has.                    *)
sessionOver(l) ==
    /\ setNewDeviceError /\ rejectPayloadWaiter(l.session) /\ exits(l)

(* An answer of the server to a poll, the last if the session is over. The *)
(* server gives a payload away once.                                       *)
linkSessionResult(l) ==
    /\ l.at = "ask"
    /\ LET s == server[l.session]
           a == [completed |-> s.at = "completed", p |-> s.p, payload |-> s.payload]
           first == ~l.handled /\ s.at \in {"shared", "completed"}
           read == [server EXCEPT ![l.session].at =
                       IF @ = "completed" THEN "consumed" ELSE @]
       IN  \/ /\ CallFails /\ server' \in {server, read}
              /\ \/ sleeps(l, l) /\ UNCHANGED <<pairing, waiter, install>>
                 \/ sessionOver(l)                           \* POLL_TIMEOUT
           \/ /\ CallSucceeds /\ server' = read
              /\ \/ s.at \in {"consumed", "expired"} /\ sessionOver(l)
                 \/ /\ s.at = "waiting" \/ (s.at = "shared" /\ ~first)
                    /\ sleeps(l, l) /\ UNCHANGED <<pairing, waiter, install>>
                 \/ /\ first /\ HasKeys /\ UNCHANGED <<waiter, install>>
                    /\ pairing' = [pairing EXCEPT !.p = a.p, !.share = TRUE,
                                                  !.phase = "safetyCheck"]
                    /\ pollGoesOn(l, [l EXCEPT !.at = "number", !.answer = a,
                                           !.priv = pairing.priv])
                 \/ /\ first /\ ~HasKeys /\ UNCHANGED <<pairing, waiter,
                                                        install>>
                    /\ IF a.completed THEN exits(l)
                       ELSE sleeps(l, [l EXCEPT !.handled = TRUE])
                 \/ /\ ~first /\ a.completed /\ UNCHANGED <<waiter, install>>
                    /\ onCompletedReady(l, a, pairing)
    /\ UNCHANGED <<starts, identity, claiming, revokes, primVars, agreement,
                   sessions, scanned, leaves>>

(* onPubkeyShared: the native module has computed the number.              *)
onPubkeyShared(l) ==
    /\ l.at = "number"
    /\ LET numbered == IF pairing.phase = "null" THEN pairing
                       ELSE [pairing EXCEPT !.sn = <<l.priv, l.answer.p>>]
           failed == [pairing EXCEPT !.phase = "error"]
       IN  \E now \in {numbered, failed} :
             /\ IF now = failed /\ failed # numbered THEN CallFails ELSE CallSucceeds
             /\ IF l.answer.completed THEN onCompletedReady(l, l.answer, now)
                ELSE pairing' = now /\ sleeps(l, [l EXCEPT !.handled = TRUE])
    /\ UNCHANGED <<server, starts, waiter, install, identity, claiming,
                   revokes, primVars, agreement, sessions, scanned, leaves>>

(* What confirmNewDeviceSafetyAndInstall does with a payload.              *)
consume(now) ==
    /\ pairing' = [now EXCEPT !.phase = "installing"]
    /\ install' = [install EXCEPT !.at = "consume", !.session = now.session,
                      !.payload = now.payload, !.priv = now.priv, !.p = now.p]
    /\ strayed' = (strayed \/ (install.at # "no" /\ now.priv # install.sn[1]))

(* onCompletedReady: the payload was peeked at. A confirmation that waits  *)
(* for it goes on with the pairing the store has.                          *)
peeked(l) == [pairing EXCEPT !.phase = "safetyCheck",
                 !.sn = IF l.sn = None THEN <<l.priv, l.answer.p>> ELSE @]

(* Mutant of payloadArrives: it is installed whoever has confirmed it.     *)
installsAtOnce(l) == consume(peeked(l)) /\ waiter' = waiter \ {l.of}

payloadArrives(l) ==
    /\ waiter' = waiter \ {l.of}
    /\ IF l.of \in waiter /\ pairing.payload # None THEN consume(peeked(l))
       ELSE /\ pairing' = peeked(l) /\ UNCHANGED strayed
            /\ install' = IF l.of \in waiter THEN NoInstall ELSE install

peekProvisioningPayload(l) ==
    /\ l.at = "peek" /\ exits(l)
    /\ \/ /\ opens(l.answer.payload, l.priv, l.answer.p) /\ l.share /\ CallSucceeds
          /\ payloadArrives(l)
       \/ /\ IF opens(l.answer.payload, l.priv, l.answer.p) /\ l.share
             THEN CallFails ELSE CallSucceeds
          /\ setNewDeviceError /\ rejectPayloadWaiter(l.of) /\ UNCHANGED strayed
    /\ UNCHANGED <<server, starts, identity, claiming, revokes, primVars,
                   agreed, sessions, scanned, leaves>>

-----------------------------------------------------------------------------
(* The user of the new device sees the same number on both screens, and    *)
(* unlocks the device. (Bound: one confirmation at a time.)                *)
handleSafetyMatch ==
    /\ claiming /\ install.at = "no"
    /\ pairing.phase = "safetyCheck" /\ ~pairing.confirmed
    /\ pairing.sn # None /\ pairing.sn = prim.sn
    /\ install' = [NoInstall EXCEPT !.at = "auth", !.sn = pairing.sn]
    /\ agreed' = [agreed EXCEPT !.new = @ \cup {pairing.sn}]
    /\ UNCHANGED <<server, pairing, starts, polls, aborted, waiter, identity,
                   claiming, revokes, primVars, strayed, counters>>

confirmNewDeviceSafetyAndInstall ==
    /\ Unlocking
    /\ IF pairing.phase # "safetyCheck" \/ pairing.session = 0 \/ pairing.priv = 0
       THEN install' = NoInstall /\ UNCHANGED <<pairing, waiter, strayed>>
       ELSE IF pairing.payload = None
       THEN /\ pairing' = [pairing EXCEPT !.confirmed = TRUE]
            /\ waiter' = waiter \cup {pairing.session}
            /\ install' = [install EXCEPT !.at = "wait", !.session = pairing.session]
            /\ UNCHANGED strayed
       ELSE consume([pairing EXCEPT !.confirmed = TRUE]) /\ UNCHANGED waiter
    /\ UNCHANGED <<server, starts, polls, aborted, identity, claiming, revokes,
                   primVars, agreed, counters>>

(* consumeProvisioningPayload installs the identity; the screen is done.   *)
consumeProvisioningPayload ==
    /\ install.at = "consume" /\ install' = NoInstall
    /\ \/ /\ opens(install.payload, install.priv, install.p) /\ CallSucceeds
          /\ identity' = install.payload /\ setNewDevicePhase("done")
       \/ /\ IF opens(install.payload, install.priv, install.p) THEN CallFails ELSE CallSucceeds
          /\ setNewDeviceError /\ UNCHANGED identity
    /\ UNCHANGED <<server, starts, polls, aborted, waiter, claiming, revokes,
                   primVars, agreement, sessions, scanned, leaves>>

-----------------------------------------------------------------------------
(* The primary's screen. It scans the code of the session it is shown.     *)
openLink ==
    /\ ~linkOpen /\ linkOpen' = TRUE /\ scanLock' = FALSE
    /\ prim' = IF prim.phase = "null" THEN [emptyPrimary EXCEPT !.phase = "scanning"]
               ELSE prim
    /\ UNCHANGED <<server, newVars, scans, completes, agreement, counters>>

handleScan ==
    /\ linkOpen /\ ~scanLock /\ scanLock' = TRUE
    /\ pairing.phase \in {"waiting", "polling"}
    /\ scanned < MaxScans /\ scanned' = scanned + 1
    /\ prim' = [prim EXCEPT !.session = pairing.session, !.e = pairing.session]
    /\ scans' = scans \cup {[p |-> scanned + 1, session |-> pairing.session, at |-> "keys"]}
    /\ UNCHANGED <<server, newVars, completes, linkOpen, agreement, sessions,
                   failures, leaves>>

(* The native module makes the keys in the order of the scans.             *)
setPrimaryEphemeral(c) ==
    /\ c.at = "keys"
    /\ \A o \in scans : o.at = "keys" => c.p <= o.p
    /\ prim' = [prim EXCEPT !.p = c.p, !.phase = IF @ = "null" THEN "idle" ELSE @]
    /\ scans' = (scans \ {c}) \cup {[c EXCEPT !.at = "share"]}
    /\ UNCHANGED <<server, newVars, completes, linkOpen, scanLock, agreement,
                   counters>>

(* The server takes a key for a waiting session; then the number is shown. *)
linkSharePubkey(c) ==
    /\ c.at = "share" /\ scans' = scans \ {c}
    /\ LET s == server[c.session]
           taken == s.at = "waiting" \/ (s.at = "shared" /\ s.p = c.p)
           shared == IF taken THEN [server EXCEPT ![c.session].at = "shared",
                                                  ![c.session].p = c.p]
                     ELSE server
       IN  \/ /\ taken /\ CallSucceeds /\ server' = shared
              /\ prim' = [prim EXCEPT !.sn = <<c.session, c.p>>, !.phase = "safetyCheck"]
           \/ /\ IF taken THEN CallFails ELSE CallSucceeds
              /\ server' \in {server, shared} /\ setPrimaryError
    /\ UNCHANGED <<newVars, completes, linkOpen, scanLock, agreement, sessions,
                   scanned, leaves>>

(* The user of the primary sees the same number on both screens.           *)
confirmPrimarySafetyAndComplete ==
    /\ linkOpen /\ prim.phase = "safetyCheck" /\ 0 \notin {prim.session, prim.e, prim.p}
    /\ claiming /\ pairing.phase = "safetyCheck" /\ prim.sn = pairing.sn
    /\ agreed' = [agreed EXCEPT !.primary = @ \cup {prim.sn}]
    /\ strayed' = (strayed \/ prim.sn # <<prim.e, prim.p>>)
    /\ prim' = [prim EXCEPT !.phase = "completing"]
    /\ completes' = completes \cup
          {[session |-> prim.session, payload |-> <<prim.e, prim.p>>]}
    /\ UNCHANGED <<server, newVars, scans, linkOpen, scanLock, counters>>

(* setPrimaryAssignedDeviceId, or the error.                               *)
linkComplete(c) ==
    /\ completes' = completes \ {c}
    /\ LET taken == server[c.session].at = "shared"
           done == IF taken THEN [server EXCEPT ![c.session].at = "completed",
                                                ![c.session].payload = c.payload]
                   ELSE server
       IN  \/ /\ taken /\ CallSucceeds /\ server' = done
              /\ prim' = IF prim.phase = "null" THEN prim ELSE [prim EXCEPT !.phase = "done"]
           \/ /\ IF taken THEN CallFails ELSE CallSucceeds
              /\ server' \in {server, done} /\ setPrimaryError
    /\ UNCHANGED <<newVars, scans, linkOpen, scanLock, agreement, sessions,
                   scanned, leaves>>

(* cancelPrimaryPairing, or handleDone.                                    *)
closeLink ==
    /\ linkOpen /\ linkOpen' = FALSE /\ prim' = emptyPrimary
    /\ IF prim.phase = "done" THEN UNCHANGED leaves ELSE Leaves
    /\ UNCHANGED <<server, newVars, scans, completes, scanLock, agreement,
                   sessions, scanned, failures>>

retryLink ==
    /\ linkOpen /\ prim.phase = "error" /\ scanLock' = FALSE
    /\ prim' = [emptyPrimary EXCEPT !.phase = "scanning"]
    /\ UNCHANGED <<server, newVars, scans, completes, linkOpen, agreement,
                   counters>>

(* A session that is not completed expires after five minutes.             *)
expire(s) ==
    /\ server[s].at \in {"waiting", "shared", "completed"}
    /\ server' = [server EXCEPT ![s].at = "expired"]
    /\ UNCHANGED <<newVars, primVars, agreement, counters>>

-----------------------------------------------------------------------------
Polling == \E l \in polls : linkSessionResult(l) \/ onPubkeyShared(l)
                            \/ peekProvisioningPayload(l)

PairingNext ==
    \/ openClaim \/ handleRetry \/ closeClaim \/ handleCancel
    \/ \E v \in revokes : revokeMyDevice(v)
    \/ \E r \in starts : linkInit(r)
    \/ Polling
    \/ handleSafetyMatch \/ confirmNewDeviceSafetyAndInstall
    \/ consumeProvisioningPayload
    \/ openLink \/ handleScan \/ closeLink \/ retryLink
    \/ confirmPrimarySafetyAndComplete
    \/ \E c \in scans : setPrimaryEphemeral(c) \/ linkSharePubkey(c)
    \/ \E c \in completes : linkComplete(c)
    \/ \E s \in Sessions : expire(s)

(* Requests and native calls end, and sessions expire.                     *)
PairingSpec == /\ PairingInit /\ [][PairingNext]_pairingVars
        /\ WF_pairingVars(Polling) /\ WF_pairingVars(consumeProvisioningPayload)
        /\ WF_pairingVars(confirmNewDeviceSafetyAndInstall)
        /\ \A s \in Sessions : WF_pairingVars(expire(s))

-----------------------------------------------------------------------------
PairingTypeOK ==
    /\ server \in [Sessions -> LinkSession]
    /\ pairing \in PairingState /\ polls \subseteq Poll /\ starts \subseteq Start
    /\ aborted \subseteq Sessions
    /\ waiter = IF install.at = "wait" THEN {install.session} ELSE {}
    /\ install \in Install
    /\ identity \in KeyPair /\ claiming \in BOOLEAN
    /\ revokes \subseteq Revoke
    /\ prim \in PrimaryState /\ linkOpen \in BOOLEAN /\ scanLock \in BOOLEAN
    /\ scans \subseteq Scan /\ completes \subseteq Complete
    /\ agreed \in [new : SUBSET KeyPair, primary : SUBSET KeyPair]
    /\ strayed \in BOOLEAN
    /\ sessions \in 0..MaxSessions /\ scanned \in 0..MaxScans
    /\ failures \in 0..MaxFailures /\ leaves \in 0..MaxLeaves

(* An identity is installed only if both users have confirmed the safety   *)
(* number of the very keys it was encrypted with, unless one of them was   *)
(* shown the number of a pairing that had been left: a late answer writes  *)
(* it over that of the next, and nothing looks whose it is.                *)
InstalledIsAgreed ==
    identity # None => identity \in agreed.new \cap agreed.primary \/ strayed

(* Types, and an installed identity that both devices have confirmed,      *)
(* however polls, rescans, expiries and screens that are left interleave.  *)
PairingInv == PairingTypeOK /\ InstalledIsAgreed

(* A user who has confirmed gets a verdict: however the loop that polls    *)
(* the session ends, it ends the wait for the payload. (If it is alone: a  *)
(* request of a screen that was left, or a loop of another session, may    *)
(* take the pairing from it, and then the wait has no end.)                *)
Alone(l) == polls = {l} /\ starts = {} /\ revokes = {}

WaitEnds ==
    (/\ install.at = "wait" /\ install.session = pairing.session
     /\ pairing.phase = "safetyCheck"
     /\ \E l \in polls : l.session = pairing.session /\ Alone(l)) ~> install.at # "wait"
=============================================================================
