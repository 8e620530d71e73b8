----------------------------- MODULE Keys_proofs -----------------------------
(***************************************************************************)
(* Theorems about the keys of a device: how it gets the identity           *)
(* (Pairing), the pre-keys that its peers use (PreKeys) and the sender     *)
(* keys of a room (SenderKeys).                                            *)
(***************************************************************************)
EXTENDS Pairing, PreKeys, SenderKeys, TLAPS, FiniteSetTheorems,
        SequenceTheorems, WellFoundedInduction

(***************************************************************************)
(* Pairing, for any number of sessions, scans, failures and screens left.  *)
(***************************************************************************)

(* A session has the key of a scan: it is opened once, and keeps its key.  *)
KeyIs(s, p) ==
    s \in Sessions /\ server[s].p = p /\ server[s].at \notin {"none", "waiting"}

StartsAreNew ==
    /\ \A r \in starts : r.session <= sessions /\ server[r.session].at = "none"
    /\ \A r, t \in starts : r.session = t.session => r = t
    /\ \A s \in Sessions : s > sessions => server[s].at = "none"

(* The number the primary shows is of the key its session has.             *)
NumberIsShared == prim.sn # None => KeyIs(prim.sn[1], prim.sn[2])

(* A payload, wherever it is, was encrypted with the keys whose number the *)
(* user of the primary has confirmed.                                      *)
IsAgreed(x) == x # None => x \in agreed.primary /\ KeyIs(x[1], x[2])

Payloads == {None, pairing.payload, install.payload}
            \cup {c.payload : c \in completes}
            \cup {server[s].payload : s \in Sessions}
            \cup {l.answer.payload : l \in polls}

PayloadsAgreed == ~strayed => \A x \in Payloads : IsAgreed(x)

(* What the new device is about to install was confirmed for its pairing.  *)
InstallIsConfirmed ==
    /\ install.at # "no" =>
         /\ install.sn \in agreed.new
         /\ KeyIs(install.sn[1], install.sn[2])
    /\ install.at = "consume" /\ ~strayed => install.priv = install.sn[1]

PairingIInv ==
    /\ PairingTypeOK /\ StartsAreNew /\ NumberIsShared /\ PayloadsAgreed
    /\ InstallIsConfirmed /\ InstalledIsAgreed

-----------------------------------------------------------------------------
(* The types.                                                              *)
LEMMA NoPairing ==
  /\ None \in KeyPair /\ emptyNewDevice \in PairingState
  /\ emptyPrimary \in PrimaryState
  /\ \A s \in Sessions : newPoll(s) \in Poll
BY PairingAssumption
   DEF None, KeyPair, emptyNewDevice, PairingState, Phases, emptyPrimary,
       PrimaryState, newPoll, Poll, noAnswer, Answer, Sessions

LEMMA PairingInitTyped == ASSUME PairingInit PROVE PairingTypeOK
<1> USE DEF PairingInit
<1>1. server \in [Sessions -> LinkSession]
  BY NoPairing, PairingAssumption DEF LinkSession
<1>2. pairing \in PairingState /\ prim \in PrimaryState
  BY NoPairing
<1>3. install \in Install /\ install.at = "no"
  BY NoPairing, PairingAssumption DEF NoInstall, Install
<1>4. waiter = IF install.at = "wait" THEN {install.session} ELSE {}
  BY <1>3
<1>5. /\ polls \subseteq Poll /\ starts \subseteq Start /\ aborted \subseteq Sessions
      /\ identity \in KeyPair /\ claiming \in BOOLEAN /\ linkOpen \in BOOLEAN
      /\ scanLock \in BOOLEAN /\ scans \subseteq Scan /\ completes \subseteq Complete
      /\ strayed \in BOOLEAN
  BY NoPairing
<1>6. agreed \in [new : SUBSET KeyPair, primary : SUBSET KeyPair]
  OBVIOUS
<1>7. /\ sessions \in 0..MaxSessions /\ scanned \in 0..MaxScans
      /\ failures \in 0..MaxFailures /\ leaves \in 0..MaxLeaves
  BY PairingAssumption
<1> QED
  BY <1>1, <1>2, <1>3, <1>4, <1>5, <1>6, <1>7 DEF PairingTypeOK

LEMMA StartsTyped ==
  ASSUME PairingTypeOK, NEW stops \in BOOLEAN, startNewDeviceLink(stops)
  PROVE  /\ pairing' \in PairingState /\ sessions' \in 0..MaxSessions
         /\ starts' \subseteq Start
<1>0. sessions \in 0..MaxSessions
  BY DEF PairingTypeOK
<1>1. sessions' = sessions + 1 /\ sessions' \in Sessions
  BY <1>0, PairingAssumption DEF startNewDeviceLink, Sessions
<1>2. pairing' = [emptyNewDevice EXCEPT !.phase = "init", !.priv = sessions']
  BY <1>1 DEF startNewDeviceLink
<1>3. sessions' \in 0..MaxSessions
  BY <1>1, PairingAssumption DEF Sessions
<1>4. pairing' \in PairingState
  BY <1>2, <1>3, NoPairing DEF PairingState, Phases
<1>5. starts' = starts \cup {[session |-> sessions', stops |-> stops, polls |-> TRUE]}
  BY <1>1 DEF startNewDeviceLink
<1>6. [session |-> sessions', stops |-> stops, polls |-> TRUE] \in Start
  BY <1>1 DEF Start
<1> QED
  BY <1>3, <1>4, <1>5, <1>6 DEF PairingTypeOK

LEMMA OpenClaimTyped == ASSUME PairingTypeOK, openClaim PROVE PairingTypeOK'
<1>1. startNewDeviceLink(TRUE)
  BY DEF openClaim
<1> QED
  BY <1>1, StartsTyped DEF PairingTypeOK, openClaim, primVars, agreement

LEMMA HandleRetryTyped == ASSUME PairingTypeOK, handleRetry PROVE PairingTypeOK'
<1>1. startNewDeviceLink(FALSE)
  BY DEF handleRetry
<1> QED
  BY <1>1, StartsTyped DEF PairingTypeOK, handleRetry, primVars, agreement

LEMMA LinkInitTyped ==
  ASSUME PairingTypeOK, NEW r \in starts, linkInit(r) PROVE PairingTypeOK'
<1>1. /\ r.session \in Sessions /\ r.session \in 0..MaxSessions
      /\ r.session # 0 /\ r.polls \in BOOLEAN
  BY PairingAssumption DEF PairingTypeOK, Sessions, Start
<1>2. pairing' \in PairingState
  BY <1>1 DEF PairingTypeOK, linkInit, setNewDeviceError, PairingState, Phases
<1>3. server' \in [Sessions -> LinkSession]
  BY <1>1 DEF PairingTypeOK, linkInit, LinkSession
<1>4. polls' \subseteq Poll
  BY <1>1, NoPairing DEF PairingTypeOK, linkInit
<1>5. failures' \in 0..MaxFailures
  BY PairingAssumption DEF PairingTypeOK, linkInit, CallFails, CallSucceeds
<1> QED
  BY <1>2, <1>3, <1>4, <1>5 DEF PairingTypeOK, linkInit, primVars, agreement

LEMMA NoInstallTyped == NoInstall \in Install /\ NoInstall.at = "no"
BY NoPairing, PairingAssumption DEF NoInstall, Install

LEMMA RejectTyped ==
  ASSUME PairingTypeOK, NEW s, rejectPayloadWaiter(s)
  PROVE  /\ waiter' = IF install'.at = "wait" THEN {install'.session} ELSE {}
         /\ install' \in Install
<1>1. CASE s \in waiter
  BY <1>1, NoInstallTyped DEF PairingTypeOK, rejectPayloadWaiter
<1>2. CASE s \notin waiter
  BY <1>2 DEF PairingTypeOK, rejectPayloadWaiter
<1> QED
  BY <1>1, <1>2

LEMMA ScreenClosesTyped ==
  ASSUME PairingTypeOK, screenCloses
  PROVE  starts' \subseteq Start /\ claiming' \in BOOLEAN
<1>1. ASSUME NEW r \in starts, NEW b \in BOOLEAN PROVE [r EXCEPT !.polls = b] \in Start
  BY DEF PairingTypeOK, Start
<1>2. \A r \in starts : (r.polls /\ ~r.stops) \in BOOLEAN
  OBVIOUS
<1> QED
  BY <1>1, <1>2 DEF screenCloses

LEMMA CancelTyped ==
  ASSUME PairingTypeOK, NEW back \in BOOLEAN, cancelNewDeviceLink(back)
  PROVE  /\ pairing' \in PairingState /\ aborted' \subseteq Sessions
         /\ revokes' \subseteq Revoke /\ leaves' \in 0..MaxLeaves
         /\ waiter' = IF install'.at = "wait" THEN {install'.session} ELSE {}
         /\ install' \in Install
<1>1. pairing.session \in 0..MaxSessions /\ leaves \in 0..MaxLeaves /\ aborted \subseteq Sessions
  BY DEF PairingTypeOK, PairingState
<1>2. pairing' \in PairingState
  BY NoPairing DEF cancelNewDeviceLink, PairingTypeOK
<1>3. leaves' \in 0..MaxLeaves /\ leaves + 1 \in 1..MaxLeaves
  BY <1>1, PairingAssumption DEF cancelNewDeviceLink, Leaves
<1>4. aborted' \subseteq Sessions
  <2>1. /\ pairing.session = 0 => aborted' = aborted
        /\ pairing.session # 0 => aborted' = aborted \cup {pairing.session}
    BY Zenon DEF cancelNewDeviceLink
  <2>2. pairing.session # 0 => pairing.session \in Sessions
    BY <1>1, PairingAssumption DEF Sessions
  <2> QED
    BY <1>1, <2>1, <2>2
<1>5. revokes' \subseteq Revoke
  BY <1>3 DEF cancelNewDeviceLink, Revoke, PairingTypeOK
<1> QED
  BY <1>2, <1>3, <1>4, <1>5, RejectTyped DEF cancelNewDeviceLink

LEMMA CloseClaimTyped == ASSUME PairingTypeOK, closeClaim PROVE PairingTypeOK'
<1>1. starts' \subseteq Start /\ claiming' \in BOOLEAN
  BY ScreenClosesTyped DEF closeClaim
<1>2. CASE pairing.phase \in {"null", "done"}
  BY <1>1, <1>2, NoPairing DEF PairingTypeOK, closeClaim, primVars, agreement
<1>3. CASE pairing.phase \notin {"null", "done"}
  <2>1. cancelNewDeviceLink(FALSE)
    BY <1>3 DEF closeClaim
  <2> QED
    BY <1>1, <2>1, CancelTyped DEF PairingTypeOK, closeClaim, primVars, agreement
<1> QED
  BY <1>2, <1>3

LEMMA HandleCancelTyped == ASSUME PairingTypeOK, handleCancel PROVE PairingTypeOK'
<1>1. cancelNewDeviceLink(TRUE)
  BY DEF handleCancel
<1> QED
  BY <1>1, CancelTyped DEF PairingTypeOK, handleCancel, primVars, agreement

LEMMA RevokeTyped ==
  ASSUME PairingTypeOK, NEW v \in revokes, revokeMyDevice(v) PROVE PairingTypeOK'
<1>1. starts' \subseteq Start /\ claiming' \in BOOLEAN
  BY ScreenClosesTyped DEF revokeMyDevice, PairingTypeOK
<1> QED
  BY <1>1, NoPairing
     DEF PairingTypeOK, revokeMyDevice, primVars, agreement, counters

(* What follows the answer to a poll.                                      *)
LEMMA ExitsTyped ==
  ASSUME PairingTypeOK, NEW l \in polls, exits(l)
  PROVE  polls' \subseteq Poll /\ aborted' \subseteq Sessions
BY DEF PairingTypeOK, exits, Poll

LEMMA SleepsTyped ==
  ASSUME PairingTypeOK, NEW l \in polls, NEW m \in Poll, sleeps(l, m)
  PROVE  polls' \subseteq Poll /\ aborted' \subseteq Sessions
<1>1. noAnswer \in Answer
  BY NoPairing, PairingAssumption DEF noAnswer, Answer
<1>2. [m EXCEPT !.at = "ask", !.answer = noAnswer] \in Poll
  BY <1>1 DEF Poll
<1> QED
  BY <1>2, ExitsTyped DEF sleeps, pollGoesOn, PairingTypeOK

LEMMA ReadyTyped ==
  ASSUME PairingTypeOK, NEW l \in polls, NEW a \in Answer, NEW now \in PairingState,
         onCompletedReady(l, a, now)
  PROVE  /\ polls' \subseteq Poll /\ aborted' \subseteq Sessions
         /\ pairing' \in PairingState
<1>1. CASE HasKeys
  <2>1. [now EXCEPT !.p = a.p, !.payload = a.payload] \in PairingState
    BY DEF PairingState, Answer
  <2>2. [l EXCEPT !.at = "peek", !.handled = TRUE, !.answer = a, !.priv = now.priv,
                  !.of = now.session, !.share = now.share, !.sn = now.sn] \in Poll
    BY DEF PairingState, Poll, PairingTypeOK
  <2> QED
    BY <1>1, <2>1, <2>2 DEF onCompletedReady, pollGoesOn, PairingTypeOK
<1>2. CASE ~HasKeys
  BY <1>2, ExitsTyped DEF onCompletedReady
<1> QED
  BY <1>1, <1>2

LEMMA OverTyped ==
  ASSUME PairingTypeOK, NEW l \in polls, sessionOver(l)
  PROVE  /\ polls' \subseteq Poll /\ aborted' \subseteq Sessions
         /\ pairing' \in PairingState /\ install' \in Install
         /\ waiter' = IF install'.at = "wait" THEN {install'.session} ELSE {}
<1>1. pairing' \in PairingState
  BY DEF sessionOver, setNewDeviceError, PairingTypeOK, PairingState, Phases
<1> QED
  BY <1>1, ExitsTyped, RejectTyped DEF sessionOver

LEMMA LinkSessionResultTyped ==
  ASSUME PairingTypeOK, NEW l \in polls, linkSessionResult(l) PROVE PairingTypeOK'
<1> DEFINE s == server[l.session]
           a == [completed |-> s.at = "completed", p |-> s.p, payload |-> s.payload]
           first == ~l.handled /\ s.at \in {"shared", "completed"}
           read == [server EXCEPT ![l.session].at = IF @ = "completed" THEN "consumed" ELSE @]
<1>1. l \in Poll /\ l.session \in Sessions /\ s \in LinkSession /\ a \in Answer
  BY DEF PairingTypeOK, Poll, LinkSession, Answer
<1>2. server' \in {server, read} /\ read \in [Sessions -> LinkSession]
  BY <1>1 DEF PairingTypeOK, linkSessionResult, LinkSession
<1>3. server' \in [Sessions -> LinkSession]
  BY <1>2 DEF PairingTypeOK
<1>4. failures' \in 0..MaxFailures
  <2>1. failures' = failures \/ (failures < MaxFailures /\ failures' = failures + 1)
    BY DEF linkSessionResult, CallFails, CallSucceeds
  <2> QED
    BY <2>1, PairingAssumption DEF PairingTypeOK
<1>5. [l EXCEPT !.handled = TRUE] \in Poll
  BY <1>1 DEF Poll
<1>6. [l EXCEPT !.at = "number", !.answer = a, !.priv = pairing.priv] \in Poll
  BY <1>1 DEF Poll, PairingTypeOK, PairingState
<1> HIDE DEF a
<1>7. \/ sleeps(l, l) /\ UNCHANGED <<pairing, waiter, install>>
      \/ sessionOver(l)
      \/ /\ pairing' = [pairing EXCEPT !.p = a.p, !.share = TRUE, !.phase = "safetyCheck"]
         /\ pollGoesOn(l, [l EXCEPT !.at = "number", !.answer = a, !.priv = pairing.priv])
         /\ UNCHANGED <<waiter, install>>
      \/ exits(l) /\ UNCHANGED <<pairing, waiter, install>>
      \/ sleeps(l, [l EXCEPT !.handled = TRUE]) /\ UNCHANGED <<pairing, waiter, install>>
      \/ onCompletedReady(l, a, pairing) /\ UNCHANGED <<waiter, install>>
  BY DEF linkSessionResult, a
<1>8. UNCHANGED <<starts, identity, claiming, revokes, primVars, agreement, sessions,
                  scanned, leaves>>
  BY DEF linkSessionResult
<1> DEFINE Typed == /\ polls' \subseteq Poll /\ aborted' \subseteq Sessions
                    /\ pairing' \in PairingState /\ install' \in Install
                    /\ waiter' = IF install'.at = "wait" THEN {install'.session} ELSE {}
<1>9. Typed
  <2>1. CASE sleeps(l, l) /\ UNCHANGED <<pairing, waiter, install>>
    BY <2>1, <1>1, SleepsTyped DEF PairingTypeOK
  <2>2. CASE sessionOver(l)
    BY <2>2, OverTyped
  <2>3. CASE /\ pairing' = [pairing EXCEPT !.p = a.p, !.share = TRUE, !.phase = "safetyCheck"]
             /\ pollGoesOn(l, [l EXCEPT !.at = "number", !.answer = a, !.priv = pairing.priv])
             /\ UNCHANGED <<waiter, install>>
    <3>1. a.p \in 0..MaxScans
      BY <1>1 DEF Answer
    <3>2. pairing' \in PairingState
      BY <2>3, <3>1 DEF PairingTypeOK, PairingState, Phases
    <3> QED
      BY <2>3, <3>2, <1>6 DEF PairingTypeOK, pollGoesOn
  <2>4. CASE exits(l) /\ UNCHANGED <<pairing, waiter, install>>
    BY <2>4, ExitsTyped DEF PairingTypeOK
  <2>5. CASE sleeps(l, [l EXCEPT !.handled = TRUE]) /\ UNCHANGED <<pairing, waiter, install>>
    BY <2>5, <1>5, SleepsTyped DEF PairingTypeOK
  <2>6. CASE onCompletedReady(l, a, pairing) /\ UNCHANGED <<waiter, install>>
    BY <2>6, <1>1, ReadyTyped DEF PairingTypeOK
  <2> QED
    BY <1>7, <2>1, <2>2, <2>3, <2>4, <2>5, <2>6
<1> QED
  BY <1>3, <1>4, <1>8, <1>9 DEF PairingTypeOK, primVars, agreement

LEMMA OnPubkeySharedTyped ==
  ASSUME PairingTypeOK, NEW l \in polls, onPubkeyShared(l) PROVE PairingTypeOK'
<1> DEFINE numbered == IF pairing.phase = "null" THEN pairing
                       ELSE [pairing EXCEPT !.sn = <<l.priv, l.answer.p>>]
           unshown == [pairing EXCEPT !.phase = "error"]
<1>1. l \in Poll /\ l.answer \in Answer /\ <<l.priv, l.answer.p>> \in KeyPair
  BY DEF PairingTypeOK, Poll, Answer, KeyPair
<1>2. numbered \in PairingState /\ unshown \in PairingState
  BY <1>1 DEF PairingTypeOK, PairingState, Phases
<1>3. [l EXCEPT !.handled = TRUE] \in Poll
  BY <1>1 DEF Poll
<1>4. failures' \in 0..MaxFailures
  <2>1. failures' = failures \/ (failures < MaxFailures /\ failures' = failures + 1)
    BY DEF onPubkeyShared, CallFails, CallSucceeds
  <2> QED
    BY <2>1, PairingAssumption DEF PairingTypeOK
<1>5. PICK now \in {numbered, unshown} :
        IF l.answer.completed THEN onCompletedReady(l, l.answer, now)
        ELSE pairing' = now /\ sleeps(l, [l EXCEPT !.handled = TRUE])
  BY DEF onPubkeyShared
<1> HIDE DEF numbered, unshown
<1>6. now \in PairingState
  BY <1>2
<1>7. polls' \subseteq Poll /\ aborted' \subseteq Sessions /\ pairing' \in PairingState
  <2>1. CASE l.answer.completed
    BY <2>1, <1>1, <1>5, <1>6, ReadyTyped
  <2>2. CASE ~l.answer.completed
    BY <2>2, <1>3, <1>5, <1>6, SleepsTyped
  <2> QED
    BY <2>1, <2>2
<1> QED
  BY <1>4, <1>7 DEF PairingTypeOK, onPubkeyShared, primVars, agreement

LEMMA ConsumeTyped ==
  ASSUME PairingTypeOK, NEW now \in PairingState, consume(now)
  PROVE  /\ pairing' \in PairingState /\ install' \in Install
         /\ install'.at = "consume" /\ strayed' \in BOOLEAN
BY DEF PairingTypeOK, consume, PairingState, Install, Phases

LEMMA PeekTyped ==
  ASSUME PairingTypeOK, NEW l \in polls, peekProvisioningPayload(l) PROVE PairingTypeOK'
<1>1. l \in Poll /\ l.answer \in Answer /\ <<l.priv, l.answer.p>> \in KeyPair
  BY DEF PairingTypeOK, Poll, Answer, KeyPair
<1>2. peeked(l) \in PairingState
  BY <1>1 DEF PairingTypeOK, PairingState, Phases, peeked
<1>3. polls' \subseteq Poll /\ aborted' \subseteq Sessions
  BY ExitsTyped DEF peekProvisioningPayload
<1>4. failures' \in 0..MaxFailures
  <2>1. failures' = failures \/ (failures < MaxFailures /\ failures' = failures + 1)
    BY DEF peekProvisioningPayload, CallFails, CallSucceeds
  <2> QED
    BY <2>1, PairingAssumption DEF PairingTypeOK
<1> DEFINE Typed == /\ pairing' \in PairingState /\ install' \in Install
                    /\ waiter' = IF install'.at = "wait" THEN {install'.session} ELSE {}
<1>5. ASSUME payloadArrives(l) PROVE Typed
  <2>1. CASE l.of \in waiter /\ pairing.payload # None
    <3>1. install.at = "wait" /\ waiter = {l.of} /\ waiter' = {}
      BY <2>1, <1>5 DEF PairingTypeOK, payloadArrives
    <3>2. consume(peeked(l))
      BY <2>1, <1>5 DEF payloadArrives
    <3> QED
      BY <3>1, <3>2, <1>2, ConsumeTyped
  <2>2. CASE l.of \in waiter /\ pairing.payload = None
    BY <2>2, <1>2, <1>5, NoInstallTyped DEF PairingTypeOK, payloadArrives
  <2>3. CASE l.of \notin waiter
    BY <2>3, <1>2, <1>5 DEF PairingTypeOK, payloadArrives
  <2> QED
    BY <2>1, <2>2, <2>3
<1>6. ASSUME setNewDeviceError, rejectPayloadWaiter(l.of) PROVE Typed
  <2>1. pairing' \in PairingState
    BY <1>6 DEF setNewDeviceError, PairingTypeOK, PairingState, Phases
  <2> QED
    BY <2>1, <1>6, RejectTyped DEF PairingTypeOK
<1>7. payloadArrives(l) \/ (setNewDeviceError /\ rejectPayloadWaiter(l.of) /\ UNCHANGED strayed)
  BY DEF peekProvisioningPayload
<1>8. Typed
  BY <1>5, <1>6, <1>7
<1>9. strayed' \in BOOLEAN
  BY <1>7 DEF payloadArrives, consume, PairingTypeOK
<1> QED
  BY <1>3, <1>4, <1>8, <1>9 DEF PairingTypeOK, peekProvisioningPayload,
         primVars

LEMMA SafetyMatchTyped ==
  ASSUME PairingTypeOK, handleSafetyMatch PROVE PairingTypeOK'
<1>1. pairing.sn \in KeyPair
  BY DEF PairingTypeOK, PairingState
<1>2. install' \in Install /\ install'.at = "auth"
  BY <1>1, NoInstallTyped DEF handleSafetyMatch, Install
<1>3. agreed' \in [new : SUBSET KeyPair, primary : SUBSET KeyPair]
  BY <1>1 DEF PairingTypeOK, handleSafetyMatch
<1>4. waiter' = {}
  BY DEF PairingTypeOK, handleSafetyMatch
<1> QED
  BY <1>2, <1>3, <1>4 DEF PairingTypeOK, handleSafetyMatch, primVars, counters

LEMMA ConfirmNewTyped ==
  ASSUME PairingTypeOK, confirmNewDeviceSafetyAndInstall PROVE PairingTypeOK'
<1> DEFINE Typed == /\ pairing' \in PairingState /\ install' \in Install
                    /\ waiter' = IF install'.at = "wait" THEN {install'.session} ELSE {}
<1>1. install.at = "auth" /\ waiter = {}
  BY DEF confirmNewDeviceSafetyAndInstall, Unlocking, PairingTypeOK
<1>2. [pairing EXCEPT !.confirmed = TRUE] \in PairingState
  BY DEF PairingTypeOK, PairingState
<1>3. CASE pairing.phase # "safetyCheck" \/ pairing.session = 0 \/ pairing.priv = 0
  <2>1. Typed /\ UNCHANGED strayed
    BY <1>1, <1>3, NoInstallTyped DEF PairingTypeOK,
           confirmNewDeviceSafetyAndInstall
  <2> QED
    BY <2>1 DEF PairingTypeOK, confirmNewDeviceSafetyAndInstall, primVars,
           counters
<1>4. CASE /\ ~(pairing.phase # "safetyCheck" \/ pairing.session = 0 \/ pairing.priv = 0)
           /\ pairing.payload = None
  <2>1. install' \in Install
    BY <1>4 DEF PairingTypeOK, confirmNewDeviceSafetyAndInstall, Install,
           PairingState
  <2>2. install'.at = "wait" /\ waiter' = {install'.session}
    BY <1>1, <1>4 DEF PairingTypeOK, confirmNewDeviceSafetyAndInstall, Install
  <2>3. Typed /\ UNCHANGED strayed
    BY <1>2, <1>4, <2>1, <2>2 DEF confirmNewDeviceSafetyAndInstall
  <2> QED
    BY <2>3 DEF PairingTypeOK, confirmNewDeviceSafetyAndInstall, primVars,
           counters
<1>5. CASE /\ ~(pairing.phase # "safetyCheck" \/ pairing.session = 0 \/ pairing.priv = 0)
           /\ pairing.payload # None
  <2>1. consume([pairing EXCEPT !.confirmed = TRUE]) /\ UNCHANGED waiter
    BY <1>5 DEF confirmNewDeviceSafetyAndInstall
  <2>2. Typed /\ strayed' \in BOOLEAN
    BY <1>1, <1>2, <2>1, ConsumeTyped
  <2> QED
    BY <2>2 DEF PairingTypeOK, confirmNewDeviceSafetyAndInstall, primVars,
           counters
<1> QED
  BY <1>3, <1>4, <1>5

LEMMA ConsumePayloadTyped ==
  ASSUME PairingTypeOK, consumeProvisioningPayload PROVE PairingTypeOK'
<1>1. install.at = "consume" /\ install \in Install /\ waiter' = {} /\ identity' \in KeyPair
  BY DEF PairingTypeOK, consumeProvisioningPayload, Install
<1>2. pairing' \in PairingState
  BY DEF PairingTypeOK, consumeProvisioningPayload, setNewDevicePhase,
         setNewDeviceError, PairingState, Phases
<1>3. install' \in Install /\ install'.at = "no"
  BY NoInstallTyped DEF consumeProvisioningPayload
<1>4. failures' \in 0..MaxFailures
  BY PairingAssumption
     DEF PairingTypeOK, consumeProvisioningPayload, CallFails, CallSucceeds
<1> QED
  BY <1>1, <1>2, <1>3, <1>4
     DEF PairingTypeOK, consumeProvisioningPayload, primVars, agreement

LEMMA OpenLinkTyped == ASSUME PairingTypeOK, openLink PROVE PairingTypeOK'
<1>1. prim' \in PrimaryState
  BY NoPairing DEF PairingTypeOK, openLink, PrimaryState
<1> QED
  BY <1>1 DEF PairingTypeOK, openLink, newVars, agreement, counters

LEMMA HandleScanTyped == ASSUME PairingTypeOK, handleScan PROVE PairingTypeOK'
<1>1. pairing.session \in Sessions /\ pairing.session \in 0..MaxSessions
  BY PairingAssumption DEF PairingTypeOK, PairingState, handleScan, Sessions
<1>2. prim' \in PrimaryState
  BY <1>1 DEF PairingTypeOK, handleScan, PrimaryState
<1>3. scanned' \in 0..MaxScans /\ scanned + 1 \in Scans
  BY PairingAssumption DEF PairingTypeOK, handleScan, Scans
<1>4. [p |-> scanned + 1, session |-> pairing.session, at |-> "keys"] \in Scan
  BY <1>1, <1>3 DEF Scan
<1> QED
  BY <1>2, <1>3, <1>4 DEF PairingTypeOK, handleScan, newVars, agreement

LEMMA EphemeralTyped ==
  ASSUME PairingTypeOK, NEW c \in scans, setPrimaryEphemeral(c) PROVE PairingTypeOK'
<1>1. c \in Scan /\ c.p \in 0..MaxScans
  BY PairingAssumption DEF PairingTypeOK, Scan, Scans
<1>2. prim' \in PrimaryState
  BY <1>1 DEF PairingTypeOK, setPrimaryEphemeral, PrimaryState
<1>3. scans' \subseteq Scan
  BY <1>1 DEF PairingTypeOK, setPrimaryEphemeral, Scan
<1> QED
  BY <1>2, <1>3 DEF PairingTypeOK, setPrimaryEphemeral, newVars, agreement,
         counters

LEMMA SharePubkeyTyped ==
  ASSUME PairingTypeOK, NEW c \in scans, linkSharePubkey(c) PROVE PairingTypeOK'
<1>1. /\ c.p \in 0..MaxScans /\ c.session \in Sessions
      /\ <<c.session, c.p>> \in KeyPair
  BY PairingAssumption DEF PairingTypeOK, Scan, Scans, Sessions, KeyPair
<1>2. prim' \in PrimaryState
  BY <1>1 DEF PairingTypeOK, linkSharePubkey, PrimaryState, setPrimaryError
<1>3. [server EXCEPT ![c.session].at = "shared", ![c.session].p = c.p]
        \in [Sessions -> LinkSession]
  BY <1>1 DEF PairingTypeOK, LinkSession
<1>4. server' \in [Sessions -> LinkSession]
  BY <1>3 DEF PairingTypeOK, linkSharePubkey
<1>5. failures' \in 0..MaxFailures
  BY PairingAssumption DEF PairingTypeOK, linkSharePubkey, CallFails,
         CallSucceeds
<1> QED
  BY <1>2, <1>4, <1>5 DEF PairingTypeOK, linkSharePubkey, newVars, agreement

LEMMA ConfirmPrimaryTyped ==
  ASSUME PairingTypeOK, confirmPrimarySafetyAndComplete PROVE PairingTypeOK'
<1>1. /\ prim.session \in Sessions /\ prim.sn \in KeyPair
      /\ <<prim.e, prim.p>> \in KeyPair
  BY DEF PairingTypeOK, confirmPrimarySafetyAndComplete, PrimaryState,
         Sessions, KeyPair
<1>2. [session |-> prim.session, payload |-> <<prim.e, prim.p>>] \in Complete
  BY <1>1 DEF Complete
<1>3. completes' \subseteq Complete
  BY <1>2 DEF PairingTypeOK, confirmPrimarySafetyAndComplete
<1>4. prim' \in PrimaryState
  BY DEF PairingTypeOK, confirmPrimarySafetyAndComplete, PrimaryState
<1>5. agreed' \in [new : SUBSET KeyPair, primary : SUBSET KeyPair]
  BY <1>1 DEF PairingTypeOK, confirmPrimarySafetyAndComplete
<1>6. strayed' \in BOOLEAN
  BY DEF confirmPrimarySafetyAndComplete
<1> QED
  BY <1>3, <1>4, <1>5, <1>6
     DEF PairingTypeOK, confirmPrimarySafetyAndComplete, newVars, counters

LEMMA LinkCompleteTyped ==
  ASSUME PairingTypeOK, NEW c \in completes, linkComplete(c) PROVE PairingTypeOK'
<1>1. c.session \in Sessions /\ c.payload \in KeyPair
  BY DEF PairingTypeOK, Complete
<1>2. prim' \in PrimaryState
  BY DEF PairingTypeOK, linkComplete, PrimaryState, setPrimaryError
<1>3. [server EXCEPT ![c.session].at = "completed", ![c.session].payload = c.payload]
        \in [Sessions -> LinkSession]
  BY <1>1 DEF PairingTypeOK, LinkSession
<1>4. server' \in [Sessions -> LinkSession]
  BY <1>3 DEF PairingTypeOK, linkComplete
<1>5. failures' \in 0..MaxFailures
  BY PairingAssumption DEF PairingTypeOK, linkComplete, CallFails, CallSucceeds
<1> QED
  BY <1>2, <1>4, <1>5 DEF PairingTypeOK, linkComplete, newVars, agreement

LEMMA CloseLinkTyped == ASSUME PairingTypeOK, closeLink PROVE PairingTypeOK'
<1>1. leaves' \in 0..MaxLeaves
  BY PairingAssumption DEF PairingTypeOK, closeLink, Leaves
<1> QED
  BY <1>1, NoPairing DEF PairingTypeOK, closeLink, newVars, agreement

LEMMA RetryLinkTyped == ASSUME PairingTypeOK, retryLink PROVE PairingTypeOK'
<1>1. prim' \in PrimaryState
  BY NoPairing DEF retryLink, PrimaryState
<1> QED
  BY <1>1 DEF PairingTypeOK, retryLink, newVars, agreement, counters

LEMMA ExpireTyped ==
  ASSUME PairingTypeOK, NEW s \in Sessions, expire(s) PROVE PairingTypeOK'
<1>1. server' \in [Sessions -> LinkSession]
  BY DEF PairingTypeOK, expire, LinkSession
<1> QED
  BY <1>1 DEF PairingTypeOK, expire, newVars, primVars, agreement, counters

(* Every step keeps the types.                                             *)
LEMMA PairingTyped ==
  ASSUME PairingTypeOK, [PairingNext]_pairingVars PROVE PairingTypeOK'
<1>1. CASE UNCHANGED pairingVars
  BY <1>1 DEF PairingTypeOK, pairingVars, newVars, primVars, agreement,
         counters
<1>2. CASE openClaim \/ handleRetry \/ closeClaim \/ handleCancel
  BY <1>2, OpenClaimTyped, HandleRetryTyped, CloseClaimTyped, HandleCancelTyped
<1>10. CASE \E v \in revokes : revokeMyDevice(v)
  BY <1>10, RevokeTyped
<1>3. CASE \E r \in starts : linkInit(r)
  BY <1>3, LinkInitTyped
<1>4. CASE Polling
  BY <1>4, LinkSessionResultTyped, OnPubkeySharedTyped, PeekTyped DEF Polling
<1>5. CASE handleSafetyMatch \/ confirmNewDeviceSafetyAndInstall \/ consumeProvisioningPayload
  BY <1>5, SafetyMatchTyped, ConfirmNewTyped, ConsumePayloadTyped
<1>6. CASE openLink \/ handleScan \/ closeLink \/ retryLink \/ confirmPrimarySafetyAndComplete
  BY <1>6, OpenLinkTyped, HandleScanTyped, CloseLinkTyped, RetryLinkTyped,
         ConfirmPrimaryTyped
<1>7. CASE \E c \in scans : setPrimaryEphemeral(c) \/ linkSharePubkey(c)
  BY <1>7, EphemeralTyped, SharePubkeyTyped
<1>8. CASE \E c \in completes : linkComplete(c)
  BY <1>8, LinkCompleteTyped
<1>9. CASE \E s \in Sessions : expire(s)
  BY <1>9, ExpireTyped
<1> QED
  BY <1>1, <1>2, <1>3, <1>4, <1>5, <1>6, <1>7, <1>8, <1>9, <1>10
     DEF PairingNext

-----------------------------------------------------------------------------
(* The server: a session that is opened keeps the key it was given.        *)
Advances(s) ==
    /\ server[s].at = "none" <=> server'[s].at = "none"
    /\ server[s].at \notin {"none", "waiting"} =>
         server'[s].at \notin {"none", "waiting"} /\ server'[s].p = server[s].p

LEMMA SessionsAdvance ==
  ASSUME PairingTypeOK, PairingNext, ~ \E r \in starts : linkInit(r), NEW s \in Sessions
  PROVE  Advances(s)
<1>1. server \in [Sessions -> LinkSession]
  BY DEF PairingTypeOK
<1>2. CASE UNCHANGED server
  BY <1>2 DEF Advances
<1>3. CASE \E l \in polls : linkSessionResult(l)
  <2>1. PICK l \in polls : linkSessionResult(l)
    BY <1>3
  <2>2. l.session \in Sessions
    BY DEF PairingTypeOK, Poll
  <2>3. server' \in {server, [server EXCEPT ![l.session].at =
                                IF @ = "completed" THEN "consumed" ELSE @]}
    BY <2>1 DEF linkSessionResult
  <2> QED
    BY <1>1, <2>2, <2>3 DEF Advances, LinkSession
<1>4. CASE \E c \in scans : linkSharePubkey(c)
  <2>1. PICK c \in scans : linkSharePubkey(c)
    BY <1>4
  <2>2. c.session \in Sessions
    BY DEF PairingTypeOK, Scan
  <2> QED
    BY <1>1, <2>1, <2>2 DEF Advances, LinkSession, linkSharePubkey
<1>5. CASE \E c \in completes : linkComplete(c)
  <2>1. PICK c \in completes : linkComplete(c)
    BY <1>5
  <2>2. c.session \in Sessions
    BY DEF PairingTypeOK, Complete
  <2> QED
    BY <1>1, <2>1, <2>2 DEF Advances, LinkSession, linkComplete
<1>6. CASE \E t \in Sessions : expire(t)
  BY <1>1, <1>6 DEF Advances, LinkSession, expire
<1>7. \/ UNCHANGED server
      \/ \E l \in polls : linkSessionResult(l)
      \/ \E c \in scans : linkSharePubkey(c)
      \/ \E c \in completes : linkComplete(c)
      \/ \E t \in Sessions : expire(t)
  BY DEF PairingNext, Polling, openClaim, handleRetry, closeClaim,
         handleCancel, revokeMyDevice,
         onPubkeyShared,
         peekProvisioningPayload, handleSafetyMatch, confirmNewDeviceSafetyAndInstall,
         consumeProvisioningPayload, openLink, handleScan, closeLink, retryLink,
         confirmPrimarySafetyAndComplete, setPrimaryEphemeral
<1> QED
  BY <1>2, <1>3, <1>4, <1>5, <1>6, <1>7

LEMMA KeysLast ==
  ASSUME PairingTypeOK, StartsAreNew, PairingNext, NEW s, NEW p, KeyIs(s, p)
  PROVE  KeyIs(s, p)'
<1>1. server \in [Sessions -> LinkSession] /\ s \in Sessions
  BY DEF PairingTypeOK, KeyIs
<1>2. CASE \E r \in starts : linkInit(r)
  <2>1. PICK r \in starts : linkInit(r)
    BY <1>2
  <2>2. r.session \in Sessions /\ server[r.session].at = "none"
    BY DEF PairingTypeOK, Start, StartsAreNew
  <2>3. server' = server \/ server' = [server EXCEPT ![r.session].at = "waiting"]
    BY <2>1 DEF linkInit
  <2> QED
    BY <1>1, <2>2, <2>3 DEF KeyIs
<1>3. CASE ~ \E r \in starts : linkInit(r)
  BY <1>1, <1>3, SessionsAdvance DEF KeyIs, Advances
<1> QED
  BY <1>2, <1>3

(* What the users have confirmed stays confirmed.                          *)
LEMMA HistoryGrows ==
  ASSUME PairingTypeOK, PairingNext
  PROVE  /\ agreed.new \subseteq agreed'.new /\ agreed.primary \subseteq agreed'.primary
         /\ strayed => strayed'
<1>1. agreed \in [new : SUBSET KeyPair, primary : SUBSET KeyPair]
  BY DEF PairingTypeOK
<1>2. CASE UNCHANGED agreement
  BY <1>2 DEF agreement
<1>3. CASE handleSafetyMatch
  BY <1>1, <1>3 DEF handleSafetyMatch
<1>4. CASE confirmPrimarySafetyAndComplete
  BY <1>1, <1>4 DEF confirmPrimarySafetyAndComplete
<1>5. CASE confirmNewDeviceSafetyAndInstall
  BY <1>5 DEF confirmNewDeviceSafetyAndInstall, consume
<1>6. CASE \E l \in polls : peekProvisioningPayload(l)
  <2>1. agreed' = agreed
    BY <1>6 DEF peekProvisioningPayload
  <2>2. PICK l \in polls : payloadArrives(l) \/ UNCHANGED strayed
    BY <1>6 DEF peekProvisioningPayload
  <2>3. strayed => strayed'
    BY <2>2 DEF payloadArrives, consume
  <2> QED
    BY <2>1, <2>3
<1> QED
  BY <1>2, <1>3, <1>4, <1>5, <1>6
     DEF PairingNext, Polling, openClaim, handleRetry, closeClaim,
         handleCancel, revokeMyDevice, linkInit,
         linkSessionResult, onPubkeyShared, consumeProvisioningPayload, openLink,
         handleScan, closeLink, retryLink, setPrimaryEphemeral, linkSharePubkey,
         linkComplete, expire

LEMMA AgreementsLast ==
  ASSUME PairingTypeOK, StartsAreNew, PairingNext, NEW x, IsAgreed(x)
  PROVE  IsAgreed(x)'
BY KeysLast, HistoryGrows DEF IsAgreed

LEMMA StartsStayNew ==
  ASSUME PairingTypeOK, StartsAreNew, PairingNext PROVE StartsAreNew'
<1>1. /\ server \in [Sessions -> LinkSession] /\ starts \subseteq Start
      /\ sessions \in 0..MaxSessions
  BY DEF PairingTypeOK
<1>2. CASE \E r \in starts : linkInit(r)
  <2>1. PICK r \in starts : linkInit(r)
    BY <1>2
  <2>2. r.session \in Sessions /\ r.session <= sessions
    BY DEF PairingTypeOK, Start, StartsAreNew
  <2>3. server' = server \/ server' = [server EXCEPT ![r.session].at = "waiting"]
    BY <2>1 DEF linkInit
  <2>4. starts' = starts \ {r} /\ sessions' = sessions
    BY <2>1 DEF linkInit
  <2>5. \A t \in Sessions : t # r.session => server'[t] = server[t]
    BY <1>1, <2>2, <2>3
  <2>6. \A t \in starts' : t.session \in Sessions /\ t.session # r.session
    BY <1>1, <2>4 DEF StartsAreNew, Start
  <2>7. \A t \in Sessions : t > sessions => t # r.session
    BY <1>1, <2>2 DEF Sessions
  <2> QED
    BY <1>1, <2>4, <2>5, <2>6, <2>7 DEF StartsAreNew
<1>3. CASE ~ \E r \in starts : linkInit(r)
  <2>1. \A s \in Sessions : server[s].at = "none" => server'[s].at = "none"
    BY <1>3, SessionsAdvance DEF Advances
  <2>2. CASE \E stops \in BOOLEAN : startNewDeviceLink(stops)
    <3>1. PICK stops \in BOOLEAN : startNewDeviceLink(stops)
      BY <2>2
    <3> DEFINE new == [session |-> sessions + 1, stops |-> stops, polls |-> TRUE]
    <3>2. /\ sessions' = sessions + 1 /\ sessions + 1 \in Sessions
          /\ starts' = starts \cup {new} /\ new.session = sessions + 1
      BY <1>1, <3>1, PairingAssumption DEF startNewDeviceLink, Sessions
    <3>3. server[sessions + 1].at = "none"
      BY <1>1, <3>2 DEF StartsAreNew
    <3>4. \A r \in starts : /\ r.session \in Nat /\ r.session <= sessions
                            /\ r.session \in Sessions /\ server[r.session].at = "none"
      BY <1>1 DEF StartsAreNew, Start, Sessions
    <3> HIDE DEF new
    <3>5. \A r \in starts' : r.session <= sessions' /\ server'[r.session].at = "none"
      BY <1>1, <2>1, <3>2, <3>3, <3>4
    <3>6. \A r, t \in starts' : r.session = t.session => r = t
      BY <1>1, <3>2, <3>4 DEF StartsAreNew
    <3>7. \A s \in Sessions : s > sessions' => server'[s].at = "none"
      BY <1>1, <2>1, <3>2 DEF StartsAreNew, Sessions
    <3> QED
      BY <3>5, <3>6, <3>7 DEF StartsAreNew
  <2>3. CASE screenCloses /\ sessions' = sessions
    <3>1. /\ starts' = {[r EXCEPT !.polls = @ /\ ~r.stops] : r \in starts}
          /\ sessions' = sessions
      BY <2>3 DEF screenCloses
    <3>2. \A t \in starts' : \E r \in starts : t.session = r.session
                              /\ t = [r EXCEPT !.polls = r.polls /\ ~r.stops]
      BY <1>1, <3>1 DEF Start
    <3>3. \A r \in starts : r.session \in Sessions
      BY <1>1 DEF Start
    <3> QED
      BY <2>1, <3>1, <3>2, <3>3 DEF StartsAreNew
  <2>4. CASE UNCHANGED <<starts, sessions>>
    <3>1. \A r \in starts : r.session \in Sessions
      BY <1>1 DEF Start
    <3> QED
      BY <2>1, <2>4, <3>1 DEF StartsAreNew
  <2> QED
    BY <1>3, <2>2, <2>3, <2>4
       DEF PairingNext, Polling, openClaim, handleRetry, closeClaim, handleCancel,
           revokeMyDevice, linkSessionResult, onPubkeyShared, peekProvisioningPayload,
           handleSafetyMatch, confirmNewDeviceSafetyAndInstall,
           consumeProvisioningPayload, openLink, handleScan, closeLink, retryLink,
           confirmPrimarySafetyAndComplete, setPrimaryEphemeral, linkSharePubkey,
           linkComplete, expire, newVars, counters
<1> QED
  BY <1>2, <1>3

(* A payload is only passed on, but for the one the primary makes.         *)
LEMMA ConsumedPayload ==
  ASSUME PairingTypeOK, NEW now, consume(now)
  PROVE  install'.payload = now.payload /\ install'.sn = install.sn
BY DEF consume, PairingTypeOK, Install

LEMMA PollPayloads ==
  ASSUME PairingTypeOK, NEW l \in polls,
         linkSessionResult(l) \/ onPubkeyShared(l) \/ peekProvisioningPayload(l)
  PROVE  Payloads' \subseteq Payloads
<1> DEFINE from == {None, pairing.payload, server[l.session].payload, l.answer.payload}
           Kept == /\ \A m \in polls' : m \in polls \/ m.answer.payload \in from
                   /\ pairing'.payload \in from
                   /\ install'.payload \in {None, pairing.payload, install.payload}
<1>1. /\ l \in Poll /\ l.session \in Sessions /\ server \in [Sessions -> LinkSession]
      /\ pairing \in PairingState /\ install \in Install
  BY DEF PairingTypeOK, Poll
<1>2. completes' = completes /\ \A s \in Sessions : server'[s].payload = server[s].payload
  BY <1>1 DEF linkSessionResult, onPubkeyShared, peekProvisioningPayload,
         primVars, LinkSession
<1>3. ASSUME NEW m \in Poll, sleeps(l, m), m.answer.payload \in from
      PROVE  \A o \in polls' : o \in polls \/ o.answer.payload \in from
  <2> DEFINE asks == [m EXCEPT !.at = "ask", !.answer = noAnswer]
  <2>1. asks.answer.payload = None
    BY DEF Poll, noAnswer
  <2>2. polls' = polls \ {l} \/ polls' = (polls \ {l}) \cup {asks}
    BY <1>3 DEF sleeps, exits, pollGoesOn
  <2> HIDE DEF asks
  <2> QED
    BY <2>1, <2>2
<1>4. ASSUME NEW a \in Answer, NEW now \in PairingState, onCompletedReady(l, a, now),
             a.payload \in from, now.payload = pairing.payload
      PROVE  /\ \A m \in polls' : m \in polls \/ m.answer.payload \in from
             /\ pairing'.payload \in from
  <2> DEFINE peeks == [l EXCEPT !.at = "peek", !.handled = TRUE, !.answer = a,
                         !.priv = now.priv, !.of = now.session, !.share = now.share,
                         !.sn = now.sn]
             found == [now EXCEPT !.p = a.p, !.payload = a.payload]
  <2>1. peeks.answer = a /\ found.payload = a.payload
    BY <1>1 DEF Poll, PairingState
  <2>2. \/ pairing' = found /\ polls' = (polls \ {l}) \cup {peeks}
        \/ pairing' = now /\ polls' = polls \ {l}
    BY <1>4 DEF onCompletedReady, exits, pollGoesOn
  <2> HIDE DEF peeks, found
  <2> QED
    BY <2>1, <2>2, <1>4
<1>5. ASSUME NEW s, rejectPayloadWaiter(s)
      PROVE  install'.payload \in {None, pairing.payload, install.payload}
  BY <1>5 DEF rejectPayloadWaiter, NoInstall
<1>6. ASSUME setNewDeviceError PROVE pairing'.payload \in from
  BY <1>1, <1>6 DEF setNewDeviceError, PairingState
<1>7. ASSUME exits(l) PROVE \A m \in polls' : m \in polls
  BY <1>7 DEF exits
<1>8. ASSUME linkSessionResult(l) PROVE Kept
  <2> DEFINE s == server[l.session]
             a == [completed |-> s.at = "completed", p |-> s.p, payload |-> s.payload]
  <2>1. a \in Answer /\ a.payload = s.payload
    BY <1>1 DEF Answer, LinkSession
  <2> HIDE DEF a
  <2>2. \/ sleeps(l, l) /\ UNCHANGED <<pairing, install>>
        \/ sessionOver(l)
        \/ /\ pairing' = [pairing EXCEPT !.p = a.p, !.share = TRUE, !.phase = "safetyCheck"]
           /\ pollGoesOn(l, [l EXCEPT !.at = "number", !.answer = a, !.priv = pairing.priv])
           /\ UNCHANGED install
        \/ exits(l) /\ UNCHANGED <<pairing, install>>
        \/ sleeps(l, [l EXCEPT !.handled = TRUE]) /\ UNCHANGED <<pairing, install>>
        \/ onCompletedReady(l, a, pairing) /\ UNCHANGED install
    BY <1>8 DEF linkSessionResult, a
  <2>3. CASE sleeps(l, l) /\ UNCHANGED <<pairing, install>>
    BY <2>3, <1>1, <1>3
  <2>4. CASE sessionOver(l)
    <3>1. install'.payload \in {None, pairing.payload, install.payload}
      BY <2>4, <1>5 DEF sessionOver
    <3> QED
      BY <2>4, <3>1, <1>6, <1>7 DEF sessionOver
  <2>5. CASE /\ pairing' = [pairing EXCEPT !.p = a.p, !.share = TRUE, !.phase = "safetyCheck"]
             /\ pollGoesOn(l, [l EXCEPT !.at = "number", !.answer = a, !.priv = pairing.priv])
             /\ UNCHANGED install
    BY <2>5, <2>1, <1>1 DEF pollGoesOn, PairingState, Poll
  <2>6. CASE exits(l) /\ UNCHANGED <<pairing, install>>
    BY <2>6, <1>7
  <2>7. CASE sleeps(l, [l EXCEPT !.handled = TRUE]) /\ UNCHANGED <<pairing, install>>
    <3>1. [l EXCEPT !.handled = TRUE] \in Poll
          /\ [l EXCEPT !.handled = TRUE].answer = l.answer
      BY <1>1 DEF Poll
    <3> QED
      BY <2>7, <3>1, <1>3
  <2>8. CASE onCompletedReady(l, a, pairing) /\ UNCHANGED install
    BY <2>8, <2>1, <1>1, <1>4
  <2> QED
    BY <2>2, <2>3, <2>4, <2>5, <2>6, <2>7, <2>8
<1>9. ASSUME onPubkeyShared(l) PROVE Kept
  <2> DEFINE numbered == IF pairing.phase = "null" THEN pairing
                         ELSE [pairing EXCEPT !.sn = <<l.priv, l.answer.p>>]
             unshown == [pairing EXCEPT !.phase = "error"]
  <2>1. /\ numbered \in PairingState /\ numbered.payload = pairing.payload
        /\ unshown \in PairingState /\ unshown.payload = pairing.payload
    BY <1>1 DEF PairingState, Phases, Poll, Answer, KeyPair
  <2>2. PICK now \in {numbered, unshown} :
          IF l.answer.completed THEN onCompletedReady(l, l.answer, now)
          ELSE pairing' = now /\ sleeps(l, [l EXCEPT !.handled = TRUE])
    BY <1>9 DEF onPubkeyShared
  <2> HIDE DEF numbered, unshown
  <2>3. now \in PairingState /\ now.payload = pairing.payload /\ UNCHANGED install
    BY <2>1, <1>9 DEF onPubkeyShared
  <2>4. CASE l.answer.completed
    BY <2>2, <2>3, <2>4, <1>1, <1>4 DEF Poll
  <2>5. CASE ~l.answer.completed
    <3>1. [l EXCEPT !.handled = TRUE] \in Poll
          /\ [l EXCEPT !.handled = TRUE].answer = l.answer
      BY <1>1 DEF Poll
    <3> QED
      BY <2>2, <2>3, <2>5, <3>1, <1>3
  <2> QED
    BY <2>4, <2>5
<1>10. ASSUME peekProvisioningPayload(l) PROVE Kept
  <2>1. peeked(l).payload = pairing.payload
    BY <1>1 DEF peeked, PairingState
  <2>2. CASE payloadArrives(l)
    <3>1. pairing'.payload = pairing.payload
      <4>1. \/ pairing' = [peeked(l) EXCEPT !.phase = "installing"]
            \/ pairing' = peeked(l)
        BY <2>2 DEF payloadArrives, consume
      <4>2. [peeked(l) EXCEPT !.phase = "installing"].payload = peeked(l).payload
        BY <1>1 DEF peeked, PairingState
      <4> QED
        BY <4>1, <4>2, <2>1
    <3>2. install'.payload \in {None, pairing.payload, install.payload}
      BY <2>1, <2>2, ConsumedPayload DEF payloadArrives, NoInstall
    <3> QED
      BY <3>1, <3>2, <1>7, <1>10 DEF peekProvisioningPayload
  <2>3. CASE setNewDeviceError /\ rejectPayloadWaiter(l.of)
    <3>1. install'.payload \in {None, pairing.payload, install.payload}
      BY <2>3, <1>5
    <3> QED
      BY <2>3, <3>1, <1>6, <1>7, <1>10 DEF peekProvisioningPayload
  <2> QED
    BY <2>2, <2>3, <1>10 DEF peekProvisioningPayload
<1>11. Kept
  BY <1>8, <1>9, <1>10
<1> QED
  BY <1>1, <1>2, <1>11 DEF Payloads

LEMMA PayloadsAreKept ==
  ASSUME PairingTypeOK, PairingNext
  PROVE  \/ Payloads' \subseteq Payloads
         \/ /\ confirmPrimarySafetyAndComplete
            /\ Payloads' \subseteq Payloads \cup {<<prim.e, prim.p>>}
<1>1. /\ server \in [Sessions -> LinkSession] /\ pairing \in PairingState
      /\ install \in Install
  BY DEF PairingTypeOK
<1>2. CASE openClaim \/ handleRetry
  BY <1>1, <1>2 DEF Payloads, openClaim, handleRetry, startNewDeviceLink,
         emptyNewDevice,
                    primVars
<1>3. CASE closeClaim \/ handleCancel \/ \E v \in revokes : revokeMyDevice(v)
  <2>1. UNCHANGED <<server, completes, polls>>
    BY <1>3 DEF closeClaim, handleCancel, revokeMyDevice, primVars
  <2>2. pairing'.payload \in {None, pairing.payload}
    BY <1>3 DEF closeClaim, handleCancel, revokeMyDevice, cancelNewDeviceLink,
           emptyNewDevice
  <2>3. install'.payload \in {None, install.payload}
    BY <1>3 DEF closeClaim, handleCancel, revokeMyDevice, cancelNewDeviceLink,
           rejectPayloadWaiter, NoInstall
  <2> QED
    BY <2>1, <2>2, <2>3 DEF Payloads
<1>4. CASE \E r \in starts : linkInit(r)
  <2>1. PICK r \in starts : linkInit(r)
    BY <1>4
  <2>2. r.session \in Sessions
    BY DEF PairingTypeOK, Start
  <2>3. \A s \in Sessions : server'[s].payload = server[s].payload
    BY <1>1, <2>1, <2>2 DEF linkInit, LinkSession
  <2>4. \A l \in polls' : l \in polls \/ l.answer.payload = None
    BY <2>1 DEF linkInit, newPoll, noAnswer
  <2>5. pairing'.payload = pairing.payload /\ UNCHANGED <<completes, install>>
    BY <1>1, <2>1 DEF linkInit, setNewDeviceError, PairingState, primVars
  <2> QED
    BY <2>3, <2>4, <2>5 DEF Payloads
<1>5. CASE Polling
  BY <1>5, PollPayloads DEF Polling
<1>6. CASE handleSafetyMatch \/ confirmNewDeviceSafetyAndInstall \/ consumeProvisioningPayload
  <2>1. UNCHANGED <<server, completes, polls>>
    BY <1>6 DEF handleSafetyMatch, confirmNewDeviceSafetyAndInstall,
                consumeProvisioningPayload, primVars
  <2>2. pairing'.payload = pairing.payload
    BY <1>1, <1>6
       DEF handleSafetyMatch, confirmNewDeviceSafetyAndInstall, consume, PairingState,
           consumeProvisioningPayload, setNewDevicePhase, setNewDeviceError
  <2>3. install'.payload \in {None, install.payload, pairing.payload}
    <3>1. CASE handleSafetyMatch \/ consumeProvisioningPayload
      <4>1. NoInstall.payload = None
            /\ \A x : [NoInstall EXCEPT !.at = "auth", !.sn = x].payload = None
        BY DEF NoInstall
      <4>2. \/ install' = NoInstall
            \/ install' = [NoInstall EXCEPT !.at = "auth", !.sn = pairing.sn]
        BY <3>1 DEF handleSafetyMatch, consumeProvisioningPayload
      <4> QED
        BY <4>1, <4>2
    <3>2. CASE confirmNewDeviceSafetyAndInstall
      <4>1. [pairing EXCEPT !.confirmed = TRUE].payload = pairing.payload
        BY <1>1 DEF PairingState
      <4>2. \/ install' = NoInstall
            \/ install' = [install EXCEPT !.at = "wait", !.session = pairing.session]
            \/ consume([pairing EXCEPT !.confirmed = TRUE])
        BY <3>2 DEF confirmNewDeviceSafetyAndInstall
      <4>3. /\ NoInstall.payload = None
            /\ [install EXCEPT !.at = "wait", !.session = pairing.session].payload
                 = install.payload
        BY <1>1 DEF NoInstall, Install
      <4>4. consume([pairing EXCEPT !.confirmed = TRUE]) => install'.payload = pairing.payload
        BY <4>1, ConsumedPayload
      <4> QED
        BY <4>2, <4>3, <4>4
    <3> QED
      BY <3>1, <3>2, <1>6
  <2> QED
    BY <2>1, <2>2, <2>3 DEF Payloads
<1>7. CASE openLink \/ handleScan \/ closeLink \/ retryLink
           \/ \E c \in scans : setPrimaryEphemeral(c)
  BY <1>7 DEF Payloads, openLink, handleScan, closeLink, retryLink,
         setPrimaryEphemeral,
              newVars
<1>8. CASE confirmPrimarySafetyAndComplete
  BY <1>8 DEF Payloads, confirmPrimarySafetyAndComplete, newVars
<1>9. CASE \E c \in scans : linkSharePubkey(c)
  <2>1. PICK c \in scans : linkSharePubkey(c)
    BY <1>9
  <2>2. c.session \in Sessions
    BY DEF PairingTypeOK, Scan
  <2>3. \A s \in Sessions : server'[s].payload = server[s].payload
    BY <1>1, <2>1, <2>2 DEF linkSharePubkey, LinkSession
  <2> QED
    BY <2>1, <2>3 DEF Payloads, linkSharePubkey, newVars
<1>10. CASE \E c \in completes : linkComplete(c)
  <2>1. PICK c \in completes : linkComplete(c)
    BY <1>10
  <2>2. c.session \in Sessions
    BY DEF PairingTypeOK, Complete
  <2>3. \A s \in Sessions : server'[s].payload \in {server[s].payload, c.payload}
    BY <1>1, <2>1, <2>2 DEF linkComplete, LinkSession
  <2> QED
    BY <2>1, <2>3 DEF Payloads, linkComplete, newVars
<1>11. CASE \E s \in Sessions : expire(s)
  BY <1>1, <1>11 DEF Payloads, expire, LinkSession, newVars, primVars
<1> QED
  BY <1>2, <1>3, <1>4, <1>5, <1>6, <1>7, <1>8, <1>9, <1>10, <1>11 DEF
         PairingNext

-----------------------------------------------------------------------------
(* The parts of the inductive invariant.                                   *)
LEMMA NumberStaysShared ==
  ASSUME PairingTypeOK, StartsAreNew, NumberIsShared, PairingNext
  PROVE  NumberIsShared'
<1>1. CASE prim'.sn \in {prim.sn, None}
  BY <1>1, KeysLast DEF NumberIsShared
<1>2. CASE \E c \in scans : linkSharePubkey(c)
  <2>1. PICK c \in scans : linkSharePubkey(c)
    BY <1>2
  <2>2. c.session \in Sessions /\ server \in [Sessions -> LinkSession]
        /\ prim \in PrimaryState
    BY DEF PairingTypeOK, Scan
  <2> DEFINE shared == [server EXCEPT ![c.session].at = "shared", ![c.session].p = c.p]
  <2>3. CASE prim' = [prim EXCEPT !.sn = <<c.session, c.p>>, !.phase = "safetyCheck"]
             /\ server' = shared
    <3>1. prim'.sn = <<c.session, c.p>>
      BY <2>2, <2>3 DEF PrimaryState
    <3>2. KeyIs(c.session, c.p)'
      BY <2>2, <2>3 DEF KeyIs, LinkSession
    <3> QED
      BY <3>1, <3>2 DEF NumberIsShared
  <2>4. CASE setPrimaryError
    BY <2>2, <2>4, <1>1 DEF setPrimaryError, PrimaryState
  <2> QED
    BY <2>1, <2>3, <2>4 DEF linkSharePubkey
<1>3. CASE ~ \E c \in scans : linkSharePubkey(c)
  <2>1. prim \in PrimaryState
    BY DEF PairingTypeOK
  <2>2. CASE UNCHANGED prim
    BY <2>2, <1>1
  <2>3. CASE openLink \/ handleScan \/ closeLink \/ retryLink
             \/ confirmPrimarySafetyAndComplete
    <3>1. prim'.sn \in {prim.sn, None}
      <4>1. /\ emptyPrimary.sn = None
            /\ [emptyPrimary EXCEPT !.phase = "scanning"].sn = None
            /\ [prim EXCEPT !.session = pairing.session, !.e = pairing.session].sn = prim.sn
            /\ [prim EXCEPT !.phase = "completing"].sn = prim.sn
        BY <2>1 DEF emptyPrimary, PrimaryState
      <4>2. \/ prim' \in {prim, emptyPrimary, [emptyPrimary EXCEPT !.phase = "scanning"]}
            \/ prim' = [prim EXCEPT !.session = pairing.session, !.e = pairing.session]
            \/ prim' = [prim EXCEPT !.phase = "completing"]
        BY <2>3 DEF openLink, handleScan, closeLink, retryLink,
                    confirmPrimarySafetyAndComplete
      <4> QED
        BY <4>1, <4>2
    <3> QED
      BY <3>1, <1>1
  <2>4. CASE \/ \E c \in scans : setPrimaryEphemeral(c)
             \/ \E c \in completes : linkComplete(c)
    <3>1. prim'.sn \in {prim.sn, None}
      BY <2>1, <2>4 DEF setPrimaryEphemeral, linkComplete, setPrimaryError,
             PrimaryState
    <3> QED
      BY <3>1, <1>1
  <2> QED
    BY <1>3, <2>2, <2>3, <2>4
       DEF PairingNext, Polling, openClaim, handleRetry, closeClaim,
         handleCancel, revokeMyDevice, linkInit, expire,
           linkSessionResult, onPubkeyShared, peekProvisioningPayload, primVars,
           handleSafetyMatch, confirmNewDeviceSafetyAndInstall,
           consumeProvisioningPayload
<1> QED
  BY <1>2, <1>3

(* The user of the primary has confirmed the number of the payload's keys: *)
(* it shows the number of the keys it has, or it has strayed.              *)
LEMMA PayloadsStayAgreed ==
  ASSUME PairingTypeOK, StartsAreNew, NumberIsShared, PayloadsAgreed, PairingNext
  PROVE  PayloadsAgreed'
<1> SUFFICES ASSUME ~strayed', NEW x \in Payloads' PROVE IsAgreed(x)'
  BY DEF PayloadsAgreed
<1>1. ~strayed
  BY HistoryGrows
<1>2. CASE x \in Payloads
  BY <1>1, <1>2, AgreementsLast DEF PayloadsAgreed
<1>3. CASE confirmPrimarySafetyAndComplete /\ x = <<prim.e, prim.p>>
  <2>1. prim.sn = x /\ x[1] = prim.e /\ x[2] = prim.p
    BY <1>3 DEF confirmPrimarySafetyAndComplete
  <2>2. x # None
    BY <1>3, <2>1 DEF confirmPrimarySafetyAndComplete, None
  <2>3. x \in agreed'.primary
    BY <1>3, <2>1 DEF confirmPrimarySafetyAndComplete, PairingTypeOK
  <2>4. KeyIs(x[1], x[2])
    BY <2>1, <2>2 DEF NumberIsShared
  <2> QED
    BY <2>3, <2>4, KeysLast DEF IsAgreed
<1> QED
  BY <1>2, <1>3, PayloadsAreKept

(* What is being installed was confirmed, and is of the pairing confirmed. *)
LEMMA InstallStaysConfirmed ==
  ASSUME PairingTypeOK, StartsAreNew, NumberIsShared, InstallIsConfirmed, PairingNext
  PROVE  InstallIsConfirmed'
<1>1. install \in Install /\ pairing \in PairingState
  BY DEF PairingTypeOK
<1>2. ASSUME install'.at = "no" PROVE InstallIsConfirmed'
  BY <1>2 DEF InstallIsConfirmed
<1>3. ASSUME install.at # "no", install'.sn = install.sn,
             install'.at = "consume" /\ ~strayed' => install'.priv = install.sn[1]
      PROVE  InstallIsConfirmed'
  <2>1. install'.sn \in agreed'.new /\ KeyIs(install.sn[1], install.sn[2])
    BY <1>3, HistoryGrows DEF InstallIsConfirmed
  <2>2. KeyIs(install.sn[1], install.sn[2])'
    <3> SUFFICES ASSUME NEW s, NEW p, s = install.sn[1], p = install.sn[2]
                 PROVE  KeyIs(s, p)'
      BY <1>3 DEF KeyIs
    <3> QED
      BY <2>1, KeysLast
  <2> QED
    BY <1>3, <2>1, <2>2 DEF InstallIsConfirmed, KeyIs
<1>4. ASSUME NEW now \in PairingState, consume(now), install.at # "no"
      PROVE  InstallIsConfirmed'
  <2>1. install'.sn = install.sn /\ install'.priv = now.priv
    BY <1>1, <1>4 DEF consume, Install
  <2>2. ~strayed' => now.priv = install.sn[1]
    BY <1>4 DEF consume
  <2> QED
    BY <2>1, <2>2, <1>3, <1>4
<1>5. CASE UNCHANGED install
  <2>1. CASE install.at = "no"
    BY <1>2, <1>5, <2>1
  <2>2. CASE install.at # "no"
    BY <1>3, <1>5, <2>2, HistoryGrows DEF InstallIsConfirmed
  <2> QED
    BY <2>1, <2>2
<1>6. CASE install' = NoInstall
  BY <1>2, <1>6, NoInstallTyped
<1>7. CASE handleSafetyMatch
  <2>1. install'.at = "auth" /\ install'.sn = prim.sn /\ prim.sn # None
    BY <1>7 DEF handleSafetyMatch, NoInstall
  <2>2. prim.sn \in agreed'.new
    BY <1>7 DEF handleSafetyMatch, PairingTypeOK
  <2>3. KeyIs(prim.sn[1], prim.sn[2])
    BY <2>1 DEF NumberIsShared
  <2>4. UNCHANGED server
    BY <1>7 DEF handleSafetyMatch
  <2> QED
    BY <2>1, <2>2, <2>3, <2>4 DEF InstallIsConfirmed, KeyIs
<1>8. CASE confirmNewDeviceSafetyAndInstall
  <2>1. [pairing EXCEPT !.confirmed = TRUE] \in PairingState
    BY <1>1 DEF PairingState
  <2>2. install.at # "no"
    BY <1>8 DEF confirmNewDeviceSafetyAndInstall, Unlocking
  <2>3. CASE install' = [install EXCEPT !.at = "wait", !.session = pairing.session]
    BY <1>1, <1>3, <2>2, <2>3 DEF Install
  <2> QED
    BY <1>4, <1>6, <1>8, <2>1, <2>2, <2>3 DEF confirmNewDeviceSafetyAndInstall
<1>9. CASE \E l \in polls : peekProvisioningPayload(l)
  <2>1. PICK l \in polls : peekProvisioningPayload(l)
    BY <1>9
  <2>2. peeked(l) \in PairingState
    <3>1. <<l.priv, l.answer.p>> \in KeyPair
      BY DEF PairingTypeOK, Poll, Answer, KeyPair
    <3> QED
      BY <1>1, <3>1 DEF PairingState, Phases, peeked
  <2>3. l.of \in waiter => install.at # "no"
    BY DEF PairingTypeOK
  <2>4. \/ UNCHANGED install \/ install' = NoInstall
        \/ l.of \in waiter /\ consume(peeked(l))
    BY <2>1 DEF peekProvisioningPayload, payloadArrives, rejectPayloadWaiter
  <2> QED
    BY <1>4, <1>5, <1>6, <2>2, <2>3, <2>4
<1>10. \/ UNCHANGED install \/ install' = NoInstall
       \/ handleSafetyMatch \/ confirmNewDeviceSafetyAndInstall
       \/ \E l \in polls : peekProvisioningPayload(l)
  BY DEF PairingNext, Polling, openClaim, handleRetry, closeClaim,
         handleCancel, revokeMyDevice,
         cancelNewDeviceLink,
         rejectPayloadWaiter, linkInit, linkSessionResult, sessionOver, onPubkeyShared,
         consumeProvisioningPayload, openLink, handleScan, closeLink, retryLink,
         confirmPrimarySafetyAndComplete, setPrimaryEphemeral, linkSharePubkey,
         linkComplete, expire, newVars
<1> QED
  BY <1>5, <1>6, <1>7, <1>8, <1>9, <1>10

(* The payload that is opened has the two keys whose number was confirmed: *)
(* a session has one key only.                                             *)
LEMMA InstalledStaysAgreed ==
  ASSUME PairingIInv, PairingNext PROVE InstalledIsAgreed'
<1> USE DEF PairingIInv
<1>1. CASE UNCHANGED identity
  BY <1>1, HistoryGrows DEF InstalledIsAgreed
<1>2. CASE consumeProvisioningPayload /\ identity' = install.payload
           /\ opens(install.payload, install.priv, install.p)
  <2> SUFFICES ASSUME ~strayed' PROVE identity' \in agreed'.new \cap agreed'.primary
    BY DEF InstalledIsAgreed
  <2>1. ~strayed /\ agreed' = agreed /\ install.at = "consume"
    BY <1>2 DEF consumeProvisioningPayload, agreement
  <2>2. install.payload = <<install.priv, install.p>> /\ install.payload # None
    BY <1>2 DEF opens
  <2>3. IsAgreed(install.payload)
    BY <2>1 DEF PayloadsAgreed, Payloads
  <2>4. install.payload \in agreed.primary /\ KeyIs(install.priv, install.p)
    BY <2>2, <2>3 DEF IsAgreed
  <2>5. /\ install.sn \in agreed.new /\ KeyIs(install.sn[1], install.sn[2])
        /\ install.priv = install.sn[1]
    BY <2>1 DEF InstallIsConfirmed
  <2>6. install.sn = <<install.sn[1], install.sn[2]>>
    BY DEF PairingTypeOK, Install, KeyPair
  <2>7. install.p = install.sn[2]
    BY <2>4, <2>5 DEF KeyIs
  <2> QED
    BY <1>2, <2>1, <2>2, <2>4, <2>5, <2>6, <2>7
<1> QED
  BY <1>1, <1>2
     DEF PairingNext, Polling, openClaim, handleRetry, closeClaim,
         handleCancel, revokeMyDevice, linkInit,
         linkSessionResult, onPubkeyShared, peekProvisioningPayload, handleSafetyMatch,
         confirmNewDeviceSafetyAndInstall, consumeProvisioningPayload, openLink,
         handleScan, closeLink, retryLink, confirmPrimarySafetyAndComplete,
         setPrimaryEphemeral, linkSharePubkey, linkComplete, expire, newVars

(* The inductive invariant holds throughout.                               *)
THEOREM PairingInductive == PairingSpec => []PairingIInv
<1>1. PairingInit => PairingIInv
  <2> SUFFICES ASSUME PairingInit PROVE PairingIInv
    OBVIOUS
  <2>1. StartsAreNew /\ NumberIsShared /\ InstallIsConfirmed /\ InstalledIsAgreed
    BY DEF PairingInit, StartsAreNew, NumberIsShared, InstallIsConfirmed,
           InstalledIsAgreed, emptyPrimary, NoInstall
  <2>2. PayloadsAgreed
    BY DEF PairingInit, PayloadsAgreed, Payloads, IsAgreed, emptyNewDevice,
           NoInstall
  <2> QED
    BY <2>1, <2>2, PairingInitTyped DEF PairingIInv
<1>2. PairingIInv /\ [PairingNext]_pairingVars => PairingIInv'
  <2>1. ASSUME PairingIInv, UNCHANGED pairingVars PROVE PairingIInv'
    <3>1. PairingTypeOK'
      BY <2>1, PairingTyped DEF PairingIInv
    <3>2. /\ UNCHANGED <<server, starts, polls, pairing, install, identity, prim>>
          /\ UNCHANGED <<completes, agreed, strayed, sessions>>
      BY <2>1 DEF pairingVars, newVars, primVars, agreement, counters
    <3> QED
      BY <2>1, <3>1, <3>2
         DEF PairingIInv, StartsAreNew, NumberIsShared, PayloadsAgreed, Payloads,
             IsAgreed, InstallIsConfirmed, InstalledIsAgreed, KeyIs
  <2>2. ASSUME PairingIInv, PairingNext PROVE PairingIInv'
    BY <2>2, PairingTyped, StartsStayNew, NumberStaysShared,
           PayloadsStayAgreed,
       InstallStaysConfirmed, InstalledStaysAgreed DEF PairingIInv
  <2> QED
    BY <2>1, <2>2
<1> QED
  BY <1>1, <1>2, PTL DEF PairingSpec

(* The types of the pairing, and an installed identity whose keys' number  *)
(* both users have confirmed, for any number of sessions and scans         *)
(* (device.service.ts confirmNewDeviceSafetyAndInstall).                   *)
THEOREM InstalledWhatWasAgreed == PairingSpec => []PairingInv
<1>1. PairingIInv => PairingInv
  BY DEF PairingIInv, PairingInv
<1> QED
  BY <1>1, PairingInductive, PTL

-----------------------------------------------------------------------------
(***************************************************************************)
(* PreKeys, for any number of servers, pre-keys and peers.                 *)
(***************************************************************************)

(* The key of a kind that a first message uses.                            *)
keyOf(m, k) == IF k = "preKey" THEN m.preKey ELSE m.kyberPreKey

(* The keys of a kind that there are: each has been made.                  *)
IsKey(k, e) ==
    \/ e \in ToSet(stored[k]) \cup ToSet(loaded[k])
    \/ \E s \in Servers : e \in pool[s][k]
    \/ \E t \in uploads : t.kind = k /\ e \in ToSet(t.keys)
    \/ \E m \in firsts : e = keyOf(m, k)

KeysAreMade == \A k \in Kinds : \A e \in OneTimeKeys :
    IsKey(k, e) => e.gen <= timesMade[k][e.id]

(* No id beyond the last one is in use; one call at most will use them; and*)
(* the metadata remembers the last, however it is trimmed.                 *)
IdsAreAhead(k) ==
    /\ \A i \in PreKeyIds : i > last[k] + 1 => timesMade[k][i] = 0
    /\ \A i \in PreKeyIds : timesMade[k][i] > 0 => i <= stored[k][Len(stored[k])].id

CallsAreApart ==
    \A i, j \in 1..Len(calls) : calls[i].kind \notin raced =>
        /\ calls[i].start = last[calls[i].kind] + 1
        /\ calls[i].kind = calls[j].kind => i = j

(* The native store has every key that no message has used.                *)
NativeHas(k) ==
    \A i \in PreKeyIds :
        \/ native[k][i] = timesMade[k][i]
        \/ \E w \in firsts : w.at = "read" /\ keyOf(w, k).id = i

UsedIsRead == \A i \in used : \E w \in firsts : w.at = "read" /\ w.kyberPreKey.id = i

(* A server gives a key away once.                                         *)
PoolsApart == \A s \in Servers : \A k \in Kinds :
    /\ \A e \in pool[s][k] : e.id \in known[s][k]
    /\ \A m \in firsts : m.srv = s =>
         /\ keyOf(m, k).id \in known[s][k]
         /\ k \notin raced => \A e \in pool[s][k] : e.id # keyOf(m, k).id

FirstsApart(k) ==
    \A m, w \in firsts : m.srv = w.srv /\ keyOf(m, k).id = keyOf(w, k).id => m = w

-----------------------------------------------------------------------------
(* A set of naturals has a least element, and a bounded one a greatest.    *)
LEMMA LeastNatural ==
  ASSUME NEW T \in SUBSET Nat, T # {}
  PROVE  \E x \in T : \A y \in T : x <= y
<1>1. PICK x \in T : \A y \in T : ~(<<y, x>> \in OpToRel(<, Nat))
  BY NatLessThanWellFounded, WFMin
<1>2. \A y \in T : ~(y < x)
  BY <1>1 DEF OpToRel
<1> QED
  BY <1>2

LEMMA GreatestNatural ==
  ASSUME NEW T \in SUBSET Nat, T # {}, NEW b \in Nat, \A x \in T : x <= b
  PROVE  \E x \in T : \A y \in T : y <= x
<1> DEFINE D == {b - x : x \in T}
<1>1. D \in SUBSET Nat /\ D # {}
  <2>1. \A x \in T : b - x \in Nat
    OBVIOUS
  <2> QED
    BY <2>1
<1>2. PICK d \in D : \A e \in D : d <= e
  <2> HIDE DEF D
  <2> QED
    BY <1>1, LeastNatural
<1>3. PICK x \in T : d = b - x
  OBVIOUS
<1>4. \A y \in T : b - x <= b - y
  BY <1>2, <1>3
<1> QED
  BY <1>4

LEMMA SmallRemainder ==
  ASSUME NEW a \in Nat, NEW b \in Nat, a < b PROVE a % b = a
OBVIOUS

(* Keys are made under the ids that follow the first one.                  *)
LEMMA IdsFollow ==
  ASSUME NEW start \in Nat \ {0}, NEW n \in Nat \ {0}, start + n < MaxVal, NEW i \in 1..n
  PROVE  generated(start, n)[i] = start + i /\ start + i \in PreKeyIds
<1>1. MaxVal \in Nat
  BY PreKeysAssumption
<1>2. start + i - 1 \in Nat /\ MaxVal - 1 \in Nat /\ start + i - 1 < MaxVal - 1
  BY <1>1
<1>3. (start + i - 1) % (MaxVal - 1) = start + i - 1
  BY <1>2, SmallRemainder
<1> QED
  BY <1>1, <1>2, <1>3 DEF generated, PreKeyIds

IsBatch(new, k, start) ==
    /\ Len(new) = Batch
    /\ \A i \in 1..Batch : /\ new[i].id = start + i
                           /\ new[i].gen = timesMade[k][start + i] + 1

LEMMA FreshKeys ==
  ASSUME timesMade \in [Kinds -> [PreKeyIds -> Nat]], NEW k \in Kinds,
         NEW start \in Nat \ {0}, start + Batch < MaxVal
  PROVE  fresh(k, start) \in Seq(OneTimeKeys) /\ IsBatch(fresh(k, start), k, start)
<1>1. Batch \in Nat \ {0} /\ MaxVal \in Nat
  BY PreKeysAssumption
<1>2. \A i \in 1..Batch : generated(start, Batch)[i] = start + i /\ start + i \in PreKeyIds
  BY <1>1, IdsFollow
<1>3. \A i \in 1..Batch :
        fresh(k, start)[i] = [id |-> start + i, gen |-> timesMade[k][start + i] + 1]
  BY <1>2 DEF fresh
<1>4. \A i \in 1..Batch :
        [id |-> start + i, gen |-> timesMade[k][start + i] + 1] \in OneTimeKeys
  BY <1>2 DEF OneTimeKeys
<1>5. fresh(k, start) \in [1..Batch -> OneTimeKeys]
  BY <1>3, <1>4 DEF fresh
<1>6. fresh(k, start) \in Seq(OneTimeKeys)
  BY <1>1, <1>5, IsASeq
<1> QED
  BY <1>1, <1>3, <1>5, <1>6 DEF IsBatch

LEMMA FirstKeys ==
  /\ firstKeys \in Seq(OneTimeKeys) /\ Len(firstKeys) = Initial
  /\ \A i \in 1..Initial : firstKeys[i].id = 1 + i /\ firstKeys[i].gen = 1
<1>1. Initial \in Nat \ {0} /\ 1 + Initial < MaxVal /\ MaxVal \in Nat
  BY PreKeysAssumption
<1>2. \A i \in 1..Initial : generated(1, Initial)[i] = 1 + i /\ 1 + i \in PreKeyIds
  BY <1>1, IdsFollow
<1>3. firstKeys \in [1..Initial -> OneTimeKeys]
  BY <1>2 DEF firstKeys, OneTimeKeys
<1>4. firstKeys \in Seq(OneTimeKeys)
  BY <1>1, <1>3, IsASeq
<1> QED
  BY <1>1, <1>2, <1>3, <1>4 DEF firstKeys

(* The newest keys of a list end as the list does.                         *)
LEMMA NewestKeys ==
  ASSUME NEW s \in Seq(OneTimeKeys), s # <<>>
  PROVE  /\ newest(s) \in Seq(OneTimeKeys) /\ newest(s) # <<>>
         /\ Len(newest(s)) <= Stored /\ Len(newest(s)) \in Nat \ {0}
         /\ newest(s)[Len(newest(s))] = s[Len(s)]
         /\ ToSet(newest(s)) \subseteq ToSet(s)
<1>1. Stored \in Nat \ {0} /\ Len(s) \in Nat \ {0}
  BY PreKeysAssumption
<1>2. CASE Len(s) > Stored
  <2> DEFINE m == Len(s) - Stored + 1
             cut == SubSeq(s, m, Len(s))
  <2>1. m \in 1..Len(s) /\ m \in Int /\ Len(s) \in Int
    BY <1>1, <1>2
  <2>2. \A i \in m..Len(s) : s[i] \in OneTimeKeys
    BY <2>1
  <2>3. /\ cut \in Seq(OneTimeKeys) /\ Len(cut) = Stored
        /\ \A i \in 1..Stored : cut[i] = s[m + i - 1]
    <3> HIDE DEF m
    <3>1. /\ cut \in Seq(OneTimeKeys)
          /\ Len(cut) = IF m <= Len(s) THEN Len(s) - m + 1 ELSE 0
          /\ \A i \in 1..(Len(s) - m + 1) : cut[i] = s[m + i - 1]
      BY <2>1, <2>2, SubSeqProperties
    <3>2. m <= Len(s) /\ Len(s) - m + 1 = Stored
      BY <1>1, <2>1 DEF m
    <3> QED
      BY <3>1, <3>2
  <2>4. newest(s) = cut
    BY <1>2 DEF newest
  <2>5. cut[Stored] = s[Len(s)]
    BY <1>1, <2>3
  <2>6. \A i \in 1..Stored : m + i - 1 \in 1..Len(s)
    BY <1>1, <1>2
  <2>7. ToSet(cut) \subseteq ToSet(s)
    <3> HIDE DEF m, cut
    <3> QED
      BY <2>3, <2>6 DEF ToSet
  <2> HIDE DEF cut
  <2> QED
    BY <1>1, <2>3, <2>4, <2>5, <2>7
<1>3. CASE ~(Len(s) > Stored)
  BY <1>1, <1>3 DEF newest
<1> QED
  BY <1>2, <1>3
-----------------------------------------------------------------------------
(* The types.                                                              *)
LEMMA BundleTyped ==
  ASSUME NEW s \in Seq(OneTimeKeys) PROVE bundle(s) \subseteq ToSet(s)
<1> DEFINE n == IF Len(s) < Upload THEN Len(s) ELSE Upload
<1>1. n \in Nat /\ n <= Len(s) /\ Len(s) \in Nat
  BY PreKeysAssumption
<1>2. /\ SubSeq(s, 1, n) \in Seq(OneTimeKeys)
      /\ Len(SubSeq(s, 1, n)) = IF 1 <= n THEN n - 1 + 1 ELSE 0
      /\ \A i \in 1..(n - 1 + 1) : SubSeq(s, 1, n)[i] = s[1 + i - 1]
  <2> HIDE DEF n
  <2>1. 1 \in Int /\ n \in Int /\ \A i \in 1..n : s[i] \in OneTimeKeys
    BY <1>1
  <2> QED
    BY <2>1, SubSeqProperties
<1>3. Len(SubSeq(s, 1, n)) = n /\ \A i \in 1..n : SubSeq(s, 1, n)[i] = s[i]
  <2> HIDE DEF n
  <2> QED
    BY <1>1, <1>2
<1>4. bundle(s) = ToSet(SubSeq(s, 1, n))
  BY DEF bundle
<1> HIDE DEF n
<1> QED
  BY <1>1, <1>2, <1>3, <1>4 DEF ToSet

LEMMA ToSetTyped ==
  ASSUME NEW s \in Seq(OneTimeKeys) PROVE ToSet(s) \subseteq OneTimeKeys
BY DEF ToSet

LEMMA PreKeysInitTyped == ASSUME PreKeysInit PROVE PreKeysTypeOK
<1> USE DEF PreKeysInit
<1>1. timesMade \in [Kinds -> [PreKeyIds -> Nat]] /\ native = timesMade
  OBVIOUS
<1>2. /\ stored \in [Kinds -> Seq(OneTimeKeys)] /\ loaded = stored
      /\ \A k \in Kinds : Len(stored[k]) <= Stored
  BY FirstKeys, PreKeysAssumption
<1>3. last \in [Kinds -> 1..MaxVal]
  BY PreKeysAssumption
<1>4. pool \in [Servers -> [Kinds -> SUBSET OneTimeKeys]]
  BY FirstKeys, BundleTyped, ToSetTyped
<1>5. \A s \in Servers : \A k \in Kinds : {e.id : e \in pool[s][k]} \in SUBSET PreKeyIds
  BY <1>4 DEF OneTimeKeys
<1>6. known \in [Servers -> [Kinds -> SUBSET PreKeyIds]]
  BY <1>5
<1>7. lock \in [Servers -> {0} \cup Refreshes] /\ calls \in Seq(Task) /\ uploads \subseteq Task
  OBVIOUS
<1>8. servers \subseteq Servers /\ used \subseteq PreKeyIds /\ events \in 0..MaxEvents
  BY PreKeysAssumption
<1> QED
  BY <1>1, <1>2, <1>3, <1>4, <1>6, <1>7, <1>8 DEF PreKeysTypeOK

(* What a server has when it has been given keys.                          *)
LEMMA Given ==
  ASSUME PreKeysTypeOK, NEW s \in Servers, NEW new \in [Kinds -> SUBSET OneTimeKeys],
         given(s, new)
  PROVE  /\ pool' \in [Servers -> [Kinds -> SUBSET OneTimeKeys]]
         /\ known' \in [Servers -> [Kinds -> SUBSET PreKeyIds]]
         /\ \A r \in Servers : \A k \in Kinds :
              /\ known[r][k] \subseteq known'[r][k]
              /\ \A e \in pool'[r][k] : e \in pool[r][k] \/
                   (e \in new[k] /\ e.id \notin known[r][k] /\ e.id \in known'[r][k])
<1> DEFINE adds == [k \in Kinds |-> {e \in new[k] : e.id \notin known[s][k]}]
<1>1. /\ pool \in [Servers -> [Kinds -> SUBSET OneTimeKeys]]
      /\ known \in [Servers -> [Kinds -> SUBSET PreKeyIds]]
  BY DEF PreKeysTypeOK
<1>2. /\ pool' = [pool EXCEPT ![s] = [k \in Kinds |-> @[k] \cup adds[k]]]
      /\ known' = [known EXCEPT ![s] = [k \in Kinds |-> @[k] \cup {e.id : e \in adds[k]}]]
  BY DEF given
<1>3. \A k \in Kinds : adds[k] = {e \in new[k] : e.id \notin known[s][k]}
  OBVIOUS
<1>4. \A k \in Kinds : /\ adds[k] \in SUBSET OneTimeKeys
                       /\ {e.id : e \in adds[k]} \in SUBSET PreKeyIds
  BY <1>3 DEF OneTimeKeys
<1> HIDE DEF adds
<1>5. \A r \in Servers : \A k \in Kinds :
        /\ pool'[r][k] = IF r = s THEN pool[r][k] \cup adds[k] ELSE pool[r][k]
        /\ known'[r][k] = IF r = s THEN known[r][k] \cup {e.id : e \in adds[k]}
                          ELSE known[r][k]
  BY <1>1, <1>2
<1>6. pool' \in [Servers -> [Kinds -> SUBSET OneTimeKeys]]
  BY <1>1, <1>2, <1>4
<1>7. known' \in [Servers -> [Kinds -> SUBSET PreKeyIds]]
  BY <1>1, <1>2, <1>4
<1>8. \A r \in Servers : \A k \in Kinds : known[r][k] \subseteq known'[r][k]
  BY <1>5
<1>9. ASSUME NEW r \in Servers, NEW k \in Kinds, NEW e \in pool'[r][k], e \notin pool[r][k]
      PROVE  e \in new[k] /\ e.id \notin known[r][k] /\ e.id \in known'[r][k]
  <2>1. r = s /\ e \in adds[k]
    BY <1>5, <1>9
  <2>2. e.id \in known'[r][k]
    BY <1>5, <2>1
  <2> QED
    BY <1>3, <2>1, <2>2
<1> QED
  BY <1>6, <1>7, <1>8, <1>9

LEMMA UploadTyped ==
  ASSUME PreKeysTypeOK, NEW s \in Servers, uploadPreKeysToServer(s) PROVE PreKeysTypeOK'
<1>1. [k \in Kinds |-> bundle(loaded[k])] \in [Kinds -> SUBSET OneTimeKeys]
  BY BundleTyped, ToSetTyped DEF PreKeysTypeOK
<1>2. /\ pool' \in [Servers -> [Kinds -> SUBSET OneTimeKeys]]
      /\ known' \in [Servers -> [Kinds -> SUBSET PreKeyIds]]
  <2>1. CASE given(s, [k \in Kinds |-> bundle(loaded[k])])
    BY <1>1, <2>1, Given
  <2>2. CASE UNCHANGED <<pool, known>>
    BY <2>2 DEF PreKeysTypeOK
  <2> QED
    BY <2>1, <2>2 DEF uploadPreKeysToServer
<1>3. servers' \subseteq Servers /\ events' \in 0..MaxEvents
  BY PreKeysAssumption DEF PreKeysTypeOK, uploadPreKeysToServer, Event, NoEvent
<1> QED
  BY <1>2, <1>3 DEF PreKeysTypeOK, uploadPreKeysToServer, deviceVars

(* A refresh calls for the kinds that are low.                             *)
LEMMA CallTyped ==
  ASSUME PreKeysTypeOK, NEW s \in Servers, NEW n \in Refreshes, NEW k \in Kinds
  PROVE  /\ Call(s, n, k) \in Task /\ Call(s, n, k).kind = k
         /\ Call(s, n, k).start = last[k] + 1
<1>1. last[k] + 1 \in Nat \ {0}
  BY PreKeysAssumption DEF PreKeysTypeOK
<1> QED
  BY <1>1 DEF Call, Task, next

LEMMA RefreshCalls ==
  ASSUME PreKeysTypeOK, NEW s \in Servers, refreshPreKeysForServer(s)
  PROVE  \E n \in Refreshes :
           /\ lock' = [lock EXCEPT ![s] = n]
           /\ calls' = (calls \o (IF "preKey" \in low(s) THEN <<Call(s, n, "preKey")>> ELSE <<>>))
                         \o (IF "kyberPreKey" \in low(s)
                             THEN <<Call(s, n, "kyberPreKey")>> ELSE <<>>)
<1> DEFINE free == {r \in Refreshes : tasksOf(s, r, ToSet(calls) \cup uploads) = {}}
           n == CHOOSE r \in free : TRUE
<1>1. free # {}
  BY DEF refreshPreKeysForServer
<1>2. n \in free
  BY <1>1
<1>3. n \in Refreshes
  BY <1>2
<1> QED
  BY <1>3 DEF refreshPreKeysForServer

LEMMA AppendsCall ==
  ASSUME NEW q \in Seq(Task), NEW x \in Task
  PROVE  /\ q \o <<x>> \in Seq(Task) /\ Len(q \o <<x>>) = Len(q) + 1
         /\ \A i \in 1..Len(q) : (q \o <<x>>)[i] = q[i]
         /\ (q \o <<x>>)[Len(q) + 1] = x /\ q \o <<>> = q
OBVIOUS

LEMMA RefreshTyped ==
  ASSUME PreKeysTypeOK, NEW s \in Servers, refreshPreKeysForServer(s) PROVE PreKeysTypeOK'
<1>1. PICK n \in Refreshes :
           /\ lock' = [lock EXCEPT ![s] = n]
           /\ calls' = (calls \o (IF "preKey" \in low(s) THEN <<Call(s, n, "preKey")>> ELSE <<>>))
                         \o (IF "kyberPreKey" \in low(s)
                             THEN <<Call(s, n, "kyberPreKey")>> ELSE <<>>)
  BY RefreshCalls
<1>2. Call(s, n, "preKey") \in Task /\ Call(s, n, "kyberPreKey") \in Task
  BY CallTyped DEF Kinds
<1>3. calls \in Seq(Task) /\ lock \in [Servers -> {0} \cup Refreshes]
  BY DEF PreKeysTypeOK
<1>4. calls \o (IF "preKey" \in low(s) THEN <<Call(s, n, "preKey")>> ELSE <<>>) \in Seq(Task)
  BY <1>2, <1>3, AppendsCall
<1>5. calls' \in Seq(Task)
  BY <1>1, <1>2, <1>4, AppendsCall
<1>6. lock' \in [Servers -> {0} \cup Refreshes]
  BY <1>1, <1>3
<1>7. raced' \subseteq Kinds
  BY DEF PreKeysTypeOK, refreshPreKeysForServer, low
<1> QED
  BY <1>5, <1>6, <1>7 DEF PreKeysTypeOK, refreshPreKeysForServer, poolVars,
         deviceVars

(* The first call replenishes its kind: what it makes, and what is left.   *)
LEMMA TailOfCalls ==
  ASSUME NEW q \in Seq(Task), q # <<>>
  PROVE  /\ Head(q) = q[1] /\ q[1] \in Task
         /\ Tail(q) \in Seq(Task) /\ Len(Tail(q)) = Len(q) - 1 /\ Len(q) \in Nat \ {0}
         /\ \A i \in 1..Len(Tail(q)) : Tail(q)[i] = q[i + 1]
OBVIOUS

Replenished(t, k, new) ==
    /\ timesMade' = [timesMade EXCEPT ![k] = storePreKeys(k, new, timesMade[k])]
    /\ native' = [native EXCEPT ![k] = storePreKeys(k, new, native[k])]
    /\ stored' = [stored EXCEPT ![k] = newest(stored[k] \o new)]
    /\ last' = [last EXCEPT ![k] = t.start + Batch - 1]
    /\ uploads' = uploads \cup {[t EXCEPT !.keys = new]}

LEMMA ReplenishStep ==
  ASSUME NEW s, replenishPreKeys(s)
  PROVE  /\ calls # <<>> /\ calls' = Tail(calls)
         /\ Head(calls).start + Batch < MaxVal
         /\ UNCHANGED <<poolVars, used, loaded, firsts, raced>>
         /\ \/ /\ Replenished(Head(calls), Head(calls).kind,
                              fresh(Head(calls).kind, Head(calls).start))
               /\ done(Head(calls), FALSE) /\ UNCHANGED events
            \/ /\ UNCHANGED <<timesMade, native, stored, last, uploads>>
               /\ done(Head(calls), TRUE) /\ Event
BY DEF replenishPreKeys, Replenished, NoEvent

LEMMA StoredUnder ==
  ASSUME PreKeysTypeOK, NEW k \in Kinds, NEW new, NEW was \in [PreKeyIds -> Nat]
  PROVE  storePreKeys(k, new, was) \in [PreKeyIds -> Nat]
<1>1. \A i \in PreKeyIds : timesMade[k][i] \in Nat /\ timesMade[k][i] + 1 \in Nat
  BY DEF PreKeysTypeOK
<1> QED
  BY <1>1 DEF storePreKeys

LEMMA EventTyped ==
  ASSUME PreKeysTypeOK, UNCHANGED events \/ Event PROVE events' \in 0..MaxEvents
<1>1. events \in 0..MaxEvents /\ MaxEvents \in Nat
  BY PreKeysAssumption DEF PreKeysTypeOK
<1> QED
  BY <1>1 DEF Event

LEMMA DoneTyped ==
  ASSUME PreKeysTypeOK, NEW t \in Task, NEW unsent, done(t, unsent)
  PROVE  lock' \in [Servers -> {0} \cup Refreshes]
BY DEF done, PreKeysTypeOK, Task

LEMMA ReplenishTyped ==
  ASSUME PreKeysTypeOK, NEW s \in Servers, replenishPreKeys(s) PROVE PreKeysTypeOK'
<1> DEFINE t == Head(calls)
           k == t.kind
           new == fresh(k, t.start)
<1>1. t \in Task /\ calls' \in Seq(Task)
  BY ReplenishStep, TailOfCalls DEF PreKeysTypeOK
<1>2. k \in Kinds /\ t.start \in Nat \ {0} /\ t.start + Batch < MaxVal
  BY <1>1, ReplenishStep DEF Task
<1>3. new \in Seq(OneTimeKeys) /\ Len(new) = Batch
  BY <1>2, FreshKeys DEF PreKeysTypeOK, IsBatch
<1>4. lock' \in [Servers -> {0} \cup Refreshes]
  BY <1>1, DoneTyped, ReplenishStep
<1>5. events' \in 0..MaxEvents
  <2>1. UNCHANGED events \/ Event
    BY ReplenishStep
  <2> QED
    BY <2>1, EventTyped
<1> HIDE DEF t, k, new
<1> DEFINE Typed == /\ timesMade' \in [Kinds -> [PreKeyIds -> Nat]]
                    /\ native' \in [Kinds -> [PreKeyIds -> Nat]]
                    /\ stored' \in [Kinds -> Seq(OneTimeKeys)]
                    /\ \A j \in Kinds : Len(stored'[j]) <= Stored
                    /\ last' \in [Kinds -> 1..MaxVal]
                    /\ uploads' \subseteq Task
<1>6. ASSUME Replenished(t, k, new) PROVE Typed
  <2>1. /\ timesMade \in [Kinds -> [PreKeyIds -> Nat]] /\ native \in [Kinds -> [PreKeyIds -> Nat]]
        /\ stored \in [Kinds -> Seq(OneTimeKeys)] /\ \A j \in Kinds : Len(stored[j]) <= Stored
        /\ last \in [Kinds -> 1..MaxVal] /\ uploads \subseteq Task
    BY DEF PreKeysTypeOK
  <2>2. /\ storePreKeys(k, new, timesMade[k]) \in [PreKeyIds -> Nat]
        /\ storePreKeys(k, new, native[k]) \in [PreKeyIds -> Nat]
    BY <1>2, <1>3, <2>1, StoredUnder
  <2>3. stored[k] \o new \in Seq(OneTimeKeys) /\ stored[k] \o new # <<>>
    <3>1. Batch \in Nat \ {0} /\ stored[k] \in Seq(OneTimeKeys)
      BY <1>2, <2>1, PreKeysAssumption
    <3> QED
      BY <1>3, <3>1
  <2>4. newest(stored[k] \o new) \in Seq(OneTimeKeys) /\ Len(newest(stored[k] \o new)) <= Stored
    BY <2>3, NewestKeys
  <2>5. t.start + Batch - 1 \in 1..MaxVal
    BY <1>2, PreKeysAssumption
  <2>6. [t EXCEPT !.keys = new] \in Task
    BY <1>1, <1>3 DEF Task
  <2>7. timesMade' \in [Kinds -> [PreKeyIds -> Nat]] /\ native' \in [Kinds -> [PreKeyIds -> Nat]]
    BY <1>2, <1>6, <2>1, <2>2 DEF Replenished
  <2>8. /\ stored' \in [Kinds -> Seq(OneTimeKeys)]
        /\ \A j \in Kinds : Len(stored'[j]) <= Stored
    BY <1>2, <1>6, <2>1, <2>4 DEF Replenished
  <2>9. last' \in [Kinds -> 1..MaxVal] /\ uploads' \subseteq Task
    BY <1>2, <1>6, <2>1, <2>5, <2>6 DEF Replenished
  <2> QED
    BY <2>7, <2>8, <2>9
<1>7. Typed
  BY <1>6, ReplenishStep DEF PreKeysTypeOK, t, k, new
<1> QED
  BY <1>1, <1>4, <1>5, <1>7, ReplenishStep DEF PreKeysTypeOK, poolVars

LEMMA SyncTyped ==
  ASSUME PreKeysTypeOK, NEW t \in uploads, syncPublicKeys(t) PROVE PreKeysTypeOK'
<1>1. t \in Task /\ t.srv \in Servers /\ t.keys \in Seq(OneTimeKeys)
  BY DEF PreKeysTypeOK, Task
<1> DEFINE new == [k \in Kinds |-> IF k = t.kind THEN ToSet(t.keys) ELSE {}]
<1>2. new \in [Kinds -> SUBSET OneTimeKeys]
  BY <1>1, ToSetTyped
<1> HIDE DEF new
<1>3. /\ pool' \in [Servers -> [Kinds -> SUBSET OneTimeKeys]]
      /\ known' \in [Servers -> [Kinds -> SUBSET PreKeyIds]]
  <2>1. CASE given(t.srv, new)
    BY <1>1, <1>2, <2>1, Given
  <2>2. CASE UNCHANGED <<pool, known>>
    BY <2>2 DEF PreKeysTypeOK
  <2> QED
    BY <2>1, <2>2 DEF syncPublicKeys, new
<1>4. lock' \in [Servers -> {0} \cup Refreshes]
  BY <1>1, DoneTyped DEF syncPublicKeys
<1>5. events' \in 0..MaxEvents /\ uploads' \subseteq Task
  <2>1. UNCHANGED events \/ Event
    BY DEF syncPublicKeys, NoEvent
  <2>2. uploads' \subseteq Task
    BY DEF syncPublicKeys, PreKeysTypeOK
  <2> QED
    BY <2>1, <2>2, EventTyped
<1> QED
  BY <1>3, <1>4, <1>5 DEF PreKeysTypeOK, syncPublicKeys, deviceVars

(* A peer takes two keys of a server.                                      *)
First(s, p, q) == [srv |-> s, preKey |-> p, kyberPreKey |-> q, at |-> "sent"]

LEMMA Taken ==
  ASSUME PreKeysTypeOK, NEW s \in Servers, getRemoteKeys(s)
  PROVE  \E p \in pool[s]["preKey"], q \in pool[s]["kyberPreKey"] :
           /\ p \in OneTimeKeys /\ q \in OneTimeKeys
           /\ firsts' = firsts \cup {First(s, p, q)}
           /\ pool' \in [Servers -> [Kinds -> SUBSET OneTimeKeys]]
           /\ \A r \in Servers : \A k \in Kinds :
                pool'[r][k] = IF r = s THEN pool[r][k] \ {IF k = "preKey" THEN p ELSE q}
                              ELSE pool[r][k]
<1>1. pool \in [Servers -> [Kinds -> SUBSET OneTimeKeys]]
  BY DEF PreKeysTypeOK
<1>2. PICK p \in pool[s]["preKey"], q \in pool[s]["kyberPreKey"] :
        /\ pool' = [pool EXCEPT ![s]["preKey"] = @ \ {p}, ![s]["kyberPreKey"] = @ \ {q}]
        /\ firsts' = firsts \cup {First(s, p, q)}
  BY DEF getRemoteKeys, First
<1>3. p \in OneTimeKeys /\ q \in OneTimeKeys
  BY <1>1 DEF Kinds
<1>4. pool' \in [Servers -> [Kinds -> SUBSET OneTimeKeys]]
  BY <1>1, <1>2 DEF Kinds
<1>5. \A r \in Servers : \A k \in Kinds :
        pool'[r][k] = IF r = s THEN pool[r][k] \ {IF k = "preKey" THEN p ELSE q}
                      ELSE pool[r][k]
  BY <1>1, <1>2 DEF Kinds
<1> QED
  BY <1>2, <1>3, <1>4, <1>5

LEMMA TakenTyped ==
  ASSUME PreKeysTypeOK, NEW s \in Servers, getRemoteKeys(s) PROVE PreKeysTypeOK'
<1>1. PICK p \in pool[s]["preKey"], q \in pool[s]["kyberPreKey"] :
           /\ p \in OneTimeKeys /\ q \in OneTimeKeys
           /\ firsts' = firsts \cup {First(s, p, q)}
           /\ pool' \in [Servers -> [Kinds -> SUBSET OneTimeKeys]]
  BY Taken
<1>2. firsts' \subseteq
        [srv : Servers, preKey : OneTimeKeys, kyberPreKey : OneTimeKeys,
         at : {"sent", "read", "lost"}]
  BY <1>1 DEF PreKeysTypeOK, First
<1> QED
  BY <1>1, <1>2 DEF PreKeysTypeOK, getRemoteKeys, deviceVars

(* A first message is decrypted.                                           *)
Now(m, at) == [m EXCEPT !.at = at]

LEMMA Decrypted ==
  ASSUME PreKeysTypeOK, NEW m \in firsts, decryptMessage(m)
  PROVE  /\ m.at = "sent" /\ firsts' = (firsts \ {m}) \cup {Now(m, IF reads(m) THEN "read" ELSE "lost")}
         /\ reads(m) => used' = used \cup {m.kyberPreKey.id}
         /\ ~reads(m) => UNCHANGED <<native, used>>
         /\ native' \in [Kinds -> [PreKeyIds -> Nat]]
         /\ \A k \in Kinds : \A i \in PreKeyIds :
              native'[k][i] = native[k][i] \/ (reads(m) /\ i = keyOf(m, k).id)
<1>1. /\ native \in [Kinds -> [PreKeyIds -> Nat]] /\ m.preKey.id \in PreKeyIds
      /\ m.kyberPreKey.id \in PreKeyIds
  BY DEF PreKeysTypeOK, OneTimeKeys
<1>2. /\ m.at = "sent" /\ firsts' = (firsts \ {m}) \cup {Now(m, IF reads(m) THEN "read" ELSE "lost")}
      /\ reads(m) => used' = used \cup {m.kyberPreKey.id} /\ native' = markKyberPreKeyUsed(m)
      /\ ~reads(m) => UNCHANGED <<native, used>>
  BY DEF decryptMessage, Now
<1> DEFINE one == [native EXCEPT !["preKey"][m.preKey.id] = 0]
<1>3. /\ one \in [Kinds -> [PreKeyIds -> Nat]]
      /\ \A k \in Kinds : \A i \in PreKeyIds :
           one[k][i] = native[k][i] \/ (k = "preKey" /\ i = m.preKey.id)
  BY <1>1 DEF Kinds
<1> DEFINE both == [one EXCEPT !["kyberPreKey"][m.kyberPreKey.id] = 0]
<1> HIDE DEF one
<1>4. /\ both \in [Kinds -> [PreKeyIds -> Nat]]
      /\ \A k \in Kinds : \A i \in PreKeyIds :
           both[k][i] = one[k][i] \/ (k = "kyberPreKey" /\ i = m.kyberPreKey.id)
  BY <1>1, <1>3 DEF Kinds
<1>5. markKyberPreKeyUsed(m) = IF Android THEN both ELSE one
  BY DEF markKyberPreKeyUsed, removePreKey, one
<1> HIDE DEF both
<1>6. /\ native' \in [Kinds -> [PreKeyIds -> Nat]]
      /\ \A k \in Kinds : \A i \in PreKeyIds :
           native'[k][i] = native[k][i] \/ (reads(m) /\ i = keyOf(m, k).id)
  <2>1. CASE ~reads(m)
    BY <2>1, <1>1, <1>2
  <2>2. CASE reads(m) /\ Android
    BY <2>2, <1>2, <1>3, <1>4, <1>5 DEF keyOf
  <2>3. CASE reads(m) /\ ~Android
    BY <2>3, <1>2, <1>3, <1>5 DEF keyOf
  <2> QED
    BY <2>1, <2>2, <2>3
<1> QED
  BY <1>2, <1>6

LEMMA NowTyped ==
  ASSUME PreKeysTypeOK, NEW m \in firsts, NEW at \in {"sent", "read", "lost"}
  PROVE  /\ Now(m, at) \in [srv : Servers, preKey : OneTimeKeys, kyberPreKey : OneTimeKeys,
                            at : {"sent", "read", "lost"}]
         /\ Now(m, at).srv = m.srv /\ Now(m, at).at = at
         /\ Now(m, at).preKey = m.preKey /\ Now(m, at).kyberPreKey = m.kyberPreKey
         /\ \A k \in Kinds : keyOf(Now(m, at), k) = keyOf(m, k)
BY DEF PreKeysTypeOK, Now, keyOf

LEMMA DecryptTyped ==
  ASSUME PreKeysTypeOK, NEW m \in firsts, decryptMessage(m) PROVE PreKeysTypeOK'
<1>1. m.kyberPreKey.id \in PreKeyIds
  BY DEF PreKeysTypeOK, OneTimeKeys
<1>0. PICK at \in {"read", "lost"} : firsts' = (firsts \ {m}) \cup {Now(m, at)}
  BY Decrypted
<1>2. used' \subseteq PreKeyIds
  <2>1. used' = used \/ used' = used \cup {m.kyberPreKey.id}
    BY DEF decryptMessage
  <2> QED
    BY <1>1, <2>1 DEF PreKeysTypeOK
<1>3. firsts' \subseteq [srv : Servers, preKey : OneTimeKeys, kyberPreKey : OneTimeKeys,
                         at : {"sent", "read", "lost"}]
  <2>1. Now(m, at) \in [srv : Servers, preKey : OneTimeKeys, kyberPreKey : OneTimeKeys,
                          at : {"sent", "read", "lost"}]
    BY NowTyped
  <2> QED
    BY <1>0, <2>1 DEF PreKeysTypeOK
<1>4. native' \in [Kinds -> [PreKeyIds -> Nat]]
  BY Decrypted
<1> QED
  BY <1>2, <1>3, <1>4 DEF PreKeysTypeOK, decryptMessage, poolVars

(* What the store has after the metadata was restored.                     *)
LEMMA Restored ==
  ASSUME PreKeysTypeOK, KeysAreMade, NEW k \in Kinds
  PROVE  /\ restored(k) \in [PreKeyIds -> Nat]
         /\ \A i \in PreKeyIds :
              \/ restored(k)[i] = native[k][i]
              \/ \E e \in ToSet(stored[k]) : e.id = i /\ restored(k)[i] = e.gen
<1>1. \A e \in ToSet(stored[k]) : e \in OneTimeKeys /\ e.gen <= timesMade[k][e.id]
  BY ToSetTyped DEF PreKeysTypeOK, KeysAreMade, IsKey
<1>2. ASSUME NEW i \in PreKeyIds
      PROVE  /\ restored(k)[i] \in Nat
             /\ \/ restored(k)[i] = native[k][i]
                \/ \E e \in ToSet(stored[k]) : e.id = i /\ restored(k)[i] = e.gen
  <2> DEFINE G == {e.gen : e \in {f \in ToSet(stored[k]) : f.id = i}}
             g == CHOOSE x \in G : \A h \in G : h <= x
  <2>1. restored(k)[i] = IF G = {} THEN native[k][i] ELSE g
    BY DEF restored
  <2>2. G \in SUBSET Nat /\ timesMade[k][i] \in Nat /\ \A x \in G : x <= timesMade[k][i]
    BY <1>1 DEF PreKeysTypeOK, OneTimeKeys
  <2>3. \A x \in G : \E e \in ToSet(stored[k]) : e.id = i /\ x = e.gen
    OBVIOUS
  <2> HIDE DEF G
  <2>4. CASE G = {}
    BY <2>1, <2>4 DEF PreKeysTypeOK
  <2>5. CASE G # {}
    <3>1. \E x \in G : \A h \in G : h <= x
      BY <2>2, <2>5, GreatestNatural
    <3>2. g \in G
      BY <3>1
    <3> QED
      BY <2>1, <2>2, <2>3, <2>5, <3>2
  <2> QED
    BY <2>4, <2>5
<1>3. restored(k) = [i \in PreKeyIds |-> restored(k)[i]]
  BY DEF restored
<1> QED
  BY <1>2, <1>3

LEMMA LastOf ==
  ASSUME PreKeysTypeOK, NEW k \in Kinds, stored[k] # <<>>
  PROVE  /\ lastOf(stored[k]) \in 1..MaxVal
         /\ \A e \in ToSet(stored[k]) : e.id <= lastOf(stored[k])
         /\ \E e \in ToSet(stored[k]) : e.id = lastOf(stored[k])
<1> DEFINE T == {e.id : e \in ToSet(stored[k])}
           g == CHOOSE i \in T : \A e \in ToSet(stored[k]) : e.id <= i
<1>1. stored[k] \in Seq(OneTimeKeys) /\ MaxVal \in Nat
  BY PreKeysAssumption DEF PreKeysTypeOK
<1>2. ToSet(stored[k]) \subseteq OneTimeKeys /\ ToSet(stored[k]) # {}
  <2>1. stored[k][1] \in ToSet(stored[k])
    BY <1>1 DEF ToSet
  <2> QED
    BY <1>1, <2>1, ToSetTyped
<1>3. T \in SUBSET Nat /\ T # {} /\ \A i \in T : i \in 1..MaxVal /\ i <= MaxVal
  BY <1>1, <1>2 DEF OneTimeKeys, PreKeyIds
<1>4. \E i \in T : \A j \in T : j <= i
  <2> HIDE DEF T
  <2> QED
    BY <1>1, <1>3, GreatestNatural
<1>5. \E i \in T : \A e \in ToSet(stored[k]) : e.id <= i
  BY <1>4
<1>6. g \in T /\ \A e \in ToSet(stored[k]) : e.id <= g
  BY <1>5
<1>7. lastOf(stored[k]) = g
  BY DEF lastOf
<1> HIDE DEF g
<1> QED
  BY <1>3, <1>6, <1>7

LEMMA LoadTyped ==
  ASSUME PreKeysTypeOK, KeysAreMade, loadStoredLocalUser
  PROVE  /\ loaded' \in [Kinds -> Seq(OneTimeKeys)]
         /\ native' \in [Kinds -> [PreKeyIds -> Nat]]
         /\ \A k \in Kinds : \A i \in PreKeyIds :
              \/ native'[k][i] = native[k][i]
              \/ \E e \in ToSet(stored[k]) : e.id = i /\ native'[k][i] = e.gen
<1>1. native' = [k \in Kinds |-> restored(k)] /\ loaded' = stored
  BY DEF loadStoredLocalUser
<1>2. \A k \in Kinds : native'[k] = restored(k)
  BY <1>1
<1> QED
  BY <1>1, <1>2, Restored DEF PreKeysTypeOK

LEMMA UnlockTyped ==
  ASSUME PreKeysTypeOK, KeysAreMade, unlock PROVE PreKeysTypeOK'
<1>1. loadStoredLocalUser /\ Event
  BY DEF unlock
<1>2. /\ loaded' \in [Kinds -> Seq(OneTimeKeys)] /\ native' \in [Kinds -> [PreKeyIds -> Nat]]
      /\ events' \in 0..MaxEvents
  BY <1>1, LoadTyped, EventTyped
<1> QED
  BY <1>2 DEF PreKeysTypeOK, unlock, poolVars

LEMMA RestartTyped ==
  ASSUME PreKeysTypeOK, KeysAreMade, \A k \in Kinds : stored[k] # <<>>, restart
  PROVE  PreKeysTypeOK'
<1>1. loadStoredLocalUser /\ Event
  BY DEF restart
<1>2. /\ loaded' \in [Kinds -> Seq(OneTimeKeys)] /\ native' \in [Kinds -> [PreKeyIds -> Nat]]
      /\ events' \in 0..MaxEvents
  BY <1>1, LoadTyped, EventTyped
<1>3. last' \in [Kinds -> 1..MaxVal]
  <2>1. \A k \in Kinds : lastOf(stored[k]) \in 1..MaxVal
    BY LastOf
  <2> QED
    BY <2>1 DEF restart
<1>4. /\ lock' \in [Servers -> {0} \cup Refreshes] /\ calls' \in Seq(Task)
      /\ uploads' \subseteq Task
  BY DEF restart
<1> QED
  BY <1>2, <1>3, <1>4 DEF PreKeysTypeOK, restart, poolVars

LEMMA PreKeysTyped ==
  ASSUME PreKeysTypeOK, KeysAreMade, \A k \in Kinds : stored[k] # <<>>, PreKeysNext
  PROVE  PreKeysTypeOK'
BY UploadTyped, RefreshTyped, ReplenishTyped, SyncTyped, TakenTyped,
       DecryptTyped,
   UnlockTyped, RestartTyped DEF PreKeysNext, Refreshing

-----------------------------------------------------------------------------
(* What a replenishing makes is new, under ids that follow its start.      *)
LEMMA BatchIds ==
  ASSUME NEW k, NEW new \in Seq(OneTimeKeys), NEW start \in Nat, IsBatch(new, k, start),
         NEW i \in PreKeyIds
  PROVE  (\E e \in ToSet(new) : e.id = i) <=> i \in (start + 1)..(start + Batch)
<1>1. Batch \in Nat
  BY PreKeysAssumption
<1>2. i \in (start + 1)..(start + Batch) => i - start \in 1..Batch /\ new[i - start].id = i
  BY <1>1 DEF PreKeyIds, IsBatch
<1>3. \A j \in 1..Batch : start + j \in (start + 1)..(start + Batch)
  BY <1>1
<1> QED
  BY <1>2, <1>3 DEF ToSet, IsBatch

LEMMA Makes ==
  ASSUME PreKeysTypeOK, NEW t \in Task, NEW k \in Kinds, t.start + Batch < MaxVal,
         NEW new \in Seq(OneTimeKeys), IsBatch(new, k, t.start), Replenished(t, k, new)
  PROVE  /\ new # <<>>
         /\ \A j \in Kinds : \A i \in PreKeyIds :
              /\ timesMade'[j][i] = IF j = k /\ i \in (t.start + 1)..(t.start + Batch)
                                    THEN timesMade[j][i] + 1 ELSE timesMade[j][i]
              /\ native'[j][i] = IF j = k /\ i \in (t.start + 1)..(t.start + Batch)
                                 THEN timesMade[j][i] + 1 ELSE native[j][i]
         /\ \A e \in ToSet(new) : /\ e.id \in (t.start + 1)..(t.start + Batch)
                                  /\ e.gen = timesMade[k][e.id] + 1
         /\ \A j \in Kinds : stored'[j] = IF j = k THEN newest(stored[k] \o new) ELSE stored[j]
         /\ \A j \in Kinds : last'[j] = IF j = k THEN t.start + Batch - 1 ELSE last[j]
         /\ new[Len(new)].id = t.start + Batch
<1>1. k \in Kinds /\ t.start \in Nat \ {0} /\ Batch \in Nat \ {0}
  BY PreKeysAssumption DEF Task
<1>2. /\ timesMade \in [Kinds -> [PreKeyIds -> Nat]] /\ native \in [Kinds -> [PreKeyIds -> Nat]]
      /\ stored \in [Kinds -> Seq(OneTimeKeys)] /\ last \in [Kinds -> 1..MaxVal]
  BY DEF PreKeysTypeOK
<1>3. /\ new \in Seq(OneTimeKeys) /\ Len(new) = Batch
      /\ \A i \in 1..Batch : /\ new[i].id = t.start + i
                             /\ new[i].gen = timesMade[k][t.start + i] + 1
  BY DEF IsBatch
<1>6. \A i \in PreKeyIds :
        /\ storePreKeys(k, new, timesMade[k])[i] =
             IF i \in (t.start + 1)..(t.start + Batch) THEN timesMade[k][i] + 1
             ELSE timesMade[k][i]
        /\ storePreKeys(k, new, native[k])[i] =
             IF i \in (t.start + 1)..(t.start + Batch) THEN timesMade[k][i] + 1
             ELSE native[k][i]
  <2>1. \A i \in PreKeyIds : (\E e \in ToSet(new) : e.id = i)
                             <=> i \in (t.start + 1)..(t.start + Batch)
    BY <1>1, BatchIds
  <2> QED
    BY <2>1 DEF storePreKeys
<1>7. \A j \in Kinds : \A i \in PreKeyIds :
              /\ timesMade'[j][i] = IF j = k /\ i \in (t.start + 1)..(t.start + Batch)
                                    THEN timesMade[j][i] + 1 ELSE timesMade[j][i]
              /\ native'[j][i] = IF j = k /\ i \in (t.start + 1)..(t.start + Batch)
                                 THEN timesMade[j][i] + 1 ELSE native[j][i]
  BY <1>1, <1>2, <1>6 DEF Replenished
<1>8. \A e \in ToSet(new) : /\ e.id \in (t.start + 1)..(t.start + Batch)
                            /\ e.gen = timesMade[k][e.id] + 1
  BY <1>1, <1>3 DEF ToSet
<1>9. /\ \A j \in Kinds : stored'[j] = IF j = k THEN newest(stored[k] \o new) ELSE stored[j]
      /\ \A j \in Kinds : last'[j] = IF j = k THEN t.start + Batch - 1 ELSE last[j]
  BY <1>1, <1>2 DEF Replenished
<1>10. new # <<>> /\ new[Len(new)].id = t.start + Batch
  BY <1>1, <1>3
<1> QED
  BY <1>3, <1>7, <1>8, <1>9, <1>10

(* The calls are those of the refresh that began them.                     *)
LEMMA TasksTyped ==
  ASSUME PreKeysTypeOK, NEW s \in Servers, replenishPreKeys(s)
  PROVE  /\ Head(calls) \in Task /\ calls' = Tail(calls)
         /\ Head(calls).start + Batch < MaxVal
         /\ UNCHANGED <<poolVars, used, loaded, firsts, raced>>
         /\ \/ Replenished(Head(calls), Head(calls).kind,
                           fresh(Head(calls).kind, Head(calls).start))
            \/ UNCHANGED <<timesMade, native, stored, last, uploads>>
BY ReplenishStep, TailOfCalls DEF PreKeysTypeOK

(* Only a replenishing makes keys.                                         *)
LEMMA OthersMakeNone ==
  ASSUME PreKeysNext, ~ \E s \in Servers : replenishPreKeys(s)
  PROVE  UNCHANGED <<timesMade, stored>>
BY DEF PreKeysNext, Refreshing, uploadPreKeysToServer, refreshPreKeysForServer,
       syncPublicKeys, getRemoteKeys, decryptMessage, unlock, restart, deviceVars

(* The metadata is never empty.                                            *)
LEMMA StoredStays ==
  ASSUME PreKeysTypeOK, \A k \in Kinds : stored[k] # <<>>, PreKeysNext
  PROVE  \A k \in Kinds : stored'[k] # <<>>
<1>1. CASE \E s \in Servers : replenishPreKeys(s)
  <2>1. PICK s \in Servers : replenishPreKeys(s)
    BY <1>1
  <2> DEFINE t == Head(calls)
             k == t.kind
             new == fresh(k, t.start)
  <2>2. t \in Task /\ t.start + Batch < MaxVal
        /\ (Replenished(t, k, new) \/ UNCHANGED stored)
    BY <2>1, TasksTyped
  <2>3. k \in Kinds
    BY <2>2 DEF Task
  <2>5. new \in Seq(OneTimeKeys) /\ IsBatch(new, k, t.start)
    BY <2>2, <2>3, FreshKeys DEF PreKeysTypeOK, Task
  <2> HIDE DEF t, k
  <2>4. CASE Replenished(t, k, new)
    <3> HIDE DEF new
    <3>1. /\ new \in Seq(OneTimeKeys) /\ new # <<>>
          /\ \A j \in Kinds : stored'[j] = IF j = k THEN newest(stored[k] \o new) ELSE stored[j]
      BY <2>2, <2>3, <2>4, <2>5, Makes
    <3>2. stored[k] \o new \in Seq(OneTimeKeys) /\ stored[k] \o new # <<>>
      BY <2>3, <3>1 DEF PreKeysTypeOK
    <3> QED
      BY <3>1, <3>2, NewestKeys
  <2> QED
    BY <2>2, <2>4
<1> QED
  BY <1>1, OthersMakeNone

(* The keys that there are are those that were, and those just made.       *)
LEMMA NoKeysOfTheirOwn ==
  ASSUME PreKeysTypeOK, PreKeysNext, ~ \E s \in Servers : replenishPreKeys(s),
         NEW k \in Kinds, NEW e, IsKey(k, e)'
  PROVE  IsKey(k, e)
<1>1. /\ loaded \in [Kinds -> Seq(OneTimeKeys)] /\ stored \in [Kinds -> Seq(OneTimeKeys)]
      /\ pool \in [Servers -> [Kinds -> SUBSET OneTimeKeys]] /\ uploads \subseteq Task
  BY DEF PreKeysTypeOK
<1>2. CASE \E s \in Servers : uploadPreKeysToServer(s)
  <2>1. PICK s \in Servers : uploadPreKeysToServer(s)
    BY <1>2
  <2> DEFINE new == [j \in Kinds |-> bundle(loaded[j])]
  <2>2. new \in [Kinds -> SUBSET OneTimeKeys] /\ new[k] \subseteq ToSet(loaded[k])
    BY <1>1, BundleTyped, ToSetTyped
  <2>3. \A r \in Servers : \A x \in pool'[r][k] : x \in pool[r][k] \/ x \in ToSet(loaded[k])
    <3>1. CASE given(s, new)
      <4> HIDE DEF new
      <4> QED
        BY <3>1, <2>2, Given
    <3>2. CASE UNCHANGED pool
      BY <3>2
    <3> QED
      BY <3>1, <3>2, <2>1 DEF uploadPreKeysToServer
  <2>4. UNCHANGED <<stored, loaded, uploads, firsts>>
    BY <2>1 DEF uploadPreKeysToServer, deviceVars
  <2> QED
    BY <2>3, <2>4 DEF IsKey
<1>3. CASE \E t \in uploads : syncPublicKeys(t)
  <2>1. PICK t \in uploads : syncPublicKeys(t)
    BY <1>3
  <2>2. t.srv \in Servers /\ t.keys \in Seq(OneTimeKeys)
    BY <1>1 DEF Task
  <2> DEFINE new == [j \in Kinds |-> IF j = t.kind THEN ToSet(t.keys) ELSE {}]
  <2>3. new \in [Kinds -> SUBSET OneTimeKeys]
        /\ (\A x \in new[k] : k = t.kind /\ x \in ToSet(t.keys))
    BY <2>2, ToSetTyped
  <2>4. \A r \in Servers : \A x \in pool'[r][k] :
          x \in pool[r][k] \/ (k = t.kind /\ x \in ToSet(t.keys))
    <3>1. CASE given(t.srv, new)
      <4> HIDE DEF new
      <4> QED
        BY <3>1, <2>2, <2>3, Given
    <3>2. CASE UNCHANGED pool
      BY <3>2
    <3> QED
      BY <3>1, <3>2, <2>1 DEF syncPublicKeys
  <2>5. UNCHANGED <<stored, loaded, firsts>> /\ uploads' \subseteq uploads
    BY <2>1 DEF syncPublicKeys, deviceVars
  <2> QED
    BY <2>4, <2>5 DEF IsKey
<1>4. CASE \E s \in Servers : getRemoteKeys(s)
  <2>1. PICK s \in Servers : getRemoteKeys(s)
    BY <1>4
  <2>2. PICK p \in pool[s]["preKey"], q \in pool[s]["kyberPreKey"] :
           /\ p \in OneTimeKeys /\ q \in OneTimeKeys
           /\ firsts' = firsts \cup {First(s, p, q)}
           /\ pool' \in [Servers -> [Kinds -> SUBSET OneTimeKeys]]
           /\ \A r \in Servers : \A j \in Kinds :
                pool'[r][j] = IF r = s THEN pool[r][j] \ {IF j = "preKey" THEN p ELSE q}
                              ELSE pool[r][j]
    BY <2>1, Taken
  <2>3. keyOf(First(s, p, q), k) \in pool[s][k]
    BY DEF keyOf, First, Kinds
  <2>4. \A r \in Servers : pool'[r][k] \subseteq pool[r][k]
    BY <2>2
  <2>5. UNCHANGED <<stored, loaded, uploads>>
    BY <2>1 DEF getRemoteKeys, deviceVars
  <2> QED
    BY <2>2, <2>3, <2>4, <2>5 DEF IsKey
<1>5. CASE \E m \in firsts : decryptMessage(m)
  <2>1. PICK m \in firsts : decryptMessage(m)
    BY <1>5
  <2>2. PICK at \in {"read", "lost"} : firsts' = (firsts \ {m}) \cup {Now(m, at)}
    BY <2>1, Decrypted
  <2>3. keyOf(Now(m, at), k) = keyOf(m, k)
    BY NowTyped
  <2>4. UNCHANGED <<stored, loaded, pool, uploads>>
    BY <2>1 DEF decryptMessage, poolVars
  <2> QED
    BY <2>2, <2>3, <2>4 DEF IsKey
<1>6. CASE unlock \/ restart
  <2>1. UNCHANGED <<stored, pool, firsts>> /\ loaded' = stored /\ uploads' \subseteq uploads
    BY <1>6 DEF unlock, restart, loadStoredLocalUser, poolVars
  <2> QED
    BY <2>1 DEF IsKey
<1>7. CASE \E s \in Servers : refreshPreKeysForServer(s)
  BY <1>7 DEF refreshPreKeysForServer, IsKey, poolVars, deviceVars
<1> QED
  BY <1>2, <1>3, <1>4, <1>5, <1>6, <1>7 DEF PreKeysNext, Refreshing

LEMMA KeysStayMade ==
  ASSUME PreKeysTypeOK, KeysAreMade, PreKeysTypeOK', \A k \in Kinds : stored[k] # <<>>,
         PreKeysNext
  PROVE  KeysAreMade'
<1>0. /\ loaded \in [Kinds -> Seq(OneTimeKeys)] /\ stored \in [Kinds -> Seq(OneTimeKeys)]
      /\ pool \in [Servers -> [Kinds -> SUBSET OneTimeKeys]] /\ uploads \subseteq Task
      /\ timesMade \in [Kinds -> [PreKeyIds -> Nat]]
      /\ firsts \subseteq [srv : Servers, preKey : OneTimeKeys, kyberPreKey : OneTimeKeys,
                           at : {"sent", "read", "lost"}]
  BY DEF PreKeysTypeOK
<1>2. CASE \E s \in Servers : replenishPreKeys(s)
  <2>1. PICK s \in Servers : replenishPreKeys(s)
    BY <1>2
  <2> DEFINE t == Head(calls)
             k == t.kind
             new == fresh(k, t.start)
  <2>2. t \in Task /\ t.start + Batch < MaxVal
        /\ UNCHANGED <<poolVars, loaded, firsts>>
        /\ (Replenished(t, k, new) \/ UNCHANGED <<timesMade, stored, uploads>>)
    BY <2>1, TasksTyped
  <2>3. k \in Kinds
    BY <2>2 DEF Task
  <2>6. new \in Seq(OneTimeKeys) /\ IsBatch(new, k, t.start)
    BY <2>2, <2>3, FreshKeys DEF PreKeysTypeOK, Task
  <2>7. k = t.kind
    OBVIOUS
  <2> HIDE DEF t, k, new
  <2>4. CASE Replenished(t, k, new)
    <3>1. /\ new \in Seq(OneTimeKeys) /\ new # <<>>
          /\ \A e \in ToSet(new) : /\ e.id \in (t.start + 1)..(t.start + Batch)
                                   /\ e.gen = timesMade[k][e.id] + 1
          /\ \A j \in Kinds : stored'[j] = IF j = k THEN newest(stored[k] \o new) ELSE stored[j]
      BY <2>2, <2>3, <2>4, <2>6, Makes
    <3>2. \A j \in Kinds : \A i \in PreKeyIds :
            timesMade'[j][i] = IF j = k /\ i \in (t.start + 1)..(t.start + Batch)
                               THEN timesMade[j][i] + 1 ELSE timesMade[j][i]
      BY <2>2, <2>3, <2>4, <2>6, Makes
    <3>3. uploads' = uploads \cup {[t EXCEPT !.keys = new]}
      BY <2>4 DEF Replenished
    <3>4. ToSet(newest(stored[k] \o new)) \subseteq ToSet(stored[k]) \cup ToSet(new)
      <4>1. stored[k] \in Seq(OneTimeKeys)
        BY <1>0, <2>3
      <4>2. stored[k] \o new \in Seq(OneTimeKeys) /\ stored[k] \o new # <<>>
        BY <3>1, <4>1
      <4>3. ToSet(stored[k] \o new) \subseteq ToSet(stored[k]) \cup ToSet(new)
        <5>1. \A i \in 1..Len(stored[k] \o new) : (stored[k] \o new)[i] =
                IF i <= Len(stored[k]) THEN stored[k][i] ELSE new[i - Len(stored[k])]
          BY <3>1, <4>1
        <5>2. \A i \in 1..Len(stored[k] \o new) :
                i <= Len(stored[k]) \/ i - Len(stored[k]) \in 1..Len(new)
          BY <3>1, <4>1
        <5>3. DOMAIN (stored[k] \o new) = 1..Len(stored[k] \o new)
              /\ DOMAIN stored[k] = 1..Len(stored[k]) /\ DOMAIN new = 1..Len(new)
          BY <3>1, <4>1, <4>2
        <5> QED
          BY <5>1, <5>2, <5>3 DEF ToSet
      <4> QED
        BY <4>2, <4>3, NewestKeys
    <3>5. [t EXCEPT !.keys = new].keys = new /\ [t EXCEPT !.keys = new].kind = k
      BY <2>2, <2>7 DEF Task
    <3>6. ASSUME NEW j \in Kinds, NEW e, IsKey(j, e)', ~ IsKey(j, e)
          PROVE  j = k /\ e \in ToSet(new)
      <4>1. CASE e \in ToSet(stored'[j])
        BY <3>1, <3>4, <3>6, <4>1 DEF IsKey
      <4>2. CASE \E u \in uploads' : u.kind = j /\ e \in ToSet(u.keys)
        BY <3>3, <3>5, <3>6, <4>2 DEF IsKey
      <4>3. CASE \/ e \in ToSet(loaded'[j]) \/ \E r \in Servers : e \in pool'[r][j]
                 \/ \E m \in firsts' : e = keyOf(m, j)
        BY <2>2, <3>6, <4>3 DEF IsKey, poolVars
      <4> QED
        BY <3>6, <4>1, <4>2, <4>3 DEF IsKey
    <3>7. ASSUME NEW j \in Kinds, NEW e \in OneTimeKeys, IsKey(j, e)
          PROVE  e.gen <= timesMade'[j][e.id]
      <4>1. e.id \in PreKeyIds /\ e.gen \in Nat /\ e.gen <= timesMade[j][e.id]
        BY <3>7 DEF KeysAreMade, OneTimeKeys
      <4>2. timesMade[j][e.id] \in Nat
        BY <1>0, <4>1
      <4> QED
        BY <3>2, <4>1, <4>2
    <3>8. ASSUME NEW e \in ToSet(new) PROVE e.gen <= timesMade'[k][e.id]
      <4>1. e \in OneTimeKeys
        BY <3>1, ToSetTyped
      <4>2. e.id \in PreKeyIds /\ timesMade[k][e.id] + 1 \in Nat
        BY <1>0, <2>3, <4>1 DEF OneTimeKeys
      <4> QED
        BY <2>3, <3>1, <3>2, <4>2
    <3> QED
      BY <3>6, <3>7, <3>8 DEF KeysAreMade
  <2>5. CASE UNCHANGED <<timesMade, stored, uploads>>
    BY <2>2, <2>5 DEF KeysAreMade, IsKey, poolVars
  <2> QED
    BY <2>2, <2>4, <2>5
<1>3. CASE ~ \E s \in Servers : replenishPreKeys(s)
  BY <1>3, NoKeysOfTheirOwn, OthersMakeNone DEF KeysAreMade
<1> QED
  BY <1>2, <1>3

-----------------------------------------------------------------------------
(* The ids ahead of a kind that no two refreshes replenished at once.      *)
LEMMA RacedGrows == ASSUME PreKeysNext PROVE raced \subseteq raced'
BY DEF PreKeysNext, Refreshing, uploadPreKeysToServer, refreshPreKeysForServer,
       replenishPreKeys, syncPublicKeys, getRemoteKeys, decryptMessage, unlock, restart

LEMMA LastStays ==
  ASSUME PreKeysNext, ~ \E s \in Servers : replenishPreKeys(s), ~restart
  PROVE  UNCHANGED last
BY DEF PreKeysNext, Refreshing, uploadPreKeysToServer, refreshPreKeysForServer,
       syncPublicKeys, getRemoteKeys, decryptMessage, unlock, deviceVars

LEMMA IdsStayAhead ==
  ASSUME PreKeysTypeOK, CallsAreApart, \A k \in Kinds : stored[k] # <<>>, IdsMadeOnce,
         \A k \in Kinds \ raced : IdsAreAhead(k), PreKeysNext, NEW j \in Kinds \ raced'
  PROVE  IdsAreAhead(j)' /\ \A i \in PreKeyIds : timesMade'[j][i] <= 1
<1>1. j \in Kinds \ raced /\ IdsAreAhead(j) /\ \A i \in PreKeyIds : timesMade[j][i] <= 1
  BY RacedGrows DEF IdsMadeOnce
<1>2. /\ timesMade \in [Kinds -> [PreKeyIds -> Nat]] /\ last \in [Kinds -> 1..MaxVal]
      /\ stored \in [Kinds -> Seq(OneTimeKeys)]
  BY DEF PreKeysTypeOK
<1>3. CASE UNCHANGED <<timesMade, stored, last>>
  BY <1>1, <1>3 DEF IdsAreAhead
<1>4. CASE \E s \in Servers : replenishPreKeys(s)
  <2>1. PICK s \in Servers : replenishPreKeys(s)
    BY <1>4
  <2> DEFINE t == Head(calls)
             k == t.kind
             new == fresh(k, t.start)
  <2>2. t \in Task /\ t.start + Batch < MaxVal
        /\ (Replenished(t, k, new) \/ UNCHANGED <<timesMade, native, stored, last, uploads>>)
    BY <2>1, TasksTyped
  <2>3. k \in Kinds /\ t.start \in Nat \ {0}
    BY <2>2 DEF Task
  <2>4. new \in Seq(OneTimeKeys) /\ IsBatch(new, k, t.start)
    BY <1>2, <2>2, <2>3, FreshKeys
  <2>5. k \notin raced => t.start = last[k] + 1
    <3>1. calls \in Seq(Task) /\ calls # <<>>
      BY <2>1, ReplenishStep DEF PreKeysTypeOK
    <3>2. t = calls[1] /\ 1 \in 1..Len(calls)
      BY <3>1, TailOfCalls
    <3> QED
      BY <3>2 DEF CallsAreApart
  <2> HIDE DEF t, k, new
  <2>6. CASE Replenished(t, k, new)
    <3>1. /\ new # <<>> /\ new[Len(new)].id = t.start + Batch
          /\ \A n \in Kinds : stored'[n] = IF n = k THEN newest(stored[k] \o new) ELSE stored[n]
          /\ \A n \in Kinds : last'[n] = IF n = k THEN t.start + Batch - 1 ELSE last[n]
      BY <2>2, <2>3, <2>4, <2>6, Makes
    <3>2. \A n \in Kinds : \A i \in PreKeyIds :
            timesMade'[n][i] = IF n = k /\ i \in (t.start + 1)..(t.start + Batch)
                               THEN timesMade[n][i] + 1 ELSE timesMade[n][i]
      BY <2>2, <2>3, <2>4, <2>6, Makes
    <3>3. CASE j # k
      <4>1. stored'[j] = stored[j] /\ last'[j] = last[j]
            /\ \A i \in PreKeyIds : timesMade'[j][i] = timesMade[j][i]
        BY <1>1, <3>1, <3>2, <3>3
      <4> QED
        BY <1>1, <4>1 DEF IdsAreAhead
    <3>4. CASE j = k
      <4>1. t.start = last[j] + 1 /\ Batch \in Nat \ {0}
        BY <1>1, <2>5, <3>4, PreKeysAssumption
      <4>2. stored'[j][Len(stored'[j])].id = t.start + Batch
        <5>1. stored[j] \in Seq(OneTimeKeys)
          BY <1>1, <1>2
        <5>2. /\ stored[j] \o new \in Seq(OneTimeKeys) /\ stored[j] \o new # <<>>
              /\ (stored[j] \o new)[Len(stored[j] \o new)] = new[Len(new)]
          BY <2>4, <3>1, <5>1
        <5>3. newest(stored[j] \o new)[Len(newest(stored[j] \o new))] = new[Len(new)]
          BY <5>2, NewestKeys
        <5> QED
          BY <1>1, <3>1, <3>4, <5>3
      <4>3. last'[j] = t.start + Batch - 1
        BY <1>1, <3>1, <3>4
      <4>4. last[j] \in Nat /\ \A i \in PreKeyIds : i \in Nat /\ timesMade[j][i] \in Nat
        BY <1>1, <1>2, PreKeysAssumption DEF PreKeyIds
      <4>5. \A i \in PreKeyIds :
              timesMade'[j][i] = IF i \in (t.start + 1)..(t.start + Batch)
                                 THEN timesMade[j][i] + 1 ELSE timesMade[j][i]
        BY <1>1, <3>2, <3>4
      <4>6. \A i \in PreKeyIds : i > last[j] + 1 => timesMade[j][i] = 0
        BY <1>1 DEF IdsAreAhead
      <4>7. \A i \in PreKeyIds : timesMade'[j][i] > 0 => i <= t.start + Batch
        BY <4>1, <4>4, <4>5, <4>6
      <4>8. \A i \in PreKeyIds : i > last'[j] + 1 => timesMade'[j][i] = 0
        BY <4>1, <4>3, <4>4, <4>5, <4>6
      <4>9. \A i \in PreKeyIds : timesMade'[j][i] <= 1
        BY <1>1, <4>1, <4>4, <4>5, <4>6
      <4> QED
        BY <4>2, <4>7, <4>8, <4>9 DEF IdsAreAhead
    <3> QED
      BY <3>3, <3>4
  <2> QED
    BY <1>3, <2>2, <2>6
<1>5. CASE restart
  <2>1. UNCHANGED <<timesMade, stored>> /\ last'[j] = lastOf(stored[j])
    BY <1>1, <1>5 DEF restart
  <2>2. stored[j][Len(stored[j])] \in ToSet(stored[j])
        /\ stored[j][Len(stored[j])].id \in Nat
    <3>1. stored[j] \in Seq(OneTimeKeys) /\ stored[j] # <<>>
      BY <1>1, <1>2
    <3>2. Len(stored[j]) \in 1..Len(stored[j]) /\ stored[j][Len(stored[j])] \in OneTimeKeys
      BY <3>1
    <3> QED
      BY <3>1, <3>2 DEF ToSet, OneTimeKeys, PreKeyIds
  <2>3. /\ stored[j][Len(stored[j])].id <= lastOf(stored[j])
        /\ lastOf(stored[j]) \in Nat
    BY <1>1, <2>2, LastOf, PreKeysAssumption
  <2>4. \A i \in PreKeyIds : i \in Nat /\ timesMade[j][i] \in Nat
    BY <1>1, <1>2, PreKeysAssumption DEF PreKeyIds
  <2>5. \A i \in PreKeyIds : timesMade[j][i] > 0 => i <= stored[j][Len(stored[j])].id
    BY <1>1 DEF IdsAreAhead
  <2>6. \A i \in PreKeyIds : i > lastOf(stored[j]) + 1 => timesMade[j][i] = 0
    BY <2>2, <2>3, <2>4, <2>5
  <2> QED
    BY <1>1, <2>1, <2>5, <2>6 DEF IdsAreAhead
<1> QED
  BY <1>3, <1>4, <1>5, OthersMakeNone, LastStays

(* One call of a kind at a time.                                           *)
Apart(q, R) == \A i, j \in 1..Len(q) : q[i].kind \notin R =>
    /\ q[i].start = last[q[i].kind] + 1
    /\ q[i].kind = q[j].kind => i = j

LEMMA OneMoreApart ==
  ASSUME NEW q \in Seq(Task), NEW x \in Task, NEW R, Apart(q, R),
         x.start = last[x.kind] + 1,
         x.kind \notin R => \A i \in 1..Len(q) : q[i].kind # x.kind
  PROVE  Apart(q \o <<x>>, R)
<1> DEFINE p == q \o <<x>>
<1>1. /\ Len(p) = Len(q) + 1 /\ Len(q) \in Nat /\ p[Len(q) + 1] = x
      /\ \A i \in 1..Len(q) : p[i] = q[i]
  BY AppendsCall
<1> HIDE DEF p
<1>2. \A i \in 1..Len(p) : i \in 1..Len(q) \/ i = Len(q) + 1
  BY <1>1
<1>3. Apart(p, R)
  BY <1>1, <1>2 DEF Apart
<1> QED
  BY <1>3 DEF p

LEMMA CallsStayApart ==
  ASSUME PreKeysTypeOK, CallsAreApart, PreKeysNext PROVE CallsAreApart'
<1>1. calls \in Seq(Task) /\ raced \subseteq raced'
  BY RacedGrows DEF PreKeysTypeOK
<1>2. CASE UNCHANGED <<calls, last>>
  BY <1>1, <1>2 DEF CallsAreApart
<1>3. CASE restart
  BY <1>3 DEF restart, CallsAreApart
<1>4. CASE \E s \in Servers : replenishPreKeys(s)
  <2>1. PICK s \in Servers : replenishPreKeys(s)
    BY <1>4
  <2> DEFINE t == Head(calls)
             k == t.kind
             new == fresh(k, t.start)
  <2>2. t \in Task /\ t.start + Batch < MaxVal /\ calls' = Tail(calls) /\ raced' = raced
        /\ (Replenished(t, k, new) \/ UNCHANGED <<timesMade, native, stored, last, uploads>>)
    BY <2>1, TasksTyped
  <2>3. k \in Kinds /\ calls # <<>>
    BY <2>1, <2>2, ReplenishStep DEF Task
  <2>4. \A n \in Kinds : n # k => last'[n] = last[n]
    BY <2>2, <2>3 DEF Replenished, PreKeysTypeOK
  <2>5. /\ calls[1] = t /\ Len(calls') = Len(calls) - 1 /\ Len(calls) \in Nat
        /\ \A i \in 1..Len(calls') : calls'[i] = calls[i + 1] /\ calls[i + 1] \in Task
    BY <1>1, <2>2, <2>3, TailOfCalls
  <2> HIDE DEF t, new
  <2>6. \A i \in 1..Len(calls') : i + 1 \in 1..Len(calls) /\ i + 1 # 1 /\ 1 \in 1..Len(calls)
    BY <2>5
  <2>7. \A i \in 1..Len(calls') : calls'[i].kind \notin raced =>
          calls'[i].kind # k /\ calls'[i].kind \in Kinds
          /\ calls'[i].start = last[calls'[i].kind] + 1
    <3>1. SUFFICES ASSUME NEW i \in 1..Len(calls'), calls'[i].kind \notin raced
                   PROVE  /\ calls'[i].kind # k /\ calls'[i].kind \in Kinds
                          /\ calls'[i].start = last[calls'[i].kind] + 1
      OBVIOUS
    <3>2. calls'[i] = calls[i + 1] /\ calls[i + 1] \in Task /\ calls[1].kind = k
      BY <2>5, <3>1
    <3>3. i + 1 \in 1..Len(calls) /\ 1 \in 1..Len(calls) /\ i + 1 # 1
      BY <2>6, <3>1
    <3>4. calls[i + 1].kind \notin raced
      BY <3>1, <3>2
    <3>5. calls[i + 1].start = last[calls[i + 1].kind] + 1
          /\ (calls[i + 1].kind = calls[1].kind => i + 1 = 1)
      BY <3>3, <3>4 DEF CallsAreApart
    <3>6. calls[i + 1].kind \in Kinds
      BY <3>2 DEF Task
    <3> QED
      BY <3>2, <3>3, <3>5, <3>6
  <2>8. \A i, j \in 1..Len(calls') :
          calls'[i].kind \notin raced /\ calls'[i].kind = calls'[j].kind => i = j
    <3>1. ASSUME NEW i \in 1..Len(calls'), NEW j \in 1..Len(calls'),
                 calls'[i].kind \notin raced, calls'[i].kind = calls'[j].kind
          PROVE  i + 1 = j + 1
      BY <2>5, <2>6, <3>1 DEF CallsAreApart
    <3> QED
      BY <2>5, <3>1
  <2> QED
    BY <2>2, <2>4, <2>7, <2>8 DEF CallsAreApart
<1>5. CASE \E s \in Servers : refreshPreKeysForServer(s)
  <2>1. PICK s \in Servers : refreshPreKeysForServer(s)
    BY <1>5
  <2>2. PICK n \in Refreshes :
           /\ lock' = [lock EXCEPT ![s] = n]
           /\ calls' = (calls \o (IF "preKey" \in low(s) THEN <<Call(s, n, "preKey")>> ELSE <<>>))
                         \o (IF "kyberPreKey" \in low(s)
                             THEN <<Call(s, n, "kyberPreKey")>> ELSE <<>>)
    BY <2>1, RefreshCalls
  <2> DEFINE q == calls \o (IF "preKey" \in low(s) THEN <<Call(s, n, "preKey")>> ELSE <<>>)
  <2>3. \A k \in Kinds : /\ Call(s, n, k) \in Task /\ Call(s, n, k).kind = k
                         /\ Call(s, n, k).start = last[k] + 1
    BY CallTyped
  <2>4. last' = last /\ \A k \in low(s) : k \notin raced' =>
                          \A i \in 1..Len(calls) : calls[i].kind # k
    <3>1. raced' = raced \cup {k \in low(s) : \E t \in ToSet(calls) : t.kind = k}
          /\ last' = last
      BY <2>1 DEF refreshPreKeysForServer, deviceVars
    <3>2. \A i \in 1..Len(calls) : calls[i] \in ToSet(calls)
      BY <1>1 DEF ToSet
    <3> QED
      BY <3>1, <3>2
  <2>5. Apart(calls, raced')
    BY <1>1 DEF CallsAreApart, Apart
  <2>6. /\ q \in Seq(Task) /\ Apart(q, raced')
        /\ \A i \in 1..Len(q) : q[i].kind = "preKey" \/ \E j \in 1..Len(calls) : q[i] = calls[j]
    <3>1. CASE "preKey" \in low(s)
      <4> DEFINE x == Call(s, n, "preKey")
      <4>1. x \in Task /\ x.kind = "preKey" /\ x.start = last[x.kind] + 1
        BY <2>3 DEF Kinds
      <4> HIDE DEF x
      <4>2. /\ Apart(calls \o <<x>>, raced') /\ calls \o <<x>> \in Seq(Task)
            /\ Len(calls \o <<x>>) = Len(calls) + 1 /\ Len(calls) \in Nat
            /\ \A i \in 1..Len(calls) : (calls \o <<x>>)[i] = calls[i]
            /\ (calls \o <<x>>)[Len(calls) + 1] = x
        BY <1>1, <2>4, <2>5, <3>1, <4>1, OneMoreApart, AppendsCall
      <4>3. \A i \in 1..(Len(calls) + 1) : i \in 1..Len(calls) \/ i = Len(calls) + 1
        BY <4>2
      <4>4. q = calls \o <<x>>
        BY <3>1 DEF x
      <4> QED
        BY <4>1, <4>2, <4>3, <4>4
    <3>2. CASE "preKey" \notin low(s)
      <4>1. q = calls
        BY <1>1, <3>2, AppendsCall
      <4> QED
        BY <1>1, <2>5, <4>1
    <3> QED
      BY <3>1, <3>2
  <2> HIDE DEF q
  <2>7. Apart(calls', raced')
    <3>1. CASE "kyberPreKey" \in low(s)
      <4> DEFINE x == Call(s, n, "kyberPreKey")
      <4>1. x \in Task /\ x.kind = "kyberPreKey" /\ x.start = last[x.kind] + 1
        BY <2>3 DEF Kinds
      <4>2. calls' = q \o <<x>>
        BY <2>2, <3>1 DEF q
      <4> HIDE DEF x
      <4>3. x.kind \notin raced' => \A i \in 1..Len(q) : q[i].kind # x.kind
        BY <2>4, <2>6, <3>1, <4>1
      <4> QED
        BY <2>6, <4>1, <4>2, <4>3, OneMoreApart
    <3>2. CASE "kyberPreKey" \notin low(s)
      <4>1. calls' = q
        BY <2>2, <2>6, <3>2, AppendsCall DEF q
      <4> QED
        BY <2>6, <4>1
    <3> QED
      BY <3>1, <3>2
  <2> QED
    BY <2>4, <2>7 DEF CallsAreApart, Apart
<1> QED
  BY <1>2, <1>3, <1>4, <1>5
     DEF PreKeysNext, Refreshing, uploadPreKeysToServer, syncPublicKeys, getRemoteKeys,
         decryptMessage, unlock, deviceVars

-----------------------------------------------------------------------------
(* Keys that were made once are told apart by their ids.                   *)
LEMMA OneKey ==
  ASSUME PreKeysTypeOK, KeysAreMade, NEW k \in Kinds,
         \A i \in PreKeyIds : timesMade[k][i] <= 1,
         NEW e \in OneTimeKeys, IsKey(k, e)
  PROVE  e = [id |-> e.id, gen |-> 1] /\ timesMade[k][e.id] = 1
<1>1. e.gen \in Nat \ {0} /\ e.id \in PreKeyIds /\ e.gen <= timesMade[k][e.id]
  BY DEF KeysAreMade, OneTimeKeys
<1>2. timesMade[k][e.id] \in Nat /\ timesMade[k][e.id] <= 1
  BY <1>1 DEF PreKeysTypeOK
<1>3. e.gen = 1 /\ timesMade[k][e.id] = 1
  BY <1>1, <1>2
<1> QED
  BY <1>3 DEF OneTimeKeys

LEMMA KeyOfFirst ==
  ASSUME PreKeysTypeOK, NEW m \in firsts, NEW k \in Kinds
  PROVE  /\ keyOf(m, k) \in OneTimeKeys /\ keyOf(m, k).id \in PreKeyIds /\ IsKey(k, keyOf(m, k))
         /\ m.srv \in Servers
<1>1. keyOf(m, k) \in OneTimeKeys /\ m.srv \in Servers
  BY DEF PreKeysTypeOK, keyOf
<1> QED
  BY <1>1 DEF IsKey, OneTimeKeys

(* First messages only get read or lost, and new ones come from a pool.    *)
FirstsKept ==
    /\ \A w \in firsts : w.at # "sent" => w \in firsts'
    /\ \A w \in firsts : \E v \in firsts' :
         v.srv = w.srv /\ v.preKey = w.preKey /\ v.kyberPreKey = w.kyberPreKey

LEMMA FirstsAreKept ==
  ASSUME PreKeysTypeOK, PreKeysNext PROVE FirstsKept
<1>1. CASE \E m \in firsts : decryptMessage(m)
  <2>1. PICK m \in firsts : decryptMessage(m)
    BY <1>1
  <2>2. PICK at \in {"read", "lost"} : firsts' = (firsts \ {m}) \cup {Now(m, at)}
    BY <2>1, Decrypted
  <2>3. m.at = "sent"
    BY <2>1, Decrypted
  <2>4. /\ Now(m, at).srv = m.srv /\ Now(m, at).preKey = m.preKey
        /\ Now(m, at).kyberPreKey = m.kyberPreKey
    BY NowTyped
  <2> QED
    BY <2>2, <2>3, <2>4 DEF FirstsKept
<1>2. CASE firsts \subseteq firsts'
  BY <1>2 DEF FirstsKept
<1> QED
  BY <1>1, <1>2
     DEF PreKeysNext, Refreshing, uploadPreKeysToServer, refreshPreKeysForServer,
         replenishPreKeys, syncPublicKeys, getRemoteKeys, unlock, restart

LEMMA UsedStaysRead ==
  ASSUME PreKeysTypeOK, UsedIsRead, PreKeysNext PROVE UsedIsRead'
<1>1. CASE \E m \in firsts : decryptMessage(m)
  <2>1. PICK m \in firsts : decryptMessage(m)
    BY <1>1
  <2>2. CASE reads(m)
    <3>1. firsts' = (firsts \ {m}) \cup {Now(m, "read")} /\ m.at = "sent"
          /\ used' = used \cup {m.kyberPreKey.id}
      BY <2>1, <2>2, Decrypted
    <3>2. Now(m, "read").at = "read" /\ Now(m, "read").kyberPreKey = m.kyberPreKey
      BY NowTyped
    <3> QED
      BY <3>1, <3>2 DEF UsedIsRead
  <2>3. CASE ~reads(m)
    <3>1. used' = used
      BY <2>1, <2>3, Decrypted
    <3> QED
      BY <3>1, FirstsAreKept DEF UsedIsRead, FirstsKept
  <2> QED
    BY <2>2, <2>3
<1>2. CASE UNCHANGED used
  BY <1>2, FirstsAreKept DEF UsedIsRead, FirstsKept
<1> QED
  BY <1>1, <1>2
     DEF PreKeysNext, Refreshing, uploadPreKeysToServer, refreshPreKeysForServer,
         replenishPreKeys, syncPublicKeys, getRemoteKeys, unlock, restart, deviceVars

(* The store keeps what no message has used, also when it is restored.     *)
LEMMA NativeStays ==
  ASSUME PreKeysTypeOK, KeysAreMade, IdsMadeOnce, NEW k \in Kinds \ raced, NativeHas(k),
         PreKeysNext
  PROVE  NativeHas(k)'
<1>1. \A i \in PreKeyIds : timesMade[k][i] <= 1
  BY DEF IdsMadeOnce
<1>2. FirstsKept
  BY FirstsAreKept
<1>3. CASE UNCHANGED <<native, timesMade>>
  BY <1>2, <1>3 DEF NativeHas, FirstsKept
<1>4. CASE \E s \in Servers : replenishPreKeys(s)
  <2>1. PICK s \in Servers : replenishPreKeys(s)
    BY <1>4
  <2> DEFINE t == Head(calls)
             j == t.kind
             new == fresh(j, t.start)
  <2>2. t \in Task /\ t.start + Batch < MaxVal /\ firsts' = firsts
        /\ (Replenished(t, j, new) \/ UNCHANGED <<timesMade, native, stored, last, uploads>>)
    BY <2>1, TasksTyped
  <2>3. j \in Kinds
    BY <2>2 DEF Task
  <2>4. new \in Seq(OneTimeKeys) /\ IsBatch(new, j, t.start)
    BY <2>2, <2>3, FreshKeys DEF PreKeysTypeOK, Task
  <2> HIDE DEF t, j, new
  <2>5. CASE Replenished(t, j, new)
    <3>1. \A i \in PreKeyIds :
            \/ native'[k][i] = timesMade'[k][i]
            \/ native'[k][i] = native[k][i] /\ timesMade'[k][i] = timesMade[k][i]
      BY <2>2, <2>3, <2>4, <2>5, Makes
    <3> QED
      BY <2>2, <3>1 DEF NativeHas
  <2> QED
    BY <1>3, <2>2, <2>5
<1>5. CASE \E m \in firsts : decryptMessage(m)
  <2>1. PICK m \in firsts : decryptMessage(m)
    BY <1>5
  <2>2. timesMade' = timesMade
    BY <2>1 DEF decryptMessage
  <2>3. \A i \in PreKeyIds : native'[k][i] = native[k][i] \/ (reads(m) /\ i = keyOf(m, k).id)
    BY <2>1, Decrypted
  <2>4. reads(m) => \E w \in firsts' : w.at = "read" /\ keyOf(w, k).id = keyOf(m, k).id
    <3>1. reads(m) => Now(m, "read") \in firsts'
      BY <2>1, Decrypted
    <3>2. Now(m, "read").at = "read" /\ keyOf(Now(m, "read"), k) = keyOf(m, k)
      BY NowTyped
    <3> QED
      BY <3>1, <3>2
  <2> QED
    BY <1>2, <2>2, <2>3, <2>4 DEF NativeHas, FirstsKept
<1>6. CASE unlock \/ restart
  <2>1. loadStoredLocalUser /\ timesMade' = timesMade /\ firsts' = firsts
    BY <1>6 DEF unlock, restart
  <2>2. \A i \in PreKeyIds :
              \/ native'[k][i] = native[k][i]
              \/ \E e \in ToSet(stored[k]) : e.id = i /\ native'[k][i] = e.gen
    BY <2>1, LoadTyped
  <2>3. \A e \in ToSet(stored[k]) : e \in OneTimeKeys /\ IsKey(k, e)
    BY ToSetTyped DEF PreKeysTypeOK, IsKey
  <2>4. \A e \in ToSet(stored[k]) : timesMade[k][e.id] = 1 /\ e.gen = 1
    BY <1>1, <2>3, OneKey
  <2> QED
    BY <2>1, <2>2, <2>4 DEF NativeHas
<1> QED
  BY <1>3, <1>4, <1>5, <1>6
     DEF PreKeysNext, Refreshing, uploadPreKeysToServer, refreshPreKeysForServer,
         syncPublicKeys, getRemoteKeys, deviceVars

(* A key leaves the pool of a server for the one message that uses it.     *)
LEMMA PoolsStayApart ==
  ASSUME PreKeysTypeOK, KeysAreMade, IdsMadeOnce, PoolsApart, PreKeysNext
  PROVE  PoolsApart'
<1>1. raced \subseteq raced'
  BY RacedGrows
<1>2. CASE UNCHANGED <<pool, known, firsts>>
  BY <1>1, <1>2 DEF PoolsApart
<1>3. ASSUME UNCHANGED firsts, NEW s \in Servers, NEW new \in [Kinds -> SUBSET OneTimeKeys],
             given(s, new)
      PROVE  PoolsApart'
  <2> SUFFICES ASSUME NEW r \in Servers, NEW k \in Kinds
               PROVE  /\ \A e \in pool'[r][k] : e.id \in known'[r][k]
                      /\ \A m \in firsts : m.srv = r =>
                           /\ keyOf(m, k).id \in known'[r][k]
                           /\ k \notin raced' => \A e \in pool'[r][k] : e.id # keyOf(m, k).id
    BY <1>3 DEF PoolsApart, keyOf
  <2>1. /\ known[r][k] \subseteq known'[r][k]
        /\ \A e \in pool'[r][k] : e \in pool[r][k] \/
             (e \in new[k] /\ e.id \notin known[r][k] /\ e.id \in known'[r][k])
    BY <1>3, Given
  <2>2. /\ \A e \in pool[r][k] : e.id \in known[r][k]
        /\ \A m \in firsts : m.srv = r =>
             /\ keyOf(m, k).id \in known[r][k]
             /\ k \notin raced => \A e \in pool[r][k] : e.id # keyOf(m, k).id
    BY DEF PoolsApart
  <2> QED
    BY <1>1, <2>1, <2>2
<1>4. CASE \E s \in Servers : uploadPreKeysToServer(s)
  <2>1. PICK s \in Servers : uploadPreKeysToServer(s)
    BY <1>4
  <2> DEFINE new == [j \in Kinds |-> bundle(loaded[j])]
  <2>2. new \in [Kinds -> SUBSET OneTimeKeys]
    BY BundleTyped, ToSetTyped DEF PreKeysTypeOK
  <2>3. UNCHANGED firsts /\ (given(s, new) \/ UNCHANGED <<pool, known>>)
    BY <2>1 DEF uploadPreKeysToServer
  <2> HIDE DEF new
  <2> QED
    BY <1>2, <1>3, <2>2, <2>3
<1>5. CASE \E t \in uploads : syncPublicKeys(t)
  <2>1. PICK t \in uploads : syncPublicKeys(t)
    BY <1>5
  <2> DEFINE new == [j \in Kinds |-> IF j = t.kind THEN ToSet(t.keys) ELSE {}]
  <2>2. t.srv \in Servers /\ t.keys \in Seq(OneTimeKeys)
    BY DEF PreKeysTypeOK, Task
  <2>3. new \in [Kinds -> SUBSET OneTimeKeys]
    BY <2>2, ToSetTyped
  <2>4. UNCHANGED firsts /\ (given(t.srv, new) \/ UNCHANGED <<pool, known>>)
    BY <2>1 DEF syncPublicKeys
  <2> HIDE DEF new
  <2> QED
    BY <1>2, <1>3, <2>2, <2>3, <2>4
<1>6. CASE \E s \in Servers : getRemoteKeys(s)
  <2>1. PICK s \in Servers : getRemoteKeys(s)
    BY <1>6
  <2>2. PICK p \in pool[s]["preKey"], q \in pool[s]["kyberPreKey"] :
           /\ p \in OneTimeKeys /\ q \in OneTimeKeys
           /\ firsts' = firsts \cup {First(s, p, q)}
           /\ pool' \in [Servers -> [Kinds -> SUBSET OneTimeKeys]]
           /\ \A r \in Servers : \A k \in Kinds :
                pool'[r][k] = IF r = s THEN pool[r][k] \ {IF k = "preKey" THEN p ELSE q}
                              ELSE pool[r][k]
    BY <2>1, Taken
  <2>3. known' = known /\ raced' = raced
    BY <2>1 DEF getRemoteKeys
  <2> SUFFICES ASSUME NEW r \in Servers, NEW k \in Kinds
               PROVE  /\ \A e \in pool'[r][k] : e.id \in known[r][k]
                      /\ \A m \in firsts' : m.srv = r =>
                           /\ keyOf(m, k).id \in known[r][k]
                           /\ k \notin raced => \A e \in pool'[r][k] : e.id # keyOf(m, k).id
    BY <2>3 DEF PoolsApart, keyOf
  <2> DEFINE x == IF k = "preKey" THEN p ELSE q
  <2>4. /\ pool'[r][k] = IF r = s THEN pool[r][k] \ {x} ELSE pool[r][k]
        /\ x \in pool[s][k] /\ x \in OneTimeKeys
    BY <2>2 DEF Kinds
  <2>5. First(s, p, q).srv = s /\ keyOf(First(s, p, q), k) = x
    BY DEF First, keyOf
  <2> HIDE DEF x
  <2>6. /\ \A e \in pool[r][k] : e.id \in known[r][k]
        /\ \A m \in firsts : m.srv = r =>
             /\ keyOf(m, k).id \in known[r][k]
             /\ k \notin raced => \A e \in pool[r][k] : e.id # keyOf(m, k).id
    BY DEF PoolsApart
  <2>7. ASSUME r = s, k \notin raced, NEW e \in pool[r][k], e.id = x.id PROVE e = x
    <3>1. e \in OneTimeKeys /\ IsKey(k, e) /\ IsKey(k, x)
      BY <2>4, <2>7 DEF PreKeysTypeOK, IsKey
    <3>2. \A i \in PreKeyIds : timesMade[k][i] <= 1
      BY <2>7 DEF IdsMadeOnce
    <3>3. e = [id |-> e.id, gen |-> 1] /\ x = [id |-> x.id, gen |-> 1]
      BY <2>4, <3>1, <3>2, OneKey
    <3> QED
      BY <2>7, <3>3
  <2>8. \A e \in pool'[r][k] : e \in pool[r][k] /\ (r = s => e # x)
    BY <2>4
  <2>9. \A m \in firsts' : m \in firsts \/ m = First(s, p, q)
    BY <2>2
  <2> QED
    BY <2>4, <2>5, <2>6, <2>7, <2>8, <2>9
<1>7. CASE \E m \in firsts : decryptMessage(m)
  <2>1. PICK m \in firsts : decryptMessage(m)
    BY <1>7
  <2>2. PICK at \in {"read", "lost"} : firsts' = (firsts \ {m}) \cup {Now(m, at)}
    BY <2>1, Decrypted
  <2>3. UNCHANGED <<pool, known, raced>>
    BY <2>1 DEF decryptMessage, poolVars
  <2>4. Now(m, at).srv = m.srv /\ \A k \in Kinds : keyOf(Now(m, at), k) = keyOf(m, k)
    BY NowTyped
  <2>5. \A v \in firsts' : \E w \in firsts : v.srv = w.srv
                             /\ \A k \in Kinds : keyOf(v, k) = keyOf(w, k)
    BY <2>2, <2>4
  <2> QED
    BY <2>3, <2>5 DEF PoolsApart, keyOf
<1> QED
  BY <1>2, <1>4, <1>5, <1>6, <1>7
     DEF PreKeysNext, Refreshing, refreshPreKeysForServer, replenishPreKeys, unlock,
         restart, poolVars

LEMMA FirstsStayApart ==
  ASSUME PreKeysTypeOK, PoolsApart, NEW k \in Kinds \ raced, FirstsApart(k), PreKeysNext
  PROVE  FirstsApart(k)'
<1>1. CASE UNCHANGED firsts
  BY <1>1 DEF FirstsApart, keyOf
<1>2. CASE \E s \in Servers : getRemoteKeys(s)
  <2>1. PICK s \in Servers : getRemoteKeys(s)
    BY <1>2
  <2>2. PICK p \in pool[s]["preKey"], q \in pool[s]["kyberPreKey"] :
           /\ p \in OneTimeKeys /\ q \in OneTimeKeys
           /\ firsts' = firsts \cup {First(s, p, q)}
           /\ pool' \in [Servers -> [Kinds -> SUBSET OneTimeKeys]]
           /\ \A r \in Servers : \A j \in Kinds :
                pool'[r][j] = IF r = s THEN pool[r][j] \ {IF j = "preKey" THEN p ELSE q}
                              ELSE pool[r][j]
    BY <2>1, Taken
  <2> DEFINE x == First(s, p, q)
  <2>3. x.srv = s /\ keyOf(x, k) \in pool[s][k]
    BY DEF First, keyOf, Kinds
  <2>4. firsts' = firsts \cup {x}
    BY <2>2
  <2> HIDE DEF x
  <2>5. \A w \in firsts : w.srv = x.srv => keyOf(w, k).id # keyOf(x, k).id
    BY <2>3 DEF PoolsApart
  <2> QED
    BY <2>4, <2>5 DEF FirstsApart, keyOf
<1>3. CASE \E m \in firsts : decryptMessage(m)
  <2>1. PICK m \in firsts : decryptMessage(m)
    BY <1>3
  <2>2. PICK at \in {"read", "lost"} : firsts' = (firsts \ {m}) \cup {Now(m, at)}
    BY <2>1, Decrypted
  <2> DEFINE x == Now(m, at)
  <2>3. x.srv = m.srv /\ keyOf(x, k) = keyOf(m, k)
    BY NowTyped
  <2>4. firsts' = (firsts \ {m}) \cup {x}
    BY <2>2
  <2> HIDE DEF x
  <2>5. \A w \in firsts \ {m} : w.srv = x.srv => keyOf(w, k).id # keyOf(x, k).id
    BY <2>3 DEF FirstsApart
  <2> QED
    BY <2>4, <2>5 DEF FirstsApart, keyOf
<1> QED
  BY <1>1, <1>2, <1>3
     DEF PreKeysNext, Refreshing, uploadPreKeysToServer, refreshPreKeysForServer,
         replenishPreKeys, syncPublicKeys, unlock, restart

-----------------------------------------------------------------------------
PreKeysIInv ==
    /\ PreKeysTypeOK /\ KeysAreMade /\ CallsAreApart /\ PoolsApart /\ UsedIsRead
    /\ \A k \in Kinds : stored[k] # <<>>
    /\ \A k \in Kinds \ raced : IdsAreAhead(k) /\ NativeHas(k) /\ FirstsApart(k)
    /\ IdsMadeOnce /\ LostOnlyIfShared

(* A message that is lost: another one has used its key, from another      *)
(* server, for a server gives a key away once.                             *)
LEMMA KeyUsedElsewhere ==
  ASSUME PreKeysIInv, raced = {}, NEW m \in firsts, m.at = "sent", NEW k \in Kinds,
         \/ native[k][keyOf(m, k).id] # keyOf(m, k).gen
         \/ k = "kyberPreKey" /\ keyOf(m, k).id \in used
  PROVE  \E w \in firsts : w.at = "read" /\ w.srv # m.srv /\ keyOf(w, k) = keyOf(m, k)
<1>1. PreKeysTypeOK /\ KeysAreMade /\ \A i \in PreKeyIds : timesMade[k][i] <= 1
  BY DEF PreKeysIInv, IdsMadeOnce
<1>2. FirstsApart(k) /\ NativeHas(k) /\ UsedIsRead
  BY DEF PreKeysIInv
<1>3. \A w \in firsts : keyOf(w, k) = [id |-> keyOf(w, k).id, gen |-> 1]
                        /\ timesMade[k][keyOf(w, k).id] = 1 /\ keyOf(w, k).id \in PreKeyIds
  BY <1>1, OneKey, KeyOfFirst
<1>4. keyOf(m, k).gen = 1
  BY <1>3
<1>5. PICK w \in firsts : w.at = "read" /\ keyOf(w, k).id = keyOf(m, k).id
  <2>1. CASE native[k][keyOf(m, k).id] # keyOf(m, k).gen
    BY <1>2, <1>3, <1>4, <2>1 DEF NativeHas
  <2>2. CASE k = "kyberPreKey" /\ keyOf(m, k).id \in used
    <3>1. \A v : keyOf(v, k) = v.kyberPreKey
      BY <2>2 DEF keyOf
    <3> QED
      BY <1>2, <2>2, <3>1 DEF UsedIsRead
  <2> QED
    BY <2>1, <2>2
<1>6. keyOf(w, k) = keyOf(m, k)
  BY <1>3, <1>5
<1>7. w # m
  BY <1>5
<1> QED
  BY <1>2, <1>5, <1>6, <1>7 DEF FirstsApart

LEMMA LostStaysShared ==
  ASSUME PreKeysIInv, PreKeysNext PROVE LostOnlyIfShared'
<1> SUFFICES ASSUME raced' = {}, NEW m \in firsts', m.at = "lost" PROVE Shared(m)'
  BY DEF LostOnlyIfShared
<1>1. raced = {} /\ PreKeysTypeOK /\ FirstsKept
  BY RacedGrows, FirstsAreKept DEF PreKeysIInv
<1>2. ASSUME NEW w \in firsts, w.srv # m.srv,
             w.preKey = m.preKey \/ w.kyberPreKey = m.kyberPreKey
      PROVE  Shared(m)'
  <2>1. PICK v \in firsts' :
          v.srv = w.srv /\ v.preKey = w.preKey /\ v.kyberPreKey = w.kyberPreKey
    BY <1>1 DEF FirstsKept
  <2> QED
    BY <1>2, <2>1 DEF Shared
<1>3. CASE m \in firsts
  <2>1. Shared(m)
    BY <1>1, <1>3 DEF PreKeysIInv, LostOnlyIfShared
  <2> QED
    BY <1>2, <2>1 DEF Shared
<1>4. CASE m \notin firsts
  <2>1. PICK n \in firsts : decryptMessage(n)
    <3>1. CASE \E s \in Servers : getRemoteKeys(s)
      BY <1>4, <3>1 DEF getRemoteKeys
    <3> QED
      BY <1>4, <3>1
         DEF PreKeysNext, Refreshing, uploadPreKeysToServer, refreshPreKeysForServer,
             replenishPreKeys, syncPublicKeys, unlock, restart
  <2>2. PICK at \in {"read", "lost"} : /\ firsts' = (firsts \ {n}) \cup {Now(n, at)}
                                       /\ at = IF reads(n) THEN "read" ELSE "lost"
    BY <1>1, <2>1, Decrypted
  <2>3. m = Now(n, at) /\ n.at = "sent"
    BY <1>1, <1>4, <2>1, <2>2, Decrypted
  <2>4. m.srv = n.srv /\ m.preKey = n.preKey /\ m.kyberPreKey = n.kyberPreKey /\ m.at = at
    BY <1>1, <2>3, NowTyped
  <2>5. ~reads(n)
    BY <2>2, <2>4
  <2>6. \/ native["preKey"][n.preKey.id] # n.preKey.gen
        \/ native["kyberPreKey"][n.kyberPreKey.id] # n.kyberPreKey.gen
        \/ n.kyberPreKey.id \in used
    BY <2>5 DEF reads, holds
  <2>7. /\ keyOf(n, "preKey") = n.preKey /\ keyOf(n, "kyberPreKey") = n.kyberPreKey
        /\ \A w : keyOf(w, "preKey") = w.preKey /\ keyOf(w, "kyberPreKey") = w.kyberPreKey
    BY DEF keyOf
  <2>8. "preKey" \in Kinds /\ "kyberPreKey" \in Kinds
    BY DEF Kinds
  <2>9. CASE native["preKey"][n.preKey.id] # n.preKey.gen
    <3>1. PICK w \in firsts : w.srv # n.srv /\ keyOf(w, "preKey") = keyOf(n, "preKey")
      BY <1>1, <2>3, <2>7, <2>8, <2>9, KeyUsedElsewhere
    <3> QED
      BY <1>2, <2>4, <2>7, <3>1
  <2>10. CASE \/ native["kyberPreKey"][n.kyberPreKey.id] # n.kyberPreKey.gen
              \/ n.kyberPreKey.id \in used
    <3>1. PICK w \in firsts : w.srv # n.srv /\ keyOf(w, "kyberPreKey") = keyOf(n, "kyberPreKey")
      BY <1>1, <2>3, <2>7, <2>8, <2>10, KeyUsedElsewhere
    <3> QED
      BY <1>2, <2>4, <2>7, <3>1
  <2> QED
    BY <2>6, <2>9, <2>10
<1> QED
  BY <1>3, <1>4

LEMMA PreKeysStart == ASSUME PreKeysInit PROVE PreKeysIInv
<1>1. PreKeysTypeOK
  BY PreKeysInitTyped
<1>2. /\ stored = [k \in Kinds |-> firstKeys] /\ loaded = stored /\ native = timesMade
      /\ last = [k \in Kinds |-> Initial + 1] /\ raced = {} /\ firsts = {}
      /\ calls = <<>> /\ uploads = {} /\ used = {}
      /\ pool = [s \in Servers |-> [k \in Kinds |->
                  IF s = Default THEN bundle(firstKeys) ELSE {}]]
      /\ known = [s \in Servers |-> [k \in Kinds |-> {e.id : e \in pool[s][k]}]]
  BY DEF PreKeysInit
<1>3. \A k \in Kinds : \A i \in PreKeyIds :
        timesMade[k][i] = IF \E e \in ToSet(firstKeys) : e.id = i THEN 1 ELSE 0
  BY DEF PreKeysInit
<1>4. /\ Initial \in Nat \ {0} /\ MaxVal \in Nat
  BY PreKeysAssumption
<1>5. /\ \A e \in ToSet(firstKeys) : e.gen = 1 /\ e.id \in 2..(Initial + 1)
      /\ firstKeys # <<>> /\ firstKeys[Len(firstKeys)].id = Initial + 1
  BY <1>4, FirstKeys DEF ToSet
<1>6. KeysAreMade
  <2> SUFFICES ASSUME NEW k \in Kinds, NEW e \in OneTimeKeys, IsKey(k, e)
               PROVE  e.gen <= timesMade[k][e.id]
    BY DEF KeysAreMade
  <2>1. e \in ToSet(firstKeys)
    <3>1. \A s \in Servers : pool[s][k] \subseteq ToSet(firstKeys)
      BY <1>2, FirstKeys, BundleTyped
    <3> QED
      BY <1>2, <3>1 DEF IsKey
  <2>2. e.id \in PreKeyIds
    BY DEF OneTimeKeys
  <2> QED
    BY <1>3, <1>5, <2>1, <2>2
<1>7. CallsAreApart /\ UsedIsRead /\ LostOnlyIfShared /\ \A k \in Kinds : stored[k] # <<>>
  BY <1>2, <1>5 DEF CallsAreApart, UsedIsRead, LostOnlyIfShared
<1>8. PoolsApart
  BY <1>2 DEF PoolsApart
<1>9. IdsMadeOnce
  BY <1>3 DEF IdsMadeOnce
<1>10. \A k \in Kinds : NativeHas(k) /\ FirstsApart(k)
  BY <1>2 DEF NativeHas, FirstsApart
<1>11. ASSUME NEW k \in Kinds PROVE IdsAreAhead(k)
  <2>1. last[k] = Initial + 1 /\ stored[k][Len(stored[k])].id = Initial + 1
    BY <1>2, <1>5
  <2>2. \A i \in PreKeyIds : timesMade[k][i] # 0 => i \in 2..(Initial + 1)
    BY <1>3, <1>5
  <2>3. \A i \in PreKeyIds : timesMade[k][i] \in {0, 1} /\ i \in Nat
    BY <1>3, <1>4 DEF PreKeyIds
  <2> QED
    BY <1>4, <2>1, <2>2, <2>3 DEF IdsAreAhead
<1> QED
  BY <1>1, <1>6, <1>7, <1>8, <1>9, <1>10, <1>11 DEF PreKeysIInv

(* The inductive invariant holds throughout.                               *)
THEOREM PreKeysInductive == PreKeysSpec => []PreKeysIInv
<1>1. PreKeysInit => PreKeysIInv
  BY PreKeysStart
<1>2. PreKeysIInv /\ [PreKeysNext]_preKeyVars => PreKeysIInv'
  <2>1. ASSUME PreKeysIInv, PreKeysNext PROVE PreKeysIInv'
    <3>1. /\ PreKeysTypeOK /\ KeysAreMade /\ CallsAreApart /\ PoolsApart /\ UsedIsRead
          /\ \A k \in Kinds : stored[k] # <<>>
          /\ \A k \in Kinds \ raced : IdsAreAhead(k) /\ NativeHas(k) /\ FirstsApart(k)
          /\ IdsMadeOnce
      BY <2>1 DEF PreKeysIInv
    <3>2. PreKeysTypeOK' /\ \A k \in Kinds : stored'[k] # <<>>
      BY <2>1, <3>1, PreKeysTyped, StoredStays
    <3>3. KeysAreMade'
      BY <2>1, <3>1, <3>2, KeysStayMade
    <3>4. CallsAreApart' /\ PoolsApart' /\ UsedIsRead'
      BY <2>1, <3>1, CallsStayApart, PoolsStayApart, UsedStaysRead
    <3>5. \A k \in Kinds \ raced' :
            IdsAreAhead(k)' /\ \A i \in PreKeyIds : timesMade'[k][i] <= 1
      BY <2>1, <3>1, IdsStayAhead
    <3>6. \A k \in Kinds \ raced' : NativeHas(k)' /\ FirstsApart(k)'
      BY <2>1, <3>1, RacedGrows, NativeStays, FirstsStayApart
    <3>7. IdsMadeOnce'
      BY <3>5 DEF IdsMadeOnce
    <3>8. LostOnlyIfShared'
      BY <2>1, LostStaysShared
    <3> QED
      BY <3>2, <3>3, <3>4, <3>5, <3>6, <3>7, <3>8 DEF PreKeysIInv
  <2>2. ASSUME PreKeysIInv, UNCHANGED preKeyVars PROVE PreKeysIInv'
    <3>1. /\ UNCHANGED <<servers, pool, known, timesMade, native, used, stored, loaded>>
          /\ UNCHANGED <<last, lock, calls, uploads, firsts, raced, events>>
      BY <2>2 DEF preKeyVars, poolVars, deviceVars
    <3>2. PreKeysTypeOK' /\ KeysAreMade' /\ CallsAreApart'
      BY <2>2, <3>1 DEF PreKeysIInv, PreKeysTypeOK, KeysAreMade, IsKey, keyOf,
             CallsAreApart
    <3>3. PoolsApart' /\ UsedIsRead' /\ IdsMadeOnce' /\ LostOnlyIfShared'
          /\ \A k \in Kinds : stored'[k] # <<>>
      BY <2>2, <3>1 DEF PreKeysIInv, PoolsApart, keyOf, UsedIsRead,
             IdsMadeOnce,
                        LostOnlyIfShared, Shared
    <3>4. \A k \in Kinds \ raced' : IdsAreAhead(k)' /\ NativeHas(k)' /\ FirstsApart(k)'
      BY <2>2, <3>1 DEF PreKeysIInv, IdsAreAhead, NativeHas, FirstsApart, keyOf
    <3> QED
      BY <3>2, <3>3, <3>4 DEF PreKeysIInv
  <2> QED
    BY <2>1, <2>2
<1> QED
  BY <1>1, <1>2, PTL DEF PreKeysSpec

(* The types of the pre-keys, and ids under which no key is made twice, in *)
(* memory or after a restart, unless two refreshes replenish a kind at the *)
(* same time (session.service.ts replenishPreKeys).                        *)
THEOREM IdsAreNotReused == PreKeysSpec => []PreKeysInv
<1>1. PreKeysIInv => PreKeysInv
  BY DEF PreKeysIInv, PreKeysInv
<1> QED
  BY <1>1, PreKeysInductive, PTL

(* A first message is lost only if two servers gave the same key away, or  *)
(* two refreshes made it twice (server-registry.ts uploadPreKeysToServer). *)
THEOREM OnlySharedKeysLose == PreKeysSpec => []LostOnlyIfShared
<1>1. PreKeysIInv => LostOnlyIfShared
  BY DEF PreKeysIInv
<1> QED
  BY <1>1, PreKeysInductive, PTL

-----------------------------------------------------------------------------
(***************************************************************************)
(* SenderKeys, for any room: users, devices, faults and messages.          *)
(***************************************************************************)

(* What waits on a chain q.                                                *)
Fetches(q) == \E o \in ToSet(q) : o.op = "fetch"
Announces(q, u) == \E o \in ToSet(q) : o.op = "established" /\ u \in o.who
SetsUp(q, u) == \E o \in ToSet(q) : o.op = "setup" /\ u \in o.who
Hands(q, k, e) == \E o \in ToSet(q) : o.op = "give" /\ o.key = k /\ e \in o.to

(* A key is handed out at once: no operation is put before it.             *)
GivesFirst(q) == \A i \in DOMAIN q : q[i].op = "give" => i = 1
InitGives(q) == q # <<>> /\ Head(q).op = "give" /\ Head(q).on

(* A device with a row is in the room, which is flagged for its keys.      *)
RowsAreOfMembers ==
    /\ \A u \in Users : primary(u) \in linked
    /\ \A d \in Devices : d \notin InRoom => row[d] = none /\ ~Fetches(queue[d])
    /\ \A d \in Devices : GivesFirst(queue[d])
    /\ \A d \in Devices \ borrowed : row[d] # none =>
         flag /\ (d \in failed \cup killed \/ d \in uses \/ InitGives(queue[d]))

(* Whoever has a row has sent its key or will, whether the key is used or  *)
(* not.                                                                    *)
KeysAreServed ==
    \A d \in InRoom : \A u \in members \ {user(d)} :
        row[d] # none /\ {d, primary(u)} \cap (failed \cup killed) = {}
            /\ d \notin borrowed =>
            \/ Holds(primary(u), ownKey(d))
            \/ Hands(queue[d], ownKey(d), primary(u))
            \/ Announces(queue[d], u)
            \/ SetsUp(queue[primary(u)], user(d))

(* The messages in q that were served have their key, among those in K and *)
(* those on their way to d, H, and the key is there or a fetch comes first.*)
IsMessage(o) == o.op \in {"message", "packet"}

IsServed(o, d, K, H, U) ==
    /\ o.key \in H
    /\ d \notin U \/ o.again => o.key \in K

AreServed(q, d, K, H, U) == \A i \in DOMAIN q :
    IsMessage(q[i]) /\ q[i].due =>
        \/ IsServed(q[i], d, K, H, U)
        \/ q[i].key \in H /\ \E j \in 1..(i - 1) : q[j].op = "fetch"

Held(d) == {k \in Keys : Holds(d, k)}

MessagesAreServed == \A d \in Devices : d \notin failed \cup killed =>
    /\ AreServed(queue[d], d, keys[d], Held(d), untold)
    /\ d \notin untold /\ Arrived(d) # {} => Fetches(queue[d])

SenderKeysIInv ==
    /\ TypeOK /\ RowsAreOfMembers /\ KeysAreServed
    /\ MessagesAreServed /\ ServedIsRead

-----------------------------------------------------------------------------
(* Chains of operations.                                                   *)
LEMMA OpOf ==
  ASSUME NEW o \in Op
  PROVE  /\ o.op \in {"setup", "joined", "established"} => o.who \in SUBSET Users
         /\ o.op = "give" => o.key \in Keys /\ o.to \in SUBSET Devices /\ o.on \in BOOLEAN
         /\ IsMessage(o) => /\ o.key \in Keys /\ o.due \in BOOLEAN /\ o.again \in BOOLEAN
                            /\ [o EXCEPT !.again = TRUE] \in Op
<1>1. CASE o \in [op : {"fetch", "init", "sync", "send"}]
  BY <1>1 DEF IsMessage
<1>2. CASE o \in [op : {"setup", "joined", "established"}, who : SUBSET Users]
  BY <1>2 DEF IsMessage
<1>3. CASE o \in [op : {"give"}, key : Keys, to : SUBSET Devices, on : BOOLEAN]
  BY <1>3 DEF IsMessage
<1>4. CASE o \in [op : {"message", "packet"}, key : Keys, due : BOOLEAN, again : BOOLEAN]
  <2>1. [o EXCEPT !.again = TRUE] \in
          [op : {"message", "packet"}, key : Keys, due : BOOLEAN, again : BOOLEAN]
    BY <1>4
  <2> QED
    BY <1>4, <2>1 DEF Op
<1> QED
  BY <1>1, <1>2, <1>3, <1>4 DEF Op

LEMMA OpsMade ==
  /\ \A x \in {"fetch", "init", "sync", "send"} : do(x) \in Op
  /\ \A x \in {"setup", "joined", "established"}, S \in SUBSET Users :
        [op |-> x, who |-> S] \in Op
  /\ \A k \in Keys, S \in SUBSET Devices, b \in BOOLEAN : give(k, S, b) \in Op
<1>1. \A x \in {"fetch", "init", "sync", "send"} : do(x) \in Op
  BY DEF do, Op
<1>2. \A x \in {"setup", "joined", "established"}, S \in SUBSET Users :
        [op |-> x, who |-> S] \in Op
  BY DEF Op
<1>3. \A k \in Keys, S \in SUBSET Devices, b \in BOOLEAN : give(k, S, b) \in Op
  BY DEF give, Op
<1> QED
  BY <1>1, <1>2, <1>3

LEMMA InToSet ==
  ASSUME NEW q \in Seq(Op)
  PROVE  /\ ToSet(q) \subseteq Op
         /\ \A i \in DOMAIN q : q[i] \in ToSet(q)
         /\ \A o \in ToSet(q) : \E i \in DOMAIN q : o = q[i]
BY DEF ToSet

LEMMA ToSetJoined ==
  ASSUME NEW q \in Seq(Op), NEW t \in Seq(Op)
  PROVE  q \o t \in Seq(Op) /\ ToSet(q \o t) = ToSet(q) \cup ToSet(t)
<1>1. \A i \in DOMAIN q : q[i] = (q \o t)[i] /\ i \in DOMAIN (q \o t)
  OBVIOUS
<1>2. \A i \in DOMAIN t : t[i] = (q \o t)[Len(q) + i] /\ Len(q) + i \in DOMAIN (q \o t)
  OBVIOUS
<1>3. \A i \in DOMAIN (q \o t) : (q \o t)[i] \in ToSet(q) \cup ToSet(t)
  <2> TAKE i \in DOMAIN (q \o t)
  <2>1. CASE i <= Len(q)
    BY <2>1, InToSet
  <2>2. CASE i > Len(q)
    <3>1. i - Len(q) \in DOMAIN t /\ (q \o t)[i] = t[i - Len(q)]
      BY <2>2
    <3>2. t[i - Len(q)] \in ToSet(t)
      BY <3>1, InToSet
    <3> QED
      BY <3>1, <3>2
  <2> QED
    BY <2>1, <2>2
<1>4. ToSet(q) \subseteq ToSet(q \o t)
  BY <1>1 DEF ToSet
<1>5. ToSet(t) \subseteq ToSet(q \o t)
  BY <1>2 DEF ToSet
<1>6. ToSet(q \o t) \subseteq ToSet(q) \cup ToSet(t)
  <2> SUFFICES ASSUME NEW o \in ToSet(q \o t) PROVE o \in ToSet(q) \cup ToSet(t)
    OBVIOUS
  <2>1. PICK i \in DOMAIN (q \o t) : o = (q \o t)[i]
    BY DEF ToSet
  <2> QED
    BY <2>1, <1>3
<1>7. q \o t \in Seq(Op)
  OBVIOUS
<1> QED
  BY <1>4, <1>5, <1>6, <1>7

LEMMA ToSetTail ==
  ASSUME NEW q \in Seq(Op), q # <<>>
  PROVE  /\ Head(q) \in Op /\ Tail(q) \in Seq(Op)
         /\ ToSet(q) = {Head(q)} \cup ToSet(Tail(q))
<1>1. \A i \in DOMAIN Tail(q) : Tail(q)[i] = q[i + 1] /\ i + 1 \in DOMAIN q
  OBVIOUS
<1>2. \A i \in DOMAIN q : i = 1 \/ (i - 1 \in DOMAIN Tail(q) /\ q[i] = Tail(q)[i - 1])
  OBVIOUS
<1>3. 1 \in DOMAIN q /\ Head(q) = q[1]
  OBVIOUS
<1> QED
  BY <1>1, <1>2, <1>3 DEF ToSet

LEMMA ToSetShort ==
  /\ <<>> \in Seq(Op) /\ ToSet(<<>>) = {}
  /\ \A o \in Op : <<o>> \in Seq(Op) /\ ToSet(<<o>>) = {o}
  /\ \A o, p \in Op : <<o, p>> \in Seq(Op) /\ ToSet(<<o, p>>) = {o, p}
  /\ \A o, p, r \in Op : <<o, p, r>> \in Seq(Op) /\ ToSet(<<o, p, r>>) = {o, p, r}
BY DEF ToSet

LEMMA ConcatShort ==
  ASSUME NEW g \in Op, NEW x \in Op, NEW y \in Op
  PROVE  <<g>> \o <<x, y>> = <<g, x, y>> /\ <<g>> \o <<x>> = <<g, x>>
<1>1. <<g>> \in Seq(Op) /\ <<x, y>> \in Seq(Op) /\ <<x>> \in Seq(Op)
  OBVIOUS
<1>2. /\ <<g>> \o <<x, y>> \in Seq(Op) /\ <<g, x, y>> \in Seq(Op)
      /\ Len(<<g>> \o <<x, y>>) = 3 /\ Len(<<g, x, y>>) = 3
      /\ \A i \in 1..3 : (<<g>> \o <<x, y>>)[i] = <<g, x, y>>[i]
  BY <1>1
<1>3. /\ <<g>> \o <<x>> \in Seq(Op) /\ <<g, x>> \in Seq(Op)
      /\ Len(<<g>> \o <<x>>) = 2 /\ Len(<<g, x>>) = 2
      /\ \A i \in 1..2 : (<<g>> \o <<x>>)[i] = <<g, x>>[i]
  BY <1>1
<1>4. <<g>> \o <<x, y>> = <<g, x, y>>
  BY <1>2, SeqEqual
<1>5. <<g>> \o <<x>> = <<g, x>>
  BY <1>3, SeqEqual
<1> QED
  BY <1>4, <1>5

LEMMA LastInChain ==
  ASSUME NEW q \in Seq(Op), q # <<>>
  PROVE  Last(q) \in ToSet(q)
BY DEF ToSet, Last

(* More keys, and fewer devices that are told everything.                  *)
LEMMA AreServedStill ==
  ASSUME NEW q \in Seq(Op), NEW d, NEW K, NEW H, NEW U, NEW L, NEW G, NEW W,
         AreServed(q, d, K, H, U), K \subseteq L, H \subseteq G, U \subseteq W
  PROVE  AreServed(q, d, L, G, W)
BY DEF AreServed, IsServed

LEMMA AreServedJoined ==
  ASSUME NEW s \in Seq(Op), NEW q \in Seq(Op), NEW d, NEW K, NEW H, NEW U,
         AreServed(s, d, K, H, U), AreServed(q, d, K, H, U)
  PROVE  AreServed(s \o q, d, K, H, U)
<1> SUFFICES ASSUME NEW i \in DOMAIN (s \o q),
                    IsMessage((s \o q)[i]) /\ (s \o q)[i].due
             PROVE  \/ IsServed((s \o q)[i], d, K, H, U)
                    \/ /\ (s \o q)[i].key \in H
                       /\ \E j \in 1..(i - 1) : (s \o q)[j].op = "fetch"
  BY DEF AreServed
<1>1. CASE i <= Len(s)
  <2>1. i \in DOMAIN s /\ \A j \in 1..i : (s \o q)[j] = s[j]
    BY <1>1
  <2> QED
    BY <2>1 DEF AreServed
<1>2. CASE i > Len(s)
  <2>1. i - Len(s) \in DOMAIN q /\ (s \o q)[i] = q[i - Len(s)]
    BY <1>2
  <2>2. \A j \in 1..(i - Len(s) - 1) :
          j + Len(s) \in 1..(i - 1) /\ (s \o q)[j + Len(s)] = q[j]
    BY <1>2
  <2>3. \/ IsServed(q[i - Len(s)], d, K, H, U)
        \/ /\ q[i - Len(s)].key \in H
           /\ \E j \in 1..(i - Len(s) - 1) : q[j].op = "fetch"
    BY <2>1 DEF AreServed
  <2> QED
    BY <2>1, <2>2, <2>3
<1> QED
  BY <1>1, <1>2

(* A message put after the fetch is served if its key is on the way.       *)
LEMMA AreServedAppended ==
  ASSUME NEW q \in Seq(Op), NEW o \in Op, NEW d, NEW K, NEW H, NEW U,
         AreServed(q, d, K, H, U),
         IsMessage(o) /\ o.due => o.key \in H /\ (IsServed(o, d, K, H, U) \/ Fetches(q))
  PROVE  AreServed(q \o <<o>>, d, K, H, U)
<1> SUFFICES ASSUME NEW i \in DOMAIN (q \o <<o>>),
                    IsMessage((q \o <<o>>)[i]) /\ (q \o <<o>>)[i].due
             PROVE  \/ IsServed((q \o <<o>>)[i], d, K, H, U)
                    \/ /\ (q \o <<o>>)[i].key \in H
                       /\ \E j \in 1..(i - 1) : (q \o <<o>>)[j].op = "fetch"
  BY DEF AreServed
<1>1. CASE i <= Len(q)
  <2>1. i \in DOMAIN q /\ \A j \in 1..i : (q \o <<o>>)[j] = q[j]
    BY <1>1
  <2> QED
    BY <2>1 DEF AreServed
<1>2. CASE i > Len(q)
  <2>1. i = Len(q) + 1 /\ (q \o <<o>>)[i] = o /\ (\A j \in DOMAIN q : (q \o <<o>>)[j] = q[j])
    BY <1>2
  <2>2. CASE IsServed(o, d, K, H, U)
    BY <2>1, <2>2
  <2>3. CASE Fetches(q)
    <3>1. PICK j \in DOMAIN q : q[j].op = "fetch"
      BY <2>3, InToSet DEF Fetches
    <3>2. j \in 1..(i - 1) /\ (q \o <<o>>)[j].op = "fetch"
      BY <3>1, <2>1
    <3> QED
      BY <3>2, <2>1
  <2> QED
    BY <2>1, <2>2, <2>3
<1> QED
  BY <1>1, <1>2

LEMMA AreServedTail ==
  ASSUME NEW q \in Seq(Op), q # <<>>, NEW d, NEW K, NEW H, NEW U,
         AreServed(q, d, K, H, U), Head(q).op # "fetch" \/ H \subseteq K
  PROVE  AreServed(Tail(q), d, K, H, U)
<1> SUFFICES ASSUME NEW i \in DOMAIN Tail(q),
                    IsMessage(Tail(q)[i]) /\ Tail(q)[i].due
             PROVE  \/ IsServed(Tail(q)[i], d, K, H, U)
                    \/ /\ Tail(q)[i].key \in H
                       /\ \E j \in 1..(i - 1) : Tail(q)[j].op = "fetch"
  BY DEF AreServed
<1>1. i + 1 \in DOMAIN q /\ Tail(q)[i] = q[i + 1] /\ Head(q) = q[1]
  OBVIOUS
<1>2. \/ IsServed(q[i + 1], d, K, H, U)
      \/ /\ q[i + 1].key \in H
         /\ \E j \in 1..i : q[j].op = "fetch"
  BY <1>1 DEF AreServed
<1>3. CASE H \subseteq K
  BY <1>1, <1>2, <1>3 DEF IsServed
<1>4. CASE Head(q).op # "fetch"
  <2>1. \A j \in 1..i : q[j].op = "fetch" =>
          j - 1 \in 1..(i - 1) /\ Tail(q)[j - 1].op = "fetch"
    BY <1>4, <1>1
  <2> QED
    BY <1>1, <1>2, <2>1
<1> QED
  BY <1>3, <1>4

(* An operation that is not a message needs no key.                        *)
LEMMA AreServedOthers ==
  ASSUME NEW q \in Seq(Op), NEW d, NEW K, NEW H, NEW U,
         \A o \in ToSet(q) : ~IsMessage(o)
  PROVE  AreServed(q, d, K, H, U)
BY DEF AreServed, ToSet

-----------------------------------------------------------------------------
(* The types.                                                              *)
LEMMA DeviceOf ==
  /\ \A d \in Devices : user(d) \in Users
  /\ \A u \in Users : primary(u) \in Devices /\ user(primary(u)) = u
  /\ \A S \in SUBSET Users : expandTargets(S) \in SUBSET Devices
BY SenderKeysAssumption DEF user, primary, expandTargets

LEMMA SenderKeysStart == ASSUME Init PROVE TypeOK
<1> USE DEF Init
<1>1. linked \subseteq Devices /\ online \subseteq linked
  BY DeviceOf
<1>2. PICK E \in SUBSET Devices :
        /\ uses = E
        /\ row = [d \in Devices |-> IF d \in E THEN <<d, 1>> ELSE none]
        /\ made = [d \in Devices |-> IF d \in E THEN 1 ELSE 0]
        /\ keys = [d \in Devices |-> IF d \in E
                     THEN {[by |-> e, id |-> <<e, 1>>] : e \in E} ELSE {}]
  <2>1. (IF flag THEN {primary(u) : u \in Founders} ELSE {}) \in SUBSET Devices
    BY DeviceOf, SenderKeysAssumption
  <2> QED
    BY <2>1
<1>3. row \in [Devices -> Ids \cup {none}] /\ made \in [Devices -> 0..MaxMade]
  <2>1. \A d \in Devices : <<d, 1>> \in Ids
    BY SenderKeysAssumption DEF Ids
  <2>2. 0 \in 0..MaxMade /\ 1 \in 0..MaxMade
    BY SenderKeysAssumption
  <2> QED
    BY <1>2, <2>1, <2>2
<1>4. keys \in [Devices -> SUBSET Keys]
  <2>1. \A d \in Devices : [by |-> d, id |-> <<d, 1>>] \in Keys
    BY SenderKeysAssumption DEF Ids, Keys
  <2> QED
    BY <1>2, <2>1
<1>5. paired \in [Devices -> SUBSET Users]
  BY SenderKeysAssumption
<1>6. count \in [Devices -> 0..Limit]
  BY SenderKeysAssumption
<1>7. queue \in [Devices -> Seq(Op)]
  BY ToSetShort
<1>8. /\ members \subseteq Users /\ flag \in BOOLEAN /\ pending \subseteq Pending
      /\ acts \in 0..MaxActs /\ faults \in 0..MaxFaults
  <2>1. 0 \in 0..MaxActs /\ 0 \in 0..MaxFaults
    BY SenderKeysAssumption
  <2>2. flag \in BOOLEAN
    OBVIOUS
  <2> QED
    BY <2>1, <2>2, SenderKeysAssumption
<1> QED
  BY <1>1, <1>2, <1>3, <1>4, <1>5, <1>6, <1>7, <1>8 DEF TypeOK

LEMMA OutcomeTyped ==
  ASSUME TypeOK, NEW d \in Devices, Fails(d) \/ Succeeds
  PROVE  failed' \subseteq Devices /\ faults' \in 0..MaxFaults
<1>1. CASE Fails(d)
  <2>1. faults < MaxFaults /\ faults' = faults + 1 /\ faults \in 0..MaxFaults
    BY <1>1 DEF Fails, TypeOK
  <2>2. faults' \in 0..MaxFaults
    BY <2>1, SenderKeysAssumption
  <2> QED
    BY <1>1, <2>2 DEF Fails, TypeOK
<1>2. CASE Succeeds
  BY <1>2 DEF Succeeds, TypeOK
<1> QED
  BY <1>1, <1>2

LEMMA ChainOf ==
  ASSUME TypeOK, NEW d \in Devices, queue[d] # <<>>
  PROVE  Head(queue[d]) \in Op /\ Tail(queue[d]) \in Seq(Op)
BY ToSetTail DEF TypeOK

LEMMA Queued ==
  ASSUME TypeOK, NEW d \in Devices, queue[d] # <<>>,
         NEW s \in Seq(Op), NEW S, NEW t \in Seq(Op)
  PROVE  queued(d, s, S, t) \in [Devices -> Seq(Op)]
<1>1. \A e \in Devices : (IF e = d THEN s \o Tail(queue[d]) ELSE queue[e]) \in Seq(Op)
  BY ChainOf, ToSetJoined DEF TypeOK
<1>2. (IF TRUE THEN t ELSE <<>>) \in Seq(Op) /\ <<>> \in Seq(Op)
  BY ToSetShort
<1> QED
  BY <1>1, <1>2 DEF queued

LEMMA GoesOn ==
  ASSUME TypeOK, NEW d \in Devices, queue[d] # <<>>, NEW s \in Seq(Op), goesOn(d, s)
  PROVE  /\ queue' \in [Devices -> Seq(Op)]
         /\ queue'[d] = s \o Tail(queue[d])
         /\ \A e \in Devices \ {d} : queue'[e] = queue[e]
<1>1. queue' = queued(d, s, {}, <<>>) /\ <<>> \in Seq(Op)
  BY ToSetShort DEF goesOn
<1>2. queue' \in [Devices -> Seq(Op)]
  BY <1>1, Queued
<1>3. /\ s \o Tail(queue[d]) \in Seq(Op)
      /\ \A e \in Devices : queue[e] \in Seq(Op)
  BY ChainOf, ToSetJoined DEF TypeOK
<1>4. \A q \in Seq(Op) : q \o <<>> = q
  OBVIOUS
<1>5. \A e \in Devices :
        queue'[e] = (IF e = d THEN s \o Tail(queue[d]) ELSE queue[e]) \o <<>>
  BY <1>1 DEF queued
<1> QED
  BY <1>2, <1>3, <1>4, <1>5

LEMMA OwnKey ==
  ASSUME TypeOK, NEW d \in Devices, row[d] # none
  PROVE  ownKey(d) \in Keys
BY DEF TypeOK, ownKey, Keys

LEMMA SentTyped ==
  ASSUME TypeOK, NEW k \in Keys, NEW S \in SUBSET Devices, sent(k, S)
  PROVE  pending' \subseteq Pending /\ untold' \subseteq Devices
BY DEF TypeOK, sent, Pending

LEMMA UploadedTyped ==
  ASSUME TypeOK, NEW d \in Devices, queue[d] # <<>>, NEW o \in Op, o.op = "give",
         NEW S \in SUBSET o.to, upload(d, o, S)
  PROVE  /\ pending' \subseteq Pending /\ untold' \subseteq Devices
         /\ uses' \subseteq Devices /\ paired' \in [Devices -> SUBSET Users]
         /\ queue' \in [Devices -> Seq(Op)]
<1>1. o.key \in Keys /\ S \in SUBSET Devices
  BY OpOf
<1>2. pending' \subseteq Pending /\ untold' \subseteq Devices
  BY <1>1, SentTyped DEF upload
<1>3. uses' \subseteq Devices /\ paired' \in [Devices -> SUBSET Users]
  BY <1>1, DeviceOf DEF upload, TypeOK
<1>4. queue' \in [Devices -> Seq(Op)]
  BY Queued, OpsMade, ToSetShort DEF upload
<1> QED
  BY <1>2, <1>3, <1>4

LEMMA DistributeTyped ==
  ASSUME TypeOK, NEW d \in Devices, distributeSenderKey(d) PROVE TypeOK'
<1>1. queue[d] # <<>> /\ Head(queue[d]) \in Op /\ Head(queue[d]).op = "give"
  BY ChainOf DEF distributeSenderKey, Runs
<1>2. /\ pending' \subseteq Pending /\ untold' \subseteq Devices
      /\ uses' \subseteq Devices /\ paired' \in [Devices -> SUBSET Users]
      /\ queue' \in [Devices -> Seq(Op)]
  <2>1. CASE \E S \in SUBSET Head(queue[d]).to : upload(d, Head(queue[d]), S)
    BY <2>1, <1>1, UploadedTyped
  <2>2. CASE goesOn(d, <<>>) /\ UNCHANGED <<pending, untold, paired, uses>>
    BY <2>2, <1>1, Queued, ToSetShort DEF goesOn, TypeOK
  <2> QED
    BY <2>1, <2>2 DEF distributeSenderKey
<1>3. failed' \subseteq Devices /\ faults' \in 0..MaxFaults
  BY OutcomeTyped DEF distributeSenderKey
<1> QED
  BY <1>2, <1>3 DEF distributeSenderKey, TypeOK, serverVars, keyVars

LEMMA NewKey ==
  ASSUME TypeOK, NEW d \in Devices, made[d] < MaxMade
  PROVE  /\ <<d, made[d] + 1>> \in Ids
         /\ [by |-> d, id |-> <<d, made[d] + 1>>] \in Keys
         /\ made[d] + 1 \in 0..MaxMade
<1>1. made[d] \in 0..MaxMade
  BY DEF TypeOK
<1>2. made[d] + 1 \in 1..MaxMade
  BY <1>1, SenderKeysAssumption
<1> QED
  BY <1>2 DEF Ids, Keys

LEMMA InitializeTyped ==
  ASSUME TypeOK, NEW d \in Devices, initializeSenderKeys(d) PROVE TypeOK'
<1>1. queue[d] # <<>>
  BY DEF initializeSenderKeys, Runs
<1>2. failed' \subseteq Devices /\ faults' \in 0..MaxFaults
  BY OutcomeTyped DEF initializeSenderKeys
<1>3. /\ row' \in [Devices -> Ids \cup {none}] /\ made' \in [Devices -> 0..MaxMade]
      /\ keys' \in [Devices -> SUBSET Keys] /\ count' \in [Devices -> 0..Limit]
      /\ queue' \in [Devices -> Seq(Op)] /\ flag' \in BOOLEAN
  <2>1. CASE goesOn(d, <<>>) /\ UNCHANGED <<keyVars, flag>>
    BY <2>1, <1>1, Queued, ToSetShort DEF goesOn, TypeOK, keyVars
  <2>2. CASE /\ made[d] < MaxMade /\ flag' = TRUE
             /\ LET id == <<d, made[d] + 1>>
                    k == [by |-> d, id |-> id]
                IN  /\ made' = [made EXCEPT ![d] = @ + 1]
                    /\ keys' = [keys EXCEPT ![d] = @ \cup {k}]
                    /\ row' = [row EXCEPT ![d] = id]
                    /\ count' = [count EXCEPT ![d] = 0]
                    /\ goesOn(d, <<give(k, expandTargets(members \ {user(d)}),
                                        TRUE)>>)
    <3>1. expandTargets(members \ {user(d)}) \in SUBSET Devices
      BY DeviceOf DEF TypeOK
    <3>2. give([by |-> d, id |-> <<d, made[d] + 1>>],
               expandTargets(members \ {user(d)}), TRUE) \in Op
      BY <2>2, <3>1, NewKey, OpsMade
    <3>3. queue' \in [Devices -> Seq(Op)]
      BY <2>2, <3>2, <1>1, Queued, ToSetShort DEF goesOn
    <3>4. made' \in [Devices -> 0..MaxMade] /\ row' \in [Devices -> Ids \cup {none}]
      BY <2>2, NewKey DEF TypeOK
    <3>5. keys' \in [Devices -> SUBSET Keys]
      BY <2>2, NewKey DEF TypeOK
    <3>6. count' \in [Devices -> 0..Limit] /\ flag' \in BOOLEAN
      BY <2>2, SenderKeysAssumption DEF TypeOK
    <3> QED
      BY <3>3, <3>4, <3>5, <3>6
  <2> QED
    BY <2>1, <2>2 DEF initializeSenderKeys
<1> QED
  BY <1>2, <1>3 DEF initializeSenderKeys, TypeOK, serverVars

LEMMA ProcessTyped ==
  ASSUME TypeOK, NEW d \in Devices, NEW A \in SUBSET Arrived(d), process(d, A)
  PROVE  /\ keys' \in [Devices -> SUBSET Keys] /\ pending' \subseteq Pending
         /\ row' \in [Devices -> Ids \cup {none}] /\ count' \in [Devices -> 0..Limit]
         /\ borrowed' \subseteq Devices
<1>1. A \subseteq Pending /\ (\A p \in A : p.key \in Keys /\ p.key.id \in Ids)
  BY DEF Arrived, TypeOK, Pending, Keys
<1>2. keys' \in [Devices -> SUBSET Keys] /\ pending' \subseteq Pending
  BY <1>1 DEF process, TypeOK
<1>3. row' \in [Devices -> Ids \cup {none}] /\ count' \in [Devices -> 0..Limit]
      /\ borrowed' \subseteq Devices
  <2>1. CASE UNCHANGED <<row, count, borrowed>>
    BY <2>1 DEF TypeOK
  <2>2. CASE /\ \E p \in fromSiblings(d, A) : row' = [row EXCEPT ![d] = p.key.id]
             /\ count' = [count EXCEPT ![d] = 0]
             /\ borrowed' = borrowed \cup {d}
    <3>1. row' \in [Devices -> Ids \cup {none}]
      BY <2>2, <1>1 DEF TypeOK, fromSiblings
    <3>2. count' \in [Devices -> 0..Limit]
      BY <2>2, SenderKeysAssumption DEF TypeOK
    <3> QED
      BY <2>2, <3>1, <3>2 DEF TypeOK
  <2> QED
    BY <2>1, <2>2 DEF process
<1> QED
  BY <1>2, <1>3

LEMMA FetchTyped ==
  ASSUME TypeOK, NEW d \in Devices, fetchAndProcessPendingSenderKeys(d)
  PROVE  TypeOK'
<1>1. queue[d] # <<>>
  BY DEF fetchAndProcessPendingSenderKeys, Runs
<1>2. failed' \subseteq Devices /\ faults' \in 0..MaxFaults
  BY OutcomeTyped DEF fetchAndProcessPendingSenderKeys
<1>3. PICK A \in SUBSET Arrived(d) : process(d, A)
  BY DEF fetchAndProcessPendingSenderKeys
<1>4. uses' \subseteq Devices
  BY DEF fetchAndProcessPendingSenderKeys, TypeOK
<1>5. queue' \in [Devices -> Seq(Op)]
  <2>1. PICK s \in {<<>>, <<do("init")>>} : goesOn(d, s)
    BY DEF fetchAndProcessPendingSenderKeys
  <2> QED
    BY <2>1, <1>1, Queued, ToSetShort, OpsMade DEF goesOn
<1> QED
  BY <1>2, <1>3, <1>4, <1>5, ProcessTyped
     DEF fetchAndProcessPendingSenderKeys, TypeOK, serverVars

LEMMA MessageTyped ==
  ASSUME TypeOK, NEW d \in Devices, NEW e \in Devices, row[d] # none,
         NEW t \in {"message", "packet"}
  PROVE  /\ message(t, e, ownKey(d)) \in Op
         /\ IsMessage(message(t, e, ownKey(d)))
<1>1. Holds(e, ownKey(d)) \in BOOLEAN
  BY DEF Holds
<1> QED
  BY <1>1, OwnKey DEF message, Op, IsMessage

LEMMA Encrypted ==
  ASSUME TypeOK, NEW d \in Devices, queue[d] # <<>>, row[d] # none,
         NEW t \in {"message", "packet"}, encryptWithSenderKey(d, t)
  PROVE  queue' \in [Devices -> Seq(Op)]
<1>1. \A e \in Devices : (IF e = d THEN Tail(queue[d]) ELSE queue[e]) \in Seq(Op)
  BY ChainOf DEF TypeOK
<1>2. \A e \in Devices : <<message(t, e, ownKey(d))>> \in Seq(Op)
  BY MessageTyped, ToSetShort
<1> QED
  BY <1>1, <1>2, ToSetShort DEF encryptWithSenderKey

LEMMA SendTyped ==
  ASSUME TypeOK, NEW d \in Devices, sendMessage(d) PROVE TypeOK'
<1>1. queue[d] # <<>>
  BY DEF sendMessage, Runs
<1>2. failed' \subseteq Devices /\ faults' \in 0..MaxFaults
  BY OutcomeTyped DEF sendMessage
<1>3. queue' \in [Devices -> Seq(Op)] /\ count' \in [Devices -> 0..Limit]
  <2>1. CASE Groupwise(d)
    <3>1. queue' \in [Devices -> Seq(Op)]
      BY <2>1, <1>1, Encrypted DEF sendMessage, Groupwise
    <3>2. count[d] \in 0..Limit /\ ~(count[d] >= Limit)
      BY <2>1 DEF sendMessage, Groupwise, shouldRotate, TypeOK
    <3>3. count[d] + 1 \in 0..Limit
      BY <3>2, SenderKeysAssumption
    <3> QED
      BY <3>1, <3>3, <2>1 DEF sendMessage, TypeOK
  <2>2. CASE ~Groupwise(d)
    <3>1. queue' \in [Devices -> Seq(Op)]
      BY <2>2, <1>1, GoesOn, ToSetShort DEF sendMessage, encryptPairwise
    <3> QED
      BY <3>1, <2>2 DEF sendMessage, TypeOK
  <2> QED
    BY <2>1, <2>2
<1> QED
  BY <1>2, <1>3 DEF sendMessage, TypeOK, serverVars

LEMMA RotateTyped ==
  ASSUME TypeOK, NEW d \in Devices, rotateSenderKey(d) PROVE TypeOK'
<1> DEFINE k == [by |-> d, id |-> <<d, made[d] + 1>>]
           T == expandTargets(members \ {user(d)})
<1>1. queue[d] # <<>> /\ made[d] < MaxMade
  BY DEF rotateSenderKey, Runs
<1>2. k \in Keys /\ T \in SUBSET Devices
  BY <1>1, NewKey, DeviceOf DEF TypeOK
<1>3. made' \in [Devices -> 0..MaxMade] /\ keys' \in [Devices -> SUBSET Keys]
  BY <1>1, NewKey DEF rotateSenderKey, TypeOK
<1>4. /\ failed' \subseteq Devices /\ faults' \in 0..MaxFaults
      /\ pending' \subseteq Pending /\ untold' \subseteq Devices
      /\ paired' \in [Devices -> SUBSET Users] /\ count' \in [Devices -> 0..Limit]
      /\ queue' \in [Devices -> Seq(Op)]
  <2>1. CASE \E S \in SUBSET T :
               /\ IF S = T THEN Succeeds ELSE Fails(d)
               /\ sent(k, S)
               /\ paired' = [paired EXCEPT ![d] = @ \cup {user(e) : e \in S}]
               /\ count' = [count EXCEPT ![d] = 0]
               /\ queue' = queued(d, <<do("send")>>, told(S), <<do("fetch")>>)
    <3>1. PICK S \in SUBSET T :
               /\ IF S = T THEN Succeeds ELSE Fails(d)
               /\ sent(k, S)
               /\ paired' = [paired EXCEPT ![d] = @ \cup {user(e) : e \in S}]
               /\ count' = [count EXCEPT ![d] = 0]
               /\ queue' = queued(d, <<do("send")>>, told(S), <<do("fetch")>>)
      BY <2>1
    <3> HIDE DEF k, T
    <3>2. S \in SUBSET Devices
      BY <1>2
    <3>3. failed' \subseteq Devices /\ faults' \in 0..MaxFaults
      BY <3>1, OutcomeTyped
    <3>4. pending' \subseteq Pending /\ untold' \subseteq Devices
      BY <3>1, <3>2, <1>2, SentTyped
    <3>5. paired' \in [Devices -> SUBSET Users] /\ count' \in [Devices -> 0..Limit]
      <4>1. {user(e) : e \in S} \subseteq Users
        BY <3>2, DeviceOf
      <4>2. paired' \in [Devices -> SUBSET Users]
        BY <4>1, <3>1 DEF TypeOK
      <4>3. count' \in [Devices -> 0..Limit]
        BY <3>1, SenderKeysAssumption DEF TypeOK
      <4> QED
        BY <4>2, <4>3
    <3>6. queue' \in [Devices -> Seq(Op)]
      BY <3>1, <1>1, Queued, OpsMade, ToSetShort
    <3> QED
      BY <3>3, <3>4, <3>5, <3>6
  <2>2. CASE /\ Fails(d) /\ encryptPairwise(d)
             /\ UNCHANGED <<pending, untold, paired, count>>
    <3>1. failed' \subseteq Devices /\ faults' \in 0..MaxFaults
      BY <2>2, OutcomeTyped
    <3>2. queue' \in [Devices -> Seq(Op)]
      BY <2>2, <1>1, Queued, ToSetShort DEF encryptPairwise, goesOn
    <3> QED
      BY <3>1, <3>2, <2>2 DEF TypeOK
  <2> QED
    BY <2>1, <2>2 DEF rotateSenderKey
<1> HIDE DEF k, T
<1> QED
  BY <1>3, <1>4 DEF rotateSenderKey, TypeOK, serverVars

LEMMA DecryptKeyTyped ==
  ASSUME TypeOK, NEW d \in Devices, NEW t \in {"message", "packet"},
         decryptWithSenderKey(d, t)
  PROVE  TypeOK'
<1>1. queue[d] # <<>> /\ Head(queue[d]) \in Op /\ IsMessage(Head(queue[d]))
  BY ChainOf DEF decryptWithSenderKey, Runs, IsMessage
<1>2. failed' \subseteq Devices /\ faults' \in 0..MaxFaults
  BY OutcomeTyped DEF decryptWithSenderKey
<1>3. /\ <<do("fetch"), [Head(queue[d]) EXCEPT !.again = TRUE]>> \in Seq(Op)
      /\ <<>> \in Seq(Op)
  BY <1>1, OpOf, OpsMade, ToSetShort
<1>4. queue' \in [Devices -> Seq(Op)] /\ lost' \subseteq Devices
  <2>1. CASE fetchesFirst(d, Head(queue[d]))
    <3>1. queue' \in [Devices -> Seq(Op)]
      BY <2>1, <1>1, <1>3, GoesOn DEF decryptWithSenderKey
    <3> QED
      BY <3>1, <2>1 DEF decryptWithSenderKey, TypeOK
  <2>2. CASE ~fetchesFirst(d, Head(queue[d]))
    <3>1. queue' \in [Devices -> Seq(Op)]
      BY <2>2, <1>1, <1>3, GoesOn DEF decryptWithSenderKey
    <3> QED
      BY <3>1, <2>2 DEF decryptWithSenderKey, TypeOK
  <2> QED
    BY <2>1, <2>2
<1> QED
  BY <1>2, <1>4 DEF decryptWithSenderKey, TypeOK, serverVars, keyVars

LEMMA GivesTyped ==
  ASSUME TypeOK, NEW d \in Devices, NEW S \in SUBSET Users
  PROVE  /\ gives(d, S) \in Seq(Op)
         /\ createSenderKeySession(d, S) => keys' \in [Devices -> SUBSET Keys]
         /\ setSessions(d, S) => paired' \in [Devices -> SUBSET Users]
<1>1. gives(d, S) \in Seq(Op)
  <2>1. CASE Redistributes(d)
    <3>1. give(ownKey(d), expandTargets(S), FALSE) \in Op
      BY <2>1, OwnKey, DeviceOf, OpsMade DEF Redistributes
    <3> QED
      BY <3>1, ToSetShort DEF gives
  <2>2. CASE ~Redistributes(d)
    BY <2>2, ToSetShort DEF gives
  <2> QED
    BY <2>1, <2>2
<1>2. createSenderKeySession(d, S) => keys' \in [Devices -> SUBSET Keys]
  <2>1. CASE Redistributes(d)
    <3>1. ownKey(d) \in Keys
      BY <2>1, OwnKey DEF Redistributes
    <3> QED
      BY <3>1 DEF createSenderKeySession, TypeOK
  <2>2. CASE ~Redistributes(d)
    BY <2>2 DEF createSenderKeySession, TypeOK
  <2> QED
    BY <2>1, <2>2
<1>3. setSessions(d, S) => paired' \in [Devices -> SUBSET Users]
  BY DEF setSessions, TypeOK
<1> QED
  BY <1>1, <1>2, <1>3

LEMMA SetUpTyped ==
  ASSUME TypeOK, NEW d \in Devices, setUp(d) PROVE TypeOK'
<1>1. queue[d] # <<>> /\ Head(queue[d]) \in Op /\ Head(queue[d]).op = "setup"
  BY ChainOf DEF setUp, Runs
<1>2. Head(queue[d]).who \in SUBSET Users
  BY <1>1, OpOf
<1>3. failed' \subseteq Devices /\ faults' \in 0..MaxFaults
  BY OutcomeTyped DEF setUp
<1>4. paired' \in [Devices -> SUBSET Users]
  BY <1>2, GivesTyped DEF setUp
<1>5. queue' \in [Devices -> Seq(Op)]
  <2>1. {user(d)} \in SUBSET Users
    BY DeviceOf
  <2>2. [op |-> "established", who |-> {user(d)}] \in Op
    BY <2>1, OpsMade
  <2>3. /\ <<[op |-> "established", who |-> {user(d)}]>> \in Seq(Op)
        /\ <<do("fetch"), do("init")>> \in Seq(Op) /\ <<>> \in Seq(Op)
    BY <2>2, OpsMade, ToSetShort
  <2>4. PICK T \in SUBSET Head(queue[d]).who :
          queue' = queued(d, IF Cardinality(Head(queue[d]).who) + 1 >= Threshold
                             THEN <<do("fetch"), do("init")>> ELSE <<>>,
                          {e \in InRoom : user(e) \in T},
                          <<[op |-> "established", who |-> {user(d)}]>>)
    BY DEF setUp
  <2> QED
    BY <2>3, <2>4, <1>1, Queued
<1> QED
  BY <1>3, <1>4, <1>5 DEF setUp, TypeOK, serverVars, keyVars

LEMMA JoinedTyped ==
  ASSUME TypeOK, NEW d \in Devices, userJoined(d) PROVE TypeOK'
<1>1. queue[d] # <<>> /\ Head(queue[d]) \in Op /\ Head(queue[d]).op = "joined"
  BY ChainOf DEF userJoined, Runs
<1>2. Strangers(d, Head(queue[d]).who) \in SUBSET Users
  BY <1>1, OpOf DEF Strangers
<1>3. failed' \subseteq Devices /\ faults' \in 0..MaxFaults
  BY OutcomeTyped DEF userJoined
<1>4. paired' \in [Devices -> SUBSET Users] /\ keys' \in [Devices -> SUBSET Keys]
  BY <1>2, GivesTyped DEF userJoined, TypeOK
<1>5. queue' \in [Devices -> Seq(Op)]
  <2>1. gives(d, Strangers(d, Head(queue[d]).who)) \in Seq(Op) /\ <<>> \in Seq(Op)
    BY <1>2, GivesTyped, ToSetShort
  <2> QED
    BY <2>1, <1>1, GoesOn DEF userJoined
<1> QED
  BY <1>3, <1>4, <1>5 DEF userJoined, TypeOK, serverVars

LEMMA EstablishedTyped ==
  ASSUME TypeOK, NEW d \in Devices, sessionEstablished(d) PROVE TypeOK'
<1>1. queue[d] # <<>> /\ Head(queue[d]) \in Op /\ Head(queue[d]).op = "established"
  BY ChainOf DEF sessionEstablished, Runs
<1>2. Head(queue[d]).who \in SUBSET Users
  BY <1>1, OpOf
<1>3. failed' \subseteq Devices /\ faults' \in 0..MaxFaults
  BY OutcomeTyped DEF sessionEstablished
<1>4. keys' \in [Devices -> SUBSET Keys]
  BY <1>2, GivesTyped DEF sessionEstablished
<1>5. queue' \in [Devices -> Seq(Op)]
  BY <1>1, <1>2, GivesTyped, Queued, ToSetShort DEF sessionEstablished, goesOn
<1> QED
  BY <1>3, <1>4, <1>5 DEF sessionEstablished, TypeOK, serverVars

(* What onConnected goes on with: a gift for strangers, then the fetch.    *)
LEMMA AfterConnect ==
  ASSUME NEW d
  PROVE  /\ fetchPendingSenderKeysForServer(d) \in Seq(Op)
         /\ ToSet(fetchPendingSenderKeysForServer(d)) \subseteq {do("init"), do("fetch")}
BY OpsMade, ToSetShort DEF fetchPendingSenderKeysForServer

LEMMA ConnectedGoesOn ==
  ASSUME TypeOK, NEW d \in Devices, onConnected(d)
  PROVE  \E s \in Seq(Op) :
           /\ goesOn(d, s)
           /\ paired' \in [Devices -> SUBSET Users]
           /\ keys' \in [Devices -> SUBSET Keys]
           /\ s = fetchPendingSenderKeysForServer(d)
              \/ \E g \in Op : /\ s = <<g>> \o fetchPendingSenderKeysForServer(d)
                               /\ g.op = "give" /\ ~g.on
<1> DEFINE N == Strangers(d, members)
           G == give(ownKey(d), expandTargets(N), FALSE)
           f == fetchPendingSenderKeysForServer(d)
           welcomed == flag /\ row[d] # none /\ N # {}
<1>1. N \in SUBSET Users /\ f \in Seq(Op)
  BY AfterConnect DEF Strangers, TypeOK
<1>2. CASE Fails(d) /\ goesOn(d, f) /\ UNCHANGED <<paired, keys>>
  BY <1>1, <1>2 DEF TypeOK
<1>3. CASE /\ setSessions(d, N)
           /\ keys' = IF welcomed THEN [keys EXCEPT ![d] = @ \cup {ownKey(d)}]
                      ELSE keys
           /\ goesOn(d, (IF welcomed THEN <<G>> ELSE <<>>) \o f)
  <2>1. paired' \in [Devices -> SUBSET Users]
    BY <1>1, <1>3, GivesTyped
  <2>2. CASE welcomed
    <3>1. G \in Op /\ G.op = "give" /\ ~G.on
      BY <2>2, <1>1, OwnKey, DeviceOf, OpsMade DEF give
    <3>2. <<G>> \o f \in Seq(Op)
      <4>1. <<G>> \in Seq(Op)
        BY <3>1, ToSetShort
      <4> HIDE DEF G, f
      <4> QED
        BY <4>1, <1>1, ToSetJoined
    <3>3. keys' \in [Devices -> SUBSET Keys]
      BY <2>2, <1>3, OwnKey DEF TypeOK
    <3> HIDE DEF G, f
    <3> QED
      BY <3>1, <3>2, <3>3, <2>1, <2>2, <1>3 DEF f
  <2>3. CASE ~welcomed
    <3>1. <<>> \o f = f
      BY <1>1
    <3> HIDE DEF G, f, welcomed
    <3> QED
      BY <3>1, <2>1, <2>3, <1>1, <1>3 DEF f, TypeOK
  <2> QED
    BY <2>2, <2>3
<1> QED
  BY <1>2, <1>3 DEF onConnected

LEMMA ConnectedTyped ==
  ASSUME TypeOK, NEW d \in Devices, onConnected(d) PROVE TypeOK'
<1>1. queue[d] # <<>>
  BY DEF onConnected, Runs
<1>2. failed' \subseteq Devices /\ faults' \in 0..MaxFaults
  BY OutcomeTyped DEF onConnected
<1>3. uses' \subseteq Devices
  BY DEF onConnected, TypeOK
<1>4. /\ queue' \in [Devices -> Seq(Op)] /\ paired' \in [Devices -> SUBSET Users]
      /\ keys' \in [Devices -> SUBSET Keys]
  <2>1. PICK s \in Seq(Op) : /\ goesOn(d, s)
                            /\ paired' \in [Devices -> SUBSET Users]
                            /\ keys' \in [Devices -> SUBSET Keys]
    BY ConnectedGoesOn
  <2> QED
    BY <2>1, <1>1, Queued, ToSetShort DEF goesOn
<1> QED
  BY <1>2, <1>3, <1>4 DEF onConnected, TypeOK, serverVars

LEMMA LinkedTyped ==
  ASSUME TypeOK, NEW d \in Devices, NEW e \in Devices, deviceLinked(d, e)
  PROVE  TypeOK'
<1>1. failed' \subseteq Devices /\ faults' \in 0..MaxFaults
  BY OutcomeTyped DEF deviceLinked
<1>2. linking' \subseteq Devices \X Devices
  BY DEF deviceLinked, TypeOK
<1>3. CASE Redistributes(d)
  <2>1. ownKey(d) \in Keys /\ {e} \in SUBSET Devices
    BY <1>3, OwnKey DEF Redistributes
  <2>2. keys' \in [Devices -> SUBSET Keys]
    <3>1. keys' = [keys EXCEPT ![d] = @ \cup {ownKey(d)}]
      BY <1>3 DEF deviceLinked
    <3> QED
      BY <2>1, <3>1 DEF TypeOK
  <2>3. /\ pending' \subseteq Pending /\ untold' \subseteq Devices
        /\ queue' \in [Devices -> Seq(Op)]
    <3>1. CASE /\ sent(ownKey(d), {e})
               /\ queue' = [queue EXCEPT ![e] =
                     @ \o (IF e \in told({e}) THEN <<do("fetch")>> ELSE <<>>)]
      <4>1. pending' \subseteq Pending /\ untold' \subseteq Devices
        BY <3>1, <2>1, SentTyped
      <4>2. (IF e \in told({e}) THEN <<do("fetch")>> ELSE <<>>) \in Seq(Op)
        BY OpsMade, ToSetShort
      <4>3. queue[e] \o (IF e \in told({e}) THEN <<do("fetch")>> ELSE <<>>) \in Seq(Op)
        BY <4>2, ToSetJoined DEF TypeOK
      <4> QED
        BY <4>1, <4>3, <3>1 DEF TypeOK
    <3>2. CASE UNCHANGED <<pending, untold, queue>>
      BY <3>2 DEF TypeOK
    <3> QED
      BY <3>1, <3>2, <1>3 DEF deviceLinked
  <2> QED
    BY <2>2, <2>3, <1>1, <1>2 DEF deviceLinked, TypeOK, serverVars
<1>4. CASE ~Redistributes(d)
  BY <1>1, <1>2, <1>4 DEF deviceLinked, TypeOK, serverVars
<1> QED
  BY <1>3, <1>4

LEMMA JoinRoomTyped ==
  ASSUME TypeOK, NEW u \in Users, joinRoom(u) PROVE TypeOK'
<1>1. /\ [op |-> "setup", who |-> members] \in Op
      /\ [op |-> "joined", who |-> {u}] \in Op
  BY OpsMade DEF TypeOK
<1>2. queue' \in [Devices -> Seq(Op)]
  BY <1>1, ToSetShort DEF joinRoom, TypeOK
<1>3. members' \subseteq Users /\ uses' \subseteq Devices
  BY DeviceOf DEF joinRoom, TypeOK
<1> QED
  BY <1>2, <1>3 DEF joinRoom, TypeOK, keyVars

LEMMA ActsTyped == ASSUME TypeOK, Acts PROVE acts' \in 0..MaxActs
<1>1. acts \in 0..MaxActs /\ acts < MaxActs /\ acts' = acts + 1
  BY DEF TypeOK, Acts
<1> QED
  BY <1>1, SenderKeysAssumption

LEMMA DeleteRoomTyped ==
  ASSUME TypeOK, NEW u \in Users, deleteRoom(u) PROVE TypeOK'
<1>1. acts' \in 0..MaxActs
  BY ActsTyped DEF deleteRoom
<1>2. queue' \in [Devices -> Seq(Op)]
  BY ToSetShort DEF deleteRoom, TypeOK
<1>3. /\ row' \in [Devices -> Ids \cup {none}] /\ count' \in [Devices -> 0..Limit]
      /\ paired' \in [Devices -> SUBSET Users] /\ untold' \subseteq Devices
      /\ members' \subseteq Users /\ uses' \subseteq Devices
  <2>1. primary(u) \in Devices /\ 0 \in 0..Limit
    BY DeviceOf, SenderKeysAssumption
  <2>2. row' \in [Devices -> Ids \cup {none}] /\ count' \in [Devices -> 0..Limit]
    BY <2>1 DEF deleteRoom, TypeOK
  <2>3. paired' \in [Devices -> SUBSET Users] /\ members' \subseteq Users
    BY <2>1 DEF deleteRoom, TypeOK
  <2>4. untold' \subseteq Devices /\ uses' \subseteq Devices
    BY <2>1 DEF deleteRoom, TypeOK
  <2> QED
    BY <2>2, <2>3, <2>4
<1> QED
  BY <1>1, <1>2, <1>3 DEF deleteRoom, TypeOK

LEMMA UserTyped ==
  ASSUME TypeOK, NEW d \in Devices,
         sendEnvelope(d) \/ link(d) \/ drop(d) \/ kill(d) \/ connect(d)
  PROVE  TypeOK'
<1>1. CASE sendEnvelope(d)
  <2>1. acts' \in 0..MaxActs
    BY <1>1, ActsTyped DEF sendEnvelope
  <2>2. queue' \in [Devices -> Seq(Op)]
    BY <1>1, OpsMade DEF sendEnvelope, TypeOK
  <2> QED
    BY <2>1, <2>2, <1>1 DEF sendEnvelope, TypeOK, serverVars, keyVars
<1>2. CASE link(d)
  <2>1. acts' \in 0..MaxActs
    BY <1>2, ActsTyped DEF link
  <2>2. queue' \in [Devices -> Seq(Op)]
    BY <1>2, OpsMade, ToSetShort DEF link, TypeOK
  <2>3. linking' \subseteq Devices \X Devices
    BY <1>2 DEF link, TypeOK, Siblings
  <2> QED
    BY <2>1, <2>2, <2>3, <1>2 DEF link, TypeOK, keyVars
<1>3. CASE drop(d) \/ kill(d)
  <2>1. CASE drop(d)
    BY <2>1 DEF drop, TypeOK, serverVars, keyVars
  <2>2. CASE kill(d)
    <3>1. queue' \in [Devices -> Seq(Op)]
      BY <2>2, ToSetShort DEF kill, TypeOK
    <3>2. lost' \subseteq Devices /\ linking' \subseteq Devices \X Devices
      BY <2>2 DEF kill, TypeOK
    <3> QED
      BY <2>2, <3>1, <3>2 DEF kill, TypeOK, serverVars, keyVars
  <2> QED
    BY <1>3, <2>1, <2>2
<1>4. CASE connect(d)
  <2>1. queue' \in [Devices -> Seq(Op)]
    BY <1>4, OpsMade DEF connect, TypeOK
  <2> QED
    BY <2>1, <1>4 DEF connect, TypeOK, serverVars, keyVars
<1> QED
  BY <1>1, <1>2, <1>3, <1>4

LEMMA SenderKeysTyped == ASSUME TypeOK, Next PROVE TypeOK'
<1>1. ASSUME NEW d \in Devices, Works(d) PROVE TypeOK'
  BY <1>1, DistributeTyped, InitializeTyped, FetchTyped, SendTyped,
         RotateTyped,
     DecryptKeyTyped, SetUpTyped, JoinedTyped, EstablishedTyped, ConnectedTyped
     DEF Works, handleSenderKeyMessage, handleControlPacket
<1> QED
  BY <1>1, LinkedTyped, JoinRoomTyped, DeleteRoomTyped, UserTyped DEF Next

-----------------------------------------------------------------------------
(* What no step takes back.                                                *)
LEMMA HistoryStays ==
  ASSUME TypeOK, Next
  PROVE  /\ failed \subseteq failed' /\ killed \subseteq killed'
         /\ untold \subseteq untold'
         /\ borrowed \subseteq borrowed' /\ linked \subseteq linked' /\ (flag => flag')
<1> USE DEF Fails, Succeeds, serverVars
<1>1. ASSUME NEW d \in Devices, Works(d)
      PROVE  /\ failed \subseteq failed' /\ killed \subseteq killed'
             /\ untold \subseteq untold'
             /\ borrowed \subseteq borrowed' /\ linked \subseteq linked' /\ (flag => flag')
  <2>1. CASE distributeSenderKey(d)
    BY <2>1 DEF distributeSenderKey, upload, sent
  <2>2. CASE initializeSenderKeys(d)
    BY <2>2 DEF initializeSenderKeys
  <2>3. CASE fetchAndProcessPendingSenderKeys(d)
    BY <2>3 DEF fetchAndProcessPendingSenderKeys, process
  <2>4. CASE sendMessage(d)
    BY <2>4 DEF sendMessage
  <2>5. CASE rotateSenderKey(d)
    BY <2>5 DEF rotateSenderKey, sent
  <2>6. CASE \E t \in {"message", "packet"} : decryptWithSenderKey(d, t)
    BY <2>6 DEF decryptWithSenderKey
  <2>7. CASE setUp(d)
    BY <2>7 DEF setUp
  <2>8. CASE userJoined(d) \/ sessionEstablished(d) \/ onConnected(d)
    BY <2>8 DEF userJoined, sessionEstablished, onConnected
  <2> QED
    BY <1>1, <2>1, <2>2, <2>3, <2>4, <2>5, <2>6, <2>7, <2>8
       DEF Works, handleSenderKeyMessage, handleControlPacket
<1>2. ASSUME NEW d \in Devices, NEW e \in Devices, deviceLinked(d, e)
      PROVE  /\ failed \subseteq failed' /\ killed \subseteq killed'
             /\ untold \subseteq untold'
             /\ borrowed \subseteq borrowed' /\ linked \subseteq linked' /\ (flag => flag')
  BY <1>2 DEF deviceLinked, sent
<1>3. ASSUME NEW u \in Users, joinRoom(u) \/ deleteRoom(u)
      PROVE  /\ failed \subseteq failed' /\ killed \subseteq killed'
             /\ untold \subseteq untold'
             /\ borrowed \subseteq borrowed' /\ linked \subseteq linked' /\ (flag => flag')
  BY <1>3 DEF joinRoom, deleteRoom
<1>4. ASSUME NEW d \in Devices,
             sendEnvelope(d) \/ link(d) \/ drop(d) \/ kill(d) \/ connect(d)
      PROVE  /\ failed \subseteq failed' /\ killed \subseteq killed'
             /\ untold \subseteq untold'
             /\ borrowed \subseteq borrowed' /\ linked \subseteq linked' /\ (flag => flag')
  BY <1>4 DEF sendEnvelope, link, drop, kill, connect
<1> QED
  BY <1>1, <1>2, <1>3, <1>4 DEF Next

LEMMA KeysStayHeld ==
  ASSUME TypeOK, Next, NEW e \in Devices
  PROVE  keys[e] \subseteq keys'[e] /\ Held(e) \subseteq Held(e)'
<1>1. CASE keys[e] \subseteq keys'[e] /\ pending \subseteq pending'
  BY <1>1 DEF Held, Holds
<1>2. ASSUME NEW d \in Devices, Works(d),
             ~ fetchAndProcessPendingSenderKeys(d)
      PROVE  keys[e] \subseteq keys'[e] /\ pending \subseteq pending'
  <2>1. CASE distributeSenderKey(d)
    BY <2>1 DEF distributeSenderKey, upload, sent, keyVars
  <2>2. CASE initializeSenderKeys(d)
    BY <2>2 DEF initializeSenderKeys, keyVars, TypeOK
  <2>4. CASE sendMessage(d)
    BY <2>4 DEF sendMessage
  <2>5. CASE rotateSenderKey(d)
    BY <2>5 DEF rotateSenderKey, sent, TypeOK
  <2>6. CASE \E t \in {"message", "packet"} : decryptWithSenderKey(d, t)
    BY <2>6 DEF decryptWithSenderKey, keyVars
  <2>7. CASE setUp(d)
    BY <2>7 DEF setUp, keyVars
  <2>8. CASE userJoined(d) \/ sessionEstablished(d) \/ onConnected(d)
    BY <2>8 DEF userJoined, sessionEstablished, onConnected,
           createSenderKeySession,
                TypeOK
  <2> QED
    BY <1>2, <2>1, <2>2, <2>4, <2>5, <2>6, <2>7, <2>8
       DEF Works, handleSenderKeyMessage, handleControlPacket
<1>3. ASSUME NEW d \in Devices, fetchAndProcessPendingSenderKeys(d)
      PROVE  keys[e] \subseteq keys'[e] /\ Held(e) \subseteq Held(e)'
  <2>1. PICK A \in SUBSET Arrived(d) : process(d, A)
    BY <1>3 DEF fetchAndProcessPendingSenderKeys
  <2>2. keys'[e] = IF e = d THEN keys[e] \cup {p.key : p \in A} ELSE keys[e]
    BY <2>1 DEF process, TypeOK
  <2>3. pending' = pending \ A
    BY <2>1 DEF process
  <2>4. ASSUME NEW k \in Keys, [to |-> e, key |-> k] \in A
        PROVE  k \in keys'[e]
    <3>1. e = d
      BY <2>4 DEF Arrived
    <3> QED
      BY <3>1, <2>2, <2>4
  <2> QED
    BY <2>2, <2>3, <2>4 DEF Held, Holds
<1>4. ASSUME NEW d \in Devices, NEW f \in Devices, deviceLinked(d, f)
      PROVE  keys[e] \subseteq keys'[e] /\ pending \subseteq pending'
  BY <1>4 DEF deviceLinked, sent, TypeOK
<1>5. ASSUME NEW u \in Users, joinRoom(u) \/ deleteRoom(u)
      PROVE  keys[e] \subseteq keys'[e] /\ pending \subseteq pending'
  BY <1>5 DEF joinRoom, deleteRoom, keyVars
<1>6. ASSUME NEW d \in Devices,
             sendEnvelope(d) \/ link(d) \/ drop(d) \/ kill(d) \/ connect(d)
      PROVE  keys[e] \subseteq keys'[e] /\ pending \subseteq pending'
  BY <1>6 DEF sendEnvelope, link, drop, kill, connect, keyVars
<1> QED
  BY <1>1, <1>2, <1>3, <1>4, <1>5, <1>6 DEF Next

(* How a chain goes on: what d puts in place of the operation it has run,  *)
(* and what e gains at its end.                                            *)
Put(d, s) ==
    /\ GivesFirst(s)
    /\ \/ \A o \in ToSet(s) : ~IsMessage(o)
       \/ /\ IsMessage(Head(queue[d])) /\ d \in Refetches
          /\ s = <<do("fetch"), [Head(queue[d]) EXCEPT !.again = TRUE]>>

New(e, o) ==
    /\ o.op \in {"fetch", "established", "message", "packet", "joined", "send", "sync"}
    /\ o.op = "fetch" => e \in InRoom
    /\ IsMessage(o) => ~o.again /\ (o.due => o.key \in Held(e))

Gained(e, t) == t = <<>> \/ \E o \in Op : t = <<o>> /\ New(e, o)

ChainsGoOn(d, s) ==
    /\ s \in Seq(Op) /\ Put(d, s)
    /\ \A e \in Devices : \E t \in Seq(Op) :
         /\ Gained(e, t)
         /\ queue'[e] = (IF e = d THEN s \o Tail(queue[d]) ELSE queue[e]) \o t

Continues(d) == \E s \in Seq(Op) : ChainsGoOn(d, s)

LEMMA ShortPuts ==
  ASSUME NEW d
  PROVE  /\ Put(d, <<>>)
         /\ \A o \in Op : ~IsMessage(o) => Put(d, <<o>>)
         /\ \A o, p \in Op : ~IsMessage(o) /\ ~IsMessage(p) /\ p.op # "give"
              => Put(d, <<o, p>>)
         /\ \A o, p, r \in Op :
              ~IsMessage(o) /\ ~IsMessage(p) /\ ~IsMessage(r)
                /\ p.op # "give" /\ r.op # "give" => Put(d, <<o, p, r>>)
         /\ IsMessage(Head(queue[d])) /\ d \in Refetches =>
              Put(d, <<do("fetch"), [Head(queue[d]) EXCEPT !.again = TRUE]>>)
<1>1. Put(d, <<>>)
  BY ToSetShort DEF Put, GivesFirst
<1>2. ASSUME NEW o \in Op, ~IsMessage(o)
      PROVE  Put(d, <<o>>)
  <2>1. GivesFirst(<<o>>)
    BY DEF GivesFirst
  <2>2. \A x \in ToSet(<<o>>) : ~IsMessage(x)
    BY <1>2, ToSetShort
  <2> QED
    BY <2>1, <2>2 DEF Put
<1>3. ASSUME NEW o \in Op, NEW p \in Op, ~IsMessage(o), ~IsMessage(p), p.op # "give"
      PROVE  Put(d, <<o, p>>)
  <2>1. GivesFirst(<<o, p>>)
    BY <1>3 DEF GivesFirst
  <2>2. \A x \in ToSet(<<o, p>>) : ~IsMessage(x)
    BY <1>3, ToSetShort
  <2> QED
    BY <2>1, <2>2 DEF Put
<1>4. ASSUME NEW o \in Op, NEW p \in Op, NEW r \in Op,
             ~IsMessage(o), ~IsMessage(p), ~IsMessage(r), p.op # "give", r.op # "give"
      PROVE  Put(d, <<o, p, r>>)
  <2>1. GivesFirst(<<o, p, r>>)
    BY <1>4 DEF GivesFirst
  <2>2. \A x \in ToSet(<<o, p, r>>) : ~IsMessage(x)
    BY <1>4, ToSetShort
  <2> QED
    BY <2>1, <2>2 DEF Put
<1>5. ASSUME IsMessage(Head(queue[d])), d \in Refetches
      PROVE  Put(d, <<do("fetch"), [Head(queue[d]) EXCEPT !.again = TRUE]>>)
  <2> DEFINE o == Head(queue[d])
             p == [Head(queue[d]) EXCEPT !.again = TRUE]
  <2>1. p.op = o.op
    OBVIOUS
  <2>2. p.op # "give"
    BY <2>1, <1>5 DEF IsMessage
  <2> HIDE DEF p
  <2>3. GivesFirst(<<do("fetch"), p>>)
    BY <2>2 DEF GivesFirst, do
  <2> QED
    BY <2>3, <1>5 DEF Put, p
<1> QED
  BY <1>1, <1>2, <1>3, <1>4, <1>5

LEMMA QueuedGoesOn ==
  ASSUME TypeOK, NEW d \in Devices, NEW s \in Seq(Op), Put(d, s), NEW S,
         NEW o \in Op, \A e \in S : New(e, o),
         queue' = queued(d, s, S, <<o>>)
  PROVE  ChainsGoOn(d, s)
<1> SUFFICES ASSUME NEW e \in Devices
             PROVE  \E t \in Seq(Op) :
                      /\ Gained(e, t)
                      /\ queue'[e] = (IF e = d THEN s \o Tail(queue[d]) ELSE queue[e]) \o t
  BY DEF ChainsGoOn
<1>1. queue'[e] = (IF e = d THEN s \o Tail(queue[d]) ELSE queue[e])
                  \o (IF e \in S THEN <<o>> ELSE <<>>)
  BY DEF queued
<1>2. Gained(e, IF e \in S THEN <<o>> ELSE <<>>)
  BY DEF Gained
<1>3. (IF e \in S THEN <<o>> ELSE <<>>) \in Seq(Op)
  BY ToSetShort
<1> QED
  BY <1>1, <1>2, <1>3

LEMMA SameGoesOn ==
  ASSUME TypeOK, NEW d \in Devices, NEW s \in Seq(Op), Put(d, s), goesOn(d, s)
  PROVE  ChainsGoOn(d, s)
<1>1. queue' = queued(d, s, {}, <<>>) /\ <<>> \in Seq(Op)
  BY ToSetShort DEF goesOn
<1>2. \A e \in Devices : Gained(e, <<>>)
  BY DEF Gained
<1>3. \A e \in Devices :
        queue'[e] = (IF e = d THEN s \o Tail(queue[d]) ELSE queue[e]) \o <<>>
  BY <1>1 DEF queued
<1> QED
  BY <1>1, <1>2, <1>3 DEF ChainsGoOn

LEMMA FetchIsNew ==
  ASSUME NEW S, NEW e \in told(S)
  PROVE  New(e, do("fetch"))
BY DEF New, told, do, IsMessage

(* Every operation leaves the rest of its chain in order.                  *)
LEMMA WorksGoOn ==
  ASSUME TypeOK, NEW d \in Devices, Works(d)
  PROVE  queue[d] # <<>> /\ Continues(d)
<1>1. queue[d] # <<>>
  BY DEF Works, Runs, distributeSenderKey, initializeSenderKeys, sendMessage,
         fetchAndProcessPendingSenderKeys, rotateSenderKey, handleSenderKeyMessage,
         handleControlPacket, decryptWithSenderKey, setUp, userJoined,
         sessionEstablished, onConnected
<1>2. /\ <<>> \in Seq(Op) /\ Put(d, <<>>)
      /\ \A x \in {"fetch", "init", "send"} :
           do(x) \in Op /\ <<do(x)>> \in Seq(Op) /\ Put(d, <<do(x)>>)
  BY ToSetShort, OpsMade, ShortPuts DEF IsMessage, do
<1>3. ASSUME NEW s \in Seq(Op), Put(d, s), goesOn(d, s)
      PROVE  Continues(d)
  BY <1>3, SameGoesOn DEF Continues
<1>4. ASSUME NEW s \in Seq(Op), Put(d, s), NEW S,
             queue' = queued(d, s, told(S), <<do("fetch")>>)
      PROVE  Continues(d)
  <2>1. \A e \in told(S) : New(e, do("fetch"))
    BY FetchIsNew
  <2> QED
    BY <1>2, <1>4, <2>1, QueuedGoesOn DEF Continues
<1>5. CASE distributeSenderKey(d)
  BY <1>5, <1>2, <1>3, <1>1, <1>4 DEF distributeSenderKey, upload
<1>6. CASE initializeSenderKeys(d)
  <2>1. CASE goesOn(d, <<>>)
    BY <2>1, <1>2, <1>3, <1>1
  <2>2. CASE ~goesOn(d, <<>>)
    <3> DEFINE g == give([by |-> d, id |-> <<d, made[d] + 1>>],
                         expandTargets(members \ {user(d)}), TRUE)
    <3>1. goesOn(d, <<g>>) /\ made[d] < MaxMade
      BY <1>6, <2>2 DEF initializeSenderKeys
    <3>2. expandTargets(members \ {user(d)}) \in SUBSET Devices
      BY DeviceOf DEF TypeOK
    <3>3. g \in Op /\ ~IsMessage(g)
      BY <3>1, <3>2, NewKey, OpsMade DEF give, IsMessage
    <3> HIDE DEF g
    <3> QED
      BY <3>1, <3>3, <1>3, <1>1, ShortPuts, ToSetShort
  <2> QED
    BY <2>1, <2>2
<1>7. CASE fetchAndProcessPendingSenderKeys(d)
  BY <1>7, <1>2, <1>3, <1>1 DEF fetchAndProcessPendingSenderKeys
<1>8. CASE sendMessage(d)
  <2>1. CASE Groupwise(d)
    <3>1. PICK t \in {"message", "packet"} : encryptWithSenderKey(d, t)
      BY <2>1, <1>8 DEF sendMessage
    <3>2. \A e \in others(d) : message(t, e, ownKey(d)) \in Op
                               /\ New(e, message(t, e, ownKey(d)))
      <4> TAKE e \in others(d)
      <4>1. e \in InRoom /\ e \in Devices
        BY DEF others, InRoom, TypeOK
      <4>2. ownKey(d) \in Keys
        BY <2>1, OwnKey DEF Groupwise
      <4> QED
        BY <4>1, <4>2, <2>1, MessageTyped DEF New, message, Held, Groupwise
    <3>3. \A e \in Devices :
            queue'[e] = (IF e = d THEN Tail(queue[d]) ELSE queue[e])
                        \o (IF e \in others(d) THEN <<message(t, e, ownKey(d))>>
                            ELSE <<>>)
      BY <3>1 DEF encryptWithSenderKey
    <3>4. <<>> \o Tail(queue[d]) = Tail(queue[d])
      BY ChainOf, <1>1
    <3>5. ASSUME NEW e \in Devices
          PROVE  \E r \in Seq(Op) :
             /\ Gained(e, r)
             /\ queue'[e] = (IF e = d THEN <<>> \o Tail(queue[d]) ELSE queue[e]) \o r
      <4>1. CASE e \in others(d)
        BY <4>1, <3>2, <3>3, <3>4, ToSetShort DEF Gained
      <4>2. CASE e \notin others(d)
        BY <4>2, <3>3, <3>4, ToSetShort DEF Gained
      <4> QED
        BY <4>1, <4>2
    <3> QED
      BY <3>5, <1>1, <1>2 DEF ChainsGoOn, Continues
  <2>2. CASE ~Groupwise(d)
    BY <2>2, <1>8, <1>2, <1>3, <1>1 DEF sendMessage, encryptPairwise
  <2> QED
    BY <2>1, <2>2
<1>9. CASE rotateSenderKey(d)
  BY <1>9, <1>2, <1>3, <1>1, <1>4 DEF rotateSenderKey, encryptPairwise
<1>10. CASE \E t \in {"message", "packet"} : decryptWithSenderKey(d, t)
  <2>1. Head(queue[d]) \in Op /\ IsMessage(Head(queue[d]))
    BY <1>10, ChainOf DEF decryptWithSenderKey, Runs, IsMessage
  <2>2. CASE fetchesFirst(d, Head(queue[d]))
    <3>1. goesOn(d, <<do("fetch"), [Head(queue[d]) EXCEPT !.again = TRUE]>>)
      BY <2>2, <1>10 DEF decryptWithSenderKey
    <3>2. /\ <<do("fetch"), [Head(queue[d]) EXCEPT !.again = TRUE]>> \in Seq(Op)
          /\ Put(d, <<do("fetch"), [Head(queue[d]) EXCEPT !.again = TRUE]>>)
      BY <2>1, <2>2, <1>2, OpOf, ToSetShort, ShortPuts DEF fetchesFirst
    <3> QED
      BY <3>1, <3>2, <1>3, <1>1
  <2>3. CASE ~fetchesFirst(d, Head(queue[d]))
    BY <2>3, <1>10, <1>2, <1>3, <1>1 DEF decryptWithSenderKey
  <2> QED
    BY <2>2, <2>3
<1>11. CASE setUp(d)
  <2> DEFINE E == [op |-> "established", who |-> {user(d)}]
  <2>1. PICK T \in SUBSET Head(queue[d]).who, s \in {<<do("fetch"), do("init")>>, <<>>} :
          queue' = queued(d, s, {e \in InRoom : user(e) \in T}, <<E>>)
    BY <1>11 DEF setUp
  <2>2. {user(d)} \in SUBSET Users
    BY DeviceOf
  <2>3. E \in Op /\ ~IsMessage(E) /\ E.op = "established"
    BY <2>2, OpsMade DEF IsMessage
  <2>4. s \in Seq(Op) /\ Put(d, s)
    <3>1. do("fetch") \in Op /\ do("init") \in Op /\ do("init").op # "give"
          /\ ~IsMessage(do("fetch")) /\ ~IsMessage(do("init"))
      BY OpsMade DEF do, IsMessage
    <3>2. CASE s = <<>>
      BY <3>2, ShortPuts, ToSetShort
    <3>3. CASE s = <<do("fetch"), do("init")>>
      BY <3>1, <3>3, ShortPuts, ToSetShort
    <3> QED
      BY <3>2, <3>3
  <2> HIDE DEF E
  <2>5. \A e \in {x \in InRoom : user(x) \in T} : New(e, E)
    BY <2>3 DEF New
  <2> QED
    BY <2>1, <2>3, <2>4, <2>5, <1>1, QueuedGoesOn DEF Continues
<1>12. ASSUME NEW N \in SUBSET Users, goesOn(d, gives(d, N))
       PROVE  Continues(d)
  <2>1. CASE gives(d, N) = <<>>
    BY <2>1, <1>12, <1>2, <1>3, <1>1
  <2>2. CASE gives(d, N) # <<>>
    <3> DEFINE g == give(ownKey(d), expandTargets(N), FALSE)
    <3>1. gives(d, N) = <<g>> /\ row[d] # none
      BY <2>2 DEF gives, Redistributes
    <3>2. g \in Op /\ ~IsMessage(g)
      BY <3>1, OwnKey, DeviceOf, OpsMade DEF give, IsMessage
    <3> HIDE DEF g
    <3> QED
      BY <3>1, <3>2, <1>12, <1>3, <1>1, ShortPuts, ToSetShort
  <2> QED
    BY <2>1, <2>2
<1>13. CASE userJoined(d)
  <2>1. Head(queue[d]) \in Op /\ Head(queue[d]).op = "joined"
    BY <1>13, ChainOf DEF userJoined, Runs
  <2>2. Strangers(d, Head(queue[d]).who) \in SUBSET Users
    BY <2>1, OpOf DEF Strangers
  <2> QED
    BY <1>13, <2>2, <1>2, <1>3, <1>1, <1>12 DEF userJoined
<1>14. CASE sessionEstablished(d)
  <2>1. Head(queue[d]) \in Op /\ Head(queue[d]).op = "established"
    BY <1>14, ChainOf DEF sessionEstablished, Runs
  <2>2. Head(queue[d]).who \in SUBSET Users
    BY <2>1, OpOf
  <2> QED
    BY <1>14, <2>2, <1>12, <1>1 DEF sessionEstablished
<1>15. CASE onConnected(d)
  <2> DEFINE f == fetchPendingSenderKeysForServer(d)
  <2>1. PICK s \in Seq(Op) :
           /\ goesOn(d, s)
           /\ s = f \/ \E g \in Op : s = <<g>> \o f /\ g.op = "give" /\ ~g.on
    BY <1>15, ConnectedGoesOn
  <2>2. f = <<do("init"), do("fetch")>> \/ f = <<do("init")>>
    BY DEF fetchPendingSenderKeysForServer
  <2>3. do("fetch") \in Op /\ do("init") \in Op /\ do("init").op # "give"
        /\ do("fetch").op # "give" /\ ~IsMessage(do("fetch")) /\ ~IsMessage(do("init"))
    BY OpsMade DEF do, IsMessage
  <2> HIDE DEF f
  <2>4. Put(d, s)
    <3>1. CASE s = f
      BY <3>1, <2>2, <2>3, ShortPuts
    <3>2. CASE \E g \in Op : s = <<g>> \o f /\ g.op = "give" /\ ~g.on
      <4>1. PICK g \in Op : s = <<g>> \o f /\ g.op = "give"
        BY <3>2
      <4>2. s = <<g, do("init"), do("fetch")>> \/ s = <<g, do("init")>>
        BY <4>1, <2>2, <2>3, ConcatShort
      <4>3. ~IsMessage(g)
        BY <4>1 DEF IsMessage
      <4> QED
        BY <4>2, <4>3, <2>3, ShortPuts
    <3> QED
      BY <2>1, <3>1, <3>2
  <2> QED
    BY <2>1, <2>4, <1>3, <1>1
<1> QED
  BY <1>1, <1>5, <1>6, <1>7, <1>8, <1>9, <1>10, <1>11, <1>13, <1>14, <1>15
     DEF Works, handleSenderKeyMessage, handleControlPacket

(* What a step does to the chain of e: it is added to, or runs its first   *)
(* operation, or begins anew as e enters or leaves the room.               *)
Lengthens(e) ==
    \E t \in Seq(Op) : Gained(e, t) /\ queue'[e] = queue[e] \o t

Proceeds(e) ==
    /\ Works(e) /\ queue[e] # <<>>
    /\ \E s \in Seq(Op) : \E t \in Seq(Op) :
         Put(e, s) /\ Gained(e, t) /\ queue'[e] = (s \o Tail(queue[e])) \o t

Restarts(e) ==
    /\ \A o \in ToSet(queue'[e]) : o.op \in {"sync", "setup"}
    /\ Len(queue'[e]) <= 1
    /\ \/ e \notin InRoom
       \/ /\ e \notin InRoom' /\ Siblings(e) = {} /\ queue'[e] = <<>>
          /\ deleteRoom(user(e))

LEMMA EveryChain ==
  ASSUME TypeOK, Next, NEW e \in Devices
  PROVE  Lengthens(e) \/ Proceeds(e) \/ Restarts(e) \/ kill(e)
<1>0. queue[e] \in Seq(Op) /\ <<>> \in Seq(Op) /\ Gained(e, <<>>)
  BY ToSetShort DEF TypeOK, Gained
<1>1. ASSUME queue'[e] = queue[e] PROVE Lengthens(e)
  <2>1. queue[e] \o <<>> = queue[e]
    BY <1>0
  <2> QED
    BY <1>0, <1>1, <2>1 DEF Lengthens
<1>2. ASSUME NEW o \in Op, New(e, o), queue'[e] = queue[e] \o <<o>>
      PROVE  Lengthens(e)
  BY <1>2, ToSetShort DEF Lengthens, Gained
<1>3. ASSUME NEW d \in Devices, Works(d) PROVE Lengthens(e) \/ Proceeds(e)
  <2>1. PICK s \in Seq(Op) : ChainsGoOn(d, s)
    BY <1>3, WorksGoOn DEF Continues
  <2>2. PICK t \in Seq(Op) :
           /\ Gained(e, t)
           /\ queue'[e] = (IF e = d THEN s \o Tail(queue[d]) ELSE queue[e]) \o t
    BY <2>1 DEF ChainsGoOn
  <2>3. CASE e = d
    BY <2>1, <2>2, <2>3, <1>3, WorksGoOn DEF Proceeds, ChainsGoOn
  <2>4. CASE e # d
    BY <2>2, <2>4 DEF Lengthens
  <2> QED
    BY <2>3, <2>4
<1>4. ASSUME NEW d \in Devices, NEW f \in Devices, deviceLinked(d, f)
      PROVE  Lengthens(e)
  <2>1. CASE queue' = [queue EXCEPT ![f] =
                  @ \o (IF f \in told({f}) THEN <<do("fetch")>> ELSE <<>>)]
    <3>1. CASE e = f /\ f \in told({f})
      <4>1. do("fetch") \in Op /\ New(e, do("fetch"))
        BY <3>1, FetchIsNew, OpsMade
      <4>2. queue'[e] = queue[e] \o <<do("fetch")>>
        BY <2>1, <3>1 DEF TypeOK
      <4> QED
        BY <4>1, <4>2, <1>2
    <3>2. CASE e # f
      BY <2>1, <3>2, <1>1 DEF TypeOK
    <3>3. CASE e = f /\ f \notin told({f})
      BY <2>1, <3>3, <1>0 DEF TypeOK, Lengthens
    <3> QED
      BY <3>1, <3>2, <3>3
  <2>2. CASE UNCHANGED queue
    <3>1. queue'[e] = queue[e]
      BY <2>2
    <3>2. queue[e] \o <<>> = queue[e]
      BY <1>0
    <3> QED
      BY <3>1, <3>2, <1>0 DEF Lengthens
  <2> QED
    BY <1>4, <2>1, <2>2 DEF deviceLinked
<1>5. ASSUME NEW u \in Users, joinRoom(u) PROVE Lengthens(e) \/ Restarts(e)
  <2>1. queue'[e] = IF e = primary(u) THEN <<[op |-> "setup", who |-> members]>>
                    ELSE IF e \in InRoom \cap online
                    THEN Append(queue[e], [op |-> "joined", who |-> {u}])
                    ELSE queue[e]
    BY <1>5 DEF joinRoom
  <2>2. /\ [op |-> "setup", who |-> members] \in Op
        /\ [op |-> "joined", who |-> {u}] \in Op
    BY OpsMade DEF TypeOK
  <2>3. CASE e = primary(u)
    <3>1. e \notin InRoom
      BY <2>3, <1>5, DeviceOf DEF joinRoom, InRoom
    <3>2. ToSet(queue'[e]) = {[op |-> "setup", who |-> members]} /\ Len(queue'[e]) = 1
      BY <2>1, <2>2, <2>3, ToSetShort
    <3> QED
      BY <3>1, <3>2 DEF Restarts
  <2>4. CASE e # primary(u) /\ e \in InRoom \cap online
    <3>1. New(e, [op |-> "joined", who |-> {u}])
      BY DEF New, IsMessage
    <3>2. queue'[e] = queue[e] \o <<[op |-> "joined", who |-> {u}]>>
      <4> DEFINE o == [op |-> "joined", who |-> {u}]
      <4>1. o \in Op /\ queue'[e] = Append(queue[e], o)
        BY <2>1, <2>4, <2>2
      <4> HIDE DEF o
      <4>2. Append(queue[e], o) = queue[e] \o <<o>>
        BY <4>1, <1>0
      <4> QED
        BY <4>1, <4>2 DEF o
    <3> QED
      BY <3>1, <3>2, <2>2, <1>2
  <2>5. CASE e # primary(u) /\ e \notin InRoom \cap online
    <3>1. queue[e] \o <<>> = queue[e]
      BY <1>0
    <3> QED
      BY <2>1, <2>5, <3>1, <1>0 DEF Lengthens
  <2> QED
    BY <2>3, <2>4, <2>5
<1>6. ASSUME NEW u \in Users, deleteRoom(u) PROVE Lengthens(e) \/ Restarts(e)
  <2>1. CASE e = primary(u)
    <3>1. queue'[e] = <<>>
      BY <1>6, <2>1 DEF deleteRoom, TypeOK
    <3>2. user(e) = u /\ Siblings(e) = {} /\ e \notin InRoom'
      BY <1>6, <2>1, DeviceOf DEF deleteRoom, InRoom
    <3> QED
      BY <3>1, <3>2, <1>6, ToSetShort DEF Restarts
  <2>2. CASE e # primary(u)
    <3>1. queue'[e] = queue[e] /\ queue[e] \o <<>> = queue[e]
      BY <1>6, <2>2, <1>0 DEF deleteRoom, TypeOK
    <3> QED
      BY <3>1, <1>0 DEF Lengthens
  <2> QED
    BY <2>1, <2>2
<1>7. ASSUME NEW d \in Devices, NEW x \in {"send", "sync"},
             queue' = [queue EXCEPT ![d] = Append(@, do(x))]
      PROVE  Lengthens(e)
  <2>1. do(x) \in Op /\ New(e, do(x))
    BY OpsMade DEF New, do, IsMessage
  <2>2. CASE e = d
    <3>1. queue'[e] = queue[e] \o <<do(x)>>
      BY <2>1, <2>2, <1>7, <1>0 DEF TypeOK
    <3> QED
      BY <2>1, <3>1, <1>2
  <2>3. CASE e # d
    <3>1. queue'[e] = queue[e] /\ queue[e] \o <<>> = queue[e]
      BY <1>7, <2>3, <1>0 DEF TypeOK
    <3> QED
      BY <3>1, <1>0 DEF Lengthens
  <2> QED
    BY <2>2, <2>3
<1>8. ASSUME NEW d \in Devices, link(d) PROVE Lengthens(e) \/ Restarts(e)
  <2>1. CASE e = d
    <3>1. queue'[e] = <<do("sync")>> /\ e \notin InRoom
      BY <1>8, <2>1 DEF link, InRoom, TypeOK
    <3>2. ToSet(queue'[e]) = {do("sync")} /\ Len(queue'[e]) = 1
      BY <3>1, OpsMade, ToSetShort
    <3> QED
      BY <3>1, <3>2 DEF Restarts, do
  <2>2. CASE e # d
    <3>1. queue'[e] = queue[e] /\ queue[e] \o <<>> = queue[e]
      BY <1>8, <2>2, <1>0 DEF link, TypeOK
    <3> QED
      BY <3>1, <1>0 DEF Lengthens
  <2> QED
    BY <2>1, <2>2
<1>9. ASSUME NEW d \in Devices, sendEnvelope(d) \/ drop(d) \/ connect(d)
      PROVE  Lengthens(e)
  <2>1. CASE sendEnvelope(d) \/ connect(d)
    BY <2>1, <1>7 DEF sendEnvelope, connect
  <2>2. CASE drop(d)
    <3>1. queue'[e] = queue[e] /\ queue[e] \o <<>> = queue[e]
      BY <2>2, <1>0 DEF drop
    <3> QED
      BY <3>1, <1>0 DEF Lengthens
  <2> QED
    BY <1>9, <2>1, <2>2
<1>10. ASSUME NEW d \in Devices, kill(d) PROVE Lengthens(e) \/ kill(e)
  <2>1. CASE e # d
    <3>1. queue'[e] = queue[e] /\ queue[e] \o <<>> = queue[e]
      BY <1>10, <2>1, <1>0 DEF kill, TypeOK
    <3> QED
      BY <3>1, <1>0 DEF Lengthens
  <2> QED
    BY <1>10, <2>1
<1> QED
  BY <1>3, <1>4, <1>5, <1>6, <1>8, <1>9, <1>10 DEF Next

-----------------------------------------------------------------------------
(* Rows, and who is in the room.                                           *)
LEMMA WorksInRoom ==
  ASSUME NEW d \in Devices, Works(d) PROVE d \in InRoom /\ d \in online /\ members' = members
BY DEF Works, Runs, distributeSenderKey, initializeSenderKeys, sendMessage,
       fetchAndProcessPendingSenderKeys, rotateSenderKey, handleSenderKeyMessage,
       handleControlPacket, decryptWithSenderKey, setUp, userJoined,
       sessionEstablished, onConnected, serverVars

LEMMA FirstRuns ==
  ASSUME NEW d \in Devices, Works(d)
  PROVE  /\ Head(queue[d]).op = "give" => distributeSenderKey(d)
         /\ Head(queue[d]).op = "established" => sessionEstablished(d)
         /\ Head(queue[d]).op = "setup" => setUp(d)
         /\ Head(queue[d]).op = "fetch" => fetchAndProcessPendingSenderKeys(d)
BY DEF Works, Runs, distributeSenderKey, initializeSenderKeys, sendMessage,
       fetchAndProcessPendingSenderKeys, rotateSenderKey, handleSenderKeyMessage,
       handleControlPacket, decryptWithSenderKey, setUp, userJoined,
       sessionEstablished, onConnected

LEMMA LeavesRoom ==
  ASSUME TypeOK, Next, NEW d \in InRoom, d \notin InRoom'
  PROVE  /\ deleteRoom(user(d)) /\ d = primary(user(d))
         /\ row'[d] = none /\ queue'[d] = <<>>
<1>1. d \in Devices /\ d \in linked /\ user(d) \in members
  BY DEF InRoom, TypeOK
<1>2. linked \subseteq linked'
  BY HistoryStays
<1>3. user(d) \notin members'
  BY <1>1, <1>2 DEF InRoom
<1>4. PICK u \in Users : deleteRoom(u)
  <2>1. \A e \in Devices : Works(e) => members' = members
    BY WorksInRoom
  <2>2. \A e \in Devices : connect(e) \/ sendEnvelope(e) \/ link(e) \/ drop(e) \/ kill(e)
          => members' = members
    BY DEF connect, sendEnvelope, link, drop, kill, serverVars
  <2>3. \A e, f \in Devices : deviceLinked(e, f) => members' = members
    BY DEF deviceLinked, serverVars
  <2>4. \A u \in Users : joinRoom(u) => members \subseteq members'
    BY DEF joinRoom
  <2> QED
    BY <1>1, <1>3, <2>1, <2>2, <2>3, <2>4 DEF Next
<1>5. user(d) = u
  BY <1>1, <1>3, <1>4 DEF deleteRoom
<1>6. d = primary(u)
  BY <1>1, <1>4, <1>5, DeviceOf DEF deleteRoom, Siblings
<1>7. row'[d] = none /\ queue'[d] = <<>>
  BY <1>1, <1>4, <1>6 DEF deleteRoom, TypeOK
<1> QED
  BY <1>4, <1>5, <1>6, <1>7

LEMMA RowsMove ==
  ASSUME TypeOK, Next, NEW d \in Devices
  PROVE  \/ row'[d] = row[d]
         \/ row'[d] = none /\ d \notin InRoom'
         \/ /\ initializeSenderKeys(d) /\ row'[d] # row[d]
         \/ fetchAndProcessPendingSenderKeys(d) /\ d \in borrowed'
<1>1. ASSUME NEW e \in Devices, distributeSenderKey(e) \/ sendMessage(e) \/ rotateSenderKey(e)
             \/ (\E t \in {"message", "packet"} : decryptWithSenderKey(e, t)) \/ setUp(e)
             \/ userJoined(e) \/ sessionEstablished(e) \/ onConnected(e)
      PROVE  row' = row
  BY <1>1 DEF distributeSenderKey, sendMessage, rotateSenderKey,
         decryptWithSenderKey,
              setUp, userJoined, sessionEstablished, onConnected, keyVars
<1>2. ASSUME NEW e \in Devices, connect(e) \/ sendEnvelope(e) \/ link(e) \/ drop(e) \/ kill(e)
      PROVE  row' = row
  BY <1>2 DEF connect, sendEnvelope, link, drop, kill, keyVars
<1>3. \A e, f \in Devices : deviceLinked(e, f) => row' = row
  BY DEF deviceLinked
<1>4. \A u \in Users : joinRoom(u) => row' = row
  BY DEF joinRoom, keyVars
<1>5. ASSUME NEW u \in Users, deleteRoom(u)
      PROVE  row'[d] = row[d] \/ (row'[d] = none /\ d \notin InRoom')
  BY <1>5, DeviceOf DEF deleteRoom, InRoom, TypeOK
<1>6. ASSUME NEW e \in Devices, initializeSenderKeys(e)
      PROVE  row'[d] = row[d] \/ (d = e /\ row'[d] # row[d])
  BY <1>6 DEF initializeSenderKeys, keyVars, TypeOK
<1>7. ASSUME NEW e \in Devices, fetchAndProcessPendingSenderKeys(e)
      PROVE  row'[d] = row[d] \/ (d = e /\ d \in borrowed')
  BY <1>7 DEF fetchAndProcessPendingSenderKeys, process, TypeOK
<1> QED
  BY <1>1, <1>2, <1>3, <1>4, <1>5, <1>6, <1>7
     DEF Next, Works, handleSenderKeyMessage, handleControlPacket


LEMMA MakesKey ==
  ASSUME TypeOK, NEW d \in Devices, initializeSenderKeys(d), row'[d] # row[d]
  PROVE  /\ flag' /\ row'[d] = <<d, made[d] + 1>> /\ made[d] < MaxMade
         /\ goesOn(d, <<give([by |-> d, id |-> <<d, made[d] + 1>>],
                             expandTargets(members \ {user(d)}), TRUE)>>)
<1>1. ~ UNCHANGED keyVars
  BY DEF keyVars
<1> QED
  BY <1>1 DEF initializeSenderKeys, TypeOK

LEMMA UsesMove ==
  ASSUME TypeOK, Next, NEW d \in Devices, d \in uses, flag
  PROVE  d \in uses' \/ row'[d] = none
<1>1. ASSUME NEW e \in Devices, Works(e) PROVE uses \subseteq uses'
  BY <1>1 DEF Works, distributeSenderKey, upload, initializeSenderKeys,
         sendMessage,
       fetchAndProcessPendingSenderKeys, rotateSenderKey, handleSenderKeyMessage,
       handleControlPacket, decryptWithSenderKey, setUp, userJoined,
       sessionEstablished, onConnected
<1>2. ASSUME NEW e \in Devices, connect(e) \/ sendEnvelope(e) \/ link(e) \/ drop(e) \/ kill(e)
      PROVE  uses \subseteq uses'
  BY <1>2 DEF connect, sendEnvelope, link, drop, kill
<1>3. \A e, f \in Devices : deviceLinked(e, f) => uses \subseteq uses'
  BY DEF deviceLinked
<1>4. \A u \in Users : joinRoom(u) => uses \subseteq uses'
  BY DEF joinRoom
<1>5. ASSUME NEW u \in Users, deleteRoom(u)
      PROVE  d \in uses' \/ row'[d] = none
  BY <1>5, DeviceOf DEF deleteRoom, TypeOK
<1> QED
  BY <1>1, <1>2, <1>3, <1>4, <1>5 DEF Next

(* The order of gifts on a chain.                                          *)
LEMMA GivesFirstJoined ==
  ASSUME NEW q \in Seq(Op), NEW t \in Seq(Op), GivesFirst(q),
         \A o \in ToSet(t) : o.op # "give"
  PROVE  GivesFirst(q \o t)
<1> SUFFICES ASSUME NEW i \in DOMAIN (q \o t), (q \o t)[i].op = "give"
             PROVE  i = 1
  BY DEF GivesFirst
<1>1. CASE i <= Len(q)
  <2>1. i \in DOMAIN q /\ (q \o t)[i] = q[i]
    BY <1>1
  <2> QED
    BY <2>1 DEF GivesFirst
<1>2. CASE i > Len(q)
  <2>1. i - Len(q) \in DOMAIN t /\ (q \o t)[i] = t[i - Len(q)]
    BY <1>2
  <2>2. t[i - Len(q)].op # "give"
    BY <2>1, InToSet
  <2> QED
    BY <2>1, <2>2
<1> QED
  BY <1>1, <1>2

LEMMA NoGiftsLater ==
  ASSUME NEW q \in Seq(Op), q # <<>>, GivesFirst(q)
  PROVE  \A o \in ToSet(Tail(q)) : o.op # "give"
<1> SUFFICES ASSUME NEW o \in ToSet(Tail(q)) PROVE o.op # "give"
  OBVIOUS
<1>1. Tail(q) \in Seq(Op)
  OBVIOUS
<1>2. PICK i \in DOMAIN Tail(q) : o = Tail(q)[i]
  BY <1>1, InToSet
<1>3. i + 1 \in DOMAIN q /\ o = q[i + 1] /\ i + 1 # 1
  BY <1>2
<1> QED
  BY <1>3 DEF GivesFirst

LEMMA GainedOps ==
  ASSUME NEW e, NEW t \in Seq(Op), Gained(e, t)
  PROVE  \A o \in ToSet(t) : New(e, o) /\ o.op # "give"
BY ToSetShort DEF Gained, New

LEMMA GivesStayFirst ==
  ASSUME TypeOK, Next, NEW e \in Devices, GivesFirst(queue[e])
  PROVE  GivesFirst(queue'[e])
<1>0. queue[e] \in Seq(Op)
  BY DEF TypeOK
<1>1. CASE Lengthens(e)
  BY <1>1, <1>0, GainedOps, GivesFirstJoined DEF Lengthens
<1>2. CASE Proceeds(e)
  <2>1. PICK s \in Seq(Op), t \in Seq(Op) :
          Put(e, s) /\ Gained(e, t) /\ queue'[e] = (s \o Tail(queue[e])) \o t
    BY <1>2 DEF Proceeds
  <2>2. Tail(queue[e]) \in Seq(Op) /\ \A o \in ToSet(Tail(queue[e])) : o.op # "give"
    BY <1>0, <1>2, NoGiftsLater DEF Proceeds
  <2>3. s \o Tail(queue[e]) \in Seq(Op) /\ GivesFirst(s \o Tail(queue[e]))
    <3>1. GivesFirst(s)
      BY <2>1 DEF Put
    <3> QED
      BY <3>1, <2>2, GivesFirstJoined, ToSetJoined
  <2> QED
    BY <2>1, <2>3, GainedOps, GivesFirstJoined
<1>3. CASE Restarts(e)
  <2>1. queue'[e] \in Seq(Op)
    BY SenderKeysTyped DEF TypeOK
  <2> QED
    BY <2>1, <1>3 DEF Restarts, GivesFirst
<1>4. CASE kill(e)
  BY <1>4 DEF kill, GivesFirst, TypeOK
<1> QED
  BY <1>1, <1>2, <1>3, <1>4, EveryChain

LEMMA RowsStay ==
  ASSUME TypeOK, RowsAreOfMembers, Next PROVE RowsAreOfMembers'
<1>1. \A u \in Users : primary(u) \in linked'
  BY HistoryStays DEF RowsAreOfMembers
<1>2. ASSUME NEW d \in Devices, d \notin InRoom'
      PROVE  row'[d] = none /\ ~Fetches(queue'[d])
  <2>1. CASE d \in InRoom
    BY <2>1, <1>2, LeavesRoom, ToSetShort DEF Fetches
  <2>2. CASE d \notin InRoom
    <3>1. row[d] = none /\ ~Fetches(queue[d]) /\ queue[d] \in Seq(Op)
      BY <2>2 DEF RowsAreOfMembers, TypeOK
    <3>2. ~Works(d)
      BY <2>2, WorksInRoom
    <3>3. row'[d] = none
      BY <3>1, <3>2, RowsMove DEF Works
    <3>4. ~Fetches(queue'[d])
      <4>1. CASE Lengthens(d)
        <5>1. PICK t \in Seq(Op) : Gained(d, t) /\ queue'[d] = queue[d] \o t
          BY <4>1 DEF Lengthens
        <5>2. \A o \in ToSet(t) : o.op # "fetch"
          BY <5>1, <2>2, GainedOps DEF New
        <5>3. ToSet(queue'[d]) = ToSet(queue[d]) \cup ToSet(t)
          BY <5>1, <3>1, ToSetJoined
        <5> QED
          BY <5>2, <5>3, <3>1 DEF Fetches
      <4>2. CASE Restarts(d)
        BY <4>2 DEF Restarts, Fetches
      <4> QED
        BY <4>1, <4>2, <3>2, <2>2, EveryChain DEF Proceeds, kill
    <3> QED
      BY <3>3, <3>4
  <2> QED
    BY <2>1, <2>2
<1>3. \A d \in Devices : GivesFirst(queue'[d])
  BY GivesStayFirst DEF RowsAreOfMembers
<1>4. ASSUME NEW d \in Devices, d \notin borrowed', row'[d] # none
      PROVE  flag' /\ (d \in failed' \cup killed' \/ d \in uses' \/ InitGives(queue'[d]))
  <2>1. CASE initializeSenderKeys(d) /\ row'[d] # row[d]
    <3> DEFINE g == give([by |-> d, id |-> <<d, made[d] + 1>>],
                         expandTargets(members \ {user(d)}), TRUE)
    <3>1. flag' /\ goesOn(d, <<g>>) /\ made[d] < MaxMade
      BY <2>1, MakesKey
    <3>2. expandTargets(members \ {user(d)}) \in SUBSET Devices
      BY DeviceOf DEF TypeOK
    <3>3. g \in Op /\ g.op = "give" /\ g.on
      BY <3>1, <3>2, NewKey, OpsMade DEF give
    <3>4. queue[d] # <<>>
      BY <2>1 DEF initializeSenderKeys, Runs
    <3> HIDE DEF g
    <3>5. queue'[d] = <<g>> \o Tail(queue[d]) /\ Tail(queue[d]) \in Seq(Op)
      BY <3>1, <3>3, <3>4, GoesOn, ChainOf, ToSetShort
    <3>6. queue'[d] # <<>> /\ Head(queue'[d]) = g
      BY <3>5, <3>3
    <3> QED
      BY <3>1, <3>3, <3>6 DEF InitGives
  <2>2. CASE row'[d] = row[d]
    <3>1. d \notin borrowed /\ (flag => flag')
      BY <1>4, HistoryStays
    <3>2. flag /\ (d \in failed \cup killed \/ d \in uses \/ InitGives(queue[d]))
      BY <3>1, <2>2, <1>4 DEF RowsAreOfMembers
    <3>3. CASE d \in failed \cup killed
      BY <3>1, <3>2, <3>3, HistoryStays
    <3>4. CASE d \in uses
      BY <3>1, <3>2, <3>4, <1>4, UsesMove
    <3>5. CASE InitGives(queue[d])
      <4>0. queue[d] \in Seq(Op) /\ queue[d] # <<>>
        BY <3>5 DEF TypeOK, InitGives
      <4>1. CASE Lengthens(d)
        <5>1. PICK t \in Seq(Op) : queue'[d] = queue[d] \o t
          BY <4>1 DEF Lengthens
        <5>2. queue'[d] # <<>> /\ Head(queue'[d]) = Head(queue[d])
          BY <5>1, <4>0
        <5> QED
          BY <5>2, <3>1, <3>2, <3>5 DEF InitGives
      <4>2. CASE Proceeds(d)
        <5>1. distributeSenderKey(d)
          BY <4>2, <3>5, FirstRuns DEF Proceeds, InitGives
        <5>2. d \in uses' \/ d \in failed'
          BY <5>1, <3>5 DEF distributeSenderKey, upload, InitGives, Fails
        <5> QED
          BY <5>2, <3>1, <3>2
      <4>3. CASE Restarts(d)
        <5>1. d \notin InRoom \/ d \notin InRoom'
          BY <4>3 DEF Restarts
        <5>2. row[d] = none \/ row'[d] = none
          BY <5>1, <1>2 DEF RowsAreOfMembers
        <5> QED
          BY <5>2, <2>2, <1>4
      <4>4. CASE kill(d)
        BY <4>4, <3>1, <3>2 DEF kill
      <4> QED
        BY <4>1, <4>2, <4>3, <4>4, EveryChain
    <3> QED
      BY <3>2, <3>3, <3>4, <3>5
  <2> QED
    BY <2>1, <2>2, <1>4, RowsMove
<1> QED
  BY <1>1, <1>2, <1>3, <1>4 DEF RowsAreOfMembers

-----------------------------------------------------------------------------
(* No member is forgotten.                                                 *)
LEMMA MembersMove ==
  ASSUME TypeOK, Next, NEW u \in members' \ members
  PROVE  joinRoom(u)
<1>1. \A e \in Devices : Works(e) => members' = members
  BY WorksInRoom
<1>2. \A e \in Devices : connect(e) \/ sendEnvelope(e) \/ link(e) \/ drop(e) \/ kill(e)
        => members' = members
  BY DEF connect, sendEnvelope, link, drop, kill, serverVars
<1>3. \A e, f \in Devices : deviceLinked(e, f) => members' = members
  BY DEF deviceLinked, serverVars
<1>4. \A v \in Users : deleteRoom(v) => members' \subseteq members
  BY DEF deleteRoom
<1>5. \A v \in Users : joinRoom(v) => members' = members \cup {v}
  BY DEF joinRoom
<1> QED
  BY <1>1, <1>2, <1>3, <1>4, <1>5 DEF Next

(* What waits on a chain stays, unless it is run.                          *)
LEMMA WaitsOn ==
  ASSUME TypeOK, Next, NEW e \in Devices, e \in InRoom, e \in InRoom',
         NEW o \in ToSet(queue[e])
  PROVE  \/ o \in ToSet(queue'[e])
         \/ Works(e) /\ queue[e] # <<>> /\ o = Head(queue[e])
         \/ e \in killed'
<1>0. queue[e] \in Seq(Op)
  BY DEF TypeOK
<1>1. CASE Lengthens(e)
  BY <1>1, <1>0, ToSetJoined DEF Lengthens
<1>2. CASE Proceeds(e)
  <2>1. PICK s \in Seq(Op), t \in Seq(Op) : queue'[e] = (s \o Tail(queue[e])) \o t
    BY <1>2 DEF Proceeds
  <2>2. Works(e) /\ queue[e] # <<>>
    BY <1>2 DEF Proceeds
  <2>3. /\ Tail(queue[e]) \in Seq(Op)
        /\ ToSet(queue[e]) = {Head(queue[e])} \cup ToSet(Tail(queue[e]))
    BY <1>0, <2>2, ToSetTail
  <2>4. /\ s \o Tail(queue[e]) \in Seq(Op)
        /\ ToSet(s \o Tail(queue[e])) = ToSet(s) \cup ToSet(Tail(queue[e]))
    BY <2>3, ToSetJoined
  <2>5. ToSet(queue'[e]) = ToSet(s \o Tail(queue[e])) \cup ToSet(t)
    BY <2>1, <2>4, ToSetJoined
  <2> QED
    BY <2>2, <2>3, <2>4, <2>5
<1>3. CASE Restarts(e)
  BY <1>3 DEF Restarts
<1>4. CASE kill(e)
  BY <1>4 DEF kill
<1> QED
  BY <1>1, <1>2, <1>3, <1>4, EveryChain

(* What an operation puts in its place comes on its chain.                 *)
LEMMA PutComes ==
  ASSUME TypeOK, NEW d \in Devices, queue[d] # <<>>, NEW o \in Op, goesOn(d, <<o>>)
  PROVE  o \in ToSet(queue'[d])
<1>1. queue'[d] = <<o>> \o Tail(queue[d]) /\ Tail(queue[d]) \in Seq(Op)
  BY GoesOn, ChainOf, ToSetShort
<1>2. <<o>> \in Seq(Op) /\ ToSet(<<o>>) = {o}
  BY ToSetShort
<1>3. ToSet(queue'[d]) = ToSet(<<o>>) \cup ToSet(Tail(queue[d]))
  BY <1>1, <1>2, ToSetJoined
<1> QED
  BY <1>2, <1>3

LEMMA HoldsStill ==
  ASSUME TypeOK, Next, NEW e \in Devices, NEW k \in Keys, Holds(e, k)
  PROVE  Holds(e, k)'
<1>1. k \in Held(e)
  BY DEF Held
<1>2. k \in Held(e)'
  BY <1>1, KeysStayHeld
<1> QED
  BY <1>2 DEF Held

LEMMA KeyIsHandedOut ==
  ASSUME TypeOK, Next, NEW d \in InRoom, d \in InRoom', NEW k \in Keys, NEW e \in Devices,
         Hands(queue[d], k, e), d \notin failed' \cup killed'
  PROVE  Holds(e, k)' \/ Hands(queue'[d], k, e)
<1>0. d \in Devices
  BY DEF InRoom, TypeOK
<1>1. PICK o \in ToSet(queue[d]) : o.op = "give" /\ o.key = k /\ e \in o.to
  BY DEF Hands
<1>2. CASE o \in ToSet(queue'[d])
  BY <1>1, <1>2 DEF Hands
<1>3. CASE Works(d) /\ o = Head(queue[d])
  <2>1. distributeSenderKey(d)
    BY <1>0, <1>1, <1>3, FirstRuns
  <2>2. upload(d, o, o.to)
    BY <2>1, <1>3 DEF distributeSenderKey, Fails
  <2>3. [to |-> e, key |-> k] \in pending'
    BY <2>2, <1>1 DEF upload, sent
  <2> QED
    BY <2>3 DEF Holds
<1> QED
  BY <1>0, <1>2, <1>3, WaitsOn

LEMMA AnnouncedIsServed ==
  ASSUME TypeOK, RowsAreOfMembers, Next, NEW d \in InRoom, d \in InRoom', NEW u \in Users,
         Announces(queue[d], u), d \notin failed' \cup killed', d \notin borrowed',
         row[d] # none
  PROVE  Announces(queue'[d], u) \/ Hands(queue'[d], ownKey(d), primary(u))
<1>0. d \in Devices /\ queue[d] \in Seq(Op)
  BY DEF InRoom, TypeOK
<1>1. PICK o \in ToSet(queue[d]) : o.op = "established" /\ u \in o.who
  BY DEF Announces
<1>2. CASE o \in ToSet(queue'[d])
  BY <1>1, <1>2 DEF Announces
<1>3. CASE Works(d) /\ queue[d] # <<>> /\ o = Head(queue[d])
  <2>1. sessionEstablished(d)
    BY <1>0, <1>1, <1>3, FirstRuns
  <2>2. d \notin failed \cup killed /\ d \notin borrowed
    BY HistoryStays
  <2>3. d \in uses
    BY <2>2, <1>0, <1>1, <1>3 DEF RowsAreOfMembers, InitGives
  <2>4. o.who \in SUBSET Users /\ o.who # {}
    BY <1>0, <1>1, InToSet, OpOf
  <2> DEFINE g == give(ownKey(d), expandTargets(o.who), FALSE)
  <2>5. gives(d, o.who) = <<g>>
    BY <2>3, <2>4 DEF gives, Redistributes
  <2>6. g \in Op /\ g.op = "give" /\ g.key = ownKey(d) /\ primary(u) \in g.to
    BY <1>0, <1>1, <2>4, OwnKey, DeviceOf, OpsMade DEF give, expandTargets
  <2> HIDE DEF g
  <2>7. goesOn(d, <<g>>)
    BY <2>1, <2>5, <1>3 DEF sessionEstablished
  <2>8. g \in ToSet(queue'[d])
    BY <2>6, <2>7, <1>0, <1>3, PutComes
  <2> QED
    BY <2>6, <2>8 DEF Hands
<1> QED
  BY <1>0, <1>2, <1>3, WaitsOn

LEMMA SetUpAnnounces ==
  ASSUME TypeOK, Next, NEW d \in InRoom, NEW u \in Users,
         primary(u) \in InRoom, primary(u) \in InRoom',
         SetsUp(queue[primary(u)], user(d)),
         primary(u) \notin failed' \cup killed'
  PROVE  Announces(queue'[d], u) \/ SetsUp(queue'[primary(u)], user(d))
<1> DEFINE e == primary(u)
<1>0. d \in Devices /\ e \in Devices /\ user(e) = u
  BY DeviceOf DEF InRoom, TypeOK
<1> HIDE DEF e
<1>1. PICK o \in ToSet(queue[e]) : o.op = "setup" /\ user(d) \in o.who
  BY DEF SetsUp, e
<1>2. CASE o \in ToSet(queue'[e])
  BY <1>1, <1>2 DEF SetsUp, e
<1>3. CASE Works(e) /\ queue[e] # <<>> /\ o = Head(queue[e])
  <2>1. setUp(e)
    BY <1>0, <1>1, <1>3, FirstRuns
  <2> DEFINE E == [op |-> "established", who |-> {u}]
  <2>2. PICK s \in {<<do("fetch"), do("init")>>, <<>>} :
          queue' = queued(e, s, {x \in InRoom : user(x) \in o.who}, <<E>>)
    BY <2>1, <1>0, <1>3 DEF setUp, Fails, e
  <2>3. E \in Op /\ E.op = "established" /\ u \in E.who
    BY OpsMade
  <2> HIDE DEF E
  <2>4. queue'[d] = (IF d = e THEN s \o Tail(queue[e]) ELSE queue[d]) \o <<E>>
    BY <2>2, <1>0, <1>1 DEF queued
  <2>5. (IF d = e THEN s \o Tail(queue[e]) ELSE queue[d]) \in Seq(Op)
    <3>1. s \in Seq(Op) /\ Tail(queue[e]) \in Seq(Op)
      <4>1. do("fetch") \in Op /\ do("init") \in Op
        BY OpsMade
      <4>2. s \in Seq(Op)
        <5>1. <<do("fetch"), do("init")>> \in Seq(Op) /\ <<>> \in Seq(Op)
          BY <4>1
        <5> QED
          BY <5>1
      <4> QED
        BY <4>2, <1>0, <1>3, ChainOf
    <3> QED
      BY <3>1, <1>0, ToSetJoined DEF TypeOK
  <2>6. E \in ToSet(queue'[d])
    <3>1. <<E>> \in Seq(Op) /\ ToSet(<<E>>) = {E}
      BY <2>3, ToSetShort
    <3> DEFINE q == IF d = e THEN s \o Tail(queue[e]) ELSE queue[d]
    <3>2. q \in Seq(Op) /\ queue'[d] = q \o <<E>>
      BY <2>4, <2>5
    <3> HIDE DEF q
    <3>3. ToSet(queue'[d]) = ToSet(q) \cup ToSet(<<E>>)
      BY <3>1, <3>2, ToSetJoined
    <3> QED
      BY <3>1, <3>3
  <2> QED
    BY <2>3, <2>6 DEF Announces
<1> QED
  BY <1>0, <1>2, <1>3, WaitsOn DEF e

LEMMA ServiceGoesOn ==
  ASSUME TypeOK, RowsAreOfMembers, KeysAreServed, Next PROVE KeysAreServed'
<1> SUFFICES ASSUME NEW d \in InRoom', NEW u \in members' \ {user(d)}, row'[d] # none,
                    {d, primary(u)} \cap (failed' \cup killed') = {}, d \notin borrowed'
             PROVE  \/ Holds(primary(u), ownKey(d))'
                    \/ Hands(queue'[d], ownKey(d)', primary(u))
                    \/ Announces(queue'[d], u)
                    \/ SetsUp(queue'[primary(u)], user(d))
  BY DEF KeysAreServed
<1>0. d \in Devices /\ u \in Users /\ primary(u) \in Devices /\ TypeOK'
  BY SenderKeysTyped, DeviceOf DEF InRoom, TypeOK
<1>1. CASE initializeSenderKeys(d) /\ row'[d] # row[d]
  <2> DEFINE k == [by |-> d, id |-> <<d, made[d] + 1>>]
             g == give(k, expandTargets(members \ {user(d)}), TRUE)
  <2>1. goesOn(d, <<g>>) /\ made[d] < MaxMade /\ ownKey(d)' = k
    BY <1>0, <1>1, MakesKey DEF ownKey
  <2>2. expandTargets(members \ {user(d)}) \in SUBSET Devices
    BY DeviceOf DEF TypeOK
  <2>3. members' = members /\ queue[d] # <<>>
    BY <1>1 DEF initializeSenderKeys, Runs
  <2>4. g \in Op /\ g.op = "give" /\ g.key = k /\ primary(u) \in g.to
    BY <1>0, <2>1, <2>2, <2>3, NewKey, OpsMade DEF give, expandTargets
  <2> HIDE DEF g, k
  <2>5. g \in ToSet(queue'[d])
    BY <1>0, <2>1, <2>3, <2>4, PutComes
  <2> QED
    BY <2>1, <2>4, <2>5 DEF Hands
<1>2. CASE row'[d] = row[d]
  <2>1. ownKey(d)' = ownKey(d) /\ ownKey(d) \in Keys
    BY <1>0, <1>2, OwnKey DEF ownKey
  <2>2. d \in InRoom
    BY <1>0, <1>2 DEF RowsAreOfMembers
  <2>3. d \notin borrowed /\ {d, primary(u)} \cap (failed \cup killed) = {}
    BY HistoryStays
  <2>4. CASE u \in members
    <3>1. primary(u) \in InRoom /\ primary(u) \in InRoom'
      BY <1>0, <2>4, DeviceOf, HistoryStays DEF InRoom, RowsAreOfMembers
    <3>2. \/ Holds(primary(u), ownKey(d))
          \/ Hands(queue[d], ownKey(d), primary(u))
          \/ Announces(queue[d], u)
          \/ SetsUp(queue[primary(u)], user(d))
      BY <1>2, <2>2, <2>3, <2>4 DEF KeysAreServed
    <3>3. CASE Holds(primary(u), ownKey(d))
      <4>1. ASSUME NEW k \in Keys, k = ownKey(d), k = ownKey(d)'
            PROVE  Holds(primary(u), ownKey(d))'
        <5>1. Holds(primary(u), k)'
          BY <3>3, <4>1, <1>0, HoldsStill
        <5> QED
          BY <5>1, <4>1 DEF Holds
      <4> QED
        BY <4>1, <2>1
    <3>4. CASE Hands(queue[d], ownKey(d), primary(u))
      <4>1. ASSUME NEW k \in Keys, k = ownKey(d), k = ownKey(d)'
            PROVE  \/ Holds(primary(u), ownKey(d))'
                   \/ Hands(queue'[d], ownKey(d)', primary(u))
        <5>1. Holds(primary(u), k)' \/ Hands(queue'[d], k, primary(u))
          BY <3>4, <4>1, <1>0, <2>2, KeyIsHandedOut
        <5> QED
          BY <5>1, <4>1 DEF Holds
      <4> QED
        BY <4>1, <2>1
    <3>5. CASE Announces(queue[d], u)
      BY <3>5, <1>0, <1>2, <2>1, <2>2, AnnouncedIsServed
    <3>6. CASE SetsUp(queue[primary(u)], user(d))
      BY <3>6, <1>0, <2>2, <3>1, SetUpAnnounces
    <3> QED
      BY <3>2, <3>3, <3>4, <3>5, <3>6
  <2>5. CASE u \notin members
    <3>1. joinRoom(u)
      BY <2>5, MembersMove
    <3> DEFINE S == [op |-> "setup", who |-> members]
    <3>2. queue'[primary(u)] = <<S>> /\ S \in Op
      BY <3>1, <1>0, OpsMade DEF joinRoom, TypeOK
    <3>3. user(d) \in S.who /\ S.op = "setup"
      BY <2>2 DEF InRoom
    <3> HIDE DEF S
    <3>4. S \in ToSet(queue'[primary(u)])
      BY <3>2, ToSetShort
    <3> QED
      BY <3>3, <3>4 DEF SetsUp
  <2> QED
    BY <2>4, <2>5
<1> QED
  BY <1>0, <1>1, <1>2, RowsMove

-----------------------------------------------------------------------------
(* What is served is read.                                                 *)
LEMMA NewsOfKeys ==
  ASSUME TypeOK, Next, NEW p \in pending', p \notin pending
  PROVE  \E S \in SUBSET Devices :
           /\ p.to \in S /\ untold' = untold \cup (S \ (online \cap InRoom))
           /\ p.to \in told(S) =>
                \E q \in Seq(Op) : queue'[p.to] = q \o <<do("fetch")>>
           /\ members' = members
<1>1. ASSUME NEW d \in Devices, queue[d] # <<>>, NEW s \in Seq(Op),
             NEW S \in SUBSET Devices, NEW k, sent(k, S),
             queue' = queued(d, s, told(S), <<do("fetch")>>), members' = members
      PROVE  \E T \in SUBSET Devices :
               /\ p.to \in T /\ untold' = untold \cup (T \ (online \cap InRoom))
               /\ p.to \in told(T) =>
                    \E q \in Seq(Op) : queue'[p.to] = q \o <<do("fetch")>>
               /\ members' = members
  <2>1. p.to \in S /\ untold' = untold \cup (S \ (online \cap InRoom))
    BY <1>1 DEF sent
  <2>2. ASSUME p.to \in told(S)
        PROVE  \E q \in Seq(Op) : queue'[p.to] = q \o <<do("fetch")>>
    <3> DEFINE q == IF p.to = d THEN s \o Tail(queue[d]) ELSE queue[p.to]
    <3>1. q \in Seq(Op)
      BY <1>1, <2>1, ChainOf, ToSetJoined DEF TypeOK
    <3>2. queue'[p.to] = q \o <<do("fetch")>>
      BY <1>1, <2>1, <2>2 DEF queued
    <3> QED
      BY <3>1, <3>2
  <2> QED
    BY <1>1, <2>1, <2>2
<1>2. ASSUME NEW d \in Devices, Works(d)
      PROVE  \E T \in SUBSET Devices :
               /\ p.to \in T /\ untold' = untold \cup (T \ (online \cap InRoom))
               /\ p.to \in told(T) =>
                    \E q \in Seq(Op) : queue'[p.to] = q \o <<do("fetch")>>
               /\ members' = members
  <2>0. queue[d] # <<>> /\ members' = members /\ <<>> \in Seq(Op)
        /\ <<do("send")>> \in Seq(Op)
    BY <1>2, WorksGoOn, WorksInRoom, ToSetShort, OpsMade
  <2>1. CASE distributeSenderKey(d)
    <3> DEFINE o == Head(queue[d])
    <3>1. PICK S \in SUBSET o.to : upload(d, o, S)
      BY <2>1 DEF distributeSenderKey
    <3>2. o.to \in SUBSET Devices
      BY <2>0, <2>1, ChainOf, OpOf DEF distributeSenderKey, Runs
    <3> HIDE DEF o
    <3>3. S \in SUBSET Devices
      BY <3>1, <3>2
    <3>4. sent(o.key, S) /\ queue' = queued(d, <<>>, told(S), <<do("fetch")>>)
      BY <3>1 DEF upload
    <3> QED
      BY <3>3, <3>4, <2>0, <1>1
  <2>2. CASE rotateSenderKey(d)
    <3> DEFINE T == expandTargets(members \ {user(d)})
               k == [by |-> d, id |-> <<d, made[d] + 1>>]
    <3>1. PICK S \in SUBSET T :
            sent(k, S) /\ queue' = queued(d, <<do("send")>>, told(S), <<do("fetch")>>)
      BY <2>2 DEF rotateSenderKey
    <3>2. T \in SUBSET Devices
      BY DeviceOf DEF TypeOK
    <3> HIDE DEF T, k
    <3>3. S \in SUBSET Devices
      BY <3>1, <3>2
    <3> QED
      BY <3>1, <3>3, <2>0, <1>1
  <2>3. CASE ~distributeSenderKey(d) /\ ~rotateSenderKey(d)
    <3>1. pending' \subseteq pending
      BY <2>3, <1>2 DEF Works, initializeSenderKeys, sendMessage,
         fetchAndProcessPendingSenderKeys, process, handleSenderKeyMessage,
         handleControlPacket, decryptWithSenderKey, setUp, userJoined,
         sessionEstablished, onConnected
    <3> QED
      BY <3>1
  <2> QED
    BY <2>1, <2>2, <2>3
<1>3. ASSUME NEW d \in Devices, NEW e \in Devices, deviceLinked(d, e)
      PROVE  \E T \in SUBSET Devices :
               /\ p.to \in T /\ untold' = untold \cup (T \ (online \cap InRoom))
               /\ p.to \in told(T) =>
                    \E q \in Seq(Op) : queue'[p.to] = q \o <<do("fetch")>>
               /\ members' = members
  <2>1. /\ sent(ownKey(d), {e})
        /\ queue' = [queue EXCEPT ![e] =
                       @ \o (IF e \in told({e}) THEN <<do("fetch")>> ELSE <<>>)]
    BY <1>3 DEF deviceLinked
  <2>2. p.to = e /\ untold' = untold \cup ({e} \ (online \cap InRoom))
    BY <2>1 DEF sent
  <2>3. e \in told({e}) => queue'[e] = queue[e] \o <<do("fetch")>>
    BY <2>1 DEF TypeOK
  <2>4. queue[e] \in Seq(Op) /\ members' = members
    BY <1>3 DEF TypeOK, deviceLinked, serverVars
  <2> QED
    BY <2>2, <2>3, <2>4
<1>4. \A d \in Devices : connect(d) \/ sendEnvelope(d) \/ link(d) \/ drop(d) \/ kill(d)
        => pending' = pending
  BY DEF connect, sendEnvelope, link, drop, kill
<1>5. \A u \in Users : joinRoom(u) \/ deleteRoom(u) => pending' = pending
  BY DEF joinRoom, deleteRoom
<1> QED
  BY <1>2, <1>3, <1>4, <1>5 DEF Next

LEMMA FetchWaits ==
  ASSUME TypeOK, RowsAreOfMembers, MessagesAreServed, Next, NEW d \in Devices,
         d \notin failed' \cup killed', d \notin untold', Arrived(d)' # {}
  PROVE  Fetches(queue'[d])
<1>0. queue[d] \in Seq(Op) /\ d \notin failed \cup killed /\ d \notin untold
  BY HistoryStays DEF TypeOK
<1>1. PICK p \in pending' : p.to = d
  BY DEF Arrived
<1>2. ASSUME Fetches(queue[d]), d \in InRoom'
      PROVE  Fetches(queue'[d]) \/ fetchAndProcessPendingSenderKeys(d)
  <2>1. d \in InRoom
    BY <1>2 DEF RowsAreOfMembers
  <2>2. PICK o \in ToSet(queue[d]) : o.op = "fetch"
    BY <1>2 DEF Fetches
  <2> QED
    BY <1>2, <2>1, <2>2, WaitsOn, FirstRuns DEF Fetches
<1>3. CASE p \in pending
  <2>1. p \in Arrived(d)
    BY <1>1, <1>3 DEF Arrived
  <2>2. Fetches(queue[d]) /\ d \in InRoom
    BY <2>1, <1>0 DEF MessagesAreServed, RowsAreOfMembers
  <2>3. d \in InRoom'
    <3>1. SUFFICES ASSUME d \notin InRoom' PROVE FALSE
      OBVIOUS
    <3>2. deleteRoom(user(d)) /\ d = primary(user(d))
      BY <2>2, <3>1, LeavesRoom
    <3> QED
      BY <3>2, <2>1 DEF deleteRoom
  <2>4. ~fetchAndProcessPendingSenderKeys(d)
    BY <2>1 DEF fetchAndProcessPendingSenderKeys, Fails, process
  <2> QED
    BY <1>2, <2>2, <2>3, <2>4
<1>4. CASE p \notin pending
  <2>1. PICK S \in SUBSET Devices :
           /\ p.to \in S /\ untold' = untold \cup (S \ (online \cap InRoom))
           /\ p.to \in told(S) =>
                \E q \in Seq(Op) : queue'[p.to] = q \o <<do("fetch")>>
           /\ members' = members
    BY <1>4, NewsOfKeys
  <2>2. d \in S \cap online \cap InRoom
    BY <1>1, <2>1
  <2>3. CASE d \in told(S)
    <3>1. PICK q \in Seq(Op) : queue'[d] = q \o <<do("fetch")>>
      BY <1>1, <2>1, <2>3
    <3>2. do("fetch") \in Op /\ do("fetch").op = "fetch"
      BY OpsMade DEF do
    <3>3. <<do("fetch")>> \in Seq(Op) /\ ToSet(<<do("fetch")>>) = {do("fetch")}
      BY <3>2, ToSetShort
    <3>4. do("fetch") \in ToSet(queue'[d])
      BY <3>1, <3>3, ToSetJoined
    <3> QED
      BY <3>2, <3>4 DEF Fetches
  <2>4. CASE d \notin told(S)
    <3>1. queue[d] # <<>> /\ Last(queue[d]).op = "fetch"
      BY <2>2, <2>4 DEF told
    <3>2. Fetches(queue[d])
      BY <1>0, <3>1, LastInChain DEF Fetches
    <3>3. d \in InRoom'
      BY <2>1, <2>2, HistoryStays DEF InRoom
    <3>4. ~fetchAndProcessPendingSenderKeys(d)
      BY <1>4 DEF fetchAndProcessPendingSenderKeys, process
    <3> QED
      BY <1>2, <3>2, <3>3, <3>4
  <2> QED
    BY <2>3, <2>4
<1> QED
  BY <1>3, <1>4

LEMMA ServedFirst ==
  ASSUME NEW q \in Seq(Op), q # <<>>, NEW d, NEW K, NEW H, NEW U,
         AreServed(q, d, K, H, U), IsMessage(Head(q)), Head(q).due
  PROVE  IsServed(Head(q), d, K, H, U)
<1>1. 1 \in DOMAIN q /\ Head(q) = q[1] /\ 1..(1 - 1) = {}
  OBVIOUS
<1> QED
  BY <1>1 DEF AreServed

LEMMA AfterFetch ==
  ASSUME NEW o \in Op, IsMessage(o), NEW d, NEW K, NEW H, NEW U,
         o.due => o.key \in H
  PROVE  AreServed(<<do("fetch"), o>>, d, K, H, U)
<1>1. do("fetch").op = "fetch" /\ ~IsMessage(do("fetch"))
  BY DEF do, IsMessage
<1>2. \A i \in DOMAIN <<do("fetch"), o>> : i = 1 \/ i = 2
  OBVIOUS
<1>3. <<do("fetch"), o>>[1] = do("fetch") /\ <<do("fetch"), o>>[2] = o
  OBVIOUS
<1>4. 1 \in 1..(2 - 1)
  OBVIOUS
<1> HIDE DEF do
<1> QED
  BY <1>1, <1>2, <1>3, <1>4 DEF AreServed

LEMMA PutIsServed ==
  ASSUME TypeOK, NEW d \in Devices, queue[d] # <<>>, NEW s \in Seq(Op), Put(d, s),
         NEW K, NEW H, NEW U, AreServed(queue[d], d, K, H, U)
  PROVE  AreServed(s, d, K, H, U)
<1>0. queue[d] \in Seq(Op) /\ Head(queue[d]) \in Op
  BY ChainOf DEF TypeOK
<1>1. CASE \A o \in ToSet(s) : ~IsMessage(o)
  BY <1>1, AreServedOthers
<1>2. CASE /\ IsMessage(Head(queue[d]))
           /\ s = <<do("fetch"), [Head(queue[d]) EXCEPT !.again = TRUE]>>
  <2> DEFINE o == Head(queue[d])
             m == [o EXCEPT !.again = TRUE]
  <2>1. o.due => o.key \in H
    BY <1>0, <1>2, ServedFirst DEF IsServed
  <2>2. m \in Op /\ m.op = o.op /\ m.due = o.due /\ m.key = o.key
    BY <1>0, <1>2, OpOf
  <2>3. IsMessage(m)
    BY <2>2, <1>2 DEF IsMessage
  <2> HIDE DEF o, m
  <2>4. AreServed(<<do("fetch"), m>>, d, K, H, U)
    BY <2>1, <2>2, <2>3, AfterFetch
  <2> QED
    BY <2>4, <1>2 DEF m, o
<1> QED
  BY <1>1, <1>2 DEF Put

(* A message that arrives: its key is there, or waits with the news of it. *)
LEMMA NewIsServed ==
  ASSUME TypeOK, MessagesAreServed, NEW d \in Devices, d \notin failed \cup killed,
         NEW o \in Op, New(d, o), IsMessage(o), o.due
  PROVE  o.key \in Held(d) /\ (IsServed(o, d, keys[d], Held(d), untold) \/ Fetches(queue[d]))
<1>1. o.key \in Held(d) /\ ~o.again
  BY DEF New
<1>2. o.key \in keys[d] \/ Arrived(d) # {}
  BY <1>1 DEF Held, Holds, Arrived
<1> QED
  BY <1>1, <1>2 DEF MessagesAreServed, IsServed

LEMMA MessagesStayServed ==
  ASSUME TypeOK, MessagesAreServed, Next, NEW d \in Devices,
         d \notin failed' \cup killed'
  PROVE  AreServed(queue'[d], d, keys'[d], Held(d)', untold')
<1> DEFINE K == keys'[d]
           H == Held(d)
           U == untold
<1>0. /\ queue[d] \in Seq(Op) /\ queue'[d] \in Seq(Op)
      /\ d \notin failed \cup killed
      /\ untold \subseteq untold' /\ keys[d] \subseteq K /\ H \subseteq Held(d)'
  BY SenderKeysTyped, HistoryStays, KeysStayHeld DEF TypeOK
<1>1. AreServed(queue[d], d, K, H, U)
  BY <1>0, AreServedStill DEF MessagesAreServed
<1>2. ASSUME AreServed(queue'[d], d, K, H, U)
      PROVE  AreServed(queue'[d], d, keys'[d], Held(d)', untold')
  BY <1>0, <1>2, AreServedStill
<1>3. ASSUME NEW o \in Op, New(d, o), IsMessage(o), o.due
      PROVE  o.key \in H /\ (IsServed(o, d, K, H, U) \/ Fetches(queue[d]))
  BY <1>0, <1>3, NewIsServed DEF IsServed
<1> HIDE DEF K, H, U
<1>4. CASE Lengthens(d)
  <2>1. PICK t \in Seq(Op) : Gained(d, t) /\ queue'[d] = queue[d] \o t
    BY <1>4 DEF Lengthens
  <2>2. CASE t = <<>>
    BY <2>1, <2>2, <1>0, <1>1, <1>2
  <2>3. CASE \E o \in Op : t = <<o>> /\ New(d, o)
    BY <2>1, <2>3, <1>0, <1>1, <1>2, <1>3, AreServedAppended
  <2> QED
    BY <2>1, <2>2, <2>3 DEF Gained
<1>5. CASE Proceeds(d)
  <2>1. PICK s \in Seq(Op), t \in Seq(Op) :
          Put(d, s) /\ Gained(d, t) /\ queue'[d] = (s \o Tail(queue[d])) \o t
    BY <1>5 DEF Proceeds
  <2>2. queue[d] # <<>> /\ Works(d) /\ Tail(queue[d]) \in Seq(Op)
    BY <1>5, ChainOf DEF Proceeds
  <2>3. Head(queue[d]).op = "fetch" => H \subseteq K
    <3>1. SUFFICES ASSUME Head(queue[d]).op = "fetch" PROVE H \subseteq K
      OBVIOUS
    <3>2. fetchAndProcessPendingSenderKeys(d)
      BY <2>2, <3>1, FirstRuns
    <3>3. process(d, Arrived(d))
      BY <3>2 DEF fetchAndProcessPendingSenderKeys, Fails
    <3>4. keys'[d] = keys[d] \cup {p.key : p \in Arrived(d)}
      BY <3>3 DEF process, TypeOK
    <3>5. ASSUME NEW k \in Keys, [to |-> d, key |-> k] \in pending
          PROVE  k \in {p.key : p \in Arrived(d)}
      <4>1. [to |-> d, key |-> k] \in Arrived(d)
        BY <3>5 DEF Arrived
      <4> QED
        BY <4>1
    <3> QED
      BY <3>4, <3>5 DEF H, K, Held, Holds
  <2>4. AreServed(Tail(queue[d]), d, K, H, U)
    BY <1>0, <1>1, <2>2, <2>3, AreServedTail
  <2>5. AreServed(s, d, K, H, U)
    BY <1>1, <2>1, <2>2, PutIsServed
  <2> DEFINE q == s \o Tail(queue[d])
  <2>6. q \in Seq(Op) /\ ToSet(q) = ToSet(s) \cup ToSet(Tail(queue[d]))
    BY <2>2, ToSetJoined
  <2>7. AreServed(q, d, K, H, U)
    BY <2>2, <2>4, <2>5, AreServedJoined
  <2>8. Fetches(queue[d]) => Fetches(q) \/ H \subseteq K
    <3>1. ToSet(queue[d]) = {Head(queue[d])} \cup ToSet(Tail(queue[d]))
      BY <1>0, <2>2, ToSetTail
    <3> HIDE DEF q
    <3> QED
      BY <3>1, <2>3, <2>6 DEF Fetches
  <2> HIDE DEF q
  <2>9. CASE t = <<>>
    <3>1. queue'[d] = q
      BY <2>1, <2>6, <2>9 DEF q
    <3> QED
      BY <3>1, <2>7, <1>2
  <2>10. CASE \E o \in Op : t = <<o>> /\ New(d, o)
    <3>1. PICK o \in Op : t = <<o>> /\ New(d, o)
      BY <2>10
    <3>2. IsMessage(o) /\ o.due => o.key \in H /\ (IsServed(o, d, K, H, U) \/ Fetches(q))
      BY <3>1, <1>3, <2>8 DEF IsServed
    <3>3. queue'[d] = q \o <<o>>
      BY <3>1, <2>1 DEF q
    <3>4. AreServed(q \o <<o>>, d, K, H, U)
      BY <3>2, <2>6, <2>7, AreServedAppended
    <3> QED
      BY <3>3, <3>4, <1>2
  <2> QED
    BY <2>1, <2>9, <2>10 DEF Gained
<1>6. CASE Restarts(d)
  <2>1. \A o \in ToSet(queue'[d]) : ~IsMessage(o)
    BY <1>6 DEF Restarts, IsMessage
  <2> QED
    BY <2>1, <1>0, <1>2, AreServedOthers
<1>7. ~kill(d)
  BY <1>0 DEF kill
<1> QED
  BY <1>4, <1>5, <1>6, <1>7, EveryChain

LEMMA ReadingGoesOn ==
  ASSUME TypeOK, MessagesAreServed, ServedIsRead, Next PROVE ServedIsRead'
<1>1. failed \cup killed \subseteq failed' \cup killed' /\ untold \subseteq untold'
  BY HistoryStays
<1>2. CASE lost' = lost
  BY <1>1, <1>2 DEF ServedIsRead
<1>3. ASSUME NEW d \in Devices, NEW t \in {"message", "packet"}, decryptWithSenderKey(d, t)
      PROVE  ServedIsRead'
  <2> DEFINE o == Head(queue[d])
  <2>1. queue[d] # <<>> /\ queue[d] \in Seq(Op) /\ IsMessage(o) /\ o \in Op
    BY <1>3, ChainOf DEF decryptWithSenderKey, Runs, IsMessage, TypeOK
  <2>2. lost' = lost \/ /\ lost' = lost \cup {d}
                        /\ ~fetchesFirst(d, o) /\ o.key \notin keys[d] /\ o.due
    BY <1>3 DEF decryptWithSenderKey
  <2>3. ASSUME d \notin failed \cup killed, ~fetchesFirst(d, o), o.key \notin keys[d], o.due
        PROVE  d \notin Refetches /\ d \in untold
    <3>1. AreServed(queue[d], d, keys[d], Held(d), untold)
      BY <2>3 DEF MessagesAreServed
    <3> HIDE DEF o
    <3>2. IsServed(o, d, keys[d], Held(d), untold)
      BY <2>1, <2>3, <3>1, ServedFirst DEF o
    <3> QED
      BY <2>3, <3>2 DEF IsServed, fetchesFirst
  <2> HIDE DEF o
  <2> QED
    BY <2>2, <2>3, <1>1 DEF ServedIsRead
<1>4. ASSUME NEW d \in Devices, Works(d),
             ~ \E t \in {"message", "packet"} : decryptWithSenderKey(d, t)
      PROVE  lost' = lost
  BY <1>4 DEF Works, distributeSenderKey, initializeSenderKeys, sendMessage,
       fetchAndProcessPendingSenderKeys, rotateSenderKey, handleSenderKeyMessage,
       handleControlPacket, setUp, userJoined, sessionEstablished, onConnected
<1>5. \A d \in Devices : connect(d) \/ sendEnvelope(d) \/ link(d) \/ drop(d) => lost' = lost
  BY DEF connect, sendEnvelope, link, drop
<1>6. \A d, e \in Devices : deviceLinked(d, e) => lost' = lost
  BY DEF deviceLinked
<1>7. \A u \in Users : joinRoom(u) \/ deleteRoom(u) => lost' = lost
  BY DEF joinRoom, deleteRoom
<1>8. ASSUME NEW d \in Devices, kill(d) PROVE ServedIsRead'
  <2>1. lost' \subseteq lost \cup {d} /\ d \in killed'
    BY <1>8 DEF kill
  <2> QED
    BY <2>1, <1>1 DEF ServedIsRead
<1> QED
  BY <1>2, <1>3, <1>4, <1>5, <1>6, <1>7, <1>8 DEF Next

-----------------------------------------------------------------------------
(* The invariant is inductive.                                             *)
LEMMA SenderKeysInitially == ASSUME Init PROVE SenderKeysIInv
<1>0. TypeOK
  BY SenderKeysStart
<1> USE DEF Init
<1>1. \A d \in Devices : queue[d] = <<>> /\ ~Fetches(queue[d]) /\ GivesFirst(queue[d])
  BY ToSetShort DEF Fetches, GivesFirst
<1>2. ASSUME NEW d \in Devices, row[d] # none
      PROVE  /\ flag /\ d \in uses /\ user(d) \in Founders /\ d \in linked
             /\ ownKey(d) = [by |-> d, id |-> <<d, 1>>]
             /\ \A u \in Founders : ownKey(d) \in keys[primary(u)]
  <2>1. flag /\ d \in {primary(u) : u \in Founders} /\ d \in uses /\ row[d] = <<d, 1>>
    BY <1>2
  <2>2. ownKey(d) = [by |-> d, id |-> <<d, 1>>]
    BY <2>1 DEF ownKey
  <2>3. \A u \in Founders : primary(u) \in Devices /\ u \in Users
    BY SenderKeysAssumption
  <2>4. \A u \in Founders :
          keys[primary(u)] = {[by |-> e, id |-> <<e, 1>>] : e \in {primary(v) : v \in Founders}}
    BY <2>1, <2>3
  <2>5. user(d) \in Founders /\ d \in linked
    BY <2>1, <2>3, DeviceOf
  <2>6. \A u \in Founders : ownKey(d) \in keys[primary(u)]
    BY <2>1, <2>2, <2>4
  <2> QED
    BY <2>1, <2>2, <2>5, <2>6
<1>3. RowsAreOfMembers
  <2>1. \A u \in Users : primary(u) \in linked
    OBVIOUS
  <2>2. \A d \in Devices : d \notin InRoom => row[d] = none
    BY <1>2 DEF InRoom
  <2> QED
    BY <2>1, <2>2, <1>1, <1>2 DEF RowsAreOfMembers
<1>4. KeysAreServed
  <2> SUFFICES ASSUME NEW d \in InRoom, NEW u \in members \ {user(d)}, row[d] # none
               PROVE  Holds(primary(u), ownKey(d))
    BY DEF KeysAreServed
  <2>1. d \in Devices
    BY <1>0 DEF InRoom, TypeOK
  <2>2. ownKey(d) \in keys[primary(u)]
    BY <2>1, <1>2
  <2> QED
    BY <2>2 DEF Holds
<1>5. MessagesAreServed
  <2>1. \A d \in Devices : Arrived(d) = {}
    BY DEF Arrived
  <2>2. ASSUME NEW d \in Devices
        PROVE  AreServed(queue[d], d, keys[d], Held(d), untold)
    <3>1. queue[d] \in Seq(Op) /\ ToSet(queue[d]) = {}
      BY <1>1, ToSetShort
    <3> QED
      BY <3>1, AreServedOthers
  <2> QED
    BY <2>1, <2>2 DEF MessagesAreServed
<1>6. ServedIsRead
  BY DEF ServedIsRead
<1> QED
  BY <1>0, <1>3, <1>4, <1>5, <1>6 DEF SenderKeysIInv

LEMMA SenderKeysStutter ==
  ASSUME SenderKeysIInv, UNCHANGED vars PROVE SenderKeysIInv'
<1> USE DEF vars, serverVars, keyVars
<1>1. TypeOK'
  BY DEF SenderKeysIInv, TypeOK
<1>2. InRoom' = InRoom
  BY DEF InRoom
<1>3. RowsAreOfMembers'
  BY <1>2 DEF SenderKeysIInv, RowsAreOfMembers
<1>4. KeysAreServed'
  BY <1>2 DEF SenderKeysIInv, KeysAreServed, Holds, ownKey
<1>5. \A d \in Devices : Arrived(d)' = Arrived(d) /\ Held(d)' = Held(d)
  BY DEF Arrived, Held, Holds
<1>6. MessagesAreServed'
  BY <1>5 DEF SenderKeysIInv, MessagesAreServed
<1>7. ServedIsRead'
  BY DEF SenderKeysIInv, ServedIsRead
<1> QED
  BY <1>1, <1>3, <1>4, <1>6, <1>7 DEF SenderKeysIInv

(* The keys of a room, whatever its size and the order of what arrives:    *)
(* rows are of devices in the room, whoever has one has told the members   *)
(* or is about to, and a message that was served comes after its key or    *)
(* after the fetch that brings it.                                         *)
THEOREM SenderKeysInductive == Spec => []SenderKeysIInv
<1>1. Init => SenderKeysIInv
  BY SenderKeysInitially
<1>2. SenderKeysIInv /\ [Next]_vars => SenderKeysIInv'
  <2> SUFFICES ASSUME SenderKeysIInv, [Next]_vars PROVE SenderKeysIInv'
    OBVIOUS
  <2>1. CASE Next
    <3> USE <2>1 DEF SenderKeysIInv
    <3>1. TypeOK' /\ RowsAreOfMembers' /\ KeysAreServed' /\ ServedIsRead'
      BY SenderKeysTyped, RowsStay, ServiceGoesOn, ReadingGoesOn
    <3>2. MessagesAreServed'
      BY MessagesStayServed, FetchWaits DEF MessagesAreServed
    <3> QED
      BY <3>1, <3>2
  <2>2. CASE UNCHANGED vars
    BY <2>2, SenderKeysStutter
  <2> QED
    BY <2>1, <2>2
<1> QED
  BY <1>1, <1>2, PTL DEF Spec

LEMMA ServedMembers == ASSUME SenderKeysIInv PROVE MembersServed
<1>0. TypeOK /\ KeysAreServed
  BY DEF SenderKeysIInv
<1> SUFFICES ASSUME NEW d \in InRoom, NEW u \in members \ {user(d)}, Groupwise(d),
                    {d, primary(u)} \cap (failed \cup killed) = {}, d \notin borrowed
             PROVE  Holds(primary(u), ownKey(d)) \/ Awaits(d, primary(u))
  BY DEF MembersServed
<1>1. /\ d \in Devices /\ primary(u) \in Devices /\ user(primary(u)) = u
      /\ queue[d] \in Seq(Op) /\ queue[primary(u)] \in Seq(Op)
  BY <1>0, DeviceOf DEF InRoom, TypeOK
<1>2. \/ Holds(primary(u), ownKey(d))
      \/ Hands(queue[d], ownKey(d), primary(u))
      \/ Announces(queue[d], u)
      \/ SetsUp(queue[primary(u)], user(d))
  BY <1>0 DEF KeysAreServed, Groupwise
<1>3. CASE Hands(queue[d], ownKey(d), primary(u))
  BY <1>1, <1>3, InToSet DEF Hands, Awaits
<1>4. CASE Announces(queue[d], u)
  BY <1>1, <1>4, InToSet DEF Announces, Awaits
<1>5. CASE SetsUp(queue[primary(u)], user(d))
  BY <1>1, <1>5, InToSet DEF SetsUp, Awaits
<1> QED
  BY <1>2, <1>3, <1>4, <1>5

(* No member is forgotten when a sender key is made or rotated: the key    *)
(* was sent to its primary device, or an operation that will send it waits *)
(* on a chain (initializeSenderKeys, redistributeToNewMembers, joinRoom),  *)
(* unless a call of one of the two devices failed, or its app was killed   *)
(* with work on its chain: syncRoomMembersAndSessions does not come back   *)
(* to a member that has a session row.                                     *)
THEOREM MembersAreServed == Spec => []SenderKeysInv
<1>1. SenderKeysIInv => SenderKeysInv
  BY ServedMembers DEF SenderKeysIInv, SenderKeysInv
<1> QED
  BY <1>1, SenderKeysInductive, PTL

(* A message under a key that was sent to the device before is read, save  *)
(* for the exceptions ServedIsRead names (decryptWithSenderKey,            *)
(* fetchAndProcessPendingSenderKeys).                                      *)
THEOREM ServedMessagesAreRead == Spec => []ServedIsRead
<1>1. SenderKeysIInv => ServedIsRead
  BY DEF SenderKeysIInv
<1> QED
  BY <1>1, SenderKeysInductive, PTL

=============================================================================
