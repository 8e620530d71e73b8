--------------------------- MODULE Account_proofs ---------------------------
(***************************************************************************)
(* Theorems about Account, for any number of identities, restarts and      *)
(* failures.                                                               *)
(***************************************************************************)
EXTENDS Account, TLAPS

(* The invariant is a conjunction of what each store needs of the others.  *)
(* First, where the user is: on the login screen nothing is unlocked, and  *)
(* only a login's steps, up to the flip, are taken there.                  *)
OnLoginSteps == {"load", "wipe", "ask", "make", "erase",
                 "read", "challenge", "answer", "user", "flip"}
IdentitySteps == {"read", "challenge", "answer", "user", "flip"}

ScreenPart ==
    /\ bio => shown = "elsewhere"
    /\ step \in OnLoginSteps => shown # "elsewhere"
    /\ step \in IdentitySteps => loaded = stored /\ stored # none
    /\ step \in {"close", "clear"} => ready
    /\ step \in {"wipe", "ask", "make"} => made < MaxIds

(* The file holds rows of the identity in the keychain only, or the next   *)
(* to open it deletes it for want of a key, or a deletion is under way.    *)
Doomed == ~dbKey /\ ~dbOpen
Deleting == {"wipe", "erase", "clear"}

RowsPart ==
    /\ rows \subseteq {stored} \/ Doomed \/ step \in Deleting
    /\ shown = "not_found" /\ step # "wipe" => rows = {} \/ Doomed
    /\ step \in {"ask", "make"} => rows = {}
    /\ step \in Deleting => stored = none /\ ~dbKey
    /\ ready /\ ~dbOpen => rows = {}

(* A file that is open has its key in the keychain as long as there is an  *)
(* identity that was not claimed by an app that had started before.        *)
KeyPart ==
    /\ step = "ask" => ~dbOpen
    /\ step = "make" => dbOpen /\ dbKey
    /\ dbOpen /\ stored # none /\ ~claimed => dbKey
    /\ ready /\ stored # none /\ ~claimed => dbOpen

(* The permission dialog waits only over the unlocked app, so it does not  *)
(* lock the keystore under a login's reads.                                *)
LockPart ==
    /\ tooLate => left
    /\ step \in {"make", "read", "challenge"} => unlocked \/ left
    /\ dialog => left \/ (bio /\ shown = "elsewhere")

(* A token saved as token_server_0 is of the identity that logs in, and it *)
(* takes the place of an older one when the registry is loaded. Behind the *)
(* login screen no session lives and nothing awaits a token.               *)
SessionPart ==
    /\ registry => tokens["temp"] = none
    /\ ready => registry \/ step = "clear"
    /\ ~undone =>
        /\ shown # "elsewhere" =>
              ~auth /\ awaiting = none /\ (userKey = none \/ step = "flip")
        /\ step \in {"user", "flip"} => tokens[ownSlot] = loaded
        /\ step = "flip" => userKey = loaded
        /\ shown = "elsewhere" /\ stored # none =>
              /\ userKey = stored /\ userId = stored
              /\ tokens["temp"] \in {none, stored}
              /\ tokens["temp"] = none => tokens["default"] \in {none, stored}
              /\ awaiting \in {none, stored}

AccountIInv ==
    TypeOK /\ ScreenPart /\ RowsPart /\ KeyPart /\ LockPart /\ SessionPart

-----------------------------------------------------------------------------
(* The order of the login's steps.                                         *)
LEMMA OrderOfSteps ==
    /\ Then("read") = "challenge" /\ Then("challenge") = "answer"
    /\ Then("answer") = "user" /\ Then("user") = "flip"
    /\ Then("flip") = "sync" /\ Then("sync") = "idle"
    /\ Order[1] = "read"
<1>1. /\ DOMAIN Order = 1..6 /\ Len(Order) = 6
      /\ Order[1] = "read" /\ Order[2] = "challenge" /\ Order[3] = "answer"
      /\ Order[4] = "user" /\ Order[5] = "flip" /\ Order[6] = "sync"
  BY DEF Order
<1>2. ASSUME NEW k \in 1..6
      PROVE  (CHOOSE i \in DOMAIN Order : Order[i] = Order[k]) = k
  <2>1. \A i \in 1..6 : Order[i] = Order[k] <=> i = k
    BY <1>1
  <2>2. QED  BY <2>1, <1>1
<1>3. \A k \in 1..6 :
         Then(Order[k]) = IF k = 6 THEN "idle" ELSE Order[k + 1]
  BY <1>1, <1>2 DEF Then
<1>4. /\ Then(Order[1]) = Order[2] /\ Then(Order[2]) = Order[3]
      /\ Then(Order[3]) = Order[4] /\ Then(Order[4]) = Order[5]
      /\ Then(Order[5]) = Order[6] /\ Then(Order[6]) = "idle"
  BY <1>3
<1>5. QED  BY <1>1, <1>4

LEMMA StepNames ==
    Steps = {"read", "challenge", "answer", "user", "flip", "sync", "idle", "load",
             "wipe", "ask", "make", "erase", "close", "clear"}
<1>1. /\ DOMAIN Order = 1..6
      /\ Order[1] = "read" /\ Order[2] = "challenge" /\ Order[3] = "answer"
      /\ Order[4] = "user" /\ Order[5] = "flip" /\ Order[6] = "sync"
  BY DEF Order
<1>2. {Order[i] : i \in DOMAIN Order} =
          {"read", "challenge", "answer", "user", "flip", "sync"}
  BY <1>1
<1>3. QED  BY <1>2 DEF Steps

(* The types, in three parts.                                              *)
StoresTyped ==
    /\ stored \in Ids /\ tokens \in [Slots -> Ids] /\ userKey \in Ids
    /\ rows \subseteq 1..MaxIds /\ loaded \in {none, stored}
    /\ userId \in Ids /\ awaiting \in Ids
FlagsTyped ==
    /\ dbKey \in BOOLEAN /\ unlocked \in BOOLEAN /\ dbOpen \in BOOLEAN
    /\ registry \in BOOLEAN /\ ready \in BOOLEAN /\ dialog \in BOOLEAN
    /\ auth \in BOOLEAN /\ bio \in BOOLEAN
    /\ undone \in BOOLEAN /\ left \in BOOLEAN /\ tooLate \in BOOLEAN
    /\ claimed \in BOOLEAN
BoundsTyped ==
    /\ step \in Steps /\ shown \in {"found", "not_found", "elsewhere"}
    /\ made \in Ids /\ starts \in 0..MaxStarts /\ faults \in 0..MaxFaults

(* Every step of the app keeps the invariant: one step per action, and     *)
(* under it one per part.                                                  *)
LEMMA StepKeeps ==
    ASSUME AccountIInv, [Next]_vars
    PROVE  AccountIInv'
<1>0. MaxIds \in Nat /\ MaxStarts \in Nat /\ MaxFaults \in Nat
  BY AccountAssumption
<1> USE <1>0, OrderOfSteps, StepNames DEF AccountIInv, TypeOK, ScreenPart,
       RowsPart, KeyPart, LockPart, SessionPart, OnLoginSteps, IdentitySteps,
       Doomed, Deleting, Ids, Slots, none, ownSlot
<1>1. CASE continueWithExisting
  <2>1. TypeOK'
    BY <1>1 DEF continueWithExisting, OnLogin, kept, native, app, session,
           screen, history, bounds
  <2>2. ScreenPart'
    BY <1>1 DEF continueWithExisting, OnLogin, kept, native, app, session,
           screen, history, bounds
  <2>3. RowsPart'
    BY <1>1 DEF continueWithExisting, OnLogin, kept, native, app, session,
           screen, history, bounds
  <2>4. KeyPart'
    BY <1>1 DEF continueWithExisting, OnLogin, kept, native, app, session,
           screen, history, bounds
  <2>5. LockPart'
    BY <1>1 DEF continueWithExisting, OnLogin, kept, native, app, session,
           screen, history, bounds
  <2>6. SessionPart'
    BY <1>1 DEF continueWithExisting, OnLogin, kept, native, app, session,
           screen, history, bounds
  <2>7. QED  BY <2>1, <2>2, <2>3, <2>4, <2>5, <2>6
<1>2. CASE load
  <2>1. TypeOK'
    <3>1. StoresTyped'
      BY <1>2 DEF load, Stops, Fails, Succeeds, kept, native, app, session,
             screen, history, bounds, StoresTyped
    <3>2. FlagsTyped'
      BY <1>2 DEF load, Stops, Fails, Succeeds, kept, native, app, session,
             screen, history, bounds, FlagsTyped
    <3>3. BoundsTyped'
      BY <1>2 DEF load, Stops, Fails, Succeeds, kept, native, app, session,
             screen, history, bounds, BoundsTyped
    <3>4. QED  BY <3>1, <3>2, <3>3 DEF StoresTyped, FlagsTyped, BoundsTyped
  <2>2. ScreenPart'
    BY <1>2 DEF load, Stops, Fails, Succeeds, kept, native, app, session,
           screen, history, bounds
  <2>3. RowsPart'
    BY <1>2 DEF load, Stops, Fails, Succeeds, kept, native, app, session,
           screen, history, bounds
  <2>4. KeyPart'
    BY <1>2 DEF load, Stops, Fails, Succeeds, kept, native, app, session,
           screen, history, bounds
  <2>5. LockPart'
    BY <1>2 DEF load, Stops, Fails, Succeeds, kept, native, app, session,
           screen, history, bounds
  <2>6. SessionPart'
    BY <1>2 DEF load, Stops, Fails, Succeeds, kept, native, app, session,
           screen, history, bounds
  <2>7. QED  BY <2>1, <2>2, <2>3, <2>4, <2>5, <2>6
<1>3. CASE wipeAndCreate
  <2>1. TypeOK'
    <3>1. StoresTyped'
      BY <1>3 DEF wipeAndCreate, OnLogin, resetIdentityState, kept, native,
             app, session, screen, history, bounds, StoresTyped
    <3>2. FlagsTyped'
      BY <1>3 DEF wipeAndCreate, OnLogin, resetIdentityState, kept, native,
             app, session, screen, history, bounds, FlagsTyped
    <3>3. BoundsTyped'
      BY <1>3 DEF wipeAndCreate, OnLogin, resetIdentityState, kept, native,
             app, session, screen, history, bounds, BoundsTyped
    <3>4. QED  BY <3>1, <3>2, <3>3 DEF StoresTyped, FlagsTyped, BoundsTyped
  <2>2. ScreenPart'
    BY <1>3 DEF wipeAndCreate, OnLogin, resetIdentityState, kept, native, app,
           session, screen, history, bounds
  <2>3. RowsPart'
    BY <1>3 DEF wipeAndCreate, OnLogin, resetIdentityState, kept, native, app,
           session, screen, history, bounds
  <2>4. KeyPart'
    BY <1>3 DEF wipeAndCreate, OnLogin, resetIdentityState, kept, native, app,
           session, screen, history, bounds
  <2>5. LockPart'
    BY <1>3 DEF wipeAndCreate, OnLogin, resetIdentityState, kept, native, app,
           session, screen, history, bounds
  <2>6. SessionPart'
    BY <1>3 DEF wipeAndCreate, OnLogin, resetIdentityState, kept, native, app,
           session, screen, history, bounds
  <2>7. QED  BY <2>1, <2>2, <2>3, <2>4, <2>5, <2>6
<1>4. CASE wipe
  <2>1. TypeOK'
    BY <1>4 DEF wipe, wipeDatabaseFiles, kept, native, app, session, screen,
           history, bounds
  <2>2. ScreenPart'
    BY <1>4 DEF wipe, wipeDatabaseFiles, kept, native, app, session, screen,
           history, bounds
  <2>3. RowsPart'
    BY <1>4 DEF wipe, wipeDatabaseFiles, kept, native, app, session, screen,
           history, bounds
  <2>4. KeyPart'
    BY <1>4 DEF wipe, wipeDatabaseFiles, kept, native, app, session, screen,
           history, bounds
  <2>5. LockPart'
    BY <1>4 DEF wipe, wipeDatabaseFiles, kept, native, app, session, screen,
           history, bounds
  <2>6. SessionPart'
    BY <1>4 DEF wipe, wipeDatabaseFiles, kept, native, app, session, screen,
           history, bounds
  <2>7. QED  BY <2>1, <2>2, <2>3, <2>4, <2>5, <2>6
<1>5. CASE ask
  <2>1. TypeOK'
    <3>1. StoresTyped'
      BY <1>5 DEF ask, Stops, Fails, Succeeds, initDatabase, kept, native, app,
             session, screen, history, bounds, StoresTyped
    <3>2. FlagsTyped'
      BY <1>5 DEF ask, Stops, Fails, Succeeds, initDatabase, kept, native, app,
             session, screen, history, bounds, FlagsTyped
    <3>3. BoundsTyped'
      BY <1>5 DEF ask, Stops, Fails, Succeeds, initDatabase, kept, native, app,
             session, screen, history, bounds, BoundsTyped
    <3>4. QED  BY <3>1, <3>2, <3>3 DEF StoresTyped, FlagsTyped, BoundsTyped
  <2>2. ScreenPart'
    BY <1>5 DEF ask, Stops, Fails, Succeeds, initDatabase, kept, native, app,
           session, screen, history, bounds
  <2>3. RowsPart'
    BY <1>5 DEF ask, Stops, Fails, Succeeds, initDatabase, kept, native, app,
           session, screen, history, bounds
  <2>4. KeyPart'
    <3>1. ASSUME initDatabase({})  PROVE  dbOpen' /\ dbKey'
      <4>1. ~dbOpen /\ step = "ask"
        BY <1>5 DEF ask
      <4>2. QED  BY <4>1, <3>1 DEF initDatabase
    <3>2. \/ initDatabase({}) /\ step' = "make"
          \/ step' = "idle" /\ UNCHANGED <<dbKey, dbOpen>>
      BY <1>5 DEF ask, Stops
    <3>3. UNCHANGED <<stored, ready, claimed>>
      BY <1>5 DEF ask, initDatabase, history
    <3>4. QED  BY <3>1, <3>2, <3>3
  <2>5. LockPart'
    BY <1>5 DEF ask, Stops, Fails, Succeeds, initDatabase, kept, native, app,
           session, screen, history, bounds
  <2>6. SessionPart'
    BY <1>5 DEF ask, Stops, Fails, Succeeds, initDatabase, kept, native, app,
           session, screen, history, bounds
  <2>7. QED  BY <2>1, <2>2, <2>3, <2>4, <2>5, <2>6
<1>6. CASE initializeIdentity
  <2>0. made + 1 \in 0..MaxIds /\ made + 1 \in 1..MaxIds /\ made + 1 # 0
    <3>1. made \in 0..MaxIds /\ made < MaxIds
      BY <1>6 DEF initializeIdentity
    <3>2. QED  BY <3>1
  <2>1. TypeOK'
    <3>1. StoresTyped'
      <4>1. UNCHANGED <<tokens, userKey, rows, userId, awaiting>>
        BY <1>6 DEF initializeIdentity, session
      <4>2. stored' \in {0, made + 1} /\ loaded' = stored'
        BY <1>6 DEF initializeIdentity, resetIdentityState
      <4>3. QED  BY <4>1, <4>2, <2>0 DEF StoresTyped
    <3>2. FlagsTyped'
      BY <1>6 DEF initializeIdentity, Stops, Fails, Succeeds,
             resetIdentityState, kept, native, app, session, screen, history,
             bounds, FlagsTyped
    <3>3. BoundsTyped'
      <4>1. made' \in {made, made + 1} /\ step' \in {"read", "idle"}
        BY <1>6 DEF initializeIdentity, Stops
      <4>2. UNCHANGED <<shown, starts>>
        BY <1>6 DEF initializeIdentity
      <4>3. faults' \in 0..MaxFaults
        <5>1. (faults < MaxFaults /\ faults' = faults + 1) \/ faults' = faults
          BY <1>6 DEF initializeIdentity, Fails, Succeeds
        <5>2. QED  BY <5>1
      <4>4. QED  BY <4>1, <4>2, <4>3, <2>0 DEF BoundsTyped
    <3>4. QED  BY <3>1, <3>2, <3>3 DEF StoresTyped, FlagsTyped, BoundsTyped
  <2>2. ScreenPart'
    BY <1>6, <2>0 DEF initializeIdentity, Stops, Fails, Succeeds,
           resetIdentityState, kept, native, app, session, screen, history,
           bounds
  <2>3. RowsPart'
    BY <1>6 DEF initializeIdentity, Stops, Fails, Succeeds, resetIdentityState,
           kept, native, app, session, screen, history, bounds
  <2>4. KeyPart'
    BY <1>6 DEF initializeIdentity, Stops, Fails, Succeeds, resetIdentityState,
           kept, native, app, session, screen, history, bounds
  <2>5. LockPart'
    BY <1>6 DEF initializeIdentity, Stops, Fails, Succeeds, resetIdentityState,
           kept, native, app, session, screen, history, bounds
  <2>6. SessionPart'
    BY <1>6 DEF initializeIdentity, Stops, Fails, Succeeds, resetIdentityState,
           kept, native, app, session, screen, history, bounds
  <2>7. QED  BY <2>1, <2>2, <2>3, <2>4, <2>5, <2>6
<1>7. CASE readKeyMaterial
  <2>1. TypeOK'
    <3>1. StoresTyped'
      BY <1>7 DEF readKeyMaterial, readProtected, Goes, Stops, Fails, Succeeds,
             kept, native, app, session, screen, history, bounds, StoresTyped
    <3>2. FlagsTyped'
      BY <1>7 DEF readKeyMaterial, readProtected, Goes, Stops, Fails, Succeeds,
             kept, native, app, session, screen, history, bounds, FlagsTyped
    <3>3. BoundsTyped'
      BY <1>7 DEF readKeyMaterial, readProtected, Goes, Stops, Fails, Succeeds,
             kept, native, app, session, screen, history, bounds, BoundsTyped
    <3>4. QED  BY <3>1, <3>2, <3>3 DEF StoresTyped, FlagsTyped, BoundsTyped
  <2>2. ScreenPart'
    BY <1>7 DEF readKeyMaterial, readProtected, Goes, Stops, Fails, Succeeds,
           kept, native, app, session, screen, history, bounds
  <2>3. RowsPart'
    BY <1>7 DEF readKeyMaterial, readProtected, Goes, Stops, Fails, Succeeds,
           kept, native, app, session, screen, history, bounds
  <2>4. KeyPart'
    BY <1>7 DEF readKeyMaterial, readProtected, Goes, Stops, Fails, Succeeds,
           kept, native, app, session, screen, history, bounds
  <2>5. LockPart'
    BY <1>7 DEF readKeyMaterial, readProtected, Goes, Stops, Fails, Succeeds,
           kept, native, app, session, screen, history, bounds
  <2>6. SessionPart'
    BY <1>7 DEF readKeyMaterial, readProtected, Goes, Stops, Fails, Succeeds,
           kept, native, app, session, screen, history, bounds
  <2>7. QED  BY <2>1, <2>2, <2>3, <2>4, <2>5, <2>6
<1>8. CASE signChallenge
  <2>1. TypeOK'
    <3>1. StoresTyped'
      BY <1>8 DEF signChallenge, readProtected, Goes, Stops, Fails, Succeeds,
             kept, native, app, session, screen, history, bounds, StoresTyped
    <3>2. FlagsTyped'
      BY <1>8 DEF signChallenge, readProtected, Goes, Stops, Fails, Succeeds,
             kept, native, app, session, screen, history, bounds, FlagsTyped
    <3>3. BoundsTyped'
      BY <1>8 DEF signChallenge, readProtected, Goes, Stops, Fails, Succeeds,
             kept, native, app, session, screen, history, bounds, BoundsTyped
    <3>4. QED  BY <3>1, <3>2, <3>3 DEF StoresTyped, FlagsTyped, BoundsTyped
  <2>2. ScreenPart'
    BY <1>8 DEF signChallenge, readProtected, Goes, Stops, Fails, Succeeds,
           kept, native, app, session, screen, history, bounds
  <2>3. RowsPart'
    BY <1>8 DEF signChallenge, readProtected, Goes, Stops, Fails, Succeeds,
           kept, native, app, session, screen, history, bounds
  <2>4. KeyPart'
    BY <1>8 DEF signChallenge, readProtected, Goes, Stops, Fails, Succeeds,
           kept, native, app, session, screen, history, bounds
  <2>5. LockPart'
    BY <1>8 DEF signChallenge, readProtected, Goes, Stops, Fails, Succeeds,
           kept, native, app, session, screen, history, bounds
  <2>6. SessionPart'
    BY <1>8 DEF signChallenge, readProtected, Goes, Stops, Fails, Succeeds,
           kept, native, app, session, screen, history, bounds
  <2>7. QED  BY <2>1, <2>2, <2>3, <2>4, <2>5, <2>6
<1>9. CASE authenticated
  <2>1. TypeOK'
    BY <1>9 DEF authenticated, Goes, Stops, Fails, Succeeds, kept, native, app,
           session, screen, history, bounds
  <2>2. ScreenPart'
    BY <1>9 DEF authenticated, Goes, Stops, Fails, Succeeds, kept, native, app,
           session, screen, history, bounds
  <2>3. RowsPart'
    BY <1>9 DEF authenticated, Goes, Stops, Fails, Succeeds, kept, native, app,
           session, screen, history, bounds
  <2>4. KeyPart'
    BY <1>9 DEF authenticated, Goes, Stops, Fails, Succeeds, kept, native, app,
           session, screen, history, bounds
  <2>5. LockPart'
    BY <1>9 DEF authenticated, Goes, Stops, Fails, Succeeds, kept, native, app,
           session, screen, history, bounds
  <2>6. SessionPart'
    BY <1>9 DEF authenticated, Goes, Stops, Fails, Succeeds, kept, native, app,
           session, screen, history, bounds
  <2>7. QED  BY <2>1, <2>2, <2>3, <2>4, <2>5, <2>6
<1>10. CASE userSaved
  <2>1. TypeOK'
    BY <1>10 DEF userSaved, Goes, kept, native, app, session, screen, history,
           bounds
  <2>2. ScreenPart'
    BY <1>10 DEF userSaved, Goes, kept, native, app, session, screen, history,
           bounds
  <2>3. RowsPart'
    BY <1>10 DEF userSaved, Goes, kept, native, app, session, screen, history,
           bounds
  <2>4. KeyPart'
    BY <1>10 DEF userSaved, Goes, kept, native, app, session, screen, history,
           bounds
  <2>5. LockPart'
    BY <1>10 DEF userSaved, Goes, kept, native, app, session, screen, history,
           bounds
  <2>6. SessionPart'
    BY <1>10 DEF userSaved, Goes, kept, native, app, session, screen, history,
           bounds
  <2>7. QED  BY <2>1, <2>2, <2>3, <2>4, <2>5, <2>6
<1>11. CASE flip
  <2>1. TypeOK'
    BY <1>11 DEF flip, Goes, kept, native, app, session, screen, history,
           bounds
  <2>2. ScreenPart'
    BY <1>11 DEF flip, Goes, kept, native, app, session, screen, history,
           bounds
  <2>3. RowsPart'
    BY <1>11 DEF flip, Goes, kept, native, app, session, screen, history,
           bounds
  <2>4. KeyPart'
    BY <1>11 DEF flip, Goes, kept, native, app, session, screen, history,
           bounds
  <2>5. LockPart'
    BY <1>11 DEF flip, Goes, kept, native, app, session, screen, history,
           bounds
  <2>6. SessionPart'
    BY <1>11 DEF flip, Goes, kept, native, app, session, screen, history,
           bounds
  <2>7. QED  BY <2>1, <2>2, <2>3, <2>4, <2>5, <2>6
<1>12. CASE syncPublicKeys
  <2>1. TypeOK'
    BY <1>12 DEF syncPublicKeys, Goes, Succeeds, Fails, kept, native, app,
           session, screen, history, bounds
  <2>2. ScreenPart'
    BY <1>12 DEF syncPublicKeys, Goes, Succeeds, Fails, kept, native, app,
           session, screen, history, bounds
  <2>3. RowsPart'
    BY <1>12 DEF syncPublicKeys, Goes, Succeeds, Fails, kept, native, app,
           session, screen, history, bounds
  <2>4. KeyPart'
    BY <1>12 DEF syncPublicKeys, Goes, Succeeds, Fails, kept, native, app,
           session, screen, history, bounds
  <2>5. LockPart'
    BY <1>12 DEF syncPublicKeys, Goes, Succeeds, Fails, kept, native, app,
           session, screen, history, bounds
  <2>6. SessionPart'
    BY <1>12 DEF syncPublicKeys, Goes, Succeeds, Fails, kept, native, app,
           session, screen, history, bounds
  <2>7. QED  BY <2>1, <2>2, <2>3, <2>4, <2>5, <2>6
<1>13. CASE deleteLocalIdentity
  <2>1. TypeOK'
    <3>1. StoresTyped'
      BY <1>13 DEF deleteLocalIdentity, OnLogin, resetIdentityState, kept,
             native, app, session, screen, history, bounds, StoresTyped
    <3>2. FlagsTyped'
      BY <1>13 DEF deleteLocalIdentity, OnLogin, resetIdentityState, kept,
             native, app, session, screen, history, bounds, FlagsTyped
    <3>3. BoundsTyped'
      BY <1>13 DEF deleteLocalIdentity, OnLogin, resetIdentityState, kept,
             native, app, session, screen, history, bounds, BoundsTyped
    <3>4. QED  BY <3>1, <3>2, <3>3 DEF StoresTyped, FlagsTyped, BoundsTyped
  <2>2. ScreenPart'
    BY <1>13 DEF deleteLocalIdentity, OnLogin, resetIdentityState, kept,
           native, app, session, screen, history, bounds
  <2>3. RowsPart'
    BY <1>13 DEF deleteLocalIdentity, OnLogin, resetIdentityState, kept,
           native, app, session, screen, history, bounds
  <2>4. KeyPart'
    BY <1>13 DEF deleteLocalIdentity, OnLogin, resetIdentityState, kept,
           native, app, session, screen, history, bounds
  <2>5. LockPart'
    BY <1>13 DEF deleteLocalIdentity, OnLogin, resetIdentityState, kept,
           native, app, session, screen, history, bounds
  <2>6. SessionPart'
    BY <1>13 DEF deleteLocalIdentity, OnLogin, resetIdentityState, kept,
           native, app, session, screen, history, bounds
  <2>7. QED  BY <2>1, <2>2, <2>3, <2>4, <2>5, <2>6
<1>14. CASE erase
  <2>1. TypeOK'
    BY <1>14 DEF erase, wipeDatabaseFiles, kept, native, app, session, screen,
           history, bounds
  <2>2. ScreenPart'
    BY <1>14 DEF erase, wipeDatabaseFiles, kept, native, app, session, screen,
           history, bounds
  <2>3. RowsPart'
    BY <1>14 DEF erase, wipeDatabaseFiles, kept, native, app, session, screen,
           history, bounds
  <2>4. KeyPart'
    BY <1>14 DEF erase, wipeDatabaseFiles, kept, native, app, session, screen,
           history, bounds
  <2>5. LockPart'
    BY <1>14 DEF erase, wipeDatabaseFiles, kept, native, app, session, screen,
           history, bounds
  <2>6. SessionPart'
    BY <1>14 DEF erase, wipeDatabaseFiles, kept, native, app, session, screen,
           history, bounds
  <2>7. QED  BY <2>1, <2>2, <2>3, <2>4, <2>5, <2>6
<1>15. CASE claim
  <2>1. TypeOK'
    BY <1>15 DEF claim, OnLogin, kept, native, app, session, screen, history,
           bounds
  <2>2. ScreenPart'
    BY <1>15 DEF claim, OnLogin, kept, native, app, session, screen, history,
           bounds
  <2>3. RowsPart'
    BY <1>15 DEF claim, OnLogin, kept, native, app, session, screen, history,
           bounds
  <2>4. KeyPart'
    BY <1>15 DEF claim, OnLogin, kept, native, app, session, screen, history,
           bounds
  <2>5. LockPart'
    BY <1>15 DEF claim, OnLogin, kept, native, app, session, screen, history,
           bounds
  <2>6. SessionPart'
    BY <1>15 DEF claim, OnLogin, kept, native, app, session, screen, history,
           bounds
  <2>7. QED  BY <2>1, <2>2, <2>3, <2>4, <2>5, <2>6
<1>16. CASE initialize
  <2>1. TypeOK'
    BY <1>16 DEF initialize, initDatabase, migrated, kept, native, app,
           session, screen, history, bounds
  <2>2. ScreenPart'
    BY <1>16 DEF initialize, initDatabase, migrated, kept, native, app,
           session, screen, history, bounds
  <2>3. RowsPart'
    BY <1>16 DEF initialize, initDatabase, migrated, kept, native, app,
           session, screen, history, bounds
  <2>4. KeyPart'
    BY <1>16 DEF initialize, initDatabase, migrated, kept, native, app,
           session, screen, history, bounds
  <2>5. LockPart'
    BY <1>16 DEF initialize, initDatabase, migrated, kept, native, app,
           session, screen, history, bounds
  <2>6. SessionPart'
    BY <1>16 DEF initialize, initDatabase, migrated, kept, native, app,
           session, screen, history, bounds
  <2>7. QED  BY <2>1, <2>2, <2>3, <2>4, <2>5, <2>6
<1>17. CASE answered
  <2>1. TypeOK'
    <3>1. StoresTyped'
      BY <1>17 DEF answered, Fails, Succeeds, kept, native, app, session,
             screen, history, bounds, StoresTyped
    <3>2. FlagsTyped'
      <4>1. auth' \in BOOLEAN /\ bio' \in BOOLEAN
        <5>1. \/ auth' = TRUE /\ UNCHANGED bio
              \/ UNCHANGED <<auth, bio>>
          BY <1>17 DEF answered, session
        <5>2. CASE auth' = TRUE /\ UNCHANGED bio
          BY <5>2
        <5>3. CASE UNCHANGED <<auth, bio>>
          BY <5>3
        <5>4. QED  BY <5>1, <5>2, <5>3
      <4>2. QED
        BY <1>17, <4>1 DEF answered, kept, native, app, screen, history,
               FlagsTyped
    <3>3. BoundsTyped'
      BY <1>17 DEF answered, Fails, Succeeds, kept, native, app, session,
             screen, history, bounds, BoundsTyped
    <3>4. QED  BY <3>1, <3>2, <3>3 DEF StoresTyped, FlagsTyped, BoundsTyped
  <2>2. ScreenPart'
    BY <1>17 DEF answered, Fails, Succeeds, kept, native, app, session, screen,
           history, bounds
  <2>3. RowsPart'
    BY <1>17 DEF answered, Fails, Succeeds, kept, native, app, session, screen,
           history, bounds
  <2>4. KeyPart'
    BY <1>17 DEF answered, Fails, Succeeds, kept, native, app, session, screen,
           history, bounds
  <2>5. LockPart'
    BY <1>17 DEF answered, Fails, Succeeds, kept, native, app, session, screen,
           history, bounds
  <2>6. SessionPart'
    BY <1>17 DEF answered, Fails, Succeeds, kept, native, app, session, screen,
           history, bounds
  <2>7. QED  BY <2>1, <2>2, <2>3, <2>4, <2>5, <2>6
<1>18. CASE refused
  <2>1. TypeOK'
    BY <1>18 DEF refused, Fails, kept, native, app, session, screen, history,
           bounds
  <2>2. ScreenPart'
    BY <1>18 DEF refused, Fails, kept, native, app, session, screen, history,
           bounds
  <2>3. RowsPart'
    BY <1>18 DEF refused, Fails, kept, native, app, session, screen, history,
           bounds
  <2>4. KeyPart'
    BY <1>18 DEF refused, Fails, kept, native, app, session, screen, history,
           bounds
  <2>5. LockPart'
    BY <1>18 DEF refused, Fails, kept, native, app, session, screen, history,
           bounds
  <2>6. SessionPart'
    BY <1>18 DEF refused, Fails, kept, native, app, session, screen, history,
           bounds
  <2>7. QED  BY <2>1, <2>2, <2>3, <2>4, <2>5, <2>6
<1>19. CASE background
  <2>1. TypeOK'
    <3>1. StoresTyped'
      BY <1>19 DEF background, locks, kept, native, app, session, screen,
             history, bounds, StoresTyped
    <3>2. FlagsTyped'
      BY <1>19 DEF background, locks, kept, native, app, session, screen,
             history, bounds, FlagsTyped
    <3>3. BoundsTyped'
      BY <1>19 DEF background, locks, kept, native, app, session, screen,
             history, bounds, BoundsTyped
    <3>4. QED  BY <3>1, <3>2, <3>3 DEF StoresTyped, FlagsTyped, BoundsTyped
  <2>2. ScreenPart'
    BY <1>19 DEF background, locks, kept, native, app, session, screen,
           history, bounds
  <2>3. RowsPart'
    BY <1>19 DEF background, locks, kept, native, app, session, screen,
           history, bounds
  <2>4. KeyPart'
    BY <1>19 DEF background, locks, kept, native, app, session, screen,
           history, bounds
  <2>5. LockPart'
    BY <1>19 DEF background, locks, kept, native, app, session, screen,
           history, bounds
  <2>6. SessionPart'
    BY <1>19 DEF background, locks, kept, native, app, session, screen,
           history, bounds
  <2>7. QED  BY <2>1, <2>2, <2>3, <2>4, <2>5, <2>6
<1>20. CASE pushDialog
  <2>1. TypeOK'
    <3>1. StoresTyped'
      BY <1>20 DEF pushDialog, locks, kept, native, app, session, screen,
             history, bounds, StoresTyped
    <3>2. FlagsTyped'
      BY <1>20 DEF pushDialog, locks, kept, native, app, session, screen,
             history, bounds, FlagsTyped
    <3>3. BoundsTyped'
      BY <1>20 DEF pushDialog, locks, kept, native, app, session, screen,
             history, bounds, BoundsTyped
    <3>4. QED  BY <3>1, <3>2, <3>3 DEF StoresTyped, FlagsTyped, BoundsTyped
  <2>2. ScreenPart'
    BY <1>20 DEF pushDialog, locks, kept, native, app, session, screen,
           history, bounds
  <2>3. RowsPart'
    BY <1>20 DEF pushDialog, locks, kept, native, app, session, screen,
           history, bounds
  <2>4. KeyPart'
    BY <1>20 DEF pushDialog, locks, kept, native, app, session, screen,
           history, bounds
  <2>5. LockPart'
    BY <1>20 DEF pushDialog, locks, kept, native, app, session, screen,
           history, bounds
  <2>6. SessionPart'
    BY <1>20 DEF pushDialog, locks, kept, native, app, session, screen,
           history, bounds
  <2>7. QED  BY <2>1, <2>2, <2>3, <2>4, <2>5, <2>6
<1>21. CASE unlock
  <2>1. TypeOK'
    BY <1>21 DEF unlock, OnLockScreen, kept, native, app, session, screen,
           history, bounds
  <2>2. ScreenPart'
    BY <1>21 DEF unlock, OnLockScreen, kept, native, app, session, screen,
           history, bounds
  <2>3. RowsPart'
    BY <1>21 DEF unlock, OnLockScreen, kept, native, app, session, screen,
           history, bounds
  <2>4. KeyPart'
    BY <1>21 DEF unlock, OnLockScreen, kept, native, app, session, screen,
           history, bounds
  <2>5. LockPart'
    BY <1>21 DEF unlock, OnLockScreen, kept, native, app, session, screen,
           history, bounds
  <2>6. SessionPart'
    BY <1>21 DEF unlock, OnLockScreen, kept, native, app, session, screen,
           history, bounds
  <2>7. QED  BY <2>1, <2>2, <2>3, <2>4, <2>5, <2>6
<1>22. CASE signOut
  <2>1. TypeOK'
    <3>1. StoresTyped'
      BY <1>22 DEF signOut, OnLockScreen, signedOut, checkIdentity, kept,
             native, app, session, screen, history, bounds, StoresTyped
    <3>2. FlagsTyped'
      BY <1>22 DEF signOut, OnLockScreen, signedOut, checkIdentity, kept,
             native, app, session, screen, history, bounds, FlagsTyped
    <3>3. BoundsTyped'
      BY <1>22 DEF signOut, OnLockScreen, signedOut, checkIdentity, kept,
             native, app, session, screen, history, bounds, BoundsTyped
    <3>4. QED  BY <3>1, <3>2, <3>3 DEF StoresTyped, FlagsTyped, BoundsTyped
  <2>2. ScreenPart'
    BY <1>22 DEF signOut, OnLockScreen, signedOut, checkIdentity, kept, native,
           app, session, screen, history, bounds
  <2>3. RowsPart'
    BY <1>22 DEF signOut, OnLockScreen, signedOut, checkIdentity, kept, native,
           app, session, screen, history, bounds
  <2>4. KeyPart'
    BY <1>22 DEF signOut, OnLockScreen, signedOut, checkIdentity, kept, native,
           app, session, screen, history, bounds
  <2>5. LockPart'
    BY <1>22 DEF signOut, OnLockScreen, signedOut, checkIdentity, kept, native,
           app, session, screen, history, bounds
  <2>6. SessionPart'
    BY <1>22 DEF signOut, OnLockScreen, signedOut, checkIdentity, kept, native,
           app, session, screen, history, bounds
  <2>7. QED  BY <2>1, <2>2, <2>3, <2>4, <2>5, <2>6
<1>23. CASE logout
  <2>1. TypeOK'
    BY <1>23 DEF logout, OnProfile, clearTokens, signedOut, checkIdentity,
           kept, native, app, session, screen, history, bounds
  <2>2. ScreenPart'
    BY <1>23 DEF logout, OnProfile, clearTokens, signedOut, checkIdentity,
           kept, native, app, session, screen, history, bounds
  <2>3. RowsPart'
    BY <1>23 DEF logout, OnProfile, clearTokens, signedOut, checkIdentity,
           kept, native, app, session, screen, history, bounds
  <2>4. KeyPart'
    BY <1>23 DEF logout, OnProfile, clearTokens, signedOut, checkIdentity,
           kept, native, app, session, screen, history, bounds
  <2>5. LockPart'
    BY <1>23 DEF logout, OnProfile, clearTokens, signedOut, checkIdentity,
           kept, native, app, session, screen, history, bounds
  <2>6. SessionPart'
    BY <1>23 DEF logout, OnProfile, clearTokens, signedOut, checkIdentity,
           kept, native, app, session, screen, history, bounds
  <2>7. QED  BY <2>1, <2>2, <2>3, <2>4, <2>5, <2>6
<1>24. CASE deleteAccount
  <2>1. TypeOK'
    BY <1>24 DEF deleteAccount, OnProfile, kept, native, app, session, screen,
           history, bounds
  <2>2. ScreenPart'
    BY <1>24 DEF deleteAccount, OnProfile, kept, native, app, session, screen,
           history, bounds
  <2>3. RowsPart'
    BY <1>24 DEF deleteAccount, OnProfile, kept, native, app, session, screen,
           history, bounds
  <2>4. KeyPart'
    BY <1>24 DEF deleteAccount, OnProfile, kept, native, app, session, screen,
           history, bounds
  <2>5. LockPart'
    BY <1>24 DEF deleteAccount, OnProfile, kept, native, app, session, screen,
           history, bounds
  <2>6. SessionPart'
    BY <1>24 DEF deleteAccount, OnProfile, kept, native, app, session, screen,
           history, bounds
  <2>7. QED  BY <2>1, <2>2, <2>3, <2>4, <2>5, <2>6
<1>25. CASE close
  <2>1. TypeOK'
    BY <1>25 DEF close, resetIdentityState, kept, native, app, session, screen,
           history, bounds
  <2>2. ScreenPart'
    BY <1>25 DEF close, resetIdentityState, kept, native, app, session, screen,
           history, bounds
  <2>3. RowsPart'
    BY <1>25 DEF close, resetIdentityState, kept, native, app, session, screen,
           history, bounds
  <2>4. KeyPart'
    BY <1>25 DEF close, resetIdentityState, kept, native, app, session, screen,
           history, bounds
  <2>5. LockPart'
    BY <1>25 DEF close, resetIdentityState, kept, native, app, session, screen,
           history, bounds
  <2>6. SessionPart'
    BY <1>25 DEF close, resetIdentityState, kept, native, app, session, screen,
           history, bounds
  <2>7. QED  BY <2>1, <2>2, <2>3, <2>4, <2>5, <2>6
<1>26. CASE clear
  <2>1. TypeOK'
    BY <1>26 DEF clear, clearTokens, signedOut, checkIdentity, kept, native,
           app, session, screen, history, bounds
  <2>2. ScreenPart'
    BY <1>26 DEF clear, clearTokens, signedOut, checkIdentity, kept, native,
           app, session, screen, history, bounds
  <2>3. RowsPart'
    BY <1>26 DEF clear, clearTokens, signedOut, checkIdentity, kept, native,
           app, session, screen, history, bounds
  <2>4. KeyPart'
    BY <1>26 DEF clear, clearTokens, signedOut, checkIdentity, kept, native,
           app, session, screen, history, bounds
  <2>5. LockPart'
    BY <1>26 DEF clear, clearTokens, signedOut, checkIdentity, kept, native,
           app, session, screen, history, bounds
  <2>6. SessionPart'
    BY <1>26 DEF clear, clearTokens, signedOut, checkIdentity, kept, native,
           app, session, screen, history, bounds
  <2>7. QED  BY <2>1, <2>2, <2>3, <2>4, <2>5, <2>6
<1>27. CASE restart
  <2>1. TypeOK'
    <3>1. StoresTyped'
      BY <1>27 DEF restart, loadStoredToken, restored, checkIdentity, kept,
             native, app, session, screen, history, bounds, StoresTyped
    <3>2. FlagsTyped'
      BY <1>27 DEF restart, loadStoredToken, restored, checkIdentity, kept,
             native, app, session, screen, history, bounds, FlagsTyped
    <3>3. BoundsTyped'
      BY <1>27 DEF restart, loadStoredToken, restored, checkIdentity, kept,
             native, app, session, screen, history, bounds, BoundsTyped
    <3>4. QED  BY <3>1, <3>2, <3>3 DEF StoresTyped, FlagsTyped, BoundsTyped
  <2>2. ScreenPart'
    BY <1>27 DEF restart, loadStoredToken, restored, checkIdentity, kept,
           native, app, session, screen, history, bounds
  <2>3. RowsPart'
    BY <1>27 DEF restart, loadStoredToken, restored, checkIdentity, kept,
           native, app, session, screen, history, bounds
  <2>4. KeyPart'
    BY <1>27 DEF restart, loadStoredToken, restored, checkIdentity, kept,
           native, app, session, screen, history, bounds
  <2>5. LockPart'
    BY <1>27 DEF restart, loadStoredToken, restored, checkIdentity, kept,
           native, app, session, screen, history, bounds
  <2>6. SessionPart'
    BY <1>27 DEF restart, loadStoredToken, restored, checkIdentity, kept,
           native, app, session, screen, history, bounds
  <2>7. QED  BY <2>1, <2>2, <2>3, <2>4, <2>5, <2>6
<1>28. CASE UNCHANGED vars
  BY <1>28 DEF vars, kept, native, app, session, screen, history, bounds
<1>29. QED
  BY <1>1, <1>2, <1>3, <1>4, <1>5, <1>6, <1>7, <1>8, <1>9, <1>10, <1>11, <1>12,
         <1>13, <1>14, <1>15, <1>16, <1>17, <1>18, <1>19, <1>20, <1>21, <1>22,
         <1>23, <1>24, <1>25, <1>26, <1>27, <1>28 DEF Next

LEMMA InitKeeps ==
    Init => AccountIInv
<1> SUFFICES ASSUME Init  PROVE AccountIInv
  OBVIOUS
<1>0. MaxIds \in Nat /\ MaxStarts \in Nat /\ MaxFaults \in Nat
  BY AccountAssumption
<1>1. TypeOK
  <2>1. StoresTyped
    BY <1>0 DEF Init, StoresTyped, Ids, Slots, none
  <2>2. FlagsTyped
    BY DEF Init, FlagsTyped
  <2>3. BoundsTyped
    BY <1>0, StepNames DEF Init, BoundsTyped, Ids
  <2>4. QED
    BY <2>1, <2>2, <2>3 DEF StoresTyped, FlagsTyped, BoundsTyped, TypeOK
<1>2. ScreenPart /\ RowsPart /\ KeyPart /\ LockPart /\ SessionPart
  BY DEF Init, ScreenPart, RowsPart, KeyPart, LockPart, SessionPart,
         OnLoginSteps, IdentitySteps, Deleting, Slots, none
<1>3. QED  BY <1>1, <1>2 DEF AccountIInv

-----------------------------------------------------------------------------
(* Theorem. In every behaviour the stores are of their types, what is in   *)
(* memory is what the keychain holds, and no identity sees rows of         *)
(* another: the file is wiped by whichever of wipeAndCreate,               *)
(* deleteLocalIdentity, deleteAccount or the next initDatabase comes first.*)
THEOREM RowsOfOneIdentity ==
    Spec => []AccountInv
<1>1. AccountIInv => AccountInv
  BY DEF AccountIInv, AccountInv, RowsAreOurs, TypeOK, ScreenPart, RowsPart,
         Doomed, Deleting, OnLoginSteps, none
<1>2. QED  BY <1>1, InitKeeps, StepKeeps, PTL DEF Spec

(* Theorem. The unlocked app uses the token and the user id of the         *)
(* identity it has loaded, whatever tokens a predecessor left behind,      *)
(* unless a sign-out was undone.                                           *)
THEOREM SessionOfTheIdentity ==
    Spec => []SessionIsOurs
<1>1. AccountIInv => SessionIsOurs
  BY DEF AccountIInv, SessionIsOurs, TypeOK, ScreenPart, RowsPart, SessionPart,
         OnLoginSteps, Deleting, none
<1>2. QED  BY <1>1, InitKeeps, StepKeeps, PTL DEF Spec

(* Theorem. Nothing locks the keystore under a login's reads but the user, *)
(* who leaves the app.                                                     *)
THEOREM LockFromLeaving ==
    Spec => []LockedOnlyIfLeft
<1>1. AccountIInv => LockedOnlyIfLeft
  BY DEF AccountIInv, LockedOnlyIfLeft, LockPart
<1>2. QED  BY <1>1, InitKeeps, StepKeeps, PTL DEF Spec

(* Theorem. A running, unlocked app has an open database, and the keychain *)
(* the key that opens it at the next start, unless an identity was claimed *)
(* by an app that had started before.                                      *)
THEOREM DatabaseOpensAgain ==
    Spec => []DatabaseKept
<1>1. AccountIInv => DatabaseKept
  BY DEF AccountIInv, DatabaseKept, TypeOK, KeyPart, none
<1>2. QED  BY <1>1, InitKeeps, StepKeeps, PTL DEF Spec
=============================================================================
