------------------------------ MODULE PreKeys ------------------------------
(***************************************************************************)
(* The one-time pre-keys of one device on the servers it is signed in to:  *)
(* SessionService's refresh, ServerRegistry's upload of the bundle and the *)
(* native module that makes, stores, reloads and uses the keys.            *)
(*                                                                         *)
(* The module's functions run one at a time, in the order of the calls.    *)
(* Between a call and what follows its promise other JavaScript runs. A    *)
(* server hands every pre-key it was given to one peer, and takes no id it *)
(* has had before. Peers and servers are external.                         *)
(***************************************************************************)
EXTENDS Integers, Sequences, FiniteSets, SequencesExt

CONSTANTS
    Servers,
    Default,     \* the server the user logged in to
    Android,     \* the native module: Kotlin, or Swift
    Initial,     \* MAX_PRE_KEYS, keys made with the identity (100 in the code)
    Upload,      \* keys of a bundle a server takes (100)
    Batch,       \* PREKEY_BATCH_SIZE (50)
    PreKeyThreshold,   \* PREKEY_THRESHOLD (10)
    Stored,      \* maxStoredPreKeys (200)
    MaxVal,      \* MAX_VAL (16777215); bound: the ids never start again
    MaxFirsts,   \* bound: peers that write for the first time
    MaxEvents    \* bound: calls that fail, restarts and unlocks

ASSUME PreKeysAssumption ==
    /\ Default \in Servers /\ Android \in BOOLEAN
    /\ {Initial, Upload, Batch, Stored} \subseteq Nat \ {0}
    /\ {PreKeyThreshold, MaxFirsts, MaxEvents} \subseteq Nat
    /\ MaxVal \in Nat /\ Initial + 2 < MaxVal /\ Initial <= Stored

VARIABLES
    servers,   \* servers the device is signed in to
    timesMade, \* how often a pre-key of an id was made
    native,    \* the key the native store has under an id, 0 for none
    used,      \* ids the native store has marked used (kyber)
    stored,    \* pre-keys of the metadata, in the keystore
    loaded,    \* pre-keys of localUser, in memory
    last,      \* lastPreKeyId and lastKyberPreKeyId
    pool,      \* pre-keys a server has left
    known,     \* ids a server was ever given
    lock,      \* refreshLocks: the refresh that holds it, 0 for none
    calls,     \* calls of the native module, in order
    uploads,   \* syncPublicKeys calls that are under way
    firsts,    \* first messages of peers and the pre-keys they use
    raced,     \* history: kinds two refreshes replenished at the same time
    events

deviceVars == <<timesMade, native, used, stored, loaded, last>>
poolVars == <<servers, pool, known>>
preKeyVars == <<poolVars, deviceVars, lock, calls, uploads, firsts, raced,
                events>>

-----------------------------------------------------------------------------
Kinds == {"preKey", "kyberPreKey"}
PreKeyIds == 1..(MaxVal - 1)

(* The key made under an id at the gen-th time.                            *)
OneTimeKeys == [id : PreKeyIds, gen : Nat \ {0}]

(* generatePreKeys and generateKyberPreKeys.                               *)
generated(start, n) == [i \in 1..n |-> ((start + i - 1) % (MaxVal - 1)) + 1]
fresh(k, start) ==
    [i \in 1..Batch |-> LET id == generated(start, Batch)[i]
                        IN  [id |-> id, gen |-> timesMade[k][id] + 1]]

Refreshes == 1..2
Task == [srv : Servers, refresh : Refreshes, kind : Kinds, start : Nat \ {0},
         keys : Seq(OneTimeKeys)]
tasksOf(s, n, T) == {t \in T : t.srv = s /\ t.refresh = n}

Event == events < MaxEvents /\ events' = events + 1
NoEvent == UNCHANGED events

-----------------------------------------------------------------------------
(* A new identity, published on the default server.                        *)
firstKeys == [i \in 1..Initial |-> [id |-> generated(1, Initial)[i], gen |-> 1]]

(* What uploadPreKeysToServer sends of a list: its first keys.             *)
bundle(list) == ToSet(SubSeq(list, 1, IF Len(list) < Upload THEN Len(list) ELSE Upload))

PreKeysInit ==
    /\ servers = {Default}
    /\ LET born(i) == IF \E e \in ToSet(firstKeys) : e.id = i THEN 1 ELSE 0
       IN  timesMade = [k \in Kinds |-> [i \in PreKeyIds |-> born(i)]]
    /\ native = timesMade /\ used = {}
    /\ stored = [k \in Kinds |-> firstKeys] /\ loaded = stored
    /\ last = [k \in Kinds |-> Initial + 1]
    /\ pool = [s \in Servers |-> [k \in Kinds |->
                  IF s = Default THEN bundle(firstKeys) ELSE {}]]
    /\ known = [s \in Servers |-> [k \in Kinds |-> {e.id : e \in pool[s][k]}]]
    /\ lock = [s \in Servers |-> 0] /\ calls = <<>> /\ uploads = {}
    /\ firsts = {} /\ raced = {} /\ events = 0

-----------------------------------------------------------------------------
(* A server is given pre-keys: it adds those whose ids it has never had.   *)
given(s, new) ==
    LET adds == [k \in Kinds |-> {e \in new[k] : e.id \notin known[s][k]}]
    IN  /\ pool' = [pool EXCEPT ![s] = [k \in Kinds |-> @[k] \cup adds[k]]]
        /\ known' = [known EXCEPT ![s] = [k \in Kinds |->
                        @[k] \cup {e.id : e \in adds[k]}]]

(* addServer and reconnectServer: uploadPreKeysToServer sends the first    *)
(* keys of localUser, whatever has become of them. (A failure changes      *)
(* nothing but for a new server, which then has none.)                     *)
uploadPreKeysToServer(s) ==
    /\ servers' = servers \cup {s}
    /\ \/ NoEvent /\ given(s, [k \in Kinds |-> bundle(loaded[k])])
       \/ Event /\ UNCHANGED <<pool, known>>
    /\ UNCHANGED <<deviceVars, lock, calls, uploads, firsts, raced>>

-----------------------------------------------------------------------------
(* Mutant of next: off by one.                                             *)
nextLast(k) == last[k]
(* startId, read when the replenishing begins.                             *)
next(k) == last[k] + 1

(* The refresh of a server: at boot, in the foreground, on connect, after  *)
(* a message that could not be read. The lock keeps a second one out. When *)
(* getKeyStatus has answered (when it fails the refresh is over), each     *)
(* kind that is low is replenished, both at once. (The signed pre-key is   *)
(* left out.)                                                              *)
low(s) == {k \in Kinds : Cardinality(pool[s][k]) < PreKeyThreshold}

Call(s, n, k) == [srv |-> s, refresh |-> n, kind |-> k, start |-> next(k),
                  keys |-> <<>>]

refreshPreKeysForServer(s) ==
    /\ s \in servers /\ lock[s] = 0 /\ low(s) # {}
    /\ LET free == {r \in Refreshes : tasksOf(s, r, ToSet(calls) \cup uploads) = {}}
           n == CHOOSE r \in free : TRUE
           ifLow(k) == IF k \in low(s) THEN <<Call(s, n, k)>> ELSE <<>>
       IN  /\ free # {}                                               \* bound
           /\ lock' = [lock EXCEPT ![s] = n]
           /\ calls' = calls \o ifLow("preKey") \o ifLow("kyberPreKey")
    /\ raced' = raced \cup {k \in low(s) : \E t \in ToSet(calls) : t.kind = k}
    /\ UNCHANGED <<poolVars, deviceVars, uploads, firsts, events>>

isLast(t) == tasksOf(t.srv, t.refresh, ToSet(calls') \cup uploads') = {}

(* Mutant of done: the lock stays when a task fails (no finally).          *)
doneKeepsLock(t, failed) ==
    lock' = [lock EXCEPT ![t.srv] =
                IF ~failed /\ isLast(t) THEN 0 ELSE @]

(* A task is over. Promise.all waits for the last one, or for the first    *)
(* that fails, and finally lets the lock go.                               *)
done(t, failed) ==
    lock' = [lock EXCEPT ![t.srv] =
                IF @ = t.refresh /\ (failed \/ isLast(t)) THEN 0 ELSE @]

(* The metadata keeps the newest keys.                                     *)
newest(s) == IF Len(s) > Stored THEN SubSeq(s, Len(s) - Stored + 1, Len(s)) ELSE s

(* The store has the new keys under their ids.                             *)
storePreKeys(k, new, was) ==
    [i \in PreKeyIds |-> IF \E e \in ToSet(new) : e.id = i
                         THEN timesMade[k][i] + 1 ELSE was[i]]

(* The native replenishPreKeys and replenishKyberPreKeys, whose store      *)
(* keeps all keys, then lastPreKeyId or lastKyberPreKeyId.                 *)
replenishPreKeys(s) ==
    /\ calls # <<>> /\ Head(calls).srv = s /\ calls' = Tail(calls)
    /\ LET t == Head(calls)
           k == t.kind
           new == fresh(k, t.start)
       IN  /\ t.start + Batch < MaxVal                               \* bound
           /\ \/ /\ NoEvent
                 /\ timesMade' = [timesMade EXCEPT ![k] = storePreKeys(k, new, @)]
                 /\ native' = [native EXCEPT ![k] = storePreKeys(k, new, @)]
                 /\ stored' = [stored EXCEPT ![k] = newest(@ \o new)]
                 /\ last' = [last EXCEPT ![k] = t.start + Batch - 1]
                 /\ uploads' = uploads \cup {[t EXCEPT !.keys = new]}
                 /\ done(t, FALSE)
              \/ /\ Event /\ UNCHANGED <<timesMade, native, stored, last,
                                         uploads>>
                 /\ done(t, TRUE)
    /\ UNCHANGED <<poolVars, used, loaded, firsts, raced>>

syncPublicKeys(t) ==
    /\ t \in uploads /\ uploads' = uploads \ {t}
    /\ UNCHANGED <<servers, deviceVars, calls, firsts, raced>>
    /\ \/ /\ NoEvent /\ done(t, FALSE)
          /\ given(t.srv, [k \in Kinds |-> IF k = t.kind THEN ToSet(t.keys) ELSE {}])
       \/ Event /\ done(t, TRUE) /\ UNCHANGED <<pool, known>>

-----------------------------------------------------------------------------
(* A peer fetches a bundle of the device and writes to it.                 *)
getRemoteKeys(s) ==
    /\ Cardinality(firsts) < MaxFirsts
    /\ \E p \in pool[s]["preKey"], q \in pool[s]["kyberPreKey"] :
          /\ pool' = [pool EXCEPT ![s]["preKey"] = @ \ {p},
                                  ![s]["kyberPreKey"] = @ \ {q}]
          /\ firsts' = firsts \cup
                {[srv |-> s, preKey |-> p, kyberPreKey |-> q, at |-> "sent"]}
    /\ UNCHANGED <<servers, known, deviceVars, lock, calls, uploads, raced,
                   events>>

(* EncryptedSession.decrypt of the first message: libsignal loads both     *)
(* keys, removes the one-time key and marks the kyber key used: Android    *)
(* deletes it and refuses its id to another message, iOS takes a note.     *)
holds(k, e) == native[k][e.id] = e.gen

reads(m) == /\ holds("preKey", m.preKey) /\ holds("kyberPreKey", m.kyberPreKey)
            /\ Android => m.kyberPreKey.id \notin used

removePreKey(m) == [native EXCEPT !["preKey"][m.preKey.id] = 0]
markKyberPreKeyUsed(m) ==
    IF Android THEN [removePreKey(m) EXCEPT !["kyberPreKey"][m.kyberPreKey.id] = 0]
    ELSE removePreKey(m)

decryptMessage(m) ==
    /\ m.at = "sent"
    /\ IF reads(m)
       THEN /\ native' = markKyberPreKeyUsed(m)
            /\ used' = used \cup {m.kyberPreKey.id}
            /\ firsts' = (firsts \ {m}) \cup {[m EXCEPT !.at = "read"]}
       ELSE /\ firsts' = (firsts \ {m}) \cup {[m EXCEPT !.at = "lost"]}
            /\ UNCHANGED <<native, used>>
    /\ UNCHANGED <<poolVars, timesMade, stored, loaded, last, lock, calls,
                   uploads, raced, events>>

-----------------------------------------------------------------------------
(* Mutant of restored: the store keeps what the metadata has.              *)
restoredOnly(k) ==
    [i \in PreKeyIds |->
        LET G == {e.gen : e \in {f \in ToSet(stored[k]) : f.id = i}}
        IN  IF G = {} THEN 0 ELSE CHOOSE g \in G : \A h \in G : h <= g]

(* loadStoredLocalUser: the keys of the metadata go to memory and back to  *)
(* the store, those used meanwhile included. At every unlock.              *)
restored(k) ==
    [i \in PreKeyIds |->
        LET G == {e.gen : e \in {f \in ToSet(stored[k]) : f.id = i}}
        IN  IF G = {} THEN native[k][i]
            ELSE CHOOSE g \in G : \A h \in G : h <= g]

loadStoredLocalUser ==
    /\ loaded' = stored
    /\ native' = [k \in Kinds |-> restored(k)]

unlock ==
    /\ Event /\ loadStoredLocalUser
    /\ UNCHANGED <<poolVars, timesMade, used, stored, last, lock, calls,
                   uploads, firsts, raced>>

(* The app is killed and starts again: initializePreKeyTracking takes the  *)
(* last ids from the bundle.                                               *)
lastOf(s) == CHOOSE i \in {e.id : e \in ToSet(s)} : \A e \in ToSet(s) : e.id <= i

restart ==
    /\ Event /\ loadStoredLocalUser
    /\ last' = [k \in Kinds |-> lastOf(stored[k])]
    /\ lock' = [s \in Servers |-> 0] /\ calls' = <<>> /\ uploads' = {}
    /\ UNCHANGED <<poolVars, timesMade, used, stored, firsts, raced>>

-----------------------------------------------------------------------------
Refreshing(s) == \/ replenishPreKeys(s)
                 \/ \E t \in uploads : t.srv = s /\ syncPublicKeys(t)

PreKeysNext ==
    \/ \E s \in Servers : \/ uploadPreKeysToServer(s) \/ refreshPreKeysForServer(s)
                          \/ Refreshing(s) \/ getRemoteKeys(s)
    \/ \E m \in firsts : decryptMessage(m)
    \/ unlock \/ restart

(* The app comes to the foreground again and again, and answers come.      *)
PreKeysSpec == /\ PreKeysInit /\ [][PreKeysNext]_preKeyVars
        /\ \A s \in Servers : WF_preKeyVars(refreshPreKeysForServer(s))
                              /\ WF_preKeyVars(Refreshing(s))

-----------------------------------------------------------------------------
PreKeysTypeOK ==
    /\ servers \subseteq Servers
    /\ timesMade \in [Kinds -> [PreKeyIds -> Nat]]
    /\ native \in [Kinds -> [PreKeyIds -> Nat]]
    /\ used \subseteq PreKeyIds
    /\ stored \in [Kinds -> Seq(OneTimeKeys)] /\ \A k \in Kinds : Len(stored[k]) <= Stored
    /\ loaded \in [Kinds -> Seq(OneTimeKeys)]
    /\ last \in [Kinds -> 1..MaxVal]
    /\ pool \in [Servers -> [Kinds -> SUBSET OneTimeKeys]]
    /\ known \in [Servers -> [Kinds -> SUBSET PreKeyIds]]
    /\ lock \in [Servers -> {0} \cup Refreshes]
    /\ calls \in Seq(Task) /\ uploads \subseteq Task
    /\ firsts \subseteq [srv : Servers, preKey : OneTimeKeys, kyberPreKey : OneTimeKeys,
                         at : {"sent", "read", "lost"}]
    /\ raced \subseteq Kinds /\ events \in 0..MaxEvents

(* A pre-key is never made under an id that has one, across batches,       *)
(* restarts and the trimming of the metadata, unless two refreshes         *)
(* replenished the kind at the same time.                                  *)
IdsMadeOnce == \A k \in Kinds \ raced : \A i \in PreKeyIds : timesMade[k][i] <= 1

(* Types, and ids that replenishing, restoring and trimming never reuse.   *)
PreKeysInv == PreKeysTypeOK /\ IdsMadeOnce

(* A peer's first message can be read unless the pre-keys it uses were     *)
(* handed out by another server as well, or made twice (raced).            *)
Shared(m) == \E w \in firsts : /\ w.srv # m.srv
                               /\ w.preKey = m.preKey \/ w.kyberPreKey = m.kyberPreKey

LostOnlyIfShared == \A m \in firsts : m.at = "lost" => Shared(m) \/ raced # {}

(* When peers have stopped, no server stays without pre-keys.              *)
PoolsRefilled == <>[](\A s \in servers : low(s) = {})
=============================================================================
