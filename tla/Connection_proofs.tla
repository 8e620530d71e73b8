-------------------------- MODULE Connection_proofs --------------------------
(***************************************************************************)
(* Theorems about Connection, for any servers, sockets, loops and numbers  *)
(* of attempts, failures and acts.                                         *)
(***************************************************************************)
EXTENDS Connection, TLAPS, WellFoundedInduction

(* The types, in parts.                                                    *)
NetTyped == net \in [Servers -> Net]
TasksTyped ==
    /\ task \in [Servers -> [Paths -> Steps]]
    /\ by \in [Servers -> Loops \cup {0}]
    /\ loops \in [Loops -> SUBSET Servers] /\ checking \subseteq Servers
SetsTyped ==
    /\ token \subseteq Servers /\ present \subseteq Servers
    /\ banned \subseteq Servers /\ inactive \subseteq Servers
    /\ leaked \subseteq Servers /\ missed \subseteq Servers
    /\ orphans \subseteq Servers /\ heard \subseteq present
    /\ early \subseteq Servers
StoreTyped == seen \in [Servers -> States] /\ why \in [Servers -> Reasons]
AppTyped ==
    /\ app \in {"active", "inactive", "background"}
    /\ auth \in BOOLEAN /\ bio \in BOOLEAN /\ unlocked \in BOOLEAN
    /\ booting \in Boots /\ initialized \in BOOLEAN /\ out \in BOOLEAN
    /\ faults \in 0..MaxFaults /\ acts \in 0..MaxActs

LEMMA TypeParts ==
    TypeOK <=> NetTyped /\ TasksTyped /\ SetsTyped /\ StoreTyped /\ AppTyped
BY DEF TypeOK, NetTyped, TasksTyped, SetsTyped, StoreTyped, AppTyped

(* What StateIsTrue says of one service alone, and of the store's flag.    *)
Right(n) ==
    /\ Live(n) \subseteq {n.cur}
    /\ n.state = "CONNECTED" => n.cur # 0 /\ n.wire[n.cur] = "open"
    /\ n.state = "CONNECTING" => n.cur # 0
    /\ \A k \in Sockets : n.wire[k] \in {"opening", "open"} => n.state # "CLOSED"

LEMMA RightParts ==
    /\ StateIsTrue <=>
          \A s \in Servers \ leaked :
             /\ Right(net[s])
             /\ net[s].state = "CONNECTED" => s \notin inactive
    /\ StateIsTrue' <=>
          \A s \in Servers \ leaked' :
             /\ Right(net'[s])
             /\ net'[s].state = "CONNECTED" => s \notin inactive'
BY DEF StateIsTrue, Right, Live

-----------------------------------------------------------------------------
(* What the operators do to one service.                                   *)
LEMMA SocketIsNotZero == 0 \notin Sockets
BY ConnectionAssumption DEF ConnectionAssumption

LEMMA FreshIsRight ==
    Fresh \in Net /\ Live(Fresh) = {} /\ Right(Fresh)
BY ConnectionAssumption DEF ConnectionAssumption, Fresh, Net, Live, Right,
   States, Wires

LEMMA FreshRests == disconnect(Fresh) = Fresh
<1>1. Fresh \in Net /\ disconnect(Fresh) \in Net
  BY FreshIsRight DEF disconnect, Net, States, Wires
<1>2. Fresh.state = "CLOSED" /\ Fresh.cur = 0
  BY DEF Fresh
<1>3. /\ disconnect(Fresh).state = Fresh.state
      /\ disconnect(Fresh).cur = Fresh.cur
      /\ disconnect(Fresh).tries = Fresh.tries
      /\ \A k \in Sockets : disconnect(Fresh).wire[k] = Fresh.wire[k]
  BY <1>1, <1>2, SocketIsNotZero DEF disconnect, Fresh
<1>4. disconnect(Fresh).wire = Fresh.wire
  BY <1>1, <1>3 DEF Net
<1>5. QED  BY <1>1, <1>3, <1>4 DEF Net

LEMMA Disconnected ==
    ASSUME NEW n \in Net
    PROVE  /\ disconnect(n) \in Net
           /\ disconnect(n).state = "CLOSED"
           /\ Live(disconnect(n)) \subseteq Live(n)
           /\ Live(n) \subseteq {n.cur} =>
                 Live(disconnect(n)) = {} /\ Right(disconnect(n))
<1>1. disconnect(n) \in Net
  BY DEF disconnect, Net, States, Wires
<1>2. /\ disconnect(n).state = "CLOSED" /\ disconnect(n).cur = 0
      /\ \A k \in Sockets : disconnect(n).wire[k]
                              = IF k = n.cur THEN "none" ELSE n.wire[k]
  BY DEF disconnect, Net
<1>3. Live(disconnect(n)) = Live(n) \ {n.cur}
  BY <1>2 DEF Live
<1>4. ASSUME Live(disconnect(n)) = {}
      PROVE  Right(disconnect(n))
  BY <1>2, <1>4 DEF Right, Live
<1>5. QED  BY <1>1, <1>2, <1>3, <1>4

(* An event of connection k: w is its wire and st the state afterwards.    *)
wired(n, k, w, st) == [n EXCEPT !.wire[k] = w, !.state = st]

LEMMA Wired ==
    ASSUME NEW n \in Net, NEW k \in Sockets, NEW w \in Wires, NEW st \in States
    PROVE  /\ wired(n, k, w, st) \in Net
           /\ wired(n, k, w, st).state = st /\ wired(n, k, w, st).cur = n.cur
           /\ \A j \in Sockets : wired(n, k, w, st).wire[j]
                                   = IF j = k THEN w ELSE n.wire[j]
BY DEF wired, Net

LEMMA LeastNatural ==
    ASSUME NEW T \in SUBSET Nat, T # {}
    PROVE  \E x \in T : \A y \in T : x <= y
<1>1. PICK x \in T : \A y \in T : ~(<<y, x>> \in OpToRel(<, Nat))
  BY NatLessThanWellFounded, WFMin
<1>2. \A y \in T : ~(y < x)
  BY <1>1 DEF OpToRel
<1>3. QED  BY <1>2

(* connect() takes a number that is free.                                  *)
LEMMA Opened ==
    ASSUME NEW n \in Net, Free(n) # {}
    PROVE  /\ opened(n) \in Net /\ opened(n).state = "CONNECTING"
           /\ n.state = "CLOSED" /\ ~Waiting(n) =>
                 (Right(n) => Right(opened(n)))
<1> DEFINE k == CHOOSE m \in Free(n) : \A j \in Free(n) : m <= j
<1>1. Free(n) \in SUBSET Nat
  BY ConnectionAssumption DEF ConnectionAssumption, Free
<1>2. \E m \in Free(n) : \A j \in Free(n) : m <= j
  BY <1>1, LeastNatural
<1>3. k \in Free(n)
  BY <1>2
<1>4. opened(n) = [n EXCEPT !.state = "CONNECTING", !.cur = k,
                            !.wire[k] = "opening", !.tries[k] = 0]
  BY DEF opened
<1> HIDE DEF k
<1>5. k \in Sockets /\ k # 0
  BY <1>3, SocketIsNotZero DEF Free
<1>6. opened(n) \in Net
  <2>1. 0 \in 0..MaxAttempts
    BY ConnectionAssumption DEF ConnectionAssumption
  <2>2. [n.wire EXCEPT ![k] = "opening"] \in [Sockets -> Wires]
    BY DEF Net, Wires
  <2>3. [n.tries EXCEPT ![k] = 0] \in [Sockets -> 0..MaxAttempts]
    BY <2>1 DEF Net
  <2>4. QED  BY <1>4, <1>5, <2>2, <2>3 DEF Net, States
<1>7. /\ opened(n).state = "CONNECTING" /\ opened(n).cur = k
      /\ \A j \in Sockets : opened(n).wire[j]
                              = IF j = k THEN "opening" ELSE n.wire[j]
  BY <1>4, <1>5 DEF Net
<1>8. ASSUME n.state = "CLOSED", ~Waiting(n), Right(n)
      PROVE  Right(opened(n))
  <2>1. \A m \in Sockets : n.wire[m] = "none"
    BY <1>8 DEF Right, Waiting, Net, Wires
  <2>2. Live(opened(n)) \subseteq {k}
    BY <1>7, <2>1 DEF Live
  <2>3. QED  BY <1>5, <1>7, <2>2 DEF Right
<1>9. QED  BY <1>6, <1>7, <1>8

-----------------------------------------------------------------------------
(* The inductive invariant. Before the boot has loaded the servers there   *)
(* is nothing but tokens of servers of the table.                          *)
NotLoaded == ~out /\ ~initialized /\ booting \in {"no", "opening"}

Idle == [p \in Paths |-> "idle"]
Idling == [i \in Loops |-> {}]

Untouched ==
    NotLoaded =>
        /\ net = [s \in Servers |-> Fresh]
        /\ seen = [s \in Servers |-> "CLOSED"]
        /\ task = [s \in Servers |-> Idle]
        /\ loops = Idling /\ checking = {}
        /\ present = {} /\ early = {} /\ token \subseteq Known

(* Until the boot has registered the handlers only the user, who may       *)
(* reconnect a server, has touched one; and the default server, whose      *)
(* token is about to move, is there unless a logout has dropped it.        *)
Quiet == booting \in {"opening"} \cup Unheard
MayMove == \/ booting = "migrating"
           \/ booting = "loading" /\ Default \in Configured

BootIsQuiet ==
    /\ booting # "no" => ~initialized /\ present \subseteq Known
    /\ booting = "opening" => present = {}
    /\ MayMove => Default \in present \cup orphans
    /\ Quiet => /\ heard = {} /\ loops = Idling /\ checking = {}
                /\ early \subseteq Known
                /\ \A s \in Servers \ early :
                      net[s] = Fresh /\ task[s] = Idle /\ seen[s] = "CLOSED"

(* Servers of the table are authenticated by the boot, others when they    *)
(* are added.                                                              *)
OwnPaths ==
    \A s \in Servers :
        /\ s \in Known => task[s]["add"] = "idle"
        /\ s \notin Known => task[s]["boot"] = "idle"

(* A logout leaves no instance and nobody logs in again, but a boot it has *)
(* overtaken goes on.                                                      *)
OutIsOrphan ==
    out => ~auth /\ present \subseteq orphans /\ Loading \subseteq orphans

(* Only a server that is being added is without handlers, once they are    *)
(* registered.                                                             *)
HeardInTime ==
    \A s \in present \ heard : task[s]["add"] # "idle" \/ booting \in Unheard

(* What a server that was dropped still has was in flight at the time. The *)
(* default one may have a token before it has its row.                     *)
Rowless(s) == booting = "loading" /\ s = Default /\ s \notin Configured
DroppedIsOrphan ==
    \A s \in Servers \ present :
        /\ Busy(s) => s \in orphans
        /\ Live(net[s]) # {} => s \in orphans \cup leaked
        /\ s \in token /\ ~NotLoaded => s \in orphans \cup leaked \/ Rowless(s)

MissedIsOrphan == missed \cap Known \subseteq orphans \cup leaked \cup early

Typed == NetTyped /\ TasksTyped /\ SetsTyped /\ StoreTyped /\ AppTyped

ConnectionIInv ==
    /\ Typed /\ StateIsTrue /\ StoreShowsState /\ MissedIsOrphan
    /\ Untouched /\ OwnPaths /\ OutIsOrphan /\ HeardInTime /\ DroppedIsOrphan
    /\ BootIsQuiet

-----------------------------------------------------------------------------
(* One service changes.                                                    *)
LEMMA OneService ==
    ASSUME NetTyped, StateIsTrue, NEW s \in Servers, NEW m \in Net,
           net' = [net EXCEPT ![s] = m], leaked' = leaked,
           \A r \in Servers \ {s} : r \in inactive' <=> r \in inactive,
           s \notin leaked =>
              Right(m) /\ (m.state = "CONNECTED" => s \notin inactive')
    PROVE  /\ NetTyped' /\ StateIsTrue' /\ net'[s] = m
           /\ \A r \in Servers \ {s} : net'[r] = net[r]
<1>1. NetTyped' /\ net'[s] = m /\ \A r \in Servers \ {s} : net'[r] = net[r]
  BY DEF NetTyped
<1>2. \A r \in Servers \ leaked' :
         Right(net'[r]) /\ (net'[r].state = "CONNECTED" => r \notin inactive')
  BY <1>1, RightParts
<1>3. QED  BY <1>1, <1>2, RightParts

LEMMA WireIs ==
    ASSUME NetTyped, NEW s \in Servers, NEW k \in Sockets, NEW w, NEW st
    PROVE  Wire(s, k, w, st) = [net EXCEPT ![s] = wired(net[s], k, w, st)]
BY DEF NetTyped, Wire, wired, Net

(* connect() of some servers.                                              *)
LEMMA Connects ==
    ASSUME NetTyped, StateIsTrue, leaked \subseteq Servers,
           why \in [Servers -> Reasons],
           NEW S \in SUBSET Servers, NEW ts, NEW bs, connect(S, ts, bs),
           inactive' = inactive
    PROVE  /\ NetTyped' /\ StateIsTrue'
           /\ leaked \subseteq leaked' /\ leaked' \subseteq Servers
           /\ why' \in [Servers -> Reasons]
           /\ \A r \in Servers \ S : net'[r] = net[r]
           /\ \A r \in S : net'[r] # net[r] => r \in ts
<1> DEFINE O == {r \in S : Opens(r, ts, bs)}
<1>1. /\ \A r \in O : Free(net[r]) # {}
      /\ net' = [r \in Servers |-> IF r \in O THEN opened(net[r]) ELSE net[r]]
      /\ leaked' = leaked \cup {r \in O : Waiting(net[r])}
      /\ why' = [r \in Servers |-> IF r \in O THEN "none" ELSE why[r]]
  BY DEF connect
<1>2. \A r \in O : r \in S /\ r \in ts /\ net[r].state = "CLOSED"
  BY DEF Opens
<1> HIDE DEF O
<1>3. \A r \in Servers : net[r] \in Net
  BY DEF NetTyped
<1>4. \A r \in O : opened(net[r]) \in Net
  BY <1>1, <1>2, <1>3, Opened
<1>5. NetTyped'
  BY <1>1, <1>3, <1>4 DEF NetTyped
<1>6. ASSUME NEW r \in Servers, r \notin leaked'
      PROVE  Right(net'[r]) /\ (net'[r].state = "CONNECTED" => r \notin inactive')
  <2>1. Right(net[r]) /\ (net[r].state = "CONNECTED" => r \notin inactive)
    BY <1>1, <1>6, RightParts
  <2>2. CASE r \in O
    <3>1. ~Waiting(net[r]) /\ net'[r] = opened(net[r])
      BY <1>1, <1>6, <2>2
    <3>2. Right(opened(net[r])) /\ opened(net[r]).state = "CONNECTING"
      BY <1>1, <1>2, <1>3, <2>1, <2>2, <3>1, Opened
    <3>3. QED  BY <3>1, <3>2
  <2>3. CASE r \notin O
    BY <1>1, <2>1, <2>3
  <2>4. QED  BY <2>2, <2>3
<1>7. why' \in [Servers -> Reasons]
  BY <1>1 DEF Reasons
<1>8. QED  BY <1>1, <1>2, <1>5, <1>6, <1>7, RightParts

(* The store, when the handlers registered are those of H.                 *)
LEMMA ShowsTo ==
    ASSUME NEW H, ShownTo(H), StoreTyped, NetTyped', heard' \subseteq Servers,
           heard' \subseteq H, early \subseteq early',
           \A r \in (heard' \cap Known) \ early : seen[r] = net[r].state
    PROVE  seen' \in [Servers -> States] /\ StoreShowsState'
<1>1. seen' \in [Servers -> States]
  BY DEF ShownTo, StoreTyped, NetTyped, Net
<1>2. \A r \in (heard' \cap Known') \ early' : seen'[r] = net'[r].state
  BY DEF ShownTo, Known
<1>3. QED  BY <1>1, <1>2 DEF StoreShowsState

LEMMA Shows ==
    ASSUME Shown, StoreTyped, NetTyped', SetsTyped, heard' \subseteq heard,
           early \subseteq early', StoreShowsState
    PROVE  seen' \in [Servers -> States] /\ StoreShowsState'
BY ShowsTo DEF Shown, SetsTyped, StoreShowsState

-----------------------------------------------------------------------------
(* A step that leaves instances and handlers alone, and begins neither the *)
(* authentication nor a connection of a server without instances.          *)
LEMMA Frame ==
    ASSUME ConnectionIInv, ~NotLoaded,
           UNCHANGED <<present, heard, auth, booting, initialized, missed, out>>,
           early \subseteq early',
           \A r \in Servers :
              /\ task'[r]["add"] = task[r]["add"]
              /\ task'[r]["boot"] # "idle" => task[r]["boot"] # "idle",
           \A r \in Servers \ present, q \in Paths :
              task'[r][q] # "idle" => task[r][q] # "idle",
           token' \subseteq token, orphans \subseteq orphans',
           leaked \subseteq leaked',
           \A r \in Servers \ present : Live(net'[r]) # {} => Live(net[r]) # {}
    PROVE  /\ MissedIsOrphan' /\ Untouched' /\ OwnPaths' /\ OutIsOrphan'
           /\ HeardInTime' /\ DroppedIsOrphan'
<1>1. MissedIsOrphan'
  BY DEF ConnectionIInv, MissedIsOrphan, Known
<1>2. Untouched'
  BY DEF Untouched, NotLoaded
<1>3. OwnPaths'
  BY DEF ConnectionIInv, OwnPaths, Known
<1>4. OutIsOrphan' /\ HeardInTime'
  BY DEF ConnectionIInv, OutIsOrphan, HeardInTime, Typed, SetsTyped, Loading,
     Known
<1>5. DroppedIsOrphan'
  <2>1. \A r \in Servers \ present : Busy(r)' => Busy(r)
    BY DEF Busy
  <2>2. QED  BY <2>1 DEF ConnectionIInv, DroppedIsOrphan, NotLoaded, Rowless
<1>6. QED  BY <1>1, <1>2, <1>3, <1>4, <1>5

(* While a boot goes on nothing happens to servers but those the user has  *)
(* reconnected, of which s may be one.                                     *)
LEMMA QuietKeeps ==
    ASSUME BootIsQuiet, NEW s \in Servers, Quiet => s \in early',
           UNCHANGED <<booting, initialized, present>>,
           orphans \subseteq orphans',
           early \subseteq early', early' \subseteq early \cup present,
           Quiet => UNCHANGED <<heard, loops, checking>>,
           \A r \in Servers \ {s} : net'[r] = net[r] /\ task'[r] = task[r],
           seen' = seen \/ \E H : ShownTo(H)
    PROVE  BootIsQuiet'
<1>1. ASSUME NEW r \in Servers \ {s}, r \notin early', Quiet
      PROVE  seen'[r] = "CLOSED"
  <2>1. seen[r] = "CLOSED" /\ net'[r] = net[r]
    BY <1>1 DEF BootIsQuiet
  <2>2. QED  BY <1>1, <2>1 DEF ShownTo
<1>2. Quiet' <=> Quiet
  BY DEF Quiet
<1>3. Quiet => early' \subseteq Known
  BY DEF BootIsQuiet, Quiet, Unheard
<1>4. Quiet =>
         \A r \in Servers \ early' :
            net'[r] = Fresh /\ task'[r] = Idle /\ seen'[r] = "CLOSED"
  BY <1>1 DEF BootIsQuiet
<1>5. QED  BY <1>2, <1>3, <1>4 DEF BootIsQuiet, MayMove, Known, Idling, Fresh,
       Idle

(* Once it has registered the handlers there is nothing to keep.           *)
LEMMA HeardKeeps ==
    ASSUME BootIsQuiet, ~Quiet, UNCHANGED <<booting, initialized, present>>
    PROVE  BootIsQuiet'
BY DEF BootIsQuiet, Quiet, MayMove, Unheard, Known

LEMMA Started ==
    ASSUME ConnectionIInv, NEW s \in Servers, NEW k \in Sockets,
           net[s].wire[k] # "none"
    PROVE  /\ ~NotLoaded /\ Live(net[s]) # {} /\ net[s] \in Net
           /\ Quiet => s \in early
<1>1. Live(net[s]) # {} /\ net[s] \in Net
  BY DEF Live, ConnectionIInv, Typed, NetTyped
<1>2. ASSUME NotLoaded PROVE FALSE
  <2>1. net[s] = Fresh
    BY <1>2 DEF ConnectionIInv, Untouched
  <2>2. QED  BY <1>1, <2>1, FreshIsRight
<1>3. Quiet => s \in early
  BY <1>1, FreshIsRight DEF ConnectionIInv, BootIsQuiet
<1>4. QED  BY <1>1, <1>2, <1>3

(* An event of a connection of s, whose service becomes m.                 *)
LEMMA ServiceStep ==
    ASSUME ConnectionIInv, NEW s \in Servers, NEW k \in Sockets,
           net[s].wire[k] # "none",
           NEW m \in Net, net' = [net EXCEPT ![s] = m],
           s \notin leaked =>
              Right(m) /\ (m.state = "CONNECTED" => s \notin inactive'),
           inactive' \subseteq Servers, banned' \subseteq Servers,
           \A r \in Servers \ {s} : r \in inactive' <=> r \in inactive,
           why' \in [Servers -> Reasons], faults' \in 0..MaxFaults,
           Shown \/ (m.state = net[s].state /\ UNCHANGED seen),
           UNCHANGED <<token, taskVars, regVars, pastVars, appVars, leaked, acts,
                       missed>>
    PROVE  ConnectionIInv'
<1>1. NetTyped /\ TasksTyped /\ SetsTyped /\ StoreTyped /\ AppTyped /\ StateIsTrue
      /\ StoreShowsState
  BY DEF ConnectionIInv, Typed
<1>2. /\ NetTyped' /\ StateIsTrue' /\ net'[s] = m
      /\ \A r \in Servers \ {s} : net'[r] = net[r]
  BY <1>1, OneService
<1>3. TasksTyped' /\ SetsTyped' /\ AppTyped'
  BY <1>1 DEF TasksTyped, SetsTyped, AppTyped, taskVars, regVars, pastVars,
         appVars
<1>4. seen' \in [Servers -> States] /\ StoreShowsState'
  <2>1. CASE Shown
    BY <1>1, <1>2, <2>1, Shows DEF regVars, pastVars
  <2>2. CASE m.state = net[s].state /\ UNCHANGED seen
    BY <1>1, <1>2, <2>2 DEF StoreTyped, StoreShowsState, regVars, Known,
       SetsTyped, pastVars
  <2>3. QED  BY <2>1, <2>2
<1>5. \A r \in Servers : Live(net'[r]) # {} => Live(net[r]) # {}
  BY <1>2, Started
<1>6. ~NotLoaded
  BY Started
<1>7. /\ MissedIsOrphan' /\ Untouched' /\ OwnPaths' /\ OutIsOrphan'
      /\ HeardInTime' /\ DroppedIsOrphan'
  BY <1>5, <1>6, Frame DEF taskVars, regVars, pastVars, appVars
<1>8. BootIsQuiet'
  <2>1. seen' = seen \/ \E H : ShownTo(H)
    BY Zenon DEF Shown
  <2>2. UNCHANGED <<booting, initialized, present, orphans, heard, loops,
                    checking, early, task>>
    BY DEF taskVars, regVars, pastVars, appVars
  <2>3. Quiet => s \in early'
    BY <2>2, Started
  <2>4. BootIsQuiet
    BY DEF ConnectionIInv
  <2>5. QED  BY <1>2, <2>1, <2>2, <2>3, <2>4, QuietKeeps
<1>9. QED  BY <1>2, <1>3, <1>4, <1>7, <1>8 DEF ConnectionIInv, Typed,
       StoreTyped

-----------------------------------------------------------------------------
(* The events of socket.io that change one service.                        *)
LEMMA EventsKeep ==
    ASSUME ConnectionIInv, NEW s \in Servers, NEW k \in Sockets,
           \/ onConnect(s, k) \/ onNetworkError(s, k) \/ onDisconnect(s, k)
           \/ onReconnectAttempt(s, k) \/ onReconnectFailed(s, k)
           \/ onBanned(s, k) \/ onPrimaryInactive(s, k)
    PROVE  ConnectionIInv'
<1> DEFINE n == net[s]
           stopped == [n EXCEPT !.wire[k] = "none"]
<1>1. n \in Net /\ NetTyped /\ SetsTyped /\ StoreTyped /\ AppTyped
  BY DEF ConnectionIInv, Typed, NetTyped
<1>2. s \notin leaked => Right(n) /\ (n.state = "CONNECTED" => s \notin inactive)
  BY RightParts DEF ConnectionIInv
<1>3. /\ inactive \subseteq Servers /\ banned \subseteq Servers
      /\ inactive \cup {s} \subseteq Servers /\ banned \cup {s} \subseteq Servers
      /\ faults \in 0..MaxFaults /\ why \in [Servers -> Reasons]
      /\ \A x \in Reasons : [why EXCEPT ![s] = x] \in [Servers -> Reasons]
  BY <1>1 DEF SetsTyped, AppTyped, StoreTyped
<1>4. Fault => faults' \in 0..MaxFaults
  BY <1>3, ConnectionAssumption DEF Fault, ConnectionAssumption
<1>5. "none" \in Wires /\ "opening" \in Wires /\ "open" \in Wires /\ "waiting" \in Wires
  BY DEF Wires
<1>6. "CONNECTED" \in States /\ "CLOSED" \in States /\ "CONNECTING" \in States
      /\ n.state \in States
  BY <1>1 DEF States, Net
<1>7. stopped \in Net /\ stopped.cur = n.cur /\ Live(stopped) \subseteq Live(n)
  BY <1>1, <1>5 DEF Net, Live
<1>8. /\ disconnect(stopped) \in Net /\ disconnect(stopped).state = "CLOSED"
      /\ s \notin leaked => Right(disconnect(stopped))
  BY <1>2, <1>7, Disconnected DEF Right
<1> HIDE DEF n, stopped
<1>10. CASE onConnect(s, k)
  <2> DEFINE w == wired(n, k, "open", "CONNECTED")
             m == [w EXCEPT !.tries[k] = 0]
  <2>1. n.wire[k] = "opening" /\ Shown /\ inactive' = inactive \ {s}
    BY <1>10 DEF onConnect, setPrimaryInactive, n
  <2>2. w \in Net /\ w.state = "CONNECTED" /\ w.cur = n.cur
        /\ \A j \in Sockets : w.wire[j] = IF j = k THEN "open" ELSE n.wire[j]
    BY <1>1, <1>5, <1>6, Wired
  <2>3. net' = [net EXCEPT ![s] = m]
    <3>1. Wire(s, k, "open", "CONNECTED") = [net EXCEPT ![s] = w]
      BY <1>1, WireIs DEF n
    <3>2. net' = [[net EXCEPT ![s] = w] EXCEPT ![s].tries[k] = 0]
      BY <1>10, <3>1 DEF onConnect
    <3>3. QED  BY <3>2, <1>1 DEF NetTyped
  <2> HIDE DEF w
  <2>4. m \in Net /\ m.state = "CONNECTED" /\ m.cur = n.cur /\ m.wire = w.wire
    <3>1. 0 \in 0..MaxAttempts
      BY ConnectionAssumption DEF ConnectionAssumption
    <3>2. [w.tries EXCEPT ![k] = 0] \in [Sockets -> 0..MaxAttempts]
      BY <2>2, <3>1 DEF Net
    <3>3. QED  BY <2>2, <3>2 DEF Net
  <2> HIDE DEF m
  <2>5. s \notin leaked => Right(m)
    <3>1. ASSUME Right(n) PROVE Right(m)
      <4>1. k = n.cur
        BY <2>1, <3>1 DEF Right, Live
      <4>2. Live(m) \subseteq {m.cur} /\ m.wire[k] = "open" /\ k # 0
        BY <2>1, <2>2, <2>4, <3>1, <4>1, SocketIsNotZero DEF Right, Live
      <4>3. QED  BY <2>4, <4>1, <4>2 DEF Right
    <3>2. QED  BY <3>1, <1>2
  <2>6. /\ inactive' \subseteq Servers /\ banned' = banned /\ why' = why
        /\ \A r \in Servers \ {s} : r \in inactive' <=> r \in inactive
        /\ s \notin inactive' /\ faults' = faults
        /\ UNCHANGED <<token, taskVars, regVars, pastVars, appVars, leaked, acts, missed>>
    BY <1>10, <1>3, <2>1 DEF onConnect
  <2>7. QED  BY <2>1, <2>3, <2>4, <2>5, <2>6, <1>3, ServiceStep DEF n
<1>11. CASE onNetworkError(s, k)
  <2> DEFINE m == wired(n, k, "waiting", n.state)
  <2>1. n.wire[k] = "opening" /\ Fault
        /\ UNCHANGED <<token, taskVars, regVars, storeVars, seen, pastVars, appVars, why,
                       leaked, acts, missed>>
    BY <1>11 DEF onNetworkError, n
  <2>2. m \in Net /\ m.state = n.state /\ m.cur = n.cur
        /\ \A j \in Sockets : m.wire[j] = IF j = k THEN "waiting" ELSE n.wire[j]
    BY <1>1, <1>5, <1>6, Wired
  <2>3. net' = [net EXCEPT ![s] = m]
    BY <1>1, <1>11, WireIs DEF onNetworkError, n
  <2> HIDE DEF m
  <2>4. Right(n) => Right(m)
    BY <2>1, <2>2 DEF Right, Live
  <2>5. QED  BY <2>1, <2>2, <2>3, <2>4, <1>2, <1>3, <1>4, ServiceStep
             DEF n, storeVars
<1>12. CASE onDisconnect(s, k)
  <2>1. n.wire[k] = "open" /\ Fault /\ Shown
        /\ UNCHANGED <<token, taskVars, regVars, storeVars, pastVars, appVars, leaked,
                       acts, missed>>
        /\ why' \in [Servers -> Reasons]
    BY <1>3, <1>12 DEF onDisconnect, n, Reasons
  <2>2. PICK w \in {"waiting", "none"} :
           net' = [net EXCEPT ![s] = wired(n, k, w, "CLOSED")]
    BY <1>1, <1>12, WireIs DEF onDisconnect, n
  <2> DEFINE m == wired(n, k, w, "CLOSED")
  <2>3. m \in Net /\ m.state = "CLOSED" /\ m.cur = n.cur
        /\ \A j \in Sockets : m.wire[j] = IF j = k THEN w ELSE n.wire[j]
    <3>1. w \in Wires
      BY <2>2, <1>5
    <3>2. QED  BY <1>1, <1>6, <3>1, Wired
  <2>4. net' = [net EXCEPT ![s] = m]
    BY <2>2
  <2> HIDE DEF m
  <2>5. Right(n) => Right(m)
    BY <2>1, <2>3 DEF Right, Live
  <2>6. QED  BY <2>1, <2>3, <2>4, <2>5, <1>2, <1>3, <1>4, ServiceStep
             DEF n, storeVars
<1>13. CASE onReconnectAttempt(s, k)
  <2> DEFINE w == wired(n, k, "opening", "CONNECTING")
             m == [w EXCEPT !.tries[k] = @ + 1]
  <2>1. n.wire[k] = "waiting" /\ Shown /\ n.tries[k] < MaxAttempts
        /\ UNCHANGED <<token, taskVars, regVars, storeVars, pastVars, appVars, why, leaked,
                       faults, acts, missed>>
    BY <1>13 DEF onReconnectAttempt, n
  <2>2. w \in Net /\ w.state = "CONNECTING" /\ w.cur = n.cur
        /\ \A j \in Sockets : w.wire[j] = IF j = k THEN "opening" ELSE n.wire[j]
    BY <1>1, <1>5, <1>6, Wired
  <2>3. net' = [net EXCEPT ![s] = m]
    <3>1. Wire(s, k, "opening", "CONNECTING") = [net EXCEPT ![s] = w]
      BY <1>1, WireIs DEF n
    <3>2. net' = [[net EXCEPT ![s] = w] EXCEPT ![s].tries[k] = @ + 1]
      BY <1>13, <3>1 DEF onReconnectAttempt
    <3>3. QED  BY <3>2, <1>1 DEF NetTyped
  <2>4. w.tries[k] = n.tries[k]
    BY <1>1 DEF wired, Net
  <2> HIDE DEF w
  <2>5. m \in Net /\ m.state = "CONNECTING" /\ m.cur = n.cur /\ m.wire = w.wire
    <3>1. w.tries[k] + 1 \in 0..MaxAttempts
      BY <2>1, <2>2, <2>4, ConnectionAssumption DEF Net, ConnectionAssumption
    <3>2. [w.tries EXCEPT ![k] = @ + 1] \in [Sockets -> 0..MaxAttempts]
      BY <2>2, <3>1 DEF Net
    <3>3. QED  BY <2>2, <3>2 DEF Net
  <2> HIDE DEF m
  <2>6. Right(n) => Right(m)
    <3>1. ASSUME Right(n) PROVE Right(m)
      <4>1. k = n.cur /\ k # 0
        BY <2>1, <3>1, SocketIsNotZero DEF Right, Live
      <4>2. Live(m) \subseteq {m.cur}
        BY <2>1, <2>2, <2>5, <3>1, <4>1 DEF Right, Live
      <4>3. QED  BY <2>5, <4>1, <4>2 DEF Right
    <3>2. QED  BY <3>1
  <2>7. QED  BY <2>1, <2>3, <2>5, <2>6, <1>2, <1>3, ServiceStep
             DEF n, storeVars
<1>14. CASE onReconnectFailed(s, k)
  <2>1. n.wire[k] = "waiting" /\ Shown
        /\ why' \in [Servers -> Reasons]
        /\ UNCHANGED <<token, taskVars, regVars, storeVars, pastVars, appVars, leaked,
                       faults, acts, missed>>
    BY <1>14, <1>3 DEF onReconnectFailed, n, Reasons
  <2>2. net' = [net EXCEPT ![s] = disconnect(stopped)]
    BY <1>14, <1>1 DEF onReconnectFailed, n, stopped, NetTyped
  <2>3. QED  BY <2>1, <2>2, <1>3, <1>8, ServiceStep DEF n, storeVars
<1>15. CASE onBanned(s, k)
  <2>1. n.wire[k] = "opening" /\ Shown /\ Fault /\ banned' \subseteq Servers
        /\ why' \in [Servers -> Reasons] /\ UNCHANGED inactive
        /\ UNCHANGED <<token, taskVars, regVars, pastVars, appVars, leaked, acts, missed>>
    BY <1>15, <1>3 DEF onBanned, Refused, setBanned, n, Reasons
  <2>2. net' = [net EXCEPT ![s] = disconnect(stopped)]
    BY <1>15, <1>1 DEF onBanned, n, stopped, NetTyped
  <2>3. QED  BY <2>1, <2>2, <1>3, <1>4, <1>8, ServiceStep DEF n
<1>16. CASE onPrimaryInactive(s, k)
  <2> DEFINE m == wired(n, k, "none", n.state)
  <2>1. n.wire[k] = "opening" /\ Fault /\ inactive' = inactive \cup {s}
        /\ why' \in [Servers -> Reasons]
        /\ UNCHANGED <<token, taskVars, regVars, banned, seen, pastVars, appVars, leaked,
                       acts, missed>>
    BY <1>16, <1>3 DEF onPrimaryInactive, Refused, setPrimaryInactive, n,
           Reasons
  <2>2. m \in Net /\ m.state = n.state /\ m.cur = n.cur
        /\ \A j \in Sockets : m.wire[j] = IF j = k THEN "none" ELSE n.wire[j]
    BY <1>1, <1>5, <1>6, Wired
  <2>3. net' = [net EXCEPT ![s] = m]
    BY <1>1, <1>16, WireIs DEF onPrimaryInactive, n
  <2> HIDE DEF m
  <2>4. Right(n) => Right(m) /\ m.state # "CONNECTED"
    BY <2>1, <2>2 DEF Right, Live
  <2>5. QED  BY <2>1, <2>2, <2>3, <2>4, <1>2, <1>3, <1>4, ServiceStep DEF n
<1>17. QED  BY <1>10, <1>11, <1>12, <1>13, <1>14, <1>15, <1>16

-----------------------------------------------------------------------------
(* A logout that finds the services n0: they may have lost connections,    *)
(* and authentications may have ended, in the same step.                   *)
LEMMA LoggedOut ==
    ASSUME ConnectionIInv, NEW n0 \in [Servers -> Net], logout(n0),
           \A r \in Servers \ leaked :
              Right(n0[r]) /\ (n0[r].state = "CONNECTED" => r \notin inactive),
           \A r \in Servers : Live(n0[r]) \subseteq Live(net[r]),
           \A r \in Servers : net[r] = Fresh => n0[r] = Fresh,
           task' \in [Servers -> [Paths -> Steps]],
           \A r \in Servers, p \in Paths : task'[r][p] # "idle" => task[r][p] # "idle",
           by' \in [Servers -> Loops \cup {0}],
           inactive' = inactive, missed' = missed,
           faults' \in 0..MaxFaults, acts' \in 0..MaxActs
    PROVE  ConnectionIInv'
<1>1. NetTyped /\ TasksTyped /\ SetsTyped /\ StoreTyped /\ AppTyped
  BY DEF ConnectionIInv, Typed
<1>2. /\ net' = [r \in Servers |->
                   IF r \in present THEN disconnect(n0[r]) ELSE n0[r]]
      /\ present' = {} /\ token' = {} /\ heard' = {}
      /\ seen' = [r \in Servers |-> IF r \in heard THEN "CLOSED" ELSE seen[r]]
      /\ orphans' = orphans \cup {r \in Servers : Busy(r)} \cup Loading
      /\ loops' = Idling /\ checking' = {} /\ out' = TRUE
      /\ ~auth' /\ ~initialized' /\ bio' = FALSE /\ auth' = FALSE
      /\ initialized' = FALSE
      /\ UNCHANGED <<banned, app, unlocked, booting, why, leaked, early>>
      /\ Loading' = Loading /\ Loading \subseteq Servers
  BY <1>1, ConnectionAssumption DEF logout, clearAll, clearAllServiceHandlers,
     SetsTyped, Idling, Loading, Known, ConnectionAssumption
<1>3. \A r \in Servers :
         /\ n0[r] \in Net
         /\ disconnect(n0[r]) \in Net
         /\ disconnect(n0[r]).state = "CLOSED"
         /\ Live(disconnect(n0[r])) \subseteq Live(n0[r])
         /\ r \notin leaked => /\ Live(disconnect(n0[r])) = {}
                               /\ Right(disconnect(n0[r]))
  BY Disconnected DEF Right
<1>4. \A r \in Servers : net'[r] = IF r \in present THEN disconnect(n0[r]) ELSE n0[r]
  BY <1>2
<1>5. NetTyped'
  BY <1>2, <1>3 DEF NetTyped
<1>6. StateIsTrue'
  <2>1. \A r \in Servers \ leaked' :
           Right(net'[r]) /\ (net'[r].state = "CONNECTED" => r \notin inactive')
    BY <1>2, <1>3, <1>4
  <2>2. QED  BY <2>1, RightParts
<1>7. TasksTyped' /\ StoreTyped' /\ AppTyped'
  <2>1. TasksTyped'
    BY <1>1, <1>2 DEF TasksTyped, Idling
  <2>2. StoreTyped'
    BY <1>1, <1>2 DEF StoreTyped, States
  <2>3. AppTyped'
    BY <1>1, <1>2 DEF AppTyped
  <2>4. QED  BY <2>1, <2>2, <2>3
<1>8. SetsTyped'
  BY <1>1, <1>2 DEF SetsTyped
<1>9. StoreShowsState' /\ Untouched' /\ OutIsOrphan' /\ HeardInTime'
  BY <1>2 DEF StoreShowsState, Untouched, NotLoaded, OutIsOrphan, HeardInTime
<1>10. OwnPaths'
  BY <1>1 DEF ConnectionIInv, OwnPaths, Known, TasksTyped, Paths
<1>11. MissedIsOrphan'
  BY <1>2 DEF ConnectionIInv, MissedIsOrphan, Known
<1>12. DroppedIsOrphan'
  <2>1. \A r \in Servers : Busy(r)' => Busy(r)
    BY DEF Busy
  <2>2. \A r \in Servers : Busy(r)' => r \in orphans'
    BY <1>2, <2>1
  <2>3. ASSUME NEW r \in Servers, Live(net'[r]) # {}, r \notin leaked'
        PROVE  r \in orphans'
    <3>1. r \notin present
      BY <1>2, <1>3, <1>4, <2>3
    <3>2. Live(net[r]) # {}
      BY <1>4, <2>3, <3>1
    <3>3. QED  BY <1>2, <2>3, <3>1, <3>2 DEF ConnectionIInv, DroppedIsOrphan
  <2>4. QED  BY <1>2, <2>2, <2>3 DEF DroppedIsOrphan
<1>13. BootIsQuiet'
  <2>1. Quiet' <=> Quiet
    BY <1>2 DEF Quiet
  <2>2. MayMove' => Default \in orphans'
    BY <1>2, ConnectionAssumption
       DEF MayMove, Loading, Known, ConnectionAssumption
  <2>3. ASSUME Quiet, NEW r \in Servers \ early
        PROVE  net'[r] = Fresh /\ task'[r] = Idle /\ seen'[r] = "CLOSED"
    <3>1. /\ net[r] = Fresh /\ task[r] = Idle /\ seen[r] = "CLOSED"
          /\ n0[r] = net[r]
      BY <2>3 DEF ConnectionIInv, BootIsQuiet
    <3>2. seen'[r] = "CLOSED"
      BY <1>2, <3>1
    <3>3. net'[r] = Fresh
      BY <1>4, <3>1, FreshRests
    <3>4. task'[r] = Idle
      BY <3>1 DEF Idle, Paths
    <3>5. QED  BY <3>2, <3>3, <3>4
  <2>4. Quiet => early \subseteq Known
    BY DEF ConnectionIInv, BootIsQuiet
  <2>5. QED  BY <1>2, <2>1, <2>2, <2>3, <2>4 DEF BootIsQuiet, Known, Idling,
             Fresh, Idle
<1>14. QED  BY <1>5, <1>6, <1>7, <1>8, <1>9, <1>10, <1>11, <1>12, <1>13
            DEF ConnectionIInv, Typed

LEMMA LogoutKeeps ==
    ASSUME ConnectionIInv, logout(net), inactive' = inactive, missed' = missed,
           task' = task, by' = by,
           faults' \in 0..MaxFaults, acts' \in 0..MaxActs
    PROVE  ConnectionIInv'
<1>1. net \in [Servers -> Net] /\ TasksTyped
  BY DEF ConnectionIInv, Typed, NetTyped
<1>2. \A r \in Servers \ leaked :
         Right(net[r]) /\ (net[r].state = "CONNECTED" => r \notin inactive)
  BY RightParts DEF ConnectionIInv
<1>3. QED  BY <1>1, <1>2, LoggedOut DEF TasksTyped

LEMMA MessagesKeep ==
    ASSUME ConnectionIInv, NEW s \in Servers, NEW k \in Sockets,
           onNewMessage(s, k) \/ onDeviceRevoked(s, k)
    PROVE  ConnectionIInv'
<1>1. AppTyped /\ SetsTyped
  BY DEF ConnectionIInv, Typed
<1>2. CASE onNewMessage(s, k)
  <2>1. net[s].wire[k] = "open" /\ Live(net[s]) # {}
    BY <1>2, Started DEF onNewMessage
  <2>2. missed' = missed \/ (missed' = missed \cup {s} /\ s \notin heard)
    BY <1>2 DEF onNewMessage
  <2>3. UNCHANGED <<net, token, taskVars, regVars, storeVars, seen, pastVars, appVars, why,
                    leaked, faults, acts>>
    BY <1>2 DEF onNewMessage
  <2>4. s \in Known /\ s \notin heard => s \in orphans \cup leaked \cup early
    <3>1. CASE s \in present
      BY <1>2, <3>1, Started
         DEF onNewMessage, ConnectionIInv, HeardInTime, OwnPaths, Quiet
    <3>2. CASE s \notin present
      BY <2>1, <3>2 DEF ConnectionIInv, DroppedIsOrphan
    <3>3. QED  BY <3>1, <3>2
  <2>5. MissedIsOrphan'
    BY <2>2, <2>3, <2>4 DEF ConnectionIInv, MissedIsOrphan, Known, regVars,
       pastVars
  <2>6. Typed'
    BY <2>2, <2>3 DEF ConnectionIInv, Typed, NetTyped, TasksTyped, SetsTyped,
       StoreTyped, AppTyped, taskVars, regVars, storeVars, pastVars, appVars
  <2>7. StateIsTrue' /\ StoreShowsState'
    BY <2>3 DEF ConnectionIInv, StateIsTrue, StoreShowsState, Live, Known,
       regVars, storeVars, pastVars
  <2>8. Untouched' /\ OwnPaths' /\ OutIsOrphan' /\ HeardInTime'
    BY <2>3 DEF ConnectionIInv, Untouched, NotLoaded, OwnPaths, OutIsOrphan,
       HeardInTime, Known, Fresh, Idle, Idling, Loading, taskVars, regVars, pastVars, appVars
  <2>9. DroppedIsOrphan' /\ BootIsQuiet'
    BY <2>3 DEF ConnectionIInv, DroppedIsOrphan, NotLoaded, Busy, Live,
           Rowless,
       BootIsQuiet, MayMove, Quiet, Idle, Idling, Fresh, Known, taskVars, regVars,
       pastVars, appVars
  <2>10. QED  BY <2>5, <2>6, <2>7, <2>8, <2>9 DEF ConnectionIInv
<1>3. CASE onDeviceRevoked(s, k)
  <2>1. logout(net) /\ Fault
        /\ UNCHANGED <<task, by, inactive, acts, missed>>
    BY <1>3 DEF onDeviceRevoked
  <2>2. faults' \in 0..MaxFaults /\ acts' \in 0..MaxActs
    BY <1>1, <2>1, ConnectionAssumption DEF Fault, ConnectionAssumption,
           AppTyped
  <2>3. QED  BY <2>1, <2>2, LogoutKeeps
<1>4. QED  BY <1>2, <1>3

-----------------------------------------------------------------------------
(* reconnectServer of a server with instances, which finds its service as m.*)
LEMMA Reconnects ==
    ASSUME ConnectionIInv, NEW s \in present, NEW i \in Loops \cup {0},
           NEW m \in Net, Live(m) \subseteq Live(net[s]),
           s \notin leaked =>
              Right(m) /\ (m.state = "CONNECTED" => s \notin inactive),
           reconnectServer(s, i, [net EXCEPT ![s] = m]),
           leaked' = leaked, inactive' = inactive
    PROVE  /\ NetTyped' /\ StateIsTrue' /\ ~NotLoaded
           /\ task' \in [Servers -> [Paths -> Steps]]
           /\ by' \in [Servers -> Loops \cup {0}]
           /\ \A r \in Servers \ {s} : net'[r] = net[r] /\ task'[r] = task[r]
           /\ \A r \in Servers : Live(net'[r]) # {} => Live(net[r]) # {}
           /\ \A r \in Servers :
                 /\ task'[r]["add"] = task[r]["add"]
                 /\ task'[r]["boot"] # "idle" => task[r]["boot"] # "idle"
           /\ \A r \in Servers \ present, q \in Paths :
                 task'[r][q] # "idle" => task[r][q] # "idle"
<1> DEFINE n0 == [net EXCEPT ![s] = m]
<1>1. NetTyped /\ TasksTyped /\ SetsTyped /\ StateIsTrue /\ s \in Servers
  BY DEF ConnectionIInv, Typed, SetsTyped
<1>2. ~NotLoaded
  BY DEF ConnectionIInv, Untouched
<1>3. n0[s] = m /\ \A r \in Servers \ {s} : n0[r] = net[r]
  BY <1>1 DEF NetTyped
<1>4. CASE task[s]["reauth"] # "idle"
  <2>1. net' = n0 /\ task' = task /\ by' = by
    BY <1>4 DEF reconnectServer
  <2>2. NetTyped' /\ StateIsTrue'
    BY <1>1, <2>1, OneService
  <2>3. \A r \in Servers : Live(net'[r]) # {} => Live(net[r]) # {}
    BY <1>3, <2>1
  <2>4. QED  BY <1>1, <1>2, <1>3, <2>1, <2>2, <2>3 DEF TasksTyped
<1>5. CASE task[s]["reauth"] = "idle"
  <2>1. /\ net' = [n0 EXCEPT ![s] = disconnect(@)]
        /\ task' = [task EXCEPT ![s]["reauth"] = "auth"]
        /\ by' = [by EXCEPT ![s] = i]
    BY <1>5 DEF reconnectServer
  <2>2. net' = [net EXCEPT ![s] = disconnect(m)]
    BY <1>1, <1>3, <2>1 DEF NetTyped
  <2>3. /\ disconnect(m) \in Net /\ disconnect(m).state = "CLOSED"
        /\ Live(disconnect(m)) \subseteq Live(m)
        /\ s \notin leaked => Right(disconnect(m))
    BY Disconnected DEF Right
  <2>4. NetTyped' /\ StateIsTrue' /\ net'[s] = disconnect(m)
        /\ \A r \in Servers \ {s} : net'[r] = net[r]
    BY <1>1, <2>2, <2>3, OneService
  <2>5. \A r \in Servers : Live(net'[r]) # {} => Live(net[r]) # {}
    BY <2>3, <2>4
  <2>6. /\ task' \in [Servers -> [Paths -> Steps]]
        /\ by' \in [Servers -> Loops \cup {0}]
        /\ \A r \in Servers \ {s} : task'[r] = task[r]
    BY <1>1, <2>1 DEF TasksTyped, Paths, Steps
  <2>7. /\ \A r \in Servers :
              /\ task'[r]["add"] = task[r]["add"]
              /\ task'[r]["boot"] # "idle" => task[r]["boot"] # "idle"
        /\ \A r \in Servers \ present, q \in Paths :
              task'[r][q] # "idle" => task[r][q] # "idle"
    BY <1>1, <2>1 DEF TasksTyped, Paths
  <2>8. QED  BY <1>2, <2>4, <2>5, <2>6, <2>7
<1>6. QED  BY <1>4, <1>5

LEMMA AuthErrorKeeps ==
    ASSUME ConnectionIInv, NEW s \in Servers, NEW k \in Sockets, onAuthError(s, k)
    PROVE  ConnectionIInv'
<1> DEFINE n == net[s]
           m == disconnect([n EXCEPT !.wire[k] = "none"])
           n0 == [net EXCEPT ![s] = m]
<1>1. n \in Net /\ Typed /\ NetTyped /\ SetsTyped /\ StoreTyped /\ AppTyped
  BY DEF ConnectionIInv, Typed, NetTyped
<1>2. s \notin leaked => Right(n) /\ (n.state = "CONNECTED" => s \notin inactive)
  BY RightParts DEF ConnectionIInv
<1>3. n.wire[k] = "opening" /\ Fault /\ UNCHANGED <<inactive, acts, missed>>
  BY DEF onAuthError, Refused
<1>4. /\ faults' \in 0..MaxFaults /\ acts' \in 0..MaxActs
      /\ inactive' \subseteq Servers
      /\ \A x \in Reasons : [why EXCEPT ![s] = x] \in [Servers -> Reasons]
  BY <1>1, <1>3, ConnectionAssumption
     DEF Fault, ConnectionAssumption, AppTyped, SetsTyped, StoreTyped
<1>5. /\ m \in Net /\ m.state = "CLOSED"
      /\ Live(m) \subseteq Live(n)
      /\ s \notin leaked => Right(m)
  <2> DEFINE w == [n EXCEPT !.wire[k] = "none"]
  <2>1. w \in Net /\ w.cur = n.cur /\ Live(w) \subseteq Live(n)
    BY <1>1 DEF Net, Live, Wires
  <2>2. m = disconnect(w)
    OBVIOUS
  <2> HIDE DEF w, m
  <2>3. QED  BY <1>2, <2>1, <2>2, Disconnected DEF Right
<1>6. n0 = [net EXCEPT ![s] = disconnect([@ EXCEPT !.wire[k] = "none"])]
  BY <1>1 DEF NetTyped
<1> HIDE DEF m
<1>7. n0 \in [Servers -> Net] /\ n0[s] = m
      /\ \A r \in Servers \ {s} : n0[r] = net[r]
  BY <1>1, <1>5 DEF NetTyped
<1>8. CASE logout(n0) /\ UNCHANGED <<task, by>>
  <2>1. \A r \in Servers \ leaked :
           Right(n0[r]) /\ (n0[r].state = "CONNECTED" => r \notin inactive)
    BY <1>5, <1>7, RightParts DEF ConnectionIInv
  <2>2. /\ \A r \in Servers : Live(n0[r]) \subseteq Live(net[r])
        /\ \A r \in Servers : net[r] = Fresh => n0[r] = Fresh
    BY <1>3, <1>5, <1>7, FreshIsRight DEF Live
  <2>3. /\ task' \in [Servers -> [Paths -> Steps]]
        /\ by' \in [Servers -> Loops \cup {0}]
        /\ \A r \in Servers, q \in Paths : task'[r][q] # "idle" => task[r][q] # "idle"
    BY <1>1, <1>8 DEF Typed, TasksTyped
  <2> HIDE DEF n0
  <2>4. QED  BY <1>3, <1>4, <1>7, <1>8, <2>1, <2>2, <2>3, LoggedOut
<1>9. CASE /\ net' = n0 /\ Shown
           /\ why' = [why EXCEPT ![s] = "rejected"]
           /\ UNCHANGED <<token, taskVars, regVars, banned, pastVars, appVars, leaked>>
  <2>1. why' \in [Servers -> Reasons] /\ banned' \subseteq Servers
    BY <1>1, <1>4, <1>9 DEF Reasons, SetsTyped
  <2>2. QED  BY <1>3, <1>4, <1>5, <1>9, <2>1, ServiceStep
<1>10. CASE /\ authHeard(s)
            /\ reconnectServer(s, 0, n0) /\ Shown
            /\ UNCHANGED <<token, loops, checking, regVars, banned, pastVars, appVars,
                           why, leaked>>
  <2>1. s \in present /\ ~Quiet
    BY <1>1, <1>10
       DEF authHeard, SetsTyped, ConnectionIInv, BootIsQuiet, Quiet, Unheard
  <2>2. /\ NetTyped' /\ StateIsTrue' /\ ~NotLoaded
        /\ task' \in [Servers -> [Paths -> Steps]]
        /\ by' \in [Servers -> Loops \cup {0}]
        /\ \A r \in Servers : Live(net'[r]) # {} => Live(net[r]) # {}
        /\ \A r \in Servers :
              /\ task'[r]["add"] = task[r]["add"]
              /\ task'[r]["boot"] # "idle" => task[r]["boot"] # "idle"
        /\ \A r \in Servers \ present, q \in Paths :
              task'[r][q] # "idle" => task[r][q] # "idle"
    BY <1>3, <1>5, <1>10, <2>1, Reconnects
  <2>3. TasksTyped' /\ SetsTyped' /\ AppTyped'
    BY <1>1, <1>3, <1>4, <1>10, <2>2 DEF Typed, TasksTyped, SetsTyped,
           AppTyped,
       regVars, pastVars, appVars
  <2>4. StoreTyped' /\ StoreShowsState'
    BY <1>1, <1>10, <2>2, Shows DEF ConnectionIInv, StoreTyped, regVars,
           pastVars
  <2>5. /\ MissedIsOrphan' /\ Untouched' /\ OwnPaths' /\ OutIsOrphan'
        /\ HeardInTime' /\ DroppedIsOrphan'
    BY <1>3, <1>10, <2>2, Frame DEF regVars, pastVars, appVars
  <2>6. BootIsQuiet'
    BY <1>10, <2>1, HeardKeeps DEF ConnectionIInv, regVars, appVars
  <2>7. QED  BY <2>2, <2>3, <2>4, <2>5, <2>6 DEF ConnectionIInv, Typed
<1>11. QED  BY <1>6, <1>8, <1>9, <1>10 DEF onAuthError

-----------------------------------------------------------------------------
(* A step that leaves the services, the servers and the tokens alone.      *)
LEMMA Rests ==
    ASSUME ConnectionIInv,
           UNCHANGED <<net, token, task, by, regVars, storeVars, pastVars, seen,
                       why, leaked, missed>>,
           auth' => auth,
           loops' \in [Loops -> SUBSET Servers], checking' \subseteq Servers,
           AppTyped',
           NotLoaded' <=> NotLoaded,
           NotLoaded => loops' = loops /\ checking' = checking,
           \/ booting' = booting
           \/ booting = "connecting" /\ booting' = "no"
           \/ booting = "no" /\ booting' = "opening" /\ ~out,
           BootIsQuiet'
    PROVE  ConnectionIInv'
<1>1. Typed'
  BY DEF ConnectionIInv, Typed, NetTyped, TasksTyped, SetsTyped, StoreTyped,
     regVars, storeVars, pastVars
<1>2. StateIsTrue' /\ StoreShowsState'
  BY DEF ConnectionIInv, StateIsTrue, StoreShowsState, Live, Known, regVars,
     storeVars, pastVars
<1>3. Untouched'
  BY DEF ConnectionIInv, Untouched, Known, Fresh, Idle, Idling, regVars,
         pastVars
<1>4. OwnPaths' /\ HeardInTime' /\ MissedIsOrphan'
  BY DEF ConnectionIInv, OwnPaths, HeardInTime, MissedIsOrphan,
     Known, Unheard, regVars, pastVars
<1>5. OutIsOrphan'
  BY DEF ConnectionIInv, OutIsOrphan, Loading, Known, regVars, pastVars
<1>6. DroppedIsOrphan'
  BY DEF ConnectionIInv, DroppedIsOrphan, Busy, Live, Rowless, regVars
<1>7. QED  BY <1>1, <1>2, <1>3, <1>4, <1>5, <1>6 DEF ConnectionIInv

(* The same when the boot, the loops and the health check rest too.        *)
LEMMA QuietRests ==
    ASSUME ConnectionIInv,
           UNCHANGED <<net, token, taskVars, regVars, storeVars, pastVars, seen,
                       why, leaked, missed, booting, initialized>>,
           auth' => auth, AppTyped'
    PROVE  ConnectionIInv'
<1>1. loops' \in [Loops -> SUBSET Servers] /\ checking' \subseteq Servers
  BY DEF ConnectionIInv, Typed, TasksTyped, taskVars
<1>2. NotLoaded' <=> NotLoaded
  BY DEF NotLoaded, pastVars
<1>3. BootIsQuiet'
  BY DEF ConnectionIInv, BootIsQuiet, Quiet, MayMove, Known, Idle, Idling,
         Fresh,
     taskVars, regVars, pastVars
<1>4. QED  BY <1>1, <1>2, <1>3, Rests DEF taskVars

(* A booted app has no boot under way.                                     *)
LEMMA Booted ==
    ASSUME ConnectionIInv, initialized
    PROVE  ~NotLoaded /\ ~Quiet /\ booting = "no"
BY DEF ConnectionIInv, BootIsQuiet, NotLoaded, Quiet, Unheard

LEMMA LoopsStart ==
    ASSUME Typed, NEW check \in BOOLEAN, ensureSocketsConnected(check)
    PROVE  loops' \in [Loops -> SUBSET Servers] /\ checking' \subseteq Servers
BY DEF Typed, TasksTyped, SetsTyped, ensureSocketsConnected

LEMMA ActTyped ==
    ASSUME AppTyped, Act
    PROVE  acts' \in 0..MaxActs /\ faults' \in 0..MaxFaults /\ missed' = missed
BY ConnectionAssumption DEF ConnectionAssumption, AppTyped, Act

LEMMA BootKeeps ==
    ASSUME ConnectionIInv,
           bootDone \/ becomeInactive \/ prompt \/ lockedLogout
    PROVE  ConnectionIInv'
<1>1. Typed /\ AppTyped /\ TasksTyped /\ SetsTyped /\ BootIsQuiet
  BY DEF ConnectionIInv, Typed
<1>2. CASE bootDone
  <2>1. AppTyped' /\ checking' \subseteq Servers
    BY <1>1, <1>2 DEF bootDone, AppTyped, TasksTyped, SetsTyped, Boots,
           pastVars
  <2>2. ~NotLoaded /\ ~NotLoaded'
    BY <1>2 DEF bootDone, NotLoaded
  <2>3. BootIsQuiet'
    BY <1>2 DEF bootDone, BootIsQuiet, Quiet, MayMove, Unheard
  <2>4. QED  BY <1>1, <1>2, <2>1, <2>2, <2>3, Rests DEF bootDone, TasksTyped
<1>3. CASE becomeInactive
  <2>1. AppTyped'
    BY <1>1, <1>3, ActTyped DEF becomeInactive, AppTyped, pastVars
  <2>2. QED  BY <1>1, <1>3, <2>1, QuietRests, ActTyped DEF becomeInactive
<1>4. CASE prompt
  <2>1. AppTyped'
    BY <1>1, <1>4 DEF prompt, AppTyped, pastVars
  <2>2. QED  BY <1>4, <2>1, QuietRests DEF prompt
<1>5. CASE lockedLogout
  <2>1. AppTyped'
    BY <1>1, <1>5, ActTyped DEF lockedLogout, AppTyped, pastVars
  <2>2. QED  BY <1>1, <1>5, <2>1, QuietRests, ActTyped DEF lockedLogout
<1>6. QED  BY <1>2, <1>3, <1>4, <1>5

LEMMA ActivateKeeps ==
    ASSUME ConnectionIInv, activate
    PROVE  ConnectionIInv'
<1>1. Typed /\ AppTyped /\ TasksTyped /\ SetsTyped
  BY DEF ConnectionIInv, Typed
<1>2. /\ app' = "active"
      /\ UNCHANGED <<pastVars, by, orphans, storeVars, auth, unlocked, faults,
                     acts, missed>>
  BY DEF activate
<1>3. CASE initialized /\ ensureSocketsConnected(TRUE) /\ UNCHANGED bio
  <2>1. /\ UNCHANGED <<net, token, task, present, heard, seen, why, leaked,
                       booting, initialized>>
        /\ loops' \in [Loops -> SUBSET Servers] /\ checking' \subseteq Servers
    BY <1>1, <1>3, LoopsStart DEF ensureSocketsConnected
  <2>2. AppTyped' /\ ~NotLoaded /\ ~NotLoaded'
    BY <1>1, <1>2, <1>3, <2>1, Booted DEF AppTyped, NotLoaded, pastVars
  <2>3. BootIsQuiet'
    BY <1>3, <2>1, Booted, HeardKeeps DEF ConnectionIInv
  <2>4. QED  BY <1>2, <2>1, <2>2, <2>3, Rests DEF regVars
<1>4. CASE /\ UNCHANGED <<net, token, task, present, heard, seen, why, leaked,
                          booting, initialized, loops, checking>>
           /\ bio' = bio \/ (initialized /\ bio' = FALSE)
  <2>1. AppTyped'
    BY <1>1, <1>2, <1>4 DEF AppTyped, pastVars
  <2>2. QED  BY <1>1, <1>2, <1>4, <2>1, QuietRests DEF regVars, taskVars
<1>5. QED  BY <1>3, <1>4 DEF activate

LEMMA UnlockKeeps ==
    ASSUME ConnectionIInv, unlock
    PROVE  ConnectionIInv'
<1>1. Typed /\ AppTyped /\ TasksTyped
  BY DEF ConnectionIInv, Typed
<1>2. /\ auth /\ ~bio /\ app = "active" /\ booting = "no"
      /\ bio' = TRUE /\ unlocked' = TRUE
      /\ UNCHANGED <<by, orphans, storeVars, pastVars, app, auth, faults, acts,
                     missed>>
  BY DEF unlock
<1>3. CASE initialized /\ ensureSocketsConnected(FALSE)
  <2>1. /\ UNCHANGED <<net, token, task, present, heard, seen, why, leaked,
                       booting, initialized>>
        /\ loops' \in [Loops -> SUBSET Servers] /\ checking' \subseteq Servers
    BY <1>1, <1>3, LoopsStart DEF ensureSocketsConnected
  <2>2. AppTyped' /\ ~NotLoaded /\ ~NotLoaded'
    BY <1>1, <1>2, <1>3, <2>1, Booted DEF AppTyped, NotLoaded, pastVars
  <2>3. BootIsQuiet'
    BY <1>3, <2>1, Booted, HeardKeeps DEF ConnectionIInv
  <2>4. QED  BY <1>2, <2>1, <2>2, <2>3, Rests DEF regVars
<1>4. CASE ~initialized /\ initialize
  <2>1. /\ booting' = "opening"
        /\ UNCHANGED <<net, token, task, loops, checking, present, heard, seen,
                       why, leaked, initialized>>
    BY <1>4 DEF initialize
  <2>2. ~out /\ NotLoaded /\ NotLoaded'
    BY <1>2, <1>4, <2>1
       DEF ConnectionIInv, OutIsOrphan, NotLoaded, pastVars, AppTyped, Typed
  <2>3. AppTyped'
    BY <1>1, <1>2, <2>1 DEF AppTyped, Boots, pastVars
  <2>4. BootIsQuiet'
    <3>1. /\ net = [s \in Servers |-> Fresh]
          /\ seen = [s \in Servers |-> "CLOSED"]
          /\ task = [s \in Servers |-> Idle]
          /\ loops = Idling /\ checking = {} /\ present = {} /\ early = {}
          /\ heard = {}
      BY <2>2 DEF ConnectionIInv, Untouched, Typed, SetsTyped
    <3>2. QED  BY <1>2, <1>4, <2>1, <3>1
               DEF BootIsQuiet, Quiet, MayMove, Idle, Idling, Fresh, pastVars
  <2>5. QED  BY <1>1, <1>2, <2>1, <2>2, <2>3, <2>4, Rests
             DEF regVars, TasksTyped
<1>5. QED  BY <1>3, <1>4 DEF unlock

(* The steps of the boot that touch no service.                            *)
LEMMA LoadKeeps ==
    ASSUME ConnectionIInv,
           loadServers \/ ensureDefaultServer \/ migrateToken \/ registerHandlers
    PROVE  ConnectionIInv'
<1>1. /\ Typed /\ NetTyped /\ AppTyped /\ TasksTyped /\ SetsTyped /\ StoreTyped
      /\ StateIsTrue /\ StoreShowsState
  BY DEF ConnectionIInv, Typed
<1>2. Configured \subseteq Known /\ Default \in Known /\ Known \subseteq Servers
  BY ConnectionAssumption DEF ConnectionAssumption, Known
<1>3. /\ UNCHANGED <<net, task, seen, why, leaked, by, loops, checking, orphans,
                     storeVars, pastVars, app, auth, bio, unlocked, initialized,
                     faults, acts, missed>>
      /\ booting' \in Boots /\ booting' \notin {"no", "opening"}
      /\ Quiet /\ booting # "no"
  BY DEF loadServers, ensureDefaultServer, migrateToken, registerHandlers,
         boots,
     Boots, Quiet, Unheard
<1>4. /\ heard = {} /\ present \subseteq Known /\ ~initialized
  BY <1>3 DEF ConnectionIInv, BootIsQuiet
<1>5. /\ present' \subseteq Known /\ token' \subseteq Servers
      /\ heard' = {} \/ (heard' = present' /\ booting' = "ready")
      /\ token \subseteq token'
  BY <1>1, <1>2, <1>4 DEF loadServers, ensureDefaultServer, migrateToken,
     registerHandlers, boots, chatInit, subscribe, clearAllServiceHandlers,
     SetsTyped
<1>6. Typed'
  BY <1>1, <1>2, <1>3, <1>5 DEF Typed, NetTyped, TasksTyped, SetsTyped,
     StoreTyped, AppTyped, storeVars, pastVars
<1>7. StateIsTrue'
  BY <1>1, <1>3 DEF StateIsTrue, Live, storeVars
<1>8. StoreShowsState'
  <2>1. \A r \in Servers \ early : seen[r] = "CLOSED" /\ net[r] = Fresh
    BY <1>3 DEF ConnectionIInv, BootIsQuiet
  <2>2. Fresh.state = "CLOSED"
    BY DEF Fresh
  <2>3. QED  BY <1>2, <1>3, <1>5, <2>1, <2>2 DEF StoreShowsState, Known,
         pastVars
<1>9. ~NotLoaded' /\ Untouched' /\ OwnPaths' /\ MissedIsOrphan'
  BY <1>3 DEF ConnectionIInv, NotLoaded, Untouched, OwnPaths, MissedIsOrphan,
     Known, pastVars
<1>10. HeardInTime'
  <2>1. booting' \in Unheard \/ heard' = present'
    BY <1>5 DEF loadServers, ensureDefaultServer, migrateToken,
           registerHandlers,
       boots, Unheard, chatInit, subscribe
  <2>2. QED  BY <2>1 DEF HeardInTime, Unheard
<1>11. OutIsOrphan'
  <2>1. CASE ~out
    BY <1>3, <2>1 DEF OutIsOrphan, pastVars
  <2>2. CASE out
    <3>1. ~auth /\ present \subseteq orphans /\ Loading \subseteq orphans
      BY <2>2 DEF ConnectionIInv, OutIsOrphan
    <3>2. Loading' \subseteq Loading
      BY <1>3 DEF loadServers, ensureDefaultServer, migrateToken,
         registerHandlers, boots, Loading, Known
    <3>3. present' \subseteq present \cup Loading
      BY <1>2 DEF loadServers, ensureDefaultServer, migrateToken,
         registerHandlers, boots, Loading
    <3>4. QED  BY <1>3, <3>1, <3>2, <3>3 DEF OutIsOrphan
  <2>3. QED  BY <2>1, <2>2
<1>12. DroppedIsOrphan'
  <2>1. present \subseteq present'
    BY <1>2 DEF loadServers, ensureDefaultServer, migrateToken,
       registerHandlers, boots, ConnectionIInv, BootIsQuiet
  <2>2. ASSUME NEW r \in Servers \ present'
        PROVE  /\ Busy(r)' => r \in orphans'
               /\ Live(net'[r]) # {} => r \in orphans' \cup leaked'
    <3>1. Busy(r)' => Busy(r)
      BY <1>3 DEF Busy
    <3>2. QED  BY <1>3, <2>1, <2>2, <3>1 DEF ConnectionIInv, DroppedIsOrphan,
           Live
  <2>3. ASSUME NEW r \in Servers \ present', r \in token',
               r \notin orphans \cup leaked
        PROVE  Rowless(r)'
    <3>1. CASE loadServers
      <4>1. r \in token /\ booting' = "loading" /\ present' = Configured
            /\ booting = "opening"
        BY <2>3, <3>1 DEF loadServers, boots
      <4>2. NotLoaded => r \in Known
        BY <2>3, <4>1 DEF ConnectionIInv, Untouched
      <4>3. ~NotLoaded => Rowless(r)
        BY <2>1, <2>3, <4>1 DEF ConnectionIInv, DroppedIsOrphan
      <4>4. ~Rowless(r)
        BY <4>1 DEF Rowless
      <4>5. QED  BY <2>3, <4>1, <4>2, <4>3, <4>4 DEF Rowless, Known
    <3>2. CASE ensureDefaultServer
      <4>1. r \in token /\ booting = "loading" /\ ~NotLoaded
            /\ present' = present \cup ({Default} \ Configured)
        BY <2>3, <3>2 DEF ensureDefaultServer, boots, NotLoaded
      <4>2. Rowless(r)
        BY <2>1, <2>3, <4>1 DEF ConnectionIInv, DroppedIsOrphan
      <4>3. QED  BY <2>3, <4>1, <4>2 DEF Rowless
    <3>3. CASE migrateToken
      <4>1. /\ booting = "migrating" /\ ~NotLoaded /\ present' = present
            /\ r \in token \cup {Default}
        BY <2>3, <3>3 DEF migrateToken, boots, NotLoaded
      <4>2. Default \in present \cup orphans
        <5>1. BootIsQuiet /\ MayMove
          BY <4>1 DEF ConnectionIInv, MayMove
        <5>2. QED  BY <5>1 DEF BootIsQuiet
      <4>3. ~Rowless(r) /\ r \in token /\ r \in Servers \ present
        BY <2>3, <4>1, <4>2 DEF Rowless
      <4>4. QED  BY <2>3, <4>1, <4>3 DEF ConnectionIInv, DroppedIsOrphan
    <3>4. CASE registerHandlers
      <4>1. /\ booting = "restoring" /\ ~NotLoaded /\ present' = present
            /\ r \in token
        BY <2>3, <3>4 DEF registerHandlers, boots, NotLoaded
      <4>2. ~Rowless(r)
        BY <4>1 DEF Rowless
      <4>3. QED  BY <2>3, <4>1, <4>2 DEF ConnectionIInv, DroppedIsOrphan
    <3>5. QED  BY <3>1, <3>2, <3>3, <3>4
  <2>4. QED  BY <1>3, <2>2, <2>3 DEF DroppedIsOrphan
<1>13. BootIsQuiet'
  <2>1. MayMove' => Default \in present' \cup orphans'
    <3>1. MayMove' => loadServers \/ ensureDefaultServer
      BY DEF MayMove, migrateToken, registerHandlers, boots
    <3>2. loadServers /\ MayMove' => Default \in present'
      BY DEF MayMove, loadServers, boots
    <3>3. ensureDefaultServer => Default \in present' \cup orphans'
      BY <1>3 DEF ensureDefaultServer, boots, ConnectionIInv, BootIsQuiet,
             MayMove
    <3>4. QED  BY <3>1, <3>2, <3>3
  <2>2. Quiet' => heard' = {}
    BY <1>5 DEF Quiet, Unheard
  <2>3. /\ loops = Idling /\ checking = {} /\ early \subseteq Known
        /\ \A r \in Servers \ early :
              net[r] = Fresh /\ task[r] = Idle /\ seen[r] = "CLOSED"
    BY <1>3 DEF ConnectionIInv, BootIsQuiet
  <2>4. QED  BY <1>3, <1>4, <1>5, <2>1, <2>2, <2>3
             DEF BootIsQuiet, Known, Idling, Fresh, Idle, pastVars
<1>14. QED  BY <1>6, <1>7, <1>8, <1>9, <1>10, <1>11, <1>12, <1>13
            DEF ConnectionIInv

(* And connectAll.                                                         *)
LEMMA ConnectKeeps ==
    ASSUME ConnectionIInv, connectSockets
    PROVE  ConnectionIInv'
<1>1. /\ Typed /\ NetTyped /\ AppTyped /\ TasksTyped /\ SetsTyped /\ StoreTyped
      /\ StateIsTrue /\ StoreShowsState
  BY DEF ConnectionIInv, Typed
<1>2. /\ booting = "ready" /\ booting' = "connecting"
      /\ connectAll(present, token, banned) /\ Shown
      /\ UNCHANGED <<by, loops, checking, orphans, storeVars, pastVars, app, auth,
                     bio, unlocked, initialized, faults, acts, missed, token,
                     present, heard>>
  BY DEF connectSockets, boots
<1>3. present \subseteq Known /\ present \subseteq Servers /\ ~initialized
  BY <1>1, <1>2 DEF ConnectionIInv, BootIsQuiet, SetsTyped
<1>4. /\ NetTyped' /\ StateIsTrue'
      /\ leaked \subseteq leaked' /\ leaked' \subseteq Servers
      /\ why' \in [Servers -> Reasons]
      /\ \A r \in Servers \ present : net'[r] = net[r]
  <2>1. connect(present, token, banned) /\ inactive' = inactive
    BY <1>2 DEF connectAll, storeVars
  <2>2. leaked \subseteq Servers /\ why \in [Servers -> Reasons]
    BY <1>1 DEF SetsTyped, StoreTyped
  <2>3. QED  BY <1>1, <1>3, <2>1, <2>2, Connects
<1>5. task' = [s \in Servers |-> IF s \in present \ (token \cup banned)
                                 THEN [task[s] EXCEPT !["boot"] = "auth"]
                                 ELSE task[s]]
  BY <1>2 DEF connectAll
<1>6. /\ TasksTyped'
      /\ \A s \in Servers : /\ task'[s]["add"] = task[s]["add"]
                            /\ s \notin present => task'[s] = task[s]
  <2>1. task' \in [Servers -> [Paths -> Steps]]
    BY <1>1, <1>5 DEF TasksTyped, Paths, Steps
  <2>2. QED  BY <1>1, <1>2, <1>5, <2>1 DEF TasksTyped, Paths
<1>7. StoreTyped' /\ StoreShowsState'
  BY <1>1, <1>2, <1>4, Shows DEF StoreTyped, pastVars
<1>8. SetsTyped' /\ AppTyped'
  BY <1>1, <1>2, <1>4 DEF SetsTyped, AppTyped, Boots, storeVars, pastVars
<1>9. ~NotLoaded /\ ~NotLoaded' /\ Untouched' /\ MissedIsOrphan'
  BY <1>2, <1>4 DEF ConnectionIInv, NotLoaded, Untouched, MissedIsOrphan,
         Known,
     pastVars
<1>10. OwnPaths'
  BY <1>3, <1>6 DEF ConnectionIInv, OwnPaths, Known
<1>11. HeardInTime' /\ OutIsOrphan'
  BY <1>1, <1>2, <1>6 DEF ConnectionIInv, HeardInTime, OutIsOrphan, Loading,
     Unheard, SetsTyped, pastVars
<1>12. DroppedIsOrphan'
  <2>1. \A r \in Servers \ present : Busy(r)' => Busy(r)
    BY <1>6 DEF Busy
  <2>2. QED  BY <1>2, <1>4, <1>9, <2>1 DEF ConnectionIInv, DroppedIsOrphan,
         Rowless
<1>13. BootIsQuiet'
  BY <1>2, <1>3 DEF BootIsQuiet, Quiet, MayMove, Unheard, Known
<1>14. QED  BY <1>4, <1>6, <1>7, <1>8, <1>9, <1>10, <1>11, <1>12, <1>13
            DEF ConnectionIInv, Typed

LEMMA BootStepKeeps ==
    ASSUME ConnectionIInv, bootStep
    PROVE  ConnectionIInv'
BY LoadKeeps, ConnectKeeps DEF bootStep

LEMMA BackgroundKeeps ==
    ASSUME ConnectionIInv, background
    PROVE  ConnectionIInv'
<1>1. Typed /\ NetTyped /\ AppTyped /\ TasksTyped /\ SetsTyped /\ StoreTyped
      /\ StateIsTrue /\ StoreShowsState
  BY DEF ConnectionIInv, Typed
<1>2. /\ app' = "background" /\ Act
      /\ UNCHANGED <<pastVars, token, taskVars, regVars, storeVars, auth, bio,
                     booting, initialized, why, leaked>>
  BY DEF background
<1>3. acts' \in 0..MaxActs /\ faults' \in 0..MaxFaults /\ missed' = missed
  BY <1>1, <1>2, ActTyped
<1>4. CASE ~initialized
  <2>1. UNCHANGED <<net, unlocked, seen>>
    BY <1>4 DEF background
  <2>2. AppTyped'
    BY <1>1, <1>2, <1>3, <2>1 DEF AppTyped, pastVars
  <2>3. QED  BY <1>2, <1>3, <2>1, <2>2, QuietRests
<1>5. CASE initialized
  <2>1. /\ net' = [s \in Servers |->
                     IF s \in present THEN disconnect(net[s]) ELSE net[s]]
        /\ unlocked' = FALSE /\ Shown
    BY <1>5 DEF background
  <2>2. \A r \in Servers :
           /\ net[r] \in Net /\ disconnect(net[r]) \in Net
           /\ disconnect(net[r]).state = "CLOSED"
           /\ Live(disconnect(net[r])) \subseteq Live(net[r])
           /\ Right(net[r]) => Right(disconnect(net[r]))
    BY <1>1, Disconnected DEF NetTyped, Right
  <2>3. \A r \in Servers :
           net'[r] = IF r \in present THEN disconnect(net[r]) ELSE net[r]
    BY <2>1
  <2>4. NetTyped'
    BY <2>1, <2>2 DEF NetTyped
  <2>5. StateIsTrue'
    <3>1. \A r \in Servers \ leaked' :
             Right(net'[r]) /\ (net'[r].state = "CONNECTED" => r \notin inactive')
      BY <1>1, <1>2, <2>2, <2>3, RightParts DEF storeVars
    <3>2. QED  BY <3>1, RightParts
  <2>6. seen' \in [Servers -> States] /\ StoreShowsState'
    BY <1>1, <1>2, <2>1, <2>4, Shows DEF regVars, pastVars
  <2>7. TasksTyped' /\ SetsTyped' /\ StoreTyped' /\ AppTyped'
    BY <1>1, <1>2, <1>3, <2>1, <2>6
       DEF TasksTyped, SetsTyped, StoreTyped, AppTyped, taskVars, regVars,
           storeVars, pastVars
  <2>8. \A r \in Servers : Live(net'[r]) # {} => Live(net[r]) # {}
    BY <2>2, <2>3
  <2>9. /\ MissedIsOrphan' /\ Untouched' /\ OwnPaths' /\ OutIsOrphan'
        /\ HeardInTime' /\ DroppedIsOrphan'
    BY <1>2, <1>3, <1>5, <2>8, Frame DEF NotLoaded, taskVars, regVars, pastVars
  <2>10. BootIsQuiet'
    BY <1>2, <1>5, Booted, HeardKeeps DEF ConnectionIInv, regVars
  <2>11. QED  BY <2>4, <2>5, <2>6, <2>7, <2>9, <2>10 DEF ConnectionIInv, Typed
<1>6. QED  BY <1>4, <1>5

-----------------------------------------------------------------------------
(* What the user does, and the loops.                                      *)
LEMMA UserKeeps ==
    ASSUME ConnectionIInv, NEW s \in Servers,
           tapReconnect(s) \/ addServer(s) \/ userLogout
    PROVE  ConnectionIInv'
<1>1. Typed /\ NetTyped /\ AppTyped /\ TasksTyped /\ SetsTyped /\ StoreTyped
      /\ StateIsTrue /\ StoreShowsState
  BY DEF ConnectionIInv, Typed
<1>2. Act /\ acts' \in 0..MaxActs /\ faults' \in 0..MaxFaults /\ missed' = missed
  BY <1>1, ActTyped DEF tapReconnect, addServer, userLogout
<1>3. CASE tapReconnect(s)
  <2>1. /\ s \in present /\ reconnectServer(s, 0, net) /\ Shown
        /\ UNCHANGED <<out, token, loops, checking, regVars, storeVars, appVars,
                       why, leaked>>
        /\ early' = IF booting \in Unheard THEN early \cup {s} ELSE early
    BY <1>3 DEF tapReconnect
  <2>2. net = [net EXCEPT ![s] = net[s]] /\ net[s] \in Net
    BY <1>1 DEF NetTyped
  <2>3. s \notin leaked =>
           Right(net[s]) /\ (net[s].state = "CONNECTED" => s \notin inactive)
    BY <1>1, RightParts
  <2>4. /\ NetTyped' /\ StateIsTrue' /\ ~NotLoaded
        /\ task' \in [Servers -> [Paths -> Steps]]
        /\ by' \in [Servers -> Loops \cup {0}]
        /\ \A r \in Servers \ {s} : net'[r] = net[r] /\ task'[r] = task[r]
        /\ \A r \in Servers : Live(net'[r]) # {} => Live(net[r]) # {}
        /\ \A r \in Servers :
              /\ task'[r]["add"] = task[r]["add"]
              /\ task'[r]["boot"] # "idle" => task[r]["boot"] # "idle"
        /\ \A r \in Servers \ present, q \in Paths :
              task'[r][q] # "idle" => task[r][q] # "idle"
    <3>1. reconnectServer(s, 0, [net EXCEPT ![s] = net[s]])
      BY <2>1, <2>2
    <3>2. 0 \in Loops \cup {0} /\ leaked' = leaked /\ inactive' = inactive
      BY <2>1 DEF storeVars
    <3>3. QED  BY <2>1, <2>2, <2>3, <3>1, <3>2, Reconnects
  <2>5. TasksTyped' /\ SetsTyped' /\ AppTyped'
    BY <1>1, <1>2, <2>1, <2>4 DEF TasksTyped, SetsTyped, AppTyped, regVars,
       storeVars, pastVars, appVars
  <2>6. StoreTyped' /\ StoreShowsState'
    BY <1>1, <2>1, <2>4, Shows DEF StoreTyped, regVars
  <2>7. /\ MissedIsOrphan' /\ Untouched' /\ OwnPaths' /\ OutIsOrphan'
        /\ HeardInTime' /\ DroppedIsOrphan'
    BY <1>2, <2>1, <2>4, Frame DEF regVars, pastVars, appVars
  <2>8. BootIsQuiet'
    <3>1. Quiet => s \in early'
      BY <2>1 DEF ConnectionIInv, BootIsQuiet, Quiet
    <3>2. /\ early \subseteq early' /\ early' \subseteq early \cup present
          /\ UNCHANGED <<booting, initialized, present, orphans, heard, loops,
                         checking>>
          /\ \E H : ShownTo(H)
      BY <2>1 DEF regVars, appVars, Shown
    <3>3. QED  BY <2>4, <3>1, <3>2, QuietKeeps DEF ConnectionIInv
  <2>9. QED  BY <2>4, <2>5, <2>6, <2>7, <2>8 DEF ConnectionIInv, Typed
<1>4. CASE addServer(s)
  <2>1. /\ auth /\ initialized /\ s \notin Known /\ net[s] = Fresh
        /\ present' = present \cup {s}
        /\ task' = [task EXCEPT ![s]["add"] = "auth"]
        /\ UNCHANGED <<net, token, by, loops, checking, heard, orphans, storeVars,
                       seen, pastVars, appVars, why, leaked>>
    BY <1>4 DEF addServer
  <2>2. /\ task'[s]["add"] = "auth" /\ task'[s]["boot"] = task[s]["boot"]
        /\ \A r \in Servers \ {s} : task'[r] = task[r]
    BY <1>1, <2>1 DEF TasksTyped, Paths
  <2>3. TasksTyped' /\ SetsTyped' /\ StoreTyped' /\ AppTyped' /\ NetTyped'
    BY <1>1, <1>2, <2>1 DEF TasksTyped, Paths, Steps, SetsTyped, StoreTyped,
       AppTyped, NetTyped, storeVars, pastVars, appVars
  <2>4. StateIsTrue' /\ StoreShowsState'
    BY <1>1, <2>1 DEF StateIsTrue, StoreShowsState, Live, Known, storeVars,
       pastVars
  <2>5. ~NotLoaded /\ ~NotLoaded' /\ booting = "no" /\ ~out /\ BootIsQuiet'
    BY <1>1, <2>1, Booted DEF NotLoaded, pastVars, appVars, ConnectionIInv,
       OutIsOrphan, AppTyped, BootIsQuiet, Quiet, Unheard, MayMove
  <2>6. Untouched' /\ OutIsOrphan' /\ OwnPaths' /\ HeardInTime'
    BY <1>1, <2>1, <2>2, <2>5 DEF ConnectionIInv, Untouched, OutIsOrphan,
       OwnPaths, HeardInTime, Known, pastVars, appVars, SetsTyped
  <2>7. DroppedIsOrphan'
    <3>1. \A r \in Servers \ present' : Busy(r)' => Busy(r)
      BY <2>1, <2>2 DEF Busy
    <3>2. QED  BY <2>1, <2>5, <3>1 DEF ConnectionIInv, DroppedIsOrphan, Live,
               Rowless
  <2>8. MissedIsOrphan'
    BY <1>2, <2>1 DEF ConnectionIInv, MissedIsOrphan, Known, pastVars
  <2>9. QED  BY <2>3, <2>4, <2>5, <2>6, <2>7, <2>8 DEF ConnectionIInv, Typed
<1>5. CASE userLogout
  <2>1. logout(net) /\ UNCHANGED <<task, by, inactive>>
    BY <1>5 DEF userLogout
  <2>2. QED  BY <1>2, <2>1, LogoutKeeps
<1>6. QED  BY <1>3, <1>4, <1>5

(* removeServer and a server whose adding fails: s goes, and what was in   *)
(* flight for it makes it an orphan.                                       *)
LEMMA RemovedKeeps ==
    ASSUME ConnectionIInv, NEW s \in Servers \ {Default}, removed(s),
           auth' = auth, booting' = booting, initialized' = initialized, ~NotLoaded,
           pastVars' = pastVars, loops' = loops, checking' = checking,
           Quiet => task' = task,
           orphans \subseteq orphans', orphans' \subseteq Servers,
           TasksTyped', AppTyped',
           \A r \in Servers \ {s} : task'[r] = task[r],
           task'[s]["boot"] = task[s]["boot"],
           s \in Known => task'[s]["add"] = task[s]["add"],
           Busy(s)' => s \in orphans',
           why' \in [Servers -> Reasons], leaked' = leaked, missed' = missed
    PROVE  ConnectionIInv'
<1>1. NetTyped /\ SetsTyped /\ StoreTyped /\ StateIsTrue /\ StoreShowsState
  BY DEF ConnectionIInv, Typed
<1>2. /\ net' = IF s \in present THEN [net EXCEPT ![s] = disconnect(@)] ELSE net
      /\ token' = token \ {s} /\ present' = present \ {s} /\ heard' = heard \ {s}
      /\ banned' = banned \ {s} /\ inactive' = inactive \ {s}
      /\ seen' = [seen EXCEPT ![s] = "CLOSED"]
  BY DEF removed, removeFromStore, setBanned, setPrimaryInactive,
     clearAllServiceHandlers
<1> DEFINE m == IF s \in present THEN disconnect(net[s]) ELSE net[s]
<1>3. net' = [net EXCEPT ![s] = m]
  BY <1>1, <1>2 DEF NetTyped
<1>4. /\ m \in Net /\ Live(m) \subseteq Live(net[s])
      /\ s \notin leaked => /\ Right(m)
                            /\ m.state = "CONNECTED" => s \notin inactive'
      /\ Live(m) # {} => s \in orphans \cup leaked
  <2>1. net[s] \in Net
    BY <1>1 DEF NetTyped
  <2>2. s \notin leaked =>
           Right(net[s]) /\ (net[s].state = "CONNECTED" => s \notin inactive)
    BY <1>1, RightParts
  <2>3. CASE s \in present
    BY <1>2, <2>1, <2>2, <2>3, Disconnected DEF Right
  <2>4. CASE s \notin present
    BY <1>2, <2>1, <2>2, <2>4 DEF ConnectionIInv, DroppedIsOrphan
  <2>5. QED  BY <2>3, <2>4
<1> HIDE DEF m
<1>5. /\ NetTyped' /\ StateIsTrue' /\ net'[s] = m
      /\ \A r \in Servers \ {s} : net'[r] = net[r]
  <2>1. \A r \in Servers \ {s} : r \in inactive' <=> r \in inactive
    BY <1>2
  <2>2. QED  BY <1>1, <1>3, <1>4, <2>1, OneService
<1>6. StoreTyped' /\ SetsTyped'
  BY <1>1, <1>2 DEF StoreTyped, SetsTyped, States, pastVars
<1>7. StoreShowsState'
  <2>1. \A r \in heard' \cap Known : seen'[r] = seen[r] /\ net'[r] = net[r]
    BY <1>1, <1>2, <1>5 DEF StoreTyped, SetsTyped
  <2>2. QED  BY <1>1, <1>2, <2>1 DEF StoreShowsState, Known, pastVars
<1>8. Untouched' /\ OutIsOrphan' /\ HeardInTime' /\ OwnPaths' /\ MissedIsOrphan'
  BY <1>1, <1>2 DEF ConnectionIInv, Untouched, NotLoaded, OutIsOrphan,
     HeardInTime, OwnPaths, MissedIsOrphan, Known, SetsTyped, Loading, pastVars
<1>9. DroppedIsOrphan'
  <2>1. ASSUME NEW r \in Servers \ present', r # s
        PROVE  /\ Busy(r)' => r \in orphans'
               /\ Live(net'[r]) # {} => r \in orphans' \cup leaked'
               /\ r \in token' => r \in orphans' \cup leaked' \/ Rowless(r)'
    <3>1. r \notin present /\ net'[r] = net[r] /\ task'[r] = task[r]
      BY <1>2, <1>5, <2>1
    <3>2. Busy(r)' => Busy(r)
      BY <3>1 DEF Busy
    <3>3. QED  BY <1>2, <3>1, <3>2 DEF ConnectionIInv, DroppedIsOrphan, Rowless
  <2>2. /\ Live(net'[s]) # {} => s \in orphans' \cup leaked'
        /\ s \notin token'
    BY <1>2, <1>4, <1>5
  <2>3. QED  BY <2>1, <2>2 DEF DroppedIsOrphan
<1>10. BootIsQuiet'
  <2>1. ASSUME Quiet, NEW r \in Servers \ early
        PROVE  net'[r] = Fresh /\ task'[r] = Idle /\ seen'[r] = "CLOSED"
    <3>1. net[r] = Fresh /\ task'[r] = Idle /\ seen[r] = "CLOSED"
      BY <2>1 DEF ConnectionIInv, BootIsQuiet
    <3>2. seen'[r] = "CLOSED"
      BY <1>1, <1>2, <3>1 DEF StoreTyped
    <3>3. net'[r] = Fresh
      BY <1>1, <1>2, <3>1, FreshRests DEF NetTyped
    <3>4. QED  BY <3>1, <3>2, <3>3
  <2>2. (Quiet' <=> Quiet) /\ early' = early
    BY DEF Quiet, pastVars
  <2>3. QED  BY <1>2, <2>1, <2>2 DEF ConnectionIInv, BootIsQuiet, MayMove,
         Known,
             Idle, Idling, Fresh
<1>11. QED  BY <1>5, <1>6, <1>7, <1>8, <1>9, <1>10 DEF ConnectionIInv, Typed

LEMMA RemoveServerKeeps ==
    ASSUME ConnectionIInv, NEW s \in Servers, removeServer(s)
    PROVE  ConnectionIInv'
<1>1. Typed /\ AppTyped /\ TasksTyped /\ SetsTyped /\ StoreTyped
  BY DEF ConnectionIInv, Typed
<1>2. /\ bio /\ s \in present \ {Default} /\ Act /\ removed(s)
      /\ orphans' = orphans \cup {r \in {s} : Busy(r)}
      /\ UNCHANGED <<taskVars, pastVars, appVars, why, leaked>>
  BY DEF removeServer
<1>3. acts' \in 0..MaxActs /\ faults' \in 0..MaxFaults /\ missed' = missed
  BY <1>1, <1>2, ActTyped
<1>4. ~NotLoaded
  BY <1>2 DEF ConnectionIInv, Untouched
<1>5. Busy(s)' => s \in orphans'
  BY <1>2 DEF Busy, taskVars
<1>6. TasksTyped' /\ AppTyped' /\ orphans' \subseteq Servers
  BY <1>1, <1>2, <1>3 DEF TasksTyped, AppTyped, SetsTyped, taskVars, pastVars,
         appVars
<1>7. QED  BY <1>1, <1>2, <1>3, <1>4, <1>5, <1>6, RemovedKeeps
           DEF taskVars, pastVars, appVars, StoreTyped

LEMMA LoopKeeps ==
    ASSUME ConnectionIInv, NEW i \in Loops, NEW s \in Servers, loopStep(i, s)
    PROVE  ConnectionIInv'
<1>1. Typed /\ NetTyped /\ AppTyped /\ TasksTyped /\ SetsTyped /\ StoreTyped
      /\ StateIsTrue /\ StoreShowsState
  BY DEF ConnectionIInv, Typed
<1>2. /\ s \in loops[i] /\ loops' = [loops EXCEPT ![i] = @ \ {s}] /\ Shown
      /\ UNCHANGED <<token, checking, regVars, storeVars, pastVars, appVars, faults, acts,
                     missed>>
  BY DEF loopStep
<1>3. ~NotLoaded /\ ~Quiet /\ loops' \in [Loops -> SUBSET Servers]
  BY <1>1, <1>2
     DEF ConnectionIInv, Untouched, BootIsQuiet, Idling, TasksTyped
<1>4. /\ NetTyped' /\ StateIsTrue'
      /\ task' \in [Servers -> [Paths -> Steps]]
      /\ by' \in [Servers -> Loops \cup {0}]
      /\ why' \in [Servers -> Reasons]
      /\ leaked \subseteq leaked' /\ leaked' \subseteq Servers
      /\ \A r \in Servers \ present : Live(net'[r]) # {} => Live(net[r]) # {}
      /\ \A r \in Servers :
            /\ task'[r]["add"] = task[r]["add"]
            /\ task'[r]["boot"] # "idle" => task[r]["boot"] # "idle"
      /\ \A r \in Servers \ present, q \in Paths :
            task'[r][q] # "idle" => task[r][q] # "idle"
  <2>1. CASE UNCHANGED <<net, task, by, why, leaked>>
    <3>1. NetTyped' /\ StateIsTrue'
      BY <1>1, <1>2, <2>1 DEF NetTyped, StateIsTrue, Live, storeVars
    <3>2. QED  BY <1>1, <2>1, <3>1 DEF TasksTyped, SetsTyped, StoreTyped
  <2>2. CASE s \in present /\ connect({s}, token, banned) /\ UNCHANGED <<task, by>>
    <3>1. /\ NetTyped' /\ StateIsTrue'
          /\ leaked \subseteq leaked' /\ leaked' \subseteq Servers
          /\ why' \in [Servers -> Reasons]
          /\ \A r \in Servers \ {s} : net'[r] = net[r]
      BY <1>1, <1>2, <2>2, Connects DEF SetsTyped, StoreTyped, storeVars
    <3>2. QED  BY <1>1, <2>2, <3>1 DEF TasksTyped
  <2>3. CASE s \in present /\ reconnectServer(s, i, net) /\ UNCHANGED <<why, leaked>>
    <3>1. net = [net EXCEPT ![s] = net[s]] /\ net[s] \in Net
      BY <1>1 DEF NetTyped
    <3>2. s \notin leaked =>
             Right(net[s]) /\ (net[s].state = "CONNECTED" => s \notin inactive)
      BY <1>1, RightParts
    <3>3. /\ NetTyped' /\ StateIsTrue'
          /\ task' \in [Servers -> [Paths -> Steps]]
          /\ by' \in [Servers -> Loops \cup {0}]
          /\ \A r \in Servers : Live(net'[r]) # {} => Live(net[r]) # {}
          /\ \A r \in Servers :
                /\ task'[r]["add"] = task[r]["add"]
                /\ task'[r]["boot"] # "idle" => task[r]["boot"] # "idle"
          /\ \A r \in Servers \ present, q \in Paths :
                task'[r][q] # "idle" => task[r][q] # "idle"
      <4>1. reconnectServer(s, i, [net EXCEPT ![s] = net[s]])
        BY <2>3, <3>1
      <4>2. i \in Loops \cup {0} /\ leaked' = leaked /\ inactive' = inactive
        BY <1>2, <2>3 DEF storeVars
      <4>3. QED  BY <2>3, <3>1, <3>2, <4>1, <4>2, Reconnects
    <3>4. QED  BY <1>1, <2>3, <3>3 DEF SetsTyped, StoreTyped
  <2>4. QED  BY <2>1, <2>2, <2>3 DEF loopStep
<1>5. TasksTyped' /\ SetsTyped' /\ AppTyped'
  BY <1>1, <1>2, <1>3, <1>4 DEF TasksTyped, SetsTyped, AppTyped, regVars,
     storeVars, pastVars, appVars
<1>6. StoreTyped' /\ StoreShowsState'
  BY <1>1, <1>2, <1>4, Shows DEF StoreTyped, regVars, pastVars
<1>7. /\ MissedIsOrphan' /\ Untouched' /\ OwnPaths' /\ OutIsOrphan'
      /\ HeardInTime' /\ DroppedIsOrphan'
  BY <1>2, <1>3, <1>4, Frame DEF regVars, pastVars, appVars
<1>8. BootIsQuiet'
  BY <1>2, <1>3, HeardKeeps DEF ConnectionIInv, regVars, appVars
<1>9. QED  BY <1>4, <1>5, <1>6, <1>7, <1>8 DEF ConnectionIInv, Typed

-----------------------------------------------------------------------------
(* The steps of an authentication: what they leave of the invariant when   *)
(* no server comes or goes.                                                *)
LEMMA TaskFrame ==
    ASSUME ConnectionIInv, ~NotLoaded,
           UNCHANGED <<present, auth, booting, initialized, missed, out>>,
           early \subseteq early',
           \A r \in Servers :
              /\ task'[r]["add"] # "idle" => task[r]["add"] # "idle"
              /\ task'[r]["boot"] # "idle" => task[r]["boot"] # "idle",
           \A r \in present \ heard' :
              /\ r \notin heard
              /\ task'[r]["add"] # "idle" \/ booting \in Unheard,
           \A r \in Servers \ present, q \in Paths :
              task'[r][q] # "idle" => task[r][q] # "idle",
           \A r \in Servers \ present :
              /\ r \in token' => r \in token \cup orphans
              /\ Live(net'[r]) # {} => Live(net[r]) # {} \/ r \in orphans,
           orphans \subseteq orphans', leaked \subseteq leaked'
    PROVE  /\ MissedIsOrphan' /\ Untouched' /\ OwnPaths' /\ OutIsOrphan'
           /\ HeardInTime' /\ DroppedIsOrphan'
<1>1. MissedIsOrphan'
  BY DEF ConnectionIInv, MissedIsOrphan, Known
<1>2. Untouched' /\ ~NotLoaded'
  BY DEF Untouched, NotLoaded
<1>3. OwnPaths'
  BY DEF ConnectionIInv, OwnPaths, Known
<1>4. OutIsOrphan' /\ HeardInTime'
  BY DEF ConnectionIInv, OutIsOrphan, HeardInTime, Loading, Known
<1>5. DroppedIsOrphan'
  <2>1. \A r \in Servers \ present : Busy(r)' => Busy(r)
    BY DEF Busy
  <2>2. QED  BY <2>1 DEF ConnectionIInv, DroppedIsOrphan, Rowless
<1>6. QED  BY <1>1, <1>2, <1>3, <1>4, <1>5

LEMMA TaskStarted ==
    ASSUME ConnectionIInv, NEW s \in Servers, NEW p \in Paths,
           task[s][p] # "idle"
    PROVE  /\ ~NotLoaded /\ (s \notin present => s \in orphans)
           /\ p = "add" => s \notin Known /\ ~Quiet
           /\ p = "boot" => s \in Known
           /\ Quiet => s \in early
<1>1. ~NotLoaded
  BY DEF ConnectionIInv, Untouched, Idle
<1>2. Busy(s)
  BY DEF Busy
<1>3. Quiet => s \in early /\ s \in Known
  BY DEF ConnectionIInv, BootIsQuiet, Idle
<1>4. QED  BY <1>1, <1>2, <1>3 DEF ConnectionIInv, DroppedIsOrphan, OwnPaths

LEMMA EndedTask ==
    ASSUME TasksTyped, NEW s \in Servers, NEW p \in Paths, Ended(s, p)
    PROVE  /\ task' \in [Servers -> [Paths -> Steps]]
           /\ by' \in [Servers -> Loops \cup {0}]
           /\ task'[s][p] = "idle"
           /\ \A r \in Servers, q \in Paths :
                 r # s \/ q # p => task'[r][q] = task[r][q]
           /\ \A r \in Servers \ {s} : task'[r] = task[r]
BY DEF TasksTyped, Ended, Steps

(* A service is stopped, or none is.                                       *)
LEMMA Stops ==
    ASSUME NetTyped, StateIsTrue, NEW s \in Servers,
           net' = net \/ net' = [net EXCEPT ![s] = disconnect(@)],
           leaked' = leaked, inactive' = inactive
    PROVE  /\ NetTyped' /\ StateIsTrue'
           /\ \A r \in Servers : Live(net'[r]) # {} => Live(net[r]) # {}
           /\ \A r \in Servers \ {s} : net'[r] = net[r]
<1>1. net[s] \in Net
  BY DEF NetTyped
<1>2. s \notin leaked =>
         Right(net[s]) /\ (net[s].state = "CONNECTED" => s \notin inactive)
  BY RightParts
<1>3. CASE net' = net
  BY <1>3 DEF NetTyped, StateIsTrue, Live
<1>4. CASE net' = [net EXCEPT ![s] = disconnect(@)]
  <2> DEFINE m == disconnect(net[s])
  <2>1. net' = [net EXCEPT ![s] = m]
    BY <1>4 DEF NetTyped
  <2>2. /\ m \in Net /\ m.state = "CLOSED" /\ Live(m) \subseteq Live(net[s])
        /\ s \notin leaked => Right(m)
    BY <1>1, <1>2, Disconnected DEF Right
  <2> HIDE DEF m
  <2>3. /\ NetTyped' /\ StateIsTrue' /\ net'[s] = m
        /\ \A r \in Servers \ {s} : net'[r] = net[r]
    BY <2>1, <2>2, OneService
  <2>4. QED  BY <2>2, <2>3
<1>5. QED  BY <1>3, <1>4

LEMMA CheckKeeps ==
    ASSUME ConnectionIInv, NEW s \in Servers, checkServer(s)
    PROVE  ConnectionIInv'
<1>1. Typed /\ NetTyped /\ AppTyped /\ TasksTyped /\ SetsTyped /\ StoreTyped
      /\ StateIsTrue /\ StoreShowsState
  BY DEF ConnectionIInv, Typed
<1>2. /\ s \in checking /\ checking' = checking \ {s} /\ Shown
      /\ UNCHANGED <<task, by, loops, regVars, inactive, pastVars, appVars, leaked, acts,
                     missed>>
  BY DEF checkServer
<1>3. /\ net' = net \/ net' = [net EXCEPT ![s] = disconnect(@)]
      /\ token' \subseteq token
      /\ banned' \subseteq banned \cup {s}
      /\ why' = why \/ why' = [why EXCEPT ![s] = "banned"]
      /\ faults' = faults \/ Fault
  BY DEF checkServer, setBanned
<1>4. ~NotLoaded /\ ~Quiet
  BY <1>2 DEF ConnectionIInv, Untouched, BootIsQuiet
<1>5. /\ NetTyped' /\ StateIsTrue'
      /\ \A r \in Servers : Live(net'[r]) # {} => Live(net[r]) # {}
  BY <1>1, <1>2, <1>3, Stops
<1>6. faults' \in 0..MaxFaults
  BY <1>1, <1>3, ConnectionAssumption DEF Fault, ConnectionAssumption, AppTyped
<1>7. TasksTyped' /\ SetsTyped' /\ AppTyped' /\ why' \in [Servers -> Reasons]
  BY <1>1, <1>2, <1>3, <1>6 DEF TasksTyped, SetsTyped, AppTyped, StoreTyped,
     Reasons, regVars, pastVars, appVars
<1>8. StoreTyped' /\ StoreShowsState'
  BY <1>1, <1>2, <1>5, <1>7, Shows DEF StoreTyped, regVars, pastVars
<1>9. /\ MissedIsOrphan' /\ Untouched' /\ OwnPaths' /\ OutIsOrphan'
      /\ HeardInTime' /\ DroppedIsOrphan'
  BY <1>2, <1>3, <1>4, <1>5, Frame DEF regVars, pastVars, appVars
<1>10. BootIsQuiet'
  BY <1>2, <1>4, HeardKeeps DEF ConnectionIInv, regVars, appVars
<1>11. QED  BY <1>5, <1>7, <1>8, <1>9, <1>10 DEF ConnectionIInv, Typed

LEMMA AuthOkKeeps ==
    ASSUME ConnectionIInv, NEW s \in Servers, NEW p \in Paths, authOk(s, p)
    PROVE  ConnectionIInv'
<1>1. Typed /\ NetTyped /\ AppTyped /\ TasksTyped /\ SetsTyped /\ StoreTyped
      /\ StateIsTrue /\ StoreShowsState
  BY DEF ConnectionIInv, Typed
<1>2. /\ task[s][p] = "auth" /\ token' = token \cup {s}
      /\ banned' = banned \/ banned' = banned \cup {s}
      /\ faults' = faults \/ Fault
      /\ task' = [task EXCEPT ![s][p] = IF p = "boot" THEN "idle" ELSE "keys"]
      /\ Shown
      /\ UNCHANGED <<by, loops, checking, regVars, inactive, pastVars, appVars, acts,
                     missed>>
  BY DEF authOk, setBanned
<1>3. ~NotLoaded /\ (s \notin present => s \in orphans) /\ (Quiet => s \in early)
  BY <1>2, TaskStarted
<1>4. /\ NetTyped' /\ StateIsTrue' /\ why' \in [Servers -> Reasons]
      /\ leaked \subseteq leaked' /\ leaked' \subseteq Servers
      /\ \A r \in Servers \ {s} : net'[r] = net[r]
  <2>1. \/ connect({s}, token \cup {s}, banned)
        \/ /\ why' = [why EXCEPT ![s] = "banned"] \/ why' = why
           /\ UNCHANGED <<net, leaked>>
    BY <1>1, <1>2 DEF authOk, SetsTyped
  <2>2. CASE connect({s}, token \cup {s}, banned)
    <3>1. /\ NetTyped /\ StateIsTrue /\ leaked \subseteq Servers
          /\ why \in [Servers -> Reasons] /\ inactive' = inactive
      BY <1>1, <1>2 DEF SetsTyped, StoreTyped
    <3>2. QED  BY <2>2, <3>1, Connects
  <2>3. CASE /\ why' = [why EXCEPT ![s] = "banned"] \/ why' = why
             /\ UNCHANGED <<net, leaked>>
    <3>1. NetTyped' /\ StateIsTrue'
      BY <1>1, <1>2, <2>3 DEF NetTyped, StateIsTrue, Live
    <3>2. QED  BY <1>1, <2>3, <3>1 DEF StoreTyped, SetsTyped, Reasons
  <2>4. QED  BY <2>1, <2>2, <2>3
<1>5. faults' \in 0..MaxFaults
  BY <1>1, <1>2, ConnectionAssumption DEF Fault, ConnectionAssumption, AppTyped
<1>6. /\ task' \in [Servers -> [Paths -> Steps]]
      /\ \A r \in Servers, q \in Paths : task'[r][q] # "idle" => task[r][q] # "idle"
      /\ \A r \in Servers : task'[r]["add"] # "idle" <=> task[r]["add"] # "idle"
  BY <1>1, <1>2 DEF TasksTyped, Steps, Paths
<1>7. TasksTyped' /\ SetsTyped' /\ AppTyped'
  BY <1>1, <1>2, <1>4, <1>5, <1>6 DEF TasksTyped, SetsTyped, AppTyped, regVars,
     pastVars, appVars
<1>8. StoreTyped' /\ StoreShowsState'
  BY <1>1, <1>2, <1>4, Shows DEF StoreTyped, regVars, pastVars
<1>9. /\ MissedIsOrphan' /\ Untouched' /\ OwnPaths' /\ OutIsOrphan'
      /\ HeardInTime' /\ DroppedIsOrphan'
  <2>1. \A r \in present \ heard' :
           r \notin heard /\ (task'[r]["add"] # "idle" \/ booting \in Unheard)
    BY <1>1, <1>2, <1>6 DEF ConnectionIInv, HeardInTime, SetsTyped, regVars
  <2>2. \A r \in Servers : task'[r]["boot"] # "idle" => task[r]["boot"] # "idle"
    BY <1>6 DEF Paths
  <2>3. QED  BY <1>2, <1>3, <1>4, <1>6, <2>1, <2>2, TaskFrame DEF regVars,
         pastVars, appVars
<1>10. BootIsQuiet'
  <2>1. /\ \A r \in Servers \ {s} : task'[r] = task[r]
        /\ UNCHANGED <<booting, initialized, present, orphans, heard, loops,
                       checking, early>>
        /\ \E H : ShownTo(H)
    BY <1>1, <1>2 DEF TasksTyped, regVars, pastVars, appVars, Shown
  <2>2. QED  BY <1>3, <1>4, <2>1, QuietKeeps DEF ConnectionIInv
<1>11. QED  BY <1>4, <1>7, <1>8, <1>9, <1>10 DEF ConnectionIInv, Typed

LEMMA AuthFailKeeps ==
    ASSUME ConnectionIInv, NEW s \in Servers, NEW p \in Paths, authFail(s, p)
    PROVE  ConnectionIInv'
<1>1. Typed /\ NetTyped /\ AppTyped /\ TasksTyped /\ SetsTyped /\ StoreTyped
      /\ StateIsTrue /\ StoreShowsState
  BY DEF ConnectionIInv, Typed
<1>2. /\ task[s][p] = "auth" /\ Fault /\ Ended(s, p)
      /\ why' = [why EXCEPT ![s] = "noAuth"]
      /\ UNCHANGED <<loops, checking, pastVars, appVars, leaked, acts, missed>>
  BY DEF authFail
<1>3. /\ ~NotLoaded /\ (p = "add" => s \notin Known /\ ~Quiet)
      /\ Quiet => s \in early
  BY <1>2, TaskStarted
<1>4. why' \in [Servers -> Reasons]
  BY <1>1, <1>2 DEF StoreTyped, Reasons
<1>5. AppTyped'
  BY <1>1, <1>2, ConnectionAssumption
     DEF Fault, ConnectionAssumption, AppTyped, pastVars, appVars
<1>6. /\ TasksTyped' /\ task'[s][p] = "idle"
      /\ \A r \in Servers, q \in Paths :
            r # s \/ q # p => task'[r][q] = task[r][q]
      /\ \A r \in Servers \ {s} : task'[r] = task[r]
  BY <1>1, <1>2, EndedTask DEF TasksTyped
<1>7. CASE p = "add"
  <2>1. removed(s) /\ orphans' = orphans \cup {r \in {s} : task[s]["reauth"] # "idle"}
    BY <1>7 DEF authFail
  <2>2. task[s]["boot"] = "idle" /\ s # Default
    BY <1>3, <1>7 DEF ConnectionIInv, OwnPaths, Known
  <2>3. /\ task'[s]["add"] = "idle" /\ task'[s]["boot"] = task[s]["boot"]
        /\ task'[s]["reauth"] = task[s]["reauth"]
    BY <1>6, <1>7 DEF Paths
  <2>4. Busy(s)' => s \in orphans'
    BY <2>1, <2>2, <2>3 DEF Busy, Paths
  <2>5. orphans \subseteq orphans' /\ orphans' \subseteq Servers
    BY <1>1, <2>1 DEF SetsTyped
  <2>6. QED  BY <1>2, <1>3, <1>4, <1>5, <1>6, <1>7, <2>1, <2>2, <2>3, <2>4,
         <2>5,
                RemovedKeeps DEF appVars
<1>8. CASE p # "add"
  <2>1. /\ token' \subseteq token /\ banned' \subseteq banned \cup {s}
        /\ UNCHANGED <<net, regVars, inactive, seen>>
    BY <1>8 DEF authFail
  <2>2. NetTyped' /\ StateIsTrue' /\ StoreShowsState'
    BY <1>1, <1>2, <2>1 DEF NetTyped, StateIsTrue, StoreShowsState, Live,
           Known,
       regVars, pastVars
  <2>3. SetsTyped' /\ StoreTyped'
    BY <1>1, <1>2, <1>4, <2>1 DEF SetsTyped, StoreTyped, regVars, pastVars
  <2>4. /\ \A r \in Servers : /\ task'[r]["add"] = task[r]["add"]
                              /\ task'[r]["boot"] # "idle" => task[r]["boot"] # "idle"
        /\ \A r \in Servers, q \in Paths :
              task'[r][q] # "idle" => task[r][q] # "idle"
    BY <1>2, <1>6, <1>8 DEF Paths
  <2>5. /\ MissedIsOrphan' /\ Untouched' /\ OwnPaths' /\ OutIsOrphan'
        /\ HeardInTime' /\ DroppedIsOrphan'
    BY <1>2, <1>3, <2>1, <2>4, Frame DEF regVars, pastVars, appVars
  <2>6. BootIsQuiet'
    <3>1. UNCHANGED <<booting, initialized, present, orphans, heard, loops,
                      checking, early, net, seen>>
      BY <1>2, <2>1 DEF regVars, pastVars, appVars
    <3>2. QED  BY <1>3, <1>6, <3>1, QuietKeeps DEF ConnectionIInv
  <2>7. QED  BY <1>5, <1>6, <2>2, <2>3, <2>5, <2>6 DEF ConnectionIInv, Typed
<1>9. QED  BY <1>7, <1>8

LEMMA KeysDoneKeeps ==
    ASSUME ConnectionIInv, NEW s \in Servers, NEW p \in Paths, keysDone(s, p)
    PROVE  ConnectionIInv'
<1>1. Typed /\ NetTyped /\ AppTyped /\ TasksTyped /\ SetsTyped /\ StoreTyped
      /\ StateIsTrue /\ StoreShowsState
  BY DEF ConnectionIInv, Typed
<1>2. /\ task[s][p] = "keys" /\ s \in present
      /\ Ended(s, p) /\ heard' = serverAdded(s, p)
      /\ connect({s}, token, banned) /\ ShownTo(heard')
      /\ UNCHANGED <<token, loops, checking, present, orphans, storeVars, pastVars, appVars,
                     faults, acts, missed>>
  BY DEF keysDone
<1>3. /\ ~NotLoaded /\ (p = "add" => s \notin Known /\ ~Quiet)
      /\ Quiet => s \in early
  BY <1>2, TaskStarted
<1>4. /\ NetTyped' /\ StateIsTrue' /\ why' \in [Servers -> Reasons]
      /\ leaked \subseteq leaked' /\ leaked' \subseteq Servers
      /\ \A r \in Servers \ {s} : net'[r] = net[r]
  <2>1. leaked \subseteq Servers /\ why \in [Servers -> Reasons]
        /\ inactive' = inactive
    BY <1>1, <1>2 DEF SetsTyped, StoreTyped, storeVars
  <2>2. QED  BY <1>1, <1>2, <2>1, Connects
<1>5. /\ task' \in [Servers -> [Paths -> Steps]]
      /\ by' \in [Servers -> Loops \cup {0}]
      /\ task'[s][p] = "idle"
      /\ \A r \in Servers, q \in Paths :
            r # s \/ q # p => task'[r][q] = task[r][q]
      /\ \A r \in Servers \ {s} : task'[r] = task[r]
  BY <1>1, <1>2, EndedTask
<1>6. heard' = IF p = "add" THEN heard \cup {s} ELSE heard
  BY <1>2 DEF serverAdded, subscribe
<1>7. /\ heard \subseteq heard' /\ heard' \subseteq present'
      /\ heard' \cap Known = heard \cap Known
  BY <1>1, <1>2, <1>3, <1>6 DEF SetsTyped
<1>8. TasksTyped' /\ SetsTyped' /\ AppTyped'
  BY <1>1, <1>2, <1>4, <1>5, <1>7 DEF TasksTyped, SetsTyped, AppTyped,
         storeVars,
     pastVars, appVars
<1>9. StoreTyped' /\ StoreShowsState'
  <2>1. \A r \in (heard' \cap Known) \ early : seen[r] = net[r].state
    BY <1>1, <1>7 DEF StoreShowsState
  <2>2. heard' \subseteq Servers /\ early \subseteq early'
    BY <1>2, <1>8 DEF SetsTyped, pastVars
  <2>3. QED  BY <1>1, <1>2, <1>4, <2>1, <2>2, ShowsTo DEF StoreTyped
<1>10. /\ MissedIsOrphan' /\ Untouched' /\ OwnPaths' /\ OutIsOrphan'
       /\ HeardInTime' /\ DroppedIsOrphan'
  <2>1. /\ \A r \in Servers, q \in Paths :
              task'[r][q] # "idle" => task[r][q] # "idle"
        /\ \A r \in Servers :
              /\ task'[r]["add"] # "idle" => task[r]["add"] # "idle"
              /\ task'[r]["boot"] # "idle" => task[r]["boot"] # "idle"
    BY <1>5 DEF Paths
  <2>2. \A r \in present \ heard' :
           r \notin heard /\ (task'[r]["add"] # "idle" \/ booting \in Unheard)
    <3>1. ASSUME NEW r \in present \ heard', booting \notin Unheard
          PROVE  r \notin heard /\ task'[r]["add"] # "idle"
      <4>1. r \in Servers /\ r \notin heard /\ task[r]["add"] # "idle"
        BY <1>1, <1>7, <3>1 DEF SetsTyped, ConnectionIInv, HeardInTime
      <4>2. r # s \/ "add" # p
        BY <1>6, <3>1
      <4>3. QED  BY <1>5, <4>1, <4>2 DEF Paths
    <3>2. QED  BY <1>7, <3>1
  <2>3. QED  BY <1>2, <1>3, <1>4, <2>1, <2>2, TaskFrame DEF pastVars, appVars
<1>11. BootIsQuiet'
  <2>1. /\ UNCHANGED <<booting, initialized, present, orphans, loops, checking,
                       early>>
        /\ Quiet => heard' = heard
        /\ seen' = seen \/ \E H : ShownTo(H)
    BY <1>2, <1>3, <1>6 DEF pastVars, appVars
  <2>2. QED  BY <1>2, <1>3, <1>4, <1>5, <2>1, QuietKeeps DEF ConnectionIInv
<1>12. QED  BY <1>4, <1>8, <1>9, <1>10, <1>11 DEF ConnectionIInv, Typed

LEMMA KeysDroppedKeeps ==
    ASSUME ConnectionIInv, NEW s \in Servers, NEW p \in Paths, keysDropped(s, p)
    PROVE  ConnectionIInv'
<1>1. Typed /\ NetTyped /\ AppTyped /\ TasksTyped /\ SetsTyped /\ StoreTyped
      /\ StateIsTrue /\ StoreShowsState
  BY DEF ConnectionIInv, Typed
<1>2. /\ task[s][p] = "keys" /\ s \notin present /\ Ended(s, p)
      /\ UNCHANGED <<token, loops, checking, regVars, storeVars, seen, pastVars, appVars,
                     faults, acts, missed>>
  BY DEF keysDropped
<1>3. ~NotLoaded /\ s \in orphans /\ (Quiet => s \in early)
  BY <1>2, TaskStarted
<1>4. /\ NetTyped' /\ StateIsTrue' /\ why' \in [Servers -> Reasons]
      /\ leaked \subseteq leaked' /\ leaked' \subseteq Servers
      /\ \A r \in Servers \ {s} : net'[r] = net[r]
  <2>1. leaked \subseteq Servers /\ why \in [Servers -> Reasons]
        /\ inactive' = inactive
    BY <1>1, <1>2 DEF SetsTyped, StoreTyped, storeVars
  <2>2. CASE connect({s}, {s}, banned)
    BY <1>1, <2>1, <2>2, Connects
  <2>3. CASE UNCHANGED <<net, leaked, why>>
    BY <1>1, <2>1, <2>3 DEF NetTyped, StateIsTrue, Live
  <2>4. QED  BY <2>2, <2>3 DEF keysDropped
<1>5. /\ task' \in [Servers -> [Paths -> Steps]]
      /\ by' \in [Servers -> Loops \cup {0}]
      /\ task'[s][p] = "idle"
      /\ \A r \in Servers, q \in Paths :
            r # s \/ q # p => task'[r][q] = task[r][q]
      /\ \A r \in Servers \ {s} : task'[r] = task[r]
  BY <1>1, <1>2, EndedTask
<1>6. TasksTyped' /\ SetsTyped' /\ AppTyped' /\ StoreTyped'
  BY <1>1, <1>2, <1>4, <1>5 DEF TasksTyped, SetsTyped, AppTyped, StoreTyped,
     regVars, storeVars, pastVars, appVars
<1>7. StoreShowsState'
  <2>1. \A r \in heard : net'[r] = net[r]
    BY <1>1, <1>2, <1>4 DEF SetsTyped
  <2>2. QED  BY <1>1, <1>2, <2>1 DEF StoreShowsState, Known, regVars, pastVars
<1>8. /\ MissedIsOrphan' /\ Untouched' /\ OwnPaths' /\ OutIsOrphan'
      /\ HeardInTime' /\ DroppedIsOrphan'
  <2>1. /\ \A r \in Servers, q \in Paths :
              task'[r][q] # "idle" => task[r][q] # "idle"
        /\ \A r \in Servers :
              /\ task'[r]["add"] # "idle" => task[r]["add"] # "idle"
              /\ task'[r]["boot"] # "idle" => task[r]["boot"] # "idle"
    BY <1>5 DEF Paths
  <2>2. \A r \in present \ heard' :
           r \notin heard /\ (task'[r]["add"] # "idle" \/ booting \in Unheard)
    <3>1. ASSUME NEW r \in present \ heard', booting \notin Unheard
          PROVE  r \notin heard /\ task'[r]["add"] # "idle"
      <4>1. /\ r \in Servers /\ r # s /\ r \notin heard
            /\ task[r]["add"] # "idle"
        BY <1>1, <1>2, <3>1 DEF SetsTyped, ConnectionIInv, HeardInTime, regVars
      <4>2. QED  BY <1>5, <4>1 DEF Paths
    <3>2. QED  BY <1>2, <3>1 DEF regVars
  <2>3. QED  BY <1>2, <1>3, <1>4, <2>1, <2>2, TaskFrame DEF pastVars, appVars,
         regVars
<1>9. BootIsQuiet'
  <2>1. /\ UNCHANGED <<booting, initialized, present, orphans, loops, checking,
                       early>>
        /\ Quiet => heard' = heard
        /\ seen' = seen \/ \E H : ShownTo(H)
    BY <1>2 DEF regVars, pastVars, appVars
  <2>2. QED  BY <1>2, <1>3, <1>4, <1>5, <2>1, QuietKeeps DEF ConnectionIInv,
         regVars
<1>10. QED  BY <1>4, <1>6, <1>7, <1>8, <1>9 DEF ConnectionIInv, Typed

LEMMA KeysDeniedKeeps ==
    ASSUME ConnectionIInv, NEW s \in Servers, NEW p \in Paths, keysDenied(s, p)
    PROVE  ConnectionIInv'
<1>1. Typed /\ NetTyped /\ AppTyped /\ TasksTyped /\ SetsTyped /\ StoreTyped
      /\ StateIsTrue /\ StoreShowsState
  BY DEF ConnectionIInv, Typed
<1>2. /\ task[s][p] = "keys" /\ s \in present
      /\ faults' = faults \/ Fault
      /\ UNCHANGED <<inactive, acts, missed>>
  BY DEF keysDenied
<1>3. /\ ~NotLoaded /\ (p = "add" => s \notin Known /\ ~Quiet)
      /\ Quiet => s \in early
  BY <1>2, TaskStarted
<1>4. faults' \in 0..MaxFaults /\ acts' \in 0..MaxActs
  BY <1>1, <1>2, ConnectionAssumption DEF Fault, ConnectionAssumption, AppTyped
<1>5. ASSUME Ended(s, p)
      PROVE  /\ task' \in [Servers -> [Paths -> Steps]]
             /\ by' \in [Servers -> Loops \cup {0}]
             /\ task'[s][p] = "idle"
             /\ \A r \in Servers, q \in Paths :
                   r # s \/ q # p => task'[r][q] = task[r][q]
             /\ \A r \in Servers \ {s} : task'[r] = task[r]
  BY <1>1, <1>5, EndedTask
<1>6. CASE Ended(s, p) /\ logout(net)
  <2>1. \A r \in Servers, q \in Paths : task'[r][q] # "idle" => task[r][q] # "idle"
    BY <1>5, <1>6
  <2>2. net \in [Servers -> Net]
    BY <1>1 DEF NetTyped
  <2>3. \A r \in Servers \ leaked :
           Right(net[r]) /\ (net[r].state = "CONNECTED" => r \notin inactive)
    BY <1>1, RightParts
  <2>4. QED  BY <1>2, <1>4, <1>5, <1>6, <2>1, <2>2, <2>3, LoggedOut
(* In the other cases s stays, with handlers if it was being added.        *)
<1>7. ASSUME heard' = serverAdded(s, p)
      PROVE  /\ heard \subseteq heard' /\ heard' \subseteq present
             /\ \A r \in (heard' \cap Known) \ early : seen[r] = net[r].state
             /\ \A r \in present \ heard' :
                   /\ r \notin heard
                   /\ task[r]["add"] # "idle" \/ booting \in Unheard
                   /\ r # s \/ p # "add"
             /\ Quiet => heard' = heard
  <2>1. heard' = IF p = "add" THEN heard \cup {s} ELSE heard
    BY <1>7 DEF serverAdded, subscribe
  <2>2. heard \subseteq heard' /\ heard' \subseteq present
    BY <1>1, <1>2, <2>1 DEF SetsTyped
  <2>3. \A r \in (heard' \cap Known) \ early : seen[r] = net[r].state
    BY <1>1, <1>3, <2>1 DEF StoreShowsState
  <2>4. \A r \in present \ heard' :
           /\ r \notin heard
           /\ task[r]["add"] # "idle" \/ booting \in Unheard
           /\ r # s \/ p # "add"
    BY <2>1, <2>2 DEF ConnectionIInv, HeardInTime
  <2>5. QED  BY <1>3, <2>1, <2>2, <2>3, <2>4
<1>8. CASE /\ Ended(s, p) /\ heard' = serverAdded(s, p)
           /\ token' = token \ {s}
           /\ why' = [why EXCEPT ![s] = "noToken"]
           /\ UNCHANGED <<net, seen, loops, checking, present, orphans, banned,
                          pastVars, appVars, leaked>>
  <2>1. NetTyped' /\ StateIsTrue'
    BY <1>1, <1>2, <1>8 DEF NetTyped, StateIsTrue, Live
  <2>2. why' \in [Servers -> Reasons]
    BY <1>1, <1>8 DEF StoreTyped, Reasons
  <2>3. TasksTyped' /\ SetsTyped' /\ AppTyped' /\ StoreTyped'
    BY <1>1, <1>2, <1>4, <1>5, <1>7, <1>8, <2>2
       DEF TasksTyped, SetsTyped, AppTyped, StoreTyped, pastVars, appVars
  <2>4. StoreShowsState'
    BY <1>7, <1>8 DEF StoreShowsState, Known, pastVars
  <2>5. /\ \A r \in Servers, q \in Paths :
              task'[r][q] # "idle" => task[r][q] # "idle"
        /\ \A r \in Servers :
              /\ task'[r]["add"] # "idle" => task[r]["add"] # "idle"
              /\ task'[r]["boot"] # "idle" => task[r]["boot"] # "idle"
        /\ \A r \in Servers : r # s \/ p # "add" => task'[r]["add"] = task[r]["add"]
    BY <1>5, <1>8 DEF Paths
  <2>6. \A r \in present \ heard' :
           r \notin heard /\ (task'[r]["add"] # "idle" \/ booting \in Unheard)
    BY <1>1, <1>7, <1>8, <2>5 DEF SetsTyped
  <2>7. /\ MissedIsOrphan' /\ Untouched' /\ OwnPaths' /\ OutIsOrphan'
        /\ HeardInTime' /\ DroppedIsOrphan'
    BY <1>2, <1>3, <1>8, <2>5, <2>6, TaskFrame DEF pastVars, appVars
  <2>8. BootIsQuiet'
    <3>1. /\ UNCHANGED <<booting, initialized, present, orphans, loops, checking,
                         early, net, seen>>
          /\ Quiet => heard' = heard
      BY <1>7, <1>8 DEF pastVars, appVars
    <3>2. QED  BY <1>3, <1>5, <1>8, <3>1, QuietKeeps DEF ConnectionIInv
  <2>9. QED  BY <2>1, <2>3, <2>4, <2>7, <2>8 DEF ConnectionIInv, Typed
<1>9. CASE /\ p = "add"
           /\ LET t == [task EXCEPT ![s]["add"] = "idle"]
              IN  IF task[s]["reauth"] = "idle"
                  THEN /\ task' = [t EXCEPT ![s]["reauth"] = "auth"]
                       /\ net' = [net EXCEPT ![s] = disconnect(@)]
                  ELSE task' = t /\ UNCHANGED net
           /\ token' = token \ {s}
           /\ heard' = serverAdded(s, p) /\ ShownTo(heard')
           /\ UNCHANGED <<by, loops, checking, present, orphans, banned, pastVars, appVars,
                          why, leaked>>
  <2>1. /\ NetTyped' /\ StateIsTrue'
        /\ \A r \in Servers : Live(net'[r]) # {} => Live(net[r]) # {}
    <3>1. net' = net \/ net' = [net EXCEPT ![s] = disconnect(@)]
      BY <1>9
    <3>2. leaked' = leaked /\ inactive' = inactive
      BY <1>2, <1>9
    <3>3. QED  BY <1>1, <3>1, <3>2, Stops
  <2>2. /\ task' \in [Servers -> [Paths -> Steps]]
        /\ \A r \in Servers \ {s} : task'[r] = task[r]
        /\ task'[s]["boot"] = task[s]["boot"] /\ task'[s]["add"] = "idle"
    <3> DEFINE t == [task EXCEPT ![s]["add"] = "idle"]
    <3>1. /\ t \in [Servers -> [Paths -> Steps]]
          /\ \A r \in Servers \ {s} : t[r] = task[r]
          /\ t[s]["boot"] = task[s]["boot"] /\ t[s]["add"] = "idle"
      BY <1>1 DEF TasksTyped, Paths, Steps
    <3>2. task' = t \/ task' = [t EXCEPT ![s]["reauth"] = "auth"]
      BY <1>9
    <3> HIDE DEF t
    <3>3. QED  BY <3>1, <3>2 DEF Paths, Steps
  <2>3. TasksTyped' /\ SetsTyped' /\ AppTyped'
    BY <1>1, <1>2, <1>4, <1>7, <1>9, <2>2
       DEF TasksTyped, SetsTyped, AppTyped, pastVars, appVars
  <2>4. StoreTyped' /\ StoreShowsState'
    <3>1. heard' \subseteq Servers /\ early \subseteq early'
      BY <1>9, <2>3 DEF SetsTyped, pastVars
    <3>2. QED  BY <1>1, <1>7, <1>9, <2>1, <3>1, ShowsTo DEF StoreTyped
  <2>5. \A r \in present \ heard' :
           r \notin heard /\ (task'[r]["add"] # "idle" \/ booting \in Unheard)
    BY <1>1, <1>7, <1>9, <2>2 DEF SetsTyped
  <2>6. /\ \A r \in Servers \ present, q \in Paths :
              task'[r][q] # "idle" => task[r][q] # "idle"
        /\ \A r \in Servers :
              /\ task'[r]["add"] # "idle" => task[r]["add"] # "idle"
              /\ task'[r]["boot"] # "idle" => task[r]["boot"] # "idle"
    <3>1. \A r \in Servers \ present : task'[r] = task[r]
      BY <1>2, <2>2
    <3>2. QED  BY <2>2, <3>1
  <2>7. /\ MissedIsOrphan' /\ Untouched' /\ OwnPaths' /\ OutIsOrphan'
        /\ HeardInTime' /\ DroppedIsOrphan'
    BY <1>2, <1>3, <1>9, <2>1, <2>5, <2>6, TaskFrame DEF pastVars, appVars
  <2>8. BootIsQuiet'
    BY <1>3, <1>9, HeardKeeps DEF ConnectionIInv, appVars
  <2>9. QED  BY <2>1, <2>3, <2>4, <2>7, <2>8 DEF ConnectionIInv, Typed
<1>10. QED  BY <1>6, <1>8, <1>9 DEF keysDenied

-----------------------------------------------------------------------------
(* Nothing is there before the app is unlocked but the tokens.             *)
LEMMA ConnectionInit == Init => ConnectionIInv
<1> SUFFICES ASSUME Init PROVE ConnectionIInv
  OBVIOUS
<1>1. Known \subseteq Servers /\ 0 \in 0..MaxFaults /\ 0 \in 0..MaxActs
  BY ConnectionAssumption DEF ConnectionAssumption, Known
<1>2. Fresh \in Net /\ Live(Fresh) = {} /\ Right(Fresh) /\ Fresh.state = "CLOSED"
  BY FreshIsRight DEF Fresh
<1>3. \A s \in Servers : net[s] = Fresh
  BY DEF Init
<1>4. Typed
  <2>1. NetTyped
    BY <1>2 DEF Init, NetTyped
  <2>2. TasksTyped /\ SetsTyped /\ StoreTyped
    BY <1>1 DEF Init, TasksTyped, SetsTyped, StoreTyped, Steps, States, Reasons
  <2>3. AppTyped
    BY <1>1 DEF Init, AppTyped, Boots
  <2>4. QED  BY <2>1, <2>2, <2>3 DEF Typed
<1>5. StateIsTrue
  <2>1. \A s \in Servers : Right(net[s]) /\ net[s].state = "CLOSED"
    BY <1>2, <1>3
  <2>2. QED  BY <2>1, RightParts
<1>6. StoreShowsState /\ MissedIsOrphan /\ OutIsOrphan /\ HeardInTime
  BY DEF Init, StoreShowsState, MissedIsOrphan, OutIsOrphan, HeardInTime
<1>7. Untouched /\ BootIsQuiet
  BY DEF Init, Untouched, BootIsQuiet, Quiet, MayMove, Unheard, Idle, Idling
<1>8. OwnPaths
  BY DEF Init, OwnPaths, Paths
<1>9. DroppedIsOrphan
  <2>1. \A s \in Servers : ~Busy(s) /\ Live(net[s]) = {}
    BY <1>2, <1>3 DEF Init, Busy
  <2>2. NotLoaded
    BY DEF Init, NotLoaded
  <2>3. QED  BY <2>1, <2>2 DEF DroppedIsOrphan
<1>10. QED  BY <1>4, <1>5, <1>6, <1>7, <1>8, <1>9 DEF ConnectionIInv

LEMMA ConnectionStep ==
    ASSUME ConnectionIInv, [Next]_vars
    PROVE  ConnectionIInv'
<1>1. ASSUME NEW s \in Servers, NEW k \in Sockets, SocketEvent(s, k)
      PROVE  ConnectionIInv'
  BY <1>1, EventsKeep, AuthErrorKeeps, MessagesKeep DEF SocketEvent
<1>2. ASSUME NEW s \in Servers, NEW p \in Paths,
             \/ authOk(s, p) \/ authFail(s, p)
             \/ keysDone(s, p) \/ keysDenied(s, p) \/ keysDropped(s, p)
      PROVE  ConnectionIInv'
  BY <1>2, AuthOkKeeps, AuthFailKeeps, KeysDoneKeeps, KeysDeniedKeeps,
     KeysDroppedKeeps
<1>3. ASSUME NEW s \in Servers,
             \/ checkServer(s)
             \/ tapReconnect(s) \/ addServer(s) \/ removeServer(s)
      PROVE  ConnectionIInv'
  BY <1>3, CheckKeeps, UserKeeps, RemoveServerKeeps
<1>4. ASSUME NEW i \in Loops, NEW s \in Servers, loopStep(i, s)
      PROVE  ConnectionIInv'
  BY <1>4, LoopKeeps
<1>5. CASE userLogout
  BY <1>5, UserKeeps, ConnectionAssumption DEF ConnectionAssumption
<1>6. CASE \/ unlock \/ bootStep \/ bootDone \/ background \/ becomeInactive
           \/ activate \/ prompt \/ lockedLogout
  BY <1>6, UnlockKeeps, BootStepKeeps, BootKeeps, BackgroundKeeps,
         ActivateKeeps
<1>7. CASE UNCHANGED vars
  <2>1. AppTyped'
    BY <1>7 DEF ConnectionIInv, Typed, AppTyped, vars, pastVars, appVars
  <2>2. QED  BY <1>7, <2>1, QuietRests DEF vars, appVars
<1>8. QED  BY <1>1, <1>2, <1>3, <1>4, <1>5, <1>6, <1>7 DEF Next

(* What the invariant says of messages that are acknowledged.              *)
LEMMA Acknowledged ==
    ConnectionIInv => AckedIsHandled
<1> SUFFICES ASSUME ConnectionIInv,
                    NEW s \in Servers \ (heard \cup orphans \cup leaked \cup early),
                    NEW k \in Sockets, net[s].wire[k] = "open"
             PROVE  task[s]["add"] # "idle"
  BY DEF AckedIsHandled, ConnectionIInv, MissedIsOrphan
<1>1. Live(net[s]) # {} /\ ~Quiet
  BY Started DEF Live
<1>2. s \in present
  BY <1>1 DEF ConnectionIInv, DroppedIsOrphan
<1>3. QED  BY <1>1, <1>2 DEF ConnectionIInv, HeardInTime, Quiet

(* Whatever order socket.io's events, authentications, loops, the app's    *)
(* going away and the user take: the connectionState of a service is what  *)
(* its connection does, the store shows it, and a message of a server of   *)
(* the table that is acknowledged has handlers (SocketService,             *)
(* ServerRegistry, AppInitService).                                        *)
THEOREM ConnectionsAreTrue == Spec => []ConnectionInv
<1>1. ConnectionIInv => ConnectionInv
  BY Acknowledged, TypeParts DEF ConnectionInv, ConnectionIInv, Typed
<1>2. QED  BY <1>1, ConnectionInit, ConnectionStep, PTL DEF Spec

(* After AppInitService.logout nothing is connected and no token is kept   *)
(* but for servers that the boot was loading, or that were being           *)
(* authenticated, or had two connections.                                  *)
THEOREM LogoutIsQuiet == Spec => []LoggedOutIsQuiet
<1>1. ConnectionIInv => LoggedOutIsQuiet
  <2> SUFFICES ASSUME ConnectionIInv, out, NEW s \in Servers,
                      Live(net[s]) # {} \/ s \in token
               PROVE  s \in orphans \cup leaked
    BY DEF LoggedOutIsQuiet
  <2>1. ~NotLoaded
    BY DEF NotLoaded
  <2>2. CASE s \in present
    BY <2>2 DEF ConnectionIInv, OutIsOrphan
  <2>3. CASE s \notin present
    <3>1. Rowless(s) => s \in Loading
      BY DEF Rowless, Loading, Known
    <3>2. QED  BY <2>1, <2>3, <3>1 DEF ConnectionIInv, DroppedIsOrphan,
           OutIsOrphan
  <2>4. QED  BY <2>2, <2>3
<1>2. QED  BY <1>1, ConnectionInit, ConnectionStep, PTL DEF Spec

(* The inductive invariant, of every behaviour.                            *)
THEOREM ConnectionInductive == Spec => []ConnectionIInv
BY ConnectionInit, ConnectionStep, PTL DEF Spec

=============================================================================
