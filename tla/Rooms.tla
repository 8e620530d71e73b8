------------------------------- MODULE Rooms -------------------------------
(***************************************************************************)
(* The rooms of the app and of its servers: the room table, what hangs on  *)
(* its rows, and the list on the screen (ChatService, the room repository).*)
(*                                                                         *)
(* A room comes and goes by what the user does here, by what others do, and*)
(* by the list of rooms that is fetched at every connect. Requests, answers*)
(* and events take their time; work for a room waits on the serial queue of*)
(* signal operations and may run when the room is gone.                    *)
(***************************************************************************)
EXTENDS Naturals, Sequences, FiniteSets

CONSTANTS
    Rooms,         \* rooms, of all servers
    Servers,
    ServerOf,      \* the server of a room
    Users,         \* the ids of users, which every server gives out by itself
    OwnId,         \* the id a server knows us by
    GlobalId,      \* the id that signing in gave us
    Reachable,     \* the servers that are up; requests to others are left out
    Founded,       \* the rooms there are at first
    Entered,       \* those of them that we are in
    MaxActs,       \* bound: what users do to rooms, messages included
    MaxFaults      \* bound: requests that fail and runs that end

ASSUME RoomsAssumption ==
    /\ ServerOf \in [Rooms -> Servers]
    /\ OwnId \in [Servers -> Users] /\ GlobalId \in Users
    /\ Reachable \subseteq Servers /\ Entered \subseteq Founded /\ Founded \subseteq Rooms
    /\ {MaxActs, MaxFaults} \subseteq Nat

VARIABLES
    exists,    \* the rooms there are on the servers
    member,    \* the rooms a server counts us in
    online,    \* the servers whose socket is up
    sync,      \* onConnected, per server
    flow,      \* what the user has begun with a room
    chain,     \* the serial queue of signal operations
    rows,      \* the room table
    history,   \* the rooms that have rows in the message table
    sessions,  \* the rooms that have rows in the session table
    list,      \* how often a room stands in the list of the screen
    \* history variables
    late,      \* rooms whose work ran when they had no row
    excused,   \* servers with a reason to be out of date
    acts, faults

servers == <<exists, member>>
tables == <<rows, history, sessions>>
counters == <<acts, faults>>
vars == <<servers, online, sync, flow, chain, tables, list, late, excused, counters>>

-----------------------------------------------------------------------------
of(s) == {r \in Rooms : ServerOf[r] = s}

Sync == [at : {"no", "asked", "answered", "members"},
         has : SUBSET Rooms, todo : SUBSET Rooms]
NoSync == [at |-> "no", has |-> {}, todo |-> {}]

Flows == {"no", "create", "created", "join", "joined", "members", "queued",
          "delete", "deleted"}
Op == [op : {"join", "session", "message"}, room : Rooms]

Acts == acts < MaxActs /\ acts' = acts + 1 /\ UNCHANGED faults
Fails == faults < MaxFaults /\ faults' = faults + 1 /\ UNCHANGED acts

(* The list of the server was read and is on its way here.                 *)
overtaken(r) == IF sync[ServerOf[r]].at = "answered" THEN {ServerOf[r]} ELSE {}
excuse(S) == excused' = excused \cup S

listed(R) == [r \in Rooms |-> IF r \in R THEN 1 ELSE 0]

Init ==
    /\ exists = Founded /\ member = Entered /\ online = {}
    /\ sync = [s \in Servers |-> NoSync] /\ flow = [r \in Rooms |-> "no"]
    /\ chain = <<>> /\ rows = Entered /\ history = Entered
    /\ sessions = Entered /\ list = listed(Entered)
    /\ late = {} /\ excused = {} /\ acts = 0 /\ faults = 0

-----------------------------------------------------------------------------
(* The tables and the list.                                                *)
addRoomToList(r) == list' = [list EXCEPT ![r] = @ + 1]

(* Mutant of setAllRooms: rooms that came or went elsewhere are not shown. *)
setOnlyOnce(R) == UNCHANGED list

setAllRooms(R) == list' = listed(R)

(* Mutant of cleanUp: the sessions are forgotten.                          *)
cleanUpRows(R) ==
    rows' = rows \ R /\ history' = history \ R /\ UNCHANGED sessions

cleanUp(R) ==
    rows' = rows \ R /\ history' = history \ R /\ sessions' = sessions \ R

performLocalRoomCleanup(r) ==
    /\ cleanUp({r}) /\ list' = [list EXCEPT ![r] = 0]

-----------------------------------------------------------------------------
(* What the user does here. (Bound: one thing at a time with a room.) The  *)
(* server does its part, the answer comes, the app does its own.           *)
begin(r, f) == flow' = [flow EXCEPT ![r] = f]

Asks(r) == Acts /\ flow[r] = "no" /\ ServerOf[r] \in Reachable

createRoom(r) ==
    /\ Asks(r) /\ r \notin exists /\ begin(r, "create")
    /\ UNCHANGED <<servers, online, sync, chain, tables, list, late, excused>>
joinRoom(r) ==
    /\ Asks(r) /\ r \in exists \ member /\ begin(r, "join")
    /\ UNCHANGED <<servers, online, sync, chain, tables, list, late, excused>>
deleteRoom(r) ==
    /\ Asks(r) /\ list[r] > 0 /\ begin(r, "delete")
    /\ UNCHANGED <<servers, online, sync, chain, tables, list, late, excused>>

serverCreates(r) ==
    /\ flow[r] = "create" /\ begin(r, "created")
    /\ exists' = exists \cup {r} /\ member' = member \cup {r} /\ excuse(overtaken(r))
    /\ UNCHANGED <<online, sync, chain, tables, list, late, counters>>
serverJoins(r) ==
    /\ flow[r] = "join" /\ r \in exists /\ begin(r, "joined")
    /\ member' = member \cup {r} /\ excuse(overtaken(r))
    /\ UNCHANGED <<exists, online, sync, chain, tables, list, late, counters>>
(* A room that is gone already answers 404, which is as good.              *)
serverDeletes(r) ==
    /\ flow[r] = "delete" /\ begin(r, "deleted")
    /\ member' = member \ {r}
    /\ exists' \in {exists, exists \ {r}}           \* left, or deleted
    /\ excuse(overtaken(r))
    /\ UNCHANGED <<online, sync, chain, tables, list, late, counters>>

(* Without an answer the app changes nothing, whatever the server did.     *)
requestFails(r) ==
    /\ Fails /\ flow[r] \notin {"no", "queued"} /\ begin(r, "no")
    /\ excuse({ServerOf[r]})
    /\ UNCHANGED <<servers, online, sync, chain, tables, list, late>>

created(r) ==
    /\ flow[r] = "created" /\ begin(r, "no")
    /\ rows' = rows \cup {r} /\ addRoomToList(r)
    /\ UNCHANGED <<servers, online, sync, chain, history, sessions, late, excused,
                   counters>>
joined(r) ==
    /\ flow[r] = "joined" /\ begin(r, "members")
    /\ rows' = rows \cup {r}
    /\ UNCHANGED <<servers, online, sync, chain, history, sessions, list, late,
                   excused, counters>>
joinMembers(r) ==
    /\ flow[r] = "members" /\ begin(r, "queued")
    /\ chain' = Append(chain, [op |-> "join", room |-> r])
    /\ UNCHANGED <<servers, online, sync, tables, list, late, excused, counters>>
deleted(r) ==
    /\ flow[r] = "deleted" /\ begin(r, "no")
    /\ performLocalRoomCleanup(r)
    /\ UNCHANGED <<servers, online, sync, chain, late, excused, counters>>

-----------------------------------------------------------------------------
(* Mutant of onRoomDeleted: the room is taken off the list, no more.       *)
unlistDeleted(r) ==
    /\ list' = IF ServerOf[r] \in online THEN [list EXCEPT ![r] = 0] ELSE list
    /\ UNCHANGED tables

(* Others: a room is deleted by its owner, or left on another device of    *)
(* ours, or somebody else leaves it. The event comes at once, or, when the *)
(* socket is down, never.                                                  *)
onRoomDeleted(r) ==
    IF ServerOf[r] \in online THEN performLocalRoomCleanup(r) ELSE UNCHANGED <<tables, list>>

roomGone(r) ==
    /\ Acts /\ r \in member
    /\ member' = member \ {r} /\ exists' = exists \ {r}
    /\ onRoomDeleted(r)
    /\ excuse(overtaken(r) \cup IF flow[r] = "no" THEN {} ELSE {ServerOf[r]})
    /\ UNCHANGED <<online, sync, flow, chain, late>>

(* A custom server: we are not known there by the id of signing in.        *)
custom(s) == OwnId[s] # GlobalId

(* Of another user the messages go; who is another is told by the id of    *)
(* signing in, on every server.                                            *)
handleUserLeftRoom(r, u) ==
    IF ServerOf[r] \notin online THEN UNCHANGED <<tables, list>>
    ELSE IF u = GlobalId THEN performLocalRoomCleanup(r)
    ELSE history' \in {history, history \ {r}} /\ UNCHANGED <<rows, sessions, list>>

weLeave(r) ==
    /\ Acts /\ r \in member
    /\ member' = member \ {r}
    /\ handleUserLeftRoom(r, OwnId[ServerOf[r]])
    /\ excuse(overtaken(r) \cup IF flow[r] = "no" /\ ~custom(ServerOf[r]) THEN {}
                               ELSE {ServerOf[r]})
    /\ UNCHANGED <<exists, online, sync, flow, chain, late>>

anotherLeaves(r, u) ==
    /\ Acts /\ r \in member /\ u # OwnId[ServerOf[r]]
    /\ handleUserLeftRoom(r, u)
    /\ excuse(IF u = GlobalId THEN {ServerOf[r]} ELSE {})
    /\ UNCHANGED <<servers, online, sync, flow, chain, late>>

handleIncomingMessage(r) ==
    /\ Acts /\ r \in member /\ ServerOf[r] \in online
    /\ chain' = Append(chain, [op |-> "message", room |-> r])
    /\ UNCHANGED <<servers, online, sync, flow, tables, list, late, excused>>

-----------------------------------------------------------------------------
(* The serial queue. What runs does not look for the room.                 *)
runs(o) == chain # <<>> /\ Head(chain) = o /\ chain' = Tail(chain)
noted(r) == late' = IF r \in rows THEN late ELSE late \cup {r}

(* Sessions with the members (some of which may fail), then the list.      *)
joinOperation(r) ==
    /\ runs([op |-> "join", room |-> r]) /\ noted(r) /\ begin(r, "no")
    /\ sessions' \in {sessions, sessions \cup {r}}
    /\ addRoomToList(r)
    /\ UNCHANGED <<servers, online, sync, rows, history, excused, counters>>

setSession(r) ==
    /\ runs([op |-> "session", room |-> r]) /\ noted(r)
    /\ sessions' \in {sessions, sessions \cup {r}}
    /\ UNCHANGED <<servers, online, sync, flow, rows, history, list, excused, counters>>

processEnvelope(r) ==
    /\ runs([op |-> "message", room |-> r]) /\ noted(r)
    /\ sessions' = sessions \cup {r} /\ history' = history \cup {r}
    /\ UNCHANGED <<servers, online, sync, flow, rows, list, excused, counters>>

-----------------------------------------------------------------------------
(* The socket, and onConnected, which a server runs once at a time.        *)
busy(s) == \E r \in of(s) : flow[r] # "no"

startSync(s) ==
    /\ s \in Reachable \ online /\ online' = online \cup {s}
    /\ sync[s].at = "no" /\ sync' = [sync EXCEPT ![s].at = "asked"]
    /\ excused' = IF busy(s) THEN excused ELSE excused \ {s}
    /\ UNCHANGED <<servers, flow, chain, tables, list, late, counters>>

alreadySyncing(s) ==
    /\ s \notin online /\ online' = online \cup {s}
    /\ sync[s].at # "no" /\ excuse({s})
    /\ UNCHANGED <<servers, sync, flow, chain, tables, list, late, counters>>

disconnect(s) ==
    /\ s \in online /\ online' = online \ {s}
    /\ UNCHANGED <<servers, sync, flow, chain, tables, list, late, excused, counters>>

getAllRooms(s) ==
    /\ sync[s].at = "asked"
    /\ sync' = [sync EXCEPT ![s].at = "answered", ![s].has = member \cap of(s)]
    /\ UNCHANGED <<servers, online, flow, chain, tables, list, late, excused, counters>>

(* syncRoomMembersAndSessions follows anyway, over the rooms there are.    *)
thenMembers(s, R) ==
    sync' = [sync EXCEPT ![s] = [at |-> "members", has |-> {}, todo |-> R \cap of(s)]]

getAllRoomsFails(s) ==
    /\ Fails /\ sync[s].at \in {"asked", "answered"}
    /\ excuse({s}) /\ thenMembers(s, rows)
    /\ UNCHANGED <<servers, online, flow, chain, tables, list, late>>

(* Mutant of orphans: the rooms of all servers.                            *)
orphansOfAll(s) == rows \ sync[s].has

orphans(s) == (rows \cap of(s)) \ sync[s].has

syncAllRoomsFromBackend(s) ==
    /\ sync[s].at = "answered"
    /\ rows' = (rows \cup sync[s].has) \ orphans(s)
    /\ history' = history \ orphans(s) /\ sessions' = sessions \ orphans(s)
    /\ setAllRooms((rows \cup sync[s].has) \ orphans(s))
    /\ thenMembers(s, (rows \cup sync[s].has) \ orphans(s))
    /\ UNCHANGED <<servers, online, flow, chain, late, excused, counters>>

(* Room after room: a session for members without one. (Bound: one member.)*)
waiting(s) == \E i \in DOMAIN chain : chain[i].op = "session" /\ chain[i].room \in of(s)

syncRoomMembersAndSessions(s) ==
    /\ sync[s].at = "members" /\ ~waiting(s)
    /\ \E r \in sync[s].todo :
          /\ sync' = [sync EXCEPT ![s].todo = @ \ {r}]
          /\ chain' = IF r \in sessions THEN chain
                      ELSE Append(chain, [op |-> "session", room |-> r])
    /\ UNCHANGED <<servers, online, flow, tables, list, late, excused, counters>>

(* The rest of it (the queues, the keys, the messages that hang) is of no  *)
(* matter here, except that it takes its time.                             *)
onConnectedEnds(s) ==
    /\ sync[s].at = "members" /\ sync[s].todo = {} /\ ~waiting(s)
    /\ sync' = [sync EXCEPT ![s].at = "no"]
    /\ UNCHANGED <<servers, online, flow, chain, tables, list, late, excused, counters>>

(* Refreshing the list, which is not a sync.                               *)
loadRooms ==
    /\ setAllRooms(rows)
    /\ UNCHANGED <<servers, online, sync, flow, chain, tables, late, excused, counters>>

(* The app ends and starts again: the tables stay.                         *)
restart ==
    /\ Fails
    /\ online' = {} /\ sync' = [s \in Servers |-> NoSync]
    /\ flow' = [r \in Rooms |-> "no"] /\ chain' = <<>> /\ list' = listed(rows)
    /\ UNCHANGED <<servers, tables, late, excused>>

-----------------------------------------------------------------------------
Answers(r) ==
    \/ serverCreates(r) \/ serverJoins(r) \/ serverDeletes(r)
    \/ created(r) \/ joined(r) \/ joinMembers(r) \/ deleted(r)
    \/ joinOperation(r) \/ setSession(r) \/ processEnvelope(r)
Syncs(s) ==
    \/ getAllRooms(s) \/ syncAllRoomsFromBackend(s)
    \/ syncRoomMembersAndSessions(s) \/ onConnectedEnds(s)

Next ==
    \/ \E r \in Rooms : \/ createRoom(r) \/ joinRoom(r) \/ deleteRoom(r)
                        \/ requestFails(r) \/ roomGone(r) \/ weLeave(r)
                        \/ (\E u \in Users : anotherLeaves(r, u))
                        \/ handleIncomingMessage(r) \/ Answers(r)
    \/ \E s \in Servers : \/ startSync(s) \/ alreadySyncing(s) \/ disconnect(s)
                          \/ getAllRoomsFails(s) \/ Syncs(s)
    \/ loadRooms \/ restart

(* Requests are answered, the chain runs on, and the app connects anew     *)
(* again and again when no sync is running.                                *)
Spec == /\ Init /\ [][Next]_vars
        /\ \A r \in Rooms : WF_vars(Answers(r))
        /\ \A s \in Reachable : WF_vars(Syncs(s)) /\ SF_vars(startSync(s))
LivelySpec == Spec /\ \A s \in Reachable : []<><<startSync(s)>>_vars

-----------------------------------------------------------------------------
TypeOK ==
    /\ exists \subseteq Rooms /\ member \subseteq exists /\ online \subseteq Servers
    /\ sync \in [Servers -> Sync]
    /\ \A s \in Servers : sync[s].has \cup sync[s].todo \subseteq of(s)
    /\ flow \in [Rooms -> Flows]
    /\ chain \in Seq(Op)
    /\ rows \subseteq Rooms /\ history \subseteq Rooms /\ sessions \subseteq Rooms
    /\ list \in [Rooms -> 0 .. MaxActs + 1]
    /\ late \subseteq Rooms /\ excused \subseteq Servers
    /\ acts \in 0..MaxActs /\ faults \in 0..MaxFaults

(* When nothing is under way and the socket is up, the table has the rooms *)
(* that the server counts us in, unless there is a reason: a request that  *)
(* failed, a change while the list was on its way or while the user was    *)
(* busy with the room, a connect that found onConnected still running, or, *)
(* on a custom server, a leave that was taken for another's, or for ours.  *)
Idle(s) == sync[s].at = "no" /\ ~busy(s)

SyncedIsTrue ==
    \A s \in online \ excused : Idle(s) => rows \cap of(s) = member \cap of(s)

(* A room we are in loses its row, with all its messages, only if it was   *)
(* entered after its server had read the list that is being applied, or, on*)
(* a custom server, because somebody left who has there the id that signing*)
(* in gave us.                                                             *)
overtakenBy(r) ==
    /\ sync[ServerOf[r]].at = "answered" /\ r \notin sync[ServerOf[r]].has
    /\ ServerOf[r] \in excused

KeptWhileMember ==
    [][\A r \in (rows \ rows') \cap member' :
          overtakenBy(r) \/ (custom(ServerOf[r]) /\ anotherLeaves(r, GlobalId))]_vars

(* Messages and sessions of a room that is gone are gone, but for work that*)
(* was still under way for it.                                             *)
NothingLeftOver == history \cup sessions \subseteq rows \cup late

(* Types, and no leftovers of a room, whether the user left it, its owner  *)
(* deleted it, or a sync found it gone.                                    *)
RoomsInv == TypeOK /\ NothingLeftOver

(* However all this interleaves, in the end the table and the list have the*)
(* rooms that the servers within reach count us in, each of them once.     *)
RoomsCatchUp ==
    <>[](\A s \in Reachable :
            /\ rows \cap of(s) = member \cap of(s)
            /\ \A r \in of(s) : list[r] = listed(member)[r])
=============================================================================
