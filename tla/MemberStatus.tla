---------------------------- MODULE MemberStatus ----------------------------
(***************************************************************************)
(* The live status of one member: the controller's observations of the     *)
(* node's requests (services/zerotier/member-status.patch), the pollers    *)
(* that read them (readLiveObservation), what observeMember makes of them, *)
(* and persistObservedMember, which announces transitions.  Pollers are    *)
(* reconciles of the network in different copies of the server: within one *)
(* there is one at a time.  The unit of time is the interval of a poll.    *)
(* The columns that are only shown (lastSeen, lastOnlineAt, lastOfflineAt, *)
(* address, version) are left out, as is a controller without the patch.   *)
(***************************************************************************)
EXTENDS Integers

CONSTANTS
    MaxCopies,     \* bound: copies of the server, each a poller
    OnlineWindow,  \* the controller's window after a request (120 s)
    Hold,          \* a new path must last so long (30 s)
    Gap,           \* and be observed at least so often (45 s)
    MaxClock,      \* bound: time
    MaxMoves,      \* bound: changes of the path, with one poller
    MaxMisses      \* bound: restarts of the controller, failed requests and writes

ASSUME StatusBounds == MaxCopies \in Nat \ {0} /\ OnlineWindow \in Nat /\ Hold \in Nat /\ Gap \in Nat

VARIABLES
    clock, boot, lastRequest, \* the controller's
    sampled,                              \* when the last snapshot was taken
    copies,                               \* how many pollers there are
    path,                                 \* how the node is reached
    record,                               \* the columns of network_members
    poll,                                 \* poll[p]: a cycle under way
    told,                                 \* history: the last presence announced
    doubled,                              \* history: it was announced again
    steady,                               \* history: the run of written observations that agree, of one poller
    outrun,                               \* history: a late first observation replaced a later one
    early,                                \* history: a change of path was announced too early
    moves, misses

statusVars == <<clock, boot, lastRequest, sampled, copies, path, record, poll, told, doubled,
                steady, outrun, early, moves, misses>>
historyVars == <<told, doubled, steady, outrun, early>>

Pollers == 1..MaxCopies
Resting == [at |-> "idle"]
Paths == {"relayed", "direct"}
Unsteady == [status |-> "unknown", since |-> 0, last |-> 0]
NewMember(first) ==
    [online |-> FALSE, observedAt |-> 0, status |-> "none", pending |-> "none", pendingSince |-> 0, first |-> first]

----------------------------------------------------------------------------
(* The controller and the node                                             *)

Online == lastRequest # 0 /\ clock - lastRequest < OnlineWindow

\* The node sends a request in the time that passes, or does not.
TimePasses ==
    /\ clock < MaxClock /\ clock' = clock + 1
    /\ lastRequest' \in {lastRequest, clock'}
    /\ UNCHANGED <<boot, sampled, copies, path, record, poll, historyVars, moves, misses>>

PathChanges ==
    /\ moves < MaxMoves /\ moves' = moves + 1
    /\ \E w \in Paths \ {path} : path' = w
    /\ UNCHANGED <<clock, boot, lastRequest, sampled, copies, record, poll, historyVars, misses>>

ControllerRestarts ==
    /\ misses < MaxMisses /\ misses' = misses + 1
    /\ boot' = clock /\ lastRequest' = 0
    /\ UNCHANGED <<clock, sampled, copies, path, record, poll, historyVars, moves>>

----------------------------------------------------------------------------
(* A poll: the snapshot, then the row, then the write                       *)

\* No two snapshots have the same clock, which counts milliseconds.
ReadLiveObservation(p) ==
    /\ p <= copies /\ poll[p] = Resting /\ sampled # clock
    /\ \A q \in Pollers : q < p => poll[q] # Resting
    /\ sampled' = clock
    /\ \E missing \in SUBSET {"status", "peers"} :
           /\ IF missing = {} THEN misses' = misses
              ELSE misses < MaxMisses /\ misses' = misses + 1
           /\ poll' = [poll EXCEPT ![p] =
                 [at |-> "row", clock |-> clock, boot |-> boot, available |-> "status" \notin missing,
                  observed |-> lastRequest # 0, online |-> Online,
                  path |-> IF "peers" \in missing THEN "unknown" ELSE path]]
    /\ UNCHANGED <<clock, boot, lastRequest, copies, path, record, told, doubled, steady, outrun, early, moves>>

ReadMember(p) ==
    /\ poll[p].at = "row"
    /\ poll' = [poll EXCEPT ![p] = [db |-> record, live |-> @, at |-> "write"]]
    /\ UNCHANGED <<clock, boot, lastRequest, sampled, copies, path, record, historyVars, moves, misses>>

\* A controller that started a moment ago has not heard of every node yet.
Known(s) == s.available /\ (s.observed \/ s.clock - s.boot >= OnlineWindow)

DetermineConnectionStatus(s) ==
    IF ~Known(s) \/ s.path = "unknown" THEN "unknown"
    ELSE IF s.online THEN s.path ELSE "offline"

\* Mutant: a path that was pending before a pause in the observations counts.
SettleAnyGap(db, s) ==
    LET con == DetermineConnectionStatus(s) IN
    IF con = "unknown" THEN [db EXCEPT !.pending = "none", !.pendingSince = 0]
    ELSE IF ~(db.online /\ s.online /\ db.status \notin {"none", con})
         THEN [db EXCEPT !.status = con, !.pending = "none", !.pendingSince = 0]
    ELSE IF db.pending # con THEN [db EXCEPT !.pending = con, !.pendingSince = s.clock]
    ELSE IF s.clock - db.pendingSince >= Hold
         THEN [db EXCEPT !.status = con, !.pending = "none", !.pendingSince = 0]
    ELSE db

\* While the node stays online a new path is pending before it becomes the status.
Settle(db, s) ==
    LET con == DetermineConnectionStatus(s)
        moving == db.online /\ s.online /\ db.status \notin {"none", con}
        continuous == db.observedAt # 0 /\ s.clock - db.observedAt <= Gap
    IN
    IF con = "unknown" THEN [db EXCEPT !.pending = "none", !.pendingSince = 0]
    ELSE IF ~moving \/ (continuous /\ db.pending = con /\ s.clock - db.pendingSince >= Hold)
         THEN [db EXCEPT !.status = con, !.pending = "none", !.pendingSince = 0]
    ELSE IF ~continuous \/ db.pending # con
         THEN [db EXCEPT !.pending = con, !.pendingSince = s.clock]
    ELSE db

ObserveMember(db, s) ==
    IF ~Known(s) THEN Settle(db, s)
    ELSE [Settle(db, s) EXCEPT !.online = s.online, !.first = FALSE, !.observedAt = s.clock]

StatusEventTypes(db, s, new) ==
    IF ~Known(s) THEN {}
    ELSE IF db.observedAt = 0 THEN IF db.first /\ s.online THEN {"online"} ELSE {}
    ELSE IF db.online # s.online THEN {IF s.online THEN "online" ELSE "offline"}
    ELSE IF s.online /\ new.status \notin {db.status, "none"} /\ db.status # "none" THEN {"changed"}
    ELSE {}

\* Mutant: the transition is written and announced whatever the row is now.
LosesNever(db) == FALSE

\* The revision of the row that a transition is conditional on.
Loses(db) == record.observedAt # db.observedAt

\* Only the columns that differ from the row as it was read are written.
Written(db, new) ==
    LET column(to, from, now) == IF to # from THEN to ELSE now IN
    [online |-> column(new.online, db.online, record.online),
     observedAt |-> column(new.observedAt, db.observedAt, record.observedAt),
     status |-> column(new.status, db.status, record.status),
     pending |-> column(new.pending, db.pending, record.pending),
     pendingSince |-> column(new.pendingSince, db.pendingSince, record.pendingSince),
     first |-> column(new.first, db.first, record.first)]

PersistObservedMember(p) ==
    /\ poll[p].at = "write"
    /\ LET db == poll[p].db
           s == poll[p].live
           new == ObserveMember(db, s)
           con == DetermineConnectionStatus(s)
           types == StatusEventTypes(db, s, new)
           presence == types \ {"changed"}
           agrees == steady.status = con /\ s.clock - steady.last <= Gap
       IN IF types # {} /\ Loses(db) THEN UNCHANGED <<record, told, doubled, steady, outrun, early>>
          ELSE /\ record' = Written(db, new)
               /\ told' = IF presence = {} THEN told ELSE presence
               /\ doubled' = (doubled \/ (presence # {} /\ presence = told))
               /\ steady' = IF con \notin Paths \/ copies > 1 THEN Unsteady
                            ELSE [status |-> con, last |-> s.clock,
                                  since |-> IF agrees THEN steady.since ELSE s.clock]
               /\ outrun' = (outrun \/ (db.observedAt = 0 /\ Loses(db)))
               /\ early' = (early \/ ("changed" \in types /\ steady'.last - steady'.since < Hold))
    /\ poll' = [poll EXCEPT ![p] = Resting]
    /\ UNCHANGED <<clock, boot, lastRequest, sampled, copies, path, moves, misses>>

PersistFails(p) ==
    /\ poll[p].at = "write" /\ misses < MaxMisses
    /\ misses' = misses + 1
    /\ poll' = [poll EXCEPT ![p] = Resting]
    /\ UNCHANGED <<clock, boot, lastRequest, sampled, copies, path, record, historyVars, moves>>

----------------------------------------------------------------------------
StatusInit ==
    /\ clock = 1 /\ boot = 1 /\ lastRequest \in {0, 1} /\ sampled = 0
    /\ path = "direct"
    /\ \E first \in BOOLEAN : record = NewMember(first)
    /\ poll = [p \in Pollers |-> Resting]
    /\ told = {} /\ doubled = FALSE /\ steady = Unsteady /\ outrun = FALSE /\ early = FALSE
    /\ misses = 0
    /\ copies \in Pollers /\ moves = (IF copies = 1 THEN 0 ELSE MaxMoves)

StatusNext ==
    \/ TimePasses \/ PathChanges \/ ControllerRestarts
    \/ \E p \in Pollers : ReadLiveObservation(p) \/ ReadMember(p) \/ PersistObservedMember(p) \/ PersistFails(p)

----------------------------------------------------------------------------
(* Pollers that observe the same transition do not announce it twice: the   *)
(* same presence is never announced again before the opposite one           *)
(* (notifications/service.ts:153), across lost writes and restarts of the   *)
(* controller.  The first observation of a member announces nothing and is  *)
(* written unconditionally, so a late one may put the presence back.        *)
AnnouncedInTurn == ~outrun => ~doubled

(* A change of path is announced only after written observations without a  *)
(* gap have agreed on it for the whole holding time: a path that flaps, a   *)
(* pause of the polling or an unknown status in between start the wait      *)
(* again (memberObservation.ts:118).  One poller: the pending path has no   *)
(* protection from another one.                                             *)
ChangesHeld == copies = 1 => ~early

(* What is announced of a member has happened, once and for long enough.    *)
StatusHolds == AnnouncedInTurn /\ ChangesHeld
=============================================================================
