------------------------------ MODULE Members ------------------------------
(***************************************************************************)
(* The members of one network, kept twice: by the ZeroTier controller and  *)
(* as rows of the table network_members.  reconcileNetworkMembers          *)
(* (server/api/services/memberService.ts) brings the rows in line with the *)
(* controller; the procedures of memberRouter.ts (create, Update, stash,   *)
(* delete, UpdateDatabaseOnly, bulkDeleteStashed) change both, one after   *)
(* the other, and nothing keeps a procedure and a reconcile apart.         *)
(*                                                                         *)
(* An action is one request to the controller or one database transaction. *)
(* A configuration is a function of Fields: whether the member is          *)
(* authorised, and the rest (addresses, bridge and assignment flags).      *)
(* Names, webhooks, mail and the status columns do not decide any step.    *)
(***************************************************************************)
EXTENDS Integers, FiniteSets

CONSTANTS
    Members,     \* node addresses
    Admins,      \* requests of administrators that may be under way at once
    None,        \* no row, no controller entry, no task, null
    MaxRequests, \* bound: requests of administrators
    MaxChanges,  \* bound: changes of controller entries
    MaxFaults    \* bound: failed requests, failed transactions and crashes

ASSUME BoundsNat == MaxRequests \in Nat /\ MaxChanges \in Nat /\ MaxFaults \in Nat

Fields == {"authorized", "settings"}
Values == {"no", "yes"}
Config == [Fields -> Values]
Payload == UNION {[S -> Values] : S \in SUBSET Fields}
EventNames == {"node.added", "node.removed", "node.restore", "node.authorized",
               "node.deauthorized", "node.config.changed"}
Key == EventNames \X Members \X Nat
Flags == {"deleted", "permanentlyDeleted"}
Entry == [rev : Nat \ {0}, cfg : Config]
Row == [node : Nat \ {0}, cfg : Config, raw : Config \cup {None}, rev : Nat, flags : SUBSET Flags]
Task == [op : {"create", "update", "stash", "delete"}, member : Members,
         step : {"read", "store", "hide", "drop", "mark", "erase"},
         payload : Payload, rev : Nat, row : Row \cup {None}]

ASSUME NoneIsApart == None \notin Config \cup Entry \cup Row \cup Members

VARIABLES
    entry,     \* entry[m]: the controller's member, with its revision
    changes,   \* the last revision given out
    rows,      \* rows[m]: the row (id, nwid) of network_members
    nodes,     \* the last nodeid given out
    events,    \* keys of the notifications enqueued: <<event, member, number>>
    phase,     \* of the one reconcile in flight: "idle", "rows", "details", "status"
    revisions, \* revisionMap; 0 for a member that is not in it
    snap,      \* dbMembers, as read by the reconcile
    todo,      \* ids whose detail is still being fetched
    details,   \* details[m]: the configuration fetched and not yet stored
    adding,    \* the member between addNetworkMember and its update
    task,      \* task[a]: the procedure an administrator's request executes
    requests,  \* requests of administrators so far
    faults     \* failures so far

reconcileVars == <<phase, revisions, snap, todo, details, adding>>
tableVars == <<rows, nodes, events>>
controllerVars == <<entry, changes>>
adminVars == <<task, requests>>
vars == <<entry, changes, rows, nodes, events, phase, revisions, snap, todo, details,
          adding, task, requests, faults>>

Closed == [f \in Fields |-> "no"]
Nothing == [f \in {} |-> "no"]
Merge(c, p) == [f \in Fields |-> IF f \in DOMAIN p THEN p[f] ELSE c[f]]
Hidden(r) == r.flags # {}
Flagged(r, flag) == [r EXCEPT !.flags = @ \cup {flag}]

\* The notification a change of configuration calls for.
Changed(old, new, m, n) ==
    IF old["authorized"] # new["authorized"]
    THEN {<<IF new["authorized"] = "yes" THEN "node.authorized" ELSE "node.deauthorized", m, n>>}
    ELSE IF old # new THEN {<<"node.config.changed", m, n>>} ELSE {}

Init ==
    /\ entry = [m \in Members |-> None]
    /\ changes = 0
    /\ rows = [m \in Members |-> None]
    /\ nodes = 0
    /\ events = {}
    /\ phase = "idle"
    /\ revisions = [m \in Members |-> 0]
    /\ snap = [m \in Members |-> None]
    /\ todo = {}
    /\ details = [m \in Members |-> None]
    /\ adding = None
    /\ task = [a \in Admins |-> None]
    /\ requests = 0
    /\ faults = 0

-----------------------------------------------------------------------------
(* The controller.                                                         *)

\* A change gives the entry a revision it never had; a POST to a member the
\* controller does not know creates it.
Post(m, p) ==
    /\ changes < MaxChanges
    /\ changes' = changes + 1
    /\ entry' = [entry EXCEPT ![m] = [rev |-> changes + 1,
                    cfg |-> Merge(IF @ = None THEN Closed ELSE @.cfg, p)]]

\* A node asks to join, and waits for authorisation.
NodeJoins(m) ==
    /\ entry[m] = None
    /\ Post(m, Closed)
    /\ UNCHANGED <<tableVars, reconcileVars, adminVars, faults>>

\* The controller gives an authorised member its addresses.
AssignsAddress(m) ==
    /\ entry[m] # None
    /\ entry[m].cfg["authorized"] = "yes"
    /\ entry[m].cfg["settings"] = "no"
    /\ Post(m, [f \in {"settings"} |-> "yes"])
    /\ UNCHANGED <<tableVars, reconcileVars, adminVars, faults>>

-----------------------------------------------------------------------------
(* reconcileNetworkMembers, one at a time (reconcileNetworkMembersOnce).   *)
(* No caller passes { full: true }.                                        *)

\* Mutant: the cached object is not looked at, only the presence of a row.
NeedsDetailNewOnly(m) == revisions[m] # 0 /\ rows[m] = None

\* New, never fetched or changed since, and not hidden.
NeedsDetail(m) ==
    /\ revisions[m] # 0
    /\ \/ rows[m] = None
       \/ /\ ~Hidden(rows[m])
          /\ rows[m].raw = None \/ rows[m].rev # revisions[m]

StartReconcile ==
    /\ phase = "idle"
    /\ phase' = "rows"
    /\ revisions' = [m \in Members |-> IF entry[m] = None THEN 0 ELSE entry[m].rev]
    /\ UNCHANGED <<controllerVars, tableVars, snap, todo, details, adding, adminVars, faults>>

ReadRows ==
    /\ phase = "rows"
    /\ phase' = "details"
    /\ snap' = rows
    /\ todo' = {m \in Members : NeedsDetail(m)}
    /\ UNCHANGED <<controllerVars, tableVars, revisions, details, adding, adminVars, faults>>

\* A member that is gone by now is skipped, like a request that fails.
FetchDetail(m) ==
    /\ phase = "details"
    /\ m \in todo
    /\ todo' = todo \ {m}
    /\ details' = [details EXCEPT ![m] = IF entry[m] = None THEN None ELSE entry[m].cfg]
    /\ UNCHANGED <<controllerVars, tableVars, phase, revisions, snap, adding, adminVars, faults>>

FetchFails(m) ==
    /\ phase = "details"
    /\ m \in todo
    /\ faults < MaxFaults
    /\ faults' = faults + 1
    /\ todo' = todo \ {m}
    /\ UNCHANGED <<controllerVars, tableVars, phase, revisions, snap, details, adding, adminVars>>

Storing(m) == phase = "details" /\ todo = {} /\ details[m] # None

NewRow(cfg) == [node |-> nodes + 1, cfg |-> cfg, raw |-> None, rev |-> 0, flags |-> {}]

Insert(m, cfg) ==
    /\ nodes' = nodes + 1
    /\ rows' = [rows EXCEPT ![m] = NewRow(cfg)]
    /\ events' = events \cup {<<"node.added", m, nodes + 1>>}

\* Mutant: the upsert brings a hidden row back.
AddNetworkMemberRestores(m) ==
    /\ Storing(m)
    /\ adding = None
    /\ snap[m] = None
    /\ adding' = m
    /\ IF rows[m] = None
       THEN Insert(m, Closed)
       ELSE rows' = [rows EXCEPT ![m].flags = {}] /\ UNCHANGED <<nodes, events>>
    /\ UNCHANGED <<controllerVars, phase, revisions, snap, todo, details, adminVars, faults>>

\* addNetworkMember: an upsert that leaves a row as it is.
AddNetworkMember(m) ==
    /\ Storing(m)
    /\ adding = None
    /\ snap[m] = None
    /\ adding' = m
    /\ IF rows[m] = None THEN Insert(m, Closed) ELSE UNCHANGED tableVars
    /\ UNCHANGED <<controllerVars, phase, revisions, snap, todo, details, adminVars, faults>>

\* Its failure is logged, and the update that follows finds no row.
AddNetworkMemberFails(m) ==
    /\ Storing(m)
    /\ adding = None
    /\ snap[m] = None
    /\ adding' = m
    /\ faults < MaxFaults
    /\ faults' = faults + 1
    /\ UNCHANGED <<controllerVars, tableVars, phase, revisions, snap, todo, details, adminVars>>

\* Mutant: the revision is the controller's at the time of the write.
StoreDetailLatest(m) ==
    /\ Storing(m)
    /\ adding = m \/ (adding = None /\ snap[m] # None)
    /\ rows' = [rows EXCEPT ![m] = IF @ = None THEN None ELSE
                   [@ EXCEPT !.cfg = details[m], !.raw = details[m],
                             !.rev = IF entry[m] = None THEN 0 ELSE entry[m].rev]]
    /\ events' = events \cup (IF snap[m] # None /\ snap[m].raw # None
                              THEN Changed(snap[m].cfg, details[m], m, revisions[m])
                              ELSE {})
    /\ details' = [details EXCEPT ![m] = None]
    /\ adding' = None
    /\ UNCHANGED <<controllerVars, nodes, phase, revisions, snap, todo, adminVars, faults>>

\* The detail goes into the row with the revision of the map read before it.
StoreDetail(m) ==
    /\ Storing(m)
    /\ adding = m \/ (adding = None /\ snap[m] # None)
    /\ rows' = [rows EXCEPT ![m] = IF @ = None THEN None ELSE
                   [@ EXCEPT !.cfg = details[m], !.raw = details[m], !.rev = revisions[m]]]
    /\ events' = events \cup (IF snap[m] # None /\ snap[m].raw # None
                              THEN Changed(snap[m].cfg, details[m], m, revisions[m])
                              ELSE {})
    /\ details' = [details EXCEPT ![m] = None]
    /\ adding' = None
    /\ UNCHANGED <<controllerVars, nodes, phase, revisions, snap, todo, adminVars, faults>>

Orphans == {m \in Members : snap[m] # None /\ ~Hidden(snap[m]) /\ revisions[m] = 0}

AllStored == phase = "details" /\ todo = {} /\ \A m \in Members : details[m] = None

ForgetSnapshot ==
    /\ snap' = [m \in Members |-> None]
    /\ revisions' = [m \in Members |-> 0]

\* Mutant: a row that has been hidden since is announced and kept.
RemoveOrphansVisible ==
    /\ AllStored
    /\ events' = events \cup {<<"node.removed", m, snap[m].node>> : m \in Orphans}
    /\ rows' = [m \in Members |-> IF m \in Orphans /\ rows[m] # None /\ ~Hidden(rows[m])
                                  THEN None ELSE rows[m]]
    /\ phase' = "status"
    /\ ForgetSnapshot
    /\ UNCHANGED <<controllerVars, nodes, todo, details, adding, adminVars, faults>>

\* Mutant: the drift cleanup is left out.
RemoveNoOrphans ==
    /\ AllStored
    /\ phase' = "status"
    /\ ForgetSnapshot
    /\ UNCHANGED <<controllerVars, tableVars, todo, details, adding, adminVars, faults>>

\* The drift cleanup: by the ids of the snapshot, whatever the rows are now.
RemoveOrphans ==
    /\ AllStored
    /\ events' = events \cup {<<"node.removed", m, snap[m].node>> : m \in Orphans}
    /\ rows' = [m \in Members |-> IF m \in Orphans THEN None ELSE rows[m]]
    /\ phase' = "status"
    /\ ForgetSnapshot
    /\ UNCHANGED <<controllerVars, nodes, todo, details, adding, adminVars, faults>>

\* The rows are read again and get their status columns; the promise settles.
FinishReconcile ==
    /\ phase = "status"
    /\ phase' = "idle"
    /\ UNCHANGED <<controllerVars, tableVars, revisions, snap, todo, details, adding, adminVars, faults>>

\* The controller or the database refuses, or the process is restarted.
ReconcileFails ==
    /\ phase # "idle"
    /\ faults < MaxFaults
    /\ faults' = faults + 1
    /\ phase' = "idle"
    /\ ForgetSnapshot
    /\ todo' = {}
    /\ details' = [m \in Members |-> None]
    /\ adding' = None
    /\ UNCHANGED <<controllerVars, tableVars, adminVars>>

-----------------------------------------------------------------------------
(* The procedures of memberRouter.ts.                                      *)

Request ==
    /\ requests < MaxRequests
    /\ requests' = requests + 1

Begin(a, op, m, step, payload, rev, row) ==
    /\ task[a] = None
    /\ Request
    /\ task' = [task EXCEPT ![a] = [op |-> op, member |-> m, step |-> step,
                                    payload |-> payload, rev |-> rev, row |-> row]]

Goto(a, step) == task' = [task EXCEPT ![a].step = step] /\ UNCHANGED requests
Return(a) == task' = [task EXCEPT ![a] = None] /\ UNCHANGED requests

AtStep(a, ops, step) == task[a] # None /\ task[a].op \in ops /\ task[a].step = step

\* create tells the controller first, and keeps the member it answers with.
CreatePosts(a, m) ==
    /\ Post(m, Nothing)
    /\ Begin(a, "create", m, "read", entry'[m].cfg, entry'[m].rev, None)
    /\ UNCHANGED <<tableVars, reconcileVars, faults>>

\* Update, with one of the fields it may change.
UpdatePosts(a, m) ==
    /\ \E f \in Fields : \E v \in Values :
          /\ Post(m, [g \in {f} |-> v])
          /\ Begin(a, "update", m, "read", [g \in {f} |-> v], changes + 1, None)
    /\ UNCHANGED <<tableVars, reconcileVars, faults>>

\* stash calls Update with everything taken away.
StashPosts(a, m) ==
    /\ Post(m, Closed)
    /\ Begin(a, "stash", m, "read", Closed, changes + 1, None)
    /\ UNCHANGED <<tableVars, reconcileVars, faults>>

\* It goes on when that fails.
StashPostFails(a, m) ==
    /\ faults < MaxFaults
    /\ faults' = faults + 1
    /\ Begin(a, "stash", m, "hide", Closed, 0, None)
    /\ UNCHANGED <<controllerVars, tableVars, reconcileVars>>

\* dbMember; Update has nothing to write when there is none.
ReadMember(a) ==
    /\ AtStep(a, {"create", "update", "stash"}, "read")
    /\ LET t == task[a]
           row == rows[t.member]
       IN  IF row = None /\ t.op = "update"
           THEN Return(a)
           ELSE /\ task' = [task EXCEPT ![a].row = row,
                               ![a].step = IF row = None /\ t.op = "stash" THEN "hide" ELSE "store"]
                /\ UNCHANGED requests
    /\ UNCHANGED <<controllerVars, tableVars, reconcileVars, faults>>

\* The payload goes into the row, which may have changed or gone since.
StoreUpdate(a) ==
    /\ AtStep(a, {"update", "stash"}, "store")
    /\ LET t == task[a]
           m == t.member
           new == Merge(rows[m].cfg, t.payload)
       IN  IF rows[m] = None
           THEN UNCHANGED tableVars
           ELSE /\ rows' = [rows EXCEPT ![m].cfg = new]
                /\ events' = events \cup Changed(t.row.cfg, new, m, t.rev)
                /\ UNCHANGED nodes
    /\ IF task[a].op = "stash" THEN Goto(a, "hide") ELSE Return(a)
    /\ UNCHANGED <<controllerVars, reconcileVars, faults>>

StashHides(a) ==
    /\ AtStep(a, {"stash"}, "hide")
    /\ LET m == task[a].member
       IN  rows' = [rows EXCEPT ![m] = IF @ = None THEN None ELSE Flagged(@, "deleted")]
    /\ Return(a)
    /\ UNCHANGED <<controllerVars, nodes, events, reconcileVars, faults>>

\* create restores the row it found, or inserts one; either transaction fails
\* when the row has gone or come meanwhile.
CreateStores(a) ==
    /\ AtStep(a, {"create"}, "store")
    /\ LET t == task[a]
           m == t.member
       IN  CASE t.row # None /\ rows[m] # None ->
                  /\ rows' = [rows EXCEPT ![m].flags = {}]
                  /\ events' = events \cup (IF Hidden(t.row)
                                            THEN {<<"node.restore", m, t.rev>>} ELSE {})
                  /\ UNCHANGED nodes
             [] t.row = None /\ rows[m] = None -> Insert(m, Merge(Closed, t.payload))
             [] OTHER -> UNCHANGED tableVars
    /\ Return(a)
    /\ UNCHANGED <<controllerVars, reconcileVars, faults>>

DeleteReads(a, m) ==
    /\ LET stashed == rows[m] # None /\ "deleted" \in rows[m].flags
       IN  Begin(a, "delete", m, IF stashed THEN "mark" ELSE "drop", Nothing, 0, rows[m])
    /\ UNCHANGED <<controllerVars, tableVars, reconcileVars, faults>>

\* The controller may answer 404 for a member it does not have: delete fails.
DeleteDrops(a) ==
    /\ AtStep(a, {"delete"}, "drop")
    /\ entry' = [entry EXCEPT ![task[a].member] = None]
    /\ \/ Goto(a, "erase")
       \/ entry[task[a].member] = None /\ Return(a)
    /\ UNCHANGED <<changes, tableVars, reconcileVars, faults>>

\* The transaction fails, and announces nothing, when there is no row.
DeleteErases(a) ==
    /\ AtStep(a, {"delete"}, "erase")
    /\ LET t == task[a]
           m == t.member
       IN  /\ rows' = [rows EXCEPT ![m] = None]
           /\ events' = events \cup (IF rows[m] # None /\ t.row # None
                                     THEN {<<"node.removed", m, t.row.node>>} ELSE {})
    /\ Return(a)
    /\ UNCHANGED <<controllerVars, nodes, reconcileVars, faults>>

\* A stashed member stays on the controller and in the table, marked for good.
DeleteMarks(a) ==
    /\ AtStep(a, {"delete"}, "mark")
    /\ LET m == task[a].member
       IN  rows' = [rows EXCEPT ![m] = IF @ = None THEN None ELSE Flagged(@, "permanentlyDeleted")]
    /\ Return(a)
    /\ UNCHANGED <<controllerVars, nodes, events, reconcileVars, faults>>

\* A request fails or the process is restarted: what is done stays done.
ProcedureFails(a) ==
    /\ task[a] # None
    /\ faults < MaxFaults
    /\ faults' = faults + 1
    /\ Return(a)
    /\ UNCHANGED <<controllerVars, tableVars, reconcileVars>>

\* UpdateDatabaseOnly sets or clears `deleted` and nothing else.
UpdateDatabaseOnly(m) ==
    /\ Request
    /\ rows[m] # None
    /\ \E flags \in {rows[m].flags \cup {"deleted"}, rows[m].flags \ {"deleted"}} :
          rows' = [rows EXCEPT ![m].flags = flags]
    /\ UNCHANGED <<controllerVars, nodes, events, reconcileVars, task, faults>>

\* bulkDeleteStashed marks what was stashed when it looked and still is.
BulkDeleteStashed ==
    /\ Request
    /\ \E marked \in (SUBSET {m \in Members : rows[m] # None /\ "deleted" \in rows[m].flags}) \ {{}} :
          rows' = [m \in Members |-> IF m \in marked
                     THEN Flagged(rows[m], "permanentlyDeleted")
                     ELSE rows[m]]
    /\ UNCHANGED <<controllerVars, nodes, events, reconcileVars, task, faults>>

-----------------------------------------------------------------------------
ReconcileStep ==
    \/ StartReconcile \/ ReadRows \/ RemoveOrphans \/ FinishReconcile
    \/ \E m \in Members : FetchDetail(m) \/ AddNetworkMember(m) \/ StoreDetail(m)

ProcedureStep(a) ==
    \/ ReadMember(a) \/ StoreUpdate(a) \/ StashHides(a) \/ CreateStores(a)
    \/ DeleteDrops(a) \/ DeleteErases(a) \/ DeleteMarks(a)

Next ==
    \/ ReconcileStep
    \/ ReconcileFails
    \/ \E m \in Members :
          \/ NodeJoins(m) \/ AssignsAddress(m)
          \/ FetchFails(m) \/ AddNetworkMemberFails(m)
          \/ UpdateDatabaseOnly(m)
    \/ BulkDeleteStashed
    \/ \E a \in Admins :
          \/ ProcedureStep(a) \/ ProcedureFails(a)
          \/ \E m \in Members :
                \/ CreatePosts(a, m) \/ UpdatePosts(a, m)
                \/ StashPosts(a, m) \/ StashPostFails(a, m) \/ DeleteReads(a, m)

Spec == Init /\ [][Next]_vars

\* The monitor and the open pages start reconciles for ever, and what has
\* been started goes on; nobody has to act on the network.
FairSpec ==
    /\ Spec
    /\ WF_vars(ReconcileStep)
    /\ \A a \in Admins : WF_vars(ProcedureStep(a))

-----------------------------------------------------------------------------
\* Every variable has its type, and numbers given out stay within their bounds.
TypeOK ==
    /\ entry \in [Members -> Entry \cup {None}]
    /\ changes \in 0 .. MaxChanges
    /\ rows \in [Members -> Row \cup {None}]
    /\ nodes \in Nat
    /\ events \in SUBSET Key
    /\ phase \in {"idle", "rows", "details", "status"}
    /\ revisions \in [Members -> Nat]
    /\ snap \in [Members -> Row \cup {None}]
    /\ todo \in SUBSET Members
    /\ details \in [Members -> Config \cup {None}]
    /\ adding \in Members \cup {None}
    /\ requests \in 0 .. MaxRequests
    /\ task \in [Admins -> Task \cup {None}]
    /\ faults \in 0 .. MaxFaults

\* A row that carries the controller's revision holds the controller's object:
\* the reconcile may skip it.  The map of revisions is read before the details
\* and the two are written together, whatever the controller does in between
\* (reconcileNetworkMembers, idsToFetch and the update of controllerConfig).
CacheHonest ==
    \A m \in Members :
        rows[m] # None /\ entry[m] # None /\ rows[m].rev = entry[m].rev
            => rows[m].raw = entry[m].cfg

\* Every row of the table has been announced under its own nodeid, by whichever
\* of addNetworkMember and create inserted it, races included.
RowsAnnounced ==
    \A m \in Members : rows[m] # None => <<"node.added", m, rows[m].node>> \in events

\* A row whose removal has been announced is gone, and does not come back: the
\* cleanup of the reconcile and delete act on snapshots, but take away the row
\* they announce or find it gone.
RemovalsTrue ==
    \A m \in Members :
        rows[m] # None => <<"node.removed", m, rows[m].node>> \notin events

\* A hidden row is shown again only by an administrator: create restores it or
\* UpdateDatabaseOnly clears `deleted`.  No reconcile does, whatever it read
\* before the member was hidden.
OnlyAdminsRestore ==
    [][\A m \in Members :
          rows[m] # None /\ Hidden(rows[m]) /\ rows'[m] # None /\ ~Hidden(rows'[m])
              => (\E a \in Admins : CreateStores(a)) \/ UpdateDatabaseOnly(m)]_vars

\* Once the network is left alone, the table lists the members the controller
\* has and no others, except those hidden (membership part of the reconcile).
MembershipHeals ==
    <>[](\A m \in Members :
            /\ entry[m] # None => rows[m] # None
            /\ rows[m] # None /\ ~Hidden(rows[m]) => entry[m] # None)

\* Once the network is left alone, the cached controller object of every shown
\* member is the controller's (revision part of the reconcile).
CacheHeals ==
    <>[](\A m \in Members :
            rows[m] # None /\ ~Hidden(rows[m]) /\ entry[m] # None
                => rows[m].raw = entry[m].cfg)

\* The table follows the controller: a row that an administrator has hidden stays
\* so, and once the network is left alone everything else is as the controller says.
TableFollows == OnlyAdminsRestore /\ MembershipHeals /\ CacheHeals

\* Once the network is left alone, the columns of every shown member (authorized,
\* ipAssignments and the flags) are the controller's: "Controller-truth,
\* self-healing sync" (memberService.ts:400).
ColumnsHeal ==
    <>[](\A m \in Members :
            rows[m] # None /\ ~Hidden(rows[m]) /\ entry[m] # None
                => rows[m].cfg = entry[m].cfg)
=============================================================================
