------------------------------- MODULE Routes -------------------------------
(***************************************************************************)
(* The managed routes of one network in three places: the controller, the  *)
(* rows that add a note to each of them, and the copies in browser pages,  *)
(* from which the next list of routes is computed (networkRouter.ts,       *)
(* routesService.ts, components/networkByIdPage/networkRoutes,             *)
(* ipv4Assignment.tsx).                                                    *)
(*                                                                         *)
(* A page loads the network again and again; a load that finds rows and    *)
(* controller different synchronises the rows, and loads that come while a *)
(* synchronisation runs wait for that one.  A target is a model value, a   *)
(* via is None for a route of the local network.                           *)
(***************************************************************************)
EXTENDS Integers, FiniteSets

CONSTANTS
    Pages,     \* browser pages that show the network
    Targets,   \* destinations
    Gateways,  \* values of via that are not empty
    MaxEdits,  \* bound: edits
    MaxFaults, \* bound: requests that fail
    None

ASSUME BoundsNat == MaxEdits \in Nat /\ MaxFaults \in Nat

VARIABLES
    ctrl,  \* routes of the controller
    pools, \* ipAssignmentPools of the controller, each the range of one target
    rows,  \* rows of Routes
    ids,   \* row ids given out
    shown, \* shown[p]: the rows the page has
    range, \* range[p]: the pools the page has
    load,  \* load[p]: the query under way and what it has read
    edit,  \* edit[p]: the mutation under way
    sync,  \* inFlightRouteSyncs: the snapshot the running synchronisation works from
    edits, faults

server == <<ctrl, pools, rows, ids, sync>>
page == <<shown, range>>
vars == <<server, page, load, edit, edits, faults>>

Vias == Gateways \cup {None}
Route == [target : Targets, via : Vias]
Idle == [at |-> "idle"]
NoSync == [on |-> FALSE, db |-> {}, zt |-> {}]

\* getRouteKey.
Key(r) == [target |-> r.target, via |-> r.via]
Keys(rs) == {Key(r) : r \in rs}

----------------------------------------------------------------------------
(* syncNetworkRoutes                                                       *)

\* Rows that share a key with one that is kept before them: a row with a note is kept first.
Before(a, b) == IF (a.note = 0) = (b.note = 0) THEN a.id < b.id ELSE b.note = 0
Doubles(db) == {r \in db : \E q \in db \ {r} : Key(q) = Key(r) /\ Before(q, r)}

\* Mutant: the rows are replaced as a whole.
ToDeleteAll(s) == {r.id : r \in s.db}

\* What the transaction deletes and creates, from the snapshot and the keys it reads again.
ToDelete(s) == {r.id : r \in Doubles(s.db) \cup {q \in s.db : Key(q) \notin s.zt}}

ToCreate(s) == (s.zt \ Keys(s.db)) \ Keys(rows)

Numbers(new) == CHOOSE f \in [new -> 1 .. Cardinality(new)] : \A a, b \in new : f[a] = f[b] => a = b

Created(new) ==
    LET number == Numbers(new)
    IN {[id |-> ids + number[k], target |-> k.target, via |-> k.via, note |-> 0] : k \in new}

----------------------------------------------------------------------------
(* getNetworkById, as the pages ask for it                                 *)

\* A page asks: at an interval, or after a mutation.
LoadReadsRows(p) ==
    /\ load[p] = Idle
    /\ load' = [load EXCEPT ![p] = [at |-> "rows", db |-> rows]]
    /\ UNCHANGED <<server, page, edit, edits, faults>>

LoadReadsController(p) ==
    /\ load[p].at = "rows"
    /\ load' = [load EXCEPT ![p] = [at |-> "both", db |-> load[p].db, zt |-> ctrl,
                                     pools |-> pools]]
    /\ UNCHANGED <<server, page, edit, edits, faults>>

\* routesAreDifferent and dbHasDuplicateRoutes.
Differ(l) == Keys(l.db) # l.zt \/ Cardinality(Keys(l.db)) # Cardinality(l.db)

\* syncNetworkRoutesOnce: start a synchronisation, or wait for the one that runs.
LoadSyncs(p) ==
    /\ load[p].at = "both"
    /\ \/ /\ ~Differ(load[p])
          /\ shown' = [shown EXCEPT ![p] = load[p].db]
          /\ range' = [range EXCEPT ![p] = load[p].pools]
          /\ load' = [load EXCEPT ![p] = Idle]
          /\ UNCHANGED sync
       \/ /\ Differ(load[p])
          /\ load' = [load EXCEPT ![p] = [at |-> "waits", db |-> load[p].db, pools |-> load[p].pools]]
          /\ sync' = IF sync.on THEN sync ELSE [on |-> TRUE, db |-> load[p].db, zt |-> load[p].zt]
          /\ UNCHANGED page
    /\ UNCHANGED <<ctrl, pools, rows, ids, edit, edits, faults>>

\* Everyone who waits gets what the transaction leaves, or, if it failed, the rows read first.
Answer(result) ==
    LET waiting == {p \in Pages : load[p].at = "waits"} IN
    /\ shown' = [p \in Pages |-> IF p \notin waiting THEN shown[p]
                                 ELSE IF result.ok THEN result.rows ELSE load[p].db]
    /\ range' = [p \in Pages |-> IF p \in waiting THEN load[p].pools ELSE range[p]]
    /\ load' = [p \in Pages |-> IF p \in waiting THEN Idle ELSE load[p]]

\* Mutant: rows of routes the controller dropped stay.
SyncCommitsOnlyAdds ==
    LET new == ToCreate(sync)
        left == rows \cup Created(new)
    IN
    /\ sync.on
    /\ rows' = left /\ ids' = ids + Cardinality(new)
    /\ sync' = NoSync
    /\ Answer([ok |-> TRUE, rows |-> left])
    /\ UNCHANGED <<ctrl, pools, edit, edits, faults>>

\* The transaction, and the finally that lets the next synchronisation start.
SyncCommits ==
    LET new == ToCreate(sync)
        left == {r \in rows : r.id \notin ToDelete(sync)} \cup Created(new)
    IN
    /\ sync.on
    /\ rows' = left /\ ids' = ids + Cardinality(new)
    /\ sync' = NoSync
    /\ Answer([ok |-> TRUE, rows |-> left])
    /\ UNCHANGED <<ctrl, pools, edit, edits, faults>>

SyncFails ==
    /\ sync.on /\ faults < MaxFaults
    /\ faults' = faults + 1
    /\ sync' = NoSync
    /\ Answer([ok |-> FALSE])
    /\ UNCHANGED <<ctrl, pools, rows, ids, edit, edits>>

\* The query fails: the page keeps what it has.
LoadFails(p) ==
    /\ load[p].at \in {"rows", "both"} /\ faults < MaxFaults
    /\ faults' = faults + 1
    /\ load' = [load EXCEPT ![p] = Idle]
    /\ UNCHANGED <<server, page, edit, edits>>

----------------------------------------------------------------------------
(* Edits: what the page sends                                              *)

Send(p, req) ==
    /\ edit[p] = Idle /\ edits < MaxEdits
    /\ edits' = edits + 1
    /\ edit' = [edit EXCEPT ![p] = req]
    /\ UNCHANGED <<server, page, load, faults>>

\* The lists to store, what they were made from, and what the user meant to drop.
PostAll(list, basis, drop, ranges, had, gone) ==
    [at |-> "post", list |-> list, basis |-> basis, drop |-> drop,
     pools |-> ranges, had |-> had, gone |-> gone]
Post(list, basis, drop) == PostAll(list, basis, drop, None, None, {})

\* submitHandler of NetworkRoutes: the routes of the page and the new one.
AddRoute(p, k) ==
    /\ k \notin Keys(shown[p])
    /\ Send(p, Post(Keys(shown[p]) \cup {k}, Keys(shown[p]), {}))

\* Mutant: matched by target alone.
RemainingByTarget(rs, k) == {r \in Keys(rs) : r.target # k.target}

\* deleteRoute of NetworkRoutesTable: matched by target and via.
Remaining(rs, k) == Keys(rs) \ {k}

DeleteRoute(p, k) ==
    /\ k \in Keys(shown[p])
    /\ Send(p, Post(Remaining(shown[p], k), Keys(shown[p]), {k}))

\* The cells of routesEditCell: a note, or a via, of the row the page shows.
EditNote(p, r) == r \in shown[p] /\ Send(p, [at |-> "note", id |-> r.id])
EditVia(p, r, v) == r \in shown[p] /\ v # r.via /\ Send(p, [at |-> "via", id |-> r.id, via |-> v])

\* The tabs of Ipv4Assignment: a subnet the network does not have yet, a range to add to the
\* pools of the page, a range to take from them.
EasyIp(p, t) ==
    /\ \A r \in shown[p] : r.target # t
    /\ Send(p, [at |-> "easy", target |-> t])
SubmitIpRange(p, t) ==
    /\ t \notin range[p]
    /\ Send(p, [at |-> "pool", pools |-> range[p] \cup {t}, gone |-> {}, had |-> range[p]])

\* Mutant: no pool is kept.
DeleteIpRangeAll(p, t) ==
    /\ t \in range[p]
    /\ Send(p, [at |-> "pool", pools |-> {}, gone |-> {t}, had |-> range[p]])

DeleteIpRange(p, t) ==
    /\ t \in range[p]
    /\ Send(p, [at |-> "pool", pools |-> range[p] \ {t}, gone |-> {t}, had |-> range[p]])

----------------------------------------------------------------------------
(* Edits: what the server does                                             *)

Advance(p, req) == edit' = [edit EXCEPT ![p] = req]

\* managedRoutes with a note: one statement, which fails when the row is gone.
StoreNote(p) ==
    /\ edit[p].at = "note"
    /\ rows' = {IF r.id = edit[p].id THEN [r EXCEPT !.note = 1] ELSE r : r \in rows}
    /\ Advance(p, Idle)
    /\ UNCHANGED <<ctrl, pools, ids, sync, page, load, edits, faults>>

\* managedRoutes with a via: the list is made from the rows, not from the controller.
ReadForVia(p) ==
    LET e == edit[p]
        mine == {r \in rows : r.id = e.id}
    IN
    /\ e.at = "via"
    /\ Advance(p, Post(Keys(rows \ mine) \cup {[target |-> r.target, via |-> e.via] : r \in mine},
                       Keys(rows), Keys(mine)))
    /\ UNCHANGED <<server, page, load, edits, faults>>

\* easyIpAssignment: one subnet takes the place of all routes and pools.
EasyIpAssignment(p) ==
    LET t == edit[p].target IN
    /\ edit[p].at = "easy"
    /\ Advance(p, PostAll({[target |-> t, via |-> None]}, Route, Route, {t}, Targets, Targets))
    /\ UNCHANGED <<server, page, load, edits, faults>>

\* advancedIpAssignment: the routes of the controller and those of the pools, one for each
\* address: of routes that share a target the last stays, and the pools' are the last.
AdvancedIpAssignment(p) ==
    LET e == edit[p]
        others == {r \in ctrl : r.target \notin e.pools}
    IN
    /\ e.at = "pool"
    /\ \E kept \in SUBSET others :
           /\ \A u \in {r.target : r \in others} : Cardinality({r \in kept : r.target = u}) = 1
           /\ Advance(p, PostAll(kept \cup {[target |-> t, via |-> None] : t \in e.pools}, ctrl,
                                 {r \in ctrl : r.target \in e.pools} \cup (others \ kept),
                                 e.pools, e.had, e.gone))
    /\ UNCHANGED <<server, page, load, edits, faults>>

\* network_update.
StoreRoutes(p) ==
    /\ edit[p].at = "post"
    /\ ctrl' = edit[p].list
    /\ pools' = IF edit[p].pools = None THEN pools ELSE edit[p].pools
    /\ Advance(p, Idle)
    /\ UNCHANGED <<rows, ids, sync, page, load, edits, faults>>

EditFails(p) ==
    /\ edit[p] # Idle /\ faults < MaxFaults
    /\ faults' = faults + 1
    /\ Advance(p, Idle)
    /\ UNCHANGED <<server, page, load, edits>>

----------------------------------------------------------------------------
\* One route of the local network, as createNetwork leaves it, and pages that show it.
Init ==
    \E t \in Targets :
        /\ ctrl = {[target |-> t, via |-> None]}
        /\ rows = {[id |-> 1, target |-> t, via |-> None, note |-> 0]}
        /\ ids = 1 /\ pools = {t} /\ range = [p \in Pages |-> {t}]
        /\ shown = [p \in Pages |-> rows]
        /\ load = [p \in Pages |-> Idle] /\ edit = [p \in Pages |-> Idle]
        /\ sync = NoSync
        /\ edits = 0 /\ faults = 0

Request(p) ==
    \/ \E k \in Route : AddRoute(p, k) \/ DeleteRoute(p, k)
    \/ \E r \in shown[p] : EditNote(p, r) \/ \E v \in Vias : EditVia(p, r, v)
    \/ \E t \in Targets : EasyIp(p, t) \/ SubmitIpRange(p, t) \/ DeleteIpRange(p, t)

Serve(p) == StoreNote(p) \/ ReadForVia(p) \/ EasyIpAssignment(p) \/ AdvancedIpAssignment(p) \/ StoreRoutes(p)
Load(p) == LoadReadsRows(p) \/ LoadReadsController(p) \/ LoadSyncs(p)

Next ==
    \/ \E p \in Pages : Request(p) \/ Serve(p) \/ Load(p) \/ LoadFails(p) \/ EditFails(p)
    \/ SyncCommits \/ SyncFails

\* Pages poll (refetchInterval); requests that were sent are served.
Spec ==
    /\ Init /\ [][Next]_vars
    /\ \A p \in Pages : WF_vars(Load(p)) /\ WF_vars(Serve(p))
    /\ WF_vars(SyncCommits)

----------------------------------------------------------------------------
(* Rows are numbered with ids that were given out, and no id is used twice. *)
TypeOK ==
    /\ ctrl \subseteq Route
    /\ \A r \in rows : r.id \in 1 .. ids /\ Key(r) \in Route /\ r.note \in {0, 1}
    /\ \A r, q \in rows : r.id = q.id => r = q

(* An edit that was computed from the routes the controller still has takes *)
(* away what the user meant and nothing else; from an older list it may     *)
(* undo what another page or the REST API stored.                           *)
EditsKeepRoutes ==
    [][\A p \in Pages : edit[p].at = "post" /\ edit'[p] = Idle /\ edit[p].basis = ctrl =>
           ctrl \ ctrl' \subseteq edit[p].drop]_vars

(* A change of the pools from a page that knows all of them takes away the  *)
(* one that was meant.                                                      *)
EditsKeepPools ==
    [][\A p \in Pages : edit[p].at = "post" /\ edit'[p] = Idle /\ edit[p].had = pools =>
           pools \ pools' \subseteq edit[p].gone]_vars

(* A note goes only when its route was missing on the controller, in the    *)
(* snapshot the synchronisation started from.  Changing the via of a route  *)
(* makes another route of it, and the note is lost that way.                *)
NotesKept ==
    [][\A r \in rows : r.note # 0 /\ r \notin rows' => sync.on /\ Key(r) \notin sync.zt]_vars

(* A step that sees the present state loses nothing that nobody meant to    *)
(* take away: routes, pools and notes.                                      *)
EditsKeep == EditsKeepRoutes /\ EditsKeepPools /\ NotesKept

(* When the edits stop, the rows become the controller's routes and every   *)
(* page shows them, whatever snapshots the loads shared on the way.         *)
RoutesConverge ==
    <>[](Keys(rows) = ctrl /\ \A p \in Pages : shown[p] = rows /\ range[p] = pools)
=============================================================================
