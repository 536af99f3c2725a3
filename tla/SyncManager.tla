---------------------------- MODULE SyncManager ----------------------------
(***************************************************************************)
(* The live member sync of the web console.  A browser socket subscribes  *)
(* to a network (pages/api/websocket/index.ts); while a network has a      *)
(* subscriber, SyncManager (server/sync/syncManager.ts) reconciles it with *)
(* the ZeroTier controller in a self-scheduling loop and pushes a change   *)
(* to the room; a monitor (cronTasks.ts) reconciles every network whether  *)
(* or not somebody looks at it; and all of them share one reconcile per    *)
(* network through the in-flight map of memberService.ts.                  *)
(*                                                                         *)
(* Everything runs on one JavaScript thread, so an action is what happens  *)
(* between two awaits.  A member list is the hash syncManager takes of it. *)
(***************************************************************************)
EXTENDS Integers, FiniteSets

CONSTANTS
    Networks,      \* network ids
    Sockets,       \* socket connections; a reconnect is another socket
    Contents,      \* hashes of the member lists a network can have
    Blank,         \* lastHash of a fresh sync state
    MaxRequests    \* bound: subscribe requests one socket sends

ASSUME NetworksFinite == IsFiniteSet(Networks) /\ IsFiniteSet(Sockets)
ASSUME BlankIsNoHash == Blank \notin Contents
ASSUME MaxRequestsNat == MaxRequests \in Nat

VARIABLES
    conn,        \* conn[s]: "new", "open" or "closed"
    subscribed,  \* subscribed[s]: the Set of the connection handler
    checking,    \* checking[s][n]: subscribe handlers awaiting checkNetworkAccess
    sent,        \* sent[s]: subscribe requests sent so far
    refCount,    \* refCount[n]: 0 when `networks` has no entry for n
    armed,       \* networks whose state refers to a pending timer (state.timer)
    loose,       \* loose[n]: pending tick timers that no state refers to
    mine,        \* mine[n]: ticks awaiting a reconcile for the current state
    stale,       \* stale[n]: ticks awaiting one for a state dropped since
    lastHash,    \* lastHash[n] of the current state
    inFlight,    \* the networks in the map inFlightReconciles
    runs,        \* runs[n]: reconcileNetworkMembers executing for n
    snapshot,    \* snapshot[n]: what the running reconcile has read
    live,        \* live[n]: the member list on the controller
    cached,      \* cached[n]: the member list the last reconcile stored
    monitor,     \* "asleep", or "walking" inside its pass over the networks
    todo,        \* networks the monitor has still to visit in this pass
    visiting     \* the network whose reconcile the monitor awaits, as a set

socketVars == <<conn, subscribed, checking, sent>>
loopVars == <<refCount, armed, loose, mine, stale, lastHash>>
runVars == <<inFlight, runs, snapshot, cached>>
monitorVars == <<monitor, todo, visiting>>
vars == <<socketVars, loopVars, runVars, live, monitorVars>>

NotRead == Blank

Init ==
    /\ conn = [s \in Sockets |-> "new"]
    /\ subscribed = [s \in Sockets |-> {}]
    /\ checking = [s \in Sockets |-> [n \in Networks |-> 0]]
    /\ sent = [s \in Sockets |-> 0]
    /\ refCount = [n \in Networks |-> 0]
    /\ armed = {}
    /\ loose = [n \in Networks |-> 0]
    /\ mine = [n \in Networks |-> 0]
    /\ stale = [n \in Networks |-> 0]
    /\ lastHash = [n \in Networks |-> Blank]
    /\ inFlight = {}
    /\ runs = [n \in Networks |-> 0]
    /\ snapshot = [n \in Networks |-> NotRead]
    /\ live \in [Networks -> Contents]
    /\ cached = live
    /\ monitor = "asleep"
    /\ todo = {}
    /\ visiting = {}

-----------------------------------------------------------------------------
(* Reconcile: one run per network, shared by all who ask meanwhile.        *)

\* Mutant: the in-flight map is not consulted.
ReconcileAlways(n) ==
    /\ inFlight' = inFlight \cup {n}
    /\ runs' = [runs EXCEPT ![n] = @ + 1]
    /\ snapshot' = [snapshot EXCEPT ![n] = NotRead]

\* reconcileNetworkMembersOnce: join the run in flight or start one.
ReconcileOnce(n) ==
    IF n \in inFlight
    THEN UNCHANGED <<inFlight, runs, snapshot>>
    ELSE /\ inFlight' = inFlight \cup {n}
         /\ runs' = [runs EXCEPT ![n] = @ + 1]
         /\ snapshot' = [snapshot EXCEPT ![n] = NotRead]

\* The run has its view of the controller; what happens later is not in it.
RunReads(n) ==
    /\ runs[n] > 0
    /\ snapshot[n] = NotRead
    /\ snapshot' = [snapshot EXCEPT ![n] = live[n]]
    /\ UNCHANGED <<socketVars, loopVars, inFlight, runs, cached, live, monitorVars>>

\* The finally of every tick that awaited the run: each of them arms a timer
\* while the network has a state, and the state refers to the last one armed.
Reschedule(n) ==
    LET woken == mine[n] + stale[n]
    IN  /\ mine' = [mine EXCEPT ![n] = 0]
        /\ stale' = [stale EXCEPT ![n] = 0]
        /\ IF refCount[n] > 0 /\ woken > 0
           THEN /\ armed' = armed \cup {n}
                /\ loose' = [loose EXCEPT ![n] =
                                @ + (woken - 1) + (IF n \in armed THEN 1 ELSE 0)]
           ELSE UNCHANGED <<armed, loose>>
        /\ UNCHANGED refCount

\* The promise leaves the in-flight map before those who await it resume.
Settle(n) ==
    /\ inFlight' = inFlight \ {n}
    /\ runs' = [runs EXCEPT ![n] = @ - 1]
    /\ visiting' = visiting \ {n}
    /\ Reschedule(n)

\* Mutant: a change is pushed only by the first tick of a state.
RunSucceedsPushesOnce(n) ==
    /\ runs[n] > 0
    /\ snapshot[n] # NotRead
    /\ Settle(n)
    /\ cached' = [cached EXCEPT ![n] = snapshot[n]]
    /\ lastHash' = [lastHash EXCEPT ![n] =
                        IF mine[n] > 0 /\ @ = Blank THEN snapshot[n] ELSE @]
    /\ UNCHANGED <<socketVars, snapshot, live, monitor, todo>>

\* The run stored what it read.  A tick of the current state remembers the
\* hash and pushes it to the room when it is new; a tick of a dropped state
\* does the same with an object nobody else can see.
RunSucceeds(n) ==
    /\ runs[n] > 0
    /\ snapshot[n] # NotRead
    /\ Settle(n)
    /\ cached' = [cached EXCEPT ![n] = snapshot[n]]
    /\ lastHash' = [lastHash EXCEPT ![n] = IF mine[n] > 0 THEN snapshot[n] ELSE @]
    /\ UNCHANGED <<socketVars, snapshot, live, monitor, todo>>

\* Mutant: the tick reschedules after a successful reconcile only.
RunFailsForGood(n) ==
    /\ runs[n] > 0
    /\ inFlight' = inFlight \ {n}
    /\ runs' = [runs EXCEPT ![n] = @ - 1]
    /\ visiting' = visiting \ {n}
    /\ mine' = [mine EXCEPT ![n] = 0]
    /\ stale' = [stale EXCEPT ![n] = 0]
    /\ UNCHANGED <<socketVars, refCount, armed, loose, lastHash, snapshot,
                   cached, live, monitor, todo>>

\* The controller or the database failed; each waiter catches the error.
RunFails(n) ==
    /\ runs[n] > 0
    /\ Settle(n)
    /\ UNCHANGED <<socketVars, snapshot, cached, lastHash, live, monitor, todo>>

\* A page load (getNetworkById, getNetworkMembers) asks for a reconcile.
PageLoad(n) ==
    /\ ReconcileOnce(n)
    /\ UNCHANGED <<socketVars, loopVars, cached, live, monitorVars>>

-----------------------------------------------------------------------------
(* SyncManager.                                                            *)

\* Mutant: a second viewer is not counted.
AcquireOnce(n) ==
    /\ refCount' = [refCount EXCEPT ![n] = 1]
    /\ IF refCount[n] > 0
       THEN UNCHANGED <<armed, mine, lastHash, inFlight, runs, snapshot>>
       ELSE /\ armed' = armed \ {n}
            /\ lastHash' = [lastHash EXCEPT ![n] = Blank]
            /\ mine' = [mine EXCEPT ![n] = @ + 1]
            /\ ReconcileOnce(n)

\* acquire: count the viewer, or create the state and run the first tick.
Acquire(n) ==
    /\ refCount' = [refCount EXCEPT ![n] = @ + 1]
    /\ IF refCount[n] > 0
       THEN UNCHANGED <<armed, mine, lastHash, inFlight, runs, snapshot>>
       ELSE /\ armed' = armed \ {n}
            /\ lastHash' = [lastHash EXCEPT ![n] = Blank]
            /\ mine' = [mine EXCEPT ![n] = @ + 1]
            /\ ReconcileOnce(n)

\* release of one viewer of every network in leaving: the last one cancels
\* the timer its state refers to and drops the state.
Release(leaving) ==
    LET last(n) == n \in leaving /\ refCount[n] = 1
    IN  /\ refCount' = [n \in Networks |->
                IF n \in leaving /\ refCount[n] > 0 THEN refCount[n] - 1 ELSE refCount[n]]
        /\ armed' = {n \in armed : ~last(n)}
        /\ stale' = [n \in Networks |-> stale[n] + (IF last(n) THEN mine[n] ELSE 0)]
        /\ mine' = [n \in Networks |-> IF last(n) THEN 0 ELSE mine[n]]
        /\ UNCHANGED <<loose, lastHash>>

\* tick from its timer: nothing for a network without a state, else forget the
\* timer reference, whichever timer it was, and await a reconcile.
Tick(n) ==
    IF refCount[n] = 0
    THEN UNCHANGED <<mine, inFlight, runs, snapshot>>
    ELSE mine' = [mine EXCEPT ![n] = @ + 1] /\ ReconcileOnce(n)

TimerFires(n) ==
    /\ n \in armed
    /\ armed' = armed \ {n}
    /\ Tick(n)
    /\ UNCHANGED <<socketVars, refCount, loose, stale, lastHash, cached, live, monitorVars>>

LooseTimerFires(n) ==
    /\ loose[n] > 0
    /\ armed' = armed \ {n}
    /\ loose' = [loose EXCEPT ![n] = IF n \in armed THEN @ ELSE @ - 1]
    /\ Tick(n)
    /\ UNCHANGED <<socketVars, refCount, stale, lastHash, cached, live, monitorVars>>

-----------------------------------------------------------------------------
(* The socket handlers.                                                    *)

Connect(s) ==
    /\ conn[s] = "new"
    /\ conn' = [conn EXCEPT ![s] = "open"]
    /\ UNCHANGED <<subscribed, checking, sent, loopVars, runVars, live, monitorVars>>

\* subscribe:network up to its await: a network already subscribed is ignored.
Subscribe(s, n) ==
    /\ conn[s] = "open"
    /\ sent[s] < MaxRequests
    /\ n \notin subscribed[s]
    /\ sent' = [sent EXCEPT ![s] = @ + 1]
    /\ checking' = [checking EXCEPT ![s][n] = @ + 1]
    /\ UNCHANGED <<conn, subscribed, loopVars, runVars, live, monitorVars>>

\* checkNetworkAccess throws: the request is ignored.
AccessDenied(s, n) ==
    /\ checking[s][n] > 0
    /\ checking' = [checking EXCEPT ![s][n] = @ - 1]
    /\ UNCHANGED <<conn, subscribed, sent, loopVars, runVars, live, monitorVars>>

\* checkNetworkAccess returns: the handler goes on, whatever happened to the
\* socket or to the subscription during the await.
AccessGranted(s, n) ==
    /\ checking[s][n] > 0
    /\ checking' = [checking EXCEPT ![s][n] = @ - 1]
    /\ subscribed' = [subscribed EXCEPT ![s] = @ \cup {n}]
    /\ Acquire(n)
    /\ UNCHANGED <<conn, sent, loose, stale, cached, live, monitorVars>>

Unsubscribe(s, n) ==
    /\ conn[s] = "open"
    /\ n \in subscribed[s]
    /\ subscribed' = [subscribed EXCEPT ![s] = @ \ {n}]
    /\ Release({n})
    /\ UNCHANGED <<conn, checking, sent, runVars, live, monitorVars>>

Disconnect(s) ==
    /\ conn[s] = "open"
    /\ conn' = [conn EXCEPT ![s] = "closed"]
    /\ subscribed' = [subscribed EXCEPT ![s] = {}]
    /\ Release(subscribed[s])
    /\ UNCHANGED <<checking, sent, runVars, live, monitorVars>>

-----------------------------------------------------------------------------
(* The monitor of cronTasks.ts and the controller.                         *)

\* The monitor's timer fires and findMany returns the networks.
MonitorWakes ==
    /\ monitor = "asleep"
    /\ monitor' = "walking"
    /\ todo' = Networks
    /\ UNCHANGED <<socketVars, loopVars, runVars, live, visiting>>

\* The next iteration of the for loop: the last reconcile has been awaited.
MonitorVisits(n) ==
    /\ monitor = "walking"
    /\ n \in todo
    /\ visiting = {}
    /\ todo' = todo \ {n}
    /\ visiting' = {n}
    /\ ReconcileOnce(n)
    /\ UNCHANGED <<socketVars, loopVars, cached, live, monitor>>

\* Mutant: the monitor does not arm its next pass.
MonitorEnds ==
    /\ monitor = "walking"
    /\ todo = {}
    /\ visiting = {}
    /\ UNCHANGED vars

\* The pass is over: setTimeout for the next one.
MonitorSleeps ==
    /\ monitor = "walking"
    /\ todo = {}
    /\ visiting = {}
    /\ monitor' = "asleep"
    /\ UNCHANGED <<socketVars, loopVars, runVars, live, todo, visiting>>

\* A member joins, leaves, is renamed or changes state on the controller.
MembersChange(n) ==
    /\ live' \in {[live EXCEPT ![n] = c] : c \in Contents \ {live[n]}}
    /\ UNCHANGED <<socketVars, loopVars, runVars, monitorVars>>

-----------------------------------------------------------------------------
SocketStep(s) ==
    \/ Connect(s)
    \/ Disconnect(s)
    \/ \E n \in Networks : \/ Subscribe(s, n)
                           \/ AccessDenied(s, n)
                           \/ AccessGranted(s, n)
                           \/ Unsubscribe(s, n)

NetworkStep(n) ==
    \/ RunReads(n)
    \/ RunSucceeds(n)
    \/ RunFails(n)
    \/ PageLoad(n)
    \/ TimerFires(n)
    \/ LooseTimerFires(n)
    \/ MonitorVisits(n)
    \/ MembersChange(n)

Next ==
    \/ \E s \in Sockets : SocketStep(s)
    \/ \E n \in Networks : NetworkStep(n)
    \/ MonitorWakes
    \/ MonitorSleeps

Spec == Init /\ [][Next]_vars

(***************************************************************************)
(* Timers fire, requests to the controller and to the database are bounded *)
(* by timeouts, so a run always settles; that a run which keeps being made *)
(* (by anybody, or by the loop) succeeds sometimes is the assumption that  *)
(* the controller works.  There is no fairness on what people do:          *)
(* subscribing, leaving, changing members.                                 *)
(***************************************************************************)
Fairness ==
    /\ \A n \in Networks :
        /\ SF_vars(RunReads(n)) /\ SF_vars(mine[n] > 0 /\ RunReads(n))
        /\ SF_vars(RunSucceeds(n)) /\ SF_vars(mine[n] > 0 /\ RunSucceeds(n))
        /\ WF_vars(RunSucceeds(n) \/ RunFails(n))
        /\ WF_vars(TimerFires(n))
        /\ WF_vars(LooseTimerFires(n))
        /\ WF_vars(MonitorVisits(n))
    /\ \A s \in Sockets, n \in Networks : WF_vars(AccessDenied(s, n) \/ AccessGranted(s, n))
    /\ WF_vars(MonitorWakes)
    /\ WF_vars(MonitorSleeps)

FairSpec == Spec /\ Fairness

-----------------------------------------------------------------------------
(* Properties.                                                             *)

\* Type correctness of the socket handlers, the sync states, the in-flight map
\* and the monitor (syncManager.ts, websocket/index.ts, cronTasks.ts).
TypeOK ==
    /\ conn \in [Sockets -> {"new", "open", "closed"}]
    /\ subscribed \in [Sockets -> SUBSET Networks]
    /\ checking \in [Sockets -> [Networks -> Nat]]
    /\ sent \in [Sockets -> Nat]
    /\ refCount \in [Networks -> Nat]
    /\ armed \in SUBSET Networks
    /\ loose \in [Networks -> Nat]
    /\ mine \in [Networks -> Nat]
    /\ stale \in [Networks -> Nat]
    /\ lastHash \in [Networks -> Contents \cup {Blank}]
    /\ inFlight \in SUBSET Networks
    /\ runs \in [Networks -> Nat]
    /\ snapshot \in [Networks -> Contents \cup {Blank}]
    /\ live \in [Networks -> Contents]
    /\ cached \in [Networks -> Contents]
    /\ monitor \in {"asleep", "walking"}
    /\ todo \in SUBSET Networks
    /\ visiting \in SUBSET Networks

Viewers(n) == {s \in Sockets : n \in subscribed[s]}

\* A network with a sync state has a tick under way or a timer that will run
\* one: no order of acquire, release, ticks and failed reconciles leaves the
\* state registered with its loop dead (syncManager.ts acquire, release, tick).
LoopAlive ==
    \A n \in Networks : refCount[n] > 0 => n \in armed \/ loose[n] + mine[n] + stale[n] > 0

\* Every socket that holds a subscription is counted by the network's sync
\* state, so no release of another viewer, and no subscribe handler that was
\* overtaken during its access check, stops the loop under a viewer.
ViewersCounted ==
    \A n \in Networks : Cardinality(Viewers(n)) <= refCount[n]

\* At most one reconcile runs for a network, whoever asks: ticks, page loads
\* and the monitor share it (memberService.ts inFlightReconciles), and whoever
\* awaits one awaits a run that exists.
OneReconcile ==
    \A n \in Networks : /\ runs[n] <= 1
                        /\ mine[n] + stale[n] > 0 \/ n \in visiting => runs[n] = 1

\* While a network is viewed and its members stop changing, the loop ends up
\* having pushed the current member list (syncManager.ts tick), even when
\* reconciles fail, loops double, or a run had read the list before it changed.
LoopCatchesUp ==
    \A n \in Networks, c \in Contents :
        <>[](live[n] = c /\ refCount[n] > 0) => <>[](lastHash[n] = c)

\* Viewed or not, the stored member list catches up with the controller: the
\* monitor's pass never gets stuck (cronTasks.ts updatePeers).
CacheCatchesUp ==
    \A n \in Networks, c \in Contents :
        <>[](live[n] = c) => <>[](cached[n] = c)

\* Both: what the controller says reaches the table, and from there the viewers.
CatchesUp == LoopCatchesUp /\ CacheCatchesUp

\* syncManager.ts: "Reschedule only while still subscribed - never overlaps,
\* since the next tick is queued only after this one completes".
TicksNeverOverlap == \A n \in Networks : mine[n] <= 1
=============================================================================
