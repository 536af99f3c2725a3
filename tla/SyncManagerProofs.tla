------------------------- MODULE SyncManagerProofs -------------------------
(***************************************************************************)
(* Proofs about SyncManager, for any set of networks and sockets and any   *)
(* number of subscribe requests.                                           *)
(***************************************************************************)
EXTENDS SyncManager, FiniteSetTheorems, TLAPS

\* The in-flight map tells exactly whether a reconcile runs, and everybody who
\* awaits a reconcile awaits one that is in flight: the strengthening that makes
\* OneReconcile inductive (memberService.ts reconcileNetworkMembersOnce).
RunsTracked ==
    \A n \in Networks : /\ runs[n] = IF n \in inFlight THEN 1 ELSE 0
                        /\ mine[n] + stale[n] > 0 \/ n \in visiting => n \in inFlight

\* What asking for a reconcile does to the in-flight map and the runs.
LEMMA ReconcileOnceEffect ==
    ASSUME TypeOK, NEW n \in Networks, ReconcileOnce(n)
    PROVE  /\ inFlight' = inFlight \cup {n}
           /\ runs' \in [Networks -> Nat]
           /\ snapshot' \in [Networks -> Contents \cup {Blank}]
           /\ \A m \in Networks : runs'[m] =
                IF m = n /\ n \notin inFlight THEN runs[m] + 1 ELSE runs[m]
  <1>1. CASE n \in inFlight
    BY <1>1 DEF ReconcileOnce, TypeOK
  <1>2. CASE n \notin inFlight
    <2>1. /\ inFlight' = inFlight \cup {n}
          /\ runs' = [runs EXCEPT ![n] = @ + 1]
          /\ snapshot' = [snapshot EXCEPT ![n] = Blank]
      BY <1>2 DEF ReconcileOnce, NotRead
    <2>2. runs \in [Networks -> Nat] /\ snapshot \in [Networks -> Contents \cup {Blank}]
      BY DEF TypeOK
    <2> QED BY <1>2, <2>1, <2>2
  <1> QED BY <1>1, <1>2

\* What a tick does to the in-flight map, the runs and the waiting ticks.
LEMMA TickEffect ==
    ASSUME TypeOK, NEW n \in Networks, Tick(n)
    PROVE  /\ inFlight' = IF refCount[n] = 0 THEN inFlight ELSE inFlight \cup {n}
           /\ runs' \in [Networks -> Nat]
           /\ snapshot' \in [Networks -> Contents \cup {Blank}]
           /\ mine' \in [Networks -> Nat]
           /\ \A m \in Networks :
                /\ runs'[m] = IF m = n /\ refCount[n] # 0 /\ n \notin inFlight
                              THEN runs[m] + 1 ELSE runs[m]
                /\ mine'[m] = IF m = n /\ refCount[n] # 0 THEN mine[m] + 1 ELSE mine[m]
  <1>1. CASE refCount[n] = 0
    BY <1>1 DEF Tick, TypeOK
  <1>2. CASE refCount[n] # 0
    BY <1>2, ReconcileOnceEffect DEF Tick, TypeOK
  <1> QED BY <1>1, <1>2

\* What counting a viewer does to them, to the timer and to refCount.
LEMMA AcquireEffect ==
    ASSUME TypeOK, NEW n \in Networks, Acquire(n)
    PROVE  /\ inFlight' = IF refCount[n] > 0 THEN inFlight ELSE inFlight \cup {n}
           /\ runs' \in [Networks -> Nat]
           /\ snapshot' \in [Networks -> Contents \cup {Blank}]
           /\ mine' \in [Networks -> Nat]
           /\ lastHash' \in [Networks -> Contents \cup {Blank}]
           /\ armed' = IF refCount[n] > 0 THEN armed ELSE armed \ {n}
           /\ \A m \in Networks :
                /\ runs'[m] = IF m = n /\ refCount[n] = 0 /\ n \notin inFlight
                              THEN runs[m] + 1 ELSE runs[m]
                /\ mine'[m] = IF m = n /\ refCount[n] = 0 THEN mine[m] + 1 ELSE mine[m]
                /\ refCount'[m] = IF m = n THEN refCount[m] + 1 ELSE refCount[m]
  <1>1. CASE refCount[n] > 0
    BY <1>1 DEF Acquire, TypeOK
  <1>2. CASE refCount[n] = 0
    BY <1>2, ReconcileOnceEffect DEF Acquire, TypeOK
  <1> QED BY <1>1, <1>2 DEF TypeOK

\* Every action preserves the types of the sync manager's state.
LEMMA TypeStep == ASSUME TypeOK, [Next]_vars PROVE TypeOK'
<1> USE DEF TypeOK, NotRead
<1>1. ASSUME NEW s \in Sockets, SocketStep(s) PROVE TypeOK'
  <2>1. CASE Connect(s)
    BY <2>1 DEF Connect, loopVars, runVars, monitorVars
  <2>2. CASE Disconnect(s)
    BY <2>2 DEF Disconnect, Release, runVars, monitorVars
  <2>3. ASSUME NEW n \in Networks, Subscribe(s, n) PROVE TypeOK'
    BY <2>3 DEF Subscribe, loopVars, runVars, monitorVars
  <2>4. ASSUME NEW n \in Networks, AccessDenied(s, n) PROVE TypeOK'
    BY <2>4 DEF AccessDenied, loopVars, runVars, monitorVars
  <2>5. ASSUME NEW n \in Networks, AccessGranted(s, n) PROVE TypeOK'
    <3>1. Acquire(n)
      BY <2>5 DEF AccessGranted
    <3>2. refCount' = [refCount EXCEPT ![n] = @ + 1]
      BY <3>1 DEF Acquire
    <3>3. /\ checking' \in [Sockets -> [Networks -> Nat]]
          /\ subscribed' \in [Sockets -> SUBSET Networks]
          /\ refCount' \in [Networks -> Nat]
      BY <2>5, <3>2 DEF AccessGranted
    <3>4. /\ inFlight' \in SUBSET Networks
          /\ armed' \in SUBSET Networks
      BY <3>1, AcquireEffect
    <3>5. /\ runs' \in [Networks -> Nat]
          /\ snapshot' \in [Networks -> Contents \cup {Blank}]
          /\ mine' \in [Networks -> Nat]
          /\ lastHash' \in [Networks -> Contents \cup {Blank}]
      BY <3>1, AcquireEffect
    <3> QED BY <2>5, <3>3, <3>4, <3>5 DEF AccessGranted, monitorVars
  <2>6. ASSUME NEW n \in Networks, Unsubscribe(s, n) PROVE TypeOK'
    BY <2>6 DEF Unsubscribe, Release, runVars, monitorVars
  <2> QED BY <1>1, <2>1, <2>2, <2>3, <2>4, <2>5, <2>6 DEF SocketStep
<1>2. ASSUME NEW n \in Networks, NetworkStep(n) PROVE TypeOK'
  <2>1. CASE RunReads(n)
    BY <2>1 DEF RunReads, socketVars, loopVars, monitorVars
  <2>2. CASE RunSucceeds(n)
    BY <2>2 DEF RunSucceeds, Settle, Reschedule, socketVars
  <2>3. CASE RunFails(n)
    BY <2>3 DEF RunFails, Settle, Reschedule, socketVars
  <2>4. CASE PageLoad(n)
    BY <2>4, ReconcileOnceEffect DEF PageLoad, socketVars, loopVars, monitorVars
  <2>5. CASE TimerFires(n)
    BY <2>5, TickEffect DEF TimerFires, socketVars, monitorVars
  <2>6. CASE LooseTimerFires(n)
    BY <2>6, TickEffect DEF LooseTimerFires, socketVars, monitorVars
  <2>7. CASE MonitorVisits(n)
    BY <2>7, ReconcileOnceEffect DEF MonitorVisits, socketVars, loopVars
  <2>8. CASE MembersChange(n)
    BY <2>8 DEF MembersChange, socketVars, loopVars, runVars, monitorVars
  <2> QED BY <1>2, <2>1, <2>2, <2>3, <2>4, <2>5, <2>6, <2>7, <2>8 DEF NetworkStep
<1>3. CASE MonitorWakes
  BY <1>3 DEF MonitorWakes, socketVars, loopVars, runVars
<1>4. CASE MonitorSleeps
  BY <1>4 DEF MonitorSleeps, socketVars, loopVars, runVars
<1>5. CASE UNCHANGED vars
  BY <1>5 DEF vars, socketVars, loopVars, runVars, monitorVars
<1> QED BY <1>1, <1>2, <1>3, <1>4, <1>5 DEF Next

\* The state of the live sync always has its type (syncManager.ts,
\* websocket/index.ts, the in-flight map and the monitor).
THEOREM TypeCorrect == Spec => []TypeOK
<1>1. Init => TypeOK
  BY DEF Init, TypeOK, NotRead
<1> QED BY <1>1, TypeStep, PTL DEF Spec

-----------------------------------------------------------------------------
\* No action leaves a registered network without a tick or a pending timer.
LEMMA LoopAliveStep == ASSUME TypeOK, LoopAlive, [Next]_vars PROVE LoopAlive'
<1> USE DEF TypeOK, LoopAlive
<1>1. ASSUME NEW s \in Sockets, SocketStep(s) PROVE LoopAlive'
  <2>1. CASE Connect(s)
    BY <2>1 DEF Connect, loopVars
  <2>2. CASE Disconnect(s)
    BY <2>2 DEF Disconnect, Release
  <2>3. ASSUME NEW n \in Networks, Subscribe(s, n) PROVE LoopAlive'
    BY <2>3 DEF Subscribe, loopVars
  <2>4. ASSUME NEW n \in Networks, AccessDenied(s, n) PROVE LoopAlive'
    BY <2>4 DEF AccessDenied, loopVars
  <2>5. ASSUME NEW n \in Networks, AccessGranted(s, n) PROVE LoopAlive'
    <3>1. Acquire(n) /\ UNCHANGED <<loose, stale>>
      BY <2>5 DEF AccessGranted
    <3> SUFFICES ASSUME NEW m \in Networks, refCount'[m] > 0
                 PROVE  m \in armed' \/ loose'[m] + mine'[m] + stale'[m] > 0
      OBVIOUS
    <3>2. CASE m = n /\ refCount[n] = 0
      <4>1. mine'[m] = mine[m] + 1
        BY <3>1, <3>2, AcquireEffect
      <4> QED BY <3>1, <4>1
    <3>3. CASE ~(m = n /\ refCount[n] = 0)
      <4>1. mine'[m] = mine[m] /\ (m \in armed => m \in armed') /\ refCount[m] > 0
        BY <3>1, <3>3, AcquireEffect
      <4> QED BY <3>1, <4>1
    <3> QED BY <3>2, <3>3
  <2>6. ASSUME NEW n \in Networks, Unsubscribe(s, n) PROVE LoopAlive'
    BY <2>6 DEF Unsubscribe, Release
  <2> QED BY <1>1, <2>1, <2>2, <2>3, <2>4, <2>5, <2>6 DEF SocketStep
<1>2. ASSUME NEW n \in Networks, NetworkStep(n) PROVE LoopAlive'
  <2>1. CASE RunReads(n) \/ PageLoad(n) \/ MonitorVisits(n) \/ MembersChange(n)
    BY <2>1 DEF RunReads, PageLoad, MonitorVisits, MembersChange, loopVars
  <2>2. CASE RunSucceeds(n)
    <3>1. Reschedule(n)
      BY <2>2 DEF RunSucceeds, Settle
    <3> QED BY <3>1 DEF Reschedule
  <2>3. CASE RunFails(n)
    <3>1. Reschedule(n)
      BY <2>3 DEF RunFails, Settle
    <3> QED BY <3>1 DEF Reschedule
  <2>4. CASE TimerFires(n)
    BY <2>4, TickEffect DEF TimerFires
  <2>5. CASE LooseTimerFires(n)
    BY <2>5, TickEffect DEF LooseTimerFires
  <2> QED BY <1>2, <2>1, <2>2, <2>3, <2>4, <2>5 DEF NetworkStep
<1>3. CASE MonitorWakes \/ MonitorSleeps \/ UNCHANGED vars
  BY <1>3 DEF MonitorWakes, MonitorSleeps, vars, loopVars
<1> QED BY <1>1, <1>2, <1>3 DEF Next

\* A viewed network's sync loop is never dead: whatever the order of acquire,
\* release, ticks and reconcile results (syncManager.ts).
THEOREM LoopNeverDies == Spec => []LoopAlive
<1>1. Init => LoopAlive
  BY DEF Init, LoopAlive
<1> QED BY <1>1, TypeCorrect, LoopAliveStep, PTL DEF Spec

-----------------------------------------------------------------------------
\* Every action keeps the in-flight map, the runs and their waiters in step.
LEMMA RunsStep == ASSUME TypeOK, RunsTracked, [Next]_vars PROVE RunsTracked'
<1> USE DEF TypeOK, RunsTracked
<1>1. ASSUME NEW s \in Sockets, SocketStep(s) PROVE RunsTracked'
  <2>1. CASE Connect(s)
    BY <2>1 DEF Connect, loopVars, runVars, monitorVars
  <2>2. CASE Disconnect(s)
    BY <2>2 DEF Disconnect, Release, runVars, monitorVars
  <2>3. ASSUME NEW n \in Networks, Subscribe(s, n) PROVE RunsTracked'
    BY <2>3 DEF Subscribe, loopVars, runVars, monitorVars
  <2>4. ASSUME NEW n \in Networks, AccessDenied(s, n) PROVE RunsTracked'
    BY <2>4 DEF AccessDenied, loopVars, runVars, monitorVars
  <2>5. ASSUME NEW n \in Networks, AccessGranted(s, n) PROVE RunsTracked'
    BY <2>5, AcquireEffect DEF AccessGranted, monitorVars
  <2>6. ASSUME NEW n \in Networks, Unsubscribe(s, n) PROVE RunsTracked'
    BY <2>6 DEF Unsubscribe, Release, runVars, monitorVars
  <2> QED BY <1>1, <2>1, <2>2, <2>3, <2>4, <2>5, <2>6 DEF SocketStep
<1>2. ASSUME NEW n \in Networks, NetworkStep(n) PROVE RunsTracked'
  <2>1. CASE RunReads(n) \/ MembersChange(n)
    BY <2>1 DEF RunReads, MembersChange, loopVars, runVars, monitorVars
  <2>2. CASE RunSucceeds(n)
    BY <2>2 DEF RunSucceeds, Settle, Reschedule
  <2>3. CASE RunFails(n)
    BY <2>3 DEF RunFails, Settle, Reschedule
  <2>4. CASE PageLoad(n)
    BY <2>4, ReconcileOnceEffect DEF PageLoad, loopVars, monitorVars
  <2>5. CASE TimerFires(n)
    BY <2>5, TickEffect DEF TimerFires, monitorVars
  <2>6. CASE LooseTimerFires(n)
    BY <2>6, TickEffect DEF LooseTimerFires, monitorVars
  <2>7. CASE MonitorVisits(n)
    BY <2>7, ReconcileOnceEffect DEF MonitorVisits, loopVars
  <2> QED BY <1>2, <2>1, <2>2, <2>3, <2>4, <2>5, <2>6, <2>7 DEF NetworkStep
<1>3. CASE MonitorWakes \/ MonitorSleeps \/ UNCHANGED vars
  BY <1>3 DEF MonitorWakes, MonitorSleeps, vars, loopVars, runVars, monitorVars
<1> QED BY <1>1, <1>2, <1>3 DEF Next

\* A network is never reconciled twice at once, and nobody awaits a reconcile
\* that is not running (memberService.ts reconcileNetworkMembersOnce).
THEOREM ReconcileExclusive == Spec => []OneReconcile
<1>1. Init => RunsTracked
  BY DEF Init, RunsTracked
<1>2. TypeOK /\ RunsTracked => OneReconcile
  BY DEF TypeOK, RunsTracked, OneReconcile
<1> QED BY <1>1, <1>2, TypeCorrect, RunsStep, PTL DEF Spec

-----------------------------------------------------------------------------
\* The viewers of a network are finitely many.
LEMMA ViewersFinite ==
    ASSUME NEW n \in Networks
    PROVE  IsFiniteSet(Viewers(n)) /\ Cardinality(Viewers(n)) \in Nat
  <1>1. Viewers(n) \in SUBSET Sockets
    BY DEF Viewers
  <1> QED BY <1>1, NetworksFinite, FS_Subset, FS_CardinalityType

\* A viewer fewer is a smaller count; a viewer more is at most one more.
LEMMA ViewersStep ==
    ASSUME TypeOK, TypeOK', NEW s \in Sockets, NEW n \in Networks,
           \A z \in Sockets : z # s => subscribed'[z] = subscribed[z]
    PROVE  Cardinality(Viewers(n)') =
              Cardinality(Viewers(n))
              + (IF n \in subscribed'[s] THEN 1 ELSE 0)
              - (IF n \in subscribed[s] THEN 1 ELSE 0)
  <1>1. IsFiniteSet(Viewers(n)) /\ Cardinality(Viewers(n)) \in Nat
    BY ViewersFinite
  <1>2. CASE n \in subscribed'[s]
    <2>1. Viewers(n)' = Viewers(n) \cup {s}
      BY <1>2 DEF Viewers, TypeOK
    <2>2. s \in Viewers(n) <=> n \in subscribed[s]
      BY DEF Viewers
    <2>3. Cardinality(Viewers(n) \cup {s}) =
            IF s \in Viewers(n) THEN Cardinality(Viewers(n)) ELSE Cardinality(Viewers(n)) + 1
      BY <1>1, FS_AddElement
    <2> QED BY <1>1, <1>2, <2>1, <2>2, <2>3
  <1>3. CASE n \notin subscribed'[s]
    <2>1. Viewers(n)' = Viewers(n) \ {s}
      BY <1>3 DEF Viewers, TypeOK
    <2>2. s \in Viewers(n) <=> n \in subscribed[s]
      BY DEF Viewers
    <2>3. Cardinality(Viewers(n) \ {s}) =
            IF s \in Viewers(n) THEN Cardinality(Viewers(n)) - 1 ELSE Cardinality(Viewers(n))
      BY <1>1, FS_RemoveElement
    <2> QED BY <1>1, <1>3, <2>1, <2>2, <2>3
  <1> QED BY <1>2, <1>3

\* A viewer's own subscription counts in its network's refCount.
LEMMA ViewerCounts ==
    ASSUME TypeOK, ViewersCounted, NEW s \in Sockets, NEW n \in Networks, n \in subscribed[s]
    PROVE  refCount[n] > 0
  <1>1. IsFiniteSet(Viewers(n)) /\ Cardinality(Viewers(n)) \in Nat
    BY ViewersFinite
  <1>2. s \in Viewers(n)
    BY DEF Viewers
  <1>3. Cardinality(Viewers(n)) > 0
    BY <1>1, <1>2, FS_EmptySet
  <1> QED BY <1>1, <1>3 DEF ViewersCounted, TypeOK

\* Every action keeps refCount at or above the number of viewers.
LEMMA ViewersCountedStep ==
    ASSUME TypeOK, TypeOK', ViewersCounted, [Next]_vars PROVE ViewersCounted'
<1>1. ASSUME NEW s \in Sockets, SocketStep(s) PROVE ViewersCounted'
  <2>1. CASE Connect(s)
    BY <2>1 DEF Connect, loopVars, ViewersCounted, Viewers
  <2>2. CASE Disconnect(s)
    <3> SUFFICES ASSUME NEW n \in Networks PROVE (Cardinality(Viewers(n)) <= refCount[n])'
      BY DEF ViewersCounted
    <3>1. /\ subscribed' = [subscribed EXCEPT ![s] = {}]
          /\ refCount'[n] = IF n \in subscribed[s] /\ refCount[n] > 0
                            THEN refCount[n] - 1 ELSE refCount[n]
      BY <2>2 DEF Disconnect, Release
    <3>2. Cardinality(Viewers(n)') =
              Cardinality(Viewers(n)) - (IF n \in subscribed[s] THEN 1 ELSE 0)
      BY <3>1, ViewersStep, ViewersFinite DEF TypeOK
    <3> QED BY <3>1, <3>2, ViewersFinite, ViewerCounts DEF ViewersCounted, TypeOK
  <2>3. ASSUME NEW n \in Networks, Subscribe(s, n) \/ AccessDenied(s, n) PROVE ViewersCounted'
    BY <2>3 DEF Subscribe, AccessDenied, loopVars, ViewersCounted, Viewers
  <2>4. ASSUME NEW m \in Networks, AccessGranted(s, m) PROVE ViewersCounted'
    <3> SUFFICES ASSUME NEW n \in Networks PROVE (Cardinality(Viewers(n)) <= refCount[n])'
      BY DEF ViewersCounted
    <3>1. /\ subscribed' = [subscribed EXCEPT ![s] = @ \cup {m}]
          /\ refCount' = [refCount EXCEPT ![m] = @ + 1]
      BY <2>4 DEF AccessGranted, Acquire
    <3>2. /\ \A z \in Sockets : z # s => subscribed'[z] = subscribed[z]
          /\ n \in subscribed'[s] <=> n \in subscribed[s] \/ n = m
          /\ refCount'[n] = IF n = m THEN refCount[n] + 1 ELSE refCount[n]
      BY <3>1 DEF TypeOK
    <3>3. Cardinality(Viewers(n)') =
              Cardinality(Viewers(n)) + (IF n \in subscribed'[s] THEN 1 ELSE 0)
                                      - (IF n \in subscribed[s] THEN 1 ELSE 0)
      BY <3>2, ViewersStep
    <3>4. Cardinality(Viewers(n)) \in Nat /\ refCount[n] \in Nat /\ Cardinality(Viewers(n)) <= refCount[n]
      BY ViewersFinite DEF ViewersCounted, TypeOK
    <3> QED BY <3>2, <3>3, <3>4
  <2>5. ASSUME NEW m \in Networks, Unsubscribe(s, m) PROVE ViewersCounted'
    <3> SUFFICES ASSUME NEW n \in Networks PROVE (Cardinality(Viewers(n)) <= refCount[n])'
      BY DEF ViewersCounted
    <3>1. /\ m \in subscribed[s]
          /\ subscribed' = [subscribed EXCEPT ![s] = @ \ {m}]
          /\ refCount'[n] = IF n = m /\ refCount[n] > 0 THEN refCount[n] - 1 ELSE refCount[n]
      BY <2>5 DEF Unsubscribe, Release
    <3>2. /\ \A z \in Sockets : z # s => subscribed'[z] = subscribed[z]
          /\ n \in subscribed'[s] <=> n \in subscribed[s] /\ n # m
      BY <3>1 DEF TypeOK
    <3>3. Cardinality(Viewers(n)') =
              Cardinality(Viewers(n)) + (IF n \in subscribed'[s] THEN 1 ELSE 0)
                                      - (IF n \in subscribed[s] THEN 1 ELSE 0)
      BY <3>2, ViewersStep
    <3>4. Cardinality(Viewers(n)) \in Nat /\ refCount[n] \in Nat /\ Cardinality(Viewers(n)) <= refCount[n]
      BY ViewersFinite DEF ViewersCounted, TypeOK
    <3>5. n = m => refCount[n] > 0
      BY <3>1, ViewerCounts
    <3> QED BY <3>1, <3>2, <3>3, <3>4, <3>5
  <2> QED BY <1>1, <2>1, <2>2, <2>3, <2>4, <2>5 DEF SocketStep
<1>2. ASSUME UNCHANGED <<subscribed, refCount>> PROVE ViewersCounted'
  BY <1>2 DEF ViewersCounted, Viewers
<1>3. ASSUME NEW n \in Networks, NetworkStep(n) PROVE UNCHANGED <<subscribed, refCount>>
  BY <1>3 DEF NetworkStep, RunReads, RunSucceeds, RunFails, PageLoad, TimerFires,
     LooseTimerFires, MonitorVisits, MembersChange, Settle, Reschedule, socketVars, loopVars
<1>4. CASE MonitorWakes \/ MonitorSleeps \/ UNCHANGED vars
  BY <1>2, <1>4 DEF MonitorWakes, MonitorSleeps, vars, socketVars, loopVars
<1> QED BY <1>1, <1>2, <1>3, <1>4 DEF Next

\* No release stops the loop of a network somebody still views, though the
\* subscribe handler does not look again after its access check
\* (websocket/index.ts, syncManager.ts acquire and release).
THEOREM ViewersAlwaysCounted == Spec => []ViewersCounted
<1>1. Init => ViewersCounted
  <2> SUFFICES ASSUME Init, NEW n \in Networks PROVE Cardinality(Viewers(n)) <= refCount[n]
    BY DEF ViewersCounted
  <2>1. Viewers(n) = {} /\ refCount[n] = 0
    BY DEF Init, Viewers
  <2> QED BY <2>1, FS_EmptySet
<1> QED BY <1>1, TypeCorrect, ViewersCountedStep, PTL DEF Spec
=============================================================================
