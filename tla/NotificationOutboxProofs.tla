---------------------- MODULE NotificationOutboxProofs ----------------------
(***************************************************************************)
(* Proofs about NotificationOutbox, for any sessions, events, destinations *)
(* and workers, any batch size and any number of retries.                  *)
(***************************************************************************)
EXTENDS NotificationOutbox, TLAPS

\* A worker holds a row exactly between its claim and the row's last update.
PcHolds ==
    \A w \in Workers : job[w] # Nobody <=> pc[w] \in {"cancel", "post", "sent", "unknown"}

\* A row whose sender is at work is not taken for interrupted.
HeldIsYoung == \A w \in Workers : job[w] \notin old

\* A session whose login is not recorded has no row yet, and only events go
\* through enqueueNotification on their own.
NewHasNoRow == \A k \in Sessions : /\ session[k] \in {"none", "new"} => status[k] = "none"
                                   /\ queueing[k] = {}

\* An event without a row was never posted.
NoRowNoPost == \A k \in Keys : status[k] = "none" => posts[k] = 0 /\ postedTo[k] = {}

\* What one event may still be posted: once more while it is queued or claimed
\* for posting, and never again without a retry.
Allowance ==
    \A k \in Keys :
        /\ posts[k] <= 1 + retries[k]
        /\ status[k] = "pending" => posts[k] <= retries[k]
        /\ \A w \in Workers : job[w] = k /\ pc[w] = "post" => posts[k] <= retries[k]

\* A worker about to post has compared the destinations, and one about to store
\* "sent" has been answered.
PostReady ==
    \A w \in Workers : /\ pc[w] = "post" => dest[job[w]] = opts[w].dest
                       /\ pc[w] = "sent" => job[w] \in confirmed

Statuses == Finished \cup {"none", "pending", "sending", "purged"}

\* What inserting an event does to the rows.
LEMMA InsertEffect ==
    ASSUME TypeOK, NEW k \in Keys, NEW d \in Destinations, Insert(k, d)
    PROVE  /\ status' \in [Keys -> Statuses]
           /\ dest' \in [Keys -> Destinations]
           /\ attempts' \in [Keys -> Nat]
           /\ old' \in SUBSET old
           /\ \A j \in Keys : status'[j] = IF j = k /\ status[k] \in {"none", "purged"}
                                           THEN "pending" ELSE status[j]
           /\ \A j \in Keys : j # k \/ status[k] \notin {"none", "purged"} => dest'[j] = dest[j]
  <1>1. CASE status[k] \in {"none", "purged"}
    <2>1. /\ status' = [status EXCEPT ![k] = "pending"]
          /\ dest' = [dest EXCEPT ![k] = d]
          /\ attempts' = [attempts EXCEPT ![k] = 0]
          /\ old' = old \ {k}
      BY <1>1 DEF Insert
    <2> QED BY <1>1, <2>1 DEF TypeOK, Statuses, Finished
  <1>2. CASE status[k] \notin {"none", "purged"}
    BY <1>2 DEF Insert, TypeOK, Statuses, Finished, rowVars
  <1> QED BY <1>1, <1>2

\* What recording a login does to the rows and the sessions.
LEMMA RecordEffect ==
    ASSUME TypeOK, NEW k \in Sessions, RecordLoginSession(k)
    PROVE  /\ status' \in [Keys -> Statuses]
           /\ dest' \in [Keys -> Destinations]
           /\ attempts' \in [Keys -> Nat]
           /\ old' \in SUBSET old
           /\ session' \in [Sessions -> {"none", "new", "recorded", "gone"}]
           /\ \A j \in Sessions : session'[j] = IF j = k /\ session[k] = "new"
                                                 THEN "recorded" ELSE session[j]
           /\ \A j \in Keys :
                \/ status'[j] = status[j] /\ dest'[j] = dest[j]
                \/ /\ j = k /\ session[k] = "new" /\ status'[j] = "pending"
                   /\ status[j] \in {"none", "purged"}
  <1>0. k \in Keys
    BY DEF Keys
  <1>1. CASE session[k] = "new" /\ options.push = "on" /\ template = "on"
    <2>1. /\ Insert(k, options.dest)
          /\ session' = [session EXCEPT ![k] = "recorded"]
          /\ options.dest \in Destinations
      BY <1>1 DEF RecordLoginSession, TypeOK
    <2> QED BY <1>0, <1>1, <2>1, InsertEffect DEF TypeOK
  <1>2. CASE session[k] = "new" /\ ~(options.push = "on" /\ template = "on")
    BY <1>2 DEF RecordLoginSession, rowVars, TypeOK, Statuses, Finished
  <1>3. CASE session[k] # "new"
    BY <1>3 DEF RecordLoginSession, rowVars, TypeOK, Statuses, Finished
  <1> QED BY <1>1, <1>2, <1>3

\* What a claim does: the row was pending, or nothing but the batch changes.
LEMMA ClaimEffect ==
    ASSUME TypeOK, NEW w \in Workers, NEW k \in Keys, DrainClaims(w, k)
    PROVE  /\ pc[w] = "claim"
           /\ \/ /\ status[k] = "pending"
                 /\ status' = [status EXCEPT ![k] = "sending"]
                 /\ old' = old \ {k}
                 /\ attempts' = [attempts EXCEPT ![k] = @ + 1]
                 /\ job' = [job EXCEPT ![w] = k]
                 /\ \E place \in {"post", "cancel"} :
                        /\ pc' = [pc EXCEPT ![w] = place]
                        /\ place = "post" => dest[k] = opts[w].dest
              \/ UNCHANGED <<status, old, attempts, job, pc>>
  BY DEF DrainClaims, SetStatus, Goto

\* Every action preserves the types of the outbox.
LEMMA TypeStep == ASSUME TypeOK, PcHolds, [Next]_vars PROVE TypeOK'
<1> USE DEF TypeOK, Keys, Finished
<1> USE KeysApart
<1>1. ASSUME NEW w \in Workers, WorkerStep(w) PROVE TypeOK'
  <2>1. CASE DrainStarts(w)
    BY <2>1 DEF DrainStarts, Take, Goto, adminVars, rowVars, historyVars
  <2>2. CASE DrainExpires(w)
    BY <2>2 DEF DrainExpires, SetAll, Goto, adminVars, historyVars
  <2>3. CASE DrainReadsOptions(w)
    BY <2>3 DEF DrainReadsOptions, Goto, adminVars, rowVars, historyVars
  <2>4. CASE DrainRecovers(w)
    BY <2>4 DEF DrainRecovers, SetAll, Goto, adminVars, historyVars
  <2>5. CASE DrainTakes(w)
    BY <2>5 DEF DrainTakes, Take, Rows, Goto, adminVars, rowVars, historyVars
  <2>6. CASE DrainCancels(w) \/ DrainStoresSent(w) \/ DrainStoresUnknown(w)
    <3>1. CASE DrainCancels(w)
      BY <3>1 DEF DrainCancels, Settle, SetStatus, Goto, adminVars, historyVars
    <3>2. CASE DrainStoresSent(w)
      BY <3>2 DEF DrainStoresSent, Settle, SetStatus, Goto, adminVars, historyVars
    <3>3. CASE DrainStoresUnknown(w)
      BY <3>3 DEF DrainStoresUnknown, Settle, SetStatus, Goto, adminVars, historyVars
    <3> QED BY <2>6, <3>1, <3>2, <3>3
  <2>7. CASE DrainPosts(w)
    <3>1. job[w] \in Keys
      BY <2>7 DEF DrainPosts, PcHolds
    <3>2. \E place \in {"sent", "unknown"} : pc' = [pc EXCEPT ![w] = place]
      BY <2>7 DEF DrainPosts, Goto
    <3>3. /\ confirmed' \in SUBSET Keys
          /\ posts' \in [Keys -> Nat]
          /\ postedTo' \in [Keys -> SUBSET Destinations]
      <4>1. CASE UNCHANGED <<posts, postedTo, confirmed>>
        BY <4>1
      <4>2. CASE /\ posts' = [posts EXCEPT ![job[w]] = @ + 1]
                 /\ postedTo' = [postedTo EXCEPT ![job[w]] = @ \cup {opts[w].dest}]
                 /\ confirmed' = confirmed \cup {job[w]} \/ confirmed' = confirmed
        <5>1. opts[w].dest \in Destinations
          OBVIOUS
        <5> QED BY <3>1, <4>2, <5>1
      <4> QED BY <2>7, <4>1, <4>2 DEF DrainPosts
    <3>4. pc' \in [Workers -> {"idle", "record", "options", "recover", "take", "claim",
                              "cancel", "post", "sent", "unknown", "down"}]
      BY <3>2
    <3> QED BY <2>7, <3>3, <3>4 DEF DrainPosts, adminVars, rowVars
  <2>8. CASE DrainPurges(w)
    BY <2>8 DEF DrainPurges, Goto, adminVars, historyVars
  <2>9. ASSUME NEW k \in Sessions, DrainRecords(w, k) PROVE TypeOK'
    <3>1. RecordLoginSession(k)
      BY <2>9 DEF DrainRecords
    <3> QED BY <2>9, <3>1, RecordEffect DEF DrainRecords, Statuses, adminVars, historyVars
  <2>10. ASSUME NEW k \in Keys, DrainClaims(w, k) PROVE TypeOK'
    <3>1. CASE UNCHANGED <<status, old, attempts, job, pc>>
      BY <2>10, <3>1 DEF DrainClaims, adminVars, historyVars
    <3>2. ASSUME NEW place \in {"post", "cancel"},
                 /\ status' = [status EXCEPT ![k] = "sending"]
                 /\ old' = old \ {k}
                 /\ attempts' = [attempts EXCEPT ![k] = @ + 1]
                 /\ job' = [job EXCEPT ![w] = k]
                 /\ pc' = [pc EXCEPT ![w] = place]
          PROVE  TypeOK'
      BY <2>10, <3>2 DEF DrainClaims, adminVars, historyVars
    <3> QED BY <2>10, <3>1, <3>2, ClaimEffect
  <2>11. CASE StatementFails(w)
    BY <2>11 DEF StatementFails, Goto, adminVars, rowVars, historyVars
  <2>12. CASE Crash(w) \/ Restart(w)
    BY <2>12 DEF Crash, Restart, Goto, adminVars, rowVars, historyVars
  <2> QED BY <1>1, <2>1, <2>2, <2>3, <2>4, <2>5, <2>6, <2>7, <2>8, <2>9, <2>10, <2>11, <2>12
       DEF WorkerStep, DrainStep
<1>2. ASSUME NEW k \in Keys, KeyStep(k) PROVE TypeOK'
  <2>1. CASE GrowsOld(k)
    BY <2>1 DEF GrowsOld, adminVars, workerVars, historyVars
  <2>2. CASE EnqueueReads(k) \/ RetryReads(k)
    BY <2>2 DEF EnqueueReads, RetryReads, rowVars, workerVars, historyVars
  <2>3. ASSUME NEW d \in Destinations, EnqueueInserts(k, d) PROVE TypeOK'
    BY <2>3, InsertEffect DEF EnqueueInserts, Statuses, workerVars, historyVars
  <2>4. ASSUME NEW d \in Destinations, RetryStores(k, d) PROVE TypeOK'
    BY <2>4 DEF RetryStores, SetStatus, workerVars
  <2> QED BY <1>2, <2>1, <2>2, <2>3, <2>4 DEF KeyStep
<1>3. ASSUME NEW k \in Sessions, SessionStep(k) PROVE TypeOK'
  <2>1. CASE SignIn(k) \/ SessionEnds(k)
    BY <2>1 DEF SignIn, SessionEnds, adminVars, rowVars, workerVars, historyVars
  <2>2. CASE HookRecords(k)
    BY <2>2, RecordEffect DEF HookRecords, Statuses, adminVars, workerVars, historyVars
  <2> QED BY <1>3, <2>1, <2>2 DEF SessionStep
<1>4. ASSUME NEW new \in [push : {"on", "off"}, dest : Destinations], SetOptions(new) PROVE TypeOK'
  BY <1>4 DEF SetOptions, rowVars, workerVars, historyVars
<1>5. CASE SaveTemplate
  BY <1>5 DEF SaveTemplate, rowVars, workerVars, historyVars
<1>6. CASE UNCHANGED vars
  BY <1>6 DEF vars, adminVars, rowVars, workerVars, historyVars
<1> QED BY <1>1, <1>2, <1>3, <1>4, <1>5, <1>6 DEF Next

-----------------------------------------------------------------------------
\* Claims.
Claims == PcHolds /\ ClaimExclusive /\ HeldIsYoung

\* A row is held by at most one worker, is in sending while held, and is not
\* taken for interrupted: every action keeps it so.
LEMMA ClaimsStep == ASSUME TypeOK, Claims, [Next]_vars PROVE Claims'
<1> USE KeysApart DEF TypeOK, Claims, PcHolds, ClaimExclusive, HeldIsYoung, Finished
<1>1. ASSUME NEW w \in Workers, WorkerStep(w) PROVE Claims'
  <2>1. CASE DrainStarts(w)
    BY <2>1 DEF DrainStarts, Goto, adminVars, rowVars, historyVars
  <2>2. CASE DrainExpires(w)
    BY <2>2 DEF DrainExpires, SetAll, Rows, Goto, adminVars, historyVars
  <2>3. CASE DrainReadsOptions(w)
    BY <2>3 DEF DrainReadsOptions, Goto, adminVars, rowVars, historyVars
  <2>4. CASE DrainRecovers(w)
    BY <2>4 DEF DrainRecovers, SetAll, Rows, Goto, adminVars, historyVars
  <2>5. CASE DrainTakes(w)
    BY <2>5 DEF DrainTakes, Goto, adminVars, rowVars, historyVars
  <2>6. CASE DrainCancels(w)
    BY <2>6 DEF DrainCancels, Settle, SetStatus, Goto, adminVars, historyVars
  <2>7. CASE DrainStoresSent(w)
    BY <2>7 DEF DrainStoresSent, Settle, SetStatus, Goto, adminVars, historyVars
  <2>8. CASE DrainStoresUnknown(w)
    BY <2>8 DEF DrainStoresUnknown, Settle, SetStatus, Goto, adminVars, historyVars
  <2>9. CASE DrainPosts(w)
    <3>1. /\ UNCHANGED <<status, old, job>>
          /\ pc[w] = "post"
          /\ \E place \in {"sent", "unknown"} : pc' = [pc EXCEPT ![w] = place]
      BY <2>9 DEF DrainPosts, Goto, rowVars
    <3> QED BY <3>1
  <2>10. CASE DrainPurges(w)
    BY <2>10 DEF DrainPurges, Goto, adminVars, historyVars
  <2>11. CASE StatementFails(w)
    <3>1. CASE pc[w] = "sent"
      <4>1. /\ pc' = [pc EXCEPT ![w] = "unknown"]
            /\ UNCHANGED <<status, old, job>>
        BY <2>11, <3>1 DEF StatementFails, Goto, rowVars
      <4>2. PcHolds'
        BY <4>1, <3>1
      <4>3. ClaimExclusive' /\ HeldIsYoung'
        BY <4>1
      <4> QED BY <4>2, <4>3
    <3>2. CASE pc[w] # "sent"
      <4>1. /\ pc' = [pc EXCEPT ![w] = "idle"] /\ job' = [job EXCEPT ![w] = Nobody]
            /\ UNCHANGED <<status, old>>
        BY <2>11, <3>2 DEF StatementFails, Goto, rowVars
      <4> QED BY <4>1
    <3> QED BY <3>1, <3>2
  <2>12. CASE Crash(w)
    BY <2>12 DEF Crash, Goto, adminVars, rowVars, historyVars
  <2>13. CASE Restart(w)
    BY <2>13 DEF Restart, Goto, adminVars, rowVars, historyVars
  <2>14. ASSUME NEW k \in Sessions, DrainRecords(w, k) PROVE Claims'
    <3>1. k \in Keys /\ RecordLoginSession(k) /\ UNCHANGED <<pc, job, opts>>
          /\ UNCHANGED <<posts, postedTo, confirmed, retries, queueing>>
      BY <2>14 DEF DrainRecords, Keys, adminVars, historyVars
    <3>2. /\ old' \in SUBSET old
          /\ \A j \in Sessions : session'[j] = IF j = k /\ session[k] = "new"
                                                THEN "recorded" ELSE session[j]
          /\ \A j \in Keys :
                \/ status'[j] = status[j] /\ dest'[j] = dest[j]
                \/ /\ j = k /\ session[k] = "new" /\ status'[j] = "pending"
                   /\ status[j] \in {"none", "purged"}
      BY <3>1, RecordEffect
    <3> QED BY <3>1, <3>2 DEF Keys
  <2>15. ASSUME NEW k \in Keys, DrainClaims(w, k) PROVE Claims'
    <3>1. UNCHANGED <<session, dest, opts, posts, postedTo, confirmed, retries, queueing>>
      BY <2>15 DEF DrainClaims, adminVars, historyVars
    <3>2. CASE UNCHANGED <<status, old, attempts, job, pc>>
      BY <3>1, <3>2
    <3>3. ASSUME NEW place \in {"post", "cancel"}, pc[w] = "claim", status[k] = "pending",
                 place = "post" => dest[k] = opts[w].dest,
                 status' = [status EXCEPT ![k] = "sending"],
                 old' = old \ {k},
                 job' = [job EXCEPT ![w] = k],
                 pc' = [pc EXCEPT ![w] = place]
          PROVE  Claims'
      BY <3>1, <3>3
    <3> QED BY <2>15, <3>2, <3>3, ClaimEffect
  <2> QED BY <1>1, <2>1, <2>2, <2>3, <2>4, <2>5, <2>6, <2>7, <2>8, <2>9, <2>10, <2>11, <2>12, <2>13, <2>14, <2>15
       DEF WorkerStep, DrainStep
<1>2. ASSUME NEW k \in Keys, KeyStep(k) PROVE Claims'
  <2>1. CASE GrowsOld(k)
    BY <2>1 DEF GrowsOld, Held, adminVars, workerVars, historyVars
  <2>2. CASE EnqueueReads(k)
    BY <2>2 DEF EnqueueReads, rowVars, workerVars, historyVars
  <2>3. CASE RetryReads(k)
    BY <2>3 DEF RetryReads, rowVars, workerVars, historyVars
  <2>4. ASSUME NEW d \in Destinations, EnqueueInserts(k, d) PROVE Claims'
    BY <2>4, InsertEffect DEF EnqueueInserts, workerVars, historyVars
  <2>5. ASSUME NEW d \in Destinations, RetryStores(k, d) PROVE Claims'
    BY <2>5 DEF RetryStores, SetStatus, workerVars
  <2> QED BY <1>2, <2>1, <2>2, <2>3, <2>4, <2>5 DEF KeyStep
<1>3. ASSUME NEW k \in Sessions, SessionStep(k) PROVE Claims'
  <2>1. CASE SignIn(k) \/ SessionEnds(k)
    BY <2>1 DEF SignIn, SessionEnds, adminVars, rowVars, workerVars, historyVars
  <2>2. CASE HookRecords(k)
    <3>1. k \in Keys /\ RecordLoginSession(k) /\ UNCHANGED <<pc, job, opts>>
          /\ UNCHANGED <<posts, postedTo, confirmed, retries, queueing>>
      BY <2>2 DEF HookRecords, Keys, adminVars, workerVars, historyVars
    <3>2. /\ old' \in SUBSET old
          /\ \A j \in Sessions : session'[j] = IF j = k /\ session[k] = "new"
                                                THEN "recorded" ELSE session[j]
          /\ \A j \in Keys :
                \/ status'[j] = status[j] /\ dest'[j] = dest[j]
                \/ /\ j = k /\ session[k] = "new" /\ status'[j] = "pending"
                   /\ status[j] \in {"none", "purged"}
      BY <3>1, RecordEffect
    <3> QED BY <3>1, <3>2 DEF Keys
  <2> QED BY <1>3, <2>1, <2>2 DEF SessionStep
<1>4. ASSUME NEW new \in [push : {"on", "off"}, dest : Destinations], SetOptions(new) PROVE Claims'
  BY <1>4 DEF SetOptions, rowVars, workerVars, historyVars
<1>5. CASE SaveTemplate \/ UNCHANGED vars
  BY <1>5 DEF SaveTemplate, vars, adminVars, rowVars, workerVars, historyVars
<1> QED BY <1>1, <1>2, <1>3, <1>4, <1>5 DEF Next

\* Budget.
Budget == NewHasNoRow /\ NoRowNoPost /\ Allowance

\* Every action spends a post only where a queueing or a retry granted one.
LEMMA BudgetStep == ASSUME TypeOK, Claims, Budget, [Next]_vars PROVE Budget'
<1> USE KeysApart DEF TypeOK, Claims, PcHolds, ClaimExclusive, Budget, NewHasNoRow, NoRowNoPost, Allowance, Finished
<1>1. ASSUME NEW w \in Workers, WorkerStep(w) PROVE Budget'
  <2>1. CASE DrainStarts(w)
    BY <2>1 DEF DrainStarts, Goto, adminVars, rowVars, historyVars
  <2>2. CASE DrainExpires(w)
    <3>1. /\ UNCHANGED <<posts, postedTo, confirmed, retries, session, queueing, job>>
          /\ \A v \in Workers : pc'[v] = "post" => pc[v] = "post"
          /\ \A j \in Keys : \/ status'[j] = status[j]
                             \/ /\ status[j] \in Finished \cup {"pending", "sending"}
                                /\ status'[j] \in {"cancelled", "unknown", "purged"}
      BY <2>2 DEF DrainExpires, SetAll, Rows, Goto, adminVars, historyVars
    <3>2. NewHasNoRow'
      BY <3>1 DEF Keys
    <3>3. NoRowNoPost'
      BY <3>1
    <3>4. Allowance'
      BY <3>1
    <3> QED BY <3>2, <3>3, <3>4
  <2>3. CASE DrainReadsOptions(w)
    BY <2>3 DEF DrainReadsOptions, Goto, adminVars, rowVars, historyVars
  <2>4. CASE DrainRecovers(w)
    <3>1. /\ UNCHANGED <<posts, postedTo, confirmed, retries, session, queueing, job>>
          /\ \A v \in Workers : pc'[v] = "post" => pc[v] = "post"
          /\ \A j \in Keys : \/ status'[j] = status[j]
                             \/ /\ status[j] \in Finished \cup {"pending", "sending"}
                                /\ status'[j] \in {"cancelled", "unknown", "purged"}
      BY <2>4 DEF DrainRecovers, SetAll, Rows, Goto, adminVars, historyVars
    <3>2. NewHasNoRow'
      BY <3>1 DEF Keys
    <3>3. NoRowNoPost'
      BY <3>1
    <3>4. Allowance'
      BY <3>1
    <3> QED BY <3>2, <3>3, <3>4
  <2>5. CASE DrainTakes(w)
    BY <2>5 DEF DrainTakes, Goto, adminVars, rowVars, historyVars
  <2>6. CASE DrainCancels(w)
    BY <2>6 DEF DrainCancels, Settle, SetStatus, Goto, adminVars, historyVars
  <2>7. CASE DrainStoresSent(w)
    BY <2>7 DEF DrainStoresSent, Settle, SetStatus, Goto, adminVars, historyVars
  <2>8. CASE DrainStoresUnknown(w)
    BY <2>8 DEF DrainStoresUnknown, Settle, SetStatus, Goto, adminVars, historyVars
  <2>9. CASE DrainPosts(w)
    <3>1. /\ UNCHANGED <<status, retries, session, queueing, job>>
          /\ job[w] \in Keys /\ pc[w] = "post"
          /\ \E place \in {"sent", "unknown"} : pc' = [pc EXCEPT ![w] = place]
          /\ \/ UNCHANGED <<posts, postedTo>>
             \/ /\ posts' = [posts EXCEPT ![job[w]] = @ + 1]
                /\ postedTo' = [postedTo EXCEPT ![job[w]] = @ \cup {opts[w].dest}]
      BY <2>9 DEF DrainPosts, Goto, adminVars, rowVars
    <3>2. CASE UNCHANGED <<posts, postedTo>>
      BY <3>1, <3>2
    <3>3. CASE /\ posts' = [posts EXCEPT ![job[w]] = @ + 1]
               /\ postedTo' = [postedTo EXCEPT ![job[w]] = @ \cup {opts[w].dest}]
      <4>0. status[job[w]] = "sending"
        BY <3>1
      <4>1. \A j \in Keys : status'[j] = "none" => posts'[j] = 0 /\ postedTo'[j] = {}
        BY <3>1, <3>3, <4>0
      <4>2. \A v \in Workers : pc'[v] = "post" => v # w /\ pc[v] = "post" /\ job[v] # job[w]
        BY <3>1
      <4>3. \A j \in Keys : posts'[j] = IF j = job[w] THEN posts[j] + 1 ELSE posts[j]
        BY <3>1, <3>3
      <4>4. posts[job[w]] <= retries[job[w]] /\ status[job[w]] = "sending"
        BY <3>1
      <4> QED BY <3>1, <4>1, <4>2, <4>3, <4>4
    <3> QED BY <3>1, <3>2, <3>3
  <2>10. CASE DrainPurges(w)
    <3>1. /\ UNCHANGED <<posts, postedTo, confirmed, retries, session, queueing, job>>
          /\ \A v \in Workers : pc'[v] = "post" => pc[v] = "post"
          /\ \A j \in Keys : \/ status'[j] = status[j]
                             \/ /\ status[j] \in Finished \cup {"pending", "sending"}
                                /\ status'[j] \in {"cancelled", "unknown", "purged"}
      BY <2>10 DEF DrainPurges, Goto, adminVars, historyVars
    <3>2. NewHasNoRow'
      BY <3>1 DEF Keys
    <3>3. NoRowNoPost'
      BY <3>1
    <3>4. Allowance'
      BY <3>1
    <3> QED BY <3>2, <3>3, <3>4
  <2>11. CASE StatementFails(w)
    BY <2>11 DEF StatementFails, Goto, adminVars, rowVars, historyVars
  <2>12. CASE Crash(w)
    BY <2>12 DEF Crash, Goto, adminVars, rowVars, historyVars
  <2>13. CASE Restart(w)
    BY <2>13 DEF Restart, Goto, adminVars, rowVars, historyVars
  <2>14. ASSUME NEW k \in Sessions, DrainRecords(w, k) PROVE Budget'
    <3>1. k \in Keys /\ RecordLoginSession(k) /\ UNCHANGED <<pc, job, opts>>
          /\ UNCHANGED <<posts, postedTo, confirmed, retries, queueing>>
      BY <2>14 DEF DrainRecords, Keys, adminVars, historyVars
    <3>2. /\ old' \in SUBSET old
          /\ \A j \in Sessions : session'[j] = IF j = k /\ session[k] = "new"
                                                THEN "recorded" ELSE session[j]
          /\ \A j \in Keys :
                \/ status'[j] = status[j] /\ dest'[j] = dest[j]
                \/ /\ j = k /\ session[k] = "new" /\ status'[j] = "pending"
                   /\ status[j] \in {"none", "purged"}
      BY <3>1, RecordEffect
    <3>3. NewHasNoRow'
      BY <3>1, <3>2 DEF Keys
    <3>4. NoRowNoPost'
      BY <3>1, <3>2 DEF Keys
    <3>5. Allowance'
      BY <3>1, <3>2 DEF Keys
    <3> QED BY <3>3, <3>4, <3>5
  <2>15. ASSUME NEW k \in Keys, DrainClaims(w, k) PROVE Budget'
    <3>1. UNCHANGED <<session, dest, opts, posts, postedTo, confirmed, retries, queueing>>
      BY <2>15 DEF DrainClaims, adminVars, historyVars
    <3>2. CASE UNCHANGED <<status, old, attempts, job, pc>>
      BY <3>1, <3>2
    <3>3. ASSUME NEW place \in {"post", "cancel"}, pc[w] = "claim", status[k] = "pending",
                 place = "post" => dest[k] = opts[w].dest,
                 status' = [status EXCEPT ![k] = "sending"],
                 old' = old \ {k},
                 job' = [job EXCEPT ![w] = k],
                 pc' = [pc EXCEPT ![w] = place]
          PROVE  Budget'
      BY <3>1, <3>3
    <3> QED BY <2>15, <3>2, <3>3, ClaimEffect
  <2> QED BY <1>1, <2>1, <2>2, <2>3, <2>4, <2>5, <2>6, <2>7, <2>8, <2>9, <2>10, <2>11, <2>12, <2>13, <2>14, <2>15
       DEF WorkerStep, DrainStep
<1>2. ASSUME NEW k \in Keys, KeyStep(k) PROVE Budget'
  <2>1. CASE GrowsOld(k)
    BY <2>1 DEF GrowsOld, adminVars, workerVars, historyVars
  <2>2. CASE EnqueueReads(k)
    BY <2>2 DEF EnqueueReads, rowVars, workerVars, historyVars
  <2>3. CASE RetryReads(k)
    BY <2>3 DEF RetryReads, rowVars, workerVars, historyVars
  <2>4. ASSUME NEW d \in Destinations, EnqueueInserts(k, d) PROVE Budget'
    <3>1. /\ d \in queueing[k] /\ status[k] # "purged" /\ Insert(k, d)
          /\ queueing' = [queueing EXCEPT ![k] = @ \ {d}]
          /\ UNCHANGED <<pc, job, opts, session, posts, postedTo, confirmed, retries>>
      BY <2>4 DEF EnqueueInserts, workerVars, historyVars
    <3>2. /\ old' \in SUBSET old
          /\ \A j \in Keys : status'[j] = IF j = k /\ status[k] \in {"none", "purged"}
                                          THEN "pending" ELSE status[j]
          /\ \A j \in Keys : j # k \/ status[k] \notin {"none", "purged"} => dest'[j] = dest[j]
      BY <3>1, InsertEffect
    <3>3. NewHasNoRow'
      BY <3>1, <3>2 DEF Keys
    <3>4. NoRowNoPost'
      BY <3>1, <3>2 DEF Keys
    <3>5. Allowance'
      BY <3>1, <3>2 DEF Keys
    <3> QED BY <3>3, <3>4, <3>5
  <2>5. ASSUME NEW d \in Destinations, RetryStores(k, d) PROVE Budget'
    <3>1. /\ UNCHANGED <<pc, job, opts, dest, session, queueing, posts, postedTo, confirmed>>
          /\ \/ UNCHANGED <<status, old, retries>>
             \/ /\ status[k] = "unknown"
                /\ status' = [status EXCEPT ![k] = "pending"]
                /\ old' = old \ {k}
                /\ retries' = [retries EXCEPT ![k] = @ + 1]
      BY <2>5 DEF RetryStores, SetStatus, workerVars
    <3>2. CASE UNCHANGED <<status, old, retries>>
      BY <3>1, <3>2
    <3>3. CASE /\ status[k] = "unknown"
               /\ status' = [status EXCEPT ![k] = "pending"]
               /\ old' = old \ {k}
               /\ retries' = [retries EXCEPT ![k] = @ + 1]
      <4>1. \A j \in Keys : /\ status'[j] = IF j = k THEN "pending" ELSE status[j]
                           /\ retries'[j] = IF j = k THEN retries[j] + 1 ELSE retries[j]
        BY <3>3
      <4> QED BY <3>1, <3>3, <4>1 DEF Keys
    <3> QED BY <3>1, <3>2, <3>3
  <2> QED BY <1>2, <2>1, <2>2, <2>3, <2>4, <2>5 DEF KeyStep
<1>3. ASSUME NEW k \in Sessions, SessionStep(k) PROVE Budget'
  <2>1. CASE SignIn(k) \/ SessionEnds(k)
    BY <2>1 DEF SignIn, SessionEnds, adminVars, rowVars, workerVars, historyVars
  <2>2. CASE HookRecords(k)
    <3>1. k \in Keys /\ RecordLoginSession(k) /\ UNCHANGED <<pc, job, opts>>
          /\ UNCHANGED <<posts, postedTo, confirmed, retries, queueing>>
      BY <2>2 DEF HookRecords, Keys, adminVars, workerVars, historyVars
    <3>2. /\ old' \in SUBSET old
          /\ \A j \in Sessions : session'[j] = IF j = k /\ session[k] = "new"
                                                THEN "recorded" ELSE session[j]
          /\ \A j \in Keys :
                \/ status'[j] = status[j] /\ dest'[j] = dest[j]
                \/ /\ j = k /\ session[k] = "new" /\ status'[j] = "pending"
                   /\ status[j] \in {"none", "purged"}
      BY <3>1, RecordEffect
    <3>3. NewHasNoRow'
      BY <3>1, <3>2 DEF Keys
    <3>4. NoRowNoPost'
      BY <3>1, <3>2 DEF Keys
    <3>5. Allowance'
      BY <3>1, <3>2 DEF Keys
    <3> QED BY <3>3, <3>4, <3>5
  <2> QED BY <1>3, <2>1, <2>2 DEF SessionStep
<1>4. ASSUME NEW new \in [push : {"on", "off"}, dest : Destinations], SetOptions(new) PROVE Budget'
  BY <1>4 DEF SetOptions, rowVars, workerVars, historyVars
<1>5. CASE SaveTemplate \/ UNCHANGED vars
  BY <1>5 DEF SaveTemplate, vars, adminVars, rowVars, workerVars, historyVars
<1> QED BY <1>1, <1>2, <1>3, <1>4, <1>5 DEF Next

\* Evidence.
Evidence == PostReady /\ DestinationKept /\ SentMeansConfirmed

\* Every action keeps what a row says true of the requests that were made.
LEMMA EvidenceStep == ASSUME TypeOK, Claims, Budget, Evidence, [Next]_vars PROVE Evidence'
<1> USE KeysApart DEF TypeOK, Claims, PcHolds, ClaimExclusive, Budget, NewHasNoRow, NoRowNoPost, Evidence, PostReady, DestinationKept, SentMeansConfirmed, Finished
<1>1. ASSUME NEW w \in Workers, WorkerStep(w) PROVE Evidence'
  <2>1. CASE DrainStarts(w)
    BY <2>1 DEF DrainStarts, Goto, adminVars, rowVars, historyVars
  <2>2. CASE DrainExpires(w)
    BY <2>2 DEF DrainExpires, SetAll, Rows, Goto, adminVars, historyVars
  <2>3. CASE DrainReadsOptions(w)
    BY <2>3 DEF DrainReadsOptions, Goto, adminVars, rowVars, historyVars
  <2>4. CASE DrainRecovers(w)
    BY <2>4 DEF DrainRecovers, SetAll, Rows, Goto, adminVars, historyVars
  <2>5. CASE DrainTakes(w)
    BY <2>5 DEF DrainTakes, Goto, adminVars, rowVars, historyVars
  <2>6. CASE DrainCancels(w)
    BY <2>6 DEF DrainCancels, Settle, SetStatus, Goto, adminVars, historyVars
  <2>7. CASE DrainStoresSent(w)
    BY <2>7 DEF DrainStoresSent, Settle, SetStatus, Goto, adminVars, historyVars
  <2>8. CASE DrainStoresUnknown(w)
    BY <2>8 DEF DrainStoresUnknown, Settle, SetStatus, Goto, adminVars, historyVars
  <2>9. CASE DrainPosts(w)
    BY <2>9 DEF DrainPosts, Goto, adminVars, rowVars
  <2>10. CASE DrainPurges(w)
    BY <2>10 DEF DrainPurges, Goto, adminVars, historyVars
  <2>11. CASE StatementFails(w)
    BY <2>11 DEF StatementFails, Goto, adminVars, rowVars, historyVars
  <2>12. CASE Crash(w)
    BY <2>12 DEF Crash, Goto, adminVars, rowVars, historyVars
  <2>13. CASE Restart(w)
    BY <2>13 DEF Restart, Goto, adminVars, rowVars, historyVars
  <2>14. ASSUME NEW k \in Sessions, DrainRecords(w, k) PROVE Evidence'
    <3>1. k \in Keys /\ RecordLoginSession(k) /\ UNCHANGED <<pc, job, opts>>
          /\ UNCHANGED <<posts, postedTo, confirmed, retries, queueing>>
      BY <2>14 DEF DrainRecords, Keys, adminVars, historyVars
    <3>2. /\ old' \in SUBSET old
          /\ \A j \in Sessions : session'[j] = IF j = k /\ session[k] = "new"
                                                THEN "recorded" ELSE session[j]
          /\ \A j \in Keys :
                \/ status'[j] = status[j] /\ dest'[j] = dest[j]
                \/ /\ j = k /\ session[k] = "new" /\ status'[j] = "pending"
                   /\ status[j] \in {"none", "purged"}
      BY <3>1, RecordEffect
    <3>3. PostReady'
      BY <3>1, <3>2
    <3>4. DestinationKept'
      <4> SUFFICES ASSUME NEW j \in Keys, status'[j] \notin {"none", "purged"}
                   PROVE  postedTo'[j] \subseteq {dest'[j]}
        BY DEF DestinationKept
      <4>1. CASE status'[j] = status[j] /\ dest'[j] = dest[j]
        BY <3>1, <4>1
      <4>2. CASE j = k /\ session[k] = "new" /\ status[j] \in {"none", "purged"}
        BY <3>1, <4>2
      <4> QED BY <3>2, <4>1, <4>2
    <3>5. SentMeansConfirmed'
      BY <3>1, <3>2
    <3> QED BY <3>3, <3>4, <3>5
  <2>15. ASSUME NEW k \in Keys, DrainClaims(w, k) PROVE Evidence'
    <3>1. UNCHANGED <<session, dest, opts, posts, postedTo, confirmed, retries, queueing>>
      BY <2>15 DEF DrainClaims, adminVars, historyVars
    <3>2. CASE UNCHANGED <<status, old, attempts, job, pc>>
      BY <3>1, <3>2
    <3>3. ASSUME NEW place \in {"post", "cancel"}, pc[w] = "claim", status[k] = "pending",
                 place = "post" => dest[k] = opts[w].dest,
                 status' = [status EXCEPT ![k] = "sending"],
                 old' = old \ {k},
                 job' = [job EXCEPT ![w] = k],
                 pc' = [pc EXCEPT ![w] = place]
          PROVE  Evidence'
      BY <3>1, <3>3
    <3> QED BY <2>15, <3>2, <3>3, ClaimEffect
  <2> QED BY <1>1, <2>1, <2>2, <2>3, <2>4, <2>5, <2>6, <2>7, <2>8, <2>9, <2>10, <2>11, <2>12, <2>13, <2>14, <2>15
       DEF WorkerStep, DrainStep
<1>2. ASSUME NEW k \in Keys, KeyStep(k) PROVE Evidence'
  <2>1. CASE GrowsOld(k)
    BY <2>1 DEF GrowsOld, adminVars, workerVars, historyVars
  <2>2. CASE EnqueueReads(k)
    BY <2>2 DEF EnqueueReads, rowVars, workerVars, historyVars
  <2>3. CASE RetryReads(k)
    BY <2>3 DEF RetryReads, rowVars, workerVars, historyVars
  <2>4. ASSUME NEW d \in Destinations, EnqueueInserts(k, d) PROVE Evidence'
    <3>1. /\ d \in queueing[k] /\ status[k] # "purged" /\ Insert(k, d)
          /\ queueing' = [queueing EXCEPT ![k] = @ \ {d}]
          /\ UNCHANGED <<pc, job, opts, session, posts, postedTo, confirmed, retries>>
      BY <2>4 DEF EnqueueInserts, workerVars, historyVars
    <3>2. /\ old' \in SUBSET old
          /\ \A j \in Keys : status'[j] = IF j = k /\ status[k] \in {"none", "purged"}
                                          THEN "pending" ELSE status[j]
          /\ \A j \in Keys : j # k \/ status[k] \notin {"none", "purged"} => dest'[j] = dest[j]
      BY <3>1, InsertEffect
    <3> QED BY <3>1, <3>2 DEF Keys
  <2>5. ASSUME NEW d \in Destinations, RetryStores(k, d) PROVE Evidence'
    <3>1. /\ UNCHANGED <<pc, job, opts, dest, session, queueing, posts, postedTo, confirmed>>
          /\ \/ UNCHANGED <<status, old, retries>>
             \/ /\ status[k] = "unknown"
                /\ status' = [status EXCEPT ![k] = "pending"]
                /\ old' = old \ {k}
                /\ retries' = [retries EXCEPT ![k] = @ + 1]
      BY <2>5 DEF RetryStores, SetStatus, workerVars
    <3>2. CASE UNCHANGED <<status, old, retries>>
      BY <3>1, <3>2
    <3>3. CASE /\ status[k] = "unknown"
               /\ status' = [status EXCEPT ![k] = "pending"]
               /\ old' = old \ {k}
               /\ retries' = [retries EXCEPT ![k] = @ + 1]
      <4>1. \A j \in Keys : /\ status'[j] = IF j = k THEN "pending" ELSE status[j]
                           /\ retries'[j] = IF j = k THEN retries[j] + 1 ELSE retries[j]
        BY <3>3
      <4> QED BY <3>1, <3>3, <4>1 DEF Keys
    <3> QED BY <3>1, <3>2, <3>3
  <2> QED BY <1>2, <2>1, <2>2, <2>3, <2>4, <2>5 DEF KeyStep
<1>3. ASSUME NEW k \in Sessions, SessionStep(k) PROVE Evidence'
  <2>1. CASE SignIn(k) \/ SessionEnds(k)
    BY <2>1 DEF SignIn, SessionEnds, adminVars, rowVars, workerVars, historyVars
  <2>2. CASE HookRecords(k)
    <3>1. k \in Keys /\ RecordLoginSession(k) /\ UNCHANGED <<pc, job, opts>>
          /\ UNCHANGED <<posts, postedTo, confirmed, retries, queueing>>
      BY <2>2 DEF HookRecords, Keys, adminVars, workerVars, historyVars
    <3>2. /\ old' \in SUBSET old
          /\ \A j \in Sessions : session'[j] = IF j = k /\ session[k] = "new"
                                                THEN "recorded" ELSE session[j]
          /\ \A j \in Keys :
                \/ status'[j] = status[j] /\ dest'[j] = dest[j]
                \/ /\ j = k /\ session[k] = "new" /\ status'[j] = "pending"
                   /\ status[j] \in {"none", "purged"}
      BY <3>1, RecordEffect
    <3>3. PostReady'
      BY <3>1, <3>2
    <3>4. DestinationKept'
      <4> SUFFICES ASSUME NEW j \in Keys, status'[j] \notin {"none", "purged"}
                   PROVE  postedTo'[j] \subseteq {dest'[j]}
        BY DEF DestinationKept
      <4>1. CASE status'[j] = status[j] /\ dest'[j] = dest[j]
        BY <3>1, <4>1
      <4>2. CASE j = k /\ session[k] = "new" /\ status[j] \in {"none", "purged"}
        BY <3>1, <4>2
      <4> QED BY <3>2, <4>1, <4>2
    <3>5. SentMeansConfirmed'
      BY <3>1, <3>2
    <3> QED BY <3>3, <3>4, <3>5
  <2> QED BY <1>3, <2>1, <2>2 DEF SessionStep
<1>4. ASSUME NEW new \in [push : {"on", "off"}, dest : Destinations], SetOptions(new) PROVE Evidence'
  BY <1>4 DEF SetOptions, rowVars, workerVars, historyVars
<1>5. CASE SaveTemplate \/ UNCHANGED vars
  BY <1>5 DEF SaveTemplate, vars, adminVars, rowVars, workerVars, historyVars
<1> QED BY <1>1, <1>2, <1>3, <1>4, <1>5 DEF Next

-----------------------------------------------------------------------------
\* The inductive invariant: the types, who holds which row, what may still be
\* posted, and what the rows say about the past.
OutboxInv == TypeOK /\ Claims /\ Budget /\ Evidence

\* The outbox keeps its invariant through crashes, failed statements, retries
\* and changes of the settings (service.ts, notificationRouter.ts).
THEOREM OutboxCorrect == Spec => []OutboxInv
<1>1. Init => OutboxInv
  <2> SUFFICES ASSUME Init PROVE OutboxInv
    OBVIOUS
  <2> USE KeysApart DEF Init, Keys
  <2>1. TypeOK
    BY DEF TypeOK, Finished
  <2>2. Claims
    BY DEF Claims, PcHolds, ClaimExclusive, HeldIsYoung
  <2>3. Budget
    BY DEF Budget, NewHasNoRow, NoRowNoPost, Allowance
  <2>4. Evidence
    BY DEF Evidence, PostReady, DestinationKept, SentMeansConfirmed
  <2> QED BY <2>1, <2>2, <2>3, <2>4 DEF OutboxInv
<1>2. OutboxInv /\ [Next]_vars => OutboxInv'
  BY TypeStep, ClaimsStep, BudgetStep, EvidenceStep DEF OutboxInv, Claims
<1> QED BY <1>1, <1>2, PTL DEF Spec

\* An event is posted at most once per authorisation (drainNotifications).
THEOREM OutboxNeverResends == Spec => []NoBlindResend
<1>1. OutboxInv => NoBlindResend
  BY DEF OutboxInv, Budget, Allowance, NoBlindResend
<1> QED BY <1>1, OutboxCorrect, PTL

\* A message only goes to the destination it was queued for, and a row says
\* "sent" only after the gateway's confirmation (drainNotifications).
THEOREM OutboxEvidence == Spec => [](DestinationKept /\ SentMeansConfirmed)
<1>1. OutboxInv => DestinationKept /\ SentMeansConfirmed
  BY DEF OutboxInv, Evidence
<1> QED BY <1>1, OutboxCorrect, PTL

\* A claimed row has one holder and is in sending (drainNotifications).
THEOREM OutboxClaims == Spec => []ClaimExclusive
<1>1. OutboxInv => ClaimExclusive
  BY DEF OutboxInv, Claims
<1> QED BY <1>1, OutboxCorrect, PTL
=============================================================================
