------------------------- MODULE NotificationOutbox -------------------------
(***************************************************************************)
(* The notification outbox (server/notifications/service.ts): events are   *)
(* queued as rows of NotificationDelivery and a worker drains the queue    *)
(* into the Message Pusher gateway, which gives no idempotency guarantee.  *)
(* A login session is a durable event source of its own: its row says      *)
(* whether its event has been recorded, and the worker records the ones    *)
(* whose after-hook was interrupted.                                       *)
(*                                                                         *)
(* An action is one database statement or transaction, or one request to   *)
(* the gateway.  A worker can crash, and any statement of a drain can      *)
(* fail, between two of them.                                              *)
(***************************************************************************)
EXTENDS Integers, FiniteSets

CONSTANTS
    Sessions,      \* login sessions, the key of their event
    Events,        \* keys of the other events
    Destinations,  \* fingerprints of the gateway settings
    Workers,       \* processes that run startNotificationWorker
    Nobody,        \* no row: neither a session nor an event
    Batch,         \* rows one drain takes (10 in the code; 100 for sessions)
    MaxRetries     \* bound: manual retries of one delivery

Keys == Sessions \cup Events

ASSUME KeysApart == Nobody \notin Keys /\ Sessions \cap Events = {}
ASSUME BatchPositive == Batch \in Nat \ {0}
ASSUME MaxRetriesNat == MaxRetries \in Nat

VARIABLES
    options,     \* [push |-> "on" or "off", dest |-> fingerprint]: globalOptions
    template,    \* "on" or "off": the template of the events is enabled
    session,     \* session[k]: "none", "new" (not recorded), "recorded", "gone"
    status,      \* status[k]: status of the delivery row, "none" without a row
    dest,        \* dest[k]: destinationFingerprint of the row
    attempts,    \* attempts[k] of the row
    old,         \* rows past the age limit of their status
    queueing,    \* queueing[k]: fingerprints enqueueNotification calls have read
    retrying,    \* retrying[k]: fingerprints retry calls have read
    pc,          \* pc[w]: where the worker is in its drain
    opts,        \* opts[w]: the options the drain has read
    batch,       \* batch[w]: sessions or rows the drain has still to handle
    job,         \* job[w]: the row the worker has claimed
    posts,       \* history: requests made for each event
    postedTo,    \* history: destinations those requests went to
    confirmed,   \* history: rows a request of which the gateway confirmed
    retries      \* history: manual retries of each row

rowVars == <<status, dest, attempts, old>>
historyVars == <<posts, postedTo, confirmed, retries>>
adminVars == <<options, template, queueing, retrying>>
workerVars == <<pc, opts, batch, job>>
vars == <<adminVars, session, rowVars, workerVars, historyVars>>

Finished == {"sent", "unknown", "cancelled"}
Rows(st) == {k \in Keys : status[k] = st}

\* A live worker is between its claim of the row and the row's last update.
Held(k) == \E w \in Workers : job[w] = k

Init ==
    /\ options \in [push : {"on", "off"}, dest : Destinations]
    /\ template = "on"
    /\ session = [k \in Sessions |-> "none"]
    /\ status = [k \in Keys |-> "none"]
    /\ dest \in [Keys -> Destinations]
    /\ attempts = [k \in Keys |-> 0]
    /\ old = {}
    /\ queueing = [k \in Keys |-> {}]
    /\ retrying = [k \in Keys |-> {}]
    /\ pc = [w \in Workers |-> "idle"]
    /\ opts = [w \in Workers |-> options]
    /\ batch = [w \in Workers |-> {}]
    /\ job = [w \in Workers |-> Nobody]
    /\ posts = [k \in Keys |-> 0]
    /\ postedTo = [k \in Keys |-> {}]
    /\ confirmed = {}
    /\ retries = [k \in Keys |-> 0]

-----------------------------------------------------------------------------
(* Rows.                                                                   *)

\* createMany with skipDuplicates: the unique eventKey makes it a no-op when
\* the event has a row.
Insert(k, d) ==
    IF status[k] \in {"none", "purged"}
    THEN /\ status' = [status EXCEPT ![k] = "pending"]
         /\ dest' = [dest EXCEPT ![k] = d]
         /\ attempts' = [attempts EXCEPT ![k] = 0]
         /\ old' = old \ {k}
    ELSE UNCHANGED rowVars

\* An update of the status of a row restarts its age.
SetStatus(k, st) ==
    /\ status' = [status EXCEPT ![k] = st]
    /\ old' = old \ {k}

\* updateMany of the rows in ks.
SetAll(ks, st) ==
    /\ status' = [k \in Keys |-> IF k \in ks THEN st ELSE status[k]]
    /\ old' = old \ ks

\* Time passes: a pending row gets older than 24 hours, a finished one older
\* than 30 days, a row being sent older than 120 seconds.  A request ends
\* within its 10 second timeout, so the last needs a sender that is gone.
GrowsOld(k) ==
    /\ status[k] \in Finished \cup {"pending", "sending"}
    /\ k \notin old
    /\ status[k] = "sending" => ~Held(k)
    /\ old' = old \cup {k}
    /\ UNCHANGED <<adminVars, session, status, dest, attempts, workerVars, historyVars>>

-----------------------------------------------------------------------------
(* Event sources.                                                          *)

\* enqueueNotification reads the options and the template, then inserts.  An
\* event is not raised again after its row's retention of 30 days: its key
\* names one change of one node.
EnqueueReads(k) ==
    /\ k \in Events
    /\ status[k] # "purged"
    /\ options.push = "on" /\ template = "on"
    /\ queueing' = [queueing EXCEPT ![k] = @ \cup {options.dest}]
    /\ UNCHANGED <<options, template, retrying, session, rowVars, workerVars, historyVars>>

EnqueueInserts(k, d) ==
    /\ d \in queueing[k]
    /\ status[k] # "purged"
    /\ queueing' = [queueing EXCEPT ![k] = @ \ {d}]
    /\ Insert(k, d)
    /\ UNCHANGED <<options, template, retrying, session, workerVars, historyVars>>

\* A sign-in commits its session row; the after-hook may or may not get to run.
SignIn(k) ==
    /\ session[k] = "none"
    /\ session' = [session EXCEPT ![k] = "new"]
    /\ UNCHANGED <<adminVars, rowVars, workerVars, historyVars>>

\* Sign-out, expiry and password reset delete the session.
SessionEnds(k) ==
    /\ session[k] \in {"new", "recorded"}
    /\ session' = [session EXCEPT ![k] = "gone"]
    /\ UNCHANGED <<adminVars, rowVars, workerVars, historyVars>>

\* recordLoginSession: one transaction queues the event, unless pushing is off,
\* and marks the session; nothing when it is marked or gone already.
RecordLoginSession(k) ==
    IF session[k] = "new"
    THEN /\ IF options.push = "on" /\ template = "on"
            THEN Insert(k, options.dest)
            ELSE UNCHANGED rowVars
         /\ session' = [session EXCEPT ![k] = "recorded"]
    ELSE UNCHANGED <<session, rowVars>>

\* The after-hook of session creation.
HookRecords(k) ==
    /\ session[k] = "new"
    /\ RecordLoginSession(k)
    /\ UNCHANGED <<adminVars, workerVars, historyVars>>

-----------------------------------------------------------------------------
(* The drain.                                                              *)

\* Up to Batch members of S; the code takes the oldest.
Take(S) == {B \in SUBSET S : Cardinality(B) = IF Cardinality(S) < Batch THEN Cardinality(S) ELSE Batch}

Goto(w, place) == pc' = [pc EXCEPT ![w] = place]

\* Mutant: interrupted logins are not looked for.
DrainStartsEmpty(w) ==
    /\ pc[w] = "idle"
    /\ batch' = [batch EXCEPT ![w] = {}]
    /\ Goto(w, "record")
    /\ UNCHANGED <<adminVars, session, rowVars, opts, job, historyVars>>

DrainStarts(w) ==
    /\ pc[w] = "idle"
    /\ \E B \in Take({k \in Sessions : session[k] = "new"}) : batch' = [batch EXCEPT ![w] = B]
    /\ Goto(w, "record")
    /\ UNCHANGED <<adminVars, session, rowVars, opts, job, historyVars>>

DrainRecords(w, k) ==
    /\ pc[w] = "record"
    /\ k \in batch[w]
    /\ RecordLoginSession(k)
    /\ batch' = [batch EXCEPT ![w] = @ \ {k}]
    /\ UNCHANGED <<adminVars, pc, opts, job, historyVars>>

DrainExpires(w) ==
    /\ pc[w] = "record"
    /\ batch[w] = {}
    /\ SetAll(old \cap Rows("pending"), "cancelled")
    /\ Goto(w, "options")
    /\ UNCHANGED <<adminVars, session, dest, attempts, opts, batch, job, historyVars>>

DrainReadsOptions(w) ==
    /\ pc[w] = "options"
    /\ opts' = [opts EXCEPT ![w] = options]
    /\ Goto(w, "recover")
    /\ UNCHANGED <<adminVars, session, rowVars, batch, job, historyVars>>

\* Mutant: interrupted rows go back to the queue.
DrainRecoversToQueue(w) ==
    /\ pc[w] = "recover"
    /\ SetAll(old \cap Rows("sending"), "pending")
    /\ Goto(w, IF opts[w].push = "on" THEN "take" ELSE "idle")
    /\ UNCHANGED <<adminVars, session, dest, attempts, opts, batch, job, historyVars>>

\* Mutant: interrupted rows are not looked for.
DrainRecoversNothing(w) ==
    /\ pc[w] = "recover"
    /\ Goto(w, IF opts[w].push = "on" THEN "take" ELSE "idle")
    /\ UNCHANGED <<adminVars, session, rowVars, opts, batch, job, historyVars>>

\* Mutant: the test for the switch is inverted.
DrainRecoversInverted(w) ==
    /\ pc[w] = "recover"
    /\ SetAll(old \cap Rows("sending"), "unknown")
    /\ Goto(w, IF opts[w].push = "on" THEN "idle" ELSE "take")
    /\ UNCHANGED <<adminVars, session, dest, attempts, opts, batch, job, historyVars>>

\* Rows left in sending by an interrupted drain; then nothing more when off.
DrainRecovers(w) ==
    /\ pc[w] = "recover"
    /\ SetAll(old \cap Rows("sending"), "unknown")
    /\ Goto(w, IF opts[w].push = "on" THEN "take" ELSE "idle")
    /\ UNCHANGED <<adminVars, session, dest, attempts, opts, batch, job, historyVars>>

DrainTakes(w) ==
    /\ pc[w] = "take"
    /\ \E B \in Take(Rows("pending")) : batch' = [batch EXCEPT ![w] = B]
    /\ Goto(w, "claim")
    /\ UNCHANGED <<adminVars, session, rowVars, opts, job, historyVars>>

\* Mutant: the claim does not look at the status.
DrainClaimsAnyway(w, k) ==
    /\ pc[w] = "claim"
    /\ k \in batch[w]
    /\ batch' = [batch EXCEPT ![w] = @ \ {k}]
    /\ SetStatus(k, "sending")
    /\ attempts' = [attempts EXCEPT ![k] = @ + 1]
    /\ job' = [job EXCEPT ![w] = k]
    /\ Goto(w, IF dest[k] = opts[w].dest THEN "post" ELSE "cancel")
    /\ UNCHANGED <<adminVars, session, dest, opts, historyVars>>

\* Mutant: the fingerprints are not compared.
DrainClaimsForAnyDestination(w, k) ==
    /\ pc[w] = "claim"
    /\ k \in batch[w]
    /\ batch' = [batch EXCEPT ![w] = @ \ {k}]
    /\ IF status[k] = "pending"
       THEN /\ SetStatus(k, "sending")
            /\ attempts' = [attempts EXCEPT ![k] = @ + 1]
            /\ job' = [job EXCEPT ![w] = k]
            /\ Goto(w, "post")
       ELSE UNCHANGED <<status, old, attempts, job, pc>>
    /\ UNCHANGED <<adminVars, session, dest, opts, historyVars>>

\* The conditional update that claims a row, then the fingerprint comparison.
DrainClaims(w, k) ==
    /\ pc[w] = "claim"
    /\ k \in batch[w]
    /\ batch' = [batch EXCEPT ![w] = @ \ {k}]
    /\ IF status[k] = "pending"
       THEN /\ SetStatus(k, "sending")
            /\ attempts' = [attempts EXCEPT ![k] = @ + 1]
            /\ job' = [job EXCEPT ![w] = k]
            /\ Goto(w, IF dest[k] = opts[w].dest THEN "post" ELSE "cancel")
       ELSE UNCHANGED <<status, old, attempts, job, pc>>
    /\ UNCHANGED <<adminVars, session, dest, opts, historyVars>>

\* The update that ends the claim.
Settle(w, st) ==
    /\ SetStatus(job[w], st)
    /\ job' = [job EXCEPT ![w] = Nobody]
    /\ Goto(w, "claim")
    /\ UNCHANGED <<adminVars, session, dest, attempts, opts, batch, historyVars>>

DrainCancels(w) == pc[w] = "cancel" /\ Settle(w, "cancelled")

\* sendMessagePusher with the options the drain has read.  It may refuse to
\* post; a posted request is confirmed or not, whatever the gateway did with it.
DrainPosts(w) ==
    /\ pc[w] = "post"
    /\ \/ Goto(w, "unknown") /\ UNCHANGED <<posts, postedTo, confirmed>>
       \/ /\ posts' = [posts EXCEPT ![job[w]] = @ + 1]
          /\ postedTo' = [postedTo EXCEPT ![job[w]] = @ \cup {opts[w].dest}]
          /\ \/ Goto(w, "sent") /\ confirmed' = confirmed \cup {job[w]}
             \/ Goto(w, "unknown") /\ UNCHANGED confirmed
    /\ UNCHANGED <<adminVars, session, rowVars, opts, batch, job, retries>>

DrainStoresSent(w) == pc[w] = "sent" /\ Settle(w, "sent")

DrainStoresUnknown(w) == pc[w] = "unknown" /\ Settle(w, "unknown")

\* The rows are handled: delete the finished ones past their retention.
DrainPurges(w) ==
    /\ pc[w] = "claim"
    /\ batch[w] = {}
    /\ status' = [k \in Keys |->
                    IF k \in old /\ status[k] \in Finished THEN "purged" ELSE status[k]]
    /\ old' = {k \in old : status[k] \notin Finished}
    /\ Goto(w, "idle")
    /\ UNCHANGED <<adminVars, session, dest, attempts, opts, batch, job, historyVars>>

\* A statement fails: inside the try block the catch stores "unknown",
\* anywhere else the drain is over and the row stays as it is.
StatementFails(w) ==
    /\ pc[w] \notin {"idle", "down", "post"}
    /\ IF pc[w] = "sent"
       THEN Goto(w, "unknown") /\ UNCHANGED <<job, batch>>
       ELSE /\ Goto(w, "idle")
            /\ job' = [job EXCEPT ![w] = Nobody]
            /\ batch' = [batch EXCEPT ![w] = {}]
    /\ UNCHANGED <<adminVars, session, rowVars, opts, historyVars>>

Crash(w) ==
    /\ pc[w] # "down"
    /\ Goto(w, "down")
    /\ job' = [job EXCEPT ![w] = Nobody]
    /\ batch' = [batch EXCEPT ![w] = {}]
    /\ UNCHANGED <<adminVars, session, rowVars, opts, historyVars>>

\* startNotificationWorker in the new process.
Restart(w) ==
    /\ pc[w] = "down"
    /\ Goto(w, "idle")
    /\ UNCHANGED <<adminVars, session, rowVars, opts, batch, job, historyVars>>

-----------------------------------------------------------------------------
(* Administration.                                                         *)

\* setMail: another gateway, or pushing switched on or off.
SetOptions(new) ==
    /\ new # options
    /\ options' = new
    /\ UNCHANGED <<template, queueing, retrying, session, rowVars, workerVars, historyVars>>

\* saveTemplate switches the event on or off.
SaveTemplate ==
    /\ template' = IF template = "on" THEN "off" ELSE "on"
    /\ UNCHANGED <<options, queueing, retrying, session, rowVars, workerVars, historyVars>>

\* retry: read the options, then a conditional update.
RetryReads(k) ==
    /\ options.push = "on"
    /\ retries[k] < MaxRetries
    /\ retrying' = [retrying EXCEPT ![k] = @ \cup {options.dest}]
    /\ UNCHANGED <<options, template, queueing, session, rowVars, workerVars, historyVars>>

\* The update requires an unsettled row for the destination that was read.
RetryStores(k, d) ==
    /\ d \in retrying[k]
    /\ retries[k] < MaxRetries
    /\ retrying' = [retrying EXCEPT ![k] = @ \ {d}]
    /\ IF status[k] = "unknown" /\ dest[k] = d
       THEN /\ SetStatus(k, "pending")
            /\ retries' = [retries EXCEPT ![k] = @ + 1]
       ELSE UNCHANGED <<status, old, retries>>
    /\ UNCHANGED <<options, template, queueing, session, dest, attempts, workerVars,
                   posts, postedTo, confirmed>>

-----------------------------------------------------------------------------
DrainStep(w) ==
    \/ DrainStarts(w)
    \/ DrainExpires(w)
    \/ DrainReadsOptions(w)
    \/ DrainRecovers(w)
    \/ DrainTakes(w)
    \/ DrainCancels(w)
    \/ DrainPosts(w)
    \/ DrainStoresSent(w)
    \/ DrainStoresUnknown(w)
    \/ DrainPurges(w)
    \/ \E k \in Sessions : DrainRecords(w, k)
    \/ \E k \in Keys : DrainClaims(w, k)

WorkerStep(w) == DrainStep(w) \/ StatementFails(w) \/ Crash(w) \/ Restart(w)

KeyStep(k) ==
    \/ GrowsOld(k)
    \/ EnqueueReads(k)
    \/ RetryReads(k)
    \/ \E d \in Destinations : EnqueueInserts(k, d) \/ RetryStores(k, d)

SessionStep(k) == SignIn(k) \/ SessionEnds(k) \/ HookRecords(k)

Next ==
    \/ \E w \in Workers : WorkerStep(w)
    \/ \E k \in Keys : KeyStep(k)
    \/ \E k \in Sessions : SessionStep(k)
    \/ \E new \in [push : {"on", "off"}, dest : Destinations] : SetOptions(new)
    \/ SaveTemplate

Spec == Init /\ [][Next]_vars

(***************************************************************************)
(* The worker's timer fires and its requests end, the process comes back   *)
(* after a crash, time passes.  Crashes and failed statements may go on    *)
(* for ever, but a statement that keeps being tried succeeds at last: the  *)
(* database is not down for good.                                          *)
(***************************************************************************)
Fairness ==
    /\ \A w \in Workers :
        /\ WF_vars(Restart(w))
        /\ SF_vars(DrainStarts(w))
        /\ SF_vars(\E k \in Sessions : DrainRecords(w, k))
        /\ SF_vars(DrainExpires(w))
        /\ SF_vars(DrainReadsOptions(w))
        /\ SF_vars(DrainRecovers(w))
        /\ SF_vars(DrainTakes(w))
        /\ SF_vars(\E k \in Keys : DrainClaims(w, k))
        /\ WF_vars(DrainPosts(w))
        /\ WF_vars(DrainStep(w))
    /\ \A k \in Keys : WF_vars(status[k] = "sending" /\ GrowsOld(k))

FairSpec == Spec /\ Fairness

-----------------------------------------------------------------------------
(* Properties.                                                             *)

\* Type correctness of the outbox rows, the sessions and the workers
\* (notifications/service.ts, schema of NotificationDelivery).
TypeOK ==
    /\ options \in [push : {"on", "off"}, dest : Destinations]
    /\ template \in {"on", "off"}
    /\ session \in [Sessions -> {"none", "new", "recorded", "gone"}]
    /\ status \in [Keys -> Finished \cup {"none", "pending", "sending", "purged"}]
    /\ dest \in [Keys -> Destinations]
    /\ attempts \in [Keys -> Nat]
    /\ old \in SUBSET Keys
    /\ queueing \in [Keys -> SUBSET Destinations]
    /\ retrying \in [Keys -> SUBSET Destinations]
    /\ pc \in [Workers -> {"idle", "record", "options", "recover", "take", "claim",
                           "cancel", "post", "sent", "unknown", "down"}]
    /\ opts \in [Workers -> [push : {"on", "off"}, dest : Destinations]]
    /\ batch \in [Workers -> SUBSET Keys]
    /\ job \in [Workers -> Keys \cup {Nobody}]
    /\ posts \in [Keys -> Nat]
    /\ postedTo \in [Keys -> SUBSET Destinations]
    /\ confirmed \in SUBSET Keys
    /\ retries \in [Keys -> Nat]

\* One event is posted at most once per authorisation, the queueing of the event
\* or a manual retry: no crash, failed statement, second worker, concurrent
\* recording of a login or purged row makes the outbox send it again by itself
\* (service.ts drainNotifications: "not blind resend").
NoBlindResend == \A k \in Keys : posts[k] <= 1 + retries[k]

\* A message only ever goes to the destination it was queued for, whatever the
\* administrator changes while a drain is under way with the options it read.
DestinationKept ==
    \A k \in Keys : status[k] \notin {"none", "purged"} => postedTo[k] \subseteq {dest[k]}

\* The console shows a delivery as sent only when the gateway confirmed a
\* request for it, although the row is updated without looking at its status.
SentMeansConfirmed == \A k \in Keys : status[k] = "sent" => k \in confirmed

\* At most one worker is between claiming a row and settling it, and no drain
\* takes the row for interrupted meanwhile (drainNotifications claim, recovery).
ClaimExclusive ==
    \A w \in Workers : job[w] # Nobody =>
        /\ status[job[w]] = "sending"
        /\ \A v \in Workers \ {w} : job[v] # job[w]

\* Every committed login is recorded or its session ends, even when the
\* after-hook never ran and the process crashed (drainNotifications).
LoginRecorded == \A k \in Sessions : session[k] = "new" ~> session[k] # "new"

\* A row whose sender crashed does not stay in sending for ever.
SendingSettles == \A k \in Keys : status[k] = "sending" ~> status[k] # "sending"

\* While pushing stays on, every queued message leaves the queue.
QueueDrains ==
    \A k \in Keys : <>[](options.push = "on") => (status[k] = "pending" ~> status[k] # "pending")

\* No crash and no failed statement leaves a login unrecorded, a row in sending
\* or, while pushing is on, a message in the queue for ever.
OutboxSettles == LoginRecorded /\ SendingSettles /\ QueueDrains
=============================================================================
