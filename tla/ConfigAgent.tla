---------------------------- MODULE ConfigAgent ----------------------------
(***************************************************************************)
(* The root configuration agent (services/config-agent/ztplanet_agent.py): *)
(* apply and rollback of the stack's configuration.                        *)
(*                                                                         *)
(* config.json, the history files and the rendered files survive a crash   *)
(* of the agent; the lock, the answers kept for idempotency and the        *)
(* operation under way do not.  Every file is replaced atomically, but an  *)
(* operation replaces several of them and then recreates containers, and   *)
(* any of these steps may fail or be the last one before a crash.          *)
(***************************************************************************)
EXTENDS Integers, Sequences, FiniteSets

CONSTANTS
    Configs,       \* valid configurations: one value per section
    BadConfig,     \* a configuration validate_config refuses
    None,          \* no request; no container
    FirstConfig,   \* default_config
    Keys,          \* idempotency keys, one for each save of an administrator
    NFiles,        \* files render writes, the manifest last (6 in the code)
    CacheLimit,    \* answers kept for idempotency (256 in the code)
    MaxRevision    \* bound: revisions

Services == {"gateway", "ztnet", "zerotier", "relay"}

\* A section is an opaque value; relayServer is "off" when it is not enabled.
Sections == {"management", "zerotier", "controller", "relayServer"}

\* validate_config accepts it.
Valid(c) == c # BadConfig

Envelopes == [rev : 1..MaxRevision, cfg : Configs]
Requests == [expected : 1..MaxRevision, cfg : Configs \cup {BadConfig},
             base : Configs, read : {"clean", "dirty"}]

ASSUME ConfigsAssumption ==
    /\ FirstConfig \in Configs
    /\ BadConfig \notin Configs
    /\ None \notin Configs \cup Requests
    /\ \A c \in Configs : DOMAIN c = Sections
ASSUME KeysAssumption == "rollback" \notin Keys /\ "nobody" \notin Keys
ASSUME BoundsAssumption == NFiles \in Nat \ {0} /\ CacheLimit \in Nat \ {0} /\ MaxRevision \in Nat \ {0}

VARIABLES
    file,        \* config.json: [rev, cfg]
    hist,        \* history/revision-N.json: a set of [rev, cfg]
    gen,         \* gen[i]: the configuration the i-th generated file was rendered from
    run,         \* run[s]: the configuration service s was created with, or None
    firewall,    \* "on" or "off": the relay's egress rules
    cache,       \* the keys of Agent.idempotency, oldest first
    pc,          \* where the holder of the lock is; "free" or "down" without one
    who,         \* what it runs: a key for apply, "rollback", or "nobody"
    dir,         \* "do", or "undo" in the except block
    cur,         \* its `current`
    tgt,         \* its `updated` or `target`
    idx,         \* next file render writes
    todo,        \* services compose up has still to recreate
    req,         \* req[k]: the request saved under key k, or None
    call,        \* call[k]: "idle", "waiting" for the lock, or "running"; idle as
                 \* well once the caller has given up
    reply,       \* reply[k]: the last answer to k
    log,         \* history: every [rev, cfg] config.json held while nobody wrote
    effects,     \* history: times k was written to config.json and not undone
    torn         \* history: "yes" once a crash, a failed undo or an ignored
                 \* error left files or containers behind config.json

diskVars == <<file, hist, gen>>
hostVars == <<run, firewall>>
opVars == <<pc, who, dir, cur, tgt, idx, todo>>
clientVars == <<req, call, reply>>
ghostVars == <<log, effects, torn>>
vars == <<diskVars, hostVars, cache, opVars, clientVars, ghostVars>>

Relay(c) == c["relayServer"]

\* changed_services.
ChangedServices(old, new) ==
    UNION {IF old["management"] # new["management"] THEN {"gateway", "ztnet"} ELSE {},
           IF old["zerotier"] # new["zerotier"] THEN {"zerotier", "ztnet"} ELSE {},
           IF old["controller"] # new["controller"] THEN {"zerotier", "gateway", "ztnet"} ELSE {},
           IF old["relayServer"] # new["relayServer"] THEN {"relay"} ELSE {}}

\* The services apply_runtime names in compose up.
Selected(old, new) == ChangedServices(old, new) \ (IF Relay(new) = "off" THEN {"relay"} ELSE {})

\* What the operation is moving to, and from.
Target == IF dir = "do" THEN tgt ELSE cur
Source == IF dir = "do" THEN cur ELSE tgt

\* The history file rollback takes: the highest revision.
Newest(e) == e \in hist /\ \A f \in hist : f.rev <= e.rev

WithHistory(e) == {f \in hist : f.rev # e.rev} \cup {e}

Free == pc = "free"

\* Agent.__init__ on an empty state directory, then the first start of the stack.
Init ==
    /\ file = [rev |-> 1, cfg |-> FirstConfig]
    /\ hist = {}
    /\ gen = [i \in 1..NFiles |-> FirstConfig]
    /\ run = [s \in Services |->
                IF s = "relay" /\ Relay(FirstConfig) = "off" THEN None ELSE FirstConfig]
    /\ firewall = IF Relay(FirstConfig) = "off" THEN "off" ELSE "on"
    /\ cache = <<>>
    /\ pc = "free" /\ who = "nobody" /\ dir = "do"
    /\ cur = file /\ tgt = file /\ idx = 1 /\ todo = {}
    /\ req = [k \in Keys |-> None]
    /\ call = [k \in Keys |-> "idle"]
    /\ reply = [k \in Keys |-> "none"]
    /\ log = {file}
    /\ effects = [k \in Keys |-> 0]
    /\ torn = "no"

-----------------------------------------------------------------------------
(* Requests.                                                               *)

\* An administrator reads the configuration (GET /v1/config takes no lock),
\* edits it and saves.  The request reaches the agent at some later time.
Save(k, c) ==
    /\ req[k] = None
    /\ pc # "down"
    /\ req' = [req EXCEPT ![k] = [expected |-> file.rev, cfg |-> c, base |-> file.cfg,
                                  read |-> IF Free THEN "clean" ELSE "dirty"]]
    /\ call' = [call EXCEPT ![k] = "waiting"]
    /\ UNCHANGED <<diskVars, hostVars, cache, opVars, reply, ghostVars>>

\* The same request is sent again, whatever became of the first one.
Resend(k) ==
    /\ req[k] # None
    /\ call[k] = "idle"
    /\ pc # "down"
    /\ call' = [call EXCEPT ![k] = "waiting"]
    /\ UNCHANGED <<diskVars, hostVars, cache, opVars, req, reply, ghostVars>>

\* callAgent gives up after 15 seconds, or the web service that waits for the
\* answer is recreated; the agent goes on.
CallerGivesUp(k) ==
    /\ call[k] = "running"
    /\ call' = [call EXCEPT ![k] = "idle"]
    /\ reply' = [reply EXCEPT ![k] = "lost"]
    /\ UNCHANGED <<diskVars, hostVars, cache, opVars, req, ghostVars>>

Answer(k, r) ==
    /\ call' = [call EXCEPT ![k] = "idle"]
    /\ reply' = [reply EXCEPT ![k] = r]

-----------------------------------------------------------------------------
(* apply and rollback, up to their first write.                            *)

Known(k) == \E i \in DOMAIN cache : cache[i] = k

\* apply takes the lock and leaves early: a key it knows, a revision that has
\* changed, or a configuration that is not valid.
ApplyReturns(k) ==
    /\ Free
    /\ call[k] = "waiting"
    /\ \/ Known(k) /\ Answer(k, "applied")
       \/ ~Known(k) /\ req[k].expected # file.rev /\ Answer(k, "conflict")
       \/ ~Known(k) /\ req[k].expected = file.rev /\ ~Valid(req[k].cfg) /\ Answer(k, "invalid")
    /\ UNCHANGED <<diskVars, hostVars, cache, opVars, req, ghostVars>>

\* Mutant: apply does not compare the revisions.
ApplyStartsAnyway(k) ==
    /\ Free
    /\ call[k] = "waiting"
    /\ ~Known(k)
    /\ Valid(req[k].cfg)
    /\ file.rev < MaxRevision
    /\ pc' = "history" /\ who' = k /\ dir' = "do"
    /\ cur' = file
    /\ tgt' = [rev |-> file.rev + 1, cfg |-> req[k].cfg]
    /\ call' = [call EXCEPT ![k] = "running"]
    /\ UNCHANGED <<diskVars, hostVars, cache, idx, todo, req, reply, ghostVars>>

\* Mutant: the revision is not counted.
ApplyStartsSameRevision(k) ==
    /\ Free
    /\ call[k] = "waiting"
    /\ ~Known(k)
    /\ req[k].expected = file.rev
    /\ Valid(req[k].cfg)
    /\ file.rev < MaxRevision
    /\ pc' = "history" /\ who' = k /\ dir' = "do"
    /\ cur' = file
    /\ tgt' = [rev |-> file.rev, cfg |-> req[k].cfg]
    /\ call' = [call EXCEPT ![k] = "running"]
    /\ UNCHANGED <<diskVars, hostVars, cache, idx, todo, req, reply, ghostVars>>

\* Mutant: the key is stored before its apply has succeeded.
ApplyStartsRemembers(k) ==
    /\ Free
    /\ call[k] = "waiting"
    /\ ~Known(k)
    /\ req[k].expected = file.rev
    /\ Valid(req[k].cfg)
    /\ file.rev < MaxRevision
    /\ pc' = "history" /\ who' = k /\ dir' = "do"
    /\ cur' = file
    /\ tgt' = [rev |-> file.rev + 1, cfg |-> req[k].cfg]
    /\ call' = [call EXCEPT ![k] = "running"]
    /\ cache' = <<k>>
    /\ UNCHANGED <<diskVars, hostVars, idx, todo, req, reply, ghostVars>>

ApplyStarts(k) ==
    /\ Free
    /\ call[k] = "waiting"
    /\ ~Known(k)
    /\ req[k].expected = file.rev
    /\ Valid(req[k].cfg)
    /\ file.rev < MaxRevision
    /\ pc' = "history" /\ who' = k /\ dir' = "do"
    /\ cur' = file
    /\ tgt' = [rev |-> file.rev + 1, cfg |-> req[k].cfg]
    /\ call' = [call EXCEPT ![k] = "running"]
    /\ UNCHANGED <<diskVars, hostVars, cache, idx, todo, req, reply, ghostVars>>

\* rollback without history answers with an error and changes nothing.
RollbackStarts ==
    /\ Free
    /\ file.rev < MaxRevision
    /\ pc' = "config" /\ who' = "rollback" /\ dir' = "do"
    /\ cur' = file
    /\ \E e \in hist : Newest(e) /\ tgt' = [rev |-> file.rev + 1, cfg |-> e.cfg]
    /\ UNCHANGED <<diskVars, hostVars, cache, idx, todo, clientVars, ghostVars>>

-----------------------------------------------------------------------------
(* The steps under the lock.                                               *)

WriteHistory ==
    /\ pc = "history"
    /\ hist' = WithHistory(cur)
    /\ pc' = "config"
    /\ UNCHANGED <<file, gen, hostVars, cache, who, dir, cur, tgt, idx, todo, clientVars, ghostVars>>

WriteConfig ==
    /\ pc = "config"
    /\ file' = Target
    /\ pc' = "render" /\ idx' = 1
    /\ effects' = [k \in Keys |->
                     CASE k # who -> effects[k]
                       [] k = who /\ file # cur /\ dir = "undo" -> effects[k] - 1
                       [] k = who /\ dir = "do" -> effects[k] + 1
                       [] OTHER -> effects[k]]
    /\ UNCHANGED <<hist, gen, hostVars, cache, who, dir, cur, tgt, todo, clientVars, log, torn>>

\* render writes its files one after the other.
RenderFile ==
    /\ pc = "render"
    /\ gen' = [gen EXCEPT ![idx] = Target.cfg]
    /\ IF idx < NFiles
       THEN idx' = idx + 1 /\ UNCHANGED pc
       ELSE pc' = "firewall" /\ idx' = 1
    /\ UNCHANGED <<file, hist, hostVars, cache, who, dir, cur, tgt, todo, clientVars, ghostVars>>

\* Mutant: compose up names only what apply changes, nothing when it undoes.
FirewallUndoesNothing ==
    /\ pc = "firewall"
    /\ IF Relay(Target.cfg) # "off"
       THEN firewall' = "on" /\ UNCHANGED <<run, torn>>
       ELSE firewall' = "off" /\ run' = [run EXCEPT !["relay"] = None] /\ UNCHANGED torn
    /\ pc' = "up"
    /\ todo' = IF dir = "do" THEN Selected(Source.cfg, Target.cfg) ELSE {}
    /\ UNCHANGED <<diskVars, cache, who, dir, cur, tgt, idx, clientVars, log, effects>>

\* apply_runtime first installs the relay's rules, or stops the relay and
\* removes them.  The last two commands run with check=False.
Firewall ==
    /\ pc = "firewall"
    /\ IF Relay(Target.cfg) # "off"
       THEN firewall' = "on" /\ UNCHANGED <<run, torn>>
       ELSE \/ firewall' = "off" /\ run' = [run EXCEPT !["relay"] = None] /\ UNCHANGED torn
            \/ firewall' \in {"off", firewall} /\ torn' = "yes" /\ UNCHANGED run
    /\ pc' = "up"
    /\ todo' = Selected(Source.cfg, Target.cfg)
    /\ UNCHANGED <<diskVars, cache, who, dir, cur, tgt, idx, clientVars, log, effects>>

\* compose up recreates a container from the generated files.
Recreate(s) ==
    /\ pc = "up"
    /\ s \in todo
    /\ run' = [run EXCEPT ![s] = Target.cfg]
    /\ todo' = todo \ {s}
    /\ UNCHANGED <<diskVars, firewall, cache, pc, who, dir, cur, tgt, idx, clientVars, ghostVars>>

\* The containers are healthy.  After an undo the exception is raised again.
Healthy ==
    /\ pc = "up"
    /\ todo = {}
    /\ pc' = IF dir = "do" THEN "commit" ELSE "failed"
    /\ UNCHANGED <<diskVars, hostVars, cache, who, dir, cur, tgt, idx, todo, clientVars, ghostVars>>

\* Agent.idempotency keeps the answers of the last CacheLimit applies.
Remember(k) ==
    LET grown == Append(cache, k)
    IN  cache' = IF Len(grown) > CacheLimit THEN Tail(grown) ELSE grown

\* apply stores its answer, rollback removes the history file it took.
Commit ==
    /\ pc = "commit"
    /\ IF who = "rollback"
       THEN hist' = {e \in hist : ~Newest(e)} /\ UNCHANGED cache
       ELSE Remember(who) /\ UNCHANGED hist
    /\ pc' = "audit"
    /\ UNCHANGED <<file, gen, hostVars, who, dir, cur, tgt, idx, todo, clientVars, ghostVars>>

-----------------------------------------------------------------------------
(* Ends.                                                                   *)

\* The locals of apply and rollback are gone.
Forget == dir' = "do" /\ cur' = file /\ tgt' = file /\ idx' = 1 /\ todo' = {}

\* The lock is released and the caller, if it still waits, has its answer.
Release(r) ==
    /\ pc' = "free" /\ who' = "nobody"
    /\ IF who \in Keys /\ call[who] = "running" THEN Answer(who, r) ELSE UNCHANGED <<call, reply>>
    /\ Forget
    /\ log' = log \cup {file}
    /\ UNCHANGED <<file, gen, hostVars, cache, req, effects>>

\* The audit event is written after everything else; writing it may fail.
Finish ==
    /\ pc = "audit"
    /\ \E r \in {"applied", "error"} : Release(r)
    /\ UNCHANGED <<hist, torn>>

\* The exception leaves apply or rollback.
GiveUp ==
    /\ pc = "failed"
    /\ Release("error")
    /\ UNCHANGED <<hist, torn>>

\* A failure before the try block: the history file may have been replaced.
HistoryFails ==
    /\ pc = "history"
    /\ hist' \in {hist, WithHistory(cur)}
    /\ Release("error")
    /\ UNCHANGED torn

\* A failure inside the try block starts the except block; a second failure,
\* inside the except block, leaves things as they are.
StepFails ==
    /\ pc \in {"config", "render", "firewall", "up"}
    /\ IF dir = "do"
       THEN dir' = "undo" /\ pc' = "config" /\ UNCHANGED torn
       ELSE pc' = "failed" /\ torn' = "yes" /\ UNCHANGED dir
    /\ idx' = 1 /\ todo' = {}
    /\ UNCHANGED <<diskVars, hostVars, cache, who, cur, tgt, clientVars, log, effects>>

\* rollback cannot remove the history file.
UnlinkFails ==
    /\ pc = "commit" /\ who = "rollback"
    /\ pc' = "failed"
    /\ UNCHANGED <<diskVars, hostVars, cache, who, dir, cur, tgt, idx, todo, clientVars, ghostVars>>

\* The process dies.  Its clients lose their connections.
Crash ==
    /\ pc # "down"
    /\ pc' = "down" /\ who' = "nobody"
    /\ cache' = <<>>
    /\ reply' = [k \in Keys |-> IF call[k] = "idle" THEN reply[k] ELSE "lost"]
    /\ call' = [k \in Keys |-> "idle"]
    /\ log' = log \cup {file}
    /\ torn' = IF pc \in {"free", "history", "commit", "audit", "failed"} THEN torn ELSE "yes"
    /\ Forget
    /\ UNCHANGED <<diskVars, hostVars, req, effects>>

\* systemd starts it again; __init__ finds config.json and renders nothing.
Restart ==
    /\ pc = "down"
    /\ pc' = "free"
    /\ UNCHANGED <<diskVars, hostVars, cache, who, dir, cur, tgt, idx, todo, clientVars, ghostVars>>

-----------------------------------------------------------------------------
Work ==
    \/ WriteHistory \/ WriteConfig \/ RenderFile \/ Firewall
    \/ \E s \in Services : Recreate(s)
    \/ Healthy \/ Commit \/ Finish \/ GiveUp

Fault == HistoryFails \/ StepFails \/ UnlinkFails \/ Crash

Next ==
    \/ \E k \in Keys : \/ \E c \in Configs \cup {BadConfig} : Save(k, c)
                       \/ Resend(k) \/ CallerGivesUp(k) \/ ApplyReturns(k) \/ ApplyStarts(k)
    \/ RollbackStarts
    \/ Work
    \/ Fault
    \/ Restart

Spec == Init /\ [][Next]_vars


-----------------------------------------------------------------------------
(* Properties.                                                             *)

\* Type correctness.
TypeOK ==
    /\ file \in Envelopes
    /\ hist \in SUBSET Envelopes
    /\ gen \in [1..NFiles -> Configs]
    /\ run \in [Services -> Configs \cup {None}]
    /\ firewall \in {"on", "off"}
    /\ cache \in Seq(Keys) /\ Len(cache) <= CacheLimit
    /\ pc \in {"free", "down", "history", "config", "render", "firewall", "up",
               "commit", "audit", "failed"}
    /\ who \in Keys \cup {"rollback", "nobody"}
    /\ dir \in {"do", "undo"}
    /\ cur \in Envelopes /\ tgt \in Envelopes
    /\ idx \in 1..NFiles
    /\ todo \in SUBSET Services
    /\ req \in [Keys -> Requests \cup {None}]
    /\ call \in [Keys -> {"idle", "waiting", "running"}]
    /\ reply \in [Keys -> {"none", "applied", "conflict", "invalid", "error", "lost"}]
    /\ log \in SUBSET Envelopes
    /\ effects \in [Keys -> Int]
    /\ torn \in {"yes", "no"}

\* A revision number names one configuration for ever: whatever fails and
\* wherever the agent crashes, no revision that config.json held while no
\* operation was under way is given to another configuration, and none is
\* above the current one.
RevisionsNameConfigs ==
    /\ \A e, f \in log : e.rev = f.rev => e = f
    /\ pc \in {"free", "down"} => file \in log /\ \A e \in log : e.rev <= file.rev

\* No lost update: an apply that goes ahead replaces the configuration its
\* administrator has read, if the read did not fall into another operation.
NoLostUpdate ==
    who \in Keys /\ req[who].read = "clean" => req[who].base = cur.cfg

\* A save takes effect at most once, however often it is sent, over crashes and
\* evictions from the memory of answers; and it did when the answer says so.
AppliedOnce ==
    \A k \in Keys : /\ effects[k] \in {0, 1}
                    /\ reply[k] = "applied" => effects[k] = 1

\* What rollback can restore is a configuration that was in effect, under the
\* revision it was in effect with.
HistoryIsTrue == hist \subseteq log

\* A service is as the configuration wants it.
Agrees(s, c) ==
    IF s = "relay" /\ Relay(c) = "off"
    THEN run[s] = None
    ELSE run[s] # None /\ s \notin ChangedServices(run[s], c)

\* Unless a crash, a second failure during the undo or an ignored error of
\* docker came in between, an operation that is over, completed or undone, has
\* left the rendered files, the containers and the firewall as config.json says.
StackAgrees ==
    Free /\ torn = "no" =>
        /\ \A i \in 1..NFiles : gen[i] = file.cfg
        /\ \A s \in Services : Agrees(s, file.cfg)
        /\ firewall = IF Relay(file.cfg) = "off" THEN "off" ELSE "on"

\* The register the agent implements has the value of config.json except
\* between its replacement and the end of the operation or of its undo.
RegisterValue == IF pc \in {"config", "render", "firewall", "up"} THEN cur ELSE file

Register == INSTANCE ConfigRegister WITH
    RegConfigs <- Configs, FirstRegConfig <- FirstConfig, Savers <- Keys, NoRequest <- None,
    reg <- RegisterValue, shown <- file, past <- log \cup {RegisterValue}, asked <- req

\* Whatever fails and whenever the agent crashes, it is a register with a
\* revision: every save or rollback is accepted or undone as a whole, and a
\* save only replaces the revision it names.
ImplementsRegister == Register!RegSpec
=============================================================================
