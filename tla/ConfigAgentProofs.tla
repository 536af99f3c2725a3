------------------------ MODULE ConfigAgentProofs ------------------------
(***************************************************************************)
(* Proofs about the configuration agent, for any configurations, keys,     *)
(* number of files and number of revisions, with a failure possible at     *)
(* every step and a crash between any two.                                 *)
(*                                                                         *)
(* The argument: `cur' is the configuration in force, the one config.json  *)
(* holds when nobody writes; an operation only ever has cur or tgt in      *)
(* config.json, and tgt bears a revision nobody has seen outside of the    *)
(* operation.  Files, containers and firewall are as cur or as tgt wants   *)
(* them, section by section, so that an undo has only to go back over what *)
(* changed.  With both invariants the agent implements ConfigRegister.     *)
(***************************************************************************)
EXTENDS ConfigAgent, TLAPS

Busy == pc \notin {"free", "down"}

\* Phases.
FileIsCurOrTgt == file \in {cur, tgt}
IdleForgets == ~Busy => cur = file /\ who = "nobody"
NextRevision == Busy => tgt.rev = cur.rev + 1 /\ who # "nobody"
NotYetWritten == pc = "history" \/ (pc = "config" /\ dir = "do") => file = cur /\ dir = "do"
Written == pc \in {"commit", "audit"} \/ (pc \in {"render", "firewall", "up"} /\ dir = "do") => file = tgt

Phases == FileIsCurOrTgt /\ IdleForgets /\ NextRevision /\ NotYetWritten /\ Written

\* History and log.
LogIsOld == cur \in log /\ \A e \in log : e.rev <= cur.rev
LogUnique == \A e, f \in log : e.rev = f.rev => e = f

Logs == LogIsOld /\ LogUnique /\ HistoryIsTrue

\* Requests.
CallsHaveRequests == \A k \in Keys : call[k] # "idle" \/ who = k => req[k] # None
CleanReadsLogged ==
    \A k \in Keys : req[k] # None /\ req[k].read = "clean"
                      => [rev |-> req[k].expected, cfg |-> req[k].base] \in log

Reads == CallsHaveRequests /\ CleanReadsLogged /\ NoLostUpdate

\* Effects.
RunnerStartedHere ==
    who \in Keys => req[who].expected = cur.rev /\ effects[who] = IF file = cur THEN 0 ELSE 1
OthersAreOver ==
    \A k \in Keys : k # who =>
        \/ effects[k] = 0
        \/ effects[k] = 1 /\ req[k] # None /\ req[k].expected < cur.rev
AnswersAreTrue ==
    \A k \in Keys : /\ reply[k] = "applied" => effects[k] = 1 /\ k # who
                    /\ Known(k) => effects[k] = 1 /\ (k = who => pc = "audit")

Effects == RunnerStartedHere /\ OthersAreOver /\ AnswersAreTrue

AgentInv == TypeOK /\ Phases /\ Logs /\ Reads /\ Effects

-----------------------------------------------------------------------------
\* What apply stores in its memory of answers.
LEMMA RememberType ==
    ASSUME TypeOK, NEW k \in Keys, Remember(k)
    PROVE  cache' \in Seq(Keys) /\ Len(cache') <= CacheLimit
<1> DEFINE grown == Append(cache, k)
<1>1. cache \in Seq(Keys) /\ Len(cache) <= CacheLimit /\ CacheLimit \in Nat /\ Len(cache) \in Nat
  BY BoundsAssumption DEF TypeOK
<1>2. grown \in Seq(Keys) /\ Len(grown) = Len(cache) + 1 /\ grown # <<>>
  BY <1>1
<1>3. CASE Len(grown) > CacheLimit
  <2>1. cache' = Tail(grown)
    BY <1>3 DEF Remember
  <2>2. Tail(grown) \in Seq(Keys) /\ Len(Tail(grown)) = Len(grown) - 1
    BY <1>2
  <2> QED BY <2>1, <2>2, <1>1, <1>2
<1>4. CASE ~(Len(grown) > CacheLimit)
  BY <1>4, <1>2, <1>1 DEF Remember
<1> QED BY <1>3, <1>4

\* A key is in the memory afterwards only if it was before or is the new one.
LEMMA RememberKnown ==
    ASSUME TypeOK, NEW k \in Keys, Remember(k), NEW j \in Keys, Known(j)'
    PROVE  j = k \/ Known(j)
<1> DEFINE grown == Append(cache, k)
<1>1. cache \in Seq(Keys) /\ Len(cache) \in Nat
  BY DEF TypeOK
<1>2. grown \in Seq(Keys) /\ Len(grown) = Len(cache) + 1 /\ grown # <<>>
      /\ \A i \in 1..Len(grown) : grown[i] = k \/ (i \in DOMAIN cache /\ grown[i] = cache[i])
  BY <1>1
<1>3. PICK i \in DOMAIN cache' : cache'[i] = j
  BY DEF Known
<1>4. CASE cache' = grown
  <2>1. i \in 1..Len(grown) /\ grown[i] = j
    BY <1>3, <1>4, <1>2
  <2> QED BY <2>1, <1>2 DEF Known
<1>5. CASE cache' = Tail(grown)
  <2>1. Tail(grown) \in Seq(Keys) /\ Len(Tail(grown)) = Len(grown) - 1
        /\ \A n \in 1..Len(Tail(grown)) : Tail(grown)[n] = grown[n + 1]
    BY <1>2
  <2>2. i \in 1..Len(Tail(grown)) /\ grown[i + 1] = j
    BY <2>1, <1>3, <1>5
  <2>3. i + 1 \in 1..Len(grown)
    BY <2>1, <2>2, <1>2
  <2> QED BY <2>2, <2>3, <1>2 DEF Known
<1> QED BY <1>4, <1>5 DEF Remember

Replies == {"none", "applied", "conflict", "invalid", "error", "lost"}

\* An operation has ended with answer r.
Ended(r) ==
    /\ pc' = "free" /\ who' = "nobody" /\ dir' = "do" /\ cur' = file /\ tgt' = file
    /\ idx' = 1 /\ todo' = {} /\ log' = log \cup {file}
    /\ UNCHANGED <<file, gen, run, firewall, cache, req, effects>>
    /\ call' \in [Keys -> {"idle", "waiting", "running"}]
    /\ reply' \in [Keys -> Replies]
    /\ \A k \in Keys : call'[k] # "idle" => call[k] # "idle"
    /\ \A k \in Keys : reply'[k] = reply[k] \/ (reply'[k] = r /\ k = who)

\* What the end of an operation does.
LEMMA ReleaseEffect == ASSUME TypeOK, NEW r \in Replies, Release(r) PROVE Ended(r)
<1> USE DEF TypeOK, Replies, Ended
<1>1. /\ pc' = "free" /\ who' = "nobody" /\ dir' = "do" /\ cur' = file /\ tgt' = file
      /\ idx' = 1 /\ todo' = {} /\ log' = log \cup {file}
      /\ UNCHANGED <<file, gen, run, firewall, cache, req, effects>>
  BY DEF Release, Forget, hostVars
<1>2. CASE who \in Keys /\ call[who] = "running"
  <2>1. /\ call' = [call EXCEPT ![who] = "idle"]
        /\ reply' = [reply EXCEPT ![who] = r]
    BY <1>2 DEF Release, Answer
  <2> QED BY <1>1, <1>2, <2>1
<1>3. CASE ~(who \in Keys /\ call[who] = "running")
  <2>1. UNCHANGED <<call, reply>>
    BY <1>3 DEF Release
  <2> QED BY <1>1, <2>1
<1> QED BY <1>2, <1>3

\* Every action keeps the types.
LEMMA TypeStep == ASSUME TypeOK, Phases, Reads, [Next]_vars PROVE TypeOK'
<1> USE ConfigsAssumption, BoundsAssumption, KeysAssumption DEF TypeOK, Phases, NextRevision, Busy,
     Envelopes, Requests
<1>1. ASSUME NEW k \in Keys, NEW c \in Configs \cup {BadConfig}, Save(k, c) PROVE TypeOK'
  BY <1>1 DEF Save, Free, diskVars, hostVars, opVars, clientVars, ghostVars
<1>2. ASSUME NEW k \in Keys, Resend(k) PROVE TypeOK'
  BY <1>2 DEF Resend, diskVars, hostVars, opVars, clientVars, ghostVars
<1>3. ASSUME NEW k \in Keys, CallerGivesUp(k) PROVE TypeOK'
  BY <1>3 DEF CallerGivesUp, diskVars, hostVars, opVars, clientVars, ghostVars
<1>4. ASSUME NEW k \in Keys, ApplyReturns(k) PROVE TypeOK'
  BY <1>4 DEF ApplyReturns, Valid, Answer, Free, diskVars, hostVars, opVars, clientVars, ghostVars
<1>5. ASSUME NEW k \in Keys, ApplyStarts(k) PROVE TypeOK'
  <2>1. req[k] \in Requests
    BY <1>5 DEF ApplyStarts, Valid, Reads, CallsHaveRequests
  <2> QED BY <1>5, <2>1 DEF ApplyStarts, Valid, Free, diskVars, hostVars, opVars, clientVars, ghostVars
<1>6. ASSUME NEW s \in Services, Recreate(s) PROVE TypeOK'
  BY <1>6 DEF Recreate, Target, diskVars, hostVars, opVars, clientVars, ghostVars
<1>7. CASE RollbackStarts
  BY <1>7 DEF RollbackStarts, Free, Newest, diskVars, hostVars, opVars, clientVars, ghostVars
<1>8. CASE WriteHistory
  BY <1>8 DEF WriteHistory, WithHistory, diskVars, hostVars, opVars, clientVars, ghostVars
<1>9. CASE WriteConfig
  BY <1>9 DEF WriteConfig, Target, diskVars, hostVars, opVars, clientVars, ghostVars
<1>10. CASE RenderFile
  BY <1>10 DEF RenderFile, Target, diskVars, hostVars, opVars, clientVars, ghostVars
<1>11. CASE Firewall
  <2>1. Target.cfg \in Configs /\ Source.cfg \in Configs /\ Selected(Source.cfg, Target.cfg) \in
       SUBSET Services
    BY DEF Target, Source, Selected, ChangedServices, Services
  <2>2. run' \in [Services -> Configs \cup {None}] /\ firewall' \in {"on", "off"} /\ torn' \in
       {"yes", "no"}
    BY <1>11 DEF Firewall
  <2> QED BY <1>11, <2>1, <2>2 DEF Firewall, diskVars, hostVars, opVars, clientVars, ghostVars
<1>12. CASE Healthy
  BY <1>12 DEF Healthy, diskVars, hostVars, opVars, clientVars, ghostVars
<1>13. CASE Commit
  <2>1. who = "rollback" \/ who \in Keys
    BY <1>13 DEF Commit
  <2>2. cache' \in Seq(Keys) /\ Len(cache') <= CacheLimit /\ hist' \in SUBSET hist
    BY <1>13, <2>1, RememberType DEF Commit
  <2> QED BY <1>13, <2>2 DEF Commit, diskVars, hostVars, opVars, clientVars, ghostVars
<1>14. CASE Finish
  <2>1. PICK r \in Replies : Release(r) /\ hist' \in SUBSET (hist \cup {cur}) /\ UNCHANGED torn
    BY <1>14 DEF Finish, Replies
  <2>2. Ended(r)
    BY <2>1, ReleaseEffect
  <2> QED BY <2>1, <2>2 DEF Ended, Replies
<1>15. CASE GiveUp
  <2>1. PICK r \in Replies : Release(r) /\ hist' \in SUBSET (hist \cup {cur}) /\ UNCHANGED torn
    BY <1>15 DEF GiveUp, Replies
  <2>2. Ended(r)
    BY <2>1, ReleaseEffect
  <2> QED BY <2>1, <2>2 DEF Ended, Replies
<1>16. CASE HistoryFails
  <2>1. PICK r \in Replies : Release(r) /\ hist' \in SUBSET (hist \cup {cur}) /\ UNCHANGED torn
    BY <1>16 DEF HistoryFails, Replies, WithHistory
  <2>2. Ended(r)
    BY <2>1, ReleaseEffect
  <2> QED BY <2>1, <2>2 DEF Ended, Replies
<1>17. CASE StepFails
  BY <1>17 DEF StepFails, diskVars, hostVars, opVars, clientVars, ghostVars
<1>18. CASE UnlinkFails
  BY <1>18 DEF UnlinkFails, diskVars, hostVars, opVars, clientVars, ghostVars
<1>19. CASE Crash
  BY <1>19 DEF Crash, Forget, diskVars, hostVars, opVars, clientVars, ghostVars
<1>20. CASE Restart
  BY <1>20 DEF Restart, diskVars, hostVars, opVars, clientVars, ghostVars
<1>21. CASE UNCHANGED vars
  BY <1>21 DEF vars, diskVars, hostVars, opVars, clientVars, ghostVars
<1> QED BY <1>1, <1>2, <1>3, <1>4, <1>5, <1>6, <1>7, <1>8, <1>9, <1>10, <1>11, <1>12, <1>13, <1>14,
     <1>15, <1>16, <1>17, <1>18, <1>19, <1>20, <1>21 DEF Next, Work, Fault

\* Every action keeps config.json at the old or at the new configuration, as its place in the operation says.
LEMMA PhasesStep == ASSUME TypeOK, Phases, Reads, [Next]_vars PROVE Phases'
<1> USE ConfigsAssumption, KeysAssumption DEF TypeOK, Phases, FileIsCurOrTgt, IdleForgets,
     NextRevision, NotYetWritten, Written, Busy, Envelopes, Requests
<1>1. ASSUME NEW k \in Keys, NEW c \in Configs \cup {BadConfig}, Save(k, c) PROVE Phases'
  BY <1>1 DEF Save, Free, diskVars, hostVars, opVars, clientVars, ghostVars
<1>2. ASSUME NEW k \in Keys, Resend(k) PROVE Phases'
  BY <1>2 DEF Resend, diskVars, hostVars, opVars, clientVars, ghostVars
<1>3. ASSUME NEW k \in Keys, CallerGivesUp(k) PROVE Phases'
  BY <1>3 DEF CallerGivesUp, diskVars, hostVars, opVars, clientVars, ghostVars
<1>4. ASSUME NEW k \in Keys, ApplyReturns(k) PROVE Phases'
  BY <1>4 DEF ApplyReturns, Valid, Answer, Free, diskVars, hostVars, opVars, clientVars, ghostVars
<1>5. ASSUME NEW k \in Keys, ApplyStarts(k) PROVE Phases'
  <2>1. req[k] \in Requests
    BY <1>5 DEF ApplyStarts, Valid, Reads, CallsHaveRequests
  <2> QED BY <1>5, <2>1 DEF ApplyStarts, Valid, Free, diskVars, hostVars, opVars, clientVars, ghostVars
<1>6. ASSUME NEW s \in Services, Recreate(s) PROVE Phases'
  BY <1>6 DEF Recreate, Target, diskVars, hostVars, opVars, clientVars, ghostVars
<1>7. CASE RollbackStarts
  BY <1>7 DEF RollbackStarts, Free, Newest, diskVars, hostVars, opVars, clientVars, ghostVars
<1>8. CASE WriteHistory
  BY <1>8 DEF WriteHistory, WithHistory, diskVars, hostVars, opVars, clientVars, ghostVars
<1>9. CASE WriteConfig
  BY <1>9 DEF WriteConfig, Target, diskVars, hostVars, opVars, clientVars, ghostVars
<1>10. CASE RenderFile
  BY <1>10 DEF RenderFile, Target, diskVars, hostVars, opVars, clientVars, ghostVars
<1>11. CASE Firewall
  BY <1>11 DEF Firewall, Target, Source, Selected, ChangedServices, diskVars, hostVars, opVars,
       clientVars, ghostVars
<1>12. CASE Healthy
  BY <1>12 DEF Healthy, diskVars, hostVars, opVars, clientVars, ghostVars
<1>13. CASE Commit
  BY <1>13 DEF Commit, diskVars, hostVars, opVars, clientVars, ghostVars
<1>14. CASE Finish
  <2>1. PICK r \in Replies : Release(r) /\ hist' \in SUBSET (hist \cup {cur}) /\ UNCHANGED torn
    BY <1>14 DEF Finish, Replies
  <2>2. Ended(r)
    BY <2>1, ReleaseEffect
  <2> QED BY <2>2 DEF Ended
<1>15. CASE GiveUp
  <2>1. PICK r \in Replies : Release(r) /\ hist' \in SUBSET (hist \cup {cur}) /\ UNCHANGED torn
    BY <1>15 DEF GiveUp, Replies
  <2>2. Ended(r)
    BY <2>1, ReleaseEffect
  <2> QED BY <2>2 DEF Ended
<1>16. CASE HistoryFails
  <2>1. PICK r \in Replies : Release(r) /\ hist' \in SUBSET (hist \cup {cur}) /\ UNCHANGED torn
    BY <1>16 DEF HistoryFails, Replies, WithHistory
  <2>2. Ended(r)
    BY <2>1, ReleaseEffect
  <2> QED BY <2>2 DEF Ended
<1>17. CASE StepFails
  BY <1>17 DEF StepFails, diskVars, hostVars, opVars, clientVars, ghostVars
<1>18. CASE UnlinkFails
  BY <1>18 DEF UnlinkFails, diskVars, hostVars, opVars, clientVars, ghostVars
<1>19. CASE Crash
  BY <1>19 DEF Crash, Forget, diskVars, hostVars, opVars, clientVars, ghostVars
<1>20. CASE Restart
  BY <1>20 DEF Restart, diskVars, hostVars, opVars, clientVars, ghostVars
<1>21. CASE UNCHANGED vars
  BY <1>21 DEF vars, diskVars, hostVars, opVars, clientVars, ghostVars
<1> QED BY <1>1, <1>2, <1>3, <1>4, <1>5, <1>6, <1>7, <1>8, <1>9, <1>10, <1>11, <1>12, <1>13, <1>14,
     <1>15, <1>16, <1>17, <1>18, <1>19, <1>20, <1>21 DEF Next, Work, Fault

\* Every action logs only the configuration in force or one with a newer revision.
LEMMA LogsStep == ASSUME TypeOK, Phases, Logs, Reads, [Next]_vars PROVE Logs'
<1> USE ConfigsAssumption, KeysAssumption DEF TypeOK, Phases, FileIsCurOrTgt, IdleForgets,
     NextRevision, NotYetWritten, Written, Busy, Logs, LogIsOld, LogUnique, HistoryIsTrue, Envelopes
<1>1. ASSUME NEW k \in Keys, NEW c \in Configs \cup {BadConfig}, Save(k, c) PROVE Logs'
  BY <1>1 DEF Save, Free, diskVars, hostVars, opVars, clientVars, ghostVars
<1>2. ASSUME NEW k \in Keys, Resend(k) PROVE Logs'
  BY <1>2 DEF Resend, diskVars, hostVars, opVars, clientVars, ghostVars
<1>3. ASSUME NEW k \in Keys, CallerGivesUp(k) PROVE Logs'
  BY <1>3 DEF CallerGivesUp, diskVars, hostVars, opVars, clientVars, ghostVars
<1>4. ASSUME NEW k \in Keys, ApplyReturns(k) PROVE Logs'
  BY <1>4 DEF ApplyReturns, Valid, Answer, Free, diskVars, hostVars, opVars, clientVars, ghostVars
<1>5. ASSUME NEW k \in Keys, ApplyStarts(k) PROVE Logs'
  BY <1>5 DEF ApplyStarts, Valid, Free, Known, diskVars, hostVars, opVars, clientVars, ghostVars
<1>6. ASSUME NEW s \in Services, Recreate(s) PROVE Logs'
  BY <1>6 DEF Recreate, Target, diskVars, hostVars, opVars, clientVars, ghostVars
<1>7. CASE RollbackStarts
  BY <1>7 DEF RollbackStarts, Free, Newest, diskVars, hostVars, opVars, clientVars, ghostVars
<1>8. CASE WriteHistory
  BY <1>8 DEF WriteHistory, WithHistory, diskVars, hostVars, opVars, clientVars, ghostVars
<1>9. CASE WriteConfig
  BY <1>9 DEF WriteConfig, Target, diskVars, hostVars, opVars, clientVars, ghostVars
<1>10. CASE RenderFile
  BY <1>10 DEF RenderFile, Target, diskVars, hostVars, opVars, clientVars, ghostVars
<1>11. CASE Firewall
  BY <1>11 DEF Firewall, Target, Source, Selected, ChangedServices, diskVars, hostVars, opVars,
       clientVars, ghostVars
<1>12. CASE Healthy
  BY <1>12 DEF Healthy, diskVars, hostVars, opVars, clientVars, ghostVars
<1>13. CASE Commit
  BY <1>13 DEF Commit, diskVars, hostVars, opVars, clientVars, ghostVars
<1>14. CASE Finish
  <2>1. PICK r \in Replies : Release(r) /\ hist' \in SUBSET (hist \cup {cur}) /\ UNCHANGED torn
    BY <1>14 DEF Finish, Replies
  <2>2. Ended(r)
    BY <2>1, ReleaseEffect
  <2> QED BY <1>14, <2>1, <2>2 DEF Ended, Finish
<1>15. CASE GiveUp
  <2>1. PICK r \in Replies : Release(r) /\ hist' \in SUBSET (hist \cup {cur}) /\ UNCHANGED torn
    BY <1>15 DEF GiveUp, Replies
  <2>2. Ended(r)
    BY <2>1, ReleaseEffect
  <2> QED BY <1>15, <2>1, <2>2 DEF Ended, GiveUp
<1>16. CASE HistoryFails
  <2>1. PICK r \in Replies : Release(r) /\ hist' \in SUBSET (hist \cup {cur}) /\ UNCHANGED torn
    BY <1>16 DEF HistoryFails, Replies, WithHistory
  <2>2. Ended(r)
    BY <2>1, ReleaseEffect
  <2> QED BY <1>16, <2>1, <2>2 DEF Ended, HistoryFails
<1>17. CASE StepFails
  BY <1>17 DEF StepFails, diskVars, hostVars, opVars, clientVars, ghostVars
<1>18. CASE UnlinkFails
  BY <1>18 DEF UnlinkFails, diskVars, hostVars, opVars, clientVars, ghostVars
<1>19. CASE Crash
  BY <1>19 DEF Crash, Forget, diskVars, hostVars, opVars, clientVars, ghostVars
<1>20. CASE Restart
  BY <1>20 DEF Restart, diskVars, hostVars, opVars, clientVars, ghostVars
<1>21. CASE UNCHANGED vars
  BY <1>21 DEF vars, diskVars, hostVars, opVars, clientVars, ghostVars
<1> QED BY <1>1, <1>2, <1>3, <1>4, <1>5, <1>6, <1>7, <1>8, <1>9, <1>10, <1>11, <1>12, <1>13, <1>14,
     <1>15, <1>16, <1>17, <1>18, <1>19, <1>20, <1>21 DEF Next, Work, Fault

\* Every action keeps a clean read true of the log.
LEMMA ReadsStep == ASSUME TypeOK, Phases, Logs, Reads, [Next]_vars PROVE Reads'
<1> USE ConfigsAssumption, KeysAssumption DEF TypeOK, Phases, FileIsCurOrTgt, IdleForgets,
     NextRevision, NotYetWritten, Written, Busy, Logs, LogIsOld, LogUnique, Reads, CallsHaveRequests,
     CleanReadsLogged, NoLostUpdate, Envelopes, Requests
<1>1. ASSUME NEW k \in Keys, NEW c \in Configs \cup {BadConfig}, Save(k, c) PROVE Reads'
  BY <1>1 DEF Save, Free, diskVars, hostVars, opVars, clientVars, ghostVars
<1>2. ASSUME NEW k \in Keys, Resend(k) PROVE Reads'
  BY <1>2 DEF Resend, diskVars, hostVars, opVars, clientVars, ghostVars
<1>3. ASSUME NEW k \in Keys, CallerGivesUp(k) PROVE Reads'
  BY <1>3 DEF CallerGivesUp, diskVars, hostVars, opVars, clientVars, ghostVars
<1>4. ASSUME NEW k \in Keys, ApplyReturns(k) PROVE Reads'
  BY <1>4 DEF ApplyReturns, Valid, Answer, Free, diskVars, hostVars, opVars, clientVars, ghostVars
<1>5. ASSUME NEW k \in Keys, ApplyStarts(k) PROVE Reads'
  <2>1. /\ who = "nobody" /\ who' = k /\ cur' = file /\ cur = file /\ req[k] # None
        /\ req[k].expected = file.rev
        /\ UNCHANGED <<file, req, log>>
        /\ \A j \in Keys : call'[j] # "idle" => call[j] # "idle"
    BY <1>5 DEF ApplyStarts, Valid, Free, diskVars, hostVars, opVars, clientVars, ghostVars
  <2>2. CallsHaveRequests' /\ CleanReadsLogged'
    BY <2>1
  <2>3. ASSUME req[k].read = "clean" PROVE req[k].base = file.cfg
    <3>1. [rev |-> req[k].expected, cfg |-> req[k].base] \in log /\ file \in log
      BY <2>1, <2>3
    <3>2. [rev |-> req[k].expected, cfg |-> req[k].base] = file
      BY <3>1, <2>1
    <3> QED BY <3>2
  <2> QED BY <2>1, <2>2, <2>3
<1>6. ASSUME NEW s \in Services, Recreate(s) PROVE Reads'
  BY <1>6 DEF Recreate, Target, diskVars, hostVars, opVars, clientVars, ghostVars
<1>7. CASE RollbackStarts
  BY <1>7 DEF RollbackStarts, Free, Newest, diskVars, hostVars, opVars, clientVars, ghostVars
<1>8. CASE WriteHistory
  BY <1>8 DEF WriteHistory, WithHistory, diskVars, hostVars, opVars, clientVars, ghostVars
<1>9. CASE WriteConfig
  BY <1>9 DEF WriteConfig, Target, diskVars, hostVars, opVars, clientVars, ghostVars
<1>10. CASE RenderFile
  BY <1>10 DEF RenderFile, Target, diskVars, hostVars, opVars, clientVars, ghostVars
<1>11. CASE Firewall
  BY <1>11 DEF Firewall, Target, Source, Selected, ChangedServices, diskVars, hostVars, opVars,
       clientVars, ghostVars
<1>12. CASE Healthy
  BY <1>12 DEF Healthy, diskVars, hostVars, opVars, clientVars, ghostVars
<1>13. CASE Commit
  BY <1>13 DEF Commit, diskVars, hostVars, opVars, clientVars, ghostVars
<1>14. CASE Finish
  <2>1. PICK r \in Replies : Release(r) /\ hist' \in SUBSET (hist \cup {cur}) /\ UNCHANGED torn
    BY <1>14 DEF Finish, Replies
  <2>2. Ended(r)
    BY <2>1, ReleaseEffect
  <2> QED BY <1>14, <2>1, <2>2 DEF Ended, Finish
<1>15. CASE GiveUp
  <2>1. PICK r \in Replies : Release(r) /\ hist' \in SUBSET (hist \cup {cur}) /\ UNCHANGED torn
    BY <1>15 DEF GiveUp, Replies
  <2>2. Ended(r)
    BY <2>1, ReleaseEffect
  <2> QED BY <1>15, <2>1, <2>2 DEF Ended, GiveUp
<1>16. CASE HistoryFails
  <2>1. PICK r \in Replies : Release(r) /\ hist' \in SUBSET (hist \cup {cur}) /\ UNCHANGED torn
    BY <1>16 DEF HistoryFails, Replies, WithHistory
  <2>2. Ended(r)
    BY <2>1, ReleaseEffect
  <2> QED BY <1>16, <2>1, <2>2 DEF Ended, HistoryFails
<1>17. CASE StepFails
  BY <1>17 DEF StepFails, diskVars, hostVars, opVars, clientVars, ghostVars
<1>18. CASE UnlinkFails
  BY <1>18 DEF UnlinkFails, diskVars, hostVars, opVars, clientVars, ghostVars
<1>19. CASE Crash
  BY <1>19 DEF Crash, Forget, diskVars, hostVars, opVars, clientVars, ghostVars
<1>20. CASE Restart
  BY <1>20 DEF Restart, diskVars, hostVars, opVars, clientVars, ghostVars
<1>21. CASE UNCHANGED vars
  BY <1>21 DEF vars, diskVars, hostVars, opVars, clientVars, ghostVars
<1> QED BY <1>1, <1>2, <1>3, <1>4, <1>5, <1>6, <1>7, <1>8, <1>9, <1>10, <1>11, <1>12, <1>13, <1>14,
     <1>15, <1>16, <1>17, <1>18, <1>19, <1>20, <1>21 DEF Next, Work, Fault

\* An unchanged memory knows the same keys.
LEMMA SameKnown == ASSUME UNCHANGED cache, NEW k \in Keys PROVE Known(k)' <=> Known(k)
BY DEF Known

\* Nothing the count of effects depends on changes.
LEMMA EffectsKept ==
    ASSUME TypeOK, Effects, UNCHANGED <<who, req, cur, file, effects, cache>>,
           pc = "audit" => pc' = "audit",
           \A k \in Keys : reply'[k] = "applied" =>
               reply[k] = "applied" \/ (effects[k] = 1 /\ k # who)
    PROVE  Effects'
<1>1. RunnerStartedHere' /\ OthersAreOver'
  BY DEF Effects, RunnerStartedHere, OthersAreOver
<1>2. AnswersAreTrue'
  <2> SUFFICES ASSUME NEW k \in Keys
               PROVE  /\ reply'[k] = "applied" => effects'[k] = 1 /\ k # who'
                      /\ Known(k)' => effects'[k] = 1 /\ (k = who' => pc' = "audit")
    BY DEF AnswersAreTrue
  <2> QED BY SameKnown DEF Effects, AnswersAreTrue
<1> QED BY <1>1, <1>2 DEF Effects

\* Every action keeps the count of the effects of a save.
LEMMA EffectsStep == ASSUME TypeOK, Phases, Reads, Effects, [Next]_vars PROVE Effects'
<1> USE ConfigsAssumption, KeysAssumption DEF TypeOK, Phases, FileIsCurOrTgt, IdleForgets,
     NextRevision, NotYetWritten, Written, Busy, Reads, CallsHaveRequests, Effects, RunnerStartedHere,
     OthersAreOver, AnswersAreTrue, Envelopes, Requests
<1>1. ASSUME NEW k \in Keys, NEW c \in Configs \cup {BadConfig}, Save(k, c) PROVE Effects'
  <2>1. /\ req[k] = None /\ k # who
        /\ \A j \in Keys : j # k => req'[j] = req[j]
        /\ UNCHANGED <<who, cur, file, effects, cache, reply, pc>>
    BY <1>1 DEF Save, diskVars, hostVars, opVars, clientVars, ghostVars, Requests
  <2>2. effects[k] = 0
    BY <2>1
  <2>3. RunnerStartedHere' /\ OthersAreOver'
    BY <2>1, <2>2
  <2>4. AnswersAreTrue'
    BY <2>1, SameKnown
  <2> QED BY <2>3, <2>4
<1>2. ASSUME NEW k \in Keys, Resend(k) PROVE Effects'
  <2>1. /\ UNCHANGED <<who, req, cur, file, effects, cache>>
        /\ pc = "audit" => pc' = "audit"
        /\ \A j \in Keys : reply'[j] = "applied" => reply[j] = "applied" \/ (effects[j] = 1 /\ j # who)
    BY <1>2 DEF Resend, diskVars, hostVars, opVars, clientVars, ghostVars
  <2> QED BY <2>1, EffectsKept
<1>3. ASSUME NEW k \in Keys, CallerGivesUp(k) PROVE Effects'
  <2>1. /\ UNCHANGED <<who, req, cur, file, effects, cache>>
        /\ pc = "audit" => pc' = "audit"
        /\ \A j \in Keys : reply'[j] = "applied" => reply[j] = "applied" \/ (effects[j] = 1 /\ j # who)
    BY <1>3 DEF CallerGivesUp, diskVars, hostVars, opVars, clientVars, ghostVars
  <2> QED BY <2>1, EffectsKept
<1>4. ASSUME NEW k \in Keys, ApplyReturns(k) PROVE Effects'
  <2>1. /\ UNCHANGED <<who, req, cur, file, effects, cache>>
        /\ pc = "audit" => pc' = "audit"
        /\ \A j \in Keys : reply'[j] = "applied" => reply[j] = "applied" \/ (effects[j] = 1 /\ j # who)
    BY <1>4 DEF ApplyReturns, Valid, Answer, Free, diskVars, hostVars, opVars, clientVars, ghostVars
  <2> QED BY <2>1, EffectsKept
<1>5. ASSUME NEW k \in Keys, ApplyStarts(k) PROVE Effects'
  <2>1. /\ who = "nobody" /\ who' = k /\ cur' = file /\ cur = file /\ ~Known(k)
        /\ req[k].expected = file.rev
        /\ UNCHANGED <<file, req, effects, cache, reply>>
    BY <1>5 DEF ApplyStarts, Valid, Free, diskVars, hostVars, opVars, clientVars, ghostVars
  <2>2. effects[k] = 0
    BY <2>1
  <2>3. RunnerStartedHere' /\ OthersAreOver'
    BY <2>1, <2>2
  <2>4. AnswersAreTrue'
    BY <2>1, <2>2, SameKnown
  <2> QED BY <2>3, <2>4
<1>6. ASSUME NEW s \in Services, Recreate(s) PROVE Effects'
  <2>1. /\ UNCHANGED <<who, req, cur, file, effects, cache>>
        /\ pc = "audit" => pc' = "audit"
        /\ \A j \in Keys : reply'[j] = "applied" => reply[j] = "applied" \/ (effects[j] = 1 /\ j # who)
    BY <1>6 DEF Recreate, diskVars, hostVars, opVars, clientVars, ghostVars
  <2> QED BY <2>1, EffectsKept
<1>7. CASE RollbackStarts
  <2>1. /\ who = "nobody" /\ who' = "rollback" /\ cur' = file /\ cur = file
        /\ UNCHANGED <<file, req, effects, cache, reply>>
    BY <1>7 DEF RollbackStarts, Free, diskVars, hostVars, opVars, clientVars, ghostVars
  <2>2. RunnerStartedHere' /\ OthersAreOver'
    BY <2>1
  <2>3. AnswersAreTrue'
    BY <2>1, SameKnown
  <2> QED BY <2>2, <2>3
<1>8. CASE WriteHistory
  <2>1. /\ UNCHANGED <<who, req, cur, file, effects, cache>>
        /\ pc = "audit" => pc' = "audit"
        /\ \A j \in Keys : reply'[j] = "applied" => reply[j] = "applied" \/ (effects[j] = 1 /\ j # who)
    BY <1>8 DEF WriteHistory, diskVars, hostVars, opVars, clientVars, ghostVars
  <2> QED BY <2>1, EffectsKept
<1>9. CASE WriteConfig
  <2>1. /\ file' = Target /\ pc = "config" /\ tgt.rev = cur.rev + 1
        /\ \A j \in Keys : j # who => effects'[j] = effects[j]
        /\ UNCHANGED <<who, cur, tgt, dir, req, cache, reply>>
    BY <1>9 DEF WriteConfig, clientVars
  <2>2. who \in Keys => effects'[who] = IF file' = cur THEN 0 ELSE 1
    <3>1. CASE dir = "do"
      <4>1. file = cur /\ file' = tgt /\ tgt # cur
        BY <2>1, <3>1 DEF Target
      <4>2. who \in Keys => effects'[who] = effects[who] + 1
        BY <1>9, <3>1, <4>1 DEF WriteConfig
      <4> QED BY <4>1, <4>2
    <3>2. CASE dir = "undo"
      <4>1. file' = cur
        BY <2>1, <3>2 DEF Target
      <4>2. who \in Keys => effects'[who] = IF file # cur THEN effects[who] - 1 ELSE effects[who]
        BY <1>9, <3>2 DEF WriteConfig
      <4> QED BY <4>1, <4>2
    <3> QED BY <3>1, <3>2
  <2>3. RunnerStartedHere' /\ OthersAreOver'
    BY <2>1, <2>2
  <2>4. AnswersAreTrue'
    <3>1. who \in Keys => ~Known(who)
      BY <2>1
    <3> QED BY <2>1, <3>1, SameKnown
  <2> QED BY <2>3, <2>4
<1>10. CASE RenderFile
  <2>1. /\ UNCHANGED <<who, req, cur, file, effects, cache>>
        /\ pc = "audit" => pc' = "audit"
        /\ \A j \in Keys : reply'[j] = "applied" => reply[j] = "applied" \/ (effects[j] = 1 /\ j # who)
    BY <1>10 DEF RenderFile, diskVars, hostVars, opVars, clientVars, ghostVars
  <2> QED BY <2>1, EffectsKept
<1>11. CASE Firewall
  <2>1. /\ UNCHANGED <<who, req, cur, file, effects, cache>>
        /\ pc = "audit" => pc' = "audit"
        /\ \A j \in Keys : reply'[j] = "applied" => reply[j] = "applied" \/ (effects[j] = 1 /\ j # who)
    BY <1>11 DEF Firewall, diskVars, hostVars, opVars, clientVars, ghostVars
  <2> QED BY <2>1, EffectsKept
<1>12. CASE Healthy
  <2>1. /\ UNCHANGED <<who, req, cur, file, effects, cache>>
        /\ pc = "audit" => pc' = "audit"
        /\ \A j \in Keys : reply'[j] = "applied" => reply[j] = "applied" \/ (effects[j] = 1 /\ j # who)
    BY <1>12 DEF Healthy, diskVars, hostVars, opVars, clientVars, ghostVars
  <2> QED BY <2>1, EffectsKept
<1>13. CASE Commit
  <2>1. /\ file = tgt /\ tgt.rev = cur.rev + 1 /\ pc' = "audit"
        /\ UNCHANGED <<who, cur, file, req, effects, reply>>
    BY <1>13 DEF Commit, diskVars, hostVars, opVars, clientVars, ghostVars
  <2>2. RunnerStartedHere' /\ OthersAreOver'
    BY <2>1
  <2>3. CASE who = "rollback"
    <3>1. UNCHANGED cache
      BY <1>13, <2>3 DEF Commit
    <3> QED BY <2>1, <2>2, <3>1, SameKnown
  <2>4. CASE who # "rollback"
    <3>1. who \in Keys /\ Remember(who) /\ effects[who] = 1
      BY <1>13, <2>1, <2>4 DEF Commit
    <3>2. \A j \in Keys : Known(j)' => j = who \/ Known(j)
      BY <3>1, RememberKnown
    <3>3. AnswersAreTrue'
      BY <2>1, <3>1, <3>2
    <3> QED BY <2>2, <3>3
  <2> QED BY <2>3, <2>4
<1>14. CASE Finish
  <2>1. PICK r \in Replies : Release(r) /\ (r = "applied" => pc = "audit") /\ Busy
    BY <1>14 DEF Finish, Replies
  <2>2. Ended(r)
    BY <2>1, ReleaseEffect
  <2>3. RunnerStartedHere' /\ OthersAreOver'
    BY <2>1, <2>2 DEF Ended
  <2>4. AnswersAreTrue'
    <3>1. UNCHANGED <<cache, effects>> /\ who' = "nobody"
      BY <2>2 DEF Ended
    <3>2. \A j \in Keys : reply'[j] = "applied" => effects[j] = 1
      BY <2>1, <2>2 DEF Ended
    <3> QED BY <3>1, <3>2, SameKnown
  <2> QED BY <2>3, <2>4
<1>15. CASE GiveUp
  <2>1. PICK r \in Replies : Release(r) /\ (r = "applied" => pc = "audit") /\ Busy
    BY <1>15 DEF GiveUp, Replies
  <2>2. Ended(r)
    BY <2>1, ReleaseEffect
  <2>3. RunnerStartedHere' /\ OthersAreOver'
    BY <2>1, <2>2 DEF Ended
  <2>4. AnswersAreTrue'
    <3>1. UNCHANGED <<cache, effects>> /\ who' = "nobody"
      BY <2>2 DEF Ended
    <3>2. \A j \in Keys : reply'[j] = "applied" => effects[j] = 1
      BY <2>1, <2>2 DEF Ended
    <3> QED BY <3>1, <3>2, SameKnown
  <2> QED BY <2>3, <2>4
<1>16. CASE HistoryFails
  <2>1. PICK r \in Replies : Release(r) /\ (r = "applied" => pc = "audit") /\ Busy
    BY <1>16 DEF HistoryFails, Replies
  <2>2. Ended(r)
    BY <2>1, ReleaseEffect
  <2>3. RunnerStartedHere' /\ OthersAreOver'
    BY <2>1, <2>2 DEF Ended
  <2>4. AnswersAreTrue'
    <3>1. UNCHANGED <<cache, effects>> /\ who' = "nobody"
      BY <2>2 DEF Ended
    <3>2. \A j \in Keys : reply'[j] = "applied" => effects[j] = 1
      BY <2>1, <2>2 DEF Ended
    <3> QED BY <3>1, <3>2, SameKnown
  <2> QED BY <2>3, <2>4
<1>17. CASE StepFails
  <2>1. /\ UNCHANGED <<who, req, cur, file, effects, cache>>
        /\ pc = "audit" => pc' = "audit"
        /\ \A j \in Keys : reply'[j] = "applied" => reply[j] = "applied" \/ (effects[j] = 1 /\ j # who)
    BY <1>17 DEF StepFails, diskVars, hostVars, opVars, clientVars, ghostVars
  <2> QED BY <2>1, EffectsKept
<1>18. CASE UnlinkFails
  <2>1. /\ UNCHANGED <<who, req, cur, file, effects, cache>>
        /\ pc = "audit" => pc' = "audit"
        /\ \A j \in Keys : reply'[j] = "applied" => reply[j] = "applied" \/ (effects[j] = 1 /\ j # who)
    BY <1>18 DEF UnlinkFails, diskVars, hostVars, opVars, clientVars, ghostVars
  <2> QED BY <2>1, EffectsKept
<1>19. CASE Crash
  <2>1. /\ who' = "nobody" /\ cur' = file /\ cache' = <<>>
        /\ \A j \in Keys : reply'[j] = reply[j] \/ reply'[j] = "lost"
        /\ UNCHANGED <<file, req, effects>>
    BY <1>19 DEF Crash, Forget, diskVars
  <2>2. RunnerStartedHere' /\ OthersAreOver'
    BY <2>1
  <2>3. \A j \in Keys : ~Known(j)'
    BY <2>1 DEF Known
  <2>4. AnswersAreTrue'
    BY <2>1, <2>3
  <2> QED BY <2>2, <2>4
<1>20. CASE Restart
  <2>1. /\ UNCHANGED <<who, req, cur, file, effects, cache>>
        /\ pc = "audit" => pc' = "audit"
        /\ \A j \in Keys : reply'[j] = "applied" => reply[j] = "applied" \/ (effects[j] = 1 /\ j # who)
    BY <1>20 DEF Restart, diskVars, hostVars, opVars, clientVars, ghostVars
  <2> QED BY <2>1, EffectsKept
<1>21. CASE UNCHANGED vars
  <2>1. /\ UNCHANGED <<who, req, cur, file, effects, cache>>
        /\ pc = "audit" => pc' = "audit"
        /\ \A j \in Keys : reply'[j] = "applied" => reply[j] = "applied" \/ (effects[j] = 1 /\ j # who)
    BY <1>21 DEF vars, diskVars, hostVars, opVars, clientVars, ghostVars
  <2> QED BY <2>1, EffectsKept
<1> QED BY <1>1, <1>2, <1>3, <1>4, <1>5, <1>6, <1>7, <1>8, <1>9, <1>10, <1>11, <1>12, <1>13, <1>14,
     <1>15, <1>16, <1>17, <1>18, <1>19, <1>20, <1>21 DEF Next, Work, Fault

-----------------------------------------------------------------------------
\* The inductive invariant holds in every reachable state.
THEOREM AgentInvariant == Spec => []AgentInv
<1>1. Init => AgentInv
  <2> SUFFICES ASSUME Init PROVE AgentInv
    OBVIOUS
  <2> USE ConfigsAssumption, BoundsAssumption, KeysAssumption DEF Init, Envelopes
  <2>1. TypeOK
    BY DEF TypeOK, Services
  <2>2. Phases
    BY DEF Phases, FileIsCurOrTgt, IdleForgets, NextRevision, NotYetWritten, Written, Busy
  <2>3. Logs
    BY DEF Logs, LogIsOld, LogUnique, HistoryIsTrue
  <2>4. Reads
    BY DEF Reads, CallsHaveRequests, CleanReadsLogged, NoLostUpdate
  <2>5. Effects
    BY DEF Effects, RunnerStartedHere, OthersAreOver, AnswersAreTrue, Known
  <2> QED BY <2>1, <2>2, <2>3, <2>4, <2>5 DEF AgentInv
<1>2. AgentInv /\ [Next]_vars => AgentInv'
  BY TypeStep, PhasesStep, LogsStep, ReadsStep, EffectsStep DEF AgentInv
<1> QED BY <1>1, <1>2, PTL DEF Spec

\* The agent's state always has its type, and the memory of answers its limit.
THEOREM AgentTypeCorrect == Spec => []TypeOK
<1>1. AgentInv => TypeOK
  BY DEF AgentInv
<1> QED BY <1>1, AgentInvariant, PTL

\* No crash and no failure gives one revision number to two configurations that
\* were in force.
THEOREM RevisionsAlwaysNameConfigs == Spec => []RevisionsNameConfigs
<1>1. AgentInv => RevisionsNameConfigs
  BY DEF AgentInv, Phases, IdleForgets, Busy, Logs, LogIsOld, LogUnique, RevisionsNameConfigs
<1> QED BY <1>1, AgentInvariant, PTL

\* A save based on a configuration that was in force never overwrites another.
THEOREM UpdatesNeverLost == Spec => []NoLostUpdate
<1>1. AgentInv => NoLostUpdate
  BY DEF AgentInv, Reads
<1> QED BY <1>1, AgentInvariant, PTL

\* A save takes effect at most once, and has when it was answered so.
THEOREM SavesApplyOnce == Spec => []AppliedOnce
<1>1. AgentInv => AppliedOnce
  BY KeysAssumption DEF AgentInv, Effects, RunnerStartedHere, OthersAreOver, AnswersAreTrue, AppliedOnce
<1> QED BY <1>1, AgentInvariant, PTL

\* The history only holds configurations that were in force.
THEOREM HistoryAlwaysTrue == Spec => []HistoryIsTrue
<1>1. AgentInv => HistoryIsTrue
  BY DEF AgentInv, Logs
<1> QED BY <1>1, AgentInvariant, PTL
-----------------------------------------------------------------------------
(* The files, the containers and the firewall.                             *)

\* What the firewall is for configuration c; service s, created with r, is as c wants it.
Rules(c) == IF Relay(c) = "off" THEN "off" ELSE "on"
Fits(s, r, c) ==
    IF s = "relay" /\ Relay(c) = "off" THEN r = None ELSE r # None /\ s \notin ChangedServices(r, c)
Rendered(c) == \A i \in 1..NFiles : gen[i] = c
Fitting(c) == \A s \in Services : Fits(s, run[s], c)
Writing == pc \in {"config", "render", "firewall", "up"}

\* From the replacement of config.json on it holds what the operation moves to,
\* and that is what was asked for.
WrittenBack == pc \in {"render", "firewall", "up"} => file = Target
TargetKnown ==
    Busy => /\ who \in Keys => req[who] # None /\ req[who].cfg = tgt.cfg
            /\ who = "rollback" => \E e \in log : e.cfg = tgt.cfg

\* Outside of the try block everything is as config.json says.
AtRest ==
    ~Writing \/ (pc = "config" /\ dir = "do") =>
        Rendered(file.cfg) /\ Fitting(file.cfg) /\ firewall = Rules(file.cfg)

\* Inside of it a service is as the old or as the new configuration wants it,
\* whatever has failed; which one, the place in the operation says.
OldOrNew == Writing => \A s \in Services : Fits(s, run[s], cur.cfg) \/ Fits(s, run[s], tgt.cfg)
StillOld == dir = "do" /\ pc \in {"render", "firewall"} => Fitting(cur.cfg)
RenderedSoFar ==
    /\ pc = "render" => \A i \in 1 .. idx - 1 : gen[i] = Target.cfg
    /\ pc \in {"firewall", "up"} => Rendered(Target.cfg)
RecreatedSoFar ==
    pc = "up" => /\ firewall = Rules(Target.cfg)
                 /\ \A s \in Services \ todo : Fits(s, run[s], Target.cfg)
                 /\ "relay" \in todo => Relay(Target.cfg) # "off"

Standing == AtRest /\ OldOrNew /\ StillOld /\ RenderedSoFar /\ RecreatedSoFar
StackInv == WrittenBack /\ TargetKnown /\ (torn = "no" => Standing)

\* A service that no change of sections from a to b touches, and that fits a,
\* fits b (changed_services).
LEMMA FitsOver ==
    ASSUME NEW s \in Services, NEW a \in Configs, NEW b \in Configs, NEW r \in Configs \cup {None}, Fits(s, r, a),
           s \notin Selected(a, b), s = "relay" /\ Relay(b) = "off" => r = None
    PROVE  Fits(s, r, b)
BY DEF Fits, Selected, ChangedServices, Relay, Services

\* A service fits the configuration it is created with (compose up).
LEMMA FitsFresh ==
    ASSUME NEW s \in Services, NEW c \in Configs, s = "relay" => Relay(c) # "off"
    PROVE  Fits(s, c, c)
BY ConfigsAssumption DEF Fits, ChangedServices

\* A request that is made, answered or given up leaves the stack alone.
LEMMA StackKept ==
    ASSUME StackInv, UNCHANGED <<file, gen, run, firewall, pc, who, dir, cur, tgt, idx, todo, torn>>,
           log \subseteq log', \A k \in Keys : req[k] # None => req'[k] = req[k]
    PROVE  StackInv'
<1>1. WrittenBack'
  BY DEF StackInv, WrittenBack, Target
<1>2. TargetKnown'
  BY DEF StackInv, TargetKnown, Busy
<1>3. Standing => Standing'
  BY DEF Standing, AtRest, OldOrNew, StillOld, RenderedSoFar, RecreatedSoFar, Writing, Rendered, Fitting, Target
<1> QED BY <1>1, <1>2, <1>3 DEF StackInv

\* A step between two places where everything is as config.json says.
LEMMA RestStep ==
    ASSUME StackInv, UNCHANGED <<file, gen, run, firewall>>, torn' = "no" => torn = "no",
           ~Writing \/ (pc = "config" /\ dir = "do"),
           ~Writing' \/ (pc' = "config" /\ dir' = "do" /\ cur' = file),
           TargetKnown'
    PROVE  StackInv'
<1>1. WrittenBack'
  BY DEF WrittenBack, Writing
<1>2. Standing => Standing'
  BY DEF Standing, AtRest, OldOrNew, StillOld, RenderedSoFar, RecreatedSoFar, Writing, Rendered, Fitting
<1> QED BY <1>1, <1>2 DEF StackInv

\* What the operation moves to stays known while it runs.
LEMMA TargetStays ==
    ASSUME TargetKnown, UNCHANGED <<who, tgt, req, log>>, Busy
    PROVE  TargetKnown'
BY DEF TargetKnown

\* The files are rendered one after the other (render).
LEMMA RenderStep == ASSUME AgentInv, StackInv, RenderFile PROVE StackInv'
<1> USE DEF RenderFile
<1>1. UNCHANGED <<file, run, firewall, who, dir, cur, tgt, todo, req, log, torn>> /\ pc = "render"
      /\ pc' \in {"render", "firewall"}
  BY DEF hostVars, clientVars, ghostVars
<1>2. WrittenBack'
  BY <1>1 DEF StackInv, WrittenBack, Target
<1>3. TargetKnown'
  BY <1>1, TargetStays DEF StackInv, Busy
<1>4. ASSUME Standing PROVE Standing'
  <2>1. AtRest' /\ RecreatedSoFar'
    BY <1>1 DEF AtRest, RecreatedSoFar, Writing
  <2>2. OldOrNew' /\ StillOld'
    BY <1>1, <1>4 DEF Standing, OldOrNew, StillOld, Writing, Fitting
  <2>3. RenderedSoFar'
    <3>1. idx \in 1..NFiles /\ NFiles \in Nat /\ gen \in [1..NFiles -> Configs]
      BY BoundsAssumption DEF AgentInv, TypeOK
    <3>2. gen' = [gen EXCEPT ![idx] = Target.cfg] /\ Target' = Target
      BY <1>1 DEF Target
    <3>3. \A i \in 1 .. idx : gen'[i] = Target.cfg
      BY <1>1, <1>4, <3>1, <3>2 DEF Standing, RenderedSoFar
    <3> QED BY <1>1, <3>1, <3>2, <3>3 DEF RenderedSoFar, Rendered
  <2> QED BY <2>1, <2>2, <2>3 DEF Standing
<1> QED BY <1>1, <1>2, <1>3, <1>4 DEF StackInv

\* The relay's rules are installed, or the relay is stopped (apply_runtime).
LEMMA FirewallStep == ASSUME AgentInv, StackInv, Firewall PROVE StackInv'
<1>1. UNCHANGED <<file, gen, who, dir, cur, tgt, req, log>> /\ pc = "firewall" /\ pc' = "up"
      /\ todo' = Selected(Source.cfg, Target.cfg)
  BY DEF Firewall, diskVars, clientVars
<1>2. WrittenBack'
  BY <1>1 DEF StackInv, WrittenBack, Target
<1>3. TargetKnown'
  BY <1>1, TargetStays DEF StackInv, Busy
<1>4. ASSUME torn' = "no" PROVE Standing'
  <2> DEFINE c == Target.cfg
             a == Source.cfg
  <2>1. /\ torn = "no" /\ firewall' = Rules(c)
        /\ IF Relay(c) # "off" THEN run' = run ELSE run' = [run EXCEPT !["relay"] = None]
    BY <1>4 DEF Firewall, Rules
  <2>2. Standing
    BY <2>1 DEF StackInv
  <2>3. c \in Configs /\ a \in Configs /\ run \in [Services -> Configs \cup {None}]
        /\ Target' = Target /\ {a, c} = {cur.cfg, tgt.cfg}
    BY <1>1 DEF AgentInv, TypeOK, Envelopes, Target, Source
  <2>4. AtRest' /\ StillOld'
    BY <1>1 DEF AtRest, StillOld, Writing
  <2>5. RenderedSoFar'
    BY <1>1, <2>2, <2>3 DEF Standing, RenderedSoFar, Rendered
  <2>6. \A s \in Services : Fits(s, run[s], a) \/ Fits(s, run[s], c)
    BY <1>1, <2>2, <2>3 DEF Standing, OldOrNew, Writing
  <2>7. \A s \in Services : /\ run'[s] \in Configs \cup {None}
                            /\ s = "relay" /\ Relay(c) = "off" => run'[s] = None
                            /\ Fits(s, run'[s], a) \/ Fits(s, run'[s], c)
    <3> SUFFICES ASSUME NEW s \in Services
                 PROVE  /\ run'[s] \in Configs \cup {None}
                        /\ s = "relay" /\ Relay(c) = "off" => run'[s] = None
                        /\ Fits(s, run'[s], a) \/ Fits(s, run'[s], c)
      OBVIOUS
    <3>1. CASE s = "relay" /\ Relay(c) = "off"
      BY <2>1, <2>3, <3>1 DEF Fits
    <3>2. CASE ~(s = "relay" /\ Relay(c) = "off")
      BY <2>1, <2>3, <2>6, <3>2
    <3> HIDE DEF a, c
    <3> QED BY <3>1, <3>2
  <2>8. OldOrNew'
    <3> HIDE DEF a, c
    <3>1. \A s \in Services : Fits(s, run'[s], cur.cfg) \/ Fits(s, run'[s], tgt.cfg)
      BY <2>3, <2>7
    <3> QED BY <1>1, <3>1 DEF OldOrNew
  <2>9. \A s \in Services \ todo' : Fits(s, run'[s], c)
    <3> SUFFICES ASSUME NEW s \in Services, s \notin Selected(a, c) PROVE Fits(s, run'[s], c)
      BY <1>1
    <3> HIDE DEF a, c
    <3>1. PICK r \in Configs \cup {None} : r = run'[s]
      BY <2>7
    <3> QED BY <2>3, <2>7, <3>1, FitsOver
  <2>10. "relay" \in todo' => Relay(c) # "off"
    BY <1>1 DEF Selected
  <2>11. RecreatedSoFar'
    BY <2>1, <2>3, <2>9, <2>10 DEF RecreatedSoFar
  <2> QED BY <2>4, <2>5, <2>8, <2>11 DEF Standing
<1> QED BY <1>2, <1>3, <1>4 DEF StackInv

\* A container is recreated from the files (compose up).
LEMMA RecreateStep == ASSUME AgentInv, StackInv, NEW s \in Services, Recreate(s) PROVE StackInv'
<1>1. UNCHANGED <<file, gen, firewall, pc, who, dir, cur, tgt, idx, req, log, torn>> /\ pc = "up"
      /\ run' = [run EXCEPT ![s] = Target.cfg] /\ s \in todo /\ todo' = todo \ {s}
  BY DEF Recreate, diskVars, clientVars, ghostVars
<1>2. WrittenBack'
  BY <1>1 DEF StackInv, WrittenBack, Target
<1>3. TargetKnown'
  BY <1>1, TargetStays DEF StackInv, Busy
<1>4. ASSUME Standing PROVE Standing'
  <2> DEFINE c == Target.cfg
  <2>1. c \in Configs /\ run \in [Services -> Configs \cup {None}] /\ Target' = Target /\ c \in {cur.cfg, tgt.cfg}
    BY <1>1 DEF AgentInv, TypeOK, Envelopes, Target
  <2>2. firewall = Rules(c) /\ (\A q \in Services \ todo : Fits(q, run[q], c)) /\ ("relay" \in todo => Relay(c) # "off")
    BY <1>1, <1>4 DEF Standing, RecreatedSoFar
  <2>3. run'[s] = c /\ \A q \in Services \ {s} : run'[q] = run[q]
    BY <1>1, <2>1
  <2>4. Fits(s, c, c)
    <3> HIDE DEF c
    <3> QED BY <1>1, <2>1, <2>2, FitsFresh
  <2>5. AtRest' /\ StillOld'
    BY <1>1 DEF AtRest, StillOld, Writing
  <2>6. RenderedSoFar'
    BY <1>1, <1>4, <2>1 DEF Standing, RenderedSoFar, Rendered
  <2>7. \A q \in Services : Fits(q, run[q], cur.cfg) \/ Fits(q, run[q], tgt.cfg)
    BY <1>1, <1>4 DEF Standing, OldOrNew, Writing
  <2> HIDE DEF c
  <2>8. \A q \in Services : Fits(q, run'[q], cur.cfg) \/ Fits(q, run'[q], tgt.cfg)
    BY <2>1, <2>3, <2>4, <2>7
  <2>9. OldOrNew'
    BY <1>1, <2>8 DEF OldOrNew
  <2>10. RecreatedSoFar'
    BY <1>1, <2>1, <2>2, <2>3, <2>4 DEF RecreatedSoFar, c
  <2> QED BY <2>5, <2>6, <2>9, <2>10 DEF Standing
<1> QED BY <1>1, <1>2, <1>3, <1>4 DEF StackInv

\* Every action keeps the stack as the place in the operation says.
LEMMA StackStep == ASSUME AgentInv, StackInv, [Next]_vars PROVE StackInv'
<1>1. ASSUME NEW k \in Keys, NEW c \in Configs \cup {BadConfig}, Save(k, c) PROVE StackInv'
  <2>1. \A j \in Keys : req[j] # None => req'[j] = req[j]
    BY <1>1 DEF Save, AgentInv, TypeOK
  <2> QED BY <1>1, <2>1, StackKept DEF Save, diskVars, hostVars, opVars, ghostVars
<1>2. ASSUME NEW k \in Keys, Resend(k) \/ CallerGivesUp(k) \/ ApplyReturns(k) PROVE StackInv'
  BY <1>2, StackKept DEF Resend, CallerGivesUp, ApplyReturns, diskVars, hostVars, opVars, ghostVars
<1>3. ASSUME NEW k \in Keys, ApplyStarts(k) PROVE StackInv'
  <2>1. /\ UNCHANGED <<file, gen, run, firewall, torn, req>> /\ pc = "free" /\ pc' = "history" /\ who' = k
        /\ tgt'.cfg = req[k].cfg /\ call[k] = "waiting"
    BY <1>3 DEF ApplyStarts, Free, diskVars, hostVars, ghostVars
  <2>2. TargetKnown'
    BY <2>1, KeysAssumption DEF TargetKnown, AgentInv, Reads, CallsHaveRequests
  <2> QED BY <2>1, <2>2, RestStep DEF Writing
<1>4. CASE RollbackStarts
  <2>1. /\ UNCHANGED <<file, gen, run, firewall, torn, log>> /\ pc = "free" /\ pc' = "config" /\ dir' = "do" /\ cur' = file
        /\ who' = "rollback" /\ \E e \in hist : tgt'.cfg = e.cfg
    BY <1>4 DEF RollbackStarts, Free, diskVars, hostVars, ghostVars
  <2>2. TargetKnown'
    BY <2>1, KeysAssumption DEF TargetKnown, AgentInv, Logs, HistoryIsTrue
  <2> QED BY <2>1, <2>2, RestStep DEF Writing
<1>5. CASE WriteHistory
  <2>1. /\ UNCHANGED <<file, gen, run, firewall, torn, who, dir, cur, tgt, req, log>> /\ pc = "history" /\ pc' = "config"
    BY <1>5 DEF WriteHistory, hostVars, clientVars, ghostVars
  <2>2. dir = "do" /\ cur = file
    BY <2>1 DEF AgentInv, Phases, NotYetWritten
  <2>3. TargetKnown'
    BY <2>1, TargetStays DEF StackInv, Busy
  <2> QED BY <2>1, <2>2, <2>3, RestStep DEF Writing
<1>6. CASE WriteConfig
  <2>1. /\ UNCHANGED <<gen, run, firewall, torn, who, dir, cur, tgt, req, log>> /\ pc = "config" /\ pc' = "render"
        /\ file' = Target /\ idx' = 1
    BY <1>6 DEF WriteConfig, hostVars, clientVars
  <2>2. WrittenBack'
    BY <2>1 DEF WrittenBack, Target
  <2>3. TargetKnown'
    BY <2>1, TargetStays DEF StackInv, Busy
  <2>4. ASSUME Standing PROVE Standing'
    <3>1. dir = "do" => cur = file
      BY <2>1 DEF AgentInv, Phases, NotYetWritten
    <3>2. dir = "do" => Fitting(cur.cfg)
      BY <2>1, <2>4, <3>1 DEF Standing, AtRest
    <3>3. StillOld' /\ OldOrNew'
      BY <2>1, <2>4, <3>2 DEF Standing, OldOrNew, StillOld, Writing, Fitting
    <3>4. AtRest' /\ RecreatedSoFar' /\ RenderedSoFar'
      BY <2>1 DEF AtRest, RecreatedSoFar, RenderedSoFar, Writing
    <3> QED BY <3>3, <3>4 DEF Standing
  <2> QED BY <2>1, <2>2, <2>3, <2>4 DEF StackInv
<1>7. CASE Healthy
  <2>1. /\ UNCHANGED <<file, gen, run, firewall, torn, who, dir, cur, tgt, req, log>> /\ pc = "up" /\ todo = {}
        /\ pc' \in {"commit", "failed"}
    BY <1>7 DEF Healthy, diskVars, hostVars, clientVars, ghostVars
  <2>2. WrittenBack'
    BY <2>1 DEF WrittenBack
  <2>3. TargetKnown'
    BY <2>1, TargetStays DEF StackInv, Busy
  <2>4. ASSUME Standing PROVE Standing'
    <3>1. file = Target /\ Rendered(Target.cfg) /\ firewall = Rules(Target.cfg) /\ Fitting(Target.cfg)
      BY <2>1, <2>4 DEF Standing, StackInv, WrittenBack, RenderedSoFar, RecreatedSoFar, Fitting
    <3>2. AtRest'
      BY <2>1, <3>1 DEF AtRest, Rendered, Fitting
    <3>3. OldOrNew' /\ StillOld' /\ RecreatedSoFar' /\ RenderedSoFar'
      BY <2>1 DEF OldOrNew, StillOld, RecreatedSoFar, RenderedSoFar, Writing
    <3> QED BY <3>2, <3>3 DEF Standing
  <2> QED BY <2>1, <2>2, <2>3, <2>4 DEF StackInv
<1>8. CASE Commit \/ UnlinkFails
  <2>1. /\ UNCHANGED <<file, gen, run, firewall, torn, who, tgt, req, log>> /\ pc = "commit" /\ pc' \in {"audit", "failed"}
    BY <1>8 DEF Commit, UnlinkFails, diskVars, hostVars, clientVars, ghostVars
  <2>2. TargetKnown'
    BY <2>1, TargetStays DEF StackInv, Busy
  <2> QED BY <2>1, <2>2, RestStep DEF Writing
<1>9. CASE Finish \/ GiveUp \/ HistoryFails
  <2>1. PICK r \in Replies : Release(r) /\ UNCHANGED torn /\ pc \in {"audit", "failed", "history"}
    BY <1>9 DEF Finish, GiveUp, HistoryFails, Replies
  <2>2. Ended(r)
    BY <2>1, ReleaseEffect DEF AgentInv
  <2>3. pc' = "free" /\ UNCHANGED <<file, gen, run, firewall>>
    BY <2>2 DEF Ended
  <2>4. TargetKnown'
    BY <2>3 DEF TargetKnown, Busy
  <2> QED BY <2>1, <2>3, <2>4, RestStep DEF Writing
<1>10. CASE StepFails
  <2>1. /\ UNCHANGED <<file, gen, run, firewall, who, cur, tgt, req, log>> /\ Writing
        /\ \/ dir = "do" /\ pc' = "config" /\ dir' = "undo" /\ UNCHANGED torn
           \/ pc' = "failed" /\ torn' = "yes"
    BY <1>10 DEF StepFails, diskVars, hostVars, clientVars, Writing
  <2>2. WrittenBack'
    BY <2>1 DEF WrittenBack
  <2>3. TargetKnown'
    BY <2>1, TargetStays DEF StackInv, Busy, Writing
  <2>4. ASSUME torn' = "no" PROVE Standing'
    <3>1. Standing /\ pc' = "config" /\ dir' = "undo"
      BY <2>1, <2>4 DEF StackInv
    <3>2. OldOrNew'
      BY <2>1, <3>1 DEF Standing, OldOrNew
    <3>3. AtRest' /\ StillOld' /\ RecreatedSoFar' /\ RenderedSoFar'
      BY <3>1 DEF AtRest, StillOld, RecreatedSoFar, RenderedSoFar, Writing
    <3> QED BY <3>2, <3>3 DEF Standing
  <2> QED BY <2>2, <2>3, <2>4 DEF StackInv
<1>11. CASE Crash
  <2>1. /\ UNCHANGED <<file, gen, run, firewall>> /\ pc' = "down"
        /\ torn' = IF pc \in {"free", "history", "commit", "audit", "failed"} THEN torn ELSE "yes"
    BY <1>11 DEF Crash, diskVars, hostVars
  <2>2. TargetKnown' /\ WrittenBack'
    BY <2>1 DEF TargetKnown, Busy, WrittenBack
  <2>3. CASE Writing
    BY <2>1, <2>2, <2>3 DEF StackInv, Writing
  <2>4. CASE ~Writing
    BY <2>1, <2>2, <2>4, RestStep DEF Writing
  <2> QED BY <2>3, <2>4
<1>12. CASE Restart
  <2>1. UNCHANGED <<file, gen, run, firewall, torn>> /\ pc = "down" /\ pc' = "free"
    BY <1>12 DEF Restart, diskVars, hostVars, ghostVars
  <2>2. TargetKnown'
    BY <2>1 DEF TargetKnown, Busy
  <2> QED BY <2>1, <2>2, RestStep DEF Writing
<1>13. CASE UNCHANGED vars
  BY <1>13, StackKept DEF vars, diskVars, hostVars, opVars, clientVars, ghostVars
<1> QED BY <1>1, <1>2, <1>3, <1>4, <1>5, <1>6, <1>7, <1>8, <1>9, <1>10, <1>11, <1>12, <1>13,
     RenderStep, FirewallStep, RecreateStep DEF Next, Work, Fault

\* The first start of the stack creates what the first configuration wants.
LEMMA StackInit == ASSUME Init PROVE StackInv
<1> USE ConfigsAssumption DEF Init
<1>1. WrittenBack /\ TargetKnown
  BY DEF WrittenBack, TargetKnown, Busy
<1>2. Fitting(FirstConfig)
  BY DEF Fitting, Fits, ChangedServices
<1>3. Standing
  BY <1>2 DEF Standing, AtRest, OldOrNew, StillOld, RenderedSoFar, RecreatedSoFar, Writing, Rendered, Rules
<1> QED BY <1>1, <1>3 DEF StackInv

\* The inductive invariant of the stack.
THEOREM StackKeeps == Spec => []StackInv
<1>1. Init => StackInv
  BY StackInit
<1>2. AgentInv /\ StackInv /\ [Next]_vars => StackInv'
  BY StackStep
<1> QED BY <1>1, <1>2, AgentInvariant, PTL DEF Spec

\* An operation that is over, completed or undone, has left files, containers
\* and firewall as config.json says, whatever failed on the way; only a crash,
\* a failed undo or an ignored error of docker is excused (apply_runtime).
THEOREM StackAlwaysAgrees == Spec => []StackAgrees
<1>1. StackInv => StackAgrees
  <2> SUFFICES ASSUME StackInv, Free, torn = "no" PROVE
        /\ \A i \in 1..NFiles : gen[i] = file.cfg
        /\ \A s \in Services : Agrees(s, file.cfg)
        /\ firewall = IF Relay(file.cfg) = "off" THEN "off" ELSE "on"
    BY DEF StackAgrees
  <2>1. Rendered(file.cfg) /\ Fitting(file.cfg) /\ firewall = Rules(file.cfg)
    BY DEF StackInv, Standing, AtRest, Writing, Free
  <2> QED BY <2>1 DEF Rendered, Fitting, Fits, Agrees, Rules
<1> QED BY <1>1, StackKeeps, PTL

-----------------------------------------------------------------------------
(* The agent implements the register.                                      *)

\* A request that was answered, and a step that only moves on, are not seen by
\* those who save.
RegisterStill == UNCHANGED <<RegisterValue, file, log \cup {RegisterValue}, req>>

\* A configuration that was tried is in force, or given up.
LEMMA RegisterSettles ==
    ASSUME AgentInv, Writing, UNCHANGED <<file, req>>, RegisterValue' = file,
           log' \in {log, log \cup {file}}
    PROVE  Register!AcceptTrial \/ RegisterStill
<1>1. RegisterValue = cur /\ cur \in log
  BY DEF RegisterValue, Writing, AgentInv, Logs, LogIsOld
<1>2. CASE file = cur
  BY <1>1, <1>2 DEF RegisterStill
<1>3. CASE file # cur
  BY <1>1, <1>3 DEF Register!AcceptTrial, Register!Settled
<1> QED BY <1>2, <1>3

\* Outside of the try block the register is what config.json holds.
LEMMA RegisterAtRest ==
    ASSUME UNCHANGED <<file, req>>, RegisterValue = file, RegisterValue' = file, log' \in {log, log \cup {file}}
    PROVE  RegisterStill
BY DEF RegisterStill

\* The replacement of config.json is the trial of a save or of a rollback, or
\* gives it up.
LEMMA WriteImplements == ASSUME AgentInv, StackInv, WriteConfig PROVE Register!RegNext \/ RegisterStill
<1>1. /\ UNCHANGED <<who, dir, cur, tgt, req, log>> /\ pc = "config" /\ pc' = "render" /\ file' = Target
  BY DEF WriteConfig, clientVars
<1>2. RegisterValue = cur /\ RegisterValue' = cur
  BY <1>1 DEF RegisterValue
<1>3. CASE dir = "do"
  <2>1. file = cur /\ file' = tgt /\ tgt \in Envelopes /\ tgt.rev = cur.rev + 1 /\ who \in Keys \cup {"rollback"}
    BY <1>1, <1>3 DEF Target, AgentInv, TypeOK, Phases, NotYetWritten, NextRevision, Busy
  <2>2. file' = [rev |-> cur.rev + 1, cfg |-> tgt.cfg]
    BY <2>1 DEF Envelopes
  <2>3. Register!Try(tgt.cfg)
    BY <1>1, <1>2, <2>1, <2>2 DEF Register!Try, Register!Settled
  <2>4. CASE who \in Keys
    <3>1. req[who] # None /\ req[who].cfg = tgt.cfg /\ req[who].expected = cur.rev /\ tgt.cfg \in Configs
      BY <1>1, <2>1, <2>4 DEF StackInv, TargetKnown, Busy, AgentInv, Effects, RunnerStartedHere, Envelopes
    <3>2. Register!TrySave(who)
      BY <1>2, <2>3, <3>1 DEF Register!TrySave
    <3> QED BY <2>4, <3>2 DEF Register!RegNext
  <2>5. CASE who = "rollback"
    <3>1. PICK e \in log : e.cfg = tgt.cfg
      BY <1>1, <2>5 DEF StackInv, TargetKnown, Busy
    <3>2. Register!TryRollback
      BY <2>3, <3>1 DEF Register!TryRollback
    <3> QED BY <3>2 DEF Register!RegNext
  <2> QED BY <2>1, <2>4, <2>5
<1>4. CASE dir # "do"
  <2>1. file' = cur
    BY <1>1, <1>4 DEF Target
  <2>2. CASE file = cur
    BY <1>1, <1>2, <2>1, <2>2 DEF RegisterStill
  <2>3. CASE file # cur
    BY <1>1, <1>2, <2>1, <2>3 DEF Register!UndoTrial, Register!Settled, Register!RegNext
  <2> QED BY <2>2, <2>3
<1> QED BY <1>3, <1>4

\* Every step of the agent is a step of the register, or none.
LEMMA StepImplements == ASSUME AgentInv, StackInv, [Next]_vars PROVE Register!RegNext \/ RegisterStill
<1>1. ASSUME NEW k \in Keys, NEW c \in Configs \cup {BadConfig}, Save(k, c) PROVE Register!AskFor(k)
  <2>1. UNCHANGED <<file, cur, pc, log>> /\ req[k] = None /\ req \in [Keys -> Requests \cup {None}]
        /\ req' = [req EXCEPT ![k] = [expected |-> file.rev, cfg |-> c, base |-> file.cfg,
                                      read |-> IF Free THEN "clean" ELSE "dirty"]]
    BY <1>1 DEF Save, diskVars, opVars, ghostVars, AgentInv, TypeOK
  <2>2. req' = [req EXCEPT ![k] = req'[k]]
    BY <2>1
  <2>3. UNCHANGED <<RegisterValue, log \cup {RegisterValue}>>
    BY <2>1 DEF RegisterValue
  <2> QED BY <2>1, <2>2, <2>3 DEF Register!AskFor
<1>2. ASSUME NEW k \in Keys, Resend(k) \/ CallerGivesUp(k) \/ ApplyReturns(k) PROVE RegisterStill
  <2>1. UNCHANGED <<file, cur, pc, log, req>>
    BY <1>2 DEF Resend, CallerGivesUp, ApplyReturns, diskVars, opVars, ghostVars
  <2> QED BY <2>1 DEF RegisterStill, RegisterValue
<1>3. ASSUME NEW k \in Keys, ApplyStarts(k) PROVE RegisterStill
  <2>1. UNCHANGED <<file, log, req>> /\ pc = "free" /\ pc' = "history"
    BY <1>3 DEF ApplyStarts, Free, diskVars, ghostVars
  <2> QED BY <2>1, RegisterAtRest DEF RegisterValue
<1>4. CASE RollbackStarts
  <2>1. UNCHANGED <<file, log, req>> /\ pc = "free" /\ cur' = file
    BY <1>4 DEF RollbackStarts, Free, diskVars, clientVars, ghostVars
  <2> QED BY <2>1, RegisterAtRest DEF RegisterValue
<1>5. CASE WriteHistory
  <2>1. UNCHANGED <<file, cur, log, req>> /\ pc = "history" /\ cur = file
    BY <1>5 DEF WriteHistory, clientVars, ghostVars, AgentInv, Phases, NotYetWritten
  <2> QED BY <2>1, RegisterAtRest DEF RegisterValue
<1>6. ASSUME NEW s \in Services, RenderFile \/ Firewall \/ Recreate(s) PROVE RegisterStill
  <2>1. UNCHANGED <<file, cur, log, req>> /\ Writing /\ Writing'
    BY <1>6 DEF RenderFile, Firewall, Recreate, Writing, diskVars, clientVars, ghostVars
  <2> QED BY <2>1 DEF RegisterStill, RegisterValue, Writing
<1>7. CASE Healthy
  <2>1. UNCHANGED <<file, log, req>> /\ Writing /\ ~Writing'
    BY <1>7 DEF Healthy, Writing, diskVars, clientVars, ghostVars
  <2> QED BY <2>1, RegisterSettles DEF RegisterValue, Writing, Register!RegNext
<1>8. CASE Commit \/ UnlinkFails \/ Restart
  <2>1. UNCHANGED <<file, log, req>> /\ ~Writing /\ ~Writing'
    BY <1>8 DEF Commit, UnlinkFails, Restart, Writing, diskVars, clientVars, ghostVars
  <2> QED BY <2>1, RegisterAtRest DEF RegisterValue, Writing
<1>9. CASE Finish \/ GiveUp \/ HistoryFails
  <2>1. PICK r \in Replies : Release(r) /\ ~Writing
    BY <1>9 DEF Finish, GiveUp, HistoryFails, Replies, Writing
  <2>2. Ended(r)
    BY <2>1, ReleaseEffect DEF AgentInv
  <2>3. UNCHANGED <<file, req>> /\ ~Writing' /\ log' = log \cup {file}
    BY <2>2 DEF Ended, Writing
  <2> QED BY <2>1, <2>3, RegisterAtRest DEF RegisterValue, Writing
<1>10. CASE StepFails
  <2>1. UNCHANGED <<file, cur, log, req>> /\ Writing /\ pc' \in {"config", "failed"}
    BY <1>10 DEF StepFails, Writing, diskVars, clientVars
  <2>2. CASE pc' = "config"
    BY <2>1, <2>2 DEF RegisterStill, RegisterValue, Writing
  <2>3. CASE pc' = "failed"
    BY <2>1, <2>3, RegisterSettles DEF RegisterValue, Writing, Register!RegNext
  <2> QED BY <2>1, <2>2, <2>3
<1>11. CASE Crash
  <2>1. UNCHANGED <<file, req>> /\ log' = log \cup {file} /\ ~Writing'
    BY <1>11 DEF Crash, Writing, diskVars
  <2>2. CASE Writing
    BY <2>1, <2>2, RegisterSettles DEF RegisterValue, Writing, Register!RegNext
  <2>3. CASE ~Writing
    BY <2>1, <2>3, RegisterAtRest DEF RegisterValue, Writing
  <2> QED BY <2>2, <2>3
<1>12. CASE UNCHANGED vars
  BY <1>12 DEF vars, diskVars, opVars, clientVars, ghostVars, RegisterStill, RegisterValue
<1>13. "gateway" \in Services
  BY DEF Services
<1> QED BY <1>1, <1>2, <1>3, <1>4, <1>5, <1>6, <1>7, <1>8, <1>9, <1>10, <1>11, <1>12, <1>13,
     WriteImplements DEF Next, Work, Fault, Register!RegNext

\* Whatever fails and whenever it crashes, the agent is the register that
\* ConfigRegister describes: a save or a rollback is tried, and accepted or
\* undone as a whole, and a save only replaces the revision it names.
THEOREM AgentImplementsRegister == Spec => ImplementsRegister
<1>1. Init => Register!RegInit
  BY DEF Init, Register!RegInit, RegisterValue
<1>2. AgentInv /\ StackInv /\ [Next]_vars => [Register!RegNext]_(Register!regVars)
  BY StepImplements DEF RegisterStill, Register!regVars
<1> QED BY <1>1, <1>2, AgentInvariant, StackKeeps, PTL DEF Spec, ImplementsRegister, Register!RegSpec
=============================================================================
