----------------------------- MODULE SystemPage -----------------------------
(***************************************************************************)
(* The system page (components/adminPage/system/systemExposure.tsx) and    *)
(* the procedures behind it (server/api/routers/systemRouter.ts), on top   *)
(* of the register that the configuration agent implements.                *)
(*                                                                         *)
(* Administrators have the page open, edit a draft of their own, validate, *)
(* apply and roll back it, and install certificates.  The answers to the   *)
(* buttons of one page arrive in any order, the agent may be away, and a   *)
(* caller gives up while the agent goes on.                                *)
(***************************************************************************)
EXTENDS ConfigRegister

CONSTANTS
    SysPages,     \* pages that are open, the Savers of the register
    ComposeEnv,   \* the configuration that composeReadOnlyStatus derives
    MaxPageCalls, \* bound: buttons pressed
    MaxPageFaults \* bound: the agent goes away, a caller gives up, a trial fails

Values == [rev : Nat, cfg : RegConfigs \cup {FirstRegConfig, ComposeEnv}]
Requests == [expected : Nat, cfg : RegConfigs, base : Values, clean : BOOLEAN, confirmed : BOOLEAN,
             checked : BOOLEAN]

ASSUME PagesSave == SysPages = Savers /\ NoRequest \notin Requests

VARIABLES
    agentUp,
    view,      \* view[p]: mode and revision of the page, and what its draft was made from
    press,     \* press[p][button]: the call under way, by button
    trial,     \* what the agent tries: who asked, and how
    cert,      \* cert[kind]: the certificate and the key that are installed
    tlsCall,   \* tlsCall[p]: the installation under way
    tlsMishap, \* history: an installation was cut short, or two of one kind overlapped
    pageCalls, pageFaults

pageVars == <<view, press>>
tlsVars == <<cert, tlsCall, tlsMishap>>
systemVars == <<regVars, agentUp, pageVars, trial, tlsVars, pageCalls, pageFaults>>

Buttons == {"validate", "apply", "rollback"}
Kinds == {"self-signed", "custom"}
NoCall == [at |-> "idle"]
NoTrial == [by |-> "nobody"]
Stages(p, b, at) == press[p][b].at = at

\* One of the warnings of validate_config.
Risky(c) == c.exposure # "internal"

Blank == [mode |-> "none", rev |-> 0, base |-> [rev |-> 0, cfg |-> ComposeEnv], dirty |-> FALSE, crossed |-> FALSE]

Press(p, b, call) == press' = [press EXCEPT ![p][b] = call]
Count == pageCalls < MaxPageCalls /\ pageCalls' = pageCalls + 1
Fault == pageFaults < MaxPageFaults /\ pageFaults' = pageFaults + 1

----------------------------------------------------------------------------
(* The page                                                                *)

\* status: what the agent shows, or the environment under revision 0.
Status == IF agentUp THEN [mode |-> "agent", rev |-> shown.rev, cfg |-> shown.cfg]
          ELSE [mode |-> "compose-read-only", rev |-> 0, cfg |-> ComposeEnv]

\* The first answer fills the draft; later ones only change the mode.
Updated(v) ==
    IF v.mode = "none"
    THEN [mode |-> Status.mode, rev |-> Status.rev,
          base |-> [rev |-> Status.rev, cfg |-> Status.cfg], dirty |-> ~Settled, crossed |-> FALSE]
    ELSE [v EXCEPT !.mode = Status.mode]

StatusArrives(p) ==
    /\ view[p].mode # Status.mode
    /\ view' = [view EXCEPT ![p] = Updated(view[p])]
    /\ UNCHANGED <<regVars, agentUp, press, trial, tlsVars, pageCalls, pageFaults>>

\* The fields edit the draft freely: at any press it is one of these.
Drafts(p) == IF view[p].mode = "none" THEN {} ELSE RegConfigs

\* The browser opens the page again.
Reload(p) ==
    /\ view[p].mode # "none" /\ \A b \in Buttons : press[p][b] = NoCall
    /\ view' = [view EXCEPT ![p] = Blank]
    /\ UNCHANGED <<regVars, agentUp, press, trial, tlsVars, pageCalls, pageFaults>>

\* A button works in agent mode and while its own last call is not under way;
\* apply is refused by the schema when the revision is not positive.
Enabled(p, b) == view[p].mode = "agent" /\ press[p][b] = NoCall

PressValidate(p) ==
    /\ Enabled(p, "validate") /\ Count
    /\ Press(p, "validate", [at |-> "sent", base |-> view[p].base, rev |-> view[p].rev, dirty |-> view[p].dirty])
    /\ UNCHANGED <<regVars, agentUp, view, trial, tlsVars, pageFaults>>

\* The normalised configuration replaces the draft, whatever the page shows by now.
Refilled(v, c) == [v EXCEPT !.base = c.base, !.dirty = c.dirty, !.crossed = @ \/ c.rev # v.rev]

ValidateAnswers(p) ==
    LET c == press[p]["validate"] IN
    /\ c.at = "sent"
    /\ view' = IF agentUp THEN [view EXCEPT ![p] = Refilled(view[p], c)] ELSE view
    /\ Press(p, "validate", NoCall)
    /\ UNCHANGED <<regVars, agentUp, trial, tlsVars, pageCalls, pageFaults>>

\* Mutant: apply names the revision that is current when the button is pressed.
PressApplyCurrent(p, d, confirmed) ==
    /\ Enabled(p, "apply") /\ view[p].rev > 0 /\ Count
    /\ Press(p, "apply", [at |-> "check", cfg |-> d, expected |-> shown.rev, base |-> view[p].base,
                          clean |-> ~view[p].dirty /\ ~view[p].crossed, confirmed |-> confirmed])
    /\ UNCHANGED <<regVars, agentUp, view, trial, tlsVars, pageFaults>>

PressApply(p, d, confirmed) ==
    /\ Enabled(p, "apply") /\ view[p].rev > 0 /\ Count
    /\ Press(p, "apply", [at |-> "check", cfg |-> d, expected |-> view[p].rev, base |-> view[p].base,
                          clean |-> ~view[p].dirty /\ ~view[p].crossed, confirmed |-> confirmed])
    /\ UNCHANGED <<regVars, agentUp, view, trial, tlsVars, pageFaults>>

\* Mutant: a password is asked for only when the warnings require it.
NeedsPasswordIfRisky(c) == Risky(c)

\* apply of the router: with warnings, or when the exposure of the controller
\* differs from what the agent shows now.
NeedsPassword(c) == Risky(c) \/ shown.cfg.exposure # c.exposure

ApplyChecks(p) ==
    LET c == press[p]["apply"] IN
    /\ c.at = "check"
    /\ IF ~agentUp \/ (NeedsPassword(c.cfg) /\ ~c.confirmed)
       THEN Press(p, "apply", NoCall) /\ UNCHANGED asked
       ELSE /\ Press(p, "apply", [c EXCEPT !.at = "save"])
            /\ asked' = [asked EXCEPT ![p] = [expected |-> c.expected, cfg |-> c.cfg, base |-> c.base, clean |-> c.clean,
                                              confirmed |-> c.confirmed, checked |-> Settled /\ shown.rev = c.expected]]
    /\ UNCHANGED <<reg, shown, past, agentUp, view, trial, tlsVars, pageCalls, pageFaults>>

\* rollback needs the password.
PressRollback(p) ==
    /\ Enabled(p, "rollback") /\ Count
    /\ Press(p, "rollback", [at |-> "save"])
    /\ UNCHANGED <<regVars, agentUp, view, trial, tlsVars, pageFaults>>

----------------------------------------------------------------------------
(* The agent, as the register it implements                                *)

\* The request is taken out of the register's hands: its caller has an answer.
Drop(p) == asked' = [asked EXCEPT ![p] = NoRequest]

AgentTries(p) ==
    /\ agentUp /\ TrySave(p)
    /\ trial' = [by |-> p, button |-> "apply", req |-> asked[p]]
    /\ UNCHANGED <<agentUp, pageVars, tlsVars, pageCalls, pageFaults>>

AgentRefuses(p) ==
    /\ agentUp /\ Settled /\ asked[p] # NoRequest /\ asked[p].expected # reg.rev
    /\ Drop(p)
    /\ Press(p, "apply", NoCall)
    /\ UNCHANGED <<reg, shown, past, agentUp, view, trial, tlsVars, pageCalls, pageFaults>>

AgentRollsBack(p) ==
    /\ agentUp /\ Stages(p, "rollback", "save") /\ Settled /\ trial = NoTrial
    /\ IF past = {reg}
       THEN Press(p, "rollback", NoCall) /\ UNCHANGED <<regVars, trial>>
       ELSE TryRollback /\ trial' = [by |-> p, button |-> "rollback", req |-> NoRequest] /\ UNCHANGED press
    /\ UNCHANGED <<agentUp, view, tlsVars, pageCalls, pageFaults>>

\* The trial ends; a page that still waits takes the answer as its draft.
Adopted(v) == [v EXCEPT !.rev = shown.rev, !.base = shown, !.dirty = FALSE, !.crossed = FALSE]

AgentAnswers ==
    LET p == trial.by
        b == trial.button
        waits == press[p][b] # NoCall
    IN
    /\ trial # NoTrial
    /\ \/ /\ reg' = shown /\ past' = past \cup {shown} /\ UNCHANGED <<shown, pageFaults>>
          /\ view' = IF waits THEN [view EXCEPT ![p] = Adopted(view[p])] ELSE view
       \/ Fault /\ shown' = reg /\ UNCHANGED <<reg, past, view>>
    /\ Drop(p)
    /\ trial' = NoTrial
    /\ Press(p, b, NoCall)
    /\ UNCHANGED <<agentUp, tlsVars, pageCalls>>

\* callAgent gives up, or the web service is recreated by the very change.
CallerLeaves(p, b) ==
    /\ press[p][b] # NoCall /\ Fault
    /\ Press(p, b, NoCall)
    /\ asked' = IF b = "apply" /\ trial = NoTrial THEN [asked EXCEPT ![p] = NoRequest] ELSE asked
    /\ UNCHANGED <<reg, shown, past, agentUp, view, trial, tlsVars, pageCalls>>

\* The agent crashes: a trial it had written to config.json stays.
AgentGoes ==
    /\ agentUp /\ Fault
    /\ agentUp' = FALSE
    /\ reg' = shown /\ past' = past \cup {shown} /\ UNCHANGED shown
    /\ trial' = NoTrial
    /\ asked' = [p \in SysPages |-> NoRequest]
    /\ press' = [p \in SysPages |-> [b \in Buttons |-> NoCall]]
    /\ tlsCall' = [p \in SysPages |-> NoCall]
    /\ tlsMishap' = (tlsMishap \/ \E p \in SysPages : tlsCall[p] # NoCall)
    /\ UNCHANGED <<view, cert, pageCalls>>

AgentReturns ==
    /\ ~agentUp
    /\ agentUp' = TRUE
    /\ UNCHANGED <<regVars, pageVars, trial, tlsVars, pageCalls, pageFaults>>

----------------------------------------------------------------------------
(* Certificates: the certificate is replaced, then the key, without a lock. *)

TlsStarts(p, kind, c, k) ==
    /\ agentUp /\ view[p].mode = "agent" /\ tlsCall[p] = NoCall /\ Count
    /\ tlsCall' = [tlsCall EXCEPT ![p] = [at |-> "certificate", kind |-> kind, crt |-> c, key |-> k]]
    /\ tlsMishap' = (tlsMishap \/ \E q \in SysPages : tlsCall[q] # NoCall /\ tlsCall[q].kind = kind)
    /\ UNCHANGED <<regVars, agentUp, pageVars, trial, cert, pageFaults>>

GenerateCertificate(p) == TlsStarts(p, "self-signed", pageCalls + 1, pageCalls + 1)

\* Mutant: the key is not compared with the certificate.
InstallCustomUnchecked(p, k) == TlsStarts(p, "custom", pageCalls + 1, k)

\* The administrator pastes a certificate and the key k; a key that does not
\* belong to the certificate is refused.
InstallCustom(p, k) == k = pageCalls + 1 /\ TlsStarts(p, "custom", pageCalls + 1, k)

ReplaceFile(p) ==
    LET c == tlsCall[p] IN
    /\ c # NoCall
    /\ \/ /\ c.at = "certificate"
          /\ cert' = [cert EXCEPT ![c.kind] = [@ EXCEPT !.crt = c.crt]]
          /\ tlsCall' = [tlsCall EXCEPT ![p] = [c EXCEPT !.at = "key"]]
       \/ /\ c.at = "key"
          /\ cert' = [cert EXCEPT ![c.kind] = [@ EXCEPT !.key = c.key]]
          /\ tlsCall' = [tlsCall EXCEPT ![p] = NoCall]
    /\ UNCHANGED <<regVars, agentUp, pageVars, trial, tlsMishap, pageCalls, pageFaults>>

----------------------------------------------------------------------------
SystemInit ==
    /\ RegInit
    /\ agentUp \in BOOLEAN
    /\ view = [p \in SysPages |-> Blank]
    /\ press = [p \in SysPages |-> [b \in Buttons |-> NoCall]]
    /\ trial = NoTrial
    /\ cert = [kind \in Kinds |-> [crt |-> 0, key |-> 0]]
    /\ tlsCall = [p \in SysPages |-> NoCall]
    /\ tlsMishap = FALSE /\ pageCalls = 0 /\ pageFaults = 0

PageNext ==
    \/ \E p \in SysPages :
           \/ StatusArrives(p) \/ Reload(p)
           \/ PressValidate(p) \/ ValidateAnswers(p) \/ PressRollback(p)
           \/ \E d \in Drafts(p), confirmed \in BOOLEAN : PressApply(p, d, confirmed)
           \/ ApplyChecks(p) \/ AgentTries(p) \/ AgentRefuses(p) \/ AgentRollsBack(p)
           \/ \E b \in Buttons : CallerLeaves(p, b)
    \/ AgentAnswers

TlsNext == \E p \in SysPages :
    \/ StatusArrives(p) \/ GenerateCertificate(p) \/ ReplaceFile(p)
    \/ \E k \in 1..MaxPageCalls : InstallCustom(p, k)

SystemNext == PageNext \/ TlsNext \/ AgentGoes \/ AgentReturns

----------------------------------------------------------------------------
Applying == trial # NoTrial /\ trial.button = "apply"

(* No page undoes a change it has not seen: what the agent tries was        *)
(* drafted from the configuration it replaces, whichever buttons of         *)
(* whichever pages were pressed and in whatever order their answers came.   *)
(* Two exceptions: a draft filled from a trial that was undone, and one     *)
(* put back by a validation that answered after the revision had changed    *)
(* (systemExposure.tsx:141).                                                *)
PageEditsKept == Applying /\ trial.req.clean => trial.req.base = reg

(* A configuration with warnings, and a change of the exposure of the       *)
(* controller, is tried only when the administrator has confirmed it, unless*)
(* the router compared it with a trial, or with another revision than the   *)
(* one the page expects (systemRouter.ts:363-370).                          *)
ChangesConfirmed ==
    Applying /\ trial.req.checked /\ (Risky(shown.cfg) \/ shown.cfg.exposure # reg.cfg.exposure)
        => trial.req.confirmed

(* The gateway's key belongs to its certificate when no installation is     *)
(* under way, unless one was cut short or two of one kind overlapped.       *)
CertificatesMatch ==
    ~tlsMishap /\ (\A p \in SysPages : tlsCall[p] = NoCall) => \A kind \in Kinds : cert[kind].crt = cert[kind].key

(* What the page applies was based on what is replaced, and was confirmed   *)
(* where it has to be; certificates and keys belong together.               *)
PageHolds == PageEditsKept /\ ChangesConfirmed /\ CertificatesMatch
=============================================================================
