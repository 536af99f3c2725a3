--------------------------- MODULE ConfigRegister ---------------------------
(***************************************************************************)
(* What the configuration agent promises to those who save configurations: *)
(* a register with a revision.  A save is tried when it names the current  *)
(* revision, a rollback tries an earlier configuration under a new one,    *)
(* and what is tried is either accepted or undone.  Until then readers see *)
(* the trial.  ConfigAgent implements it; SystemPage builds on it.         *)
(***************************************************************************)
EXTENDS Integers

CONSTANTS
    RegConfigs,     \* configurations that are valid
    FirstRegConfig, \* the first one
    Savers,         \* requests, or pages that make them
    NoRequest

VARIABLES
    reg,    \* the value: [rev, cfg]
    shown,  \* what readers see: reg, or the trial
    past,   \* values the register had and has
    asked   \* asked[k]: what k wants to save, [expected, cfg, ...], or NoRequest

regVars == <<reg, shown, past, asked>>

RegInit ==
    /\ reg = [rev |-> 1, cfg |-> FirstRegConfig]
    /\ shown = reg /\ past = {reg}
    /\ asked = [k \in Savers |-> NoRequest]

AskFor(k) ==
    /\ asked[k] = NoRequest
    /\ asked' = [asked EXCEPT ![k] = asked'[k]]
    /\ UNCHANGED <<reg, shown, past>>

Settled == shown = reg

Try(cfg) ==
    /\ Settled
    /\ shown' = [rev |-> reg.rev + 1, cfg |-> cfg]
    /\ UNCHANGED <<reg, past, asked>>

TrySave(k) ==
    /\ asked[k] # NoRequest
    /\ asked[k].expected = reg.rev /\ asked[k].cfg \in RegConfigs
    /\ Try(asked[k].cfg)

TryRollback == \E e \in past : Try(e.cfg)

AcceptTrial ==
    /\ ~Settled
    /\ reg' = shown /\ past' = past \cup {shown}
    /\ UNCHANGED <<shown, asked>>

UndoTrial ==
    /\ ~Settled
    /\ shown' = reg
    /\ UNCHANGED <<reg, past, asked>>

RegNext ==
    \/ \E k \in Savers : AskFor(k) \/ TrySave(k)
    \/ TryRollback \/ AcceptTrial \/ UndoTrial

RegSpec == RegInit /\ [][RegNext]_regVars
=============================================================================
