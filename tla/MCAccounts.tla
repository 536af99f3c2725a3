----------------------------- MODULE MCAccounts -----------------------------
(***************************************************************************)
(* The accounts: the population of a small installation, and the           *)
(* credentials of one account.  The two machines share no state, so that a *)
(* behaviour runs one of them, and the run covers their sum.               *)
(***************************************************************************)
EXTENDS Accounts, Credentials, TLC

VARIABLE arena

MCStep ==
    /\ UNCHANGED arena
    /\ \/ arena = "population" /\ Next /\ UNCHANGED credVars
       \/ arena = "credentials" /\ CredNext /\ UNCHANGED vars

\* A machine that does not run has one initial state.
MCInit ==
    /\ arena \in {"population", "credentials"}
    /\ Init /\ CredInit
    /\ arena = "population" \/ Population = {}
    /\ arena = "credentials" \/ user.hash = 0

MCSpec == MCInit /\ [][MCStep]_<<arena, vars, credVars>>

\* The two machines take their slots from one set.
Symmetry == Permutations(Users) \cup Permutations(Slots)
=============================================================================
