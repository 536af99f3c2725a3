--------------------------- MODULE MCOrganizations ---------------------------
(****************************************************************************)
(* An organisation and its people, and the networks of a small installation *)
(* with one plain user and an administrator.  The two machines share no     *)
(* state, so that a behaviour runs one of them, and the run covers their    *)
(* sum.                                                                     *)
(****************************************************************************)
EXTENDS Organizations, Networks, TLC

VARIABLE arena

MCStep ==
    /\ UNCHANGED arena
    /\ \/ arena = "people" /\ Next /\ UNCHANGED netVars
       \/ arena = "networks" /\ NetNext /\ UNCHANGED vars

\* A machine that does not run has one initial state, which names nobody and no network.
MCInit ==
    /\ Init /\ NetInit
    /\ \/ arena = "people" /\ account # Users /\ drawn = {}
       \/ arena = "networks" /\ account = Users /\ present = {} /\ drawn # {}

MCSpec == MCInit /\ [][MCStep]_<<arena, vars, netVars>>

\* The two machines take their slots from one set, and people and networks from another.
Symmetry == Permutations(Users) \cup Permutations(Slots)
==============================================================================
