----------------------------- MODULE MCMembers -----------------------------
(* Members on a small instance. *)
EXTENDS Members
=============================================================================
