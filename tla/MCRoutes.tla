------------------------------ MODULE MCRoutes ------------------------------
(* Routes on a small instance.                                              *)
EXTENDS Routes
=============================================================================
