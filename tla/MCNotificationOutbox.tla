------------------------ MODULE MCNotificationOutbox ------------------------
(* NotificationOutbox on small instances. *)
EXTENDS NotificationOutbox, TLC

Symmetry == Permutations(Destinations) \cup Permutations(Workers)
=============================================================================
