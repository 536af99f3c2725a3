--------------------------- MODULE MCSyncManager ---------------------------
(* SyncManager with two sockets, of which one sends a single request.       *)
EXTENDS SyncManager

Brief == CHOOSE s \in Sockets : TRUE

\* Requests are not obliged to come, so that the bound takes no fairness away.
MCStep == Next /\ sent'[Brief] <= 1

MCSpec == Init /\ [][MCStep]_vars /\ Fairness
============================================================================
