------------------------- MODULE MCRuntimeLifecycle -------------------------
(* Small instances of RuntimeLifecycle. *)
EXTENDS RuntimeLifecycle

CONSTANTS transfers, attempts, t1

\* As in create_app: the transfer registry returns events, the attempt registry
\* returns none.
MCWaitersOf == [b \in Callbacks |-> IF b = transfers THEN {t1} ELSE {}]

=============================================================================
