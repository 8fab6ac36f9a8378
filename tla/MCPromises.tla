---------------------------- MODULE MCPromises ----------------------------
(* The two components with an abstract specification of their own, each     *)
(* checked against it: the quota manager against Quota, the browser's       *)
(* transfer coordinator against TransferPromise.  They share no state; the  *)
(* initial state chooses the one that runs.                                 *)
EXTENDS QuotaManager, BinaryTransferClient

CONSTANTS slots, bytes

VARIABLE part

\* A slot kind with the strict per-user limit, and a kind counted in units.
MCPerUser == [k \in Kinds |-> IF k = slots THEN 1 ELSE 3]
MCGlobal  == [k \in Kinds |-> IF k = slots THEN 2 ELSE 3]

coordinatorVars == <<client, server, http, wire>>
allVars == <<quotaVars, coordinatorVars, part>>

CoordinatorMoves(A) == part = "coordinator" /\ A /\ UNCHANGED <<quotaVars, part>>

MCInit == Init /\ ClientInit /\ part \in {"quota", "coordinator"}
MCNext ==
    \/ part = "quota" /\ Next /\ UNCHANGED <<coordinatorVars, part>>
    \/ CoordinatorMoves(ClientNext)

\* The fairness of BinaryTransferClient; nobody need reserve or release.
MCSpec ==
    /\ MCInit /\ [][MCNext]_allVars
    /\ WF_allVars(CoordinatorMoves(Progress))

=============================================================================
