----------------------------- MODULE MCRecovery -----------------------------
(* Two parts of the server that share no state, checked in one run: the     *)
(* pool of temporary connections and the web restore.  The initial state    *)
(* chooses the one that runs.                                               *)
EXTENDS ConnectionPool, Restore

VARIABLE part

allVars == <<part, poolVars, rsVars>>

PoolMoves(A)    == part = "pool" /\ A /\ UNCHANGED <<part, rsVars>>
RestoreMoves(A) == part = "restore" /\ A /\ UNCHANGED <<part, poolVars>>

MCInit == part \in {"pool", "restore"} /\ PoolInit /\ Init
MCNext == PoolMoves(PoolNext) \/ RestoreMoves(Next)

\* The fairness of the part that runs.
MCSpec ==
    /\ MCInit /\ [][MCNext]_allVars
    /\ WF_allVars(RestoreMoves(Perform)) /\ WF_allVars(RestoreMoves(Job))
    /\ WF_allVars(RestoreMoves(JobFails /\ UNCHANGED faults))
    /\ WF_allVars(RestoreMoves(StartUp)) /\ WF_allVars(RestoreMoves(CliClears))
    /\ WF_allVars(PoolMoves(CleanupExpired)) /\ WF_allVars(PoolMoves(DrainPool))
    /\ \A c \in Conns :
         /\ WF_allVars(PoolMoves(Reserve(c)))
         /\ WF_allVars(PoolMoves(Store(c) \/ Abandon(c)))
         /\ WF_allVars(PoolMoves(CloseDetached(c) \/ Discard(c)))
         /\ WF_allVars(PoolMoves(GrowsIdle(c)))
         /\ \A h \in Holders : WF_allVars(PoolMoves(ReleaseHold(c, h)))
=============================================================================
