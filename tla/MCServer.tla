------------------------------ MODULE MCServer ------------------------------
(* Parts of the server that share no state, checked in one run: the initial *)
(* state chooses the part that runs, the others rest.                       *)
EXTENDS TransferManager, MCBackupCoordination, OutputFlow, TransportAdmission, ConnectJobs,
        InputBudget

VARIABLE part

\* Some account has two transports, the other one.
MCOwner == CHOOSE f \in [Transports -> Accounts] : {f[t] : t \in Transports} = Accounts

MCInit ==
  /\ part \in {"transfers", "backup", "flow", "admission", "jobs", "budget"}
  /\ Init /\ CoordinationInit /\ FlowInit /\ JobsInit /\ BudgetInit /\ AdmissionInit
  /\ \A t \in Transports : peer[t].account = MCOwner[t]

TransfersMove(A)   == part = "transfers" /\ A /\ UNCHANGED <<part, coordinationVars, flowVars, admissionVars, jobVars, budgetVars>>
BackupMoves(A)    == part = "backup" /\ A /\ UNCHANGED <<part, mgrVars, flowVars, admissionVars, jobVars, budgetVars>>
FlowMoves(A)      == part = "flow" /\ A /\ UNCHANGED <<part, mgrVars, coordinationVars, admissionVars, jobVars, budgetVars>>
AdmissionMoves(A) == part = "admission" /\ A /\ UNCHANGED <<part, mgrVars, coordinationVars, flowVars, jobVars, budgetVars>>
JobsMove(A)       == part = "jobs" /\ A /\ UNCHANGED <<part, mgrVars, coordinationVars, flowVars, admissionVars, budgetVars>>
BudgetMoves(A)    == part = "budget" /\ A /\ UNCHANGED <<part, mgrVars, coordinationVars, flowVars, admissionVars, jobVars>>

MCNext ==
  \/ TransfersMove(Next) \/ BackupMoves(CoordinationNext) \/ FlowMoves(FlowNext)
  \/ AdmissionMoves(AdmissionNext) \/ JobsMove(JobsNext) \/ BudgetMoves(BudgetNext)

serverVars == <<part, mgrVars, coordinationVars, flowVars, admissionVars, jobVars, budgetVars>>

\* The fairness of the part that runs.
Progress ==
  \/ BackupMoves(CoordinationProgress) \/ FlowMoves(FlowProgress)
  \/ AdmissionMoves(ServerStep) \/ JobsMove(JobsProgress)

ServerSpec ==
  /\ MCInit /\ [][MCNext]_serverVars /\ WF_serverVars(Progress)

\* Whatever was begun comes to its end.  Backups: WaitsOver; terminal output:
\* OutputDone; transports: TransportsRetired; connection jobs: JobsOver.
ServerSettles ==
  <>[](/\ part = "backup" => WaitsOver
       /\ part = "flow" => OutputDone
       /\ part = "admission" => TransportsRetired
       /\ part = "jobs" => JobsOver)
=============================================================================
