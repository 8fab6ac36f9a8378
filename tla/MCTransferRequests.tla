------------------------- MODULE MCTransferRequests -------------------------
(* Instances of TransferRequests for TLC.                                  *)
EXTENDS TransferRequests, TLC

\* Used for safety only.
Interchangeable ==
    Permutations(Transfers) \cup Permutations(Requests)
      \cup Permutations(Conns)

=============================================================================
