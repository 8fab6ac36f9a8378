-------------------------- MODULE MCTransferQueue --------------------------
EXTENDS TransferQueue, TLC

CONSTANTS c1, c2, b1, u1, p1, d1, q1

MCBatchOf == [i \in Copies |-> b1]
MCUses == [i \in Rows |-> IF i = d1 THEN {} ELSE {q1}]

=============================================================================
