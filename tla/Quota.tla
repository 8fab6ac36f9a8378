------------------------------- MODULE Quota -------------------------------
(***************************************************************************)
(* What app/quota_manager.py promises its callers: a reservation is given  *)
(* exactly when the outstanding reservations leave room for it, for the    *)
(* user and for everybody, and is returned at most once.  There are no     *)
(* counters here, only the reservations themselves.                        *)
(***************************************************************************)
EXTENDS Naturals, FiniteSets

CONSTANTS Reservations,  \* calls of reserve
          Users,
          Kinds,         \* QuotaKind
          MaxAmount,     \* bound on the amount of one reservation
          PerUser,       \* [Kinds -> limit]
          Global         \* [Kinds -> limit]

VARIABLE res             \* [Reservations -> Reservation]

Reservation == [state  : {"none", "held", "released", "refused"},
                kind   : Kinds,
                user   : Users,
                amount : 0 .. MaxAmount]

\* The units of the reservations R, f being their records: a reservation of
\* amount n is the set of its n units, and a sum is a cardinality.
Units(R, f) == {x \in R \X (1 .. MaxAmount) : x[2] <= f[x[1]].amount}

Outstanding(k) == {r \in Reservations : res[r].state = "held" /\ res[r].kind = k}
OutstandingBy(k, u) == {r \in Outstanding(k) : res[r].user = u}

Used(k) == Cardinality(Units(Outstanding(k), res))
UsedBy(k, u) == Cardinality(Units(OutstandingBy(k, u), res))

Fits(k, u, n) == UsedBy(k, u) + n <= PerUser[k] /\ Used(k) + n <= Global[k]

Asked(r, k, u, n, outcome) ==
    /\ res[r].state = "none"
    /\ res' = [res EXCEPT ![r] = [state |-> outcome, kind |-> k, user |-> u,
                                  amount |-> n]]

Grant(r, k, u, n)  == Fits(k, u, n) /\ Asked(r, k, u, n, "held")
Refuse(r, k, u, n) == ~Fits(k, u, n) /\ Asked(r, k, u, n, "refused")

GiveBack(r) ==
    /\ res[r].state = "held"
    /\ res' = [res EXCEPT ![r].state = "released"]

Init ==
    /\ res \in [Reservations -> Reservation]
    /\ \A r \in Reservations : res[r].state = "none" /\ res[r].amount = 0

Next ==
    \E r \in Reservations :
        \/ GiveBack(r)
        \/ \E k \in Kinds, u \in Users, n \in 1 .. MaxAmount :
               Grant(r, k, u, n) \/ Refuse(r, k, u, n)

Spec == Init /\ [][Next]_res

=============================================================================
