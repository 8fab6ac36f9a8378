---------------------------- MODULE QuotaManager ----------------------------
(***************************************************************************)
(* The resource counters of app/quota_manager.py.  reserve and _release    *)
(* each run under the manager's lock and are one action.  The two          *)
(* dictionaries are partial functions: a key is absent while its count is  *)
(* zero.  A Reservation object belongs to its caller, and several cleanup  *)
(* paths may call release on it, in any order and more than once.          *)
(***************************************************************************)
EXTENDS Naturals, FiniteSets

CONSTANTS Reservations, Users, Kinds, MaxAmount, PerUser, Global,
          FairSlotKinds  \* fair_slot_kinds: SSH_SESSION, QUICK_CONNECTION, TRANSFER

\* The checks of QuotaManager.__init__.
ASSUME QuotaLimits ==
    /\ PerUser \in [Kinds -> Nat \ {0}]
    /\ Global \in [Kinds -> Nat \ {0}]
    /\ FairSlotKinds \subseteq Kinds
    /\ \A k \in Kinds : PerUser[k] <= Global[k]
    /\ \A k \in FairSlotKinds : PerUser[k] < Global[k]

ASSUME QuotaFinite ==
    IsFiniteSet(Reservations) /\ MaxAmount \in Nat /\ Users # {} /\ Kinds # {}

VARIABLES userCounts,    \* _user_counts: [subset of Kinds \X Users -> Nat]
          globalCounts,  \* _global_counts: [subset of Kinds -> Nat]
          res            \* the Reservation objects and the refusals

quotaVars == <<userCounts, globalCounts, res>>

Promise == INSTANCE Quota

----------------------------------------------------------------------------
\* counts.get(key, 0)
Get(counts, key) == IF key \in DOMAIN counts THEN counts[key] ELSE 0

\* counts[key] = n
With(counts, key, n) ==
    [x \in DOMAIN counts \cup {key} |-> IF x = key THEN n ELSE counts[x]]

\* if n: counts[key] = n else: del counts[key]
StoreOrDelete(counts, key, n) ==
    IF n # 0 THEN With(counts, key, n)
    ELSE [x \in DOMAIN counts \ {key} |-> counts[x]]

\* Mutant: the limit is compared before the amount is added.
AdmitsBeforeAdding(k, u, n) ==
    /\ Get(userCounts, <<k, u>>) < PerUser[k]
    /\ Get(globalCounts, k) < Global[k]

\* The two checks of reserve, the user's first.
Admits(k, u, n) ==
    /\ Get(userCounts, <<k, u>>) + n <= PerUser[k]
    /\ Get(globalCounts, k) + n <= Global[k]

Reserve(r, k, u, n) ==
    /\ res[r].state = "none"
    /\ Admits(k, u, n)
    /\ userCounts' = With(userCounts, <<k, u>>, Get(userCounts, <<k, u>>) + n)
    /\ globalCounts' = With(globalCounts, k, Get(globalCounts, k) + n)
    /\ res' = [res EXCEPT ![r] = [state |-> "held", kind |-> k, user |-> u,
                                  amount |-> n]]

\* reserve raises QuotaExceeded.
Exceeded(r, k, u, n) ==
    /\ res[r].state = "none"
    /\ ~Admits(k, u, n)
    /\ res' = [res EXCEPT ![r] = [state |-> "refused", kind |-> k, user |-> u,
                                  amount |-> n]]
    /\ UNCHANGED <<userCounts, globalCounts>>

\* Mutant: the _released flag is not looked at.
ReleaseTwice(r) ==
    LET key == <<res[r].kind, res[r].user>> IN
    /\ res[r].state \in {"held", "released"}
    /\ key \in DOMAIN userCounts /\ userCounts[key] >= res[r].amount
    /\ userCounts' =
           StoreOrDelete(userCounts, key, userCounts[key] - res[r].amount)
    /\ globalCounts' =
           StoreOrDelete(globalCounts, res[r].kind,
                         globalCounts[res[r].kind] - res[r].amount)
    /\ res' = [res EXCEPT ![r].state = "released"]

\* _release of a reservation that was not released yet.  Both keys are looked
\* up without a default.
Release(r) ==
    LET key == <<res[r].kind, res[r].user>> IN
    /\ res[r].state = "held"
    /\ userCounts' =
           StoreOrDelete(userCounts, key, userCounts[key] - res[r].amount)
    /\ globalCounts' =
           StoreOrDelete(globalCounts, res[r].kind,
                         globalCounts[res[r].kind] - res[r].amount)
    /\ res' = [res EXCEPT ![r].state = "released"]

\* release again, by another cleanup path: the early return.
ReleaseAgain(r) ==
    /\ res[r].state = "released"
    /\ UNCHANGED quotaVars

NoReservation ==
    [state |-> "none", kind |-> CHOOSE k \in Kinds : TRUE,
     user |-> CHOOSE u \in Users : TRUE, amount |-> 0]

Init ==
    /\ userCounts = [x \in {} |-> 0]
    /\ globalCounts = [x \in {} |-> 0]
    /\ res = [r \in Reservations |-> NoReservation]

Next ==
    \E r \in Reservations :
        \/ Release(r)
        \/ ReleaseAgain(r)
        \/ \E k \in Kinds, u \in Users, n \in 1 .. MaxAmount :
               Reserve(r, k, u, n) \/ Exceeded(r, k, u, n)

Spec == Init /\ [][Next]_quotaVars

----------------------------------------------------------------------------
(* Properties.                                                             *)

\* Types; amounts are positive (_positive_integer), and a dictionary never
\* keeps an entry for nothing (the del branches of _release), so it cannot grow
\* with the users ever seen.
TypeOK ==
    /\ DOMAIN userCounts \subseteq Kinds \X Users
    /\ DOMAIN globalCounts \subseteq Kinds
    /\ \A x \in DOMAIN userCounts : userCounts[x] \in Nat \ {0}
    /\ \A k \in DOMAIN globalCounts : globalCounts[k] \in Nat \ {0}
    /\ res \in [Reservations -> Promise!Reservation]
    /\ \A r \in Reservations : res[r].state # "none" => res[r].amount # 0

\* The counters never drift from the reservations that are really outstanding,
\* however many paths release them (_release's flag), so the lookups of
\* _release always find their key and no count falls below zero.
CountsExact ==
    \A k \in Kinds :
        /\ Get(globalCounts, k) = Promise!Used(k)
        /\ \A u \in Users : Get(userCounts, <<k, u>>) = Promise!UsedBy(k, u)

\* What is outstanding respects both limits of reserve.
WithinLimits ==
    \A k \in Kinds :
        /\ Promise!Used(k) <= Global[k]
        /\ \A u \in Users : Promise!UsedBy(k, u) <= PerUser[k]

\* No single user can shut the others out of a fair slot kind: while all that
\* is outstanding belongs to one user, reserve admits another one.
NoMonopoly ==
    \A k \in FairSlotKinds, u, v \in Users :
        (u # v /\ Promise!Outstanding(k) = Promise!OutstandingBy(k, u)) =>
            Admits(k, v, 1)

\* The counters say what is outstanding, no limit is passed and nobody is shut
\* out, whatever the order of reserve and of the releases.
QuotaSafe == TypeOK /\ CountsExact /\ WithinLimits /\ NoMonopoly

\* The counters implement the promise: reserve grants and refuses exactly as
\* the sums over the outstanding reservations would have it.
ImplementsPromise == Promise!Spec

=============================================================================
