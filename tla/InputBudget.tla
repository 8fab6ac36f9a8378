----------------------------- MODULE InputBudget -----------------------------
(***************************************************************************)
(* The budget of terminal input (ssh_input_budget.py): a token bucket of   *)
(* the session and one of its user, both of which an input must fit; a     *)
(* denial is not charged.  A thread reads the clock before it has the      *)
(* lock, and buckets that must be full again are dropped when there are    *)
(* many.  Time is counted in ticks.                                        *)
(***************************************************************************)
EXTENDS Naturals, FiniteSets

CONSTANTS InputSessions,  \* sessions of one user
          Account,        \* the key of the user's bucket
          InputThreads,   \* threads that receive for the user's sockets
          SessionCapacity, SessionRate, UserCapacity, UserRate,
          MaxBuckets,     \* 1024 buckets are kept as they are
          Grace,          \* 60 seconds, in ticks
          MaxInput,       \* bound: bytes of one input
          MaxLate,        \* bound: ticks threads are late, in all
          Horizon         \* bound: ticks

ASSUME BudgetAssumption ==
    /\ Account \notin InputSessions /\ IsFiniteSet(InputSessions)
    /\ SessionCapacity \in Nat \ {0} /\ SessionRate \in Nat \ {0}
    /\ UserCapacity \in Nat \ {0} /\ UserRate \in Nat \ {0}
    /\ MaxInput \in Nat /\ Horizon \in Nat

VARIABLES clock,
          bucket,   \* [keys in _buckets -> their tokens and updated_at]
          typing,   \* [InputThreads -> the call of allow it is in]
          debt,     \* [BucketKeys -> what was taken over the rate so far]
          late      \* ticks by which threads came late to the lock

budgetVars == <<clock, bucket, typing, debt, late>>

BucketKeys == InputSessions \cup {Account}
CapacityOf(k) == IF k = Account THEN UserCapacity ELSE SessionCapacity
RateOf(k) == IF k = Account THEN UserRate ELSE SessionRate

NotTyping == [on |-> FALSE, session |-> Account, bytes |-> 0, read |-> 0]

BudgetTypeOK ==
    /\ clock \in 0 .. Horizon /\ late \in Nat
    /\ DOMAIN bucket \subseteq BucketKeys
    /\ \A k \in DOMAIN bucket : bucket[k].tokens \in 0 .. CapacityOf(k) /\ bucket[k].at =< clock
    /\ debt \in [BucketKeys -> Nat]

BudgetInit ==
    /\ clock = 0 /\ bucket = [k \in {} |-> [tokens |-> 0, at |-> 0]]
    /\ typing = [t \in InputThreads |-> NotTyping]
    /\ debt = [k \in BucketKeys |-> 0] /\ late = 0

----------------------------------------------------------------------------
Least(a, b) == IF a < b THEN a ELSE b
Beyond(a, b) == IF a < b THEN 0 ELSE a - b   \* max(0, a - b)

\* _state: the bucket of k as it is at the time now
StateAt(k, now) ==
    IF k \notin DOMAIN bucket THEN [tokens |-> CapacityOf(k), at |-> now]
    ELSE [tokens |-> Least(CapacityOf(k), bucket[k].tokens + Beyond(now, bucket[k].at) * RateOf(k)),
          at |-> now]

\* Mutant of StaleAt: not long ago is long enough.
StaleAfterGrace(B, now) == {k \in DOMAIN B : Beyond(now, B[k].at) >= Grace}

\* _remove_stale_full_buckets: those untouched for the grace and for twice the
\* time that fills them.
StaleAt(B, now) ==
    {k \in DOMAIN B : LET idle == Beyond(now, B[k].at)
                      IN  idle >= Grace /\ idle * RateOf(k) >= 2 * CapacityOf(k)}

\* An input arrives and allow reads the clock, ...
ReadClock(t) ==
    /\ ~typing[t].on
    /\ \E s \in InputSessions, n \in 1 .. MaxInput :
         typing' = [typing EXCEPT ![t] = [on |-> TRUE, session |-> s, bytes |-> n, read |-> clock]]
    /\ UNCHANGED <<clock, bucket, debt, late>>

\* ... and has the lock: both buckets are brought to that time, and charged only
\* if the input fits both.
AllowInput(t) ==
    LET call == typing[t]
        keys == {Account, call.session}
        fresh == [k \in DOMAIN bucket \cup keys |->
                    IF k \in keys THEN StateAt(k, call.read) ELSE bucket[k]]
        fits == \A k \in keys : call.bytes =< fresh[k].tokens
        charged == [k \in DOMAIN fresh |->
                      IF k \in keys THEN [fresh[k] EXCEPT !.tokens = @ - call.bytes] ELSE fresh[k]]
        kept == IF Cardinality(DOMAIN charged) > MaxBuckets
                THEN DOMAIN charged \ StaleAt(charged, call.read) ELSE DOMAIN charged
    IN  /\ call.on
        /\ typing' = [typing EXCEPT ![t] = NotTyping]
        /\ late' = late + (clock - call.read)
        /\ IF fits
           THEN /\ bucket' = [k \in kept |-> charged[k]]
                /\ debt' = [k \in BucketKeys |-> IF k \in keys THEN debt[k] + call.bytes ELSE debt[k]]
           ELSE bucket' = fresh /\ UNCHANGED debt
        /\ UNCHANGED clock

Waiting == {t \in InputThreads : typing[t].on}
Tick ==
    /\ clock < Horizon /\ clock' = clock + 1
    /\ \A t \in Waiting : late + Cardinality(Waiting) + clock - typing[t].read =< MaxLate
    /\ debt' = [k \in BucketKeys |-> Beyond(debt[k], RateOf(k))]
    /\ UNCHANGED <<bucket, typing, late>>

BudgetNext == Tick \/ \E t \in InputThreads : ReadClock(t) \/ AllowInput(t)

BudgetSpec == BudgetInit /\ [][BudgetNext]_budgetVars

----------------------------------------------------------------------------
\* Over any stretch of time a session and a user get no more than the capacity
\* and the rate times its length, whatever is denied, dropped and created again
\* between; all that lateness at the lock can add is the rate for the ticks lost,
\* since _state sets a bucket back to the time its thread read.
BudgetHonest ==
    /\ BudgetTypeOK
    /\ \A k \in BucketKeys : debt[k] =< CapacityOf(k) + RateOf(k) * late
=============================================================================
