---------------------------- MODULE SessionProofs ----------------------------
(***************************************************************************)
(* Proofs about the SSH connections of a user: the budget of the input of  *)
(* interactive sessions (InputBudget), the windows of their output         *)
(* (OutputFlow), the jobs that set them up (ConnectJobs), and the pool of  *)
(* temporary connections (ConnectionPool); and, last, about the restore of *)
(* a backup (Restore).                                                     *)
(***************************************************************************)
EXTENDS InputBudget, OutputFlow, ConnectJobs, ConnectionPool, Restore, FiniteSetTheorems, TLAPS

----------------------------------------------------------------------------
(* Input.                                                                  *)

\* What a bucket b of the rate r and the capacity c holds at the time now.
HoldsAt(b, now, r, c) == Least(c, b.tokens + Beyond(now, b.at) * r)

\* What was taken over the rate and what could be taken at once are together never
\* more than the capacity, but for the rate over the ticks that threads were late.
KeyInv(k) ==
    /\ debt[k] \in Nat
    /\ k \notin DOMAIN bucket => debt[k] =< RateOf(k) * late
    /\ k \in DOMAIN bucket =>
         /\ bucket[k].tokens \in Nat /\ bucket[k].tokens =< CapacityOf(k)
         /\ bucket[k].at \in Nat /\ bucket[k].at =< clock
         /\ debt[k] + HoldsAt(bucket[k], clock, RateOf(k), CapacityOf(k))
              =< CapacityOf(k) + RateOf(k) * late

TypingInv ==
    \A t \in InputThreads : typing[t].on =>
        /\ typing[t].session \in InputSessions /\ typing[t].bytes \in Nat
        /\ typing[t].read \in Nat /\ typing[t].read =< clock

BudgetInv ==
    /\ clock \in 0 .. Horizon /\ late \in Nat
    /\ DOMAIN bucket \subseteq BucketKeys
    /\ debt \in [BucketKeys -> Nat]
    /\ typing \in [InputThreads -> [on : BOOLEAN, session : BucketKeys, bytes : Nat, read : Nat]]
    /\ TypingInv
    /\ \A k \in BucketKeys : KeyInv(k)

LEMMA Limits ==
    ASSUME NEW k
    PROVE  CapacityOf(k) \in Nat \ {0} /\ RateOf(k) \in Nat \ {0}
  BY BudgetAssumption DEF CapacityOf, RateOf

LEMMA Product ==
    ASSUME NEW a \in Nat, NEW b \in Nat, NEW r \in Nat
    PROVE  /\ a * r \in Nat /\ (a + b) * r = a * r + b * r
           /\ a =< b => a * r =< b * r
           /\ r * a = a * r
<1>1. a * r \in Nat /\ (a + b) * r = a * r + b * r /\ r * a = a * r
  OBVIOUS
<1>2. ASSUME a =< b PROVE a * r =< b * r
  <2> DEFINE d == b - a
  <2>1. d \in Nat /\ b = a + d
    BY <1>2
  <2> HIDE DEF d
  <2>2. (a + d) * r = a * r + d * r /\ d * r \in Nat /\ a * r \in Nat
    BY <2>1
  <2>3. QED
    BY <2>1, <2>2
<1>3. QED
  BY <1>1, <1>2

\* A tick of the clock: the debt falls by the rate as the bucket rises by it.
LEMMA TickKeepsKey ==
    ASSUME NEW r \in Nat, NEW c \in Nat, NEW n \in Nat, NEW now \in Nat, NEW b, NEW d \in Nat,
           b.tokens \in Nat, b.at \in Nat, b.at =< now,
           d + HoldsAt(b, now, r, c) =< c + n
    PROVE  Beyond(d, r) + HoldsAt(b, now + 1, r, c) =< c + n
<1> DEFINE i == now - b.at
<1>1. /\ i \in Nat /\ Beyond(now, b.at) = i /\ Beyond(now + 1, b.at) = i + 1
  BY DEF Beyond
<1> HIDE DEF i
<1>2. (i + 1) * r = i * r + r /\ i * r \in Nat /\ (i + 1) * r \in Nat
  BY <1>1, Product
<1>3. QED
  BY <1>1, <1>2 DEF HoldsAt, Beyond, Least

\* An input at the time at, before or after the bucket was last touched, that the
\* bucket is charged m for (0 for a denial).
LEMMA ChargeKeepsKey ==
    ASSUME NEW r \in Nat, NEW c \in Nat, NEW n \in Nat, NEW now \in Nat, NEW b, NEW d \in Nat,
           NEW f, NEW m \in Nat, NEW at \in Nat, at =< now,
           b.tokens \in Nat, b.at \in Nat, b.at =< now,
           d + HoldsAt(b, now, r, c) =< c + n,
           f.at = at, f.tokens \in Nat, f.tokens + m = HoldsAt(b, at, r, c)
    PROVE  d + m + HoldsAt(f, now, r, c) =< c + n + (now - at) * r
<1> DEFINE i == Beyond(at, b.at)
           j == Beyond(now, b.at)
           w == now - at
<1>1. i \in Nat /\ j \in Nat /\ i =< j /\ w \in Nat /\ Beyond(now, f.at) = w
  BY DEF Beyond
<1> HIDE DEF i, j, w
<1>2. i * r \in Nat /\ j * r \in Nat /\ i * r =< j * r /\ w * r \in Nat
  BY <1>1, Product
<1>3. f.tokens + m =< HoldsAt(b, now, r, c)
  BY <1>2 DEF HoldsAt, Least, i, j
<1>4. HoldsAt(f, now, r, c) =< f.tokens + w * r
  BY <1>1, <1>2 DEF HoldsAt, Least
<1>5. HoldsAt(f, now, r, c) \in Nat /\ HoldsAt(b, now, r, c) \in Nat
  BY <1>1, <1>2 DEF HoldsAt, Least, j
<1>6. (now - at) * r = w * r
  BY DEF w
<1>7. QED
  BY <1>2, <1>3, <1>4, <1>5, <1>6

LEMMA TickKeeps ==
    ASSUME BudgetInv, Tick
    PROVE  BudgetInv'
<1>1. /\ clock' = clock + 1 /\ clock' \in 0 .. Horizon /\ clock \in Nat
      /\ UNCHANGED <<bucket, typing, late>> /\ late \in Nat
      /\ debt' = [k \in BucketKeys |-> Beyond(debt[k], RateOf(k))]
  BY BudgetAssumption DEF BudgetInv, Tick
<1>2. debt' \in [BucketKeys -> Nat]
  <2>1. \A k \in BucketKeys : Beyond(debt[k], RateOf(k)) \in Nat
    BY Limits DEF BudgetInv, Beyond
  <2>2. QED
    BY <1>1, <2>1
<1>3. ASSUME NEW k \in BucketKeys PROVE KeyInv(k)'
  <2> DEFINE r == RateOf(k)
             c == CapacityOf(k)
             d == debt[k]
  <2>1. r \in Nat /\ c \in Nat /\ d \in Nat /\ debt'[k] = Beyond(d, r) /\ KeyInv(k) /\ debt'[k] \in Nat
    BY <1>1, <1>2, Limits DEF BudgetInv
  <2>2. r * late \in Nat
    BY <1>1, <2>1, Product
  <2> HIDE DEF r, c, d
  <2>3. debt'[k] =< d
    BY <2>1 DEF Beyond
  <2>4. CASE k \notin DOMAIN bucket
    <3>1. d =< r * late
      BY <2>1, <2>4 DEF KeyInv, r, d
    <3>2. debt'[k] =< r * late
      BY <2>1, <2>2, <2>3, <3>1
    <3>3. QED
      BY <1>1, <2>1, <2>4, <3>2 DEF KeyInv, r
  <2>5. CASE k \in DOMAIN bucket
    <3>1. /\ bucket[k].tokens \in Nat /\ bucket[k].tokens =< c
          /\ bucket[k].at \in Nat /\ bucket[k].at =< clock
          /\ d + HoldsAt(bucket[k], clock, r, c) =< c + r * late
      BY <2>1, <2>5 DEF KeyInv, r, d, c
    <3>2. Beyond(d, r) + HoldsAt(bucket[k], clock + 1, r, c) =< c + r * late
      BY <1>1, <2>1, <2>2, <3>1, TickKeepsKey
    <3>3. bucket[k].at =< clock'
      BY <1>1, <3>1
    <3>4. QED
      BY <1>1, <2>1, <2>5, <3>1, <3>2, <3>3 DEF KeyInv, r, c
  <2>6. QED
    BY <2>4, <2>5
<1>4. TypingInv'
  <2>1. ASSUME NEW t \in InputThreads, typing[t].on
        PROVE  /\ typing[t].session \in InputSessions /\ typing[t].bytes \in Nat
               /\ typing[t].read \in Nat /\ typing[t].read =< clock'
    BY <1>1, <2>1 DEF BudgetInv, TypingInv
  <2>2. QED
    BY <1>1, <2>1 DEF TypingInv
<1>5. QED
  BY <1>1, <1>2, <1>3, <1>4 DEF BudgetInv

LEMMA ReadClockKeeps ==
    ASSUME BudgetInv, NEW t \in InputThreads, ReadClock(t)
    PROVE  BudgetInv'
<1>1. PICK s \in InputSessions, n \in 1 .. MaxInput :
        typing' = [typing EXCEPT ![t] = [on |-> TRUE, session |-> s, bytes |-> n, read |-> clock]]
  BY DEF ReadClock
<1>2. UNCHANGED <<clock, bucket, debt, late>> /\ clock \in Nat /\ n \in Nat /\ s \in BucketKeys
  BY BudgetAssumption DEF ReadClock, BudgetInv, BucketKeys
<1>3. typing' \in [InputThreads -> [on : BOOLEAN, session : BucketKeys, bytes : Nat, read : Nat]]
  BY <1>1, <1>2 DEF BudgetInv
<1>4. TypingInv'
  BY <1>1, <1>2 DEF BudgetInv, TypingInv
<1>5. \A k \in BucketKeys : KeyInv(k)'
  BY <1>2 DEF BudgetInv, KeyInv
<1>6. QED
  BY <1>2, <1>3, <1>4, <1>5 DEF BudgetInv

LEMMA AllowInputKeeps ==
    ASSUME BudgetInv, NEW t \in InputThreads, AllowInput(t)
    PROVE  BudgetInv'
<1> DEFINE call == typing[t]
           keys == {Account, call.session}
           fresh == [k \in DOMAIN bucket \cup keys |->
                       IF k \in keys THEN StateAt(k, call.read) ELSE bucket[k]]
           fits == \A k \in keys : call.bytes =< fresh[k].tokens
           charged == [k \in DOMAIN fresh |->
                         IF k \in keys THEN [fresh[k] EXCEPT !.tokens = fresh[k].tokens - call.bytes]
                         ELSE fresh[k]]
           read == call.read
           wait == clock - read
           earlier(k) == IF k \in DOMAIN bucket THEN bucket[k] ELSE [tokens |-> CapacityOf(k), at |-> read]
<1>1. /\ call.session \in InputSessions /\ call.bytes \in Nat /\ read \in Nat /\ read =< clock
      /\ clock \in Nat /\ late \in Nat /\ clock' = clock /\ wait \in Nat /\ late' = late + wait
      /\ typing' = [typing EXCEPT ![t] = NotTyping] /\ late' \in Nat
      /\ keys \subseteq BucketKeys /\ DOMAIN bucket \subseteq BucketKeys
  BY BudgetAssumption DEF AllowInput, BudgetInv, TypingInv, BucketKeys
<1>2. /\ DOMAIN fresh = DOMAIN bucket \cup keys
      /\ \A k \in keys : fresh[k] = StateAt(k, read)
      /\ \A k \in DOMAIN bucket \ keys : fresh[k] = bucket[k]
  OBVIOUS
<1>3. PICK kept : /\ kept = DOMAIN charged
                     \/ kept = DOMAIN charged \ StaleAt(charged, read)
                  /\ IF fits
                     THEN /\ bucket' = [k \in kept |-> charged[k]]
                          /\ debt' = [k \in BucketKeys |-> IF k \in keys THEN debt[k] + call.bytes ELSE debt[k]]
                     ELSE bucket' = fresh /\ UNCHANGED debt
  BY DEF AllowInput
<1>4. /\ DOMAIN charged = DOMAIN fresh
      /\ \A k \in keys : charged[k] = [fresh[k] EXCEPT !.tokens = fresh[k].tokens - call.bytes]
      /\ \A k \in DOMAIN bucket \ keys : charged[k] = bucket[k]
  BY <1>2
<1> HIDE DEF fresh, charged, fits, keys
<1>5. ASSUME NEW k \in BucketKeys
      PROVE  /\ debt[k] \in Nat /\ CapacityOf(k) \in Nat /\ RateOf(k) \in Nat
             /\ RateOf(k) * late \in Nat /\ RateOf(k) * wait \in Nat /\ wait * RateOf(k) = RateOf(k) * wait
             /\ RateOf(k) * late' = RateOf(k) * late + RateOf(k) * wait
             /\ earlier(k).tokens \in Nat /\ earlier(k).tokens =< CapacityOf(k)
             /\ earlier(k).at \in Nat /\ earlier(k).at =< clock
             /\ debt[k] + HoldsAt(earlier(k), clock, RateOf(k), CapacityOf(k))
                  =< CapacityOf(k) + RateOf(k) * late
             /\ StateAt(k, read) = [tokens |-> HoldsAt(earlier(k), read, RateOf(k), CapacityOf(k)), at |-> read]
  <2> DEFINE r == RateOf(k)
             c == CapacityOf(k)
  <2>1. r \in Nat /\ c \in Nat /\ KeyInv(k)
    BY Limits DEF BudgetInv
  <2> HIDE DEF r, c, wait
  <2>2. /\ r * late \in Nat /\ r * wait \in Nat /\ wait * r = r * wait
        /\ r * late' = r * late + r * wait
    BY <1>1, <2>1, Product
  <2>3. CASE k \in DOMAIN bucket
    <3>1. earlier(k) = bucket[k]
      BY <2>3
    <3>2. StateAt(k, read) = [tokens |-> HoldsAt(bucket[k], read, r, c), at |-> read]
      BY <2>3 DEF StateAt, HoldsAt, r, c
    <3>3. /\ debt[k] \in Nat /\ bucket[k].tokens \in Nat /\ bucket[k].tokens =< c
          /\ bucket[k].at \in Nat /\ bucket[k].at =< clock
          /\ debt[k] + HoldsAt(bucket[k], clock, r, c) =< c + r * late
      BY <2>1, <2>3 DEF KeyInv, r, c
    <3>4. QED
      BY <2>1, <2>2, <3>1, <3>2, <3>3 DEF r, c
  <2>4. CASE k \notin DOMAIN bucket
    <3>1. earlier(k).tokens = c /\ earlier(k).at = read
      BY <2>4 DEF c
    <3>2. debt[k] \in Nat /\ debt[k] =< r * late
      BY <2>1, <2>4 DEF KeyInv, r
    <3>3. Beyond(read, read) * r \in Nat /\ Beyond(clock, read) * r \in Nat
      BY <1>1, <2>1, Product DEF Beyond
    <3>4. HoldsAt(earlier(k), read, r, c) = c /\ HoldsAt(earlier(k), clock, r, c) = c
      BY <2>1, <3>1, <3>3 DEF HoldsAt, Least
    <3>5. StateAt(k, read) = [tokens |-> c, at |-> read]
      BY <2>4 DEF StateAt, c
    <3>6. QED
      BY <1>1, <2>1, <2>2, <3>1, <3>2, <3>4, <3>5 DEF r, c
  <2>5. QED
    BY <2>3, <2>4
<1> HIDE DEF earlier
<1>6. \A k \in DOMAIN bucket : earlier(k) = bucket[k]
  BY DEF earlier
\* Both buckets of the input, charged m.
<1>7. ASSUME NEW k \in keys, NEW m \in Nat, NEW f, f.at = read, f.tokens \in Nat,
             f.tokens + m = fresh[k].tokens
      PROVE  /\ f.tokens =< CapacityOf(k) /\ f.at \in Nat /\ f.at =< clock
             /\ debt[k] + m + HoldsAt(f, clock, RateOf(k), CapacityOf(k))
                  =< CapacityOf(k) + RateOf(k) * late'
  <2> DEFINE r == RateOf(k)
             c == CapacityOf(k)
             n == RateOf(k) * late
  <2>1. k \in BucketKeys
    BY <1>1
  <2>2. /\ debt[k] \in Nat /\ c \in Nat /\ r \in Nat /\ n \in Nat
        /\ wait * r = r * wait /\ r * wait \in Nat
        /\ r * late' = n + r * wait
        /\ earlier(k).tokens \in Nat /\ earlier(k).at \in Nat /\ earlier(k).at =< clock
        /\ debt[k] + HoldsAt(earlier(k), clock, r, c) =< c + n
    BY <1>5, <2>1
  <2>8. fresh[k].tokens = HoldsAt(earlier(k), read, r, c)
    <3>1. fresh[k] = StateAt(k, read)
      BY <1>2
    <3>2. StateAt(k, read) = [tokens |-> HoldsAt(earlier(k), read, r, c), at |-> read]
      BY <1>5, <2>1
    <3>3. QED
      BY <3>1, <3>2
  <2> HIDE DEF r, c, n
  <2>3. debt[k] + m + HoldsAt(f, clock, r, c) =< c + n + (clock - read) * r
    BY <1>1, <1>7, <2>2, <2>8, ChargeKeepsKey
  <2>4. HoldsAt(earlier(k), read, r, c) =< c
    <3>1. Beyond(read, earlier(k).at) \in Nat
      BY <1>1, <2>2 DEF Beyond
    <3>2. Beyond(read, earlier(k).at) * r \in Nat
      BY <2>2, <3>1, Product
    <3>3. QED
      BY <2>2, <3>2 DEF HoldsAt, Least
  <2>5. f.tokens =< c
    BY <1>7, <2>2, <2>4, <2>8
  <2>6. debt[k] + m + HoldsAt(f, clock, r, c) =< c + r * late'
    BY <2>2, <2>3
  <2>7. QED
    BY <1>1, <1>7, <2>5, <2>6 DEF r, c
<1>8. \A k \in keys : /\ fresh[k].tokens \in Nat /\ fresh[k].at = read
                      /\ k \in BucketKeys /\ k \in DOMAIN fresh
                      /\ fresh[k] = [tokens |-> fresh[k].tokens, at |-> read]
  <2>1. ASSUME NEW k \in keys PROVE HoldsAt(earlier(k), read, RateOf(k), CapacityOf(k)) \in Nat
    <3>1. /\ k \in BucketKeys /\ earlier(k).at \in Nat /\ earlier(k).tokens \in Nat
          /\ RateOf(k) \in Nat /\ CapacityOf(k) \in Nat
      BY <1>1, <1>5
    <3>2. Beyond(read, earlier(k).at) \in Nat
      BY <1>1, <3>1 DEF Beyond
    <3>3. Beyond(read, earlier(k).at) * RateOf(k) \in Nat
      BY <3>1, <3>2, Product
    <3>4. QED
      BY <3>1, <3>3 DEF HoldsAt, Least
  <2>2. ASSUME NEW k \in keys
        PROVE  /\ k \in BucketKeys /\ k \in DOMAIN fresh
               /\ fresh[k] = [tokens |-> HoldsAt(earlier(k), read, RateOf(k), CapacityOf(k)), at |-> read]
    <3>1. k \in BucketKeys /\ k \in DOMAIN fresh /\ fresh[k] = StateAt(k, read)
      BY <1>1, <1>2
    <3>2. StateAt(k, read) = [tokens |-> HoldsAt(earlier(k), read, RateOf(k), CapacityOf(k)), at |-> read]
      BY <1>5, <3>1
    <3>3. QED
      BY <3>1, <3>2
  <2>3. ASSUME NEW k \in keys
        PROVE  /\ fresh[k].tokens = HoldsAt(earlier(k), read, RateOf(k), CapacityOf(k)) /\ fresh[k].at = read
               /\ fresh[k] = [tokens |-> fresh[k].tokens, at |-> read]
    <3> DEFINE h == HoldsAt(earlier(k), read, RateOf(k), CapacityOf(k))
    <3>1. fresh[k] = [tokens |-> h, at |-> read]
      BY <2>2
    <3> HIDE DEF h, read
    <3>2. fresh[k].tokens = h /\ fresh[k].at = read
      BY <3>1
    <3>3. QED
      BY <3>1, <3>2 DEF h
  <2>4. QED
    BY <2>1, <2>2, <2>3
\* A bucket that the input does not touch, and one that is dropped.
<1>9. ASSUME NEW k \in BucketKeys \ keys, debt'[k] = debt[k],
             \/ k \in DOMAIN bucket /\ k \in DOMAIN bucket' /\ bucket'[k] = bucket[k]
             \/ k \notin DOMAIN bucket /\ k \notin DOMAIN bucket'
             \/ k \in DOMAIN bucket /\ k \notin DOMAIN bucket'
                  /\ Beyond(read, bucket[k].at) * RateOf(k) >= 2 * CapacityOf(k)
      PROVE  KeyInv(k)'
  <2> DEFINE r == RateOf(k)
             c == CapacityOf(k)
             h == HoldsAt(bucket[k], clock, r, c)
             n == r * late
             m == r * late'
  <2>1. KeyInv(k) /\ r \in Nat /\ c \in Nat /\ debt[k] \in Nat /\ n \in Nat /\ m \in Nat /\ n =< m
    <3>1. KeyInv(k) /\ r \in Nat /\ c \in Nat
      BY Limits DEF BudgetInv
    <3>2. r * late \in Nat /\ r * wait \in Nat /\ r * late' = r * late + r * wait
      BY <1>5
    <3>3. QED
      BY <3>1, <3>2 DEF KeyInv
  <2> HIDE DEF r, c, n, m
  <2>2. CASE k \in DOMAIN bucket /\ k \in DOMAIN bucket' /\ bucket'[k] = bucket[k]
    <3>1. /\ bucket[k].tokens \in Nat /\ bucket[k].tokens =< c
          /\ bucket[k].at \in Nat /\ bucket[k].at =< clock
          /\ debt[k] + h =< c + n
      BY <2>1, <2>2 DEF KeyInv, r, c, n
    <3>2. Beyond(clock, bucket[k].at) * r \in Nat
      BY <1>1, <2>1, <3>1, Product DEF Beyond
    <3>3. h \in Nat
      BY <2>1, <3>1, <3>2 DEF HoldsAt, Least
    <3> HIDE DEF h
    <3>4. debt[k] + h =< c + m
      BY <2>1, <3>1, <3>3
    <3>5. QED
      BY <1>1, <1>9, <2>1, <2>2, <3>1, <3>4 DEF KeyInv, r, c, m, h
  <2>3. CASE k \notin DOMAIN bucket /\ k \notin DOMAIN bucket'
    <3>1. debt[k] =< n
      BY <2>1, <2>3 DEF KeyInv, r, n
    <3>2. debt[k] =< m
      BY <2>1, <3>1
    <3>3. QED
      BY <1>9, <2>1, <2>3, <3>2 DEF KeyInv, r, m
  <2>4. CASE /\ k \in DOMAIN bucket /\ k \notin DOMAIN bucket'
             /\ Beyond(read, bucket[k].at) * r >= 2 * c
    <3> DEFINE i == Beyond(read, bucket[k].at)
               j == Beyond(clock, bucket[k].at)
    <3>1. /\ bucket[k].tokens \in Nat /\ bucket[k].at \in Nat /\ debt[k] + h =< c + n
      BY <2>1, <2>4 DEF KeyInv, r, c, n
    <3>2. i \in Nat /\ j \in Nat /\ i =< j
      BY <1>1, <3>1 DEF Beyond
    <3> HIDE DEF i, j
    <3>3. i * r \in Nat /\ j * r \in Nat /\ i * r =< j * r /\ i * r >= 2 * c
      <4>1. i * r >= 2 * c
        BY <2>4 DEF i
      <4>2. QED
        BY <2>1, <3>2, <4>1, Product
    <3>4. h = c
      BY <2>1, <3>1, <3>3 DEF HoldsAt, Least, j
    <3>5. debt[k] =< m
      BY <2>1, <3>1, <3>4
    <3>6. QED
      BY <1>9, <2>1, <2>4, <3>5 DEF KeyInv, r, m
  <2>5. QED
    BY <1>9, <2>2, <2>3, <2>4 DEF r, c
<1>10. ASSUME NEW k \in keys, fits
       PROVE  k \in kept
  <2>1. charged[k].at = read /\ k \in DOMAIN charged
    BY <1>2, <1>4, <1>8
  <2>2. Beyond(read, charged[k].at) = 0
    BY <1>1, <2>1 DEF Beyond
  <2>3. 0 * RateOf(k) = 0 /\ ~(0 >= 2 * CapacityOf(k))
    BY Limits
  <2>4. k \notin StaleAt(charged, read)
    BY <2>2, <2>3 DEF StaleAt
  <2>5. QED
    BY <1>3, <2>1, <2>4
<1>11. ASSUME fits
       PROVE  /\ debt' \in [BucketKeys -> Nat] /\ DOMAIN bucket' \subseteq BucketKeys
              /\ \A k \in BucketKeys : KeyInv(k)'
  <2>1. /\ bucket' = [k \in kept |-> charged[k]] /\ kept \subseteq DOMAIN bucket \cup keys
        /\ debt' = [k \in BucketKeys |-> IF k \in keys THEN debt[k] + call.bytes ELSE debt[k]]
        /\ \A k \in keys : call.bytes =< fresh[k].tokens
    BY <1>2, <1>3, <1>4, <1>11 DEF fits
  <2>2. debt' \in [BucketKeys -> Nat] /\ DOMAIN bucket' \subseteq BucketKeys
    <3>1. \A k \in BucketKeys : debt[k] \in Nat /\ debt[k] + call.bytes \in Nat
      <4>1. debt \in [BucketKeys -> Nat] /\ call.bytes \in Nat
        BY <1>1 DEF BudgetInv
      <4>2. QED
        BY <4>1
    <3>2. QED
      BY <1>1, <2>1, <3>1
  <2>3. ASSUME NEW k \in keys PROVE KeyInv(k)'
    <3>1. k \in DOMAIN bucket' /\ bucket'[k] = charged[k] /\ debt'[k] = debt[k] + call.bytes
      BY <1>8, <1>10, <1>11, <2>1
    <3>2. /\ charged[k].at = read /\ charged[k].tokens = fresh[k].tokens - call.bytes
          /\ charged[k].tokens \in Nat /\ charged[k].tokens + call.bytes = fresh[k].tokens
      <4>1. /\ charged[k] = [fresh[k] EXCEPT !.tokens = fresh[k].tokens - call.bytes]
            /\ fresh[k] = [tokens |-> fresh[k].tokens, at |-> read]
        BY <1>4, <1>8
      <4>2. charged[k].at = read /\ charged[k].tokens = fresh[k].tokens - call.bytes
        BY <4>1
      <4>3. fresh[k].tokens \in Nat /\ call.bytes \in Nat /\ call.bytes =< fresh[k].tokens
        BY <1>1, <1>8, <2>1
      <4>4. QED
        BY <4>2, <4>3
    <3>3. /\ charged[k].tokens =< CapacityOf(k) /\ charged[k].at \in Nat /\ charged[k].at =< clock
          /\ debt[k] + call.bytes + HoldsAt(charged[k], clock, RateOf(k), CapacityOf(k))
               =< CapacityOf(k) + RateOf(k) * late'
      BY <1>1, <1>7, <3>2
    <3>4. debt'[k] \in Nat
      BY <1>8, <2>2
    <3>5. QED
      BY <1>1, <3>1, <3>2, <3>3, <3>4 DEF KeyInv
  <2>4. ASSUME NEW k \in BucketKeys \ keys PROVE KeyInv(k)'
    <3>1. debt'[k] = debt[k]
      BY <2>1, <2>4
    <3>2. CASE k \notin DOMAIN bucket
      BY <1>9, <2>1, <2>4, <3>1, <3>2
    <3>3. CASE k \in kept /\ k \in DOMAIN bucket
      <4>1. k \in DOMAIN bucket' /\ bucket'[k] = bucket[k]
        BY <1>4, <2>1, <2>4, <3>3
      <4>2. QED
        BY <1>9, <2>4, <3>1, <3>3, <4>1
    <3>4. CASE k \in DOMAIN bucket /\ k \notin kept
      <4>1. k \in StaleAt(charged, read) /\ charged[k] = bucket[k] /\ k \notin DOMAIN bucket'
        BY <1>2, <1>3, <1>4, <2>1, <2>4, <3>4
      <4>2. Beyond(read, bucket[k].at) * RateOf(k) >= 2 * CapacityOf(k)
        BY <4>1 DEF StaleAt
      <4>3. QED
        BY <1>9, <2>4, <3>1, <3>4, <4>1, <4>2
    <3>5. QED
      BY <3>2, <3>3, <3>4
  <2>5. QED
    BY <2>2, <2>3, <2>4
<1>12. ASSUME ~fits
       PROVE  /\ debt' \in [BucketKeys -> Nat] /\ DOMAIN bucket' \subseteq BucketKeys
              /\ \A k \in BucketKeys : KeyInv(k)'
  <2>1. bucket' = fresh /\ debt' = debt
    BY <1>3, <1>12
  <2>2. debt' \in [BucketKeys -> Nat] /\ DOMAIN bucket' \subseteq BucketKeys
    BY <1>1, <1>2, <2>1 DEF BudgetInv
  <2>3. ASSUME NEW k \in keys PROVE KeyInv(k)'
    <3>1. fresh[k].tokens \in Nat /\ fresh[k].tokens + 0 = fresh[k].tokens /\ debt[k] \in Nat
      <4>1. fresh[k].tokens \in Nat /\ k \in BucketKeys
        BY <1>8
      <4>2. debt[k] \in Nat
        BY <4>1 DEF BudgetInv
      <4>3. QED
        BY <4>1, <4>2
    <3>2. /\ fresh[k].tokens =< CapacityOf(k) /\ fresh[k].at \in Nat /\ fresh[k].at =< clock
          /\ debt[k] + 0 + HoldsAt(fresh[k], clock, RateOf(k), CapacityOf(k))
               =< CapacityOf(k) + RateOf(k) * late'
      BY <1>7, <1>8, <3>1
    <3>3. debt[k] + 0 = debt[k]
      BY <3>1
    <3>4. QED
      BY <1>1, <1>8, <2>1, <3>1, <3>2, <3>3 DEF KeyInv
  <2>4. ASSUME NEW k \in BucketKeys \ keys PROVE KeyInv(k)'
    BY <1>2, <1>9, <2>1, <2>4
  <2>5. QED
    BY <2>2, <2>3, <2>4
<1>13. /\ typing' \in [InputThreads -> [on : BOOLEAN, session : BucketKeys, bytes : Nat, read : Nat]]
       /\ TypingInv'
  BY <1>1 DEF BudgetInv, TypingInv, NotTyping, BucketKeys
<1>14. QED
  BY <1>1, <1>11, <1>12, <1>13 DEF BudgetInv

LEMMA BudgetStarts == BudgetInit => BudgetInv
<1> SUFFICES ASSUME BudgetInit PROVE BudgetInv
  OBVIOUS
<1>1. \A k \in BucketKeys : 0 =< RateOf(k) * 0
  BY Limits
<1>2. QED
  BY <1>1, BudgetAssumption
  DEF BudgetInit, BudgetInv, KeyInv, TypingInv, NotTyping, BucketKeys

LEMMA BudgetStep == BudgetInv /\ [BudgetNext]_budgetVars => BudgetInv'
<1> SUFFICES ASSUME BudgetInv, [BudgetNext]_budgetVars PROVE BudgetInv'
  OBVIOUS
<1>1. CASE UNCHANGED budgetVars
  BY <1>1 DEF budgetVars, BudgetInv, KeyInv, TypingInv
<1>2. QED
  BY <1>1, TickKeeps, ReadClockKeeps, AllowInputKeeps DEF BudgetNext

\* Over any stretch of time a session and a user get no more than the capacity and
\* the rate times its length, plus the rate for the ticks that threads came late to
\* the lock, whatever was denied, dropped and created again between.
THEOREM BudgetIsHonest == BudgetSpec => []BudgetHonest
<1>1. BudgetSpec => []BudgetInv
  BY BudgetStarts, BudgetStep, PTL DEF BudgetSpec
<1>2. BudgetInv => BudgetHonest
  <2> SUFFICES ASSUME BudgetInv PROVE BudgetHonest
    OBVIOUS
  <2>1. BudgetTypeOK
    <3>1. \A k \in DOMAIN bucket : /\ bucket[k].tokens \in Nat /\ bucket[k].tokens =< CapacityOf(k)
                                   /\ bucket[k].at =< clock /\ CapacityOf(k) \in Nat
      BY Limits DEF BudgetInv, KeyInv
    <3>2. QED
      BY <3>1 DEF BudgetInv, BudgetTypeOK
  <2>2. ASSUME NEW k \in BucketKeys PROVE debt[k] =< CapacityOf(k) + RateOf(k) * late
    <3> DEFINE r == RateOf(k)
               c == CapacityOf(k)
               h == HoldsAt(bucket[k], clock, r, c)
    <3>1. KeyInv(k) /\ r \in Nat /\ c \in Nat /\ debt[k] \in Nat /\ late \in Nat /\ clock \in Nat
      BY Limits DEF BudgetInv
    <3>2. r * late \in Nat
      BY <3>1, Product
    <3>3. CASE k \notin DOMAIN bucket
      <4>1. debt[k] =< r * late
        BY <3>1, <3>3 DEF KeyInv
      <4>2. QED
        BY <3>1, <3>2, <4>1
    <3>4. CASE k \in DOMAIN bucket
      <4>1. /\ bucket[k].tokens \in Nat /\ bucket[k].at \in Nat /\ bucket[k].at =< clock
            /\ debt[k] + h =< c + r * late
        BY <3>1, <3>4 DEF KeyInv
      <4>2. Beyond(clock, bucket[k].at) * r \in Nat
        BY <3>1, <4>1, Product DEF Beyond
      <4>3. h \in Nat
        BY <3>1, <4>1, <4>2 DEF HoldsAt, Least
      <4> HIDE DEF h, r, c
      <4>4. debt[k] =< c + r * late
        BY <3>1, <3>2, <4>1, <4>3
      <4>5. QED
        BY <4>4 DEF r, c
    <3>5. QED
      BY <3>3, <3>4
  <2>3. QED
    BY <2>1, <2>2 DEF BudgetHonest
<1>3. QED
  BY <1>1, <1>2, PTL

----------------------------------------------------------------------------
(* Output.                                                                 *)

Event == [id : 1 .. MaxEvents, browser : Browsers, old : BOOLEAN]
Reader == [pc : {"rest", "waiting", "late", "arming", "sending", "failed"},
           todo : SUBSET Browsers, later : SUBSET Browsers, to : SUBSET Browsers,
           since : Nat, token : Nat]

\* The events counted in a scope.
Within(s) == {x \in reserved : s \in ScopesOf(x.browser)}

\* Ids are given once, so that an event that grows old stays one event.
EventsInv ==
    /\ reserved \subseteq Event /\ IsFiniteSet(reserved)
    /\ nextId \in Nat \ {0} /\ \A x \in reserved : x.id < nextId
    /\ \A x, y \in reserved : x.id = y.id => x = y
    /\ \A x \in reserved : x.browser \in active
WindowsInv ==
    /\ used \in [Scopes -> Nat]
    /\ \A s \in Scopes : used[s] = Cardinality(Within(s)) /\ used[s] =< LimitOf(s)
ArmedInv ==
    /\ armed \subseteq {x.id : x \in reserved}
    /\ armed # {} => watchdog.running
FlowInv ==
    /\ active \subseteq Browsers /\ EventsInv /\ WindowsInv /\ ArmedInv
    /\ watchdog \in [running : BOOLEAN, calls : SUBSET Nat]
    /\ stream \in [Streams -> Reader]

LEMMA WithinIsFinite ==
    ASSUME EventsInv, NEW s
    PROVE  IsFiniteSet(Within(s)) /\ Cardinality(Within(s)) \in Nat
<1>1. IsFiniteSet(Within(s))
  BY FS_Subset DEF EventsInv, Within
<1>2. QED
  BY <1>1, FS_CardinalityType

\* The events S end: an acknowledgement, a deadline, a failed send or a disconnect.
LEMMA EndKeeps ==
    ASSUME FlowInv, NEW S \in SUBSET reserved, End(S),
           active' \subseteq active, \A x \in reserved \ S : x.browser \in active',
           nextId' = nextId, watchdog'.running = watchdog.running
    PROVE  EventsInv' /\ WindowsInv' /\ ArmedInv' /\ active' \subseteq Browsers
<1>1. /\ reserved' = reserved \ S /\ used' = Released(used, S)
      /\ armed' = armed \ {x.id : x \in S}
  BY DEF End
<1>2. EventsInv'
  <2>1. IsFiniteSet(reserved')
    BY <1>1, FS_Subset DEF FlowInv, EventsInv
  <2>2. QED
    BY <1>1, <2>1 DEF FlowInv, EventsInv
<1>3. ASSUME NEW s \in Scopes
      PROVE  /\ used'[s] \in Nat /\ used'[s] = Cardinality(Within(s)') /\ used'[s] =< LimitOf(s)
  <2> DEFINE W == Within(s)
             T == {x \in S : s \in ScopesOf(x.browser)}
  <2>1. /\ IsFiniteSet(W) /\ Cardinality(W) \in Nat /\ used[s] = Cardinality(W)
        /\ used[s] =< LimitOf(s) /\ LimitOf(s) \in Nat
    BY WithinIsFinite, FlowAssumption DEF FlowInv, WindowsInv, LimitOf
  <2>2. T \subseteq W /\ Within(s)' = W \ T
    BY <1>1 DEF Within
  <2>3. used'[s] = used[s] - Cardinality(T)
    BY <1>1 DEF Released
  <2> HIDE DEF W, T
  <2>4. IsFiniteSet(T) /\ Cardinality(T) \in Nat /\ Cardinality(T) =< Cardinality(W)
    BY <2>1, <2>2, FS_Subset, FS_CardinalityType
  <2>5. Cardinality(W \ T) = Cardinality(W) - Cardinality(W \cap T) /\ W \cap T = T
    BY <2>1, <2>2, FS_Difference
  <2>6. Cardinality(W \ T) = Cardinality(W) - Cardinality(T)
    BY <2>5
  <2>7. used'[s] = Cardinality(W \ T) /\ used'[s] \in Nat /\ used'[s] =< LimitOf(s)
    BY <2>1, <2>3, <2>4, <2>6
  <2>8. QED
    BY <2>2, <2>7
<1>4. WindowsInv'
  <2>1. used' = [s \in Scopes |-> used'[s]]
    BY <1>1 DEF Released
  <2>2. QED
    BY <1>3, <2>1 DEF WindowsInv
<1>5. ArmedInv'
  BY <1>1 DEF FlowInv, ArmedInv
<1>6. QED
  BY <1>2, <1>4, <1>5 DEF FlowInv

LEMMA RestKeeps ==
    ASSUME FlowInv, UNCHANGED <<active, reserved, used, armed, nextId>>,
           watchdog'.running \/ watchdog'.running = watchdog.running
    PROVE  EventsInv' /\ WindowsInv' /\ ArmedInv' /\ active' \subseteq Browsers
  BY DEF FlowInv, EventsInv, WindowsInv, ArmedInv, Within

\* release_socket
LEMMA DisconnectKeeps ==
    ASSUME FlowInv, NEW b, Disconnect(b) \/ (ReleaseSocket(b) /\ UNCHANGED refusals),
           nextId' = nextId, watchdog'.running = watchdog.running
    PROVE  EventsInv' /\ WindowsInv' /\ ArmedInv' /\ active' \subseteq Browsers
<1>1. CASE ReleaseSocket(b)
  <2>1. /\ End(Of(b)) /\ Of(b) \in SUBSET reserved /\ active' = active \ {b}
        /\ \A x \in reserved \ Of(b) : x.browser # b
    BY <1>1 DEF ReleaseSocket, Of
  <2>2. \A x \in reserved \ Of(b) : x.browser \in active'
    BY <2>1 DEF FlowInv, EventsInv
  <2>3. QED
    BY <2>1, <2>2, EndKeeps
<1>2. CASE UNCHANGED <<active, reserved, used, armed>>
  BY <1>2, RestKeeps
<1>3. QED
  BY <1>1, <1>2 DEF Disconnect

LEMMA NextBrowserKeeps ==
    ASSUME FlowInv, NEW r \in Streams, NextBrowser(r)
    PROVE  stream' \in [Streams -> Reader]
<1>1. stream[r] \in Reader /\ stream \in [Streams -> Reader] /\ nextId \in Nat
  BY DEF FlowInv, EventsInv
<1>2. CASE Goes(r, AtRest)
  BY <1>1, <1>2 DEF Goes, AtRest, Reader
<1>3. ASSUME NEW b \in stream[r].todo \cup stream[r].later,
             Goes(r, [stream[r] EXCEPT !.pc = "waiting", !.todo = @ \ {b}, !.later = @ \ {b},
                                       !.to = {b}, !.since = nextId, !.token = 0])
      PROVE  stream' \in [Streams -> Reader]
  BY <1>1, <1>3 DEF Goes, Reader
<1>4. QED
  BY <1>2, <1>3 DEF NextBrowser

----------------------------------------------------------------------------
(* The steps of readers. *)

LEMMA ReserveEventKeeps ==
    ASSUME FlowInv, NEW r \in Streams, NEW b \in Browsers, ReserveEvent(r, b)
    PROVE  FlowInv'
<1> DEFINE x == [id |-> nextId, browser |-> b, old |-> FALSE]
<1>1. /\ reserved' = reserved \cup {x} /\ nextId' = nextId + 1 /\ nextId =< MaxEvents /\ Fits(b)
      /\ used' = [s \in Scopes |-> IF s \in ScopesOf(b) THEN used[s] + 1 ELSE used[s]]
      /\ UNCHANGED <<active, armed, watchdog, refusals>>
  BY DEF ReserveEvent
<1>2. x \in Event /\ x.id = nextId /\ x.browser = b /\ b \in active /\ nextId \in Nat /\ x \notin reserved
  BY <1>1, FlowAssumption DEF FlowInv, EventsInv, Event, Fits
<1> HIDE DEF x
<1>3. EventsInv'
  <2>1. IsFiniteSet(reserved')
    BY <1>1, FS_AddElement DEF FlowInv, EventsInv
  <2>2. reserved' \subseteq Event /\ \A y \in reserved' : y.id < nextId' /\ y.browser \in active'
    <3>1. \A y \in reserved : y \in Event /\ y.id \in Nat /\ y.id < nextId /\ y.browser \in active
      BY FlowAssumption DEF FlowInv, EventsInv, Event
    <3>2. QED
      BY <1>1, <1>2, <3>1
  <2>3. \A y, z \in reserved' : y.id = z.id => y = z
    <3>1. \A y \in reserved : y.id # x.id
      BY <1>2, FlowAssumption DEF FlowInv, EventsInv, Event
    <3>2. QED
      BY <1>1, <3>1 DEF FlowInv, EventsInv
  <2>4. QED
    BY <1>1, <1>2, <2>1, <2>2, <2>3 DEF EventsInv
<1>4. ASSUME NEW s \in Scopes
      PROVE  used'[s] \in Nat /\ used'[s] = Cardinality(Within(s)') /\ used'[s] =< LimitOf(s)
  <2>1. /\ IsFiniteSet(Within(s)) /\ Cardinality(Within(s)) \in Nat /\ used[s] = Cardinality(Within(s))
        /\ used[s] =< LimitOf(s) /\ LimitOf(s) \in Nat
    BY WithinIsFinite, FlowAssumption DEF FlowInv, WindowsInv, LimitOf
  <2>2. CASE s \in ScopesOf(b)
    <3>1. Within(s)' = Within(s) \cup {x} /\ x \notin Within(s)
      BY <1>1, <1>2, <2>2 DEF Within
    <3>2. Cardinality(Within(s) \cup {x}) = Cardinality(Within(s)) + 1
      BY <2>1, <3>1, FS_AddElement
    <3>3. used'[s] = used[s] + 1 /\ used[s] + 1 =< LimitOf(s)
      BY <1>1, <2>2 DEF Fits
    <3>4. QED
      BY <2>1, <3>1, <3>2, <3>3
  <2>3. CASE s \notin ScopesOf(b)
    <3>1. Within(s)' = Within(s) /\ used'[s] = used[s]
      BY <1>1, <1>2, <2>3 DEF Within
    <3>2. QED
      BY <2>1, <3>1
  <2>4. QED
    BY <2>2, <2>3
<1>5. WindowsInv'
  BY <1>1, <1>4 DEF WindowsInv
<1>6. ArmedInv'
  BY <1>1 DEF FlowInv, ArmedInv
<1>7. stream' \in [Streams -> Reader]
  <2>1. stream' = [stream EXCEPT ![r] = [stream[r] EXCEPT !.pc = "arming", !.token = nextId]]
    BY DEF ReserveEvent, Goes
  <2>2. [stream[r] EXCEPT !.pc = "arming", !.token = nextId] \in Reader
    BY <1>2 DEF FlowInv, Reader
  <2>3. QED
    BY <2>1, <2>2 DEF FlowInv
<1>8. QED
  BY <1>1, <1>3, <1>5, <1>6, <1>7 DEF FlowInv

LEMMA ReaderKeeps ==
    ASSUME FlowInv, NEW r \in Streams, ReaderStep(r) \/ StartEmit(r) \/ ReserveCancelled(r)
    PROVE  FlowInv'
<1> DEFINE st == stream[r]
<1>1. st \in Reader /\ stream \in [Streams -> Reader] /\ nextId \in Nat
  BY DEF FlowInv, EventsInv
<1>2. ASSUME NEW p \in {"rest", "waiting", "late", "arming", "sending", "failed"}
      PROVE  /\ [stream EXCEPT ![r] = [st EXCEPT !.pc = p]] \in [Streams -> Reader]
             /\ [stream EXCEPT ![r] = [st EXCEPT !.pc = p, !.since = nextId]] \in [Streams -> Reader]
  BY <1>1 DEF Reader
<1>3. CASE Arm(r)
  <2>1. UNCHANGED <<active, reserved, used, nextId>> /\ stream' \in [Streams -> Reader]
    BY <1>2, <1>3 DEF Arm, Goes
  <2>2. CASE UNCHANGED <<armed, watchdog>>
    <3>1. EventsInv' /\ WindowsInv' /\ ArmedInv' /\ active' \subseteq Browsers
      BY <2>1, <2>2, RestKeeps
    <3>2. QED
      BY <2>1, <2>2, <3>1 DEF FlowInv
  <2>3. CASE /\ \E x \in reserved : x.id = st.token
             /\ armed' = armed \cup {st.token} /\ watchdog' = [watchdog EXCEPT !.running = TRUE]
    <3>1. watchdog' \in [running : BOOLEAN, calls : SUBSET Nat] /\ watchdog'.running
      BY <2>3 DEF FlowInv
    <3>2. EventsInv' /\ WindowsInv' /\ active' \subseteq Browsers
      BY <2>1 DEF FlowInv, EventsInv, WindowsInv, Within
    <3>3. ArmedInv'
      BY <2>1, <2>3, <3>1 DEF FlowInv, ArmedInv
    <3>4. QED
      BY <2>1, <3>1, <3>2, <3>3 DEF FlowInv
  <2>4. QED
    BY <1>3, <2>2, <2>3 DEF Arm
<1>4. CASE UNCHANGED <<active, reserved, used, armed, nextId, watchdog>> /\ stream' \in [Streams -> Reader]
  <2>1. EventsInv' /\ WindowsInv' /\ ArmedInv' /\ active' \subseteq Browsers
    BY <1>4, RestKeeps
  <2>2. QED
    BY <1>4, <2>1 DEF FlowInv
<1>5. ASSUME NEW b, Disconnect(b), nextId' = nextId, watchdog' = watchdog, stream' \in [Streams -> Reader]
      PROVE  FlowInv'
  <2>1. EventsInv' /\ WindowsInv' /\ ArmedInv' /\ active' \subseteq Browsers
    BY <1>5, DisconnectKeeps
  <2>2. QED
    BY <1>5, <2>1 DEF FlowInv
<1>6. CASE Send(r)
  <2>1. stream' \in [Streams -> Reader]
    BY <1>2, <1>6, NextBrowserKeeps DEF Send, Goes
  <2>2. QED
    BY <1>4, <1>6, <2>1 DEF Send
<1>7. CASE StartEmit(r)
  <2>1. PICK b \in active, todos \in SUBSET active, later \in SUBSET active :
          Goes(r, [AtRest EXCEPT !.pc = "waiting", !.to = {b}, !.todo = todos, !.later = later,
                                 !.since = nextId])
    BY <1>7 DEF StartEmit
  <2>2. stream' \in [Streams -> Reader]
    <3>1. [AtRest EXCEPT !.pc = "waiting", !.to = {b}, !.todo = todos, !.later = later,
                         !.since = nextId] \in Reader
      BY <1>1, <2>1 DEF AtRest, Reader, FlowInv
    <3>2. QED
      BY <1>1, <2>1, <3>1 DEF Goes
  <2>3. QED
    BY <1>4, <1>7, <2>2 DEF StartEmit
<1>8. CASE ReserveCancelled(r)
  <2>1. stream' \in [Streams -> Reader]
    BY <1>1, <1>8 DEF ReserveCancelled, Goes, AtRest, Reader
  <2>2. QED
    BY <1>4, <1>8, <2>1 DEF ReserveCancelled
<1>9. ASSUME NEW b \in Browsers, ReserveGone(r, b) PROVE FlowInv'
  BY <1>4, <1>9, NextBrowserKeeps DEF ReserveGone
<1>10. ASSUME NEW b \in Browsers, ReserveTimeout(r, b) PROVE FlowInv'
  BY <1>2, <1>4, <1>10 DEF ReserveTimeout, Goes
<1>11. ASSUME NEW b \in Browsers, AfterTimeout(r, b) PROVE FlowInv'
  <2>1. watchdog' = watchdog /\ nextId' = nextId
    BY <1>11 DEF AfterTimeout
  <2>2. CASE b \in Stale
    BY <1>5, <1>11, <2>1, <2>2, NextBrowserKeeps DEF AfterTimeout
  <2>3. CASE b \notin Stale
    <3>1. stream' \in [Streams -> Reader]
      BY <1>2, <1>11, <2>3 DEF AfterTimeout, Goes
    <3>2. UNCHANGED <<active, reserved, used, armed, refusals>> \/ \E other \in Stale : Disconnect(other)
      BY <1>11, <2>3 DEF AfterTimeout
    <3>3. QED
      BY <1>4, <1>5, <2>1, <3>1, <3>2
  <2>4. QED
    BY <2>2, <2>3
<1>12. ASSUME NEW b \in Browsers, AfterFailure(r, b) PROVE FlowInv'
  BY <1>4, <1>5, <1>12, NextBrowserKeeps DEF AfterFailure
<1>13. QED
  BY <1>3, <1>6, <1>7, <1>8, <1>9, <1>10, <1>11, <1>12, ReserveEventKeeps DEF ReaderStep

----------------------------------------------------------------------------
(* Acknowledgements, deadlines and disconnects. *)

LEMMA GrowOldKeeps ==
    ASSUME FlowInv, NEW x \in reserved, GrowOld(x)
    PROVE  FlowInv'
<1> DEFINE y == [x EXCEPT !.old = TRUE]
<1>1. /\ reserved' = (reserved \ {x}) \cup {y} /\ ~x.old
      /\ UNCHANGED <<active, used, armed, watchdog, stream, nextId, refusals>>
  BY DEF GrowOld
<1>2. y \in Event /\ y.id = x.id /\ y.browser = x.browser /\ y # x /\ x \in Event
  BY <1>1 DEF FlowInv, EventsInv, Event
<1>3. y \notin reserved
  BY <1>2 DEF FlowInv, EventsInv
<1> HIDE DEF y
<1>4. EventsInv'
  <2>1. IsFiniteSet(reserved')
    <3>1. IsFiniteSet(reserved \ {x})
      BY FS_Subset DEF FlowInv, EventsInv
    <3>2. QED
      BY <1>1, <3>1, FS_AddElement
  <2>2. \A z \in reserved' : z \in Event /\ z.id < nextId' /\ z.browser \in active'
    BY <1>1, <1>2 DEF FlowInv, EventsInv
  <2>3. \A z, w \in reserved' : z.id = w.id => z = w
    BY <1>1, <1>2 DEF FlowInv, EventsInv
  <2>4. QED
    BY <1>1, <2>1, <2>2, <2>3 DEF FlowInv, EventsInv
<1>5. ASSUME NEW s \in Scopes PROVE Cardinality(Within(s)') = Cardinality(Within(s))
  <2> DEFINE W == Within(s)
  <2>1. IsFiniteSet(W) /\ Cardinality(W) \in Nat
    BY WithinIsFinite DEF FlowInv
  <2>2. CASE s \in ScopesOf(x.browser)
    <3>1. Within(s)' = (W \ {x}) \cup {y} /\ x \in W /\ y \notin W \ {x}
      BY <1>1, <1>2, <1>3, <2>2 DEF Within
    <3> HIDE DEF W
    <3>2. IsFiniteSet(W \ {x}) /\ Cardinality(W \ {x}) = Cardinality(W) - 1
      BY <2>1, <3>1, FS_RemoveElement
    <3>3. Cardinality((W \ {x}) \cup {y}) = Cardinality(W \ {x}) + 1
      BY <3>1, <3>2, FS_AddElement
    <3>4. Cardinality((W \ {x}) \cup {y}) = Cardinality(W)
      BY <2>1, <3>2, <3>3
    <3>5. QED
      BY <3>1, <3>4 DEF W
  <2>3. CASE s \notin ScopesOf(x.browser)
    <3>1. Within(s)' = W
      BY <1>1, <1>2, <2>3 DEF Within
    <3>2. QED
      BY <3>1
  <2>4. QED
    BY <2>2, <2>3
<1>6. WindowsInv'
  BY <1>1, <1>5 DEF FlowInv, WindowsInv
<1>7. ArmedInv'
  <2>1. \A i \in armed : \E z \in reserved' : z.id = i
    BY <1>1, <1>2 DEF FlowInv, ArmedInv
  <2>2. QED
    BY <1>1, <2>1 DEF FlowInv, ArmedInv
<1>8. QED
  BY <1>1, <1>4, <1>6, <1>7 DEF FlowInv

LEMMA AcknowledgeKeeps ==
    ASSUME FlowInv, NEW x \in reserved, Acknowledge(x)
    PROVE  FlowInv'
<1>1. End({x}) /\ UNCHANGED <<active, watchdog, stream, nextId, refusals>> /\ {x} \in SUBSET reserved
  BY DEF Acknowledge
<1>2. \A y \in reserved \ {x} : y.browser \in active'
  BY <1>1 DEF FlowInv, EventsInv
<1>3. EventsInv' /\ WindowsInv' /\ ArmedInv' /\ active' \subseteq Browsers
  BY <1>1, <1>2, EndKeeps
<1>4. QED
  BY <1>1, <1>3 DEF FlowInv

LEMMA WatchdogKeeps ==
    ASSUME FlowInv, Watchdog
    PROVE  FlowInv'
<1> DEFINE Dog == [running : BOOLEAN, calls : SUBSET Nat]
<1>1. watchdog \in Dog
  BY DEF FlowInv
<1>2. CASE WatchDeadlines
  <2>1. PICK S \in SUBSET reserved : watchdog' = [watchdog EXCEPT !.calls = {x.id : x \in S}]
    BY <1>2 DEF WatchDeadlines
  <2>2. {x.id : x \in S} \subseteq Nat
    BY FlowAssumption DEF FlowInv, EventsInv, Event
  <2>3. watchdog' \in Dog /\ watchdog'.running = watchdog.running
    BY <1>1, <2>1, <2>2
  <2>4. UNCHANGED <<active, reserved, used, armed, stream, nextId, refusals>>
    BY <1>2 DEF WatchDeadlines
  <2>5. EventsInv' /\ WindowsInv' /\ ArmedInv' /\ active' \subseteq Browsers
    BY <2>3, <2>4, RestKeeps
  <2>6. QED
    BY <2>3, <2>4, <2>5 DEF FlowInv
<1>3. CASE WatchdogEnds
  <2>1. /\ watchdog' = [watchdog EXCEPT !.running = FALSE] /\ armed = {}
        /\ UNCHANGED <<active, reserved, used, armed, stream, nextId, refusals>>
    BY <1>3 DEF WatchdogEnds
  <2>2. watchdog' \in Dog
    BY <1>1, <2>1
  <2>3. EventsInv' /\ WindowsInv' /\ ArmedInv'
    BY <2>1 DEF FlowInv, EventsInv, WindowsInv, ArmedInv, Within
  <2>4. QED
    BY <2>1, <2>2, <2>3 DEF FlowInv
<1>4. ASSUME NEW id \in watchdog.calls, ExpireAck(id) PROVE FlowInv'
  <2>1. watchdog' = [watchdog EXCEPT !.calls = @ \ {id}] /\ UNCHANGED <<stream, nextId>>
    BY <1>4 DEF ExpireAck
  <2>2. watchdog' \in Dog /\ watchdog'.running = watchdog.running
    BY <1>1, <2>1
  <2>3. (\E b : Disconnect(b)) \/ UNCHANGED <<active, reserved, used, armed, refusals>>
    BY <1>4 DEF ExpireAck
  <2>4. EventsInv' /\ WindowsInv' /\ ArmedInv' /\ active' \subseteq Browsers
    BY <2>1, <2>2, <2>3, RestKeeps, DisconnectKeeps
  <2>5. QED
    BY <2>1, <2>2, <2>4 DEF FlowInv
<1>5. QED
  BY <1>2, <1>3, <1>4 DEF Watchdog

LEMMA BrowserLeavesKeeps ==
    ASSUME FlowInv, NEW b \in Browsers, BrowserLeaves(b)
    PROVE  FlowInv'
<1>1. ReleaseSocket(b) /\ UNCHANGED <<watchdog, stream, nextId, refusals>>
  BY DEF BrowserLeaves
<1>2. EventsInv' /\ WindowsInv' /\ ArmedInv' /\ active' \subseteq Browsers
  BY <1>1, DisconnectKeeps
<1>3. QED
  BY <1>1, <1>2 DEF FlowInv

LEMMA FlowStarts == FlowInit => FlowInv
<1> SUFFICES ASSUME FlowInit PROVE FlowInv
  OBVIOUS
<1>1. IsFiniteSet({}) /\ Cardinality({}) = 0
  BY FS_EmptySet
<1>2. \A s : Within(s) = {}
  BY DEF FlowInit, Within
<1>3. \A s : 0 =< LimitOf(s)
  BY FlowAssumption DEF LimitOf
<1>4. WindowsInv
  BY <1>1, <1>2, <1>3 DEF FlowInit, WindowsInv
<1>5. EventsInv
  BY <1>1 DEF FlowInit, EventsInv
<1>6. stream \in [Streams -> Reader] /\ watchdog \in [running : BOOLEAN, calls : SUBSET Nat]
  BY DEF FlowInit, Reader, AtRest, NoCallbacks
<1>7. QED
  BY <1>4, <1>5, <1>6 DEF FlowInit, FlowInv, ArmedInv

LEMMA FlowStep == FlowInv /\ [FlowNext]_flowVars => FlowInv'
<1> SUFFICES ASSUME FlowInv, [FlowNext]_flowVars PROVE FlowInv'
  OBVIOUS
<1>1. CASE UNCHANGED flowVars
  BY <1>1 DEF flowVars, FlowInv, EventsInv, WindowsInv, ArmedInv, Within
<1>2. QED
  BY <1>1, ReaderKeeps, WatchdogKeeps, GrowOldKeeps, AcknowledgeKeeps, BrowserLeavesKeeps
  DEF FlowNext, Time

\* The windows of a socket, its user and the server count exactly the events that
\* are out and stay within their limits, nothing is reserved for a socket that is
\* gone, and a watchdog runs while a deadline is armed, whichever of the
\* acknowledgement, the deadline, the failed send and the disconnect is first.
THEOREM FlowIsCounted == FlowSpec => []FlowCounts
<1>1. FlowSpec => []FlowInv
  BY FlowStarts, FlowStep, PTL DEF FlowSpec
<1>2. FlowInv => FlowCounts
  <2> SUFFICES ASSUME FlowInv PROVE FlowCounts
    OBVIOUS
  <2>1. armed \subseteq 1 .. MaxEvents
    BY DEF FlowInv, ArmedInv, EventsInv, Event
  <2>2. FlowTypeOK
    BY <2>1 DEF FlowInv, EventsInv, WindowsInv, Event, Reader, FlowTypeOK
  <2>3. QED
    BY <2>2 DEF FlowInv, EventsInv, WindowsInv, ArmedInv, Within, FlowCounts
<1>3. QED
  BY <1>1, <1>2, PTL

----------------------------------------------------------------------------
(* Connections.                                                            *)

\* The steps of a job once it has a session, or has failed to get one.
After == {"stored", "reading", "sending", "returned", "checking", "committing",
          "announcing", "ending", "finished", "done"}

\* What each attempt satisfies by itself: who owns its resources at each step, and
\* that a commit and an acknowledged cancel exclude each other.
JobInv(j) ==
    /\ j \in Attempt
    /\ j.owned \/ j.slot => j.gateway
    /\ j.step \in {"none", "asked"} => ~j.slot
    /\ j.step \in {"none", "asked", "created", "queued", "reserving"} => ~j.open /\ ~j.quota /\ ~j.owned
    /\ j.step \in {"opening", "opened", "ready"} => j.quota
    /\ j.step \in {"opened", "ready"} => j.open \/ (j.gateway /\ j.cancelSet)
    /\ j.step \notin After => ~j.session
    /\ j.step \in After => (j.open <=> j.session) /\ (j.quota <=> j.session)
    /\ j.session => ~j.owned
    /\ j.failed => ~j.session /\ j.step \in {"returned", "ending", "finished", "done"}
    /\ j.step \in {"sending", "announcing"} => j.state = "committed"
    /\ j.ran \/ j.told = "connected" => j.state \in {"committed", "finished"}
    /\ j.step = "ending" /\ j.session => j.state = "committed" /\ j.told = "connected"
    /\ j.step \in {"finished", "done"} => ~j.slot /\ ~j.owned /\ (j.session => j.told = "connected")
    /\ j.acked => /\ j.state \in {"cancelled", "finished"} /\ j.cancelSet
                  /\ j.told # "connected" /\ ~j.ran
                  /\ j.step \in {"finished", "done"} => ~j.session

\* A session that no later step of its own job will look at the socket for.
Lasting(j) == j.session /\ j.step \in {"committing", "announcing", "ending", "finished", "done"}

\* A step of one attempt: it takes a session past the look at the socket only
\* while the socket is there.
JobTo(p, q) ==
    /\ JobInv(q)
    /\ Lasting(q) => Lasting(p) \/ rowLive
    /\ q.step \in {"none", "asked", "done"} => p.step \in {"none", "asked", "done"}

JobsInv ==
    /\ job \in [Requests -> Attempt] /\ \A r \in Requests : JobInv(job[r])
    /\ listed \subseteq Requests /\ \A r \in listed : job[r].step \notin {"none", "asked", "done"}
    /\ rowLive \in BOOLEAN /\ shutdown \in {"no", "signalled", "stopped"}
    /\ leaving \in [step : {"none", "attempts", "registry", "row", "left"}, revoked : BOOLEAN]
    /\ ending \in [step : {"none", "socket", "sessions", "closing", "returned"}, todo : SUBSET Requests]
    /\ leaving.step = "left" => ~rowLive
    /\ ending.step \in {"closing", "returned"} =>
         ~rowLive /\ \A r \in Requests : Lasting(job[r]) => r \in ending.todo
    /\ ending.step = "returned" => ending.todo = {}

----------------------------------------------------------------------------
(* The functions on attempts. *)

LEMMA StoppedIs ==
    ASSUME NEW j \in Attempt
    PROVE  LET q == Stopped(j) IN
           /\ q \in Attempt /\ q.step = j.step /\ q.gateway = j.gateway
           /\ q.state = (IF j.state = "committed" THEN "committed" ELSE "cancelled")
           /\ q.cancelSet = TRUE /\ q.owned = FALSE /\ q.quota = j.quota
           /\ q.slot = j.slot /\ q.session = j.session /\ q.failed = j.failed
           /\ q.acked = j.acked /\ q.ran = j.ran /\ q.told = j.told
           /\ q.open <=> (j.open /\ ~j.owned)
<1> DEFINE s == IF j.state = "committed" THEN j.state ELSE "cancelled"
           u == j.runtimeSet \/ j.held
           v == j.open /\ ~j.owned
<1>1. Stopped(j) = [j EXCEPT !.cancelSet = TRUE, !.state = s, !.runtimeSet = u, !.open = v, !.owned = FALSE]
  BY DEF Stopped
<1>2. u \in BOOLEAN /\ v \in BOOLEAN
  OBVIOUS
<1>3. s \in {"pending", "cancelled", "committed", "finished"}
  BY DEF Attempt
<1> HIDE DEF s, u, v
<1>4. /\ Stopped(j) \in Attempt /\ Stopped(j).step = j.step
      /\ Stopped(j).gateway = j.gateway /\ Stopped(j).state = s
      /\ Stopped(j).cancelSet = TRUE /\ Stopped(j).owned = FALSE
      /\ Stopped(j).open = v /\ Stopped(j).quota = j.quota /\ Stopped(j).slot = j.slot
      /\ Stopped(j).session = j.session /\ Stopped(j).failed = j.failed
      /\ Stopped(j).acked = j.acked /\ Stopped(j).ran = j.ran
      /\ Stopped(j).told = j.told
  <2> DEFINE m == [j EXCEPT !.cancelSet = TRUE, !.state = s, !.runtimeSet = u]
  <2>1. /\ m \in Attempt /\ m.step = j.step /\ m.gateway = j.gateway /\ m.state = s
        /\ m.cancelSet = TRUE /\ m.owned = j.owned /\ m.open = j.open
        /\ m.quota = j.quota /\ m.slot = j.slot /\ m.session = j.session
        /\ m.failed = j.failed /\ m.acked = j.acked /\ m.ran = j.ran
        /\ m.told = j.told
    BY <1>2, <1>3 DEF Attempt
  <2> DEFINE q == [m EXCEPT !.open = v, !.owned = FALSE]
  <2>2. Stopped(j) = q
    BY <1>1
  <2> HIDE DEF m
  <2>3. /\ q \in Attempt /\ q.step = m.step /\ q.gateway = m.gateway
        /\ q.state = m.state /\ q.cancelSet = m.cancelSet /\ q.owned = FALSE
        /\ q.open = v /\ q.quota = m.quota /\ q.slot = m.slot /\ q.session = m.session
        /\ q.failed = m.failed /\ q.acked = m.acked /\ q.ran = m.ran
        /\ q.told = m.told
    <3>1. m \in Attempt /\ v \in BOOLEAN
      BY <1>2, <2>1
    <3>2. QED
      BY <3>1 DEF Attempt
  <2> HIDE DEF q
  <2>4. QED
    BY <2>1, <2>2, <2>3
<1>5. QED
  BY <1>4 DEF s, v

LEMMA ForcedIs ==
    ASSUME NEW j \in Attempt
    PROVE  LET q == Forced(j) IN
           /\ q \in Attempt /\ q.step = j.step /\ q.gateway = j.gateway
           /\ q.state = j.state /\ q.cancelSet = TRUE /\ q.owned = j.owned
           /\ q.open = j.open /\ q.quota = j.quota /\ q.slot = j.slot
           /\ q.session = j.session /\ q.failed = j.failed /\ q.acked = j.acked
           /\ q.ran = j.ran /\ q.told = j.told
<1> DEFINE u == j.runtimeSet \/ j.held
<1>1. Forced(j) = [j EXCEPT !.cancelSet = TRUE, !.runtimeSet = u] /\ u \in BOOLEAN
  BY DEF Forced
<1> HIDE DEF u
<1>2. QED
  BY <1>1 DEF Attempt

LEMMA ClosedIs ==
    ASSUME NEW j \in Attempt, JobInv(j), j.step \in After
    PROVE  LET q == ClosedSession(j) IN
           /\ q \in Attempt /\ q.step = j.step /\ q.gateway = j.gateway
           /\ q.state = j.state /\ q.cancelSet = j.cancelSet /\ q.owned = j.owned
           /\ q.open = FALSE /\ q.quota = FALSE /\ q.slot = j.slot
           /\ q.session = FALSE /\ q.failed = j.failed /\ q.acked = j.acked
           /\ q.ran = j.ran /\ q.told = j.told
<1>1. CASE j.session
  <2>1. ClosedSession(j) = [j EXCEPT !.session = FALSE, !.open = FALSE, !.quota = FALSE]
    BY <1>1 DEF ClosedSession
  <2>2. QED
    BY <2>1 DEF Attempt
<1>2. CASE ~j.session
  <2>1. ClosedSession(j) = j /\ j.session = FALSE /\ j.open = FALSE /\ j.quota = FALSE
    BY <1>2 DEF ClosedSession, JobInv, Attempt
  <2>2. QED
    BY <2>1
<1>3. QED
  BY <1>1, <1>2

\* An attempt that is stopped loses what it owns and keeps a commit.
LEMMA StoppedMoves ==
    ASSUME NEW p, JobInv(p), p.state # "finished"
    PROVE  JobTo(p, Stopped(p)) /\ Stopped(p).step = p.step /\ Stopped(p).session = p.session
<1> DEFINE q == Stopped(p)
<1>1. p \in Attempt
  BY DEF JobInv
<1>2. /\ q \in Attempt /\ q.step = p.step /\ q.gateway = p.gateway
      /\ q.state = (IF p.state = "committed" THEN "committed" ELSE "cancelled")
      /\ q.cancelSet = TRUE /\ q.owned = FALSE /\ q.quota = p.quota /\ q.slot = p.slot
      /\ q.session = p.session /\ q.failed = p.failed /\ q.acked = p.acked
      /\ q.ran = p.ran /\ q.told = p.told
      /\ q.open <=> (p.open /\ ~p.owned)
  BY <1>1, StoppedIs
<1> HIDE DEF q
<1>3. JobInv(q)
  BY <1>1, <1>2 DEF JobInv, After
<1>4. QED
  BY <1>2, <1>3 DEF JobTo, Lasting, q

LEMMA ForcedMoves ==
    ASSUME NEW p, JobInv(p)
    PROVE  JobTo(p, Forced(p)) /\ Forced(p).step = p.step /\ Forced(p).session = p.session
<1> DEFINE q == Forced(p)
<1>1. p \in Attempt
  BY DEF JobInv
<1>2. /\ q \in Attempt /\ q.step = p.step /\ q.gateway = p.gateway
      /\ q.state = p.state /\ q.cancelSet = TRUE /\ q.owned = p.owned
      /\ q.open = p.open /\ q.quota = p.quota /\ q.slot = p.slot
      /\ q.session = p.session /\ q.failed = p.failed /\ q.acked = p.acked
      /\ q.ran = p.ran /\ q.told = p.told
  BY <1>1, ForcedIs
<1> HIDE DEF q
<1>3. JobInv(q)
  BY <1>1, <1>2 DEF JobInv, After
<1>4. QED
  BY <1>2, <1>3 DEF JobTo, Lasting, q

\* What commit_if_active does to an attempt that has its session.
LEMMA CommitMoves ==
    ASSUME NEW p, JobInv(p), p.step \in {"reading", "committing"}
    PROVE  /\ JobInv(CommitIfActive(p)) /\ CommitIfActive(p) \in Attempt
           /\ CommitIfActive(p).step = p.step /\ CommitIfActive(p).session = p.session
<1>1. CASE CommitIfActive(p) = p
  BY <1>1 DEF JobInv
<1>2. CASE ~IsSet(p) /\ CommitIfActive(p) = [p EXCEPT !.state = "committed"]
  <2> DEFINE q == [p EXCEPT !.state = "committed"]
  <2>1. /\ q \in Attempt /\ q.step = p.step /\ q.gateway = p.gateway
        /\ q.state = "committed" /\ q.cancelSet = p.cancelSet /\ q.owned = p.owned
        /\ q.open = p.open /\ q.quota = p.quota /\ q.slot = p.slot
        /\ q.session = p.session /\ q.failed = p.failed /\ q.acked = p.acked
        /\ q.ran = p.ran /\ q.told = p.told
    BY DEF JobInv, Attempt
  <2>2. ~p.cancelSet /\ q = CommitIfActive(p)
    BY <1>2 DEF IsSet
  <2> HIDE DEF q
  <2>3. JobInv(q)
    BY <2>1, <2>2 DEF JobInv, After
  <2>4. QED
    BY <2>1, <2>2, <2>3
<1>3. QED
  BY <1>1, <1>2 DEF CommitIfActive

----------------------------------------------------------------------------
(* The steps of one attempt. *)

LEMMA RefuseMoves ==
    ASSUME NEW r \in Requests, JobInv(job[r]), RefuseAttempt(r)
    PROVE  \E q : JobIs(r, q) /\ JobTo(job[r], q)
<1> DEFINE p == job[r]
<1>1. p \in Attempt /\ JobInv(p)
  BY DEF JobInv
<1> DEFINE q == [p EXCEPT !.step = "done", !.told = "error", !.held = TRUE]
<1>2. p.step = "asked" /\ JobIs(r, q)
  BY DEF RefuseAttempt
<1>3. /\ q \in Attempt /\ q.step = "done" /\ q.gateway = p.gateway
      /\ q.state = p.state /\ q.cancelSet = p.cancelSet /\ q.owned = p.owned
      /\ q.open = p.open /\ q.quota = p.quota /\ q.slot = p.slot
      /\ q.session = p.session /\ q.failed = p.failed /\ q.acked = p.acked
      /\ q.ran = p.ran /\ q.told = "error"
  BY <1>1 DEF Attempt, To
<1> HIDE DEF q
<1>4. JobTo(p, q)
  BY <1>1, <1>2, <1>3 DEF JobInv, JobTo, Lasting, After, IsSet
<1>5. QED
  BY <1>2, <1>4

LEMMA AskMoves ==
    ASSUME NEW r \in Requests, JobInv(job[r]), Ask(r)
    PROVE  \E q : JobIs(r, q) /\ JobTo(job[r], q)
<1>1. PICK g \in BOOLEAN, s \in BOOLEAN :
        JobIs(r, [NoJob EXCEPT !.step = "asked", !.gateway = g, !.startup = s])
  BY DEF Ask
<1> DEFINE q == [NoJob EXCEPT !.step = "asked", !.gateway = g, !.startup = s]
<1>2. /\ q \in Attempt /\ q.step = "asked" /\ ~q.owned /\ ~q.open /\ ~q.quota /\ ~q.slot
      /\ ~q.session /\ ~q.failed /\ ~q.acked /\ ~q.ran /\ q.told = "nothing"
  BY DEF NoJob, Attempt
<1> HIDE DEF q
<1>3. JobTo(job[r], q)
  <2>1. JobInv(q)
    BY <1>2 DEF JobInv, After
  <2>2. job[r].step = "none"
    BY DEF Ask
  <2>3. QED
    BY <1>2, <2>1, <2>2 DEF JobTo, Lasting
<1>4. QED
  BY <1>1, <1>3 DEF q

LEMMA AttachMoves ==
    ASSUME NEW r \in Requests, JobInv(job[r]), AttachHandle(r)
    PROVE  \E q : JobIs(r, q) /\ JobTo(job[r], q)
<1> DEFINE p == job[r]
           u == p.runtimeSet \/ p.cancelSet
           q == [p EXCEPT !.held = TRUE, !.runtimeSet = u]
<1>1. p \in Attempt /\ JobInv(p) /\ JobIs(r, q) /\ u \in BOOLEAN
  BY DEF JobInv, AttachHandle
<1> HIDE DEF u
<1>2. /\ q \in Attempt /\ q.step = p.step /\ q.gateway = p.gateway
      /\ q.state = p.state /\ q.cancelSet = p.cancelSet /\ q.owned = p.owned
      /\ q.open = p.open /\ q.quota = p.quota /\ q.slot = p.slot
      /\ q.session = p.session /\ q.failed = p.failed /\ q.acked = p.acked
      /\ q.ran = p.ran /\ q.told = p.told
  BY <1>1 DEF Attempt
<1> HIDE DEF q
<1>3. JobTo(p, q)
  BY <1>1, <1>2 DEF JobInv, JobTo, Lasting, After
<1>4. QED
  BY <1>1, <1>3

LEMMA BeginMoves ==
    ASSUME NEW r \in Requests, JobInv(job[r]), BeginJob(r)
    PROVE  \E q : JobIs(r, q) /\ JobTo(job[r], q)
<1> DEFINE p == job[r]
<1>1. p \in Attempt /\ JobInv(p)
  BY DEF JobInv
<1>2. CASE IsSet(p)
  <2> DEFINE q == To(p, "ending")
  <2>1. p.step = "queued" /\ JobIs(r, q)
    BY <1>2 DEF BeginJob
  <2>2. /\ q \in Attempt /\ q.step = "ending" /\ q.gateway = p.gateway
        /\ q.state = p.state /\ q.cancelSet = p.cancelSet /\ q.owned = p.owned
        /\ q.open = p.open /\ q.quota = p.quota /\ q.slot = p.slot
        /\ q.session = p.session /\ q.failed = p.failed /\ q.acked = p.acked
        /\ q.ran = p.ran /\ q.told = p.told
    BY <1>1 DEF Attempt, To
  <2> HIDE DEF q
  <2>3. JobTo(p, q)
    BY <1>1, <1>2, <2>1, <2>2 DEF JobInv, JobTo, Lasting, After, IsSet
  <2>4. QED
    BY <2>1, <2>3
<1>3. CASE ~IsSet(p)
  <2> DEFINE q == To(p, "reserving")
  <2>1. p.step = "queued" /\ JobIs(r, q)
    BY <1>3 DEF BeginJob
  <2>2. /\ q \in Attempt /\ q.step = "reserving" /\ q.gateway = p.gateway
        /\ q.state = p.state /\ q.cancelSet = p.cancelSet /\ q.owned = p.owned
        /\ q.open = p.open /\ q.quota = p.quota /\ q.slot = p.slot
        /\ q.session = p.session /\ q.failed = p.failed /\ q.acked = p.acked
        /\ q.ran = p.ran /\ q.told = p.told
    BY <1>1 DEF Attempt, To
  <2> HIDE DEF q
  <2>3. JobTo(p, q)
    BY <1>1, <1>3, <2>1, <2>2 DEF JobInv, JobTo, Lasting, After, IsSet
  <2>4. QED
    BY <2>1, <2>3
<1>4. QED
  BY <1>2, <1>3

LEMMA ReserveMoves ==
    ASSUME NEW r \in Requests, JobInv(job[r]), ReserveSession(r)
    PROVE  \E q : JobIs(r, q) /\ JobTo(job[r], q)
<1> DEFINE p == job[r]
<1>1. p \in Attempt /\ JobInv(p)
  BY DEF JobInv
<1>2. CASE JobIs(r, [To(p, "returned") EXCEPT !.failed = TRUE])
  <2> DEFINE q == [To(p, "returned") EXCEPT !.failed = TRUE]
  <2>1. p.step = "reserving" /\ JobIs(r, q)
    BY <1>2 DEF ReserveSession
  <2>2. /\ q \in Attempt /\ q.step = "returned" /\ q.gateway = p.gateway
        /\ q.state = p.state /\ q.cancelSet = p.cancelSet /\ q.owned = p.owned
        /\ q.open = p.open /\ q.quota = p.quota /\ q.slot = p.slot
        /\ q.session = p.session /\ q.failed = TRUE /\ q.acked = p.acked
        /\ q.ran = p.ran /\ q.told = p.told
    BY <1>1 DEF Attempt, To
  <2> HIDE DEF q
  <2>3. JobTo(p, q)
    BY <1>1, <1>2, <2>1, <2>2 DEF JobInv, JobTo, Lasting, After, IsSet
  <2>4. QED
    BY <2>1, <2>3
<1>3. CASE JobIs(r, [To(p, "opening") EXCEPT !.quota = TRUE])
  <2> DEFINE q == [To(p, "opening") EXCEPT !.quota = TRUE]
  <2>1. p.step = "reserving" /\ JobIs(r, q)
    BY <1>3 DEF ReserveSession
  <2>2. /\ q \in Attempt /\ q.step = "opening" /\ q.gateway = p.gateway
        /\ q.state = p.state /\ q.cancelSet = p.cancelSet /\ q.owned = p.owned
        /\ q.open = p.open /\ q.quota = TRUE /\ q.slot = p.slot
        /\ q.session = p.session /\ q.failed = p.failed /\ q.acked = p.acked
        /\ q.ran = p.ran /\ q.told = p.told
    BY <1>1 DEF Attempt, To
  <2> HIDE DEF q
  <2>3. JobTo(p, q)
    BY <1>1, <1>3, <2>1, <2>2 DEF JobInv, JobTo, Lasting, After, IsSet
  <2>4. QED
    BY <2>1, <2>3
<1>4. QED
  BY <1>2, <1>3 DEF ReserveSession

LEMMA OpenMoves ==
    ASSUME NEW r \in Requests, JobInv(job[r]), OpenResources(r)
    PROVE  \E q : JobIs(r, q) /\ JobTo(job[r], q)
<1> DEFINE p == job[r]
<1>1. p \in Attempt /\ JobInv(p)
  BY DEF JobInv
<1>2. CASE IsSet(p)
  <2> DEFINE q == To(p, "failing")
  <2>1. p.step = "opening" /\ JobIs(r, q)
    BY <1>2 DEF OpenResources
  <2>2. /\ q \in Attempt /\ q.step = "failing" /\ q.gateway = p.gateway
        /\ q.state = p.state /\ q.cancelSet = p.cancelSet /\ q.owned = p.owned
        /\ q.open = p.open /\ q.quota = p.quota /\ q.slot = p.slot
        /\ q.session = p.session /\ q.failed = p.failed /\ q.acked = p.acked
        /\ q.ran = p.ran /\ q.told = p.told
    BY <1>1 DEF Attempt, To
  <2> HIDE DEF q
  <2>3. JobTo(p, q)
    BY <1>1, <1>2, <2>1, <2>2 DEF JobInv, JobTo, Lasting, After, IsSet
  <2>4. QED
    BY <2>1, <2>3
<1>3. CASE ~IsSet(p)
  <2> DEFINE q == [To(p, "opened") EXCEPT !.open = TRUE, !.owned = p.gateway]
  <2>1. p.step = "opening" /\ JobIs(r, q)
    BY <1>3 DEF OpenResources
  <2>2. /\ q \in Attempt /\ q.step = "opened" /\ q.gateway = p.gateway
        /\ q.state = p.state /\ q.cancelSet = p.cancelSet /\ q.owned = p.gateway
        /\ q.open = TRUE /\ q.quota = p.quota /\ q.slot = p.slot
        /\ q.session = p.session /\ q.failed = p.failed /\ q.acked = p.acked
        /\ q.ran = p.ran /\ q.told = p.told
    BY <1>1 DEF Attempt, To
  <2> HIDE DEF q
  <2>3. JobTo(p, q)
    BY <1>1, <1>3, <2>1, <2>2 DEF JobInv, JobTo, Lasting, After, IsSet
  <2>4. QED
    BY <2>1, <2>3
<1>4. QED
  BY <1>2, <1>3

LEMMA ConnectMoves ==
    ASSUME NEW r \in Requests, JobInv(job[r]), Connect(r)
    PROVE  \E q : JobIs(r, q) /\ JobTo(job[r], q)
<1> DEFINE p == job[r]
<1>1. p \in Attempt /\ JobInv(p)
  BY DEF JobInv
<1>2. CASE JobIs(r, To(p, "failing"))
  <2> DEFINE q == To(p, "failing")
  <2>1. p.step = "opened" /\ JobIs(r, q)
    BY <1>2 DEF Connect
  <2>2. /\ q \in Attempt /\ q.step = "failing" /\ q.gateway = p.gateway
        /\ q.state = p.state /\ q.cancelSet = p.cancelSet /\ q.owned = p.owned
        /\ q.open = p.open /\ q.quota = p.quota /\ q.slot = p.slot
        /\ q.session = p.session /\ q.failed = p.failed /\ q.acked = p.acked
        /\ q.ran = p.ran /\ q.told = p.told
    BY <1>1 DEF Attempt, To
  <2> HIDE DEF q
  <2>3. JobTo(p, q)
    BY <1>1, <1>2, <2>1, <2>2 DEF JobInv, JobTo, Lasting, After, IsSet
  <2>4. QED
    BY <2>1, <2>3
<1>3. CASE JobIs(r, To(p, "ready"))
  <2> DEFINE q == To(p, "ready")
  <2>1. p.step = "opened" /\ JobIs(r, q)
    BY <1>3 DEF Connect
  <2>2. /\ q \in Attempt /\ q.step = "ready" /\ q.gateway = p.gateway
        /\ q.state = p.state /\ q.cancelSet = p.cancelSet /\ q.owned = p.owned
        /\ q.open = p.open /\ q.quota = p.quota /\ q.slot = p.slot
        /\ q.session = p.session /\ q.failed = p.failed /\ q.acked = p.acked
        /\ q.ran = p.ran /\ q.told = p.told
    BY <1>1 DEF Attempt, To
  <2> HIDE DEF q
  <2>3. JobTo(p, q)
    BY <1>1, <1>3, <2>1, <2>2 DEF JobInv, JobTo, Lasting, After, IsSet
  <2>4. QED
    BY <2>1, <2>3
<1>4. QED
  BY <1>2, <1>3 DEF Connect

LEMMA StoreMoves ==
    ASSUME NEW r \in Requests, JobInv(job[r]), StoreSession(r)
    PROVE  \E q : JobIs(r, q) /\ JobTo(job[r], q)
<1> DEFINE p == job[r]
<1>1. p \in Attempt /\ JobInv(p)
  BY DEF JobInv
<1>2. CASE p.gateway /\ IsSet(p)
  <2> DEFINE q == To(p, "failing")
  <2>1. p.step = "ready" /\ JobIs(r, q)
    BY <1>2 DEF StoreSession
  <2>2. /\ q \in Attempt /\ q.step = "failing" /\ q.gateway = p.gateway
        /\ q.state = p.state /\ q.cancelSet = p.cancelSet /\ q.owned = p.owned
        /\ q.open = p.open /\ q.quota = p.quota /\ q.slot = p.slot
        /\ q.session = p.session /\ q.failed = p.failed /\ q.acked = p.acked
        /\ q.ran = p.ran /\ q.told = p.told
    BY <1>1 DEF Attempt, To
  <2> HIDE DEF q
  <2>3. JobTo(p, q)
    BY <1>1, <1>2, <2>1, <2>2 DEF JobInv, JobTo, Lasting, After, IsSet
  <2>4. QED
    BY <2>1, <2>3
<1>3. CASE ~(p.gateway /\ IsSet(p))
  <2> DEFINE q == [To(p, "stored") EXCEPT !.session = TRUE, !.owned = FALSE]
  <2>1. p.step = "ready" /\ JobIs(r, q)
    BY <1>3 DEF StoreSession
  <2>2. /\ q \in Attempt /\ q.step = "stored" /\ q.gateway = p.gateway
        /\ q.state = p.state /\ q.cancelSet = p.cancelSet /\ q.owned = FALSE
        /\ q.open = p.open /\ q.quota = p.quota /\ q.slot = p.slot /\ q.session = TRUE
        /\ q.failed = p.failed /\ q.acked = p.acked /\ q.ran = p.ran
        /\ q.told = p.told
    BY <1>1 DEF Attempt, To
  <2> HIDE DEF q
  <2>3. JobTo(p, q)
    BY <1>1, <1>3, <2>1, <2>2 DEF JobInv, JobTo, Lasting, After, IsSet
  <2>4. QED
    BY <2>1, <2>3
<1>4. QED
  BY <1>2, <1>3

LEMMA ReleaseMoves ==
    ASSUME NEW r \in Requests, JobInv(job[r]), ReleaseResources(r)
    PROVE  \E q : JobIs(r, q) /\ JobTo(job[r], q)
<1> DEFINE p == job[r]
<1>1. p \in Attempt /\ JobInv(p)
  BY DEF JobInv
<1> DEFINE q == [To(p, "returned") EXCEPT !.failed = TRUE, !.quota = FALSE, !.open = FALSE]
<1>2. p.step = "failing" /\ JobIs(r, q)
  BY DEF ReleaseResources
<1>3. /\ q \in Attempt /\ q.step = "returned" /\ q.gateway = p.gateway
      /\ q.state = p.state /\ q.cancelSet = p.cancelSet /\ q.owned = p.owned
      /\ q.open = FALSE /\ q.quota = FALSE /\ q.slot = p.slot /\ q.session = p.session
      /\ q.failed = TRUE /\ q.acked = p.acked /\ q.ran = p.ran /\ q.told = p.told
  BY <1>1 DEF Attempt, To
<1> HIDE DEF q
<1>4. JobTo(p, q)
  BY <1>1, <1>2, <1>3 DEF JobInv, JobTo, Lasting, After, IsSet
<1>5. QED
  BY <1>2, <1>4

LEMMA ReaderMoves ==
    ASSUME NEW r \in Requests, JobInv(job[r]), StartReader(r)
    PROVE  \E q : JobIs(r, q) /\ JobTo(job[r], q)
<1> DEFINE p == job[r]
<1>1. p \in Attempt /\ JobInv(p)
  BY DEF JobInv
<1>2. CASE IsSet(p) \/ shutdown # "no"
  <2> DEFINE c == ClosedSession(p)
             q == [To(c, "returned") EXCEPT !.failed = TRUE]
  <2>1. p.step = "stored" /\ JobIs(r, q)
    BY <1>2 DEF StartReader, GivesUp
  <2>2. /\ c \in Attempt /\ c.step = p.step /\ c.gateway = p.gateway
        /\ c.state = p.state /\ c.cancelSet = p.cancelSet /\ c.owned = p.owned
        /\ c.open = FALSE /\ c.quota = FALSE /\ c.slot = p.slot /\ c.session = FALSE
        /\ c.failed = p.failed /\ c.acked = p.acked /\ c.ran = p.ran
        /\ c.told = p.told
    BY <1>1, <2>1, ClosedIs DEF After
  <2> HIDE DEF c
  <2>3. /\ q \in Attempt /\ q.step = "returned" /\ q.gateway = c.gateway
        /\ q.state = c.state /\ q.cancelSet = c.cancelSet /\ q.owned = c.owned
        /\ q.open = c.open /\ q.quota = c.quota /\ q.slot = c.slot
        /\ q.session = c.session /\ q.failed = TRUE /\ q.acked = c.acked
        /\ q.ran = c.ran /\ q.told = c.told
    BY <2>2 DEF Attempt, To
  <2> HIDE DEF q
  <2>4. JobTo(p, q)
    BY <1>1, <1>2, <2>1, <2>2, <2>3 DEF JobInv, JobTo, Lasting, After, IsSet
  <2>5. QED
    BY <2>1, <2>4
<1>3. CASE ~(IsSet(p) \/ shutdown # "no")
  <2> DEFINE q == To(p, "reading")
  <2>1. p.step = "stored" /\ JobIs(r, q)
    BY <1>3 DEF StartReader, GivesUp
  <2>2. /\ q \in Attempt /\ q.step = "reading" /\ q.gateway = p.gateway
        /\ q.state = p.state /\ q.cancelSet = p.cancelSet /\ q.owned = p.owned
        /\ q.open = p.open /\ q.quota = p.quota /\ q.slot = p.slot
        /\ q.session = p.session /\ q.failed = p.failed /\ q.acked = p.acked
        /\ q.ran = p.ran /\ q.told = p.told
    BY <1>1 DEF Attempt, To
  <2> HIDE DEF q
  <2>3. JobTo(p, q)
    BY <1>1, <1>3, <2>1, <2>2 DEF JobInv, JobTo, Lasting, After, IsSet
  <2>4. QED
    BY <2>1, <2>3
<1>4. QED
  BY <1>2, <1>3

LEMMA LastLookMoves ==
    ASSUME NEW r \in Requests, JobInv(job[r]), LastLook(r)
    PROVE  \E q : JobIs(r, q) /\ JobTo(job[r], q)
<1> DEFINE p == job[r]
<1>1. p \in Attempt /\ JobInv(p)
  BY DEF JobInv
<1>2. CASE IsSet(p) \/ (p.startup /\ CommitIfActive(p).state # "committed")
  <2> DEFINE c == ClosedSession(p)
             q == [To(c, "returned") EXCEPT !.failed = TRUE]
  <2>1. p.step = "reading" /\ JobIs(r, q)
    BY <1>2 DEF LastLook, GivesUp
  <2>2. /\ c \in Attempt /\ c.step = p.step /\ c.gateway = p.gateway
        /\ c.state = p.state /\ c.cancelSet = p.cancelSet /\ c.owned = p.owned
        /\ c.open = FALSE /\ c.quota = FALSE /\ c.slot = p.slot /\ c.session = FALSE
        /\ c.failed = p.failed /\ c.acked = p.acked /\ c.ran = p.ran
        /\ c.told = p.told
    BY <1>1, <2>1, ClosedIs DEF After
  <2> HIDE DEF c
  <2>3. /\ q \in Attempt /\ q.step = "returned" /\ q.gateway = c.gateway
        /\ q.state = c.state /\ q.cancelSet = c.cancelSet /\ q.owned = c.owned
        /\ q.open = c.open /\ q.quota = c.quota /\ q.slot = c.slot
        /\ q.session = c.session /\ q.failed = TRUE /\ q.acked = c.acked
        /\ q.ran = c.ran /\ q.told = c.told
    BY <2>2 DEF Attempt, To
  <2> HIDE DEF q
  <2>4. JobTo(p, q)
    BY <1>1, <1>2, <2>1, <2>2, <2>3 DEF JobInv, JobTo, Lasting, After, IsSet
  <2>5. QED
    BY <2>1, <2>4
<1>3. CASE ~(IsSet(p) \/ (p.startup /\ CommitIfActive(p).state # "committed")) /\ ~p.startup
  <2> DEFINE q == To(p, "returned")
  <2>1. p.step = "reading" /\ JobIs(r, q)
    BY <1>3 DEF LastLook, GivesUp
  <2>2. /\ q \in Attempt /\ q.step = "returned" /\ q.gateway = p.gateway
        /\ q.state = p.state /\ q.cancelSet = p.cancelSet /\ q.owned = p.owned
        /\ q.open = p.open /\ q.quota = p.quota /\ q.slot = p.slot
        /\ q.session = p.session /\ q.failed = p.failed /\ q.acked = p.acked
        /\ q.ran = p.ran /\ q.told = p.told
    BY <1>1 DEF Attempt, To
  <2> HIDE DEF q
  <2>3. JobTo(p, q)
    BY <1>1, <1>3, <2>1, <2>2 DEF JobInv, JobTo, Lasting, After, IsSet
  <2>4. QED
    BY <2>1, <2>3
<1>4. CASE ~(IsSet(p) \/ (p.startup /\ CommitIfActive(p).state # "committed")) /\ p.startup
  <2> DEFINE c == CommitIfActive(p)
             q == To(c, "sending")
  <2>1. p.step = "reading" /\ JobIs(r, q) /\ c.state = "committed"
    BY <1>4 DEF LastLook
  <2>2. JobInv(c) /\ c \in Attempt /\ c.step = p.step /\ c.session = p.session
    BY <1>1, <2>1, CommitMoves
  <2> HIDE DEF c
  <2>3. /\ q \in Attempt /\ q.step = "sending" /\ q.gateway = c.gateway
        /\ q.state = c.state /\ q.cancelSet = c.cancelSet /\ q.owned = c.owned
        /\ q.open = c.open /\ q.quota = c.quota /\ q.slot = c.slot
        /\ q.session = c.session /\ q.failed = c.failed /\ q.acked = c.acked
        /\ q.ran = c.ran /\ q.told = c.told
    BY <2>2 DEF Attempt, To
  <2> HIDE DEF q
  <2>4. JobTo(p, q)
    BY <1>1, <2>1, <2>2, <2>3 DEF JobInv, JobTo, Lasting, After
  <2>5. QED
    BY <2>1, <2>4
<1>5. QED
  BY <1>2, <1>3, <1>4

LEMMA StartupMoves ==
    ASSUME NEW r \in Requests, JobInv(job[r]), SendStartup(r)
    PROVE  \E q : JobIs(r, q) /\ JobTo(job[r], q)
<1> DEFINE p == job[r]
<1>1. p \in Attempt /\ JobInv(p)
  BY DEF JobInv
<1>2. CASE p.session /\ JobIs(r, [To(p, "returned") EXCEPT !.ran = TRUE])
  <2> DEFINE q == [To(p, "returned") EXCEPT !.ran = TRUE]
  <2>1. p.step = "sending" /\ JobIs(r, q)
    BY <1>2 DEF SendStartup, GivesUp
  <2>2. /\ q \in Attempt /\ q.step = "returned" /\ q.gateway = p.gateway
        /\ q.state = p.state /\ q.cancelSet = p.cancelSet /\ q.owned = p.owned
        /\ q.open = p.open /\ q.quota = p.quota /\ q.slot = p.slot
        /\ q.session = p.session /\ q.failed = p.failed /\ q.acked = p.acked
        /\ q.ran = TRUE /\ q.told = p.told
    BY <1>1 DEF Attempt, To
  <2> HIDE DEF q
  <2>3. JobTo(p, q)
    BY <1>1, <1>2, <2>1, <2>2 DEF JobInv, JobTo, Lasting, After, IsSet
  <2>4. QED
    BY <2>1, <2>3
<1>3. CASE JobIs(r, GivesUp(p))
  <2> DEFINE c == ClosedSession(p)
             q == [To(c, "returned") EXCEPT !.failed = TRUE]
  <2>1. p.step = "sending" /\ JobIs(r, q)
    BY <1>3 DEF SendStartup, GivesUp
  <2>2. /\ c \in Attempt /\ c.step = p.step /\ c.gateway = p.gateway
        /\ c.state = p.state /\ c.cancelSet = p.cancelSet /\ c.owned = p.owned
        /\ c.open = FALSE /\ c.quota = FALSE /\ c.slot = p.slot /\ c.session = FALSE
        /\ c.failed = p.failed /\ c.acked = p.acked /\ c.ran = p.ran
        /\ c.told = p.told
    BY <1>1, <2>1, ClosedIs DEF After
  <2> HIDE DEF c
  <2>3. /\ q \in Attempt /\ q.step = "returned" /\ q.gateway = c.gateway
        /\ q.state = c.state /\ q.cancelSet = c.cancelSet /\ q.owned = c.owned
        /\ q.open = c.open /\ q.quota = c.quota /\ q.slot = c.slot
        /\ q.session = c.session /\ q.failed = TRUE /\ q.acked = c.acked
        /\ q.ran = c.ran /\ q.told = c.told
    BY <2>2 DEF Attempt, To
  <2> HIDE DEF q
  <2>4. JobTo(p, q)
    BY <1>1, <1>3, <2>1, <2>2, <2>3 DEF JobInv, JobTo, Lasting, After, IsSet
  <2>5. QED
    BY <2>1, <2>4
<1>4. QED
  BY <1>2, <1>3 DEF SendStartup

LEMMA ReturnedMoves ==
    ASSUME NEW r \in Requests, JobInv(job[r]), Returned(r)
    PROVE  \E q : JobIs(r, q) /\ JobTo(job[r], q)
<1> DEFINE p == job[r]
<1>1. p \in Attempt /\ JobInv(p)
  BY DEF JobInv
<1>2. CASE IsSet(p)
  <2> DEFINE c == ClosedSession(p)
             q == To(c, "ending")
  <2>1. p.step = "returned" /\ JobIs(r, q)
    BY <1>2 DEF Returned
  <2>2. /\ c \in Attempt /\ c.step = p.step /\ c.gateway = p.gateway
        /\ c.state = p.state /\ c.cancelSet = p.cancelSet /\ c.owned = p.owned
        /\ c.open = FALSE /\ c.quota = FALSE /\ c.slot = p.slot /\ c.session = FALSE
        /\ c.failed = p.failed /\ c.acked = p.acked /\ c.ran = p.ran
        /\ c.told = p.told
    BY <1>1, <2>1, ClosedIs DEF After
  <2> HIDE DEF c
  <2>3. /\ q \in Attempt /\ q.step = "ending" /\ q.gateway = c.gateway
        /\ q.state = c.state /\ q.cancelSet = c.cancelSet /\ q.owned = c.owned
        /\ q.open = c.open /\ q.quota = c.quota /\ q.slot = c.slot
        /\ q.session = c.session /\ q.failed = c.failed /\ q.acked = c.acked
        /\ q.ran = c.ran /\ q.told = c.told
    BY <2>2 DEF Attempt, To
  <2> HIDE DEF q
  <2>4. JobTo(p, q)
    BY <1>1, <1>2, <2>1, <2>2, <2>3 DEF JobInv, JobTo, Lasting, After, IsSet
  <2>5. QED
    BY <2>1, <2>4
<1>3. CASE ~IsSet(p) /\ p.failed
  <2> DEFINE q == [To(p, "ending") EXCEPT !.told = "error"]
  <2>1. p.step = "returned" /\ JobIs(r, q)
    BY <1>3 DEF Returned
  <2>2. /\ q \in Attempt /\ q.step = "ending" /\ q.gateway = p.gateway
        /\ q.state = p.state /\ q.cancelSet = p.cancelSet /\ q.owned = p.owned
        /\ q.open = p.open /\ q.quota = p.quota /\ q.slot = p.slot
        /\ q.session = p.session /\ q.failed = p.failed /\ q.acked = p.acked
        /\ q.ran = p.ran /\ q.told = "error"
    BY <1>1 DEF Attempt, To
  <2> HIDE DEF q
  <2>3. JobTo(p, q)
    BY <1>1, <1>3, <2>1, <2>2 DEF JobInv, JobTo, Lasting, After, IsSet
  <2>4. QED
    BY <2>1, <2>3
<1>4. CASE ~IsSet(p) /\ ~p.failed
  <2> DEFINE q == To(p, "checking")
  <2>1. p.step = "returned" /\ JobIs(r, q)
    BY <1>4 DEF Returned
  <2>2. /\ q \in Attempt /\ q.step = "checking" /\ q.gateway = p.gateway
        /\ q.state = p.state /\ q.cancelSet = p.cancelSet /\ q.owned = p.owned
        /\ q.open = p.open /\ q.quota = p.quota /\ q.slot = p.slot
        /\ q.session = p.session /\ q.failed = p.failed /\ q.acked = p.acked
        /\ q.ran = p.ran /\ q.told = p.told
    BY <1>1 DEF Attempt, To
  <2> HIDE DEF q
  <2>3. JobTo(p, q)
    BY <1>1, <1>4, <2>1, <2>2 DEF JobInv, JobTo, Lasting, After, IsSet
  <2>4. QED
    BY <2>1, <2>3
<1>5. QED
  BY <1>2, <1>3, <1>4

LEMMA CheckMoves ==
    ASSUME NEW r \in Requests, JobInv(job[r]), CheckSocket(r)
    PROVE  \E q : JobIs(r, q) /\ JobTo(job[r], q)
<1> DEFINE p == job[r]
<1>1. p \in Attempt /\ JobInv(p)
  BY DEF JobInv
<1>2. CASE IsSet(p) \/ ~rowLive
  <2> DEFINE c == ClosedSession(p)
             q == To(c, "ending")
  <2>1. p.step = "checking" /\ JobIs(r, q)
    BY <1>2 DEF CheckSocket
  <2>2. /\ c \in Attempt /\ c.step = p.step /\ c.gateway = p.gateway
        /\ c.state = p.state /\ c.cancelSet = p.cancelSet /\ c.owned = p.owned
        /\ c.open = FALSE /\ c.quota = FALSE /\ c.slot = p.slot /\ c.session = FALSE
        /\ c.failed = p.failed /\ c.acked = p.acked /\ c.ran = p.ran
        /\ c.told = p.told
    BY <1>1, <2>1, ClosedIs DEF After
  <2> HIDE DEF c
  <2>3. /\ q \in Attempt /\ q.step = "ending" /\ q.gateway = c.gateway
        /\ q.state = c.state /\ q.cancelSet = c.cancelSet /\ q.owned = c.owned
        /\ q.open = c.open /\ q.quota = c.quota /\ q.slot = c.slot
        /\ q.session = c.session /\ q.failed = c.failed /\ q.acked = c.acked
        /\ q.ran = c.ran /\ q.told = c.told
    BY <2>2 DEF Attempt, To
  <2> HIDE DEF q
  <2>4. JobTo(p, q)
    BY <1>1, <1>2, <2>1, <2>2, <2>3 DEF JobInv, JobTo, Lasting, After, IsSet
  <2>5. QED
    BY <2>1, <2>4
<1>3. CASE ~(IsSet(p) \/ ~rowLive)
  <2> DEFINE q == To(p, "committing")
  <2>1. p.step = "checking" /\ rowLive /\ JobIs(r, q)
    BY <1>3 DEF CheckSocket
  <2>2. /\ q \in Attempt /\ q.step = "committing" /\ q.gateway = p.gateway
        /\ q.state = p.state /\ q.cancelSet = p.cancelSet /\ q.owned = p.owned
        /\ q.open = p.open /\ q.quota = p.quota /\ q.slot = p.slot
        /\ q.session = p.session /\ q.failed = p.failed /\ q.acked = p.acked
        /\ q.ran = p.ran /\ q.told = p.told
    BY <1>1 DEF Attempt, To
  <2> HIDE DEF q
  <2>3. JobTo(p, q)
    BY <1>1, <1>3, <2>1, <2>2 DEF JobInv, JobTo, Lasting, After, IsSet
  <2>4. QED
    BY <2>1, <2>3
<1>4. QED
  BY <1>2, <1>3

LEMMA CommittedMoves ==
    ASSUME NEW r \in Requests, JobInv(job[r]), Commit(r)
    PROVE  \E q : JobIs(r, q) /\ JobTo(job[r], q)
<1> DEFINE p == job[r]
           j == CommitIfActive(p)
<1>1. p.step = "committing" /\ JobInv(j) /\ j \in Attempt /\ j.step = p.step /\ j.session = p.session
  <2>1. j.step = "committing" /\ (j = p \/ j = [p EXCEPT !.state = "committed"]) /\ p \in Attempt
    BY DEF Commit, CommitIfActive, JobInv
  <2>2. p.step = "committing"
    BY <2>1 DEF Attempt
  <2>3. QED
    BY <2>2, CommitMoves
<1>2. CASE IsSet(j) \/ j.state # "committed"
  <2> DEFINE c == ClosedSession(j)
             q == To(c, "ending")
  <2>1. JobIs(r, q)
    BY <1>2 DEF Commit
  <2> HIDE DEF j
  <2>2. /\ c \in Attempt /\ c.step = j.step /\ c.gateway = j.gateway
        /\ c.state = j.state /\ c.cancelSet = j.cancelSet /\ c.owned = j.owned
        /\ c.open = FALSE /\ c.quota = FALSE /\ c.slot = j.slot /\ c.session = FALSE
        /\ c.failed = j.failed /\ c.acked = j.acked /\ c.ran = j.ran
        /\ c.told = j.told
    BY <1>1, ClosedIs DEF After
  <2> HIDE DEF c
  <2>3. /\ q \in Attempt /\ q.step = "ending" /\ q.gateway = c.gateway
        /\ q.state = c.state /\ q.cancelSet = c.cancelSet /\ q.owned = c.owned
        /\ q.open = c.open /\ q.quota = c.quota /\ q.slot = c.slot
        /\ q.session = c.session /\ q.failed = c.failed /\ q.acked = c.acked
        /\ q.ran = c.ran /\ q.told = c.told
    BY <2>2 DEF Attempt, To
  <2> HIDE DEF q
  <2>4. JobTo(p, q)
    BY <1>1, <2>2, <2>3 DEF JobInv, JobTo, Lasting, After
  <2>5. QED
    BY <2>1, <2>4
<1>3. CASE ~(IsSet(j) \/ j.state # "committed")
  <2> DEFINE q == To(j, "announcing")
  <2>1. JobIs(r, q)
    BY <1>3 DEF Commit
  <2> HIDE DEF j
  <2>2. /\ q \in Attempt /\ q.step = "announcing" /\ q.gateway = j.gateway
        /\ q.state = j.state /\ q.cancelSet = j.cancelSet /\ q.owned = j.owned
        /\ q.open = j.open /\ q.quota = j.quota /\ q.slot = j.slot
        /\ q.session = j.session /\ q.failed = j.failed /\ q.acked = j.acked
        /\ q.ran = j.ran /\ q.told = j.told
    BY <1>1 DEF Attempt, To
  <2> HIDE DEF q
  <2>3. JobTo(p, q)
    BY <1>1, <1>3, <2>2 DEF JobInv, JobTo, Lasting, After
  <2>4. QED
    BY <2>1, <2>3
<1>4. QED
  BY <1>2, <1>3

LEMMA AnnounceMoves ==
    ASSUME NEW r \in Requests, JobInv(job[r]), Announce(r)
    PROVE  \E q : JobIs(r, q) /\ JobTo(job[r], q)
<1> DEFINE p == job[r]
<1>1. p \in Attempt /\ JobInv(p)
  BY DEF JobInv
<1>2. CASE p.session
  <2> DEFINE q == [To(p, "ending") EXCEPT !.told = "connected"]
  <2>1. p.step = "announcing" /\ JobIs(r, q)
    BY <1>2 DEF Announce
  <2>2. /\ q \in Attempt /\ q.step = "ending" /\ q.gateway = p.gateway
        /\ q.state = p.state /\ q.cancelSet = p.cancelSet /\ q.owned = p.owned
        /\ q.open = p.open /\ q.quota = p.quota /\ q.slot = p.slot
        /\ q.session = p.session /\ q.failed = p.failed /\ q.acked = p.acked
        /\ q.ran = p.ran /\ q.told = "connected"
    BY <1>1 DEF Attempt, To
  <2> HIDE DEF q
  <2>3. JobTo(p, q)
    BY <1>1, <1>2, <2>1, <2>2 DEF JobInv, JobTo, Lasting, After, IsSet
  <2>4. QED
    BY <2>1, <2>3
<1>3. CASE ~p.session
  <2> DEFINE q == [To(p, "ending") EXCEPT !.told = "error"]
  <2>1. p.step = "announcing" /\ JobIs(r, q)
    BY <1>3 DEF Announce
  <2>2. /\ q \in Attempt /\ q.step = "ending" /\ q.gateway = p.gateway
        /\ q.state = p.state /\ q.cancelSet = p.cancelSet /\ q.owned = p.owned
        /\ q.open = p.open /\ q.quota = p.quota /\ q.slot = p.slot
        /\ q.session = p.session /\ q.failed = p.failed /\ q.acked = p.acked
        /\ q.ran = p.ran /\ q.told = "error"
    BY <1>1 DEF Attempt, To
  <2> HIDE DEF q
  <2>3. JobTo(p, q)
    BY <1>1, <1>3, <2>1, <2>2 DEF JobInv, JobTo, Lasting, After, IsSet
  <2>4. QED
    BY <2>1, <2>3
<1>4. QED
  BY <1>2, <1>3

\* What finish leaves of an attempt whose resources are with its session.
LEMMA FinishedIs ==
    ASSUME NEW j, JobInv(j), j.step \in {"created", "ending"}
    PROVE  LET q == FinishedJob(j) IN
           /\ q \in Attempt /\ q.step = j.step /\ q.gateway = j.gateway
           /\ q.state = "finished" /\ q.owned = FALSE /\ q.quota = j.quota
           /\ q.slot = FALSE /\ q.session = j.session /\ q.failed = j.failed
           /\ q.acked = j.acked /\ q.ran = j.ran /\ q.told = j.told
           /\ (j.cancelSet => q.cancelSet) /\ (q.open <=> j.open /\ ~j.owned)
<1>1. j \in Attempt
  BY DEF JobInv
<1>2. CASE j.gateway
  <2> DEFINE c == Stopped(j)
             q == [c EXCEPT !.state = "finished", !.slot = FALSE]
  <2>1. FinishedJob(j) = q
    BY <1>2 DEF FinishedJob
  <2>2. /\ c \in Attempt /\ c.step = j.step /\ c.gateway = j.gateway
        /\ c.cancelSet = TRUE /\ c.owned = FALSE /\ c.quota = j.quota
        /\ c.slot = j.slot /\ c.session = j.session /\ c.failed = j.failed
        /\ c.acked = j.acked /\ c.ran = j.ran /\ c.told = j.told
        /\ c.open <=> (j.open /\ ~j.owned)
    BY <1>1, StoppedIs
  <2> HIDE DEF c
  <2>3. /\ q \in Attempt /\ q.step = c.step /\ q.gateway = c.gateway
        /\ q.state = "finished" /\ q.cancelSet = c.cancelSet /\ q.owned = c.owned
        /\ q.open = c.open /\ q.quota = c.quota /\ q.slot = FALSE
        /\ q.session = c.session /\ q.failed = c.failed /\ q.acked = c.acked
        /\ q.ran = c.ran /\ q.told = c.told
    BY <2>2 DEF Attempt
  <2> HIDE DEF q
  <2>4. QED
    BY <2>1, <2>2, <2>3
<1>3. CASE ~j.gateway
  <2> DEFINE q == [j EXCEPT !.state = "finished"]
  <2>1. FinishedJob(j) = q
    BY <1>3 DEF FinishedJob
  <2>2. /\ q \in Attempt /\ q.step = j.step /\ q.gateway = j.gateway
        /\ q.state = "finished" /\ q.cancelSet = j.cancelSet /\ q.owned = j.owned
        /\ q.open = j.open /\ q.quota = j.quota /\ q.slot = j.slot
        /\ q.session = j.session /\ q.failed = j.failed /\ q.acked = j.acked
        /\ q.ran = j.ran /\ q.told = j.told
    BY <1>1 DEF Attempt
  <2>3. j.slot = FALSE /\ j.owned = FALSE
    BY <1>1, <1>3 DEF JobInv, Attempt
  <2> HIDE DEF q
  <2>4. QED
    BY <2>1, <2>2, <2>3
<1>4. QED
  BY <1>2, <1>3

LEMMA FinishMoves ==
    ASSUME NEW r \in Requests, JobInv(job[r]), FinishAttempt(r)
    PROVE  \E q : JobIs(r, q) /\ JobTo(job[r], q)
<1> DEFINE p == job[r]
           c == FinishedJob(p)
           q == To(c, "finished")
<1>1. p.step = "ending" /\ JobIs(r, q) /\ p \in Attempt /\ JobInv(p)
  BY DEF FinishAttempt, JobInv
<1>2. /\ c \in Attempt /\ c.step = p.step /\ c.gateway = p.gateway
      /\ c.state = "finished" /\ c.owned = FALSE /\ c.quota = p.quota
      /\ c.slot = FALSE /\ c.session = p.session /\ c.failed = p.failed
      /\ c.acked = p.acked /\ c.ran = p.ran /\ c.told = p.told
      /\ (p.cancelSet => c.cancelSet) /\ (c.open <=> p.open /\ ~p.owned)
  BY <1>1, FinishedIs
<1> HIDE DEF c
<1>3. /\ q \in Attempt /\ q.step = "finished" /\ q.gateway = c.gateway
      /\ q.state = c.state /\ q.cancelSet = c.cancelSet /\ q.owned = c.owned
      /\ q.open = c.open /\ q.quota = c.quota /\ q.slot = c.slot
      /\ q.session = c.session /\ q.failed = c.failed /\ q.acked = c.acked
      /\ q.ran = c.ran /\ q.told = c.told
  BY <1>2 DEF Attempt, To
<1> HIDE DEF q
<1>4. JobTo(p, q)
  BY <1>1, <1>2, <1>3 DEF JobInv, JobTo, Lasting, After
<1>5. QED
  BY <1>1, <1>4

LEMMA ExpireMoves ==
    ASSUME NEW r \in Requests, JobInv(job[r]), GatewayExpires(r)
    PROVE  \E q : JobIs(r, q) /\ JobTo(job[r], q)
<1> DEFINE p == job[r]
<1>1. p \in Attempt /\ JobInv(p)
  BY DEF JobInv
<1> DEFINE q == [p EXCEPT !.late = TRUE]
<1>2. TRUE /\ JobIs(r, q)
  BY DEF GatewayExpires
<1>3. /\ q \in Attempt /\ q.step = p.step /\ q.gateway = p.gateway
      /\ q.state = p.state /\ q.cancelSet = p.cancelSet /\ q.owned = p.owned
      /\ q.open = p.open /\ q.quota = p.quota /\ q.slot = p.slot
      /\ q.session = p.session /\ q.failed = p.failed /\ q.acked = p.acked
      /\ q.ran = p.ran /\ q.told = p.told
  BY <1>1 DEF Attempt, To
<1> HIDE DEF q
<1>4. JobTo(p, q)
  BY <1>1, <1>2, <1>3 DEF JobInv, JobTo, Lasting, After, IsSet
<1>5. QED
  BY <1>2, <1>4

LEMMA GuardMoves ==
    ASSUME NEW r \in Requests, JobInv(job[r]), GuardFires(r)
    PROVE  \E q : JobIs(r, q) /\ JobTo(job[r], q)
<1>1. JobIs(r, Stopped(job[r])) /\ job[r].state # "finished"
  BY DEF GuardFires
<1>2. QED
  BY <1>1, StoppedMoves

LEMMA CancelMoves ==
    ASSUME NEW r \in Requests, JobInv(job[r]), UserCancels(r)
    PROVE  \E q : JobIs(r, q) /\ JobTo(job[r], q)
<1> DEFINE p == job[r]
           c == Cancelled(p)
           q == [c EXCEPT !.acked = TRUE]
<1>1. p \in Attempt /\ JobInv(p) /\ JobIs(r, q) /\ p.state \notin {"committed", "finished"}
  BY DEF UserCancels, JobInv
<1>2. /\ c \in Attempt /\ c.step = p.step /\ c.gateway = p.gateway
      /\ c.state = "cancelled" /\ c.cancelSet = TRUE /\ c.quota = p.quota
      /\ c.slot = p.slot /\ c.session = p.session /\ c.failed = p.failed
      /\ c.acked = p.acked /\ c.ran = p.ran /\ c.told = p.told
      /\ (c.open <=> p.open /\ ~p.owned) /\ (c.owned => p.owned)
  <2>1. CASE p.gateway
    <3>1. c = Stopped(p)
      BY <2>1 DEF Cancelled
    <3> HIDE DEF c
    <3>2. /\ c \in Attempt /\ c.step = p.step /\ c.gateway = p.gateway
          /\ c.state = (IF p.state = "committed" THEN "committed" ELSE "cancelled")
          /\ c.cancelSet = TRUE /\ c.owned = FALSE /\ c.quota = p.quota
          /\ c.slot = p.slot /\ c.session = p.session /\ c.failed = p.failed
          /\ c.acked = p.acked /\ c.ran = p.ran /\ c.told = p.told
          /\ c.open <=> (p.open /\ ~p.owned)
      BY <1>1, <3>1, StoppedIs
    <3>3. QED
      BY <1>1, <3>2
  <2>2. CASE ~p.gateway
    <3> DEFINE f == Forced(p)
    <3>1. c = [f EXCEPT !.state = "cancelled"]
      BY <2>2 DEF Cancelled
    <3>2. /\ f \in Attempt /\ f.step = p.step /\ f.gateway = p.gateway
          /\ f.state = p.state /\ f.cancelSet = TRUE /\ f.owned = p.owned
          /\ f.open = p.open /\ f.quota = p.quota /\ f.slot = p.slot
          /\ f.session = p.session /\ f.failed = p.failed /\ f.acked = p.acked
          /\ f.ran = p.ran /\ f.told = p.told
      BY <1>1, ForcedIs
    <3> HIDE DEF f, c
    <3>3. /\ c \in Attempt /\ c.step = f.step /\ c.gateway = f.gateway
          /\ c.state = "cancelled" /\ c.cancelSet = f.cancelSet /\ c.owned = f.owned
          /\ c.open = f.open /\ c.quota = f.quota /\ c.slot = f.slot
          /\ c.session = f.session /\ c.failed = f.failed /\ c.acked = f.acked
          /\ c.ran = f.ran /\ c.told = f.told
      BY <3>1, <3>2 DEF Attempt
    <3>4. ~p.owned
      BY <1>1, <2>2 DEF JobInv
    <3>5. QED
      BY <3>2, <3>3, <3>4
  <2>3. QED
    BY <2>1, <2>2
<1> HIDE DEF c
<1>3. /\ q \in Attempt /\ q.step = c.step /\ q.gateway = c.gateway
      /\ q.state = c.state /\ q.cancelSet = c.cancelSet /\ q.owned = c.owned
      /\ q.open = c.open /\ q.quota = c.quota /\ q.slot = c.slot
      /\ q.session = c.session /\ q.failed = c.failed /\ q.acked = TRUE
      /\ q.ran = c.ran /\ q.told = c.told
  BY <1>2 DEF Attempt
<1> HIDE DEF q
<1>4. JobTo(p, q)
  BY <1>1, <1>2, <1>3 DEF JobInv, JobTo, Lasting, After
<1>5. QED
  BY <1>1, <1>4

----------------------------------------------------------------------------
(* The whole.                                                              *)

\* One attempt moves; who lists it knows that it has begun and has not ended.
LEMMA OneMoves ==
    ASSUME JobsInv, NEW r \in Requests, NEW q, job' = [job EXCEPT ![r] = q],
           UNCHANGED <<rowLive, leaving, ending, shutdown>>,
           JobInv(q), Lasting(q) => Lasting(job[r]) \/ rowLive,
           listed' \subseteq listed \cup {r},
           r \in listed' => q.step \notin {"none", "asked", "done"}
    PROVE  JobsInv'
<1>1. job'[r] = q /\ q \in Attempt /\ \A x \in Requests \ {r} : job'[x] = job[x]
  BY DEF JobsInv, JobInv
<1>2. job' \in [Requests -> Attempt] /\ \A x \in Requests : JobInv(job'[x])
  BY <1>1 DEF JobsInv
<1>3. listed' \subseteq Requests /\ \A x \in listed' : job'[x].step \notin {"none", "asked", "done"}
  BY <1>1 DEF JobsInv
<1>4. ending.step \in {"closing", "returned"} => \A x \in Requests : Lasting(job'[x]) => x \in ending.todo
  BY <1>1 DEF JobsInv
<1>5. QED
  BY <1>2, <1>3, <1>4 DEF JobsInv

LEMMA MovesKeep ==
    ASSUME JobsInv, NEW r \in Requests, NEW q, JobIs(r, q), JobTo(job[r], q)
    PROVE  JobsInv'
<1>1. /\ job' = [job EXCEPT ![r] = q] /\ listed' = listed
      /\ UNCHANGED <<rowLive, leaving, ending, shutdown>>
  BY DEF JobIs
<1>2. JobInv(q) /\ (Lasting(q) => Lasting(job[r]) \/ rowLive)
  BY DEF JobTo
<1>3. r \in listed' => q.step \notin {"none", "asked", "done"}
  BY <1>1 DEF JobTo, JobsInv
<1>4. QED
  BY <1>1, <1>2, <1>3, OneMoves

LEMMA CreateKeeps ==
    ASSUME JobsInv, NEW r \in Requests, CreateAttempt(r)
    PROVE  JobsInv'
<1> DEFINE p == job[r]
           q == [p EXCEPT !.step = "created", !.slot = p.gateway]
<1>1. /\ p.step = "asked" /\ p \in Attempt /\ JobInv(p) /\ listed' = listed \cup {r}
      /\ job' = [job EXCEPT ![r] = q] /\ UNCHANGED <<rowLive, leaving, ending, shutdown>>
  <2>1. job' = [job EXCEPT ![r].step = "created", ![r].slot = p.gateway] /\ job \in [Requests -> Attempt]
    BY DEF CreateAttempt, JobsInv
  <2>2. job' = [job EXCEPT ![r] = q]
    BY <2>1
  <2>3. QED
    BY <2>2 DEF CreateAttempt, JobsInv
<1>2. /\ q \in Attempt /\ q.step = "created" /\ q.gateway = p.gateway
      /\ q.state = p.state /\ q.cancelSet = p.cancelSet /\ q.owned = p.owned
      /\ q.open = p.open /\ q.quota = p.quota /\ q.slot = p.gateway
      /\ q.session = p.session /\ q.failed = p.failed /\ q.acked = p.acked
      /\ q.ran = p.ran /\ q.told = p.told
  BY <1>1 DEF Attempt
<1> HIDE DEF q
<1>3. JobInv(q) /\ ~Lasting(q)
  BY <1>1, <1>2 DEF JobInv, Lasting, After
<1>4. QED
  BY <1>1, <1>2, <1>3, OneMoves

LEMMA StartKeeps ==
    ASSUME JobsInv, NEW r \in Requests, StartJob(r)
    PROVE  JobsInv'
<1> DEFINE p == job[r]
<1>1. p.step = "created" /\ p \in Attempt /\ JobInv(p) /\ UNCHANGED <<rowLive, leaving, ending, shutdown>>
  BY DEF StartJob, JobsInv
<1>2. CASE shutdown = "no"
  <2> DEFINE q == [p EXCEPT !.step = "queued"]
  <2>1. job' = [job EXCEPT ![r] = q] /\ listed' = listed
    BY <1>2 DEF StartJob
  <2>2. /\ q \in Attempt /\ q.step = "queued" /\ q.gateway = p.gateway
        /\ q.state = p.state /\ q.cancelSet = p.cancelSet /\ q.owned = p.owned
        /\ q.open = p.open /\ q.quota = p.quota /\ q.slot = p.slot
        /\ q.session = p.session /\ q.failed = p.failed /\ q.acked = p.acked
        /\ q.ran = p.ran /\ q.told = p.told
    BY <1>1 DEF Attempt
  <2> HIDE DEF q
  <2>3. JobInv(q) /\ ~Lasting(q)
    BY <1>1, <2>2 DEF JobInv, Lasting, After
  <2>4. QED
    BY <1>1, <2>1, <2>2, <2>3, OneMoves
<1>3. CASE shutdown # "no"
  <2> DEFINE c == FinishedJob(p)
             q == [c EXCEPT !.step = "done", !.told = "error", !.held = TRUE]
  <2>1. job' = [job EXCEPT ![r] = q] /\ listed' = listed \ {r}
    BY <1>3 DEF StartJob
  <2>2. /\ c \in Attempt /\ c.step = p.step /\ c.gateway = p.gateway
        /\ c.state = "finished" /\ c.owned = FALSE /\ c.quota = p.quota
        /\ c.slot = FALSE /\ c.session = p.session /\ c.failed = p.failed
        /\ c.acked = p.acked /\ c.ran = p.ran /\ c.told = p.told
        /\ (p.cancelSet => c.cancelSet) /\ (c.open <=> p.open /\ ~p.owned)
    BY <1>1, FinishedIs
  <2> HIDE DEF c
  <2>3. /\ q \in Attempt /\ q.step = "done" /\ q.gateway = c.gateway
        /\ q.state = c.state /\ q.cancelSet = c.cancelSet /\ q.owned = c.owned
        /\ q.open = c.open /\ q.quota = c.quota /\ q.slot = c.slot
        /\ q.session = c.session /\ q.failed = c.failed /\ q.acked = c.acked
        /\ q.ran = c.ran /\ q.told = "error"
    BY <2>2 DEF Attempt
  <2> HIDE DEF q
  <2>4. JobInv(q) /\ ~Lasting(q)
    BY <1>1, <2>2, <2>3 DEF JobInv, Lasting, After
  <2>5. QED
    BY <1>1, <2>1, <2>4, OneMoves
<1>4. QED
  BY <1>2, <1>3

LEMMA UnlistKeeps ==
    ASSUME JobsInv, NEW r \in Requests, Unlist(r)
    PROVE  JobsInv'
<1> DEFINE p == job[r]
           q == [p EXCEPT !.step = "done"]
<1>1. /\ p.step = "finished" /\ p \in Attempt /\ JobInv(p) /\ listed' = listed \ {r}
      /\ job' = [job EXCEPT ![r] = q] /\ UNCHANGED <<rowLive, leaving, ending, shutdown>>
  BY DEF Unlist, JobsInv
<1>2. /\ q \in Attempt /\ q.step = "done" /\ q.gateway = p.gateway
      /\ q.state = p.state /\ q.cancelSet = p.cancelSet /\ q.owned = p.owned
      /\ q.open = p.open /\ q.quota = p.quota /\ q.slot = p.slot
      /\ q.session = p.session /\ q.failed = p.failed /\ q.acked = p.acked
      /\ q.ran = p.ran /\ q.told = p.told
  BY <1>1 DEF Attempt
<1> HIDE DEF q
<1>3. JobInv(q) /\ (Lasting(q) => Lasting(p))
  BY <1>1, <1>2 DEF JobInv, Lasting, After
<1>4. QED
  BY <1>1, <1>3, OneMoves

\* All attempts are signalled or stopped at once.
LEMMA AllMove ==
    ASSUME JobsInv, NEW f, job' = [r \in Requests |-> f[r]],
           \A r \in Requests : JobTo(job[r], f[r]) /\ f[r].step = job[r].step /\ f[r].session = job[r].session,
           UNCHANGED <<listed, rowLive, ending>>
    PROVE  /\ job' \in [Requests -> Attempt] /\ \A r \in Requests : JobInv(job'[r])
           /\ listed' \subseteq Requests /\ \A r \in listed' : job'[r].step \notin {"none", "asked", "done"}
           /\ \A r \in Requests : Lasting(job'[r]) <=> Lasting(job[r])
<1>1. \A r \in Requests : job'[r] = f[r] /\ JobInv(f[r]) /\ f[r] \in Attempt
  BY DEF JobTo, JobInv
<1>2. job' \in [Requests -> Attempt]
  BY <1>1
<1>3. \A r \in Requests : Lasting(job'[r]) <=> Lasting(job[r])
  BY <1>1 DEF Lasting
<1>4. \A r \in listed' : job'[r].step \notin {"none", "asked", "done"}
  BY <1>1 DEF JobsInv
<1>5. QED
  BY <1>1, <1>2, <1>3, <1>4 DEF JobsInv

LEMMA CancelDirectKeeps == ASSUME JobsInv, CancelDirect PROVE JobsInv'
<1> DEFINE f == [r \in Requests |-> IF r \in listed /\ ~job[r].gateway THEN Forced(job[r]) ELSE job[r]]
<1>1. /\ job' = [r \in Requests |-> f[r]] /\ leaving' = [leaving EXCEPT !.step = "registry"]
      /\ UNCHANGED <<listed, rowLive, ending, shutdown>>
  BY DEF CancelDirect
<1>2. ASSUME NEW r \in Requests
      PROVE  JobTo(job[r], f[r]) /\ f[r].step = job[r].step /\ f[r].session = job[r].session
  <2>1. JobInv(job[r]) /\ JobTo(job[r], job[r])
    BY DEF JobsInv, JobTo
  <2>2. QED
    BY <2>1, ForcedMoves
<1> HIDE DEF f
<1>3. /\ job' \in [Requests -> Attempt] /\ \A r \in Requests : JobInv(job'[r])
      /\ listed' \subseteq Requests /\ \A r \in listed' : job'[r].step \notin {"none", "asked", "done"}
      /\ \A r \in Requests : Lasting(job'[r]) <=> Lasting(job[r])
  BY <1>1, <1>2, AllMove
<1>4. /\ leaving' \in [step : {"none", "attempts", "registry", "row", "left"}, revoked : BOOLEAN]
      /\ leaving'.step # "left"
  BY <1>1 DEF JobsInv
<1>5. QED
  BY <1>1, <1>3, <1>4 DEF JobsInv

\* SSHAttemptRegistry stops the attempts that it lists.
LEMMA StopAll ==
    ASSUME JobsInv, NEW r \in Requests
    PROVE  LET q == IF r \in listed /\ job[r].gateway /\ job[r].state # "finished"
                    THEN Stopped(job[r]) ELSE job[r]
           IN  JobTo(job[r], q) /\ q.step = job[r].step /\ q.session = job[r].session
<1>1. JobInv(job[r]) /\ JobTo(job[r], job[r])
  BY DEF JobsInv, JobTo
<1>2. QED
  BY <1>1, StoppedMoves

LEMMA CancelGatewaysKeeps == ASSUME JobsInv, CancelGateways PROVE JobsInv'
<1> DEFINE f == [r \in Requests |-> IF r \in listed /\ job[r].gateway /\ job[r].state # "finished"
                                    THEN Stopped(job[r]) ELSE job[r]]
<1>1. /\ job' = [r \in Requests |-> f[r]] /\ leaving' = [leaving EXCEPT !.step = "row"]
      /\ UNCHANGED <<listed, rowLive, ending, shutdown>>
  BY DEF CancelGateways
<1>2. \A r \in Requests : /\ JobTo(job[r], f[r]) /\ f[r].step = job[r].step
                          /\ f[r].session = job[r].session
  BY StopAll
<1> HIDE DEF f
<1>3. /\ job' \in [Requests -> Attempt] /\ \A r \in Requests : JobInv(job'[r])
      /\ listed' \subseteq Requests /\ \A r \in listed' : job'[r].step \notin {"none", "asked", "done"}
      /\ \A r \in Requests : Lasting(job'[r]) <=> Lasting(job[r])
  BY <1>1, <1>2, AllMove
<1>4. /\ leaving' \in [step : {"none", "attempts", "registry", "row", "left"}, revoked : BOOLEAN]
      /\ leaving'.step # "left"
  BY <1>1 DEF JobsInv
<1>5. QED
  BY <1>1, <1>3, <1>4 DEF JobsInv

LEMMA StopRegistryKeeps == ASSUME JobsInv, StopRegistry PROVE JobsInv'
<1> DEFINE f == [r \in Requests |-> IF r \in listed /\ job[r].gateway /\ job[r].state # "finished"
                                    THEN Stopped(job[r]) ELSE job[r]]
<1>1. /\ job' = [r \in Requests |-> f[r]] /\ shutdown' = "stopped"
      /\ UNCHANGED <<listed, rowLive, leaving, ending>>
  BY DEF StopRegistry
<1>2. \A r \in Requests : /\ JobTo(job[r], f[r]) /\ f[r].step = job[r].step
                          /\ f[r].session = job[r].session
  BY StopAll
<1> HIDE DEF f
<1>3. /\ job' \in [Requests -> Attempt] /\ \A r \in Requests : JobInv(job'[r])
      /\ listed' \subseteq Requests /\ \A r \in listed' : job'[r].step \notin {"none", "asked", "done"}
      /\ \A r \in Requests : Lasting(job'[r]) <=> Lasting(job[r])
  BY <1>1, <1>2, AllMove
<1>4. QED
  BY <1>1, <1>3 DEF JobsInv

LEMMA SignalKeeps == ASSUME JobsInv, SignalShutdown PROVE JobsInv'
<1> DEFINE f == [r \in Requests |-> IF job[r].step \in {"none", "asked", "created", "done"} THEN job[r]
                                    ELSE [job[r] EXCEPT !.runtimeSet = TRUE]]
<1>1. /\ job' = [r \in Requests |-> f[r]] /\ shutdown' = "signalled"
      /\ UNCHANGED <<listed, rowLive, leaving, ending>>
  BY DEF SignalShutdown
<1>2. ASSUME NEW r \in Requests
      PROVE  JobTo(job[r], f[r]) /\ f[r].step = job[r].step /\ f[r].session = job[r].session
  <2> DEFINE p == job[r]
             q == [p EXCEPT !.runtimeSet = TRUE]
  <2>1. p \in Attempt /\ JobInv(p) /\ JobTo(p, p) /\ (f[r] = p \/ f[r] = q)
    BY DEF JobsInv, JobTo
  <2>2. /\ q \in Attempt /\ q.step = p.step /\ q.gateway = p.gateway
        /\ q.state = p.state /\ q.cancelSet = p.cancelSet /\ q.owned = p.owned
        /\ q.open = p.open /\ q.quota = p.quota /\ q.slot = p.slot
        /\ q.session = p.session /\ q.failed = p.failed /\ q.acked = p.acked
        /\ q.ran = p.ran /\ q.told = p.told
    BY <2>1 DEF Attempt
  <2> HIDE DEF q
  <2>3. JobTo(p, q)
    BY <2>1, <2>2 DEF JobInv, JobTo, Lasting, After
  <2>4. QED
    BY <2>1, <2>2, <2>3
<1> HIDE DEF f
<1>3. /\ job' \in [Requests -> Attempt] /\ \A r \in Requests : JobInv(job'[r])
      /\ listed' \subseteq Requests /\ \A r \in listed' : job'[r].step \notin {"none", "asked", "done"}
      /\ \A r \in Requests : Lasting(job'[r]) <=> Lasting(job[r])
  BY <1>1, <1>2, AllMove
<1>4. QED
  BY <1>1, <1>3 DEF JobsInv

\* The disconnect and the revocation go on; no attempt changes.
LEMMA EndsKeep ==
    ASSUME JobsInv, ClientGoes \/ DeleteRow \/ RevokeAccount \/ ListSessions
    PROVE  JobsInv'
<1> DEFINE Steps == {"none", "attempts", "registry", "row", "left"}
<1>1. UNCHANGED <<job, listed, shutdown>>
  BY DEF ClientGoes, DeleteRow, RevokeAccount, ListSessions
<1>2. CASE ClientGoes
  <2>1. leaving' \in [step : Steps, revoked : BOOLEAN] /\ leaving'.step = "attempts" /\ UNCHANGED <<rowLive, ending>>
    BY <1>2 DEF ClientGoes, JobsInv
  <2>2. QED
    BY <1>1, <2>1 DEF JobsInv
<1>3. CASE DeleteRow
  <2>1. leaving' \in [step : Steps, revoked : BOOLEAN] /\ rowLive' = FALSE /\ UNCHANGED ending
    BY <1>3 DEF DeleteRow, JobsInv
  <2>2. QED
    BY <1>1, <2>1 DEF JobsInv
<1>4. CASE RevokeAccount
  <2>1. /\ leaving' \in [step : Steps, revoked : BOOLEAN] /\ rowLive' = rowLive
        /\ leaving'.step = "left" => leaving.step = "left"
    BY <1>4 DEF RevokeAccount, JobsInv
  <2>2. /\ ending' \in [step : {"none", "socket", "sessions", "closing", "returned"}, todo : SUBSET Requests]
        /\ ending'.step = "socket"
    BY <1>4 DEF RevokeAccount, JobsInv
  <2>3. QED
    BY <1>1, <2>1, <2>2 DEF JobsInv
<1>5. CASE ListSessions
  <2>1. /\ ending' \in [step : {"none", "socket", "sessions", "closing", "returned"}, todo : SUBSET Requests]
        /\ ending'.step = "closing" /\ ending'.todo = {r \in Requests : job[r].session}
        /\ leaving.step = "left" /\ UNCHANGED <<leaving, rowLive>>
    BY <1>5 DEF ListSessions, JobsInv
  <2>2. QED
    BY <1>1, <2>1 DEF JobsInv, Lasting
<1>6. QED
  BY <1>2, <1>3, <1>4, <1>5

LEMMA CloseListedKeeps == ASSUME JobsInv, CloseListed PROVE JobsInv'
<1>1. ending.step = "closing" /\ UNCHANGED <<listed, rowLive, leaving, shutdown>> /\ ~rowLive
  BY DEF CloseListed, JobsInv
<1>2. CASE ending.todo = {} /\ ending' = [ending EXCEPT !.step = "returned"] /\ UNCHANGED job
  <2>1. /\ ending' \in [step : {"none", "socket", "sessions", "closing", "returned"}, todo : SUBSET Requests]
        /\ ending'.step = "returned" /\ ending'.todo = ending.todo
    BY <1>2 DEF JobsInv
  <2>2. QED
    BY <1>1, <1>2, <2>1 DEF JobsInv
<1>3. ASSUME NEW r \in ending.todo, job' = [job EXCEPT ![r] = ClosedSession(job[r])],
             ending' = [ending EXCEPT !.todo = @ \ {r}]
      PROVE  JobsInv'
  <2> DEFINE p == job[r]
             q == ClosedSession(p)
  <2>1. r \in Requests /\ p \in Attempt /\ JobInv(p)
    BY <1>3 DEF JobsInv
  <2>2. JobInv(q) /\ ~Lasting(q) /\ q.step = p.step
    <3>1. CASE p.step \in After
      <4>1. /\ q \in Attempt /\ q.step = p.step /\ q.gateway = p.gateway
            /\ q.state = p.state /\ q.cancelSet = p.cancelSet /\ q.owned = p.owned
            /\ q.open = FALSE /\ q.quota = FALSE /\ q.slot = p.slot
            /\ q.session = FALSE /\ q.failed = p.failed /\ q.acked = p.acked
            /\ q.ran = p.ran /\ q.told = p.told
        BY <2>1, <3>1, ClosedIs
      <4> HIDE DEF q
      <4>2. QED
        BY <2>1, <3>1, <4>1 DEF JobInv, After, Lasting
    <3>2. CASE p.step \notin After
      <4>1. ~p.session /\ q = p
        BY <2>1, <3>2 DEF JobInv, ClosedSession
      <4>2. QED
        BY <2>1, <4>1 DEF Lasting
    <3>3. QED
      BY <3>1, <3>2
  <2> HIDE DEF q
  <2>3. job'[r] = q /\ \A x \in Requests \ {r} : job'[x] = job[x]
    BY <1>3, <2>1 DEF JobsInv, q
  <2>4. /\ ending' \in [step : {"none", "socket", "sessions", "closing", "returned"}, todo : SUBSET Requests]
        /\ ending'.step = "closing" /\ ending'.todo = ending.todo \ {r}
    BY <1>1, <1>3 DEF JobsInv
  <2>5. job' \in [Requests -> Attempt] /\ \A x \in Requests : JobInv(job'[x])
    <3>1. q \in Attempt
      BY <2>2 DEF JobInv
    <3>2. QED
      BY <1>3, <2>2, <2>3, <3>1 DEF JobsInv, q
  <2>6. \A x \in Requests : Lasting(job'[x]) => x \in ending'.todo
    BY <1>1, <2>2, <2>3, <2>4 DEF JobsInv
  <2>7. \A x \in listed' : job'[x].step \notin {"none", "asked", "done"}
    BY <1>1, <2>2, <2>3 DEF JobsInv
  <2>8. QED
    BY <1>1, <2>4, <2>5, <2>6, <2>7 DEF JobsInv
<1>4. QED
  BY <1>2, <1>3 DEF CloseListed

LEMMA JobsStart == JobsInit => JobsInv
<1> SUFFICES ASSUME JobsInit PROVE JobsInv
  OBVIOUS
<1>1. JobInv(NoJob) /\ NoJob \in Attempt /\ ~Lasting(NoJob)
  BY DEF JobInv, NoJob, Attempt, Lasting, After
<1> HIDE DEF NoJob
<1>2. QED
  BY <1>1 DEF JobsInit, JobsInv

LEMMA JobsStep == JobsInv /\ [JobsNext]_jobVars => JobsInv'
<1> SUFFICES ASSUME JobsInv, [JobsNext]_jobVars PROVE JobsInv'
  OBVIOUS
<1>1. CASE UNCHANGED jobVars
  BY <1>1 DEF jobVars, JobsInv
<1>2. ASSUME NEW r \in Requests, Ask(r) \/ UserCancels(r) \/ GatewayExpires(r) \/ GuardFires(r)
      PROVE  JobsInv'
  <2>1. JobInv(job[r])
    BY DEF JobsInv
  <2>2. QED
    BY <1>2, <2>1, MovesKeep, AskMoves, CancelMoves, ExpireMoves, GuardMoves
<1>3. ASSUME NEW r \in Requests, JobStep(r) PROVE JobsInv'
  <2>1. JobInv(job[r])
    BY DEF JobsInv
  <2>2. CASE CreateAttempt(r) \/ StartJob(r) \/ Unlist(r)
    BY <2>2, CreateKeeps, StartKeeps, UnlistKeeps
  <2>3. CASE RefuseAttempt(r) \/ AttachHandle(r) \/ BeginJob(r) \/ ReserveSession(r) \/ OpenResources(r)
    BY <2>1, <2>3, MovesKeep, RefuseMoves, AttachMoves, BeginMoves, ReserveMoves, OpenMoves
  <2>4. CASE \/ Connect(r) \/ StoreSession(r) \/ ReleaseResources(r) \/ StartReader(r)
             \/ LastLook(r) \/ SendStartup(r)
    BY <2>1, <2>4, MovesKeep, ConnectMoves, StoreMoves, ReleaseMoves, ReaderMoves, LastLookMoves, StartupMoves
  <2>5. CASE Returned(r) \/ CheckSocket(r) \/ Commit(r) \/ Announce(r) \/ FinishAttempt(r)
    BY <2>1, <2>5, MovesKeep, ReturnedMoves, CheckMoves, CommittedMoves, AnnounceMoves, FinishMoves
  <2>6. QED
    BY <1>3, <2>2, <2>3, <2>4, <2>5 DEF JobStep
<1>4. CASE ClientGoes \/ RevokeAccount \/ SignalShutdown \/ StopStep
  BY <1>4, EndsKeep, SignalKeeps, CancelDirectKeeps, CancelGatewaysKeeps, CloseListedKeeps, StopRegistryKeeps
  DEF StopStep
<1>5. QED
  BY <1>1, <1>2, <1>3, <1>4 DEF JobsNext

\* An acknowledged cancel is kept, a job that has ended has left nothing but a
\* session its browser knows of, and an account whose revocation has returned has
\* no session, however the cancel, the deadline, the disconnect, the revocation
\* and the shutdown meet the steps of the job.
THEOREM AttemptsAreSafe == JobsSpec => []AttemptSafe
<1>1. JobsSpec => []JobsInv
  BY JobsStart, JobsStep, PTL DEF JobsSpec
<1>2. JobsInv => AttemptSafe
  <2> SUFFICES ASSUME JobsInv PROVE AttemptSafe
    OBVIOUS
  <2>1. JobsTypeOK
    BY DEF JobsInv, JobsTypeOK
  <2>2. ASSUME NEW r \in Requests
        PROVE  /\ job[r].acked => /\ job[r].told # "connected" /\ ~job[r].ran
                                  /\ job[r].step = "done" => ~job[r].session
               /\ job[r].step = "done" =>
                    /\ r \notin listed /\ ~job[r].slot /\ ~job[r].owned
                    /\ job[r].open = job[r].session /\ job[r].quota = job[r].session
                    /\ job[r].session => job[r].told = "connected"
    <3>1. JobInv(job[r]) /\ (job[r].step = "done" => r \notin listed)
      BY DEF JobsInv
    <3>2. job[r].open \in BOOLEAN /\ job[r].session \in BOOLEAN /\ job[r].quota \in BOOLEAN
      BY <3>1 DEF JobInv, Attempt
    <3>3. job[r].step = "done" => job[r].open = job[r].session /\ job[r].quota = job[r].session
      BY <3>1, <3>2 DEF JobInv, After
    <3>4. QED
      BY <3>1, <3>3 DEF JobInv
  <2>3. RevokedHasNone
    BY DEF JobsInv, Lasting, RevokedHasNone
  <2>4. CancelIsKept /\ NothingLeaks
    BY <2>2 DEF CancelIsKept, NothingLeaks
  <2>5. QED
    BY <2>1, <2>3, <2>4 DEF AttemptSafe
<1>3. QED
  BY <1>1, <1>2, PTL

----------------------------------------------------------------------------
(* Temporary connections.  The invariant is pointwise, but for the drain   *)
(* and the limits: ConnInv relates the fields of one entry, Follows says   *)
(* what a step may do to it.  Every operation is shown once to keep both;  *)
(* the properties of the pool follow from them.                            *)


\* What each connection satisfies by itself.  Before it is stored nobody can
\* hold it or ask for its close.
ConnInv(r) ==
    /\ r \in Connection
    /\ r.phase # "none" => r.user \in Users
    /\ r.phase \in {"none", "admitted", "dialling"} =>
         r.count = 0 /\ r.holders = {} /\ ~r.closeReq
    /\ r.phase = "open" => r.count = Cardinality(r.holders)
    /\ (r.phase = "open" /\ r.closeReq) => r.count > 0
    /\ r.quota <=> r.phase \in {"dialling", "open", "detached"}

\* What a step may do to a connection without reserving its slot.
Follows(r, q) ==
    /\ q.quota => r.quota /\ q.user = r.user
    /\ q.phase = "open" => r.phase = "open" \/ (r.phase = "dialling" /\ accepting)

\* Its close, once asked for, is not withdrawn and gets no new holder.
KeepsClose(r, q) ==
    (r.phase = "open" /\ r.closeReq) => q.holders \subseteq r.holders /\ q.closeReq

ConnsInv == conn \in [Conns -> Connection] /\ \A c \in Conns : ConnInv(conn[c])

IInv ==
    /\ ConnsInv
    /\ accepting \in BOOLEAN
    /\ loop \in {"running", "cancelled", "ended"}
    /\ revoked \subseteq Users
    /\ loop # "running" => ~accepting
    /\ DrainedStaysEmpty
    /\ ConnectionsWithinLimits

----------------------------------------------------------------------------
(* The functions on single connections.                                    *)

\* Hold sets are finite, so their number is a natural number that changes by
\* one with one holder.
LEMMA HolderCount ==
    ASSUME NEW S \in SUBSET Holders
    PROVE  /\ Cardinality(S) \in Nat
           /\ \A h \in Holders : h \notin S => Cardinality(S \cup {h}) = Cardinality(S) + 1
           /\ \A h \in S : Cardinality(S) > 0 /\ Cardinality(S \ {h}) = Cardinality(S) - 1
  <1>1. IsFiniteSet(S)
    BY PoolFinite, FS_Subset
  <1>2. Cardinality(S) \in Nat
    BY <1>1, FS_CardinalityType
  <1>3. ASSUME NEW h \in S PROVE Cardinality(S) > 0 /\ Cardinality(S \ {h}) = Cardinality(S) - 1
    <2>1. S # {}
      BY <1>3
    <2>2. Cardinality(S) # 0
      BY <1>1, <2>1, FS_EmptySet
    <2>3. Cardinality(S \ {h}) = Cardinality(S) - 1
      BY <1>1, <1>3, FS_RemoveElement
    <2> QED BY <1>2, <2>2, <2>3
  <1> QED BY <1>1, <1>2, <1>3, FS_AddElement

\* release_hold keeps the invariant of its connection.
LEMMA ReleasedInv ==
    ASSUME NEW r, ConnInv(r), NEW h \in r.holders
    PROVE  LET q == ReleasedConnection(r, h)
           IN  ConnInv(q) /\ Follows(r, q) /\ KeepsClose(r, q)
  <1> DEFINE q == ReleasedConnection(r, h)
  <1>0. r \in Connection /\ r.holders \in SUBSET Holders /\ h \in Holders
    BY DEF ConnInv, Connection
  <1>1. CASE r.phase = "open" /\ r.count > 0
    <2> DEFINE phase == IF r.count = 1 /\ r.closeReq THEN "detached" ELSE "open"
    <2>a. q = [r EXCEPT !.count = r.count - 1, !.holders = r.holders \ {h}, !.phase = phase]
      BY <1>1 DEF ReleasedConnection
    <2>b. phase \in {"open", "detached"} /\ (phase = "open" => ~(r.count = 1 /\ r.closeReq))
      OBVIOUS
    <2>c. r.count \in Nat /\ r.count - 1 \in Nat /\ r.holders \ {h} \in SUBSET Holders
      BY <1>0, <1>1 DEF Connection
    <2> HIDE DEF phase
    <2>1. /\ q \in Connection
          /\ q.phase = phase /\ q.user = r.user /\ q.quota = r.quota
          /\ q.closeReq = r.closeReq /\ q.count = r.count - 1
          /\ q.holders = r.holders \ {h}
      BY <1>0, <2>a, <2>b, <2>c DEF Connection, Phases
    <2>2. r.count = Cardinality(r.holders) /\ Cardinality(r.holders \ {h}) = Cardinality(r.holders) - 1
      BY <1>0, <1>1, HolderCount DEF ConnInv
    <2>3. r.count \in Nat
      BY <1>0 DEF Connection
    <2>4. r.quota /\ r.user \in Users
      BY <1>1 DEF ConnInv
    <2> HIDE DEF q
    <2>5. ConnInv(q)
      BY <1>1, <2>b, <2>1, <2>2, <2>3, <2>4 DEF ConnInv
    <2> QED BY <1>1, <2>b, <2>1, <2>5 DEF Follows, KeepsClose, q
  <1>2. CASE ~(r.phase = "open" /\ r.count > 0)
    <2>1. r.phase # "open"
      BY <1>0, <1>2, HolderCount DEF ConnInv
    <2>2. r.phase \notin {"none", "admitted", "dialling"}
      BY DEF ConnInv
    <2>3. /\ q \in Connection
          /\ q.phase = r.phase /\ q.user = r.user /\ q.quota = r.quota
      BY <1>0, <1>2 DEF ReleasedConnection, Connection
    <2> HIDE DEF q
    <2>4. ConnInv(q)
      BY <2>1, <2>2, <2>3 DEF ConnInv
    <2> QED BY <2>1, <2>3, <2>4 DEF Follows, KeepsClose, q
  <1> QED BY <1>1, <1>2

\* request_close and the idle cleanup keep it, and detach only what nobody holds.
LEMMA DeferInv ==
    ASSUME NEW r, ConnInv(r), r.phase = "open"
    PROVE  LET q == DeferOrDetach(r)
           IN  /\ ConnInv(q) /\ Follows(r, q) /\ KeepsClose(r, q)
               /\ q.phase = "detached" => r.holders = {}
  <1> DEFINE q == DeferOrDetach(r)
  <1>0. r \in Connection /\ r.holders \in SUBSET Holders /\ r.count \in Nat
        /\ r.count = Cardinality(r.holders)
    BY DEF ConnInv, Connection
  <1>1. CASE r.count > 0
    <2>1. /\ q \in Connection /\ q.closeReq = TRUE
          /\ q.phase = r.phase /\ q.user = r.user /\ q.quota = r.quota
          /\ q.count = r.count /\ q.holders = r.holders
      BY <1>0, <1>1 DEF DeferOrDetach, Connection
    <2> HIDE DEF q
    <2>2. ConnInv(q)
      BY <1>0, <1>1, <2>1 DEF ConnInv
    <2> QED BY <2>1, <2>2 DEF Follows, KeepsClose, q
  <1>2. CASE ~(r.count > 0)
    <2>1. /\ q \in Connection /\ q.closeReq = r.closeReq
          /\ q.phase = "detached" /\ q.user = r.user /\ q.quota = r.quota
          /\ q.count = r.count /\ q.holders = r.holders
      BY <1>0, <1>2 DEF DeferOrDetach, Connection, Phases
    <2>2. r.holders = {}
      BY <1>0, <1>2, HolderCount
    <2> HIDE DEF q
    <2>3. ConnInv(q)
      BY <1>0, <2>1 DEF ConnInv
    <2> QED BY <2>1, <2>2, <2>3 DEF Follows, KeepsClose, q
  <1> QED BY <1>1, <1>2

\* A connection that is popped keeps its slot.
LEMMA DetachInv ==
    ASSUME NEW r, ConnInv(r), r.phase = "open"
    PROVE  LET q == [r EXCEPT !.phase = "detached"]
           IN  ConnInv(q) /\ Follows(r, q) /\ KeepsClose(r, q)
  <1> DEFINE q == [r EXCEPT !.phase = "detached"]
  <1>1. /\ q \in Connection /\ q.closeReq = r.closeReq
        /\ q.phase = "detached" /\ q.user = r.user /\ q.quota = r.quota
        /\ q.count = r.count /\ q.holders = r.holders
    BY DEF ConnInv, Connection, Phases
  <1> HIDE DEF q
  <1>2. ConnInv(q)
    BY <1>1 DEF ConnInv
  <1> QED BY <1>1, <1>2 DEF Follows, KeepsClose, q

\* Nothing changes.
LEMMA SameInv == ASSUME NEW r, ConnInv(r) PROVE Follows(r, r) /\ KeepsClose(r, r)
  BY DEF Follows, KeepsClose

----------------------------------------------------------------------------
(* The operations.                                                         *)

\* What a step keeps of every connection.
Kept ==
    /\ conn' \in [Conns -> Connection]
    /\ \A c \in Conns : ConnInv(conn'[c]) /\ KeepsClose(conn[c], conn'[c])
AllFollow == \A c \in Conns : Follows(conn[c], conn'[c])

\* One entry changes, as the functions above change it.
LEMMA EntryStep ==
    ASSUME ConnsInv, NEW c \in Conns, NEW q, conn' = [conn EXCEPT ![c] = q],
           ConnInv(q), KeepsClose(conn[c], q)
    PROVE  /\ Kept
           /\ conn'[c] = q /\ \A d \in Conns \ {c} : conn'[d] = conn[d]
           /\ Follows(conn[c], q) => AllFollow
  <1>1. conn'[c] = q /\ \A d \in Conns \ {c} : conn'[d] = conn[d]
    BY DEF ConnsInv
  <1>2. q \in Connection
    BY DEF ConnInv
  <1>3. conn' \in [Conns -> Connection]
    BY <1>2 DEF ConnsInv
  <1>4. \A d \in Conns : ConnInv(conn[d]) /\ KeepsClose(conn[d], conn[d]) /\ Follows(conn[d], conn[d])
    BY SameInv DEF ConnsInv
  <1> QED BY <1>1, <1>3, <1>4 DEF Kept, AllFollow

\* The dial and the end of a connection, and what happens to its transport.
LEMMA LifeSteps ==
    ASSUME ConnsInv, NEW c \in Conns,
           \/ Store(c) \/ Abandon(c) \/ Discard(c) \/ Touch(c) \/ CloseDetached(c)
           \/ TransportDies(c) \/ GrowsIdle(c) \/ \E u \in Users : AdmitConnect(c, u)
    PROVE  Kept /\ AllFollow
  <1> DEFINE r == conn[c]
  <1>0. ConnInv(r) /\ r \in Connection
    BY DEF ConnsInv, ConnInv
  <1>1. CASE Store(c)
    <2> DEFINE q == [r EXCEPT !.phase = "open", !.alive = TRUE]
    <2>1. conn' = [conn EXCEPT ![c] = q] /\ accepting /\ r.phase = "dialling"
      BY <1>1 DEF Store, ConnsInv
    <2>2. /\ q \in Connection /\ q.phase = "open" /\ q.user = r.user /\ q.quota = r.quota
          /\ q.count = r.count /\ q.holders = r.holders /\ q.closeReq = r.closeReq
      BY <1>0 DEF Connection, Phases
    <2> HIDE DEF q, r
    <2>3. Cardinality({}) = 0
      BY FS_EmptySet
    <2>4. ConnInv(q) /\ Follows(r, q) /\ KeepsClose(r, q)
      BY <1>0, <2>1, <2>2, <2>3 DEF ConnInv, Follows, KeepsClose
    <2> QED BY <2>1, <2>4, EntryStep DEF r
  <1>2. CASE Abandon(c)
    <2> DEFINE q == [r EXCEPT !.phase = "discarding", !.quota = FALSE]
    <2>1. conn' = [conn EXCEPT ![c] = q] /\ r.phase = "dialling"
      BY <1>2 DEF Abandon, ConnsInv
    <2>2. q \in Connection /\ q.phase = "discarding" /\ q.user = r.user /\ q.quota = FALSE
      BY <1>0 DEF Connection, Phases
    <2> HIDE DEF q, r
    <2>3. ConnInv(q) /\ Follows(r, q) /\ KeepsClose(r, q)
      BY <1>0, <2>1, <2>2 DEF ConnInv, Follows, KeepsClose
    <2> QED BY <2>1, <2>3, EntryStep DEF r
  <1>3. CASE Discard(c)
    <2> DEFINE q == [r EXCEPT !.phase = "closed"]
    <2>1. conn' = [conn EXCEPT ![c] = q] /\ r.phase = "discarding"
      BY <1>3 DEF Discard, ConnsInv
    <2>2. q \in Connection /\ q.phase = "closed" /\ q.user = r.user /\ q.quota = r.quota
      BY <1>0 DEF Connection, Phases
    <2> HIDE DEF q, r
    <2>3. ConnInv(q) /\ Follows(r, q) /\ KeepsClose(r, q)
      BY <1>0, <2>1, <2>2 DEF ConnInv, Follows, KeepsClose
    <2> QED BY <2>1, <2>3, EntryStep DEF r
  <1>4. CASE CloseDetached(c)
    <2> DEFINE q == [r EXCEPT !.phase = "closed", !.quota = FALSE]
    <2>1. conn' = [conn EXCEPT ![c] = q] /\ r.phase = "detached"
      BY <1>4 DEF CloseDetached, ConnsInv
    <2>2. q \in Connection /\ q.phase = "closed" /\ q.user = r.user /\ q.quota = FALSE
      BY <1>0 DEF Connection, Phases
    <2> HIDE DEF q, r
    <2>3. ConnInv(q) /\ Follows(r, q) /\ KeepsClose(r, q)
      BY <1>0, <2>1, <2>2 DEF ConnInv, Follows, KeepsClose
    <2> QED BY <2>1, <2>3, EntryStep DEF r
  <1>5. CASE Touch(c) \/ TransportDies(c) \/ GrowsIdle(c)
    <2>1. PICK i \in BOOLEAN, a \in BOOLEAN : conn' = [conn EXCEPT ![c] = [r EXCEPT !.idle = i, !.alive = a]]
      <3>1. r.idle \in BOOLEAN /\ r.alive \in BOOLEAN
        BY <1>0 DEF Connection
      <3>2. CASE Touch(c)
        <4>1. conn' = [conn EXCEPT ![c] = [r EXCEPT !.idle = FALSE, !.alive = r.alive]]
          BY <1>0, <3>2 DEF Touch, ConnsInv, Connection
        <4> QED BY <3>1, <4>1
      <3>3. CASE TransportDies(c)
        <4>1. conn' = [conn EXCEPT ![c] = [r EXCEPT !.idle = r.idle, !.alive = FALSE]]
          BY <1>0, <3>3 DEF TransportDies, ConnsInv, Connection
        <4> QED BY <3>1, <4>1
      <3>4. CASE GrowsIdle(c)
        <4>1. conn' = [conn EXCEPT ![c] = [r EXCEPT !.idle = TRUE, !.alive = r.alive]]
          BY <1>0, <3>4 DEF GrowsIdle, ConnsInv, Connection
        <4> QED BY <3>1, <4>1
      <3> QED BY <1>5, <3>2, <3>3, <3>4
    <2> DEFINE q == [r EXCEPT !.idle = i, !.alive = a]
    <2>2. /\ q \in Connection /\ q.phase = r.phase /\ q.user = r.user /\ q.quota = r.quota
          /\ q.count = r.count /\ q.holders = r.holders /\ q.closeReq = r.closeReq
      BY <1>0 DEF Connection
    <2>3. conn' = [conn EXCEPT ![c] = q]
      BY <2>1
    <2> HIDE DEF q, r
    <2>4. ConnInv(q) /\ Follows(r, q) /\ KeepsClose(r, q)
      BY <1>0, <2>2 DEF ConnInv, Follows, KeepsClose
    <2> QED BY <2>3, <2>4, EntryStep DEF r
  <1>6. CASE \E u \in Users : AdmitConnect(c, u)
    <2>1. PICK u \in Users : AdmitConnect(c, u)
      BY <1>6
    <2> DEFINE q == [r EXCEPT !.phase = "admitted", !.user = u]
    <2>2. conn' = [conn EXCEPT ![c] = q] /\ r.phase = "none"
      BY <2>1 DEF AdmitConnect, ConnsInv
    <2>3. /\ q \in Connection /\ q.phase = "admitted" /\ q.user = u /\ q.quota = r.quota
          /\ q.count = r.count /\ q.holders = r.holders /\ q.closeReq = r.closeReq
      BY <1>0 DEF Connection, Phases
    <2> HIDE DEF q, r
    <2>4. ConnInv(q) /\ Follows(r, q) /\ KeepsClose(r, q)
      BY <1>0, <2>2, <2>3 DEF ConnInv, Follows, KeepsClose
    <2> QED BY <2>2, <2>4, EntryStep DEF r
  <1> QED BY <1>1, <1>2, <1>3, <1>4, <1>5, <1>6

\* Holds, and closes of one connection.
LEMMA HoldSteps ==
    ASSUME ConnsInv, NEW c \in Conns,
           \/ DropStale(c) \/ RequestClose(c) \/ \E h \in Holders : ReleaseHold(c, h)
           \/ \E h \in Holders, u \in Users : AcquireHold(c, h, u)
    PROVE  Kept /\ AllFollow
  <1> DEFINE r == conn[c]
  <1>0. ConnInv(r) /\ r \in Connection
    BY DEF ConnsInv, ConnInv
  <1>1. CASE DropStale(c)
    <2>1. conn' = [conn EXCEPT ![c] = [r EXCEPT !.phase = "detached"]] /\ r.phase = "open"
      BY <1>1 DEF DropStale, ConnsInv
    <2> HIDE DEF r
    <2> QED BY <1>0, <2>1, DetachInv, EntryStep DEF r
  <1>2. CASE RequestClose(c)
    <2>1. conn' = [conn EXCEPT ![c] = DeferOrDetach(r)] /\ r.phase = "open"
      BY <1>2 DEF RequestClose
    <2> HIDE DEF r
    <2> QED BY <1>0, <2>1, DeferInv, EntryStep DEF r
  <1>3. CASE \E h \in Holders : ReleaseHold(c, h)
    <2>1. PICK h \in r.holders : conn' = [conn EXCEPT ![c] = ReleasedConnection(r, h)]
      BY <1>3 DEF ReleaseHold
    <2> HIDE DEF r
    <2> QED BY <1>0, <2>1, ReleasedInv, EntryStep DEF r
  <1>4. CASE \E h \in Holders, u \in Users : AcquireHold(c, h, u)
    <2>1. PICK h \in Holders, u \in Users : AcquireHold(c, h, u)
      BY <1>4
    <2> DEFINE q == [r EXCEPT !.count = r.count + 1, !.holders = r.holders \cup {h}]
    <2>2. conn' = [conn EXCEPT ![c] = q] /\ r.phase = "open" /\ h \notin r.holders /\ ~r.closeReq
      BY <2>1 DEF AcquireHold, ConnsInv
    <2>3. /\ r.count \in Nat /\ r.holders \in SUBSET Holders
          /\ r.count + 1 \in Nat /\ r.holders \cup {h} \in SUBSET Holders
      BY <1>0 DEF Connection
    <2> HIDE DEF r
    <2>4. /\ q \in Connection /\ q.phase = "open" /\ q.user = r.user /\ q.quota = r.quota
          /\ q.count = r.count + 1 /\ q.holders = r.holders \cup {h} /\ q.closeReq = r.closeReq
      BY <1>0, <2>2, <2>3 DEF Connection
    <2> HIDE DEF q, r
    <2>5. Cardinality(r.holders \cup {h}) = Cardinality(r.holders) + 1
      BY <2>2, <2>3, HolderCount
    <2>6. ConnInv(q) /\ Follows(r, q) /\ KeepsClose(r, q)
      BY <1>0, <2>2, <2>3, <2>4, <2>5 DEF ConnInv, Follows, KeepsClose
    <2> QED BY <2>2, <2>6, EntryStep DEF r
  <1> QED BY <1>1, <1>2, <1>3, <1>4

\* Operations on many entries: the idle cleanup, the end of a user, the drain.
LEMMA DetachAllStep ==
    ASSUME ConnsInv, NEW S, DetachAll(S)
    PROVE  Kept /\ AllFollow
  <1>1. ASSUME NEW c \in Conns
        PROVE  ConnInv(conn'[c]) /\ KeepsClose(conn[c], conn'[c]) /\ Follows(conn[c], conn'[c])
    <2>1. ConnInv(conn[c])
      BY DEF ConnsInv
    <2>2. conn'[c] = IF c \in S /\ conn[c].phase = "open"
                     THEN [conn[c] EXCEPT !.phase = "detached"] ELSE conn[c]
      BY DEF DetachAll
    <2> QED BY <2>1, <2>2, DetachInv, SameInv
  <1>2. conn' = [c \in Conns |-> conn'[c]]
    BY DEF DetachAll
  <1>3. conn' \in [Conns -> Connection]
    BY <1>1, <1>2 DEF ConnInv
  <1> QED BY <1>1, <1>3 DEF Kept, AllFollow

LEMMA CleanupStep ==
    ASSUME ConnsInv, CleanupExpired
    PROVE  Kept /\ AllFollow
  <1>1. ASSUME NEW c \in Conns
        PROVE  ConnInv(conn'[c]) /\ KeepsClose(conn[c], conn'[c]) /\ Follows(conn[c], conn'[c])
    <2>1. ConnInv(conn[c])
      BY DEF ConnsInv
    <2>2. conn'[c] = IF conn[c].phase = "open" /\ conn[c].idle
                     THEN DeferOrDetach(conn[c]) ELSE conn[c]
      BY DEF CleanupExpired
    <2> QED BY <2>1, <2>2, DeferInv, SameInv
  <1>2. conn' = [c \in Conns |-> conn'[c]]
    BY DEF CleanupExpired
  <1>3. conn' \in [Conns -> Connection]
    BY <1>1, <1>2 DEF ConnInv
  <1> QED BY <1>1, <1>3 DEF Kept, AllFollow

\* The reservation, the one operation that takes a slot.
LEMMA ReserveStep ==
    ASSUME ConnsInv, NEW c \in Conns, Reserve(c)
    PROVE  /\ Kept
           /\ conn'[c].phase # "open" /\ conn'[c].user = conn[c].user
           /\ \A d \in Conns \ {c} : conn'[d] = conn[d]
           /\ conn'[c].quota => /\ Cardinality(ReservedBy(conn[c].user)) < PerUserLimit
                                /\ Cardinality(Reserved) < GlobalLimit
  <1> DEFINE r == conn[c]
  <1>0. ConnInv(r) /\ r \in Connection /\ r.phase = "admitted"
    BY DEF ConnsInv, ConnInv, Reserve
  <1>1. CASE /\ Cardinality(ReservedBy(conn[c].user)) < PerUserLimit
             /\ Cardinality(Reserved) < GlobalLimit
             /\ conn' = [conn EXCEPT ![c].phase = "dialling", ![c].quota = TRUE]
    <2> DEFINE q == [r EXCEPT !.phase = "dialling", !.quota = TRUE]
    <2>1. conn' = [conn EXCEPT ![c] = q]
      BY <1>1 DEF ConnsInv
    <2>2. /\ q \in Connection /\ q.phase = "dialling" /\ q.user = r.user /\ q.quota = TRUE
          /\ q.count = r.count /\ q.holders = r.holders /\ q.closeReq = r.closeReq
      BY <1>0 DEF Connection, Phases
    <2> HIDE DEF q, r
    <2>3. ConnInv(q) /\ KeepsClose(r, q)
      BY <1>0, <2>2 DEF ConnInv, KeepsClose
    <2> QED BY <1>1, <2>1, <2>2, <2>3, EntryStep DEF r
  <1>2. CASE conn' = [conn EXCEPT ![c].phase = "closed"]
    <2> DEFINE q == [r EXCEPT !.phase = "closed"]
    <2>1. conn' = [conn EXCEPT ![c] = q]
      BY <1>2 DEF ConnsInv
    <2>2. q \in Connection /\ q.phase = "closed" /\ q.user = r.user /\ q.quota = r.quota
      BY <1>0 DEF Connection, Phases
    <2> HIDE DEF q, r
    <2>3. ConnInv(q) /\ KeepsClose(r, q) /\ ~q.quota
      BY <1>0, <2>2 DEF ConnInv, KeepsClose
    <2> QED BY <2>1, <2>2, <2>3, EntryStep DEF r
  <1> QED BY <1>1, <1>2 DEF Reserve

----------------------------------------------------------------------------
(* The limits.                                                             *)

\* A step that reserves nothing can only give slots back.
LEMMA LimitsFollow ==
    ASSUME ConnectionsWithinLimits, AllFollow
    PROVE  ConnectionsWithinLimits'
  <1>1. Reserved' \subseteq Reserved
    BY DEF Reserved, AllFollow, Follows
  <1>2. \A u \in Users : ReservedBy(u)' \subseteq ReservedBy(u)
    BY <1>1 DEF Reserved, ReservedBy, AllFollow, Follows
  <1>3. IsFiniteSet(Reserved) /\ \A u \in Users : IsFiniteSet(ReservedBy(u))
    BY PoolFinite, FS_Subset DEF Reserved, ReservedBy
  <1>4. /\ Cardinality(Reserved') <= Cardinality(Reserved)
        /\ \A u \in Users : Cardinality(ReservedBy(u)') <= Cardinality(ReservedBy(u))
    BY <1>1, <1>2, <1>3, FS_Subset
  <1>5. /\ Cardinality(Reserved) \in Nat /\ Cardinality(Reserved') \in Nat
        /\ \A u \in Users : Cardinality(ReservedBy(u)) \in Nat /\ Cardinality(ReservedBy(u)') \in Nat
    BY <1>1, <1>2, <1>3, FS_Subset, FS_CardinalityType
  <1> QED BY <1>4, <1>5, PoolLimits DEF ConnectionsWithinLimits

\* The one that does reserves below both limits.
LEMMA LimitsReserve ==
    ASSUME ConnsInv, ConnectionsWithinLimits, NEW c \in Conns, Reserve(c)
    PROVE  ConnectionsWithinLimits'
  <1>1. /\ conn'[c].user = conn[c].user
        /\ \A d \in Conns \ {c} : conn'[d] = conn[d]
        /\ conn'[c].quota => /\ Cardinality(ReservedBy(conn[c].user)) < PerUserLimit
                             /\ Cardinality(Reserved) < GlobalLimit
    BY ReserveStep
  <1>2. ~conn[c].quota
    BY DEF ConnsInv, ConnInv, Reserve
  <1>3. CASE ~conn'[c].quota
    <2>1. Reserved' = Reserved /\ \A u \in Users : ReservedBy(u)' = ReservedBy(u)
      BY <1>1, <1>2, <1>3 DEF Reserved, ReservedBy
    <2> QED BY <2>1 DEF ConnectionsWithinLimits
  <1>4. CASE conn'[c].quota
    <2>1. IsFiniteSet(Reserved) /\ \A u \in Users : IsFiniteSet(ReservedBy(u))
      BY PoolFinite, FS_Subset DEF Reserved, ReservedBy
    <2>2. Reserved' = Reserved \cup {c} /\ c \notin Reserved
      BY <1>1, <1>2, <1>4 DEF Reserved
    <2>3. \A u \in Users : /\ u # conn[c].user => ReservedBy(u)' = ReservedBy(u)
                           /\ u = conn[c].user => ReservedBy(u)' = ReservedBy(u) \cup {c}
                           /\ c \notin ReservedBy(u)
      BY <1>1, <1>2, <2>2 DEF Reserved, ReservedBy
    <2>4. Cardinality(Reserved') = Cardinality(Reserved) + 1 /\ Cardinality(Reserved) \in Nat
      BY <2>1, <2>2, FS_AddElement, FS_CardinalityType
    <2>5. Cardinality(Reserved') <= GlobalLimit
      BY <1>1, <1>4, <2>4, PoolLimits
    <2>6. ASSUME NEW u \in Users PROVE Cardinality(ReservedBy(u)') <= PerUserLimit
      <3>1. CASE u # conn[c].user
        BY <2>3, <3>1 DEF ConnectionsWithinLimits
      <3>2. CASE u = conn[c].user
        <4>1. Cardinality(ReservedBy(u)') = Cardinality(ReservedBy(u)) + 1
              /\ Cardinality(ReservedBy(u)) \in Nat
          BY <2>1, <2>3, <3>2, FS_AddElement, FS_CardinalityType
        <4> QED BY <1>1, <1>4, <3>2, <4>1, PoolLimits
      <3> QED BY <3>1, <3>2
    <2> QED BY <2>5, <2>6 DEF ConnectionsWithinLimits
  <1> QED BY <1>3, <1>4

----------------------------------------------------------------------------
(* Every step of the pool.                                                 *)

LEMMA NextKeeps ==
    ASSUME ConnsInv, PoolNext
    PROVE  Kept /\ (AllFollow \/ \E c \in Conns : Reserve(c))
  <1>1. CASE StopAccepting \/ CancelLoop
    <2>1. conn' = conn
      BY <1>1 DEF StopAccepting, CancelLoop
    <2> QED BY <2>1, SameInv DEF Kept, AllFollow, ConnsInv
  <1>2. CASE CleanupExpired
    BY <1>2, CleanupStep
  <1>3. CASE DrainPool \/ \E u \in Users : CloseAllUserConnections(u) \/ RevokeUser(u)
    <2>1. PICK S : DetachAll(S)
      BY <1>3 DEF DrainPool, CloseAllUserConnections, RevokeUser
    <2> QED BY <2>1, DetachAllStep
  <1>4. CASE \E c \in Conns : Reserve(c)
    BY <1>4, ReserveStep
  <1>5. ASSUME NEW c \in Conns,
               \/ Store(c) \/ Abandon(c) \/ Discard(c) \/ Touch(c) \/ CloseDetached(c)
               \/ TransportDies(c) \/ GrowsIdle(c) \/ \E u \in Users : AdmitConnect(c, u)
        PROVE  Kept /\ AllFollow
    BY <1>5, LifeSteps
  <1>6. ASSUME NEW c \in Conns,
               \/ DropStale(c) \/ RequestClose(c) \/ \E h \in Holders : ReleaseHold(c, h)
               \/ \E h \in Holders, u \in Users : AcquireHold(c, h, u)
        PROVE  Kept /\ AllFollow
    BY <1>6, HoldSteps
  <1> QED BY <1>1, <1>2, <1>3, <1>4, <1>5, <1>6 DEF PoolNext

LEMMA InitInv == PoolInit => IInv
  <1> SUFFICES ASSUME PoolInit PROVE IInv
    OBVIOUS
  <1>1. NoConnection \in Connection
    BY DEF NoConnection, Connection, Phases
  <1>2. ConnInv(NoConnection)
    BY <1>1 DEF NoConnection, ConnInv
  <1>3. ConnsInv
    BY <1>1, <1>2 DEF PoolInit, ConnsInv
  <1>4. Reserved = {} /\ \A u \in Users : ReservedBy(u) = {}
    BY DEF PoolInit, Reserved, ReservedBy, NoConnection
  <1>5. ConnectionsWithinLimits
    BY <1>4, FS_EmptySet, PoolLimits DEF ConnectionsWithinLimits
  <1> QED BY <1>3, <1>5 DEF PoolInit, IInv, DrainedStaysEmpty

LEMMA StepInv == IInv /\ [PoolNext]_poolVars => IInv'
  <1> SUFFICES ASSUME IInv, [PoolNext]_poolVars PROVE IInv'
    OBVIOUS
  <1>1. CASE UNCHANGED poolVars
    BY <1>1 DEF poolVars, IInv, ConnsInv, DrainedStaysEmpty, ConnectionsWithinLimits, Reserved, ReservedBy
  <1>2. CASE PoolNext
    <2>0. ConnsInv
      BY DEF IInv
    <2>1. Kept /\ (AllFollow \/ \E c \in Conns : Reserve(c))
      BY <1>2, <2>0, NextKeeps
    <2>2. ConnsInv'
      BY <2>1 DEF Kept, ConnsInv
    <2>3. ConnectionsWithinLimits'
      BY <2>0, <2>1, LimitsFollow, LimitsReserve DEF IInv
    <2>4. /\ accepting' \in BOOLEAN /\ loop' \in {"running", "cancelled", "ended"}
          /\ revoked' \subseteq Users /\ (loop' # "running" => ~accepting')
      <3>1. \/ accepting' = FALSE /\ loop' = loop /\ revoked' = revoked
            \/ ~accepting /\ accepting' = accepting /\ loop' = "cancelled" /\ revoked' = revoked
            \/ loop = "cancelled" /\ accepting' = accepting /\ loop' = "ended" /\ revoked' = revoked
            \/ accepting' = accepting /\ loop' = loop /\ \E u \in Users : revoked' = revoked \cup {u}
            \/ accepting' = accepting /\ loop' = loop /\ revoked' = revoked
        BY <1>2 DEF PoolNext, CleanupExpired, StopAccepting, CancelLoop, DrainPool, CloseAllUserConnections,
           RevokeUser, Reserve, Store, Abandon, Discard, Touch, DropStale, RequestClose, CloseDetached,
           TransportDies, GrowsIdle, AdmitConnect, ReleaseHold, AcquireHold
      <3>2. loop' \in {"running", "cancelled", "ended"} /\ revoked' \subseteq Users
        BY <3>1 DEF IInv
      <3>3. accepting' \in BOOLEAN
        BY <3>1, Zenon DEF IInv
      <3>4. loop' # "running" => ~accepting'
        BY <3>1 DEF IInv
      <3> QED BY <3>2, <3>3, <3>4, Zenon
    <2>5. DrainedStaysEmpty'
      <3>1. SUFFICES ASSUME loop' = "ended", NEW c \in Conns PROVE conn'[c].phase # "open"
        BY DEF DrainedStaysEmpty
      <3>2. CASE DrainPool
        <4>1. /\ conn'[c] = IF conn[c].phase = "open" THEN [conn[c] EXCEPT !.phase = "detached"] ELSE conn[c]
              /\ conn[c] \in Connection
          BY <2>0, <3>2 DEF DrainPool, DetachAll, ConnsInv
        <4> QED BY <4>1 DEF Connection
      <3>3. CASE ~DrainPool
        <4>1. loop = "ended"
          BY <1>2, <3>1, <3>3 DEF PoolNext, CleanupExpired, StopAccepting, CancelLoop, CloseAllUserConnections,
           RevokeUser, Reserve, Store, Abandon, Discard, Touch, DropStale, RequestClose, CloseDetached,
           TransportDies, GrowsIdle, AdmitConnect, ReleaseHold, AcquireHold
        <4>2. ~accepting /\ conn[c].phase # "open"
          BY <4>1 DEF IInv, DrainedStaysEmpty
        <4>3. CASE AllFollow
          BY <4>2, <4>3 DEF AllFollow, Follows
        <4>4. CASE \E d \in Conns : Reserve(d)
          BY <2>0, <4>2, <4>4, ReserveStep
        <4> QED BY <2>1, <4>3, <4>4
      <3> QED BY <3>2, <3>3
    <2> QED BY <2>2, <2>3, <2>4, <2>5 DEF IInv
  <1> QED BY <1>1, <1>2

\* The inductive invariant holds throughout.
LEMMA Invariance == PoolSpec => []IInv
  BY InitInv, StepInv, PTL DEF PoolSpec

\* The pool keeps its counts, slots, limits and deferred closes right through dials,
\* holds, closes, stale transports, revocation and drain, for any number of
\* connections and hold sets and any limits.
THEOREM PoolIsSafe == PoolSpec => []PoolSafe
  <1>1. IInv => PoolSafe
    BY DEF IInv, ConnsInv, ConnInv, PoolSafe, PoolTypeOK, HoldCountExact, DeferredCloseIsHeld, SlotIffResources
  <1> QED BY <1>1, Invariance, PTL

\* An ordinary close never takes a connection from its holder, and a close that
\* waits for holders is neither withdrawn nor held up by new ones (request_close,
\* cleanup_expired, acquire_hold, release_hold).
THEOREM HoldersAreProtected == PoolSpec => HoldersProtected
  <1> DEFINE Held == \A c \in Conns :
               (/\ conn[c].phase = "open"
                /\ conn'[c].phase = "detached"
                /\ conn[c].holders \cap conn'[c].holders # {}) =>
                    \/ ~conn[c].alive
                    \/ DrainPool
                    \/ CloseAllUserConnections(conn[c].user)
                    \/ RevokeUser(conn[c].user)
             NoNew == \A c \in Conns :
               (conn[c].phase = "open" /\ conn[c].closeReq) =>
                   /\ conn'[c].holders \subseteq conn[c].holders
                   /\ conn'[c].closeReq
  <1>1. ASSUME IInv, PoolNext PROVE NoNew
    <2>1. Kept
      BY <1>1, NextKeeps DEF IInv
    <2> QED BY <2>1 DEF Kept, KeepsClose
  <1>2. ASSUME IInv, PoolNext PROVE Held
    <2> SUFFICES ASSUME NEW c \in Conns, conn[c].phase = "open", conn'[c].phase = "detached",
                        conn[c].holders \cap conn'[c].holders # {},
                        conn[c].alive, ~DrainPool
                 PROVE  CloseAllUserConnections(conn[c].user) \/ RevokeUser(conn[c].user)
      OBVIOUS
    <2>0. ConnsInv /\ ConnInv(conn[c]) /\ conn[c] \in Connection
      BY <1>2 DEF IInv, ConnsInv, ConnInv
    <2>1. CASE CleanupExpired
      <3>1. conn'[c] = DeferOrDetach(conn[c])
        BY <2>1 DEF CleanupExpired
      <3> QED BY <2>0, <3>1, DeferInv
    <2>2. ASSUME NEW u \in Users, CloseAllUserConnections(u) \/ RevokeUser(u)
          PROVE  CloseAllUserConnections(conn[c].user) \/ RevokeUser(conn[c].user)
      <3>1. conn[c].user = u
        BY <2>2 DEF CloseAllUserConnections, RevokeUser, DetachAll
      <3> QED BY <2>2, <3>1
    <2>3. ASSUME NEW d \in Conns, RequestClose(d) PROVE FALSE
      <3>1. d = c
        BY <2>0, <2>3 DEF RequestClose, ConnsInv
      <3>2. conn'[c] = DeferOrDetach(conn[c])
        BY <2>0, <2>3, <3>1 DEF RequestClose, ConnsInv
      <3> QED BY <2>0, <3>2, DeferInv
    <2>4. ASSUME NEW d \in Conns, NEW h \in Holders, ReleaseHold(d, h) PROVE FALSE
      <3>1. d = c
        BY <2>0, <2>4 DEF ReleaseHold, ConnsInv
      <3>2. conn'[c] = ReleasedConnection(conn[c], h) /\ h \in conn[c].holders
        BY <2>0, <2>4, <3>1 DEF ReleaseHold, ConnsInv
      <3>3. conn[c].count = 1 /\ conn'[c].holders = conn[c].holders \ {h}
        BY <2>0, <3>2 DEF ReleasedConnection, Connection
      <3>4. Cardinality(conn[c].holders \ {h}) = 0 /\ conn[c].holders \ {h} \in SUBSET Holders
        BY <2>0, <3>2, <3>3, HolderCount DEF ConnInv, Connection
      <3>5. conn[c].holders \ {h} = {}
        <4> DEFINE S == conn[c].holders \ {h}
        <4>1. IsFiniteSet(S)
          BY <3>4, PoolFinite, FS_Subset
        <4> HIDE DEF S
        <4>2. Cardinality(S) = 0 => S = {}
          BY <4>1, FS_EmptySet
        <4> QED BY <3>4, <4>2 DEF S
      <3> QED BY <3>3, <3>5
    <2>5. ASSUME NEW d \in Conns,
                 \/ Reserve(d) \/ Store(d) \/ Abandon(d) \/ Discard(d) \/ Touch(d) \/ DropStale(d)
                 \/ CloseDetached(d) \/ TransportDies(d) \/ GrowsIdle(d)
                 \/ \E u \in Users : AdmitConnect(d, u)
                 \/ \E h \in Holders, u \in Users : AcquireHold(d, h, u)
          PROVE  FALSE
      BY <2>0, <2>5 DEF ConnsInv, Connection, Reserve, Store, Abandon, Discard, Touch, DropStale, CloseDetached,
         TransportDies, GrowsIdle, AdmitConnect, AcquireHold
    <2>6. CASE StopAccepting \/ CancelLoop
      BY <2>6 DEF StopAccepting, CancelLoop
    <2> QED BY <1>2, <2>1, <2>2, <2>3, <2>4, <2>5, <2>6 DEF PoolNext
  <1>3. IInv /\ [PoolNext]_poolVars => [Held]_poolVars /\ [NoNew]_poolVars
    BY <1>1, <1>2
  <1> HIDE DEF Held, NoNew
  <1>4. PoolSpec => [][Held]_poolVars /\ [][NoNew]_poolVars
    BY <1>3, Invariance, PTL DEF PoolSpec
  <1> QED BY <1>4 DEF HoldersProtected, HeldIsNotClosed, NoHoldAfterCloseRequest, Held, NoNew


----------------------------------------------------------------------------
(* Restores.  For any files and any number of restores and of faults: as   *)
(* long as the faults were survivable (the status is either written or not *)
(* written), a mixture of two backups is never served, and always          *)
(* recoverable.                                                            *)
(*                                                                         *)
(* The inductive invariant has three parts.  DiskInv says what the durable *)
(* status means for the data, whatever the process is doing: it is all a   *)
(* crash leaves behind.  RunInv describes a run of restore_backup half way *)
(* through.  PlaceInv relates each place of the code to the status on      *)
(* disk, so that the next write keeps DiskInv.                             *)

\* Memory agrees with the file, which the other faults would break.
CacheInv == cache \in {"unset", disk} /\ poll = FALSE

DiskInv ==
    /\ Whole(prior)
    /\ disk \notin {"in_progress", "rollback_failed"} => Consistent
    /\ disk = "preparing" => data = prior
    /\ disk = "in_progress" =>
         /\ archive \in {prior, NoArchive}
         /\ Consistent \/ archive = prior
    /\ disk = "succeeded" => data = All(diskOp)
    /\ disk = "failed" /\ diskOp = count => data = prior

RunInv ==
    pc \in Jobs =>
      /\ todo # {}
      /\ todo \cap Files # {} => FollowUp \subseteq todo
      /\ "sanitize" \in todo => "rotate" \in todo
      /\ todo \cap Files = {} => pending \subseteq todo
      /\ \A f \in Files \ todo : data[f] = Source[f]

PlaceInv ==
    /\ pc \in {"idle", "prepare", "stuck"} => disk \notin Active
    /\ pc \in {"prepare", "shutdown", "snapshot"} =>
         data = prior /\ archive = NoArchive
    /\ pc \in {"shutdown", "snapshot", "mark"} => disk = "preparing"
    /\ pc \in {"mark", "replace", "succeed", "rollback"} => archive = prior
    /\ pc \in {"replace", "succeed"} => disk = "in_progress"
    /\ pc = "succeed" => data = All(count) /\ pending = {}
    /\ pc = "rollback" => \/ disk = "in_progress"
                          \/ disk = "preparing" /\ before = prior
    /\ pc \in {"snapshot", "mark", "replace", "succeed", "rollback"} => stopped
    /\ pc \in {"fail", "clean"} => stopped \/ disk \notin Active
    /\ rbFailed => pc \in {"fail", "clean"} /\ stopped
    /\ pc = "fail" /\ ~rbFailed => Consistent /\ data = prior
    /\ pc = "fail" => disk # "rollback_failed"
    /\ pc = "clean" => rbFailed \/ Consistent
    /\ pc = "untouched" => disk = "preparing"
    /\ pc \in {"recover", "recovered", "giveup"} => disk = "in_progress"
    /\ pc = "recover" => \/ archive = prior
                         \/ /\ archive = NoArchive
                            /\ Consistent /\ before = data
                            /\ todo = Files \cup FollowUp
    /\ pc = "recovered" => Consistent /\ data = prior
    /\ pc = "settle" => disk \notin {"preparing", "in_progress"}
    /\ pc \in {"maintenance", "cli", "clear"} => disk = "rollback_failed"
    /\ pc = "clear" => Consistent

RecoveryInv == TypeOK /\ CacheInv /\ DiskInv /\ RunInv /\ PlaceInv

-----------------------------------------------------------------------------
(* Facts about the definitions *)

\* A snapshot of the data directory is never mistaken for a missing archive.
LEMMA ArchiveIsNotEmpty == \A v : All(v) # NoArchive
  BY RestoreAssumption DEF All, NoArchive

\* Every restore, and the operator's own backup, has a version.
LEMMA VersionsTyped ==
    /\ \A v \in Versions : All(v) \in [Files -> Versions]
    /\ \A n \in 0 .. MaxRestores : n \in Versions
    /\ Rescue \in Versions
  BY RestoreAssumption DEF All, Versions, Rescue

\* A fault is counted.
LEMMA FaultCounted ==
    ASSUME NEW kind \in AllFaults, faults \in FaultRecord, Fault(kind)
    PROVE  faults' \in FaultRecord
<1>1. faults.number \in 0 .. MaxFaults /\ faults.beyond \in SUBSET AllFaults
  BY DEF FaultRecord
<1>2. faults.number + 1 \in 0 .. MaxFaults
  BY <1>1, RestoreAssumption DEF Fault
<1>3. faults.beyond \cup ({kind} \ Survivable) \in SUBSET AllFaults
  BY <1>1
<1>4. QED
  BY <1>2, <1>3 DEF Fault, FaultRecord

\* Only faults of the survivable kinds are survived.
LEMMA FaultSurvived ==
    ASSUME NEW kind, Fault(kind), Survived'
    PROVE  Survived /\ kind \in Survivable
<1>1. faults'.beyond = faults.beyond \cup ({kind} \ Survivable)
  BY DEF Fault
<1>2. QED
  BY <1>1 DEF Survived

\* A survivable status write happens or does not.
LEMMA WriteOutcome ==
    ASSUME Survived', NEW s, NEW next, NEW err, Write(s, next, err)
    PROVE  \/ /\ disk' = s /\ diskOp' = Operation /\ cache' = s
              /\ pc' = next
           \/ /\ UNCHANGED <<disk, diskOp, cache>> /\ pc' = err
<1>1. ~Fault("unsynced")
  BY FaultSurvived DEF Survivable
<1>2. QED
  BY <1>1 DEF Write

\* Either way the faults are counted.
LEMMA WriteCounted ==
    ASSUME faults \in FaultRecord, NEW s, NEW next, NEW err, Write(s, next, err)
    PROVE  faults' \in FaultRecord
<1>1. faults' = faults \/ Fault("lost") \/ Fault("unsynced")
  BY DEF Write
<1>2. QED
  BY <1>1, FaultCounted DEF AllFaults

-----------------------------------------------------------------------------
(* The initial state *)

\* A first start: empty status, one version, nothing running.
LEMMA InitRecovery == Init => RecoveryInv
<1> SUFFICES ASSUME Init PROVE RecoveryInv
  OBVIOUS
<1> USE DEF Init
<1>1. 0 \in Versions /\ 0 \in 0 .. MaxRestores /\ 0 \in 0 .. MaxFaults
  BY RestoreAssumption DEF Versions, Rescue
<1>2. TypeOK
  BY <1>1, VersionsTyped DEF TypeOK, FaultRecord, Places, Up, Status
<1>3. Consistent
  BY <1>1 DEF Consistent, Whole
<1>4. CacheInv /\ DiskInv /\ RunInv /\ PlaceInv
  BY <1>1, <1>3 DEF CacheInv, DiskInv, RunInv, PlaceInv, Whole, Jobs, Active
<1>5. QED
  BY <1>2, <1>4 DEF RecoveryInv

-----------------------------------------------------------------------------
(* One lemma per action *)

\* The route starts a restore only outside maintenance, so the data is consistent.
LEMMA StartRestoreKeeps ==
    ASSUME Survived', RecoveryInv, StartRestore
    PROVE  RecoveryInv'
<1> USE DEF RecoveryInv
<1>1. TypeOK'
  <2>1. count' \in 0 .. MaxRestores /\ faults' \in FaultRecord
    BY RestoreAssumption DEF TypeOK, StartRestore
  <2>2. prior' \in [Files -> Versions] /\ pc' \in Places /\ rbFailed' \in BOOLEAN
    BY DEF TypeOK, StartRestore, Places, Up
  <2>3. QED
    BY <2>1, <2>2 DEF TypeOK, StartRestore
<1>2. CacheInv' /\ DiskInv'
  BY DEF TypeOK, CacheInv, DiskInv, PlaceInv, StartRestore, IsActive, Read,
     Consistent, Active
<1>3. RunInv' /\ PlaceInv'
  BY DEF DiskInv, RunInv, PlaceInv, StartRestore, IsActive, Read, Consistent,
     Active, Jobs
<1>4. QED
  BY <1>1, <1>2, <1>3

\* begin_preparing, written or not, changes no data.
LEMMA BeginPreparingKeeps ==
    ASSUME Survived', RecoveryInv, BeginPreparing
    PROVE  RecoveryInv'
<1> USE DEF RecoveryInv
<1>1. TypeOK'
  BY WriteOutcome, WriteCounted, RestoreAssumption
  DEF TypeOK, BeginPreparing, Untouched, Operation, Booting, Places, Up,
      Restoring, Jobs, Status, Active
<1>2. CacheInv' /\ DiskInv'
  BY WriteOutcome
  DEF TypeOK, CacheInv, DiskInv, PlaceInv, BeginPreparing, Untouched, Operation,
      Booting, Consistent, Active
<1>3. RunInv' /\ PlaceInv'
  BY WriteOutcome
  DEF DiskInv, RunInv, PlaceInv, BeginPreparing, Untouched, Consistent, Active,
      Jobs
<1>4. QED
  BY <1>1, <1>2, <1>3

\* Stopping the runtime, with or without activity left.
LEMMA StopRuntimeKeeps ==
    ASSUME Survived', RecoveryInv, StopRuntime
    PROVE  RecoveryInv'
<1> USE DEF RecoveryInv
<1>1. TypeOK'
  BY RestoreAssumption
  DEF TypeOK, StopRuntime, Places, Up, Restoring, Booting, Jobs, Status, Active
<1>2. CacheInv' /\ DiskInv'
  BY DEF CacheInv, DiskInv, PlaceInv, StopRuntime, Consistent
<1>3. RunInv' /\ PlaceInv'
  BY DEF DiskInv, RunInv, PlaceInv, StopRuntime, Consistent, Active, Jobs
<1>4. QED
  BY <1>1, <1>2, <1>3

\* The emergency archive holds the data of before.
LEMMA TakeSnapshotKeeps ==
    ASSUME Survived', RecoveryInv, TakeSnapshot
    PROVE  RecoveryInv'
<1> USE DEF RecoveryInv
<1>1. TypeOK'
  BY RestoreAssumption
  DEF TypeOK, TakeSnapshot, memory, Places, Up, Restoring, Booting, Jobs,
      Status, Active
<1>2. CacheInv' /\ DiskInv'
  BY DEF CacheInv, DiskInv, PlaceInv, TakeSnapshot, memory, Consistent
<1>3. RunInv' /\ PlaceInv'
  BY DEF DiskInv, RunInv, PlaceInv, TakeSnapshot, memory, Consistent, Active,
     Jobs
<1>4. QED
  BY <1>1, <1>2, <1>3

\* Giving up before anything was replaced.
LEMMA PreparationFailsKeeps ==
    ASSUME Survived', RecoveryInv, PreparationFails
    PROVE  RecoveryInv'
<1> USE DEF RecoveryInv
<1>1. TypeOK'
  BY RestoreAssumption, FaultCounted
  DEF TypeOK, AllFaults, PreparationFails, memory, Places, Up, Restoring, Booting,
      Jobs, Status, Active
<1>2. CacheInv' /\ DiskInv'
  BY DEF CacheInv, DiskInv, PlaceInv, PreparationFails, memory,
     Consistent
<1>3. RunInv' /\ PlaceInv'
  BY DEF DiskInv, RunInv, PlaceInv, PreparationFails, memory, Consistent,
     Active, Jobs
<1>4. QED
  BY <1>1, <1>2, <1>3

\* mark_in_progress, or the rollback of nothing when it raises.
LEMMA MarkInProgressKeeps ==
    ASSUME Survived', RecoveryInv, MarkInProgress
    PROVE  RecoveryInv'
<1> USE DEF RecoveryInv
<1>1. TypeOK'
  BY WriteOutcome, WriteCounted, RestoreAssumption
  DEF TypeOK, MarkInProgress, Untouched, Operation, Booting, BeginsJob, Handler,
      Places, Up, Restoring, Jobs, Status, Active
<1>2. CacheInv' /\ DiskInv'
  BY WriteOutcome
  DEF CacheInv, DiskInv, PlaceInv, MarkInProgress, Untouched, Operation,
      Booting, BeginsJob, Handler, Consistent
<1>3. RunInv' /\ PlaceInv'
  BY WriteOutcome, RestoreAssumption
  DEF TypeOK, DiskInv, RunInv, PlaceInv, MarkInProgress, Untouched, BeginsJob,
      Handler, Consistent, Active, Jobs, FollowUp
<1>4. QED
  BY <1>1, <1>2, <1>3

\* mark_succeeded, or the rollback of everything when it raises.
LEMMA MarkSucceededKeeps ==
    ASSUME Survived', RecoveryInv, MarkSucceeded
    PROVE  RecoveryInv'
<1> USE DEF RecoveryInv
<1>1. TypeOK'
  BY WriteOutcome, WriteCounted, RestoreAssumption
  DEF TypeOK, MarkSucceeded, Untouched, Operation, Booting, BeginsJob, Handler,
      Places, Up, Restoring, Jobs, Status, Active
<1>a. archive # NoArchive /\ All(count) = data /\ Consistent
  BY ArchiveIsNotEmpty, VersionsTyped
  DEF TypeOK, DiskInv, PlaceInv, MarkSucceeded, Whole, Consistent
<1>2. CacheInv' /\ DiskInv'
  BY <1>a, WriteOutcome
  DEF CacheInv, DiskInv, PlaceInv, MarkSucceeded, Untouched, Operation, Booting,
      Consistent
<1>3. RunInv'
  BY <1>a, WriteOutcome, RestoreAssumption
  DEF TypeOK, RunInv, MarkSucceeded, Untouched, BeginsJob, Handler, Jobs,
      FollowUp
<1>b. PlaceInv'
  BY <1>a, WriteOutcome
  DEF TypeOK, PlaceInv, MarkSucceeded, Untouched, Handler, Consistent, Active
<1>4. QED
  BY <1>1, <1>2, <1>3, <1>b

\* mark_failed of the handler, for both of its states.
LEMMA MarkFailedKeeps ==
    ASSUME Survived', RecoveryInv, MarkFailed
    PROVE  RecoveryInv'
<1> USE DEF RecoveryInv
<1>1. TypeOK'
  BY WriteOutcome, WriteCounted, RestoreAssumption
  DEF TypeOK, MarkFailed, Untouched, Operation, Booting, Places, Up, Restoring,
      Jobs, Status, Active
<1>2. CacheInv' /\ DiskInv'
  BY WriteOutcome
  DEF CacheInv, DiskInv, PlaceInv, MarkFailed, Untouched, Operation, Booting,
      Consistent
<1>3. RunInv' /\ PlaceInv'
  BY WriteOutcome
  DEF DiskInv, RunInv, PlaceInv, MarkFailed, Untouched, Consistent, Active, Jobs
<1>4. QED
  BY <1>1, <1>2, <1>3

\* The archive goes only if the data is consistent.
LEMMA FinallyKeeps ==
    ASSUME Survived', RecoveryInv, Finally
    PROVE  RecoveryInv'
<1> USE DEF RecoveryInv
<1>1. TypeOK'
  BY RestoreAssumption
  DEF TypeOK, Finally, Places, Up, Restoring, Booting, Jobs, Status, Active
<1>2. CacheInv' /\ DiskInv'
  BY DEF CacheInv, DiskInv, PlaceInv, Finally, Consistent
<1>3. RunInv' /\ PlaceInv'
  BY DEF DiskInv, RunInv, PlaceInv, Finally, Consistent, Active, Jobs
<1>4. QED
  BY <1>1, <1>2, <1>3

\* Only a status that says nothing about mixed data expires.
LEMMA ExpireStatusKeeps ==
    ASSUME Survived', RecoveryInv, ExpireStatus
    PROVE  RecoveryInv'
<1> USE DEF RecoveryInv
<1>1. TypeOK'
  BY RestoreAssumption
  DEF TypeOK, ExpireStatus, Read, Places, Up, Restoring, Booting, Jobs, Status,
      Active
<1>2. CacheInv' /\ DiskInv'
  BY DEF CacheInv, DiskInv, PlaceInv, ExpireStatus, Read, Consistent
<1>3. RunInv' /\ PlaceInv'
  BY RestoreAssumption, ArchiveIsNotEmpty
  DEF TypeOK, CacheInv, DiskInv, RunInv, PlaceInv, ExpireStatus, Read,
      Consistent, Whole, Active, Jobs, FollowUp, Up
<1>4. QED
  BY <1>1, <1>2, <1>3

\* No request is slow, so none unlinks late.
LEMMA PollUnlinksKeeps ==
    ASSUME Survived', RecoveryInv, PollUnlinks
    PROVE  RecoveryInv'
<1> USE DEF RecoveryInv
<1>1. TypeOK'
  BY RestoreAssumption
  DEF TypeOK, PollUnlinks, Places, Up, Restoring, Booting, Jobs, Status, Active
<1>2. CacheInv' /\ DiskInv'
  BY DEF CacheInv, DiskInv, PlaceInv, PollUnlinks, Consistent
<1>3. RunInv' /\ PlaceInv'
  BY RestoreAssumption, ArchiveIsNotEmpty
  DEF TypeOK, CacheInv, DiskInv, RunInv, PlaceInv, PollUnlinks, Consistent,
      Whole, Active, Jobs, FollowUp, Up
<1>4. QED
  BY <1>1, <1>2, <1>3

\* A start reads the status and begins the recovery it asks for.
LEMMA BootKeeps ==
    ASSUME Survived', RecoveryInv, Boot
    PROVE  RecoveryInv'
<1> USE DEF RecoveryInv
<1>1. TypeOK'
  BY RestoreAssumption
  DEF TypeOK, Boot, BeginsJob, Places, Up, Restoring, Booting, Jobs, Status,
      Active
<1>2. CacheInv' /\ DiskInv'
  BY DEF CacheInv, DiskInv, PlaceInv, Boot, BeginsJob, Consistent
<1>3. RunInv' /\ PlaceInv'
  BY RestoreAssumption
  DEF TypeOK, DiskInv, RunInv, PlaceInv, Boot, BeginsJob, Consistent, Active,
      Jobs, FollowUp
<1>4. QED
  BY <1>1, <1>2, <1>3

\* An interrupted preparation is recorded as failed.
LEMMA MarkUntouchedKeeps ==
    ASSUME Survived', RecoveryInv, MarkUntouched
    PROVE  RecoveryInv'
<1> USE DEF RecoveryInv
<1>1. TypeOK'
  BY WriteOutcome, WriteCounted, RestoreAssumption
  DEF TypeOK, MarkUntouched, Untouched, Operation, Booting, Places, Up,
      Restoring, Jobs, Status, Active
<1>2. CacheInv' /\ DiskInv'
  BY WriteOutcome
  DEF CacheInv, DiskInv, PlaceInv, MarkUntouched, Untouched, Operation, Booting,
      Consistent
<1>3. RunInv' /\ PlaceInv'
  BY WriteOutcome
  DEF DiskInv, RunInv, PlaceInv, MarkUntouched, Untouched, Consistent, Active,
      Jobs
<1>4. QED
  BY <1>1, <1>2, <1>3

\* A recovery is recorded as failed, or given up if that raises.
LEMMA MarkRecoveredKeeps ==
    ASSUME Survived', RecoveryInv, MarkRecovered
    PROVE  RecoveryInv'
<1> USE DEF RecoveryInv
<1>1. TypeOK'
  BY WriteOutcome, WriteCounted, RestoreAssumption
  DEF TypeOK, MarkRecovered, Untouched, Operation, Booting, Places, Up,
      Restoring, Jobs, Status, Active
<1>2. CacheInv' /\ DiskInv'
  BY WriteOutcome
  DEF CacheInv, DiskInv, PlaceInv, MarkRecovered, Untouched, Operation, Booting,
      Consistent
<1>3. RunInv' /\ PlaceInv'
  BY WriteOutcome
  DEF DiskInv, RunInv, PlaceInv, MarkRecovered, Untouched, Consistent, Active,
      Jobs
<1>4. QED
  BY <1>1, <1>2, <1>3

\* A failed recovery asks for the operator.
LEMMA MarkGivenUpKeeps ==
    ASSUME Survived', RecoveryInv, MarkGivenUp
    PROVE  RecoveryInv'
<1> USE DEF RecoveryInv
<1>1. TypeOK'
  BY WriteOutcome, WriteCounted, RestoreAssumption
  DEF TypeOK, MarkGivenUp, Untouched, Operation, Booting, Places, Up, Restoring,
      Jobs, Status, Active
<1>2. CacheInv' /\ DiskInv'
  BY WriteOutcome
  DEF CacheInv, DiskInv, PlaceInv, MarkGivenUp, Untouched, Operation, Booting,
      Consistent
<1>3. RunInv' /\ PlaceInv'
  BY WriteOutcome
  DEF DiskInv, RunInv, PlaceInv, MarkGivenUp, Untouched, Consistent, Active,
      Jobs
<1>4. QED
  BY <1>1, <1>2, <1>3

\* A start that fails leaves everything to the next one.
LEMMA BootAbortsKeeps ==
    ASSUME Survived', RecoveryInv, BootAborts
    PROVE  RecoveryInv'
<1> USE DEF RecoveryInv
<1>1. TypeOK'
  BY RestoreAssumption, FaultCounted
  DEF TypeOK, AllFaults, BootAborts, Places, Up, Restoring, Booting, Jobs,
      Status, Active
<1>2. CacheInv' /\ DiskInv'
  BY DEF CacheInv, DiskInv, PlaceInv, BootAborts, Consistent
<1>3. RunInv' /\ PlaceInv'
  BY DEF DiskInv, RunInv, PlaceInv, BootAborts, Consistent,
     Active, Jobs
<1>4. QED
  BY <1>1, <1>2, <1>3

\* cleanup_orphans runs only when no archive is needed.
LEMMA SettleKeeps ==
    ASSUME Survived', RecoveryInv, Settle
    PROVE  RecoveryInv'
<1> USE DEF RecoveryInv
<1>1. TypeOK'
  BY RestoreAssumption
  DEF TypeOK, Settle, IsActive, Read, memory, Places, Up, Restoring, Booting,
      Jobs, Status, Active
<1>2. CacheInv' /\ DiskInv'
  BY DEF CacheInv, DiskInv, PlaceInv, Settle, IsActive, Read, memory, Consistent
<1>3. RunInv' /\ PlaceInv'
  BY RestoreAssumption, ArchiveIsNotEmpty
  DEF TypeOK, CacheInv, DiskInv, RunInv, PlaceInv, Settle, IsActive, Read,
      memory, Consistent, Whole, Active, Jobs, FollowUp, Up
<1>4. QED
  BY <1>1, <1>2, <1>3

\* The operator begins a restore in recovery maintenance.
LEMMA CliRestoreKeeps ==
    ASSUME Survived', RecoveryInv, CliRestore
    PROVE  RecoveryInv'
<1> USE DEF RecoveryInv
<1>1. TypeOK'
  BY RestoreAssumption
  DEF TypeOK, CliRestore, BeginsJob, Places, Up, Restoring, Booting, Jobs,
      Status, Active
<1>2. CacheInv' /\ DiskInv'
  BY DEF CacheInv, DiskInv, PlaceInv, CliRestore, BeginsJob, Consistent
<1>3. RunInv' /\ PlaceInv'
  BY RestoreAssumption
  DEF TypeOK, DiskInv, RunInv, PlaceInv, CliRestore, BeginsJob, Consistent,
      Active, Jobs, FollowUp
<1>4. QED
  BY <1>1, <1>2, <1>3

\* The status is removed after the CLI restore is complete.
LEMMA CliClearsKeeps ==
    ASSUME Survived', RecoveryInv, CliClears
    PROVE  RecoveryInv'
<1> USE DEF RecoveryInv
<1>1. TypeOK'
  BY RestoreAssumption, FaultCounted
  DEF TypeOK, AllFaults, CliClears, Places, Up, Restoring, Booting, Jobs, Status,
      Active
<1>2. CacheInv' /\ DiskInv'
  BY DEF CacheInv, DiskInv, PlaceInv, CliClears, Consistent
<1>3. RunInv' /\ PlaceInv'
  BY DEF DiskInv, RunInv, PlaceInv, CliClears, Consistent, Active, Jobs
<1>4. QED
  BY <1>1, <1>2, <1>3

\* A kill leaves what DiskInv describes.
LEMMA CrashKeeps ==
    ASSUME Survived', RecoveryInv, Crash
    PROVE  RecoveryInv'
<1> USE DEF RecoveryInv
<1>1. TypeOK'
  <2>1. faults' \in FaultRecord
    BY FaultCounted DEF TypeOK, Crash, AllFaults
  <2>2. pc' \in Places
    BY DEF Crash, Places
  <2>3. QED
    BY <2>1, <2>2 DEF TypeOK, Crash
<1>2. CacheInv' /\ DiskInv'
  BY DEF CacheInv, DiskInv, PlaceInv, Crash, Consistent
<1>3. RunInv' /\ PlaceInv'
  BY DEF DiskInv, RunInv, PlaceInv, Crash, Consistent, Active, Jobs
<1>4. QED
  BY <1>1, <1>2, <1>3

\* While files are being replaced either the status says so or the copy changes
\* nothing.
LEMMA SourceInJobs ==
    ASSUME RecoveryInv, pc \in Jobs
    PROVE  /\ pc = "replace" => Source = All(count)
           /\ pc \in {"rollback", "recover"} => Source = archive
           /\ pc = "cli" => Source = All(Rescue)
           /\ Source # NoArchive =>
                /\ Source \in [Files -> Versions]
                /\ Whole(Source)
                /\ pc \in {"rollback", "recover"} => Source = prior
<1>1. /\ pc = "replace" => Source = All(count)
      /\ pc \in {"rollback", "recover"} => Source = archive
      /\ pc = "cli" => Source = All(Rescue)
  BY DEF Source
<1>2. count \in Versions /\ Rescue \in Versions
  BY VersionsTyped DEF RecoveryInv, TypeOK
<1>3. CASE pc \in {"replace", "cli"}
  BY <1>1, <1>2, <1>3, VersionsTyped DEF Whole
<1>4. CASE pc \in {"rollback", "recover"}
  BY <1>1, <1>4 DEF RecoveryInv, TypeOK, DiskInv, PlaceInv
<1>5. QED
  BY <1>1, <1>3, <1>4 DEF Jobs

\* The same source before and after a step that stays in the job.
LEMMA SourceStays ==
    ASSUME pc \in Jobs, pc' = pc, count' = count, archive' = archive
    PROVE  Source' = Source
  BY DEF Source, Jobs, All, Rescue

\* One file is replaced: the status says so, or the file does not change.
LEMMA CopyFileKeeps ==
    ASSUME Survived', RecoveryInv, NEW f \in Files, CopyFile(f)
    PROVE  RecoveryInv'
<1> USE DEF RecoveryInv
<1>a. /\ pc \in Jobs /\ f \in todo /\ Source # NoArchive
      /\ UNCHANGED <<disk, diskOp, cache, archive, pc, before, stopped, rbFailed,
                     poll, count, prior, faults>>
  BY DEF CopyFile
<1>b. /\ Source \in [Files -> Versions]
      /\ pc \in {"rollback", "recover"} => Source = prior
      /\ Source' = Source
  BY <1>a, SourceInJobs, SourceStays
<1>d. pc \in {"rollback", "recover"} => archive = prior
  BY <1>a, <1>b, SourceInJobs
<1>c. /\ data' = [data EXCEPT ![f] = Source[f]]
      /\ pending' = (IF data[f] = Source[f] THEN pending ELSE FollowUp)
      /\ todo' = todo \ {f}
  BY DEF CopyFile
<1>1. TypeOK'
  BY <1>a, <1>b, <1>c DEF TypeOK, FollowUp
<1>2. CacheInv'
  BY <1>a DEF CacheInv
<1>3. data = Source => data' = data /\ pending' = pending
  BY <1>b, <1>c DEF TypeOK
<1>4. DiskInv'
  <2>1. CASE pc = "rollback" /\ disk = "preparing"
    BY <2>1, <1>a, <1>b, <1>3 DEF DiskInv, Consistent, Whole
  <2>2. CASE ~(pc = "rollback" /\ disk = "preparing")
    BY <2>2, <1>a, <1>d DEF DiskInv, PlaceInv, Jobs, Whole
  <2>3. QED
    BY <2>1, <2>2
<1>5. RunInv'
  <2>1. FollowUp \subseteq todo /\ FollowUp \subseteq todo'
    BY <1>a, <1>c, RestoreAssumption DEF RunInv, FollowUp
  <2>2. \A g \in Files \ todo' : data'[g] = Source[g]
    BY <1>a, <1>b, <1>c DEF RunInv, TypeOK
  <2>3. pending' \subseteq todo'
    BY <2>1, <1>1 DEF TypeOK
  <2>4. QED
    BY <2>1, <2>2, <2>3, <1>a, <1>b DEF RunInv, FollowUp
<1>6. PlaceInv'
  BY <1>a, <1>d DEF PlaceInv, Jobs, Active
<1>7. QED
  BY <1>1, <1>2, <1>4, <1>5, <1>6

\* The sanitizer and the epoch; after both the data is consistent.
LEMMA DoFollowUpKeeps ==
    ASSUME Survived', RecoveryInv, NEW w \in FollowUp, DoFollowUp(w)
    PROVE  RecoveryInv'
<1> USE DEF RecoveryInv
<1>a. /\ pc \in Jobs /\ w \in todo /\ todo \cap Files = {}
      /\ w = "rotate" => "sanitize" \notin todo
      /\ pending' = pending \ {w} /\ todo' = todo \ {w}
      /\ pc' = (IF todo = {w} THEN AfterJob ELSE pc)
      /\ UNCHANGED <<data, disk, diskOp, cache, archive, before, stopped, rbFailed,
                     poll, count, prior, faults>>
  BY DEF DoFollowUp
<1>b. pending \subseteq todo /\ \A g \in Files : data[g] = Source[g]
  BY <1>a DEF RunInv
<1>c. Source # NoArchive
  BY <1>a, SourceInJobs, ArchiveIsNotEmpty, RestoreAssumption
  DEF PlaceInv, DiskInv, Whole, Jobs
<1>d. data = Source /\ Whole(data)
  BY <1>a, <1>b, <1>c, SourceInJobs DEF TypeOK
<1>e. Consistent => Consistent'
  BY <1>a DEF Consistent, Whole
<1>1. TypeOK'
  BY <1>a DEF TypeOK, AfterJob, Jobs, Places, Up, Restoring, Booting
<1>2. CacheInv' /\ DiskInv'
  BY <1>a, <1>e DEF CacheInv, DiskInv, Whole
<1>3. CASE todo = {w}
  <2>1. Consistent'
    BY <1>3, <1>a, <1>b, <1>d DEF Consistent, Whole
  <2>2. pc' = AfterJob
    BY <1>3, <1>a
  <2>3. RunInv'
    BY <1>a, <2>2 DEF RunInv, AfterJob, Jobs
  <2>4. PlaceInv'
    <3>1. CASE pc = "replace"
      BY <3>1, <1>a, <1>d, <2>1, <2>2, SourceInJobs
      DEF PlaceInv, AfterJob, Jobs, Consistent
    <3>2. CASE pc = "rollback"
      BY <3>2, <1>a, <1>c, <1>d, <2>1, <2>2, SourceInJobs
      DEF PlaceInv, AfterJob, Jobs, Active
    <3>3. CASE pc = "recover"
      BY <3>3, <1>a, <1>c, <1>d, <2>1, <2>2, SourceInJobs
      DEF PlaceInv, AfterJob, Jobs
    <3>4. CASE pc = "cli"
      BY <3>4, <1>a, <2>1, <2>2 DEF PlaceInv, AfterJob, Jobs
    <3>5. QED
      BY <1>a, <3>1, <3>2, <3>3, <3>4 DEF Jobs
  <2>5. QED
    BY <1>1, <1>2, <2>3, <2>4
<1>4. CASE todo # {w}
  <2>1. pc' = pc /\ Source' = Source
    BY <1>4, <1>a, SourceStays
  <2>2. RunInv'
    BY <1>4, <1>a, <1>b, <2>1, RestoreAssumption DEF RunInv, FollowUp
  <2>3. PlaceInv'
    BY <1>a, <1>c, <2>1, <1>e, SourceInJobs DEF PlaceInv, Jobs, Active
  <2>4. QED
    BY <1>1, <1>2, <2>2, <2>3
<1>5. QED
  BY <1>3, <1>4

\* restore_backup raises and has undone some of its work.
LEMMA JobFailsKeeps ==
    ASSUME Survived', RecoveryInv, JobFails
    PROVE  RecoveryInv'
<1> USE DEF RecoveryInv
<1>a. PICK undone \in SUBSET Files :
         /\ todo \cap Files = {} => undone = {}
         /\ data' = [f \in Files |-> IF f \in undone THEN before[f] ELSE data[f]]
  BY DEF JobFails
<1>b. /\ pc \in Jobs
      /\ rbFailed' = (rbFailed \/ pc = "rollback")
      /\ pc' = HandlerOfJob
      /\ todo' = (IF pc = "replace" THEN Files \cup FollowUp ELSE todo)
      /\ before' = (IF pc = "replace" THEN data' ELSE before)
      /\ cache' = (IF pc = "cli" THEN "unset" ELSE cache)
      /\ UNCHANGED <<pending, disk, diskOp, archive, stopped, poll, count, prior>>
  BY DEF JobFails
<1>c. faults' \in FaultRecord
  <2>1. CASE Source = NoArchive
    BY <2>1 DEF JobFails, TypeOK
  <2>2. CASE Source # NoArchive
    BY <2>2, FaultCounted DEF JobFails, AllFaults, TypeOK
  <2>3. QED
    BY <2>1, <2>2
<1>d. data' \in [Files -> Versions]
  BY <1>a DEF TypeOK
<1>e. before = data => data' = data
  BY <1>a DEF TypeOK
<1>1. TypeOK'
  BY <1>b, <1>c, <1>d
  DEF TypeOK, HandlerOfJob, Jobs, Places, Up, Restoring, Booting
<1>2. CacheInv'
  BY <1>b DEF CacheInv
<1>3. CASE pc = "replace"
  <2>1. pc' = "rollback"
    BY <1>3, <1>b DEF HandlerOfJob
  <2>2. DiskInv' /\ PlaceInv'
    BY <1>3, <1>b, <2>1 DEF DiskInv, PlaceInv, Whole
  <2>3. RunInv'
    BY <1>3, <1>b, <2>1, RestoreAssumption DEF RunInv, FollowUp
  <2>4. QED
    BY <1>1, <1>2, <2>2, <2>3
<1>4. CASE pc = "rollback"
  <2>1. pc' = "fail" /\ rbFailed'
    BY <1>4, <1>b DEF HandlerOfJob
  <2>2. disk = "preparing" => data' = data
    BY <1>4, <1>e DEF PlaceInv, DiskInv
  <2>3. DiskInv'
    BY <1>4, <1>b, <2>2 DEF DiskInv, PlaceInv, Consistent, Whole
  <2>4. RunInv' /\ PlaceInv'
    BY <1>4, <1>b, <2>1 DEF RunInv, PlaceInv, Jobs
  <2>5. QED
    BY <1>1, <1>2, <2>3, <2>4
<1>5. CASE pc = "recover"
  <2>1. pc' = "giveup"
    BY <1>5, <1>b DEF HandlerOfJob
  <2>2. DiskInv'
    BY <1>5, <1>b, <1>e DEF DiskInv, PlaceInv, Consistent, Whole
  <2>3. RunInv' /\ PlaceInv'
    BY <1>5, <1>b, <2>1 DEF RunInv, PlaceInv, Jobs
  <2>4. QED
    BY <1>1, <1>2, <2>2, <2>3
<1>6. CASE pc = "cli"
  <2>1. pc' = "down"
    BY <1>6, <1>b DEF HandlerOfJob
  <2>2. DiskInv'
    BY <1>6, <1>b DEF DiskInv, PlaceInv, Whole
  <2>3. RunInv' /\ PlaceInv'
    BY <1>6, <1>b, <2>1 DEF RunInv, PlaceInv, Jobs
  <2>4. QED
    BY <1>1, <1>2, <2>2, <2>3
<1>7. QED
  BY <1>b, <1>3, <1>4, <1>5, <1>6 DEF Jobs

-----------------------------------------------------------------------------
(* The invariant is inductive *)

\* Every step keeps the invariant.
LEMMA NextKeepsRecovery ==
    ASSUME Survived', RecoveryInv, [Next]_rsVars
    PROVE  RecoveryInv'
<1>1. CASE Next
  <2>1. CASE StartRestore \/ Perform \/ PreparationFails
    BY <2>1, StartRestoreKeeps, BeginPreparingKeeps, StopRuntimeKeeps,
       TakeSnapshotKeeps, PreparationFailsKeeps, MarkInProgressKeeps,
       MarkSucceededKeeps, MarkFailedKeeps, FinallyKeeps
    DEF Perform
  <2>2. CASE Job \/ JobFails
    BY <2>2, CopyFileKeeps, DoFollowUpKeeps, JobFailsKeeps DEF Job
  <2>3. CASE ExpireStatus \/ PollUnlinks
    BY <2>3, ExpireStatusKeeps, PollUnlinksKeeps
  <2>4. CASE FinallyRaises \/ PollReads
    BY <2>4, FaultSurvived DEF FinallyRaises, PollReads, Survivable
  <2>5. CASE StartUp
    BY <2>5, BootKeeps, MarkUntouchedKeeps, MarkRecoveredKeeps,
       MarkGivenUpKeeps, BootAbortsKeeps, SettleKeeps
    DEF StartUp
  <2>6. CASE CliRestore \/ CliClears \/ Crash
    BY <2>6, CliRestoreKeeps, CliClearsKeeps, CrashKeeps
  <2>7. QED
    BY <1>1, <2>1, <2>2, <2>3, <2>4, <2>5, <2>6 DEF Next
<1>2. CASE UNCHANGED rsVars
  <2>1. Source' = Source
    BY <1>2 DEF Source, rsVars, All, Rescue
  <2>2. QED
    BY <1>2, <2>1
    DEF rsVars, memory, RecoveryInv, TypeOK, CacheInv, DiskInv, RunInv,
        PlaceInv, Consistent, Whole
<1>3. QED
  BY <1>1, <1>2

\* A step meets no fault or one fault.
LEMMA FaultOrNone ==
    ASSUME [Next]_rsVars
    PROVE  faults' = faults \/ \E kind \in AllFaults : Fault(kind)
<1>1. CASE StartRestore \/ StopRuntime \/ TakeSnapshot \/ Finally \/ Job
  BY <1>1 DEF StartRestore, StopRuntime, TakeSnapshot, Finally, Job, CopyFile,
     DoFollowUp
<1>2. CASE \/ BeginPreparing \/ MarkInProgress \/ MarkSucceeded \/ MarkFailed
           \/ MarkUntouched \/ MarkRecovered \/ MarkGivenUp
  BY <1>2 DEF BeginPreparing, MarkInProgress, MarkSucceeded, MarkFailed,
     MarkUntouched, MarkRecovered, MarkGivenUp, Write, AllFaults
<1>3. CASE PreparationFails \/ FinallyRaises \/ JobFails \/ Crash \/ PollReads
  BY <1>3 DEF PreparationFails, FinallyRaises, JobFails, Crash, PollReads,
     AllFaults
<1>4. CASE \/ ExpireStatus \/ PollUnlinks \/ Boot \/ BootAborts \/ Settle
           \/ CliRestore \/ CliClears
  BY <1>4 DEF ExpireStatus, PollUnlinks, Boot, BootAborts, Settle, CliRestore,
     CliClears, AllFaults
<1>5. CASE UNCHANGED rsVars
  BY <1>5 DEF rsVars
<1>6. QED
  BY <1>1, <1>2, <1>3, <1>4, <1>5 DEF Next, Perform, StartUp

\* The invariant holds as long as the faults were survivable.
SurvivalInv == faults \in FaultRecord /\ (Survived => RecoveryInv)

LEMMA SurvivalAlways == Spec => []SurvivalInv
<1>1. Init => SurvivalInv
  BY InitRecovery DEF SurvivalInv, RecoveryInv, TypeOK
<1>2. SurvivalInv /\ [Next]_rsVars => SurvivalInv'
  <2> SUFFICES ASSUME SurvivalInv, [Next]_rsVars PROVE SurvivalInv'
    OBVIOUS
  <2>2. faults' \in FaultRecord /\ (Survived' => Survived)
    <3>1. CASE faults' = faults
      BY <3>1 DEF SurvivalInv, Survived
    <3>2. CASE \E kind \in AllFaults : Fault(kind)
      BY <3>2, FaultCounted, FaultSurvived DEF SurvivalInv
    <3>3. QED
      BY <3>1, <3>2, FaultOrNone
  <2>3. Survived' => RecoveryInv'
    BY <2>2, NextKeepsRecovery DEF SurvivalInv
  <2>4. QED
    BY <2>2, <2>3 DEF SurvivalInv
<1>3. QED
  BY <1>1, <1>2, PTL DEF Spec

-----------------------------------------------------------------------------
(* The results *)

\* Restores that are killed or fail anywhere, a status that cannot be written
\* included, never make the process answer from mixed, unsanitized or
\* half-rolled-back data.
THEOREM NeverServesMixed == Spec => [](Survived => ServesConsistent)
<1>1. RecoveryInv => ServesConsistent
  BY
  DEF RecoveryInv, TypeOK, CacheInv, DiskInv, ServesConsistent, IsActive,
      Read, Active
<1>2. SurvivalInv => (Survived => ServesConsistent)
  BY <1>1 DEF SurvivalInv
<1>3. QED
  BY <1>2, SurvivalAlways, PTL

\* The process is in maintenance from begin_preparing until mark_succeeded or
\* mark_failed.
THEOREM MaintenanceThroughout ==
    Spec => [](Survived => MaintenanceWhileRestoring)
<1>1. RecoveryInv => MaintenanceWhileRestoring
  BY
  DEF RecoveryInv, TypeOK, CacheInv, PlaceInv, MaintenanceWhileRestoring,
      Restoring, IsActive, Read, Active
<1>2. SurvivalInv => (Survived => MaintenanceWhileRestoring)
  BY <1>1 DEF SurvivalInv
<1>3. QED
  BY <1>2, SurvivalAlways, PTL

\* What a crash leaves behind is enough for the next start: mixed data comes with
\* a status that is noticed and, unless an operator is asked for, the archive.
THEOREM MixAlwaysRecoverable == Spec => [](Survived => MixIsRecoverable)
<1>1. RecoveryInv => MixIsRecoverable
  BY DEF RecoveryInv, DiskInv, MixIsRecoverable
<1>2. SurvivalInv => (Survived => MixIsRecoverable)
  BY <1>1 DEF SurvivalInv
<1>3. QED
  BY <1>2, SurvivalAlways, PTL

\* The outcome that is reported is the outcome: the new version completely in
\* place, or the files of before.
THEOREM OutcomeIsTrue ==
    Spec => [](Survived => SucceededMeansNew /\ FailedMeansOriginal)
<1>1. RecoveryInv => SucceededMeansNew /\ FailedMeansOriginal
  BY
  DEF RecoveryInv, DiskInv, Consistent, SucceededMeansNew, FailedMeansOriginal
<1>2. SurvivalInv => (Survived => SucceededMeansNew /\ FailedMeansOriginal)
  BY <1>1 DEF SurvivalInv
<1>3. QED
  BY <1>2, SurvivalAlways, PTL

\* The web restore is a transaction for any files and any number of restores and
\* faults, as long as _write raises only when the status was not replaced.
THEOREM RestoreIsTransactional == Spec => []Transactional
<1>1. (/\ Survived => ServesConsistent
       /\ Survived => MaintenanceWhileRestoring
       /\ Survived => MixIsRecoverable
       /\ Survived => SucceededMeansNew /\ FailedMeansOriginal) => Transactional
  BY DEF Transactional
<1>2. QED
  BY <1>1, NeverServesMixed, MaintenanceThroughout, MixAlwaysRecoverable,
     OutcomeIsTrue, PTL


-----------------------------------------------------------------------------
(* What holds whatever the faults are *)

\* Types of what an outcome is about.
OutcomeTypes ==
    /\ data \in [Files -> Versions] /\ before \in [Files -> Versions]
    /\ prior \in [Files -> Versions]
    /\ archive \in [Files -> Versions] \cup {NoArchive}
    /\ diskOp \in Nat /\ count \in 0 .. MaxRestores
    /\ diskOp <= count

\* A status that tells of the last restore bounds what the data may be.
OutcomeOnDisk ==
    diskOp = count => /\ disk \in {"failed", "preparing"} => data = prior
                      /\ disk = "in_progress" => archive \in {prior, NoArchive}

\* The places from which the data is changed, or called unchanged.  A status may
\* disappear (a slow status request) but no older one comes back.
OutcomePlaces ==
    /\ pc \in {"prepare", "shutdown", "snapshot", "mark"} => data = prior
    /\ pc \in {"mark", "replace", "succeed", "rollback"} => archive = prior
    /\ pc \in {"replace", "succeed"} => disk \in {"in_progress", "none"}
    /\ pc = "rollback" => \/ disk \in {"in_progress", "none", "succeeded"}
                          \/ data = prior /\ before = prior
    /\ pc = "fail" /\ ~rbFailed => data = prior
    /\ pc = "untouched" => disk = "preparing"
    /\ pc \in {"recover", "recovered"} => disk = "in_progress"
    /\ pc = "recovered" /\ diskOp = count => data = prior
    /\ pc = "cli" => disk = "rollback_failed"

\* A rollback under way: what was copied back, and nothing without an archive.
OutcomeJob ==
    pc \in {"rollback", "recover"} =>
      IF archive = NoArchive THEN Files \subseteq todo
      ELSE \A f \in Files \ todo : data[f] = archive[f]

OutcomeInv == OutcomeTypes /\ OutcomeOnDisk /\ OutcomePlaces /\ OutcomeJob


\* A status write, whether or not it raises, and whether or not the status was
\* replaced before it did.
LEMMA WriteAny ==
    ASSUME NEW s, NEW next, NEW err, Write(s, next, err)
    PROVE  \/ /\ disk' = s /\ diskOp' = Operation
              /\ pc' \in {next, err}
           \/ /\ UNCHANGED <<disk, diskOp>> /\ pc' = err
  BY DEF Write

LEMMA OutcomeInit == Init => OutcomeInv
<1> SUFFICES ASSUME Init PROVE OutcomeInv
  OBVIOUS
<1> USE DEF Init
<1>1. 0 \in Versions
  BY RestoreAssumption DEF Versions, Rescue
<1>2. OutcomeTypes
  BY <1>1, VersionsTyped, RestoreAssumption DEF OutcomeTypes
<1>3. OutcomeOnDisk /\ OutcomePlaces /\ OutcomeJob
  BY DEF OutcomeOnDisk, OutcomePlaces, OutcomeJob
<1>4. QED
  BY <1>2, <1>3 DEF OutcomeInv

\* The restore until its first file is replaced: the data is that of before.
LEMMA OutcomePreparation ==
    ASSUME OutcomeInv,
           \/ StartRestore \/ BeginPreparing \/ StopRuntime \/ TakeSnapshot
           \/ PreparationFails \/ MarkInProgress
    PROVE  OutcomeInv'
<1> USE DEF OutcomeInv
<1>1. CASE StartRestore
  BY <1>1, RestoreAssumption DEF StartRestore, OutcomeTypes, OutcomeOnDisk, OutcomePlaces, OutcomeJob
<1>2. CASE BeginPreparing
  BY <1>2, WriteAny DEF BeginPreparing, Untouched, Operation, Booting,
     OutcomeTypes, OutcomeOnDisk, OutcomePlaces, OutcomeJob
<1>3. CASE StopRuntime
  BY <1>3 DEF StopRuntime, OutcomeTypes, OutcomeOnDisk, OutcomePlaces, OutcomeJob
<1>4. CASE TakeSnapshot
  BY <1>4 DEF TakeSnapshot, memory, OutcomeTypes, OutcomeOnDisk, OutcomePlaces,
     OutcomeJob
<1>5. CASE PreparationFails
  BY <1>5 DEF PreparationFails, memory, OutcomeTypes, OutcomeOnDisk,
     OutcomePlaces, OutcomeJob
<1>6. CASE MarkInProgress
  <2>1. archive # NoArchive => Handler = "rollback"
    BY DEF Handler
  <2>2. /\ UNCHANGED <<data, archive, count, prior, rbFailed>>
        /\ pc' \in Jobs => todo' = Files \cup FollowUp /\ before' = data
        /\ pc' \notin Jobs => UNCHANGED before
        /\ pc = "mark" /\ pc' \in {"replace", Handler}
    BY <1>6, WriteAny DEF MarkInProgress, Untouched, BeginsJob, Jobs, Handler
  <2>3. \/ disk' = "in_progress" /\ diskOp' = count
        \/ UNCHANGED <<disk, diskOp>> /\ pc' = Handler
    BY <1>6, WriteAny DEF MarkInProgress, Operation, Booting
  <2>4. archive # NoArchive /\ data = prior /\ archive = prior
    BY <2>2, RestoreAssumption DEF OutcomePlaces, OutcomeTypes, NoArchive
  <2>5. OutcomeTypes' /\ OutcomeOnDisk'
    BY <2>1, <2>2, <2>3, <2>4 DEF OutcomeTypes, OutcomeOnDisk, Jobs
  <2>6. OutcomePlaces' /\ OutcomeJob'
    BY <2>1, <2>2, <2>3, <2>4 DEF OutcomePlaces, OutcomeJob, Jobs
  <2>7. QED
    BY <2>5, <2>6
<1>7. QED
  BY <1>1, <1>2, <1>3, <1>4, <1>5, <1>6

\* The end of a restore: the status is written, then the directory goes.
LEMMA OutcomeEnd ==
    ASSUME OutcomeInv, MarkSucceeded \/ MarkFailed \/ Finally \/ FinallyRaises
    PROVE  OutcomeInv'
<1> USE DEF OutcomeInv
<1>1. CASE MarkSucceeded
  <2>1. archive # NoArchive => Handler = "rollback"
    BY DEF Handler
  <2>2. /\ UNCHANGED <<data, archive, count, prior, rbFailed>>
        /\ pc' \in Jobs => todo' = Files \cup FollowUp /\ before' = data
        /\ pc' \notin Jobs => UNCHANGED before
        /\ pc = "succeed" /\ pc' \in {"clean", Handler}
    BY <1>1, WriteAny DEF MarkSucceeded, Untouched, BeginsJob, Jobs, Handler
  <2>3. \/ disk' = "succeeded" /\ diskOp' = count
        \/ UNCHANGED <<disk, diskOp>> /\ pc' = Handler
    BY <1>1, WriteAny DEF MarkSucceeded, Operation, Booting
  <2>4. archive # NoArchive /\ archive = prior
    BY <2>2, RestoreAssumption DEF OutcomePlaces, OutcomeTypes, NoArchive
  <2>5. OutcomeTypes' /\ OutcomeOnDisk'
    BY <2>1, <2>2, <2>3, <2>4 DEF OutcomeTypes, OutcomeOnDisk, OutcomePlaces, Jobs
  <2>6. OutcomePlaces' /\ OutcomeJob'
    BY <2>1, <2>2, <2>3, <2>4 DEF OutcomePlaces, OutcomeJob, Jobs
  <2>7. QED
    BY <2>5, <2>6
<1>2. CASE MarkFailed
  BY <1>2, WriteAny DEF MarkFailed, Untouched, Operation, Booting,
     OutcomeTypes, OutcomeOnDisk, OutcomePlaces, OutcomeJob
<1>3. CASE Finally
  BY <1>3 DEF Finally, OutcomeTypes, OutcomeOnDisk, OutcomePlaces, OutcomeJob
<1>4. CASE FinallyRaises
  BY <1>4 DEF FinallyRaises, memory, OutcomeTypes, OutcomeOnDisk, OutcomePlaces,
     OutcomeJob
<1>5. QED
  BY <1>1, <1>2, <1>3, <1>4

\* Requests may only take the status away.
LEMMA OutcomePolls ==
    ASSUME OutcomeInv, ExpireStatus \/ PollReads \/ PollUnlinks
    PROVE  OutcomeInv'
<1>1. /\ pc \in Up /\ pc' = pc
      /\ disk' \in {disk, "none"}
      /\ UNCHANGED <<data, diskOp, archive, todo, before, rbFailed, count, prior>>
  BY DEF ExpireStatus, PollReads, PollUnlinks
<1>2. pc \notin {"untouched", "recover", "recovered", "cli"}
  BY <1>1 DEF Up, Restoring
<1>3. QED
  BY <1>1, <1>2 DEF OutcomeInv, OutcomeTypes, OutcomeOnDisk, OutcomePlaces, OutcomeJob

\* A start, which writes the status on behalf of the operation it finds in it.
LEMMA OutcomeStartUp ==
    ASSUME OutcomeInv, StartUp
    PROVE  OutcomeInv'
<1> USE DEF OutcomeInv
<1>1. CASE Boot
  <2>1. /\ pc' \in {"untouched", "recover", "settle"}
        /\ pc' = "untouched" => disk = "preparing"
        /\ pc' = "recover" => disk = "in_progress" /\ todo' = Files \cup FollowUp /\ before' = data
        /\ before' \in {before, data}
        /\ UNCHANGED <<data, disk, diskOp, archive, rbFailed, count, prior>>
    BY <1>1 DEF Boot, BeginsJob, Jobs
  <2>2. QED
    BY <2>1 DEF OutcomeTypes, OutcomeOnDisk, OutcomePlaces, OutcomeJob
<1>2. CASE MarkUntouched \/ MarkRecovered \/ MarkGivenUp
  <2>1. /\ UNCHANGED <<data, archive, rbFailed, count, prior, todo, before>>
        /\ pc' \in {"settle", "boot", "giveup"}
        /\ \/ UNCHANGED <<disk, diskOp>>
           \/ /\ diskOp' = diskOp
              /\ disk' = "rollback_failed" \/ (disk' = "failed" /\ pc \in {"untouched", "recovered"})
    BY <1>2, WriteAny DEF MarkUntouched, MarkRecovered, MarkGivenUp, Untouched, Operation, Booting
  <2>2. QED
    BY <2>1 DEF OutcomeTypes, OutcomeOnDisk, OutcomePlaces, OutcomeJob
<1>3. CASE BootAborts
  BY <1>3 DEF BootAborts, OutcomeTypes, OutcomeOnDisk, OutcomePlaces, OutcomeJob
<1>4. CASE Settle
  BY <1>4 DEF Settle, memory, OutcomeTypes, OutcomeOnDisk, OutcomePlaces, OutcomeJob
<1>5. QED
  BY <1>1, <1>2, <1>3, <1>4 DEF StartUp

\* The operator's restore and kills.
LEMMA OutcomeOperator ==
    ASSUME OutcomeInv, CliRestore \/ CliClears \/ Crash
    PROVE  OutcomeInv'
<1> USE DEF OutcomeInv
<1>1. CASE CliRestore
  BY <1>1 DEF CliRestore, BeginsJob, Jobs, OutcomeTypes, OutcomeOnDisk, OutcomePlaces, OutcomeJob
<1>2. CASE CliClears
  BY <1>2 DEF CliClears, OutcomeTypes, OutcomeOnDisk, OutcomePlaces, OutcomeJob
<1>3. CASE Crash
  BY <1>3 DEF Crash, OutcomeTypes, OutcomeOnDisk, OutcomePlaces, OutcomeJob
<1>4. QED
  BY <1>1, <1>2, <1>3

\* Where a run of restore_backup is under way the status does not tell of the
\* files of before, unless they are still in place.
LEMMA OutcomeOfJobs ==
    ASSUME OutcomeInv, pc \in Jobs
    PROVE  \/ ~(diskOp = count /\ disk \in {"failed", "preparing"})
           \/ pc = "rollback" /\ data = prior /\ before = prior
  BY DEF OutcomeInv, OutcomePlaces, Jobs

\* One file is replaced.
LEMMA OutcomeCopy ==
    ASSUME OutcomeInv, NEW f \in Files, CopyFile(f)
    PROVE  OutcomeInv'
<1> USE DEF OutcomeInv
<1>1. /\ pc \in Jobs /\ pc' = pc /\ Source # NoArchive
      /\ data' = [data EXCEPT ![f] = Source[f]]
      /\ todo' = todo \ {f}
      /\ UNCHANGED <<disk, diskOp, archive, before, rbFailed, count, prior>>
  BY DEF CopyFile
<1>2. /\ pc = "replace" => Source = All(count)
      /\ pc \in {"rollback", "recover"} => Source = archive
      /\ pc = "cli" => Source = All(Rescue)
  BY DEF Source
<1>a. Rescue \in Versions /\ count \in Versions
  BY VersionsTyped DEF OutcomeTypes
<1>3. Source[f] \in Versions
  BY <1>1, <1>2, <1>a DEF Jobs, OutcomeTypes, All
<1>4. OutcomeTypes'
  BY <1>1, <1>3 DEF OutcomeTypes
<1>5. pc = "rollback" /\ data = prior => data' = prior
  BY <1>1, <1>2 DEF OutcomeTypes, OutcomePlaces
<1>6. OutcomeOnDisk'
  BY <1>1, <1>5, OutcomeOfJobs DEF OutcomeOnDisk
<1>7. OutcomePlaces'
  BY <1>1, <1>5 DEF OutcomePlaces, Jobs
<1>8. OutcomeJob'
  BY <1>1, <1>2 DEF OutcomeJob, OutcomeTypes
<1>9. QED
  BY <1>4, <1>6, <1>7, <1>8

\* The sanitizer and the epoch; with them a rollback is complete.
LEMMA OutcomeFollowUp ==
    ASSUME OutcomeInv, NEW w \in FollowUp, DoFollowUp(w)
    PROVE  OutcomeInv'
<1> USE DEF OutcomeInv
<1>1. /\ pc \in Jobs /\ todo \cap Files = {} /\ todo' = todo \ {w}
      /\ pc' \in {pc, AfterJob}
      /\ UNCHANGED <<data, disk, diskOp, archive, before, rbFailed, count, prior>>
  BY DEF DoFollowUp
<1>2. pc \in {"rollback", "recover"} => archive # NoArchive /\ data = archive
  BY <1>1, RestoreAssumption DEF OutcomeJob, OutcomeTypes
<1>3. AfterJob = CASE pc = "replace" -> "succeed" [] pc = "rollback" -> "fail"
                   [] pc = "recover" -> "recovered" [] pc = "cli" -> "clear"
  BY DEF AfterJob
<1>4. OutcomeTypes' /\ OutcomeOnDisk'
  BY <1>1 DEF OutcomeTypes, OutcomeOnDisk
<1>5. OutcomePlaces' /\ OutcomeJob'
  BY <1>1, <1>2, <1>3 DEF OutcomePlaces, OutcomeJob, OutcomeOnDisk, Jobs
<1>6. QED
  BY <1>4, <1>5

\* restore_backup raises and has undone some of its work.
LEMMA OutcomeJobFails ==
    ASSUME OutcomeInv, JobFails
    PROVE  OutcomeInv'
<1> USE DEF OutcomeInv
<1>1. PICK undone \in SUBSET Files :
         data' = [f \in Files |-> IF f \in undone THEN before[f] ELSE data[f]]
  BY DEF JobFails
<1>2. /\ pc \in Jobs
      /\ pc' = HandlerOfJob
      /\ rbFailed' = (rbFailed \/ pc = "rollback")
      /\ pc = "replace" => todo' = Files \cup FollowUp
      /\ before' = (IF pc = "replace" THEN data' ELSE before)
      /\ UNCHANGED <<disk, diskOp, archive, count, prior>>
  BY DEF JobFails
<1>3. HandlerOfJob = CASE pc = "replace" -> "rollback" [] pc = "rollback" -> "fail"
                       [] pc = "recover" -> "giveup" [] pc = "cli" -> "down"
  BY DEF HandlerOfJob
<1>4. data' \in [Files -> Versions] /\ (data = before => data' = data)
  BY <1>1 DEF OutcomeTypes
<1>5. OutcomeTypes'
  BY <1>2, <1>4 DEF OutcomeTypes
<1>6. OutcomeOnDisk'
  BY <1>2, <1>4, OutcomeOfJobs DEF OutcomeOnDisk
<1>7. OutcomePlaces' /\ OutcomeJob'
  BY <1>2, <1>3, RestoreAssumption DEF OutcomePlaces, OutcomeJob, Jobs
<1>8. QED
  BY <1>5, <1>6, <1>7

LEMMA OutcomeAlways == Spec => []OutcomeInv
<1>1. OutcomeInv /\ [Next]_rsVars => OutcomeInv'
  <2> SUFFICES ASSUME OutcomeInv, [Next]_rsVars PROVE OutcomeInv'
    OBVIOUS
  <2>1. CASE StartRestore \/ Perform \/ PreparationFails \/ FinallyRaises
    BY <2>1, OutcomePreparation, OutcomeEnd DEF Perform
  <2>2. CASE Job \/ JobFails
    BY <2>2, OutcomeCopy, OutcomeFollowUp, OutcomeJobFails DEF Job
  <2>3. CASE ExpireStatus \/ PollReads \/ PollUnlinks
    BY <2>3, OutcomePolls
  <2>4. CASE StartUp
    BY <2>4, OutcomeStartUp
  <2>5. CASE CliRestore \/ CliClears \/ Crash
    BY <2>5, OutcomeOperator
  <2>6. CASE UNCHANGED rsVars
    BY <2>6 DEF rsVars, memory, OutcomeInv, OutcomeTypes, OutcomeOnDisk,
       OutcomePlaces, OutcomeJob
  <2>7. QED
    BY <2>1, <2>2, <2>3, <2>4, <2>5, <2>6 DEF Next
<1>2. QED
  BY <1>1, OutcomeInit, PTL DEF Spec

\* A failed web restore left the files as they were, for any files and any
\* number of restores and of faults of every kind: a status that is on disk
\* although its write raised, a slow status request and a directory that cannot
\* be removed included.
THEOREM FailureIsHarmless == Spec => []FailedMeansOriginal
<1>1. OutcomeInv => FailedMeansOriginal
  BY DEF OutcomeInv, OutcomeOnDisk, FailedMeansOriginal
<1>2. QED
  BY <1>1, OutcomeAlways, PTL

-----------------------------------------------------------------------------
(* Recovery maintenance *)

\* A status that asks for the operator is replaced only after the operator's own
\* restore: every other write of the status starts from a place that
\* rollback_failed excludes.
THEOREM OnlyOperatorEndsRecovery == Spec => OperatorEndsRecovery
<1> DEFINE Ends == Survived' /\ disk = "rollback_failed" /\ disk' # disk => pc = "clear"
<1>1. ASSUME SurvivalInv, Next PROVE Ends
  <2> SUFFICES ASSUME Survived', disk = "rollback_failed", disk' # disk PROVE pc = "clear"
    OBVIOUS
  <2>1. Survived
    <3>1. CASE faults' = faults
      BY <3>1 DEF Survived
    <3>2. CASE \E kind \in AllFaults : Fault(kind)
      BY <3>2, FaultSurvived
    <3>3. QED
      BY <3>1, <3>2, <1>1, FaultOrNone
  <2>2. RecoveryInv
    BY <1>1, <2>1 DEF SurvivalInv
  <2>3. /\ Read = "rollback_failed" /\ ~poll
        /\ pc \notin {"prepare", "mark", "succeed", "fail", "untouched", "recovered", "giveup"}
    BY <2>2 DEF RecoveryInv, CacheInv, PlaceInv, Read, Active
  <2>4. ~\/ BeginPreparing \/ MarkInProgress \/ MarkSucceeded \/ MarkFailed
         \/ MarkUntouched \/ MarkRecovered \/ MarkGivenUp
         \/ ExpireStatus \/ PollUnlinks
    BY <2>3 DEF BeginPreparing, MarkInProgress, MarkSucceeded, MarkFailed, MarkUntouched,
       MarkRecovered, MarkGivenUp, ExpireStatus, PollUnlinks
  <2>5. CliClears
    BY <1>1, <2>4 DEF Next, Perform, StartUp, Job, StartRestore, StopRuntime, TakeSnapshot,
       PreparationFails, Finally, FinallyRaises, CopyFile, DoFollowUp, JobFails,
       PollReads, Boot, BootAborts, Settle, CliRestore, Crash
  <2>6. QED
    BY <2>5 DEF CliClears
<1>2. SurvivalInv /\ [Next]_rsVars => [Ends]_rsVars
  BY <1>1
<1> HIDE DEF Ends
<1>3. Spec => [][Ends]_rsVars
  BY <1>2, SurvivalAlways, PTL DEF Spec
<1>4. QED
  BY <1>3 DEF OperatorEndsRecovery, Ends


=============================================================================
