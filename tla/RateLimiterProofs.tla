-------------------------- MODULE RateLimiterProofs --------------------------
(***************************************************************************)
(* Theorems about RateLimiter for every limit, every length of the windows *)
(* and any set of callers: the fixed windows implement Quota.  What makes  *)
(* it inductive is WindowOK, which splits what was granted at the opening  *)
(* of the window that runs: of the window before, at most one request less *)
(* than the limit is remembered, since the one that opened it is too old.  *)
(***************************************************************************)
EXTENDS RateLimiter, TLAPS

\* The caller whose requests bucket k counts.
CallerOf(k) == [route |-> k.route, who |-> k.key]

\* How many of the hits that k has counted were let through.
Passed(k) == IF WithinLimit(k, count[k]) THEN count[k] ELSE Limit[k.route]

\* Ticks since the window of k was opened.
OpenFor(k) == Window - left[k]

\* No window: nothing happened in this tick, and what is remembered was granted
\* by one window, without the request that opened it.
ClosedOK(k) ==
    LET g == granted[CallerOf(k)]
    IN g[0] = 0 /\ \A a \in Guarantee!Ages : g[a] <= Limit[k.route] - 1

\* A window: what it let through, and what is left of the window before it.
OpenOK(k) ==
    LET g == granted[CallerOf(k)]
    IN \A a \in Guarantee!Ages :
          /\ a < OpenFor(k) => g[a] <= Passed(k) - 1
          /\ a = OpenFor(k) => g[a] <= Passed(k)
          /\ a > OpenFor(k) => g[a] <= Passed(k) + Limit[k.route] - 1
          /\ a >= OpenFor(k) => asked[CallerOf(k)][a] >= count[k]

WindowOK(k) == IF left[k] = 0 THEN ClosedOK(k) ELSE OpenOK(k)

CountersOK ==
    /\ asked \in [Subjects -> [Guarantee!Ages -> Nat]]
    /\ granted \in [Subjects -> [Guarantee!Ages -> Nat]]

IInv == TypeOK /\ CountersOK /\ \A k \in Buckets : WindowOK(k)

\* A bucket counts for one caller, and a caller is counted in one bucket.
LEMMA BucketIsCaller ==
    /\ \A c \in Calls : KeyOf(c) \in Buckets /\ Subject(c) \in Subjects
    /\ \A c \in Calls : CallerOf(KeyOf(c)) = Subject(c) /\ Subject(c).route = KeyOf(c).route
    /\ \A k \in Buckets : CallerOf(k) \in Subjects
    /\ \A k, l \in Buckets : CallerOf(k) = CallerOf(l) => k = l
<1>1. \A c \in Calls : KeyOf(c) \in Buckets /\ Subject(c) \in Subjects
  BY DEF Buckets, Subjects
<1>2. \A c \in Calls : CallerOf(KeyOf(c)) = Subject(c) /\ Subject(c).route = KeyOf(c).route
  BY LimiterAssumption DEF CallerOf, KeyOf, Subject
<1>3. \A k \in Buckets : CallerOf(k) \in Subjects
  BY <1>1, <1>2 DEF Buckets
<1>4. \A k \in Buckets : k = [route |-> k.route, key |-> k.key]
  BY DEF Buckets, KeyOf
<1>5. \A k, l \in Buckets : CallerOf(k) = CallerOf(l) => k = l
  BY <1>4 DEF CallerOf
<1> QED BY <1>1, <1>2, <1>3, <1>5

\* The limit of a bucket is positive.
LEMMA LimitOfBucket == \A k \in Buckets : Limit[k.route] \in Nat \ {0}
BY LimiterAssumption DEF Buckets, KeyOf, Routes

\* A fresh process has neither counted nor granted anything.
LEMMA NothingCounted ==
    ASSUME count = [k \in Buckets |-> 0], left = [k \in Buckets |-> 0],
           asked = Guarantee!Nothing, granted = Guarantee!Nothing
    PROVE  IInv
<1>1. TypeOK
  BY LimitOfBucket, LimiterAssumption DEF TypeOK
<1>2. CountersOK
  BY DEF CountersOK, Guarantee!Nothing
<1>3. ASSUME NEW k \in Buckets PROVE WindowOK(k)
  BY BucketIsCaller, LimitOfBucket, LimiterAssumption
     DEF WindowOK, ClosedOK, Guarantee!Nothing, Guarantee!Ages
<1> QED BY <1>1, <1>2, <1>3 DEF IInv

LEMMA InitIInv == Init => IInv
BY NothingCounted DEF Init, Guarantee!Init

-----------------------------------------------------------------------------
(* A request. *)

\* What one hit of c does to the bucket it is counted in and to what is
\* remembered of its caller.
LEMMA HitEffect ==
    ASSUME IInv, NEW c \in Calls, Hit(c)
    PROVE  LET k == KeyOf(c)
               s == Subject(c)
           IN /\ count'[k] = (IF count[k] > Limit[k.route] THEN count[k] ELSE count[k] + 1)
              /\ left'[k] = (IF left[k] = 0 THEN Window ELSE left[k])
              /\ \A a \in Guarantee!Ages : asked'[s][a] = asked[s][a] + 1
              /\ \A a \in Guarantee!Ages :
                    granted'[s][a] = IF count'[k] <= Limit[k.route]
                                     THEN granted[s][a] + 1 ELSE granted[s][a]
BY BucketIsCaller
   DEF IInv, TypeOK, CountersOK, Hit, Counted, LeftAfterHit, WithinLimit, Guarantee!Now

LEMMA HitTypes ==
    ASSUME IInv, NEW c \in Calls, Hit(c)
    PROVE  TypeOK' /\ CountersOK'
<1> DEFINE k == KeyOf(c)
<1>1. k \in Buckets /\ Limit[k.route] \in Nat \ {0} /\ Window \in Nat \ {0}
  BY BucketIsCaller, LimitOfBucket, LimiterAssumption
<1>2. TypeOK'
  BY <1>1, LimitOfBucket DEF IInv, TypeOK, Hit, Counted, LeftAfterHit
<1>3. CountersOK'
  BY BucketIsCaller DEF IInv, CountersOK, Hit, Guarantee!Now
<1> QED BY <1>2, <1>3

\* The other callers' windows are left alone.
LEMMA HitOthers ==
    ASSUME IInv, NEW c \in Calls, Hit(c), NEW k \in Buckets, k # KeyOf(c)
    PROVE  WindowOK(k)'
<1>1. CallerOf(k) \in Subjects /\ CallerOf(k) # Subject(c)
  BY BucketIsCaller
<1>2. /\ count'[k] = count[k] /\ left'[k] = left[k]
      /\ asked'[CallerOf(k)] = asked[CallerOf(k)] /\ granted'[CallerOf(k)] = granted[CallerOf(k)]
  BY <1>1 DEF IInv, TypeOK, CountersOK, Hit, Guarantee!Now
<1> QED BY <1>2 DEF IInv, WindowOK, ClosedOK, OpenOK, OpenFor, Passed, WithinLimit

LEMMA HitOwn ==
    ASSUME IInv, NEW c \in Calls, Hit(c)
    PROVE  WindowOK(KeyOf(c))'
<1> DEFINE k == KeyOf(c)
           s == Subject(c)
           L == Limit[k.route]
<1>1. /\ k \in Buckets /\ L \in Nat \ {0} /\ Window \in Nat \ {0} /\ s \in Subjects
      /\ CallerOf(k) = s
  BY BucketIsCaller, LimitOfBucket, LimiterAssumption
<1>2. /\ count[k] \in Nat /\ left[k] \in 0 .. Window /\ (count[k] = 0 <=> left[k] = 0)
      /\ count[k] <= L + 1
  BY <1>1 DEF IInv, TypeOK
<1>3. \A a \in Guarantee!Ages : asked[s][a] \in Nat /\ granted[s][a] \in Nat
  BY <1>1 DEF IInv, CountersOK
<1>4. WindowOK(k)
  BY <1>1 DEF IInv
<1>5. /\ count'[k] = (IF count[k] > L THEN count[k] ELSE count[k] + 1)
      /\ left'[k] = (IF left[k] = 0 THEN Window ELSE left[k])
      /\ \A a \in Guarantee!Ages : asked'[s][a] = asked[s][a] + 1
      /\ \A a \in Guarantee!Ages :
            granted'[s][a] = IF count'[k] <= L THEN granted[s][a] + 1 ELSE granted[s][a]
  BY HitEffect
<1>6. left'[k] # 0
  BY <1>1, <1>2, <1>5
<1>7. ASSUME NEW a \in Guarantee!Ages
      PROVE  /\ a < OpenFor(k)' => granted'[s][a] <= Passed(k)' - 1
             /\ a = OpenFor(k)' => granted'[s][a] <= Passed(k)'
             /\ a > OpenFor(k)' => granted'[s][a] <= Passed(k)' + L - 1
             /\ a >= OpenFor(k)' => asked'[s][a] >= count'[k]
  <2> HIDE DEF k, s, L
  <2>0. a \in 0 .. Window - 1
    BY DEF Guarantee!Ages
  <2>1. CASE left[k] = 0
    <3>1. granted[s][0] = 0 /\ granted[s][a] <= L - 1
      BY <1>1, <1>4, <2>1 DEF WindowOK, ClosedOK, L
    <3>2. OpenFor(k)' = 0 /\ Passed(k)' = 1 /\ count'[k] = 1
      BY <1>1, <1>2, <1>5, <2>1 DEF OpenFor, Passed, WithinLimit, L
    <3> QED BY <1>1, <1>3, <1>5, <2>0, <3>1, <3>2
  <2>2. CASE left[k] # 0
    <3>1. /\ a < OpenFor(k) => granted[s][a] <= Passed(k) - 1
          /\ a = OpenFor(k) => granted[s][a] <= Passed(k)
          /\ a > OpenFor(k) => granted[s][a] <= Passed(k) + L - 1
          /\ a >= OpenFor(k) => asked[s][a] >= count[k]
      BY <1>1, <1>4, <2>2 DEF WindowOK, OpenOK, L
    <3>2. OpenFor(k)' = OpenFor(k) /\ OpenFor(k) \in Int
      BY <1>1, <1>2, <1>5, <2>2 DEF OpenFor
    <3>3. Passed(k)' = (IF count'[k] <= L THEN Passed(k) + 1 ELSE Passed(k)) /\ Passed(k) \in Nat
      BY <1>1, <1>2, <1>5 DEF Passed, WithinLimit, L
    <3> QED BY <1>1, <1>2, <1>3, <1>5, <2>0, <3>1, <3>2, <3>3
  <2> QED BY <2>1, <2>2
<1> QED BY <1>1, <1>6, <1>7 DEF WindowOK, OpenOK

-----------------------------------------------------------------------------
(* Time. *)

LEMMA TickTypes ==
    ASSUME IInv, Tick
    PROVE  TypeOK' /\ CountersOK'
<1>1. TypeOK'
  BY LimiterAssumption, LimitOfBucket DEF IInv, TypeOK, Tick
<1>2. CountersOK'
  <2>1. ASSUME NEW f \in [Guarantee!Ages -> Nat] PROVE Guarantee!Older(f) \in [Guarantee!Ages -> Nat]
    BY LimiterAssumption DEF Guarantee!Older, Guarantee!Ages
  <2> QED BY <2>1 DEF IInv, CountersOK, Tick, Guarantee!Tick
<1> QED BY <1>1, <1>2

LEMMA TickWindow ==
    ASSUME IInv, Tick, NEW k \in Buckets
    PROVE  WindowOK(k)'
<1> DEFINE s == CallerOf(k)
           L == Limit[k.route]
<1>1. L \in Nat \ {0} /\ Window \in Nat \ {0} /\ s \in Subjects
  BY BucketIsCaller, LimitOfBucket, LimiterAssumption
<1>2. /\ count[k] \in Nat /\ left[k] \in 0 .. Window /\ (count[k] = 0 <=> left[k] = 0)
      /\ count[k] <= L + 1
  BY DEF IInv, TypeOK
<1>3. \A a \in Guarantee!Ages : asked[s][a] \in Nat /\ granted[s][a] \in Nat
  BY <1>1 DEF IInv, CountersOK
<1>4. WindowOK(k)
  BY DEF IInv
<1>5. /\ left'[k] = (IF left[k] = 0 THEN 0 ELSE left[k] - 1)
      /\ count'[k] = (IF left'[k] = 0 THEN 0 ELSE count[k])
  BY DEF Tick
<1>6. \A a \in Guarantee!Ages :
         /\ asked'[s][a] = (IF a = 0 THEN 0 ELSE asked[s][a - 1])
         /\ granted'[s][a] = (IF a = 0 THEN 0 ELSE granted[s][a - 1])
  BY <1>1 DEF Tick, Guarantee!Tick, Guarantee!Older
<1>7. ASSUME NEW a \in Guarantee!Ages
      PROVE  a = 0 \/ (a - 1 \in Guarantee!Ages /\ a - 1 \in 0 .. Window - 2)
  BY <1>1 DEF Guarantee!Ages
<1> HIDE DEF s, L
<1>8. Passed(k) \in Nat /\ Passed(k) <= L /\ OpenFor(k) \in Int
  BY <1>1, <1>2 DEF Passed, WithinLimit, OpenFor, L
<1>9. CASE left'[k] = 0
  <2>1. ASSUME NEW a \in Guarantee!Ages PROVE granted'[s][a] <= L - 1
    <3>1. CASE a = 0
      BY <1>1, <1>6, <3>1
    <3>2. CASE a # 0 /\ left[k] = 0
      BY <1>4, <1>6, <1>7, <3>2 DEF WindowOK, ClosedOK, s, L
    <3>3. CASE a # 0 /\ left[k] # 0
      <4>1. a - 1 < OpenFor(k)
        BY <1>1, <1>2, <1>5, <1>7, <1>9, <3>3 DEF OpenFor
      <4>2. granted[s][a - 1] <= Passed(k) - 1
        BY <1>4, <1>7, <3>3, <4>1 DEF WindowOK, OpenOK, s
      <4>3. granted[s][a - 1] \in Nat /\ granted'[s][a] = granted[s][a - 1]
        BY <1>3, <1>6, <1>7, <3>3
      <4> QED BY <1>1, <1>8, <4>2, <4>3
    <3> QED BY <3>1, <3>2, <3>3
  <2>2. 0 \in Guarantee!Ages
    BY <1>1 DEF Guarantee!Ages
  <2> QED BY <1>6, <1>9, <2>1, <2>2 DEF WindowOK, ClosedOK, s, L
<1>10. CASE left'[k] # 0
  <2>1. left[k] # 0 /\ left'[k] = left[k] - 1 /\ count'[k] = count[k]
    BY <1>2, <1>5, <1>10
  <2>2. Passed(k)' = Passed(k) /\ OpenFor(k)' = OpenFor(k) + 1 /\ OpenFor(k)' > 0
    BY <1>1, <1>2, <2>1 DEF Passed, WithinLimit, OpenFor
  <2>3. Passed(k) >= 1
    BY <1>1, <1>2, <2>1 DEF Passed, WithinLimit, L
  <2>4. ASSUME NEW a \in Guarantee!Ages
        PROVE  /\ a < OpenFor(k)' => granted'[s][a] <= Passed(k)' - 1
               /\ a = OpenFor(k)' => granted'[s][a] <= Passed(k)'
               /\ a > OpenFor(k)' => granted'[s][a] <= Passed(k)' + L - 1
               /\ a >= OpenFor(k)' => asked'[s][a] >= count'[k]
    <3>1. CASE a = 0
      BY <1>6, <1>8, <2>2, <2>3, <3>1
    <3>2. CASE a # 0
      <4>1. /\ a - 1 < OpenFor(k) => granted[s][a - 1] <= Passed(k) - 1
            /\ a - 1 = OpenFor(k) => granted[s][a - 1] <= Passed(k)
            /\ a - 1 > OpenFor(k) => granted[s][a - 1] <= Passed(k) + L - 1
            /\ a - 1 >= OpenFor(k) => asked[s][a - 1] >= count[k]
        BY <1>4, <1>7, <2>1, <3>2 DEF WindowOK, OpenOK, s, L
      <4>2. asked'[s][a] = asked[s][a - 1] /\ granted'[s][a] = granted[s][a - 1] /\ a \in Int
        BY <1>1, <1>6, <3>2 DEF Guarantee!Ages
      <4> QED BY <1>8, <2>1, <2>2, <4>1, <4>2
    <3> QED BY <3>1, <3>2
  <2> QED BY <1>10, <2>4 DEF WindowOK, OpenOK, s, L
<1> QED BY <1>9, <1>10

-----------------------------------------------------------------------------
LEMMA NextIInv == IInv /\ [Next]_vars => IInv'
<1> SUFFICES ASSUME IInv, [Next]_vars PROVE IInv'
  OBVIOUS
<1>1. ASSUME NEW c \in Calls, Hit(c) PROVE IInv'
  BY <1>1, HitTypes, HitOthers, HitOwn DEF IInv
<1>2. CASE Tick
  BY <1>2, TickTypes, TickWindow DEF IInv
<1>3. CASE Restart
  <2>1. /\ count' = [k \in Buckets |-> 0] /\ left' = [k \in Buckets |-> 0]
        /\ asked' = Guarantee!Nothing /\ granted' = Guarantee!Nothing
    BY <1>3 DEF Restart, Guarantee!Restart
  <2>2. TypeOK'
    BY <2>1, LimitOfBucket, LimiterAssumption DEF TypeOK
  <2>3. CountersOK'
    BY <2>1 DEF CountersOK, Guarantee!Nothing
  <2>4. ASSUME NEW k \in Buckets PROVE WindowOK(k)'
    BY <2>1, BucketIsCaller, LimitOfBucket, LimiterAssumption
       DEF WindowOK, ClosedOK, Guarantee!Nothing, Guarantee!Ages
  <2> QED BY <2>2, <2>3, <2>4 DEF IInv
<1>4. CASE UNCHANGED vars
  BY <1>4 DEF vars, IInv, TypeOK, CountersOK, WindowOK, ClosedOK, OpenOK, OpenFor, Passed, WithinLimit
<1> QED BY <1>1, <1>2, <1>3, <1>4 DEF Next

LEMMA Invariance == Spec => []IInv
BY InitIInv, NextIInv, PTL DEF Spec

\* A window runs exactly while it has counted something, and no count passes the
\* limit by more than one, whatever callers, limits and windows (LeftAfterHit and
\* Counted, over slowapi's storage).
THEOREM LimiterTypeCorrect == Spec => []TypeOK
<1>1. IInv => TypeOK
  BY DEF IInv
<1> QED BY <1>1, Invariance, PTL

-----------------------------------------------------------------------------
(* The refinement of Quota. *)

\* A request that passes is one more than the promise allows at most, and one
\* that is refused comes after as many as the promise grants at least.
LEMMA HitIsGrantOrRefuse ==
    ASSUME IInv, NEW c \in Calls, Hit(c)
    PROVE  Guarantee!Grant(Subject(c)) \/ Guarantee!Refuse(Subject(c))
<1> DEFINE k == KeyOf(c)
           s == Subject(c)
           L == Limit[k.route]
           last == Window - 1
<1>1. /\ k \in Buckets /\ L \in Nat \ {0} /\ Window \in Nat \ {0} /\ s \in Subjects
      /\ CallerOf(k) = s /\ s.route = k.route
  BY BucketIsCaller, LimitOfBucket, LimiterAssumption
<1>2. /\ count[k] \in Nat /\ left[k] \in 0 .. Window /\ (count[k] = 0 <=> left[k] = 0)
      /\ count[k] <= L + 1
  BY <1>1 DEF IInv, TypeOK
<1>3. last \in Guarantee!Ages /\ last \in Nat
  BY <1>1 DEF Guarantee!Ages
<1>4. asked[s][last] \in Nat /\ granted[s][last] \in Nat
  BY <1>1, <1>3 DEF IInv, CountersOK
<1>5. WindowOK(k)
  BY <1>1 DEF IInv
<1>6. count'[k] = IF count[k] > L THEN count[k] ELSE count[k] + 1
  BY HitEffect
<1>7. asked' = Guarantee!Now(asked, s)
  BY DEF Hit
<1>8. CASE count'[k] <= L
  <2>1. granted' = Guarantee!Now(granted, s)
    BY <1>8 DEF Hit, WithinLimit
  <2>2. granted[s][last] <= 2 * L - 2
    <3>1. CASE left[k] = 0
      BY <1>1, <1>3, <1>4, <1>5, <3>1 DEF WindowOK, ClosedOK
    <3>2. CASE left[k] # 0
      <4>1. Passed(k) = count[k] /\ count[k] <= L - 1
        BY <1>1, <1>2, <1>6, <1>8 DEF Passed, WithinLimit
      <4>2. OpenFor(k) \in Int
        BY <1>1, <1>2 DEF OpenFor
      <4>3. granted[s][last] <= Passed(k) + L - 1
        <5>1. /\ last < OpenFor(k) => granted[s][last] <= Passed(k) - 1
              /\ last = OpenFor(k) => granted[s][last] <= Passed(k)
              /\ last > OpenFor(k) => granted[s][last] <= Passed(k) + L - 1
          BY <1>1, <1>3, <1>5, <3>2 DEF WindowOK, OpenOK
        <5> HIDE DEF k, s, L, last
        <5> QED BY <1>1, <1>2, <1>3, <1>4, <4>1, <4>2, <5>1
      <4> HIDE DEF k, s, L, last
      <4> QED BY <1>1, <1>2, <1>4, <4>1, <4>3
    <3> QED BY <3>1, <3>2
  <2>3. Guarantee!Grant(s)
    <3>1. Guarantee!Total(granted[s]) < 2 * Limit[s.route] - 1
      BY <1>1, <1>4, <2>2 DEF Guarantee!Total
    <3> QED BY <1>1, <1>7, <2>1, <3>1 DEF Guarantee!Grant
  <2> QED BY <2>3
<1>9. CASE ~(count'[k] <= L)
  <2>1. UNCHANGED granted
    BY <1>9 DEF Hit, WithinLimit
  <2>2. count[k] >= L /\ left[k] # 0
    BY <1>1, <1>2, <1>6, <1>9
  <2>3. last >= OpenFor(k)
    BY <1>1, <1>2, <2>2 DEF OpenFor
  <2>4. asked[s][last] >= count[k]
    BY <1>1, <1>3, <1>5, <2>2, <2>3 DEF WindowOK, OpenOK
  <2>5. Guarantee!Total(asked[s]) >= Limit[s.route]
    <3>1. asked[s][last] >= L
      BY <1>1, <1>2, <1>4, <2>2, <2>4
    <3> QED BY <1>1, <3>1 DEF Guarantee!Total
  <2> QED BY <1>1, <1>7, <2>1, <2>5 DEF Guarantee!Refuse
<1> QED BY <1>8, <1>9

LEMMA QuotaStep == IInv /\ [Next]_vars => [Guarantee!Next]_(Guarantee!vars)
<1> SUFFICES ASSUME IInv, [Next]_vars PROVE [Guarantee!Next]_(Guarantee!vars)
  OBVIOUS
<1>1. ASSUME NEW c \in Calls, Hit(c) PROVE Guarantee!Next
  <2>1. Subject(c) \in Subjects
    BY BucketIsCaller
  <2> QED BY <1>1, <2>1, HitIsGrantOrRefuse DEF Guarantee!Next
<1>2. Tick => Guarantee!Next
  BY DEF Tick, Guarantee!Next
<1>3. Restart => Guarantee!Next
  BY DEF Restart, Guarantee!Next
<1>4. UNCHANGED vars => UNCHANGED Guarantee!vars
  BY DEF vars, Guarantee!vars
<1> QED BY <1>1, <1>2, <1>3, <1>4 DEF Next

\* Fixed windows that open with the first request are a limit over every period
\* of the same length: who keeps to the limit is never refused, and no period
\* sees more than 2 * Limit - 1 requests of one caller, for any limit, any length
\* of the windows and any callers (the decorators of access.py and auth.py).
THEOREM LimiterImplementsQuota == Spec => ImplementsQuota
<1>1. Init => Guarantee!Init
  BY DEF Init
<1>2. Spec => Guarantee!Spec
  BY <1>1, Invariance, QuotaStep, PTL DEF Spec, Guarantee!Spec
<1> QED BY <1>2 DEF ImplementsQuota
=============================================================================
