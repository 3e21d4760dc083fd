---------------------------- MODULE ClientProofs ----------------------------
(***************************************************************************)
(* What becomes of an exchange of probes, up to what is shown.             *)
(*                                                                         *)
(* An exchange that Probes::reply hands to the estimator is sound for any  *)
(* size of the ring, however replies are lost, repeated and reordered; a   *)
(* mapping fitted to such exchanges is no further from the leader's clock  *)
(* than it claims, and is not moved by single outliers.  A frame is shown  *)
(* no further ahead than frames come, a position advances by the exact     *)
(* motion, and labels count without a gap, for every format and rate.      *)
(***************************************************************************)
EXTENDS Measurement, Presentation, CoreProofs

(* The largest, and the smallest, of integers with finitely many indices.  *)
LEMMA LargestOf ==
  ASSUME NEW N \in Nat, NEW D \in SUBSET (0..N), D # {}, NEW f \in [D -> Int]
  PROVE  \E m \in D : \A i \in D : f[i] <= f[m]
<1> DEFINE Upto(k) == {i \in D : i <= k}
           Bad == {k \in 0..N : /\ Upto(k) # {}
                                 /\ ~ \E m \in Upto(k) : \A i \in Upto(k) : f[i] <= f[m]}
<1> SUFFICES ASSUME ~ \E m \in D : \A i \in D : f[i] <= f[m] PROVE FALSE
  OBVIOUS
<1>0. \A i \in D : i \in Nat /\ i <= N
  OBVIOUS
<1>1. Upto(N) = D
  BY <1>0
<1>2. SUFFICES ASSUME Bad # {} PROVE FALSE
  <2>1. N \in 0..N
    OBVIOUS
  <2>2. N \notin Bad
    BY <1>2
  <2> QED
    BY <1>1, <2>1, <2>2
<1>3. PICK k \in Bad : \A j \in Bad : k <= j
  <2>1. Bad \in SUBSET Nat
    OBVIOUS
  <2> HIDE DEF Bad
  <2> QED
    BY <1>2, <2>1, MinNat
<1>4. k \in 0..N /\ Upto(k) # {}
  BY <1>3
<1>5. CASE k \notin D
  <2>1. \A i \in D : i <= k => i <= k - 1
    BY <1>0, <1>4, <1>5
  <2>2. \A i \in D : i <= k - 1 => i <= k
    BY <1>0, <1>4
  <2>3. Upto(k - 1) = Upto(k)
    BY <2>1, <2>2
  <2>4. k # 0
    <3>1. PICK i \in D : i <= k
      BY <1>4
    <3> QED
      BY <1>0, <1>5, <3>1
  <2>5. k - 1 \in 0..N
    BY <1>4, <2>4
  <2>6. k - 1 \in Bad
    BY <1>3, <2>3, <2>5
  <2> QED
    BY <1>3, <1>4, <2>5, <2>6
<1>6. CASE k \in D /\ \A i \in Upto(k) : f[i] <= f[k]
  BY <1>3, <1>4, <1>6
<1>7. CASE k \in D /\ \E i \in Upto(k) : ~(f[i] <= f[k])
  <2>1. PICK i \in Upto(k) : ~(f[i] <= f[k])
    BY <1>7
  <2>2. f[i] \in Int /\ f[k] \in Int /\ i \in D /\ i # k /\ i <= k /\ i \in Nat
    BY <1>4, <1>7, <2>1
  <2>3. i \in Upto(k - 1) /\ k - 1 \in 0..N
    BY <1>4, <2>2
  <2>4. k - 1 \notin Bad
    <3>1. k \in Int /\ ~(k <= k - 1)
      BY <1>4
    <3> HIDE DEF Bad
    <3> QED
      BY <1>3, <3>1
  <2>5. PICK m \in Upto(k - 1) : \A j \in Upto(k - 1) : f[j] <= f[m]
    BY <2>3, <2>4
  <2>6. \A j \in Upto(k) : j = k \/ j \in Upto(k - 1)
    BY <1>4
  <2>7. f[i] <= f[m] /\ f[m] \in Int /\ m \in Upto(k)
    BY <1>4, <2>3, <2>5
  <2>8. f[k] <= f[m]
    BY <2>1, <2>2, <2>7
  <2>9. \A j \in Upto(k) : f[j] <= f[m]
    BY <2>5, <2>6, <2>8
  <2> QED
    BY <1>3, <2>7, <2>9
<1> QED
  BY <1>5, <1>6, <1>7

LEMMA MaxOf ==
  ASSUME NEW N \in Nat, NEW D \in SUBSET (0..N), D # {}, NEW f \in [D -> Int]
  PROVE  /\ Max({f[i] : i \in D}) \in {f[i] : i \in D}
         /\ \A i \in D : f[i] <= Max({f[j] : j \in D})
<1> DEFINE S == {f[i] : i \in D}
<1>1. PICK m \in D : \A i \in D : f[i] <= f[m]
  BY LargestOf
<1>2. f[m] \in S /\ \A y \in S : f[m] >= y
  BY <1>1
<1>3. Max(S) \in S /\ \A y \in S : Max(S) >= y
  <2> HIDE DEF S
  <2> QED
    BY <1>2 DEF Max
<1> QED
  BY <1>3

LEMMA MinOf ==
  ASSUME NEW N \in Nat, NEW D \in SUBSET (0..N), D # {}, NEW f \in [D -> Int]
  PROVE  /\ Min({f[i] : i \in D}) \in {f[i] : i \in D}
         /\ \A i \in D : Min({f[j] : j \in D}) <= f[i]
<1> DEFINE S == {f[i] : i \in D}
           g == [i \in D |-> -f[i]]
<1>1. g \in [D -> Int]
  OBVIOUS
<1>2. PICK m \in D : \A i \in D : g[i] <= g[m]
  <2> HIDE DEF g
  <2> QED
    BY <1>1, LargestOf
<1>3. f[m] \in S /\ \A y \in S : f[m] =< y
  BY <1>2
<1>4. Min(S) \in S /\ \A y \in S : Min(S) =< y
  <2> HIDE DEF S
  <2> QED
    BY <1>3 DEF Min
<1> QED
  BY <1>4

(* What the fold over the history computes is a number.                    *)
Totals(val, k, g) ==
  /\ g \in [SUBSET (1..k) -> Int]
  /\ \A T \in SUBSET (1..k) :
       g[T] = IF T = {} THEN 0 ELSE g[T \ {Max(T)}] + val[Max(T)]

LEMMA TotalsExtend ==
  ASSUME NEW n \in Nat, NEW val \in [1..n -> Int], NEW m \in 1..n,
         NEW g, Totals(val, m - 1, g)
  PROVE  \E h : Totals(val, m, h)
<1> DEFINE h == [T \in SUBSET (1..m) |-> IF m \in T THEN g[T \ {m}] + val[m] ELSE g[T]]
<1>1. ASSUME NEW T \in SUBSET (1..m), m \in T
      PROVE  /\ h[T] \in Int /\ T # {} /\ Max(T) = m
             /\ h[T] = h[T \ {m}] + val[m]
  <2>1. Max(T) \in T /\ \A d \in T : d <= Max(T)
    <3>1. T \in SUBSET (0..m) /\ T # {} /\ m \in Nat
      BY <1>1
    <3> QED
      BY <3>1, MaxBounded
  <2>2. Max(T) = m
    <3>1. Max(T) \in 1..m /\ m <= Max(T)
      BY <1>1, <2>1
    <3> QED
      BY <3>1
  <2>3. T \ {m} \in SUBSET (1..(m - 1)) /\ T \ {m} \in SUBSET (1..m) /\ m \notin T \ {m}
    OBVIOUS
  <2>4. g[T \ {m}] \in Int /\ val[m] \in Int
    BY <2>3 DEF Totals
  <2>5. h[T] = g[T \ {m}] + val[m] /\ h[T \ {m}] = g[T \ {m}]
    BY <1>1, <2>3
  <2> QED
    BY <1>1, <2>2, <2>4, <2>5
<1>2. ASSUME NEW T \in SUBSET (1..m), m \notin T
      PROVE  /\ h[T] \in Int
             /\ h[T] = IF T = {} THEN 0 ELSE h[T \ {Max(T)}] + val[Max(T)]
  <2>1. T \in SUBSET (1..(m - 1))
    BY <1>2
  <2>2. /\ T \ {Max(T)} \in SUBSET (1..(m - 1)) /\ T \ {Max(T)} \in SUBSET (1..m)
        /\ m \notin T \ {Max(T)}
    BY <1>2, <2>1
  <2>3. h[T] = g[T] /\ h[T \ {Max(T)}] = g[T \ {Max(T)}]
    BY <1>2, <2>2
  <2> QED
    BY <2>1, <2>3 DEF Totals
<1>3. h \in [SUBSET (1..m) -> Int]
  <2>1. \A T \in SUBSET (1..m) : (IF m \in T THEN g[T \ {m}] + val[m] ELSE g[T]) \in Int
    BY <1>1, <1>2
  <2> QED
    BY <2>1
<1>4. Totals(val, m, h)
  <2> HIDE DEF h
  <2> QED
    BY <1>1, <1>2, <1>3 DEF Totals
<1> QED
  BY <1>4

LEMMA TotalsExist ==
  ASSUME NEW n \in Nat, NEW val \in [1..n -> Int]
  PROVE  \E g : Totals(val, n, g)
<1> DEFINE Bad == {k \in 0..n : ~ \E g : Totals(val, k, g)}
<1>1. SUFFICES ASSUME Bad # {} PROVE FALSE
  <2>1. n \in 0..n
    OBVIOUS
  <2> QED
    BY <2>1
<1>2. PICK m \in Bad : \A k \in Bad : m <= k
  <2>1. Bad \in SUBSET Nat
    OBVIOUS
  <2> HIDE DEF Bad
  <2> QED
    BY <1>1, <2>1, MinNat
<1>3. m \in 0..n /\ ~ \E g : Totals(val, m, g)
  BY <1>2
<1>4. CASE m = 0
  <2> DEFINE g == [T \in SUBSET (1..0) |-> 0]
  <2>1. 1..0 = {}
    OBVIOUS
  <2>2. g \in [SUBSET (1..0) -> Int] /\ \A T \in SUBSET (1..0) : g[T] = 0 /\ T = {}
    BY <2>1
  <2>3. Totals(val, 0, g)
    <3> HIDE DEF g
    <3> QED
      BY <2>2 DEF Totals
  <2> QED
    BY <1>3, <1>4, <2>3
<1>5. CASE m # 0
  <2>1. m \in 1..n /\ m - 1 \in 0..n
    BY <1>3, <1>5
  <2>2. m - 1 \notin Bad
    BY <1>2, <2>1
  <2>3. PICK g : Totals(val, m - 1, g)
    BY <2>1, <2>2
  <2> QED
    BY <1>3, <2>1, <2>3, TotalsExtend
<1> QED
  BY <1>4, <1>5

LEMMA SumIsInt ==
  ASSUME NEW s, NEW n \in Nat, DOMAIN s = 1..n, \A i \in 1..n : s[i].offset \in Int,
         NEW chosen
  PROVE  OffsetSum(s, chosen) \in Int
<1> DEFINE dom == [i \in DOMAIN s |-> i]
           val == [i \in 1..n |-> IF i \in chosen THEN s[i].offset ELSE 0]
           rec(iter) == [T \in SUBSET DOMAIN dom |->
                           IF T = {} THEN 0
                           ELSE iter[T \ {Max(T)}]
                                  + (IF dom[Max(T)] \in chosen THEN s[dom[Max(T)]].offset ELSE 0)]
           fold == CHOOSE iter : iter = rec(iter)
<1>1. OffsetSum(s, chosen) = fold[DOMAIN dom]
  BY Zenon DEF OffsetSum, FoldLeftDomain, FoldLeft, MapThenFoldSet
<1>2. DOMAIN dom = 1..n /\ \A i \in 1..n : dom[i] = i
  OBVIOUS
<1>3. val \in [1..n -> Int] /\ \A i \in 1..n : val[i] = IF i \in chosen THEN s[i].offset ELSE 0
  OBVIOUS
<1> HIDE DEF dom, val
<1>4. PICK g : Totals(val, n, g)
  BY <1>3, TotalsExist
<1>5. ASSUME NEW T \in SUBSET (1..n), T # {} PROVE Max(T) \in 1..n
  <2>1. T \in SUBSET (0..n)
    OBVIOUS
  <2> QED
    BY <1>5, <2>1, MaxBounded
<1>6. \A iter : rec(iter) = [T \in SUBSET (1..n) |->
                               IF T = {} THEN 0 ELSE iter[T \ {Max(T)}] + val[Max(T)]]
  BY <1>2, <1>3, <1>5, ZenonT(40)
<1>7. g = rec(g)
  BY <1>4, <1>6, ZenonT(40) DEF Totals
<1>8. fold = rec(fold)
  <2> HIDE DEF rec
  <2> QED
    BY <1>7
<1> HIDE DEF fold
<1>9. DOMAIN fold = SUBSET (1..n)
  BY <1>6, <1>8
<1>10. \A T \in SUBSET (1..n) :
         fold[T] = IF T = {} THEN 0 ELSE fold[T \ {Max(T)}] + val[Max(T)]
  <2> HIDE DEF rec
  <2> QED
    BY <1>6, <1>8, Zenon
<1> DEFINE Bad == {k \in 0..n : fold[1..k] \notin Int}
<1>11. SUFFICES ASSUME Bad # {} PROVE FALSE
  <2>1. n \in 0..n
    OBVIOUS
  <2>2. fold[1..n] \in Int
    BY <2>1
  <2> QED
    BY <1>1, <1>2, <2>2, Zenon
<1>12. PICK m \in Bad : \A k \in Bad : m <= k
  <2>1. Bad \in SUBSET Nat
    OBVIOUS
  <2> HIDE DEF Bad
  <2> QED
    BY <1>11, <2>1, MinNat
<1>13. m \in 0..n /\ fold[1..m] \notin Int
  BY <1>12
<1>14. m # 0
  <2>1. 1..0 = {} /\ {} \in SUBSET (1..n)
    OBVIOUS
  <2>2. fold[{}] = 0
    BY <1>10, <2>1
  <2> QED
    BY <1>13, <2>1, <2>2
<1>15. m \in 1..n /\ m - 1 \in 0..n /\ m - 1 \notin Bad
  BY <1>12, <1>13, <1>14
<1>16. 1..m \in SUBSET (1..n) /\ 1..m # {} /\ 1..m \in SUBSET (0..m) /\ m \in Nat /\ m \in 1..m
  <2>1. m \in Nat /\ 1 <= m /\ m <= n
    BY <1>15
  <2>2. m \in 1..m
    BY <2>1
  <2>3. 1..m \subseteq 1..n /\ 1..m \subseteq 0..m
    BY <2>1
  <2> QED
    BY <2>1, <2>2, <2>3
<1>17. Max(1..m) = m
  <2>1. Max(1..m) \in 1..m /\ \A d \in 1..m : d <= Max(1..m)
    BY <1>16, MaxBounded
  <2> QED
    BY <1>16, <2>1
<1>18. (1..m) \ {m} = 1..(m - 1)
  BY <1>16
<1>19. fold[1..m] = fold[1..(m - 1)] + val[m]
  BY <1>10, <1>16, <1>17, <1>18
<1>20. fold[1..(m - 1)] \in Int /\ val[m] \in Int
  BY <1>3, <1>15
<1> QED
  BY <1>13, <1>19, <1>20

-----------------------------------------------------------------------------
(* The estimator.  A sample is wrong by half of its delay at most; all     *)
(* that is fitted to one leader clock is as honest as its samples.         *)
Sample ==
  {x \in [age : Nat, offset : Int, delay : Int, leads : Int] :
     Distance(x.offset, 2 * x.leads) <= x.delay}

HonestTo(m, l) ==
  /\ Distance(m.offset, 2 * l) <= m.radius
  /\ m.lower <= 2 * l /\ 2 * l <= m.upper

MappingOK(m) ==
  /\ m.sampled \in BOOLEAN /\ m.converged \in BOOLEAN
  /\ m.offset \in Int /\ m.radius \in Int /\ m.age \in Nat
  /\ m.lower \in Int /\ m.upper \in Int
  /\ m.sampled => \A l \in Int : m.leads = {l} => HonestTo(m, l)

HonestInv ==
  /\ leads \in Int /\ samples \in Seq(Sample) /\ recovery \in Seq(Sample)
  /\ MappingOK(mapping)

LEMMA AgedSamples ==
  ASSUME NEW s \in Seq(Sample), NEW step \in Nat
  PROVE  Aged(s, step) \in Seq(Sample) /\ Len(Aged(s, step)) = Len(s)
<1>1. Len(s) \in Nat /\ DOMAIN s = 1..Len(s) /\ \A i \in 1..Len(s) : s[i] \in Sample
  OBVIOUS
<1>2. ASSUME NEW i \in 1..Len(s) PROVE [s[i] EXCEPT !.age = @ + step] \in Sample
  <2> DEFINE x == s[i]
             y == [s[i] EXCEPT !.age = @ + step]
  <2>1. x \in [age : Nat, offset : Int, delay : Int, leads : Int]
        /\ Distance(x.offset, 2 * x.leads) <= x.delay
    BY <1>1 DEF Sample
  <2>2. y \in [age : Nat, offset : Int, delay : Int, leads : Int]
        /\ y.offset = x.offset /\ y.delay = x.delay /\ y.leads = x.leads
    BY <2>1
  <2> HIDE DEF x, y
  <2>3. y \in Sample
    BY <2>1, <2>2 DEF Sample
  <2> QED
    BY <2>3 DEF y
<1>3. Aged(s, step) \in [1..Len(s) -> Sample]
  BY <1>1, <1>2 DEF Aged
<1> QED
  BY <1>1, <1>3

LEMMA KeptSamples ==
  ASSUME NEW S, NEW s \in Seq(S), NEW n \in Nat \ {0}
  PROVE  /\ Keep(s, n) \in Seq(S)
         /\ s # <<>> => Keep(s, n) # <<>>
<1> DEFINE first == Larger(1, Len(s) - n + 1)
<1>1. Len(s) \in Nat /\ first \in Nat \ {0}
  BY DEF Larger
<1>2. s # <<>> => first <= Len(s)
  BY DEF Larger
<1> HIDE DEF first
<1>3. SubSeq(s, first, Len(s)) \in Seq(S)
  BY <1>1
<1>4. first <= Len(s) => Len(SubSeq(s, first, Len(s))) = Len(s) - first + 1
  BY <1>1
<1>5. SubSeq(s, first, Len(s)) = <<>> => Len(SubSeq(s, first, Len(s))) = 0
  OBVIOUS
<1>6. s # <<>> => SubSeq(s, first, Len(s)) # <<>>
  BY <1>1, <1>2, <1>4, <1>5
<1> QED
  BY <1>3, <1>6 DEF Keep, first

LEMMA RecentSamples ==
  ASSUME samples \in Seq(Sample), NEW step \in Nat
  PROVE  Recent(step) \in Seq(Sample)
<1> DEFINE aged == Aged(samples, step)
           kept == {i \in 1 .. Len(aged) + 1 : i \in DOMAIN aged => aged[i].age <= HISTORY}
<1>1. aged \in Seq(Sample) /\ Len(aged) \in Nat
  BY AgedSamples
<1> HIDE DEF aged
<1>2. kept \in SUBSET Nat /\ Len(aged) + 1 \in kept /\ kept \subseteq 1 .. Len(aged) + 1
  BY <1>1
<1>3. Min(kept) \in kept
  <2> HIDE DEF kept
  <2> QED
    BY <1>2, MinNat
<1>4. Min(kept) \in 1 .. Len(aged) + 1
  <2> HIDE DEF kept
  <2> QED
    BY <1>2, <1>3
<1>5. SubSeq(aged, Min(kept), Len(aged)) \in Seq(Sample)
  <2> HIDE DEF kept
  <2> QED
    BY <1>1, <1>4
<1> QED
  BY <1>5 DEF Recent, aged

(* The fit uses some sample, and what it uses is finite.                   *)
LEMMA SelectionNonempty ==
  ASSUME NEW s \in Seq(Sample), s # <<>>
  PROVE  /\ Selection(s) \subseteq DOMAIN s /\ Selection(s) # {}
         /\ Cardinality(Selection(s)) \in Nat \ {0}
<1> DEFINE n == Min({Len(s), Larger(Len(s) \div 2, SELECTED)})
           Before(j, i) == s[j].delay < s[i].delay \/ (s[j].delay = s[i].delay /\ j > i)
           delay == [i \in DOMAIN s |-> -s[i].delay]
<1>1. /\ Len(s) \in Nat \ {0} /\ DOMAIN s = 1..Len(s)
      /\ DOMAIN s \in SUBSET (0..Len(s)) /\ DOMAIN s # {}
      /\ \A i \in DOMAIN s : s[i] \in Sample
  <2>1. Len(s) \in Nat /\ DOMAIN s = 1..Len(s) /\ \A i \in 1..Len(s) : s[i] \in Sample
    OBVIOUS
  <2>2. Len(s) # 0
    OBVIOUS
  <2>3. 1..Len(s) # {} /\ 1..Len(s) \in SUBSET (0..Len(s))
    BY <2>1, <2>2, SMTT(30)
  <2> QED
    BY <2>1, <2>2, <2>3
<1>2. \A i \in DOMAIN s : s[i].delay \in Int
  BY <1>1 DEF Sample
<1>3. n \in Nat \ {0}
  <2>1. SELECTED \in Nat \ {0} /\ Len(s) \div 2 \in Nat
    BY <1>1, ClockAssumption
  <2>4. Larger(Len(s) \div 2, SELECTED) \in Nat \ {0}
    BY <2>1 DEF Larger
  <2>2. Min({Len(s), Larger(Len(s) \div 2, SELECTED)}) \in {Len(s), Larger(Len(s) \div 2, SELECTED)}
    <3>1. {Len(s), Larger(Len(s) \div 2, SELECTED)} \in SUBSET Nat
      BY <1>1, <2>4
    <3> QED
      BY <3>1, MinNat
  <2> QED
    BY <1>1, <2>4, <2>2
<1>4. PICK m \in DOMAIN s : \A i \in DOMAIN s : delay[i] <= delay[m]
  <2>1. delay \in [DOMAIN s -> Int]
    BY <1>2
  <2> HIDE DEF delay
  <2> QED
    BY <1>1, <2>1, LargestOf
<1>5. \A i \in DOMAIN s : s[m].delay <= s[i].delay
  BY <1>2, <1>4
<1> DEFINE D == {i \in DOMAIN s : s[i].delay = s[m].delay}
<1>6. D \in SUBSET (0..Len(s)) /\ D # {}
  BY <1>1
<1>7. Max(D) \in D /\ \A d \in D : d <= Max(D)
  <2> HIDE DEF D
  <2> QED
    BY <1>1, <1>6, MaxBounded
<1>8. Max(D) \in DOMAIN s /\ s[Max(D)].delay = s[m].delay /\ Max(D) \in Int
  BY <1>1, <1>7
<1>9. {j \in DOMAIN s : Before(j, Max(D))} = {}
  <2>1. SUFFICES ASSUME NEW j \in DOMAIN s, Before(j, Max(D)) PROVE FALSE
    OBVIOUS
  <2>2. s[j].delay = s[m].delay /\ j > Max(D)
    <3> HIDE DEF D
    <3> QED
      BY <1>2, <1>5, <1>8, <2>1
  <2>3. j \in D /\ j \in Int
    BY <1>1, <2>2
  <2>4. j <= Max(D)
    BY <1>7, <2>3
  <2> HIDE DEF D
  <2> QED
    BY <1>8, <2>2, <2>3, <2>4
<1>10. Cardinality({}) = 0
  BY FS_EmptySet
<1>11. Max(D) \in Selection(s)
  <2> HIDE DEF n, D
  <2>1. Cardinality({j \in DOMAIN s : Before(j, Max(D))}) < n
    <3>1. Cardinality({j \in DOMAIN s : Before(j, Max(D))}) = 0
      BY <1>9, <1>10, Zenon
    <3> QED
      BY <1>3, <3>1
  <2> QED
    BY <1>8, <2>1 DEF Selection, n
<1>12. Selection(s) \subseteq DOMAIN s
  BY DEF Selection
<1>13. IsFiniteSet(DOMAIN s)
  BY <1>1, FS_Interval
<1>14. /\ IsFiniteSet(Selection(s))
       /\ Cardinality(Selection(s)) \in Nat /\ Cardinality(Selection(s)) # 0
  <2>1. IsFiniteSet(Selection(s))
    BY <1>12, <1>13, FS_Subset
  <2> QED
    BY <1>11, <2>1, FS_CardinalityType, FS_EmptySet
<1> QED
  BY <1>11, <1>12, <1>14

LEMMA GrowthIsNat ==
  ASSUME NEW age \in Nat
  PROVE  Growth(age) \in Nat
<1>1. HOLDOVER \in Nat \ {0}
  BY ClockAssumption
<1> QED
  BY <1>1 DEF Growth

LEMMA FartherBy ==
  ASSUME NEW x \in Int, NEW y \in Int, NEW z \in Int, NEW d \in Int, NEW e \in Int,
         Distance(x, z) <= d, Distance(x, y) <= e
  PROVE  Distance(y, z) <= d + e /\ x - d <= z /\ z <= x + d
BY DEF Distance

(* The fit is as honest as the best sample it used, and its evidence as    *)
(* all of them: whatever was chosen, and whatever was fitted.              *)
LEMMA FittedHonest ==
  ASSUME NEW s \in Seq(Sample), s # <<>>, NEW chosen \in SUBSET DOMAIN s, chosen # {},
         NEW fit \in Int, NEW count
  PROVE  MappingOK(FittedTo(s, chosen, fit, count))
<1> DEFINE n == Len(s)
           bound == [i \in chosen |-> s[i].delay + 2 * Growth(s[i].age)]
           residual == [i \in chosen |-> Distance(s[i].offset, fit)]
           low == [i \in DOMAIN s |-> s[i].offset - s[i].delay - 2 * FLOOR]
           high == [i \in DOMAIN s |-> s[i].offset + s[i].delay + 2 * FLOOR]
           m == FittedTo(s, chosen, fit, count)
<1>1. /\ n \in Nat /\ DOMAIN s = 1..n /\ FLOOR \in Nat
      /\ DOMAIN s \in SUBSET (0..n) /\ DOMAIN s # {} /\ chosen \in SUBSET (0..n)
  <2>1. n \in Nat /\ DOMAIN s = 1..n
    OBVIOUS
  <2>2. n # 0
    OBVIOUS
  <2>3. FLOOR \in Nat
    BY ClockAssumption
  <2> HIDE DEF n
  <2>4. 1..n # {} /\ 1..n \in SUBSET (0..n)
    BY <2>1, <2>2
  <2> QED
    BY <2>1, <2>3, <2>4
<1>2. ASSUME NEW i \in DOMAIN s
      PROVE  /\ s[i].age \in Nat /\ s[i].offset \in Int /\ s[i].delay \in Int /\ s[i].leads \in Int
             /\ Distance(s[i].offset, 2 * s[i].leads) <= s[i].delay
             /\ Growth(s[i].age) \in Nat /\ Distance(s[i].offset, fit) \in Int
  <2>1. s[i] \in Sample
    OBVIOUS
  <2>2. s[i].age \in Nat /\ s[i].offset \in Int
    BY <2>1 DEF Sample
  <2>3. Distance(s[i].offset, fit) \in Int
    BY <2>2 DEF Distance
  <2> QED
    BY <2>1, <2>2, <2>3, GrowthIsNat DEF Sample
<1> HIDE DEF n
<1>3. bound \in [chosen -> Int] /\ residual \in [chosen -> Int]
  BY <1>2
<1>4. low \in [DOMAIN s -> Int] /\ high \in [DOMAIN s -> Int]
  <2>1. \A i \in DOMAIN s : /\ s[i].offset - s[i].delay - 2 * FLOOR \in Int
                           /\ s[i].offset + s[i].delay + 2 * FLOOR \in Int
    BY <1>1, <1>2, SMTT(30)
  <2> QED
    BY <2>1
<1>5. /\ Min({bound[i] : i \in chosen}) \in {bound[i] : i \in chosen}
      /\ \A i \in chosen : Min({bound[j] : j \in chosen}) <= bound[i]
  <2> HIDE DEF bound
  <2> QED
    BY <1>1, <1>3, MinOf
<1>6. /\ Max({residual[i] : i \in chosen}) \in {residual[i] : i \in chosen}
      /\ \A i \in chosen : residual[i] <= Max({residual[j] : j \in chosen})
  <2> HIDE DEF residual
  <2> QED
    BY <1>1, <1>3, MaxOf
<1>7. Max({low[i] : i \in DOMAIN s}) \in {low[i] : i \in DOMAIN s}
  <2> HIDE DEF low
  <2> QED
    BY <1>1, <1>4, MaxOf
<1>8. Min({high[i] : i \in DOMAIN s}) \in {high[i] : i \in DOMAIN s}
  <2> HIDE DEF high
  <2> QED
    BY <1>1, <1>4, MinOf
<1>9. /\ {bound[i] : i \in chosen} = {s[i].delay + 2 * Growth(s[i].age) : i \in chosen}
      /\ {residual[i] : i \in chosen} = {Distance(s[i].offset, fit) : i \in chosen}
      /\ {low[i] : i \in DOMAIN s} = {s[i].offset - s[i].delay - 2 * FLOOR : i \in DOMAIN s}
      /\ {high[i] : i \in DOMAIN s} = {s[i].offset + s[i].delay + 2 * FLOOR : i \in DOMAIN s}
  OBVIOUS
<1>10. PICK b \in chosen : bound[b] = Min({bound[i] : i \in chosen})
  BY <1>5
<1>11. PICK x \in DOMAIN s : low[x] = Max({low[i] : i \in DOMAIN s})
  BY <1>7
<1>12. PICK y \in DOMAIN s : high[y] = Min({high[i] : i \in DOMAIN s})
  BY <1>8
<1>13. PICK r \in chosen : residual[r] = Max({residual[i] : i \in chosen})
  BY <1>6
<1>14. /\ m.sampled = TRUE /\ m.offset = fit /\ m.age = 0
       /\ m.converged = (Len(s) >= CONVERGED /\ Oldest(s) >= SPAN)
       /\ m.leads = {s[i].leads : i \in DOMAIN s}
       /\ m.radius = bound[b] + residual[r] + 2 * FLOOR
       /\ m.lower = low[x] /\ m.upper = high[y]
  <2>1. m.radius = Radius(s, chosen, fit)
    BY DEF FittedTo
  <2>2. Radius(s, chosen, fit) = bound[b] + residual[r] + 2 * FLOOR
    BY <1>9, <1>10, <1>13, Zenon DEF Radius
  <2>3. m.lower = low[x]
    BY <1>9, <1>11, Zenon DEF FittedTo
  <2>4. m.upper = high[y]
    BY <1>9, <1>12, Zenon DEF FittedTo
  <2>5. /\ m.sampled = TRUE /\ m.offset = fit /\ m.age = 0
        /\ m.converged = (Len(s) >= CONVERGED /\ Oldest(s) >= SPAN)
        /\ m.leads = {s[i].leads : i \in DOMAIN s}
    BY DEF FittedTo
  <2> QED
    BY <2>1, <2>2, <2>3, <2>4, <2>5, Zenon
<1>15. bound[b] \in Int /\ residual[r] \in Int /\ low[x] \in Int /\ high[y] \in Int
  BY <1>3, <1>4
<1>16. ASSUME NEW l \in Int, m.leads = {l} PROVE HonestTo(m, l)
  <2>1. \A i \in DOMAIN s : s[i].leads = l
    BY <1>14, <1>16
  <2>2. Distance(s[b].offset, 2 * l) <= s[b].delay /\ s[b].delay \in Int /\ s[b].offset \in Int
    BY <1>2, <2>1
  <2>3. s[b].delay <= bound[b]
    <3>1. bound[b] = s[b].delay + 2 * Growth(s[b].age) /\ b \in DOMAIN s
      OBVIOUS
    <3>2. s[b].delay \in Int /\ Growth(s[b].age) \in Nat
      BY <1>2
    <3> HIDE DEF bound, residual, low, high, m
    <3> QED
      BY <3>1, <3>2
  <2>4. Distance(s[b].offset, fit) <= residual[r]
    <3>1. residual[b] <= residual[r]
      BY <1>6, <1>13
    <3> QED
      BY <3>1
  <2>5. Distance(fit, 2 * l) <= bound[b] + residual[r] + 2 * FLOOR
    <3>4. 2 * FLOOR \in Nat
      BY <1>1
    <3>5. bound[b] \in Int
      BY <1>15
    <3>1. residual[r] \in Int /\ 2 * l \in Int
      BY <1>15
    <3> HIDE DEF bound, residual
    <3>2. Distance(fit, 2 * l) <= s[b].delay + residual[r]
      BY <2>2, <2>4, <3>1, FartherBy
    <3>3. Distance(fit, 2 * l) \in Int
      BY DEF Distance
    <3> QED
      BY <2>2, <2>3, <3>1, <3>2, <3>3, <3>4, <3>5, SMTT(30)
  <2>6. low[x] <= 2 * l
    <3>1. low[x] = s[x].offset - s[x].delay - 2 * FLOOR
      OBVIOUS
    <3> HIDE DEF bound, residual, low, high, m
    <3>2. s[x].offset \in Int /\ s[x].delay \in Int /\ Distance(s[x].offset, 2 * l) <= s[x].delay
      BY <1>2, <2>1
    <3>3. s[x].offset - s[x].delay <= 2 * l /\ 2 * l <= s[x].offset + s[x].delay
      BY <3>2 DEF Distance
    <3> QED
      BY <1>1, <3>1, <3>2, <3>3
  <2>7. 2 * l <= high[y]
    <3>1. high[y] = s[y].offset + s[y].delay + 2 * FLOOR
      OBVIOUS
    <3> HIDE DEF bound, residual, low, high, m
    <3>2. s[y].offset \in Int /\ s[y].delay \in Int /\ Distance(s[y].offset, 2 * l) <= s[y].delay
      BY <1>2, <2>1
    <3>3. s[y].offset - s[y].delay <= 2 * l /\ 2 * l <= s[y].offset + s[y].delay
      BY <3>2 DEF Distance
    <3> QED
      BY <1>1, <3>1, <3>2, <3>3
  <2> HIDE DEF m, bound, residual, low, high
  <2> QED
    BY <1>14, <2>5, <2>6, <2>7 DEF HonestTo
<1> HIDE DEF m, bound, residual, low, high
<1>17. MappingOK(m)
  <2>1. m.sampled \in BOOLEAN /\ m.converged \in BOOLEAN
    BY <1>14, Zenon
  <2>2. m.offset \in Int /\ m.age \in Nat /\ m.lower \in Int /\ m.upper \in Int
    BY <1>14, <1>15
  <2>3. m.radius \in Int
    BY <1>1, <1>14, <1>15, SMTT(30)
  <2> QED
    BY <1>16, <2>1, <2>2, <2>3 DEF MappingOK
<1> QED
  BY <1>17 DEF m

LEMMA FitIsHonest ==
  ASSUME NEW s \in Seq(Sample), s # <<>>, NEW count
  PROVE  MappingOK(Fitted(s, count))
<1> DEFINE chosen == Selection(s)
           sum == OffsetSum(s, chosen)
<1>1. chosen \subseteq DOMAIN s /\ chosen # {} /\ Cardinality(chosen) \in Nat \ {0}
  BY SelectionNonempty
<1> HIDE DEF chosen
<1>2. sum \in Int
  <2>1. Len(s) \in Nat /\ DOMAIN s = 1..Len(s) /\ \A i \in 1..Len(s) : s[i].offset \in Int
    BY SMTT(30) DEF Sample
  <2> HIDE DEF chosen
  <2> QED
    BY <2>1, SumIsInt
<1> HIDE DEF sum
<1>3. sum \div Cardinality(chosen) \in Int
  BY <1>1, <1>2
<1>4. Fitted(s, count) = FittedTo(s, chosen, sum \div Cardinality(chosen), count)
  BY DEF Fitted, chosen, sum
<1> QED
  BY <1>1, <1>3, <1>4, FittedHonest

LEMMA AppendedSome ==
  ASSUME NEW S, NEW s \in Seq(S), NEW x \in S
  PROVE  Append(s, x) \in Seq(S) /\ Append(s, x) # <<>>
<1>1. Append(s, x) \in Seq(S) /\ Len(Append(s, x)) = Len(s) + 1 /\ Len(s) \in Nat
  OBVIOUS
<1>2. Len(Append(s, x)) # 0
  BY <1>1
<1> QED
  BY <1>1, <1>2

(* Every exchange keeps what the estimator says honest.                    *)
LEMMA ObserveHonest ==
  ASSUME HonestInv, NEW step \in Nat, NEW x \in Sample, Observe(step, x)
  PROVE  HonestInv'
<1>1. RUN_CAP \in Nat \ {0} /\ CAP \in Nat \ {0} /\ HISTORY \in Nat
  BY ClockAssumption
<1> DEFINE old == Recent(step)
           run == Quarantined(step, x)
<1>2. old \in Seq(Sample)
  BY RecentSamples DEF HonestInv
<1>3. run \in Seq(Sample) /\ run # <<>>
  <2> DEFINE aged == Aged(recovery, step)
             kept == IF aged # <<>> /\ SameRun(Head(aged), x) THEN aged ELSE <<>>
  <2>1. aged \in Seq(Sample)
    BY AgedSamples DEF HonestInv
  <2> HIDE DEF aged
  <2>2. kept \in Seq(Sample)
    BY <2>1
  <2> HIDE DEF kept
  <2>3. Append(kept, x) \in Seq(Sample) /\ Append(kept, x) # <<>>
    BY <2>2, AppendedSome
  <2>4. Keep(Append(kept, x), RUN_CAP) \in Seq(Sample) /\ Keep(Append(kept, x), RUN_CAP) # <<>>
    BY <1>1, <2>3, KeptSamples
  <2> QED
    BY <2>4 DEF Quarantined, kept, aged
<1> DEFINE new == Keep(Append(old, x), CAP)
<1>4. new \in Seq(Sample) /\ new # <<>>
  <2> HIDE DEF old
  <2>1. Append(old, x) \in Seq(Sample) /\ Append(old, x) # <<>>
    BY <1>2, AppendedSome
  <2> QED
    BY <1>1, <2>1, KeptSamples
<1> HIDE DEF old, run, new
<1>5. leads' = leads /\ (Rejects(old, step, run) \/ Replaces(run) \/ Accepts(old, step, x))
  BY DEF Observe, old, run
<1>6. leads' \in Int
  BY <1>5 DEF HonestInv
<1>7. CASE Rejects(old, step, run)
  <2>1. samples' \in Seq(Sample) /\ recovery' \in Seq(Sample)
    BY <1>2, <1>3, <1>7 DEF Rejects
  <2>2. mapping' = [mapping EXCEPT !.age = Min({mapping.age + step, HISTORY})]
    BY <1>7 DEF Rejects
  <2>3. Min({mapping.age + step, HISTORY}) \in Nat
    <3>1. {mapping.age + step, HISTORY} \in SUBSET Nat
      BY <1>1 DEF HonestInv, MappingOK
    <3> QED
      BY <3>1, MinNat
  <2>4. \/ mapping' = mapping
        \/ /\ mapping'.sampled = mapping.sampled /\ mapping'.converged = mapping.converged
           /\ mapping'.offset = mapping.offset /\ mapping'.radius = mapping.radius
           /\ mapping'.lower = mapping.lower /\ mapping'.upper = mapping.upper
           /\ mapping'.leads = mapping.leads
           /\ mapping'.age \in Nat
    BY <2>2, <2>3
  <2>5. MappingOK(mapping')
    BY <2>4 DEF HonestInv, MappingOK, HonestTo
  <2> QED
    BY <1>6, <2>1, <2>5 DEF HonestInv
<1>8. CASE Replaces(run)
  <2>1. MappingOK(Fitted(run, Len(run)))
    BY <1>3, FitIsHonest
  <2>2. <<>> \in Seq(Sample)
    OBVIOUS
  <2> QED
    BY <1>3, <1>6, <1>8, <2>1, <2>2 DEF HonestInv, Replaces
<1>9. CASE Accepts(old, step, x)
  <2>1. samples' = new /\ recovery' = <<>>
    BY <1>9 DEF Accepts, Cleared, new
  <2>2. MappingOK(mapping')
    BY <1>4, <1>9, <2>1, FitIsHonest DEF Accepts
  <2>3. <<>> \in Seq(Sample)
    OBVIOUS
  <2> QED
    BY <1>4, <1>6, <2>1, <2>2, <2>3 DEF HonestInv
<1> QED
  BY <1>5, <1>7, <1>8, <1>9

-----------------------------------------------------------------------------
(* The clock probes.  A slot of the ring holds one request.                *)
Ring == 0..SLOTS - 1

ProbesTypeOK ==
  /\ now \in Nat \ {0} /\ sequence \in Nat /\ open \in 0..sequence
  /\ outstanding \in [Ring -> [seq : Nat, t1 : Nat]]
  /\ publication \in [Ring -> Int]
  /\ sent \in [1..sequence -> [t1 : Nat \ {0}, took : Int]]
  /\ exchanges \subseteq
       [seq : 1..sequence, t1 : Int, t2 : Int, t3 : Int, t4 : Int, took : Int]

(* A request was sent at some time up to now.                              *)
SentInv == \A n \in 1..sequence : sent[n].t1 <= now

(* A slot that is occupied holds a request that belongs there, as it was   *)
(* sent, and beside it the time its publication took once that is known.   *)
SlotInv ==
  \A i \in Ring :
    outstanding[i] # EMPTY =>
      LET n == outstanding[i].seq
      IN  /\ n \in 1..sequence /\ Slot(n) = i
          /\ outstanding[i].t1 = sent[n].t1
          /\ n # open => publication[i] = sent[n].took

(* No reply is matched before the publication of its request returned.     *)
MatchedInv == \A x \in exchanges : x.seq # open

ProbesInv == ProbesTypeOK /\ SentInv /\ SlotInv /\ MatchedInv /\ ExchangesSound

-----------------------------------------------------------------------------
LEMMA SlotType == ASSUME NEW n \in Nat PROVE Slot(n) \in Ring
BY ProbesAssumption DEF Slot, Ring

LEMMA InitProbes == Init => ProbesInv
BY ProbesAssumption DEF Init, ProbesInv, ProbesTypeOK, SentInv, SlotInv, MatchedInv,
     ExchangesSound, EMPTY, Ring

LEMMA RequestStep == ASSUME ProbesInv, Request PROVE ProbesInv'
<1> USE DEF ProbesInv
<1>1. NextSlot \in Ring /\ Slot(sequence + 1) = NextSlot
  BY SlotType DEF ProbesTypeOK, NextSlot
<1>2. sequence' = sequence + 1 /\ sequence' \in Nat /\ open' = sequence' /\ now' = now
  BY DEF Request, ProbesTypeOK
<1>3. \A n \in 1..sequence : n \in 1..sequence' /\ n # sequence' /\ sent'[n] = sent[n]
  BY <1>2 DEF Request, ProbesTypeOK
<1>4. sent'[sequence'] = [t1 |-> now, took |-> -1]
  BY <1>2 DEF Request, ProbesTypeOK
<1>5. ProbesTypeOK'
  <2>1. sent' \in [1..sequence' -> [t1 : Nat \ {0}, took : Int]]
    BY <1>2 DEF Request, ProbesTypeOK
  <2>2. /\ outstanding' \in [Ring -> [seq : Nat, t1 : Nat]]
        /\ publication' \in [Ring -> Int]
    BY <1>1, <1>2 DEF Request, ProbesTypeOK
  <2> QED
    BY <1>2, <2>1, <2>2 DEF Request, ProbesTypeOK
<1>6. SentInv'
  BY <1>2, <1>3, <1>4 DEF SentInv, ProbesTypeOK
<1>7. SlotInv'
  <2>1. SUFFICES ASSUME NEW i \in Ring, outstanding'[i] # EMPTY
                 PROVE  LET n == outstanding'[i].seq
                        IN  /\ n \in 1..sequence' /\ Slot(n) = i
                            /\ outstanding'[i].t1 = sent'[n].t1
                            /\ n # open' => publication'[i] = sent'[n].took
    BY DEF SlotInv, Ring, EMPTY, Slot
  <2>2. CASE i = NextSlot
    BY <2>2, <1>1, <1>2, <1>4 DEF Request, ProbesTypeOK
  <2>3. CASE i # NextSlot
    <3>1. outstanding'[i] = outstanding[i] /\ publication'[i] = publication[i]
      BY <2>3 DEF Request, ProbesTypeOK
    <3>2. outstanding[i].seq \in 1..sequence /\ outstanding[i].seq # open
      <4>1. open = 0
        BY DEF Request
      <4> QED
        BY <2>1, <3>1, <4>1 DEF SlotInv, ProbesTypeOK
    <3> QED
      BY <2>1, <3>1, <3>2, <1>3 DEF SlotInv
  <2> QED
    BY <2>2, <2>3
<1>8. \A x \in exchanges : x.seq \in 1..sequence
  BY DEF ProbesTypeOK
<1>9. exchanges' = exchanges
  BY DEF Request
<1>10. MatchedInv'
  BY <1>2, <1>3, <1>8, <1>9 DEF MatchedInv
<1>11. ExchangesSound'
  BY <1>3, <1>8, <1>9 DEF ExchangesSound
<1> QED
  BY <1>5, <1>6, <1>7, <1>10, <1>11

LEMMA PublicationStep == ASSUME ProbesInv, PublicationFinished PROVE ProbesInv'
<1> USE DEF ProbesInv
<1>1. /\ open \in 1..sequence /\ open \in Nat /\ Slot(open) \in Ring /\ open' = 0
      /\ now' = now /\ sequence' = sequence /\ outstanding' = outstanding
      /\ exchanges' = exchanges
  BY SlotType DEF PublicationFinished, ProbesTypeOK
<1>2. sent' \in [1..sequence -> [t1 : Nat \ {0}, took : Int]]
  BY <1>1 DEF PublicationFinished, ProbesTypeOK
<1>3. \A n \in 1..sequence :
        /\ sent'[n].t1 = sent[n].t1
        /\ n # open => sent'[n].took = sent[n].took
        /\ n = open => sent'[n].took = now - sent[n].t1
  BY <1>1 DEF PublicationFinished, ProbesTypeOK
<1>4. outstanding[Slot(open)].t1 \in Nat /\ publication' \in [Ring -> Int]
  BY <1>1 DEF PublicationFinished, ProbesTypeOK
<1>5. ProbesTypeOK'
  BY <1>1, <1>2, <1>4 DEF ProbesTypeOK
<1>6. SentInv'
  BY <1>1, <1>3 DEF SentInv
<1>7. SlotInv'
  <2>1. SUFFICES ASSUME NEW i \in Ring, outstanding[i] # EMPTY
                 PROVE  LET n == outstanding[i].seq
                        IN  /\ n \in 1..sequence /\ Slot(n) = i
                            /\ outstanding[i].t1 = sent'[n].t1
                            /\ n # 0 => publication'[i] = sent'[n].took
    BY <1>1 DEF SlotInv, Ring, EMPTY, Slot
  <2> DEFINE n == outstanding[i].seq
  <2>2. n \in 1..sequence /\ Slot(n) = i /\ outstanding[i].t1 = sent[n].t1
    BY <2>1 DEF SlotInv
  <2>3. CASE n = open
    <3>1. i = Slot(open) /\ publication'[i] = now - outstanding[i].t1
      BY <2>2, <2>3, <1>1 DEF PublicationFinished, ProbesTypeOK
    <3> QED
      BY <2>2, <2>3, <3>1, <1>3
  <2>4. CASE n # open
    <3>1. publication'[i] = publication[i]
      BY <2>2, <2>4, <1>1 DEF PublicationFinished, ProbesTypeOK
    <3> QED
      BY <2>1, <2>2, <2>4, <3>1, <1>3 DEF SlotInv
  <2> QED
    BY <2>3, <2>4
<1>8. \A x \in exchanges : x.seq \in 1..sequence /\ x.seq # open
  BY DEF ProbesTypeOK, MatchedInv
<1>9. MatchedInv'
  BY <1>1, <1>8 DEF MatchedInv
<1>10. ExchangesSound'
  BY <1>1, <1>3, <1>8 DEF ExchangesSound
<1> QED
  BY <1>5, <1>6, <1>7, <1>9, <1>10

(* The midpoints of the leader's stamps and of the follower's are never    *)
(* further apart than half of the time spent on the way.                   *)
LEMMA EchoIsSound ==
  ASSUME ProbesInv, NEW p \in Replies
  PROVE  LET trip == (now - p.t1) - (p.t3 - p.t2)
         IN  /\ p.seq \in 1..sequence /\ p.t1 = sent[p.seq].t1
             /\ {p.t1, p.t2, p.t3} \subseteq Int /\ p.t1 <= now
             /\ Abs((p.t2 - p.t1) + (p.t3 - now) - 2 * LEAD) <= trip
<1>1. PICK n \in 1..sequence : p \in Echoes(n)
  BY DEF Replies
<1>2. PICK a \in sent[n].t1..now, b \in sent[n].t1..now :
        p = [seq |-> n, t1 |-> sent[n].t1, t2 |-> a + LEAD, t3 |-> b + LEAD]
  BY <1>1 DEF Echoes
<1>3. p.t2 <= p.t3
  BY DEF Replies
<1>4. /\ now \in Nat /\ LEAD \in Nat /\ sent[n].t1 \in Nat
      /\ a \in Int /\ b \in Int /\ a >= sent[n].t1 /\ b <= now
  BY ProbesAssumption DEF ProbesInv, ProbesTypeOK
<1>5. sent[n].t1 <= now
  BY DEF ProbesInv, SentInv
<1> QED
  BY <1>2, <1>3, <1>4, <1>5 DEF Abs

LEMMA ReplyStep == ASSUME ProbesInv, NEW p \in Replies, Reply(p) PROVE ProbesInv'
<1> USE DEF ProbesInv
<1> DEFINE x == [seq |-> p.seq, t1 |-> p.t1, t2 |-> p.t2, t3 |-> p.t3, t4 |-> now,
                 took |-> publication[Slot(p.seq)]]
<1>1. /\ p.seq \in 1..sequence /\ p.t1 = sent[p.seq].t1
      /\ {p.t1, p.t2, p.t3} \subseteq Int /\ p.t1 <= now
      /\ Abs((p.t2 - p.t1) + (p.t3 - now) - 2 * LEAD) <= (now - p.t1) - (p.t3 - p.t2)
  BY EchoIsSound
<1>2. /\ Slot(p.seq) \in Ring /\ open = 0 /\ Matches(p)
      /\ UNCHANGED <<now, sequence, publication, open, sent>>
  <2>1. p.seq \in Nat
    BY <1>1 DEF ProbesTypeOK
  <2> QED
    BY <2>1, SlotType DEF Reply
<1>3. outstanding[Slot(p.seq)] # EMPTY /\ outstanding[Slot(p.seq)].seq = p.seq
  BY <1>1, <1>2 DEF Matches, EMPTY, ProbesTypeOK
<1>4. publication[Slot(p.seq)] = sent[p.seq].took
  BY <1>1, <1>2, <1>3 DEF SlotInv, ProbesTypeOK
<1>5. exchanges' = exchanges \/ (Timely(p) /\ exchanges' = exchanges \cup {x})
  BY DEF Reply
<1>6. x \in [seq : 1..sequence, t1 : Int, t2 : Int, t3 : Int, t4 : Int, took : Int]
  BY <1>1, <1>2 DEF ProbesTypeOK
<1>7. outstanding' = [outstanding EXCEPT ![Slot(p.seq)] = EMPTY]
  BY DEF Reply
<1>8. ProbesTypeOK'
  <2>1. outstanding' \in [Ring -> [seq : Nat, t1 : Nat]]
    BY <1>2, <1>7 DEF ProbesTypeOK, EMPTY
  <2> HIDE DEF x
  <2>2. exchanges' \subseteq
          [seq : 1..sequence, t1 : Int, t2 : Int, t3 : Int, t4 : Int, took : Int]
    BY <1>5, <1>6 DEF ProbesTypeOK
  <2> QED
    BY <1>2, <2>1, <2>2 DEF ProbesTypeOK
<1>9. SentInv'
  BY <1>2 DEF SentInv
<1>10. SlotInv'
  <2>1. \A i \in Ring : outstanding'[i] # EMPTY => outstanding'[i] = outstanding[i]
    BY <1>7 DEF ProbesTypeOK
  <2> QED
    BY <1>2, <2>1 DEF SlotInv, Ring, EMPTY, Slot
<1>11. MatchedInv'
  BY <1>1, <1>2, <1>5 DEF MatchedInv, ProbesTypeOK
<1>12. ExchangesSound'
  <2>1. Timely(p) => /\ x.t1 = sent[x.seq].t1 /\ x.took = sent[x.seq].took
                     /\ x.t1 <= x.t4 /\ x.t4 - x.t1 <= MAX_EXCHANGE
                     /\ Abs((x.t2 - x.t1) + (x.t3 - x.t4) - 2 * LEAD)
                          <= (x.t4 - x.t1) - (x.t3 - x.t2)
    BY <1>1, <1>4 DEF Timely
  <2> HIDE DEF x
  <2> QED
    BY <1>2, <1>5, <2>1 DEF ExchangesSound
<1> QED
  BY <1>8, <1>9, <1>10, <1>11, <1>12

LEMMA TickStep == ASSUME ProbesInv, Tick PROVE ProbesInv'
<1> USE DEF ProbesInv, Tick
<1>1. ProbesTypeOK'
  BY DEF ProbesTypeOK
<1>2. SentInv'
  BY DEF SentInv, ProbesTypeOK
<1>3. SlotInv' /\ MatchedInv' /\ ExchangesSound'
  BY DEF SlotInv, MatchedInv, ExchangesSound
<1> QED
  BY <1>1, <1>2, <1>3

(* Every exchange Probes::reply returns is the measurement of the request  *)
(* it names, timely, and wrong by no more than half of its round trip.     *)
THEOREM ProbesExchangesSound == Spec => []ExchangesSound
<1>1. ProbesInv /\ [Next]_vars => ProbesInv'
  <2>1. SUFFICES ASSUME ProbesInv, [Next]_vars PROVE ProbesInv'
    OBVIOUS
  <2>2. CASE Request
    BY <2>1, <2>2, RequestStep
  <2>3. CASE PublicationFinished
    BY <2>1, <2>3, PublicationStep
  <2>4. CASE \E p \in Replies : Reply(p)
    BY <2>1, <2>4, ReplyStep
  <2>5. CASE Tick
    BY <2>1, <2>5, TickStep
  <2>6. CASE UNCHANGED vars
    BY <2>1, <2>6 DEF vars, ProbesInv, ProbesTypeOK, SentInv, SlotInv, MatchedInv,
         ExchangesSound, Ring, EMPTY, Slot
  <2> QED
    BY <2>1, <2>2, <2>3, <2>4, <2>5, <2>6 DEF Next
<1>2. ProbesInv => ExchangesSound
  BY DEF ProbesInv
<1> QED
  BY InitProbes, <1>1, <1>2, PTL DEF Spec

-----------------------------------------------------------------------------
(* The estimator over its paths, and behind the probes.                    *)
LEMMA MeasuredIsSample ==
  ASSUME leads \in Int, NEW path \in Paths
  PROVE  Measured(path) \in Sample
<1>1. path[1] \in Nat /\ path[2] \in Nat
  BY ClockAssumption
<1> DEFINE x == Measured(path)
<1>2. /\ x \in [age : Nat, offset : Int, delay : Int, leads : Int]
      /\ x.offset = 2 * leads + path[1] - path[2]
      /\ x.delay = path[1] + path[2] /\ x.leads = leads
  BY <1>1 DEF Measured
<1> HIDE DEF x
<1>3. Distance(x.offset, 2 * x.leads) <= x.delay
  BY <1>1, <1>2 DEF Distance
<1>4. x \in Sample
  BY <1>2, <1>3 DEF Sample
<1> QED
  BY <1>4 DEF x

LEMMA ClockInitHonest == ASSUME ClockInit PROVE HonestInv
<1>1. leads \in Int
  BY ClockAssumption DEF ClockInit
<1>2. MappingOK(mapping)
  BY DEF ClockInit, NoMapping, MappingOK
<1>3. <<>> \in Seq(Sample)
  OBVIOUS
<1> QED
  BY <1>1, <1>2, <1>3 DEF ClockInit, HonestInv

LEMMA ClockStepHonest ==
  ASSUME HonestInv, ClockNext \/ UNCHANGED clockVars
  PROVE  HonestInv'
<1>1. CASE Refuse \/ UNCHANGED clockVars
  BY <1>1 DEF Refuse, clockVars, HonestInv, MappingOK, HonestTo
<1>2. CASE Observes
  <2>1. PICK step \in Steps \ {0}, path \in Paths : Observe(step, Measured(path))
    BY <1>2 DEF Observes
  <2>2. step \in Nat /\ leads \in Int
    BY ClockAssumption DEF HonestInv
  <2>3. Measured(path) \in Sample
    BY <2>2, MeasuredIsSample
  <2> QED
    BY <2>1, <2>2, <2>3, ObserveHonest
<1>3. CASE LeaderSteps
  <2>1. leads' \in Int /\ samples' = samples /\ recovery' = recovery /\ mapping' = mapping
    BY <1>3, ClockAssumption DEF LeaderSteps
  <2> QED
    BY <2>1 DEF HonestInv, MappingOK, HonestTo
<1> QED
  BY <1>1, <1>2, <1>3 DEF ClockNext

LEMMA HonestBounds == ASSUME HonestInv PROVE BoundsAreHonest
<1> SUFFICES ASSUME mapping.sampled, mapping.leads = {leads}
             PROVE  /\ Distance(mapping.offset, 2 * leads) <= UncertaintyAt(0)
                    /\ mapping.lower <= 2 * leads /\ 2 * leads <= mapping.upper
  BY DEF BoundsAreHonest
<1>1. HonestTo(mapping, leads) /\ leads \in Int
  BY DEF HonestInv, MappingOK
<1>2. mapping.age + 0 = mapping.age /\ Growth(mapping.age) \in Nat
  <2>1. mapping.age \in Nat
    BY DEF HonestInv, MappingOK
  <2> QED
    BY <2>1, GrowthIsNat
<1>3. UncertaintyAt(0) = mapping.radius + 2 * Growth(mapping.age)
  BY <1>2, Zenon DEF UncertaintyAt
<1>4. Distance(mapping.offset, 2 * leads) <= mapping.radius + 2 * Growth(mapping.age)
  <2>1. mapping.offset \in Int /\ mapping.radius \in Int
    BY DEF HonestInv, MappingOK
  <2>2. Distance(mapping.offset, 2 * leads) \in Int
    BY <1>1, <2>1 DEF Distance
  <2> QED
    BY <1>1, <1>2, <2>1, <2>2 DEF HonestTo
<1> QED
  BY <1>1, <1>3, <1>4 DEF HonestTo

(* The bounds of a mapping hold whatever was sampled, quarantined, evicted *)
(* or believed before: for every number of samples and every path.         *)
THEOREM ClockBoundsAreHonest == ClockSpec => []BoundsAreHonest
<1>1. HonestInv /\ [ClockNext]_clockVars => HonestInv'
  BY ClockStepHonest
<1> QED
  BY ClockInitHonest, <1>1, HonestBounds, PTL DEF ClockSpec

(* The estimator behind the probes, whatever the network loses, repeats or *)
(* reorders: what a matched reply stands for is a sample it may trust.     *)
MeasurementInv ==
  /\ HonestInv /\ ProbesInv /\ last \in Nat
  /\ feed = "probes" => leads = LEAD

LEMMA ExchangedIsSample ==
  ASSUME MeasurementInv, feed = "probes", NEW p \in Replies
  PROVE  Exchanged(p) \in Sample /\ Midpoint(p) \in Int
<1>1. /\ {p.t1, p.t2, p.t3} \subseteq Int /\ now \in Int /\ leads \in Int /\ leads = LEAD
      /\ Abs((p.t2 - p.t1) + (p.t3 - now) - 2 * LEAD) <= (now - p.t1) - (p.t3 - p.t2)
  BY EchoIsSound, SMTT(30) DEF MeasurementInv, HonestInv, ProbesInv, ProbesTypeOK
<1> DEFINE x == Exchanged(p)
<1>2. /\ x \in [age : Nat, offset : Int, delay : Int, leads : Int]
      /\ x.offset = (p.t2 - p.t1) + (p.t3 - now)
      /\ x.delay = (now - p.t1) - (p.t3 - p.t2) /\ x.leads = LEAD
  BY <1>1 DEF Exchanged
<1> HIDE DEF x
<1>3. Distance(x.offset, 2 * x.leads) <= x.delay
  BY <1>1, <1>2 DEF Distance, Abs
<1>4. x \in Sample
  BY <1>2, <1>3 DEF Sample
<1> QED
  BY <1>1, <1>4 DEF x, Midpoint

LEMMA ProbesStep ==
  ASSUME ProbesInv, Next \/ UNCHANGED vars
  PROVE  ProbesInv'
<1>1. CASE UNCHANGED vars
  BY <1>1 DEF vars, ProbesInv, ProbesTypeOK, SentInv, SlotInv, MatchedInv,
              ExchangesSound, Ring, EMPTY, Slot
<1> QED
  BY <1>1, RequestStep, PublicationStep, ReplyStep, TickStep DEF Next

LEMMA MeasurementStep ==
  ASSUME MeasurementInv, MeasurementNext \/ UNCHANGED allVars
  PROVE  MeasurementInv'
<1>1. CASE UNCHANGED allVars
  <2>1. HonestInv'
    BY <1>1, ClockStepHonest DEF allVars, MeasurementInv
  <2>2. ProbesInv'
    BY <1>1, ProbesStep DEF allVars, MeasurementInv
  <2> QED
    BY <1>1, <2>1, <2>2 DEF MeasurementInv, allVars, clockVars
<1>2. CASE Sampling
  <2>1. HonestInv'
    BY <1>2, ClockStepHonest DEF Sampling, MeasurementInv
  <2>2. ProbesInv'
    BY <1>2, ProbesStep DEF Sampling, MeasurementInv
  <2> QED
    BY <1>2, <2>1, <2>2 DEF MeasurementInv, Sampling
<1>3. CASE Probing
  <2>1. feed = "probes" /\ feed' = feed
    BY <1>3 DEF Probing
  <2>2. CASE (Request \/ PublicationFinished \/ Tick) /\ UNCHANGED <<clockVars, last>>
    <3>1. ProbesInv'
      BY <2>2, ProbesStep DEF MeasurementInv, Next
    <3>2. HonestInv'
      BY <2>2, ClockStepHonest DEF MeasurementInv
    <3> QED
      BY <2>1, <2>2, <3>1, <3>2 DEF MeasurementInv, clockVars
  <2>3. CASE \E p \in Replies : ReplyObserved(p)
    <3>1. PICK p \in Replies : ReplyObserved(p)
      BY <2>3
    <3>2. ProbesInv'
      BY <3>1, ProbesStep DEF ReplyObserved, MeasurementInv, Next
    <3>3. Exchanged(p) \in Sample /\ Midpoint(p) \in Int
      BY <2>1, ExchangedIsSample
    <3>4. CASE Timely(p) /\ Midpoint(p) > last
      <4>1. Observe(Midpoint(p) - last, Exchanged(p)) /\ last' = Midpoint(p)
        BY <3>1, <3>4 DEF ReplyObserved
      <4>2. Midpoint(p) - last \in Nat /\ Midpoint(p) \in Nat
        BY <3>3, <3>4 DEF MeasurementInv
      <4>3. HonestInv'
        BY <3>3, <4>1, <4>2, ObserveHonest DEF MeasurementInv
      <4>4. leads' = leads
        BY <4>1 DEF Observe
      <4> QED
        BY <2>1, <3>2, <4>1, <4>2, <4>3, <4>4 DEF MeasurementInv
    <3>5. CASE ~(Timely(p) /\ Midpoint(p) > last)
      <4>1. UNCHANGED <<clockVars, last>>
        BY <3>1, <3>5 DEF ReplyObserved
      <4>2. HonestInv'
        BY <4>1, ClockStepHonest DEF MeasurementInv
      <4> QED
        BY <2>1, <3>2, <4>1, <4>2 DEF MeasurementInv, clockVars
    <3> QED
      BY <3>4, <3>5
  <2> QED
    BY <1>3, <2>2, <2>3 DEF Probing
<1> QED
  BY <1>1, <1>2, <1>3 DEF MeasurementNext

(* From probes to mapping: what a network may do to the probes never makes *)
(* the estimator state an uncertainty that does not hold.                  *)
THEOREM MeasurementBoundsAreHonest == MeasurementSpec => []BoundsAreHonest
<1>1. MeasurementInit => MeasurementInv
  BY InitProbes, ClockInitHonest DEF MeasurementInit, MeasurementInv
<1>2. MeasurementInv /\ [MeasurementNext]_allVars => MeasurementInv'
  BY MeasurementStep
<1>3. MeasurementInv => BoundsAreHonest
  BY HonestBounds DEF MeasurementInv
<1> QED
  BY <1>1, <1>2, <1>3, PTL DEF MeasurementSpec

-----------------------------------------------------------------------------
(* Spikes.  What is quarantined is the tail of the outliers since the last *)
(* accepted sample, all like the first of it, and each of them later than  *)
(* the one before by the pace of the exchanges: a run is believed before   *)
(* it would be too long to keep.                                           *)
Timed == [age : Nat, offset : Int, delay : Int, leads : Int]
Spike == [offset : Int, delay : Int]
Noticed(x) == [offset |-> x.offset, delay |-> x.delay]

Paced(pace) ==
  pace \in Nat /\ (RUN_CAP - 1) * pace >= SPAN /\ \A step \in Steps \ {0} : pace <= step

SpikesInv(pace) ==
  /\ leads \in Int
  /\ recovery \in Seq(Timed)
  /\ spikes \in Seq(Spike)
  /\ Len(recovery) < RUN_CAP /\ Len(recovery) <= Len(spikes) /\ Len(spikes) <= RUN_CAP
  /\ \A i \in 1 .. Len(recovery) :
       /\ spikes[Len(spikes) - Len(recovery) + i] = Noticed(recovery[i])
       /\ Agree(recovery[1], recovery[i])
  /\ recovery # <<>> => recovery[1].age >= (Len(recovery) - 1) * pace

LEMMA AppendedLast ==
  ASSUME NEW S, NEW s \in Seq(S), NEW x \in S
  PROVE  /\ Append(s, x) \in Seq(S) /\ Len(Append(s, x)) = Len(s) + 1
         /\ Append(s, x)[Len(s) + 1] = x
         /\ \A i \in 1 .. Len(s) : Append(s, x)[i] = s[i]
OBVIOUS

LEMMA KeptLast ==
  ASSUME NEW S, NEW s \in Seq(S), NEW n \in Nat \ {0}
  PROVE  /\ Keep(s, n) \in Seq(S) /\ Len(s) \in Nat
         /\ Len(s) <= n => Keep(s, n) = s
         /\ Len(s) > n => /\ Len(Keep(s, n)) = n
                          /\ \A i \in 1..n : Keep(s, n)[i] = s[Len(s) - n + i]
<1> DEFINE first == Larger(1, Len(s) - n + 1)
<1>1. Len(s) \in Nat /\ first \in Nat \ {0}
  BY DEF Larger
<1>2. Keep(s, n) = SubSeq(s, first, Len(s))
  BY DEF Keep
<1>3. CASE Len(s) <= n
  <2>1. first = 1
    BY <1>1, <1>3 DEF Larger
  <2>2. SubSeq(s, 1, Len(s)) = s
    OBVIOUS
  <2>3. ~(Len(s) > n)
    BY <1>1, <1>3
  <2> HIDE DEF first
  <2>4. Keep(s, n) = s
    BY <1>2, <2>1, <2>2
  <2> QED
    BY <1>1, <2>3, <2>4
<1>4. CASE Len(s) > n
  <2>1. first = Len(s) - n + 1
    BY <1>1, <1>4 DEF Larger
  <2> HIDE DEF first
  <2>2. SubSeq(s, first, Len(s)) \in Seq(S)
    BY <1>1
  <2>3. Len(SubSeq(s, first, Len(s))) = Len(s) - first + 1
    BY <1>1, <1>4, <2>1
  <2>4. \A i \in 1..n : SubSeq(s, first, Len(s))[i] = s[first + i - 1]
    BY <1>1, <1>4, <2>1
  <2>5. \A i \in 1..n : first + i - 1 = Len(s) - n + i
    BY <1>1, <2>1
  <2>6. Len(s) - first + 1 = n /\ ~(Len(s) <= n)
    BY <1>1, <1>4, <2>1
  <2> QED
    BY <1>1, <1>2, <2>2, <2>3, <2>4, <2>5, <2>6
<1> QED
  BY <1>1, <1>3, <1>4

LEMMA AgeingKeepsRun ==
  ASSUME NEW s \in Seq(Timed), NEW step \in Nat
  PROVE  /\ Aged(s, step) \in Seq(Timed)
         /\ Len(Aged(s, step)) = Len(s) /\ Len(s) \in Nat
         /\ \A i \in 1 .. Len(s) : /\ Aged(s, step)[i].age = s[i].age + step
                                   /\ Noticed(Aged(s, step)[i]) = Noticed(s[i])
                                   /\ Aged(s, step)[i].offset = s[i].offset
                                   /\ Aged(s, step)[i].delay = s[i].delay
<1>1. Len(s) \in Nat /\ DOMAIN s = 1..Len(s) /\ \A i \in 1..Len(s) : s[i] \in Timed
  OBVIOUS
<1>2. ASSUME NEW i \in 1..Len(s)
      PROVE  /\ [s[i] EXCEPT !.age = @ + step] \in Timed
             /\ [s[i] EXCEPT !.age = @ + step].age = s[i].age + step
             /\ [s[i] EXCEPT !.age = @ + step].offset = s[i].offset
             /\ [s[i] EXCEPT !.age = @ + step].delay = s[i].delay
  <2> DEFINE x == s[i]
             y == [s[i] EXCEPT !.age = @ + step]
  <2>1. x \in [age : Nat, offset : Int, delay : Int, leads : Int]
    BY <1>1 DEF Timed
  <2>2. /\ y \in [age : Nat, offset : Int, delay : Int, leads : Int]
        /\ y.age = x.age + step /\ y.offset = x.offset /\ y.delay = x.delay
    BY <2>1
  <2> QED
    BY <2>2 DEF Timed
<1>3. /\ Aged(s, step) \in [1..Len(s) -> Timed]
      /\ \A i \in 1..Len(s) : Aged(s, step)[i] = [s[i] EXCEPT !.age = @ + step]
  BY <1>1, <1>2 DEF Aged
<1>4. Aged(s, step) \in Seq(Timed) /\ Len(Aged(s, step)) = Len(s)
  BY <1>1, <1>3
<1> QED
  BY <1>1, <1>2, <1>3, <1>4 DEF Noticed

(* What is quarantined once another outlier has come.                      *)
LEMMA QuarantinedRun ==
  ASSUME NEW pace, Paced(pace), SpikesInv(pace), NEW step \in Nat, pace <= step,
         NEW x \in Timed, x.age = 0
  PROVE  LET run == Quarantined(step, x)
             noted == Keep(Append(spikes, Noticed(x)), RUN_CAP)
         IN  /\ run \in Seq(Timed)
             /\ noted \in Seq(Spike)
             /\ Len(run) <= RUN_CAP /\ Len(run) <= Len(noted) /\ Len(noted) <= RUN_CAP
             /\ \A i \in 1 .. Len(run) : /\ noted[Len(noted) - Len(run) + i] = Noticed(run[i])
                                         /\ Agree(run[1], run[i])
             /\ run # <<>> /\ run[1].age >= (Len(run) - 1) * pace /\ run[1].age \in Nat
<1> DEFINE aged == Aged(recovery, step)
           tail == IF aged # <<>> /\ SameRun(Head(aged), x) THEN aged ELSE <<>>
           run == Append(tail, x)
           all == Append(spikes, Noticed(x))
           noted == Keep(all, RUN_CAP)
<1>1. RUN_CAP \in Nat \ {0} /\ pace \in Nat
  BY ClockAssumption DEF Paced
<1>2. /\ aged \in Seq(Timed) /\ Len(aged) = Len(recovery) /\ Len(recovery) \in Nat
      /\ \A i \in 1 .. Len(recovery) : /\ aged[i].age = recovery[i].age + step
                                       /\ Noticed(aged[i]) = Noticed(recovery[i])
                                       /\ aged[i].offset = recovery[i].offset
                                       /\ aged[i].delay = recovery[i].delay
  BY AgeingKeepsRun DEF SpikesInv
<1>3. Noticed(x) \in Spike
  BY DEF Noticed, Timed, Spike
<1>4. /\ Len(spikes) \in Nat /\ Len(recovery) < RUN_CAP /\ Len(recovery) <= Len(spikes)
      /\ Len(spikes) <= RUN_CAP /\ spikes \in Seq(Spike)
      /\ \A i \in 1 .. Len(recovery) :
           /\ spikes[Len(spikes) - Len(recovery) + i] = Noticed(recovery[i])
           /\ Agree(recovery[1], recovery[i])
      /\ recovery # <<>> => recovery[1].age >= (Len(recovery) - 1) * pace
      /\ recovery \in Seq(Timed)
  BY DEF SpikesInv
<1> HIDE DEF aged
<1>5. /\ tail \in Seq(Timed) /\ (tail = aged \/ tail = <<>>)
      /\ Len(tail) \in Nat /\ Len(tail) <= Len(recovery)
      /\ tail # <<>> => tail = aged /\ SameRun(Head(aged), x)
  <2>1. CASE aged # <<>> /\ SameRun(Head(aged), x)
    BY <1>2, <2>1
  <2>2. CASE ~(aged # <<>> /\ SameRun(Head(aged), x))
    BY <1>2, <2>2
  <2> QED
    BY <2>1, <2>2
<1> HIDE DEF tail
<1>6. /\ x \in Timed /\ run \in Seq(Timed) /\ Len(run) = Len(tail) + 1 /\ run[Len(run)] = x
      /\ \A i \in 1 .. Len(tail) : run[i] = tail[i]
  <2>1. x \in Timed
    OBVIOUS
  <2>2. /\ Append(tail, x) \in Seq(Timed) /\ Len(Append(tail, x)) = Len(tail) + 1
        /\ Append(tail, x)[Len(tail) + 1] = x
        /\ \A i \in 1 .. Len(tail) : Append(tail, x)[i] = tail[i]
    BY <1>5, <2>1, AppendedLast
  <2> QED
    BY <2>1, <2>2 DEF run
<1> HIDE DEF run
<1>7. Len(run) \in Nat \ {0} /\ Len(run) <= RUN_CAP
  BY <1>1, <1>4, <1>5, <1>6
<1>8. /\ Len(all) \in Nat
      /\ all \in Seq(Spike) /\ Len(all) = Len(spikes) + 1 /\ all[Len(all)] = Noticed(x)
      /\ \A i \in 1 .. Len(spikes) : all[i] = spikes[i]
  BY <1>3, <1>4
<1> HIDE DEF all
<1>9. Quarantined(step, x) = run
  <2>1. Keep(run, RUN_CAP) = run
    BY <1>1, <1>6, <1>7, KeptLast
  <2> QED
    BY <2>1 DEF Quarantined, run, tail, aged
<1>10. /\ noted \in Seq(Spike)
       /\ Len(all) <= RUN_CAP => noted = all
       /\ Len(all) > RUN_CAP => /\ Len(noted) = RUN_CAP
                                /\ \A i \in 1..RUN_CAP : noted[i] = all[Len(all) - RUN_CAP + i]
  <2> HIDE DEF noted
  <2>1. noted = Keep(all, RUN_CAP)
    BY DEF noted
  <2>2. all \in Seq(Spike) /\ RUN_CAP \in Nat \ {0}
    BY <1>1, <1>8
  <2>3. /\ Keep(all, RUN_CAP) \in Seq(Spike)
        /\ Len(all) <= RUN_CAP => Keep(all, RUN_CAP) = all
        /\ Len(all) > RUN_CAP =>
             /\ Len(Keep(all, RUN_CAP)) = RUN_CAP
             /\ \A i \in 1..RUN_CAP : Keep(all, RUN_CAP)[i] = all[Len(all) - RUN_CAP + i]
    BY <2>2, KeptLast
  <2> QED
    BY <2>1, <2>3, Zenon
<1> HIDE DEF noted
<1>11. /\ Len(noted) \in Nat /\ Len(noted) <= RUN_CAP
       /\ Len(run) <= Len(noted) /\ Len(noted) <= Len(all)
  BY <1>1, <1>4, <1>5, <1>6, <1>7, <1>8, <1>10
<1>12. \A k \in 1..Len(noted) : noted[k] = all[Len(all) - Len(noted) + k]
  BY <1>1, <1>4, <1>8, <1>10
<1>13. ASSUME NEW i \in 1..Len(run)
       PROVE  noted[Len(noted) - Len(run) + i] = Noticed(run[i])
  <2>1. /\ Len(noted) - Len(run) + i \in 1..Len(noted)
        /\ Len(all) - Len(noted) + (Len(noted) - Len(run) + i) = Len(all) - Len(run) + i
    BY <1>4, <1>7, <1>8, <1>11
  <2>2. noted[Len(noted) - Len(run) + i] = all[Len(all) - Len(run) + i]
    BY <1>12, <2>1
  <2>3. CASE i = Len(run)
    BY <1>4, <1>6, <1>7, <1>8, <2>2, <2>3
  <2>4. CASE i # Len(run)
    <3>1. i \in 1..Len(tail) /\ tail # <<>> /\ run[i] = tail[i]
      BY <1>5, <1>6, <2>4
    <3>2. tail = aged /\ Len(tail) = Len(recovery)
      BY <1>2, <1>5, <3>1
    <3>3. /\ Len(all) - Len(run) + i = Len(spikes) - Len(recovery) + i
          /\ Len(spikes) - Len(recovery) + i \in 1..Len(spikes)
      <4>1. /\ Len(run) = Len(recovery) + 1 /\ Len(all) = Len(spikes) + 1
            /\ i \in 1..Len(recovery) /\ Len(recovery) <= Len(spikes)
            /\ Len(recovery) \in Nat /\ Len(spikes) \in Nat
        BY <1>2, <1>4, <1>6, <1>8, <3>1, <3>2
      <4> QED
        BY <4>1
    <3>4. all[Len(all) - Len(run) + i] = Noticed(recovery[i])
      BY <1>4, <1>8, <3>1, <3>2, <3>3
    <3> QED
      BY <1>2, <2>2, <3>1, <3>2, <3>4
  <2> QED
    BY <2>3, <2>4
<1>14. ASSUME NEW i \in 1..Len(run)
       PROVE  Agree(run[1], run[i])
  <2>1. CASE i = Len(run)
    <3>1. CASE tail = <<>>
      <4>1. run[i] = x /\ run[1] = x
        BY <1>6, <2>1, <3>1
      <4>2. Distance(x.offset, x.offset) = 0 /\ Distance(x.delay, x.delay) = 0
        BY <1>6, SMTT(30) DEF Distance, Timed
      <4>3. /\ Larger(x.delay \div 2, 2 * PHASE_NEAR) >= 0
            /\ Larger(x.delay \div 4, DELAY_NEAR) >= 0
        <5>1. PHASE_NEAR \in Nat /\ DELAY_NEAR \in Nat
          BY ClockAssumption
        <5>2. x.delay \div 2 \in Int /\ x.delay \div 4 \in Int
          <6>1. x.delay \in Int
            BY DEF Timed
          <6> QED
            BY <6>1
        <5> QED
          BY <5>1, <5>2 DEF Larger
      <4> QED
        BY <4>1, <4>2, <4>3 DEF Agree
    <3>2. CASE tail # <<>>
      <4>1. run[i] = x /\ run[1] = aged[1] /\ Head(aged) = aged[1] /\ SameRun(Head(aged), x)
        BY <1>2, <1>5, <1>6, <2>1, <3>2
      <4> QED
        BY <4>1 DEF SameRun, Agree
    <3> QED
      BY <3>1, <3>2
  <2>2. CASE i # Len(run)
    <3>1. i \in 1..Len(tail) /\ tail # <<>> /\ run[i] = tail[i] /\ tail = aged
      BY <1>5, <1>6, <2>2
    <3>2. i \in 1..Len(recovery) /\ 1 \in 1..Len(recovery) /\ run[i] = aged[i] /\ run[1] = aged[1]
      BY <1>2, <1>6, <3>1
    <3>3. Agree(recovery[1], recovery[i])
      BY <1>4, <3>2
    <3> QED
      BY <1>2, <3>2, <3>3 DEF Agree
  <2> QED
    BY <2>1, <2>2
<1>15. run[1].age \in Nat /\ run[1].age >= (Len(run) - 1) * pace
  <2>1. CASE tail = <<>>
    <3>1. run[1] = x /\ Len(run) = 1
      BY <1>6, <2>1
    <3> QED
      BY <1>1, <3>1
  <2>2. CASE tail # <<>>
    <3>1. tail = aged /\ Len(tail) = Len(recovery) /\ 1 \in 1..Len(recovery) /\ recovery # <<>>
      BY <1>2, <1>5, <2>2
    <3>2. run[1].age = recovery[1].age + step /\ recovery[1].age \in Nat
      <4>1. recovery[1] \in Timed
        BY <1>4, <3>1
      <4>2. run[1] = aged[1] /\ aged[1].age = recovery[1].age + step
        BY <1>2, <1>6, <3>1
      <4> QED
        BY <4>1, <4>2 DEF Timed
    <3>3. recovery[1].age >= (Len(recovery) - 1) * pace
      BY <1>4, <3>1
    <3>4. (Len(run) - 1) * pace = (Len(recovery) - 1) * pace + pace
      BY <1>1, <1>2, <1>6, <3>1, SMTT(30)
    <3>5. (Len(recovery) - 1) * pace \in Int
      BY <1>1, <1>2
    <3> QED
      BY <1>1, <3>2, <3>3, <3>4, <3>5
  <2> QED
    BY <2>1, <2>2
<1>16. run # <<>>
  BY <1>7
<1> QED
  BY <1>7, <1>9, <1>6, <1>10, <1>11, <1>13, <1>14, <1>15, <1>16 DEF noted, all, run

LEMMA SpikesObserve ==
  ASSUME NEW pace, Paced(pace), SpikesInv(pace), NEW step \in Nat, pace <= step,
         NEW x \in Timed, x.age = 0, Observe(step, x)
  PROVE  /\ SpikesInv(pace)'
         /\ mapping'.offset # mapping.offset /\ spikes' # <<>> =>
              \E f \in 1 .. Len(spikes') - RUN + 1 :
                \A i \in f .. Len(spikes') : Agree(spikes'[f], spikes'[i])
<1> DEFINE old == Recent(step)
           run == Quarantined(step, x)
           noted == Keep(Append(spikes, Noticed(x)), RUN_CAP)
           outlier == DelayOutlier(old, x) \/ OffsetOutlier(old, step, x)
<1>1. /\ RUN_CAP \in Nat \ {0} /\ RUN \in Nat \ {0} /\ RUN <= RUN_CAP /\ SPAN \in Nat
      /\ pace \in Nat /\ (RUN_CAP - 1) * pace >= SPAN
  BY ClockAssumption DEF Paced
<1>2. /\ run \in Seq(Timed) /\ noted \in Seq(Spike)
      /\ Len(run) <= RUN_CAP /\ Len(run) <= Len(noted) /\ Len(noted) <= RUN_CAP
      /\ \A i \in 1 .. Len(run) : /\ noted[Len(noted) - Len(run) + i] = Noticed(run[i])
                                  /\ Agree(run[1], run[i])
      /\ run # <<>> /\ run[1].age >= (Len(run) - 1) * pace /\ run[1].age \in Nat
  BY QuarantinedRun
<1>3. /\ \/ outlier /\ ~Believed(run) /\ Rejects(old, step, run)
         \/ outlier /\ Believed(run) /\ Replaces(run)
         \/ ~outlier /\ Accepts(old, step, x)
      /\ spikes' = IF outlier THEN noted ELSE <<>>
      /\ leads' = leads
  BY DEF Observe, Noted, Noticed
<1> HIDE DEF old, run, noted, outlier
<1>4. leads' \in Int
  BY <1>3 DEF SpikesInv
<1>5. Len(run) \in Nat \ {0} /\ Len(noted) \in Nat /\ Oldest(run) = run[1].age
  BY <1>2 DEF Oldest
<1>6. <<>> \in Seq(Timed) /\ <<>> \in Seq(Spike) /\ Len(<<>>) = 0
  OBVIOUS
<1>7. CASE outlier /\ ~Believed(run) /\ Rejects(old, step, run)
  <2>1. recovery' = run /\ spikes' = noted /\ mapping'.offset = mapping.offset
    BY <1>3, <1>7 DEF Rejects
  <2>2. Len(run) # RUN_CAP
    <3>1. SUFFICES ASSUME Len(run) = RUN_CAP PROVE FALSE
      OBVIOUS
    <3>2. (RUN_CAP - 1) * pace \in Int
      BY <1>1
    <3>3. run[1].age >= (RUN_CAP - 1) * pace
      BY <1>2, <3>1
    <3>4. Believed(run)
      BY <1>1, <1>2, <1>5, <3>1, <3>2, <3>3 DEF Believed
    <3> QED
      BY <1>7, <3>4
  <2>3. Len(run) < RUN_CAP
    BY <1>1, <1>2, <1>5, <2>2
  <2>4. SpikesInv(pace)'
    BY <1>2, <1>4, <2>1, <2>3 DEF SpikesInv
  <2> QED
    BY <2>1, <2>4
<1>8. CASE outlier /\ Believed(run) /\ Replaces(run)
  <2>1. recovery' = <<>> /\ spikes' = noted
    BY <1>3, <1>8 DEF Replaces
  <2>2. SpikesInv(pace)'
    BY <1>1, <1>2, <1>4, <1>5, <1>6, <2>1 DEF SpikesInv
  <2> DEFINE f == Len(noted) - Len(run) + 1
  <2>3. f \in 1 .. Len(noted) - RUN + 1
    BY <1>1, <1>2, <1>5, <1>8 DEF Believed
  <2>4. ASSUME NEW i \in f .. Len(noted) PROVE Agree(noted[f], noted[i])
    <3> DEFINE k == i - Len(noted) + Len(run)
    <3>1. k \in 1 .. Len(run) /\ 1 \in 1 .. Len(run) /\ Len(noted) - Len(run) + k = i
      BY <1>2, <1>5
    <3> HIDE DEF k
    <3>2. noted[i] = Noticed(run[k]) /\ noted[f] = Noticed(run[1]) /\ Agree(run[1], run[k])
      BY <1>2, <3>1
    <3> QED
      BY <3>2 DEF Agree, Noticed
  <2> QED
    BY <2>1, <2>2, <2>3, <2>4
<1>9. CASE ~outlier /\ Accepts(old, step, x)
  <2>1. recovery' = <<>> /\ spikes' = <<>>
    BY <1>3, <1>9 DEF Accepts, Cleared
  <2>2. SpikesInv(pace)'
    BY <1>1, <1>4, <1>6, <2>1 DEF SpikesInv
  <2> QED
    BY <2>1, <2>2
<1> QED
  BY <1>3, <1>7, <1>8, <1>9

(* A spike never moves the map: where exchanges come at a pace at which a  *)
(* run is believed before its first sample would be evicted, as they do at *)
(* the pace of the probes, only a run of outliers that agree replaces it.  *)
THEOREM ClockSpikesNeverMove ==
  ASSUME NEW CONSTANT pace, Paced(pace)
  PROVE  ClockSpec => SpikesNeverMove
<1>1. ClockInit => SpikesInv(pace)
  <2>1. SUFFICES ASSUME ClockInit PROVE SpikesInv(pace)
    OBVIOUS
  <2>2. leads \in Int /\ RUN_CAP \in Nat \ {0}
    BY <2>1, ClockAssumption, SMTT(30) DEF ClockInit
  <2>3. <<>> \in Seq(Timed) /\ <<>> \in Seq(Spike) /\ Len(<<>>) = 0
    OBVIOUS
  <2> QED
    BY <2>1, <2>2, <2>3 DEF ClockInit, SpikesInv
<1>2. ASSUME SpikesInv(pace), [ClockNext]_clockVars
      PROVE  /\ SpikesInv(pace)'
             /\ mapping'.offset # mapping.offset /\ spikes' # <<>> =>
                  \E f \in 1 .. Len(spikes') - RUN + 1 :
                    \A i \in f .. Len(spikes') : Agree(spikes'[f], spikes'[i])
  <2>1. CASE Refuse \/ UNCHANGED clockVars
    BY <1>2, <2>1 DEF Refuse, clockVars, SpikesInv
  <2>2. CASE Observes
    <3>1. PICK step \in Steps \ {0}, path \in Paths : Observe(step, Measured(path))
      BY <2>2 DEF Observes
    <3>2. step \in Nat /\ pace <= step
      BY ClockAssumption DEF Paced
    <3>3. Measured(path) \in Timed /\ Measured(path).age = 0
      <4>1. path[1] \in Nat /\ path[2] \in Nat /\ leads \in Int
        BY <1>2, ClockAssumption DEF SpikesInv
      <4> QED
        BY <4>1 DEF Measured, Timed
    <3> QED
      BY <1>2, <3>1, <3>2, <3>3, SpikesObserve
  <2>3. CASE LeaderSteps
    <3>1. leads' \in Int /\ recovery' = recovery /\ mapping' = mapping /\ spikes' = spikes
      BY <2>3, ClockAssumption DEF LeaderSteps
    <3> QED
      BY <1>2, <3>1 DEF SpikesInv
  <2> QED
    BY <1>2, <2>1, <2>2, <2>3 DEF ClockNext
<1> QED
  BY <1>1, <1>2, PTL DEF ClockSpec, SpikesNeverMove

-----------------------------------------------------------------------------
LEMMA LargerOfTwo ==
  ASSUME NEW x \in Int, NEW y \in Int
  PROVE  /\ Max({x, y}) \in {x, y} /\ Max({x, y}) >= x /\ Max({x, y}) >= y
         /\ Max({x, y}) = IF x < y THEN y ELSE x
<1>1. \E m \in {x, y} : \A z \in {x, y} : m >= z
  OBVIOUS
<1>2. Max({x, y}) \in {x, y} /\ \A z \in {x, y} : Max({x, y}) >= z
  BY <1>1 DEF Max
<1> QED
  BY <1>2

LEMMA SmallerOfTwo ==
  ASSUME NEW x \in Int, NEW y \in Int
  PROVE  Min({x, y}) = IF x < y THEN x ELSE y
<1>1. \E m \in {x, y} : \A z \in {x, y} : m =< z
  OBVIOUS
<1>2. Min({x, y}) \in {x, y} /\ \A z \in {x, y} : Min({x, y}) =< z
  BY <1>1 DEF Min
<1> QED
  BY <1>2

-----------------------------------------------------------------------------
(* The presentation clock.  Its ring holds the intervals that were         *)
(* measured since the last gap, as many of the last ones as fit.           *)
Holding(c, s) ==
  /\ c = [previous |-> c.previous, intervals |-> c.intervals, count |-> c.count]
  /\ c.count \in Nat /\ c.intervals \in [0 .. RING - 1 -> Int]
  /\ s \in Seq(Int)
  /\ Len(s) = IF c.count < RING THEN c.count ELSE RING
  /\ \A k \in 1 .. Len(s) : s[k] = c.intervals[(c.count - Len(s) + k - 1) % RING]

PacerInv ==
  /\ local \in Nat
  /\ pacer.previous = NONE \/ pacer.previous \in Nat
  /\ pacer.previous = NONE => pacer.count = 0
  /\ Holding(pacer, recent)
  /\ TargetWithinAFrame

(* Each interval in use is one of the recent ones.                         *)
LEMMA KeptAreRecent ==
  ASSUME NEW c, NEW s, Holding(c, s)
  PROVE  /\ Kept(c) = 0 .. Len(s) - 1
         /\ \A i \in Kept(c) : c.intervals[i] \in {s[k] : k \in 1 .. Len(s)}
<1>1. RING \in Nat \ {0} /\ c.count \in Nat /\ Len(s) \in Nat
  BY PresentationAssumption DEF Holding
<1>2. /\ Len(s) = IF c.count < RING THEN c.count ELSE RING
      /\ \A k \in 1 .. Len(s) : s[k] = c.intervals[(c.count - Len(s) + k - 1) % RING]
  BY DEF Holding
<1>3. Kept(c) = 0 .. Len(s) - 1
  <2>1. Min({c.count, RING}) = IF c.count < RING THEN c.count ELSE RING
    BY <1>1, SmallerOfTwo
  <2>2. Min({c.count, RING}) = Len(s)
    BY <1>2, <2>1
  <2> QED
    BY <2>2 DEF Kept
<1>4. ASSUME NEW i \in 0 .. Len(s) - 1
      PROVE  \E k \in 1 .. Len(s) : c.intervals[i] = s[k]
  <2> DEFINE a == c.count - Len(s)
  <2>1. a \in Nat /\ i \in 0 .. RING - 1
    BY <1>1, <1>2
  <2>2. CASE c.count < RING
    <3>1. a = 0 /\ i + 1 \in 1 .. Len(s) /\ (a + (i + 1) - 1) = i
      BY <1>1, <1>2, <2>2
    <3>2. i % RING = i
      BY <1>1, <2>1
    <3>3. s[i + 1] = c.intervals[(a + (i + 1) - 1) % RING]
      BY <1>2, <3>1
    <3> QED
      BY <3>1, <3>2, <3>3
  <2>3. CASE ~(c.count < RING)
    <3> DEFINE x == i - a
               q == x \div RING
               r == x % RING
    <3> HIDE DEF a
    <3>6. x \in Int
      BY <1>1, <2>1
    <3> HIDE DEF x
    <3>7. q \in Int /\ r \in 0 .. RING - 1 /\ x = RING * q + r
      BY <1>1, <3>6, DivModOf
    <3> HIDE DEF q, r
    <3>1. q \in Int /\ r \in 0 .. RING - 1 /\ i - a = RING * q + r
      BY <3>7 DEF x
    <3>2. a + r = RING * (-q) + i
      <4>1. RING * q \in Int /\ RING * (-q) = -(RING * q)
        BY <1>1, <3>1
      <4> QED
        BY <2>1, <3>1, <4>1
    <3>3. (a + r) % RING = i
      <4>1. -q \in Int /\ i \in 0 .. RING - 1
        BY <2>1, <3>1
      <4> DEFINE y == a + r
                 p == -q
      <4>2. y = RING * p + i
        BY <3>2
      <4> HIDE DEF y, p
      <4>3. y % RING = i
        BY <1>1, <4>1, <4>2, ModOf DEF p
      <4> QED
        BY <4>3 DEF y
    <3>4. r + 1 \in 1 .. Len(s) /\ a + (r + 1) - 1 = a + r
      BY <1>1, <1>2, <2>1, <2>3, <3>1
    <3>5. s[r + 1] = c.intervals[(a + (r + 1) - 1) % RING]
      BY <1>2, <3>4 DEF a
    <3> QED
      BY <3>3, <3>4, <3>5
  <2> QED
    BY <2>2, <2>3
<1> QED
  BY <1>3, <1>4

(* The period is one of them.                                              *)
LEMMA PeriodIsMeasured ==
  ASSUME NEW c, NEW s, Holding(c, s), c.count >= MINIMUM
  PROVE  Period(c) \in {s[k] : k \in 1 .. Len(s)} /\ Period(c) \in Int
<1> DEFINE n == Len(s)
           K == Kept(c)
           f == [i \in K |-> c.intervals[i]]
           g == [i \in K |-> -c.intervals[i]]
           D == {j \in K : Cardinality(Below(c, c.intervals[j])) <= Cardinality(K) \div 2}
           h == [i \in D |-> c.intervals[i]]
<1>1. /\ RING \in Nat \ {0} /\ MINIMUM \in Nat \ {0} /\ MINIMUM <= RING /\ c.count \in Nat
      /\ n \in Nat /\ n = IF c.count < RING THEN c.count ELSE RING
  BY PresentationAssumption DEF Holding
<1>2. n \in Nat \ {0} /\ K = 0 .. n - 1
  BY <1>1, KeptAreRecent
<1>3. \A i \in K : c.intervals[i] \in Int
  BY <1>1, <1>2 DEF Holding
<1> HIDE DEF K
<1>4. K \in SUBSET (0 .. n) /\ K # {}
  <2>1. 0 .. n - 1 \subseteq 0 .. n /\ 0 \in 0 .. n - 1
    BY <1>2
  <2> QED
    BY <1>2, <2>1
<1>5. PICK m \in K : \A i \in K : g[i] <= g[m]
  <2>1. g \in [K -> Int]
    BY <1>3
  <2> HIDE DEF g
  <2> QED
    BY <1>1, <1>4, <2>1, LargestOf
<1>6. \A i \in K : c.intervals[m] <= c.intervals[i]
  BY <1>3, <1>5
<1>7. Below(c, c.intervals[m]) = {}
  BY <1>3, <1>6 DEF Below, K
<1>8. Cardinality(Below(c, c.intervals[m])) = 0
  BY <1>7, FS_EmptySet
<1>9. Cardinality(K) \in Nat
  BY <1>2, FS_Interval, FS_CardinalityType
<1>10. m \in D
  BY <1>8, <1>9
<1>11. D \in SUBSET (0 .. n) /\ D # {}
  BY <1>4, <1>10
<1>12. h \in [D -> Int]
  BY <1>3
<1> HIDE DEF D
<1>13. Max({h[i] : i \in D}) \in {h[i] : i \in D}
  <2> HIDE DEF h
  <2> QED
    BY <1>1, <1>11, <1>12, MaxOf
<1>14. {h[i] : i \in D} = {c.intervals[i] : i \in D}
  OBVIOUS
<1>15. Period(c) = Max({c.intervals[i] : i \in D})
  BY <1>1 DEF Period, D, K
<1>16. PICK i \in D : Period(c) = c.intervals[i]
  BY <1>13, <1>14, <1>15
<1>17. i \in K
  BY DEF D
<1> QED
  BY <1>3, <1>16, <1>17, KeptAreRecent DEF K

LEMMA AllButFirst ==
  ASSUME NEW m \in Nat \ {0}, NEW s \in Seq(Int), Len(s) = m + 1
  PROVE  /\ SubSeq(s, 2, m + 1) \in Seq(Int) /\ Len(SubSeq(s, 2, m + 1)) = m
         /\ \A k \in 1 .. m : SubSeq(s, 2, m + 1)[k] = s[k + 1]
<1>1. SubSeq(s, 2, m + 1) \in Seq(Int)
  OBVIOUS
<1>2. Len(SubSeq(s, 2, m + 1)) = m
  OBVIOUS
<1>3. ASSUME NEW k \in 1 .. m PROVE SubSeq(s, 2, m + 1)[k] = s[k + 1]
  <2>1. k \in 1 .. (m + 1) - 2 + 1 /\ 2 + k - 1 = k + 1
    OBVIOUS
  <2>2. SubSeq(s, 2, m + 1)[k] = s[2 + k - 1]
    BY <2>1
  <2> QED
    BY <2>1, <2>2
<1> QED
  BY <1>1, <1>2, <1>3

(* An animation frame after another, not too long after it.                *)
LEMMA MeasuredFrame ==
  ASSUME NEW c, NEW s, Holding(c, s), NEW stamp, NEW d \in Int, d = stamp - c.previous
  PROVE  LET all == Append(s, d)
         IN  Holding(Extended(c, stamp), SubSeq(all, Max({1, Len(all) - RING + 1}), Len(all)))
<1> DEFINE n == c.count
           len == Len(s)
           all == Append(s, d)
           over == Len(all) - RING + 1
           next == SubSeq(all, Max({1, over}), Len(all))
           slot == n % RING
           v == c.intervals
           w == [v EXCEPT ![slot] = d]
           e == Extended(c, stamp)
<1>1. /\ RING \in Nat \ {0} /\ n \in Nat /\ len \in Nat
      /\ len = IF n < RING THEN n ELSE RING
      /\ v \in [0 .. RING - 1 -> Int] /\ s \in Seq(Int)
      /\ \A k \in 1 .. len : s[k] = v[(n - len + k - 1) % RING]
      /\ c = [previous |-> c.previous, intervals |-> v, count |-> n]
  BY PresentationAssumption DEF Holding
<1>2. slot \in 0 .. RING - 1
  BY <1>1, DivModOf
<1>3. /\ e = [previous |-> stamp, count |-> n + 1, intervals |-> w]
      /\ e = [previous |-> e.previous, count |-> e.count, intervals |-> e.intervals]
      /\ e.previous = stamp /\ e.count = n + 1 /\ e.intervals = w
  BY DEF Extended
<1>4. /\ w \in [0 .. RING - 1 -> Int] /\ w[slot] = d
      /\ \A i \in 0 .. RING - 1 : i # slot => w[i] = v[i]
  BY <1>1, <1>2
<1>5. /\ all \in Seq(Int) /\ Len(all) = len + 1 /\ all[len + 1] = d
      /\ \A i \in 1 .. len : all[i] = s[i]
  BY <1>1, AppendedLast
<1> HIDE DEF w, v, all, len, n, e
<1>6. over \in Int /\ over = len + 1 - RING + 1
  BY <1>1, <1>5, SMTT(30)
<1> HIDE DEF over
<1>7. ASSUME NEW r, r \in Seq(Int),
             Len(r) = IF n + 1 < RING THEN n + 1 ELSE RING,
             \A k \in 1 .. Len(r) : r[k] = w[(n + 1 - Len(r) + k - 1) % RING]
      PROVE  Holding(e, r)
  <2>1. n + 1 \in Nat
    BY <1>1
  <2>2. Len(r) = IF e.count < RING THEN e.count ELSE RING
    BY <1>3, <1>7
  <2>3. ASSUME NEW k \in 1 .. Len(r)
        PROVE  r[k] = e.intervals[(e.count - Len(r) + k - 1) % RING]
    <3>1. r[k] = w[(n + 1 - Len(r) + k - 1) % RING]
      BY <1>7
    <3> DEFINE i == n + 1 - Len(r) + k - 1
    <3>2. e.count - Len(r) + k - 1 = i
      <4>1. e.count = n + 1
        BY <1>3
      <4>2. n \in Int /\ Len(r) \in Int
        BY <1>1, <1>7
      <4> HIDE DEF n
      <4> QED
        BY <4>1, <4>2
    <3>3. r[k] = w[i % RING]
      BY <3>1
    <3> HIDE DEF i
    <3> QED
      BY <1>3, <3>2, <3>3
  <2> QED
    BY <1>3, <1>4, <1>7, <2>1, <2>2, <2>3 DEF Holding
<1>8. CASE n < RING
  <2>1. len = n /\ over <= 1 /\ Len(all) = n + 1
    BY <1>1, <1>5, <1>6, <1>8
  <2>2. Max({1, over}) = 1
    <3>1. 1 \in Int /\ ~(1 < over)
      BY <1>6, <2>1
    <3> QED
      BY <1>6, <3>1, LargerOfTwo
  <2>3. next = all
    <3>1. SubSeq(all, 1, Len(all)) = all
      BY <1>5
    <3> QED
      BY <2>2, <3>1
  <2>4. ASSUME NEW k \in 1 .. n + 1 PROVE all[k] = w[(n + 1 - (n + 1) + k - 1) % RING]
    <3>1. n + 1 - (n + 1) + k - 1 = k - 1 /\ k - 1 \in 0 .. RING - 1 /\ n \in 0 .. RING - 1
      BY <1>1, <1>8
    <3>2. ASSUME NEW i \in 0 .. RING - 1 PROVE i % RING = i
      <4>1. i \in Nat /\ i < RING
        BY <1>1
      <4>2. RING \in Nat \ {0}
        BY <1>1
      <4> QED
        BY <4>1, <4>2
    <3>5. (k - 1) % RING = k - 1 /\ slot = n
      BY <3>1, <3>2
    <3>3. CASE k = n + 1
      <4>1. k - 1 = slot /\ k = len + 1
        BY <1>1, <2>1, <3>3, <3>5
      <4> QED
        BY <1>4, <1>5, <3>1, <3>5, <4>1
    <3>4. CASE k # n + 1
      <4>3. k \in 1 .. len
        BY <1>1, <2>1, <3>4
      <4>4. n - len + k - 1 = k - 1
        BY <1>1, <2>1
      <4>5. k - 1 # slot
        BY <1>1, <3>4, <3>5
      <4>1. k \in 1 .. len /\ n - len + k - 1 = k - 1 /\ k - 1 # slot
        BY <4>3, <4>4, <4>5
      <4>2. s[k] = v[k - 1]
        BY <1>1, <3>5, <4>1, ZenonT(40)
      <4> QED
        BY <1>4, <1>5, <3>1, <3>5, <4>1, <4>2
    <3> QED
      BY <3>3, <3>4
  <2>5. n + 1 = IF n + 1 < RING THEN n + 1 ELSE RING
    BY <1>1, <1>8
  <2>6. Holding(e, next)
    <3> HIDE DEF next
    <3> QED
      BY <1>5, <1>7, <2>1, <2>3, <2>4, <2>5
  <2> QED
    BY <2>6 DEF e, all, over
<1>9. CASE ~(n < RING)
  <2>1. len = RING /\ Len(all) = RING + 1 /\ over = 2
    BY <1>1, <1>5, <1>6, <1>9
  <2>2. Max({1, over}) = 2
    <3>1. 1 \in Int /\ 2 \in Int /\ 1 < 2
      OBVIOUS
    <3> QED
      BY <2>1, <3>1, LargerOfTwo
  <2>3. next = SubSeq(all, 2, RING + 1)
    BY <2>1, <2>2
  <2>4. /\ next \in Seq(Int) /\ Len(next) = RING
        /\ \A k \in 1 .. RING : next[k] = all[k + 1]
    <3> HIDE DEF next
    <3> QED
      BY <1>1, <1>5, <2>1, <2>3, AllButFirst
  <2>5. ASSUME NEW k \in 1 .. RING PROVE all[k + 1] = w[(n + 1 - RING + k - 1) % RING]
    <3>1. n + 1 - RING + k - 1 = n - RING + k /\ n - RING + k \in Int
      BY <1>1, <1>9
    <3>2. CASE k = RING
      <4>1. n - RING + k = n /\ k + 1 = len + 1
        BY <1>1, <2>1, <3>2
      <4> QED
        BY <1>4, <1>5, <3>1, <4>1
    <3>3. CASE k # RING
      <4>1. k + 1 \in 1 .. len
        BY <1>1, <2>1, <3>3
      <4>6. n - len + (k + 1) - 1 = n - RING + k
        BY <1>1, <2>1
      <4>2. s[k + 1] = v[(n - RING + k) % RING]
        BY <1>1, <4>1, <4>6
      <4>3. n - RING + k < n /\ n < (n - RING + k) + RING
        BY <1>1, <3>3
      <4>4. (n - RING + k) % RING # n % RING
        BY <1>1, <3>1, <4>3, ModDiffers
      <4>5. (n - RING + k) % RING \in 0 .. RING - 1
        BY <1>1, <3>1, DivModOf
      <4> QED
        BY <1>4, <1>5, <3>1, <4>1, <4>2, <4>4, <4>5
    <3> QED
      BY <3>2, <3>3
  <2>6. RING = IF n + 1 < RING THEN n + 1 ELSE RING
    BY <1>1, <1>9
  <2>7. Holding(e, next)
    <3> HIDE DEF next
    <3> QED
      BY <1>7, <2>4, <2>5, <2>6
  <2> QED
    BY <2>7 DEF e, all, over
<1> QED
  BY <1>8, <1>9

LEMMA DisplayedTime ==
  ASSUME NEW c, NEW s, Holding(c, s), NEW stamp \in Int, NEW n \in Int
  PROVE  LET at == DisplayTime(c, stamp, n)
         IN  /\ at >= n
             /\ at > n => /\ Len(s) >= MINIMUM
                          /\ at - stamp \in {s[k] : k \in 1 .. Len(s)}
<1> DEFINE at == DisplayTime(c, stamp, n)
           S == {s[k] : k \in 1 .. Len(s)}
<1>1. /\ RING \in Nat \ {0} /\ MINIMUM \in Nat \ {0} /\ MINIMUM <= RING /\ c.count \in Nat
      /\ Len(s) = IF c.count < RING THEN c.count ELSE RING
  BY PresentationAssumption DEF Holding
<1>2. CASE c.count >= MINIMUM
  <2> DEFINE p == Period(c)
             late == stamp + p
  <2>1. p \in S /\ p \in Int
    BY <1>2, PeriodIsMeasured
  <2>2. at = Max({late, n})
    BY <1>2 DEF DisplayTime
  <2> HIDE DEF p, at, S
  <2>3. late \in Int /\ late - stamp = p
    BY <2>1
  <2> HIDE DEF late
  <2>4. at = IF late < n THEN n ELSE late
    BY <2>2, <2>3, LargerOfTwo
  <2>5. Len(s) >= MINIMUM
    BY <1>1, <1>2
  <2>6. at >= n /\ (at > n => Len(s) >= MINIMUM /\ at - stamp \in S)
    BY <2>1, <2>3, <2>4, <2>5
  <2> QED
    BY <2>6 DEF at, S
<1>3. CASE ~(c.count >= MINIMUM)
  <2>1. at = n
    BY <1>3 DEF DisplayTime
  <2> HIDE DEF at
  <2>2. at >= n /\ ~(at > n)
    BY <2>1
  <2> QED
    BY <2>2 DEF at
<1> QED
  BY <1>2, <1>3

LEMMA NewRing ==
  ASSUME NEW stamp
  PROVE  Holding(ClockFrom(stamp), <<>>)
<1>1. Len(<<>>) = 0 /\ <<>> \in Seq(Int) /\ RING \in Nat \ {0}
  BY PresentationAssumption
<1>2. [i \in 0 .. RING - 1 |-> 0] \in [0 .. RING - 1 -> Int]
  OBVIOUS
<1> QED
  BY <1>1, <1>2 DEF ClockFrom, Holding

LEMMA RenderStep ==
  ASSUME PacerInv, Render
  PROVE  PacerInv'
<1>1. PICK stamp \in Max({0, local - LATE}) .. local :
        LET c  == Framed(pacer, stamp)
            at == DisplayTime(c, stamp, local)
        IN  /\ pacer.previous # NONE => stamp > pacer.previous
            /\ pacer' = c
            /\ shown' = [frame |-> stamp, now |-> local, at |-> at,
                         pos |-> Position(view', at)]
            /\ recent' = IF pacer.previous = NONE \/ stamp - pacer.previous > GAP THEN <<>>
                         ELSE LET all == Append(recent, stamp - pacer.previous)
                              IN  SubSeq(all, Max({1, Len(all) - RING + 1}), Len(all))
            /\ local' = local
  BY DEF Render
<1>2. local \in Nat /\ LATE \in Nat /\ GAP \in Nat \ {0} /\ RING \in Nat \ {0}
  BY PresentationAssumption DEF PacerInv
<1>3. stamp \in Nat
  <2>1. Max({0, local - LATE}) >= 0 /\ Max({0, local - LATE}) \in Int
    <3>1. 0 \in Int /\ local - LATE \in Int
      BY <1>2
    <3> QED
      BY <3>1, LargerOfTwo
  <2> HIDE DEF Max
  <2> QED
    BY <1>2, <2>1
<1>4. /\ pacer.previous = NONE \/ pacer.previous \in Nat
      /\ pacer.previous = NONE => pacer.count = 0
      /\ Holding(pacer, recent)
  BY DEF PacerInv
<1>5. Holding(ClockFrom(stamp), <<>>)
  BY NewRing
<1>6. Holding(pacer', recent') /\ pacer'.previous = stamp
  <2>1. CASE pacer.previous = NONE
    <3>1. pacer' = [pacer EXCEPT !.previous = stamp] /\ recent' = <<>>
      BY <1>1, <2>1 DEF Framed
    <3>2. pacer = [previous |-> pacer.previous, intervals |-> pacer.intervals,
                   count |-> pacer.count]
      BY <1>4 DEF Holding
    <3>3. /\ pacer'.previous = stamp /\ pacer'.intervals = pacer.intervals
          /\ pacer'.count = 0
          /\ pacer' = [previous |-> pacer'.previous, intervals |-> pacer'.intervals,
                       count |-> pacer'.count]
      BY <1>4, <2>1, <3>1, <3>2
    <3>4. Len(<<>>) = 0 /\ <<>> \in Seq(Int)
      OBVIOUS
    <3> QED
      BY <1>2, <1>4, <3>1, <3>3, <3>4 DEF Holding
  <2>2. CASE pacer.previous # NONE /\ stamp - pacer.previous \notin 1 .. GAP
    <3>1. stamp - pacer.previous > GAP
      BY <1>1, <1>2, <1>3, <1>4, <2>2
    <3>2. pacer' = ClockFrom(stamp) /\ recent' = <<>>
      BY <1>1, <2>2, <3>1 DEF Framed
    <3> QED
      BY <1>5, <3>2 DEF ClockFrom
  <2>3. CASE pacer.previous # NONE /\ stamp - pacer.previous \in 1 .. GAP
    <3>1. ~(stamp - pacer.previous > GAP) /\ stamp - pacer.previous \in Int
      BY <1>2, <2>3
    <3>2. /\ pacer' = Extended(pacer, stamp)
          /\ recent' = LET all == Append(recent, stamp - pacer.previous)
                       IN  SubSeq(all, Max({1, Len(all) - RING + 1}), Len(all))
      BY <1>1, <2>3, <3>1 DEF Framed
    <3>3. Holding(pacer', recent')
      BY <1>4, <3>1, <3>2, MeasuredFrame
    <3> QED
      BY <3>2, <3>3 DEF Extended
  <2> QED
    BY <2>1, <2>2, <2>3
<1> DEFINE at == DisplayTime(pacer', stamp, local)
<1>7. /\ at >= local
      /\ at > local => /\ Len(recent') >= MINIMUM
                       /\ at - stamp \in {recent'[k] : k \in 1 .. Len(recent')}
  BY <1>2, <1>3, <1>6, DisplayedTime
<1>8. shown'.at = at /\ shown'.now = local /\ shown'.frame = stamp
  BY <1>1
<1> HIDE DEF at
<1>9. TargetWithinAFrame'
  BY <1>7, <1>8 DEF TargetWithinAFrame
<1>10. local' = local
  BY <1>1
<1>11. stamp # NONE
  BY <1>3, NoneAssumption
<1> QED
  BY <1>2, <1>3, <1>6, <1>9, <1>10, <1>11 DEF PacerInv

LEMMA PacerStep ==
  ASSUME PacerInv, PresentationNext \/ UNCHANGED presentationVars
  PROVE  PacerInv'
<1>1. CASE UNCHANGED <<local, pacer, recent, shown>>
  BY <1>1 DEF PacerInv, Holding, TargetWithinAFrame
<1>2. CASE UNCHANGED presentationVars \/ UNCHANGED stageVars
  BY <1>1, <1>2 DEF presentationVars, stageVars
<1>3. CASE WakeUp \/ Publish
  BY <1>1, <1>3 DEF WakeUp, Publish
<1>4. CASE Elapse
  <2>1. local' \in Nat
    BY <1>4 DEF Elapse, PacerInv
  <2> QED
    BY <1>4, <2>1 DEF Elapse, PacerInv, Holding, TargetWithinAFrame
<1>5. CASE Hide
  <2>1. Holding(NewClock, <<>>) /\ NewClock.previous = NONE /\ NewClock.count = 0
    BY NewRing DEF ClockFrom, NewClock
  <2> QED
    BY <1>5, <2>1 DEF Hide, PacerInv, TargetWithinAFrame
<1> QED
  BY <1>2, <1>3, <1>4, <1>5, RenderStep DEF PresentationNext

(* A frame is rendered for now, or for one measured interval after its     *)
(* callback's time: whatever callbacks come when, and for every size of    *)
(* the ring.                                                               *)
THEOREM PresentationTargetWithinAFrame == PresentationSpec => []TargetWithinAFrame
<1>1. PresentationInit => PacerInv
  <2>1. Holding(NewClock, <<>>) /\ NewClock.previous = NONE /\ NewClock.count = 0
    BY NewRing DEF ClockFrom, NewClock
  <2> QED
    BY <2>1 DEF PresentationInit, Idle, StageInit, PacerInv, TargetWithinAFrame
<1>2. PacerInv /\ [PresentationNext]_presentationVars => PacerInv'
  BY PacerStep
<1>3. PacerInv => TargetWithinAFrame
  BY DEF PacerInv
<1> QED
  BY <1>1, <1>2, <1>3, PTL DEF PresentationSpec

-----------------------------------------------------------------------------
(* Timecode.  Division cuts towards zero.                                  *)
LEMMA TruncOf ==
  ASSUME NEW a \in Int, NEW b \in Nat \ {0}
  PROVE  /\ Trunc(a, b) \in Int /\ b * Trunc(a, b) \in Int /\ Rem(a, b) \in Int
         /\ a = b * Trunc(a, b) + Rem(a, b)
         /\ a >= 0 => Trunc(a, b) >= 0 /\ Rem(a, b) \in 0 .. b - 1
         /\ a < 0 => Trunc(a, b) <= 0 /\ Rem(a, b) \in 1 - b .. 0
<1>1. CASE a >= 0
  <2> DEFINE q == a \div b
             r == a % b
  <2>1. q \in Int /\ r \in 0 .. b - 1 /\ a = b * q + r
    BY DivModOf
  <2>2. q >= 0
    BY <1>1 DEF q
  <2>3. Trunc(a, b) = q /\ Rem(a, b) = a - b * q
    BY <1>1 DEF Trunc, Rem
  <2> HIDE DEF q, r
  <2>4. b * q \in Int
    BY <2>1
  <2> QED
    BY <1>1, <2>1, <2>2, <2>3, <2>4
<1>2. CASE a < 0
  <2> DEFINE c == -a
             q == c \div b
             r == c % b
  <2>1. c \in Nat /\ c = -a
    BY <1>2
  <2> HIDE DEF c
  <2>2. q \in Int /\ r \in 0 .. b - 1 /\ c = b * q + r
    BY <2>1, DivModOf
  <2>3. q >= 0
    BY <2>1 DEF q
  <2>4. Trunc(a, b) = -q /\ Rem(a, b) = a - b * (-q)
    BY <1>2 DEF Trunc, Rem, c
  <2> HIDE DEF q, r
  <2>5. b * (-q) = -(b * q) /\ b * q \in Int
    BY <2>2
  <2>6. Rem(a, b) = -r
    BY <2>1, <2>2, <2>4, <2>5
  <2> QED
    BY <1>2, <2>1, <2>2, <2>3, <2>4, <2>5, <2>6
<1> QED
  BY <1>1, <1>2

LEMMA CancelFactor ==
  ASSUME NEW d \in Nat \ {0}, NEW x \in Int, NEW y \in Int
  PROVE  /\ x * d < y * d => x < y
         /\ x * d <= y * d => x <= y
         /\ (x + 1) * d = x * d + d /\ (x - 1) * d = x * d - d
         /\ x * d \in Int /\ y * d \in Int
<1>1. x >= y => x * d >= y * d
  BY SMT
<1>2. x > y => x * d > y * d
  BY SMT
<1>3. (x + 1) * d = x * d + d /\ (x - 1) * d = x * d - d
  BY SMT
<1>4. x * d \in Int /\ y * d \in Int
  OBVIOUS
<1> QED
  BY <1>1, <1>2, <1>3, <1>4

LEMMA ReducedRate ==
  ASSUME NEW r \in Rates
  PROVE  Reduced(r)[1] \in Int /\ Reduced(r)[2] \in Nat \ {0}
<1> DEFINE a == r[1]
           b == r[2]
           size == IF a < 0 THEN -a ELSE a
           D == Divisors(size, b)
           gcd == Max(D)
<1>1. a \in Int /\ b \in Nat \ {0}
  BY TimecodeAssumption
<1>2. size \in Nat
  BY <1>1
<1> HIDE DEF a, b, size
<1>3. 1 \in D
  BY <1>1, <1>2 DEF Divisors
<1>4. D \in SUBSET (0 .. b) /\ b \in Nat
  BY <1>1 DEF Divisors
<1>5. gcd \in D
  <2> HIDE DEF D
  <2> QED
    BY <1>3, <1>4, MaxBounded
<1>6. gcd \in 1 .. b /\ b % gcd = 0
  BY <1>5 DEF Divisors
<1> HIDE DEF gcd
<1>7. gcd \in Nat \ {0}
  BY <1>1, <1>6
<1>8. b = gcd * (b \div gcd) + (b % gcd) /\ b \div gcd \in Int
  BY <1>1, <1>7, DivModOf
<1>9. b \div gcd \in Nat
  BY <1>1, <1>7
<1>10. b \div gcd # 0
  BY <1>1, <1>6, <1>7, <1>8
<1>11. Trunc(a, gcd) \in Int
  BY <1>1, <1>7, TruncOf
<1>12. Reduced(r) = <<Trunc(a, gcd), b \div gcd>>
  BY DEF Reduced, a, b, size, gcd, D
<1> QED
  BY <1>9, <1>10, <1>11, <1>12

(* What the two scaled parts add up to, before the range ends.             *)
LEMMA AdvancedBy ==
  ASSUME NEW num \in Int, NEW den \in Nat \ {0}, NEW unit \in Nat \ {0}, NEW origin \in Int,
         NEW got, got = origin + Trunc(num, den) * unit + Trunc(Rem(num, den) * unit, den)
  PROVE  /\ got \in Int /\ num * unit \in Int /\ origin * den \in Int /\ got * den \in Int
         /\ num >= 0 => /\ num * unit >= 0
                        /\ got * den \in origin * den .. origin * den + num * unit
                        /\ got * den > origin * den + num * unit - den
         /\ num < 0 => /\ num * unit < 0
                       /\ got * den \in origin * den + num * unit .. origin * den
                       /\ got * den < origin * den + num * unit + den
<1> DEFINE t == Trunc(num, den)
           r == Rem(num, den)
           ru == r * unit
           s == Trunc(ru, den)
           q == Rem(ru, den)
           tu == t * unit
<1>1. /\ t \in Int /\ r \in Int /\ num = den * t + r
      /\ num >= 0 => t >= 0 /\ r >= 0
      /\ num < 0 => t <= 0 /\ r <= 0
  <2> HIDE DEF t, r
  <2>1. /\ t \in Int /\ r \in Int /\ num = den * t + r
        /\ num >= 0 => t >= 0 /\ r \in 0 .. den - 1
        /\ num < 0 => t <= 0 /\ r \in 1 - den .. 0
    BY TruncOf DEF t, r
  <2> QED
    BY <2>1
<1> HIDE DEF t, r
<1>2. /\ ru \in Int /\ r >= 0 => ru >= 0
      /\ r <= 0 => ru <= 0
  BY <1>1
<1>3. tu \in Int /\ (t >= 0 => tu >= 0) /\ (t <= 0 => tu <= 0)
  BY <1>1
<1>4. num * unit = den * tu + ru
  <2>1. num * unit = (den * t + r) * unit
    BY <1>1
  <2>2. (den * t + r) * unit = den * (t * unit) + r * unit
    BY <1>1
  <2> QED
    BY <2>1, <2>2
<1> HIDE DEF ru, tu
<1>5. ru \in Int
  BY <1>1 DEF ru
<1>6. /\ s \in Int /\ den * s \in Int /\ q \in Int /\ ru = den * s + q
      /\ ru >= 0 => s >= 0 /\ q \in 0 .. den - 1
      /\ ru < 0 => s <= 0 /\ q \in 1 - den .. 0
  BY <1>5, TruncOf
<1> HIDE DEF s, q
<1>7. got = origin + tu + s
  BY DEF tu, t, s, ru, r
<1>8. got * den = origin * den + den * tu + den * s
  BY <1>3, <1>6, <1>7
<1>9. /\ origin * den \in Int /\ den * tu \in Int /\ got \in Int
      /\ tu >= 0 => den * tu >= 0
      /\ tu <= 0 => den * tu <= 0
      /\ s >= 0 => den * s >= 0
      /\ s <= 0 => den * s <= 0
  BY <1>3, <1>6, <1>7
<1>10. got * den = origin * den + num * unit - q /\ num * unit \in Int /\ got * den \in Int
  BY <1>4, <1>5, <1>6, <1>8, <1>9
<1>11. num >= 0 => /\ num * unit >= 0 /\ q \in 0 .. den - 1
                   /\ got * den >= origin * den
  BY <1>1, <1>2, <1>3, <1>4, <1>5, <1>6, <1>8, <1>9
<1>12. num < 0 => num * unit < 0
  OBVIOUS
<1>13. num < 0 => q \in 1 - den .. 0 /\ got * den <= origin * den
  <2>1. SUFFICES ASSUME num < 0 PROVE q \in 1 - den .. 0 /\ got * den <= origin * den
    OBVIOUS
  <2>2. tu <= 0 /\ ru <= 0
    BY <1>1, <1>2, <1>3, <2>1
  <2>3. q \in 1 - den .. 0 /\ s <= 0
    <3>1. CASE ru < 0
      BY <1>6, <3>1
    <3>2. CASE ru = 0
      <4>1. Trunc(0, den) = 0 /\ Rem(0, den) = 0
        BY DEF Trunc, Rem
      <4>2. s = 0 /\ q = 0
        BY <3>2, <4>1 DEF s, q
      <4> QED
        BY <4>2
    <3> QED
      BY <1>5, <2>2, <3>1, <3>2
  <2> QED
    BY <1>6, <1>8, <1>9, <2>2, <2>3
<1> QED
  BY <1>9, <1>10, <1>11, <1>12, <1>13

LEMMA ClampedTo ==
  ASSUME NEW x \in Int
  PROVE  /\ Lowest \in Int /\ Highest \in Int /\ Lowest < Highest
         /\ x < Lowest => Clamped(x) = Lowest
         /\ x > Highest => Clamped(x) = Highest
         /\ x \in Lowest .. Highest => Clamped(x) = x
<1>1. UNIT \in Nat \ {0} /\ MAX_FRAMES \in Nat \ {0}
  BY TimecodeAssumption
<1>2. /\ (-(MAX_FRAMES + 1)) * UNIT \in Int /\ MAX_FRAMES * UNIT \in Int
      /\ (-(MAX_FRAMES + 1)) * UNIT <= 0 /\ MAX_FRAMES * UNIT >= 0
  BY <1>1
<1>3. Lowest \in Int /\ Highest \in Int /\ Lowest < Highest
  BY <1>1, <1>2 DEF Lowest, Highest
<1> DEFINE m == Min({x, Highest})
<1>4. m = IF x < Highest THEN x ELSE Highest
  BY <1>3, SmallerOfTwo
<1> HIDE DEF m
<1>5. m \in Int
  BY <1>3, <1>4
<1>6. Max({Lowest, m}) = IF Lowest < m THEN m ELSE Lowest
  BY <1>3, <1>5, LargerOfTwo
<1>7. Clamped(x) = Max({Lowest, m})
  BY DEF Clamped, m
<1> QED
  BY <1>3, <1>4, <1>6, <1>7

TimecodeInv ==
  /\ format \in Formats /\ elapsed \in Int
  /\ mode = "advance" => rate[1] \in Int /\ rate[2] \in Nat \ {0}

LEMMA AdvancesExactly ==
  ASSUME TimecodeInv
  PROVE  AdvanceExact
<1> SUFFICES ASSUME mode = "advance" PROVE AdvanceExact
  BY DEF AdvanceExact
<1> DEFINE num == Numerator(format, rate, elapsed)
           den == Denominator(format, rate)
           got == Advance(format, rate, elapsed)
           x == ORIGIN + Trunc(num, den) * UNIT + Trunc(Rem(num, den) * UNIT, den)
           exact == ORIGIN * den + num * UNIT
<1>1. /\ format.num \in Nat \ {0} /\ format.den \in Nat \ {0} /\ elapsed \in Int
      /\ rate[1] \in Int /\ rate[2] \in Nat \ {0} /\ NANOS \in Nat \ {0}
      /\ UNIT \in Nat \ {0} /\ ORIGIN \in Int
  BY TimecodeAssumption DEF TimecodeInv
<1>2. num \in Int
  <2>1. elapsed * format.num \in Int
    BY <1>1
  <2> QED
    BY <1>1, <2>1 DEF Numerator
<1>3. den \in Nat \ {0}
  <2>1. NANOS * format.den \in Nat \ {0}
    BY <1>1
  <2> DEFINE nd == NANOS * format.den
  <2> HIDE DEF nd
  <2>2. nd * rate[2] \in Nat \ {0}
    BY <1>1, <2>1 DEF nd
  <2> QED
    BY <2>2 DEF Denominator, nd
<1>4. got = Clamped(x)
  BY DEF Advance
<1> HIDE DEF num, den, got
<1>5. /\ x \in Int /\ num * UNIT \in Int /\ ORIGIN * den \in Int /\ x * den \in Int
      /\ num >= 0 => /\ num * UNIT >= 0
                     /\ x * den \in ORIGIN * den .. ORIGIN * den + num * UNIT
                     /\ x * den > ORIGIN * den + num * UNIT - den
      /\ num < 0 => /\ num * UNIT < 0
                    /\ x * den \in ORIGIN * den + num * UNIT .. ORIGIN * den
                    /\ x * den < ORIGIN * den + num * UNIT + den
  <2> HIDE DEF x
  <2> QED
    BY <1>1, <1>2, <1>3, AdvancedBy DEF x
<1> HIDE DEF x
<1>6. exact \in Int /\ x * den \in exact - den + 1 .. exact + den - 1
  BY <1>2, <1>3, <1>5
<1>7. num >= 0 => exact >= ORIGIN * den /\ x * den \in ORIGIN * den .. exact
  BY <1>5
<1>8. num < 0 => exact < ORIGIN * den /\ x * den \in exact .. ORIGIN * den
  BY <1>2, <1>5
<1> HIDE DEF exact
<1>9. /\ Lowest \in Int /\ Highest \in Int /\ Lowest < Highest
      /\ x < Lowest => got = Lowest
      /\ x > Highest => got = Highest
      /\ x \in Lowest .. Highest => got = x
  BY <1>4, <1>5, ClampedTo
<1>10. exact > Highest * den => got = Highest
  <2>1. SUFFICES ASSUME exact > Highest * den PROVE x >= Highest
    BY <1>5, <1>9
  <2>2. (Highest - 1) * den = Highest * den - den /\ Highest * den \in Int
    BY <1>3, <1>9, CancelFactor
  <2>3. (Highest - 1) * den < x * den
    BY <1>3, <1>5, <1>6, <2>1, <2>2
  <2>4. Highest - 1 < x
    <3>1. Highest - 1 \in Int
      BY <1>9
    <3> QED
      BY <1>3, <1>5, <2>3, <3>1, CancelFactor
  <2> QED
    BY <1>5, <1>9, <2>4
<1>11. exact < Lowest * den => got = Lowest
  <2>1. SUFFICES ASSUME exact < Lowest * den PROVE x <= Lowest
    BY <1>5, <1>9
  <2>2. (Lowest + 1) * den = Lowest * den + den /\ Lowest * den \in Int
    BY <1>3, <1>9, CancelFactor
  <2>3. x * den < (Lowest + 1) * den
    BY <1>3, <1>5, <1>6, <2>1, <2>2
  <2>4. x < Lowest + 1
    <3>1. Lowest + 1 \in Int
      BY <1>9
    <3> QED
      BY <1>3, <1>5, <2>3, <3>1, CancelFactor
  <2> QED
    BY <1>5, <1>9, <2>4
<1>12. ASSUME exact \in Lowest * den .. Highest * den
       PROVE  got = x
  <2>1. /\ (Highest + 1) * den = Highest * den + den /\ Highest * den \in Int
        /\ (Lowest - 1) * den = Lowest * den - den /\ Lowest * den \in Int
    BY <1>3, <1>9, CancelFactor
  <2>2. (Lowest - 1) * den < x * den /\ x * den < (Highest + 1) * den
    BY <1>3, <1>5, <1>6, <1>12, <2>1
  <2>3. Lowest - 1 < x /\ x < Highest + 1
    <3>1. Lowest - 1 \in Int /\ Highest + 1 \in Int
      BY <1>9
    <3> QED
      BY <1>3, <1>5, <2>2, <3>1, CancelFactor
  <2> QED
    BY <1>5, <1>9, <2>3
<1>13. /\ exact > Highest * den => got = Highest
       /\ exact < Lowest * den => got = Lowest
       /\ exact \in Lowest * den..Highest * den =>
            /\ got * den - exact \in 1 - den..den - 1
            /\ IF exact >= ORIGIN * den THEN got * den \in ORIGIN * den..exact
                                        ELSE got * den \in exact..ORIGIN * den
  <2>1. ASSUME exact \in Lowest * den..Highest * den
        PROVE  /\ got * den - exact \in 1 - den..den - 1
               /\ IF exact >= ORIGIN * den THEN got * den \in ORIGIN * den..exact
                                           ELSE got * den \in exact..ORIGIN * den
    <3>1. got * den = x * den
      BY <1>12, <2>1
    <3>2. x * den - exact \in 1 - den..den - 1
      BY <1>3, <1>5, <1>6
    <3>3. IF exact >= ORIGIN * den THEN x * den \in ORIGIN * den..exact
                                   ELSE x * den \in exact..ORIGIN * den
      BY <1>2, <1>5, <1>6, <1>7, <1>8
    <3> QED
      BY <3>1, <3>2, <3>3
  <2> QED
    BY <1>10, <1>11, <2>1
<1> QED
  BY <1>13 DEF AdvanceExact, exact, num, den, got

LEMMA TimecodeInitially == TimecodeInit => TimecodeInv
BY ReducedRate, TimecodeAssumption DEF TimecodeInit, TimecodeInv

LEMMA TimecodeKeeps == TimecodeInv /\ [TimecodeNext]_timecodeVars => TimecodeInv'
BY DEF TimecodeInv, TimecodeNext, NextFrame, TimePasses, timecodeVars

(* A position advances by the motion, cut towards its anchor by less than  *)
(* a subframe, for every rate and every rate of frames.                    *)
THEOREM TimecodeAdvanceExact == TimecodeSpec => []AdvanceExact
BY TimecodeInitially, TimecodeKeeps, AdvancesExactly, PTL DEF TimecodeSpec

-----------------------------------------------------------------------------
(* Labels: what FrameRate::tc accepts.                                     *)
IsLabel(f, l) ==
  /\ l \in [h : Nat, m : Nat, s : Nat, f : Nat]
  /\ Takes(f, l)

LEMMA CeilingPositive ==
  ASSUME NEW a \in Nat \ {0}, NEW b \in Nat \ {0}
  PROVE  (a + b - 1) \div b \in Nat \ {0}
<1> DEFINE x == a + b - 1
<1>1. x \in Nat /\ x >= b
  OBVIOUS
<1> HIDE DEF x
<1>2. x \div b \in Int /\ x % b \in 0 .. b - 1 /\ x = b * (x \div b) + (x % b)
  BY <1>1, DivModOf
<1>3. x \div b \in Nat
  BY <1>1
<1>4. x \div b # 0
  BY <1>1, <1>2
<1> QED
  BY <1>3, <1>4 DEF x

LEMMA NominalRate ==
  ASSUME NEW f \in Formats
  PROVE  /\ Nominal(f) \in Nat \ {0} /\ Dropped(f) \in Nat /\ Dropped(f) <= Nominal(f)
         /\ TenMinutes(f) \in Nat \ {0} /\ FramesPerDay(f) = 144 * TenMinutes(f)
         /\ FramesPerDay(f) \in Nat \ {0}
         /\ 60 * Nominal(f) - Dropped(f) \in Nat \ {0}
<1> DEFINE n == Nominal(f)
           d == Dropped(f)
<1>1. f.num \in Nat \ {0} /\ f.den \in Nat \ {0} /\ f.drop \in BOOLEAN
  BY TimecodeAssumption
<1>2. n \in Nat \ {0}
  BY <1>1, CeilingPositive DEF Nominal
<1> HIDE DEF n
<1>3. d \in Nat /\ 15 * d <= n
  BY <1>2 DEF Dropped, n
<1> HIDE DEF d
<1>4. TenMinutes(f) = n * 600 - d * 9 /\ FramesPerDay(f) = 86400 * n - d * 1296
  BY DEF TenMinutes, FramesPerDay, n, d
<1> QED
  BY <1>2, <1>3, <1>4 DEF n, d

TakenApart(n, d, h, m, s, x, mins, ten, r) ==
  /\ mins \in 0 .. 1439 /\ ten = h * 6 + m \div 10 /\ ten \in 0 .. 143
  /\ m % 10 \in 0 .. 9 /\ mins = 10 * ten + (m % 10)
  /\ r \in 0 .. 60 * n - 1 /\ (m % 10 = 0 \/ r >= d)
  /\ (m % 10) * (60 * n - d) \in Nat
  /\ (m % 10) * (60 * n - d) + r \in 0 .. 600 * n - 9 * d - 1
  /\ ((mins * 60 + s) * n + x) - d * (mins - ten)
       = (600 * n - 9 * d) * ten + ((m % 10) * (60 * n - d) + r)

LEMMA LabelTakenApart ==
  ASSUME NEW n \in Nat \ {0}, NEW d \in Nat, 15 * d <= n,
         NEW h \in 0 .. 23, NEW m \in 0 .. 59, NEW s \in 0 .. 59, NEW x \in 0 .. n - 1,
         m % 10 = 0 \/ s > 0 \/ x >= d,
         NEW mins, mins = h * 60 + m, NEW ten, ten = mins \div 10, NEW r, r = s * n + x
  PROVE  TakenApart(n, d, h, m, s, x, mins, ten, r)
<1> DEFINE k == m % 10
           len == 60 * n - d
<1>1. mins \in 0 .. 1439 /\ ten = h * 6 + m \div 10 /\ ten \in 0 .. 143
  OBVIOUS
<1>2. k \in 0 .. 9 /\ mins = 10 * ten + k
  OBVIOUS
<1>3. r \in 0 .. 60 * n - 1
  <2>1. s * n >= 0 /\ s * n <= 59 * n /\ s * n \in Int
    OBVIOUS
  <2> QED
    BY <2>1
<1>4. k = 0 \/ r >= d
  <2>1. s > 0 => s * n >= n
    OBVIOUS
  <2>2. s * n \in Nat
    OBVIOUS
  <2> QED
    BY <2>1, <2>2
<1> HIDE DEF k
<1>5. len \in Nat \ {0}
  OBVIOUS
<1>6. k * len \in Nat /\ k * len <= 9 * len
  <2> HIDE DEF len
  <2> QED
    BY <1>2, <1>5
<1>7. k * len + r \in 0 .. 600 * n - 9 * d - 1
  BY <1>3, <1>5, <1>6
<1>8. ((mins * 60 + s) * n + x) - d * (mins - ten) = (600 * n - 9 * d) * ten + (k * len + r)
  <2> DEFINE tn == ten * n
             kn == k * n
             sn == s * n
             dt == d * ten
             dk == d * k
  <2>1. mins - ten = 9 * ten + k /\ ten \in Int /\ k \in Int
    BY <1>1, <1>2
  <2>2. (mins * 60 + s) * n = 600 * tn + 60 * kn + sn
    BY <1>1, <1>2
  <2>3. d * (mins - ten) = 9 * dt + dk
    <3>1. d * (9 * ten + k) = 9 * dt + dk
      BY <2>1
    <3> QED
      BY <2>1, <3>1
  <2>4. k * len = 60 * kn - dk
    BY <2>1
  <2>5. (600 * n - 9 * d) * ten = 600 * tn - 9 * dt
    BY <2>1
  <2>6. r = sn + x
    OBVIOUS
  <2>7. tn \in Int /\ kn \in Int /\ sn \in Int /\ dt \in Int /\ dk \in Int
    BY <2>1
  <2> HIDE DEF tn, kn, sn, dt, dk, len
  <2> QED
    BY <2>2, <2>3, <2>4, <2>5, <2>6, <2>7
<1> QED
  BY <1>1, <1>2, <1>3, <1>4, <1>6, <1>7, <1>8 DEF k, TakenApart

Digits(n, h, m, s, x, numbered) ==
  /\ numbered \div (n * 3600) = h /\ (numbered \div (n * 60)) % 60 = m
  /\ (numbered \div n) % 60 = s /\ numbered % n = x

LEMMA DigitsTakenApart ==
  ASSUME NEW n \in Nat \ {0},
         NEW h \in 0 .. 23, NEW m \in 0 .. 59, NEW s \in 0 .. 59, NEW x \in 0 .. n - 1,
         NEW numbered, numbered = ((h * 60 + m) * 60 + s) * n + x
  PROVE  Digits(n, h, m, s, x, numbered)
<1> DEFINE q == (h * 60 + m) * 60 + s
           mins == h * 60 + m
           sn == s * n
           mn == m * n
           w == n * 60
           v == n * 3600
<1>1. q \in Int /\ q % 60 = s /\ mins \in Int /\ mins % 60 = m
  OBVIOUS
<1>2. /\ sn \in Int /\ 0 <= sn /\ sn <= 59 * n
      /\ mn \in Int /\ 0 <= mn /\ mn <= 59 * n
  OBVIOUS
<1>3. /\ numbered = n * q + x
      /\ numbered = w * mins + (sn + x)
      /\ numbered = v * h + (60 * mn + sn + x)
  OBVIOUS
<1>4. w \in Nat \ {0} /\ v \in Nat \ {0} /\ sn + x \in 0 .. w - 1 /\ 60 * mn + sn + x \in 0 .. v - 1
  <2> HIDE DEF sn, mn
  <2> QED
    BY <1>2
<1> HIDE DEF q, mins, sn, mn, w, v
<1>5. numbered \div n = q /\ numbered % n = x
  <2>1. q \in Int /\ numbered = n * q + x
    BY <1>1, <1>3
  <2> QED
    BY ONLY <2>1, ModOf, n \in Nat \ {0}, x \in 0 .. n - 1
<1>6. numbered \div w = mins
  <2>1. w \in Nat \ {0} /\ mins \in Int /\ sn + x \in 0 .. w - 1 /\ numbered = w * mins + (sn + x)
    BY <1>1, <1>3, <1>4
  <2> QED
    BY ONLY <2>1, ModOf
<1>7. numbered \div v = h
  <2>1. /\ v \in Nat \ {0} /\ h \in Int /\ 60 * mn + sn + x \in 0 .. v - 1
        /\ numbered = v * h + (60 * mn + sn + x)
    BY <1>3, <1>4
  <2> QED
    BY ONLY <2>1, ModOf
<1> QED
  BY <1>1, <1>5, <1>6, <1>7 DEF w, v, Digits

(* What is left of a ten minutes tells the minutes that have begun in it.  *)
LEMMA SkipsBefore ==
  ASSUME NEW f \in Formats, NEW k \in 0 .. 9, NEW r \in 0 .. 60 * Nominal(f) - 1,
         k = 0 \/ r >= Dropped(f), NEW rem, rem = k * (60 * Nominal(f) - Dropped(f)) + r
  PROVE  Skips(f, rem) = Dropped(f) * k
<1> DEFINE n == Nominal(f)
           d == Dropped(f)
           len == 60 * n - d
           y == rem - d
           z == r - d
<1>1. n \in Nat \ {0} /\ d \in Nat /\ d <= n /\ len \in Nat \ {0}
  BY NominalRate
<1>2. Skips(f, rem) = IF rem >= d THEN d * ((rem - d) \div len) ELSE 0
  <2>1. n * 60 - d = len
    BY <1>1
  <2> QED
    BY <2>1 DEF Skips
<1>3. rem = k * len + r /\ r \in 0 .. 60 * n - 1 /\ (k = 0 \/ r >= d)
  OBVIOUS
<1>4. 60 * n - 1 = len + d - 1
  BY <1>1
<1> HIDE DEF n, d, len
<1>0. k * len \in Nat
  BY <1>1
<1>5. CASE r >= d
  <2>1. y = len * k + z /\ z \in 0 .. len - 1 /\ k \in Int /\ rem >= d
    BY <1>0, <1>1, <1>3, <1>4, <1>5
  <2> HIDE DEF y, z
  <2>2. y \div len = k
    BY ONLY <1>1, <2>1, ModOf
  <2> QED
    BY <1>2, <2>1, <2>2 DEF y, d, len, n
<1>6. CASE ~(r >= d)
  <2>1. k = 0 /\ rem = r
    BY <1>1, <1>3, <1>6
  <2>2. d * k = 0
    BY <1>1, <2>1
  <2> QED
    BY <1>2, <1>6, <2>1, <2>2 DEF d
<1> QED
  BY <1>5, <1>6

(* The frame of a label is a frame of a day, and no other label is shown   *)
(* for it.                                                                 *)
LEMMA LabelOfItsFrame ==
  ASSUME NEW f \in Formats, NEW l, IsLabel(f, l), NEW frames \in Int,
         frames % FramesPerDay(f) = PositionOf(f, l)
  PROVE  Label(f, frames) = l
<1> DEFINE n == Nominal(f)
           d == Dropped(f)
           h == l.h
           m == l.m
           s == l.s
           x == l.f
           mins == h * 60 + m
           ten == mins \div 10
           r == s * n + x
           k == m % 10
           len == 60 * n - d
           all == TenMinutes(f)
           rem == k * len + r
           day == frames % FramesPerDay(f)
           at == (mins * 60 + s) * n + x
<1>1. n \in Nat \ {0} /\ d \in Nat /\ 15 * d <= n /\ all = 600 * n - 9 * d /\ all \in Nat \ {0}
  BY NominalRate DEF Dropped, TenMinutes
<1>2. /\ h \in 0 .. 23 /\ m \in 0 .. 59 /\ s \in 0 .. 59 /\ x \in 0 .. n - 1
      /\ m % 10 = 0 \/ s > 0 \/ x >= d
      /\ l = [h |-> h, m |-> m, s |-> s, f |-> x]
  BY <1>1 DEF IsLabel, Takes
<1>3. day = (mins * 60 + s) * n + (x - d * (mins - ten))
  BY DEF PositionOf
<1>4. Label(f, frames) = LET numbered == day + d * 9 * (day \div all) + Skips(f, day % all)
                         IN  [h |-> numbered \div (n * 3600), m |-> (numbered \div (n * 60)) % 60,
                              s |-> (numbered \div n) % 60, f |-> numbered % n]
  BY DEF Label
<1>5. r \in 0 .. 60 * n - 1 /\ (k = 0 \/ r >= d) => Skips(f, rem) = d * k
  <2>1. k \in 0 .. 9
    BY <1>2
  <2> HIDE DEF k, r
  <2> QED
    BY <2>1, SkipsBefore
<1> HIDE DEF n, d, h, m, s, x, all, day
<1>6. /\ mins = h * 60 + m /\ ten = mins \div 10 /\ r = s * n + x /\ k = m % 10
      /\ rem = k * (60 * n - d) + r /\ at = (mins * 60 + s) * n + x
      /\ at = ((h * 60 + m) * 60 + s) * n + x
  OBVIOUS
<1> HIDE DEF mins, ten, r, k, rem, at
<1>7. /\ mins \in 0 .. 1439 /\ ten \in 0 .. 143
      /\ k \in 0 .. 9 /\ mins = 10 * ten + k
      /\ r \in 0 .. 60 * n - 1 /\ (k = 0 \/ r >= d)
      /\ rem \in 0 .. 600 * n - 9 * d - 1
      /\ at - d * (mins - ten) = (600 * n - 9 * d) * ten + rem
  <2>1. k = 0 \/ s > 0 \/ x >= d
    BY <1>2, <1>6, SMTT(30)
  <2>2. TakenApart(n, d, h, m, s, x, mins, ten, r)
    BY <1>1, <1>2, <1>6, <2>1, LabelTakenApart, ZenonT(40)
  <2>3. /\ mins \in 0 .. 1439 /\ ten \in 0 .. 143
        /\ k \in 0 .. 9 /\ mins = 10 * ten + k
        /\ r \in 0 .. 60 * n - 1 /\ (k = 0 \/ r >= d)
    <3>1. k = m % 10
      BY <1>6
    <3> QED
      BY <2>2, <3>1, Zenon DEF TakenApart
  <2>4. rem \in 0 .. 600 * n - 9 * d - 1
    <3>1. rem = (m % 10) * (60 * n - d) + r
      BY <1>6
    <3>2. (m % 10) * (60 * n - d) + r \in 0 .. 600 * n - 9 * d - 1
      BY ONLY <2>2, Zenon DEF TakenApart
    <3> QED
      BY ONLY <3>1, <3>2, Zenon
  <2>5. at - d * (mins - ten) = (600 * n - 9 * d) * ten + rem
    <3>1. rem = (m % 10) * (60 * n - d) + r /\ at = (mins * 60 + s) * n + x
      BY <1>6
    <3>2. ((mins * 60 + s) * n + x) - d * (mins - ten)
            = (600 * n - 9 * d) * ten + ((m % 10) * (60 * n - d) + r)
      BY ONLY <2>2, Zenon DEF TakenApart
    <3> QED
      BY ONLY <3>1, <3>2, Zenon
  <2> QED
    BY <2>3, <2>4, <2>5
<1>8. at \in Int /\ day = at - d * (mins - ten)
  <2>1. mins \in Int /\ s \in Int /\ x \in Int /\ d * (mins - ten) \in Int
    BY <1>1, <1>2, <1>7
  <2>2. (mins * 60 + s) * n \in Int
    BY <1>1, <2>1
  <2> QED
    BY <1>3, <1>6, <2>1, <2>2
<1>10. day \div all = ten /\ day % all = rem
  <2>1. all \in Nat \ {0} /\ ten \in Int /\ rem \in 0 .. all - 1 /\ day = all * ten + rem
    BY <1>1, <1>7, <1>8
  <2> QED
    BY ONLY <2>1, ModOf
<1>11. Skips(f, rem) = d * k
  BY <1>5, <1>7
<1>12. day + d * 9 * ten + d * k = at
  <2>1. ten \in Int /\ k \in Int /\ mins - ten = 9 * ten + k
    BY <1>7
  <2>2. d * (9 * ten + k) = d * 9 * ten + d * k /\ d * 9 * ten \in Int /\ d * k \in Int
    BY <1>1, <2>1, SMTT(30)
  <2> QED
    BY <1>8, <2>1, <2>2
<1>13. Digits(n, h, m, s, x, at)
  BY <1>1, <1>2, <1>6, DigitsTakenApart, ZenonT(40)
<1> QED
  BY <1>2, <1>4, <1>10, <1>11, <1>12, <1>13 DEF Digits

-----------------------------------------------------------------------------
(* The deck's step.  What it counts is one more frame of the day.          *)
PositionAt(n, d, mins, s, x) == (mins * 60 + s) * n + x - d * (mins - mins \div 10)

LEMMA PositionIsInt ==
  ASSUME NEW n \in Int, NEW d \in Int, NEW mins \in Int, NEW s \in Int, NEW x \in Int
  PROVE  /\ PositionAt(n, d, mins, s, x) \in Int
         /\ (mins * 60 + s) * n \in Int /\ mins \div 10 \in Int /\ d * (mins - mins \div 10) \in Int
<1> DEFINE i == mins * 60 + s
           j == mins - mins \div 10
<1>1. i \in Int /\ j \in Int /\ mins \div 10 \in Int
  OBVIOUS
<1> HIDE DEF i, j
<1>2. i * n \in Int /\ d * j \in Int
  BY <1>1
<1> QED
  BY <1>1, <1>2 DEF PositionAt, i, j

LEMMA FrameCarries ==
  ASSUME NEW n \in Int, NEW d \in Int, NEW mins \in Int, NEW s \in Int, NEW x \in Int
  PROVE  /\ PositionAt(n, d, mins, s, x + 1) = PositionAt(n, d, mins, s, x) + 1
         /\ PositionAt(n, d, mins, s + 1, 0) = PositionAt(n, d, mins, s, n - 1) + 1
<1> DEFINE i == mins * 60 + s
           dropped == d * (mins - mins \div 10)
<1>1. i * n \in Int /\ dropped \in Int /\ i \in Int
  BY PositionIsInt
<1>2. mins * 60 + (s + 1) = i + 1
  OBVIOUS
<1> HIDE DEF i, dropped
<1>3. (i + 1) * n = i * n + n
  BY <1>1
<1>4. /\ PositionAt(n, d, mins, s, x + 1) = i * n + (x + 1 - dropped)
      /\ PositionAt(n, d, mins, s, x) = i * n + (x - dropped)
      /\ PositionAt(n, d, mins, s + 1, 0) = (i + 1) * n + (0 - dropped)
      /\ PositionAt(n, d, mins, s, n - 1) = i * n + (n - 1 - dropped)
  BY <1>1, <1>2 DEF PositionAt, i, dropped
<1> QED
  BY <1>1, <1>3, <1>4

LEMMA MinuteCarries ==
  ASSUME NEW n \in Int, NEW d \in Int, NEW mins \in Nat,
         NEW x, x = IF (mins + 1) % 10 = 0 THEN 0 ELSE d
  PROVE  PositionAt(n, d, mins + 1, 0, x) = PositionAt(n, d, mins, 59, n - 1) + 1
<1> DEFINE i == mins * 60 + 59
           j == mins - mins \div 10
<1>1. i \in Int /\ j \in Int /\ x \in Int /\ (mins + 1) * 60 + 0 = i + 1
  OBVIOUS
<1>2. IF (mins + 1) % 10 = 0 THEN x = 0 /\ (mins + 1) - (mins + 1) \div 10 = j
                             ELSE x = d /\ (mins + 1) - (mins + 1) \div 10 = j + 1
  OBVIOUS
<1>3. /\ PositionAt(n, d, mins + 1, 0, x)
           = (i + 1) * n + (x - d * ((mins + 1) - (mins + 1) \div 10))
      /\ PositionAt(n, d, mins, 59, n - 1) = i * n + (n - 1 - d * j)
  BY <1>1 DEF PositionAt
<1> HIDE DEF i, j
<1>4. (i + 1) * n = i * n + n /\ d * (j + 1) = d * j + d /\ i * n \in Int /\ d * j \in Int
  BY <1>1
<1>5. PositionAt(n, d, mins + 1, 0, x) = i * n + n - d * j
  BY <1>1, <1>2, <1>3, <1>4
<1> QED
  BY <1>3, <1>4, <1>5

LEMMA PositionInDay ==
  ASSUME NEW f \in Formats, NEW l, IsLabel(f, l)
  PROVE  PositionOf(f, l) \in 0 .. FramesPerDay(f) - 1
<1> DEFINE n == Nominal(f)
           d == Dropped(f)
           all == TenMinutes(f)
           mins == l.h * 60 + l.m
           ten == mins \div 10
           r == l.s * n + l.f
           rem == (l.m % 10) * (60 * n - d) + r
           at == (mins * 60 + l.s) * n + l.f
<1>1. /\ n \in Nat \ {0} /\ d \in Nat /\ 15 * d <= n /\ all = 600 * n - 9 * d /\ all \in Nat \ {0}
      /\ FramesPerDay(f) = 144 * all
  BY NominalRate DEF Dropped, TenMinutes
<1>2. /\ l.h \in 0 .. 23 /\ l.m \in 0 .. 59 /\ l.s \in 0 .. 59 /\ l.f \in 0 .. n - 1
      /\ l.m % 10 = 0 \/ l.s > 0 \/ l.f >= d
  BY <1>1 DEF IsLabel, Takes
<1>3. PositionOf(f, l) = (mins * 60 + l.s) * n + (l.f - d * (mins - ten))
  BY SMTT(30) DEF PositionOf
<1> HIDE DEF n, d, all
<1>4. TakenApart(n, d, l.h, l.m, l.s, l.f, mins, ten, r)
  BY <1>1, <1>2, LabelTakenApart, ZenonT(40)
<1>8. /\ at = (mins * 60 + l.s) * n + l.f /\ l.s \in Int /\ l.f \in Int
      /\ rem = (l.m % 10) * (60 * n - d) + r
  BY <1>2
<1> HIDE DEF mins, ten, r, rem, at
<1>6. rem \in 0 .. 600 * n - 9 * d - 1
  <2>1. (l.m % 10) * (60 * n - d) + r \in 0 .. 600 * n - 9 * d - 1
    BY ONLY <1>4, Zenon DEF TakenApart
  <2> QED
    BY ONLY <1>8, <2>1, Zenon
<1>7. at - d * (mins - ten) = (600 * n - 9 * d) * ten + rem
  <2>1. ((mins * 60 + l.s) * n + l.f) - d * (mins - ten)
          = (600 * n - 9 * d) * ten + ((l.m % 10) * (60 * n - d) + r)
    BY ONLY <1>4, Zenon DEF TakenApart
  <2> QED
    BY ONLY <1>8, <2>1, Zenon
<1>5. ten \in 0 .. 143 /\ mins \in 0 .. 1439
  BY ONLY <1>4, Zenon DEF TakenApart
<1>9. (mins * 60 + l.s) * n \in Int /\ d * (mins - ten) \in Int /\ l.f \in Int
  <2>1. mins * 60 + l.s \in Int /\ mins - ten \in Int
    BY <1>5, <1>8
  <2> QED
    BY <1>1, <1>8, <2>1
<1>10. PositionOf(f, l) = all * ten + rem
  BY <1>1, <1>3, <1>7, <1>8, <1>9
<1>11. 0 <= all * ten /\ all * ten <= 143 * all /\ all * ten \in Int /\ rem \in 0 .. all - 1
  BY <1>1, <1>5, <1>6
<1> QED
  BY <1>1, <1>10, <1>11

LEMMA NextModulo ==
  ASSUME NEW d \in Nat \ {0}, NEW x \in Int
  PROVE  (x + 1) % d = IF (x % d) + 1 = d THEN 0 ELSE (x % d) + 1
<1> DEFINE q == x \div d
           r == x % d
           y == x + 1
<1>1. q \in Int /\ r \in 0 .. d - 1 /\ x = d * q + r
  BY DivModOf
<1>2. y = x + 1
  OBVIOUS
<1> HIDE DEF q, r, y
<1>3. d * q \in Int /\ d * (q + 1) = d * q + d /\ q + 1 \in Int
  BY <1>1
<1>4. CASE r + 1 = d
  <2>1. y = d * (q + 1) + 0 /\ 0 \in 0 .. d - 1
    BY <1>1, <1>2, <1>3, <1>4
  <2>2. y % d = 0
    BY <1>3, <2>1, ModOf
  <2> QED
    BY <1>4, <2>2 DEF y, r
<1>5. CASE r + 1 # d
  <2> DEFINE z == r + 1
  <2>1. y = d * q + z /\ z \in 0 .. d - 1
    BY <1>1, <1>2, <1>3, <1>5
  <2> HIDE DEF z
  <2>2. y % d = z
    BY ONLY d \in Nat \ {0}, <1>1, <2>1, ModOf
  <2> QED
    BY <1>5, <2>2 DEF y, r, z
<1> QED
  BY <1>4, <1>5

Follows(n, d, h, m, s, x, after) ==
  /\ x < n - 1 => after = [h |-> h, m |-> m, s |-> s, f |-> x + 1]
  /\ x = n - 1 /\ s < 59 => after = [h |-> h, m |-> m, s |-> s + 1, f |-> 0]
  /\ x = n - 1 /\ s = 59 /\ m < 59 =>
       after = [h |-> h, m |-> m + 1, s |-> 0, f |-> IF (m + 1) % 10 = 0 THEN 0 ELSE d]
  /\ x = n - 1 /\ s = 59 /\ m = 59 =>
       after = [h |-> (h + 1) % 24, m |-> 0, s |-> 0, f |-> 0]

LEMMA FollowingIs ==
  ASSUME NEW f \in Formats, NEW h \in 0 .. 23, NEW m \in 0 .. 59, NEW s \in 0 .. 59,
         NEW x \in 0 .. Nominal(f) - 1, m % 10 = 0 \/ s > 0 \/ x >= Dropped(f),
         NEW l, l = [h |-> h, m |-> m, s |-> s, f |-> x]
  PROVE  Follows(Nominal(f), Dropped(f), h, m, s, x, Following(f, l))
<1> DEFINE n == Nominal(f)
           d == Dropped(f)
           after == Following(f, l)
           carried == CASE l.f < n - 1 -> [l EXCEPT !.f = @ + 1]
                        [] l.f = n - 1 /\ l.s < 59 -> [l EXCEPT !.f = 0, !.s = @ + 1]
                        [] l.f = n - 1 /\ l.s = 59 /\ l.m < 59 ->
                             [l EXCEPT !.f = 0, !.s = 0, !.m = @ + 1]
                        [] OTHER -> [h |-> (l.h + 1) % 24, m |-> 0, s |-> 0, f |-> 0]
<1>1. n \in Nat \ {0} /\ d \in Nat
  BY NominalRate
<1>2. after = IF carried.s = 0 /\ carried.m % 10 # 0 /\ carried.f < d
                THEN [carried EXCEPT !.f = d] ELSE carried
  BY DEF Following
<1>3. l.h = h /\ l.m = m /\ l.s = s /\ l.f = x
  OBVIOUS
<1>4. x \in 0 .. n - 1 /\ (m % 10 = 0 \/ s > 0 \/ x >= d)
  OBVIOUS
<1> HIDE DEF n, d, after
<1>5. ASSUME x < n - 1 PROVE after = [h |-> h, m |-> m, s |-> s, f |-> x + 1]
  <2>1. carried = [l EXCEPT !.f = l.f + 1]
    BY <1>3, <1>5
  <2> HIDE DEF carried
  <2>2. carried = [h |-> h, m |-> m, s |-> s, f |-> x + 1]
    BY <1>3, <2>1
  <2>3. ~(s = 0 /\ m % 10 # 0 /\ x + 1 < d)
    BY <1>1, <1>4
  <2>4. carried.h = h /\ carried.m = m /\ carried.s = s /\ carried.f = x + 1
    BY <2>2
  <2> QED
    BY <1>2, <2>2, <2>3, <2>4
<1>6. ASSUME x = n - 1, s < 59 PROVE after = [h |-> h, m |-> m, s |-> s + 1, f |-> 0]
  <2>1. carried = [l EXCEPT !.f = 0, !.s = l.s + 1]
    <3>1. ~(l.f < n - 1) /\ l.f = n - 1 /\ l.s < 59
      BY <1>1, <1>3, <1>6
    <3> QED
      BY <3>1
  <2> HIDE DEF carried
  <2>2. carried = [h |-> h, m |-> m, s |-> s + 1, f |-> 0]
    BY <1>3, <2>1
  <2>3. s + 1 # 0
    OBVIOUS
  <2>4. carried.s = s + 1
    BY <2>2
  <2> QED
    BY <1>2, <2>2, <2>3, <2>4
<1>7. ASSUME x = n - 1, s = 59, m < 59
      PROVE  after = [h |-> h, m |-> m + 1, s |-> 0, f |-> IF (m + 1) % 10 = 0 THEN 0 ELSE d]
  <2>1. carried = [l EXCEPT !.f = 0, !.s = 0, !.m = l.m + 1]
    <3>1. ~(l.f < n - 1) /\ l.f = n - 1 /\ ~(l.s < 59) /\ l.s = 59 /\ l.m < 59
      BY <1>1, <1>3, <1>7
    <3> QED
      BY <3>1
  <2> HIDE DEF carried
  <2>2. carried = [h |-> h, m |-> m + 1, s |-> 0, f |-> 0]
    BY <1>3, <2>1
  <2>3. carried.h = h /\ carried.m = m + 1 /\ carried.s = 0 /\ carried.f = 0
    BY <2>2
  <2>4. CASE (m + 1) % 10 = 0
    BY <1>2, <2>2, <2>3, <2>4
  <2>5. CASE (m + 1) % 10 # 0 /\ d > 0
    <3>1. after = [carried EXCEPT !.f = d]
      BY <1>2, <2>3, <2>5
    <3>2. after = [h |-> h, m |-> m + 1, s |-> 0, f |-> d]
      BY <2>2, <3>1
    <3> QED
      BY <2>5, <3>2
  <2>6. CASE (m + 1) % 10 # 0 /\ d = 0
    BY <1>2, <2>2, <2>3, <2>6
  <2> QED
    BY <1>1, <2>4, <2>5, <2>6
<1>8. ASSUME x = n - 1, s = 59, m = 59
      PROVE  after = [h |-> (h + 1) % 24, m |-> 0, s |-> 0, f |-> 0]
  <2>1. carried = [h |-> (h + 1) % 24, m |-> 0, s |-> 0, f |-> 0]
    <3>1. ~(l.f < n - 1) /\ ~(l.s < 59) /\ ~(l.m < 59)
      BY <1>1, <1>3, <1>8
    <3> QED
      BY <1>3, <3>1
  <2> HIDE DEF carried
  <2>2. carried.m = 0 /\ 0 % 10 = 0
    BY <2>1
  <2> QED
    BY <1>2, <2>1, <2>2
<1> QED
  BY <1>5, <1>6, <1>7, <1>8 DEF Follows, after, n, d

LabelAt(f, l, at) == IsLabel(f, l) /\ PositionOf(f, l) = at /\ at \in 0 .. FramesPerDay(f) - 1

LEMMA PlacedAt ==
  ASSUME NEW f \in Formats, NEW n, n = Nominal(f), NEW d, d = Dropped(f),
         NEW h \in 0 .. 23, NEW m \in 0 .. 59, NEW s \in 0 .. 59, NEW x \in 0 .. n - 1,
         m % 10 = 0 \/ s > 0 \/ x >= d,
         NEW l, l = [h |-> h, m |-> m, s |-> s, f |-> x], NEW mins, mins = h * 60 + m
  PROVE  LabelAt(f, l, PositionAt(n, d, mins, s, x))
<1>1. n \in Nat \ {0} /\ d \in Nat
  BY NominalRate
<1>2. l.h = h /\ l.m = m /\ l.s = s /\ l.f = x
  OBVIOUS
<1>3. IsLabel(f, l)
  BY <1>1, <1>2 DEF IsLabel, Takes
<1>4. PositionOf(f, l) = PositionAt(n, d, mins, s, x)
  BY <1>2 DEF PositionOf, PositionAt
<1> QED
  BY <1>3, <1>4, PositionInDay DEF LabelAt

LEMMA FollowingCounts ==
  ASSUME NEW f \in Formats, NEW l, IsLabel(f, l)
  PROVE  /\ IsLabel(f, Following(f, l))
         /\ PositionOf(f, Following(f, l))
              = IF PositionOf(f, l) + 1 = FramesPerDay(f) THEN 0 ELSE PositionOf(f, l) + 1
<1> DEFINE n == Nominal(f)
           d == Dropped(f)
           day == FramesPerDay(f)
           h == l.h
           m == l.m
           s == l.s
           x == l.f
           mins == h * 60 + m
           dropped == IF (m + 1) % 10 = 0 THEN 0 ELSE d
           after == Following(f, l)
           at == PositionOf(f, l)
           next == PositionOf(f, after)
<1>1. n \in Nat \ {0} /\ d \in Nat /\ 15 * d <= n /\ day = 86400 * n - d * 1296
  BY NominalRate DEF Dropped, FramesPerDay
<1>2. /\ h \in 0 .. 23 /\ m \in 0 .. 59 /\ s \in 0 .. 59 /\ x \in 0 .. n - 1
      /\ m % 10 = 0 \/ s > 0 \/ x >= d
      /\ l = [h |-> h, m |-> m, s |-> s, f |-> x]
  BY <1>1 DEF IsLabel, Takes
<1>3. at = PositionAt(n, d, mins, s, x) /\ at \in 0 .. day - 1
  BY PositionInDay DEF PositionOf, PositionAt
<1>4. /\ x < n - 1 => after = [h |-> h, m |-> m, s |-> s, f |-> x + 1]
      /\ x = n - 1 /\ s < 59 => after = [h |-> h, m |-> m, s |-> s + 1, f |-> 0]
      /\ x = n - 1 /\ s = 59 /\ m < 59 =>
           after = [h |-> h, m |-> m + 1, s |-> 0, f |-> dropped]
      /\ x = n - 1 /\ s = 59 /\ m = 59 =>
           after = [h |-> (h + 1) % 24, m |-> 0, s |-> 0, f |-> 0]
  <2> HIDE DEF h, m, s, x
  <2>1. Follows(n, d, h, m, s, x, after)
    BY <1>2, FollowingIs, ZenonT(30)
  <2> HIDE DEF n, d, after
  <2> QED
    BY <2>1, SMTT(30) DEF Follows
<1>5. mins \in Nat /\ mins = h * 60 + m
  BY <1>2
<1>0. n = Nominal(f) /\ d = Dropped(f)
  OBVIOUS
<1> HIDE DEF n, d, day, h, m, s, x, mins, dropped, after, at, next
<1> DEFINE Counted == IsLabel(f, after) /\ next = IF at + 1 = day THEN 0 ELSE at + 1
<1>S. SUFFICES Counted
  BY DEF Counted, next, at, after, day
<1>C. ASSUME next = at + 1, next \in 0 .. day - 1, IsLabel(f, after)
      PROVE  Counted
  BY <1>1, <1>C
<1> HIDE DEF Counted
<1>6. CASE x < n - 1
  <2> DEFINE y == x + 1
  <2>1. y \in 0 .. n - 1 /\ (m % 10 = 0 \/ s > 0 \/ y >= d)
    BY <1>1, <1>2, <1>6
  <2>2. after = [h |-> h, m |-> m, s |-> s, f |-> y]
    BY <1>4, <1>6
  <2>3. PositionAt(n, d, mins, s, y) = PositionAt(n, d, mins, s, x) + 1
    BY <1>1, <1>2, <1>5, FrameCarries, SMTT(30)
  <2> HIDE DEF y
  <2>4. LabelAt(f, after, PositionAt(n, d, mins, s, y))
    BY <1>0, <1>2, <1>5, <2>1, <2>2, PlacedAt, ZenonT(40)
  <2>5. next = at + 1 /\ next \in 0 .. day - 1 /\ IsLabel(f, after)
    BY <1>3, <2>3, <2>4, Zenon DEF LabelAt, next, day
  <2> QED
    BY <1>C, <2>5
<1>7. CASE x = n - 1 /\ s < 59
  <2> DEFINE t == s + 1
  <2>1. t \in 0 .. 59 /\ 0 \in 0 .. n - 1 /\ (m % 10 = 0 \/ t > 0 \/ 0 >= d)
    BY <1>1, <1>2, <1>7
  <2>2. after = [h |-> h, m |-> m, s |-> t, f |-> 0]
    BY <1>4, <1>7
  <2>3. PositionAt(n, d, mins, t, 0) = PositionAt(n, d, mins, s, n - 1) + 1
    BY <1>1, <1>2, <1>5, FrameCarries, SMTT(30)
  <2> HIDE DEF t
  <2>4. LabelAt(f, after, PositionAt(n, d, mins, t, 0))
    BY <1>0, <1>2, <1>5, <2>1, <2>2, PlacedAt, ZenonT(40)
  <2>5. next = at + 1 /\ next \in 0 .. day - 1 /\ IsLabel(f, after)
    BY <1>3, <1>7, <2>3, <2>4, Zenon DEF LabelAt, next, day
  <2> QED
    BY <1>C, <2>5
<1>8. CASE x = n - 1 /\ s = 59 /\ m < 59
  <2> DEFINE k == m + 1
             u == mins + 1
  <2>1. /\ k \in 0 .. 59 /\ 0 \in 0 .. 59 /\ dropped \in 0 .. n - 1
        /\ k % 10 = 0 \/ 0 > 0 \/ dropped >= d
    BY <1>1, <1>2, <1>8 DEF dropped
  <2>2. after = [h |-> h, m |-> k, s |-> 0, f |-> dropped]
    BY <1>4, <1>8
  <2>3. dropped = IF u % 10 = 0 THEN 0 ELSE d
    BY <1>2, <1>5 DEF dropped
  <2>4. PositionAt(n, d, u, 0, dropped) = PositionAt(n, d, mins, 59, n - 1) + 1
    <3>1. n \in Int /\ d \in Int
      BY <1>1
    <3> QED
      BY ONLY <1>5, <2>3, <3>1, MinuteCarries, ZenonT(60)
  <2>5. u = h * 60 + k
    BY <1>2, <1>5
  <2> HIDE DEF k, u
  <2>6. LabelAt(f, after, PositionAt(n, d, u, 0, dropped))
    BY <1>0, <1>2, <2>1, <2>2, <2>5, PlacedAt, ZenonT(40)
  <2>7. next = at + 1 /\ next \in 0 .. day - 1 /\ IsLabel(f, after)
    BY <1>3, <1>8, <2>4, <2>6, Zenon DEF LabelAt, next, day
  <2> QED
    BY <1>C, <2>7
<1>9. CASE x = n - 1 /\ s = 59 /\ m = 59
  <2> DEFINE g == (h + 1) % 24
             u == g * 60 + 0
             w == mins + 1
  <2>1. g \in 0 .. 23 /\ 0 \in 0 .. 59 /\ 0 \in 0 .. n - 1 /\ 0 % 10 = 0
    BY <1>1, <1>2
  <2>2. after = [h |-> g, m |-> 0, s |-> 0, f |-> 0]
    BY <1>4, <1>9
  <2>3. PositionAt(n, d, w, 0, 0) = PositionAt(n, d, mins, 59, n - 1) + 1
    <3>1. w % 10 = 0
      BY <1>2, <1>5, <1>9
    <3>2. 0 = IF (mins + 1) % 10 = 0 THEN 0 ELSE d
      BY <3>1
    <3>3. n \in Int /\ d \in Int
      BY <1>1
    <3> QED
      BY ONLY <1>5, <3>2, <3>3, MinuteCarries, ZenonT(60)
  <2>4. h < 23 => u = w
    BY <1>2, <1>5, <1>9
  <2>5. h = 23 => u = 0 /\ w = 1440
    BY <1>2, <1>5, <1>9
  <2> HIDE DEF g, w
  <2>6. LabelAt(f, after, PositionAt(n, d, u, 0, 0))
    <3> HIDE DEF u
    <3>1. u = g * 60 + 0
      BY DEF u
    <3> QED
      BY <1>0, <1>2, <2>1, <2>2, <3>1, PlacedAt, ZenonT(40)
  <2> HIDE DEF u
  <2>7. CASE h < 23
    <3>1. next = at + 1 /\ next \in 0 .. day - 1 /\ IsLabel(f, after)
      BY <1>3, <1>9, <2>3, <2>4, <2>6, <2>7, Zenon DEF LabelAt, next, day
    <3> QED
      BY <1>C, <3>1
  <2>8. CASE h = 23
    <3>1. PositionAt(n, d, 0, 0, 0) = 0 /\ PositionAt(n, d, 1440, 0, 0) = 86400 * n - d * 1296
      BY <1>1 DEF PositionAt
    <3>2. next = 0 /\ IsLabel(f, after)
      BY <2>5, <2>6, <2>8, <3>1 DEF LabelAt, next
    <3>3. at + 1 = day
      BY <1>1, <1>3, <1>9, <2>3, <2>5, <2>8, <3>1
    <3> QED
      BY <3>2, <3>3 DEF Counted
  <2> QED
    BY <1>2, <2>7, <2>8
<1>10. (x < n - 1) \/ (x = n - 1 /\ (s < 59 \/ (s = 59 /\ (m < 59 \/ m = 59))))
  BY <1>1, <1>2
<1> QED
  BY <1>6, <1>7, <1>8, <1>9, <1>10

CounterInv == mode = "labels" =>
  /\ frame \in Int /\ IsLabel(format, counter)
  /\ PositionOf(format, counter) = frame % FramesPerDay(format)

LEMMA CounterInitially == TimecodeInit => CounterInv
<1> SUFFICES ASSUME TimecodeInit PROVE CounterInv
  OBVIOUS
<1> DEFINE n == Nominal(format)
           d == Dropped(format)
           all == TenMinutes(format)
           day == FramesPerDay(format)
           at == day - all
<1>1. /\ n \in Nat \ {0} /\ d \in Nat /\ 15 * d <= n /\ all = n * 600 - d * 9 /\ all \in Nat \ {0}
      /\ day = 144 * all /\ day \in Nat \ {0}
  BY NominalRate DEF Dropped, TenMinutes, TimecodeInit
<1>2. counter = [h |-> 23, m |-> 50, s |-> 0, f |-> 0] /\ frame = -all
  BY DEF TimecodeInit
<1>3. PositionOf(format, counter) = 85800 * n + 0 - d * 1287
  BY <1>1, <1>2 DEF PositionOf
<1> HIDE DEF n, d, all, day
<1>4. frame \in Int /\ at \in 0 .. day - 1 /\ frame = day * (-1) + at
  BY <1>1, <1>2
<1>5. PositionOf(format, counter) = at
  BY <1>1, <1>3
<1> HIDE DEF at
<1>6. frame % day = at
  BY <1>1, <1>4, ModOf
<1>7. IsLabel(format, counter)
  BY <1>1, <1>2 DEF IsLabel, Takes, n, d
<1> QED
  BY <1>4, <1>5, <1>6, <1>7 DEF CounterInv, day

LEMMA CounterKeeps == TimecodeInv /\ CounterInv /\ [TimecodeNext]_timecodeVars => CounterInv'
<1> SUFFICES ASSUME TimecodeInv, CounterInv, [TimecodeNext]_timecodeVars, mode' = "labels"
             PROVE  CounterInv'
  BY DEF CounterInv
<1>1. CASE NextFrame
  <2>1. /\ mode = "labels" /\ format' = format /\ frame' = frame + 1 /\ frame \in Int
        /\ counter' = Following(format, counter) /\ format \in Formats
        /\ IsLabel(format, counter) /\ PositionOf(format, counter) = frame % FramesPerDay(format)
    BY <1>1 DEF NextFrame, CounterInv, TimecodeInv
  <2> DEFINE day == FramesPerDay(format)
  <2>2. day \in Nat \ {0}
    BY <2>1, NominalRate
  <2>3. /\ IsLabel(format, counter')
        /\ PositionOf(format, counter')
             = IF PositionOf(format, counter) + 1 = day THEN 0 ELSE PositionOf(format, counter) + 1
    BY <2>1, FollowingCounts
  <2> HIDE DEF day
  <2>4. (frame + 1) % day = IF (frame % day) + 1 = day THEN 0 ELSE (frame % day) + 1
    BY <2>1, <2>2, NextModulo
  <2>5. PositionOf(format, counter') = (frame + 1) % day
    BY <2>1, <2>3, <2>4 DEF day
  <2> QED
    BY <2>1, <2>3, <2>5 DEF CounterInv, day
<1>2. CASE ~NextFrame
  <2>1. UNCHANGED <<mode, format, frame, counter>>
    BY <1>2 DEF TimecodeNext, TimePasses, timecodeVars
  <2> QED
    BY <2>1 DEF CounterInv
<1> QED
  BY <1>1, <1>2

LEMMA CountedIsShown ==
  ASSUME TimecodeInv, CounterInv
  PROVE  LabelsCount
<1> SUFFICES ASSUME mode = "labels" PROVE LabelsCount
  BY DEF LabelsCount
<1>1. /\ frame \in Int /\ format \in Formats /\ IsLabel(format, counter)
      /\ PositionOf(format, counter) = frame % FramesPerDay(format)
  BY DEF TimecodeInv, CounterInv
<1>2. counter = Label(format, frame)
  BY <1>1, LabelOfItsFrame
<1>3. Takes(format, counter) /\ counter \in [h : Nat, m : Nat, s : Nat, f : Nat]
  BY <1>1 DEF IsLabel
<1>4. ASSUME NEW d \in 0 .. Dropped(format) - 1, counter.m % 10 # 0
      PROVE  ~Takes(format, [counter EXCEPT !.s = 0, !.f = d])
  <2>1. Dropped(format) \in Nat
    BY <1>1, NominalRate
  <2> DEFINE l == [counter EXCEPT !.s = 0, !.f = d]
  <2>2. l.m = counter.m /\ l.s = 0 /\ l.f = d
    BY <1>3
  <2> HIDE DEF l
  <2>3. ~Takes(format, l)
    BY <1>4, <2>1, <2>2 DEF Takes
  <2> QED
    BY <2>3 DEF l
<1> QED
  BY <1>1, <1>2, <1>3, <1>4 DEF LabelsCount

(* For every rate of frames, drop-frame or not, a frame has the label that *)
(* a deck counts to, and the label leads back to the frame.                *)
THEOREM TimecodeLabelsCount == TimecodeSpec => []LabelsCount
BY TimecodeInitially, TimecodeKeeps, CounterInitially, CounterKeeps, CountedIsShown, PTL
   DEF TimecodeSpec

-----------------------------------------------------------------------------
(* Boundaries.  What goes on from each instant to the next goes on.        *)
LEMMA Spreads ==
  ASSUME NEW a \in Int, NEW b \in Int, a <= b, NEW S,
         \A t \in a .. b - 1 : t \in S => t + 1 \in S, a \in S
  PROVE  b \in S
<1> DEFINE Bad == {k \in 0 .. b - a : a + k \notin S}
<1>1. SUFFICES ASSUME Bad # {} PROVE FALSE
  <2>1. b - a \in 0 .. b - a /\ a + (b - a) = b
    OBVIOUS
  <2> QED
    BY <2>1
<1>2. PICK m \in Bad : \A k \in Bad : m <= k
  <2>1. Bad \in SUBSET Nat
    OBVIOUS
  <2> HIDE DEF Bad
  <2> QED
    BY <1>1, <2>1, MinNat
<1>3. m \in 0 .. b - a /\ a + m \notin S
  BY <1>2
<1>4. m # 0
  <2>1. a + 0 = a
    OBVIOUS
  <2> QED
    BY <1>3, <2>1
<1>5. m - 1 \in 0 .. b - a /\ m - 1 \notin Bad
  BY <1>2, <1>3, <1>4
<1>6. a + (m - 1) \in S /\ a + (m - 1) \in a .. b - 1 /\ (a + (m - 1)) + 1 = a + m
  BY <1>3, <1>4, <1>5
<1> QED
  BY <1>3, <1>6

(* The middle of two instants, in order or not.                            *)
LEMMA Middle ==
  ASSUME NEW x \in Int, NEW y \in Int, NEW mid, mid = x + (y - x) \div 2
  PROVE  /\ mid \in Int
         /\ x < y => x <= mid /\ mid < y
         /\ y < x => y <= mid /\ mid < x
<1> DEFINE d == y - x
           h == d \div 2
<1>1. h \in Int /\ (d = 2 * h \/ d = 2 * h + 1)
  BY SMT
<1>2. mid = x + h /\ d = y - x
  OBVIOUS
<1> HIDE DEF d, h
<1> QED
  BY <1>1, <1>2

(* The first of a range at which something holds, or else the last of it.  *)
Lasting(lo, hi, holding) ==
  \A t \in lo .. hi, u \in lo .. hi : t \in holding /\ t <= u => u \in holding

Found(holding, x, y, t) ==
  /\ t \in x .. y /\ (t \in holding \/ t = y)
  /\ \A u \in x .. y : u < t => u \notin holding

LEMMA FoundHalf ==
  ASSUME NEW lo \in Nat, NEW hi \in Nat, NEW holding, Lasting(lo, hi, holding),
         NEW x \in lo .. hi, NEW y \in lo .. hi, x < y, NEW mid \in x .. y - 1, NEW t
  PROVE  /\ mid \in holding /\ Found(holding, x, mid, t) => Found(holding, x, y, t)
         /\ mid \notin holding /\ Found(holding, mid + 1, y, t) => Found(holding, x, y, t)
<1>1. ASSUME mid \in holding, Found(holding, x, mid, t) PROVE Found(holding, x, y, t)
  BY <1>1 DEF Found
<1>2. ASSUME mid \notin holding, Found(holding, mid + 1, y, t) PROVE Found(holding, x, y, t)
  <2>1. \A u \in x .. mid : u \notin holding
    BY <1>2 DEF Lasting
  <2> QED
    BY <1>2, <2>1 DEF Found
<1> QED
  BY <1>1, <1>2

LEMMA FoundOnce ==
  ASSUME NEW holding, NEW x \in Nat, NEW y \in Nat, x <= y
  PROVE  /\ \E t : Found(holding, x, y, t)
         /\ \A t, u : Found(holding, x, y, t) /\ Found(holding, x, y, u) => t = u
<1>1. \E t : Found(holding, x, y, t)
  <2> DEFINE S == {t \in x .. y : t \in holding \/ t = y}
  <2>1. S \in SUBSET Nat /\ y \in S
    OBVIOUS
  <2>2. PICK m \in S : \A k \in S : m <= k
    <3> HIDE DEF S
    <3> QED
      BY <2>1, MinNat
  <2>3. Found(holding, x, y, m)
    BY <2>2 DEF Found
  <2> QED
    BY <2>3
<1>2. ASSUME NEW t, NEW u, Found(holding, x, y, t), Found(holding, x, y, u) PROVE t = u
  <2>1. t \in x .. y /\ u \in x .. y /\ ~(t < u) /\ ~(u < t)
    BY <1>2 DEF Found
  <2> QED
    BY <2>1
<1> QED
  BY <1>1, <1>2

(* Halving finds the first instant of those that last.                     *)
LEMMA FirstOfThem ==
  ASSUME NEW lo \in Nat, NEW hi \in Nat, NEW holding, Lasting(lo, hi, holding)
  PROVE  \/ /\ First(lo, hi, holding) = NONE
            /\ \A t \in lo .. hi : t \notin holding
         \/ /\ First(lo, hi, holding) \in lo .. hi
            /\ First(lo, hi, holding) \in holding
            /\ \A t \in lo .. hi : t < First(lo, hi, holding) => t \notin holding
<1> DEFINE Pairs == (lo .. hi) \X (lo .. hi)
           mid(r) == r[1] + (r[2] - r[1]) \div 2
           rec(f) == [r \in Pairs |->
                        IF r[1] = r[2] THEN r[1]
                        ELSE IF mid(r) \in holding THEN f[<<r[1], mid(r)>>]
                        ELSE f[<<mid(r) + 1, r[2]>>]]
           halve == CHOOSE f : f = rec(f)
           one == First(lo, hi, holding)
<1>1. one = IF lo > hi THEN NONE ELSE IF hi \in holding THEN halve[<<lo, hi>>] ELSE NONE
  BY Zenon DEF First
<1>2. ASSUME NEW r \in Pairs
      PROVE  /\ r[1] \in lo .. hi /\ r[2] \in lo .. hi /\ mid(r) \in Int
             /\ r[1] < r[2] => mid(r) \in r[1] .. r[2] - 1
             /\ r[2] < r[1] => mid(r) \in r[2] .. r[1] - 1
  <2>1. r[1] \in lo .. hi /\ r[2] \in lo .. hi
    OBVIOUS
  <2> DEFINE x == r[1]
             y == r[2]
             m == mid(r)
  <2>2. x \in Int /\ y \in Int /\ m = x + (y - x) \div 2
    BY <2>1
  <2> HIDE DEF x, y, m
  <2>3. m \in Int /\ (x < y => x <= m /\ m < y) /\ (y < x => y <= m /\ m < x)
    BY <2>2, Middle
  <2>4. x \in Int /\ y \in Int /\ (x < y => m \in x .. y - 1) /\ (y < x => m \in y .. x - 1)
    BY <2>2, <2>3
  <2> QED
    BY <2>1, <2>3, <2>4 DEF x, y, m
<1> HIDE DEF mid
<1>3. ASSUME NEW r \in Pairs, r[1] # r[2]
      PROVE  <<r[1], mid(r)>> \in Pairs /\ <<mid(r) + 1, r[2]>> \in Pairs
  <2>1. mid(r) \in lo .. hi /\ mid(r) + 1 \in lo .. hi
    BY <1>2, <1>3
  <2> QED
    BY <1>2, <2>1
<1>4. ASSUME NEW x \in lo .. hi, NEW y \in lo .. hi, x <= y
      PROVE  /\ \E t : Found(holding, x, y, t)
             /\ \A t, u : Found(holding, x, y, t) /\ Found(holding, x, y, u) => t = u
  <2> HIDE DEF Pairs, rec, halve, one
  <2> QED
    <3>1. x \in Nat /\ y \in Nat
      OBVIOUS
    <3> QED
      BY <1>4, <3>1, FoundOnce
<1> DEFINE g == [r \in Pairs |->
                   IF r[2] < r[1] THEN lo ELSE CHOOSE t : Found(holding, r[1], r[2], t)]
<1>5. g = rec(g)
  <2>1. SUFFICES ASSUME NEW r \in Pairs PROVE g[r] = rec(g)[r]
    OBVIOUS
  <2>2. CASE r[1] = r[2]
    <3>1. Found(holding, r[1], r[2], g[r])
      <4>1. \E t : Found(holding, r[1], r[2], t)
        <5>1. r[1] \in lo .. hi /\ r[2] \in lo .. hi /\ r[1] <= r[2]
          BY <1>2, <2>2
        <5> QED
          BY <1>4, <5>1, Zenon
      <4>2. g[r] = CHOOSE t : Found(holding, r[1], r[2], t)
        BY <1>2, <2>2
      <4> QED
        BY <4>1, <4>2
    <3>2. g[r] = r[1]
      BY <1>2, <2>2, <3>1 DEF Found
    <3> QED
      BY <2>2, <3>2
  <2>3. CASE r[2] < r[1]
    <3>1. mid(r) < r[1] /\ r[2] < mid(r) + 1
      BY <1>2, <2>3
    <3>2. g[<<r[1], mid(r)>>] = lo /\ g[<<mid(r) + 1, r[2]>>] = lo /\ g[r] = lo
      BY <1>2, <1>3, <2>3, <3>1
    <3> QED
      BY <1>2, <2>3, <3>2
  <2>4. CASE r[1] < r[2]
    <3> DEFINE q == IF mid(r) \in holding THEN <<r[1], mid(r)>> ELSE <<mid(r) + 1, r[2]>>
    <3>1. q \in Pairs /\ q[1] <= q[2]
      BY <1>2, <1>3, <2>4
    <3>2. rec(g)[r] = g[q]
      <4> HIDE DEF g
      <4>1. r[1] # r[2]
        BY <1>2, <2>4
      <4>2. rec(g)[r] = IF r[1] = r[2] THEN r[1]
                        ELSE IF mid(r) \in holding THEN g[<<r[1], mid(r)>>]
                        ELSE g[<<mid(r) + 1, r[2]>>]
        OBVIOUS
      <4> QED
        BY <4>1, <4>2
    <3>3. Found(holding, q[1], q[2], g[q]) /\ Found(holding, r[1], r[2], g[r])
      <4> HIDE DEF q
      <4>1. ASSUME NEW p \in Pairs, p[1] <= p[2] PROVE Found(holding, p[1], p[2], g[p])
        <5>1. \E t : Found(holding, p[1], p[2], t)
          <6>1. p[1] \in lo .. hi /\ p[2] \in lo .. hi
            BY <1>2, <4>1
          <6> QED
            BY <1>4, <4>1, <6>1, Zenon
        <5>2. g[p] = CHOOSE t : Found(holding, p[1], p[2], t)
          BY <1>2, <4>1
        <5> QED
          BY <5>1, <5>2
      <4> QED
        BY <1>2, <2>4, <3>1, <4>1
    <3>4. Found(holding, r[1], r[2], g[q])
      <4> HIDE DEF g
      <4> QED
        BY <1>2, <2>4, <3>3, FoundHalf
    <3>5. g[q] = g[r]
      <4> HIDE DEF g, q
      <4>1. r[1] \in lo .. hi /\ r[2] \in lo .. hi /\ r[1] <= r[2]
        BY <1>2, <2>4
      <4> QED
        BY <1>4, <3>3, <3>4, <4>1, Zenon
    <3> QED
      BY <3>2, <3>5
  <2> QED
    BY <1>2, <2>2, <2>3, <2>4
<1>6. halve = rec(halve)
  <2> HIDE DEF g, rec
  <2> QED
    BY <1>5
<1> HIDE DEF halve, g
<1>7. ASSUME NEW r \in Pairs
      PROVE  halve[r] = IF r[1] = r[2] THEN r[1]
                        ELSE IF mid(r) \in holding THEN halve[<<r[1], mid(r)>>]
                        ELSE halve[<<mid(r) + 1, r[2]>>]
  BY <1>6, Zenon
<1> DEFINE Bad == {w \in Nat : \E r \in Pairs : /\ r[1] <= r[2] /\ r[2] - r[1] = w
                                                /\ ~Found(holding, r[1], r[2], halve[r])}
<1>8. Bad = {}
  <2>1. SUFFICES ASSUME Bad # {} PROVE FALSE
    OBVIOUS
  <2>2. PICK w \in Bad : \A k \in Bad : w <= k
    <3>1. Bad \in SUBSET Nat
      OBVIOUS
    <3> HIDE DEF Bad
    <3> QED
      BY <2>1, <3>1, MinNat
  <2>3. PICK r \in Pairs : /\ r[1] <= r[2] /\ r[2] - r[1] = w
                           /\ ~Found(holding, r[1], r[2], halve[r])
    BY <2>2
  <2>4. r[1] # r[2]
    <3>1. SUFFICES ASSUME r[1] = r[2] PROVE FALSE
      OBVIOUS
    <3>2. halve[r] = r[1]
      BY <1>7, <3>1
    <3>3. r[1] \in r[1] .. r[2] /\ \A u \in r[1] .. r[2] : ~(u < r[1])
      BY <1>2, <3>1
    <3> QED
      BY <2>3, <3>1, <3>2, <3>3 DEF Found
  <2> DEFINE q == IF mid(r) \in holding THEN <<r[1], mid(r)>> ELSE <<mid(r) + 1, r[2]>>
  <2>5. q \in Pairs /\ q[1] <= q[2] /\ q[2] - q[1] \in Nat /\ q[2] - q[1] < w
    BY <1>2, <1>3, <2>3, <2>4
  <2>6. halve[r] = halve[q]
    BY <1>7, <2>4
  <2>7. Found(holding, q[1], q[2], halve[q])
    <3> HIDE DEF q
    <3>1. q[2] - q[1] \notin Bad
      BY <2>2, <2>5
    <3> QED
      BY <2>5, <3>1
  <2>8. Found(holding, r[1], r[2], halve[q])
    BY <1>2, <2>3, <2>4, <2>7, FoundHalf
  <2> QED
    BY <2>3, <2>6, <2>8
<1>9. CASE lo > hi
  BY <1>1, <1>9
<1>10. CASE lo <= hi /\ hi \notin holding
  <2>1. hi \in lo .. hi
    BY <1>10
  <2> QED
    BY <1>1, <1>10, <2>1 DEF Lasting
<1>11. CASE lo <= hi /\ hi \in holding
  <2> DEFINE r == <<lo, hi>>
  <2>1. r \in Pairs /\ r[1] = lo /\ r[2] = hi /\ hi - lo \in Nat
    BY <1>11
  <2>2. Found(holding, lo, hi, halve[r])
    <3> HIDE DEF r
    <3>1. r[2] - r[1] \notin Bad
      BY <1>8, Zenon
    <3> QED
      BY <1>11, <2>1, <3>1
  <2>3. one = halve[r]
    BY <1>1, <1>11
  <2> HIDE DEF r, one
  <2>4. /\ one \in lo .. hi /\ one \in holding
        /\ \A t \in lo .. hi : t < one => t \notin holding
    BY <1>11, <2>2, <2>3 DEF Found
  <2> QED
    BY <2>4 DEF one
<1> QED
  BY <1>9, <1>10, <1>11

(* What an application may be given to read: a core whose schedule ascends *)
(* as validation asks, with a clock if it was measured, and with rates at  *)
(* which a frame lasts at least two ticks and a tick is worth two units.   *)
Readable(c) ==
  /\ IsCore(c) /\ Ascending(c.tl)
  /\ Initialized(c) => c.sync # "Uninitialized"
  /\ \A s \in Segments(c.tl) : s.rate \notin {1, -1} /\ 2 * Magnitude(s.rate) <= FRAME

LEMMA LeaderTimeRuns ==
  ASSUME NEW c, IsCore(c), NEW t \in Nat, NEW u \in Nat
  PROVE  /\ LeaderTime(c, t) \in Nat
         /\ t <= u => LeaderTime(c, t) <= LeaderTime(c, u)
         /\ t < u /\ 0 <= t + c.offset => LeaderTime(c, t) < LeaderTime(c, u)
<1> DEFINE x == t + c.offset
           y == u + c.offset
<1>1. x \in Int /\ y \in Int /\ (t <= u => x <= y) /\ (t < u => x < y)
  BY DEF IsCore
<1>2. LeaderTime(c, t) = Max({0, x}) /\ LeaderTime(c, u) = Max({0, y})
  BY DEF LeaderTime
<1> HIDE DEF x, y
<1>3. /\ Max({0, x}) = IF 0 >= x THEN 0 ELSE x
      /\ Max({0, y}) = IF 0 >= y THEN 0 ELSE y
  BY <1>1, MaxPair
<1> QED
  BY <1>1, <1>2, <1>3 DEF x

LEMMA LeaderTimeGiven ==
  ASSUME NEW c, IsCore(c), NEW t \in Nat, 0 <= t + c.offset
  PROVE  LeaderTime(c, t) = t + c.offset
<1> DEFINE x == t + c.offset
<1>1. x \in Int /\ 0 <= x
  BY DEF IsCore
<1>2. LeaderTime(c, t) = Max({0, x})
  BY DEF LeaderTime
<1> HIDE DEF x
<1>3. Max({0, x}) = IF 0 >= x THEN 0 ELSE x
  BY <1>1, MaxPair
<1> QED
  BY <1>1, <1>2, <1>3 DEF x

LEMMA DueOf ==
  ASSUME NEW tl \in HeldTimelines, NEW t \in Int
  PROVE  /\ DueAt(tl, t) \subseteq 1 .. Len(tl.sched)
         /\ \A i \in 1 .. Len(tl.sched) : i \in DueAt(tl, t) <=> tl.sched[i].time <= t
         /\ DueAt(tl, t) = {} => Active(tl, t) = tl.cur
         /\ DueAt(tl, t) # {} =>
              /\ Max(DueAt(tl, t)) \in DueAt(tl, t)
              /\ \A i \in DueAt(tl, t) : i <= Max(DueAt(tl, t))
              /\ Active(tl, t) = tl.sched[Max(DueAt(tl, t))]
<1>1. Len(tl.sched) \in Nat
  BY DEF HeldTimelines
<1>2. DueAt(tl, t) \subseteq 1 .. Len(tl.sched)
  BY DEF DueAt
<1>3. DueAt(tl, t) \in SUBSET (0 .. Len(tl.sched))
  BY <1>1, <1>2
<1>4. DueAt(tl, t) # {} =>
        /\ Max(DueAt(tl, t)) \in DueAt(tl, t)
        /\ \A i \in DueAt(tl, t) : i <= Max(DueAt(tl, t))
  BY <1>1, <1>3, MaxBounded
<1> QED
  BY <1>2, <1>4 DEF DueAt, Active

(* Applying changes that are due changes nothing of what plays.            *)
LEMMA AdvancedActive ==
  ASSUME NEW tl \in HeldTimelines, Ascending(tl), NEW k \in 0 .. Len(tl.sched),
         NEW p, p = AdvanceTo(tl, k)
  PROVE  /\ Ascending(p)
         /\ \A u \in Int : (\A i \in 1 .. k : tl.sched[i].time <= u) => Active(p, u) = Active(tl, u)
<1>1. CASE k = 0
  BY <1>1 DEF AdvanceTo
<1>2. CASE k # 0
  <2>1. /\ tl.sched \in Seq(Segment) /\ Len(tl.sched) \in Nat /\ k \in 1..Len(tl.sched)
        /\ \A i \in 1 .. Len(tl.sched) : tl.sched[i] \in Segment
    BY <1>2 DEF HeldTimelines
  <2> DEFINE rest == SubSeq(tl.sched, k + 1, Len(tl.sched))
  <2>2. /\ rest \in Seq(Segment) /\ Len(rest) = Len(tl.sched) - k
        /\ \A i \in 1..Len(rest) : rest[i] = tl.sched[k + i]
    BY <2>1, SMTT(30)
  <2>3. p.cur = tl.sched[k] /\ p.sched = rest
    BY <1>2 DEF AdvanceTo, HeldTimelines
  <2> HIDE DEF rest
  <2>4. /\ p.cur = tl.sched[k] /\ Len(p.sched) = Len(tl.sched) - k
        /\ \A i \in 1..Len(p.sched) : /\ k + i \in 1 .. Len(tl.sched)
                                      /\ p.sched[i] = tl.sched[k + i]
    BY <2>1, <2>2, <2>3
  <2>5. Ascending(p)
    <3>1. ASSUME NEW i \in 1 .. Len(p.sched)
          PROVE  p.cur.disc < p.sched[i].disc
      <4>1. k \in 1 .. Len(tl.sched) /\ k + i \in 1 .. Len(tl.sched) /\ k < k + i
        BY <2>1, <2>4, <3>1
      <4> QED
        BY <2>4, <4>1 DEF Ascending
    <3>2. ASSUME NEW i \in 1 .. Len(p.sched), NEW j \in 1 .. Len(p.sched), i < j
          PROVE  /\ p.sched[i].time < p.sched[j].time /\ p.sched[i].disc < p.sched[j].disc
      <4>1. k + i \in 1 .. Len(tl.sched) /\ k + j \in 1 .. Len(tl.sched) /\ k + i < k + j
        BY <2>1, <2>4, <3>2
      <4> QED
        BY <2>4, <4>1 DEF Ascending
    <3> QED
      BY <3>1, <3>2 DEF Ascending
  <2>6. ASSUME NEW u \in Int, \A i \in 1 .. k : tl.sched[i].time <= u
        PROVE  Active(p, u) = Active(tl, u)
    <3>1. p \in HeldTimelines
      BY HeldAdvance
    <3>2. k \in DueAt(tl, u)
      BY <2>1, <2>6 DEF DueAt
    <3> DEFINE a == Max(DueAt(tl, u))
               b == Max(DueAt(p, u))
    <3>3. /\ a \in 1 .. Len(tl.sched) /\ tl.sched[a].time <= u /\ k <= a
          /\ \A i \in 1 .. Len(tl.sched) : tl.sched[i].time <= u => i <= a
          /\ Active(tl, u) = tl.sched[a]
      BY <3>2, DueOf
    <3>4. CASE DueAt(p, u) = {}
      <4>1. Active(p, u) = tl.sched[k] /\ \A i \in 1 .. Len(p.sched) : ~(p.sched[i].time <= u)
        BY <2>4, <3>1, <3>4, DueOf
      <4>2. a = k
        <5>1. SUFFICES ASSUME a # k PROVE FALSE
          OBVIOUS
        <5> HIDE DEF a
        <5>2. a - k \in 1 .. Len(p.sched) /\ k + (a - k) = a
          BY <2>1, <2>4, <3>3, <5>1
        <5> QED
          BY <2>4, <3>3, <4>1, <5>2
      <4> QED
        BY <3>3, <4>1, <4>2
    <3>5. CASE DueAt(p, u) # {}
      <4>1. /\ b \in 1 .. Len(p.sched) /\ p.sched[b].time <= u
            /\ \A i \in 1 .. Len(p.sched) : p.sched[i].time <= u => i <= b
            /\ Active(p, u) = p.sched[b]
        BY <3>1, <3>5, DueOf
      <4> HIDE DEF a, b
      <4>2. k + b <= a
        BY <2>4, <3>3, <4>1
      <4>3. a - k \in 1 .. Len(p.sched) /\ k + (a - k) = a
        <5>1. a \in Nat /\ a <= Len(tl.sched) /\ k \in Nat /\ b \in Nat /\ 1 <= b
          BY <2>1, <3>3, <4>1
        <5> QED
          BY <2>1, <2>4, <4>2, <5>1
      <4>4. a - k <= b
        BY <2>4, <3>3, <4>1, <4>3
      <4>5. a = k + b
        BY <2>1, <3>3, <4>1, <4>2, <4>4
      <4> QED
        BY <2>4, <3>3, <4>1, <4>5
    <3> QED
      BY <3>4, <3>5
  <2> QED
    BY <2>5, <2>6
<1> QED
  BY <1>1, <1>2

(* What a tick applies was due.                                            *)
LEMMA LatchedActive ==
  ASSUME NEW tl \in HeldTimelines, Ascending(tl), NEW begin \in Nat,
         NEW p, p = Latch(tl, Active(tl, begin).disc)
  PROVE  /\ p \in HeldTimelines /\ Ascending(p) /\ Segments(p) \subseteq Segments(tl)
         /\ \A u \in Nat : begin <= u => Active(p, u) = Active(tl, u)
<1> DEFINE disc == Active(tl, begin).disc
           Run == {n \in 0..Len(tl.sched) : \A i \in 1..n : tl.sched[i].disc <= disc}
           k == Max(Run)
<1>1. Len(tl.sched) \in Nat /\ \A i \in 1 .. Len(tl.sched) : tl.sched[i] \in Segment
  BY DEF HeldTimelines
<1>2. Run \in SUBSET (0..Len(tl.sched)) /\ 0 \in Run
  BY <1>1
<1>3. k \in Run
  <2> HIDE DEF Run
  <2> QED
    BY <1>1, <1>2, MaxBounded
<1>4. p = AdvanceTo(tl, k) /\ k \in 0 .. Len(tl.sched)
  BY <1>3 DEF Latch
<1> HIDE DEF k
<1>5. \A i \in 1 .. k : i \in 1 .. Len(tl.sched) /\ tl.sched[i].disc <= disc
  <2>1. k \in 0 .. Len(tl.sched) /\ \A i \in 1 .. k : tl.sched[i].disc <= disc
    BY <1>3, Zenon
  <2>2. \A i \in 1 .. k : i \in 1 .. Len(tl.sched)
    BY <1>1, <2>1
  <2> QED
    BY <2>1, <2>2
<1> HIDE DEF Run
<1>6. \A i \in 1 .. k : tl.sched[i].time <= begin
  <2>1. SUFFICES ASSUME NEW i \in 1 .. k PROVE tl.sched[i].time <= begin
    OBVIOUS
  <2>2. i \in 1 .. Len(tl.sched) /\ tl.sched[i].disc <= disc /\ tl.cur.disc < tl.sched[i].disc
    BY <1>5 DEF Ascending
  <2>3. tl.cur.disc \in Nat /\ tl.sched[i].disc \in Nat /\ tl.sched[i].time \in Nat
    BY <1>1, <2>2 DEF HeldTimelines, Segment
  <2>4. DueAt(tl, begin) # {}
    <3>1. SUFFICES ASSUME DueAt(tl, begin) = {} PROVE FALSE
      OBVIOUS
    <3>2. disc = tl.cur.disc
      BY <3>1, DueOf
    <3> QED
      BY <2>2, <2>3, <3>2
  <2> DEFINE m == Max(DueAt(tl, begin))
  <2>5. m \in 1 .. Len(tl.sched) /\ tl.sched[m].time <= begin /\ disc = tl.sched[m].disc
    BY <2>4, DueOf
  <2> HIDE DEF m, disc
  <2>6. tl.sched[m].disc \in Nat /\ tl.sched[m].time \in Nat
    BY <1>1, <2>5 DEF Segment
  <2>7. ~(m < i)
    <3>1. SUFFICES ASSUME m < i PROVE FALSE
      OBVIOUS
    <3>2. tl.sched[m].disc < tl.sched[i].disc
      BY <2>2, <2>5, <3>1 DEF Ascending
    <3> QED
      BY <2>2, <2>3, <2>5, <2>6, <3>2
  <2>8. i = m \/ tl.sched[i].time < tl.sched[m].time
    <3>1. i = m \/ i < m
      BY <2>2, <2>5, <2>7
    <3> QED
      BY <2>2, <2>5, <3>1 DEF Ascending
  <2> QED
    BY <2>3, <2>5, <2>6, <2>8
<1>7. p \in HeldTimelines /\ Segments(p) \subseteq Segments(tl)
  BY <1>4, HeldAdvance, FewerSegments
<1>8. Ascending(p) /\ \A u \in Int : (\A i \in 1 .. k : tl.sched[i].time <= u) =>
                                       Active(p, u) = Active(tl, u)
  BY <1>4, AdvancedActive
<1>9. ASSUME NEW u \in Nat, begin <= u PROVE Active(p, u) = Active(tl, u)
  <2>1. \A i \in 1 .. k : tl.sched[i].time <= u
    <3>1. SUFFICES ASSUME NEW i \in 1 .. k PROVE tl.sched[i].time <= u
      OBVIOUS
    <3>2. tl.sched[i].time <= begin /\ tl.sched[i].time \in Nat
      BY <1>1, <1>5, <1>6 DEF Segment
    <3> QED
      BY <1>9, <3>2
  <2> QED
    BY <1>8, <2>1
<1> QED
  BY <1>7, <1>8, <1>9

(* FollowerCore::tick: no reading from then on is another one for it.      *)
LEMMA TickedReading ==
  ASSUME NEW c, Readable(c), NEW n \in Nat, NEW r, r = TickCore(c, n)
  PROVE  /\ Readable(r) /\ r.offset = c.offset /\ (Initialized(r) <=> Initialized(c))
         /\ \A t \in Nat : n <= t => Sight(r, t) = Sight(c, t)
<1>1. IsCore(c) /\ c.tl \in HeldTimelines /\ Ascending(c.tl) /\ DOMAIN c = Fields
  BY DEF Readable, IsCore
<1>2. IsCore(r) /\ TickedTo(c, r)
  BY <1>1, TickOutcome
<1>3. /\ r.offset = c.offset /\ (Initialized(r) <=> Initialized(c))
      /\ r.sync = c.sync \/ r.sync = "Holdover"
  BY <1>2 DEF TickedTo, Initialized
<1>4. r.corr = c.corr /\ r.corrAt = c.corrAt /\ r.corrDisc = c.corrDisc
  BY <1>1, ZenonT(40) DEF TickCore, Fields
<1>5. CASE ~Initialized(c)
  <2>1. r.tl = c.tl /\ r.sync = c.sync
    BY <1>1, <1>5 DEF TickCore, Fields
  <2>2. Readable(r)
    BY <1>2, <1>3, <1>5, <2>1 DEF Readable
  <2>3. ASSUME NEW t \in Nat PROVE Sight(r, t) = Sight(c, t)
    BY <1>3, <1>5 DEF Sight, Cell, Rate, Position
  <2> QED
    BY <1>3, <2>2, <2>3
<1>6. CASE Initialized(c)
  <2> DEFINE begin == LeaderTime(c, n)
  <2>1. begin \in Nat
    BY <1>1, LeaderTimeType
  <2>2. r.tl = Latch(c.tl, Active(c.tl, begin).disc)
    BY <1>1, <1>6, ZenonT(40) DEF TickCore, Fields
  <2>3. /\ r.tl \in HeldTimelines /\ Ascending(r.tl) /\ Segments(r.tl) \subseteq Segments(c.tl)
        /\ \A u \in Nat : begin <= u => Active(r.tl, u) = Active(c.tl, u)
    BY <1>1, <2>1, <2>2, LatchedActive
  <2>4. c.sync # "Uninitialized" /\ r.sync # "Uninitialized"
    BY <1>3, <1>6 DEF Readable
  <2>5. Readable(r)
    BY <1>2, <2>3, <2>4 DEF Readable
  <2>6. ASSUME NEW t \in Nat, n <= t PROVE Sight(r, t) = Sight(c, t)
    <3>1. /\ EvaluatedAt(c, t) = LeaderTime(c, t) /\ EvaluatedAt(r, t) = LeaderTime(c, t)
          /\ LeaderTime(c, t) \in Nat /\ begin <= LeaderTime(c, t)
      BY <1>1, <1>3, <2>4, <2>6, LeaderTimeRuns DEF EvaluatedAt, LeaderTime
    <3>2. Playing(r, t) = Playing(c, t)
      BY <2>3, <3>1 DEF Playing
    <3>3. Remaining(r, t) = Remaining(c, t)
      BY <1>4, <3>2 DEF Remaining, Slewed
    <3>4. Position(r, t) = Position(c, t)
      BY <1>3, <3>1, <3>2, <3>3 DEF Position
    <3>5. Rate(r, t) = Rate(c, t)
      BY <1>3, <3>2 DEF Rate
    <3> QED
      BY <1>3, <3>2, <3>4, <3>5 DEF Sight, Cell
  <2> QED
    BY <1>3, <2>5, <2>6
<1> QED
  BY <1>5, <1>6

(* The next change: nothing else takes effect before it, it is another     *)
(* discontinuity, and it is met at its time.                               *)
ChangeFrom(c, n, change) ==
  LET limit == IF change = NONE THEN END ELSE change - 1
  IN  /\ change = NONE \/ change \in n + 1 .. END
      /\ \A t \in n .. limit : Playing(c, t) = Playing(c, n)
      /\ change # NONE =>
           /\ Playing(c, change).disc # Playing(c, n).disc
           /\ 0 <= n + c.offset => Playing(c, change).time = change + c.offset

LEMMA ChangeAhead ==
  ASSUME NEW c, Readable(c), Initialized(c), NEW n \in Nat, n < END
  PROVE  ChangeFrom(c, n, NextChange(c, n))
<1> DEFINE tl == c.tl
           T(t) == LeaderTime(c, t)
           later == {i \in 1 .. Len(tl.sched) : tl.sched[i].time > T(n)}
           change == NextChange(c, n)
<1>1. IsCore(c) /\ tl \in HeldTimelines /\ Ascending(tl) /\ END \in Nat
  BY PresentationAssumption DEF Readable, IsCore
<1>2. \A t \in Nat : Playing(c, t) = Active(tl, T(t))
  BY DEF Playing, EvaluatedAt, Readable
<1>3. \A t, u \in Nat : T(t) \in Nat /\ (t <= u => T(t) <= T(u))
  BY <1>1, LeaderTimeRuns
<1>4. \A i \in 1 .. Len(tl.sched) : tl.sched[i].time \in Nat /\ tl.sched[i].disc \in Nat
  <2>1. \A i \in 1 .. Len(tl.sched) : tl.sched[i] \in Segment
    BY <1>1 DEF HeldTimelines
  <2> QED
    BY <2>1 DEF Segment
<1>5. CASE later = {}
  <2>1. change = NONE
    BY <1>5, Zenon DEF NextChange
  <2>2. ASSUME NEW t \in n .. END PROVE Playing(c, t) = Playing(c, n)
    <3>1. t \in Nat /\ T(n) \in Nat /\ T(t) \in Nat /\ T(n) <= T(t)
      BY <1>3
    <3> HIDE DEF T
    <3>2. DueAt(tl, T(t)) = DueAt(tl, T(n))
      BY <1>4, <1>5, <3>1 DEF DueAt
    <3> QED
      BY <1>2, <3>1, <3>2 DEF Active
  <2> QED
    BY <2>1, <2>2 DEF ChangeFrom
<1>6. CASE later # {}
  <2> DEFINE k == Min(later)
             S == {t \in Int : T(t) >= tl.sched[k].time}
  <2>1. k \in later /\ \A i \in later : k <= i
    <3>1. later \in SUBSET Nat
      OBVIOUS
    <3> HIDE DEF later
    <3> QED
      BY <1>6, <3>1, MinNat
  <2>2. change = First(n + 1, END, S)
    BY <1>6, Zenon DEF NextChange
  <2> HIDE DEF T, k
  <2>3. k \in 1 .. Len(tl.sched) /\ T(n) < tl.sched[k].time /\ T(n) \in Nat
    BY <1>3, <1>4, <2>1
  <2>4. ASSUME NEW t \in Nat, n <= t, t \notin S PROVE Playing(c, t) = Playing(c, n)
    <3>1. T(t) \in Nat /\ T(n) <= T(t) /\ T(t) < tl.sched[k].time
      <4>1. T(t) \in Nat /\ T(n) <= T(t) /\ tl.sched[k].time \in Nat
        BY <1>3, <1>4, <2>3, <2>4
      <4>2. ~(T(t) >= tl.sched[k].time)
        BY <2>4
      <4> QED
        BY <4>1, <4>2
    <3>2. ASSUME NEW i \in 1 .. Len(tl.sched), tl.sched[i].time <= T(t)
          PROVE  tl.sched[i].time <= T(n)
      <4>1. ~(k < i) /\ i # k
        <5>1. SUFFICES ASSUME k < i \/ i = k PROVE FALSE
          BY <2>3
        <5>2. tl.sched[k].time <= tl.sched[i].time
          BY <1>1, <1>4, <2>3, <5>1 DEF Ascending
        <5> QED
          BY <1>4, <2>3, <3>1, <3>2, <5>2, SMTT(30)
      <4>2. i \notin later
        BY <2>1, <2>3, <4>1
      <4> QED
        BY <1>4, <2>3, <4>2, SMTT(30)
    <3>3. DueAt(tl, T(t)) = DueAt(tl, T(n))
      BY <1>4, <2>3, <3>1, <3>2 DEF DueAt
    <3> QED
      BY <1>2, <3>3 DEF Active
  <2>5. Lasting(n + 1, END, S)
    <3>1. SUFFICES ASSUME NEW t \in n + 1 .. END, NEW u \in n + 1 .. END, t \in S, t <= u
                   PROVE  u \in S
      BY DEF Lasting
    <3>2. t \in Nat /\ u \in Nat
      OBVIOUS
    <3>3. T(t) \in Nat /\ T(u) \in Nat /\ T(t) <= T(u) /\ T(t) >= tl.sched[k].time
      BY <1>3, <3>1, <3>2
    <3> QED
      BY <1>4, <2>3, <3>2, <3>3, SMTT(30)
  <2>6. n + 1 \in Nat /\ END \in Nat /\ n \notin S
    BY <1>1, <1>4, <2>3
  <2> HIDE DEF S, change
  <2>7. \/ change = NONE /\ \A t \in n + 1 .. END : t \notin S
        \/ /\ change \in n + 1 .. END /\ change \in S
           /\ \A t \in n + 1 .. END : t < change => t \notin S
    BY <2>2, <2>5, <2>6, FirstOfThem
  <2>8. NONE \notin n + 1 .. END
    BY <1>1, NoneAssumption
  <2>9. ASSUME NEW t \in n .. END, change = NONE \/ t < change
        PROVE  Playing(c, t) = Playing(c, n)
    <3>1. t \in Nat /\ n <= t /\ t \notin S
      BY <2>6, <2>7, <2>8, <2>9
    <3> QED
      BY <2>4, <3>1
  <2>10. ASSUME change # NONE
         PROVE  /\ Playing(c, change).disc # Playing(c, n).disc
                /\ 0 <= n + c.offset => Playing(c, change).time = change + c.offset
    <3>1. change \in Nat /\ T(change) \in Nat /\ tl.sched[k].time <= T(change)
      <4>1. change \in Nat /\ change \in S
        BY <2>6, <2>7, <2>10
      <4> QED
        BY <1>3, <4>1 DEF S
    <3> DEFINE m == Max(DueAt(tl, T(change)))
    <3>2. k \in DueAt(tl, T(change))
      BY <2>3, <3>1 DEF DueAt
    <3>3. m \in 1 .. Len(tl.sched) /\ k <= m /\ Playing(c, change) = tl.sched[m]
      BY <1>1, <1>2, <3>1, <3>2, DueOf
    <3> HIDE DEF m
    <3>4. \/ Playing(c, n) = tl.cur
          \/ \E j \in 1 .. Len(tl.sched) : j < k /\ Playing(c, n) = tl.sched[j]
      <4>1. CASE DueAt(tl, T(n)) = {}
        BY <1>1, <1>2, <2>3, <4>1, DueOf
      <4>2. CASE DueAt(tl, T(n)) # {}
        <5> DEFINE j == Max(DueAt(tl, T(n)))
        <5>1. j \in 1 .. Len(tl.sched) /\ tl.sched[j].time <= T(n) /\ Playing(c, n) = tl.sched[j]
          BY <1>1, <1>2, <2>3, <4>2, DueOf
        <5> HIDE DEF j
        <5>2. j < k
          <6>1. SUFFICES ASSUME k < j \/ j = k PROVE FALSE
            BY <2>3, <5>1
          <6>2. tl.sched[k].time <= tl.sched[j].time
            BY <1>1, <1>4, <2>3, <5>1, <6>1 DEF Ascending
          <6> QED
            BY <1>4, <2>3, <5>1, <6>2
        <5> QED
          BY <5>1, <5>2
      <4> QED
        BY <4>1, <4>2
    <3>5. Playing(c, n).disc < tl.sched[m].disc
      <4>1. \A j \in 1 .. Len(tl.sched) : j < k => j < m
        BY <2>3, <3>3
      <4> QED
        BY <1>1, <3>3, <3>4, <4>1 DEF Ascending
    <3>6. tl.sched[m].disc \in Nat /\ Playing(c, n).disc \in Nat
      <4>1. Playing(c, n) \in Segment
        BY <1>1, EvaluatedType
      <4> QED
        BY <1>4, <3>3, <4>1 DEF Segment
    <3>7. ASSUME 0 <= n + c.offset PROVE tl.sched[m].time = change + c.offset
      <4> DEFINE u == change - 1
      <4>1. change \in n + 1 .. END /\ change \in S /\ u \in Nat /\ n <= u /\ change = u + 1
        BY <2>6, <2>7, <2>10
      <4> HIDE DEF u
      <4>2. T(change) = change + c.offset /\ T(u) = u + c.offset /\ c.offset \in Int
        <5>1. c.offset \in Int
          BY <1>1 DEF IsCore
        <5>2. 0 <= change + c.offset /\ 0 <= u + c.offset
          BY <3>7, <4>1, <5>1
        <5>3. \A t \in Nat : 0 <= t + c.offset => T(t) = t + c.offset
          <6>1. SUFFICES ASSUME NEW t \in Nat, 0 <= t + c.offset PROVE T(t) = t + c.offset
            OBVIOUS
          <6>2. LeaderTime(c, t) = t + c.offset
            BY <1>1, <6>1, LeaderTimeGiven
          <6> QED
            BY <6>2 DEF T
        <5> QED
          BY <3>1, <4>1, <5>1, <5>2, <5>3
      <4>3. u \notin S
        <5>1. u = n \/ (u \in n + 1 .. END /\ u < change)
          BY <1>1, <4>1
        <5> QED
          BY <2>6, <2>7, <2>10, <5>1
      <4>4. T(u) < tl.sched[k].time
        <5>1. ~(T(u) >= tl.sched[k].time)
          BY <4>1, <4>3 DEF S
        <5>2. T(u) \in Nat /\ tl.sched[k].time \in Nat
          BY <1>3, <1>4, <2>3, <4>1
        <5> QED
          BY <5>1, <5>2
      <4>5. tl.sched[m].time <= T(change)
        BY <1>1, <3>1, <3>2, DueOf DEF m
      <4>6. tl.sched[k].time <= tl.sched[m].time
        <5>1. k = m \/ k < m
          BY <2>3, <3>3
        <5> QED
          BY <1>1, <1>4, <2>3, <3>3, <5>1 DEF Ascending
      <4>7. tl.sched[m].time \in Nat /\ tl.sched[k].time \in Nat /\ change \in Nat
        BY <1>4, <2>3, <3>1, <3>3
      <4> QED
        BY <4>1, <4>2, <4>4, <4>5, <4>6, <4>7
    <3> QED
      BY <3>3, <3>5, <3>6, <3>7
  <2>11. \A t \in n .. (IF change = NONE THEN END ELSE change - 1) :
           t \in n .. END /\ (change = NONE \/ t < change)
    BY <2>6, <2>7
  <2> QED
    BY <2>7, <2>9, <2>10, <2>11 DEF ChangeFrom, change
<1> QED
  BY <1>5, <1>6

(* Whole frames: where a motion that enters the next one is.               *)
LEMMA FrameEntered ==
  ASSUME NEW f \in Nat \ {0}, NEW p \in Int, NEW q \in Int, NEW target,
         target = f * (p \div f + 1)
  PROVE  /\ target \in Int /\ p < target
         /\ p <= q /\ q < target => q \div f = p \div f
         /\ target <= q /\ q < target + f => q \div f = p \div f + 1
<1> DEFINE a == p \div f
           r == p % f
           b == f * a
<1>1. a \in Int /\ r \in 0 .. f - 1 /\ p = b + r /\ b \in Int
  BY DivModOf
<1>2. f * (a + 1) = b + f /\ f * a = b
  BY <1>1
<1> HIDE DEF a, b
<1>3. target = b + f
  BY <1>2 DEF a
<1>4. ASSUME p <= q, q < target PROVE q \div f = a
  <2>1. q - b \in 0 .. f - 1 /\ q = f * a + (q - b)
    BY <1>1, <1>2, <1>3, <1>4
  <2> QED
    BY <1>1, <2>1, ModOf
<1>5. ASSUME target <= q, q < target + f PROVE q \div f = a + 1
  <2>1. q - target \in 0 .. f - 1 /\ q = f * (a + 1) + (q - target) /\ a + 1 \in Int
    BY <1>1, <1>2, <1>3, <1>5
  <2> DEFINE d == a + 1
             s == q - target
  <2> HIDE DEF d, s
  <2>2. d \in Int /\ s \in 0 .. f - 1 /\ q = f * d + s
    BY <2>1 DEF d, s
  <2>3. q \div f = d
    BY <2>2, ModOf
  <2> QED
    BY <2>3 DEF d
<1> QED
  BY <1>1, <1>3, <1>4, <1>5 DEF a

LEMMA FrameEnteredBackward ==
  ASSUME NEW f \in Nat \ {0}, NEW p \in Int, NEW q \in Int, NEW target,
         target = f * (p \div f - (IF p % f = 0 THEN 1 ELSE 0))
  PROVE  /\ target \in Int /\ target < p
         /\ target < q /\ q <= p => -((-q) \div f) = -((-p) \div f)
         /\ target - f < q /\ q <= target => -((-q) \div f) = -((-p) \div f) - 1
<1> DEFINE m == -p
           a == m \div f
           up == f * (a + 1)
<1>1. m \in Int /\ -q \in Int
  OBVIOUS
<1>2. /\ up \in Int /\ m < up
      /\ m <= -q /\ -q < up => (-q) \div f = a
      /\ up <= -q /\ -q < up + f => (-q) \div f = a + 1
  <2> HIDE DEF m
  <2> QED
    BY <1>1, FrameEntered, ZenonT(40)
<1>3. a \in Int
  <2> HIDE DEF m
  <2> QED
    BY <1>1, DivModOf
<1>4. target = -up
  <2> DEFINE d == p \div f
             r == p % f
  <2>1. d \in Int /\ r \in 0 .. f - 1 /\ p = f * d + r
    BY DivModOf
  <2>2. CASE r = 0
    <3>1. m = f * (-d) + 0 /\ -d \in Int /\ 0 \in 0 .. f - 1
      BY <2>1, <2>2
    <3>2. a = -d
      <4> HIDE DEF m, d
      <4> QED
        BY <3>1, ModOf
    <3>3. target = f * (d - 1)
      BY <2>2
    <3> HIDE DEF a, d
    <3>4. f * (d - 1) = -(f * (-d + 1))
      BY <2>1
    <3> QED
      BY <3>2, <3>3, <3>4
  <2>3. CASE r # 0
    <3>1. m = f * (-d - 1) + (f - r) /\ -d - 1 \in Int /\ f - r \in 0 .. f - 1
      BY <2>1, <2>3
    <3>2. a = -d - 1
      <4> HIDE DEF m, d, r
      <4> QED
        BY <3>1, ModOf
    <3>3. target = f * d
      BY <2>1, <2>3
    <3> HIDE DEF a, d
    <3>4. f * d = -(f * (-d - 1 + 1))
      BY <2>1
    <3> QED
      BY <3>2, <3>3, <3>4
  <2> QED
    BY <2>2, <2>3
<1> HIDE DEF a, up
<1>5. target \in Int /\ target < p
  BY <1>2, <1>4
<1>6. ASSUME target < q, q <= p PROVE (-q) \div f = a
  BY <1>2, <1>4, <1>6
<1>7. ASSUME target - f < q, q <= target PROVE (-q) \div f = a + 1
  BY <1>2, <1>4, <1>7
<1> QED
  BY <1>3, <1>5, <1>6, <1>7 DEF a

(* The next frame: until it, and while nothing else comes into effect, the *)
(* reading stays between the same whole frames, and there it is in the     *)
(* next one.                                                               *)
CrossingFrom(c, n, limit, crossing) ==
  /\ crossing = NONE \/ crossing \in n + 1 .. limit
  /\ \A t \in n .. limit : crossing = NONE \/ t < crossing => Sight(c, t) = Sight(c, n)
  /\ crossing # NONE =>
       /\ Sight(c, crossing) = [Sight(c, n) EXCEPT !.cell = @ + Sight(c, n).step]
       /\ Rate(c, n) # 0 /\ Reaches(c, crossing, Target(c, n), Rate(c, n) > 0)
       /\ \A t \in n + 1 .. limit :
            t < crossing => ~Reaches(c, t, Target(c, n), Rate(c, n) > 0)

LEMMA SteadyMotion ==
  ASSUME NEW c, Readable(c), Initialized(c), NEW n \in Nat, 0 <= n + c.offset,
         NEW limit \in Nat, \A t \in n .. limit : Playing(c, t) = Playing(c, n),
         NEW t \in n .. limit - 1
  PROVE  Onwards(Playing(c, n).rate, Position(c, t + 1) - Position(c, t))
<1>1. IsCore(c) /\ c.offset \in Int /\ c.sync # "Uninitialized"
  BY DEF Readable, IsCore
<1>2. t \in Nat /\ t + 1 \in Nat /\ t \in n .. limit /\ t + 1 \in n .. limit /\ t < t + 1
  OBVIOUS
<1>3. Playing(c, t) = Playing(c, n) /\ Playing(c, t + 1) = Playing(c, n)
  BY <1>2
<1>4. LeaderTime(c, t) < LeaderTime(c, t + 1)
  <2>1. 0 <= t + c.offset
    BY <1>1, <1>2
  <2> QED
    BY <1>1, <1>2, <2>1, LeaderTimeRuns
<1>5. EvaluatedAt(c, t) < EvaluatedAt(c, t + 1)
  BY <1>1, <1>4 DEF EvaluatedAt
<1>6. Playing(c, n).rate \notin {1, -1}
  BY <1>1, EvaluatedType DEF Readable
<1> QED
  BY <1>1, <1>2, <1>3, <1>5, <1>6, MotionStep

LEMMA CrossingAhead ==
  ASSUME NEW c, Readable(c), Initialized(c), NEW n \in Nat, 0 <= n + c.offset,
         NEW limit \in Nat, n <= limit, \A t \in n .. limit : Playing(c, t) = Playing(c, n)
  PROVE  CrossingFrom(c, n, limit, Crossing(c, n, limit))
<1> DEFINE speed == Playing(c, n).rate
           P(t) == Position(c, t)
           target == Target(c, n)
           S == {t \in Int : Reaches(c, t, target, Rate(c, n) > 0)}
           crossing == Crossing(c, n, limit)
<1>1. IsCore(c) /\ FRAME \in Nat \ {0} /\ speed \in Int /\ 2 * Magnitude(speed) <= FRAME
  <2>1. IsCore(c)
    BY DEF Readable
  <2>2. Playing(c, n) \in Segments(c.tl) /\ Playing(c, n) \in Segment
    BY <2>1, EvaluatedType
  <2> QED
    BY <2>1, <2>2, PresentationAssumption DEF Readable, Segment
<1>2. ASSUME NEW t \in n .. limit
      PROVE  /\ Sight(c, t) = [cell |-> IF speed >= 0 THEN P(t) \div FRAME
                                        ELSE -((-P(t)) \div FRAME),
                               disc |-> Playing(c, n).disc,
                               step |-> IF speed > 0 THEN 1 ELSE -1]
             /\ P(t) \in Int
  <2>1. t \in Nat /\ Playing(c, t) = Playing(c, n)
    OBVIOUS
  <2>2. P(t) \in Int
    BY <1>1, <2>1, PositionType
  <2> QED
    BY <2>1, <2>2 DEF Sight, Cell, Rate
<1>3. \A t \in n .. limit - 1 : Onwards(speed, P(t + 1) - P(t))
  BY SteadyMotion
<1>4. \A t \in n .. limit - 1 : t \in n .. limit /\ t + 1 \in n .. limit
  OBVIOUS
<1>5. n \in n .. limit /\ n + 1 \in Nat /\ NONE \notin Int
  BY NoneAssumption
<1>6. Rate(c, n) = speed
  BY DEF Rate
<1> HIDE DEF speed, P
<1>7. CASE speed = 0
  <2>1. crossing = NONE
    BY <1>6, <1>7 DEF Crossing
  <2>2. ASSUME NEW t \in n .. limit PROVE P(t) = P(n)
    <3> DEFINE Same == {u \in Int : P(u) = P(n)}
    <3>1. \A u \in n .. t - 1 : u \in Same => u + 1 \in Same
      <4>1. SUFFICES ASSUME NEW u \in n .. t - 1, P(u) = P(n) PROVE P(u + 1) = P(n)
        OBVIOUS
      <4>2. u \in n .. limit - 1
        OBVIOUS
      <4>3. P(u + 1) - P(u) = 0 /\ P(u + 1) \in Int /\ P(u) \in Int
        BY <1>2, <1>3, <1>4, <1>7, <4>2 DEF Onwards
      <4> QED
        BY <4>1, <4>3
    <3>2. n \in Same /\ n \in Int /\ t \in Int /\ n <= t
      OBVIOUS
    <3> HIDE DEF Same
    <3>3. t \in Same
      BY <3>1, <3>2, Spreads
    <3> QED
      BY <3>3 DEF Same
  <2>3. ASSUME NEW t \in n .. limit PROVE Sight(c, t) = Sight(c, n)
    BY <1>2, <1>5, <2>2
  <2> QED
    BY <2>1, <2>3 DEF CrossingFrom
<1>8. CASE speed > 0
  <2>1. target = FRAME * (P(n) \div FRAME + 1)
    BY <1>1, <1>6, <1>8 DEF Target, P
  <2>2. /\ S = {t \in Int : P(t) >= target} /\ crossing = First(n + 1, limit, S)
        /\ \A t \in Int : Reaches(c, t, target, Rate(c, n) > 0) <=> t \in S
        /\ Rate(c, n) # 0
    <3>1. speed # 0 /\ (speed > 0)
      BY <1>1, <1>8
    <3>2. ASSUME NEW t PROVE Reaches(c, t, target, Rate(c, n) > 0) <=> P(t) >= target
      BY <1>6, <3>1 DEF Reaches, P
    <3>3. S = {t \in Int : P(t) >= target}
      <4> HIDE DEF target
      <4> QED
        BY <3>2
    <3>4. Rate(c, n) # 0
      BY <1>6, <3>1
    <3>5. crossing = First(n + 1, limit, S)
      BY <3>4, Zenon DEF Crossing
    <3> QED
      BY <3>3, <3>4, <3>5
  <2> HIDE DEF target, S, crossing
  <2>3. P(n) \in Int
    BY <1>2, <1>5
  <2>4. /\ target \in Int /\ P(n) < target
        /\ \A q \in Int : /\ P(n) <= q /\ q < target => q \div FRAME = P(n) \div FRAME
                          /\ target <= q /\ q < target + FRAME =>
                               q \div FRAME = P(n) \div FRAME + 1
    <3> DEFINE f == FRAME
               p == P(n)
    <3>1. f \in Nat \ {0} /\ p \in Int
      BY <1>1, <2>3
    <3>2. target = f * (p \div f + 1)
      BY <2>1
    <3> HIDE DEF f, p
    <3>3. ASSUME NEW q \in Int
          PROVE  /\ target \in Int /\ p < target
                 /\ p <= q /\ q < target => q \div f = p \div f
                 /\ target <= q /\ q < target + f => q \div f = p \div f + 1
      BY <3>1, <3>2, FrameEntered, ZenonT(60)
    <3> QED
      BY <3>3 DEF f, p
  <2>5. \A t \in n .. limit - 1 : P(t) \in Int /\ P(t + 1) \in Int
                                 /\ P(t) < P(t + 1) /\ P(t + 1) < P(t) + FRAME
    <3>1. SUFFICES ASSUME NEW t \in n .. limit - 1
                   PROVE  P(t) \in Int /\ P(t + 1) \in Int
                          /\ P(t) < P(t + 1) /\ P(t + 1) < P(t) + FRAME
      OBVIOUS
    <3>2. P(t) \in Int /\ P(t + 1) \in Int
      BY <1>2, <1>4
    <3>3. P(t + 1) - P(t) > 0 /\ P(t + 1) - P(t) < 2 * speed
      BY <1>3, <1>8 DEF Onwards
    <3>4. 2 * speed <= FRAME
      BY <1>1, <1>8 DEF Magnitude
    <3> QED
      BY <1>1, <3>2, <3>3, <3>4
  <2>6. ASSUME NEW t \in n .. limit, NEW u \in n .. limit, t <= u PROVE P(t) <= P(u)
    <3> DEFINE Above == {v \in Int : P(t) <= P(v)}
    <3>1. P(t) \in Int
      BY <1>2
    <3>2. \A v \in t .. u - 1 : v \in Above => v + 1 \in Above
      <4>1. SUFFICES ASSUME NEW v \in t .. u - 1, P(t) <= P(v) PROVE P(t) <= P(v + 1)
        OBVIOUS
      <4>2. v \in n .. limit - 1
        OBVIOUS
      <4> QED
        BY <2>5, <3>1, <4>1, <4>2
    <3>3. t \in Above /\ t \in Int /\ u \in Int
      BY <3>1
    <3> HIDE DEF Above
    <3>4. u \in Above
      BY <2>6, <3>2, <3>3, Spreads
    <3> QED
      BY <3>4 DEF Above
  <2>7. Lasting(n + 1, limit, S)
    <3>1. SUFFICES ASSUME NEW t \in n + 1 .. limit, NEW u \in n + 1 .. limit, t \in S, t <= u
                   PROVE  u \in S
      BY DEF Lasting
    <3>2. t \in n .. limit /\ u \in n .. limit
      OBVIOUS
    <3>3. P(t) \in Int /\ P(u) \in Int /\ P(t) <= P(u) /\ P(t) >= target
      BY <1>2, <2>2, <2>6, <3>1, <3>2
    <3>4. P(u) >= target
      BY <2>4, <3>3
    <3> QED
      BY <2>2, <3>2, <3>4
  <2>8. \/ crossing = NONE /\ \A t \in n + 1 .. limit : t \notin S
        \/ /\ crossing \in n + 1 .. limit /\ crossing \in S
           /\ \A t \in n + 1 .. limit : t < crossing => t \notin S
    BY <1>5, <2>2, <2>7, FirstOfThem
  <2>9. ASSUME NEW t \in n .. limit, crossing = NONE \/ t < crossing
        PROVE  P(t) \in Int /\ P(n) <= P(t) /\ P(t) < target
    <3>1. P(t) \in Int /\ P(n) <= P(t)
      BY <1>2, <1>5, <2>6
    <3>2. CASE t = n
      BY <2>4, <3>1, <3>2
    <3>3. CASE t # n
      <4>1. t \in n + 1 .. limit /\ t \in Int
        BY <3>3
      <4>2. t \notin S
        BY <1>5, <2>8, <2>9, <4>1
      <4>3. ~(P(t) >= target)
        BY <2>2, <4>1, <4>2
      <4> QED
        BY <2>4, <3>1, <4>3
    <3> QED
      BY <3>2, <3>3
  <2>10. ASSUME NEW t \in n .. limit, crossing = NONE \/ t < crossing
         PROVE  Sight(c, t) = Sight(c, n)
    <3>1. P(t) \div FRAME = P(n) \div FRAME
      BY <2>4, <2>9, <2>10
    <3> QED
      BY <1>1, <1>2, <1>5, <1>8, <3>1
  <2>11. ASSUME crossing # NONE
         PROVE  Sight(c, crossing) = [Sight(c, n) EXCEPT !.cell = @ + Sight(c, n).step]
    <3> DEFINE x == crossing
    <3> HIDE DEF x
    <3>1. x \in n + 1 .. limit /\ x \in S
      BY <2>8, <2>11 DEF x
    <3>2. /\ x \in n .. limit /\ x - 1 \in n .. limit - 1 /\ x - 1 \in n .. limit
          /\ (x - 1) + 1 = x /\ x - 1 < x
      BY <3>1
    <3>3. P(x) \in Int /\ target <= P(x)
      BY <1>2, <2>2, <3>1, <3>2
    <3>4. P(x) < P(x - 1) + FRAME /\ P(x - 1) < target /\ P(x - 1) \in Int
      BY <2>5, <2>9, <3>2 DEF x
    <3>5. P(x) < target + FRAME
      BY <1>1, <2>4, <3>3, <3>4
    <3>6. P(x) \div FRAME = P(n) \div FRAME + 1
      BY <2>4, <3>3, <3>5
    <3>7. Sight(c, x) = [Sight(c, n) EXCEPT !.cell = @ + Sight(c, n).step]
      BY <1>1, <1>2, <1>5, <1>8, <3>2, <3>6
    <3> QED
      BY <3>7 DEF x
  <2> QED
    <3>1. ASSUME crossing # NONE
          PROVE  /\ Reaches(c, crossing, target, Rate(c, n) > 0)
                 /\ \A t \in n + 1 .. limit :
                      t < crossing => ~Reaches(c, t, target, Rate(c, n) > 0)
      <4>1. crossing \in Int /\ \A t \in n + 1 .. limit : t \in Int
        BY <1>5, <2>8, <3>1
      <4> QED
        BY <2>2, <2>8, <3>1, <4>1
    <3> QED
      BY <2>2, <2>8, <2>10, <2>11, <3>1 DEF CrossingFrom, crossing, target
<1>9. CASE speed < 0
  <2>1. target = FRAME * (P(n) \div FRAME - (IF P(n) % FRAME = 0 THEN 1 ELSE 0))
    BY <1>1, <1>6, <1>9 DEF Target, P
  <2>2. /\ S = {t \in Int : P(t) <= target} /\ crossing = First(n + 1, limit, S)
        /\ \A t \in Int : Reaches(c, t, target, Rate(c, n) > 0) <=> t \in S
        /\ Rate(c, n) # 0
    <3>1. speed # 0 /\ ~(speed > 0)
      BY <1>1, <1>9
    <3>2. ASSUME NEW t PROVE Reaches(c, t, target, Rate(c, n) > 0) <=> P(t) <= target
      BY <1>6, <3>1 DEF Reaches, P
    <3>3. S = {t \in Int : P(t) <= target}
      <4> HIDE DEF target
      <4> QED
        BY <3>2
    <3>4. Rate(c, n) # 0
      BY <1>6, <3>1
    <3>5. crossing = First(n + 1, limit, S)
      BY <3>4, Zenon DEF Crossing
    <3> QED
      BY <3>3, <3>4, <3>5
  <2> HIDE DEF target, S, crossing
  <2>3. P(n) \in Int
    BY <1>2, <1>5
  <2>4. /\ target \in Int /\ target < P(n)
        /\ \A q \in Int : /\ target < q /\ q <= P(n) =>
                               -((-q) \div FRAME) = -((-P(n)) \div FRAME)
                          /\ target - FRAME < q /\ q <= target =>
                               -((-q) \div FRAME) = -((-P(n)) \div FRAME) - 1
    <3> DEFINE f == FRAME
               p == P(n)
    <3>1. f \in Nat \ {0} /\ p \in Int
      BY <1>1, <2>3
    <3>2. target = f * (p \div f - (IF p % f = 0 THEN 1 ELSE 0))
      BY <2>1
    <3> HIDE DEF f, p
    <3>3. ASSUME NEW q \in Int
          PROVE  /\ target \in Int /\ target < p
                 /\ target < q /\ q <= p => -((-q) \div f) = -((-p) \div f)
                 /\ target - f < q /\ q <= target => -((-q) \div f) = -((-p) \div f) - 1
      BY <3>1, <3>2, FrameEnteredBackward, ZenonT(60)
    <3> QED
      BY <3>3 DEF f, p
  <2>5. \A t \in n .. limit - 1 : P(t) \in Int /\ P(t + 1) \in Int
                                 /\ P(t + 1) < P(t) /\ P(t) < P(t + 1) + FRAME
    <3>1. SUFFICES ASSUME NEW t \in n .. limit - 1
                   PROVE  P(t) \in Int /\ P(t + 1) \in Int
                          /\ P(t + 1) < P(t) /\ P(t) < P(t + 1) + FRAME
      OBVIOUS
    <3>2. P(t) \in Int /\ P(t + 1) \in Int
      BY <1>2, <1>4
    <3>3. P(t + 1) - P(t) < 0 /\ P(t + 1) - P(t) > 2 * speed
      BY <1>3, <1>9 DEF Onwards
    <3>4. -(2 * speed) <= FRAME
      BY <1>1, <1>9 DEF Magnitude
    <3> QED
      BY <1>1, <3>2, <3>3, <3>4
  <2>6. ASSUME NEW t \in n .. limit, NEW u \in n .. limit, t <= u PROVE P(u) <= P(t)
    <3> DEFINE Under == {v \in Int : P(v) <= P(t)}
    <3>1. P(t) \in Int
      BY <1>2
    <3>2. \A v \in t .. u - 1 : v \in Under => v + 1 \in Under
      <4>1. SUFFICES ASSUME NEW v \in t .. u - 1, P(v) <= P(t) PROVE P(v + 1) <= P(t)
        OBVIOUS
      <4>2. v \in n .. limit - 1
        OBVIOUS
      <4> QED
        BY <2>5, <3>1, <4>1, <4>2
    <3>3. t \in Under /\ t \in Int /\ u \in Int
      BY <3>1
    <3> HIDE DEF Under
    <3>4. u \in Under
      BY <2>6, <3>2, <3>3, Spreads
    <3> QED
      BY <3>4 DEF Under
  <2>7. Lasting(n + 1, limit, S)
    <3>1. SUFFICES ASSUME NEW t \in n + 1 .. limit, NEW u \in n + 1 .. limit, t \in S, t <= u
                   PROVE  u \in S
      BY DEF Lasting
    <3>2. t \in n .. limit /\ u \in n .. limit
      OBVIOUS
    <3>3. P(t) \in Int /\ P(u) \in Int /\ P(u) <= P(t) /\ P(t) <= target
      BY <1>2, <2>2, <2>6, <3>1, <3>2
    <3>4. P(u) <= target
      BY <2>4, <3>3
    <3> QED
      BY <2>2, <3>2, <3>4
  <2>8. \/ crossing = NONE /\ \A t \in n + 1 .. limit : t \notin S
        \/ /\ crossing \in n + 1 .. limit /\ crossing \in S
           /\ \A t \in n + 1 .. limit : t < crossing => t \notin S
    BY <1>5, <2>2, <2>7, FirstOfThem
  <2>9. ASSUME NEW t \in n .. limit, crossing = NONE \/ t < crossing
        PROVE  P(t) \in Int /\ P(t) <= P(n) /\ target < P(t)
    <3>1. P(t) \in Int /\ P(t) <= P(n)
      BY <1>2, <1>5, <2>6
    <3>2. CASE t = n
      BY <2>4, <3>1, <3>2
    <3>3. CASE t # n
      <4>1. t \in n + 1 .. limit /\ t \in Int
        BY <3>3
      <4>2. t \notin S
        BY <1>5, <2>8, <2>9, <4>1
      <4>3. ~(P(t) <= target)
        BY <2>2, <4>1, <4>2
      <4> QED
        BY <2>4, <3>1, <4>3
    <3> QED
      BY <3>2, <3>3
  <2>10. ASSUME NEW t \in n .. limit, crossing = NONE \/ t < crossing
         PROVE  Sight(c, t) = Sight(c, n)
    <3>1. -((-P(t)) \div FRAME) = -((-P(n)) \div FRAME)
      BY <2>4, <2>9, <2>10
    <3> QED
      BY <1>1, <1>2, <1>5, <1>9, <3>1
  <2>11. ASSUME crossing # NONE
         PROVE  Sight(c, crossing) = [Sight(c, n) EXCEPT !.cell = @ + Sight(c, n).step]
    <3> DEFINE x == crossing
    <3> HIDE DEF x
    <3>1. x \in n + 1 .. limit /\ x \in S
      BY <2>8, <2>11 DEF x
    <3>2. /\ x \in n .. limit /\ x - 1 \in n .. limit - 1 /\ x - 1 \in n .. limit
          /\ (x - 1) + 1 = x /\ x - 1 < x
      BY <3>1
    <3>3. P(x) \in Int /\ P(x) <= target
      BY <1>2, <2>2, <3>1, <3>2
    <3>4. P(x - 1) < P(x) + FRAME /\ target < P(x - 1) /\ P(x - 1) \in Int
      BY <2>5, <2>9, <3>2 DEF x
    <3>5. target - FRAME < P(x)
      BY <1>1, <2>4, <3>3, <3>4
    <3>6. -((-P(x)) \div FRAME) = -((-P(n)) \div FRAME) - 1
      BY <2>4, <3>3, <3>5
    <3>7. Sight(c, x) = [Sight(c, n) EXCEPT !.cell = @ + Sight(c, n).step]
      BY <1>1, <1>2, <1>5, <1>9, <3>2, <3>6
    <3> QED
      BY <3>7 DEF x
  <2> QED
    <3>1. ASSUME crossing # NONE
          PROVE  /\ Reaches(c, crossing, target, Rate(c, n) > 0)
                 /\ \A t \in n + 1 .. limit :
                      t < crossing => ~Reaches(c, t, target, Rate(c, n) > 0)
      <4>1. crossing \in Int /\ \A t \in n + 1 .. limit : t \in Int
        BY <1>5, <2>8, <3>1
      <4> QED
        BY <2>2, <2>8, <3>1, <4>1
    <3> QED
      BY <2>2, <2>8, <2>10, <2>11, <3>1 DEF CrossingFrom, crossing, target
<1> QED
  BY <1>1, <1>7, <1>8, <1>9

(* What a boundary foretells of the instants from which it is awaited.     *)
Foretold(c, t, boundary, sight) ==
  /\ boundary = NONE \/ t < boundary.at => Sight(c, t) = sight
  /\ boundary # NONE /\ t = boundary.at =>
       IF boundary.kind = "Frame"
         THEN Sight(c, t) = [sight EXCEPT !.cell = @ + sight.step]
         ELSE Sight(c, t).disc = boundary.disc /\ boundary.disc # sight.disc

LEMMA WholeTarget ==
  ASSUME NEW c, IsCore(c), NEW n \in Nat
  PROVE  Target(c, n) \in Int
<1>1. Position(c, n) \in Int /\ FRAME \in Nat \ {0}
  BY PositionType, PresentationAssumption
<1> DEFINE p == Position(c, n)
           d == p \div FRAME
<1>2. d \in Int
  <2> HIDE DEF p
  <2> QED
    BY <1>1, DivModOf DEF p
<1>3. \E w \in {d + 1, d - 1, d - 0} : Target(c, n) = FRAME * w
  BY DEF Target
<1> HIDE DEF d
<1> QED
  BY <1>1, <1>2, <1>3

LEMMA BoundaryType ==
  ASSUME NEW c, IsCore(c), NEW n \in Nat, NEW at \in Nat, NEW pos \in Int,
         NEW kind \in {"Frame", "ScheduledChange"}
  PROVE  BoundaryAt(c, n, at, kind, pos) \in Boundaries
<1>1. Playing(c, at).disc \in Nat
  BY EvaluatedType DEF Segment
<1>2. c.unc \in Nat /\ (10 * c.unc + 8) \div 9 \in Nat
  BY DEF IsCore
<1> QED
  BY <1>1, <1>2 DEF BoundaryAt, BoundaryUncertainty, Boundaries

LEMMA NextIsForetold ==
  ASSUME NEW c, Readable(c), NEW n \in Nat, n < END, Initialized(c) => 0 <= n + c.offset
  PROVE  \A t \in n .. END : Foretold(c, t, NextBoundary(c, n), Sight(c, n))
<1> DEFINE boundary == NextBoundary(c, n)
           change == NextChange(c, n)
           limit == IF change = NONE THEN END ELSE change - 1
           crossing == Crossing(c, n, limit)
<1>1. END \in Nat /\ ~(n + 1 > END) /\ IsCore(c) /\ NONE \notin Int
  BY PresentationAssumption, NoneAssumption DEF Readable
<1>2. CASE ~Initialized(c)
  <2>1. boundary = NONE
    BY <1>2 DEF NextBoundary
  <2>2. \A t \in n .. END : Sight(c, t) = Sight(c, n)
    BY <1>2 DEF Sight, Cell, Rate, Position
  <2> QED
    BY <2>1, <2>2 DEF Foretold
<1>3. CASE Initialized(c)
  <2>1. ChangeFrom(c, n, change)
    BY <1>3, ChangeAhead
  <2>2. boundary = IF crossing # NONE
                THEN BoundaryAt(c, n, crossing, "Frame", Target(c, n))
              ELSE IF change # NONE
                THEN BoundaryAt(c, n, change, "ScheduledChange", Position(c, change))
              ELSE NONE
    <3>1. c.sync # "Uninitialized"
      BY <1>3 DEF Readable
    <3> QED
      BY <1>1, <1>3, <3>1, Zenon DEF NextBoundary
  <2> HIDE DEF boundary, change
  <2>3. limit \in Nat /\ n <= limit /\ limit <= END
    BY <1>1, <2>1 DEF ChangeFrom
  <2>4. CrossingFrom(c, n, limit, crossing)
    BY <1>3, <2>1, <2>3, CrossingAhead DEF ChangeFrom
  <2> HIDE DEF limit, crossing
  <2>5. \A at, kind, pos : BoundaryAt(c, n, at, kind, pos).at = at
                           /\ BoundaryAt(c, n, at, kind, pos).kind = kind
                           /\ BoundaryAt(c, n, at, kind, pos).disc = Playing(c, at).disc
    BY DEF BoundaryAt
  <2>6. \A t : Sight(c, t).disc = Playing(c, t).disc
    BY <1>3 DEF Sight
  <2>7. crossing # NONE \/ change # NONE => boundary # NONE
    <3>1. crossing # NONE => crossing \in Nat /\ Target(c, n) \in Int
      <4>1. crossing # NONE => crossing \in Nat
        BY <2>3, <2>4 DEF CrossingFrom
      <4> QED
        BY <1>1, <4>1, PositionType, WholeTarget
    <3>2. change # NONE => change \in Nat
      BY <1>1, <2>1 DEF ChangeFrom
    <3> QED
      BY <1>1, <2>2, <3>1, <3>2, PositionType, BoundaryType, NoBoundaryAssumption
  <2>8. ASSUME NEW t \in n .. END PROVE Foretold(c, t, boundary, Sight(c, n))
    <3>1. CASE crossing # NONE
      <4>1. boundary.at = crossing /\ boundary.kind = "Frame"
        BY <2>2, <2>5, <3>1
      <4>2. crossing \in n + 1 .. limit
        BY <2>4, <3>1 DEF CrossingFrom
      <4>3. t < crossing => Sight(c, t) = Sight(c, n)
        <5>1. SUFFICES ASSUME t < crossing PROVE Sight(c, t) = Sight(c, n)
          OBVIOUS
        <5>2. t \in n .. limit
          BY <2>3, <4>2, <5>1
        <5> QED
          BY <2>4, <5>1, <5>2 DEF CrossingFrom
      <4>4. t = crossing => Sight(c, t) = [Sight(c, n) EXCEPT !.cell = @ + Sight(c, n).step]
        BY <2>4, <3>1 DEF CrossingFrom
      <4>5. boundary # NONE
        BY <2>7, <3>1
      <4> QED
        BY <4>1, <4>3, <4>4, <4>5 DEF Foretold
    <3>2. CASE crossing = NONE /\ change # NONE
      <4>1. /\ boundary.at = change /\ boundary.kind = "ScheduledChange"
            /\ boundary.disc = Playing(c, change).disc
        BY <2>2, <2>5, <3>2
      <4>2. t < change => Sight(c, t) = Sight(c, n)
        <5>1. SUFFICES ASSUME t < change PROVE Sight(c, t) = Sight(c, n)
          OBVIOUS
        <5>2. t \in n .. limit
          BY <2>1, <2>3, <3>2, <5>1 DEF limit, ChangeFrom
        <5> QED
          BY <2>4, <3>2, <5>2 DEF CrossingFrom
      <4>3. Playing(c, change).disc # Playing(c, n).disc
        BY <2>1, <3>2 DEF ChangeFrom
      <4> QED
        BY <2>6, <2>7, <3>2, <4>1, <4>2, <4>3 DEF Foretold
    <3>3. CASE crossing = NONE /\ change = NONE
      <4>1. boundary = NONE
        BY <2>2, <3>3
      <4>2. Sight(c, t) = Sight(c, n)
        BY <2>4, <3>3 DEF CrossingFrom, limit
      <4> QED
        BY <4>1, <4>2 DEF Foretold
    <3> QED
      BY <3>1, <3>2, <3>3
  <2> QED
    BY <2>8 DEF boundary
<1> QED
  BY <1>2, <1>3

ReadableViews == \A c \in Views \cup Updates : Readable(c)

(* The leader's clock is not before its zero, where leader_time stops.     *)
ClockBegun == Initialized(view) => 0 <= local + view.offset

BoundaryInv == Staged =>
  /\ local \in 0 .. LAST /\ Readable(view)
  /\ \A t \in local .. END : Foretold(view, t, due, current)

LEMMA BoundaryInitially ==
  ASSUME ReadableViews, PresentationInit, ClockBegun
  PROVE  BoundaryInv
<1>1. SUFFICES ASSUME Staged PROVE BoundaryInv
  BY DEF BoundaryInv
<1>2. StageInit
  BY <1>1 DEF PresentationInit, TimecodeInit, Staged
<1>3. view \in Views \cup Updates /\ local = 0 /\ due = NextBoundary(view, 0)
      /\ current = Sight(view, 0)
  BY <1>2 DEF StageInit
<1>4. LAST \in Nat /\ END \in Nat /\ 0 < END /\ 0 \in Nat
  BY PresentationAssumption
<1>5. Readable(view)
  BY <1>3 DEF ReadableViews
<1>6. \A t \in 0 .. END : Foretold(view, t, due, current)
  BY <1>3, <1>4, <1>5, NextIsForetold DEF ClockBegun
<1> QED
  BY <1>3, <1>4, <1>5, <1>6 DEF BoundaryInv

LEMMA BoundaryKeeps ==
  ASSUME ReadableViews, BoundaryInv, ClockBegun', [PresentationNext]_presentationVars
  PROVE  BoundaryInv'
<1>1. CASE UNCHANGED presentationVars
  BY <1>1 DEF BoundaryInv, Staged, presentationVars, stageVars, timecodeVars
<1>2. CASE mode \in {"labels", "advance"} /\ TimecodeNext
  <2>1. mode' = mode
    BY <1>2 DEF TimecodeNext, NextFrame, TimePasses
  <2> QED
    BY <1>2, <2>1 DEF BoundaryInv, Staged
<1>3. CASE Staged /\ mode' = mode /\ (WakeUp \/ Publish \/ Elapse \/ Render \/ Hide)
  <2>1. /\ LAST \in Nat /\ END \in Nat /\ LAST < END
        /\ local \in 0 .. LAST /\ Readable(view)
        /\ \A t \in local .. END : Foretold(view, t, due, current)
    BY <1>3, PresentationAssumption DEF BoundaryInv
  <2>2. local \in Nat /\ local < END
    BY <2>1
  <2>3. ASSUME local' = local, Readable(view'), due' = NextBoundary(view', local),
               current' = Sight(view', local)
        PROVE  BoundaryInv'
    <3>1. \A t \in local .. END : Foretold(view', t, due', current')
      BY <2>2, <2>3, NextIsForetold DEF ClockBegun
    <3> QED
      BY <2>1, <2>3, <3>1 DEF BoundaryInv
  <2>4. CASE WakeUp
    BY <2>1, <2>3, <2>4 DEF WakeUp, Predict
  <2>5. CASE Publish
    <3>1. PICK c \in Updates : view' = c /\ Predict(c, local)
      BY <2>5 DEF Publish
    <3>2. Readable(view') /\ local' = local
      BY <2>5, <3>1 DEF Publish, ReadableViews
    <3> QED
      BY <2>3, <3>1, <3>2 DEF Predict
  <2>6. CASE Elapse
    <3>1. local' = local + 1 /\ local < LAST
          /\ view' = view /\ due' = due /\ current' = current
      BY <2>6 DEF Elapse
    <3>2. local' \in 0 .. LAST /\ \A t \in local' .. END : t \in local .. END
      BY <2>1, <3>1
    <3> QED
      BY <2>1, <3>1, <3>2 DEF BoundaryInv
  <2>7. CASE Render
    <3>1. view' = TickCore(view, local) /\ local' = local /\ due' = due /\ current' = current
      BY <2>7 DEF Render, ReadForPresentation
    <3>2. Readable(view') /\ \A t \in Nat : local <= t => Sight(view', t) = Sight(view, t)
      BY <2>1, <2>2, <3>1, TickedReading
    <3>3. \A t \in local .. END : Foretold(view', t, due, current)
      <4>1. SUFFICES ASSUME NEW t \in local .. END PROVE Foretold(view', t, due, current)
        OBVIOUS
      <4>2. Sight(view', t) = Sight(view, t) /\ Foretold(view, t, due, current)
        BY <2>1, <2>2, <3>2
      <4> QED
        BY <4>2 DEF Foretold
    <3> QED
      BY <2>1, <3>1, <3>2, <3>3 DEF BoundaryInv
  <2>8. CASE Hide
    BY <2>1, <2>8 DEF Hide, BoundaryInv
  <2> QED
    BY <1>3, <2>4, <2>5, <2>6, <2>7, <2>8
<1> QED
  BY <1>1, <1>2, <1>3 DEF PresentationNext, Staged, timecodeVars

(* View::next_boundary: an application that sleeps until each boundary     *)
(* misses none, for all views, corrections, rates and schedules, while the *)
(* leader's clock runs.                                                    *)
THEOREM PresentationBoundaryIsFirst ==
  ASSUME ReadableViews
  PROVE  PresentationSpec /\ []ClockBegun => []BoundaryIsFirst
<1>1. PresentationInit /\ ClockBegun => BoundaryInv
  BY BoundaryInitially
<1>2. BoundaryInv /\ ClockBegun' /\ [PresentationNext]_presentationVars => BoundaryInv'
  BY BoundaryKeeps
<1>3. BoundaryInv => BoundaryIsFirst
  <2>1. SUFFICES ASSUME BoundaryInv, Staged PROVE BoundaryIsFirst
    BY DEF BoundaryIsFirst
  <2>2. local \in local .. END
    BY <2>1, PresentationAssumption DEF BoundaryInv
  <2>3. Foretold(view, local, due, current)
    BY <2>1, <2>2 DEF BoundaryInv
  <2> QED
    BY <2>3 DEF Foretold, BoundaryIsFirst
<1> QED
  BY <1>1, <1>2, <1>3, PTL DEF PresentationSpec

-----------------------------------------------------------------------------
(* Uncertainty.  What a quotient grows by is its share, rounded up.        *)
LEMMA QuotientGrows ==
  ASSUME NEW d \in Nat \ {0}, NEW x \in Int, NEW p \in Nat
  PROVE  /\ x \div d \in Int /\ (x + p) \div d \in Int /\ x \div d <= (x + p) \div d
         /\ d * ((x + p) \div d - x \div d) <= p + d - 1
<1> DEFINE y == x + p
           a == x \div d
           b == y \div d
<1>1. a \in Int /\ x % d \in 0 .. d - 1 /\ x = d * a + (x % d)
  BY DivModOf
<1>2. b \in Int /\ y % d \in 0 .. d - 1 /\ y = d * b + (y % d)
  <2>1. y \in Int
    OBVIOUS
  <2> HIDE DEF y
  <2> QED
    BY <2>1, DivModOf
<1> DEFINE w == b - a
           r == x % d
           s == y % d
<1>3. y = x + p /\ w \in Int /\ b = a + w
  BY <1>1, <1>2
<1>4. /\ a \in Int /\ r \in 0 .. d - 1 /\ x = d * a + r
      /\ b \in Int /\ s \in 0 .. d - 1 /\ y = d * b + s
  BY <1>1, <1>2
<1> HIDE DEF a, b, y, r, s, w
<1>5. d * b = d * a + d * w /\ d * w \in Int /\ d * a \in Int
  BY <1>3, <1>4
<1>6. d * w <= p + d - 1 /\ d * w > -d
  BY <1>3, <1>4, <1>5
<1>7. w >= 0
  <2>1. SUFFICES ASSUME w <= -1 PROVE FALSE
    BY <1>3
  <2>2. d * w <= d * (-1)
    BY <1>3, <2>1
  <2> QED
    BY <1>5, <1>6, <2>2
<1> QED
  BY <1>3, <1>4, <1>6, <1>7 DEF a, b, y, w

(* What a slew works off in some ticks is a tenth of the motion in them,   *)
(* rounded up.                                                             *)
WorkedIn(before, after, r, k) ==
  before \in Nat /\ after \in Nat /\ before <= after /\ 10 * (after - before) <= r * k + 9

LEMMA SlewedOver ==
  ASSUME NEW m \in Nat, NEW r \in Nat, NEW e \in Nat, NEW k \in Nat, NEW f, f = e + k,
         NEW before, before = Min({(m * e) \div SETTLE, (r * e) \div 10}),
         NEW after, after = Min({(m * f) \div SETTLE, (r * f) \div 10})
  PROVE  WorkedIn(before, after, r, k)
<1>1. SETTLE \in Nat \ {0} /\ 10 \in Nat \ {0}
  BY FollowerCoreAssumption
<1>2. m * f = m * e + m * k /\ r * f = r * e + r * k
  OBVIOUS
<1> DEFINE a == (m * e) \div SETTLE
           b == (r * e) \div 10
           c == (m * f) \div SETTLE
           d == (r * f) \div 10
<1>3. m * e \in Nat /\ r * e \in Nat /\ m * k \in Nat /\ r * k \in Nat /\ f \in Nat
  OBVIOUS
<1>4. CASE m * 10 <= r * SETTLE
  <2>1. a <= b /\ c <= d /\ a \in Nat /\ b \in Nat /\ c \in Nat /\ d \in Nat
    BY <1>1, <1>3, <1>4, SlopesCompared
  <2>2. a <= c /\ SETTLE * (c - a) <= m * k + SETTLE - 1
    <3> DEFINE x == m * e
               p == m * k
    <3>1. x \in Int /\ p \in Nat /\ a = x \div SETTLE /\ c = (x + p) \div SETTLE
      BY <1>2, <1>3
    <3> HIDE DEF x, p, a, c
    <3>2. a <= c /\ SETTLE * (c - a) <= p + SETTLE - 1
      BY <1>1, <3>1, QuotientGrows
    <3> QED
      BY <3>2 DEF p
  <2> HIDE DEF a, b, c, d
  <2>3. before = a /\ after = c
    <3>1. before = Min({a, b}) /\ after = Min({c, d})
      BY DEF a, b, c, d
    <3> QED
      BY <2>1, <3>1, MinPair
  <2> DEFINE w == c - a
             z == r * k
             s == SETTLE
  <2>4. w \in Nat /\ z \in Nat /\ s \in Nat \ {0} /\ s * w <= m * k + s - 1
    BY <1>1, <1>3, <2>1, <2>2
  <2>5. 10 * (m * k) <= s * z
    <3>1. (m * 10) * k <= (r * s) * k
      BY <1>1, <1>4
    <3>2. (m * 10) * k = 10 * (m * k) /\ (r * s) * k = s * z
      BY <1>1
    <3> QED
      BY <3>1, <3>2
  <2> HIDE DEF w, z, s
  <2>6. 10 * w <= z + 9
    <3>1. SUFFICES ASSUME z + 10 <= 10 * w PROVE FALSE
      BY <2>4
    <3>2. s * (z + 10) <= s * (10 * w)
      BY <2>4, <3>1
    <3>3. s * (z + 10) = s * z + 10 * s /\ s * (10 * w) = 10 * (s * w)
      BY <2>4
    <3>4. s * z \in Nat /\ s * w \in Nat /\ m * k \in Nat
      BY <1>3, <2>4
    <3> QED
      BY <2>4, <2>5, <3>2, <3>3, <3>4
  <2> QED
    BY <2>1, <2>2, <2>3, <2>6 DEF WorkedIn, w, z
<1>5. CASE ~(m * 10 <= r * SETTLE)
  <2>1. r * SETTLE <= m * 10
    BY <1>1, <1>5
  <2>2. b <= a /\ d <= c /\ a \in Nat /\ b \in Nat /\ c \in Nat /\ d \in Nat
    BY <1>1, <1>3, <2>1, SlopesCompared
  <2>3. b <= d /\ 10 * (d - b) <= r * k + 10 - 1
    <3> DEFINE x == r * e
               p == r * k
    <3>1. x \in Int /\ p \in Nat /\ b = x \div 10 /\ d = (x + p) \div 10
      BY <1>2, <1>3
    <3> HIDE DEF x, p, b, d
    <3>2. b <= d /\ 10 * (d - b) <= p + 10 - 1
      BY <1>1, <3>1, QuotientGrows
    <3> QED
      BY <3>2 DEF p
  <2> HIDE DEF a, b, c, d
  <2>4. before = b /\ after = d
    <3>1. before = Min({a, b}) /\ after = Min({c, d})
      BY DEF a, b, c, d
    <3> QED
      BY <2>2, <3>1, MinPair
  <2> QED
    BY <1>3, <2>2, <2>3, <2>4 DEF WorkedIn
<1> QED
  BY <1>4, <1>5

(* From an instant to a later one, while no change comes into effect.      *)
MovedBy(c, t, k) ==
  LET r == Playing(c, t).rate
      slew == Remaining(c, t + k) - Remaining(c, t)
  IN  /\ slew \in Int /\ 10 * Magnitude(slew) <= Magnitude(r) * k + 9
      /\ Remaining(c, t) = 0 => slew = 0
      /\ Position(c, t + k) = Position(c, t) + r * k + slew

LEMMA MotionOver ==
  ASSUME NEW c, Readable(c), Initialized(c), NEW t \in Nat, NEW k \in Nat,
         0 <= t + c.offset, Playing(c, t + k) = Playing(c, t)
  PROVE  MovedBy(c, t, k)
<1> DEFINE u == t + k
           seg == Playing(c, t)
           e == Max({0, t - c.corrAt})
           f == Max({0, u - c.corrAt})
           m == Magnitude(c.corr)
           r == Magnitude(seg.rate)
           s == Slewed(c, e, seg.rate)
           w == Slewed(c, f, seg.rate)
           dir == Direction(c.corr)
           rem == Remaining(c, t)
           left == Remaining(c, u)
<1>1. IsCore(c) /\ c.corrAt \in Nat /\ c.corr \in Int /\ c.offset \in Int /\ u \in Nat
      /\ c.sync # "Uninitialized"
  BY DEF Readable, IsCore
<1>2. seg.pos \in Int /\ seg.time \in Nat /\ seg.rate \in Int
  BY <1>1, EvaluatedType DEF Segment
<1>3. e \in Nat /\ f \in Nat /\ \E j \in 0 .. k : f = e + j
  <2> DEFINE x == t - c.corrAt
             y == u - c.corrAt
  <2>1. x \in Int /\ y = x + k
    BY <1>1
  <2> HIDE DEF x, y
  <2>2. /\ Max({0, x}) = IF 0 >= x THEN 0 ELSE x
        /\ Max({0, y}) = IF 0 >= y THEN 0 ELSE y
    BY <2>1, MaxPair
  <2>3. Max({0, x}) \in Nat /\ Max({0, y}) - Max({0, x}) \in 0 .. k
    BY <2>1, <2>2
  <2> DEFINE g == Max({0, x})
             h == Max({0, y})
  <2> HIDE DEF g, h
  <2>4. g \in Nat /\ h \in Nat /\ \E j \in 0 .. k : h = g + j
    <3>1. g \in Nat /\ h - g \in 0 .. k /\ h \in Int
      BY <2>1, <2>2, <2>3 DEF g, h
    <3> QED
      BY <3>1
  <2> QED
    BY <2>4 DEF g, h, x, y
<1>4. m \in Nat /\ r \in Nat /\ dir \in {1, -1}
  BY <1>1, <1>2 DEF Magnitude, Direction
<1>5. /\ s = Min({(m * e) \div SETTLE, (r * e) \div 10})
      /\ w = Min({(m * f) \div SETTLE, (r * f) \div 10})
  BY DEF Slewed
<1>6. /\ rem = IF seg.disc = c.corrDisc THEN dir * Max({0, m - s}) ELSE 0
      /\ left = IF seg.disc = c.corrDisc THEN dir * Max({0, m - w}) ELSE 0
  BY DEF Remaining
<1>7. Position(c, t) = At(seg, t + c.offset) + rem /\ Position(c, u) = At(seg, u + c.offset) + left
  <2>1. 0 <= u + c.offset
    BY <1>1
  <2>2. EvaluatedAt(c, t) = t + c.offset /\ EvaluatedAt(c, u) = u + c.offset
    BY <1>1, <2>1, LeaderTimeGiven DEF EvaluatedAt
  <2> QED
    BY <2>2 DEF Position
<1>8. At(seg, u + c.offset) = At(seg, t + c.offset) + seg.rate * k
      /\ At(seg, t + c.offset) \in Int /\ seg.rate * k \in Int
  <2> DEFINE x == (t + c.offset) - seg.time
             v == seg.rate
  <2>1. x \in Int /\ (u + c.offset) - seg.time = x + k /\ v \in Int
    BY <1>1, <1>2
  <2>3. /\ At(seg, t + c.offset) = seg.pos + x * v
        /\ At(seg, u + c.offset) = seg.pos + (x + k) * v
    <3>1. \A i : At(seg, i) = seg.pos + (i - seg.time) * seg.rate
      BY DEF At
    <3> DEFINE i == t + c.offset
               j == u + c.offset
    <3>2. i - seg.time = x /\ v = seg.rate
      OBVIOUS
    <3>3. j - seg.time = x + k
      BY <2>1
    <3> HIDE DEF i, j, x, v, seg
    <3> QED
      BY <3>1, <3>2, <3>3 DEF i, j
  <2> HIDE DEF x, v
  <2>2. (x + k) * v = x * v + v * k /\ x * v \in Int /\ v * k \in Int
    BY <2>1
  <2> QED
    BY <1>2, <2>2, <2>3 DEF v
<1> HIDE DEF u, e, f, m, r, s, w, dir, rem, left
<1>9. s \in Nat /\ w \in Nat /\ s <= w /\ 10 * (w - s) <= r * k + 9
  <2>1. PICK j \in 0 .. k : f = e + j
    BY <1>3
  <2>2. j \in Nat /\ r * j <= r * k /\ r * j \in Nat /\ r * k \in Nat
    BY <1>4, <2>1
  <2>3. WorkedIn(s, w, r, j)
    BY <1>3, <1>4, <1>5, <2>1, <2>2, SlewedOver
  <2> QED
    BY <2>2, <2>3 DEF WorkedIn
<1>10. /\ rem \in Int /\ left \in Int
       /\ 10 * Magnitude(left - rem) <= r * k + 9
       /\ rem = 0 => left = 0
  <2> DEFINE x == m - s
             y == m - w
  <2>1. x \in Int /\ y \in Int /\ y <= x /\ x - y = w - s
    BY <1>4, <1>9
  <2> HIDE DEF x, y
  <2>2. /\ Max({0, x}) = IF 0 >= x THEN 0 ELSE x
        /\ Max({0, y}) = IF 0 >= y THEN 0 ELSE y
    BY <2>1, MaxPair
  <2> DEFINE g == Max({0, x})
             h == Max({0, y})
  <2>3. g \in Nat /\ h \in Nat /\ h <= g /\ g - h <= w - s
    BY <1>9, <2>1, <2>2
  <2>4. /\ rem = IF seg.disc = c.corrDisc THEN dir * g ELSE 0
        /\ left = IF seg.disc = c.corrDisc THEN dir * h ELSE 0
    BY <1>6 DEF x, y
  <2> HIDE DEF g, h
  <2>5. dir * g = (IF dir = 1 THEN g ELSE -g) /\ dir * h = (IF dir = 1 THEN h ELSE -h)
    BY <1>4, <2>3
  <2>6. r * k \in Nat
    BY <1>4
  <2>7. /\ rem \in Int /\ left \in Int
        /\ Magnitude(left - rem) \in Nat /\ Magnitude(left - rem) <= g - h
    BY <1>4, <2>3, <2>4, <2>5 DEF Magnitude
  <2>8. rem = 0 => left = 0
    BY <1>4, <2>3, <2>4, <2>5
  <2> QED
    BY <1>9, <2>3, <2>6, <2>7, <2>8
<1>11. Position(c, u) = Position(c, t) + seg.rate * k + (left - rem)
  <2> DEFINE v == seg.rate * k
             x == At(seg, t + c.offset)
  <2> HIDE DEF v, x
  <2>1. v \in Int /\ x \in Int /\ Position(c, t) = x + rem /\ Position(c, u) = x + v + left
    BY <1>7, <1>8 DEF v, x
  <2>2. Position(c, u) = Position(c, t) + v + (left - rem)
    BY <1>10, <2>1
  <2> QED
    BY <2>2 DEF v
<1> QED
  BY <1>10, <1>11 DEF MovedBy, u, r, rem, left

(* BoundaryUncertainty covers the motion that makes an error of the clock  *)
(* good, whatever a correction takes off it.                               *)
Slack(c, n) == BoundaryUncertainty(c, n, "Frame")

LEMMA SlackCovers ==
  ASSUME NEW c, Readable(c), Initialized(c), NEW n \in Nat, 0 <= n + c.offset,
         NEW t \in Nat, n <= t, Playing(c, t) = Playing(c, n),
         Playing(c, t + Slack(c, n)) = Playing(c, n)
  PROVE  LET r == Playing(c, n).rate
             step == Position(c, t + Slack(c, n)) - Position(c, t)
         IN  /\ Slack(c, n) \in Nat
             /\ r > 0 => step >= c.unc * r
             /\ r < 0 => step <= c.unc * r
<1> DEFINE r == Playing(c, n).rate
           k == Slack(c, n)
           j == t - n
           slew == Remaining(c, t + k) - Remaining(c, t)
           v == r * k
           x == c.unc * r
<1>1. IsCore(c) /\ c.unc \in Nat /\ c.offset \in Int
  BY DEF Readable, IsCore
<1>2. r \in Int
  BY <1>1, EvaluatedType DEF Segment
<1>3. k \in Nat /\ 10 * c.unc <= 10 * k
      /\ (IF Remaining(c, n) # 0 THEN 10 * c.unc <= 9 * k ELSE k = c.unc)
  <2>1. (10 * c.unc + 8) \div 9 \in Nat /\ 10 * c.unc <= 9 * ((10 * c.unc + 8) \div 9)
    BY <1>1
  <2> QED
    BY <1>1, <2>1 DEF Slack, BoundaryUncertainty
<1>4. j \in Nat /\ n + j = t /\ 0 <= t + c.offset
  BY <1>1
<1>5. MovedBy(c, t, k)
  BY <1>3, <1>4, MotionOver
<1>6. Remaining(c, n) = 0 => Remaining(c, t) = 0
  <2>1. MovedBy(c, n, j)
    BY <1>4, MotionOver
  <2>2. Remaining(c, n) \in Int /\ Remaining(c, t) \in Int
    BY <1>1, RemainingType
  <2> QED
    BY <1>4, <2>1, <2>2 DEF MovedBy
<1>7. /\ slew \in Int /\ 10 * Magnitude(slew) <= Magnitude(r) * k + 9
      /\ Remaining(c, n) = 0 => slew = 0
      /\ Position(c, t + k) = Position(c, t) + v + slew
  BY <1>5, <1>6 DEF MovedBy
<1>8. Position(c, t + k) \in Int /\ Position(c, t) \in Int
  <2>1. t + k \in Nat
    BY <1>3
  <2> QED
    BY <1>1, <2>1, PositionType
<1>9. v \in Int /\ x \in Int
  BY <1>1, <1>2, <1>3
<1>10. ASSUME r > 0 PROVE v + slew >= x
  <2>1. CASE Remaining(c, n) = 0
    <3>1. v = x /\ slew = 0
      BY <1>2, <1>3, <1>7, <2>1
    <3> QED
      BY <1>9, <3>1
  <2>2. CASE Remaining(c, n) # 0
    <3>1. (10 * c.unc) * r <= (9 * k) * r
      BY <1>1, <1>2, <1>3, <1>10, <2>2
    <3>2. (10 * c.unc) * r = 10 * x /\ (9 * k) * r = 9 * v
      BY <1>1, <1>2, <1>3
    <3>3. 10 * (-slew) <= v + 9
      BY <1>2, <1>3, <1>7, <1>10 DEF Magnitude
    <3> HIDE DEF slew, v, x
    <3> QED
      BY <1>7, <1>9, <3>1, <3>2, <3>3
  <2> QED
    BY <2>1, <2>2
<1>11. ASSUME r < 0 PROVE v + slew <= x
  <2>1. CASE Remaining(c, n) = 0
    <3>1. v = x /\ slew = 0
      BY <1>2, <1>3, <1>7, <2>1
    <3> QED
      BY <1>9, <3>1
  <2>2. CASE Remaining(c, n) # 0
    <3>1. (9 * k) * r <= (10 * c.unc) * r
      BY <1>1, <1>2, <1>3, <1>11, <2>2
    <3>2. (10 * c.unc) * r = 10 * x /\ (9 * k) * r = 9 * v
      BY <1>1, <1>2, <1>3
    <3>3. 10 * slew <= -v + 9
      <4>1. Magnitude(r) * k = -v
        BY <1>2, <1>3, <1>11 DEF Magnitude
      <4>2. slew <= Magnitude(slew) /\ Magnitude(slew) \in Int
        BY <1>7 DEF Magnitude
      <4> QED
        BY <1>7, <1>9, <4>1, <4>2
    <3> HIDE DEF slew, v, x
    <3> QED
      BY <1>7, <1>9, <3>1, <3>2, <3>3
  <2> QED
    BY <2>1, <2>2
<1>12. r > 0 => Position(c, t + k) - Position(c, t) >= x
  <2> HIDE DEF r, k, v, x, slew
  <2> QED
    BY <1>7, <1>8, <1>9, <1>10
<1>13. r < 0 => Position(c, t + k) - Position(c, t) <= x
  <2> HIDE DEF r, k, v, x, slew
  <2> QED
    BY <1>7, <1>8, <1>9, <1>11
<1> QED
  BY <1>3, <1>12, <1>13

(* What a boundary that is foretold is.                                    *)
FrameAwaited(c, n, b) ==
  /\ b.kind = "Frame" /\ b.unc = Slack(c, n) /\ b.pos = Target(c, n)
  /\ b.disc = Playing(c, n).disc /\ Rate(c, n) # 0
  /\ \A t \in n .. b.at : Playing(c, t) = Playing(c, n)
  /\ Reaches(c, b.at, Target(c, n), Rate(c, n) > 0)
  /\ \A t \in n + 1 .. b.at : t < b.at => ~Reaches(c, t, Target(c, n), Rate(c, n) > 0)

ChangeAwaited(c, b) ==
  /\ b.kind = "ScheduledChange" /\ b.unc = c.unc /\ b.disc = Playing(c, b.at).disc
  /\ Playing(c, b.at).time = b.at + c.offset

Awaited(c, n, b) ==
  b.at \in n + 1 .. END /\ (FrameAwaited(c, n, b) \/ ChangeAwaited(c, b))

LEMMA NextIsAwaited ==
  ASSUME NEW c, Readable(c), Initialized(c), NEW n \in Nat, n < END, 0 <= n + c.offset,
         NextBoundary(c, n) # NONE
  PROVE  Awaited(c, n, NextBoundary(c, n))
<1> DEFINE boundary == NextBoundary(c, n)
           change == NextChange(c, n)
           limit == IF change = NONE THEN END ELSE change - 1
           crossing == Crossing(c, n, limit)
<1>1. END \in Nat /\ ~(n + 1 > END) /\ c.sync # "Uninitialized"
  BY PresentationAssumption DEF Readable
<1>2. ChangeFrom(c, n, change)
  BY ChangeAhead
<1>3. boundary = IF crossing # NONE
                THEN BoundaryAt(c, n, crossing, "Frame", Target(c, n))
              ELSE IF change # NONE
                THEN BoundaryAt(c, n, change, "ScheduledChange", Position(c, change))
              ELSE NONE
  BY <1>1, Zenon DEF NextBoundary
<1>4. boundary # NONE
  OBVIOUS
<1> HIDE DEF boundary, change
<1>5. limit \in Nat /\ n <= limit /\ limit <= END
  BY <1>1, <1>2 DEF ChangeFrom
<1>6. CrossingFrom(c, n, limit, crossing)
  BY <1>2, <1>5, CrossingAhead DEF ChangeFrom
<1> HIDE DEF limit, crossing
<1>7. CASE crossing # NONE
  <2>1. /\ boundary.at = crossing /\ boundary.kind = "Frame" /\ boundary.pos = Target(c, n)
        /\ boundary.disc = Playing(c, crossing).disc /\ boundary.unc = Slack(c, n)
    BY <1>3, <1>7 DEF BoundaryAt, Slack
  <2>2. crossing \in n + 1 .. limit /\ crossing \in n + 1 .. END
    BY <1>1, <1>5, <1>6, <1>7 DEF CrossingFrom
  <2>3. \A t \in n .. crossing : t \in n .. limit
    BY <1>5, <2>2
  <2>4. \A t \in n .. crossing : Playing(c, t) = Playing(c, n)
    BY <1>2, <2>3 DEF ChangeFrom, limit
  <2>5. Playing(c, crossing) = Playing(c, n)
    <3>1. crossing \in n .. crossing
      BY <2>2
    <3> QED
      BY <2>4, <3>1
  <2>6. \A t \in n + 1 .. crossing : t < crossing => ~Reaches(c, t, Target(c, n), Rate(c, n) > 0)
    <3>1. \A t \in n + 1 .. crossing : t \in n + 1 .. limit
      BY <1>5, <2>2
    <3> QED
      BY <1>6, <1>7, <3>1 DEF CrossingFrom
  <2>7. Rate(c, n) # 0 /\ Reaches(c, crossing, Target(c, n), Rate(c, n) > 0)
    BY <1>6, <1>7 DEF CrossingFrom
  <2>8. FrameAwaited(c, n, boundary)
    BY <2>1, <2>4, <2>5, <2>6, <2>7 DEF FrameAwaited
  <2> QED
    BY <2>1, <2>2, <2>8 DEF Awaited, boundary
<1>8. CASE crossing = NONE
  <2>1. change # NONE /\ boundary = BoundaryAt(c, n, change, "ScheduledChange", Position(c, change))
    BY <1>3, <1>4, <1>8
  <2>2. /\ boundary.at = change /\ boundary.kind = "ScheduledChange"
        /\ boundary.disc = Playing(c, change).disc /\ boundary.unc = c.unc
    BY <2>1 DEF BoundaryAt, BoundaryUncertainty
  <2>3. change \in n + 1 .. END /\ Playing(c, change).time = change + c.offset
    BY <1>2, <2>1 DEF ChangeFrom
  <2>4. ChangeAwaited(c, boundary)
    BY <2>2, <2>3 DEF ChangeAwaited
  <2> QED
    BY <2>2, <2>3, <2>4 DEF Awaited, boundary
<1> QED
  BY <1>7, <1>8

(* A number names one segment of a timeline.                               *)
LEMMA SegmentNamed ==
  ASSUME NEW tl \in HeldTimelines, Ascending(tl), NEW s \in Segments(tl),
         NEW w \in Segments(tl), s.disc = w.disc
  PROVE  s = w
<1>1. \A i \in 1 .. Len(tl.sched) : tl.sched[i] \in Segment
  BY DEF HeldTimelines
<1>2. tl.cur.disc \in Nat /\ \A i \in 1 .. Len(tl.sched) : tl.sched[i].disc \in Nat
  BY <1>1 DEF HeldTimelines, Segment
<1>3. Len(tl.sched) \in Nat
  BY DEF HeldTimelines
<1>4. CASE s = tl.cur
  BY <1>2, <1>4 DEF Segments, Ascending
<1>5. CASE w = tl.cur
  BY <1>2, <1>5 DEF Segments, Ascending
<1>6. ASSUME NEW i \in 1 .. Len(tl.sched), NEW j \in 1 .. Len(tl.sched),
             s = tl.sched[i], w = tl.sched[j]
      PROVE  s = w
  <2>1. i < j \/ j < i \/ i = j
    BY <1>3
  <2>2. (i < j => s.disc < w.disc) /\ (j < i => w.disc < s.disc)
    BY <1>6, Zenon DEF Ascending
  <2>3. s.disc \in Nat
    BY <1>2, <1>6, Zenon
  <2> QED
    <3> DEFINE a == s.disc
    <3>1. a \in Nat /\ (i < j => a < a) /\ (j < i => a < a)
      BY <2>2, <2>3
    <3> HIDE DEF a
    <3>2. i = j
      BY <2>1, <3>1
    <3> QED
      BY <1>6, <3>2
<1> QED
  BY <1>4, <1>5, <1>6 DEF Segments

(* Two views that only take the leader's clock to be e apart.              *)
Apart(c, g, e) ==
  /\ g.tl = c.tl /\ g.sync = c.sync /\ g.sampled = c.sampled /\ g.unc = c.unc
  /\ g.corr = c.corr /\ g.corrAt = c.corrAt /\ g.corrDisc = c.corrDisc
  /\ g.offset = c.offset + e

LEMMA OffsetMoved ==
  ASSUME NEW c, Readable(c), NEW e \in Int, NEW g, g = [c EXCEPT !.offset = @ + e]
  PROVE  Readable(g) /\ Apart(c, g, e) /\ Apart(g, c, -e)
<1>1. IsCore(c) /\ DOMAIN c = Fields /\ c.offset \in Int
  BY DEF Readable, IsCore
<1>2. /\ DOMAIN g = Fields /\ g.offset = c.offset + e
      /\ g.conn = c.conn /\ g.sync = c.sync /\ g.tl = c.tl /\ g.unc = c.unc
      /\ g.sampled = c.sampled /\ g.corr = c.corr /\ g.corrAt = c.corrAt
      /\ g.corrDisc = c.corrDisc /\ g.recovering = c.recovering /\ g.gen = c.gen
      /\ g.large = c.large /\ g.sign = c.sign /\ g.locked = c.locked
      /\ g.expected = c.expected /\ g.reported = c.reported /\ g.event = c.event
  BY <1>1, ZenonT(40) DEF Fields
<1>3. c.offset + e \in Int /\ c.offset = (c.offset + e) + (-e)
  BY <1>1
<1>4. IsCore(g)
  BY <1>1, <1>2, <1>3 DEF IsCore
<1>5. Readable(g)
  BY <1>2, <1>4 DEF Readable, Initialized
<1> QED
  BY <1>2, <1>3, <1>5 DEF Apart

LEMMA ApartReading ==
  ASSUME NEW c, Readable(c), Initialized(c), NEW g, Readable(g), Initialized(g),
         NEW e \in Int, Apart(c, g, e), NEW t \in Nat, Playing(g, t) = Playing(c, t)
  PROVE  /\ Remaining(g, t) = Remaining(c, t)
         /\ 0 <= t + c.offset /\ 0 <= t + g.offset =>
              Position(g, t) = Position(c, t) + e * Playing(c, t).rate
<1>1. IsCore(c) /\ IsCore(g) /\ c.offset \in Int /\ c.sync # "Uninitialized"
      /\ g.sync # "Uninitialized"
  BY DEF Readable, IsCore
<1>2. Remaining(g, t) = Remaining(c, t) /\ Remaining(c, t) \in Int
  <2>1. Remaining(g, t) = Remaining(c, t)
    BY Zenon DEF Apart, Remaining, Slewed
  <2> QED
    BY <1>1, <2>1, RemainingType
<1>3. ASSUME 0 <= t + c.offset, 0 <= t + g.offset
      PROVE  Position(g, t) = Position(c, t) + e * Playing(c, t).rate
  <2> DEFINE seg == Playing(c, t)
             x == t + c.offset
             y == t + g.offset
  <2>1. seg.pos \in Int /\ seg.time \in Nat /\ seg.rate \in Int
    BY <1>1, EvaluatedType DEF Segment
  <2>2. EvaluatedAt(c, t) = x /\ EvaluatedAt(g, t) = y
    BY <1>1, <1>3, LeaderTimeGiven DEF EvaluatedAt
  <2>3. y = x + e /\ x \in Int
    BY <1>1 DEF Apart
  <2>4. Position(c, t) = At(seg, x) + Remaining(c, t)
        /\ Position(g, t) = At(seg, y) + Remaining(c, t)
    BY <1>2, <2>2 DEF Position
  <2> DEFINE p == seg.pos
             v == seg.rate
             d == seg.time
  <2>5. \A i : At(seg, i) = p + (i - d) * v
    BY DEF At
  <2>6. p \in Int /\ v \in Int /\ d \in Int
    BY <2>1
  <2> HIDE DEF seg, x, y, p, v, d
  <2> DEFINE z == x - d
  <2>7. z \in Int /\ y - d = z + e
    BY <2>3, <2>6
  <2>8. At(seg, x) = p + z * v /\ At(seg, y) = p + (z + e) * v
    BY <2>5, <2>7
  <2> HIDE DEF z
  <2>9. (z + e) * v = z * v + e * v /\ z * v \in Int /\ e * v \in Int
    BY <2>6, <2>7
  <2>10. Position(g, t) = Position(c, t) + e * v
    BY <1>2, <2>4, <2>6, <2>8, <2>9
  <2> QED
    BY <2>10 DEF v, seg
<1> QED
  BY <1>2, <1>3

(* Where the clock is e off, no more than it claims, the other view is at  *)
(* the frame no later than the uncertainty given with it.                  *)
LEMMA CrossedSoon ==
  ASSUME NEW c, Readable(c), Initialized(c), NEW g, Readable(g), Initialized(g),
         NEW e \in Int, Apart(c, g, e), -c.unc <= e, e <= c.unc,
         NEW n \in Nat, 0 <= n + c.offset, 0 <= n + g.offset,
         NEW x \in Nat, n < x, NEW y \in Nat, n < y,
         Playing(g, n) = Playing(c, n),
         \A t \in n .. x : Playing(c, t) = Playing(c, n),
         \A t \in n .. y : Playing(g, t) = Playing(g, n),
         Rate(c, n) # 0, NEW target \in Int,
         Reaches(c, x, target, Rate(c, n) > 0),
         \A t \in n + 1 .. y : t < y => ~Reaches(g, t, target, Rate(g, n) > 0)
  PROVE  Slack(g, n) = Slack(c, n) /\ Slack(c, n) \in Nat /\ y <= x + Slack(c, n)
<1> DEFINE k == Slack(g, n)
           v == Playing(c, n).rate
           u == x + k
<1>1. /\ IsCore(c) /\ IsCore(g) /\ c.unc \in Nat /\ g.unc = c.unc
      /\ c.offset \in Int /\ g.offset \in Int
  BY DEF Readable, IsCore, Apart
<1>2. v \in Int /\ Rate(c, n) = v /\ Rate(g, n) = v /\ Playing(g, n).rate = v
  BY <1>1, EvaluatedType DEF Segment, Rate
<1>3. Remaining(g, n) = Remaining(c, n)
  BY ApartReading
<1>4. k = Slack(c, n)
  BY <1>1, <1>3 DEF Slack, BoundaryUncertainty
<1>5. k \in Nat
  <2>1. (10 * g.unc + 8) \div 9 \in Nat
    BY <1>1
  <2> QED
    BY <1>1, <2>1 DEF Slack, BoundaryUncertainty
<1> HIDE DEF k, v
<1>6. ASSUME u < y PROVE FALSE
  <2>1. u \in Nat /\ n <= u /\ x \in n .. y /\ u \in n .. y /\ u \in n + 1 .. y /\ x \in n .. x
    BY <1>5, <1>6
  <2>2. Playing(g, x) = Playing(g, n) /\ Playing(g, u) = Playing(g, n)
        /\ Playing(c, x) = Playing(c, n)
    BY <2>1
  <2>3. LET r == Playing(g, n).rate
            step == Position(g, u) - Position(g, x)
        IN  (r > 0 => step >= g.unc * r) /\ (r < 0 => step <= g.unc * r)
    BY <2>2, SlackCovers DEF k
  <2>4. 0 <= x + c.offset /\ 0 <= x + g.offset
    BY <1>1
  <2>5. Position(g, x) = Position(c, x) + e * v
    BY <2>2, <2>4, ApartReading DEF v
  <2>6. Position(c, x) \in Int /\ Position(g, x) \in Int /\ Position(g, u) \in Int
    BY <1>1, <2>1, PositionType
  <2> DEFINE w == e * v
             z == c.unc * v
             px == Position(c, x)
             qx == Position(g, x)
             qu == Position(g, u)
  <2>7. w \in Int /\ z \in Int
    BY <1>1, <1>2
  <2>8. (v > 0 => qu - qx >= z) /\ (v < 0 => qu - qx <= z)
    BY <1>1, <1>2, <2>3
  <2>9. v # 0 /\ ~Reaches(g, u, target, v > 0) /\ Reaches(c, x, target, v > 0)
    BY <1>2, <1>6, <2>1
  <2>10. (v > 0 => -w <= z) /\ (v < 0 => z <= -w)
    <3> DEFINE m == c.unc
               o == c.unc + e
    <3>1. o \in Nat /\ m \in Nat
      BY <1>1
    <3>2. o * v = z + w
      BY <1>1, <1>2
    <3> HIDE DEF o, z, w
    <3>3. (v > 0 => o * v >= 0) /\ (v < 0 => o * v <= 0)
      BY <1>2, <3>1
    <3> QED
      BY <2>7, <3>2, <3>3
  <2>11. qx = px + w /\ px \in Int /\ qx \in Int /\ qu \in Int
    BY <2>5, <2>6
  <2>12. CASE v > 0
    <3>1. px >= target /\ ~(qu >= target)
      BY <2>9, <2>12 DEF Reaches
    <3> HIDE DEF w, z, px, qx, qu
    <3> QED
      BY <2>7, <2>8, <2>10, <2>11, <2>12, <3>1
  <2>13. CASE v < 0
    <3>1. px <= target /\ ~(qu <= target)
      <4>1. ~(v > 0)
        BY <1>2, <2>13
      <4> QED
        BY <2>9, <4>1 DEF Reaches
    <3> HIDE DEF w, z, px, qx, qu
    <3> QED
      BY <2>7, <2>8, <2>10, <2>11, <2>13, <3>1
  <2> QED
    BY <1>2, <2>9, <2>12, <2>13
<1>7. y <= u
  BY <1>5, <1>6
<1> QED
  BY <1>4, <1>5, <1>7 DEF k

(* The boundary a view foretells is as uncertain as it claims.             *)
Covered(c, n) ==
  LET b == NextBoundary(c, n)
  IN  c.unc > 0 /\ b # NONE =>
        \A e \in (-c.unc .. c.unc) \ {0} :
          LET d == NextBoundary([c EXCEPT !.offset = @ + e], n)
          IN  d # NONE /\ <<d.kind, d.pos, d.disc>> = <<b.kind, b.pos, b.disc>>
                => Magnitude(d.at - b.at) <= b.unc

LEMMA NextCovered ==
  ASSUME NEW c, Readable(c), Initialized(c), NEW n \in Nat, n < END, c.unc <= n + c.offset,
         NEW e \in Int, -c.unc <= e, e <= c.unc,
         NEW g, g = [c EXCEPT !.offset = @ + e],
         NEW b, b = NextBoundary(c, n), b # NONE,
         NEW d, d = NextBoundary(g, n), d # NONE,
         d.kind = b.kind, d.pos = b.pos, d.disc = b.disc
  PROVE  Magnitude(d.at - b.at) <= b.unc
<1>1. /\ IsCore(c) /\ c.tl \in HeldTimelines /\ Ascending(c.tl) /\ c.unc \in Nat
      /\ c.offset \in Int
  BY DEF Readable, IsCore
<1>2. Readable(g) /\ Apart(c, g, e) /\ Apart(g, c, -e)
  BY OffsetMoved
<1>3. Initialized(g) /\ 0 <= n + c.offset /\ 0 <= n + g.offset /\ IsCore(g) /\ g.offset \in Int
      /\ g.tl = c.tl /\ g.unc = c.unc /\ g.offset = c.offset + e
  BY <1>1, <1>2 DEF Initialized, Apart, Readable, IsCore
<1>4. Awaited(c, n, b) /\ Awaited(g, n, d)
  BY <1>2, <1>3, NextIsAwaited
<1>5. b.at \in n + 1 .. END /\ d.at \in n + 1 .. END /\ END \in Nat
  BY <1>4, PresentationAssumption DEF Awaited
<1> DEFINE x == b.at
           y == d.at
<1>6. x \in Nat /\ n < x /\ y \in Nat /\ n < y
  BY <1>5
<1>7. \A t \in Nat : /\ Playing(c, t) \in Segments(c.tl) /\ Playing(c, t) \in Segment
                     /\ Playing(g, t) \in Segments(c.tl)
  BY <1>1, <1>3, EvaluatedType
<1>8. CASE b.kind = "Frame"
  <2>1. FrameAwaited(c, n, b) /\ FrameAwaited(g, n, d)
    BY <1>4, <1>8 DEF Awaited, ChangeAwaited
  <2>2. Playing(g, n) = Playing(c, n)
    <3>1. Playing(g, n).disc = Playing(c, n).disc
      BY <2>1 DEF FrameAwaited
    <3> QED
      BY <1>1, <1>7, <3>1, SegmentNamed
  <2> DEFINE target == Target(c, n)
  <2>3. target = Target(g, n) /\ target \in Int
    BY <1>1, <2>1, WholeTarget DEF FrameAwaited
  <2> HIDE DEF target
  <2>4. /\ \A t \in n .. x : Playing(c, t) = Playing(c, n)
        /\ \A t \in n .. y : Playing(g, t) = Playing(g, n)
        /\ Rate(c, n) # 0 /\ Rate(g, n) # 0
        /\ Reaches(c, x, target, Rate(c, n) > 0)
        /\ Reaches(g, y, target, Rate(g, n) > 0)
        /\ \A t \in n + 1 .. x : t < x => ~Reaches(c, t, target, Rate(c, n) > 0)
        /\ \A t \in n + 1 .. y : t < y => ~Reaches(g, t, target, Rate(g, n) > 0)
    BY <2>1, <2>3 DEF FrameAwaited, target
  <2> HIDE DEF x, y
  <2>5. Slack(g, n) = Slack(c, n) /\ Slack(c, n) \in Nat /\ y <= x + Slack(c, n)
    BY <1>2, <1>3, <1>6, <2>2, <2>3, <2>4, CrossedSoon
  <2>6. x <= y + Slack(g, n)
    <3>1. -e \in Int /\ -g.unc <= -e /\ -e <= g.unc
      BY <1>1, <1>3
    <3>2. Playing(c, n) = Playing(g, n)
      BY <2>2
    <3> DEFINE o == -e
    <3>3. o \in Int /\ Apart(g, c, o) /\ -g.unc <= o /\ o <= g.unc
      BY <1>2, <3>1
    <3> HIDE DEF o
    <3> QED
      BY <1>2, <1>3, <1>6, <2>3, <2>4, <3>2, <3>3, CrossedSoon
  <2>7. b.unc = Slack(c, n)
    BY <2>1 DEF FrameAwaited
  <2> DEFINE k == Slack(c, n)
  <2>8. k \in Nat /\ y <= x + k /\ x <= y + k
    BY <2>5, <2>6
  <2> HIDE DEF k
  <2>9. Magnitude(y - x) <= k
    BY <1>6, <2>8 DEF Magnitude
  <2> QED
    BY <2>7, <2>9 DEF k, x, y
<1>9. CASE b.kind # "Frame"
  <2>1. ChangeAwaited(c, b) /\ ChangeAwaited(g, d)
    BY <1>4, <1>9 DEF Awaited, FrameAwaited
  <2>2. Playing(g, y) = Playing(c, x)
    <3>1. Playing(g, y).disc = Playing(c, x).disc
      BY <2>1 DEF ChangeAwaited
    <3> QED
      BY <1>1, <1>6, <1>7, <3>1, SegmentNamed
  <2>3. Playing(c, x).time = x + c.offset /\ Playing(c, x).time = y + g.offset
    BY <2>1, <2>2 DEF ChangeAwaited
  <2>4. b.unc = c.unc
    BY <2>1 DEF ChangeAwaited
  <2> HIDE DEF x, y
  <2>5. y - x = -e
    BY <1>1, <1>3, <1>6, <2>3
  <2>6. Magnitude(y - x) <= c.unc
    BY <1>1, <1>6, <2>5 DEF Magnitude
  <2> QED
    BY <2>4, <2>6 DEF x, y
<1> QED
  BY <1>8, <1>9

(* The leader's clock is not before its zero, wherever the clock is.       *)
SurelyBegun == Initialized(view) => view.unc <= local + view.offset

ViewInv == Staged => local \in 0 .. LAST /\ Readable(view)

LEMMA ViewInitially == ReadableViews /\ PresentationInit => ViewInv
<1>1. SUFFICES ASSUME ReadableViews, PresentationInit, Staged PROVE ViewInv
  BY DEF ViewInv
<1>2. StageInit
  BY <1>1 DEF PresentationInit, TimecodeInit, Staged
<1> QED
  BY <1>1, <1>2, PresentationAssumption DEF StageInit, ViewInv, ReadableViews

LEMMA ViewKeeps ==
  ASSUME ReadableViews, ViewInv, [PresentationNext]_presentationVars
  PROVE  ViewInv'
<1>1. CASE UNCHANGED presentationVars
  BY <1>1 DEF ViewInv, Staged, presentationVars, stageVars, timecodeVars
<1>2. CASE mode \in {"labels", "advance"} /\ TimecodeNext
  <2>1. mode' = mode
    BY <1>2 DEF TimecodeNext, NextFrame, TimePasses
  <2> QED
    BY <1>2, <2>1 DEF ViewInv, Staged
<1>3. CASE Staged /\ mode' = mode /\ (WakeUp \/ Publish \/ Elapse \/ Render \/ Hide)
  <2>1. LAST \in Nat /\ local \in 0 .. LAST /\ local \in Nat /\ Readable(view)
    BY <1>3, PresentationAssumption DEF ViewInv
  <2>2. CASE WakeUp \/ Hide
    BY <2>1, <2>2 DEF WakeUp, Hide, ViewInv
  <2>3. CASE Publish
    BY <2>1, <2>3 DEF Publish, ViewInv, ReadableViews
  <2>4. CASE Elapse
    BY <2>1, <2>4 DEF Elapse, ViewInv
  <2>5. CASE Render
    <3>1. view' = TickCore(view, local) /\ local' = local
      BY <2>5 DEF Render, ReadForPresentation
    <3>2. Readable(view')
      BY <2>1, <3>1, TickedReading
    <3> QED
      BY <2>1, <3>1, <3>2 DEF ViewInv
  <2> QED
    BY <1>3, <2>2, <2>3, <2>4, <2>5
<1> QED
  BY <1>1, <1>2, <1>3 DEF PresentationNext, Staged, timecodeVars

(* Boundary.uncertainty: if the clock is wrong by no more than it claims,  *)
(* a boundary comes within the uncertainty it is given, for all views,     *)
(* corrections, rates and schedules.                                       *)
THEOREM PresentationUncertaintyCovers ==
  ASSUME ReadableViews
  PROVE  PresentationSpec => [](SurelyBegun => UncertaintyCovers)
<1>1. PresentationInit => ViewInv
  BY ViewInitially
<1>2. ViewInv /\ [PresentationNext]_presentationVars => ViewInv'
  BY ViewKeeps
<1>3. ViewInv /\ SurelyBegun => UncertaintyCovers
  <2>1. SUFFICES ASSUME ViewInv, SurelyBegun, Staged PROVE Covered(view, local)
    BY Zenon DEF UncertaintyCovers, Covered
  <2>2. LAST \in Nat /\ END \in Nat /\ LAST < END
    BY PresentationAssumption
  <2>3. local \in Nat /\ local < END /\ Readable(view) /\ view.unc \in Nat
    BY <2>1, <2>2 DEF ViewInv, Readable, IsCore
  <2>4. CASE ~Initialized(view)
    <3>1. NextBoundary(view, local) = NONE
      BY <2>4 DEF NextBoundary
    <3> QED
      BY <3>1, Zenon DEF Covered
  <2>5. CASE Initialized(view)
    <3>1. view.unc <= local + view.offset
      BY <2>1, <2>5 DEF SurelyBegun
    <3>2. ASSUME NEW e \in (-view.unc .. view.unc) \ {0}
          PROVE  LET b == NextBoundary(view, local)
                     d == NextBoundary([view EXCEPT !.offset = @ + e], local)
                 IN  b # NONE /\ d # NONE
                       /\ <<d.kind, d.pos, d.disc>> = <<b.kind, b.pos, b.disc>>
                       => Magnitude(d.at - b.at) <= b.unc
      <4> DEFINE b == NextBoundary(view, local)
                 g == [view EXCEPT !.offset = @ + e]
                 d == NextBoundary(g, local)
      <4>1. e \in Int /\ -view.unc <= e /\ e <= view.unc
        BY <2>3
      <4>2. SUFFICES ASSUME b # NONE, d # NONE, d.kind = b.kind, d.pos = b.pos,
                            d.disc = b.disc
                     PROVE  Magnitude(d.at - b.at) <= b.unc
        OBVIOUS
      <4> QED
        BY <2>3, <2>5, <3>1, <4>1, <4>2, NextCovered
    <3> QED
      BY <3>2, Zenon DEF Covered
  <2> QED
    BY <2>4, <2>5
<1> QED
  BY <1>1, <1>2, <1>3, PTL DEF PresentationSpec
=============================================================================
