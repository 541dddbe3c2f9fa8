---------------------------- MODULE HistoryProofs ---------------------------
(***************************************************************************)
(* Proofs about what works on stored candles: the models trained on them   *)
(* (WalkForward), the cache that serves them (CandleCache), and the        *)
(* calibration that replays them (AdaptiveRsi).                            *)
(*                                                                         *)
(* The three sort, or loop over, all they are given, so the lemmas come    *)
(* first: induction over the natural numbers, stated of a set so that it   *)
(* can be cited, and the facts about sorting by rank.                      *)
(***************************************************************************)
EXTENDS WalkForward, CandleCache, AdaptiveRsi, FiniteSetTheorems,
        WellFoundedInduction, TLAPS

-----------------------------------------------------------------------------
(* Induction *)

Less == {p \in Nat \X Nat : p[1] < p[2]}

LEMMA LessWellFounded == IsWellFoundedOn(Less, Nat)
<1>1. OpToRel(<, Nat) = Less
  BY Zenon DEF OpToRel, Less
<1>2. IsWellFoundedOn(OpToRel(<, Nat), Nat)
  BY NatLessThanWellFounded, Zenon
<1> QED
  BY <1>1, <1>2, Zenon

LEMMA LeastNatural ==
  ASSUME NEW T, T \subseteq Nat, T # {}
  PROVE  \E m \in T : \A k \in T : m <= k
<1>1. PICK m \in T : \A k \in T : ~(<<k, m>> \in Less)
  BY LessWellFounded, WFMin, Zenon
<1>2. \A k \in T : ~(k < m)
  BY <1>1 DEF Less
<1> QED
  BY <1>2

LEMMA NaturalInduction ==
  ASSUME NEW T, T \subseteq Nat, 0 \in T, \A n \in T : n + 1 \in T
  PROVE  T = Nat
<1> SUFFICES ASSUME Nat \ T # {} PROVE FALSE
  OBVIOUS
<1>1. PICK m \in Nat \ T : \A k \in Nat \ T : m <= k
  BY LeastNatural
<1>2. m # 0 /\ m - 1 \in Nat
  BY <1>1
<1>3. m - 1 \notin T
  BY <1>2
<1> QED
  BY <1>1, <1>2, <1>3

-----------------------------------------------------------------------------
(* Order *)

\* before says of each member of S which come before it, all in one line.
Line(S, before) ==
    /\ before \in [S -> SUBSET S]
    /\ \A x \in S : x \notin before[x]
    /\ \A x, y \in S : x # y => x \in before[y] \/ y \in before[x]
    /\ \A x, y \in S : x \in before[y] => before[x] \subseteq before[y]

\* Sorting by rank leaves nothing out, repeats nothing and keeps the order.
LEMMA RanksAreOrder ==
  ASSUME NEW S, IsFiniteSet(S), NEW before, Line(S, before),
         NEW s, s = ByRank(before)
  PROVE  /\ s \in Seq(S) /\ Len(s) = Cardinality(S)
         /\ DOMAIN s = 1..Len(s)
         /\ \A x \in S : \E k \in DOMAIN s : s[k] = x
         /\ \A j, k \in DOMAIN s : j < k => s[j] \in before[s[k]]
<1> DEFINE n == Cardinality(S)
           rank == [x \in S |-> Cardinality(before[x]) + 1]
<1>1. n \in Nat
  BY FS_CardinalityType
<1>2. \A x \in S : /\ IsFiniteSet(before[x]) /\ Cardinality(before[x]) \in Nat
                   /\ Cardinality(before[x]) < n
  <2> SUFFICES ASSUME NEW x \in S
               PROVE  /\ IsFiniteSet(before[x]) /\ Cardinality(before[x]) \in Nat
                      /\ Cardinality(before[x]) < n
    OBVIOUS
  <2>1. before[x] \in SUBSET S /\ before[x] # S
    BY DEF Line
  <2>2. /\ IsFiniteSet(before[x]) /\ Cardinality(before[x]) <= n
        /\ Cardinality(before[x]) # n
    BY <2>1, FS_Subset
  <2>3. Cardinality(before[x]) \in Nat
    BY <2>2, FS_CardinalityType
  <2> QED
    BY <1>1, <2>2, <2>3
<1>3. \A x, y \in S : x \in before[y] => Cardinality(before[x]) < Cardinality(before[y])
  <2> SUFFICES ASSUME NEW x \in S, NEW y \in S, x \in before[y]
               PROVE  Cardinality(before[x]) < Cardinality(before[y])
    OBVIOUS
  <2>1. before[x] \in SUBSET before[y] /\ before[x] # before[y]
    BY DEF Line
  <2>2. Cardinality(before[x]) <= Cardinality(before[y])
        /\ Cardinality(before[x]) # Cardinality(before[y])
    BY <1>2, <2>1, FS_Subset
  <2> QED
    BY <1>2, <2>2
<1>4. rank \in Injection(S, 1..n)
  <2>1. rank \in [S -> 1..n]
    BY <1>1, <1>2
  <2>2. \A x, y \in S : rank[x] = rank[y] => x = y
    <3> SUFFICES ASSUME NEW x \in S, NEW y \in S, x # y
                 PROVE  rank[x] # rank[y]
      OBVIOUS
    <3>1. x \in before[y] \/ y \in before[x]
      BY DEF Line
    <3> QED
      BY <1>2, <1>3, <3>1
  <2> HIDE DEF rank, n
  <2> QED
    BY <2>1, <2>2 DEF Injection, IsInjective
<1>5. \A k \in 1..n : \E x \in S : Cardinality(before[x]) = k - 1
  <2>1. IsFiniteSet(1..n) /\ Cardinality(1..n) = n
    <3>1. 1 \in Int /\ n \in Int /\ (IF 1 > n THEN 0 ELSE n - 1 + 1) = n
      BY <1>1
    <3> HIDE DEF n
    <3> QED
      BY <3>1, FS_Interval
  <2>2. rank \in Surjection(S, 1..n)
    <3> HIDE DEF rank
    <3> QED
      BY <1>4, <2>1, FS_Injection
  <2>3. \A k \in 1..n : \E x \in S : rank[x] = k
    <3> HIDE DEF rank, n
    <3> QED
      BY <2>2 DEF Surjection
  <2> QED
    BY <1>1, <1>2, <2>3
<1>6. /\ DOMAIN s = 1..n
      /\ \A k \in 1..n : s[k] \in S /\ Cardinality(before[s[k]]) = k - 1
  <2>1. DOMAIN before = S
    BY DEF Line
  <2>2. s = [k \in 1..n |-> CHOOSE x \in S : Cardinality(before[x]) = k - 1]
    BY <2>1 DEF ByRank
  <2> QED
    BY <1>5, <2>2
<1>7. s \in Seq(S) /\ Len(s) = n
  <2>1. s = [k \in 1..n |-> s[k]]
    BY <1>6 DEF ByRank
  <2> QED
    BY <1>1, <1>6, <2>1
<1>8. \A x \in S : \E k \in DOMAIN s : s[k] = x
  <2> SUFFICES ASSUME NEW x \in S PROVE \E k \in DOMAIN s : s[k] = x
    OBVIOUS
  <2> DEFINE k == Cardinality(before[x]) + 1
  <2>1. k \in 1..n
    BY <1>1, <1>2
  <2>2. Cardinality(before[s[k]]) = Cardinality(before[x]) /\ s[k] \in S
    BY <1>2, <1>6, <2>1
  <2>3. s[k] = x
    <3> SUFFICES ASSUME s[k] # x PROVE FALSE
      OBVIOUS
    <3>1. s[k] \in before[x] \/ x \in before[s[k]]
      BY <2>2 DEF Line
    <3> QED
      BY <1>2, <1>3, <2>2, <3>1
  <2> QED
    BY <1>6, <2>1, <2>3
<1>9. \A j, k \in DOMAIN s : j < k => s[j] \in before[s[k]]
  <2> SUFFICES ASSUME NEW j \in DOMAIN s, NEW k \in DOMAIN s, j < k
               PROVE  s[j] \in before[s[k]]
    OBVIOUS
  <2>1. /\ s[j] \in S /\ Cardinality(before[s[j]]) = j - 1
        /\ s[k] \in S /\ Cardinality(before[s[k]]) = k - 1
        /\ j \in Nat /\ k \in Nat
    BY <1>1, <1>6
  <2>2. s[j] # s[k] /\ s[k] \notin before[s[j]]
    BY <1>3, <2>1
  <2> QED
    BY <2>1, <2>2 DEF Line
<1> QED
  BY <1>6, <1>7, <1>8, <1>9

\* The same of numbers in their order.
LEMMA InOrderFacts ==
  ASSUME NEW S, S \subseteq Int, IsFiniteSet(S), NEW s, s = InOrder(S)
  PROVE  /\ s \in Seq(S) /\ Len(s) = Cardinality(S)
         /\ DOMAIN s = 1..Len(s)
         /\ \A x \in S : \E k \in DOMAIN s : s[k] = x
         /\ \A k \in DOMAIN s : s[k] \in S
         /\ \A j, k \in DOMAIN s : j < k => s[j] < s[k]
<1> DEFINE before == [x \in S |-> {y \in S : y < x}]
<1>2. s = ByRank(before)
  BY DEF InOrder
<1>3. before \in [S -> SUBSET S] /\ \A x \in S : before[x] = {y \in S : y < x}
  OBVIOUS
<1> HIDE DEF before
<1>1. Line(S, before)
  <2>1. \A x, y \in S : x # y => x \in before[y] \/ y \in before[x]
    BY <1>3
  <2>2. ASSUME NEW x \in S, NEW y \in S, x \in before[y], NEW z \in before[x]
        PROVE  z \in before[y]
    <3>1. z \in S /\ z < x /\ x < y /\ x \in Int /\ y \in Int /\ z \in Int
      BY <1>3, <2>2
    <3> QED
      BY <1>3, <3>1
  <2>3. \A x \in S : x \notin before[x]
    BY <1>3
  <2> QED
    BY <1>3, <2>1, <2>2, <2>3 DEF Line
<1>4. /\ s \in Seq(S) /\ Len(s) = Cardinality(S)
      /\ DOMAIN s = 1..Len(s)
      /\ \A x \in S : \E k \in DOMAIN s : s[k] = x
      /\ \A j, k \in DOMAIN s : j < k => s[j] \in before[s[k]]
  BY <1>1, <1>2, RanksAreOrder
<1>5. \A k \in DOMAIN s : s[k] \in S
  BY <1>4
<1> QED
  BY <1>3, <1>4, <1>5

LEMMA MaxOfFinite ==
  ASSUME NEW S, S \subseteq Int, IsFiniteSet(S), S # {}
  PROVE  Max(S) \in S /\ \A x \in S : x <= Max(S)
<1> DEFINE s == InOrder(S)
           n == Len(s)
<1>1. /\ s \in Seq(S) /\ DOMAIN s = 1..n
      /\ \A x \in S : \E k \in DOMAIN s : s[k] = x
      /\ \A k \in DOMAIN s : s[k] \in S
      /\ \A j, k \in DOMAIN s : j < k => s[j] < s[k]
  <2> HIDE DEF s
  <2> QED
    BY InOrderFacts DEF s
<1> HIDE DEF s
<1>2. n \in Nat /\ n # 0
  <2>1. n \in Nat
    BY <1>1
  <2>2. PICK k \in 1..n : TRUE
    BY <1>1
  <2> QED
    BY <2>1, <2>2
<1>3. s[n] \in S /\ \A x \in S : s[n] >= x
  <2>1. s[n] \in S /\ n \in DOMAIN s
    BY <1>1, <1>2
  <2>2. ASSUME NEW x \in S PROVE s[n] >= x
    <3>1. PICK k \in 1..n : s[k] = x
      BY <1>1
    <3>2. k < n => s[k] < s[n]
      BY <1>1, <2>1
    <3>3. s[n] \in Int /\ x \in Int
      BY <2>1
    <3> QED
      BY <1>2, <3>1, <3>2, <3>3
  <2> QED
    BY <2>1, <2>2
<1>4. \E m \in S : \A x \in S : m >= x
  BY <1>3
<1>5. Max(S) \in S /\ \A x \in S : Max(S) >= x
  BY <1>4 DEF Max
<1> QED
  BY <1>5

-----------------------------------------------------------------------------
(* Training *)

\* Until the samples are cut nothing is trained; from then on the file, the
\* samples and the runs of months stay as they were.
PreparedInv ==
    IF training = "reading"
    THEN models = <<>> /\ loaded = <<>>
    ELSE /\ Len(months) > Warm
         /\ samples = Aligned /\ splits = MonthlySplit(samples)
         /\ test \in Nat /\ test > TrainMonths

\* Whatever model is given is the nearest there is.
LoadedInv ==
    loaded # <<>> =>
        /\ training = "trained" /\ loaded.asked \in Int
        /\ (\E m \in DOMAIN models : m <= loaded.asked) =>
               loaded.given \in DOMAIN models /\ loaded.given <= loaded.asked

\* The samples a model was fitted to are of the file, and of its past.
OfTheFile(sampled) ==
    \A s \in sampled : {s.feature, s.label.from, s.label.to} \subseteq DOMAIN months

PastInv ==
    Chronological(months) =>
        \A m \in DOMAIN models : OfTheFile(models[m]) /\ SeenBefore(m, models[m])

TrainingInv ==
    /\ training \in {"reading", "training", "trained"}
    /\ months \in Seq(Months)
    /\ DOMAIN models \subseteq Months /\ IsFiniteSet(DOMAIN models)
    /\ PreparedInv /\ LoadedInv /\ PastInv

\* A sample is of the candle it describes, and its label looks no further.
LEMMA AlignedFacts ==
  ASSUME months \in Seq(Months), Len(months) > Warm, NEW s, s = Aligned
  PROVE  /\ s \in Seq([feature : Int, label : [from : Int, to : Int], month : Months])
         /\ DOMAIN s = 1..Len(s) /\ Len(s) = Len(months) - Warm
         /\ \A i \in DOMAIN s :
                /\ s[i].feature = Warm + i /\ s[i].month = months[Warm + i]
                /\ s[i].label.from = Warm - Horizon + i /\ s[i].label.to = Warm + i
<1> DEFINE len == Len(months)
           n == len - Warm
<1>1. /\ len \in Nat /\ Warm \in Nat /\ Horizon \in Nat \ {0} /\ Horizon <= Warm
      /\ n \in Nat /\ \A i \in 1..len : months[i] \in Months
  BY TrainingAssumption
<1>2. DOMAIN Features = 1..n /\ Len(Features) = n /\ \A i \in 1..n : Features[i] = Warm + i
  BY <1>1 DEF Features
<1>3. \A i \in 1..len - Horizon : Labels[i] = [from |-> i, to |-> i + Horizon]
  BY DEF Labels
<1>4. len - Len(Features) - Horizon = Warm - Horizon
  BY <1>1, <1>2
<1>5. s = [i \in 1..n |-> [feature |-> Features[i], label |-> Labels[Warm - Horizon + i],
                         month |-> months[Warm - Horizon + Horizon + i]]]
  BY <1>2, <1>4 DEF Aligned
<1>6. \A i \in 1..n : /\ Warm - Horizon + i \in 1..len - Horizon
                      /\ Warm - Horizon + Horizon + i = Warm + i
                      /\ Warm + i \in 1..len
                      /\ Warm - Horizon + i + Horizon = Warm + i
  BY <1>1
<1>7. s = [i \in 1..n |-> [feature |-> Warm + i,
                         label |-> [from |-> Warm - Horizon + i, to |-> Warm + i],
                         month |-> months[Warm + i]]]
  <2> HIDE DEF n, len
  <2>1. \A i \in 1..n : Labels[Warm - Horizon + i]
                          = [from |-> Warm - Horizon + i, to |-> Warm + i]
    BY <1>3, <1>6
  <2> QED
    BY <1>2, <1>5, <1>6, <2>1
<1>8. DOMAIN s = 1..n /\ Len(s) = n /\ s \in Seq([feature : Int, label : [from : Int, to : Int], month : Months])
  <2>1. \A i \in 1..n : [feature |-> Warm + i,
                         label |-> [from |-> Warm - Horizon + i, to |-> Warm + i],
                         month |-> months[Warm + i]]
                    \in [feature : Int, label : [from : Int, to : Int], month : Months]
    BY <1>1, <1>6
  <2> HIDE DEF n, len
  <2> QED
    BY <1>1, <1>7, <2>1
<1>9. \A i \in 1..n : /\ s[i].feature = Warm + i /\ s[i].month = months[Warm + i]
                      /\ s[i].label.from = Warm - Horizon + i
                      /\ s[i].label.to = Warm + i
  BY <1>7
<1> QED
  BY <1>8, <1>9

\* The runs of _monthly_split begin where the month changes.
RunsOf(p, s) ==
    /\ p.labels = [k \in 1..Len(p.labels) |-> s[p.starts[k]].month]
    /\ Len(p.labels) \in Nat
    /\ \A k \in 1..Len(p.labels) :
           /\ p.starts[k] \in 1..Len(s)
           /\ p.starts[k] = 1 \/ s[p.starts[k]].month # s[p.starts[k] - 1].month
    /\ \A j, k \in 1..Len(p.labels) : j < k => p.starts[j] < p.starts[k]

LEMMA SplitFacts ==
  ASSUME NEW S, NEW s \in Seq(S), NEW p, p = MonthlySplit(s)
  PROVE  RunsOf(p, s)
<1> DEFINE changes == {i \in DOMAIN s : i = 1 \/ s[i].month # s[i - 1].month}
           starts == InOrder(changes)
           n == Len(starts)
<1>1. changes \subseteq Int /\ IsFiniteSet(changes) /\ \A i \in changes : i \in 1..Len(s)
  <2>1. DOMAIN s = 1..Len(s) /\ IsFiniteSet(1..Len(s))
    BY FS_Interval
  <2>2. changes \in SUBSET (1..Len(s))
    BY <2>1
  <2> QED
    BY <2>1, <2>2, FS_Subset
<1>2. /\ starts \in Seq(changes) /\ DOMAIN starts = 1..n
      /\ \A k \in DOMAIN starts : starts[k] \in changes
      /\ \A j, k \in DOMAIN starts : j < k => starts[j] < starts[k]
  <2> HIDE DEF changes, starts
  <2> QED
    BY <1>1, InOrderFacts DEF starts
<1>3. p = [starts |-> Append(starts, Len(s) + 1),
           labels |-> [k \in DOMAIN starts |-> s[starts[k]].month]]
  BY DEF MonthlySplit
<1>4. \A i \in changes : i = 1 \/ s[i].month # s[i - 1].month
  OBVIOUS
<1> HIDE DEF changes, starts
<1>5. n \in Nat /\ \A k \in 1..n : p.starts[k] = starts[k]
  BY <1>2, <1>3
<1>6. p.labels = [k \in 1..n |-> s[starts[k]].month]
  BY <1>2, <1>3
<1>7. Len(p.labels) = n
  BY <1>5, <1>6
<1>8. p.labels = [k \in 1..n |-> s[p.starts[k]].month]
  BY <1>5, <1>6
<1>9. \A k \in 1..n : p.starts[k] \in changes
  BY <1>2, <1>5
<1>10. \A j, k \in 1..n : j < k => p.starts[j] < p.starts[k]
  BY <1>2, <1>5
<1> QED
  BY <1>1, <1>4, <1>5, <1>7, <1>8, <1>9, <1>10 DEF RunsOf

\* The samples of the runs before a month are of months before it, labels too.
LEMMA TrainedBefore ==
  ASSUME TrainingInv, training = "training", Chronological(months),
         test \in 1..Len(splits.labels),
         NEW train, train = Run(test - TrainMonths, test)
  PROVE  OfTheFile(ToSet(train)) /\ SeenBefore(splits.labels[test], ToSet(train))
<1> DEFINE first == splits.starts[test - TrainMonths]
           start == splits.starts[test]
           m == splits.labels[test]
<1>1. /\ Len(months) > Warm /\ samples = Aligned /\ splits = MonthlySplit(samples)
      /\ test \in Nat /\ test > TrainMonths /\ months \in Seq(Months)
      /\ TrainMonths \in Nat \ {0} /\ Warm \in Nat /\ Horizon \in Nat \ {0} /\ Horizon <= Warm
  BY TrainingAssumption DEF TrainingInv, PreparedInv
<1>2. PICK S : /\ samples \in Seq(S) /\ DOMAIN samples = 1..Len(samples)
               /\ Len(samples) = Len(months) - Warm
               /\ \A i \in DOMAIN samples :
                      /\ samples[i].feature = Warm + i /\ samples[i].month = months[Warm + i]
                      /\ samples[i].label.from = Warm - Horizon + i
                      /\ samples[i].label.to = Warm + i
  BY <1>1, AlignedFacts
<1>3. RunsOf(splits, samples)
  <2>1. samples \in Seq(S) /\ splits = MonthlySplit(samples)
    BY <1>1, <1>2
  <2> QED
    BY <2>1, SplitFacts
<1>4. test - TrainMonths \in 1..Len(splits.labels) /\ test - TrainMonths < test
  BY <1>1, <1>3 DEF RunsOf
<1>5. /\ first \in 1..Len(samples) /\ start \in 1..Len(samples) /\ first < start
      /\ samples[start].month # samples[start - 1].month
      /\ m = samples[start].month
  BY <1>3, <1>4 DEF RunsOf
<1> HIDE DEF first, start, m
<1>6. \A i \in 1..Len(months) : months[i] \in Int
  <2>1. months \in Seq(Months) /\ Months \subseteq Int
    BY <1>1, TrainingAssumption
  <2>2. \A i \in 1..Len(months) : months[i] \in Months
    BY <2>1
  <2> QED
    BY <2>1, <2>2
<1>7. m = months[Warm + start] /\ months[Warm + start - 1] < m /\ m \in Int
  <2>1. start \in DOMAIN samples /\ start - 1 \in DOMAIN samples
    BY <1>2, <1>5
  <2>2. m = months[Warm + start] /\ months[Warm + (start - 1)] # m
    BY <1>2, <1>5, <2>1
  <2>3. /\ Warm + start - 1 = Warm + (start - 1)
        /\ Warm + start \in 1..Len(months) /\ Warm + start - 1 \in 1..Len(months)
        /\ Warm + start - 1 <= Warm + start
    <3>1. start \in 1..Len(months) - Warm /\ start - 1 \in 1..Len(months) - Warm
      BY <1>2, <2>1
    <3>2. Warm \in Nat /\ Len(months) \in Nat /\ start \in Int
      BY <1>1, <1>5
    <3> QED
      BY <3>1, <3>2
  <2>4. months[Warm + start - 1] <= months[Warm + start]
    BY <1>1, <2>3 DEF Chronological
  <2> QED
    BY <1>6, <2>2, <2>3, <2>4
<1>8. \A i \in 1..Warm + start - 1 : months[i] < m
  <2> SUFFICES ASSUME NEW i \in 1..Warm + start - 1 PROVE months[i] < m
    OBVIOUS
  <2>1. /\ i \in 1..Len(months) /\ Warm + start - 1 \in 1..Len(months)
        /\ i <= Warm + start - 1
    BY <1>1, <1>2, <1>5
  <2>2. months[i] <= months[Warm + start - 1]
    BY <1>1, <2>1 DEF Chronological
  <2> QED
    BY <1>6, <1>7, <2>1, <2>2
<1>9. \A x \in ToSet(train) : \E j \in first..start - 1 : x = samples[j]
  <2>1. train = SubSeq(samples, first, start - 1)
    BY DEF Run, first, start
  <2>2. /\ DOMAIN train = 1..start - first
        /\ \A k \in DOMAIN train : train[k] = samples[first + k - 1]
    BY <1>2, <1>5, <2>1
  <2>3. first \in Int /\ start \in Int
    BY <1>2, <1>5
  <2>4. ASSUME NEW k \in DOMAIN train
        PROVE  first + k - 1 \in first..start - 1 /\ train[k] = samples[first + k - 1]
    <3>1. k \in 1..start - first
      BY <2>2
    <3> QED
      BY <2>2, <2>3, <3>1
  <2> QED
    BY <2>4 DEF ToSet
<1>10. ASSUME NEW x \in ToSet(train)
       PROVE  /\ {x.feature, x.label.from, x.label.to} \subseteq DOMAIN months
              /\ months[x.feature] < m /\ months[x.label.from] < m /\ months[x.label.to] < m
  <2>1. PICK j \in first..start - 1 : x = samples[j]
    BY <1>9
  <2>2. /\ j \in DOMAIN samples
        /\ Warm + j \in 1..Warm + start - 1
        /\ Warm - Horizon + j \in 1..Warm + start - 1
    <3>1. first \in Nat \ {0} /\ start \in Nat /\ start <= Len(samples) /\ Len(samples) \in Nat
      BY <1>2, <1>5
    <3>2. j \in Nat \ {0} /\ j <= start - 1
      BY <2>1, <3>1
    <3> QED
      BY <1>1, <1>2, <3>1, <3>2
  <2>3. 1..Warm + start - 1 \subseteq DOMAIN months
    BY <1>1, <1>2, <1>5
  <2> QED
    BY <1>2, <1>8, <2>1, <2>2, <2>3
<1> QED
  BY <1>10 DEF SeenBefore, OfTheFile, m

LEMMA TrainingInit0 == TrainingInit => TrainingInv
<1> SUFFICES ASSUME TrainingInit PROVE TrainingInv
  OBVIOUS
<1>1. DOMAIN models = {}
  BY DEF TrainingInit
<1> QED
  BY <1>1, FS_EmptySet DEF TrainingInit, TrainingInv, PreparedInv, LoadedInv, PastInv

\* With the file, the samples are what they were, and the models as good.
LEMMA FileKept ==
  ASSUME UNCHANGED months
  PROVE  Aligned' = Aligned
  BY DEF Aligned, Features, Labels

LEMMA PastKept ==
  ASSUME UNCHANGED months,
         Chronological(months) =>
             \A m \in DOMAIN models' :
                 OfTheFile(models'[m]) /\ SeenBefore(m, models'[m])
  PROVE  PastInv'
  BY DEF PastInv, Chronological, OfTheFile, SeenBefore

LEMMA NearestIsBefore ==
  ASSUME TrainingInv, NEW m \in Int, \E k \in DOMAIN models : k <= m
  PROVE  Nearest(m) \in DOMAIN models /\ Nearest(m) <= m
<1> DEFINE earlier == {k \in DOMAIN models : k <= m}
<1>1. earlier # {} /\ Nearest(m) = Max(earlier)
  BY DEF Nearest
<1>2. earlier \subseteq Int /\ IsFiniteSet(earlier)
  <2>1. earlier \in SUBSET DOMAIN models /\ Months \subseteq Int
    BY TrainingAssumption
  <2> QED
    BY <2>1, FS_Subset DEF TrainingInv
<1>3. \A k \in earlier : k \in DOMAIN models /\ k <= m
  OBVIOUS
<1> HIDE DEF earlier
<1>4. Max(earlier) \in earlier
  BY <1>1, <1>2, MaxOfFinite
<1> QED
  BY <1>1, <1>3, <1>4

LEMMA TrainNextKeeps ==
  ASSUME TrainingInv, TrainNext
  PROVE  TrainingInv'
<1> DEFINE train == Run(test - TrainMonths, test)
           m == splits.labels[test]
<1>1. /\ training = "training" /\ test \in Nat /\ test > TrainMonths
      /\ test \in 1..Len(splits.labels) /\ test' = test + 1
      /\ UNCHANGED <<training, months, samples, splits, loaded>>
      /\ Len(months) > Warm /\ samples = Aligned /\ splits = MonthlySplit(samples)
  <2>1. /\ training = "training" /\ test \in Nat /\ test > TrainMonths
        /\ test <= Len(splits.labels) /\ test' = test + 1
        /\ UNCHANGED <<training, months, samples, splits, loaded>>
        /\ Len(months) > Warm /\ samples = Aligned /\ splits = MonthlySplit(samples)
    BY DEF TrainNext, TrainingInv, PreparedInv
  <2>2. PICK S : samples \in Seq(S)
    BY <2>1, AlignedFacts DEF TrainingInv
  <2>3. Len(splits.labels) \in Nat
    BY <2>1, <2>2, SplitFacts DEF RunsOf
  <2> QED
    BY <2>1, <2>3, TrainingAssumption
<1>2. models' = models \/ models' = WithModel(m, ToSet(train))
  BY DEF TrainNext
<1>3. PreparedInv'
  <2>1. Aligned' = Aligned
    BY <1>1, FileKept
  <2>2. samples' = Aligned' /\ splits' = MonthlySplit(samples')
    BY <1>1, <2>1
  <2>3. training' # "reading" /\ Len(months') > Warm
    BY <1>1
  <2>4. test' \in Nat /\ test' > TrainMonths
    BY <1>1, TrainingAssumption
  <2> QED
    BY <2>2, <2>3, <2>4 DEF PreparedInv, MonthlySplit
<1>4. m \in Months
  <2>1. PICK S : S = [feature : Int, label : [from : Int, to : Int], month : Months]
    OBVIOUS
  <2>2. samples \in Seq(S)
    BY <1>1, <2>1, AlignedFacts DEF TrainingInv
  <2>3. RunsOf(splits, samples)
    BY <1>1, <2>2, SplitFacts
  <2>4. splits.starts[test] \in 1..Len(samples) /\ m = samples[splits.starts[test]].month
    BY <1>1, <2>3 DEF RunsOf
  <2>5. samples[splits.starts[test]] \in S
    BY <2>2, <2>4
  <2> QED
    BY <2>1, <2>4, <2>5
<1>5. LoadedInv'
  <2>1. loaded = <<>>
    BY <1>1 DEF TrainingInv, LoadedInv
  <2> QED
    BY <1>1, <2>1 DEF LoadedInv
<1>6. Chronological(months) => OfTheFile(ToSet(train)) /\ SeenBefore(m, ToSet(train))
  <2> SUFFICES ASSUME Chronological(months)
               PROVE  OfTheFile(ToSet(train)) /\ SeenBefore(m, ToSet(train))
    OBVIOUS
  <2> HIDE DEF train
  <2>1. train = Run(test - TrainMonths, test)
    BY DEF train
  <2> QED
    BY <1>1, <2>1, TrainedBefore
<1> HIDE DEF train, m
<1>7. /\ DOMAIN models' \subseteq Months /\ IsFiniteSet(DOMAIN models')
      /\ Chronological(months) =>
             \A k \in DOMAIN models' :
                 OfTheFile(models'[k]) /\ SeenBefore(k, models'[k])
  <2>1. CASE models' = models
    BY <2>1 DEF TrainingInv, PastInv
  <2>2. CASE models' = WithModel(m, ToSet(train))
    <3>1. DOMAIN models' = DOMAIN models \cup {m}
          /\ \A k \in DOMAIN models' : models'[k] = IF k = m THEN ToSet(train) ELSE models[k]
      BY <2>2 DEF WithModel
    <3>2. IsFiniteSet(DOMAIN models \cup {m})
      BY FS_AddElement DEF TrainingInv
    <3> QED
      BY <1>4, <1>6, <3>1, <3>2 DEF TrainingInv, PastInv
  <2> QED
    BY <1>2, <2>1, <2>2
<1>8. PastInv'
  BY <1>1, <1>7, PastKept
<1> QED
  BY <1>1, <1>3, <1>5, <1>7, <1>8 DEF TrainingInv

LEMMA TrainingStep == TrainingInv /\ [TrainingNext]_trainingVars => TrainingInv'
<1> SUFFICES ASSUME TrainingInv, [TrainingNext]_trainingVars PROVE TrainingInv'
  OBVIOUS
<1> USE TrainingAssumption
<1>1. ASSUME NEW m \in Months, ReadCandle(m) PROVE TrainingInv'
  <2>1. /\ training = "reading" /\ models = <<>> /\ loaded = <<>>
        /\ UNCHANGED <<training, models, loaded>>
    BY <1>1 DEF ReadCandle, TrainingInv, PreparedInv
  <2>2. months' \in Seq(Months)
    BY <1>1 DEF ReadCandle, TrainingInv
  <2>3. DOMAIN models' = {}
    BY <2>1
  <2> QED
    BY <2>1, <2>2, <2>3, FS_EmptySet DEF TrainingInv, PreparedInv, LoadedInv, PastInv
<1>2. ASSUME NEW m \in Months, LoadModel(m) PROVE TrainingInv'
  <2>1. /\ training = "trained"
        /\ loaded' = [asked |-> m, given |-> IF m \in DOMAIN models THEN m ELSE Nearest(m)]
        /\ UNCHANGED <<training, months, samples, splits, test, models>>
    BY <1>2 DEF LoadModel
  <2>2. m \in Int
    OBVIOUS
  <2>3. LoadedInv'
    <3>1. loaded'.asked = m /\ loaded'.given = IF m \in DOMAIN models THEN m ELSE Nearest(m)
      BY <2>1
    <3>2. (\E k \in DOMAIN models : k <= m) => loaded'.given \in DOMAIN models /\ loaded'.given <= m
      BY <2>2, <3>1, NearestIsBefore
    <3> QED
      BY <2>1, <2>2, <3>1, <3>2 DEF LoadedInv
  <2>4. PreparedInv'
    BY <2>1, FileKept DEF TrainingInv, PreparedInv, MonthlySplit
  <2>5. PastInv'
    BY <2>1, PastKept DEF TrainingInv, PastInv
  <2> QED
    BY <2>1, <2>3, <2>4, <2>5 DEF TrainingInv
<1>3. CASE Prepare
  <2>1. /\ training = "reading" /\ training' = "training"
        /\ models = <<>> /\ loaded = <<>> /\ UNCHANGED <<months, models, loaded>>
        /\ Len(months) > Warm /\ samples' = Aligned /\ splits' = MonthlySplit(samples')
        /\ test' = TrainMonths + 1
    BY <1>3 DEF Prepare, TrainingInv, PreparedInv
  <2>2. DOMAIN models' = {}
    BY <2>1
  <2>3. PreparedInv'
    BY <2>1, FileKept DEF PreparedInv, MonthlySplit
  <2> QED
    BY <2>1, <2>2, <2>3, FS_EmptySet DEF TrainingInv, LoadedInv, PastInv
<1>4. CASE TrainNext
  BY <1>4, TrainNextKeeps
<1>5. CASE TrainDone \/ UNCHANGED trainingVars
  <2>1. /\ UNCHANGED <<months, samples, splits, test, models, loaded>>
        /\ training' = training \/ (training = "training" /\ training' = "trained")
    BY <1>5 DEF TrainDone, trainingVars
  <2>2. PreparedInv'
    BY <2>1, FileKept DEF TrainingInv, PreparedInv, MonthlySplit
  <2>3. LoadedInv'
    BY <2>1 DEF TrainingInv, LoadedInv
  <2>4. PastInv'
    BY <2>1, PastKept DEF TrainingInv, PastInv
  <2> QED
    BY <2>1, <2>2, <2>3, <2>4 DEF TrainingInv
<1> QED
  BY <1>1, <1>2, <1>3, <1>4, <1>5 DEF TrainingNext

\* The invariant of the training holds in every reachable state of train.py.
THEOREM TrainingInvariant == TrainingSpec => []TrainingInv
  BY TrainingInit0, TrainingStep, PTL DEF TrainingSpec

\* A model has seen nothing of the month it is named after, nor the one given
\* of the month asked for, however the months lie in the file and whatever the
\* horizon, the warm-up and the months trained on.
THEOREM NothingOfTheFuture == TrainingSpec => []TrainedOnThePast
<1>1. TrainingInv => TrainedOnThePast
  <2> SUFFICES ASSUME TrainingInv, Chronological(months), loaded # <<>>,
                      \E m \in DOMAIN models : m <= loaded.asked
               PROVE  SeenBefore(loaded.asked, models[loaded.given])
    BY DEF TrainingInv, PastInv, TrainedOnThePast
  <2>1. loaded.given \in DOMAIN models /\ loaded.given <= loaded.asked
    BY DEF TrainingInv, LoadedInv
  <2>2. OfTheFile(models[loaded.given]) /\ SeenBefore(loaded.given, models[loaded.given])
    BY <2>1 DEF TrainingInv, PastInv
  <2>3. loaded.given \in Int /\ loaded.asked \in Int /\ \A i \in DOMAIN months : months[i] \in Months
    BY <2>1, TrainingAssumption DEF TrainingInv, LoadedInv
  <2>4. \A i \in DOMAIN months : months[i] < loaded.given => months[i] < loaded.asked
    <3>1. \A i \in DOMAIN months : months[i] \in Int
      <4>1. Months \subseteq Int
        BY TrainingAssumption
      <4> QED
        BY <2>3, <4>1
    <3> QED
      BY <2>1, <2>3, <3>1
  <2> QED
    BY <2>2, <2>4 DEF SeenBefore, OfTheFile
<1> QED
  BY <1>1, TrainingInvariant, PTL

-----------------------------------------------------------------------------
(* Lines of a file *)

FileLine == [time : Int, whole : BOOLEAN]

\* A line gives a candle of a positive time, and no other line has its time,
\* except one past every date.
Sound(rs) ==
    /\ rs \in Seq(FileLine)
    /\ \A i \in DOMAIN rs : rs[i].whole => rs[i].time \in 1..Beyond
    /\ \A i, j \in DOMAIN rs :
           rs[i].whole /\ rs[i].time = rs[j].time => i = j \/ rs[i].time = Beyond

Rising(ts) == \A j, k \in DOMAIN ts : j < k => ts[j] < ts[k]

LEMMA ConcatFacts ==
  ASSUME NEW S, NEW s \in Seq(S), NEW t \in Seq(S), NEW u, u = s \o t
  PROVE  /\ u \in Seq(S) /\ DOMAIN u = 1..Len(s) + Len(t)
         /\ \A i \in 1..Len(s) : u[i] = s[i]
         /\ \A k \in 1..Len(t) : u[Len(s) + k] = t[k]
  OBVIOUS

LEMMA MemberOf ==
  ASSUME NEW S, NEW s \in Seq(S), NEW i \in DOMAIN s
  PROVE  s[i] \in S
  OBVIOUS

LEMMA SeqWithin ==
  ASSUME NEW S, NEW T, S \subseteq T, NEW s \in Seq(S)
  PROVE  s \in Seq(T)
<1>1. Len(s) \in Nat /\ s = [k \in 1..Len(s) |-> s[k]] /\ \A k \in 1..Len(s) : s[k] \in T
  OBVIOUS
<1> QED
  BY <1>1

LEMMA RangeFinite ==
  ASSUME NEW S, NEW s \in Seq(S)
  PROVE  IsFiniteSet(Range(s)) /\ Range(s) \subseteq S
<1>1. s \in [1..Len(s) -> Range(s)] /\ \A x \in Range(s) : \E i \in 1..Len(s) : s[i] = x
  BY DEF Range
<1>2. s \in Surjection(1..Len(s), Range(s))
  BY <1>1 DEF Surjection
<1>3. IsFiniteSet(1..Len(s))
  <2>1. Len(s) \in Int
    OBVIOUS
  <2> QED
    BY <2>1, FS_Interval
<1> QED
  BY <1>2, <1>3, FS_Surjection DEF Range

LEMMA LineFacts ==
  ASSUME NEW rs \in Seq(FileLine)
  PROVE  /\ DOMAIN rs = 1..Len(rs) /\ Len(rs) \in Nat
         /\ \A i \in DOMAIN rs : /\ rs[i] \in FileLine /\ rs[i].time \in Int
                                 /\ rs[i].whole \in BOOLEAN
<1>1. DOMAIN rs = 1..Len(rs) /\ Len(rs) \in Nat /\ \A i \in DOMAIN rs : rs[i] \in FileLine
  OBVIOUS
<1>2. \A r \in FileLine : r.time \in Int /\ r.whole \in BOOLEAN
  BY DEF FileLine
<1> QED
  BY <1>1, <1>2

LEMMA TimesFinite ==
  ASSUME NEW rs \in Seq(FileLine)
  PROVE  TimesOf(rs) \subseteq Int /\ IsFiniteSet(TimesOf(rs))
<1> DEFINE ts == [i \in 1..Len(rs) |-> rs[i].time]
<1>1. ts \in Seq(Int) /\ Range(ts) = TimesOf(rs)
  BY LineFacts DEF TimesOf, Range
<1> HIDE DEF ts
<1> QED
  BY <1>1, RangeFinite

LEMMA EmptyLines == Sound(<<>>) /\ TimesOf(<<>>) = {} /\ DOMAIN <<>> = {}
  BY DEF Sound, TimesOf

LEMMA NewLines ==
  ASSUME NEW t \in Int
  PROVE  /\ Row(t) \in FileLine /\ Row(t).time = t /\ Row(t).whole = TRUE
         /\ Piece(t) \in FileLine /\ Piece(t).time = t /\ Piece(t).whole = FALSE
  BY DEF Row, Piece, FileLine

\* A line is added that gives a candle the file does not have, or none.
LEMMA LineAdded ==
  ASSUME NEW rs, Sound(rs), NEW line \in FileLine,
         line.whole => line.time \in 1..Beyond /\ line.time \notin TimesOf(rs),
         \A i \in DOMAIN rs : rs[i].whole => rs[i].time # line.time \/ rs[i].time = Beyond,
         NEW out, out = Append(rs, line)
  PROVE  /\ Sound(out) /\ TimesOf(out) = TimesOf(rs) \cup {line.time} /\ out # <<>>
<1>1. /\ DOMAIN rs = 1..Len(rs) /\ Len(rs) \in Nat /\ rs \in Seq(FileLine)
      /\ \A i \in DOMAIN rs : /\ rs[i] \in FileLine /\ rs[i].time \in Int
                              /\ rs[i].whole \in BOOLEAN
  BY LineFacts DEF Sound
<1> DEFINE n == Len(rs)
<1>2. /\ out \in Seq(FileLine) /\ DOMAIN out = 1..n + 1
      /\ \A i \in 1..n : out[i] = rs[i]
      /\ out[n + 1] = line
  BY <1>1
<1>3. \A i \in 1..n + 1 : i \in 1..n \/ i = n + 1
  BY <1>1
<1>4. n + 1 \in 1..n + 1 /\ 1..n \subseteq 1..n + 1 /\ DOMAIN rs = 1..n
  BY <1>1
<1> HIDE DEF n
<1>5. TimesOf(out) = TimesOf(rs) \cup {line.time}
  BY <1>2, <1>3, <1>4 DEF TimesOf
<1>6. \A i \in DOMAIN out : out[i].whole => out[i].time \in 1..Beyond
  BY <1>2, <1>3, <1>4 DEF Sound
<1>7. ASSUME NEW i \in DOMAIN out, NEW j \in DOMAIN out,
             out[i].whole, out[i].time = out[j].time
      PROVE  i = j \/ out[i].time = Beyond
  <2>1. CASE i \in 1..n /\ j \in 1..n
    BY <1>2, <1>4, <1>7, <2>1 DEF Sound
  <2>2. CASE i \in 1..n /\ j = n + 1
    BY <1>2, <1>4, <1>7, <2>2
  <2>3. CASE i = n + 1 /\ j \in 1..n
    <3>1. line.time = rs[j].time /\ line.whole /\ j \in DOMAIN rs
      BY <1>2, <1>4, <1>7, <2>3
    <3> QED
      BY <3>1 DEF TimesOf
  <2> QED
    BY <1>2, <1>3, <2>1, <2>2, <2>3
<1> QED
  BY <1>2, <1>4, <1>5, <1>6, <1>7 DEF Sound

\* Rows are added in the order of their times, none of which the file has.
LEMMA RowsAdded ==
  ASSUME CacheAssumption, NEW rs, Sound(rs), NEW ts \in Seq(1..Beyond), Rising(ts),
         \A k \in DOMAIN ts : ts[k] \notin TimesOf(rs),
         NEW out, out = rs \o Rows(ts)
  PROVE  Sound(out) /\ TimesOf(out) = TimesOf(rs) \cup Range(ts)
<1>1. /\ DOMAIN rs = 1..Len(rs) /\ Len(rs) \in Nat /\ rs \in Seq(FileLine)
      /\ \A i \in DOMAIN rs : /\ rs[i] \in FileLine /\ rs[i].time \in Int
                              /\ rs[i].whole \in BOOLEAN
  BY LineFacts DEF Sound
<1> DEFINE n == Len(rs)
           d == Len(ts)
           new == Rows(ts)
<1>2. d \in Nat /\ DOMAIN ts = 1..d /\ \A k \in 1..d : ts[k] \in 1..Beyond
  OBVIOUS
<1>3. \A k \in 1..d : ts[k] \in Int
  BY <1>2, CacheAssumption DEF CacheAssumption
<1>4. /\ new \in Seq(FileLine) /\ Len(new) = d
      /\ \A k \in 1..d : new[k] = Row(ts[k])
  <2>1. new = [k \in 1..d |-> Row(ts[k])]
    BY <1>2 DEF Rows
  <2>2. \A k \in 1..d : Row(ts[k]) \in FileLine
    BY <1>3, NewLines
  <2> HIDE DEF d, new
  <2> QED
    BY <1>2, <2>1, <2>2
<1>5. out = rs \o new
  OBVIOUS
<1> HIDE DEF new
<1>6. /\ out \in Seq(FileLine) /\ DOMAIN out = 1..n + d
      /\ \A i \in 1..n : out[i] = rs[i]
      /\ \A k \in 1..d : out[n + k] = Row(ts[k])
  <2>1. /\ out \in Seq(FileLine) /\ DOMAIN out = 1..Len(rs) + Len(new)
        /\ \A i \in 1..Len(rs) : out[i] = rs[i]
        /\ \A k \in 1..Len(new) : out[Len(rs) + k] = new[k]
    <3>1. rs \in Seq(FileLine) /\ new \in Seq(FileLine) /\ out = rs \o new
      BY <1>1, <1>4, <1>5
    <3> QED
      BY <3>1, ConcatFacts
  <2> QED
    BY <1>4, <2>1
<1>7. \A i \in 1..n + d : i \in 1..n \/ \E k \in 1..d : i = n + k
  <2> SUFFICES ASSUME NEW i \in 1..n + d, i \notin 1..n
               PROVE  i - n \in 1..d /\ i = n + (i - n)
    BY Zenon
  <2> QED
    BY <1>1, <1>2
<1>8. /\ DOMAIN rs = 1..n /\ \A i \in 1..n : i \in 1..n + d
      /\ \A k \in 1..d : n + k \in 1..n + d
  BY <1>1, <1>2
<1> HIDE DEF n, d
<1>9. \A k \in 1..d : /\ out[n + k].time = ts[k] /\ out[n + k].whole = TRUE
                     /\ ts[k] \in Range(ts) /\ ts[k] \notin TimesOf(rs)
  <2>1. \A k \in 1..d : out[n + k].time = ts[k] /\ out[n + k].whole = TRUE
    <3> SUFFICES ASSUME NEW k \in 1..d
                 PROVE  out[n + k].time = ts[k] /\ out[n + k].whole = TRUE
      OBVIOUS
    <3>1. Row(ts[k]).time = ts[k] /\ Row(ts[k]).whole = TRUE
      BY <1>3, NewLines
    <3> QED
      BY <1>6, <3>1
  <2>2. \A k \in 1..d : ts[k] \in Range(ts)
    BY <1>2 DEF Range
  <2> QED
    BY <1>2, <2>1, <2>2
<1>10. \A i \in 1..n : out[i].time \in TimesOf(rs)
  BY <1>6, <1>8 DEF TimesOf
<1>11. TimesOf(out) = TimesOf(rs) \cup Range(ts)
  <2>1. ASSUME NEW i \in DOMAIN out PROVE out[i].time \in TimesOf(rs) \cup Range(ts)
    <3>1. i \in 1..n \/ \E k \in 1..d : i = n + k
      BY <1>6, <1>7
    <3> QED
      BY ZenonT(60), <1>9, <1>10, <3>1
  <2>2. \A i \in DOMAIN rs : rs[i].time \in TimesOf(out)
    BY <1>6, <1>8 DEF TimesOf
  <2>3. \A k \in DOMAIN ts : ts[k] \in TimesOf(out)
    BY <1>2, <1>6, <1>8, <1>9 DEF TimesOf
  <2>4. TimesOf(out) \subseteq TimesOf(rs) \cup Range(ts)
    BY <2>1 DEF TimesOf
  <2>5. TimesOf(rs) \subseteq TimesOf(out)
    BY <2>2 DEF TimesOf
  <2>6. Range(ts) \subseteq TimesOf(out)
    BY <2>3 DEF Range
  <2> QED
    BY <2>4, <2>5, <2>6
<1>12. \A i \in DOMAIN out : out[i].whole => out[i].time \in 1..Beyond
  <2>1. \A i \in 1..n : out[i].whole => out[i].time \in 1..Beyond
    BY <1>6, <1>8 DEF Sound
  <2>2. \A k \in 1..d : out[n + k].time \in 1..Beyond
    BY <1>2, <1>9
  <2> QED
    BY <1>6, <1>7, <2>1, <2>2
<1>13. ASSUME NEW i \in DOMAIN out, NEW j \in DOMAIN out,
              out[i].whole, out[i].time = out[j].time
       PROVE  i = j \/ out[i].time = Beyond
  <2>1. CASE i \in 1..n /\ j \in 1..n
    BY <1>6, <1>8, <1>13, <2>1 DEF Sound
  <2>2. ASSUME i \in 1..n, NEW k \in 1..d, j = n + k PROVE FALSE
    BY <1>9, <1>10, <1>13, <2>2
  <2>3. ASSUME j \in 1..n, NEW k \in 1..d, i = n + k PROVE FALSE
    BY <1>9, <1>10, <1>13, <2>3
  <2>4. ASSUME NEW k \in 1..d, i = n + k, NEW m \in 1..d, j = n + m PROVE i = j
    <3>1. ts[k] = ts[m] /\ ts[k] \in Int /\ k \in Int /\ m \in Int
      BY SMTT(30), <1>3, <1>9, <1>13, <2>4
    <3>2. /\ k < m => ts[k] < ts[m]
          /\ m < k => ts[m] < ts[k]
      BY <1>2 DEF Rising
    <3> QED
      BY <2>4, <3>1, <3>2
  <2> QED
    BY <1>6, <1>7, <2>1, <2>2, <2>3, <2>4
<1> QED
  BY <1>6, <1>11, <1>12, <1>13 DEF Sound

\* The last line is joined with the next: its own time may be gone.
LEMMA LastJoined ==
  ASSUME CacheAssumption, NEW rs, Sound(rs), rs # <<>>, NEW line \in Joined(Last(rs)),
         NEW out, out = [rs EXCEPT ![Len(rs)] = line]
  PROVE  /\ Sound(out)
         /\ TimesOf(rs) \subseteq TimesOf(out) \cup {Last(rs).time}
         /\ TimesOf(out) \subseteq TimesOf(rs) \cup {Beyond, Beyond + 1}
<1>1. /\ DOMAIN rs = 1..Len(rs) /\ Len(rs) \in Nat /\ rs \in Seq(FileLine)
      /\ \A i \in DOMAIN rs : /\ rs[i] \in FileLine /\ rs[i].time \in Int
                              /\ rs[i].whole \in BOOLEAN
  BY LineFacts DEF Sound
<1> DEFINE n == Len(rs)
           t == Last(rs).time
<1>2. n \in 1..n /\ n \in Nat /\ Last(rs) = rs[n] /\ t \in Int /\ t \in TimesOf(rs)
  <2>1. n \in 1..n /\ n \in Nat
    BY <1>1
  <2> QED
    BY <1>1, <2>1 DEF Last, TimesOf
<1>3. /\ line \in FileLine
      /\ line.whole => line.time = Beyond
      /\ line.time \in {t, Beyond, Beyond + 1}
  <2>1. \/ line = Piece(t) \/ line = Row(Beyond)
        \/ line = Piece(Beyond) \/ line = Piece(Beyond + 1)
    BY DEF Joined
  <2>2. Beyond \in Int /\ Beyond + 1 \in Int
    BY CacheAssumption DEF CacheAssumption
  <2>3. /\ Piece(t) \in FileLine /\ Piece(t).time = t /\ ~Piece(t).whole
    BY <1>2, NewLines
  <2>4. \A b \in {Beyond, Beyond + 1} : Piece(b) \in FileLine /\ Piece(b).time = b /\ ~Piece(b).whole
    BY <2>2, NewLines
  <2>5. Row(Beyond) \in FileLine /\ Row(Beyond).time = Beyond
    BY <2>2, NewLines
  <2> QED
    BY <2>1, <2>3, <2>4, <2>5
<1>4. /\ out \in Seq(FileLine) /\ DOMAIN out = 1..n /\ out[n] = line
      /\ \A i \in 1..n : i # n => out[i] = rs[i]
  BY <1>1, <1>2, <1>3
<1>5. Beyond \in Nat /\ Beyond > 0
  BY CacheAssumption DEF CacheAssumption, Torn
<1> HIDE DEF n, t
<1>6. TimesOf(rs) \subseteq TimesOf(out) \cup {t}
  <2> SUFFICES ASSUME NEW i \in DOMAIN rs PROVE rs[i].time \in TimesOf(out) \cup {t}
    BY DEF TimesOf
  <2> QED
    BY <1>1, <1>2, <1>4 DEF TimesOf, n, t
<1>7. TimesOf(out) \subseteq TimesOf(rs) \cup {Beyond, Beyond + 1}
  <2> SUFFICES ASSUME NEW i \in DOMAIN out
               PROVE  out[i].time \in TimesOf(rs) \cup {Beyond, Beyond + 1}
    BY DEF TimesOf
  <2>1. CASE i = n
    BY <1>2, <1>3, <1>4, <2>1
  <2>2. CASE i # n
    BY <1>1, <1>4, <2>2 DEF TimesOf, n
  <2> QED
    BY <2>1, <2>2
<1>8. \A i \in DOMAIN out : out[i].whole => out[i].time \in 1..Beyond
  <2>1. line.whole => line.time \in 1..Beyond
    BY <1>3, <1>5
  <2>2. \A i \in 1..n : i # n /\ out[i].whole => out[i].time \in 1..Beyond
    BY <1>1, <1>4 DEF Sound, n
  <2> QED
    BY <1>4, <2>1, <2>2
<1>9. ASSUME NEW i \in DOMAIN out, NEW j \in DOMAIN out,
             out[i].whole, out[i].time = out[j].time
      PROVE  i = j \/ out[i].time = Beyond
  <2>1. CASE i = n
    BY <1>3, <1>4, <1>9, <2>1
  <2>2. CASE i # n /\ j # n
    BY <1>1, <1>4, <1>9, <2>2 DEF Sound, n
  <2>3. CASE i # n /\ j = n
    <3>1. rs[i].whole /\ rs[i].time = line.time /\ i \in 1..n /\ rs[i].time \in 1..Beyond
      BY <1>1, <1>4, <1>9, <2>3 DEF Sound, n
    <3>2. CASE line.time = t
      BY <1>1, <1>2, <1>4, <2>3, <3>1, <3>2 DEF Sound, n, t
    <3>3. CASE line.time \in {Beyond, Beyond + 1}
      BY <1>4, <1>5, <2>3, <3>1, <3>3
    <3> QED
      BY <1>3, <3>2, <3>3
  <2> QED
    BY <2>1, <2>2, <2>3
<1> QED
  BY <1>4, <1>6, <1>7, <1>8, <1>9 DEF Sound, t

-----------------------------------------------------------------------------
(* Reading and writing the file *)

\* The times of new candles.
NewTimes(ts) == ts \in Seq(1..Beyond) /\ Rising(ts) /\ \A k \in DOMAIN ts : ts[k] < Beyond

\* The candles the next save loses of a file left in this condition.
Debt == IF file.next = "row" THEN 0 ELSE 2

FileSound ==
    /\ file.state \in {"none", "good", "damaged"} /\ Sound(file.rows)
    /\ file.next \in {"row", "header", "joined"}
    /\ file.next = "joined" => file.rows # <<>>
    /\ file.state # "good" => file.rows = <<>> /\ file.next = "row"

\* The rows after a save are those there were and those added, but for two.
LEMMA AppendedFacts ==
  ASSUME CacheAssumption, FileSound, NEW ts, NewTimes(ts), ts # <<>>,
         \A k \in DOMAIN ts : ts[k] \notin TimesOf(OldRows), NEW out \in Appended(ts)
  PROVE  /\ Sound(out)
         /\ TimesOf(out) \subseteq TimesOf(OldRows) \cup Range(ts) \cup {Beyond, Beyond + 1}
         /\ \E gone : /\ IsFiniteSet(gone) /\ Cardinality(gone) <= Debt
                      /\ TimesOf(OldRows) \cup Range(ts) \subseteq TimesOf(out) \cup gone
<1> DEFINE t == Head(ts)
           rest == Tail(ts)
<1>1. OldRows = file.rows /\ Sound(OldRows)
  BY EmptyLines DEF OldRows, FileSound
<1>2. /\ t \in 1..Beyond /\ t < Beyond /\ t \notin TimesOf(OldRows) /\ t \in Int
      /\ 1 \in DOMAIN ts /\ t = ts[1]
  <2>1. ts \in Seq(1..Beyond) /\ 1 \in DOMAIN ts /\ t = ts[1] /\ ts[1] \in 1..Beyond
    BY DEF NewTimes
  <2> QED
    BY <2>1, CacheAssumption DEF NewTimes, CacheAssumption
<1>3. /\ rest \in Seq(1..Beyond) /\ DOMAIN rest = 1..Len(ts) - 1 /\ Len(ts) \in Nat
      /\ DOMAIN ts = 1..Len(ts)
      /\ \A k \in DOMAIN rest : rest[k] = ts[k + 1] /\ k + 1 \in DOMAIN ts /\ k \in Nat \ {0}
  BY DEF NewTimes
<1> HIDE DEF t, rest
<1>4. \A k \in DOMAIN rest : /\ t < rest[k] /\ rest[k] < Beyond
                             /\ rest[k] \notin TimesOf(OldRows) /\ rest[k] \in Int
  <2> SUFFICES ASSUME NEW k \in DOMAIN rest
               PROVE  /\ t < rest[k] /\ rest[k] < Beyond
                      /\ rest[k] \notin TimesOf(OldRows) /\ rest[k] \in Int
    OBVIOUS
  <2>1. rest[k] = ts[k + 1] /\ k + 1 \in DOMAIN ts /\ 1 < k + 1
    BY <1>3
  <2>2. ts[1] < ts[k + 1]
    BY <1>2, <2>1 DEF NewTimes, Rising
  <2>3. rest[k] \in 1..Beyond
    BY <1>3
  <2> QED
    BY <1>2, <2>1, <2>2, <2>3, CacheAssumption DEF NewTimes, CacheAssumption
<1>5. Rising(rest)
  <2> SUFFICES ASSUME NEW j \in DOMAIN rest, NEW k \in DOMAIN rest, j < k
               PROVE  rest[j] < rest[k]
    BY DEF Rising
  <2>1. /\ j + 1 \in DOMAIN ts /\ k + 1 \in DOMAIN ts /\ j + 1 < k + 1
        /\ rest[j] = ts[j + 1] /\ rest[k] = ts[k + 1]
    BY <1>3
  <2> QED
    BY <2>1 DEF NewTimes, Rising
<1>6. Range(ts) = {t} \cup Range(rest)
  <2>1. ASSUME NEW k \in DOMAIN ts PROVE ts[k] \in {t} \cup Range(rest)
    <3>1. CASE k = 1
      BY <1>2, <3>1
    <3>2. CASE k # 1
      <4>1. k - 1 \in DOMAIN rest /\ rest[k - 1] = ts[k]
        BY <1>3, <3>2
      <4> QED
        BY <4>1 DEF Range
    <3> QED
      BY <3>1, <3>2
  <2>2. Range(ts) \subseteq {t} \cup Range(rest)
    BY <2>1 DEF Range
  <2>3. {t} \cup Range(rest) \subseteq Range(ts)
    BY <1>2, <1>3 DEF Range
  <2> QED
    BY <2>2, <2>3
<1>7. PICK first \in NextLine(t) : out = first \o Rows(rest)
  BY DEF Appended, t, rest
<1>8. /\ Sound(first) /\ TimesOf(first) \subseteq TimesOf(OldRows) \cup {t, Beyond, Beyond + 1}
      /\ \E gone : /\ IsFiniteSet(gone) /\ Cardinality(gone) <= Debt
                   /\ TimesOf(OldRows) \cup {t} \subseteq TimesOf(first) \cup gone
  <2>1. CASE file.next = "row"
    <3>1. first = Append(OldRows, Row(t))
      BY <1>7, <2>1 DEF NextLine
    <3> DEFINE line == Row(t)
    <3>2. line \in FileLine /\ line.time = t /\ first = Append(OldRows, line)
      BY <1>2, <3>1, NewLines
    <3> HIDE DEF line
    <3>3. /\ line.time \in 1..Beyond /\ line.time \notin TimesOf(OldRows)
          /\ \A i \in DOMAIN OldRows : OldRows[i].time # line.time
      BY <1>2, <3>2 DEF TimesOf
    <3>4. Sound(first) /\ TimesOf(first) = TimesOf(OldRows) \cup {t}
      BY <1>1, <3>2, <3>3, LineAdded
    <3>5. IsFiniteSet({}) /\ Cardinality({}) <= Debt
      BY <2>1, FS_EmptySet DEF Debt
    <3> QED
      BY <3>4, <3>5
  <2>2. CASE file.next = "header"
    <3>1. first = OldRows
      BY <1>7, <2>2 DEF NextLine
    <3>2. IsFiniteSet({t}) /\ Cardinality({t}) <= Debt
      <4>1. IsFiniteSet({t}) /\ Cardinality({t}) = 1
        BY FS_Singleton
      <4> QED
        BY <2>2, <4>1 DEF Debt
    <3> QED
      BY <1>1, <3>1, <3>2
  <2>3. CASE file.next = "joined"
    <3>1. OldRows # <<>>
      BY <1>1, <2>3 DEF FileSound
    <3>2. PICK line \in Joined(Last(OldRows)) : first = [OldRows EXCEPT ![Len(OldRows)] = line]
      BY <1>7, <2>3 DEF NextLine
    <3>3. /\ Sound(first)
          /\ TimesOf(OldRows) \subseteq TimesOf(first) \cup {Last(OldRows).time}
          /\ TimesOf(first) \subseteq TimesOf(OldRows) \cup {Beyond, Beyond + 1}
      BY <1>1, <3>1, <3>2, LastJoined
    <3> DEFINE l == Last(OldRows).time
    <3>4. IsFiniteSet({l} \cup {t}) /\ Cardinality({l} \cup {t}) <= Debt
      <4>1. IsFiniteSet({l}) /\ Cardinality({l}) = 1
        BY FS_Singleton
      <4>2. /\ IsFiniteSet({l} \cup {t})
            /\ Cardinality({l} \cup {t}) = IF t \in {l} THEN Cardinality({l}) ELSE Cardinality({l}) + 1
        BY <4>1, FS_AddElement
      <4> QED
        BY <2>3, <4>1, <4>2 DEF Debt
    <3>5. TimesOf(OldRows) \cup {t} \subseteq TimesOf(first) \cup ({l} \cup {t})
      BY <3>3
    <3> HIDE DEF l
    <3> QED
      BY <3>3, <3>4, <3>5
  <2> QED
    BY <2>1, <2>2, <2>3 DEF FileSound
<1>9. Sound(out) /\ TimesOf(out) = TimesOf(first) \cup Range(rest)
  <2>1. \A k \in DOMAIN rest : rest[k] \notin TimesOf(first)
    <3> SUFFICES ASSUME NEW k \in DOMAIN rest PROVE rest[k] \notin TimesOf(first)
      OBVIOUS
    <3>1. rest[k] # t /\ rest[k] # Beyond /\ rest[k] # Beyond + 1
      BY <1>2, <1>4, CacheAssumption DEF CacheAssumption
    <3> QED
      BY <1>4, <1>8, <3>1
  <2> QED
    BY <1>3, <1>5, <1>7, <1>8, <2>1, RowsAdded
<1>10. PICK gone : /\ IsFiniteSet(gone) /\ Cardinality(gone) <= Debt
                   /\ TimesOf(OldRows) \cup {t} \subseteq TimesOf(first) \cup gone
  BY <1>8
<1>11. TimesOf(OldRows) \cup Range(ts) \subseteq TimesOf(out) \cup gone
  BY <1>6, <1>9, <1>10
<1>12. TimesOf(out) \subseteq TimesOf(OldRows) \cup Range(ts) \cup {Beyond, Beyond + 1}
  BY <1>6, <1>8, <1>9
<1> QED
  BY <1>9, <1>10, <1>11, <1>12

\* What a save writes: what was downloaded and is not in the file, in order.
LEMMA NewFacts ==
  ASSUME CacheAssumption, Sound(OldRows), fetched \in Seq(1..Beyond),
         \A k \in DOMAIN fetched : fetched[k] < Beyond
  PROVE  /\ NewTimes(New) /\ DOMAIN New = 1..Len(New) /\ Len(New) \in Nat
         /\ \A k \in DOMAIN New : New[k] \notin TimesOf(OldRows)
         /\ Range(fetched) \subseteq TimesOf(OldRows) \cup Range(New)
<1> DEFINE S == Range(fetched) \ TimesOf(OldRows)
<1>1. S \subseteq 1..Beyond /\ IsFiniteSet(S) /\ \A x \in S : x < Beyond
  <2>1. IsFiniteSet(Range(fetched)) /\ Range(fetched) \subseteq 1..Beyond
    BY RangeFinite
  <2>2. S \in SUBSET Range(fetched)
    OBVIOUS
  <2>3. \A x \in Range(fetched) : x < Beyond
    BY DEF Range
  <2> QED
    BY <2>1, <2>2, <2>3, FS_Subset
<1>2. \A x \in S : x \notin TimesOf(OldRows)
  OBVIOUS
<1>3. Range(fetched) \subseteq TimesOf(OldRows) \cup S
  OBVIOUS
<1>4. New = InOrder(S)
  BY DEF New
<1> HIDE DEF S
<1>5. S \subseteq Int
  BY <1>1, CacheAssumption DEF CacheAssumption
<1>6. /\ New \in Seq(S) /\ DOMAIN New = 1..Len(New)
      /\ \A x \in S : \E k \in DOMAIN New : New[k] = x
      /\ \A k \in DOMAIN New : New[k] \in S
      /\ \A j, k \in DOMAIN New : j < k => New[j] < New[k]
  <2> DEFINE ts == InOrder(S)
  <2>1. /\ ts \in Seq(S) /\ DOMAIN ts = 1..Len(ts)
        /\ \A x \in S : \E k \in DOMAIN ts : ts[k] = x
        /\ \A k \in DOMAIN ts : ts[k] \in S
        /\ \A j, k \in DOMAIN ts : j < k => ts[j] < ts[k]
    <3> HIDE DEF ts
    <3> QED
      BY <1>1, <1>5, InOrderFacts DEF ts
  <2> HIDE DEF ts
  <2>2. New = ts
    BY <1>4 DEF ts
  <2> QED
    BY <2>1, <2>2
<1>7. Len(New) \in Nat /\ New \in Seq(1..Beyond)
  <2>1. New \in Seq(1..Beyond)
    BY <1>1, <1>6, SeqWithin
  <2> QED
    BY <2>1
<1>8. S \subseteq Range(New)
  BY <1>6 DEF Range
<1> QED
  BY <1>1, <1>2, <1>3, <1>6, <1>7, <1>8 DEF NewTimes, Rising

\* The same of the part of it that a killed save wrote.
LEMMA PrefixFacts ==
  ASSUME CacheAssumption, NEW ts, NewTimes(ts), NEW n \in DOMAIN ts
  PROVE  /\ NewTimes(SubSeq(ts, 1, n)) /\ SubSeq(ts, 1, n) # <<>>
         /\ DOMAIN SubSeq(ts, 1, n) = 1..n
         /\ \A k \in 1..n : SubSeq(ts, 1, n)[k] = ts[k] /\ k \in DOMAIN ts
         /\ n + 1 \in DOMAIN ts => ts[n + 1] \notin Range(SubSeq(ts, 1, n))
<1> DEFINE part == SubSeq(ts, 1, n)
<1>1. /\ ts \in Seq(1..Beyond) /\ DOMAIN ts = 1..Len(ts) /\ Len(ts) \in Nat
      /\ n \in Nat \ {0} /\ n <= Len(ts)
  BY DEF NewTimes
<1>2. /\ part \in Seq(1..Beyond) /\ DOMAIN part = 1..n
      /\ \A k \in 1..n : part[k] = ts[k] /\ k \in DOMAIN ts
  BY <1>1
<1> HIDE DEF part
<1>3. part # <<>>
  <2>1. 1 \in DOMAIN part
    BY <1>1, <1>2
  <2> QED
    BY <2>1
<1>4. NewTimes(part)
  BY <1>2 DEF NewTimes, Rising
<1>5. ASSUME n + 1 \in DOMAIN ts PROVE ts[n + 1] \notin Range(part)
  <2> SUFFICES ASSUME NEW k \in 1..n, part[k] = ts[n + 1] PROVE FALSE
    BY <1>2 DEF Range
  <2>1. k < n + 1 /\ k \in DOMAIN ts
    BY <1>1, <1>2
  <2>2. ts[k] < ts[n + 1]
    BY <1>5, <2>1 DEF NewTimes, Rising
  <2>3. ts[k] = ts[n + 1] /\ ts[k] \in Int
    <3>1. ts[k] \in 1..Beyond
      BY <1>1, <2>1
    <3> QED
      BY <1>2, <3>1, CacheAssumption DEF CacheAssumption
  <2> QED
    BY <2>2, <2>3
<1> QED
  BY <1>2, <1>3, <1>4, <1>5 DEF part

\* A parquet file has what it had and what was downloaded, each time once.
LEMMA MergedFacts ==
  ASSUME CacheAssumption, Sound(OldRows), \A i \in DOMAIN OldRows : OldRows[i].whole,
         fetched \in Seq(1..Beyond)
  PROVE  /\ Sound(Merged) /\ \A i \in DOMAIN Merged : Merged[i].whole
         /\ TimesOf(Merged) = TimesOf(OldRows) \cup Range(fetched)
<1> DEFINE S == TimesOf(OldRows) \cup Range(fetched)
           ts == InOrder(S)
<1>1. S \subseteq 1..Beyond /\ IsFiniteSet(S)
  <2>1. IsFiniteSet(Range(fetched)) /\ Range(fetched) \subseteq 1..Beyond
    BY RangeFinite
  <2>2. IsFiniteSet(TimesOf(OldRows))
    BY TimesFinite DEF Sound
  <2>3. TimesOf(OldRows) \subseteq 1..Beyond
    BY DEF Sound, TimesOf
  <2> QED
    BY <2>1, <2>2, <2>3, FS_Union
<1> HIDE DEF S
<1>2. S \subseteq Int
  BY <1>1, CacheAssumption DEF CacheAssumption
<1>3. /\ ts \in Seq(S) /\ DOMAIN ts = 1..Len(ts)
      /\ \A x \in S : \E k \in DOMAIN ts : ts[k] = x
      /\ \A k \in DOMAIN ts : ts[k] \in S
      /\ \A j, k \in DOMAIN ts : j < k => ts[j] < ts[k]
  <2> HIDE DEF ts
  <2> QED
    BY <1>1, <1>2, InOrderFacts DEF ts
<1>4. Merged = Rows(ts)
  BY DEF Merged, S
<1> HIDE DEF ts
<1>5. ts \in Seq(1..Beyond) /\ Rising(ts) /\ Range(ts) = S
  <2>1. ts \in Seq(1..Beyond)
    BY <1>1, <1>3, SeqWithin
  <2> QED
    BY <1>3, <2>1 DEF Rising, Range
<1>6. Sound(<<>> \o Rows(ts)) /\ TimesOf(<<>> \o Rows(ts)) = {} \cup Range(ts)
  <2>1. Sound(<<>>) /\ TimesOf(<<>>) = {}
    BY EmptyLines
  <2> QED
    BY <1>5, <2>1, RowsAdded, CacheAssumption
<1>7. /\ DOMAIN Rows(ts) = DOMAIN ts /\ \A k \in DOMAIN ts : Rows(ts)[k] = Row(ts[k])
      /\ Rows(ts) \in Seq(FileLine)
  <2>1. \A k \in DOMAIN ts : Row(ts[k]) \in FileLine
    BY <1>2, <1>3, NewLines
  <2>2. Rows(ts) = [k \in 1..Len(ts) |-> Row(ts[k])] /\ Len(ts) \in Nat
    BY <1>3, <1>5 DEF Rows
  <2> QED
    BY <1>3, <2>1, <2>2
<1>8. <<>> \o Rows(ts) = Rows(ts)
  BY <1>7
<1>9. ASSUME NEW k \in DOMAIN ts PROVE Rows(ts)[k].whole
  <2>1. Row(ts[k]).whole
    BY <1>2, <1>3, NewLines
  <2> QED
    BY <1>7, <2>1
<1> QED
  BY <1>4, <1>5, <1>6, <1>7, <1>8, <1>9 DEF S

\* What a backtest is given of its period: lines in the order of their times, and
\* none is left out.
LEMMA ProvidedFacts ==
  ASSUME NEW rs, Sound(rs), NEW p, NEW out, out = Provided(rs, p)
  PROVE  /\ out \in Seq(FileLine)
         /\ \A i, j \in DOMAIN out :
                i < j /\ out[i].whole => out[i].time < out[j].time \/ out[i].time = Beyond
         /\ \A t \in TimesOf(rs) : Within(t, p) => t \in TimesOf(out)
<1> DEFINE kept == {i \in DOMAIN rs : Within(rs[i].time, p)}
           earlier(i) == {j \in kept : \/ rs[j].time < rs[i].time
                                       \/ rs[j].time = rs[i].time /\ j < i}
           before == [i \in kept |-> earlier(i)]
           sorted == ByRank(before)
<1>1. /\ DOMAIN rs = 1..Len(rs) /\ Len(rs) \in Nat /\ rs \in Seq(FileLine)
      /\ \A i \in DOMAIN rs : /\ rs[i] \in FileLine /\ rs[i].time \in Int
                              /\ rs[i].whole \in BOOLEAN
  BY LineFacts DEF Sound
<1>2. IsFiniteSet(kept) /\ \A i \in kept : i \in DOMAIN rs
  <2>1. kept \in SUBSET (1..Len(rs))
    BY <1>1
  <2>2. IsFiniteSet(1..Len(rs))
    BY <1>1, FS_Interval
  <2> QED
    BY <1>1, <2>1, <2>2, FS_Subset
<1>3. /\ before \in [kept -> SUBSET kept]
      /\ \A x, y \in kept :
             x \in before[y] <=> \/ rs[x].time < rs[y].time
                                 \/ rs[x].time = rs[y].time /\ x < y
  <2> HIDE DEF kept
  <2>1. before \in [kept -> SUBSET kept]
    OBVIOUS
  <2>2. ASSUME NEW x \in kept, NEW y \in kept
        PROVE  x \in before[y] <=> \/ rs[x].time < rs[y].time
                                   \/ rs[x].time = rs[y].time /\ x < y
    <3>1. before[y] = earlier(y)
      OBVIOUS
    <3> QED
      BY <3>1
  <2> HIDE DEF before
  <2> QED
    BY <2>1, <2>2
<1>4. out = [k \in DOMAIN sorted |-> rs[sorted[k]]]
  BY DEF Provided
<1>5. \A t \in TimesOf(rs) : Within(t, p) => \E i \in kept : rs[i].time = t
  BY DEF TimesOf
<1> HIDE DEF kept, before, sorted
<1>6. \A x \in kept : x \in Int /\ rs[x].time \in Int
  BY <1>1, <1>2
<1>7. Line(kept, before)
  <2>1. \A x \in kept : x \notin before[x]
    BY <1>3, <1>6
  <2>2. \A x, y \in kept : x # y => x \in before[y] \/ y \in before[x]
    BY <1>3, <1>6
  <2>3. ASSUME NEW x \in kept, NEW y \in kept, x \in before[y], NEW z \in before[x]
        PROVE  z \in before[y]
    <3>1. z \in kept
      BY <1>3
    <3> QED
      BY <1>3, <1>6, <2>3, <3>1
  <2> QED
    BY <1>3, <2>1, <2>2, <2>3 DEF Line
<1>8. /\ sorted \in Seq(kept) /\ DOMAIN sorted = 1..Len(sorted)
      /\ \A x \in kept : \E k \in DOMAIN sorted : sorted[k] = x
      /\ \A j, k \in DOMAIN sorted : j < k => sorted[j] \in before[sorted[k]]
  BY <1>2, <1>7, RanksAreOrder DEF sorted
<1>9. /\ DOMAIN out = 1..Len(sorted) /\ Len(sorted) \in Nat
      /\ \A k \in DOMAIN out : sorted[k] \in kept /\ out[k] = rs[sorted[k]]
  BY <1>4, <1>8
<1>10. out \in Seq(FileLine)
  <2>1. out = [k \in 1..Len(sorted) |-> out[k]] /\ \A k \in 1..Len(sorted) : out[k] \in FileLine
    BY <1>1, <1>2, <1>4, <1>8, <1>9
  <2> QED
    BY <1>9, <2>1
<1>11. ASSUME NEW i \in DOMAIN out, NEW j \in DOMAIN out, i < j, out[i].whole
       PROVE  out[i].time < out[j].time \/ out[i].time = Beyond
  <2>1. /\ sorted[i] \in kept /\ sorted[j] \in kept /\ sorted[i] \in before[sorted[j]]
        /\ out[i] = rs[sorted[i]] /\ out[j] = rs[sorted[j]]
    BY <1>8, <1>9, <1>11
  <2>2. CASE out[i].time < out[j].time
    BY <2>2
  <2>3. CASE out[i].time = out[j].time /\ sorted[i] < sorted[j]
    <3>1. sorted[i] # sorted[j] /\ sorted[i] \in DOMAIN rs /\ sorted[j] \in DOMAIN rs
      BY <1>2, <1>6, <2>1, <2>3
    <3> QED
      BY <1>11, <2>1, <2>3, <3>1 DEF Sound
  <2> QED
    BY <1>3, <2>1, <2>2, <2>3
<1>12. \A t \in TimesOf(rs) : Within(t, p) => t \in TimesOf(out)
  <2> SUFFICES ASSUME NEW t \in TimesOf(rs), Within(t, p)
               PROVE  \E k \in DOMAIN out : out[k].time = t
    BY DEF TimesOf
  <2>1. PICK i \in kept : rs[i].time = t
    BY <1>5
  <2>2. PICK k \in DOMAIN sorted : sorted[k] = i
    BY <1>8
  <2> QED
    BY <1>8, <1>9, <2>1, <2>2
<1> QED
  BY <1>10, <1>11, <1>12

LEMMA Few ==
  ASSUME NEW A, IsFiniteSet(A), NEW B, IsFiniteSet(B), NEW C, C \subseteq A \cup B
  PROVE  /\ IsFiniteSet(C) /\ Cardinality(C) <= Cardinality(A) + Cardinality(B)
         /\ Cardinality(A) \in Nat /\ Cardinality(B) \in Nat /\ Cardinality(C) \in Nat
<1> DEFINE u == A \cup B
           i == A \cap B
<1>1. IsFiniteSet(u) /\ Cardinality(u) = Cardinality(A) + Cardinality(B) - Cardinality(i)
  BY FS_Union
<1>2. IsFiniteSet(i)
  <2>1. i \in SUBSET A
    OBVIOUS
  <2> QED
    BY <2>1, FS_Subset
<1>3. C \in SUBSET u
  OBVIOUS
<1> HIDE DEF u, i
<1>4. IsFiniteSet(C) /\ Cardinality(C) <= Cardinality(u)
  BY <1>1, <1>3, FS_Subset
<1>5. /\ Cardinality(A) \in Nat /\ Cardinality(B) \in Nat /\ Cardinality(C) \in Nat
      /\ Cardinality(u) \in Nat /\ Cardinality(i) \in Nat
  BY <1>1, <1>2, <1>4, FS_CardinalityType
<1> QED
  BY <1>1, <1>4, <1>5

-----------------------------------------------------------------------------
(* The cache *)

CacheTypeOK ==
    /\ clock \in Nat /\ clock < Beyond /\ backtests \in Nat /\ since \in Int
    /\ kills \in Nat /\ pandas \in BOOLEAN
    /\ job \in {"idle", "fetching", "saving", "served", "failed"}
    /\ period.from \in Int /\ period.to \in Int
    /\ fetched \in Seq(1..Beyond) /\ \A k \in DOMAIN fetched : fetched[k] < Beyond

\* What the file owes the downloads merged into it: a killed save costs two of
\* their candles.  Only a parquet file is ever damaged, and then the next download
\* begins it anew.
FileInv ==
    /\ FileSound /\ IsFiniteSet(asked)
    /\ pandas => file.next = "row" /\ \A i \in DOMAIN file.rows : file.rows[i].whole
    /\ file.state = "good" =>
           Cardinality(asked \ TimesOf(file.rows)) + Debt <= 2 * kills
    /\ file.state = "none" => asked = {}
    /\ file.state = "damaged" => pandas
    /\ backtests = 0 => file = NoFile /\ job = "idle"

\* What the download under way has: all it asks for, so far as it has come.
FetchInv ==
    job \in {"fetching", "saving"} =>
        /\ asking \subseteq Candles(clock)
        /\ \A t \in asking : t >= period.from /\ t < period.to
        /\ \A t \in asking : t < since \/ job = "saving" => t \in Range(fetched)

AnswerInv ==
    job = "served" =>
        /\ Usable(file, period)
        /\ LET rs == Provided(file.rows, period)
           IN answer = [k \in DOMAIN rs |-> rs[k].time]

CacheInv == CacheTypeOK /\ FileInv /\ FetchInv /\ AnswerInv

LEMMA OldRowsFacts ==
  ASSUME FileInv
  PROVE  /\ OldRows = file.rows /\ Sound(OldRows) /\ FileSound
         /\ IsFiniteSet(asked \ TimesOf(OldRows))
<1>1. OldRows = file.rows /\ Sound(OldRows) /\ FileSound
  BY DEF OldRows, FileInv, FileSound
<1>2. (asked \ TimesOf(OldRows)) \in SUBSET asked /\ IsFiniteSet(asked)
  BY DEF FileInv
<1> QED
  BY <1>1, <1>2, FS_Subset

LEMMA MultiplesApart ==
  ASSUME NEW F \in Nat \ {0}, NEW t \in Nat, NEW l \in Nat,
         t % F = 0, l % F = 0, t < l + F
  PROVE  t <= l
<1> DEFINE a == t \div F
           b == l \div F
<1>1. a \in Nat /\ b \in Nat /\ t = F * a /\ l = F * b
  OBVIOUS
<1> HIDE DEF a, b
<1>2. SUFFICES ASSUME a >= b + 1 PROVE FALSE
  <2>1. a <= b => F * a <= F * b
    BY <1>1
  <2> QED
    BY <1>1, <2>1
<1>3. F * a >= F * (b + 1)
  BY <1>1, <1>2
<1>4. F * (b + 1) = F * b + F
  BY <1>1
<1> QED
  BY <1>1, <1>3, <1>4

LEMMA CandlesFacts ==
  ASSUME clock \in Nat
  PROVE  /\ Candles(clock) \subseteq Nat /\ IsFiniteSet(Candles(clock))
         /\ \A t \in Candles(clock) : t % Frame = 0
         /\ UNCHANGED clock \/ clock' = clock + 1 => Candles(clock) \subseteq Candles(clock')
<1> USE CacheAssumption
<1>1. Candles(clock) \in SUBSET (Listing..clock)
  BY DEF Candles
<1>2. IsFiniteSet(Listing..clock)
  BY FS_Interval
<1>3. IsFiniteSet(Candles(clock))
  BY <1>1, <1>2, FS_Subset
<1> QED
  BY <1>1, <1>3 DEF Candles

\* A page holds what there is up to its last candle, and something if there is
\* anything.
LEMMA PageFacts ==
  ASSUME clock \in Nat, NEW t \in Int, NEW page, page = PageFrom(t)
  PROVE  /\ page \subseteq {c \in Candles(clock) : c >= t} /\ IsFiniteSet(page)
         /\ \A c \in Candles(clock), d \in page : c >= t /\ c < d => c \in page
         /\ page = {} => \A c \in Candles(clock) : c < t
<1> USE CacheAssumption
<1> DEFINE later == {c \in Candles(clock) : c >= t}
           below(c) == {d \in later : d < c}
<1>1. page = {c \in later : Cardinality(below(c)) < Page}
  BY DEF PageFrom
<1>2. later \subseteq Nat /\ IsFiniteSet(later)
  <2>1. later \in SUBSET Candles(clock)
    OBVIOUS
  <2> QED
    BY <2>1, CandlesFacts, FS_Subset
<1>3. \A c \in Candles(clock) : c >= t <=> c \in later
  OBVIOUS
<1>4. later \subseteq Candles(clock)
  OBVIOUS
<1> HIDE DEF later
<1>5. page \subseteq later /\ IsFiniteSet(page)
  <2>1. page \in SUBSET later
    BY <1>1
  <2> QED
    BY <1>2, <2>1, FS_Subset
<1>6. ASSUME NEW c \in later, NEW d \in page, c < d PROVE c \in page
  <2>1. below(c) \subseteq below(d)
    <3>1. d \in Nat /\ c \in Nat
      BY <1>2, <1>5
    <3>2. \A e \in later : e < c => e < d
      BY <1>2, <1>6, <3>1
    <3> QED
      BY <3>2
  <2>2. IsFiniteSet(below(d)) /\ Cardinality(below(d)) < Page
    <3>1. below(d) \in SUBSET later
      OBVIOUS
    <3>2. IsFiniteSet(below(d))
      BY <1>2, <3>1, FS_Subset
    <3> QED
      BY <1>1, <3>2
  <2> DEFINE bc == below(c)
             bd == below(d)
  <2>3. bc \in SUBSET bd /\ IsFiniteSet(bd) /\ Cardinality(bd) < Page
    BY <2>1, <2>2
  <2> HIDE DEF bc, bd
  <2>4. Cardinality(bc) <= Cardinality(bd) /\ IsFiniteSet(bc)
    BY <2>3, FS_Subset
  <2>5. Cardinality(bc) \in Nat /\ Cardinality(bd) \in Nat
    BY <2>3, <2>4, FS_CardinalityType
  <2>6. Cardinality(bc) < Page
    BY <2>3, <2>4, <2>5
  <2> QED
    BY <1>1, <2>6 DEF bc
<1>7. ASSUME later # {} PROVE page # {}
  <2>1. PICK m \in later : \A k \in later : m <= k
    BY <1>2, <1>7, LeastNatural
  <2>2. below(m) = {}
    <3>1. \A d \in later : ~(d < m)
      BY <1>2, <2>1
    <3> QED
      BY <3>1
  <2>3. Cardinality(below(m)) < Page
    BY <2>2, FS_EmptySet
  <2> QED
    BY <1>1, <2>1, <2>3
<1>8. page = {} => \A c \in Candles(clock) : c < t
  BY <1>3, <1>7, CandlesFacts
<1>9. page \subseteq {c \in Candles(clock) : c >= t}
  BY <1>3, <1>4, <1>5
<1> QED
  BY <1>3, <1>5, <1>6, <1>8, <1>9

LEMMA FetchPageKeeps ==
  ASSUME CacheInv, FetchPage
  PROVE  CacheInv'
<1> USE CacheAssumption
<1> DEFINE page == PageFrom(since)
           wanted == InOrder({t \in page : t <= period.to})
<1>1. /\ job = "fetching" /\ clock \in Nat /\ since \in Int /\ fetched \in Seq(1..Beyond)
      /\ period.from \in Int /\ period.to \in Int /\ clock < Beyond
      /\ UNCHANGED <<clock, pandas, file, backtests, period, answer, kills, asked, asking>>
      /\ backtests # 0
  BY DEF FetchPage, CacheInv, CacheTypeOK, FileInv, NoFile
<1>2. /\ asking \subseteq Candles(clock)
      /\ \A t \in asking : t >= period.from /\ t < period.to
      /\ \A t \in asking : t < since => t \in Range(fetched)
  BY <1>1 DEF CacheInv, FetchInv
<1>3. \/ page = {} /\ job' = "saving" /\ UNCHANGED <<since, fetched>>
      \/ /\ page # {} /\ fetched' = fetched \o wanted
         /\ since' = Max(page) + Frame /\ job' = "fetching"
  BY <1>1 DEF FetchPage
<1>4. /\ page \subseteq {c \in Candles(clock) : c >= since} /\ IsFiniteSet(page)
      /\ \A c \in Candles(clock), d \in page : c >= since /\ c < d => c \in page
      /\ page = {} => \A c \in Candles(clock) : c < since
  BY <1>1, PageFacts
<1>5. /\ page \subseteq Nat /\ \A c \in page : c \in Candles(clock) /\ c >= since
      /\ Candles(clock) \subseteq Nat /\ \A t \in Candles(clock) : t % Frame = 0
      /\ \A c \in Candles(clock) : c \in 1..Beyond /\ c < Beyond
  BY <1>1, <1>4, CandlesFacts DEF Candles, Torn
<1> HIDE DEF page
<1>6. FileInv' /\ AnswerInv'
  BY <1>1, <1>3 DEF CacheInv, FileInv, FileSound, Debt, AnswerInv, Usable
<1>7. CASE page = {} /\ job' = "saving" /\ UNCHANGED <<since, fetched>>
  <2>1. \A t \in asking : t \in Range(fetched)
    BY <1>2, <1>4, <1>7
  <2>2. FetchInv'
    BY <1>1, <1>2, <1>7, <2>1 DEF FetchInv, Candles
  <2> QED
    BY <1>1, <1>6, <1>7, <2>2 DEF CacheInv, CacheTypeOK
<1>8. CASE /\ page # {} /\ fetched' = fetched \o wanted
           /\ since' = Max(page) + Frame /\ job' = "fetching"
  <2> DEFINE keep == {t \in page : t <= period.to}
             last == Max(page)
  <2>1. last \in page /\ \A c \in page : c <= last
    <3>1. page \subseteq Int /\ IsFiniteSet(page) /\ page # {}
      BY <1>4, <1>5, <1>8
    <3> QED
      BY <3>1, MaxOfFinite
  <2>2. \A t \in page : t \in keep <=> t <= period.to
    OBVIOUS
  <2>3. keep \subseteq page
    OBVIOUS
  <2>4. /\ wanted \in Seq(keep) /\ DOMAIN wanted = 1..Len(wanted)
        /\ \A x \in keep : \E k \in DOMAIN wanted : wanted[k] = x
    <3>1. keep \subseteq Int /\ IsFiniteSet(keep) /\ wanted = InOrder(keep)
      <4>1. keep \in SUBSET page /\ page \subseteq Int /\ IsFiniteSet(page)
        BY <1>4, <1>5
      <4>2. wanted = InOrder(keep)
        OBVIOUS
      <4> HIDE DEF keep
      <4> QED
        BY <4>1, <4>2, FS_Subset
    <3> HIDE DEF keep, wanted
    <3> QED
      BY ONLY <3>1, InOrderFacts
  <2> HIDE DEF keep, last, wanted
  <2> DEFINE d == Len(wanted)
             n == Len(fetched)
  <2>6. wanted \in Seq(1..Beyond) /\ d \in Nat /\ \A k \in 1..d : wanted[k] < Beyond
    <3>1. keep \subseteq 1..Beyond /\ \A t \in keep : t < Beyond
      BY <1>5, <2>3
    <3>2. wanted \in Seq(1..Beyond)
      BY <2>4, <3>1, SeqWithin
    <3> QED
      BY <2>4, <3>1, <3>2, MemberOf
  <2>7. /\ fetched' \in Seq(1..Beyond) /\ n \in Nat
        /\ DOMAIN fetched = 1..n /\ DOMAIN fetched' = 1..n + d
        /\ \A i \in 1..n : fetched'[i] = fetched[i]
        /\ \A k \in 1..d : fetched'[n + k] = wanted[k]
    <3>1. fetched \in Seq(1..Beyond) /\ wanted \in Seq(1..Beyond) /\ fetched' = fetched \o wanted
      BY <1>1, <1>8, <2>6
    <3>2. n \in Nat /\ DOMAIN fetched = 1..n
      BY <1>1
    <3>3. /\ fetched' \in Seq(1..Beyond) /\ DOMAIN fetched' = 1..Len(fetched) + Len(wanted)
          /\ \A i \in 1..Len(fetched) : fetched'[i] = fetched[i]
          /\ \A k \in 1..Len(wanted) : fetched'[Len(fetched) + k] = wanted[k]
      BY <3>1, ConcatFacts
    <3> QED
      BY <3>2, <3>3
  <2>8. \A i \in 1..n + d : i \in 1..n \/ \E k \in 1..d : i = n + k
    <3> SUFFICES ASSUME NEW i \in 1..n + d, i \notin 1..n
                 PROVE  i - n \in 1..d /\ i = n + (i - n)
      BY Zenon
    <3> QED
      BY <2>6, <2>7
  <2>9. (\A i \in 1..n : i \in 1..n + d) /\ \A k \in 1..d : n + k \in 1..n + d
    BY <2>6, <2>7
  <2>10. last \in Nat /\ last >= since /\ since' = last + Frame /\ Frame \in Nat \ {0}
    BY <1>5, <1>8, <2>1 DEF last
  <2> HIDE DEF d, n
  <2>11. \A i \in DOMAIN fetched' : fetched'[i] < Beyond
    <3>1. \A i \in 1..n : fetched[i] < Beyond
      BY <2>7 DEF CacheInv, CacheTypeOK
    <3>2. ASSUME NEW i \in 1..n + d PROVE fetched'[i] < Beyond
      <4>1. CASE i \in 1..n
        BY <2>7, <3>1, <4>1
      <4>2. ASSUME NEW k \in 1..d, i = n + k PROVE fetched'[i] < Beyond
        BY <2>6, <2>7, <4>2
      <4> QED
        BY <2>8, <4>1, <4>2
    <3> QED
      BY <2>7, <3>2
  <2>12. (\A x \in Range(fetched) : x \in Range(fetched')) /\ \A x \in keep : x \in Range(fetched')
    <3>1. \A x \in Range(fetched) : x \in Range(fetched')
      BY <2>7, <2>9 DEF Range
    <3>2. ASSUME NEW x \in keep PROVE x \in Range(fetched')
      <4>1. PICK k \in 1..d : wanted[k] = x
        BY <2>4 DEF d
      <4>2. n + k \in DOMAIN fetched' /\ fetched'[n + k] = x
        BY <2>7, <2>9, <4>1
      <4> QED
        BY <4>2 DEF Range
    <3> QED
      BY <3>1, <3>2
  <2>13. ASSUME NEW t \in asking, t < since' PROVE t \in Range(fetched')
    <3>1. t \in Candles(clock) /\ t \in Nat /\ t <= period.to /\ t % Frame = 0
      BY <1>1, <1>2, <1>5
    <3>2. CASE t < since
      BY <1>2, <2>12, <3>2
    <3>3. CASE ~(t < since)
      <4>1. t <= last
        <5>1. last % Frame = 0 /\ t < last + Frame
          BY <1>5, <2>1, <2>10, <2>13
        <5> QED
          BY <2>10, <3>1, <5>1, MultiplesApart
      <4>2. t \in page
        <5>1. CASE t = last
          BY <2>1, <5>1
        <5>2. CASE t # last
          BY <1>1, <1>4, <2>1, <2>10, <3>1, <3>3, <4>1, <5>2
        <5> QED
          BY <5>1, <5>2
      <4> QED
        BY <2>2, <2>12, <3>1, <4>2
    <3> QED
      BY <3>2, <3>3
  <2>14. FetchInv'
    <3>1. /\ asking' \subseteq Candles(clock)'
          /\ \A t \in asking' : t >= period'.from /\ t < period'.to
      BY <1>1, <1>2 DEF Candles
    <3>2. \A t \in asking' : t < since' => t \in Range(fetched')
      BY <1>1, <2>13
    <3> QED
      BY <1>8, <3>1, <3>2 DEF FetchInv
  <2>15. CacheTypeOK'
    <3>1. kills \in Nat /\ pandas \in BOOLEAN /\ backtests \in Nat
      BY DEF CacheInv, CacheTypeOK
    <3>2. since' \in Int
      BY <2>10
    <3> QED
      BY <1>1, <1>8, <2>7, <2>11, <3>1, <3>2 DEF CacheTypeOK
  <2> QED
    BY <1>6, <2>14, <2>15 DEF CacheInv
<1> QED
  BY <1>3, <1>7, <1>8

LEMMA Served ==
  ASSUME Serve(file', period')
  PROVE  AnswerInv' /\ job' \in {"served", "failed"}
<1>1. CASE Usable(file', period')
  BY <1>1 DEF Serve, AnswerInv
<1>2. CASE ~Usable(file', period')
  BY <1>2 DEF Serve, AnswerInv
<1> QED
  BY <1>1, <1>2

LEMMA RequestKeeps ==
  ASSUME CacheInv, NEW p \in Periods, Request(p)
  PROVE  CacheInv'
<1> USE CacheAssumption
<1>1. /\ backtests' = backtests + 1 /\ period' = p /\ backtests \in Nat
      /\ UNCHANGED <<clock, pandas, file, kills, asked>>
  BY DEF Request, CacheInv, CacheTypeOK
<1>2. p.from \in Int /\ p.to \in Int
  <2>1. Dates \cup {NoDate} \subseteq Int
    BY DEF NoDate
  <2> QED
    BY <2>1 DEF Periods
<1>3. FileInv'
  <2>1. backtests' # 0
    BY <1>1
  <2> QED
    BY <1>1, <2>1 DEF CacheInv, FileInv, FileSound, Debt
<1>4. CASE Serve(file, p) /\ UNCHANGED <<since, fetched, asking>>
  <2>1. AnswerInv' /\ job' \in {"served", "failed"}
    <3>1. Serve(file', period')
      BY <1>1, <1>4 DEF Serve
    <3> QED
      BY <3>1, Served
  <2>2. FetchInv'
    BY <2>1 DEF FetchInv
  <2>3. CacheTypeOK'
    BY <1>1, <1>2, <1>4, <2>1 DEF CacheInv, CacheTypeOK
  <2> QED
    BY <1>3, <2>1, <2>2, <2>3 DEF CacheInv
<1>5. CASE job' = "failed" /\ answer' = <<>> /\ UNCHANGED <<since, fetched, asking>>
  <2>1. CacheTypeOK'
    BY <1>1, <1>2, <1>5 DEF CacheInv, CacheTypeOK
  <2> QED
    BY <1>3, <1>5, <2>1 DEF CacheInv, FetchInv, AnswerInv
<1>6. CASE /\ job' = "fetching" /\ answer' = <<>>
           /\ since' = p.from /\ fetched' = <<>>
           /\ asking' = {t \in Candles(clock) : p.from <= t /\ t < p.to}
  <2>1. CacheTypeOK'
    BY <1>1, <1>2, <1>6 DEF CacheInv, CacheTypeOK
  <2>2. /\ asking' \subseteq Candles(clock)'
        /\ \A t \in asking' : t >= p.from /\ t < p.to /\ ~(t < since')
    <3>1. \A t \in asking' : t >= p.from /\ t < p.to /\ t \in Candles(clock)
      BY <1>2, <1>6, CandlesFacts DEF CacheInv, CacheTypeOK
    <3>2. Candles(clock)' = Candles(clock)
      BY <1>1 DEF Candles
    <3>3. \A t \in Candles(clock) : t \in Nat
      BY CandlesFacts DEF CacheInv, CacheTypeOK
    <3> QED
      BY <1>2, <1>6, <3>1, <3>2, <3>3
  <2>3. FetchInv'
    BY <1>1, <1>6, <2>2 DEF FetchInv
  <2> QED
    BY <1>3, <1>6, <2>1, <2>3 DEF CacheInv, AnswerInv
<1> QED
  BY <1>4, <1>5, <1>6 DEF Request

\* What is downloaded is all that was asked for, whatever happens to it next.
LEMMA SavingFacts ==
  ASSUME CacheInv, job = "saving"
  PROVE  /\ OldRows = file.rows /\ Sound(OldRows) /\ FileSound
         /\ IsFiniteSet(asked \ TimesOf(OldRows)) /\ IsFiniteSet(asking) /\ IsFiniteSet(asked)
         /\ asking \subseteq Range(fetched)
         /\ NewTimes(New) /\ DOMAIN New = 1..Len(New) /\ Len(New) \in Nat
         /\ \A k \in DOMAIN New : New[k] \notin TimesOf(OldRows)
         /\ Range(fetched) \subseteq TimesOf(OldRows) \cup Range(New)
         /\ backtests # 0
<1>1. /\ OldRows = file.rows /\ Sound(OldRows) /\ FileSound
      /\ IsFiniteSet(asked \ TimesOf(OldRows))
  BY OldRowsFacts DEF CacheInv
<1>2. /\ fetched \in Seq(1..Beyond) /\ \A k \in DOMAIN fetched : fetched[k] < Beyond
      /\ clock \in Nat
  BY DEF CacheInv, CacheTypeOK
<1>3. /\ NewTimes(New) /\ DOMAIN New = 1..Len(New) /\ Len(New) \in Nat
      /\ \A k \in DOMAIN New : New[k] \notin TimesOf(OldRows)
      /\ Range(fetched) \subseteq TimesOf(OldRows) \cup Range(New)
  BY <1>1, <1>2, NewFacts, CacheAssumption
<1>4. asking \in SUBSET Candles(clock) /\ asking \subseteq Range(fetched)
  BY DEF CacheInv, FetchInv
<1>5. IsFiniteSet(asking)
  <2>1. IsFiniteSet(Candles(clock))
    BY <1>2, CandlesFacts
  <2> QED
    BY <1>4, <2>1, FS_Subset
<1> QED
  BY <1>1, <1>3, <1>4, <1>5 DEF CacheInv, FileInv

LEMMA SaveKeeps ==
  ASSUME CacheInv, Save
  PROVE  CacheInv'
<1>1. /\ job = "saving" /\ kills \in Nat
      /\ UNCHANGED <<clock, pandas, backtests, period, since, fetched, kills, asking>>
  BY DEF Save, CacheInv, CacheTypeOK
<1>2. /\ OldRows = file.rows /\ Sound(OldRows) /\ FileSound
      /\ IsFiniteSet(asked \ TimesOf(OldRows)) /\ IsFiniteSet(asking) /\ IsFiniteSet(asked)
      /\ asking \subseteq Range(fetched)
      /\ NewTimes(New) /\ DOMAIN New = 1..Len(New) /\ Len(New) \in Nat
      /\ \A k \in DOMAIN New : New[k] \notin TimesOf(OldRows)
      /\ Range(fetched) \subseteq TimesOf(OldRows) \cup Range(New)
      /\ backtests # 0
  BY <1>1, SavingFacts
<1>3. CASE fetched = <<>>
  <2>1. job' = "failed" /\ UNCHANGED <<file, answer, asked>>
    BY <1>3 DEF Save
  <2> QED
    BY <1>1, <1>2, <2>1 DEF CacheInv, CacheTypeOK, FileInv, FileSound, Debt, FetchInv, AnswerInv
<1>4. CASE fetched # <<>>
  <2> DEFINE before == IF file.state = "good" THEN asked ELSE {}
  <2>1. /\ asked' = asking \cup before
        /\ Serve(file', period')
        /\ IF pandas THEN file' = Saved(Merged)
           ELSE IF New = <<>> THEN UNCHANGED file
           ELSE \E rs \in Appended(New) : file' = Saved(rs)
    BY <1>1, <1>4 DEF Save, Serve
  <2>2. AnswerInv' /\ job' \in {"served", "failed"}
    BY <2>1, Served
  <2>3. FetchInv'
    BY <2>2 DEF FetchInv
  <2>4. CacheTypeOK'
    BY <1>1, <2>2 DEF CacheInv, CacheTypeOK
  <2>5. IsFiniteSet(asked')
    <3>1. IsFiniteSet(before)
      BY <1>2, FS_EmptySet
    <3> HIDE DEF before
    <3> QED
      BY <1>2, <2>1, <3>1, FS_Union
  <2>6. /\ FileSound' /\ file'.state = "good"
        /\ pandas => file'.next = "row" /\ \A i \in DOMAIN file'.rows : file'.rows[i].whole
        /\ \E gone : /\ IsFiniteSet(gone) /\ Cardinality(gone) + Debt' <= Debt
                     /\ TimesOf(OldRows) \cup Range(fetched) \subseteq TimesOf(file'.rows) \cup gone
    <3>1. CASE pandas
      <4>1. /\ Sound(Merged) /\ \A i \in DOMAIN Merged : Merged[i].whole
            /\ TimesOf(Merged) = TimesOf(OldRows) \cup Range(fetched)
        <5>1. \A i \in DOMAIN OldRows : OldRows[i].whole
          BY <1>2, <3>1 DEF CacheInv, FileInv
        <5> QED
          BY <1>2, <5>1, MergedFacts, CacheAssumption DEF CacheInv, CacheTypeOK
      <4>2. file'.rows = Merged /\ file'.state = "good" /\ file'.next = "row"
        BY <2>1, <3>1 DEF Saved
      <4>3. IsFiniteSet({}) /\ Cardinality({}) + Debt' <= Debt
        BY <4>2, FS_EmptySet DEF Debt
      <4> QED
        BY <4>1, <4>2, <4>3 DEF FileSound, Sound
    <3>2. CASE ~pandas /\ New = <<>>
      <4>1. file' = file /\ Range(fetched) \subseteq TimesOf(OldRows)
        BY <1>2, <2>1, <3>2 DEF Range
      <4>2. file.state = "good"
        <5>1. fetched[1] \in Range(fetched)
          BY <1>4 DEF Range, CacheInv, CacheTypeOK
        <5>2. TimesOf(OldRows) # {}
          BY <4>1, <5>1
        <5> QED
          BY <1>2, <5>2, EmptyLines DEF FileSound
      <4>3. IsFiniteSet({}) /\ Cardinality({}) + Debt' <= Debt
        BY <4>1, FS_EmptySet DEF Debt
      <4>4. FileSound' /\ TimesOf(OldRows) = TimesOf(file'.rows)
        BY <1>2, <4>1 DEF FileSound
      <4> QED
        BY <3>2, <4>1, <4>2, <4>3, <4>4
    <3>3. CASE ~pandas /\ New # <<>>
      <4>1. PICK rs \in Appended(New) : file' = Saved(rs)
        BY <2>1, <3>3
      <4>2. /\ Sound(rs)
            /\ \E gone : /\ IsFiniteSet(gone) /\ Cardinality(gone) <= Debt
                         /\ TimesOf(OldRows) \cup Range(New) \subseteq TimesOf(rs) \cup gone
        BY <1>2, <3>3, <4>1, AppendedFacts, CacheAssumption
      <4>3. PICK gone : /\ IsFiniteSet(gone) /\ Cardinality(gone) <= Debt
                        /\ TimesOf(OldRows) \cup Range(New) \subseteq TimesOf(rs) \cup gone
        BY <4>2
      <4>4. file'.rows = rs /\ file'.state = "good" /\ file'.next = "row"
        BY <4>1 DEF Saved
      <4>5. Cardinality(gone) + Debt' <= Debt
        BY <4>3, <4>4, FS_CardinalityType DEF Debt
      <4>6. TimesOf(OldRows) \cup Range(fetched) \subseteq TimesOf(file'.rows) \cup gone
        BY <1>2, <4>3, <4>4
      <4>7. FileSound'
        BY <4>2, <4>4 DEF FileSound, Sound
      <4> QED
        BY <3>3, <4>3, <4>4, <4>5, <4>6, <4>7
    <3> QED
      BY <3>1, <3>2, <3>3
  <2>7. Cardinality(asked' \ TimesOf(file'.rows)) + Debt' <= 2 * kills
    <3>1. PICK gone : /\ IsFiniteSet(gone) /\ Cardinality(gone) + Debt' <= Debt
                      /\ TimesOf(OldRows) \cup Range(fetched) \subseteq TimesOf(file'.rows) \cup gone
      BY <2>6
    <3> DEFINE old == before \ TimesOf(OldRows)
               lost == asked' \ TimesOf(file'.rows)
    <3>2. lost \subseteq old \cup gone
      BY <1>2, <2>1, <3>1
    <3>3. IsFiniteSet(old) /\ Cardinality(old) + Debt <= 2 * kills
      <4>1. CASE file.state = "good"
        BY <1>2, <4>1 DEF CacheInv, FileInv
      <4>2. CASE file.state # "good"
        <5>1. old = {} /\ Debt = 0
          BY <1>2, <4>2 DEF FileSound, Debt
        <5> HIDE DEF old
        <5> QED
          BY <1>1, <5>1, FS_EmptySet
      <4> QED
        BY <4>1, <4>2
    <3> HIDE DEF old, lost
    <3>4. /\ Cardinality(lost) <= Cardinality(old) + Cardinality(gone)
          /\ Cardinality(lost) \in Nat /\ Cardinality(old) \in Nat /\ Cardinality(gone) \in Nat
      BY <3>1, <3>2, <3>3, Few
    <3>5. Debt \in Nat /\ Debt' \in Nat
      BY DEF Debt
    <3> QED
      BY <1>1, <3>1, <3>3, <3>4, <3>5 DEF lost
  <2>8. FileInv'
    BY <1>1, <1>2, <2>5, <2>6, <2>7 DEF FileInv
  <2> QED
    BY <2>2, <2>3, <2>4, <2>8 DEF CacheInv
<1> QED
  BY <1>3, <1>4

\* A killed save of a CSV file may cost two candles later on, and none before.
LEMMA WrittenInPartKeeps ==
  ASSUME CacheInv, job = "saving", ~pandas, WrittenInPart, kills' = kills + 1,
         UNCHANGED <<backtests, pandas, asked>>
  PROVE  FileInv'
<1>1. /\ OldRows = file.rows /\ Sound(OldRows) /\ FileSound
      /\ IsFiniteSet(asked \ TimesOf(OldRows)) /\ IsFiniteSet(asked)
      /\ NewTimes(New) /\ DOMAIN New = 1..Len(New) /\ Len(New) \in Nat
      /\ \A k \in DOMAIN New : New[k] \notin TimesOf(OldRows)
      /\ backtests # 0 /\ kills \in Nat /\ Debt \in Nat
  BY SavingFacts DEF CacheInv, CacheTypeOK, Debt
<1>2. CASE /\ file.state = "none"
           /\ \E what \in {"header", "row"} :
                  file' = [state |-> "good", rows |-> <<>>, next |-> what]
  <2>1. /\ file'.state = "good" /\ file'.rows = <<>> /\ file'.next \in {"header", "row"}
        /\ asked = {}
    BY <1>2 DEF CacheInv, FileInv
  <2> DEFINE lost == asked' \ TimesOf(file'.rows)
  <2>2. lost = {}
    BY <2>1
  <2>3. FileSound' /\ Debt' \in {0, 2}
    BY <2>1, EmptyLines DEF FileSound, Debt, Sound
  <2> HIDE DEF lost
  <2>4. Cardinality(lost) = 0
    BY <2>2, FS_EmptySet
  <2>5. Cardinality(lost) + Debt' <= 2 * kills'
    BY <1>1, <2>3, <2>4
  <2> QED
    BY <1>1, <2>1, <2>3, <2>5 DEF FileInv, lost
<1>3. ASSUME NEW n \in DOMAIN New, NEW rs \in Appended(SubSeq(New, 1, n)),
             \/ file' = Saved(rs)
             \/ /\ n + 1 \in DOMAIN New
                /\ \E line \in Begun(New[n + 1]) :
                       file' = [state |-> "good", rows |-> Append(rs, line),
                                next |-> "joined"]
      PROVE  FileInv'
  <2> DEFINE part == SubSeq(New, 1, n)
  <2>1. /\ NewTimes(part) /\ part # <<>> /\ DOMAIN part = 1..n
        /\ \A k \in 1..n : part[k] = New[k] /\ k \in DOMAIN New
        /\ n + 1 \in DOMAIN New => New[n + 1] \notin Range(part)
    BY <1>1, PrefixFacts, CacheAssumption
  <2> HIDE DEF part
  <2>2. /\ Sound(rs)
        /\ TimesOf(rs) \subseteq TimesOf(OldRows) \cup Range(part) \cup {Beyond, Beyond + 1}
        /\ \E gone : /\ IsFiniteSet(gone) /\ Cardinality(gone) <= Debt
                     /\ TimesOf(OldRows) \cup Range(part) \subseteq TimesOf(rs) \cup gone
    <3>1. rs \in Appended(part) /\ \A k \in DOMAIN part : part[k] \notin TimesOf(OldRows)
      BY <1>1, <2>1 DEF part
    <3> QED
      BY <1>1, <2>1, <3>1, AppendedFacts, CacheAssumption
  <2>3. /\ FileSound' /\ file'.state = "good"
        /\ TimesOf(rs) \subseteq TimesOf(file'.rows) /\ Debt' \in {0, 2}
    <3>1. CASE file' = Saved(rs)
      BY <2>2, <3>1 DEF Saved, FileSound, Sound, Debt
    <3>2. ASSUME n + 1 \in DOMAIN New, NEW line \in Begun(New[n + 1]),
                 file' = [state |-> "good", rows |-> Append(rs, line), next |-> "joined"]
          PROVE  /\ FileSound' /\ file'.state = "good"
                 /\ TimesOf(rs) \subseteq TimesOf(file'.rows) /\ Debt' \in {0, 2}
      <4> DEFINE t == New[n + 1]
                 rows == Append(rs, line)
      <4>1. /\ t \in 1..Beyond /\ t < Beyond /\ t \in Int /\ Beyond \in Nat
            /\ t \notin TimesOf(OldRows) /\ t \notin Range(part)
        <5>1. t \in 1..Beyond /\ t < Beyond
          <6>1. New[n + 1] < Beyond
            BY <1>1, <3>2 DEF NewTimes
          <6>2. New \in Seq(1..Beyond)
            BY <1>1 DEF NewTimes
          <6> HIDE DEF t
          <6>3. New[n + 1] \in 1..Beyond
            BY <3>2, <6>2, MemberOf
          <6> QED
            BY <6>1, <6>3 DEF t
        <5> QED
          BY <1>1, <2>1, <3>2, <5>1, CacheAssumption DEF CacheAssumption
      <4>2. t \notin TimesOf(rs)
        BY <2>2, <4>1
      <4>3. line = Piece(Torn) \/ line = Piece(t) \/ line = Row(t)
        BY <3>2 DEF Begun
      <4> HIDE DEF t
      <4>4. /\ line \in FileLine /\ (line.whole => line.time = t)
            /\ line.time \in {Torn, t}
        <5>1. /\ Piece(Torn) \in FileLine /\ Piece(Torn).time = Torn /\ ~Piece(Torn).whole
          <6>1. Torn \in Int
            BY DEF Torn
          <6> QED
            BY <6>1, NewLines
        <5>2. /\ Piece(t) \in FileLine /\ Piece(t).time = t
              /\ Row(t) \in FileLine /\ Row(t).time = t
          BY <4>1, NewLines
        <5> QED
          BY <4>3, <5>1, <5>2
      <4>5. \A i \in DOMAIN rs : rs[i].whole => rs[i].time # line.time
        <5>1. \A i \in DOMAIN rs : rs[i].whole => rs[i].time \in 1..Beyond /\ rs[i].time # t
          BY <2>2, <4>2 DEF Sound, TimesOf
        <5>2. Torn \notin 1..Beyond
          BY DEF Torn
        <5> QED
          BY <4>4, <5>1, <5>2
      <4>6. line.whole => line.time \in 1..Beyond /\ line.time \notin TimesOf(rs)
        BY <4>1, <4>2, <4>4
      <4>7. /\ Sound(rows) /\ TimesOf(rows) = TimesOf(rs) \cup {line.time} /\ rows # <<>>
        BY <2>2, <4>4, <4>5, <4>6, LineAdded
      <4>8. file'.state = "good" /\ file'.rows = rows /\ file'.next = "joined"
        BY <3>2
      <4> HIDE DEF rows
      <4> QED
        BY <4>7, <4>8 DEF FileSound, Sound, Debt
    <3> QED
      BY <1>3, <3>1, <3>2
  <2>4. Cardinality(asked' \ TimesOf(file'.rows)) + Debt' <= 2 * kills'
    <3>1. PICK gone : /\ IsFiniteSet(gone) /\ Cardinality(gone) <= Debt
                      /\ TimesOf(OldRows) \cup Range(part) \subseteq TimesOf(rs) \cup gone
      BY <2>2
    <3> DEFINE old == asked \ TimesOf(OldRows)
               lost == asked' \ TimesOf(file'.rows)
    <3>2. lost \subseteq old \cup gone
      BY <2>3, <3>1
    <3>3. IsFiniteSet(old) /\ (file.state = "good" => Cardinality(old) + Debt <= 2 * kills)
      BY <1>1 DEF CacheInv, FileInv
    <3>4. file.state # "good" => old = {} /\ Debt = 0
      BY <1>1 DEF CacheInv, FileInv, FileSound, Debt
    <3> HIDE DEF old, lost
    <3>5. /\ Cardinality(lost) <= Cardinality(old) + Cardinality(gone)
          /\ Cardinality(lost) \in Nat /\ Cardinality(old) \in Nat /\ Cardinality(gone) \in Nat
      BY <3>1, <3>2, <3>3, Few
    <3>6. Cardinality(old) + Debt <= 2 * kills
      <4>1. CASE file.state # "good"
        <5>1. Cardinality(old) = 0
          BY <3>4, <4>1, FS_EmptySet
        <5> QED
          BY <1>1, <3>4, <4>1, <5>1
      <4> QED
        BY <3>3, <4>1
    <3>7. Cardinality(lost) + Debt' <= 2 * kills'
      BY <1>1, <2>3, <3>1, <3>5, <3>6
    <3> QED
      BY <3>7 DEF lost
  <2> QED
    BY <1>1, <2>3, <2>4 DEF FileInv
<1> QED
  BY <1>2, <1>3 DEF WrittenInPart

LEMMA SaveCrashesKeeps ==
  ASSUME CacheInv, SaveCrashes
  PROVE  CacheInv'
<1>1. /\ job = "saving" /\ job' = "failed" /\ backtests # 0 /\ kills \in Nat
      /\ UNCHANGED <<clock, pandas, backtests, period, since, fetched, answer, asked, asking>>
  BY DEF SaveCrashes, CacheInv, CacheTypeOK, FileInv
<1>2. FileInv' /\ kills' \in Nat
  <2>1. CASE UNCHANGED <<file, kills>>
    BY <1>1, <2>1 DEF CacheInv, FileInv, FileSound, Debt
  <2>2. CASE /\ pandas /\ file' = [state |-> "damaged", rows |-> <<>>, next |-> "row"]
             /\ UNCHANGED kills
    <3>1. file'.state = "damaged" /\ file'.rows = <<>> /\ file'.next = "row"
      BY <2>2
    <3>2. FileSound'
      BY <3>1, EmptyLines DEF FileSound, Sound
    <3> QED
      BY <1>1, <2>2, <3>1, <3>2 DEF CacheInv, FileInv
  <2>3. CASE ~pandas /\ WrittenInPart /\ kills' = kills + 1
    BY <1>1, <2>3, WrittenInPartKeeps
  <2> QED
    BY <1>1, <2>1, <2>2, <2>3 DEF SaveCrashes
<1> QED
  BY <1>1, <1>2 DEF CacheInv, CacheTypeOK, FetchInv, AnswerInv

LEMMA CacheInit0 == CacheInit => CacheInv
<1> SUFFICES ASSUME CacheInit PROVE CacheInv
  OBVIOUS
<1> USE CacheAssumption
<1>1. CacheTypeOK
  BY DEF CacheInit, CacheTypeOK, Undated, NoDate
<1>2. FileSound /\ Debt = 0 /\ file.state = "none"
  BY EmptyLines DEF CacheInit, NoFile, FileSound, Debt
<1>3. FileInv
  BY <1>2, FS_EmptySet DEF CacheInit, FileInv, NoFile
<1> QED
  BY <1>1, <1>3 DEF CacheInit, CacheInv, FetchInv, AnswerInv

LEMMA CacheStep == CacheInv /\ [CacheNext]_cacheVars => CacheInv'
<1> SUFFICES ASSUME CacheInv, [CacheNext]_cacheVars PROVE CacheInv'
  OBVIOUS
<1> USE CacheAssumption
<1>1. CASE ClockTicks
  <2>1. /\ clock \in Nat /\ clock < LastClock /\ clock' = clock + 1
        /\ UNCHANGED <<pandas, file, backtests, job, period, since, fetched, answer, kills,
                       asked, asking>>
    BY <1>1 DEF ClockTicks, CacheInv, CacheTypeOK
  <2>2. Candles(clock) \subseteq Candles(clock')
    BY <2>1, CandlesFacts
  <2>3. FetchInv'
    BY <2>1, <2>2 DEF CacheInv, FetchInv, Candles
  <2>4. FileInv' /\ AnswerInv'
    BY <2>1 DEF CacheInv, FileInv, FileSound, Debt, AnswerInv, Usable
  <2> QED
    BY <2>1, <2>3, <2>4 DEF CacheInv, CacheTypeOK
<1>2. CASE WithoutPandas
  <2>1. /\ file = NoFile /\ job = "idle" /\ pandas' = FALSE
        /\ UNCHANGED <<clock, file, backtests, job, period, since, fetched, answer, kills,
                       asked, asking>>
    BY <1>2 DEF WithoutPandas, CacheInv, FileInv
  <2>2. FileInv'
    BY <2>1 DEF CacheInv, FileInv, FileSound, Debt, NoFile
  <2> QED
    BY <2>1, <2>2 DEF CacheInv, CacheTypeOK, FetchInv, AnswerInv
<1>3. CASE \E p \in Periods : Request(p)
  BY <1>3, RequestKeeps
<1>4. CASE FetchPage
  BY <1>4, FetchPageKeeps
<1>5. CASE FetchDone
  <2>1. /\ job = "fetching" /\ job' = "saving" /\ since >= period.to
        /\ UNCHANGED <<clock, pandas, file, backtests, period, since, fetched, answer, kills,
                       asked, asking>>
    BY <1>5 DEF FetchDone
  <2>2. \A t \in asking : t \in Range(fetched)
    <3>1. clock \in Nat /\ asking \subseteq Candles(clock)
      BY <2>1 DEF CacheInv, CacheTypeOK, FetchInv
    <3>2. \A t \in asking : t \in Nat
      BY <3>1, CandlesFacts
    <3>3. \A t \in asking : t < since
      BY <2>1, <3>2 DEF CacheInv, CacheTypeOK, FetchInv
    <3> QED
      BY <2>1, <3>3 DEF CacheInv, FetchInv
  <2>3. FetchInv'
    BY <2>1, <2>2 DEF CacheInv, FetchInv, Candles
  <2>4. FileInv' /\ AnswerInv'
    BY <2>1 DEF CacheInv, FileInv, FileSound, Debt, AnswerInv, Usable
  <2> QED
    BY <2>1, <2>3, <2>4 DEF CacheInv, CacheTypeOK
<1>6. CASE FetchFails
  <2>1. /\ job = "fetching" /\ job' = "failed"
        /\ UNCHANGED <<clock, pandas, file, backtests, period, since, fetched, answer, kills,
                       asked, asking>>
    BY <1>6 DEF FetchFails
  <2>2. FileInv'
    BY <2>1 DEF CacheInv, FileInv, FileSound, Debt
  <2> QED
    BY <2>1, <2>2 DEF CacheInv, CacheTypeOK, FetchInv, AnswerInv
<1>7. CASE Save
  BY <1>7, SaveKeeps
<1>8. CASE SaveCrashes
  BY <1>8, SaveCrashesKeeps
<1>9. CASE UNCHANGED cacheVars
  BY <1>9 DEF cacheVars, CacheInv, CacheTypeOK, FileInv, FileSound, Debt, FetchInv, AnswerInv,
              Usable, Candles
<1> QED
  BY <1>1, <1>2, <1>3, <1>4, <1>5, <1>6, <1>7, <1>8, <1>9 DEF CacheNext

\* The invariant of the file and the backtest at it holds in every reachable state.
THEOREM CacheInvariant == CacheSpec => []CacheInv
  BY CacheInit0, CacheStep, PTL DEF CacheSpec

\* A backtest gets its candles in order, each once, and of those that downloads
\* asked for it misses two at most for each killed save of the CSV file, whatever
\* the pages, the clock, the other crashes and what the kills left of the lines.
THEOREM BacktestsGetTheirCandles == CacheSpec => []ServedAsAsked
<1>1. CacheInv => ServedAsAsked
  <2> SUFFICES ASSUME CacheInv, job = "served" PROVE ServedAsAsked
    BY DEF ServedAsAsked
  <2> DEFINE rs == Provided(file.rows, period)
             missed == {t \in asked : Within(t, period)} \ Range(answer)
             lost == asked \ TimesOf(file.rows)
  <2>1. /\ Sound(file.rows) /\ file.state = "good" /\ kills \in Nat /\ IsFiniteSet(asked)
        /\ \A k \in DOMAIN rs : rs[k].whole
        /\ answer = [k \in DOMAIN rs |-> rs[k].time]
        /\ Cardinality(lost) + Debt <= 2 * kills
    BY DEF CacheInv, CacheTypeOK, FileInv, FileSound, AnswerInv, Usable
  <2>2. /\ \A i, j \in DOMAIN rs :
               i < j /\ rs[i].whole => rs[i].time < rs[j].time \/ rs[i].time = Beyond
        /\ \A t \in TimesOf(file.rows) : Within(t, period) => t \in TimesOf(rs)
    BY <2>1, ProvidedFacts
  <2> HIDE DEF rs
  <2>3. \A i, j \in DOMAIN answer : i < j => answer[i] < answer[j] \/ answer[i] = Beyond
    BY <2>1, <2>2
  <2>4. missed \subseteq lost
    <3>1. TimesOf(rs) \subseteq Range(answer)
      BY <2>1 DEF TimesOf, Range
    <3> QED
      BY <2>2, <3>1
  <2>5. lost \in SUBSET asked
    OBVIOUS
  <2> HIDE DEF missed, lost
  <2>6. IsFiniteSet(lost) /\ Cardinality(lost) \in Nat
    BY <2>1, <2>5, FS_Subset, FS_CardinalityType
  <2>7. Cardinality(missed) <= Cardinality(lost) /\ Cardinality(missed) \in Nat
    <3>1. missed \in SUBSET lost
      BY <2>4
    <3> QED
      BY <2>6, <3>1, FS_Subset, FS_CardinalityType
  <2>8. Cardinality(missed) <= 2 * kills
    BY <2>1, <2>6, <2>7 DEF Debt
  <2> QED
    BY <2>3, <2>8 DEF ServedAsAsked, missed
<1> QED
  BY <1>1, CacheInvariant, PTL

\* A period downloaded whole need not be downloaded again, as long as no save of
\* the CSV file was killed.
THEOREM DownloadedOnce == CacheSpec => []DownloadedIsCovered
<1>1. CacheInv => DownloadedIsCovered
  <2> SUFFICES ASSUME CacheInv, job = "served", kills = 0, period.from \in asked,
                      NEW t \in asked, t >= period.to - Frame
               PROVE  Covered(period)
    BY DEF DownloadedIsCovered
  <2> DEFINE lost == asked \ TimesOf(file.rows)
  <2>1. /\ file.state = "good" /\ IsFiniteSet(asked) /\ period.from \in Int
        /\ Cardinality(lost) + Debt <= 0
    BY DEF CacheInv, CacheTypeOK, FileInv, AnswerInv, Usable
  <2>2. lost \in SUBSET asked
    OBVIOUS
  <2> HIDE DEF lost
  <2>3. IsFiniteSet(lost) /\ Cardinality(lost) \in Nat
    BY <2>1, <2>2, FS_Subset, FS_CardinalityType
  <2>4. Cardinality(lost) = 0
    BY <2>1, <2>3 DEF Debt
  <2>5. lost = {}
    BY <2>3, <2>4, FS_EmptySet
  <2>6. /\ period.from \in TimesOf(file.rows) /\ period.from <= period.from
        /\ t \in TimesOf(file.rows) /\ t >= period.to - Frame
    BY <2>1, <2>5 DEF lost
  <2> QED
    BY <2>1, <2>6 DEF Covered
<1> QED
  BY <1>1, CacheInvariant, PTL

-----------------------------------------------------------------------------
(* Calibration *)

\* The functions of n turns, from start, with a step for each.
Walks(S, n, start, step) ==
    {f \in [0..n -> S] : f[0] = start /\ \A k \in 1..n : f[k] = step[k][f[k - 1]]}

LEMMA Recursion ==
  ASSUME NEW S, NEW start \in S, NEW n \in Nat, NEW step \in [1..n -> [S -> S]]
  PROVE  Walks(S, n, start, step) # {}
<1> DEFINE T == {m \in Nat : m <= n => Walks(S, m, start, step) # {}}
<1>1. 0 \in T
  <2>1. [k \in 0..0 |-> start] \in Walks(S, 0, start, step)
    BY DEF Walks
  <2> QED
    BY <2>1
<1>2. ASSUME NEW m \in Nat, m + 1 <= n, Walks(S, m, start, step) # {}
      PROVE  Walks(S, m + 1, start, step) # {}
  <2>1. PICK f \in Walks(S, m, start, step) : TRUE
    BY <1>2
  <2>2. /\ f \in [0..m -> S] /\ f[0] = start
        /\ \A k \in 1..m : f[k] = step[k][f[k - 1]]
    BY <2>1 DEF Walks
  <2> DEFINE g == [k \in 0..m + 1 |-> IF k <= m THEN f[k] ELSE step[m + 1][f[m]]]
  <2>3. f[m] \in S /\ step[m + 1][f[m]] \in S
    <3>1. m + 1 \in 1..n /\ m \in 0..m
      BY <1>2
    <3>2. step[m + 1] \in [S -> S] /\ f[m] \in S
      BY <2>2, <3>1
    <3> QED
      BY <3>2
  <2>4. g \in [0..m + 1 -> S] /\ g[0] = start
    BY <2>2, <2>3
  <2>5. ASSUME NEW k \in 1..m + 1 PROVE g[k] = step[k][g[k - 1]]
    <3>1. k - 1 \in 0..m /\ g[k - 1] = f[k - 1]
      OBVIOUS
    <3>2. CASE k <= m
      BY <2>2, <3>1, <3>2
    <3>3. CASE k = m + 1
      BY <3>1, <3>3
    <3> QED
      BY <3>2, <3>3
  <2> HIDE DEF g
  <2>6. g \in Walks(S, m + 1, start, step)
    BY <2>4, <2>5 DEF Walks
  <2> QED
    BY <2>6
<1>3. T = Nat
  <2>1. T \subseteq Nat /\ 0 \in T /\ \A m \in T : m + 1 \in T
    BY SMTT(30), <1>1, <1>2
  <2> HIDE DEF T
  <2> QED
    BY <2>1, NaturalInduction
<1> QED
  BY <1>3

\* Two such functions agree for as long as their steps do.
SameTurns(n, f, g) ==
    f[0] = g[0] /\ \A k \in 1..n : f[k - 1] = g[k - 1] => f[k] = g[k]

Agree(n, f, g) == \A k \in 0..n : f[k] = g[k]

LEMMA SameSoFar ==
  ASSUME NEW n \in Nat, NEW f, NEW g, SameTurns(n, f, g)
  PROVE  Agree(n, f, g)
<1> USE DEF SameTurns, Agree
<1> DEFINE T == {k \in Nat : k <= n => f[k] = g[k]}
<1>1. 0 \in T
  OBVIOUS
<1>2. ASSUME NEW k \in T PROVE k + 1 \in T
  <2> SUFFICES ASSUME k + 1 <= n PROVE f[k + 1] = g[k + 1]
    OBVIOUS
  <2>1. k + 1 \in 1..n /\ (k + 1) - 1 = k /\ f[k] = g[k]
    BY <1>2
  <2> QED
    BY <2>1
<1>3. T = Nat
  <2> HIDE DEF T
  <2>1. T \subseteq Nat
    BY DEF T
  <2> QED
    BY <1>1, <1>2, <2>1, NaturalInduction
<1> QED
  BY <1>3

\* What holds at the start and through each turn holds after any of them.
LEMMA AllTheWay ==
  ASSUME NEW n \in Nat, NEW good, 0 \in good, \A k \in 1..n : k - 1 \in good => k \in good
  PROVE  \A k \in 0..n : k \in good
<1> DEFINE T == {k \in Nat : k <= n => k \in good}
<1>1. 0 \in T
  OBVIOUS
<1>2. ASSUME NEW k \in T PROVE k + 1 \in T
  <2> SUFFICES ASSUME k + 1 <= n PROVE k + 1 \in good
    OBVIOUS
  <2>1. k + 1 \in 1..n /\ (k + 1) - 1 = k /\ k \in good
    BY <1>2
  <2> QED
    BY <2>1
<1>3. T = Nat
  <2> HIDE DEF T
  <2>1. T \subseteq Nat
    BY DEF T
  <2> QED
    BY <1>1, <1>2, <2>1, NaturalInduction
<1> QED
  BY <1>3

SumBody(s, f) == [k \in 0..Len(s) |-> IF k = 0 THEN 0 ELSE f[k - 1] + s[k]]

\* A sum is what adding up leaves, of naturals or of integers.
LEMMA SumFacts ==
  ASSUME NEW N \in {Nat, Int}, NEW s \in Seq(N)
  PROVE  \E f \in [0..Len(s) -> N] : f = SumBody(s, f) /\ SumOf(s) = f[Len(s)]
<1> DEFINE n == Len(s)
           step == [k \in 1..n |-> [t \in N |-> t + s[k]]]
           P(f) == f = [k \in 0..n |-> IF k = 0 THEN 0 ELSE f[k - 1] + s[k]]
           sum == CHOOSE f : P(f)
<1>1. n \in Nat /\ 0 \in N /\ \A k \in 1..n : s[k] \in N
  OBVIOUS
<1>2. step \in [1..n -> [N -> N]]
  <2>1. \A k \in 1..n : [t \in N |-> t + s[k]] \in [N -> N]
    BY <1>1
  <2> QED
    BY <2>1
<1>3. \A k \in 1..n, t \in N : step[k][t] = t + s[k]
  OBVIOUS
<1>4. PICK f \in [0..n -> N] : f[0] = 0 /\ \A k \in 1..n : f[k] = step[k][f[k - 1]]
  <2> HIDE DEF step, n
  <2>1. Walks(N, n, 0, step) # {}
    BY <1>1, <1>2, Recursion
  <2> QED
    BY <2>1 DEF Walks
<1>5. P(f)
  <2> HIDE DEF step, n
  <2>1. ASSUME NEW k \in 0..n
        PROVE  f[k] = IF k = 0 THEN 0 ELSE f[k - 1] + s[k]
    <3>1. CASE k = 0
      BY <1>4, <3>1
    <3>2. CASE k # 0
      <4>1. k \in 1..n /\ k - 1 \in 0..n
        BY <1>1, <3>2
      <4>2. f[k] = step[k][f[k - 1]] /\ f[k - 1] \in N
        BY <1>4, <4>1
      <4> QED
        BY <1>3, <3>2, <4>1, <4>2
    <3> QED
      BY <3>1, <3>2
  <2> QED
    BY <1>4, <2>1
<1>6. P(sum)
  <2> HIDE DEF P
  <2> QED
    BY <1>5, Zenon
<1>7. SumOf(s) = sum[n]
  BY Zenon DEF SumOf
<1>8. sum = f
  <2> HIDE DEF sum, n
  <2>1. SameTurns(n, sum, f)
    BY <1>1, <1>5, <1>6 DEF SameTurns
  <2>2. Agree(n, sum, f)
    BY <1>1, <2>1, SameSoFar
  <2> QED
    BY <1>5, <1>6, <2>2 DEF Agree
<1> QED
  BY <1>4, <1>5, <1>7, <1>8 DEF SumBody

LEMMA SumType ==
  ASSUME NEW N \in {Nat, Int}, NEW s \in Seq(N)
  PROVE  SumOf(s) \in N
<1>1. Len(s) \in Nat
  OBVIOUS
<1> QED
  BY <1>1, SumFacts

\* Sequences as functions.
LEMMA FunctionSeq ==
  ASSUME NEW S, NEW n \in Nat, NEW u \in [1..n -> S]
  PROVE  u \in Seq(S) /\ Len(u) = n
  OBVIOUS

LEMMA SameSeq ==
  ASSUME NEW S, NEW u \in Seq(S), NEW v \in Seq(S), Len(u) = Len(v),
         \A i \in 1..Len(u) : u[i] = v[i]
  PROVE  u = v
<1>1. u = [i \in 1..Len(u) |-> u[i]] /\ v = [i \in 1..Len(v) |-> v[i]]
  OBVIOUS
<1> QED
  BY <1>1, Zenon

LEMMA PartFacts ==
  ASSUME NEW S, NEW s \in Seq(S), NEW lo \in 1..Len(s), NEW hi \in lo..Len(s)
  PROVE  /\ SubSeq(s, lo, hi) \in Seq(S) /\ Len(SubSeq(s, lo, hi)) = hi - lo + 1
         /\ \A j \in 1..hi - lo + 1 : SubSeq(s, lo, hi)[j] = s[lo + j - 1]
<1>1. \A j \in 1..hi - lo + 1 : j \in 1..Len(SubSeq(s, lo, hi))
  OBVIOUS
<1> QED
  BY <1>1

\* The averages once they have begun, and what a replay keeps.
Running == [gain : Nat, loss : Nat, scale : Nat \ {0}]
Replays == [average : Running \cup {NoAverage}, bought : Nat, pnls : Seq(Int)]

LEMMA RiseType == ASSUME NEW x \in Nat, NEW y \in Nat PROVE Rise(x, y) \in Nat
  BY DEF Rise

LEMMA FirstAverageType ==
  ASSUME NEW n \in Nat \ {0}, NEW cl \in Seq(Nat), Len(cl) = n + 1
  PROVE  FirstAverage(cl, n) \in Running
<1> DEFINE up == [i \in 1..n |-> Rise(cl[i], cl[i + 1])]
           down == [i \in 1..n |-> Rise(cl[i + 1], cl[i])]
<1>1. \A i \in 1..n : cl[i] \in Nat /\ cl[i + 1] \in Nat
  OBVIOUS
<1>2. up \in Seq(Nat) /\ down \in Seq(Nat)
  <2>1. up \in [1..n -> Nat] /\ down \in [1..n -> Nat]
    BY <1>1, RiseType
  <2>2. n \in Nat
    OBVIOUS
  <2> HIDE DEF up, down
  <2>3. up \in Seq(Nat)
    BY <2>1, <2>2, FunctionSeq, Zenon
  <2>4. down \in Seq(Nat)
    BY <2>1, <2>2, FunctionSeq, Zenon
  <2> QED
    BY <2>3, <2>4
<1>3. SumOf(up) \in Nat /\ SumOf(down) \in Nat
  <2> HIDE DEF up, down
  <2> QED
    BY <1>2, SumType
<1> QED
  BY <1>3 DEF FirstAverage, Running

LEMMA Products ==
  ASSUME NEW x \in Nat, NEW y \in Nat
  PROVE  x * y \in Nat /\ (x # 0 /\ y # 0 => x * y # 0)
  OBVIOUS

LEMMA NextAverageType ==
  ASSUME NEW n \in Nat \ {0}, NEW a \in Running, NEW x \in Nat, NEW y \in Nat
  PROVE  NextAverage(a, x, y, n) \in Running
<1>1. /\ a.gain \in Nat /\ a.loss \in Nat /\ a.scale \in Nat /\ a.scale # 0
      /\ n - 1 \in Nat /\ Rise(x, y) \in Nat /\ Rise(y, x) \in Nat
  <2>1. a.gain \in Nat /\ a.loss \in Nat /\ a.scale \in Nat /\ a.scale # 0
    BY DEF Running
  <2>2. Rise(x, y) \in Nat /\ Rise(y, x) \in Nat
    BY RiseType, Zenon
  <2>3. n - 1 \in Nat
    OBVIOUS
  <2> QED
    BY <2>1, <2>2, <2>3
<1>2. /\ a.gain * (n - 1) \in Nat /\ Rise(x, y) * a.scale \in Nat
      /\ a.loss * (n - 1) \in Nat /\ Rise(y, x) * a.scale \in Nat
      /\ a.scale * n \in Nat /\ a.scale * n # 0
  BY <1>1, Products
<1> QED
  BY <1>2 DEF NextAverage, Running

LEMMA NotYet == NoAverage \notin Running
  BY DEF NoAverage, Running

\* A turn of the replay, from the average there is then.
LEMMA TurnFacts ==
  ASSUME NEW cl \in Seq(Nat), NEW p \in Params, NEW s \in Replays,
         NEW i \in 1..Len(cl), i > p.n
  PROVE  Turn(cl, p, s, i) \in Replays /\ Turn(cl, p, s, i).average \in Running
<1> DEFINE part == SubSeq(cl, i - p.n, i)
           a == IF s.average = NoAverage THEN FirstAverage(part, p.n)
                ELSE NextAverage(s.average, cl[i - 1], cl[i], p.n)
<1>1. /\ p.n \in Nat \ {0} /\ i \in Nat /\ s.average \in Running \cup {NoAverage}
      /\ s.bought \in Nat /\ s.pnls \in Seq(Int)
  BY DEF Params, Replays
<1>2. cl[i] \in Nat /\ i - 1 \in 1..Len(cl) /\ cl[i - 1] \in Nat
  BY <1>1
<1>3. part \in Seq(Nat) /\ Len(part) = p.n + 1
  BY <1>1
<1>4. a \in Running
  <2> HIDE DEF part
  <2> QED
    BY <1>1, <1>2, <1>3, FirstAverageType, NextAverageType
<1>5. Turn(cl, p, s, i) =
          IF RsiBelow(a, p.low) /\ s.bought = 0
          THEN [average |-> a, bought |-> cl[i], pnls |-> s.pnls]
          ELSE IF RsiAbove(a, p.high) /\ s.bought # 0
          THEN [average |-> a, bought |-> 0, pnls |-> Append(s.pnls, cl[i] - s.bought)]
          ELSE [average |-> a, bought |-> s.bought, pnls |-> s.pnls]
  BY DEF Turn
<1> HIDE DEF a
<1>7. Append(s.pnls, cl[i] - s.bought) \in Seq(Int)
  <2>1. cl[i] - s.bought \in Int
    BY <1>1, <1>2
  <2> QED
    BY <1>1, <2>1
<1>8. \A b \in Nat, q \in Seq(Int) : [average |-> a, bought |-> b, pnls |-> q] \in Replays
  BY <1>4 DEF Replays
<1>9. \/ Turn(cl, p, s, i) = [average |-> a, bought |-> cl[i], pnls |-> s.pnls]
      \/ Turn(cl, p, s, i)
             = [average |-> a, bought |-> 0, pnls |-> Append(s.pnls, cl[i] - s.bought)]
      \/ Turn(cl, p, s, i) = [average |-> a, bought |-> s.bought, pnls |-> s.pnls]
  BY <1>5
<1>10. \E b \in Nat, q \in Seq(Int) :
           Turn(cl, p, s, i) = [average |-> a, bought |-> b, pnls |-> q]
  BY <1>1, <1>2, <1>7, <1>9
<1> QED
  BY <1>4, <1>8, <1>10

LEMMA PlacesOf ==
  ASSUME NEW n \in Nat \ {0}, NEW len \in Nat, NEW i \in 1..len, i > n
  PROVE  /\ i \in Nat /\ i - 1 \in 1..len /\ i - n \in 1..len
         /\ i \in 1..len + 1 /\ i - n \in 1..len + 1 /\ i \in (i - n)..len
         /\ i \in (i - n)..len + 1 /\ i - (i - n) + 1 = n + 1
         /\ \A j \in 1..n + 1 : i - n + j - 1 \in 1..len
  OBVIOUS

\* A close more does not change the turns before it.
LEMMA TurnOfPrefix ==
  ASSUME NEW cl \in Seq(Nat), NEW x \in Nat, NEW p \in Params, NEW s,
         NEW i \in 1..Len(cl), i > p.n
  PROVE  Turn(Append(cl, x), p, s, i) = Turn(cl, p, s, i)
<1> DEFINE all == Append(cl, x)
<1> DEFINE n == p.n
           len == Len(cl)
<1>1. n \in Nat \ {0} /\ len \in Nat /\ i \in 1..len /\ i > n
  BY DEF Params
<1>2. all \in Seq(Nat) /\ Len(all) = len + 1 /\ \A j \in 1..len : all[j] = cl[j]
  OBVIOUS
<1> HIDE DEF n, len
<1>3. /\ i \in Nat /\ i - 1 \in 1..len /\ i - n \in 1..len
      /\ i \in 1..len + 1 /\ i - n \in 1..len + 1 /\ i \in (i - n)..len
      /\ i \in (i - n)..len + 1 /\ i - (i - n) + 1 = n + 1
      /\ \A j \in 1..n + 1 : i - n + j - 1 \in 1..len
  BY <1>1, PlacesOf
<1> HIDE DEF all
<1>4. SubSeq(all, i - n, i) = SubSeq(cl, i - n, i)
  <2> DEFINE u == SubSeq(all, i - n, i)
             v == SubSeq(cl, i - n, i)
  <2>1. /\ u \in Seq(Nat) /\ Len(u) = n + 1
        /\ \A j \in 1..n + 1 : u[j] = all[i - n + j - 1]
    <3>1. i - n \in 1..Len(all) /\ i \in (i - n)..Len(all)
      BY <1>2, <1>3 DEF len
    <3>2. all \in Seq(Nat)
      BY <1>2
    <3> QED
      BY ZenonT(60), <1>3, <3>1, <3>2, PartFacts
  <2>2. /\ v \in Seq(Nat) /\ Len(v) = n + 1
        /\ \A j \in 1..n + 1 : v[j] = cl[i - n + j - 1]
    <3>1. i - n \in 1..Len(cl) /\ i \in (i - n)..Len(cl)
      BY <1>3 DEF len
    <3> QED
      BY ZenonT(60), <1>3, <3>1, PartFacts
  <2> HIDE DEF u, v
  <2>3. \A j \in 1..n + 1 : u[j] = v[j]
    BY <1>2, <1>3, <2>1, <2>2 DEF len
  <2>4. u = v
    BY <2>1, <2>2, <2>3, SameSeq
  <2> QED
    BY <2>4 DEF u, v
<1>5. all[i] = cl[i] /\ all[i - 1] = cl[i - 1]
  BY <1>1, <1>2, <1>3 DEF len
<1>6. Turn(all, p, s, i) = Turn(cl, p, s, i)
  BY <1>4, <1>5 DEF Turn, n
<1> QED
  BY <1>6 DEF all

ReplayBody(cl, p, f) ==
    [i \in 0..Len(cl) |-> IF i <= p.n THEN NewReplay ELSE Turn(cl, p, f[i - 1], i)]

LEMMA ReplayedFacts ==
  ASSUME NEW cl \in Seq(Nat), NEW p \in Params
  PROVE  \E f \in [0..Len(cl) -> Replays] :
             f = ReplayBody(cl, p, f) /\ Replayed(cl, p) = f[Len(cl)]
<1> DEFINE n == Len(cl)
           turn(i, s) == IF i <= p.n THEN NewReplay ELSE Turn(cl, p, s, i)
           step == [i \in 1..n |-> [s \in Replays |-> turn(i, s)]]
           P(f) == f = [i \in 0..n |-> IF i <= p.n THEN NewReplay
                                       ELSE Turn(cl, p, f[i - 1], i)]
           after == CHOOSE f : P(f)
<1>1. n \in Nat /\ p.n \in Nat /\ NewReplay \in Replays
  BY DEF Params, NewReplay, Replays
<1>2. \A i \in 1..n, s \in Replays : turn(i, s) \in Replays
  BY <1>1, TurnFacts
<1>3. step \in [1..n -> [Replays -> Replays]]
  <2> HIDE DEF turn, n
  <2>1. \A i \in 1..n : [s \in Replays |-> turn(i, s)] \in [Replays -> Replays]
    BY <1>2
  <2> QED
    BY <2>1
<1>4. \A i \in 1..n, s \in Replays : step[i][s] = turn(i, s)
  BY Zenon
<1>5. PICK f \in [0..n -> Replays] :
          f[0] = NewReplay /\ \A i \in 1..n : f[i] = step[i][f[i - 1]]
  <2> HIDE DEF step, n
  <2>1. Walks(Replays, n, NewReplay, step) # {}
    BY <1>1, <1>3, Recursion
  <2> QED
    BY <2>1 DEF Walks
<1>6. P(f)
  <2> HIDE DEF step, n
  <2>1. ASSUME NEW i \in 0..n
        PROVE  f[i] = IF i <= p.n THEN NewReplay ELSE Turn(cl, p, f[i - 1], i)
    <3>1. CASE i = 0
      BY <1>1, <1>5, <3>1
    <3>2. CASE i # 0
      <4>1. i \in 1..n /\ i - 1 \in 0..n
        BY <1>1, <3>2
      <4>2. f[i] = step[i][f[i - 1]] /\ f[i - 1] \in Replays
        BY <1>5, <4>1
      <4>3. f[i] = turn(i, f[i - 1])
        <5> HIDE DEF turn
        <5> QED
          BY <1>4, <4>1, <4>2
      <4> QED
        BY <4>3
    <3> QED
      BY <3>1, <3>2
  <2> QED
    BY <1>5, <2>1
<1>7. P(after)
  <2> HIDE DEF P
  <2> QED
    BY <1>6, Zenon
<1>8. Replayed(cl, p) = after[n]
  BY Zenon DEF Replayed
<1>9. after = f
  <2> HIDE DEF after, n, turn
  <2>1. SameTurns(n, after, f)
    <3>1. after[0] = f[0]
      BY <1>1, <1>6, <1>7
    <3>2. \A i \in 1..n : after[i - 1] = f[i - 1] => after[i] = f[i]
      BY <1>1, <1>6, <1>7
    <3> QED
      BY <3>1, <3>2 DEF SameTurns
  <2>2. Agree(n, after, f)
    BY <1>1, <2>1, SameSoFar
  <2> QED
    BY <1>6, <1>7, <2>2 DEF Agree
<1> QED
  BY <1>5, <1>6, <1>8, <1>9 DEF ReplayBody

LEMMA ReplayedType ==
  ASSUME NEW cl \in Seq(Nat), NEW p \in Params
  PROVE  Replayed(cl, p) \in Replays
<1>1. Len(cl) \in 0..Len(cl)
  OBVIOUS
<1> QED
  BY <1>1, ReplayedFacts

\* A replay does nothing while there are too few closes.
LEMMA ReplayedFew ==
  ASSUME NEW cl \in Seq(Nat), NEW p \in Params, Len(cl) <= p.n
  PROVE  Replayed(cl, p) = NewReplay
<1>1. Len(cl) \in 0..Len(cl)
  OBVIOUS
<1> QED
  BY <1>1, ReplayedFacts DEF ReplayBody

\* From then on a close more is a turn more.
LEMMA ReplayedMore ==
  ASSUME NEW cl \in Seq(Nat), NEW x \in Nat, NEW p \in Params, Len(cl) >= p.n
  PROVE  Replayed(Append(cl, x), p)
             = Turn(Append(cl, x), p, Replayed(cl, p), Len(cl) + 1)
<1> DEFINE all == Append(cl, x)
           n == Len(cl)
<1>1. /\ n \in Nat /\ p.n \in Nat \ {0}
      /\ all \in Seq(Nat) /\ Len(all) = n + 1
  BY DEF Params
<1>2. PICK f : f = ReplayBody(cl, p, f) /\ Replayed(cl, p) = f[n]
  BY ReplayedFacts
<1> HIDE DEF all
<1>3. PICK g : g = ReplayBody(all, p, g) /\ Replayed(all, p) = g[n + 1]
  BY <1>1, ReplayedFacts
<1> HIDE DEF n
<1>4. \A i \in 0..n : f[i] = IF i <= p.n THEN NewReplay ELSE Turn(cl, p, f[i - 1], i)
  BY <1>2 DEF ReplayBody, n
<1>5. \A i \in 0..n + 1 : g[i] = IF i <= p.n THEN NewReplay ELSE Turn(all, p, g[i - 1], i)
  BY <1>1, <1>3 DEF ReplayBody
<1>6. \A i \in 1..n : i > p.n => \A s : Turn(all, p, s, i) = Turn(cl, p, s, i)
  BY TurnOfPrefix DEF all, n
<1>7. SameTurns(n, f, g)
  <2>1. f[0] = g[0]
    BY <1>1, <1>4, <1>5
  <2>2. ASSUME NEW i \in 1..n, f[i - 1] = g[i - 1] PROVE f[i] = g[i]
    <3>1. i \in 0..n /\ i \in 0..n + 1 /\ (i <= p.n \/ i > p.n)
      BY <1>1
    <3> QED
      BY <1>4, <1>5, <1>6, <2>2, <3>1
  <2> QED
    BY <2>1, <2>2 DEF SameTurns
<1>8. f[n] = g[n]
  BY <1>1, <1>7, SameSoFar DEF Agree
<1>9. n + 1 \in 0..n + 1 /\ ~(n + 1 <= p.n) /\ (n + 1) - 1 = n
  BY <1>1 DEF n
<1> QED
  BY <1>2, <1>3, <1>5, <1>8, <1>9 DEF all, n

\* The results of the trades that signals make, a SELL for each BUY.
Signals == {"buy", "sell"} \X (Nat \ {0})
Alternating(sg) == \A i \in DOMAIN sg : sg[i][1] = IF i % 2 = 1 THEN "buy" ELSE "sell"
ResultsOf(sg) == [i \in 1..Len(sg) \div 2 |-> sg[2 * i][2] - sg[2 * i - 1][2]]

IsAppended(t, s, x) == t = Append(s, x)

LEMMA HalvesOf ==
  ASSUME NEW n \in Nat
  PROVE  /\ n % 2 \in {0, 1} /\ n \div 2 \in Nat /\ n = 2 * (n \div 2) + (n % 2)
         /\ (n + 1) % 2 = 1 - (n % 2)
         /\ (n + 1) \div 2 = (n \div 2) + (n % 2)
  OBVIOUS

LEMMA BuyFacts ==
  ASSUME NEW sg \in Seq(Signals), Alternating(sg), Len(sg) % 2 = 0,
         NEW c \in Nat \ {0}, NEW t, IsAppended(t, sg, <<"buy", c>>)
  PROVE  /\ t \in Seq(Signals) /\ Alternating(t) /\ Len(t) % 2 = 1
         /\ ResultsOf(t) = ResultsOf(sg) /\ t[Len(t)][2] = c
<1> DEFINE n == Len(sg)
<1>1. n \in Nat /\ n % 2 = 0 /\ <<"buy", c>> \in Signals
  <2>1. "buy" \in {"buy", "sell"} /\ c \in Nat \ {0}
    OBVIOUS
  <2>2. <<"buy", c>> \in Signals
    BY <2>1 DEF Signals
  <2>3. n \in Nat /\ n % 2 = 0
    OBVIOUS
  <2> QED
    BY <2>2, <2>3
<1>2. /\ t \in Seq(Signals) /\ Len(t) = n + 1 /\ t[n + 1] = <<"buy", c>>
      /\ DOMAIN t = 1..n + 1 /\ DOMAIN sg = 1..n /\ \A i \in 1..n : t[i] = sg[i]
  BY <1>1 DEF IsAppended
<1> HIDE DEF n
<1>3. (n + 1) % 2 = 1 /\ (n + 1) \div 2 = n \div 2 /\ n \div 2 \in Nat /\ n = 2 * (n \div 2)
  BY <1>1, HalvesOf
<1>4. Alternating(t)
  <2>1. ASSUME NEW i \in 1..n + 1
        PROVE  t[i][1] = IF i % 2 = 1 THEN "buy" ELSE "sell"
    <3>1. CASE i \in 1..n
      BY <1>2, <3>1 DEF Alternating
    <3>2. CASE i = n + 1
      <4>1. t[i] = <<"buy", c>> /\ i % 2 = 1
        BY <1>2, <1>3, <3>2
      <4>2. t[i][1] = "buy"
        BY <4>1
      <4> QED
        BY <4>1, <4>2, Zenon
    <3>3. i \in 1..n \/ i = n + 1
      BY <1>1
    <3> QED
      BY <3>1, <3>2, <3>3
  <2> QED
    BY <1>2, <2>1 DEF Alternating
<1>5. ResultsOf(t) = ResultsOf(sg)
  <2>1. \A i \in 1..n \div 2 : 2 * i \in 1..n /\ 2 * i - 1 \in 1..n
    BY <1>1, <1>3
  <2>2. \A i \in 1..n \div 2 : t[2 * i] = sg[2 * i] /\ t[2 * i - 1] = sg[2 * i - 1]
    BY <1>2, <2>1
  <2> QED
    BY <1>2, <1>3, <2>2 DEF ResultsOf, n
<1> QED
  BY <1>2, <1>3, <1>4, <1>5

LEMMA SellFacts ==
  ASSUME NEW sg \in Seq(Signals), Alternating(sg), Len(sg) % 2 = 1,
         NEW c \in Nat \ {0}, NEW t, IsAppended(t, sg, <<"sell", c>>)
  PROVE  /\ t \in Seq(Signals) /\ Alternating(t) /\ Len(t) % 2 = 0
         /\ ResultsOf(t) = Append(ResultsOf(sg), c - sg[Len(sg)][2])
<1> DEFINE n == Len(sg)
           h == n \div 2
           last == c - sg[n][2]
<1>1. n \in Nat /\ n % 2 = 1 /\ <<"sell", c>> \in Signals
  <2>1. "sell" \in {"buy", "sell"} /\ c \in Nat \ {0}
    OBVIOUS
  <2>2. <<"sell", c>> \in Signals
    BY <2>1 DEF Signals
  <2>3. n \in Nat /\ n % 2 = 1
    OBVIOUS
  <2> QED
    BY <2>2, <2>3
<1>2. /\ t \in Seq(Signals) /\ Len(t) = n + 1 /\ t[n + 1] = <<"sell", c>>
      /\ DOMAIN t = 1..n + 1 /\ DOMAIN sg = 1..n /\ \A i \in 1..n : t[i] = sg[i]
      /\ \A i \in 1..n : sg[i] \in Signals
  BY <1>1 DEF IsAppended
<1> HIDE DEF n
<1>3. (n + 1) % 2 = 0 /\ (n + 1) \div 2 = h + 1 /\ h \in Nat /\ n = 2 * h + 1
  BY <1>1, HalvesOf
<1>4. Alternating(t)
  <2>1. ASSUME NEW i \in 1..n + 1
        PROVE  t[i][1] = IF i % 2 = 1 THEN "buy" ELSE "sell"
    <3>1. CASE i \in 1..n
      BY <1>2, <3>1 DEF Alternating
    <3>2. CASE i = n + 1
      <4>1. t[i] = <<"sell", c>> /\ i % 2 # 1
        BY SMTT(30), <1>2, <1>3, <3>2
      <4>2. t[i][1] = "sell"
        BY <4>1
      <4> QED
        BY <4>1, <4>2, Zenon
    <3>3. i \in 1..n \/ i = n + 1
      BY <1>1
    <3> QED
      BY <3>1, <3>2, <3>3
  <2> QED
    BY <1>2, <2>1 DEF Alternating
<1> HIDE DEF h
<1>5. ResultsOf(t) = [i \in 1..h + 1 |-> t[2 * i][2] - t[2 * i - 1][2]]
      /\ ResultsOf(sg) = [i \in 1..h |-> sg[2 * i][2] - sg[2 * i - 1][2]]
  BY <1>2, <1>3 DEF ResultsOf, n, h
<1>6. \A i \in 1..h : t[2 * i] = sg[2 * i] /\ t[2 * i - 1] = sg[2 * i - 1]
  <2>1. \A i \in 1..h : 2 * i \in 1..n /\ 2 * i - 1 \in 1..n
    BY <1>1, <1>3
  <2> QED
    BY <1>2, <2>1
<1>7. t[2 * (h + 1)][2] = c /\ t[2 * (h + 1) - 1] = sg[n]
  <2>1. 2 * (h + 1) = n + 1 /\ 2 * (h + 1) - 1 = n /\ n \in 1..n
    BY <1>1, <1>3
  <2> QED
    BY <1>2, <2>1
<1>8. ResultsOf(sg) \in Seq(Int) /\ Len(ResultsOf(sg)) = h /\ last \in Int
  <2>1. \A i \in 1..n : sg[i][2] \in Int
    BY <1>2 DEF Signals
  <2>2. \A i \in 1..h : 2 * i \in 1..n /\ 2 * i - 1 \in 1..n
    BY <1>1, <1>3
  <2>3. ASSUME NEW i \in 1..h PROVE sg[2 * i][2] - sg[2 * i - 1][2] \in Int
    <3>1. sg[2 * i][2] \in Int /\ sg[2 * i - 1][2] \in Int
      BY <2>1, <2>2
    <3> QED
      BY <3>1
  <2>4. ResultsOf(sg) \in [1..h -> Int]
    BY <1>5, <2>3
  <2>5. n \in 1..n
    BY <1>1, <1>3
  <2>6. last \in Int
    BY <2>1, <2>5
  <2> QED
    BY <1>3, <2>4, <2>6, FunctionSeq
<1>9. /\ Append(ResultsOf(sg), last) \in Seq(Int)
      /\ Len(Append(ResultsOf(sg), last)) = h + 1
      /\ \A i \in 1..h + 1 : Append(ResultsOf(sg), last)[i]
                                  = IF i = h + 1 THEN last ELSE ResultsOf(sg)[i]
  <2> DEFINE r == ResultsOf(sg)
  <2>1. r \in Seq(Int) /\ Len(r) = h /\ last \in Int
    BY <1>8
  <2> HIDE DEF last, r
  <2>2. /\ Append(r, last) \in Seq(Int) /\ Len(Append(r, last)) = h + 1
        /\ \A i \in 1..h + 1 : Append(r, last)[i] = IF i = h + 1 THEN last ELSE r[i]
    BY <2>1
  <2> QED
    BY <2>2 DEF r
<1>10. \A i \in 1..h + 1 : t[2 * i][2] - t[2 * i - 1][2]
                             = IF i = h + 1 THEN last ELSE ResultsOf(sg)[i]
  <2> SUFFICES ASSUME NEW i \in 1..h + 1
               PROVE  t[2 * i][2] - t[2 * i - 1][2]
                          = IF i = h + 1 THEN last ELSE ResultsOf(sg)[i]
    OBVIOUS
  <2>1. CASE i = h + 1
    BY <1>7, <2>1
  <2>2. CASE i # h + 1
    <3>1. i \in 1..h
      BY <1>3, <2>2
    <3>2. ResultsOf(sg)[i] = sg[2 * i][2] - sg[2 * i - 1][2]
      BY <1>5, <3>1
    <3> QED
      BY <1>6, <2>2, <3>1, <3>2
  <2> QED
    BY <2>1, <2>2
<1>11. ResultsOf(t) = Append(ResultsOf(sg), last)
  <2> DEFINE r == ResultsOf(t)
             q == Append(ResultsOf(sg), last)
  <2>1. q \in Seq(Int) /\ Len(q) = h + 1
    BY <1>9
  <2>2. \A i \in 1..h + 1 : r[i] = q[i]
    <3> HIDE DEF last
    <3> QED
      BY <1>5, <1>9, <1>10
  <2>3. r = [i \in 1..h + 1 |-> r[i]]
    BY <1>5
  <2> HIDE DEF r, q
  <2>4. \A i \in 1..h + 1 : q[i] \in Int
    BY <1>3, <2>1
  <2>5. r \in [1..h + 1 -> Int]
    BY <2>2, <2>3, <2>4
  <2>6. r \in Seq(Int) /\ Len(r) = h + 1
    BY <1>3, <2>5, FunctionSeq
  <2>7. r = q
    BY <2>1, <2>2, <2>6, SameSeq
  <2> QED
    BY <2>7 DEF r, q
<1> QED
  BY <1>2, <1>3, <1>4, <1>11 DEF n

\* The window is the last k closes there are.
IsTail(w, s, k) ==
    /\ Len(w) = IF Len(s) <= k THEN Len(s) ELSE k
    /\ \A j \in 1..Len(w) : w[j] = s[Len(s) - Len(w) + j]

Slid(w, x, k) == SubSeq(Append(w, x), IF Len(w) = k THEN 2 ELSE 1, Len(w) + 1)

LEMMA SlideFacts ==
  ASSUME NEW k \in Nat \ {0}, NEW w \in Seq(Nat), NEW s \in Seq(Nat), IsTail(w, s, k),
         NEW x \in Nat, NEW v, v = Slid(w, x, k)
  PROVE  v \in Seq(Nat) /\ IsTail(v, Append(s, x), k)
<1> DEFINE l == Len(w)
           n == Len(s)
           lo == IF l = k THEN 2 ELSE 1
           all == Append(w, x)
           t == Append(s, x)
<1>1. /\ l \in Nat /\ n \in Nat /\ l = (IF n <= k THEN n ELSE k)
      /\ all \in Seq(Nat) /\ Len(all) = l + 1 /\ all[l + 1] = x
      /\ \A j \in 1..l : all[j] = w[j]
      /\ Len(t) = n + 1 /\ t[n + 1] = x /\ \A j \in 1..n : t[j] = s[j]
  BY DEF IsTail
<1>2. \A j \in 1..l : w[j] = s[n - l + j]
  BY DEF IsTail
<1>3. v = SubSeq(all, lo, l + 1)
  BY DEF Slid
<1> HIDE DEF l, n, all, t
<1>4. lo \in 1..Len(all) /\ l + 1 \in lo..Len(all) /\ lo \in 1..2
  BY <1>1
<1>5. /\ v \in Seq(Nat) /\ Len(v) = (l + 1) - lo + 1
      /\ \A j \in 1..(l + 1) - lo + 1 : v[j] = all[lo + j - 1]
  <2>1. all \in Seq(Nat)
    BY <1>1
  <2> DEFINE hi == l + 1
  <2>2. lo \in 1..Len(all) /\ hi \in lo..Len(all)
    BY <1>4
  <2> HIDE DEF lo, hi
  <2>3. /\ SubSeq(all, lo, hi) \in Seq(Nat) /\ Len(SubSeq(all, lo, hi)) = hi - lo + 1
        /\ \A j \in 1..hi - lo + 1 : SubSeq(all, lo, hi)[j] = all[lo + j - 1]
    BY <2>1, <2>2, PartFacts
  <2>4. /\ v \in Seq(Nat) /\ Len(v) = hi - lo + 1
        /\ \A j \in 1..hi - lo + 1 : v[j] = all[lo + j - 1]
    BY <1>3, <2>3, Zenon DEF hi
  <2> QED
    BY <2>4, Zenon DEF hi
<1>6. Len(v) = IF n + 1 <= k THEN n + 1 ELSE k
  <2>1. l \in Nat /\ n \in Nat /\ l = (IF n <= k THEN n ELSE k)
    BY <1>1
  <2> QED
    BY <1>5, <2>1
<1> HIDE DEF lo
<1>7. ASSUME NEW j \in 1..Len(v) PROVE v[j] = t[(n + 1) - Len(v) + j]
  <2> DEFINE m == lo + j - 1
  <2>1. /\ l \in Nat /\ n \in Nat /\ l <= n /\ lo \in Int /\ Len(v) = (l + 1) - lo + 1
    BY <1>1, <1>4, <1>5
  <2>2. m \in 1..l + 1 /\ (n + 1) - Len(v) + j = n - l + m
    BY <1>4, <2>1
  <2>3. v[j] = all[m]
    BY <1>5, <2>1
  <2> HIDE DEF m
  <2>4. CASE m = l + 1
    <3>1. n - l + m = n + 1
      BY <2>1, <2>4
    <3> QED
      BY <1>1, <2>2, <2>3, <2>4, <3>1
  <2>5. CASE m # l + 1
    <3>1. m \in 1..l /\ n - l + m \in 1..n
      BY <2>1, <2>2, <2>5
    <3>2. all[m] = w[m] /\ w[m] = s[n - l + m] /\ t[n - l + m] = s[n - l + m]
      BY <1>1, <1>2, <3>1
    <3> QED
      BY <2>2, <2>3, <3>2
  <2> QED
    BY <2>4, <2>5
<1>8. Len(t) = n + 1
  BY <1>1
<1>9. IsTail(v, t, k)
  <2>1. Len(v) = IF Len(t) <= k THEN Len(t) ELSE k
    BY <1>6, <1>8
  <2>2. ASSUME NEW j \in 1..Len(v) PROVE v[j] = t[Len(t) - Len(v) + j]
    BY <1>7, <1>8, Zenon
  <2> QED
    BY <2>1, <2>2, Zenon DEF IsTail
<1> QED
  BY <1>5, <1>9 DEF t

\* The variance is not negative, so that scores are ordered as their ratios are.
LEMMA SquareOf == ASSUME NEW x \in Int PROVE x * x \in Nat
<1>1. x >= 0 \/ -x >= 0
  OBVIOUS
<1>2. x * x = (-x) * (-x)
  OBVIOUS
<1> QED
  BY <1>1, <1>2

LEMMA SpreadStep ==
  ASSUME NEW k \in Nat, NEW q \in Int, NEW s \in Int, NEW y \in Int,
         k * q - s * s >= 0,
         \A x \in Int : q + k * (x * x) - 2 * (s * x) >= 0
  PROVE  /\ (k + 1) * (q + y * y) - (s + y) * (s + y) >= 0
         /\ \A x \in Int : (q + y * y) + (k + 1) * (x * x) - 2 * ((s + y) * x) >= 0
<1>1. (k + 1) * (q + y * y) - (s + y) * (s + y) >= 0
  <2>1. (k + 1) * (q + y * y) = k * q + k * (y * y) + q + y * y
    OBVIOUS
  <2>2. (s + y) * (s + y) = s * s + 2 * (s * y) + y * y
    OBVIOUS
  <2>3. q + k * (y * y) - 2 * (s * y) >= 0
    OBVIOUS
  <2> DEFINE yy == y * y
             kq == k * q
             kyy == k * yy
             ss == s * s
             sy == s * y
  <2>4. yy \in Int /\ kq \in Int /\ kyy \in Int /\ ss \in Int /\ sy \in Int
    OBVIOUS
  <2>5. /\ kq - ss >= 0 /\ q + kyy - 2 * sy >= 0
        /\ (k + 1) * (q + y * y) = kq + kyy + q + yy
        /\ (s + y) * (s + y) = ss + 2 * sy + yy
    BY <2>1, <2>2, <2>3
  <2> HIDE DEF yy, kq, kyy, ss, sy
  <2>6. (kq + kyy + q + yy) - (ss + 2 * sy + yy) >= 0
    BY <2>4, <2>5
  <2> QED
    BY <2>5, <2>6
<1>2. ASSUME NEW x \in Int
      PROVE  (q + y * y) + (k + 1) * (x * x) - 2 * ((s + y) * x) >= 0
  <2> DEFINE xx == x * x
             yy == y * y
             kxx == k * xx
             sx == s * x
             yx == y * x
  <2>1. xx \in Int /\ yy \in Int /\ kxx \in Int /\ sx \in Int /\ yx \in Int
    OBVIOUS
  <2>2. (k + 1) * (x * x) = kxx + xx /\ (s + y) * x = sx + yx
    OBVIOUS
  <2>3. (y - x) * (y - x) = yy - 2 * yx + xx
    OBVIOUS
  <2>4. (y - x) * (y - x) >= 0
    <3>1. y - x \in Int
      OBVIOUS
    <3> QED
      BY <3>1, SquareOf
  <2>5. q + kxx - 2 * sx >= 0
    OBVIOUS
  <2>6. yy - 2 * yx + xx >= 0
    BY <2>3, <2>4
  <2> HIDE DEF xx, yy, kxx, sx, yx
  <2>7. (q + yy) + (kxx + xx) - 2 * (sx + yx) >= 0
    BY <2>1, <2>5, <2>6
  <2> QED
    BY <2>2, <2>7 DEF yy
<1> QED
  BY <1>1, <1>2

LEMMA SpreadOfSums ==
  ASSUME NEW s \in Seq(Int), NEW q, q = [i \in DOMAIN s |-> s[i] * s[i]]
  PROVE  /\ SumOf(q) \in Int /\ SumOf(s) \in Int
         /\ Len(s) * SumOf(q) - SumOf(s) * SumOf(s) \in Nat
<1> DEFINE n == Len(s)
<1>1. n \in Nat /\ DOMAIN s = 1..n /\ \A i \in 1..n : s[i] \in Int
  OBVIOUS
<1>2. q \in Seq(Int) /\ Len(q) = n /\ \A i \in 1..n : q[i] = s[i] * s[i]
  <2> HIDE DEF n
  <2>1. q \in [1..n -> Int] /\ \A i \in 1..n : q[i] = s[i] * s[i]
    BY <1>1
  <2> QED
    BY <1>1, <2>1, FunctionSeq
<1>3. PICK f \in [0..n -> Int] : f = SumBody(s, f) /\ SumOf(s) = f[n]
  <2>1. Int \in {Nat, Int}
    OBVIOUS
  <2> QED
    BY <2>1, SumFacts
<1>4. PICK g \in [0..Len(q) -> Int] : g = SumBody(q, g) /\ SumOf(q) = g[Len(q)]
  <2>1. Int \in {Nat, Int}
    OBVIOUS
  <2> QED
    BY <1>2, <2>1, SumFacts
<1> HIDE DEF n
<1>5. /\ f[0] = 0 /\ g[0] = 0
      /\ \A k \in 1..n : f[k] = f[k - 1] + s[k] /\ g[k] = g[k - 1] + s[k] * s[k]
      /\ \A k \in 0..n : f[k] \in Int /\ g[k] \in Int
  <2>1. \A k \in 0..n : f[k] = IF k = 0 THEN 0 ELSE f[k - 1] + s[k]
    BY <1>3 DEF SumBody, n
  <2>2. \A k \in 0..n : g[k] = IF k = 0 THEN 0 ELSE g[k - 1] + q[k]
    BY <1>2, <1>4 DEF SumBody
  <2>3. f[0] = 0 /\ g[0] = 0
    <3>1. 0 \in 0..n
      BY <1>1
    <3> QED
      BY <2>1, <2>2, <3>1, Zenon
  <2>4. ASSUME NEW k \in 1..n
        PROVE  f[k] = f[k - 1] + s[k] /\ g[k] = g[k - 1] + s[k] * s[k]
    <3>1. k \in 0..n /\ k # 0
      BY <1>1
    <3>2. f[k] = f[k - 1] + s[k]
      BY <2>1, <3>1, Zenon
    <3>3. g[k] = g[k - 1] + q[k]
      BY <2>2, <3>1, Zenon
    <3>4. q[k] = s[k] * s[k]
      BY <1>2
    <3> QED
      BY <3>2, <3>3, <3>4, Zenon
  <2> QED
    BY <1>2, <1>3, <1>4, <2>3, <2>4
<1> DEFINE good == {k \in 0..n : /\ k * g[k] - f[k] * f[k] >= 0
                                 /\ \A x \in Int : g[k] + k * (x * x) - 2 * (f[k] * x) >= 0}
<1>6. 0 \in good
  <2>1. \A x \in Int : 0 + 0 * (x * x) - 2 * (0 * x) >= 0
    OBVIOUS
  <2>2. 0 \in 0..n /\ 0 * 0 - 0 * 0 >= 0
    BY <1>1
  <2> QED
    BY <1>5, <2>1, <2>2
<1>7. ASSUME NEW k \in 1..n, k - 1 \in good PROVE k \in good
  <2> DEFINE j == k - 1
  <2>1. j \in Nat /\ j + 1 = k /\ j \in 0..n /\ k \in 0..n
    BY <1>1
  <2>2. /\ j * g[j] - f[j] * f[j] >= 0
        /\ \A x \in Int : g[j] + j * (x * x) - 2 * (f[j] * x) >= 0
    BY <1>7
  <2>3. f[j] \in Int /\ g[j] \in Int /\ s[k] \in Int
    BY <1>1, <1>5, <2>1
  <2>4. f[k] = f[j] + s[k] /\ g[k] = g[j] + s[k] * s[k]
    BY <1>5
  <2> HIDE DEF j
  <2>5. /\ (j + 1) * (g[j] + s[k] * s[k]) - (f[j] + s[k]) * (f[j] + s[k]) >= 0
        /\ \A x \in Int : (g[j] + s[k] * s[k]) + (j + 1) * (x * x)
                              - 2 * ((f[j] + s[k]) * x) >= 0
    BY <2>1, <2>2, <2>3, SpreadStep
  <2>6. /\ k * g[k] - f[k] * f[k] >= 0
        /\ \A x \in Int : g[k] + k * (x * x) - 2 * (f[k] * x) >= 0
    BY <2>1, <2>4, <2>5, Zenon
  <2> QED
    BY <2>1, <2>6
<1>8. n \in good
  <2> HIDE DEF good
  <2>1. \A k \in 0..n : k \in good
    BY <1>1, <1>6, <1>7, AllTheWay
  <2> QED
    BY <1>1, <2>1
<1>9. n * g[n] - f[n] * f[n] >= 0 /\ n \in 0..n
  BY <1>1, <1>8
<1>10. n * g[n] - f[n] * f[n] \in Nat
  <2>1. n * g[n] - f[n] * f[n] \in Int
    BY <1>1, <1>5, <1>9
  <2> QED
    BY <1>9, <2>1
<1> QED
  BY <1>2, <1>3, <1>4, <1>5, <1>9, <1>10 DEF n

Scores == {x \in [num : Int, den : Nat] : x.den = 0 => x.num \in {-1, 1}}

LEMMA ScoreOfType ==
  ASSUME NEW pnls \in Seq(Int)
  PROVE  ScoreOf(pnls) \in Scores
<1> DEFINE q == [i \in DOMAIN pnls |-> pnls[i] * pnls[i]]
           sum == SumOf(pnls)
           var == Len(pnls) * SumOf(q) - sum * sum
<1>1. var \in Nat /\ sum \in Int
  <2> HIDE DEF q
  <2> QED
    BY SpreadOfSums DEF q
<1>2. ScoreOf(pnls) = Ratio(sum, var)
  BY DEF ScoreOf
<1> HIDE DEF sum, var
<1>3. Ratio(sum, var) \in Scores
  <2>1. CASE var = 0
    <3>1. Ratio(sum, var) = [num |-> IF sum > 0 THEN 1 ELSE -1, den |-> 0]
      BY <2>1 DEF Ratio
    <3> QED
      BY <3>1 DEF Scores
  <2>2. CASE var # 0
    <3>1. Ratio(sum, var) = [num |-> IF sum > 0 THEN sum * sum ELSE -(sum * sum),
                             den |-> var]
      BY <2>2 DEF Ratio
    <3>2. sum * sum \in Int
      BY <1>1
    <3> QED
      BY <1>1, <2>2, <3>1, <3>2 DEF Scores
  <2> QED
    BY <2>1, <2>2
<1> QED
  BY <1>2, <1>3

LEMMA ScoreType ==
  ASSUME NEW cl \in Seq(Nat), NEW p \in Params
  PROVE  Score(cl, p) \in Scores
<1>1. Replayed(cl, p).pnls \in Seq(Int)
  BY ReplayedType DEF Replays
<1> QED
  BY <1>1, ScoreOfType DEF Score, Replay

\* Better is a strict weak order of scores.
LEMMA CrossLess ==
  ASSUME NEW a \in Int, NEW b \in Int, NEW k \in Nat, a <= b
  PROVE  a * k <= b * k
<1>1. (b - a) * k \in Nat
  <2>1. b - a \in Nat
    OBVIOUS
  <2> QED
    BY <2>1, Products
<1>2. (b - a) * k = b * k - a * k
  OBVIOUS
<1>3. a * k \in Int /\ b * k \in Int
  OBVIOUS
<1> QED
  BY <1>1, <1>2, <1>3

LEMMA CrossCancel ==
  ASSUME NEW a \in Int, NEW b \in Int, NEW k \in Nat \ {0}, a * k <= b * k
  PROVE  a <= b
<1> SUFFICES ASSUME b + 1 <= a PROVE FALSE
  OBVIOUS
<1>1. (b + 1) * k <= a * k
  <2>1. b + 1 \in Int /\ k \in Nat
    OBVIOUS
  <2> QED
    BY <2>1, CrossLess
<1>2. (b + 1) * k = b * k + k
  OBVIOUS
<1>3. a * k \in Int /\ b * k \in Int
  OBVIOUS
<1> QED
  BY <1>1, <1>2, <1>3

\* Not being better is transitive.
LEMMA NoBetter ==
  ASSUME NEW x \in Scores, NEW y \in Scores, NEW z \in Scores,
         ~Better(x, y), ~Better(y, z)
  PROVE  ~Better(x, z)
<1> DEFINE a == x.num
           b == x.den
           c == y.num
           d == y.den
           e == z.num
           f == z.den
<1>1. /\ a \in Int /\ c \in Int /\ e \in Int /\ b \in Nat /\ d \in Nat /\ f \in Nat
      /\ b = 0 => a \in {-1, 1}
      /\ d = 0 => c \in {-1, 1}
      /\ f = 0 => e \in {-1, 1}
  BY DEF Scores
<1>2. /\ IF b = 0 /\ d = 0 THEN a <= c ELSE a * d <= c * b
      /\ IF d = 0 /\ f = 0 THEN c <= e ELSE c * f <= e * d
      /\ Better(x, z) <=> IF b = 0 /\ f = 0 THEN a > e ELSE a * f > e * b
  BY <1>1 DEF Better
<1> HIDE DEF a, b, c, d, e, f
<1>3. CASE b # 0 /\ d # 0 /\ f # 0
  <2>1. a * d <= c * b /\ c * f <= e * d
    BY <1>2, <1>3
  <2>2. (a * d) * f <= (c * b) * f /\ (c * f) * b <= (e * d) * b
    <3>1. a * d \in Int /\ c * b \in Int /\ c * f \in Int /\ e * d \in Int
      BY <1>1
    <3> QED
      BY <1>1, <2>1, <3>1, CrossLess
  <2>3. /\ (a * d) * f = (a * f) * d /\ (c * b) * f = (c * f) * b
        /\ (e * d) * b = (e * b) * d
    BY <1>1
  <2>4. a * f \in Int /\ e * b \in Int
        /\ (a * f) * d \in Int /\ (e * b) * d \in Int /\ (c * f) * b \in Int
    BY <1>1
  <2>5. (a * f) * d <= (e * b) * d
    BY <2>2, <2>3, <2>4
  <2>6. a * f <= e * b
    BY <1>1, <1>3, <2>4, <2>5, CrossCancel
  <2> QED
    BY <1>2, <1>3, <2>4, <2>6
<1>4. CASE b = 0 /\ d = 0
  BY <1>1, <1>2, <1>4
<1>5. CASE b = 0 /\ d # 0 /\ f = 0
  BY <1>1, <1>2, <1>5
<1>6. CASE b = 0 /\ d # 0 /\ f # 0
  BY <1>1, <1>2, <1>6
<1>7. CASE b # 0 /\ d = 0 /\ f = 0
  BY <1>1, <1>2, <1>7
<1>8. CASE b # 0 /\ d = 0 /\ f # 0
  BY <1>1, <1>2, <1>8
<1>9. CASE b # 0 /\ d # 0 /\ f = 0
  BY <1>1, <1>2, <1>9
<1> QED
  BY <1>3, <1>4, <1>5, <1>6, <1>7, <1>8, <1>9

LEMMA BetterOnce ==
  ASSUME NEW x \in Scores, NEW y \in Scores, Better(x, y)
  PROVE  ~Better(y, x)
  BY DEF Better, Scores

LEMMA Quotients ==
  ASSUME NEW a \in Nat, NEW b \in Nat \ {0}, NEW c \in Nat, a < c * b
  PROVE  a \div b \in Nat /\ a \div b < c
<1> DEFINE q == a \div b
           r == a % b
<1>1. q \in Nat /\ r \in 0..b - 1 /\ a = b * q + r
  OBVIOUS
<1> HIDE DEF q, r
<1>2. SUFFICES ASSUME c <= q PROVE FALSE
  BY <1>1 DEF q
<1>3. c * b <= q * b
  BY <1>1, <1>2, CrossLess
<1>4. q * b = b * q /\ b * q \in Int /\ c * b \in Int
  BY <1>1
<1> QED
  BY <1>1, <1>3, <1>4

LEMMA CombinationType ==
  ASSUME NEW k \in 1..Turns
  PROVE  Combination(k) \in Params
<1> USE RangesAssumption
<1> DEFINE a == Len(RsiPeriods)
           b == Len(Oversolds)
           c == Len(Overboughts)
           i == (k - 1) \div c
<1>1. a \in Nat /\ b \in Nat /\ c \in Nat /\ a * b \in Nat /\ Turns = a * b * c
  BY Products DEF Turns
<1>2. \A x \in Nat : x * 0 = 0
  OBVIOUS
<1> HIDE DEF a, b, c
<1>3. k - 1 \in Nat /\ k - 1 < (a * b) * c /\ c # 0
  <2>1. k \in 1..(a * b) * c
    BY <1>1
  <2>2. (a * b) * c \in Nat
    BY <1>1
  <2> QED
    BY <1>1, <1>2, <2>1, <2>2
<1>4. i \in Nat /\ i < a * b /\ b # 0
  <2>1. i \in Nat /\ i < a * b
    <3> DEFINE ab == a * b
               h == k - 1
    <3>1. ab \in Nat /\ h \in Nat /\ c \in Nat \ {0} /\ h < ab * c
      BY <1>1, <1>3
    <3> HIDE DEF ab, h
    <3>2. h \div c \in Nat /\ h \div c < ab
      BY <3>1, Quotients
    <3> QED
      BY <3>2 DEF ab, h
  <2> HIDE DEF i
  <2> QED
    BY <1>1, <1>2, <2>1
<1>5. ((k - 1) % c) + 1 \in 1..c
  BY <1>1, <1>3
<1> HIDE DEF i
<1>6. (i \div b) + 1 \in 1..a /\ (i % b) + 1 \in 1..b
  <2>1. i \div b \in Nat /\ i \div b < a
    BY <1>1, <1>4, Quotients
  <2>2. i % b \in 0..b - 1
    BY <1>1, <1>4
  <2> QED
    BY <1>1, <2>1, <2>2
<1>7. /\ RsiPeriods[(i \div b) + 1] \in Nat \ {0}
      /\ Oversolds[(i % b) + 1] \in Int
      /\ Overboughts[((k - 1) % c) + 1] \in Int
  <2> DEFINE u == (i \div b) + 1
             v == (i % b) + 1
             w == ((k - 1) % c) + 1
  <2>1. u \in 1..Len(RsiPeriods) /\ v \in 1..Len(Oversolds) /\ w \in 1..Len(Overboughts)
    BY <1>5, <1>6 DEF a, b, c
  <2> HIDE DEF u, v, w
  <2>2. RsiPeriods[u] \in Nat \ {0} /\ Oversolds[v] \in Int /\ Overboughts[w] \in Int
    BY <2>1
  <2> QED
    BY <2>2 DEF u, v, w
<1>8. Combination(k) = [n |-> RsiPeriods[(i \div b) + 1], low |-> Oversolds[(i % b) + 1],
                        high |-> Overboughts[((k - 1) % c) + 1]]
  BY Zenon DEF Combination, i, a, b, c
<1> QED
  BY <1>7, <1>8 DEF Params

\* The search, as far as its k-th turn.
Bests == [score : Scores, params : SUBSET Params]
BestBody(cl, f) ==
    [k \in 0..Turns |-> IF k = 0 THEN NoneBest
                        ELSE IF k \in Tried(cl) THEN KeepBest(f[k - 1], Scored(cl, k))
                        ELSE f[k - 1]]

LEMMA TriedFacts ==
  ASSUME NEW cl \in Seq(Nat), NEW k \in Tried(cl)
  PROVE  /\ k \in 1..Turns /\ Combination(k) \in Params
         /\ Score(cl, Combination(k)) \in Scores
<1>1. k \in 1..Turns
  BY DEF Tried
<1> QED
  BY <1>1, CombinationType, ScoreType

\* What a turn keeps: the better, or both as good.
LEMMA KeepBestFacts ==
  ASSUME NEW best \in Bests, NEW c \in [params : Params, score : Scores],
         NEW next, next = KeepBest(best, c)
  PROVE  /\ next \in Bests
         /\ \/ /\ Better(c.score, best.score)
               /\ next.score = c.score /\ next.params = {c.params}
            \/ /\ ~Better(c.score, best.score) /\ Better(best.score, c.score)
               /\ next = best
            \/ /\ ~Better(c.score, best.score) /\ ~Better(best.score, c.score)
               /\ next.score = best.score /\ next.params = best.params \cup {c.params}
<1>1. /\ c.params \in Params /\ c.score \in Scores
      /\ best.params \in SUBSET Params /\ best.score \in Scores
      /\ c = [params |-> c.params, score |-> c.score]
      /\ best = [score |-> best.score, params |-> best.params]
  BY DEF Bests
<1>2. CASE Better(c.score, best.score)
  <2>1. next = [c EXCEPT !.params = {@}]
    BY <1>2 DEF KeepBest
  <2>2. next = [params |-> {c.params}, score |-> c.score]
    BY <1>1, <2>1
  <2> QED
    BY <1>1, <1>2, <2>2 DEF Bests
<1>3. CASE ~Better(c.score, best.score) /\ Better(best.score, c.score)
  BY <1>3 DEF KeepBest
<1>4. CASE ~Better(c.score, best.score) /\ ~Better(best.score, c.score)
  <2>1. next = [best EXCEPT !.params = @ \cup {c.params}]
    BY <1>4 DEF KeepBest
  <2>2. next = [score |-> best.score, params |-> best.params \cup {c.params}]
    BY <1>1, <2>1
  <2> QED
    BY <1>1, <1>4, <2>2 DEF Bests
<1> QED
  BY <1>2, <1>3, <1>4

LEMMA BestFacts ==
  ASSUME NEW cl \in Seq(Nat)
  PROVE  \E f \in [0..Turns -> Bests] :
             f = BestBody(cl, f) /\ BestParams(cl) = f[Turns].params
<1> DEFINE n == Turns
           turn(k, b) == IF k \in Tried(cl) THEN KeepBest(b, Scored(cl, k)) ELSE b
           step == [k \in 1..n |-> [b \in Bests |-> turn(k, b)]]
           P(f) == f = [k \in 0..Turns |->
                          IF k = 0 THEN NoneBest
                          ELSE IF k \in Tried(cl) THEN KeepBest(f[k - 1], Scored(cl, k))
                          ELSE f[k - 1]]
           best == CHOOSE f : P(f)
<1>1. n \in Nat
  <2>1. Len(RsiPeriods) \in Nat /\ Len(Oversolds) \in Nat /\ Len(Overboughts) \in Nat
    BY RangesAssumption
  <2> QED
    BY <2>1, Products DEF Turns
<1>2. NoneBest \in Bests
  BY DEF NoneBest, Bests, Scores
<1>3. ASSUME NEW k \in 1..n, NEW b \in Bests PROVE turn(k, b) \in Bests
  <2>1. CASE k \in Tried(cl)
    <3>1. Scored(cl, k) \in [params : Params, score : Scores]
      BY <2>1, TriedFacts DEF Scored
    <3>2. KeepBest(b, Scored(cl, k)) \in Bests
      BY <3>1, KeepBestFacts
    <3> QED
      BY <2>1, <3>2
  <2>2. CASE k \notin Tried(cl)
    BY <2>2
  <2> QED
    BY <2>1, <2>2
<1>4. step \in [1..n -> [Bests -> Bests]]
  <2> HIDE DEF turn, n
  <2>1. \A k \in 1..n : [b \in Bests |-> turn(k, b)] \in [Bests -> Bests]
    BY <1>3
  <2> QED
    BY <2>1
<1>5. \A k \in 1..n, b \in Bests : step[k][b] = turn(k, b)
  BY Zenon
<1>6. PICK f \in [0..n -> Bests] :
          f[0] = NoneBest /\ \A k \in 1..n : f[k] = step[k][f[k - 1]]
  <2> HIDE DEF step, n
  <2>1. Walks(Bests, n, NoneBest, step) # {}
    BY <1>1, <1>2, <1>4, Recursion
  <2> QED
    BY <2>1 DEF Walks
<1>7. P(f)
  <2> HIDE DEF step, turn, n
  <2>1. ASSUME NEW k \in 0..n
        PROVE  f[k] = IF k = 0 THEN NoneBest ELSE turn(k, f[k - 1])
    <3>1. CASE k = 0
      BY <1>6, <3>1
    <3>2. CASE k # 0
      <4>1. k \in 1..n /\ k - 1 \in 0..n
        BY <1>1, <3>2
      <4>2. f[k] = step[k][f[k - 1]] /\ f[k - 1] \in Bests
        BY <1>6, <4>1
      <4> QED
        BY <1>5, <3>2, <4>1, <4>2
    <3> QED
      BY <3>1, <3>2
  <2> QED
    BY <1>6, <2>1 DEF turn, n
<1>8. P(best)
  <2> HIDE DEF P
  <2> QED
    BY <1>7, Zenon
<1>9. BestParams(cl) = best[n].params
  BY Zenon DEF BestParams
<1>10. best = f
  <2> HIDE DEF best, n
  <2>1. SameTurns(n, best, f)
    BY <1>1, <1>7, <1>8 DEF SameTurns, n
  <2>2. Agree(n, best, f)
    BY <1>1, <2>1, SameSoFar
  <2> QED
    BY <1>7, <1>8, <2>2 DEF Agree, n
<1> QED
  BY <1>6, <1>7, <1>9, <1>10 DEF BestBody

\* None tried so far is better than the best, which are all as good.
BestSoFar(cl, k, b) ==
    /\ \A j \in Tried(cl) : j <= k => ~Better(Score(cl, Combination(j)), b.score)
    /\ \A p \in b.params : /\ \E j \in Tried(cl) : p = Combination(j)
                           /\ ~Better(b.score, Score(cl, p))

LEMMA BestParamsFacts ==
  ASSUME NEW cl \in Seq(Nat), NEW p \in BestParams(cl)
  PROVE  /\ \E j \in Tried(cl) : p = Combination(j)
         /\ \A j \in Tried(cl) : ~Better(Score(cl, Combination(j)), Score(cl, p))
<1>1. PICK f \in [0..Turns -> Bests] : f = BestBody(cl, f) /\ BestParams(cl) = f[Turns].params
  BY BestFacts
<1>2. Turns \in Nat
  <2>1. Len(RsiPeriods) \in Nat /\ Len(Oversolds) \in Nat /\ Len(Overboughts) \in Nat
    BY RangesAssumption
  <2> QED
    BY <2>1, Products DEF Turns
<1>3. \A k \in 0..Turns :
          f[k] = IF k = 0 THEN NoneBest
                 ELSE IF k \in Tried(cl) THEN KeepBest(f[k - 1], Scored(cl, k))
                 ELSE f[k - 1]
  BY <1>1 DEF BestBody
<1> DEFINE good == {k \in 0..Turns : BestSoFar(cl, k, f[k])}
<1>4. 0 \in good
  <2>1. f[0] = NoneBest /\ 0 \in 0..Turns
    BY <1>2, <1>3
  <2>2. \A j \in Tried(cl) : ~(j <= 0)
    BY DEF Tried
  <2>3. NoneBest.params = {}
    BY DEF NoneBest
  <2> QED
    BY <2>1, <2>2, <2>3 DEF BestSoFar
<1>5. ASSUME NEW k \in 1..Turns, k - 1 \in good PROVE k \in good
  <2> DEFINE b == f[k - 1]
             new == f[k]
  <2>1. k \in 0..Turns /\ k - 1 \in 0..Turns /\ k # 0
    BY <1>2
  <2>2. b \in Bests /\ BestSoFar(cl, k - 1, b)
    BY <1>1, <1>5, <2>1
  <2>3. new = IF k \in Tried(cl) THEN KeepBest(b, Scored(cl, k)) ELSE b
    BY <1>3, <2>1
  <2> SUFFICES BestSoFar(cl, k, new)
    BY <2>1
  <2> HIDE DEF b, new, good
  <2>4. \A j \in Tried(cl) : j <= k => j <= k - 1 \/ j = k
    BY DEF Tried
  <2>5. CASE k \notin Tried(cl)
    <3>1. new = b
      BY <2>3, <2>5
    <3>2. \A j \in Tried(cl) : j <= k => j <= k - 1
      BY <2>4, <2>5
    <3> QED
      BY <2>2, <3>1, <3>2 DEF BestSoFar
  <2>6. CASE k \in Tried(cl)
    <3> DEFINE c == Scored(cl, k)
               x == Score(cl, Combination(k))
    <3>1. /\ Combination(k) \in Params /\ x \in Scores
          /\ c.params = Combination(k) /\ c.score = x
          /\ c \in [params : Params, score : Scores]
      BY <2>6, TriedFacts DEF Scored
    <3>2. b.score \in Scores
      BY <2>2 DEF Bests
    <3>3. /\ \A j \in Tried(cl) : Score(cl, Combination(j)) \in Scores
          /\ \A p2 \in b.params : \E j \in Tried(cl) : p2 = Combination(j)
      BY <2>2, TriedFacts DEF BestSoFar
    <3> HIDE DEF c, x
    <3>4. \/ /\ Better(x, b.score) /\ new.score = x /\ new.params = {Combination(k)}
          \/ /\ ~Better(x, b.score) /\ new = b
          \/ /\ ~Better(x, b.score) /\ ~Better(b.score, x)
             /\ new.score = b.score /\ new.params = b.params \cup {Combination(k)}
      BY <2>2, <2>3, <2>6, <3>1, KeepBestFacts DEF c
    <3>5. x = Score(cl, Combination(k))
      BY DEF x
    <3>6. CASE Better(x, b.score) /\ new.score = x /\ new.params = {Combination(k)}
      <4>1. ~Better(b.score, x) /\ ~Better(x, x)
        BY <3>1, <3>2, <3>6, BetterOnce
      <4>2. \A j \in Tried(cl) : j <= k => ~Better(Score(cl, Combination(j)), x)
        BY <2>2, <2>4, <3>1, <3>2, <3>3, <3>5, <4>1, NoBetter DEF BestSoFar
      <4>3. \A p2 \in new.params : p2 = Combination(k) /\ ~Better(x, Score(cl, p2))
        BY <3>5, <3>6, <4>1
      <4> QED
        BY <2>6, <3>6, <4>2, <4>3 DEF BestSoFar
    <3>7. CASE ~Better(x, b.score) /\ new = b
      <4>1. \A j \in Tried(cl) : j <= k => ~Better(Score(cl, Combination(j)), b.score)
        BY <2>2, <2>4, <3>5, <3>7 DEF BestSoFar
      <4> QED
        BY <2>2, <3>7, <4>1 DEF BestSoFar
    <3>8. CASE /\ ~Better(x, b.score) /\ ~Better(b.score, x)
               /\ new.score = b.score /\ new.params = b.params \cup {Combination(k)}
      <4>1. \A j \in Tried(cl) : j <= k => ~Better(Score(cl, Combination(j)), b.score)
        BY <2>2, <2>4, <3>5, <3>8 DEF BestSoFar
      <4>2. \A p2 \in new.params : p2 \in b.params \/ p2 = Combination(k)
        BY <3>8
      <4>3. \A p2 \in new.params : /\ \E j \in Tried(cl) : p2 = Combination(j)
                                   /\ ~Better(b.score, Score(cl, p2))
        BY <2>2, <2>6, <3>5, <3>8, <4>2 DEF BestSoFar
      <4>4. new.score = b.score
        BY <3>8
      <4> QED
        BY <4>1, <4>3, <4>4 DEF BestSoFar
    <3> QED
      BY <3>4, <3>6, <3>7, <3>8
  <2> QED
    BY <2>5, <2>6
<1>6. Turns \in good
  <2> HIDE DEF good
  <2>1. \A k \in 0..Turns : k \in good
    BY <1>2, <1>4, <1>5, AllTheWay
  <2> QED
    BY <1>2, <2>1
<1>7. BestSoFar(cl, Turns, f[Turns]) /\ p \in f[Turns].params /\ f[Turns].score \in Scores
  <2>1. f[Turns] \in Bests
    BY <1>1, <1>2
  <2> QED
    BY <1>1, <1>6, <2>1 DEF Bests
<1>8. PICK i \in Tried(cl) : p = Combination(i)
  BY <1>7 DEF BestSoFar
<1>9. ~Better(f[Turns].score, Score(cl, p)) /\ Score(cl, p) \in Scores
  BY <1>7, <1>8, TriedFacts DEF BestSoFar
<1>10. ASSUME NEW j \in Tried(cl)
       PROVE  ~Better(Score(cl, Combination(j)), Score(cl, p))
  <2>1. j <= Turns /\ Score(cl, Combination(j)) \in Scores
    <3>1. j \in 1..Turns
      BY TriedFacts
    <3> QED
      BY <1>2, <3>1, TriedFacts
  <2>2. ~Better(Score(cl, Combination(j)), f[Turns].score)
    BY <1>7, <2>1 DEF BestSoFar
  <2> QED
    BY <1>7, <1>9, <2>1, <2>2, NoBetter
<1> QED
  BY <1>8, <1>10

\* The live strategy is where the replay of the same closes is.
AdaptiveTypeOK ==
    /\ calibrated \in BOOLEAN /\ holds \in BOOLEAN /\ params \in Params
    /\ warmup \in Seq(Nat) /\ traded \in Seq(Nat) /\ window \in Seq(Nat)
    /\ ~calibrated => traded = <<>>

SignalsInv ==
    /\ signals \in Seq(Signals) /\ Alternating(signals)
    /\ holds <=> Len(signals) % 2 = 1

LiveReplay ==
    [average |-> average, bought |-> IF holds THEN signals[Len(signals)][2] ELSE 0,
     pnls |-> ResultsOf(signals)]

AdaptiveInv ==
    /\ AdaptiveTypeOK /\ SignalsInv
    /\ IsTail(window, traded, params.n + 1)
    /\ Replayed(traded, params) = LiveReplay
    /\ calibrated /\ traded = <<>> /\ Len(warmup) >= MinWarmup
           => params \in BestParams(warmup)

LEMMA NothingTraded ==
  /\ <<>> \in Seq(Nat) /\ Len(<<>>) = 0
  /\ \A p \in Params : IsTail(<<>>, <<>>, p.n + 1) /\ Replayed(<<>>, p) = NewReplay
<1>1. <<>> \in Seq(Nat) /\ Len(<<>>) = 0
  OBVIOUS
<1>2. ASSUME NEW p \in Params
      PROVE  IsTail(<<>>, <<>>, p.n + 1) /\ Replayed(<<>>, p) = NewReplay
  <2>1. p.n \in Nat /\ Len(<<>>) <= p.n
    BY DEF Params
  <2>2. Replayed(<<>>, p) = NewReplay
    BY <1>1, <2>1, ReplayedFew
  <2>3. IsTail(<<>>, <<>>, p.n + 1)
    BY <2>1 DEF IsTail
  <2> QED
    BY <2>2, <2>3
<1> QED
  BY <1>1, <1>2

LEMMA NoSignals ==
  <<>> \in Seq(Signals) /\ Alternating(<<>>) /\ Len(<<>>) % 2 = 0 /\ ResultsOf(<<>>) = <<>>
<1>1. <<>> \in Seq(Signals) /\ Alternating(<<>>) /\ Len(<<>>) = 0
  BY DEF Alternating
<1>2. 0 \div 2 = 0 /\ 0 % 2 = 0
  OBVIOUS
<1>3. ResultsOf(<<>>) = <<>>
  BY <1>1, <1>2 DEF ResultsOf
<1> QED
  BY <1>1, <1>2, <1>3

LEMMA AdaptiveInit0 == AdaptiveInit => AdaptiveInv
<1> SUFFICES ASSUME AdaptiveInit PROVE AdaptiveInv
  OBVIOUS
<1> USE AdaptiveAssumption
<1>1. /\ calibrated = FALSE /\ warmup = <<>> /\ params = DefaultParams /\ params \in Params
      /\ window = <<>> /\ average = NoAverage /\ holds = FALSE
      /\ signals = <<>> /\ traded = <<>>
  BY DEF AdaptiveInit
<1>2. SignalsInv
  BY <1>1, NoSignals DEF SignalsInv
<1>3. Replayed(traded, params) = LiveReplay
  BY <1>1, NothingTraded, NoSignals DEF LiveReplay, NewReplay
<1>4. AdaptiveTypeOK /\ IsTail(window, traded, params.n + 1)
  BY <1>1, NothingTraded DEF AdaptiveTypeOK
<1> QED
  BY <1>1, <1>2, <1>3, <1>4 DEF AdaptiveInv

\* The deque of the warm-up is not what the live strategy goes by.
LEMMA CollectKeeps ==
  ASSUME AdaptiveInv, NEW x \in Closes, Collect(x)
  PROVE  AdaptiveInv'
<1>1. /\ ~calibrated /\ UNCHANGED <<calibrated, params, window, average, holds, signals, traded>>
  BY DEF Collect
<1>2. warmup' \in Seq(Nat)
  <2> DEFINE all == Append(warmup, x)
  <2>1. warmup \in Seq(Nat) /\ x \in Nat
    BY AdaptiveAssumption DEF AdaptiveInv, AdaptiveTypeOK
  <2>2. all \in Seq(Nat) /\ Tail(all) \in Seq(Nat)
    BY <2>1
  <2>3. warmup' = IF Len(all) > MaxWarmup THEN Tail(all) ELSE all
    BY DEF Collect
  <2> HIDE DEF all
  <2> QED
    BY <2>2, <2>3
<1>3. AdaptiveTypeOK' /\ SignalsInv'
  BY <1>1, <1>2 DEF AdaptiveInv, AdaptiveTypeOK, SignalsInv, Alternating
<1>4. LiveReplay' = LiveReplay
  BY <1>1 DEF LiveReplay, ResultsOf
<1>5. IsTail(window, traded, params.n + 1)' /\ (Replayed(traded, params) = LiveReplay)'
  BY <1>1, <1>4 DEF AdaptiveInv, IsTail
<1> QED
  BY <1>1, <1>3, <1>5 DEF AdaptiveInv

LEMMA OnStartKeeps ==
  ASSUME AdaptiveInv, OnStart
  PROVE  AdaptiveInv'
<1>1. /\ ~calibrated /\ calibrated' = TRUE /\ window' = <<>> /\ traded = <<>>
      /\ UNCHANGED <<warmup, average, holds, signals, traded>>
      /\ warmup \in Seq(Nat) /\ params \in Params /\ Len(warmup) \in Nat
  BY DEF OnStart, AdaptiveInv, AdaptiveTypeOK
<1>2. \/ Len(warmup) < MinWarmup /\ params' = DefaultParams
      \/ Len(warmup) >= MinWarmup /\ params' \in BestParams(warmup)
  BY <1>1, AdaptiveAssumption DEF OnStart
<1>3. params' \in Params
  <2>1. CASE Len(warmup) < MinWarmup /\ params' = DefaultParams
    BY <2>1, AdaptiveAssumption
  <2>2. CASE params' \in BestParams(warmup)
    <3>1. \E j \in Tried(warmup) : params' = Combination(j)
      BY <1>1, <2>2, BestParamsFacts
    <3> QED
      BY <1>1, <3>1, TriedFacts
  <2> QED
    BY <1>2, <2>1, <2>2
<1>4. IsTail(window', traded', params'.n + 1) /\ Replayed(traded', params') = NewReplay
  BY <1>1, <1>3, NothingTraded
<1>5. LiveReplay' = LiveReplay /\ LiveReplay = NewReplay
  <2>1. LiveReplay' = LiveReplay
    BY <1>1 DEF LiveReplay, ResultsOf
  <2>2. Replayed(traded, params) = NewReplay
    BY <1>1, NothingTraded
  <2> QED
    BY <2>1, <2>2 DEF AdaptiveInv
<1>6. AdaptiveTypeOK' /\ SignalsInv'
  BY <1>1, <1>3, NothingTraded DEF AdaptiveInv, AdaptiveTypeOK, SignalsInv, Alternating
<1>7. Len(warmup') >= MinWarmup => params' \in BestParams(warmup)'
  BY <1>1, <1>2, AdaptiveAssumption
<1> QED
  BY <1>4, <1>5, <1>6, <1>7 DEF AdaptiveInv

\* The live strategy takes the same turn as the replay.
LiveAverage(cl, x, n) ==
    IF average = NoAverage THEN FirstAverage(cl, n)
    ELSE NextAverage(average, cl[Len(cl) - 1], x, n)

LEMMA SameAverage ==
  ASSUME NEW n \in Nat \ {0}, NEW s \in Seq(Nat), NEW cl \in Seq(Nat), IsTail(cl, s, n + 1),
         Len(cl) = n + 1, NEW a
  PROVE  /\ SubSeq(s, Len(s) - n, Len(s)) = cl
         /\ cl[Len(cl) - 1] = s[Len(s) - 1] /\ cl[Len(cl)] = s[Len(s)]
<1> DEFINE m == Len(s)
<1>1. /\ m \in Nat /\ m >= n + 1
      /\ \A j \in 1..n + 1 : cl[j] = s[m - (n + 1) + j]
  <2>1. m \in Nat /\ n + 1 = IF m <= n + 1 THEN m ELSE n + 1
    BY DEF IsTail
  <2>2. m >= n + 1
    BY <2>1
  <2>3. \A j \in 1..n + 1 : cl[j] = s[m - (n + 1) + j]
    BY Zenon DEF IsTail
  <2> QED
    BY <2>1, <2>2, <2>3
<1>2. /\ cl[n] = s[m - (n + 1) + n] /\ cl[n + 1] = s[m - (n + 1) + (n + 1)]
      /\ m - (n + 1) + n = m - 1 /\ m - (n + 1) + (n + 1) = m /\ (n + 1) - 1 = n
  BY SMTT(30), <1>1
<1> DEFINE lo == m - n
           part == SubSeq(s, lo, m)
<1>3. lo \in 1..Len(s) /\ m \in lo..Len(s) /\ m - lo + 1 = n + 1
  BY <1>1
<1> HIDE DEF lo
<1>4. /\ part \in Seq(Nat) /\ Len(part) = m - lo + 1
      /\ \A j \in 1..m - lo + 1 : part[j] = s[lo + j - 1]
  BY <1>3, PartFacts
<1>5. \A j \in 1..n + 1 : lo + j - 1 = m - (n + 1) + j
  BY <1>1 DEF lo
<1> HIDE DEF part, m
<1>6. \A j \in 1..n + 1 : part[j] = cl[j]
  BY <1>1, <1>3, <1>4, <1>5
<1>7. part = cl
  BY <1>3, <1>4, <1>6, SameSeq
<1> QED
  BY <1>2, <1>7 DEF part, lo, m

LEMMA TradeKeeps ==
  ASSUME AdaptiveInv, NEW x \in Closes, Trade(x)
  PROVE  AdaptiveInv'
<1> DEFINE n == params.n
           cl == Slid(window, x, n + 1)
           tr == Append(traded, x)
           a == LiveAverage(cl, x, n)
           buys == RsiBelow(a, params.low) /\ ~holds
           sells == RsiAbove(a, params.high) /\ holds
<1>1. /\ calibrated /\ window' = cl /\ traded' = tr
      /\ UNCHANGED <<calibrated, warmup, params>>
      /\ IF Len(cl) < n + 1 THEN UNCHANGED <<average, holds, signals>>
         ELSE /\ average' = a
              /\ holds' = IF buys THEN TRUE ELSE IF sells THEN FALSE ELSE holds
              /\ signals' = IF buys THEN Append(signals, <<"buy", x>>)
                            ELSE IF sells THEN Append(signals, <<"sell", x>>)
                            ELSE signals
  BY DEF Trade, Slid, LiveAverage
<1>2. /\ x \in Nat \ {0} /\ params \in Params /\ n \in Nat \ {0}
      /\ traded \in Seq(Nat) /\ window \in Seq(Nat) /\ warmup \in Seq(Nat)
      /\ IsTail(window, traded, n + 1)
      /\ SignalsInv /\ Replayed(traded, params) = LiveReplay
  BY AdaptiveAssumption DEF AdaptiveInv, AdaptiveTypeOK, Params
<1>3. /\ tr \in Seq(Nat) /\ Len(tr) = Len(traded) + 1 /\ tr[Len(tr)] = x
      /\ Len(traded) \in Nat /\ tr # <<>>
  <2>1. traded \in Seq(Nat) /\ x \in Nat
    BY <1>2
  <2>2. /\ tr \in Seq(Nat) /\ Len(tr) = Len(traded) + 1 /\ tr[Len(tr)] = x
        /\ Len(traded) \in Nat
    BY <2>1
  <2>3. Len(tr) # 0 /\ Len(<<>>) = 0
    BY <2>2
  <2> QED
    BY <2>2, <2>3, Zenon
<1> HIDE DEF cl, tr, n
<1>4. cl \in Seq(Nat) /\ IsTail(cl, tr, n + 1)
  BY <1>2, SlideFacts DEF cl, tr
<1>5. Len(cl) = IF Len(tr) <= n + 1 THEN Len(tr) ELSE n + 1
  BY <1>4 DEF IsTail
<1> HIDE DEF a
<1>6. holds \in BOOLEAN /\ calibrated \in BOOLEAN
  BY DEF AdaptiveInv, AdaptiveTypeOK
<1>7. AdaptiveTypeOK' /\ IsTail(window', traded', params'.n + 1)
  <2>1. holds' \in BOOLEAN
    BY <1>1, <1>6
  <2> QED
    BY <1>1, <1>2, <1>3, <1>4, <1>6, <2>1 DEF AdaptiveTypeOK, n
<1>8. SUFFICES SignalsInv' /\ Replayed(traded', params') = LiveReplay'
  BY <1>1, <1>3, <1>7 DEF AdaptiveInv
<1>9. CASE Len(cl) < n + 1
  <2>1. Len(traded) <= n /\ Len(tr) <= n
    BY <1>2, <1>3, <1>5, <1>9
  <2>2. Replayed(tr, params) = Replayed(traded, params)
    BY <1>2, <1>3, <2>1, ReplayedFew DEF n
  <2>3. LiveReplay' = LiveReplay /\ SignalsInv'
    BY <1>1, <1>2, <1>9 DEF LiveReplay, ResultsOf, SignalsInv, Alternating
  <2> QED
    BY <1>1, <1>2, <2>2, <2>3
<1>10. CASE ~(Len(cl) < n + 1)
  <2> DEFINE s == Replayed(traded, params)
             b == IF holds THEN signals[Len(signals)][2] ELSE 0
             r == ResultsOf(signals)
  <2>1. Len(cl) = n + 1 /\ Len(traded) >= n
    BY <1>2, <1>3, <1>5, <1>10
  <2>2. s.average = average /\ s.bought = b /\ s.pnls = r
    BY <1>2 DEF LiveReplay
  <2>3. b = 0 <=> ~holds
    <3>1. CASE holds
      <4>1. Len(signals) \in 1..Len(signals)
        <5>1. signals \in Seq(Signals) /\ Len(signals) % 2 = 1
          BY <1>2, <3>1, Zenon DEF SignalsInv
        <5>2. Len(signals) \in Nat
          BY <5>1
        <5>3. Len(signals) # 0
          BY <5>1, <5>2
        <5> QED
          BY <5>2, <5>3
      <4>2. signals[Len(signals)] \in Signals
        <5>1. signals \in Seq(Signals)
          BY <1>2 DEF SignalsInv
        <5> QED
          BY <4>1, <5>1
      <4> QED
        BY <3>1, <4>2 DEF Signals
    <3>2. CASE ~holds
      BY <3>2
    <3> QED
      BY <3>1, <3>2
  <2> HIDE DEF s, b, r
  <2>4. /\ SubSeq(tr, Len(tr) - n, Len(tr)) = cl
        /\ cl[Len(cl) - 1] = tr[Len(tr) - 1]
    BY <1>2, <1>3, <1>4, <2>1, SameAverage
  <2>5. a = IF s.average = NoAverage
            THEN FirstAverage(SubSeq(tr, Len(tr) - n, Len(tr)), n)
            ELSE NextAverage(s.average, tr[Len(tr) - 1], tr[Len(tr)], n)
    BY <1>3, <2>2, <2>4 DEF a, LiveAverage
  <2>6. Replayed(tr, params) = Turn(tr, params, s, Len(tr))
    BY <1>2, <1>3, <2>1, ReplayedMore DEF tr, n, s
  <2>7. Replayed(tr, params) =
            IF RsiBelow(a, params.low) /\ ~holds
            THEN [average |-> a, bought |-> x, pnls |-> r]
            ELSE IF RsiAbove(a, params.high) /\ holds
            THEN [average |-> a, bought |-> 0, pnls |-> Append(r, x - b)]
            ELSE [average |-> a, bought |-> b, pnls |-> r]
    BY <1>3, <2>2, <2>3, <2>5, <2>6 DEF Turn, n
  <2>8. /\ average' = a
        /\ holds' = IF buys THEN TRUE ELSE IF sells THEN FALSE ELSE holds
        /\ signals' = IF buys THEN Append(signals, <<"buy", x>>)
                      ELSE IF sells THEN Append(signals, <<"sell", x>>)
                      ELSE signals
    BY <1>1, <1>10
  <2>9. LiveReplay' = [average |-> a, bought |-> IF holds' THEN signals'[Len(signals')][2] ELSE 0,
                       pnls |-> ResultsOf(signals')]
    BY <2>8 DEF LiveReplay, ResultsOf
  <2>10. SUFFICES /\ signals' \in Seq(Signals) /\ Alternating(signals')
                  /\ holds' <=> Len(signals') % 2 = 1
                  /\ Replayed(tr, params) = LiveReplay'
    BY <1>1 DEF SignalsInv, Alternating
  <2>11. signals \in Seq(Signals) /\ Alternating(signals) /\ Len(signals) % 2 \in {0, 1}
    BY <1>2, HalvesOf DEF SignalsInv
  <2>12. CASE buys
    <3>1. Len(signals) % 2 = 0 /\ holds' = TRUE /\ IsAppended(signals', signals, <<"buy", x>>)
      BY <1>2, <2>8, <2>11, <2>12 DEF SignalsInv, IsAppended
    <3>2. /\ signals' \in Seq(Signals) /\ Alternating(signals') /\ Len(signals') % 2 = 1
          /\ ResultsOf(signals') = ResultsOf(signals) /\ signals'[Len(signals')][2] = x
      BY <1>2, <2>11, <3>1, BuyFacts
    <3>3. Replayed(tr, params) = [average |-> a, bought |-> x, pnls |-> r]
      BY <2>7, <2>12
    <3> QED
      BY <2>9, <3>1, <3>2, <3>3 DEF r
  <2>13. CASE sells
    <3>1. Len(signals) % 2 = 1 /\ holds' = FALSE /\ IsAppended(signals', signals, <<"sell", x>>)
      BY <1>2, <2>8, <2>13 DEF SignalsInv, IsAppended
    <3>2. /\ signals' \in Seq(Signals) /\ Alternating(signals') /\ Len(signals') % 2 = 0
          /\ ResultsOf(signals') = Append(ResultsOf(signals), x - signals[Len(signals)][2])
      BY <1>2, <2>11, <3>1, SellFacts
    <3>3. Replayed(tr, params) = [average |-> a, bought |-> 0, pnls |-> Append(r, x - b)]
      BY <2>7, <2>13
    <3>4. b = signals[Len(signals)][2]
      BY <2>13 DEF b
    <3> QED
      BY <2>9, <3>1, <3>2, <3>3, <3>4 DEF r
  <2>14. CASE ~buys /\ ~sells
    <3>1. holds' = holds /\ signals' = signals
      BY <2>8, <2>14
    <3>2. Replayed(tr, params) = [average |-> a, bought |-> b, pnls |-> r]
      BY <2>7, <2>14
    <3> QED
      BY <1>2, <2>9, <2>11, <3>1, <3>2 DEF SignalsInv, b, r
  <2> QED
    BY <2>12, <2>13, <2>14
<1> QED
  BY <1>9, <1>10

LEMMA OnStartRaisesKeeps ==
  ASSUME AdaptiveInv, OnStartRaises
  PROVE  AdaptiveInv'
<1>1. UNCHANGED <<calibrated, warmup, params, window, average, holds, signals, traded>>
  BY DEF OnStartRaises
<1>2. LiveReplay' = LiveReplay
  BY <1>1 DEF LiveReplay, ResultsOf
<1> QED
  BY <1>1, <1>2 DEF AdaptiveInv, AdaptiveTypeOK, SignalsInv, Alternating, IsTail

LEMMA AdaptiveStep == AdaptiveInv /\ [AdaptiveNext]_adaptiveVars => AdaptiveInv'
<1> SUFFICES ASSUME AdaptiveInv, [AdaptiveNext]_adaptiveVars PROVE AdaptiveInv'
  OBVIOUS
<1>1. CASE UNCHANGED adaptiveVars
  <2>1. UNCHANGED <<calibrated, warmup, params, window, average, holds, signals, traded>>
    BY <1>1 DEF adaptiveVars
  <2>2. LiveReplay' = LiveReplay
    BY <2>1 DEF LiveReplay, ResultsOf
  <2> QED
    BY <2>1, <2>2 DEF AdaptiveInv, AdaptiveTypeOK, SignalsInv, Alternating, IsTail
<1> QED
  BY <1>1, CollectKeeps, OnStartKeeps, OnStartRaisesKeeps, TradeKeeps DEF AdaptiveNext

\* The invariant of the calibrating strategy holds in every reachable state.
THEOREM AdaptiveInvariant == AdaptiveSpec => []AdaptiveInv
  BY AdaptiveInit0, AdaptiveStep, PTL DEF AdaptiveSpec

\* Whatever the closes and the ranges are, the trades the calibration counts
\* on are those on_candle makes.
THEOREM ReplayIsLive == AdaptiveSpec => []CalibrationReplaysLive
<1>1. AdaptiveInv => CalibrationReplaysLive
  <2> SUFFICES ASSUME AdaptiveInv PROVE CalibrationReplaysLive
    OBVIOUS
  <2>1. Alternating(signals) /\ Replay(traded, params) = ResultsOf(signals)
    BY DEF AdaptiveInv, SignalsInv, Replay, LiveReplay
  <2> QED
    BY <2>1 DEF CalibrationReplaysLive, Alternating, ResultsOf
<1> QED
  BY <1>1, AdaptiveInvariant, PTL

\* The combination calibrated to is one of those tried, and none of those has
\* a better score.
THEOREM BestIsChosen == AdaptiveSpec => []CalibratedToTheBest
<1>1. AdaptiveInv => CalibratedToTheBest
  <2> SUFFICES ASSUME AdaptiveInv, calibrated, traded = <<>>, Len(warmup) >= MinWarmup
               PROVE  CalibratedToTheBest
    BY DEF CalibratedToTheBest
  <2>1. warmup \in Seq(Nat) /\ params \in BestParams(warmup)
    BY DEF AdaptiveInv, AdaptiveTypeOK
  <2>2. /\ \E j \in Tried(warmup) : params = Combination(j)
        /\ \A j \in Tried(warmup) : ~Better(Score(warmup, Combination(j)), Score(warmup, params))
    BY <2>1, BestParamsFacts
  <2> QED
    BY <2>2 DEF CalibratedToTheBest
<1> QED
  BY <1>1, AdaptiveInvariant, PTL
=============================================================================
