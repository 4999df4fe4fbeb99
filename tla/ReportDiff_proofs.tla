-------------------------- MODULE ReportDiff_proofs --------------------------
(***************************************************************************)
(* What holds of the scores for all findings and of the reports for all    *)
(* sites.  What a fold computes is proved from the function it chooses,    *)
(* through the least index at which a fact about it would fail.            *)
(***************************************************************************)
EXTENDS ReportDiff, FiniteSetTheorems, WellFoundedInduction, TLAPS

(* Category scores as the auditors leave them: only the images take points *)
(* that are no multiples of five.                                          *)
Fives(cs) ==
    /\ cs \in [Category -> 0..100]
    /\ \A c \in Category : c # "Media" => cs[c] % 5 = 0

LEMMA WeightFacts ==
    /\ Category = {"Metadata", "Crawlability", "Structure", "Links", "Security", "Media",
                   "SocialTags"}
    /\ Weight["Metadata"] = 20 /\ Weight["Crawlability"] = 20 /\ Weight["Structure"] = 15
    /\ Weight["Links"] = 15 /\ Weight["Security"] = 15 /\ Weight["Media"] = 10
    /\ Weight["SocialTags"] = 5
  BY DEF Category, Weight

LEMMA WeightedIs ==
  ASSUME NEW cs
  PROVE  Weighted(cs) = cs["Metadata"] * 20 + cs["Crawlability"] * 20 + cs["Structure"] * 15
                        + cs["Links"] * 15 + cs["Security"] * 15 + cs["Media"] * 10
                        + cs["SocialTags"] * 5
  BY WeightFacts DEF Weighted, Term

(* The weights add up to a hundred: a weighted sum lies between the lowest *)
(* and the highest category, in hundredths.                                *)
LEMMA WeightedBounds ==
  ASSUME NEW lo \in 0..100, NEW hi \in 0..100, NEW cs \in [Category -> lo..hi]
  PROVE  Weighted(cs) \in Int /\ 100 * lo <= Weighted(cs) /\ Weighted(cs) <= 100 * hi
  <1> DEFINE a == cs["Metadata"]  b == cs["Crawlability"]  s == cs["Structure"]
             l == cs["Links"]  t == cs["Security"]  m == cs["Media"]  o == cs["SocialTags"]
  <1>1. /\ a \in lo..hi /\ b \in lo..hi /\ s \in lo..hi /\ l \in lo..hi /\ t \in lo..hi
        /\ m \in lo..hi /\ o \in lo..hi
    BY WeightFacts
  <1>2. Weighted(cs) = a * 20 + b * 20 + s * 15 + l * 15 + t * 15 + m * 10 + o * 5
    BY WeightedIs
  <1> HIDE DEF a, b, s, l, t, m, o
  <1> DEFINE sum == a * 20 + b * 20 + s * 15 + l * 15 + t * 15 + m * 10 + o * 5
  <1>3. sum \in Int /\ 100 * lo <= sum /\ sum <= 100 * hi
    BY <1>1
  <1>4. Weighted(cs) = sum
    BY <1>2
  <1> HIDE DEF sum
  <1> QED  BY <1>3, <1>4

(* The score of a page lies between its lowest and its highest category,   *)
(* whichever way the floating-point sum falls: so it is a number from 0 to *)
(* 100, the clamp after the rounding has nothing to do, the cast to eight  *)
(* bits loses nothing, and the bars of the terminal enclose it.            *)
THEOREM ScoreWithin ==
  ASSUME NEW lo \in 0..100, NEW hi \in 0..100, NEW cs \in [Category -> lo..hi]
  PROVE  PageScores(cs) # {} /\ PageScores(cs) \subseteq lo..hi
  <1> DEFINE e == Weighted(cs)
  <1>1. e \in Int /\ 100 * lo <= e /\ e <= 100 * hi
    BY WeightedBounds
  <1> HIDE DEF e
  <1>2. /\ (e + 50) \div 100 \in Int /\ lo <= (e + 50) \div 100 /\ (e + 50) \div 100 <= hi
    BY <1>1
  <1>3. e \div 100 \in Int /\ lo <= e \div 100 /\ e \div 100 <= hi
    BY <1>1
  <1>4. e % 100 = 50 => e \div 100 + 1 <= hi
    BY <1>1
  <1>5. PageScores(cs) = IF e % 100 = 50 /\ \E c \in Category : Term(cs, c) % 25 # 0
                         THEN {e \div 100, e \div 100 + 1} ELSE {(e + 50) \div 100}
    BY DEF PageScores, Rounded, e
  <1> QED  BY <1>2, <1>3, <1>4, <1>5

LEMMA Sum25 ==
  ASSUME NEW x \in Int, NEW y \in Int, x % 25 = 0, y % 25 = 0
  PROVE  (x + y) % 25 = 0
  OBVIOUS

(* The order in which the terms are added shows only at half a point, and  *)
(* never as long as all categories but Media are multiples of five: then   *)
(* half a point makes every term a multiple of a quarter.                  *)
LEMMA ScoreUnique ==
  ASSUME NEW cs, Fives(cs)
  PROVE  PageScores(cs) = {Rounded(Weighted(cs))}
  <1> DEFINE a == cs["Metadata"]  b == cs["Crawlability"]  s == cs["Structure"]
             l == cs["Links"]  t == cs["Security"]  m == cs["Media"]  o == cs["SocialTags"]
  <1>1. /\ a \in 0..100 /\ b \in 0..100 /\ s \in 0..100 /\ l \in 0..100 /\ t \in 0..100
        /\ m \in 0..100 /\ o \in 0..100
    BY WeightFacts DEF Fives
  <1>2. a % 5 = 0 /\ b % 5 = 0 /\ s % 5 = 0 /\ l % 5 = 0 /\ t % 5 = 0 /\ o % 5 = 0
    BY WeightFacts DEF Fives
  <1>3. Weighted(cs) = a * 20 + b * 20 + s * 15 + l * 15 + t * 15 + m * 10 + o * 5
    BY WeightedIs
  <1>4. /\ Term(cs, "Metadata") = a * 20 /\ Term(cs, "Crawlability") = b * 20
        /\ Term(cs, "Structure") = s * 15 /\ Term(cs, "Links") = l * 15
        /\ Term(cs, "Security") = t * 15 /\ Term(cs, "Media") = m * 10
        /\ Term(cs, "SocialTags") = o * 5
    BY WeightFacts DEF Term
  <1> HIDE DEF a, b, s, l, t, m, o
  <1>5. (a * 20) % 25 = 0 /\ (b * 20) % 25 = 0
    BY <1>1, <1>2
  <1>6. (s * 15) % 25 = 0 /\ (l * 15) % 25 = 0 /\ (t * 15) % 25 = 0 /\ (o * 5) % 25 = 0
    BY <1>1, <1>2
  <1>7. ASSUME Weighted(cs) % 100 = 50
        PROVE  (m * 10) % 25 = 0
    <2> DEFINE p == a * 20 + b * 20  q == s * 15 + l * 15  r == t * 15 + o * 5
    <2>1. p % 25 = 0 /\ q % 25 = 0 /\ r % 25 = 0
      BY <1>1, <1>5, <1>6, Sum25
    <2>2. p \in Int /\ q \in Int /\ r \in Int
      BY <1>1
    <2>3. Weighted(cs) = p + q + r + m * 10
      BY <1>1, <1>3
    <2> HIDE DEF p, q, r
    <2>4. (p + q) % 25 = 0 /\ p + q \in Int
      BY <2>1, <2>2, Sum25
    <2>5. (p + q + r) % 25 = 0 /\ p + q + r \in Int
      BY <2>1, <2>2, <2>4, Sum25
    <2> DEFINE rest == p + q + r
    <2>6. rest % 25 = 0 /\ rest \in Int /\ (rest + m * 10) % 100 = 50
      BY <2>3, <2>5, <1>7
    <2> HIDE DEF rest
    <2> QED  BY <1>1, <2>6
  <1>8. Weighted(cs) % 100 = 50 => \A c \in Category : Term(cs, c) % 25 = 0
    BY <1>4, <1>5, <1>6, <1>7, WeightFacts
  <1> QED  BY <1>8 DEF PageScores

(* Points gained in some categories and lost in none never lower the score *)
(* of a page.                                                              *)
THEOREM ScoreMonotone ==
  ASSUME NEW low, NEW high, Fives(low), Fives(high),
         \A c \in Category : low[c] <= high[c]
  PROVE  \A x \in PageScores(low), y \in PageScores(high) : x <= y
  <1>1. /\ low \in [Category -> 0..100]
        /\ high \in [Category -> 0..100]
    BY DEF Fives
  <1>2. Weighted(low) <= Weighted(high)
    <2>1. /\ low["Metadata"] <= high["Metadata"] /\ low["Crawlability"] <= high["Crawlability"]
          /\ low["Structure"] <= high["Structure"] /\ low["Links"] <= high["Links"]
          /\ low["Security"] <= high["Security"] /\ low["Media"] <= high["Media"]
          /\ low["SocialTags"] <= high["SocialTags"]
      BY WeightFacts
    <2>2. \A c \in Category : low[c] \in Int /\ high[c] \in Int
      BY <1>1
    <2> QED  BY <2>1, <2>2, WeightFacts, WeightedIs
  <1>3. Weighted(low) \in Int /\ Weighted(high) \in Int
    <2>1. 0 \in 0..100 /\ 100 \in 0..100
      OBVIOUS
    <2> QED  BY <1>1, <2>1, WeightedBounds
  <1>4. Rounded(Weighted(low)) <= Rounded(Weighted(high))
    BY <1>2, <1>3 DEF Rounded
  <1> QED  BY <1>4, ScoreUnique

(* Means of equally many numbers that are cut off lie no further apart     *)
(* than the numbers: if each of the n numbers of b exceeds its partner in  *)
(* a by at least lo and at most hi, so do the means.  The totals are a, b. *)
THEOREM MeanMoves ==
  ASSUME NEW n \in Nat \ {0}, NEW a \in Int, NEW b \in Int, NEW lo \in Int, NEW hi \in Int,
         n * lo <= b - a, b - a <= n * hi
  PROVE  lo <= (b \div n) - (a \div n) /\ (b \div n) - (a \div n) <= hi
  <1> DEFINE p == a \div n  q == b \div n
  <1>1. /\ p \in Int /\ q \in Int
        /\ n * p <= a /\ a < n * p + n /\ n * q <= b /\ b < n * q + n
    OBVIOUS
  <1> HIDE DEF p, q
  <1>2. n * lo < n * (q - p) + n /\ n * (q - p) < n * hi + n
    BY <1>1
  <1>3. ASSUME NEW x \in Int, NEW y \in Int, n * x < n * y + n
        PROVE  x <= y
    <2>1. SUFFICES ASSUME x >= y + 1 PROVE FALSE
      BY <1>3
    <2>2. n * x >= n * (y + 1)
      BY <2>1
    <2> QED  BY <2>2, <1>3
  <1>4. lo <= q - p /\ q - p <= hi
    BY <1>1, <1>2, <1>3
  <1> QED  BY <1>4 DEF p, q

-----------------------------------------------------------------------------
(***************************************************************************)
(* Sums.  Total folds a sequence from its last index down; what it         *)
(* computes is the last of the sums of its first 0, 1, 2, ... numbers.     *)
(***************************************************************************)

(* What the fold asks of the function that it chooses.                     *)
Folds(q, n, f) ==
    f = [t \in SUBSET (1..n) |-> IF t = {} THEN 0 ELSE f[t \ {Max(t)}] + q[Max(t)]]

(* A set of naturals that is not empty has a least member.                 *)
LEMMA LeastExists ==
    ASSUME NEW S \in SUBSET Nat, S # {}
    PROVE  \E m \in S : \A n \in S : m <= n
<1>. DEFINE Less == OpToRel(<, Nat)
<1>1. \A m, n \in Nat : <<m, n>> \in Less <=> m < n
  BY DEF OpToRel
<1>. HIDE DEF Less
<1>2. IsWellFoundedOn(Less, Nat)
  BY NatLessThanWellFounded DEF Less
<1>3. PICK m \in S : \A n \in S : ~(<<n, m>> \in Less)
  BY <1>2, WFMin
<1>4. \A n \in S : ~(n < m)
  BY <1>1, <1>3
<1>. QED
  BY <1>4

LEMMA MaxOfLast ==
    ASSUME NEW n \in Nat \ {0}, NEW t \in SUBSET (1..n), n \in t
    PROVE  Max(t) = n
<1>1. n \in t /\ \A y \in t : n >= y
  OBVIOUS
<1>2. \A x \in t : (\A y \in t : x >= y) => x = n
  BY <1>1
<1>. QED
  BY <1>1, <1>2 DEF Max

(* A fold of the first n numbers can be gone on with.                      *)
LEMMA FoldGrows ==
    ASSUME NEW q, NEW n \in Nat \ {0}, NEW f, Folds(q, n - 1, f)
    PROVE  \E g : Folds(q, n, g)
<1>. DEFINE low(t) == t \ {n}
            G == [t \in SUBSET (1..n) |-> IF n \in t THEN f[low(t)] + q[n] ELSE f[t]]
<1>1. \A t \in SUBSET (1..n) : low(t) \in SUBSET (1..(n - 1))
  OBVIOUS
<1>2. ASSUME NEW t \in SUBSET (1..n)
      PROVE  G[t] = IF t = {} THEN 0 ELSE G[t \ {Max(t)}] + q[Max(t)]
  <2>1. CASE n \in t
    <3>1. Max(t) = n /\ low(t) \in SUBSET (1..n) /\ n \notin low(t)
      BY <2>1, MaxOfLast
    <3>2. G[low(t)] = f[low(t)]
      BY <3>1
    <3>. QED
      BY <2>1, <3>1, <3>2
  <2>2. CASE n \notin t
    <3>0. \A i \in 1..n : i # n => i \in 1..(n - 1)
      OBVIOUS
    <3>1. t \in SUBSET (1..(n - 1)) /\ t \ {Max(t)} \in SUBSET (1..n) /\ n \notin t \ {Max(t)}
      BY <2>2, <3>0
    <3>2. f[t] = IF t = {} THEN 0 ELSE f[t \ {Max(t)}] + q[Max(t)]
      BY <3>1 DEF Folds
    <3>3. G[t] = f[t] /\ G[t \ {Max(t)}] = f[t \ {Max(t)}]
      BY <2>2, <3>1
    <3>. QED
      BY <3>2, <3>3
  <2>. QED
    BY <2>1, <2>2
<1>3. G = [t \in SUBSET (1..n) |-> G[t]]
  OBVIOUS
<1>. HIDE DEF G
<1>4. Folds(q, n, G)
  BY <1>2, <1>3 DEF Folds
<1>. QED
  BY <1>4

LEMMA FoldExists ==
    ASSUME NEW q
    PROVE  \A n \in Nat : \E f : Folds(q, n, f)
<1>. DEFINE Bad == {n \in Nat : ~\E f : Folds(q, n, f)}
<1>. SUFFICES ASSUME Bad # {} PROVE FALSE
  OBVIOUS
<1>1. PICK m \in Bad : \A n \in Bad : m <= n
  <2>. HIDE DEF Bad
  <2>1. Bad \in SUBSET Nat
    BY DEF Bad
  <2>. QED
    BY <2>1, LeastExists
<1>2. CASE m = 0
  <2>. DEFINE f == [t \in SUBSET (1..0) |-> 0]
  <2>1. SUBSET (1..0) = {{}}
    OBVIOUS
  <2>2. Folds(q, 0, f)
    BY <2>1 DEF Folds
  <2>. QED
    BY <1>2, <2>2
<1>3. CASE m # 0
  <2>1. m - 1 \in Nat /\ m - 1 \notin Bad /\ m \in Nat \ {0}
    BY <1>1, <1>3
  <2>2. PICK f : Folds(q, m - 1, f)
    BY <2>1
  <2>. QED
    BY <1>1, <2>1, <2>2, FoldGrows
<1>. QED
  BY <1>2, <1>3

(* Sums of the first numbers of q.                                         *)
Sums(q, S) ==
    /\ S \in [0..Len(q) -> Int]
    /\ S[0] = 0
    /\ \A k \in 1..Len(q) : S[k] = S[k - 1] + q[k]

LEMMA TotalIsSum ==
    ASSUME NEW q \in Seq(Int)
    PROVE  \E S : Sums(q, S) /\ Total(q) = S[Len(q)]
<1>. DEFINE n == Len(q)
            F == CHOOSE f : Folds(q, n, f)
            S == [k \in 0..n |-> F[1..k]]
<1>1. n \in Nat /\ DOMAIN q = 1..n /\ \A k \in 1..n : q[k] \in Int
  OBVIOUS
<1>2. Total(q) = F[1..n]
  <2>1. Total(q) = (CHOOSE f : f = [t \in SUBSET (DOMAIN q) |->
                       IF t = {} THEN 0 ELSE f[t \ {Max(t)}] + q[Max(t)]])[DOMAIN q]
    BY DEF Total, FoldLeft, MapThenFoldSet
  <2>. QED
    BY <1>1, <2>1 DEF Folds
<1>. HIDE DEF n
<1>3. Folds(q, n, F)
  BY <1>1, FoldExists
<1>. HIDE DEF F
<1>4. F[1..0] = 0
  <2>1. 1..0 = {}
    OBVIOUS
  <2>2. {} \in SUBSET (1..n)
    OBVIOUS
  <2>. QED
    BY <1>3, <2>1, <2>2 DEF Folds
<1>5. ASSUME NEW k \in 1..n
      PROVE  F[1..k] = F[1..(k - 1)] + q[k]
  <2>1. k \in Nat \ {0} /\ 1..k \in SUBSET (1..n) /\ k \in 1..k
    BY <1>1
  <2>2. Max(1..k) = k
    BY <2>1, MaxOfLast
  <2>3. (1..k) \ {k} = 1..(k - 1) /\ 1..k # {}
    BY <2>1
  <2>. QED
    BY <1>3, <2>1, <2>2, <2>3 DEF Folds
<1>6. \A k \in 0..n : F[1..k] \in Int
  <2>. DEFINE Bad == {k \in 0..n : F[1..k] \notin Int}
  <2>. SUFFICES ASSUME Bad # {} PROVE FALSE
    OBVIOUS
  <2>1. PICK m \in Bad : \A k \in Bad : m <= k
    <3>1. Bad \in SUBSET Nat
      BY <1>1
    <3>. HIDE DEF Bad
    <3>. QED
      BY <3>1, LeastExists
  <2>2. m # 0
    BY <1>4, <2>1
  <2>3. m \in 1..n /\ m - 1 \in 0..n /\ m - 1 \notin Bad
    BY <1>1, <2>1, <2>2
  <2>4. F[1..(m - 1)] \in Int /\ q[m] \in Int
    BY <1>1, <2>3
  <2>. QED
    BY <1>5, <2>1, <2>3, <2>4
<1>7. S \in [0..n -> Int] /\ S[0] = 0 /\ S[n] = F[1..n]
  BY <1>1, <1>4, <1>6
<1>8. \A k \in 1..n : S[k] = S[k - 1] + q[k]
  BY <1>1, <1>5
<1>. HIDE DEF S
<1>9. Sums(q, S)
  BY <1>7, <1>8 DEF Sums, n
<1>. QED
  BY <1>2, <1>7, <1>9 DEF n

(* A total of naturals is one, and a multiple of five if all of them are.  *)
LEMMA TotalFives ==
    ASSUME NEW q \in Seq(Nat)
    PROVE  /\ Total(q) \in Nat
           /\ (\A i \in DOMAIN q : q[i] % 5 = 0) => Total(q) % 5 = 0
<1>0. q \in Seq(Int) /\ Len(q) \in Nat /\ DOMAIN q = 1..Len(q) /\ \A i \in DOMAIN q : q[i] \in Nat
  OBVIOUS
<1>1. PICK S : Sums(q, S) /\ Total(q) = S[Len(q)]
  BY <1>0, TotalIsSum
<1>. DEFINE Good(n) == n \in Nat /\ ((\A i \in DOMAIN q : q[i] % 5 = 0) => n % 5 = 0)
            Bad == {k \in 0..Len(q) : ~Good(S[k])}
<1>. SUFFICES ASSUME Bad # {} PROVE FALSE
  BY <1>0, <1>1
<1>2. PICK m \in Bad : \A k \in Bad : m <= k
  <2>1. Bad \in SUBSET Nat
    BY <1>0
  <2>. HIDE DEF Bad
  <2>. QED
    BY <2>1, LeastExists
<1>3. m # 0
  BY <1>1, <1>2 DEF Sums
<1>4. m \in 1..Len(q) /\ m - 1 \in 0..Len(q) /\ m - 1 \notin Bad
  BY <1>0, <1>2, <1>3
<1>5. Good(S[m - 1]) /\ S[m] = S[m - 1] + q[m] /\ q[m] \in Nat
  BY <1>0, <1>1, <1>4 DEF Sums
<1>6. Good(S[m])
  <2>. DEFINE x == S[m - 1]  y == q[m]
  <2>1. x \in Nat /\ y \in Nat /\ S[m] = x + y
    BY <1>5
  <2>2. (\A i \in DOMAIN q : q[i] % 5 = 0) => x % 5 = 0 /\ y % 5 = 0
    BY <1>0, <1>4, <1>5
  <2>. HIDE DEF x, y
  <2>3. x % 5 = 0 /\ y % 5 = 0 => (x + y) % 5 = 0
    BY <2>1
  <2>. QED
    BY <2>1, <2>2, <2>3
<1>. QED
  BY <1>2, <1>6

-----------------------------------------------------------------------------
(***************************************************************************)
(* What the auditors find.                                                 *)
(***************************************************************************)

(* What a flattened sequence asks of the function that it chooses.         *)
Flattens(q, n, f) ==
    f = [i \in 1..n |-> IF i = 1 THEN q[i] ELSE f[i - 1] \o q[i]]

LEMMA FlattensExist ==
    ASSUME NEW q
    PROVE  \A n \in Nat : \E f : Flattens(q, n, f)
<1>. DEFINE Bad == {n \in Nat : ~\E f : Flattens(q, n, f)}
<1>. SUFFICES ASSUME Bad # {} PROVE FALSE
  OBVIOUS
<1>1. PICK m \in Bad : \A n \in Bad : m <= n
  <2>. HIDE DEF Bad
  <2>1. Bad \in SUBSET Nat
    BY DEF Bad
  <2>. QED
    BY <2>1, LeastExists
<1>2. CASE m = 0
  <2>. DEFINE f == [i \in 1..0 |-> <<>>]
  <2>1. Flattens(q, 0, f)
    BY DEF Flattens
  <2>. QED
    BY <1>2, <2>1
<1>3. CASE m # 0
  <2>1. m - 1 \in Nat /\ m - 1 \notin Bad /\ m \in Nat \ {0}
    BY <1>1, <1>3
  <2>2. PICK f : Flattens(q, m - 1, f)
    BY <2>1
  <2>. DEFINE G == [i \in 1..m |-> IF i < m THEN f[i]
                                  ELSE IF m = 1 THEN q[m] ELSE f[m - 1] \o q[m]]
  <2>3. ASSUME NEW i \in 1..m
        PROVE  G[i] = IF i = 1 THEN q[i] ELSE G[i - 1] \o q[i]
    <3>1. CASE i = m
      BY <2>1, <3>1
    <3>2. CASE i < m
      <4>1. i \in 1..(m - 1) /\ (i # 1 => i - 1 \in 1..m /\ i - 1 < m)
        BY <2>1, <3>2
      <4>2. f[i] = IF i = 1 THEN q[i] ELSE f[i - 1] \o q[i]
        BY <2>2, <4>1 DEF Flattens
      <4>3. G[i] = f[i] /\ (i # 1 => G[i - 1] = f[i - 1])
        BY <3>2, <4>1
      <4>. QED
        BY <4>2, <4>3
    <3>. QED
      BY <2>1, <3>1, <3>2
  <2>4. G = [i \in 1..m |-> G[i]]
    OBVIOUS
  <2>. HIDE DEF G
  <2>5. Flattens(q, m, G)
    BY <2>3, <2>4 DEF Flattens
  <2>. QED
    BY <1>1, <2>5
<1>. QED
  BY <1>2, <1>3

(* Sequences flattened into one are a sequence of what was in them.        *)
LEMMA Flattened ==
    ASSUME NEW S, NEW q \in Seq(Seq(S))
    PROVE  FlattenSeq(q) \in Seq(S)
<1>. DEFINE n == Len(q)
            F == CHOOSE f : Flattens(q, n, f)
<1>1. n \in Nat /\ DOMAIN q = 1..n /\ \A i \in 1..n : q[i] \in Seq(S)
  OBVIOUS
<1>2. FlattenSeq(q) = IF n = 0 THEN q ELSE F[n]
  BY DEF FlattenSeq, Flattens
<1>3. CASE n = 0
  BY <1>2, <1>3
<1>4. CASE n # 0
  <2>. HIDE DEF n
  <2>1. Flattens(q, n, F)
    BY <1>1, FlattensExist
  <2>. HIDE DEF F
  <2>. DEFINE Bad == {i \in 1..n : F[i] \notin Seq(S)}
  <2>. SUFFICES ASSUME Bad # {} PROVE FALSE
    BY <1>1, <1>2, <1>4
  <2>2. PICK m \in Bad : \A i \in Bad : m <= i
    <3>1. Bad \in SUBSET Nat
      BY <1>1
    <3>. HIDE DEF Bad
    <3>. QED
      BY <3>1, LeastExists
  <2>3. F[m] = IF m = 1 THEN q[m] ELSE F[m - 1] \o q[m]
    BY <2>1, <2>2 DEF Flattens
  <2>4. q[m] \in Seq(S)
    BY <1>1, <2>2
  <2>5. m # 1 => m - 1 \in 1..n /\ m - 1 \notin Bad
    BY <1>1, <2>2
  <2>6. m # 1 => F[m - 1] \in Seq(S)
    BY <2>5
  <2>7. F[m] \in Seq(S)
    <3>1. CASE m = 1
      BY <2>3, <2>4, <3>1
    <3>2. CASE m # 1
      <4>1. \A s, t \in Seq(S) : s \o t \in Seq(S)
        OBVIOUS
      <4>. QED
        BY <2>3, <2>4, <2>6, <3>2, <4>1
    <3>. QED
      BY <3>1, <3>2
  <2>. QED
    BY <2>2, <2>7
<1>. QED
  BY <1>3, <1>4

(* A finding as the auditors make it: only the images take points that are *)
(* no multiples of five.                                                   *)
Names ==
    {"missing", "empty", "short", "long", "invalid", "off-host", "multiple",
     "redirect-mismatch", "not-self-referential", "no-h1", "multiple-h1", "skipped-level",
     "mixed-content", "insecure", "title", "description", "image", "url", "card",
     "missing-alt", "empty-alt", "chain-excessive", "chain-long", "likely",
     "missing-field", "missing-context", "missing-type", "malformed"}

Checks ==
    STRING \cup ({"title", "description", "canonical", "headings", "https", "og", "images",
                  "redirects", "js-rendered", "structured"} \X Names)

Five ==
    {f \in [check : Checks, category : Category, penalty : Nat] :
       f.category # "Media" => f.penalty % 5 = 0}

LEMMA Found ==
    ASSUME NEW k \in Checks, NEW c \in Category, NEW n \in Nat, c = "Media" \/ n % 5 = 0
    PROVE  /\ <<finding(k, c, n)>> \in Seq(Five)
           /\ \A b : When(b, finding(k, c, n)) \in Seq(Five)
           /\ \A m \in Nat : Times(m, finding(k, c, n)) \in Seq(Five)
<1>1. finding(k, c, n) \in Five
  BY DEF finding, Five
<1>. PICK f : f = finding(k, c, n)
  OBVIOUS
<1>2. <<f>> \in Seq(Five) /\ <<>> \in Seq(Five)
  BY <1>1
<1>3. \A m \in Nat : [i \in 1..m |-> f] \in Seq(Five)
  BY <1>1
<1>. QED
  BY <1>2, <1>3 DEF When, Times

LEMMA Joined == \A s, t \in Seq(Five) : s \o t \in Seq(Five)
  OBVIOUS

LEMMA EachFound ==
    ASSUME NEW n \in Nat, NEW q, DOMAIN q = 1..n, q = [i \in 1..n |-> q[i]],
           \A i \in 1..n : q[i] \in Seq(Five)
    PROVE  FlattenSeq(q) \in Seq(Five)
<1>1. q \in Seq(Seq(Five))
  <2>1. q \in [1..n -> Seq(Five)]
    OBVIOUS
  <2>. QED
    BY <2>1
<1>. QED
  BY <1>1, Flattened

LEMMA VerdictsFound ==
    ASSUME NEW p \in Page
    PROVE  /\ audit_title(p) \in Seq(Five) /\ audit_description(p) \in Seq(Five)
           /\ audit_canonical(p) \in Seq(Five)
<1>. "Metadata" \in Category
  BY WeightFacts
<1>1. ASSUME NEW check \in {"title", "description"}, NEW verdict \in Verdicts, NEW penalties,
             \A v \in Verdicts \ {"fits"} : penalties[v] \in Nat /\ penalties[v] % 5 = 0
      PROVE  LengthFindings(check, verdict, penalties) \in Seq(Five)
  <2>1. CASE verdict = "fits"
    BY <2>1 DEF LengthFindings
  <2>2. CASE verdict # "fits"
    <3>1. <<check, verdict>> \in Checks
      BY <2>2 DEF Checks, Names, Verdicts
    <3>. QED
      BY <1>1, <2>2, <3>1, Found DEF LengthFindings
  <2>. QED
    BY <2>1, <2>2
<1>2. p.title \in Verdicts /\ p.description \in Verdicts
  BY DEF Page
<1>3. audit_title(p) \in Seq(Five)
  <2>. DEFINE costs == [missing |-> 30, empty |-> 30, short |-> 15, long |-> 10]
  <2>1. \A v \in Verdicts \ {"fits"} : costs[v] \in Nat /\ costs[v] % 5 = 0
    BY DEF Verdicts
  <2>. HIDE DEF costs
  <2>2. LengthFindings("title", p.title, costs) \in Seq(Five)
    BY <1>1, <1>2, <2>1
  <2>. QED
    BY <2>2 DEF audit_title, costs
<1>4. audit_description(p) \in Seq(Five)
  <2>. DEFINE costs == [missing |-> 20, empty |-> 20, short |-> 10, long |-> 5]
  <2>1. \A v \in Verdicts \ {"fits"} : costs[v] \in Nat /\ costs[v] % 5 = 0
    BY DEF Verdicts
  <2>. HIDE DEF costs
  <2>2. LengthFindings("description", p.description, costs) \in Seq(Five)
    BY <1>1, <1>2, <2>1
  <2>. QED
    BY <2>2 DEF audit_description, costs
<1>5. audit_canonical(p) \in Seq(Five)
  <2>1. /\ <<"canonical", "missing">> \in Checks
        /\ <<"canonical", "invalid">> \in Checks
        /\ <<"canonical", "off-host">> \in Checks
    BY DEF Checks, Names
  <2>. PICK c : c = canonical(p)
    OBVIOUS
  <2>2. When(~c.href, finding(<<"canonical", "missing">>, "Metadata", 10)) \in Seq(Five)
    BY <2>1, Found
  <2>3. When(c.href /\ ~c.absolute, finding(<<"canonical", "invalid">>, "Metadata", 10)) \in Seq(Five)
    BY <2>1, Found
  <2>4. When(c.absolute /\ ~c.host, finding(<<"canonical", "off-host">>, "Metadata", 15)) \in Seq(Five)
    BY <2>1, Found
  <2>. QED
    BY <2>2, <2>3, <2>4, Joined DEF audit_canonical
<1>. QED
  BY <1>3, <1>4, <1>5

LEMMA MetadataFound ==
    ASSUME NEW p \in Page
    PROVE  MetadataAuditor(p) \in Seq(Five)
  BY VerdictsFound, Joined DEF MetadataAuditor

LEMMA CanonicalFound ==
    ASSUME NEW p
    PROVE  CanonicalAuditor(p) \in Seq(Five)
<1>. "Metadata" \in Category
  BY WeightFacts
<1>1. /\ <<"canonical", "multiple">> \in Checks
      /\ <<"canonical", "redirect-mismatch">> \in Checks
      /\ <<"canonical", "not-self-referential">> \in Checks
  BY DEF Checks, Names
<1>2. \A b : When(b, finding(<<"canonical", "multiple">>, "Metadata", 10)) \in Seq(Five)
  BY <1>1, Found
<1>3. \A b : When(b, finding(<<"canonical", "redirect-mismatch">>, "Metadata", 15)) \in Seq(Five)
  BY <1>1, Found
<1>4. \A b : When(b, finding(<<"canonical", "not-self-referential">>, "Metadata", 5)) \in Seq(Five)
  BY <1>1, Found
<1>. PICK h : h = canonicals(p)
  OBVIOUS
<1>. QED
  BY <1>2, <1>3, <1>4, Joined DEF CanonicalAuditor

LEMMA SkipsFinite ==
    ASSUME NEW p
    PROVE  IsFiniteSet(Skips(p)) /\ Cardinality(Skips(p)) \in Nat
<1>1. IsFiniteSet(1..6)
  <2>1. 1 \in Int /\ 6 \in Int
    OBVIOUS
  <2>. QED
    BY <2>1, FS_Interval
<1>2. Levels(p) \subseteq 1..6 /\ Skips(p) \subseteq Levels(p) \X Levels(p)
  BY DEF Levels, Skips
<1>3. IsFiniteSet(Levels(p))
  BY <1>1, <1>2, FS_Subset
<1>4. IsFiniteSet(Levels(p) \X Levels(p))
  BY <1>3, FS_Product
<1>5. IsFiniteSet(Skips(p))
  BY <1>2, <1>4, FS_Subset
<1>. QED
  BY <1>5, FS_CardinalityType

LEMMA HeadingsFound ==
    ASSUME NEW p \in Page
    PROVE  HeadingsAuditor(p) \in Seq(Five)
<1>. "Structure" \in Category
  BY WeightFacts
<1>1. /\ <<"headings", "no-h1">> \in Checks /\ <<"headings", "multiple-h1">> \in Checks
      /\ <<"headings", "empty">> \in Checks /\ <<"headings", "skipped-level">> \in Checks
  BY DEF Checks, Names
<1>2. p.blank \in Nat
  BY DEF Page
<1>3. Cardinality(Skips(p)) \in Nat
  BY SkipsFinite
<1>4. When(p.headings[1] = 0, finding(<<"headings", "no-h1">>, "Structure", 40)) \in Seq(Five)
  BY <1>1, Found
<1>5. When(p.headings[1] > 1, finding(<<"headings", "multiple-h1">>, "Structure", 20)) \in Seq(Five)
  BY <1>1, Found
<1>6. Times(p.blank, finding(<<"headings", "empty">>, "Structure", 10)) \in Seq(Five)
  <2>1. \A m \in Nat : Times(m, finding(<<"headings", "empty">>, "Structure", 10)) \in Seq(Five)
    BY <1>1, Found
  <2>. QED
    BY <1>2, <2>1
<1>7. Times(Cardinality(Skips(p)), finding(<<"headings", "skipped-level">>, "Structure", 10)) \in Seq(Five)
  BY <1>1, <1>3, Found
<1>. QED
  BY <1>4, <1>5, <1>6, <1>7, Joined DEF HeadingsAuditor

LEMMA HttpResourcesNat ==
    ASSUME NEW p \in Page
    PROVE  HttpResources(p) \in Nat
<1>1. p.plain \in Nat /\ Len(p.canonicals) \in Nat /\ DOMAIN p.canonicals = 1..Len(p.canonicals)
  BY DEF Page
<1>2. IsFiniteSet(1..Len(p.canonicals))
  <2>1. 1 \in Int /\ Len(p.canonicals) \in Int
    BY <1>1
  <2>. QED
    BY <2>1, FS_Interval
<1>. DEFINE S == {i \in DOMAIN p.canonicals : Href[p.canonicals[i]].http}
<1>3. S \subseteq 1..Len(p.canonicals)
  BY <1>1
<1>. HIDE DEF S
<1>4. Cardinality(S) \in Nat
  BY <1>2, <1>3, FS_Subset, FS_CardinalityType
<1>. QED
  BY <1>1, <1>4 DEF HttpResources, S

LEMMA HttpsFound ==
    ASSUME NEW p \in Page
    PROVE  HttpsAuditor(p) \in Seq(Five)
<1>. "Security" \in Category
  BY WeightFacts
<1>1. <<"https", "mixed-content">> \in Checks /\ <<"https", "insecure">> \in Checks
  BY DEF Checks, Names
<1>2. HttpResources(p) \in Nat
  BY HttpResourcesNat
<1>3. Times(HttpResources(p), finding(<<"https", "mixed-content">>, "Security", 20)) \in Seq(Five)
  BY <1>1, <1>2, Found
<1>4. <<finding(<<"https", "insecure">>, "Security", 40)>> \in Seq(Five)
  BY <1>1, Found
<1>. QED
  BY <1>3, <1>4 DEF HttpsAuditor

LEMMA OpengraphFound ==
    ASSUME NEW p
    PROVE  OpengraphAuditor(p) \in Seq(Five)
<1>. "SocialTags" \in Category
  BY WeightFacts
<1>. DEFINE part(i) == When(SocialTags[i] \notin p.social,
                            finding(<<"og", SocialTags[i]>>, "SocialTags", 10))
            q == [i \in 1..5 |-> part(i)]
<1>1. DOMAIN SocialTags = 1..5 /\ \A i \in 1..5 : SocialTags[i] \in Names
  BY DEF SocialTags, Names
<1>2. ASSUME NEW i \in 1..5 PROVE part(i) \in Seq(Five)
  <2>1. <<"og", SocialTags[i]>> \in Checks
    BY <1>1 DEF Checks
  <2>. QED
    BY <2>1, Found
<1>. HIDE DEF part
<1>3. FlattenSeq(q) \in Seq(Five)
  <2>1. DOMAIN q = 1..5 /\ q = [i \in 1..5 |-> q[i]] /\ \A i \in 1..5 : q[i] \in Seq(Five)
    BY <1>2
  <2>. HIDE DEF q
  <2>. QED
    BY <2>1, EachFound
<1>. QED
  BY <1>1, <1>3 DEF OpengraphAuditor, part

LEMMA ImagesFound ==
    ASSUME NEW p \in Page
    PROVE  ImagesAuditor(p) \in Seq(Five)
<1>. "Media" \in Category
  BY WeightFacts
<1>1. <<"images", "missing-alt">> \in Checks /\ <<"images", "empty-alt">> \in Checks
  BY DEF Checks, Names
<1>2. p.noAlt \in Nat /\ p.emptyAlt \in Nat
  BY DEF Page
<1>. QED
  BY <1>1, <1>2, Found, Joined DEF ImagesAuditor

LEMMA RedirectsFound ==
    ASSUME NEW p
    PROVE  RedirectsAuditor(p) \in Seq(Five)
<1>. "Links" \in Category
  BY WeightFacts
<1>1. <<"redirects", "chain-excessive">> \in Checks /\ <<"redirects", "chain-long">> \in Checks
  BY DEF Checks, Names
<1>2. When(p.chain > 5, finding(<<"redirects", "chain-excessive">>, "Links", 30)) \in Seq(Five)
  BY <1>1, Found
<1>3. When(p.chain > 3 /\ p.chain <= 5, finding(<<"redirects", "chain-long">>, "Links", 15)) \in Seq(Five)
  BY <1>1, Found
<1>. QED
  BY <1>2, <1>3, Joined DEF RedirectsAuditor

LEMMA JsRenderedFound ==
    ASSUME NEW p
    PROVE  JsRenderedAuditor(p) \in Seq(Five)
<1>. "Structure" \in Category
  BY WeightFacts
<1>1. <<"js-rendered", "likely">> \in Checks
  BY DEF Checks, Names
<1>. QED
  BY <1>1, Found DEF JsRenderedAuditor

LEMMA StructuredFound ==
    ASSUME NEW p \in Page
    PROVE  StructuredDataAuditor(p) \in Seq(Five)
<1>. "Metadata" \in Category
  BY WeightFacts
<1>1. /\ <<"structured", "missing-field">> \in Checks
      /\ <<"structured", "missing-context">> \in Checks
      /\ <<"structured", "missing-type">> \in Checks
      /\ <<"structured", "malformed">> \in Checks
  BY DEF Checks, Names
<1>2. ASSUME NEW node, NEW type
      PROVE  check_required_fields(node, type) \in Seq(Five)
  <2>1. CASE type \notin DOMAIN Required
    BY <2>1 DEF check_required_fields
  <2>2. CASE type \in DOMAIN Required
    <3>1. PICK n \in Nat : DOMAIN Required[type] = 1..n
      <4>1. /\ DOMAIN Required = {"Article", "BlogPosting", "NewsArticle", "Product",
                                  "BreadcrumbList", "FAQPage"}
            /\ Required["Article"] = ArticleFields /\ Required["BlogPosting"] = ArticleFields
            /\ Required["NewsArticle"] = ArticleFields /\ Required["Product"] = <<"name">>
            /\ Required["BreadcrumbList"] = <<"itemListElement">>
            /\ Required["FAQPage"] = <<"mainEntity">>
        BY DEF Required
      <4>2. /\ DOMAIN ArticleFields = 1..3 /\ DOMAIN <<"name">> = 1..1
            /\ DOMAIN <<"itemListElement">> = 1..1 /\ DOMAIN <<"mainEntity">> = 1..1
        BY DEF ArticleFields
      <4>. QED
        BY <2>2, <4>1, <4>2
    <3>. DEFINE part(i) == When(Required[type][i] \notin node.fields,
                                finding(<<"structured", "missing-field">>, "Metadata", 10))
                q == [i \in 1..n |-> part(i)]
    <3>2. \A i \in 1..n : part(i) \in Seq(Five)
      BY <1>1, Found
    <3>. HIDE DEF part
    <3>3. DOMAIN q = 1..n /\ q = [i \in 1..n |-> q[i]] /\ \A i \in 1..n : q[i] \in Seq(Five)
      BY <3>2
    <3>4. check_required_fields(node, type) = FlattenSeq(q)
      BY <2>2, <3>1 DEF check_required_fields, part
    <3>. HIDE DEF q
    <3>. QED
      BY <3>3, <3>4, EachFound
  <2>. QED
    BY <2>1, <2>2
<1>3. ASSUME NEW node \in Nodes
      PROVE  validate_object(node) \in Seq(Five)
  <2>1. PICK n \in Nat : DOMAIN node.types = 1..n
    BY DEF Nodes
  <2>. DEFINE part(i) == check_required_fields(node, node.types[i])
              q == [i \in 1..n |-> part(i)]
  <2>2. \A i \in 1..n : part(i) \in Seq(Five)
    BY <1>2
  <2>. HIDE DEF part
  <2>3. DOMAIN q = 1..n /\ q = [i \in 1..n |-> q[i]] /\ \A i \in 1..n : q[i] \in Seq(Five)
    BY <2>2
  <2>4. validate_object(node) =
          When(~node.context, finding(<<"structured", "missing-context">>, "Metadata", 5))
          \o When(~node.typed, finding(<<"structured", "missing-type">>, "Metadata", 10))
          \o (IF ~node.typed THEN <<>> ELSE FlattenSeq(q))
    BY <2>1 DEF validate_object, part
  <2>. HIDE DEF q
  <2>5. FlattenSeq(q) \in Seq(Five) /\ <<>> \in Seq(Five)
    BY <2>3, EachFound
  <2>6. When(~node.context, finding(<<"structured", "missing-context">>, "Metadata", 5)) \in Seq(Five)
    BY <1>1, Found
  <2>7. When(~node.typed, finding(<<"structured", "missing-type">>, "Metadata", 10)) \in Seq(Five)
    BY <1>1, Found
  <2>. QED
    BY <2>4, <2>5, <2>6, <2>7, Joined
<1>4. ASSUME NEW block \in [parsed : BOOLEAN, nodes : Seq(Nodes)]
      PROVE  validate_node(block) \in Seq(Five)
  <2>1. PICK n \in Nat : DOMAIN block.nodes = 1..n /\ \A i \in 1..n : block.nodes[i] \in Nodes
    OBVIOUS
  <2>. DEFINE part(i) == validate_object(block.nodes[i])
              q == [i \in 1..n |-> part(i)]
  <2>2. \A i \in 1..n : part(i) \in Seq(Five)
    BY <1>3, <2>1
  <2>. HIDE DEF part
  <2>3. DOMAIN q = 1..n /\ q = [i \in 1..n |-> q[i]] /\ \A i \in 1..n : q[i] \in Seq(Five)
    BY <2>2
  <2>4. validate_node(block) = FlattenSeq(q)
    BY <2>1 DEF validate_node, part
  <2>. HIDE DEF q
  <2>. QED
    BY <2>3, <2>4, EachFound
<1>5. PICK n \in Nat : /\ DOMAIN p.jsonld = 1..n
                       /\ \A i \in 1..n : p.jsonld[i] \in [parsed : BOOLEAN, nodes : Seq(Nodes)]
  <2>. DEFINE Blocks == [parsed : BOOLEAN, nodes : Seq(Nodes)]
  <2>1. p.jsonld \in Seq(Blocks)
    BY Zenon DEF Page
  <2>. HIDE DEF Blocks
  <2>2. \E n \in Nat : DOMAIN p.jsonld = 1..n /\ \A i \in 1..n : p.jsonld[i] \in Blocks
    BY <2>1
  <2>. QED
    BY <2>2 DEF Blocks
<1>. DEFINE part(i) == IF p.jsonld[i].parsed THEN validate_node(p.jsonld[i])
                       ELSE <<finding(<<"structured", "malformed">>, "Metadata", 10)>>
            q == [i \in 1..n |-> part(i)]
<1>6. \A i \in 1..n : part(i) \in Seq(Five)
  <2>1. <<finding(<<"structured", "malformed">>, "Metadata", 10)>> \in Seq(Five)
    BY <1>1, Found
  <2>. QED
    BY <1>4, <1>5, <2>1
<1>. HIDE DEF part
<1>7. DOMAIN q = 1..n /\ q = [i \in 1..n |-> q[i]] /\ \A i \in 1..n : q[i] \in Seq(Five)
  BY <1>6
<1>8. StructuredDataAuditor(p) = FlattenSeq(q)
  BY <1>5 DEF StructuredDataAuditor, part
<1>. HIDE DEF q
<1>. QED
  BY <1>7, <1>8, EachFound

LEMMA OthersFound ==
    ASSUME NEW p \in Page, \A i \in DOMAIN p.others : p.others[i].penalty % 5 = 0
    PROVE  p.others \in Seq(Five)
<1>1. PICK n \in Nat : /\ DOMAIN p.others = 1..n
                       /\ p.others = [i \in 1..n |-> p.others[i]]
                       /\ \A i \in 1..n : p.others[i] \in Finding
  <2>1. p.others \in Seq(Finding)
    BY Zenon DEF Page
  <2>. QED
    BY <2>1
<1>2. \A f \in Finding : f.penalty % 5 = 0 => f \in Five
  BY DEF Finding, Five, Checks
<1>3. \A i \in 1..n : p.others[i] \in Five
  BY <1>1, <1>2
<1>4. p.others \in [1..n -> Five]
  BY <1>1, <1>3
<1>. QED
  BY <1>4

(* All that is found on a page.                                            *)
LEMMA PageFound ==
    ASSUME NEW p \in Page, \A i \in DOMAIN p.others : p.others[i].penalty % 5 = 0
    PROVE  page_auditors(p) \o p.others \in Seq(Five)
<1>1. /\ MetadataAuditor(p) \in Seq(Five) /\ CanonicalAuditor(p) \in Seq(Five)
      /\ HeadingsAuditor(p) \in Seq(Five) /\ HttpsAuditor(p) \in Seq(Five)
      /\ OpengraphAuditor(p) \in Seq(Five) /\ ImagesAuditor(p) \in Seq(Five)
      /\ RedirectsAuditor(p) \in Seq(Five) /\ JsRenderedAuditor(p) \in Seq(Five)
      /\ StructuredDataAuditor(p) \in Seq(Five)
  BY MetadataFound, CanonicalFound, HeadingsFound, HttpsFound, OpengraphFound, ImagesFound,
     RedirectsFound, JsRenderedFound, StructuredFound
<1>2. page_auditors(p) \in Seq(Five)
  BY <1>1, Joined DEF page_auditors
<1>3. p.others \in Seq(Five)
  BY OthersFound
<1>. QED
  BY <1>2, <1>3, Joined

LEMMA CategoryFives ==
    ASSUME NEW fs \in Seq(Five)
    PROVE  Fives(CategoryScores(fs))
<1>. DEFINE costs(c) == [i \in DOMAIN fs |-> IF fs[i].category = c THEN fs[i].penalty ELSE 0]
<1>1. Len(fs) \in Nat /\ DOMAIN fs = 1..Len(fs) /\ \A i \in DOMAIN fs : fs[i] \in Five
  OBVIOUS
<1>2. ASSUME NEW c \in Category
      PROVE  /\ costs(c) \in Seq(Nat)
             /\ c # "Media" => \A i \in DOMAIN costs(c) : costs(c)[i] % 5 = 0
  <2>1. \A i \in DOMAIN fs : costs(c)[i] \in Nat
    BY <1>1 DEF Five
  <2>2. costs(c) \in [1..Len(fs) -> Nat]
    BY <1>1, <2>1
  <2>3. costs(c) \in Seq(Nat)
    BY <1>1, <2>2
  <2>4. ASSUME c # "Media", NEW i \in DOMAIN fs
        PROVE  costs(c)[i] % 5 = 0
    BY <1>1, <2>4 DEF Five
  <2>. QED
    BY <2>3, <2>4
<1>3. CategoryScores(fs) = [c \in Category |-> Clamp(100 - Total(costs(c)))]
  BY DEF CategoryScores
<1>. HIDE DEF costs
<1>4. \A n \in Nat : Clamp(100 - n) \in 0..100 /\ (n % 5 = 0 => Clamp(100 - n) % 5 = 0)
  BY DEF Clamp
<1>5. \A c \in Category : Total(costs(c)) \in Nat /\ (c # "Media" => Total(costs(c)) % 5 = 0)
  BY <1>2, TotalFives
<1>. DEFINE score(c) == Clamp(100 - Total(costs(c)))
<1>6. ASSUME NEW c \in Category
      PROVE  score(c) \in 0..100 /\ (c # "Media" => score(c) % 5 = 0)
  <2>. DEFINE n == Total(costs(c))
  <2>1. n \in Nat /\ (c # "Media" => n % 5 = 0)
    BY <1>5
  <2>. HIDE DEF n
  <2>2. Clamp(100 - n) \in 0..100 /\ (n % 5 = 0 => Clamp(100 - n) % 5 = 0)
    BY <1>4, <2>1
  <2>3. score(c) = Clamp(100 - n)
    BY DEF n
  <2>. QED
    BY <2>1, <2>2, <2>3
<1>7. CategoryScores(fs) = [c \in Category |-> score(c)]
  BY <1>3
<1>. HIDE DEF score
<1>8. \A c \in Category : CategoryScores(fs)[c] = score(c)
  BY <1>7
<1>. QED
  BY <1>6, <1>7, <1>8 DEF Fives

-----------------------------------------------------------------------------
(* Every page of every site gets category scores as ScoreUnique wants them. *)
LEMMA Scored == \A s \in Sites : \A u \in DOMAIN s : Fives(CategoryScoresOf(s[u]))
<1>. SUFFICES ASSUME NEW s \in Sites, NEW u \in DOMAIN s
              PROVE  Fives(CategoryScoresOf(s[u]))
  OBVIOUS
<1>. PICK p : p = s[u]
  OBVIOUS
<1>1. p \in Page /\ \A i \in DOMAIN p.others : p.others[i].penalty % 5 = 0
  BY SitesAssumption
<1>2. page_auditors(p) \o p.others \in Seq(Five)
  BY <1>1, PageFound
<1>. QED
  BY <1>2, CategoryFives DEF CategoryScoresOf

(* The reports that an audit can make of a site are one.                   *)
LEMMA OneReport ==
  ASSUME NEW s \in Sites, NEW m, NEW r \in Reports(s, m), NEW q \in Reports(s, m)
  PROVE  r = q
  <1> DEFINE good(pages) ==
          /\ pages \in [DOMAIN s -> UNION {score_page(s[u]) : u \in DOMAIN s}]
          /\ \A u \in DOMAIN s : pages[u] \in score_page(s[u])
  <1>1. PICK f : good(f) /\ r = [pages |-> f, site_score |-> SiteScore(f, m)]
    BY DEF Reports
  <1>2. PICK g : good(g) /\ q = [pages |-> g, site_score |-> SiteScore(g, m)]
    BY DEF Reports
  <1>3. \A u \in DOMAIN s : f[u] = g[u]
    <2> SUFFICES ASSUME NEW u \in DOMAIN s PROVE f[u] = g[u]
      OBVIOUS
    <2> DEFINE cs == CategoryScoresOf(s[u])
    <2>1. PageScores(cs) = {Rounded(Weighted(cs))}
      BY ScoreUnique, Scored
    <2>2. f[u] \in score_page(s[u]) /\ g[u] \in score_page(s[u])
      BY <1>1, <1>2
    <2> QED  BY <2>1, <2>2 DEF score_page
  <1>4. f = g
    BY <1>1, <1>2, <1>3
  <1> QED  BY <1>1, <1>2, <1>4

(* The reports at hand were made of the site as it was then.               *)
Made ==
    /\ first \in Sites /\ site \in Sites
    /\ stage \in {"first", "edit"} => site = first
    /\ stage # "first" => before \in Reports(first, mode)
    /\ stage \in {"compare", "shown", "failed"} => after \in Reports(site, mode)

LEMMA MadeInit == Init => Made
  BY DEF Init, Made

LEMMA MadeNext == Made /\ [Next]_vars => Made'
  <1> SUFFICES ASSUME Made, [Next]_vars PROVE Made'
    OBVIOUS
  <1> USE DEF Made
  <1>1. CASE AuditBefore
    BY <1>1 DEF AuditBefore
  <1>2. CASE Edit
    BY <1>2, EditsAssumption DEF Edit
  <1>3. CASE AuditAfter
    BY <1>3 DEF AuditAfter
  <1>4. CASE Compare
    BY <1>4 DEF Compare
  <1>5. CASE CompareFails
    BY <1>5 DEF CompareFails
  <1>6. CASE UNCHANGED vars
    BY <1>6 DEF vars
  <1> QED  BY <1>1, <1>2, <1>3, <1>4, <1>5, <1>6 DEF Next

(* A site nobody touched gets the report it had.                           *)
THEOREM Repeats == Spec => []ReportRepeats
  <1>1. Made => ReportRepeats
    BY OneReport DEF Made, ReportRepeats
  <1> QED  BY <1>1, MadeInit, MadeNext, PTL DEF Spec

-----------------------------------------------------------------------------
(***************************************************************************)
(* The order of the rows, and what the means of two reports have to do     *)
(* with the moves of the pages.                                            *)
(***************************************************************************)

(* Rows of a difference: one for each URL of U.                            *)
Rows(row, U) == \A u \in U : row[u].url = u /\ row[u].delta \in Int

Sorted(o, row) == \A i, j \in DOMAIN o : i < j => Precedes(row[o[i]], row[o[j]])

(* Two rows precede each other in one way.                                 *)
LEMMA Ordered ==
    ASSUME NEW U \in SUBSET Nat, NEW row, Rows(row, U)
    PROVE  /\ \A u \in U : ~Precedes(row[u], row[u])
           /\ \A u, v \in U : u # v => Precedes(row[u], row[v]) \/ Precedes(row[v], row[u])
           /\ \A u, v, w \in U : Precedes(row[u], row[v]) /\ Precedes(row[v], row[w])
                                 => Precedes(row[u], row[w])
<1>1. ASSUME NEW u \in U, NEW v \in U
      PROVE  /\ u \in Int /\ v \in Int /\ row[u].delta \in Int /\ row[v].delta \in Int
             /\ Precedes(row[u], row[v])
                <=> row[u].delta < row[v].delta \/ (row[u].delta = row[v].delta /\ u < v)
  <2>1. u \in Int /\ v \in Int
    OBVIOUS
  <2>2. row[u].url = u /\ row[v].url = v /\ row[u].delta \in Int /\ row[v].delta \in Int
    BY Zenon DEF Rows
  <2>. QED
    BY <2>1, <2>2 DEF Precedes
<1>2. ASSUME NEW u \in U PROVE ~Precedes(row[u], row[u])
  <2>1. u \in Int /\ row[u].delta \in Int
    BY <1>1
  <2>2. Precedes(row[u], row[u])
        <=> row[u].delta < row[u].delta \/ (row[u].delta = row[u].delta /\ u < u)
    BY <1>1
  <2>. QED
    BY <2>1, <2>2
<1>3. ASSUME NEW u \in U, NEW v \in U, u # v
      PROVE  Precedes(row[u], row[v]) \/ Precedes(row[v], row[u])
  <2>1. u \in Int /\ v \in Int /\ row[u].delta \in Int /\ row[v].delta \in Int
    BY <1>1
  <2>2. \/ row[u].delta < row[v].delta \/ (row[u].delta = row[v].delta /\ u < v)
        \/ row[v].delta < row[u].delta \/ (row[v].delta = row[u].delta /\ v < u)
    BY <1>3, <2>1
  <2>3. /\ Precedes(row[u], row[v])
           <=> row[u].delta < row[v].delta \/ (row[u].delta = row[v].delta /\ u < v)
        /\ Precedes(row[v], row[u])
           <=> row[v].delta < row[u].delta \/ (row[v].delta = row[u].delta /\ v < u)
    BY <1>1
  <2>. QED
    BY <2>2, <2>3
<1>4. ASSUME NEW u \in U, NEW v \in U, NEW w \in U,
             Precedes(row[u], row[v]), Precedes(row[v], row[w])
      PROVE  Precedes(row[u], row[w])
  <2>1. /\ u \in Int /\ v \in Int /\ w \in Int
        /\ row[u].delta \in Int /\ row[v].delta \in Int /\ row[w].delta \in Int
    BY <1>1
  <2>2. /\ row[u].delta < row[v].delta \/ (row[u].delta = row[v].delta /\ u < v)
        /\ row[v].delta < row[w].delta \/ (row[v].delta = row[w].delta /\ v < w)
    BY <1>1, <1>4
  <2>3. row[u].delta < row[w].delta \/ (row[u].delta = row[w].delta /\ u < w)
    BY <2>1, <2>2
  <2>. QED
    BY <1>1, <2>3
<1>. QED
  BY <1>2, <1>3, <1>4

(* A row has its place after the rows that precede it: there is an order.  *)
LEMMA OrderExists ==
    ASSUME NEW U \in SUBSET Nat, IsFiniteSet(U), NEW row, Rows(row, U)
    PROVE  \E o \in [1..Cardinality(U) -> U] : Sorted(o, row)
<1>. DEFINE n == Cardinality(U)
            less(u) == {v \in U : Precedes(row[v], row[u])}
            place == [u \in U |-> Cardinality(less(u)) + 1]
<1>1. n \in Nat
  BY FS_CardinalityType
<1>2. \A u \in U : IsFiniteSet(less(u)) /\ Cardinality(less(u)) \in Nat
  <2>1. \A u \in U : less(u) \in SUBSET U
    OBVIOUS
  <2>. HIDE DEF less
  <2>. QED
    BY <2>1, FS_Subset, FS_CardinalityType
<1>3. ASSUME NEW u \in U
      PROVE  place[u] \in 1..n
  <2>1. u \notin less(u) /\ less(u) \in SUBSET U
    BY Ordered
  <2>2. IsFiniteSet(U \ {u}) /\ Cardinality(U \ {u}) = n - 1
    BY FS_RemoveElement
  <2>3. less(u) \in SUBSET (U \ {u})
    BY <2>1
  <2>. HIDE DEF less
  <2>4. Cardinality(less(u)) <= n - 1
    BY <2>2, <2>3, FS_Subset
  <2>. QED
    BY <1>1, <1>2, <2>4
<1>4. ASSUME NEW u \in U, NEW v \in U, Precedes(row[u], row[v])
      PROVE  place[u] < place[v]
  <2>1. less(u) \in SUBSET less(v) /\ u \in less(v) /\ u \notin less(u)
    BY <1>4, Ordered
  <2>. HIDE DEF less
  <2>2. Cardinality(less(u)) <= Cardinality(less(v)) /\ Cardinality(less(v)) # Cardinality(less(u))
    BY <1>2, <2>1, FS_Subset
  <2>. QED
    BY <1>2, <2>2
<1>. HIDE DEF less
<1>5. place \in [U -> 1..n]
  BY <1>3
<1>6. \A u \in U : place[u] \in Nat
  BY <1>1, <1>3
<1>. HIDE DEF place
<1>7. \A u, v \in U : place[u] = place[v] => u = v
  <2>1. ASSUME NEW u \in U, NEW v \in U, u # v
        PROVE  place[u] # place[v]
    <3>1. CASE Precedes(row[u], row[v])
      BY <1>4, <1>6, <3>1
    <3>2. CASE Precedes(row[v], row[u])
      BY <1>4, <1>6, <3>2
    <3>. QED
      BY <2>1, <3>1, <3>2, Ordered
  <2>. QED
    BY <2>1
<1>8. place \in Surjection(U, 1..n)
  <2>1. place \in Injection(U, 1..n)
    BY <1>5, <1>7 DEF Injection, IsInjective
  <2>2. 1 \in Int /\ n \in Int
    BY <1>1
  <2>3. IsFiniteSet(1..n) /\ Cardinality(1..n) = n
    <3>1. IsFiniteSet(1..n) /\ Cardinality(1..n) = IF 1 > n THEN 0 ELSE n - 1 + 1
      BY <2>2, FS_Interval
    <3>. QED
      BY <1>1, <3>1
  <2>. QED
    BY <2>1, <2>3, FS_Injection
<1>9. \A i \in 1..n : \E u \in U : place[u] = i
  BY <1>8 DEF Surjection
<1>. DEFINE o == [i \in 1..n |-> CHOOSE u \in U : place[u] = i]
<1>10. \A i \in 1..n : o[i] \in U /\ place[o[i]] = i
  BY <1>9
<1>11. o \in [1..n -> U] /\ DOMAIN o = 1..n
  BY <1>10
<1>. HIDE DEF o
<1>12. ASSUME NEW i \in 1..n, NEW j \in 1..n, i < j
       PROVE  Precedes(row[o[i]], row[o[j]])
  <2>1. o[i] \in U /\ o[j] \in U /\ place[o[i]] = i /\ place[o[j]] = j
    BY <1>10
  <2>2. ~Precedes(row[o[j]], row[o[i]])
    <3>. SUFFICES ASSUME Precedes(row[o[j]], row[o[i]]) PROVE FALSE
      OBVIOUS
    <3>1. place[o[j]] < place[o[i]]
      BY <1>4, <2>1
    <3>. QED
      BY <1>1, <1>12, <2>1, <3>1
  <2>3. o[i] # o[j]
    BY <1>1, <1>12, <2>1
  <2>. QED
    BY <2>1, <2>2, <2>3, Ordered
<1>13. Sorted(o, row)
  BY <1>11, <1>12 DEF Sorted
<1>. QED
  BY <1>11, <1>13

(* A sorted list of as many rows as there are has every row.               *)
LEMMA OrderComplete ==
    ASSUME NEW U \in SUBSET Nat, IsFiniteSet(U), NEW row, Rows(row, U),
           NEW o \in [1..Cardinality(U) -> U], Sorted(o, row)
    PROVE  \A u \in U : \E i \in DOMAIN o : o[i] = u
<1>. DEFINE n == Cardinality(U)
<1>1. n \in Nat
  BY FS_CardinalityType
<1>2. ASSUME NEW i \in 1..n, NEW j \in 1..n, i < j
      PROVE  o[i] # o[j]
  <2>1. Precedes(row[o[i]], row[o[j]]) /\ o[i] \in U
    BY <1>2 DEF Sorted
  <2>. QED
    BY <2>1, Ordered
<1>3. o \in Injection(1..n, U)
  <2>1. \A i, j \in 1..n : o[i] = o[j] => i = j
    <3>1. ASSUME NEW i \in 1..n, NEW j \in 1..n, i # j
          PROVE  o[i] # o[j]
      <4>1. i < j \/ j < i
        BY <1>1, <3>1
      <4>. QED
        BY <1>2, <4>1
    <3>. QED
      BY <3>1
  <2>. QED
    BY <2>1 DEF Injection, IsInjective
<1>4. Cardinality(1..n) = n
  <2>1. 1 \in Int /\ n \in Int
    BY <1>1
  <2>2. Cardinality(1..n) = IF 1 > n THEN 0 ELSE n - 1 + 1
    BY <2>1, FS_Interval
  <2>. QED
    BY <1>1, <2>2
<1>5. o \in Surjection(1..n, U)
  BY <1>3, <1>4, FS_Injection
<1>. QED
  BY <1>5 DEF Surjection

(* If each number of q exceeds its partner in p by at least x, so does the *)
(* mean.                                                                   *)
LEMMA SumsGap ==
    ASSUME NEW p \in Seq(Int), NEW q \in Seq(Int), Len(p) = Len(q), NEW x \in Int,
           NEW S, NEW T, Sums(p, S), Sums(q, T),
           \A i \in 1..Len(p) : x <= q[i] - p[i]
    PROVE  Len(p) * x <= T[Len(p)] - S[Len(p)]
<1>. DEFINE n == Len(p)
            Bad == {k \in 0..n : ~(k * x <= T[k] - S[k])}
<1>1. n \in Nat /\ \A i \in 1..n : p[i] \in Int /\ q[i] \in Int
  OBVIOUS
<1>2. /\ \A k \in 0..n : S[k] \in Int /\ T[k] \in Int
      /\ S[0] = 0 /\ T[0] = 0
      /\ \A k \in 1..n : S[k] = S[k - 1] + p[k] /\ T[k] = T[k - 1] + q[k]
  BY DEF Sums
<1>. SUFFICES ASSUME Bad # {} PROVE FALSE
  <2>1. n \in 0..n
    BY <1>1
  <2>. QED
    BY Zenon, <2>1
<1>3. PICK m \in Bad : \A k \in Bad : m <= k
  <2>1. Bad \in SUBSET Nat
    BY <1>1
  <2>. HIDE DEF Bad
  <2>. QED
    BY <2>1, LeastExists
<1>4. m # 0
  BY <1>2, <1>3
<1>5. m \in 1..n /\ m - 1 \in 0..n /\ m - 1 \notin Bad
  BY <1>1, <1>3, <1>4
<1>6. (m - 1) * x <= T[m - 1] - S[m - 1] /\ x <= q[m] - p[m]
  BY <1>5
<1>7. m * x = (m - 1) * x + x
  BY <1>5
<1>8. m * x <= T[m] - S[m]
  <2>. DEFINE a == (m - 1) * x  b == T[m - 1]  c == S[m - 1]  d == q[m]  e == p[m]
  <2>0. a \in Int
    BY <1>5
  <2>1. b \in Int /\ c \in Int /\ d \in Int /\ e \in Int
    BY <1>1, <1>2, <1>5
  <2>2. T[m] = b + d /\ S[m] = c + e
    BY <1>2, <1>5
  <2>3. a <= b - c /\ x <= d - e /\ m * x = a + x
    BY <1>6, <1>7
  <2>. HIDE DEF a, b, c, d, e
  <2>. QED
    BY <2>0, <2>1, <2>2, <2>3
<1>. QED
  BY <1>3, <1>8

LEMMA MeanIs ==
    ASSUME NEW p \in Seq(Int), Len(p) # 0
    PROVE  Mean(p) = Total(p) \div Len(p) /\ Total(p) \in Int /\ Mean(p) \in Int
<1>1. PICK S : Sums(p, S) /\ Total(p) = S[Len(p)]
  BY TotalIsSum
<1>2. Len(p) \in Nat \ {0} /\ p # <<>>
  OBVIOUS
<1>3. Total(p) \in Int
  BY <1>1, <1>2 DEF Sums
<1>4. Mean(p) = Total(p) \div Len(p)
  BY <1>2 DEF Mean
<1>5. \A a \in Int, n \in Nat \ {0} : a \div n \in Int
  OBVIOUS
<1>. QED
  BY <1>2, <1>3, <1>4, <1>5

LEMMA MeanGap ==
    ASSUME NEW p \in Seq(Int), NEW q \in Seq(Int), Len(p) = Len(q), Len(p) # 0, NEW x \in Int,
           \A i \in 1..Len(p) : x <= q[i] - p[i]
    PROVE  x <= Mean(q) - Mean(p)
<1>. DEFINE n == Len(p)  a == Total(p)  b == Total(q)
<1>1. PICK S : Sums(p, S) /\ a = S[n]
  BY TotalIsSum
<1>2. PICK T : Sums(q, T) /\ b = T[n]
  BY TotalIsSum
<1>3. n \in Nat \ {0} /\ a \in Int /\ b \in Int
  BY MeanIs
<1>4. Mean(p) = a \div n /\ Mean(q) = b \div n
  BY MeanIs
<1>5. n * x <= b - a
  BY <1>1, <1>2, SumsGap
<1>. HIDE DEF n, a, b
<1>. DEFINE hi == IF b - a < 0 THEN 0 ELSE b - a
<1>6. hi \in Nat /\ b - a <= hi
  BY <1>3
<1>. HIDE DEF hi
<1>7. hi <= n * hi
  <2>1. \A k \in Nat \ {0}, h \in Nat : h <= k * h
    OBVIOUS
  <2>. QED
    BY <1>3, <1>6, <2>1
<1>8. n * hi \in Int
  BY <1>3, <1>6
<1>9. b - a <= n * hi
  BY <1>3, <1>6, <1>7, <1>8
<1>10. x <= (b \div n) - (a \div n)
  <2>1. hi \in Int
    BY <1>6
  <2>. QED
    BY Zenon, <1>3, <1>5, <1>9, <2>1, MeanMoves
<1>. QED
  BY <1>4, <1>10

(* The means of two reports lie no further apart than the numbers of some  *)
(* page, in either direction.                                              *)
LEMMA MeansWithin ==
    ASSUME NEW p \in Seq(Int), NEW q \in Seq(Int), Len(p) = Len(q), Len(p) # 0
    PROVE  /\ \E i \in 1..Len(p) : q[i] - p[i] <= Mean(q) - Mean(p)
           /\ \E i \in 1..Len(p) : Mean(q) - Mean(p) <= q[i] - p[i]
<1>. DEFINE d == Mean(q) - Mean(p)
<1>1. Mean(p) \in Int /\ Mean(q) \in Int /\ d \in Int
  BY MeanIs
<1>2. \A i \in 1..Len(p) : p[i] \in Int /\ q[i] \in Int
  OBVIOUS
<1>3. \E i \in 1..Len(p) : q[i] - p[i] <= d
  <2>. SUFFICES ASSUME \A i \in 1..Len(p) : ~(q[i] - p[i] <= d) PROVE FALSE
    OBVIOUS
  <2>. HIDE DEF d
  <2>1. \A i \in 1..Len(p) : d + 1 <= q[i] - p[i]
    BY <1>1, <1>2
  <2>2. d + 1 \in Int
    BY <1>1
  <2>3. d + 1 <= Mean(q) - Mean(p)
    BY <2>1, <2>2, MeanGap
  <2>. QED
    BY <1>1, <2>3 DEF d
<1>4. \E i \in 1..Len(p) : d <= q[i] - p[i]
  <2>. SUFFICES ASSUME \A i \in 1..Len(p) : ~(d <= q[i] - p[i]) PROVE FALSE
    OBVIOUS
  <2>. HIDE DEF d
  <2>1. \A i \in 1..Len(q) : 1 - d <= p[i] - q[i]
    BY <1>1, <1>2
  <2>2. 1 - d \in Int
    BY <1>1
  <2>3. 1 - d <= Mean(p) - Mean(q)
    BY <2>1, <2>2, MeanGap
  <2>. QED
    BY <1>1, <2>3 DEF d
<1>. QED
  BY <1>3, <1>4

LEMMA Listed ==
    ASSUME NEW D, IsFiniteSet(D), D # {}
    PROVE  \E n \in Nat \ {0} : SetToSeq(D) \in [1..n -> D]
<1>. DEFINE n == Cardinality(D)
<1>1. n \in Nat /\ n # 0 /\ ExistsBijection(1..n, D)
  BY FS_CardinalityType, FS_EmptySet
<1>2. \E f \in [1..n -> D] : IsInjective(f)
  <2>1. PICK f : f \in Bijection(1..n, D)
    BY <1>1 DEF ExistsBijection
  <2>2. f \in Injection(1..n, D)
    BY <2>1 DEF Bijection
  <2>. QED
    BY <2>2 DEF Injection
<1>3. SetToSeq(D) \in [1..n -> D]
  BY <1>2 DEF SetToSeq
<1>. QED
  BY <1>1, <1>3

(* The same of the pages, listed in the order in which OfEach takes them.  *)
LEMMA PagesWithin ==
    ASSUME NEW D, IsFiniteSet(D), D # {}, NEW P \in [D -> Int], NEW Q \in [D -> Int],
           NEW urls, urls = SetToSeq(D),
           NEW p, p = [i \in DOMAIN urls |-> P[urls[i]]],
           NEW q, q = [i \in DOMAIN urls |-> Q[urls[i]]]
    PROVE  /\ Mean(p) \in Int /\ Mean(q) \in Int
           /\ \E u \in D : Q[u] - P[u] <= Mean(q) - Mean(p)
           /\ \E u \in D : Mean(q) - Mean(p) <= Q[u] - P[u]
<1>1. PICK n \in Nat \ {0} : urls \in [1..n -> D]
  BY Listed
<1>2. DOMAIN urls = 1..n /\ \A i \in 1..n : urls[i] \in D
  BY <1>1
<1>3. p \in [1..n -> Int] /\ q \in [1..n -> Int]
  BY <1>2
<1>4. p \in Seq(Int) /\ q \in Seq(Int) /\ Len(p) = n /\ Len(q) = n
  BY <1>3
<1>5. \A i \in 1..n : p[i] = P[urls[i]] /\ q[i] = Q[urls[i]]
  BY <1>2
<1>6. Mean(p) \in Int /\ Mean(q) \in Int
  BY <1>1, <1>4, MeanIs
<1>7. PICK i \in 1..n : q[i] - p[i] <= Mean(q) - Mean(p)
  BY <1>1, <1>4, MeansWithin
<1>8. PICK j \in 1..n : Mean(q) - Mean(p) <= q[j] - p[j]
  BY <1>1, <1>4, MeansWithin
<1>9. \E u \in D : Q[u] - P[u] <= Mean(q) - Mean(p)
  BY <1>2, <1>5, <1>7
<1>10. \E u \in D : Mean(q) - Mean(p) <= Q[u] - P[u]
  BY <1>2, <1>5, <1>8
<1>. QED
  BY <1>6, <1>9, <1>10

(* What a report of a site looks like.                                     *)
Shaped(r, D) ==
    /\ DOMAIN r.pages = D
    /\ \A u \in D : /\ r.pages[u].score \in 0..100
                    /\ r.pages[u].category_scores \in [Category -> 0..100]

LEMMA ReportShape ==
    ASSUME NEW s \in Sites, NEW m, NEW r \in Reports(s, m)
    PROVE  /\ Shaped(r, DOMAIN s)
           /\ r.site_score = SiteScore(r.pages, m)
<1>1. PICK f : /\ f \in [DOMAIN s -> UNION {score_page(s[u]) : u \in DOMAIN s}]
               /\ \A u \in DOMAIN s : f[u] \in score_page(s[u])
               /\ r = [pages |-> f, site_score |-> SiteScore(f, m)]
  BY DEF Reports
<1>2. ASSUME NEW u \in DOMAIN s
      PROVE  f[u].score \in 0..100 /\ f[u].category_scores \in [Category -> 0..100]
  <2>. DEFINE cs == CategoryScoresOf(s[u])
  <2>1. cs \in [Category -> 0..100]
    BY Scored DEF Fives
  <2>. HIDE DEF cs
  <2>2. PageScores(cs) \subseteq 0..100
    <3>1. 0 \in 0..100 /\ 100 \in 0..100
      OBVIOUS
    <3>. QED
      BY <2>1, <3>1, ScoreWithin
  <2>3. PICK x \in PageScores(cs) : f[u] = [category_scores |-> cs, score |-> x]
    BY <1>1 DEF score_page, cs
  <2>. QED
    BY <2>1, <2>2, <2>3
<1>3. r.pages = f /\ r.site_score = SiteScore(f, m) /\ DOMAIN f = DOMAIN s
  BY <1>1
<1>. QED
  BY <1>2, <1>3 DEF Shaped

(* The rows of a difference are those of the pages.                        *)
RowsMatch(b, a, D) ==
    LET rows == diff_reports(b, a).pages
        moved(i, u) == rows[i].delta = a.pages[u].score - b.pages[u].score
    IN  /\ \A u \in D : \E i \in DOMAIN rows : moved(i, u)
        /\ \A i \in DOMAIN rows : \E u \in D : moved(i, u)

LEMMA RowsOfPages ==
    ASSUME NEW a, NEW b, NEW D, D \in SUBSET Nat, IsFiniteSet(D),
           Shaped(b, D), Shaped(a, D)
    PROVE  RowsMatch(b, a, D)
<1>. DEFINE U == DOMAIN b.pages \cup DOMAIN a.pages
            row == [u \in U |-> PageDiff(b, a, u)]
            order == CHOOSE o \in [1..Cardinality(U) -> U] :
                        \A i, j \in DOMAIN o : i < j => Precedes(row[o[i]], row[o[j]])
            rows == diff_reports(b, a).pages
<1>1. DOMAIN b.pages = D /\ DOMAIN a.pages = D /\ U = D
  BY DEF Shaped
<1>2. \A u \in D : row[u].url = u /\ row[u].delta = a.pages[u].score - b.pages[u].score
  BY <1>1 DEF PageDiff
<1>3. \A u \in D : a.pages[u].score - b.pages[u].score \in Int
  <2>1. \A u \in D : a.pages[u].score \in 0..100 /\ b.pages[u].score \in 0..100
    BY Zenon DEF Shaped
  <2>2. \A x, y \in 0..100 : x - y \in Int
    OBVIOUS
  <2>. QED
    BY Zenon, <2>1, <2>2
<1>4. rows = [i \in DOMAIN order |-> row[order[i]]]
  BY DEF diff_reports
<1>. HIDE DEF row, rows, U
<1>5. Rows(row, U)
  BY <1>1, <1>2, <1>3 DEF Rows
<1>6. order \in [1..Cardinality(U) -> U] /\ Sorted(order, row)
  <2>1. \E o \in [1..Cardinality(U) -> U] : Sorted(o, row)
    BY <1>1, <1>5, OrderExists
  <2>. QED
    BY <2>1 DEF Sorted
<1>. HIDE DEF order
<1>7. \A u \in D : \E i \in DOMAIN order : order[i] = u
  <2>1. U \in SUBSET Nat /\ IsFiniteSet(U)
    BY <1>1
  <2>2. \A u \in U : \E i \in DOMAIN order : order[i] = u
    BY ZenonT(60), <1>5, <1>6, <2>1, OrderComplete
  <2>. QED
    BY <1>1, <2>2
<1>8. /\ DOMAIN rows = DOMAIN order
      /\ \A i \in DOMAIN order : order[i] \in D /\ rows[i] = row[order[i]]
  BY <1>1, <1>4, <1>6
<1>9. ASSUME NEW u \in D
      PROVE  \E i \in DOMAIN rows : rows[i].delta = a.pages[u].score - b.pages[u].score
  <2>1. PICK i \in DOMAIN order : order[i] = u
    BY Zenon, <1>7
  <2>2. i \in DOMAIN rows /\ rows[i] = row[u]
    BY Zenon, <1>8, <2>1
  <2>. QED
    BY Zenon, <1>2, <2>2
<1>10. ASSUME NEW i \in DOMAIN rows
       PROVE  \E u \in D : rows[i].delta = a.pages[u].score - b.pages[u].score
  <2>1. order[i] \in D /\ rows[i] = row[order[i]]
    BY <1>8
  <2>2. rows[i].delta = a.pages[order[i]].score - b.pages[order[i]].score
    BY Zenon, <1>2, <2>1
  <2>. QED
    BY Zenon, <2>1, <2>2
<1>. QED
  BY Zenon, <1>9, <1>10 DEF RowsMatch, rows

(* What is shown is the difference of the two reports.                     *)
Shown == stage = "shown" => shown = write_text(diff_reports(before, after))

LEMMA ShownInit == Init => Shown
  BY DEF Init, Shown

LEMMA ShownNext == Shown /\ [Next]_vars => Shown'
<1>. SUFFICES ASSUME Shown, [Next]_vars PROVE Shown'
  OBVIOUS
<1>. USE DEF Shown
<1>1. CASE AuditBefore
  BY <1>1 DEF AuditBefore
<1>2. CASE Edit
  BY <1>2 DEF Edit
<1>3. CASE AuditAfter
  BY <1>3 DEF AuditAfter
<1>4. CASE Compare
  BY <1>4 DEF Compare
<1>5. CASE CompareFails
  BY <1>5 DEF CompareFails
<1>6. CASE UNCHANGED vars
  BY <1>6 DEF vars
<1>. QED
  BY <1>1, <1>2, <1>3, <1>4, <1>5, <1>6 DEF Next

LEMMA Explained == Made /\ Shown => SiteDeltaExplained
<1>. SUFFICES ASSUME Made, Shown, stage = "shown", SamePages, DOMAIN site # {}
              PROVE  SiteDeltaExplained
  BY DEF SiteDeltaExplained
<1>. DEFINE D == DOMAIN site
<1>. PICK b : b = before
  OBVIOUS
<1>. PICK a : a = after
  OBVIOUS
<1>1. /\ first \in Sites /\ site \in Sites /\ DOMAIN first = D
      /\ b \in Reports(first, mode) /\ a \in Reports(site, mode)
      /\ shown = write_text(diff_reports(b, a))
  BY DEF Made, Shown, SamePages
<1>2. D \in SUBSET Nat /\ IsFiniteSet(D) /\ D # {}
  BY <1>1, SitesAssumption
<1>3. /\ Shaped(b, D) /\ Shaped(a, D)
      /\ b.site_score = SiteScore(b.pages, mode) /\ a.site_score = SiteScore(a.pages, mode)
  BY <1>1, ReportShape
<1>. HIDE DEF D
<1>4. DOMAIN b.pages = D /\ DOMAIN a.pages = D
  BY <1>3 DEF Shaped
<1>. DEFINE urls == SetToSeq(D)
<1>5. LET d == a.site_score - b.site_score
      IN  /\ \E u \in D : a.pages[u].score - b.pages[u].score <= d
          /\ \E u \in D : d <= a.pages[u].score - b.pages[u].score
  <2>. DEFINE P == [u \in D |-> b.pages[u].score]
              Q == [u \in D |-> a.pages[u].score]
              p == [i \in DOMAIN urls |-> P[urls[i]]]
              q == [i \in DOMAIN urls |-> Q[urls[i]]]
  <2>1. P \in [D -> Int] /\ Q \in [D -> Int]
    <3>1. \A u \in D : b.pages[u].score \in 0..100 /\ a.pages[u].score \in 0..100
      BY Zenon, <1>3 DEF Shaped
    <3>. QED
      BY <3>1
  <2>2. \A i \in DOMAIN urls : urls[i] \in D
    BY <1>2, Listed
  <2>3. p = [i \in DOMAIN urls |-> b.pages[urls[i]].score]
    BY <2>2
  <2>4. q = [i \in DOMAIN urls |-> a.pages[urls[i]].score]
    BY <2>2
  <2>5. b.site_score = Mean(p) /\ a.site_score = Mean(q)
    BY <1>2, <1>3, <1>4, <2>3, <2>4 DEF SiteScore, score_site, OfEach
  <2>6. \A u \in D : P[u] = b.pages[u].score /\ Q[u] = a.pages[u].score
    OBVIOUS
  <2>. HIDE DEF P, Q
  <2>7. /\ \E u \in D : Q[u] - P[u] <= Mean(q) - Mean(p)
        /\ \E u \in D : Mean(q) - Mean(p) <= Q[u] - P[u]
    BY <1>2, <2>1, PagesWithin
  <2>. QED
    BY <2>5, <2>6, <2>7
<1>6. ASSUME NEW c \in Category
      PROVE  LET d == CategoryMean(a, c) - CategoryMean(b, c)
             IN  /\ \E u \in D : a.pages[u].category_scores[c] - b.pages[u].category_scores[c] <= d
                 /\ \E u \in D : d <= a.pages[u].category_scores[c] - b.pages[u].category_scores[c]
  <2>. DEFINE P == [u \in D |-> b.pages[u].category_scores[c]]
              Q == [u \in D |-> a.pages[u].category_scores[c]]
              p == [i \in DOMAIN urls |-> P[urls[i]]]
              q == [i \in DOMAIN urls |-> Q[urls[i]]]
  <2>1. P \in [D -> Int] /\ Q \in [D -> Int]
    <3>1. \A u \in D : b.pages[u].category_scores[c] \in 0..100 /\ a.pages[u].category_scores[c] \in 0..100
      BY <1>3 DEF Shaped
    <3>. QED
      BY <3>1
  <2>2. \A i \in DOMAIN urls : urls[i] \in D
    BY <1>2, Listed
  <2>3. p = [i \in DOMAIN urls |-> b.pages[urls[i]].category_scores[c]]
    BY <2>2
  <2>4. q = [i \in DOMAIN urls |-> a.pages[urls[i]].category_scores[c]]
    BY <2>2
  <2>5. CategoryMean(b, c) = Mean(p) /\ CategoryMean(a, c) = Mean(q)
    BY <1>4, <2>3, <2>4 DEF CategoryMean, OfEach
  <2>6. \A u \in D : /\ P[u] = b.pages[u].category_scores[c]
                     /\ Q[u] = a.pages[u].category_scores[c]
    OBVIOUS
  <2>. HIDE DEF P, Q
  <2>7. /\ \E u \in D : Q[u] - P[u] <= Mean(q) - Mean(p)
        /\ \E u \in D : Mean(q) - Mean(p) <= Q[u] - P[u]
    BY <1>2, <2>1, PagesWithin
  <2>. QED
    BY <2>5, <2>6, <2>7
<1>7. \A u \in D : a.pages[u].score - b.pages[u].score \in Deltas
  <2>1. shown.pages = diff_reports(b, a).pages
    BY <1>1 DEF write_text, PageTable
  <2>2. \A u \in D : \E i \in DOMAIN diff_reports(b, a).pages :
           diff_reports(b, a).pages[i].delta = a.pages[u].score - b.pages[u].score
    <3>1. RowsMatch(b, a, D)
      BY Zenon, <1>2, <1>3, RowsOfPages
    <3>. QED
      BY Zenon, <3>1 DEF RowsMatch
  <2>. QED
    BY <2>1, <2>2 DEF Deltas
<1>8. shown.site_score_delta = a.site_score - b.site_score
  BY <1>1 DEF write_text, diff_reports
<1>9. \A c \in Category : shown.categories[c] = CategoryMean(a, c) - CategoryMean(b, c)
  <2>1. CategoryDeltas(b, a) = [c \in Category |-> CategoryMean(a, c) - CategoryMean(b, c)]
    BY <1>2, <1>4 DEF CategoryDeltas
  <2>2. shown.categories = CategoryTable(diff_reports(b, a))
        /\ diff_reports(b, a).category_deltas = CategoryDeltas(b, a)
    BY <1>1 DEF write_text, diff_reports
  <2>. QED
    BY <2>1, <2>2 DEF CategoryTable
<1>10. /\ \E x \in Deltas : x <= shown.site_score_delta
       /\ \E x \in Deltas : shown.site_score_delta <= x
  BY <1>5, <1>7, <1>8
<1>11. ASSUME NEW c \in Category
       PROVE  LET moves == {after.pages[u].category_scores[c] - before.pages[u].category_scores[c] :
                              u \in DOMAIN site}
              IN  /\ \E x \in moves : x <= shown.categories[c]
                  /\ \E x \in moves : shown.categories[c] <= x
  BY <1>6, <1>9 DEF D
<1>. QED
  BY <1>10, <1>11 DEF SiteDeltaExplained

(* When an edit leaves the pages of a site what they are, each delta that  *)
(* is shown, of the site and of every category, lies between the moves of  *)
(* two pages, whatever the site: the integer division of the means invents *)
(* no change.                                                              *)
THEOREM NoDeltaIsInvented == Spec => []SiteDeltaExplained
<1>1. Init => Made /\ Shown
  BY MadeInit, ShownInit
<1>2. Made /\ Shown /\ [Next]_vars => (Made /\ Shown)'
  BY MadeNext, ShownNext
<1>. QED
  BY <1>1, <1>2, Explained, PTL DEF Spec

-----------------------------------------------------------------------------
(***************************************************************************)
(* A page with less wrong with it.  Cost is what the findings fs take from *)
(* category c.                                                             *)
(***************************************************************************)
Costs(fs, c) == [i \in DOMAIN fs |-> IF fs[i].category = c THEN fs[i].penalty ELSE 0]

Cost(fs, c) == Total(Costs(fs, c))

LEMMA CostsAre ==
    ASSUME NEW fs \in Seq(Five), NEW c
    PROVE  /\ Costs(fs, c) \in Seq(Nat) /\ Len(Costs(fs, c)) = Len(fs)
           /\ \A i \in 1..Len(fs) : Costs(fs, c)[i] = IF fs[i].category = c THEN fs[i].penalty ELSE 0
<1>1. Len(fs) \in Nat /\ DOMAIN fs = 1..Len(fs) /\ \A i \in DOMAIN fs : fs[i] \in Five
  OBVIOUS
<1>. DEFINE x(i) == IF fs[i].category = c THEN fs[i].penalty ELSE 0
<1>2. \A i \in DOMAIN fs : x(i) \in Nat
  BY <1>1 DEF Five
<1>3. Costs(fs, c) = [i \in 1..Len(fs) |-> x(i)]
  BY <1>1 DEF Costs
<1>. HIDE DEF x
<1>4. Costs(fs, c) \in [1..Len(fs) -> Nat]
  BY <1>1, <1>2, <1>3
<1>5. Costs(fs, c) \in Seq(Nat) /\ Len(Costs(fs, c)) = Len(fs)
  BY <1>1, <1>4
<1>6. \A i \in 1..Len(fs) : Costs(fs, c)[i] = x(i)
  BY <1>3
<1>. QED
  BY <1>5, <1>6 DEF x

LEMMA CostNat ==
    ASSUME NEW fs \in Seq(Five), NEW c
    PROVE  Cost(fs, c) \in Nat
  BY CostsAre, TotalFives DEF Cost

(* The sums of q go on where those of p end.                               *)
LEMMA TotalJoined ==
    ASSUME NEW p \in Seq(Nat), NEW q \in Seq(Nat)
    PROVE  Total(p \o q) = Total(p) + Total(q)
<1>. DEFINE m == Len(p)  n == Len(q)
<1>. PICK pq : pq = p \o q
  OBVIOUS
<1>1. /\ p \in Seq(Int) /\ q \in Seq(Int) /\ p \o q \in Seq(Int)
      /\ m \in Nat /\ n \in Nat /\ Len(p \o q) = m + n
      /\ \A k \in 1..m : p[k] \in Int /\ (p \o q)[k] = p[k]
      /\ \A k \in 1..n : q[k] \in Int /\ (p \o q)[m + k] = q[k]
  OBVIOUS
<1>2. PICK S : Sums(p, S) /\ Total(p) = S[m]
  BY <1>1, TotalIsSum
<1>3. PICK T : Sums(q, T) /\ Total(q) = T[n]
  BY <1>1, TotalIsSum
<1>4. PICK R : Sums(p \o q, R) /\ Total(p \o q) = R[m + n]
  BY <1>1, TotalIsSum
<1>5. /\ S[0] = 0 /\ \A k \in 0..m : S[k] \in Int
      /\ \A k \in 1..m : S[k] = S[k - 1] + p[k]
  BY <1>2 DEF Sums
<1>6. /\ T[0] = 0 /\ \A k \in 0..n : T[k] \in Int
      /\ \A k \in 1..n : T[k] = T[k - 1] + q[k]
  BY <1>3 DEF Sums
<1>7. /\ R[0] = 0 /\ \A k \in 0..(m + n) : R[k] \in Int
      /\ \A k \in 1..(m + n) : R[k] = R[k - 1] + pq[k]
  BY <1>1, <1>4 DEF Sums
<1>. HIDE DEF m, n
<1>8. R[m] = S[m]
  <2>. DEFINE Bad == {k \in 0..m : R[k] # S[k]}
  <2>. SUFFICES ASSUME Bad # {} PROVE FALSE
    <3>1. m \in 0..m
      BY <1>1
    <3>. QED
      BY Zenon, <3>1
  <2>1. PICK j \in Bad : \A k \in Bad : j <= k
    <3>1. Bad \in SUBSET Nat
      BY <1>1
    <3>. HIDE DEF Bad
    <3>. QED
      BY <3>1, LeastExists
  <2>2. j # 0
    BY <1>5, <1>7, <2>1
  <2>3. j \in 1..m /\ j - 1 \in 0..m /\ j - 1 \notin Bad /\ j \in 1..(m + n)
    BY <1>1, <2>1, <2>2
  <2>4. R[j - 1] = S[j - 1] /\ pq[j] = p[j]
    BY <1>1, <2>3
  <2>5. R[j] = R[j - 1] + pq[j] /\ S[j] = S[j - 1] + p[j]
    BY <1>5, <1>7, <2>3
  <2>. QED
    BY <2>1, <2>4, <2>5
<1>9. R[m + n] = S[m] + T[n]
  <2>. DEFINE Bad == {k \in 0..n : R[m + k] # S[m] + T[k]}
  <2>. SUFFICES ASSUME Bad # {} PROVE FALSE
    <3>1. n \in 0..n
      BY <1>1
    <3>. QED
      BY Zenon, <3>1
  <2>1. PICK j \in Bad : \A k \in Bad : j <= k
    <3>1. Bad \in SUBSET Nat
      BY <1>1
    <3>. HIDE DEF Bad
    <3>. QED
      BY <3>1, LeastExists
  <2>2. j # 0
    <3>1. S[m] \in Int /\ m + 0 = m /\ S[m] + 0 = S[m]
      BY <1>1, <1>5
    <3>. QED
      BY <1>6, <1>8, <2>1, <3>1
  <2>3. /\ j \in 1..n /\ j - 1 \in 0..n /\ j - 1 \notin Bad
        /\ m + j \in 1..(m + n) /\ m + j - 1 = m + (j - 1) /\ j \in 0..n /\ m \in 0..m
    BY <1>1, <2>1, <2>2
  <2>4. R[m + (j - 1)] = S[m] + T[j - 1] /\ pq[m + j] = q[j]
    BY <1>1, <2>3
  <2>5. R[m + j] = R[m + (j - 1)] + pq[m + j] /\ T[j] = T[j - 1] + q[j]
    <3>0. \A k \in 1..(m + n) : R[k] = R[k - 1] + pq[k]
      BY <1>7
    <3>1. R[m + j] = R[m + j - 1] + pq[m + j]
      <4>. HIDE DEF Bad
      <4>. PICK k : k = m + j
        OBVIOUS
      <4>1. k \in 1..(m + n)
        BY <2>3
      <4>2. R[k] = R[k - 1] + pq[k]
        BY Zenon, <3>0, <4>1
      <4>3. k - 1 = m + j - 1
        <5>1. m \in Int /\ j \in Int /\ k \in Int
          BY <1>1, <2>3
        <5>. QED
          BY SMT, <5>1
      <4>. QED
        BY Zenon, <4>2, <4>3
    <3>2. T[j] = T[j - 1] + q[j]
      BY <1>6, <2>3
    <3>. QED
      BY <2>3, <3>1, <3>2
  <2>6. S[m] \in Int /\ T[j - 1] \in Int /\ q[j] \in Int
    BY <1>1, <1>5, <1>6, <2>3
  <2>7. R[m + j] = S[m] + T[j]
    BY <2>4, <2>5, <2>6
  <2>. QED
    BY <2>1, <2>7
<1>. QED
  BY <1>2, <1>3, <1>4, <1>9

LEMMA CostJoined ==
    ASSUME NEW s \in Seq(Five), NEW t \in Seq(Five), NEW c
    PROVE  Cost(s \o t, c) = Cost(s, c) + Cost(t, c)
<1>. DEFINE p == Costs(s, c)  q == Costs(t, c)  r == Costs(s \o t, c)
<1>1. /\ s \o t \in Seq(Five) /\ Len(s) \in Nat /\ Len(t) \in Nat
      /\ Len(s \o t) = Len(s) + Len(t)
      /\ \A k \in 1..Len(s) : (s \o t)[k] = s[k]
      /\ \A k \in 1..(Len(s) + Len(t)) : k > Len(s) => (s \o t)[k] = t[k - Len(s)]
  OBVIOUS
<1>2. /\ p \in Seq(Nat) /\ Len(p) = Len(s)
      /\ \A i \in 1..Len(s) : p[i] = IF s[i].category = c THEN s[i].penalty ELSE 0
  BY CostsAre
<1>3. /\ q \in Seq(Nat) /\ Len(q) = Len(t)
      /\ \A i \in 1..Len(t) : q[i] = IF t[i].category = c THEN t[i].penalty ELSE 0
  BY CostsAre
<1>. PICK st : st = s \o t
  OBVIOUS
<1>4. /\ r \in Seq(Nat) /\ Len(r) = Len(s) + Len(t)
      /\ \A i \in 1..(Len(s) + Len(t)) : r[i] = IF st[i].category = c THEN st[i].penalty ELSE 0
  <2>1. st \in Seq(Five) /\ Len(st) = Len(s) + Len(t) /\ r = Costs(st, c)
    BY <1>1
  <2>. HIDE DEF r
  <2>2. /\ Costs(st, c) \in Seq(Nat) /\ Len(Costs(st, c)) = Len(st)
        /\ \A i \in 1..Len(st) : Costs(st, c)[i] = IF st[i].category = c THEN st[i].penalty ELSE 0
    <3>1. \A z \in Seq(Five) :
            /\ Costs(z, c) \in Seq(Nat) /\ Len(Costs(z, c)) = Len(z)
            /\ \A i \in 1..Len(z) : Costs(z, c)[i] = IF z[i].category = c THEN z[i].penalty ELSE 0
      BY CostsAre
    <3>. QED
      BY Zenon, <2>1, <3>1
  <2>. QED
    BY <2>1, <2>2
<1>. HIDE DEF p, q, r
<1>5. \A i \in 1..(Len(s) + Len(t)) : r[i] = IF i <= Len(s) THEN p[i] ELSE q[i - Len(s)]
  <2>. SUFFICES ASSUME NEW i \in 1..(Len(s) + Len(t))
                PROVE  r[i] = IF i <= Len(s) THEN p[i] ELSE q[i - Len(s)]
    OBVIOUS
  <2>1. CASE i <= Len(s)
    <3>1. i \in 1..Len(s) /\ st[i] = s[i]
      BY <1>1, <2>1
    <3>. QED
      BY <1>2, <1>4, <2>1, <3>1
  <2>2. CASE ~(i <= Len(s))
    <3>1. i - Len(s) \in 1..Len(t) /\ st[i] = t[i - Len(s)]
      BY <1>1, <2>2
    <3>. QED
      BY <1>3, <1>4, <2>2, <3>1
  <2>. QED
    BY <2>1, <2>2
<1>6. r = p \o q
  <2>. PICK w : w = p \o q
    OBVIOUS
  <2>1. /\ w \in Seq(Nat) /\ Len(w) = Len(p) + Len(q)
        /\ \A i \in 1..(Len(p) + Len(q)) : w[i] = IF i <= Len(p) THEN p[i] ELSE q[i - Len(p)]
    BY <1>2, <1>3
  <2>3. w = [i \in 1..(Len(p) + Len(q)) |-> w[i]]
    <3>1. \A z \in Seq(Nat) : z = [i \in 1..Len(z) |-> z[i]]
      OBVIOUS
    <3>2. w \in Seq(Nat) /\ Len(w) = Len(p) + Len(q)
      BY <2>1
    <3>. HIDE DEF p, q
    <3>3. w = [i \in 1..Len(w) |-> w[i]]
      BY Zenon, <3>1, <3>2
    <3>. QED
      BY Zenon, <3>2, <3>3
  <2>2. r = [i \in 1..(Len(s) + Len(t)) |-> r[i]]
    BY <1>4
  <2>. QED
    BY <1>2, <1>3, <1>5, <2>1, <2>2, <2>3
<1>7. Total(p \o q) = Total(p) + Total(q)
  BY <1>2, <1>3, TotalJoined
<1>. QED
  BY <1>6, <1>7 DEF Cost, p, q, r

LEMMA TotalSame ==
    ASSUME NEW q \in Seq(Nat), NEW x \in Nat, \A i \in 1..Len(q) : q[i] = x
    PROVE  Total(q) = Len(q) * x
<1>. DEFINE n == Len(q)
<1>1. q \in Seq(Int) /\ n \in Nat
  OBVIOUS
<1>2. PICK S : Sums(q, S) /\ Total(q) = S[n]
  BY <1>1, TotalIsSum
<1>3. S[0] = 0 /\ \A k \in 1..n : S[k] = S[k - 1] + x
  BY <1>2 DEF Sums
<1>. HIDE DEF n
<1>. DEFINE Bad == {k \in 0..n : S[k] # k * x}
<1>. SUFFICES ASSUME Bad # {} PROVE FALSE
  <2>1. n \in 0..n
    BY <1>1
  <2>2. S[n] = n * x
    BY Zenon, <2>1
  <2>. QED
    BY Zenon, <1>2, <2>2 DEF n
<1>4. PICK j \in Bad : \A k \in Bad : j <= k
  <2>1. Bad \in SUBSET Nat
    BY <1>1
  <2>. HIDE DEF Bad
  <2>. QED
    BY <2>1, LeastExists
<1>5. j # 0
  <2>1. 0 * x = 0
    OBVIOUS
  <2>. QED
    BY <1>3, <1>4, <2>1
<1>6. j \in 1..n /\ j - 1 \in 0..n /\ j - 1 \notin Bad
  BY <1>1, <1>4, <1>5
<1>7. S[j - 1] = (j - 1) * x /\ S[j] = S[j - 1] + x
  BY <1>3, <1>6
<1>8. (j - 1) * x + x = j * x
  BY <1>6
<1>. QED
  BY <1>4, <1>7, <1>8

(* What one finding costs, once or m times.                                *)
LEMMA CostTimes ==
    ASSUME NEW k \in Checks, NEW c \in Category, NEW n \in Nat, c = "Media" \/ n % 5 = 0,
           NEW m \in Nat, NEW d
    PROVE  Cost(Times(m, finding(k, c, n)), d) = IF c = d THEN m * n ELSE 0
<1>. PICK f : f = finding(k, c, n)
  OBVIOUS
<1>1. f.category = c /\ f.penalty = n
  BY DEF finding
<1>2. Times(m, f) \in Seq(Five)
  BY Found
<1>3. Len(Times(m, f)) = m /\ \A i \in 1..m : Times(m, f)[i] = f
  BY DEF Times
<1>. PICK t : t = Times(m, f)
  OBVIOUS
<1>. DEFINE x == IF c = d THEN n ELSE 0
<1>4. /\ Costs(t, d) \in Seq(Nat) /\ Len(Costs(t, d)) = Len(t)
      /\ \A i \in 1..Len(t) : Costs(t, d)[i] = IF t[i].category = d THEN t[i].penalty ELSE 0
  <2>1. t \in Seq(Five)
    BY <1>2
  <2>2. \A z \in Seq(Five) :
           /\ Costs(z, d) \in Seq(Nat) /\ Len(Costs(z, d)) = Len(z)
           /\ \A i \in 1..Len(z) : Costs(z, d)[i] = IF z[i].category = d THEN z[i].penalty ELSE 0
    BY CostsAre
  <2>. QED
    BY Zenon, <2>1, <2>2
<1>5. \A i \in 1..m : Costs(t, d)[i] = x
  BY <1>1, <1>3, <1>4
<1>6. x \in Nat
  OBVIOUS
<1>. PICK q : q = Costs(t, d)
  OBVIOUS
<1>7. q \in Seq(Nat) /\ Len(q) = m /\ \A i \in 1..Len(q) : q[i] = x
  BY <1>3, <1>4, <1>5
<1>. HIDE DEF x
<1>8. Total(q) = m * x
  BY <1>6, <1>7, TotalSame
<1>9. m * x = IF c = d THEN m * n ELSE 0
  BY DEF x
<1>. QED
  BY <1>8, <1>9 DEF Cost

LEMMA CostWhen ==
    ASSUME NEW k \in Checks, NEW c \in Category, NEW n \in Nat, c = "Media" \/ n % 5 = 0, NEW d
    PROVE  /\ \A b : Cost(When(b, finding(k, c, n)), d) = IF b /\ c = d THEN n ELSE 0
           /\ Cost(<<finding(k, c, n)>>, d) = IF c = d THEN n ELSE 0
           /\ Cost(<<>>, d) = 0
<1>. PICK f : f = finding(k, c, n)
  OBVIOUS
<1>1. Times(0, f) = <<>> /\ Times(1, f) = <<f>>
  BY DEF Times
<1>2. Cost(Times(0, f), d) = 0
  <2>1. 0 \in Nat /\ 0 * n = 0
    OBVIOUS
  <2>2. Cost(Times(0, f), d) = IF c = d THEN 0 * n ELSE 0
    BY <2>1, CostTimes
  <2>. QED
    BY <2>1, <2>2
<1>3. Cost(Times(1, f), d) = IF c = d THEN n ELSE 0
  <2>1. 1 \in Nat /\ 1 * n = n
    OBVIOUS
  <2>2. Cost(Times(1, f), d) = IF c = d THEN 1 * n ELSE 0
    BY <2>1, CostTimes
  <2>. QED
    BY <2>1, <2>2
<1>4. \A b : Cost(When(b, f), d) = IF b /\ c = d THEN n ELSE 0
  BY <1>1, <1>2, <1>3 DEF When
<1>. QED
  BY <1>1, <1>2, <1>3, <1>4

(* A finding f of category c that takes n points, from one auditor.        *)
Takes(f, c, n) ==
    /\ c \in Category /\ n \in Nat /\ (c = "Media" \/ n % 5 = 0)
    /\ \E k \in Checks : f = finding(k, c, n)

Priced(f, c, n, d) ==
    /\ \A b : /\ When(b, f) \in Seq(Five)
              /\ Cost(When(b, f), d) = IF b /\ c = d THEN n ELSE 0
    /\ \A m \in Nat : /\ Times(m, f) \in Seq(Five)
                     /\ Cost(Times(m, f), d) = IF c = d THEN m * n ELSE 0
    /\ <<f>> \in Seq(Five)
    /\ Cost(<<f>>, d) = IF c = d THEN n ELSE 0

LEMMA CostOf ==
    ASSUME NEW f, NEW c, NEW n, Takes(f, c, n), NEW d
    PROVE  Priced(f, c, n, d)
<1>1. c \in Category /\ n \in Nat /\ (c = "Media" \/ n % 5 = 0)
  BY DEF Takes
<1>2. PICK k \in Checks : f = finding(k, c, n)
  BY DEF Takes
<1>. PICK g : g = finding(k, c, n)
  OBVIOUS
<1>3. /\ <<g>> \in Seq(Five)
      /\ \A b : When(b, g) \in Seq(Five)
      /\ \A m \in Nat : Times(m, g) \in Seq(Five)
  BY <1>1, Found
<1>4. /\ \A b : Cost(When(b, g), d) = IF b /\ c = d THEN n ELSE 0
      /\ Cost(<<g>>, d) = IF c = d THEN n ELSE 0
  BY <1>1, CostWhen
<1>5. \A m \in Nat : Cost(Times(m, g), d) = IF c = d THEN m * n ELSE 0
  BY <1>1, CostTimes
<1>6. f = g
  BY <1>2
<1>. QED
  BY <1>3, <1>4, <1>5, <1>6 DEF Priced

(* A part as it was, or nothing found of it any more.                      *)
LEMMA SameOrGone ==
    ASSUME NEW s \in Seq(Five), NEW t, t = s \/ t = <<>>
    PROVE  t \in Seq(Five) /\ \A c : Cost(t, c) <= Cost(s, c)
<1>1. <<>> \in Seq(Five) /\ \A c : Cost(<<>>, c) = 0
  <2>1. "Media" \in Category /\ 0 \in Nat
    BY WeightFacts
  <2>2. <<"og", "url">> \in Checks
    BY DEF Checks, Names
  <2>3. \A c : Cost(<<>>, c) = 0
    BY <2>1, <2>2, CostWhen
  <2>. QED
    BY <2>3
<1>2. \A c : Cost(s, c) \in Nat
  BY CostNat
<1>3. \A n \in Nat : n <= n /\ 0 <= n
  OBVIOUS
<1>. QED
  BY <1>1, <1>2, <1>3

LEMMA LessJoined ==
    ASSUME NEW c, NEW s \in Seq(Five), NEW t \in Seq(Five), NEW u \in Seq(Five), NEW v \in Seq(Five),
           Cost(u, c) <= Cost(s, c), Cost(v, c) <= Cost(t, c)
    PROVE  Cost(u \o v, c) <= Cost(s \o t, c)
<1>1. Cost(u \o v, c) = Cost(u, c) + Cost(v, c) /\ Cost(s \o t, c) = Cost(s, c) + Cost(t, c)
  BY CostJoined
<1>2. Cost(u, c) \in Nat /\ Cost(v, c) \in Nat /\ Cost(s, c) \in Nat /\ Cost(t, c) \in Nat
  BY CostNat
<1>. QED
  BY <1>1, <1>2

LEMMA MetadataLess ==
    ASSUME NEW p \in Page, NEW q \in Page, Repaired(p, q), NEW c
    PROVE  Cost(MetadataAuditor(q), c) <= Cost(MetadataAuditor(p), c)
<1>1. /\ q.title \in {p.title, "fits"} /\ q.description \in {p.description, "fits"}
      /\ q.canonicals \in {p.canonicals, <<"self">>}
  BY DEF Repaired
<1>2. audit_title(q) = audit_title(p) \/ audit_title(q) = <<>>
  BY <1>1 DEF audit_title, LengthFindings
<1>3. audit_description(q) = audit_description(p) \/ audit_description(q) = <<>>
  BY <1>1 DEF audit_description, LengthFindings
<1>4. audit_canonical(q) = audit_canonical(p) \/ audit_canonical(q) = <<>>
  <2>1. CASE q.canonicals = p.canonicals
    BY <2>1 DEF audit_canonical, canonical
  <2>2. CASE q.canonicals = <<"self">>
    <3>1. canonical(q) = Href.self
      BY <2>2 DEF canonical
    <3>2. canonical(q).href /\ canonical(q).absolute /\ canonical(q).host
      BY <3>1 DEF Href, Kind
    <3>3. <<>> \o <<>> \o <<>> = <<>>
      OBVIOUS
    <3>. QED
      BY <3>2, <3>3 DEF audit_canonical, When
  <2>. QED
    BY <1>1, <2>1, <2>2
<1>5. /\ audit_title(p) \in Seq(Five) /\ audit_description(p) \in Seq(Five)
      /\ audit_canonical(p) \in Seq(Five)
  BY VerdictsFound
<1>6. /\ audit_title(q) \in Seq(Five) /\ Cost(audit_title(q), c) <= Cost(audit_title(p), c)
      /\ audit_description(q) \in Seq(Five)
      /\ Cost(audit_description(q), c) <= Cost(audit_description(p), c)
      /\ audit_canonical(q) \in Seq(Five)
      /\ Cost(audit_canonical(q), c) <= Cost(audit_canonical(p), c)
  BY <1>2, <1>3, <1>4, <1>5, SameOrGone
<1>7. /\ audit_title(p) \o audit_description(p) \in Seq(Five)
      /\ audit_title(q) \o audit_description(q) \in Seq(Five)
      /\ Cost(audit_title(q) \o audit_description(q), c)
           <= Cost(audit_title(p) \o audit_description(p), c)
  BY <1>5, <1>6, LessJoined, Joined
<1>. QED
  BY <1>5, <1>6, <1>7, LessJoined DEF MetadataAuditor

LEMMA CanonicalLess ==
    ASSUME NEW p \in Page, NEW q \in Page, Repaired(p, q), NEW c
    PROVE  Cost(CanonicalAuditor(q), c) <= Cost(CanonicalAuditor(p), c)
<1>1. CASE q.canonicals = p.canonicals
  <2>1. CanonicalAuditor(q) = CanonicalAuditor(p)
    BY <1>1 DEF CanonicalAuditor, canonicals
  <2>. QED
    BY <2>1, CanonicalFound, SameOrGone
<1>2. CASE q.canonicals = <<"self">>
  <2>1. canonicals(q) = <<Href.self>>
    <3>. DEFINE r == [i \in DOMAIN q.canonicals |->
                        When(Href[q.canonicals[i]].href, Href[q.canonicals[i]])]
    <3>1. r = <<<<Href.self>>>>
      <4>1. Href.self.href
        BY DEF Href, Kind
      <4>. QED
        BY <1>2, <4>1 DEF When
    <3>. PICK f : f = <<Href.self>>
      OBVIOUS
    <3>2. r = <<f>>
      BY <3>1
    <3>. HIDE DEF r
    <3>3. Flattens(<<f>>, 1, [i \in 1..1 |-> f])
      BY DEF Flattens
    <3>4. FlattenSeq(<<f>>) = f
      BY <3>3 DEF FlattenSeq, Flattens
    <3>. QED
      BY <3>2, <3>4 DEF canonicals, r
  <2>2. /\ Href.self.resolves /\ Href.self.host /\ Href.self.own /\ ~Href.self.chain
    BY DEF Href, Kind
  <2>3. CanonicalAuditor(q) = <<>>
    <3>1. <<>> \o <<>> \o <<>> = <<>>
      OBVIOUS
    <3>2. Len(<<Href.self>>) = 1 /\ <<Href.self>>[1] = Href.self /\ <<Href.self>> # <<>>
      OBVIOUS
    <3>3. ~(Len(<<Href.self>>) > 1)
      BY <3>2
    <3>. QED
      BY <2>1, <2>2, <3>1, <3>2, <3>3 DEF CanonicalAuditor, When
  <2>. QED
    BY <2>3, CanonicalFound, SameOrGone
<1>. QED
  BY <1>1, <1>2 DEF Repaired

LEMMA StructuredLess ==
    ASSUME NEW p \in Page, NEW q \in Page, Repaired(p, q), NEW c
    PROVE  Cost(StructuredDataAuditor(q), c) <= Cost(StructuredDataAuditor(p), c)
<1>1. StructuredDataAuditor(q) = StructuredDataAuditor(p) \/ StructuredDataAuditor(q) = <<>>
  BY DEF Repaired, StructuredDataAuditor
<1>. QED
  BY <1>1, StructuredFound, SameOrGone

(* Each tag that is missing takes what it took.                            *)
LEMMA OpengraphLess ==
    ASSUME NEW p \in Page, NEW q \in Page, Repaired(p, q), NEW c
    PROVE  Cost(OpengraphAuditor(q), c) <= Cost(OpengraphAuditor(p), c)
<1>. DEFINE part(r, i) == When(SocialTags[i] \notin r.social,
                               finding(<<"og", SocialTags[i]>>, "SocialTags", 10))
<1>0. "SocialTags" \in Category
  BY WeightFacts
<1>1. DOMAIN SocialTags = 1..5 /\ \A i \in 1..5 : SocialTags[i] \in Names
  BY DEF SocialTags, Names
<1>2. ASSUME NEW r, NEW i \in 1..5
      PROVE  /\ part(r, i) \in Seq(Five)
             /\ Cost(part(r, i), c)
                  = IF SocialTags[i] \notin r.social /\ "SocialTags" = c THEN 10 ELSE 0
  <2>1. <<"og", SocialTags[i]>> \in Checks
    BY <1>1 DEF Checks
  <2>. PICK f : f = finding(<<"og", SocialTags[i]>>, "SocialTags", 10)
    OBVIOUS
  <2>2. Takes(f, "SocialTags", 10)
    <3>1. 10 \in Nat /\ 10 % 5 = 0
      OBVIOUS
    <3>. QED
      BY <1>0, <2>1, <3>1 DEF Takes
  <2>3. \A b : /\ When(b, f) \in Seq(Five)
               /\ Cost(When(b, f), c) = IF b /\ "SocialTags" = c THEN 10 ELSE 0
    <3>1. Priced(f, "SocialTags", 10, c)
      BY Zenon, <2>2, CostOf
    <3>. QED
      BY Zenon, <3>1 DEF Priced
  <2>. QED
    BY <2>3
<1>3. \A i \in 1..5 : Cost(part(q, i), c) <= Cost(part(p, i), c)
  <2>. SUFFICES ASSUME NEW i \in 1..5 PROVE Cost(part(q, i), c) <= Cost(part(p, i), c)
    OBVIOUS
  <2>1. SocialTags[i] \in p.social => SocialTags[i] \in q.social
    BY DEF Repaired
  <2>. HIDE DEF part
  <2>2. /\ Cost(part(p, i), c) = IF SocialTags[i] \notin p.social /\ "SocialTags" = c THEN 10 ELSE 0
        /\ Cost(part(q, i), c) = IF SocialTags[i] \notin q.social /\ "SocialTags" = c THEN 10 ELSE 0
    BY Zenon, <1>2
  <2>. QED
    BY <2>1, <2>2
<1>4. \A r : OpengraphAuditor(r) = FlattenSeq([i \in 1..5 |-> part(r, i)])
  BY <1>1 DEF OpengraphAuditor
<1>. HIDE DEF part
<1>. DEFINE all(r) == part(r, 1) \o part(r, 2) \o part(r, 3) \o part(r, 4) \o part(r, 5)
<1>5. ASSUME NEW r
      PROVE  OpengraphAuditor(r) = all(r)
  <2>. DEFINE w == [i \in 1..5 |-> part(r, i)]
              F == CHOOSE f : Flattens(w, 5, f)
  <2>1. w \in Seq(Seq(Five)) /\ Len(w) = 5
    BY <1>2
  <2>2. \A i \in 1..5 : w[i] = part(r, i)
    OBVIOUS
  <2>. HIDE DEF w
  <2>3. FlattenSeq(w) = F[5]
    BY <2>1 DEF FlattenSeq, Flattens
  <2>4. Flattens(w, 5, F)
    <3>1. 5 \in Nat
      OBVIOUS
    <3>. QED
      BY <3>1, FlattensExist
  <2>. HIDE DEF F
  <2>5. \A i \in 1..5 : F[i] = IF i = 1 THEN w[i] ELSE F[i - 1] \o w[i]
    BY <2>4 DEF Flattens
  <2>6. /\ F[1] = IF 1 = 1 THEN w[1] ELSE F[1 - 1] \o w[1]
        /\ F[2] = IF 2 = 1 THEN w[2] ELSE F[2 - 1] \o w[2]
        /\ F[3] = IF 3 = 1 THEN w[3] ELSE F[3 - 1] \o w[3]
        /\ F[4] = IF 4 = 1 THEN w[4] ELSE F[4 - 1] \o w[4]
        /\ F[5] = IF 5 = 1 THEN w[5] ELSE F[5 - 1] \o w[5]
    <3>1. /\ 1 \in 1..5 /\ 2 \in 1..5 /\ 3 \in 1..5 /\ 4 \in 1..5 /\ 5 \in 1..5
      OBVIOUS
    <3>. QED
      BY Zenon, <2>5, <3>1
  <2>7. /\ F[1] = w[1] /\ F[2] = F[1] \o w[2] /\ F[3] = F[2] \o w[3]
        /\ F[4] = F[3] \o w[4] /\ F[5] = F[4] \o w[5]
    <3>1. /\ 1 - 1 = 0 /\ 2 - 1 = 1 /\ 3 - 1 = 2 /\ 4 - 1 = 3 /\ 5 - 1 = 4
          /\ 2 # 1 /\ 3 # 1 /\ 4 # 1 /\ 5 # 1
      OBVIOUS
    <3>. QED
      BY Zenon, <2>6, <3>1
  <2>8. /\ w[1] = part(r, 1) /\ w[2] = part(r, 2) /\ w[3] = part(r, 3) /\ w[4] = part(r, 4)
        /\ w[5] = part(r, 5)
    BY <2>2
  <2>9. OpengraphAuditor(r) = FlattenSeq(w)
    BY <1>4 DEF w
  <2>. QED
    BY <2>3, <2>7, <2>8, <2>9
<1>6. /\ 1 \in 1..5 /\ 2 \in 1..5 /\ 3 \in 1..5 /\ 4 \in 1..5 /\ 5 \in 1..5
  OBVIOUS
<1>7. \A r : \A i \in 1..5 : part(r, i) \in Seq(Five)
  BY <1>2
<1>. DEFINE two(r) == part(r, 1) \o part(r, 2)
            three(r) == two(r) \o part(r, 3)
            four(r) == three(r) \o part(r, 4)
<1>8. \A r : two(r) \in Seq(Five) /\ three(r) \in Seq(Five) /\ four(r) \in Seq(Five)
  BY <1>6, <1>7, Joined
<1>9. Cost(two(q), c) <= Cost(two(p), c)
  BY <1>3, <1>6, <1>7, LessJoined
<1>10. Cost(three(q), c) <= Cost(three(p), c)
  <2>. HIDE DEF two
  <2>. QED
    BY <1>3, <1>6, <1>7, <1>8, <1>9, LessJoined
<1>11. Cost(four(q), c) <= Cost(four(p), c)
  <2>. HIDE DEF two, three
  <2>. QED
    BY <1>3, <1>6, <1>7, <1>8, <1>10, LessJoined
<1>12. Cost(four(q) \o part(q, 5), c) <= Cost(four(p) \o part(p, 5), c)
  <2>. HIDE DEF two, three, four
  <2>. QED
    BY <1>3, <1>6, <1>7, <1>8, <1>11, LessJoined
<1>. QED
  BY <1>5, <1>12

LEMMA ImagesLess ==
    ASSUME NEW p \in Page, NEW q \in Page, Repaired(p, q), NEW c
    PROVE  Cost(ImagesAuditor(q), c) <= Cost(ImagesAuditor(p), c)
<1>. DEFINE alt == finding(<<"images", "missing-alt">>, "Media", 5)
            empty == finding(<<"images", "empty-alt">>, "Media", 2)
<1>1. /\ p.noAlt \in Nat /\ p.emptyAlt \in Nat /\ q.noAlt \in Nat /\ q.emptyAlt \in Nat
      /\ q.noAlt <= p.noAlt /\ q.emptyAlt <= p.emptyAlt
  BY DEF Page, Repaired
<1>2. Takes(alt, "Media", 5) /\ Takes(empty, "Media", 2)
  <2>1. /\ <<"images", "missing-alt">> \in Checks /\ <<"images", "empty-alt">> \in Checks
    BY DEF Checks, Names
  <2>2. "Media" \in Category /\ 5 \in Nat /\ 2 \in Nat
    BY WeightFacts
  <2>. QED
    BY <2>1, <2>2 DEF Takes
<1>. HIDE DEF alt, empty
<1>3. \A m \in Nat : /\ Times(m, alt) \in Seq(Five)
                     /\ Cost(Times(m, alt), c) = IF "Media" = c THEN m * 5 ELSE 0
  <2>1. Priced(alt, "Media", 5, c)
    BY Zenon, <1>2, CostOf
  <2>. QED
    BY Zenon, <2>1 DEF Priced
<1>4. \A m \in Nat : /\ Times(m, empty) \in Seq(Five)
                     /\ Cost(Times(m, empty), c) = IF "Media" = c THEN m * 2 ELSE 0
  <2>1. Priced(empty, "Media", 2, c)
    BY Zenon, <1>2, CostOf
  <2>. QED
    BY Zenon, <2>1 DEF Priced
<1>5. /\ Cost(Times(q.noAlt, alt), c) <= Cost(Times(p.noAlt, alt), c)
      /\ Cost(Times(q.emptyAlt, empty), c) <= Cost(Times(p.emptyAlt, empty), c)
  <2>1. /\ Cost(Times(p.noAlt, alt), c) = IF "Media" = c THEN p.noAlt * 5 ELSE 0
        /\ Cost(Times(q.noAlt, alt), c) = IF "Media" = c THEN q.noAlt * 5 ELSE 0
        /\ Cost(Times(p.emptyAlt, empty), c) = IF "Media" = c THEN p.emptyAlt * 2 ELSE 0
        /\ Cost(Times(q.emptyAlt, empty), c) = IF "Media" = c THEN q.emptyAlt * 2 ELSE 0
    BY Zenon, <1>1, <1>3, <1>4
  <2>. QED
    BY <1>1, <2>1
<1>. QED
  BY <1>1, <1>3, <1>4, <1>5, LessJoined DEF ImagesAuditor, alt, empty

LEMMA RedirectsLess ==
    ASSUME NEW p \in Page, NEW q \in Page, Repaired(p, q), NEW c
    PROVE  Cost(RedirectsAuditor(q), c) <= Cost(RedirectsAuditor(p), c)
<1>. DEFINE many == finding(<<"redirects", "chain-excessive">>, "Links", 30)
            some == finding(<<"redirects", "chain-long">>, "Links", 15)
<1>1. p.chain \in Nat /\ q.chain \in Nat /\ q.chain <= p.chain
  BY DEF Page, Repaired
<1>2. Takes(many, "Links", 30) /\ Takes(some, "Links", 15)
  <2>1. /\ <<"redirects", "chain-excessive">> \in Checks /\ <<"redirects", "chain-long">> \in Checks
    BY DEF Checks, Names
  <2>2. "Links" \in Category /\ 30 \in Nat /\ 15 \in Nat /\ 30 % 5 = 0 /\ 15 % 5 = 0
    BY WeightFacts
  <2>. QED
    BY <2>1, <2>2 DEF Takes
<1>3. \A r : RedirectsAuditor(r) = When(r.chain > 5, many) \o When(r.chain > 3 /\ r.chain <= 5, some)
  BY DEF RedirectsAuditor
<1>. HIDE DEF many, some
<1>4. /\ \A b : /\ When(b, many) \in Seq(Five)
                /\ Cost(When(b, many), c) = IF b /\ "Links" = c THEN 30 ELSE 0
      /\ \A b : /\ When(b, some) \in Seq(Five)
                /\ Cost(When(b, some), c) = IF b /\ "Links" = c THEN 15 ELSE 0
  <2>1. Priced(many, "Links", 30, c) /\ Priced(some, "Links", 15, c)
    BY Zenon, <1>2, CostOf
  <2>. QED
    BY Zenon, <2>1 DEF Priced
<1>5. ASSUME NEW r
      PROVE  Cost(RedirectsAuditor(r), c)
               = (IF r.chain > 5 /\ "Links" = c THEN 30 ELSE 0)
                 + (IF (r.chain > 3 /\ r.chain <= 5) /\ "Links" = c THEN 15 ELSE 0)
  <2>. PICK x : x = When(r.chain > 5, many)
    OBVIOUS
  <2>. PICK y : y = When(r.chain > 3 /\ r.chain <= 5, some)
    OBVIOUS
  <2>1. x \in Seq(Five) /\ Cost(x, c) = IF r.chain > 5 /\ "Links" = c THEN 30 ELSE 0
    BY Zenon, <1>4
  <2>2. y \in Seq(Five) /\ Cost(y, c) = IF (r.chain > 3 /\ r.chain <= 5) /\ "Links" = c THEN 15 ELSE 0
    BY Zenon, <1>4
  <2>3. Cost(x \o y, c) = Cost(x, c) + Cost(y, c)
    <3>1. \A s, t \in Seq(Five) : Cost(s \o t, c) = Cost(s, c) + Cost(t, c)
      BY CostJoined
    <3>2. x \in Seq(Five) /\ y \in Seq(Five)
      BY <2>1, <2>2
    <3>. QED
      BY Zenon, <3>1, <3>2
  <2>4. RedirectsAuditor(r) = x \o y
    BY Zenon, <1>3
  <2>. QED
    BY <2>1, <2>2, <2>3, <2>4
<1>. QED
  BY <1>1, <1>5

(* A page on http costs as much as two resources left behind on it.        *)
LEMMA HttpsLess ==
    ASSUME NEW p \in Page, NEW q \in Page, Repaired(p, q), NEW c
    PROVE  Cost(HttpsAuditor(q), c) <= Cost(HttpsAuditor(p), c)
<1>. DEFINE mixed == finding(<<"https", "mixed-content">>, "Security", 20)
            insecure == finding(<<"https", "insecure">>, "Security", 40)
<1>1. Takes(mixed, "Security", 20) /\ Takes(insecure, "Security", 40)
  <2>1. /\ <<"https", "mixed-content">> \in Checks /\ <<"https", "insecure">> \in Checks
    BY DEF Checks, Names
  <2>2. "Security" \in Category /\ 20 \in Nat /\ 40 \in Nat /\ 20 % 5 = 0 /\ 40 % 5 = 0
    BY WeightFacts
  <2>. QED
    BY <2>1, <2>2 DEF Takes
<1>2. \A r : HttpsAuditor(r) = IF r.https THEN Times(HttpResources(r), mixed) ELSE <<insecure>>
  BY DEF HttpsAuditor
<1>. HIDE DEF mixed, insecure
<1>3. /\ \A m \in Nat : Cost(Times(m, mixed), c) = IF "Security" = c THEN m * 20 ELSE 0
      /\ Cost(<<insecure>>, c) = IF "Security" = c THEN 40 ELSE 0
  <2>1. Priced(mixed, "Security", 20, c) /\ Priced(insecure, "Security", 40, c)
    BY Zenon, <1>1, CostOf
  <2>. QED
    BY Zenon, <2>1 DEF Priced
<1>4. HttpResources(p) \in Nat /\ HttpResources(q) \in Nat
  BY HttpResourcesNat
<1>5. HttpResources(q) <= HttpResources(p)
  <2>. DEFINE http(r) == {i \in DOMAIN r.canonicals : Href[r.canonicals[i]].http}
  <2>1. p.plain \in Nat /\ q.plain \in Nat /\ q.plain <= p.plain
    BY DEF Page, Repaired
  <2>2. CASE q.canonicals = p.canonicals
    <3>1. http(q) = http(p)
      BY <2>2
    <3>2. HttpResources(q) = q.plain + Cardinality(http(q)) /\ HttpResources(p) = p.plain + Cardinality(http(p))
      BY DEF HttpResources
    <3>. HIDE DEF http
    <3>. PICK n : n = Cardinality(http(p))
      OBVIOUS
    <3>3. n \in Nat
      <4>1. DOMAIN p.canonicals = 1..Len(p.canonicals) /\ Len(p.canonicals) \in Int /\ 1 \in Int
        BY DEF Page
      <4>2. IsFiniteSet(DOMAIN p.canonicals)
        BY <4>1, FS_Interval
      <4>3. http(p) \subseteq DOMAIN p.canonicals
        BY DEF http
      <4>. QED
        BY <4>2, <4>3, FS_Subset, FS_CardinalityType
    <3>. QED
      BY <2>1, <3>1, <3>2, <3>3
  <2>3. CASE q.canonicals = <<"self">>
    <3>1. http(q) = {}
      <4>1. ~Href.self.http
        BY DEF Href, Kind
      <4>2. DOMAIN q.canonicals = {1} /\ q.canonicals[1] = "self"
        BY <2>3
      <4>. QED
        BY <4>1, <4>2
    <3>2. HttpResources(q) = q.plain + Cardinality(http(q)) /\ HttpResources(p) = p.plain + Cardinality(http(p))
      BY DEF HttpResources
    <3>. HIDE DEF http
    <3>3. Cardinality(http(q)) = 0
      BY <3>1, FS_EmptySet
    <3>. PICK n : n = Cardinality(http(p))
      OBVIOUS
    <3>4. n \in Nat
      <4>1. DOMAIN p.canonicals = 1..Len(p.canonicals) /\ Len(p.canonicals) \in Int /\ 1 \in Int
        BY DEF Page
      <4>2. IsFiniteSet(DOMAIN p.canonicals)
        BY <4>1, FS_Interval
      <4>3. http(p) \subseteq DOMAIN p.canonicals
        BY DEF http
      <4>. QED
        BY <4>2, <4>3, FS_Subset, FS_CardinalityType
    <3>. QED
      BY <2>1, <3>2, <3>3, <3>4
  <2>. QED
    BY <2>2, <2>3 DEF Repaired
<1>6. q.https = p.https \/ (q.https /\ HttpResources(q) <= 2)
  BY DEF Repaired
<1>7. p.https \in BOOLEAN /\ q.https \in BOOLEAN
  BY DEF Page
<1>8. Cost(HttpsAuditor(p), c) = IF "Security" = c THEN IF p.https THEN HttpResources(p) * 20 ELSE 40 ELSE 0
  BY <1>2, <1>3, <1>4
<1>9. Cost(HttpsAuditor(q), c) = IF "Security" = c THEN IF q.https THEN HttpResources(q) * 20 ELSE 40 ELSE 0
  BY <1>2, <1>3, <1>4
<1>. QED
  BY <1>4, <1>5, <1>6, <1>7, <1>8, <1>9

(* Headings that were out of order took more than a page can lose by being *)
(* left with fewer of them.                                                *)
LEMMA StructureLess ==
    ASSUME NEW p \in Page, NEW q \in Page, Repaired(p, q), NEW c
    PROVE  Cost(HeadingsAuditor(q), c) + Cost(JsRenderedAuditor(q), c)
             <= Cost(HeadingsAuditor(p), c) + Cost(JsRenderedAuditor(p), c)
<1>. DEFINE none == finding(<<"headings", "no-h1">>, "Structure", 40)
            several == finding(<<"headings", "multiple-h1">>, "Structure", 20)
            empty == finding(<<"headings", "empty">>, "Structure", 10)
            skipped == finding(<<"headings", "skipped-level">>, "Structure", 10)
            likely == finding(<<"js-rendered", "likely">>, "Structure", 10)
            S == "Structure"
<1>1. /\ Takes(none, S, 40) /\ Takes(several, S, 20)
      /\ Takes(empty, S, 10) /\ Takes(skipped, S, 10) /\ Takes(likely, S, 10)
  <2>1. /\ <<"headings", "no-h1">> \in Checks /\ <<"headings", "multiple-h1">> \in Checks
        /\ <<"headings", "empty">> \in Checks /\ <<"headings", "skipped-level">> \in Checks
        /\ <<"js-rendered", "likely">> \in Checks
    BY DEF Checks, Names
  <2>2. /\ S \in Category /\ 40 \in Nat /\ 20 \in Nat /\ 10 \in Nat
        /\ 40 % 5 = 0 /\ 20 % 5 = 0 /\ 10 % 5 = 0
    BY WeightFacts
  <2>. QED
    BY <2>1, <2>2 DEF Takes
<1>. DEFINE scarce(r) == r.html /\ r.thin /\ content_tag_count(r) < MinContentTags
<1>2. \A r : HeadingsAuditor(r) = When(r.headings[1] = 0, none) \o When(r.headings[1] > 1, several)
                                  \o Times(r.blank, empty) \o Times(Cardinality(Skips(r)), skipped)
  BY DEF HeadingsAuditor
<1>3. \A r : JsRenderedAuditor(r) = When(scarce(r), likely)
  BY DEF JsRenderedAuditor
<1>. HIDE DEF none, several, empty, skipped, likely, scarce
<1>4. /\ Priced(none, S, 40, c) /\ Priced(several, S, 20, c)
      /\ Priced(empty, S, 10, c) /\ Priced(skipped, S, 10, c) /\ Priced(likely, S, 10, c)
  BY Zenon, <1>1, CostOf
<1>. DEFINE headings(r) == (IF r.headings[1] = 0 THEN 40 ELSE 0) + (IF r.headings[1] > 1 THEN 20 ELSE 0)
                           + r.blank * 10 + Cardinality(Skips(r)) * 10
<1>5. ASSUME NEW r \in Page
      PROVE  Cost(HeadingsAuditor(r), c) = IF S = c THEN headings(r) ELSE 0
  <2>. PICK x : x = When(r.headings[1] = 0, none)
    OBVIOUS
  <2>. PICK y : y = When(r.headings[1] > 1, several)
    OBVIOUS
  <2>. PICK z : z = Times(r.blank, empty)
    OBVIOUS
  <2>. PICK w : w = Times(Cardinality(Skips(r)), skipped)
    OBVIOUS
  <2>1. r.blank \in Nat /\ Cardinality(Skips(r)) \in Nat
    BY SkipsFinite DEF Page
  <2>2. x \in Seq(Five) /\ Cost(x, c) = IF r.headings[1] = 0 /\ S = c THEN 40 ELSE 0
    BY Zenon, <1>4 DEF Priced
  <2>3. y \in Seq(Five) /\ Cost(y, c) = IF r.headings[1] > 1 /\ S = c THEN 20 ELSE 0
    BY Zenon, <1>4 DEF Priced
  <2>4. z \in Seq(Five) /\ Cost(z, c) = IF S = c THEN r.blank * 10 ELSE 0
    BY Zenon, <1>4, <2>1 DEF Priced
  <2>5. w \in Seq(Five) /\ Cost(w, c) = IF S = c THEN Cardinality(Skips(r)) * 10 ELSE 0
    BY Zenon, <1>4, <2>1 DEF Priced
  <2>6. x \o y \in Seq(Five) /\ x \o y \o z \in Seq(Five)
    BY <2>2, <2>3, <2>4, Joined
  <2>7. Cost(x \o y, c) = Cost(x, c) + Cost(y, c)
    <3>1. \A s, t \in Seq(Five) : Cost(s \o t, c) = Cost(s, c) + Cost(t, c)
      BY CostJoined
    <3>2. x \in Seq(Five) /\ y \in Seq(Five)
      BY <2>2, <2>3
    <3>. QED
      BY Zenon, <3>1, <3>2
  <2>8. Cost(x \o y \o z, c) = Cost(x \o y, c) + Cost(z, c)
    <3>0. PICK xy : xy = x \o y
      OBVIOUS
    <3>1. xy \in Seq(Five) /\ z \in Seq(Five)
      BY <2>4, <2>6, <3>0
    <3>2. Cost(xy \o z, c) = Cost(xy, c) + Cost(z, c)
      BY Zenon, <3>1, CostJoined
    <3>. QED
      BY <3>0, <3>2
  <2>9. Cost(x \o y \o z \o w, c) = Cost(x \o y \o z, c) + Cost(w, c)
    <3>0. PICK xyz : xyz = x \o y \o z
      OBVIOUS
    <3>1. xyz \in Seq(Five) /\ w \in Seq(Five)
      BY <2>5, <2>6, <3>0
    <3>2. Cost(xyz \o w, c) = Cost(xyz, c) + Cost(w, c)
      BY Zenon, <3>1, CostJoined
    <3>. QED
      BY <3>0, <3>2
  <2>10. HeadingsAuditor(r) = x \o y \o z \o w
    BY Zenon, <1>2
  <2>11. Cost(HeadingsAuditor(r), c) = Cost(x, c) + Cost(y, c) + Cost(z, c) + Cost(w, c)
    BY Zenon, <2>7, <2>8, <2>9, <2>10
  <2>. QED
    BY <2>1, <2>2, <2>3, <2>4, <2>5, <2>11
<1>6. \A r : Cost(JsRenderedAuditor(r), c) = IF scarce(r) /\ S = c THEN 10 ELSE 0
  BY Zenon, <1>3, <1>4 DEF Priced
<1>7. /\ p.blank \in Nat /\ q.blank \in Nat /\ q.blank <= p.blank
      /\ Cardinality(Skips(p)) \in Nat /\ Cardinality(Skips(q)) \in Nat
      /\ p.headings[1] \in Nat /\ q.headings[1] \in Nat
  <2>1. /\ p.blank \in Nat /\ q.blank \in Nat
        /\ p.headings \in [1..6 -> Nat] /\ q.headings \in [1..6 -> Nat] /\ 1 \in 1..6
    BY DEF Page
  <2>2. q.blank <= p.blank
    BY DEF Repaired
  <2>3. p.headings[1] \in Nat /\ q.headings[1] \in Nat
    BY <2>1
  <2>. QED
    BY Zenon, <2>1, <2>2, <2>3, SkipsFinite
<1>. DEFINE js(r) == IF scarce(r) THEN 10 ELSE 0
<1>8. headings(q) + js(q) <= headings(p) + js(p)
  <2>1. CASE q.headings = p.headings
    <3>1. Skips(q) = Skips(p)
      BY <2>1 DEF Skips, Levels
    <3>2. scarce(q) => scarce(p)
      <4>. DEFINE h == [l \in 1..6 |-> p.headings[l]]
      <4>1. h \in Seq(Nat)
        <5>1. p.headings \in [1..6 -> Nat]
          BY DEF Page
        <5>2. h \in [1..6 -> Nat] /\ 6 \in Nat
          BY <5>1
        <5>. QED
          BY <5>2
      <4>2. Total(h) \in Nat
        <5>. HIDE DEF h
        <5>. QED
          BY <4>1, TotalFives
      <4>3. content_tag_count(p) = p.tags + Total(h) /\ content_tag_count(q) = q.tags + Total(h)
        BY <2>1 DEF content_tag_count
      <4>. HIDE DEF h
      <4>4. p.tags \in Nat /\ q.tags \in Nat /\ q.tags >= p.tags
        BY DEF Page, Repaired
      <4>5. content_tag_count(q) < MinContentTags => content_tag_count(p) < MinContentTags
        BY <4>2, <4>3, <4>4, ThresholdAssumption
      <4>6. q.html = p.html /\ (q.thin => p.thin)
        BY DEF Repaired
      <4>. QED
        BY Zenon, <4>5, <4>6 DEF scarce
    <3>3. js(q) <= js(p) /\ js(q) \in Nat /\ js(p) \in Nat
      BY <3>2
    <3>. HIDE DEF js
    <3>. QED
      BY <1>7, <2>1, <3>1, <3>3
  <2>2. CASE ~InOrder(p) /\ InOrder(q)
    <3>1. q.headings[1] = 1 /\ Cardinality(Skips(q)) = 0
      BY <2>2, FS_EmptySet DEF InOrder
    <3>2. p.headings[1] # 1 \/ Cardinality(Skips(p)) # 0
      BY <2>2, SkipsFinite, FS_EmptySet DEF InOrder
    <3>3. js(q) \in 0..10 /\ js(p) \in 0..10
      OBVIOUS
    <3>. HIDE DEF js
    <3>4. headings(q) = q.blank * 10
      BY <1>7, <3>1
    <3>5. headings(p) >= 10 + p.blank * 10 /\ headings(p) \in Nat
      <4>. PICK n : n = Cardinality(Skips(p))
        OBVIOUS
      <4>. PICK h : h = p.headings[1]
        OBVIOUS
      <4>1. n \in Nat /\ h \in Nat /\ p.blank \in Nat /\ (h # 1 \/ n # 0)
        BY <1>7, <3>2
      <4>2. headings(p) = (IF h = 0 THEN 40 ELSE 0) + (IF h > 1 THEN 20 ELSE 0) + p.blank * 10 + n * 10
        OBVIOUS
      <4>3. h = 0 \/ h > 1 \/ n >= 1
        BY <4>1
      <4>. HIDE DEF headings
      <4>. QED
        BY <4>1, <4>2, <4>3
    <3>. HIDE DEF headings
    <3>. QED
      BY <1>7, <3>3, <3>4, <3>5
  <2>. QED
    BY <2>1, <2>2 DEF Repaired
<1>9. /\ Cost(HeadingsAuditor(p), c) = IF S = c THEN headings(p) ELSE 0
      /\ Cost(HeadingsAuditor(q), c) = IF S = c THEN headings(q) ELSE 0
      /\ Cost(JsRenderedAuditor(p), c) = IF S = c THEN js(p) ELSE 0
      /\ Cost(JsRenderedAuditor(q), c) = IF S = c THEN js(q) ELSE 0
  BY <1>5, <1>6
<1>. HIDE DEF headings, js
<1>. QED
  BY <1>8, <1>9

LEMMA FiveJoined ==
    ASSUME NEW c, NEW s \in Seq(Five), NEW t \in Seq(Five), NEW u \in Seq(Five),
           NEW v \in Seq(Five), NEW w \in Seq(Five)
    PROVE  /\ s \o t \o u \o v \o w \in Seq(Five)
           /\ Cost(s \o t \o u \o v \o w, c)
                = Cost(s, c) + Cost(t, c) + Cost(u, c) + Cost(v, c) + Cost(w, c)
<1>0. \A x, y \in Seq(Five) : x \o y \in Seq(Five) /\ Cost(x \o y, c) = Cost(x, c) + Cost(y, c)
  BY CostJoined, Joined
<1>1. PICK a : a = s \o t
  OBVIOUS
<1>2. a \in Seq(Five) /\ Cost(a, c) = Cost(s, c) + Cost(t, c)
  BY Zenon, <1>0, <1>1
<1>3. PICK b : b = a \o u
  OBVIOUS
<1>4. b \in Seq(Five) /\ Cost(b, c) = Cost(a, c) + Cost(u, c)
  BY Zenon, <1>0, <1>2, <1>3
<1>5. PICK d : d = b \o v
  OBVIOUS
<1>6. d \in Seq(Five) /\ Cost(d, c) = Cost(b, c) + Cost(v, c)
  BY Zenon, <1>0, <1>4, <1>5
<1>7. d \o w \in Seq(Five) /\ Cost(d \o w, c) = Cost(d, c) + Cost(w, c)
  BY Zenon, <1>0, <1>6
<1>. QED
  BY Zenon, <1>1, <1>2, <1>3, <1>4, <1>5, <1>6, <1>7

(* Less is found on the better page, in every category.                    *)
LEMMA PageLess ==
    ASSUME NEW p \in Page, \A i \in DOMAIN p.others : p.others[i].penalty % 5 = 0,
           NEW q \in Page, \A i \in DOMAIN q.others : q.others[i].penalty % 5 = 0,
           Repaired(p, q), NEW c
    PROVE  Cost(page_auditors(q) \o q.others, c) <= Cost(page_auditors(p) \o p.others, c)
<1>1. ASSUME NEW r \in Page, \A i \in DOMAIN r.others : r.others[i].penalty % 5 = 0
      PROVE  /\ Cost(page_auditors(r) \o r.others, c)
                  = Cost(MetadataAuditor(r), c) + Cost(CanonicalAuditor(r), c)
                    + Cost(HeadingsAuditor(r), c) + Cost(HttpsAuditor(r), c)
                    + Cost(OpengraphAuditor(r), c) + Cost(ImagesAuditor(r), c)
                    + Cost(RedirectsAuditor(r), c) + Cost(JsRenderedAuditor(r), c)
                    + Cost(StructuredDataAuditor(r), c) + Cost(r.others, c)
             /\ Cost(MetadataAuditor(r), c) \in Nat /\ Cost(CanonicalAuditor(r), c) \in Nat
             /\ Cost(HeadingsAuditor(r), c) \in Nat /\ Cost(HttpsAuditor(r), c) \in Nat
             /\ Cost(OpengraphAuditor(r), c) \in Nat /\ Cost(ImagesAuditor(r), c) \in Nat
             /\ Cost(RedirectsAuditor(r), c) \in Nat /\ Cost(JsRenderedAuditor(r), c) \in Nat
             /\ Cost(StructuredDataAuditor(r), c) \in Nat /\ Cost(r.others, c) \in Nat
  <2>1. /\ MetadataAuditor(r) \in Seq(Five) /\ CanonicalAuditor(r) \in Seq(Five)
        /\ HeadingsAuditor(r) \in Seq(Five) /\ HttpsAuditor(r) \in Seq(Five)
        /\ OpengraphAuditor(r) \in Seq(Five) /\ ImagesAuditor(r) \in Seq(Five)
        /\ RedirectsAuditor(r) \in Seq(Five) /\ JsRenderedAuditor(r) \in Seq(Five)
        /\ StructuredDataAuditor(r) \in Seq(Five)
    BY MetadataFound, CanonicalFound, HeadingsFound, HttpsFound, OpengraphFound, ImagesFound,
       RedirectsFound, JsRenderedFound, StructuredFound
  <2>2. r.others \in Seq(Five)
    BY <1>1, OthersFound
  <2>3. PICK x : x = MetadataAuditor(r) \o CanonicalAuditor(r) \o HeadingsAuditor(r)
                     \o HttpsAuditor(r) \o OpengraphAuditor(r)
    OBVIOUS
  <2>4. /\ x \in Seq(Five)
        /\ Cost(x, c) = Cost(MetadataAuditor(r), c) + Cost(CanonicalAuditor(r), c)
                        + Cost(HeadingsAuditor(r), c) + Cost(HttpsAuditor(r), c)
                        + Cost(OpengraphAuditor(r), c)
    BY <2>1, <2>3, FiveJoined
  <2>5. PICK y : y = x \o ImagesAuditor(r) \o RedirectsAuditor(r) \o JsRenderedAuditor(r)
                     \o StructuredDataAuditor(r)
    OBVIOUS
  <2>6. /\ y \in Seq(Five)
        /\ Cost(y, c) = Cost(x, c) + Cost(ImagesAuditor(r), c) + Cost(RedirectsAuditor(r), c)
                        + Cost(JsRenderedAuditor(r), c) + Cost(StructuredDataAuditor(r), c)
    <3>1. /\ x \in Seq(Five) /\ ImagesAuditor(r) \in Seq(Five) /\ RedirectsAuditor(r) \in Seq(Five)
          /\ JsRenderedAuditor(r) \in Seq(Five) /\ StructuredDataAuditor(r) \in Seq(Five)
      BY <2>1, <2>4
    <3>. QED
      BY <2>5, <3>1, FiveJoined
  <2>7. page_auditors(r) = y
    BY <2>3, <2>5 DEF page_auditors
  <2>8. Cost(y \o r.others, c) = Cost(y, c) + Cost(r.others, c)
    BY Zenon, <2>2, <2>6, CostJoined
  <2>9. /\ Cost(MetadataAuditor(r), c) \in Nat /\ Cost(CanonicalAuditor(r), c) \in Nat
        /\ Cost(HeadingsAuditor(r), c) \in Nat /\ Cost(HttpsAuditor(r), c) \in Nat
        /\ Cost(OpengraphAuditor(r), c) \in Nat /\ Cost(ImagesAuditor(r), c) \in Nat
        /\ Cost(RedirectsAuditor(r), c) \in Nat /\ Cost(JsRenderedAuditor(r), c) \in Nat
        /\ Cost(StructuredDataAuditor(r), c) \in Nat /\ Cost(r.others, c) \in Nat
    BY <2>1, <2>2, CostNat
  <2>. QED
    BY <2>4, <2>6, <2>7, <2>8, <2>9
<1>2. Cost(q.others, c) <= Cost(p.others, c)
  <2>1. q.others = p.others \/ q.others = <<>>
    BY DEF Repaired
  <2>. QED
    BY <2>1, OthersFound, SameOrGone
<1>3. /\ Cost(MetadataAuditor(q), c) <= Cost(MetadataAuditor(p), c)
      /\ Cost(CanonicalAuditor(q), c) <= Cost(CanonicalAuditor(p), c)
      /\ Cost(HttpsAuditor(q), c) <= Cost(HttpsAuditor(p), c)
      /\ Cost(OpengraphAuditor(q), c) <= Cost(OpengraphAuditor(p), c)
      /\ Cost(ImagesAuditor(q), c) <= Cost(ImagesAuditor(p), c)
      /\ Cost(RedirectsAuditor(q), c) <= Cost(RedirectsAuditor(p), c)
      /\ Cost(StructuredDataAuditor(q), c) <= Cost(StructuredDataAuditor(p), c)
  BY MetadataLess, CanonicalLess, HttpsLess, OpengraphLess, ImagesLess, RedirectsLess,
     StructuredLess
<1>4. Cost(HeadingsAuditor(q), c) + Cost(JsRenderedAuditor(q), c)
        <= Cost(HeadingsAuditor(p), c) + Cost(JsRenderedAuditor(p), c)
  BY StructureLess
<1>5. /\ Cost(page_auditors(p) \o p.others, c)
           = Cost(MetadataAuditor(p), c) + Cost(CanonicalAuditor(p), c)
             + Cost(HeadingsAuditor(p), c) + Cost(HttpsAuditor(p), c)
             + Cost(OpengraphAuditor(p), c) + Cost(ImagesAuditor(p), c)
             + Cost(RedirectsAuditor(p), c) + Cost(JsRenderedAuditor(p), c)
             + Cost(StructuredDataAuditor(p), c) + Cost(p.others, c)
      /\ Cost(MetadataAuditor(p), c) \in Nat /\ Cost(CanonicalAuditor(p), c) \in Nat
      /\ Cost(HeadingsAuditor(p), c) \in Nat /\ Cost(HttpsAuditor(p), c) \in Nat
      /\ Cost(OpengraphAuditor(p), c) \in Nat /\ Cost(ImagesAuditor(p), c) \in Nat
      /\ Cost(RedirectsAuditor(p), c) \in Nat /\ Cost(JsRenderedAuditor(p), c) \in Nat
      /\ Cost(StructuredDataAuditor(p), c) \in Nat /\ Cost(p.others, c) \in Nat
  BY <1>1
<1>6. /\ Cost(page_auditors(q) \o q.others, c)
           = Cost(MetadataAuditor(q), c) + Cost(CanonicalAuditor(q), c)
             + Cost(HeadingsAuditor(q), c) + Cost(HttpsAuditor(q), c)
             + Cost(OpengraphAuditor(q), c) + Cost(ImagesAuditor(q), c)
             + Cost(RedirectsAuditor(q), c) + Cost(JsRenderedAuditor(q), c)
             + Cost(StructuredDataAuditor(q), c) + Cost(q.others, c)
      /\ Cost(MetadataAuditor(q), c) \in Nat /\ Cost(CanonicalAuditor(q), c) \in Nat
      /\ Cost(HeadingsAuditor(q), c) \in Nat /\ Cost(HttpsAuditor(q), c) \in Nat
      /\ Cost(OpengraphAuditor(q), c) \in Nat /\ Cost(ImagesAuditor(q), c) \in Nat
      /\ Cost(RedirectsAuditor(q), c) \in Nat /\ Cost(JsRenderedAuditor(q), c) \in Nat
      /\ Cost(StructuredDataAuditor(q), c) \in Nat /\ Cost(q.others, c) \in Nat
  BY <1>1
<1>. QED
  BY <1>2, <1>3, <1>4, <1>5, <1>6

LEMMA CategoriesRise ==
    ASSUME NEW p \in Page, \A i \in DOMAIN p.others : p.others[i].penalty % 5 = 0,
           NEW q \in Page, \A i \in DOMAIN q.others : q.others[i].penalty % 5 = 0,
           Repaired(p, q), NEW c \in Category
    PROVE  CategoryScoresOf(p)[c] <= CategoryScoresOf(q)[c]
<1>1. ASSUME NEW r \in Page, \A i \in DOMAIN r.others : r.others[i].penalty % 5 = 0
      PROVE  /\ CategoryScoresOf(r)[c] = Clamp(100 - Cost(page_auditors(r) \o r.others, c))
             /\ Cost(page_auditors(r) \o r.others, c) \in Nat
  <2>1. PICK fs : fs = page_auditors(r) \o r.others
    OBVIOUS
  <2>2. fs \in Seq(Five)
    BY <1>1, <2>1, PageFound
  <2>3. CategoryScores(fs)[c] = Clamp(100 - Cost(fs, c))
    BY DEF CategoryScores, Cost, Costs
  <2>. QED
    BY <2>1, <2>2, <2>3, CostNat DEF CategoryScoresOf
<1>2. \A m, n \in Nat : m <= n => Clamp(100 - n) <= Clamp(100 - m)
  BY DEF Clamp
<1>3. Cost(page_auditors(q) \o q.others, c) <= Cost(page_auditors(p) \o p.others, c)
  BY PageLess
<1>. QED
  BY <1>1, <1>2, <1>3

-----------------------------------------------------------------------------
(* What a report says of a page.                                           *)
LEMMA ReportPages ==
    ASSUME NEW s \in Sites, NEW m, NEW r \in Reports(s, m), NEW u \in DOMAIN s
    PROVE  /\ r.pages[u].category_scores = CategoryScoresOf(s[u])
           /\ r.pages[u].score \in PageScores(CategoryScoresOf(s[u]))
<1>1. PICK f : /\ f \in [DOMAIN s -> UNION {score_page(s[v]) : v \in DOMAIN s}]
               /\ \A v \in DOMAIN s : f[v] \in score_page(s[v])
               /\ r = [pages |-> f, site_score |-> SiteScore(f, m)]
  BY DEF Reports
<1>2. r.pages[u] \in score_page(s[u])
  BY <1>1
<1>. QED
  BY <1>2 DEF score_page

(* No page of a repaired site has a lower score, nor one in any category.  *)
LEMMA PagesRise ==
    ASSUME NEW s \in Sites, NEW t \in Sites, DOMAIN s = DOMAIN t, NEW m,
           \A u \in DOMAIN t : Repaired(s[u], t[u]),
           NEW b \in Reports(s, m), NEW a \in Reports(t, m), NEW u \in DOMAIN t
    PROVE  /\ b.pages[u].score \in Int /\ a.pages[u].score \in Int
           /\ b.pages[u].score <= a.pages[u].score
           /\ \A c \in Category :
                 /\ b.pages[u].category_scores[c] \in Int /\ a.pages[u].category_scores[c] \in Int
                 /\ b.pages[u].category_scores[c] <= a.pages[u].category_scores[c]
<1>. PICK p : p = s[u]
  OBVIOUS
<1>. PICK q : q = t[u]
  OBVIOUS
<1>1. /\ p \in Page /\ \A i \in DOMAIN p.others : p.others[i].penalty % 5 = 0
      /\ q \in Page /\ \A i \in DOMAIN q.others : q.others[i].penalty % 5 = 0
      /\ Repaired(p, q)
  BY SitesAssumption
<1>2. PICK low : low = CategoryScoresOf(p)
  OBVIOUS
<1>3. PICK high : high = CategoryScoresOf(q)
  OBVIOUS
<1>4. Fives(low) /\ Fives(high)
  BY <1>2, <1>3, Scored
<1>5. \A c \in Category : low[c] <= high[c]
  BY <1>1, <1>2, <1>3, CategoriesRise
<1>6. /\ b.pages[u].category_scores = low /\ b.pages[u].score \in PageScores(low)
      /\ a.pages[u].category_scores = high /\ a.pages[u].score \in PageScores(high)
  BY <1>2, <1>3, ReportPages
<1>7. b.pages[u].score <= a.pages[u].score
  BY <1>4, <1>5, <1>6, ScoreMonotone
<1>8. Shaped(b, DOMAIN t) /\ Shaped(a, DOMAIN t)
  BY ReportShape
<1>9. /\ b.pages[u].score \in 0..100 /\ b.pages[u].category_scores \in [Category -> 0..100]
      /\ a.pages[u].score \in 0..100 /\ a.pages[u].category_scores \in [Category -> 0..100]
  BY <1>8 DEF Shaped
<1>. QED
  BY <1>5, <1>6, <1>7, <1>9

LEMMA MeansRise ==
    ASSUME NEW D, IsFiniteSet(D), NEW P \in [D -> Int], NEW Q \in [D -> Int],
           \A u \in D : P[u] <= Q[u],
           NEW urls, urls = SetToSeq(D),
           NEW p, p = [i \in DOMAIN urls |-> P[urls[i]]],
           NEW q, q = [i \in DOMAIN urls |-> Q[urls[i]]]
    PROVE  0 <= Mean(q) - Mean(p)
<1>1. CASE D = {}
  <2>1. Cardinality(D) = 0
    BY <1>1, FS_EmptySet
  <2>2. 1..0 = {}
    OBVIOUS
  <2>3. \E f \in [1..0 -> D] : IsInjective(f)
    <3>1. [i \in 1..0 |-> 0] \in [1..0 -> D] /\ IsInjective([i \in 1..0 |-> 0])
      BY <2>2 DEF IsInjective
    <3>. QED
      BY <3>1
  <2>4. urls \in [1..0 -> D]
    BY <2>1, <2>3 DEF SetToSeq
  <2>5. p = q
    BY <2>2, <2>4
  <2>6. p = <<>>
    BY <2>2, <2>4
  <2>7. Mean(p) = 0 /\ Mean(q) = 0
    BY <2>5, <2>6 DEF Mean
  <2>. QED
    BY <2>7
<1>2. CASE D # {}
  <2>1. PICK n \in Nat \ {0} : urls \in [1..n -> D]
    BY <1>2, Listed
  <2>2. DOMAIN urls = 1..n /\ \A i \in 1..n : urls[i] \in D
    BY <2>1
  <2>3. p \in [1..n -> Int] /\ q \in [1..n -> Int]
    BY <2>2
  <2>4. p \in Seq(Int) /\ q \in Seq(Int) /\ Len(p) = n /\ Len(q) = n
    BY <2>3
  <2>5. \A i \in 1..n : p[i] = P[urls[i]] /\ q[i] = Q[urls[i]]
    BY <2>2
  <2>6. \A i \in 1..n : 0 <= q[i] - p[i]
    <3>1. \A u \in D : P[u] \in Int /\ Q[u] \in Int /\ 0 <= Q[u] - P[u]
      OBVIOUS
    <3>. QED
      BY <2>2, <2>5, <3>1
  <2>. QED
    <3>1. 0 \in Int /\ Len(p) # 0 /\ Len(p) = Len(q) /\ \A i \in 1..Len(p) : 0 <= q[i] - p[i]
      BY <2>1, <2>4, <2>6
    <3>. QED
      BY Zenon, <2>4, <3>1, MeanGap
<1>. QED
  BY <1>1, <1>2

LEMMA RepairsShown == Made /\ Shown => RepairShows
<1>. SUFFICES ASSUME Made, Shown, stage = "shown", SamePages,
                     \A u \in DOMAIN site : Repaired(first[u], site[u])
              PROVE  /\ shown.summary.regressions = 0
                     /\ shown.site_score_delta >= 0
                     /\ \A c \in Category : shown.categories[c] >= 0
  BY DEF RepairShows
<1>. DEFINE D == DOMAIN site
<1>. PICK b : b = before
  OBVIOUS
<1>. PICK a : a = after
  OBVIOUS
<1>1. /\ first \in Sites /\ site \in Sites /\ DOMAIN first = D
      /\ b \in Reports(first, mode) /\ a \in Reports(site, mode)
      /\ shown = write_text(diff_reports(b, a))
  BY DEF Made, Shown, SamePages
<1>2. D \in SUBSET Nat /\ IsFiniteSet(D)
  BY <1>1, SitesAssumption
<1>3. /\ Shaped(b, D) /\ Shaped(a, D)
      /\ b.site_score = SiteScore(b.pages, mode) /\ a.site_score = SiteScore(a.pages, mode)
  BY <1>1, ReportShape
<1>4. ASSUME NEW u \in D
      PROVE  /\ b.pages[u].score \in Int /\ a.pages[u].score \in Int
             /\ b.pages[u].score <= a.pages[u].score
             /\ \A c \in Category :
                   /\ b.pages[u].category_scores[c] \in Int /\ a.pages[u].category_scores[c] \in Int
                   /\ b.pages[u].category_scores[c] <= a.pages[u].category_scores[c]
  BY <1>1, PagesRise
<1>. HIDE DEF D
<1>5. DOMAIN b.pages = D /\ DOMAIN a.pages = D
  BY <1>3 DEF Shaped
<1>. DEFINE urls == SetToSeq(D)
<1>6. \A i \in DOMAIN urls : urls[i] \in D
  <2>1. CASE D = {}
    <3>1. Cardinality(D) = 0 /\ 1..0 = {}
      BY <2>1, FS_EmptySet
    <3>2. \E f \in [1..0 -> D] : IsInjective(f)
      <4>1. [i \in 1..0 |-> 0] \in [1..0 -> D] /\ IsInjective([i \in 1..0 |-> 0])
        BY <3>1 DEF IsInjective
      <4>. QED
        BY <4>1
    <3>3. urls \in [1..0 -> D]
      BY <3>1, <3>2 DEF SetToSeq
    <3>. QED
      BY <3>3
  <2>2. CASE D # {}
    BY <1>2, <2>2, Listed
  <2>. QED
    BY <2>1, <2>2
<1>7. a.site_score - b.site_score >= 0
  <2>. DEFINE P == [u \in D |-> b.pages[u].score]
              Q == [u \in D |-> a.pages[u].score]
              p == [i \in DOMAIN urls |-> P[urls[i]]]
              q == [i \in DOMAIN urls |-> Q[urls[i]]]
  <2>1. P \in [D -> Int] /\ Q \in [D -> Int] /\ \A u \in D : P[u] <= Q[u]
    BY <1>4
  <2>2. p = [i \in DOMAIN urls |-> b.pages[urls[i]].score]
    BY <1>6
  <2>3. q = [i \in DOMAIN urls |-> a.pages[urls[i]].score]
    BY <1>6
  <2>4. \/ b.site_score = 100 /\ a.site_score = 100
        \/ b.site_score = Mean(p) /\ a.site_score = Mean(q)
    <3>1. CASE mode = "page" /\ D = {}
      BY <1>3, <1>5, <3>1 DEF SiteScore
    <3>2. CASE ~(mode = "page" /\ D = {})
      <4>1. /\ b.site_score = score_site(OfEach(b.pages, LAMBDA r : r.score))
            /\ a.site_score = score_site(OfEach(a.pages, LAMBDA r : r.score))
        BY <1>3, <1>5, <3>2 DEF SiteScore
      <4>. HIDE DEF p, q
      <4>2. OfEach(b.pages, LAMBDA r : r.score) = p
        BY <1>5, <2>2 DEF OfEach
      <4>3. OfEach(a.pages, LAMBDA r : r.score) = q
        BY <1>5, <2>3 DEF OfEach
      <4>. QED
        BY Zenon, <4>1, <4>2, <4>3 DEF score_site
    <3>. QED
      BY <3>1, <3>2
  <2>. HIDE DEF P, Q
  <2>5. 0 <= Mean(q) - Mean(p)
    BY <1>2, <2>1, MeansRise
  <2>. QED
    BY <2>4, <2>5
<1>8. ASSUME NEW c \in Category
      PROVE  CategoryMean(a, c) - CategoryMean(b, c) >= 0
  <2>. DEFINE P == [u \in D |-> b.pages[u].category_scores[c]]
              Q == [u \in D |-> a.pages[u].category_scores[c]]
              p == [i \in DOMAIN urls |-> P[urls[i]]]
              q == [i \in DOMAIN urls |-> Q[urls[i]]]
  <2>1. P \in [D -> Int] /\ Q \in [D -> Int] /\ \A u \in D : P[u] <= Q[u]
    BY <1>4
  <2>2. p = [i \in DOMAIN urls |-> b.pages[urls[i]].category_scores[c]]
    BY <1>6
  <2>3. q = [i \in DOMAIN urls |-> a.pages[urls[i]].category_scores[c]]
    BY <1>6
  <2>4. CategoryMean(b, c) = Mean(p) /\ CategoryMean(a, c) = Mean(q)
    BY <1>5, <2>2, <2>3 DEF CategoryMean, OfEach
  <2>. HIDE DEF P, Q
  <2>5. 0 <= Mean(q) - Mean(p)
    BY <1>2, <2>1, MeansRise
  <2>. QED
    BY <2>4, <2>5
<1>9. shown.site_score_delta = a.site_score - b.site_score
  BY <1>1 DEF write_text, diff_reports
<1>10. \A c \in Category : shown.categories[c] >= 0
  <2>1. shown.categories = CategoryTable(diff_reports(b, a))
        /\ diff_reports(b, a).category_deltas = CategoryDeltas(b, a)
    BY <1>1 DEF write_text, diff_reports
  <2>2. \A c \in DOMAIN CategoryDeltas(b, a) : c \in Category => CategoryDeltas(b, a)[c] >= 0
    BY <1>8 DEF CategoryDeltas
  <2>. QED
    BY <2>1, <2>2 DEF CategoryTable
<1>11. shown.summary.regressions = 0
  <2>. DEFINE rows == diff_reports(b, a).pages
              worse == {i \in DOMAIN rows : rows[i].kind = "Changed" /\ rows[i].delta < 0}
  <2>1. \A i \in DOMAIN rows : \E u \in D : rows[i].delta = a.pages[u].score - b.pages[u].score
    <3>1. RowsMatch(b, a, D)
      BY Zenon, <1>2, <1>3, RowsOfPages
    <3>. QED
      BY Zenon, <3>1 DEF RowsMatch
  <2>2. shown.summary.regressions = Cardinality(worse)
    BY <1>1 DEF write_text, Summary
  <2>. HIDE DEF rows
  <2>3. worse = {}
    <3>1. \A u \in D : ~(a.pages[u].score - b.pages[u].score < 0)
      BY <1>4
    <3>. QED
      BY <2>1, <3>1
  <2>. HIDE DEF worse
  <2>. QED
    BY <2>2, <2>3, FS_EmptySet
<1>. QED
  BY <1>7, <1>9, <1>10, <1>11

(* A site of which some pages were repaired, several parts of each at once *)
(* or all of them, is nowhere shown as worse, whatever the site: a page    *)
(* loses points in no category, so its score does not fall by the rounding *)
(* nor the means by being cut off, and no row counts as a regression.      *)
THEOREM RepairsNeverShowAsWorse == Spec => []RepairShows
<1>1. Init => Made /\ Shown
  BY MadeInit, ShownInit
<1>2. Made /\ Shown /\ [Next]_vars => (Made /\ Shown)'
  BY MadeNext, ShownNext
<1>. QED
  BY <1>1, <1>2, RepairsShown, PTL DEF Spec
=============================================================================
