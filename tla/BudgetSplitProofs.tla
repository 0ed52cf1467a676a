------------------------- MODULE BudgetSplitProofs --------------------------
(***************************************************************************)
(* What is proved of BudgetSplit for any number of channels, any readings, *)
(* splits and limits, and any number of runs, reviews, edits and faults.   *)
(*                                                                         *)
(* The allocator first: what a baseline, a capped share, the repair of the *)
(* total and a whole allocation come to, for every split, reading and set  *)
(* of channels held back.  Then four invariants.  IInv, which never asks   *)
(* what the allocator computes, is what a transaction remembers of its     *)
(* pushes: while it is the only one at work, writing what it holds makes   *)
(* the stored shares those of the platforms; once it is not, what it       *)
(* pushed is set apart when it commits.  TypeInv is the types, for which   *)
(* the allocator's facts are needed.  LedgerHolds accounts for every point *)
(* sent: on the ledger, about to be, or part of a send that it cannot show.*)
(* PlanSound holds of a plan when it is made, and nothing it was made from *)
(* changes while it waits.                                                 *)
(***************************************************************************)
EXTENDS BudgetSplit, SumFacts

-----------------------------------------------------------------------------
(* Numbers, sums over channels and the allocator.                           *)

\* There are finitely many channels, and at least one.
LEMMA ChannelsFinite ==
    /\ N \in Nat \ {0}
    /\ Channels \subseteq Int /\ Channels # {}
    /\ IsFiniteSet(Channels) /\ Cardinality(Channels) = N
    /\ \A S \in SUBSET Channels : IsFiniteSet(S)
<1>1. N \in Nat \ {0} /\ Channels = 1..N
  BY BudgetAssumption DEF Channels
<1>2. IsFiniteSet(1..N) /\ Cardinality(1..N) = IF 1 > N THEN 0 ELSE N - 1 + 1
  BY <1>1, FS_Interval
<1>3. \A S \in SUBSET Channels : IsFiniteSet(S)
  BY <1>1, <1>2, FS_Subset
<1>4. Channels \subseteq Int /\ Channels # {}
  BY <1>1
<1> QED BY <1>1, <1>2, <1>3, <1>4

\* Quotient and remainder.
LEMMA Division ==
    ASSUME NEW m \in Int, NEW n \in Nat \ {0}
    PROVE  /\ m \div n \in Int /\ m % n \in 0..(n - 1)
           /\ m = n * (m \div n) + (m % n)
OBVIOUS

\* A factor that is positive may be taken out of a comparison.
LEMMA Cancel ==
    ASSUME NEW n \in Nat \ {0}, NEW x \in Int, NEW y \in Int
    PROVE  /\ n * x <= n * y => x <= y
           /\ x <= y => n * x <= n * y
           /\ n * x < n * y + n => x <= y
OBVIOUS

\* Rounding is off by half at most, and never crosses a whole number.
LEMMA RoundedFacts ==
    ASSUME NEW m \in Int, NEW n \in Nat \ {0}
    PROVE  /\ Rounded(m, n) \in Int
           /\ 2 * (n * Rounded(m, n)) <= 2 * m + n
           /\ \A k \in Int : /\ m <= k * n => Rounded(m, n) <= k
                             /\ k * n <= m => k <= Rounded(m, n)
<1> DEFINE q == m \div n
           r == m % n
           w == Rounded(m, n)
<1>1. q \in Int /\ r \in Int /\ 0 <= r /\ r < n /\ m = n * q + r
  BY Division
<1>2. \/ w = q /\ 2 * r <= n
      \/ w = q + 1 /\ 2 * r >= n
  BY <1>1 DEF Rounded
<1>3. \/ n * w = n * q
      \/ n * w = n * q + n /\ 2 * r >= n
  <2> HIDE DEF q, r, w
  <2>1. n * (q + 1) = n * q + n
    BY <1>1
  <2>2. CASE w = q
    BY <2>2
  <2>3. CASE w = q + 1 /\ 2 * r >= n
    BY <2>1, <2>3
  <2> QED BY <1>2, <2>2, <2>3
<1> HIDE DEF q, r, w
<1>4. w \in Int /\ n * q \in Int /\ n * w \in Int
  BY <1>1, <1>2
<1>5. 2 * (n * w) <= 2 * m + n
  BY <1>1, <1>2, <1>3, <1>4
<1>6. ASSUME NEW k \in Int, m <= k * n PROVE w <= k
  <2>1. k * n = n * k /\ n * k \in Int
    OBVIOUS
  <2>2. n * w < n * k + n
    BY <1>1, <1>3, <1>4, <1>5, <1>6, <2>1
  <2> QED BY <1>4, <2>2, Cancel
<1>7. ASSUME NEW k \in Int, k * n <= m PROVE k <= w
  <2>1. k * n = n * k /\ n * k \in Int
    OBVIOUS
  <2>2. n * k < n * q + n
    BY <1>1, <1>7, <2>1
  <2>3. k <= q
    BY <1>1, <2>2, Cancel
  <2> QED BY <1>1, <1>2, <2>3
<1> QED BY <1>4, <1>5, <1>6, <1>7 DEF w

\* Of two different elements one is dearer, and dearer than dearer is dearer.
LEMMA DearerOrders ==
    ASSUME NEW S \in SUBSET Int, NEW a, \A c \in S : a[c] \in Int
    PROVE  /\ \A c, d \in S : c = d \/ Dearer(a, c, d) \/ Dearer(a, d, c)
           /\ \A c, d \in S : Dearer(a, c, d) => c # d /\ ~Dearer(a, d, c)
           /\ \A c, d, e \in S : Dearer(a, c, d) /\ Dearer(a, d, e) => Dearer(a, c, e)
BY DEF Dearer

\* Finitely many have a cheapest and a dearest.
LEMMA Extremes ==
    ASSUME NEW S \in SUBSET Int, IsFiniteSet(S), S # {}, NEW a, \A c \in S : a[c] \in Int
    PROVE  /\ \E c \in S : \A d \in S : d = c \/ Dearer(a, d, c)
           /\ \E c \in S : \A d \in S : d = c \/ Dearer(a, c, d)
<1> DEFINE Ends(s) == /\ \E c \in s : \A d \in s : d = c \/ Dearer(a, d, c)
                      /\ \E c \in s : \A d \in s : d = c \/ Dearer(a, c, d)
           Bad == {s \in SUBSET S : s # {} /\ ~Ends(s)}
<1>1. SUFFICES ASSUME Bad # {} PROVE FALSE
  OBVIOUS
<1>2. PICK s \in Bad : \A t \in SUBSET s : t # s => t \notin Bad
  <2>1. Bad \in SUBSET (SUBSET S)
    OBVIOUS
  <2> HIDE DEF Bad
  <2> QED BY <1>1, <2>1, Smallest
<1>3. PICK x \in s : TRUE
  BY <1>2
<1> DEFINE t == s \ {x}
<1>4. t \in SUBSET s /\ t # s /\ t \in SUBSET S /\ x \in S /\ s \in SUBSET S
  BY <1>2, <1>3
<1>5. t = {} \/ Ends(t)
  BY <1>2, <1>4
<1>6. CASE t = {}
  <2>1. s = {x}
    BY <1>3, <1>6
  <2>2. Ends(s)
    BY <2>1
  <2> QED BY <1>2, <2>2
<1>7. CASE Ends(t)
  <2>1. PICK c \in t : \A d \in t : d = c \/ Dearer(a, d, c)
    BY <1>7
  <2>2. PICK e \in t : \A d \in t : d = e \/ Dearer(a, e, d)
    BY <1>7
  <2>3. \A d \in s : d \in t \/ d = x
    OBVIOUS
  <2> HIDE DEF t
  <2>4. \E y \in s : \A d \in s : d = y \/ Dearer(a, d, y)
    <3>1. CASE Dearer(a, c, x)
      BY <1>3, <1>4, <2>1, <2>3, <3>1, DearerOrders
    <3>2. CASE Dearer(a, x, c)
      BY <1>3, <1>4, <2>1, <2>3, <3>2, DearerOrders
    <3>3. CASE x = c
      BY <1>3, <1>4, <2>1, <2>3, <3>3
    <3> QED BY <1>4, <2>1, <3>1, <3>2, <3>3, DearerOrders
  <2>5. \E y \in s : \A d \in s : d = y \/ Dearer(a, y, d)
    <3>1. CASE Dearer(a, x, e)
      BY <1>3, <1>4, <2>2, <2>3, <3>1, DearerOrders
    <3>2. CASE Dearer(a, e, x)
      BY <1>3, <1>4, <2>2, <2>3, <3>2, DearerOrders
    <3>3. CASE x = e
      BY <1>3, <1>4, <2>2, <2>3, <3>3
    <3> QED BY <1>4, <2>2, <3>1, <3>2, <3>3, DearerOrders
  <2> QED BY <1>2, <2>4, <2>5
<1> QED BY <1>5, <1>6, <1>7

\* What bounds each element bounds the sum.
LEMMA SumAtMost ==
    ASSUME NEW S, IsFiniteSet(S), NEW f, NEW k \in Nat, NEW n \in Int,
           \A x \in S : f[x] \in Int /\ k * f[x] <= n
    PROVE  k * Sum(f, S) <= n * Cardinality(S)
<1> DEFINE zero == 0
<1>1. zero \in Int /\ \A i \in Int : zero * i = 0
  OBVIOUS
<1> HIDE DEF zero
<1>2. \A x \in S : f[x] \in Int /\ f[x] \in Int /\ k * f[x] <= zero * f[x] + n
  BY <1>1
<1>3. k * Sum(f, S) <= zero * Sum(f, S) + n * Cardinality(S)
  BY <1>1, <1>2, SumBounded, Zenon
<1>4. n * Cardinality(S) \in Int /\ Sum(f, S) \in Int
  BY SumIsInt, FS_CardinalityType
<1> QED BY <1>1, <1>3, <1>4

\* Where only channel y differs the totals differ by as much.
LEMMA ChannelSumChanges ==
    ASSUME NEW f, NEW g, NEW y \in Channels, \A c \in Channels : f[c] \in Int /\ g[c] \in Int,
           \A c \in Channels : c # y => f[c] = g[c]
    PROVE  Sum(g, Channels) = Sum(f, Channels) + g[y] - f[y]
<1>1. IsFiniteSet(Channels)
  BY ChannelsFinite
<1> QED BY <1>1, SumChanges

\* The baseline is made of shares, and adds up to 100 while no more than fifteen
\* channels are rounded.
LEMMA BaselineFacts ==
    ASSUME NEW s \in [Channels -> Shares]
    PROVE  /\ Baseline(s) \in [Channels -> Shares]
           /\ N <= 15 => Sum(Baseline(s), Channels) = Total
<1> DEFINE sum   == Sum(s, Channels)
           even  == [c \in Channels |-> IF sum = 0 THEN Total \div N ELSE Rounded(s[c] * Total, sum)]
           first == CHOOSE c \in Channels :
                        \A d \in Channels : even[c] > even[d] \/ (even[c] = even[d] /\ c <= d)
           all   == Sum(even, Channels)
           b     == Baseline(s)
<1>1. \A c \in Channels : s[c] \in Nat /\ s[c] <= sum /\ sum \in Nat
  <2>1. \A c \in Channels : s[c] \in Nat
    BY DEF Shares, Total
  <2> QED BY <2>1, ChannelsFinite, SumIsLeast
<1>2. N \in Nat \ {0} /\ sum \in Nat
  BY <1>1, ChannelsFinite
<1>3. CASE sum = Total
  BY <1>3 DEF Baseline
<1>4. CASE sum # Total
  <2>1. b = [even EXCEPT ![first] = Larger(0, @ + Total - all)]
    BY <1>4 DEF Baseline
  <2>2. ASSUME NEW c \in Channels
        PROVE  /\ even[c] \in Shares
               /\ sum = 0 => N * even[c] <= 100
               /\ sum # 0 => (2 * sum) * even[c] <= 200 * s[c] + sum
    <3>1. CASE sum = 0
      <4>1. even[c] = Total \div N
        BY <3>1
      <4>2. /\ Total \div N \in Int /\ Total % N \in 0..(N - 1)
            /\ 100 = N * (Total \div N) + (Total % N)
        BY <1>2, Division DEF Total
      <4> DEFINE w == Total \div N
      <4>3. w \in Int /\ N * w <= 100 /\ 100 < N * w + N
        <5>1. N * w \in Int
          BY <1>2, <4>2
        <5> HIDE DEF w
        <5> QED BY <1>2, <4>2, <5>1 DEF w
      <4> HIDE DEF w
      <4>4. 0 <= w /\ w <= 100
        <5>1. N * 0 < N * w + N /\ N * w <= N * 100
          BY <1>2, <4>3
        <5> QED BY <1>2, <4>3, <5>1, Cancel
      <4> QED BY <3>1, <4>1, <4>3, <4>4 DEF w, Shares, Total
    <3>2. CASE sum # 0
      <4> DEFINE m == s[c] * Total
                 w == Rounded(m, sum)
      <4>1. even[c] = w
        BY <3>2
      <4>2. sum \in Nat \ {0} /\ m \in Int /\ m = 100 * s[c] /\ s[c] \in Nat /\ s[c] <= sum
        BY <1>1, <3>2 DEF Total
      <4> HIDE DEF m, w, sum, even
      <4>3. /\ w \in Int /\ 2 * (sum * w) <= 2 * m + sum
            /\ \A k \in Int : /\ m <= k * sum => w <= k
                              /\ k * sum <= m => k <= w
        BY <4>2, RoundedFacts DEF w
      <4>4. w \in 0..100
        <5>1. m <= 100 * sum /\ 0 * sum <= m /\ 0 \in Int /\ 100 \in Int
          BY <4>2
        <5>2. 0 <= w /\ w <= 100
          BY <4>3, <5>1, Zenon
        <5> QED BY <4>3, <5>2
      <4>5. (2 * sum) * w = 2 * (sum * w)
        BY <4>2, <4>3
      <4> QED BY <3>2, <4>1, <4>2, <4>3, <4>4, <4>5 DEF Shares, Total
    <3> QED BY <3>1, <3>2
  <2>3. first \in Channels /\ \A d \in Channels : even[first] >= even[d]
    <3> DEFINE neg == [c \in Channels |-> -even[c]]
    <3>1. \A c \in Channels : neg[c] = -even[c] /\ even[c] \in Int /\ neg[c] \in Int /\ c \in Int
      BY <2>2, ChannelsFinite DEF Shares, Total
    <3> HIDE DEF neg, even
    <3>2. PICK c \in Channels : \A d \in Channels : d = c \/ Dearer(neg, d, c)
      BY <3>1, ChannelsFinite, Extremes
    <3>3. \A d \in Channels : even[c] > even[d] \/ (even[c] = even[d] /\ c <= d)
      BY <3>1, <3>2 DEF Dearer
    <3>4. /\ first \in Channels
          /\ \A d \in Channels : even[first] > even[d] \/ (even[first] = even[d] /\ first <= d)
      BY <3>2, <3>3
    <3> QED BY <3>1, <3>4
  <2>4. all \in Nat /\ even[first] <= all
    <3>1. \A c \in Channels : even[c] \in Nat
      BY <2>2 DEF Shares, Total
    <3> HIDE DEF even, first
    <3> QED BY <2>3, <3>1, ChannelsFinite, SumIsLeast
  <2> DEFINE top == even[first]
  <2>5. /\ b \in [Channels -> Shares]
        /\ b[first] = Larger(0, top + Total - all)
        /\ \A c \in Channels : c # first => b[c] = even[c]
    <3>1. even \in [Channels -> Shares]
      BY <2>2
    <3>2. top \in Shares
      BY <2>2, <2>3
    <3> HIDE DEF even, first, all, b
    <3>3. Larger(0, top + Total - all) \in Shares
      <4>1. top <= all /\ all \in Nat /\ top \in Shares
        BY <2>4, <3>2
      <4> HIDE DEF top
      <4> QED BY <4>1 DEF Larger, Shares, Total
    <3> QED BY <2>1, <2>3, <3>1, <3>3
  <2>6. ASSUME N <= 15 PROVE all <= 100 + top
    <3>1. \A c \in Channels : even[c] \in Int /\ top \in Nat /\ s[c] \in Int /\ even[c] <= top
      <4>1. \A c \in Channels : even[c] \in Nat /\ s[c] \in Int
        BY <1>1, <2>2 DEF Shares, Total
      <4> HIDE DEF even, first, all, sum
      <4> QED BY <2>3, <4>1
    <3>2. CASE sum = 0
      <4>1. \A c \in Channels : even[c] \in Int /\ N * even[c] <= 100
        BY <2>2, <3>1, <3>2
      <4>2. N \in Nat /\ 100 \in Int
        BY <1>2
      <4> HIDE DEF even, sum, first, all
      <4>3. N * all <= N * 100
        <5>1. N * all <= 100 * N
          BY <4>1, <4>2, ChannelsFinite, SumAtMost, Zenon DEF all
        <5> QED BY <1>2, <2>4, <5>1
      <4>4. all <= 100
        BY <1>2, <2>4, <4>3, Cancel
      <4>5. top \in Nat
        BY <2>3, <3>1
      <4> QED BY <2>4, <4>4, <4>5
    <3>3. CASE sum # 0
      <4>1. \A c \in Channels : even[c] \in Int /\ s[c] \in Int /\ (2 * sum) * even[c] <= 200 * s[c] + sum
        BY <2>2, <3>1, <3>3
      <4>2. \A c \in Channels : even[c] \in Int /\ 1 * even[c] <= top
        <5> HIDE DEF even, sum, first
        <5> QED BY <3>1
      <4>3. 2 * sum \in Nat /\ top \in Nat /\ top \in Int /\ sum \in Int /\ sum \in Nat \ {0}
            /\ 200 \in Int /\ 1 \in Nat
        BY <1>2, <2>3, <3>1, <3>3
      <4>4. sum = Sum(s, Channels)
        OBVIOUS
      <4> HIDE DEF even, sum, first, all, top
      <4>5. (2 * sum) * all <= 200 * sum + sum * N
        <5>1. (2 * sum) * Sum(even, Channels) <= 200 * Sum(s, Channels) + sum * Cardinality(Channels)
          BY <4>1, <4>3, ChannelsFinite, SumBounded, ZenonT(90)
        <5> QED BY <4>4, <5>1, ChannelsFinite DEF all
      <4>6. 1 * all <= top * N
        BY <4>2, <4>3, ChannelsFinite, SumAtMost, Zenon DEF all
      <4>7. 2 * all <= 200 + N
        <5>1. (2 * sum) * all = sum * (2 * all) /\ 200 * sum + sum * N = sum * (200 + N)
          BY <1>2, <2>4, <4>3
        <5> QED BY <1>2, <2>4, <4>3, <4>5, <5>1, Cancel
      <4>8. CASE top >= 7
        BY <1>2, <2>4, <2>6, <4>3, <4>7, <4>8
      <4>9. CASE top <= 6
        <5>1. top * N <= 6 * 15
          BY <1>2, <2>6, <4>3, <4>9
        <5>2. all <= 90
          BY <1>2, <2>4, <4>3, <4>6, <5>1
        <5> QED BY <2>4, <4>3, <5>2
      <4> QED BY <4>3, <4>8, <4>9
    <3> QED BY <3>2, <3>3
  <2>7. ASSUME N <= 15 PROVE Sum(b, Channels) = Total
    <3>1. \A c \in Channels : even[c] \in Int
      BY <2>2 DEF Shares, Total
    <3> HIDE DEF even, first, all, b
    <3>2. \A c \in Channels : b[c] \in Int
      BY <2>5 DEF Shares, Total
    <3>3. Sum(b, Channels) = Sum(even, Channels) + b[first] - even[first]
      <4>1. \A c \in Channels : even[c] \in Int /\ b[c] \in Int
        BY <3>1, <3>2
      <4>2. \A c \in Channels : c # first => even[c] = b[c]
        BY <2>5
      <4> QED BY <2>3, <4>1, <4>2, ChannelSumChanges
    <3>4. b[first] = top + Total - all
      BY <2>3, <2>4, <2>5, <2>6, <2>7, <3>1 DEF Larger, Total
    <3> QED BY <2>3, <2>4, <3>1, <3>3, <3>4 DEF all, Total
  <2> QED BY <2>5, <2>7
<1> QED BY <1>3, <1>4

\* A capped target moves no more than MaxShift, and gains no more than a share.
LEMMA CappedFacts ==
    ASSUME NEW now \in Shares, NEW target \in Nat, NEW all \in Nat \ {0}, target <= 100 * all
    PROVE  /\ Capped(now, target, all) \in Int
           /\ Capped(now, target, all) <= now + MaxShift
           /\ Capped(now, target, all) >= now - MaxShift
           /\ Capped(now, target, all) <= 100
<1> DEFINE w == Rounded(target, all)
<1>1. /\ now \in Nat /\ now <= 100 /\ MaxShift = 8 /\ 100 \in Int
      /\ now + 8 \in Int /\ now - 8 \in Int /\ target \in Int
  BY DEF Shares, Total, MaxShift
<1>2. /\ w \in Int
      /\ target <= (now + 8) * all => w <= now + 8
      /\ target <= 100 * all => w <= 100
      /\ (now - 8) * all <= target => now - 8 <= w
  BY <1>1, RoundedFacts, Zenon
<1> HIDE DEF w
<1>3. CASE target >= (now + 8) * all
  <2>1. (now + 8) * all = all * (now + 8) /\ 100 * all = all * 100
    BY <1>1
  <2>2. all * (now + 8) <= all * 100
    <3> DEFINE x == all * (now + 8)
               y == all * 100
    <3>1. x <= target /\ target <= y /\ x \in Int /\ y \in Int
      BY <1>1, <1>3, <2>1
    <3> HIDE DEF x, y
    <3>2. x <= y
      BY <3>1
    <3> QED BY <3>2 DEF x, y
  <2>3. now + 8 <= 100
    BY <1>1, <2>2, Cancel
  <2>4. Capped(now, target, all) = now + 8
    BY <1>1, <1>3 DEF Capped
  <2> QED BY <1>1, <2>3, <2>4
<1>4. CASE ~(target >= (now + 8) * all)
  <2>1. w <= now + 8 /\ w <= 100
    <3>1. target <= (now + 8) * all
      <4> DEFINE x == (now + 8) * all
      <4>1. x \in Int /\ ~(target >= x)
        BY <1>1, <1>4
      <4> HIDE DEF x
      <4>2. target <= x
        BY <4>1
      <4> QED BY <4>2 DEF x
    <3> QED BY <1>2, <3>1
  <2>2. \/ Capped(now, target, all) = now - 8
        \/ Capped(now, target, all) = w /\ ~(target <= (now - 8) * all)
    BY <1>1, <1>4 DEF Capped, w
  <2>3. ~(target <= (now - 8) * all) => now - 8 <= w
    <3> DEFINE x == (now - 8) * all
    <3>1. x \in Int /\ (x <= target => now - 8 <= w)
      BY <1>1, <1>2
    <3> HIDE DEF x
    <3>2. ~(target <= x) => now - 8 <= w
      BY <3>1
    <3> QED BY <3>2 DEF x
  <2> QED BY <1>1, <1>2, <2>1, <2>2, <2>3
<1> QED BY <1>3, <1>4

\* What is taken of W's spare points for this excess, the dearest before the
\* cheaper.
TakesInTurn(taken, W, a, before, spare, excess) ==
    /\ W \in SUBSET Int /\ IsFiniteSet(W) /\ excess \in Nat
    /\ \A c \in W :
          /\ a[c] \in Int /\ spare[c] \in Nat
          /\ before[c] \subseteq W
          /\ \A d \in W : d \in before[c] <=> Dearer(a, d, c)
          /\ taken[c] = Smaller(spare[c], Larger(0, excess - Sum(spare, before[c])))

\* Taking from the dearest on, all that is asked for is taken, or all there is;
\* and something of a channel only when nothing is left of the dearer ones.
LEMMA TakenFacts ==
    ASSUME NEW taken, NEW W, NEW a, NEW before, NEW spare, NEW excess,
           TakesInTurn(taken, W, a, before, spare, excess)
    PROVE  /\ \A c \in W : taken[c] \in Nat /\ taken[c] <= spare[c]
           /\ Sum(taken, W) = Smaller(Sum(spare, W), excess)
           /\ \A c, d \in W : taken[c] > 0 /\ Dearer(a, d, c) => taken[d] = spare[d]
<1>0. /\ W \in SUBSET Int /\ IsFiniteSet(W) /\ excess \in Nat
      /\ \A c \in W : a[c] \in Int /\ spare[c] \in Nat /\ before[c] \subseteq W
      /\ \A c \in W : taken[c] = Smaller(spare[c], Larger(0, excess - Sum(spare, before[c])))
      /\ \A c \in W : \A d \in W : d \in before[c] <=> Dearer(a, d, c)
  <2>1. W \in SUBSET Int /\ IsFiniteSet(W) /\ excess \in Nat
    BY DEF TakesInTurn
  <2>2. \A c \in W : a[c] \in Int /\ spare[c] \in Nat /\ before[c] \subseteq W
    BY DEF TakesInTurn
  <2>3. \A c \in W : taken[c] = Smaller(spare[c], Larger(0, excess - Sum(spare, before[c])))
    BY DEF TakesInTurn
  <2>4. \A c \in W : \A d \in W : d \in before[c] <=> Dearer(a, d, c)
    BY DEF TakesInTurn
  <2> QED BY <2>1, <2>2, <2>3, <2>4
<1>1. ASSUME NEW c \in W
      PROVE  /\ taken[c] \in Nat /\ taken[c] <= spare[c]
             /\ Sum(spare, before[c]) \in Nat
  <2> DEFINE T == before[c]
  <2>1. IsFiniteSet(T) /\ \A d \in T : spare[d] \in Nat
    BY <1>0, FS_Subset
  <2>2. Sum(spare, T) \in Nat
    BY <2>1, SumIsNat
  <2>3. taken[c] = Smaller(spare[c], Larger(0, excess - Sum(spare, T))) /\ spare[c] \in Nat /\ excess \in Nat
    BY <1>0
  <2> HIDE DEF T
  <2>4. taken[c] \in Nat /\ taken[c] <= spare[c]
    BY <2>2, <2>3 DEF Smaller, Larger
  <2> QED BY <2>2, <2>4 DEF T
<1> DEFINE Closed(U) == \A c \in U : \A d \in W : Dearer(a, d, c) => d \in U
           Bad == {U \in SUBSET W : Closed(U) /\ Sum(taken, U) # Smaller(Sum(spare, U), excess)}
<1>2. ASSUME Bad # {} PROVE FALSE
  <2>1. PICK U \in Bad : \A t \in SUBSET U : t # U => t \notin Bad
    <3>1. Bad \in SUBSET (SUBSET W)
      OBVIOUS
    <3> HIDE DEF Bad
    <3> QED BY <1>0, <1>2, <3>1, Smallest
  <2>2. U \in SUBSET W /\ Closed(U) /\ Sum(taken, U) # Smaller(Sum(spare, U), excess)
    BY <2>1
  <2>3. IsFiniteSet(U) /\ U \in SUBSET Int /\ \A c \in U : a[c] \in Int
    BY <1>0, <2>2, FS_Subset
  <2>4. U # {}
    <3>1. ASSUME U = {} PROVE FALSE
      <4>1. Sum(taken, U) = 0 /\ Sum(spare, U) = 0
        BY <2>3, <3>1, SumUnfolds
      <4>2. Smaller(0, excess) = 0
        BY <1>0 DEF Smaller
      <4> QED BY <2>2, <4>1, <4>2
    <3> QED BY <3>1
  <2>5. PICK m \in U : \A d \in U : d = m \/ Dearer(a, d, m)
    BY <2>3, <2>4, Extremes
  <2> DEFINE t == U \ {m}
  <2>6. t = before[m] /\ \A d \in W : d \in t <=> Dearer(a, d, m)
    <3>1. ~Dearer(a, m, m) /\ m \in W
      BY <2>2, <2>3 DEF Dearer
    <3>2. before[m] \subseteq W /\ \A d \in W : d \in before[m] <=> Dearer(a, d, m)
      BY <1>0, <3>1
    <3>3. \A d \in W : d \in t <=> Dearer(a, d, m)
      BY <2>2, <2>5, <3>1
    <3>4. t \subseteq W
      BY <2>2
    <3>5. t = before[m]
      <4> HIDE DEF t
      <4> QED BY <3>2, <3>3, <3>4
    <3> QED BY <3>3, <3>5
  <2>7. Closed(t)
    <3> SUFFICES ASSUME NEW c \in t, NEW d \in W, Dearer(a, d, c) PROVE d \in t
      OBVIOUS
    <3>1. Dearer(a, c, m) /\ c \in W /\ m \in W /\ d \in U
      BY <2>2, <2>6
    <3>2. Dearer(a, d, m)
      BY <1>0, <3>1, DearerOrders
    <3> QED BY <2>6, <3>2
  <2>8. Sum(taken, t) = Smaller(Sum(spare, t), excess)
    <3>1. t \in SUBSET U /\ t # U /\ t \in SUBSET W
      BY <2>2, <2>5
    <3>2. t \notin Bad
      BY <2>1, <3>1
    <3> HIDE DEF t, Closed
    <3> QED BY <2>7, <3>1, <3>2
  <2>9. Sum(taken, U) = taken[m] + Sum(taken, t) /\ Sum(spare, U) = spare[m] + Sum(spare, t)
    <3>1. ASSUME NEW c \in U PROVE taken[c] \in Int /\ spare[c] \in Int
      <4>1. c \in W
        BY <2>2
      <4>2. taken[c] \in Nat /\ spare[c] \in Nat
        BY <1>0, <1>1, <4>1
      <4> QED BY <4>2
    <3> QED BY <2>3, <2>5, <3>1, SumTakes
  <2>10. taken[m] = Smaller(spare[m], Larger(0, excess - Sum(spare, t)))
    <3>1. m \in W
      BY <2>2
    <3> QED BY <1>0, <2>6, <3>1
  <2>11. Sum(spare, t) \in Nat /\ spare[m] \in Nat /\ excess \in Nat
    <3>1. m \in W
      BY <2>2
    <3> QED BY <1>0, <1>1, <2>6, <3>1
  <2> HIDE DEF t, Bad
  <2>12. Sum(taken, U) = Smaller(Sum(spare, U), excess)
    BY <2>8, <2>9, <2>10, <2>11 DEF Smaller, Larger
  <2> QED BY <2>2, <2>12
<1>3. Sum(taken, W) = Smaller(Sum(spare, W), excess)
  <2>1. W \in SUBSET W /\ Closed(W)
    OBVIOUS
  <2>2. W \notin Bad
    BY <1>2
  <2> HIDE DEF Closed
  <2> QED BY <2>1, <2>2
<1>4. ASSUME NEW c \in W, NEW d \in W, taken[c] > 0, Dearer(a, d, c)
      PROVE  taken[d] = spare[d]
  <2> DEFINE T == before[d]
             U == before[c]
             V == T \cup {d}
  <2>1. U \in SUBSET W /\ T \in SUBSET W /\ \A e \in W : (e \in U <=> Dearer(a, e, c)) /\ (e \in T <=> Dearer(a, e, d))
    BY <1>0
  <2>2. d \notin T /\ V \in SUBSET U
    <3>1. d \notin T
      BY <1>0, <2>1, DearerOrders
    <3>2. ASSUME NEW e \in T PROVE e \in U
      BY <1>0, <1>4, <2>1, <3>2, DearerOrders
    <3>3. d \in U
      BY <1>4, <2>1
    <3> QED BY <3>1, <3>2, <3>3
  <2>3. /\ IsFiniteSet(U) /\ IsFiniteSet(T) /\ IsFiniteSet(U \ V)
        /\ \A e \in U : spare[e] \in Nat
        /\ \A e \in T : spare[e] \in Nat
    <3>1. IsFiniteSet(U) /\ IsFiniteSet(T)
      BY <1>0, <2>1, FS_Subset
    <3> QED BY <1>0, <2>1, <3>1, FS_Subset
  <2>4. taken[c] = Smaller(spare[c], Larger(0, excess - Sum(spare, U))) /\ spare[c] \in Nat /\ excess \in Nat
    BY <1>0
  <2>5. taken[d] = Smaller(spare[d], Larger(0, excess - Sum(spare, T))) /\ spare[d] \in Nat
    BY <1>0
  <2> HIDE DEF T, U
  <2>6. Sum(spare, U) = Sum(spare, V) + Sum(spare, U \ V)
    <3>1. \A e \in U : spare[e] \in Int
      BY <2>3
    <3> QED BY <2>2, <2>3, <3>1, SumSplits
  <2>7. Sum(spare, V) = Sum(spare, T) + spare[d]
    <3>1. \A e \in T : spare[e] \in Int
      BY <2>3
    <3> QED BY <2>2, <2>3, <2>5, <3>1, SumAdds
  <2>8. Sum(spare, T) \in Nat /\ Sum(spare, U \ V) \in Nat
    BY <2>3, SumIsNat
  <2> HIDE DEF V
  <2> QED BY <1>4, <2>4, <2>5, <2>6, <2>7, <2>8 DEF Smaller, Larger
<1> QED BY <1>1, <1>3, <1>4

\* Repairing the total changes only what takes part, raises only the cheapest and
\* then lowers nobody, lowers a channel only once the dearer ones are at the floor,
\* and with room for the floors leaves the total at 100 and everyone a floor.
LEMMA RepairedFacts ==
    ASSUME NEW W \in SUBSET Channels, W # {}, NEW a, \A c \in W : a[c] \in Int,
           NEW p \in [Channels -> Shares], \A c \in W : p[c] >= Floor
    PROVE  /\ Repaired(p, a, W) \in [Channels -> Shares]
           /\ \A c \in Channels \ W : Repaired(p, a, W)[c] = p[c]
           /\ \A c, d \in W : Repaired(p, a, W)[c] > p[c] => a[c] <= a[d] /\ Repaired(p, a, W)[d] >= p[d]
           /\ \A c, d \in W : Repaired(p, a, W)[c] < p[c] /\ Dearer(a, d, c) => Repaired(p, a, W)[d] <= Floor
           /\ Floor * Cardinality(W) + Sum(p, Channels \ W) <= Total =>
                  /\ Sum(Repaired(p, a, W), Channels) = Total
                  /\ \A c \in W : Repaired(p, a, W)[c] >= Floor
<1> DEFINE sum      == Sum(p, Channels)
           excess   == -(Total - sum)
           spare    == [c \in W |-> Larger(0, p[c] - Floor)]
           before   == [c \in W |-> {d \in W : Dearer(a, d, c)}]
           taken    == [c \in W |-> Smaller(spare[c], Larger(0, excess - Sum(spare, before[c])))]
           still    == Larger(0, excess - Sum(spare, W))
           cheapest == CHOOSE c \in W : \A d \in W : d = c \/ Dearer(a, d, c)
           dearest  == CHOOSE c \in W : \A d \in W : d = c \/ Dearer(a, c, d)
           lowered  == [c \in Channels |-> IF c \in W THEN p[c] - taken[c] ELSE p[c]]
           q        == Repaired(p, a, W)
<1>1. /\ IsFiniteSet(W) /\ W \in SUBSET Int /\ IsFiniteSet(Channels)
      /\ \A c \in Channels : p[c] \in Nat /\ p[c] <= 100
      /\ \A c \in W : p[c] >= 5
  BY ChannelsFinite DEF Shares, Total, Floor
<1>2. sum \in Nat /\ \A c \in Channels : p[c] <= sum
  <2>1. Channels # {}
    BY ChannelsFinite
  <2> QED BY <1>1, <2>1, SumIsLeast
<1>3. /\ cheapest \in W /\ \A d \in W : a[cheapest] <= a[d]
      /\ dearest \in W /\ \A d \in W : ~Dearer(a, d, dearest)
  <2>1. cheapest \in W /\ \A d \in W : d = cheapest \/ Dearer(a, d, cheapest)
    <3>1. \E c \in W : \A d \in W : d = c \/ Dearer(a, d, c)
      BY <1>1, Extremes
    <3> QED BY <3>1
  <2>2. dearest \in W /\ \A d \in W : d = dearest \/ Dearer(a, dearest, d)
    <3>1. \E c \in W : \A d \in W : d = c \/ Dearer(a, c, d)
      BY <1>1, Extremes
    <3> QED BY <3>1
  <2> HIDE DEF cheapest, dearest
  <2>3. \A d \in W : a[cheapest] <= a[d]
    BY <2>1 DEF Dearer
  <2>4. \A d \in W : ~Dearer(a, d, dearest)
    BY <1>1, <2>2, DearerOrders
  <2> QED BY <2>1, <2>2, <2>3, <2>4
<1>4. q = IF Total - sum >= 0 THEN [p EXCEPT ![cheapest] = @ + (Total - sum)]
          ELSE [lowered EXCEPT ![dearest] = Larger(0, @ - still)]
  BY DEF Repaired
<1>5. CASE Total - sum >= 0
  <2>1. q = [p EXCEPT ![cheapest] = @ + (Total - sum)]
    BY <1>4, <1>5
  <2> HIDE DEF q, sum, excess, spare, before, taken, still, cheapest, dearest, lowered
  <2>2. /\ sum <= 100 /\ p[cheapest] + (Total - sum) \in Shares /\ p[cheapest] + (Total - sum) >= p[cheapest]
        /\ cheapest \in Channels
    <3>1. cheapest \in Channels
      BY <1>3
    <3>2. p[cheapest] \in Nat /\ p[cheapest] <= sum /\ sum \in Nat /\ 100 - sum >= 0 /\ Total = 100
      BY <1>1, <1>2, <1>5, <3>1 DEF Total
    <3>3. p[cheapest] + (100 - sum) \in 0..100
      BY <3>2
    <3> QED BY <3>1, <3>2, <3>3 DEF Shares
  <2>3. /\ q \in [Channels -> Shares] /\ q[cheapest] = p[cheapest] + (Total - sum)
        /\ \A c \in Channels : c # cheapest => q[c] = p[c]
    BY <2>1, <2>2
  <2>4. Sum(q, Channels) = Total
    <3>1. \A c \in Channels : p[c] \in Int /\ q[c] \in Int
      BY <1>1, <2>3 DEF Shares, Total
    <3>2. \A c \in Channels : c # cheapest => p[c] = q[c]
      BY <2>3
    <3>3. Sum(q, Channels) = Sum(p, Channels) + q[cheapest] - p[cheapest]
      BY <2>2, <3>1, <3>2, ChannelSumChanges
    <3> QED BY <1>1, <1>2, <2>2, <2>3, <3>3 DEF sum, Total
  <2>5. \A c \in W : q[c] >= Floor /\ q[c] >= p[c] /\ ~(q[c] < p[c]) /\ (q[c] > p[c] => c = cheapest)
    <3>1. ASSUME NEW c \in W PROVE q[c] >= 5 /\ q[c] >= p[c] /\ ~(q[c] < p[c]) /\ (q[c] > p[c] => c = cheapest)
      <4>1. c \in Channels /\ p[c] \in Nat /\ p[c] >= 5 /\ p[cheapest] \in Nat /\ p[cheapest] >= 5
        BY <1>1, <1>3, <2>2
      <4>2. CASE c = cheapest
        BY <2>2, <2>3, <4>1, <4>2 DEF Shares, Total
      <4>3. CASE c # cheapest
        BY <2>3, <4>1, <4>3
      <4> QED BY <4>2, <4>3
    <3> QED BY <3>1 DEF Floor
  <2> QED BY <1>3, <2>3, <2>4, <2>5 DEF q
<1>6. CASE ~(Total - sum >= 0)
  <2>1. q = [lowered EXCEPT ![dearest] = Larger(0, @ - still)]
    BY <1>4, <1>6
  <2>2. \A c \in W : spare[c] = p[c] - 5 /\ spare[c] \in Nat
    <3>1. \A c \in W : p[c] \in Nat /\ p[c] >= 5
      BY <1>1
    <3> QED BY <3>1 DEF Larger, Floor
  <2>3. excess \in Nat /\ excess = sum - 100
    BY <1>2, <1>6 DEF Total
  <2>4. \A c \in W : /\ before[c] = {d \in W : Dearer(a, d, c)}
                     /\ taken[c] = Smaller(spare[c], Larger(0, excess - Sum(spare, before[c])))
    OBVIOUS
  <2>5. /\ \A c \in W : taken[c] \in Nat /\ taken[c] <= spare[c]
        /\ Sum(taken, W) = Smaller(Sum(spare, W), excess)
        /\ \A c, d \in W : taken[c] > 0 /\ Dearer(a, d, c) => taken[d] = spare[d]
    <3> HIDE DEF q, sum, excess, spare, before, taken, still, cheapest, dearest, lowered
    <3>1. W \in SUBSET Int /\ IsFiniteSet(W) /\ excess \in Nat /\ \A c \in W : spare[c] \in Nat
      BY <1>1, <2>2, <2>3
    <3>2. \A c \in W : a[c] \in Int
      OBVIOUS
    <3>3. TakesInTurn(taken, W, a, before, spare, excess)
      BY <2>4, <3>1, <3>2 DEF TakesInTurn
    <3> QED BY <3>3, TakenFacts
  <2>6. Sum(spare, W) \in Nat
    <3> HIDE DEF spare
    <3> QED BY <1>1, <2>2, SumIsNat
  <2>7. \A c \in Channels : lowered[c] = IF c \in W THEN p[c] - taken[c] ELSE p[c]
    OBVIOUS
  <2>8. lowered \in [Channels -> Shares] /\ \A c \in W : 5 <= lowered[c] /\ lowered[c] <= p[c]
    <3>1. \A c \in Channels : lowered[c] \in Shares /\ (c \in W => 5 <= lowered[c] /\ lowered[c] <= p[c])
      <4> HIDE DEF lowered, taken, spare
      <4> TAKE c \in Channels
      <4>1. p[c] \in Nat /\ p[c] <= 100
        BY <1>1
      <4>2. CASE c \in W
        <5>1. taken[c] \in Nat /\ taken[c] <= p[c] - 5 /\ lowered[c] = p[c] - taken[c] /\ p[c] >= 5
          BY <1>1, <2>2, <2>5, <2>7, <4>2
        <5> QED BY <4>1, <5>1 DEF Shares, Total
      <4>3. CASE c \notin W
        BY <2>7, <4>1, <4>3 DEF Shares, Total
      <4> QED BY <4>2, <4>3
    <3> QED BY <3>1
  <2>9. still \in Nat /\ still = Larger(0, excess - Sum(spare, W))
    <3> HIDE DEF spare, excess
    <3> QED BY <2>3, <2>6 DEF Larger
  <2> HIDE DEF q, sum, excess, spare, before, taken, still, cheapest, dearest, lowered
  <2>10. /\ q \in [Channels -> Shares]
         /\ \A c \in Channels : c # dearest => q[c] = lowered[c]
         /\ q[dearest] = Larger(0, lowered[dearest] - still) /\ q[dearest] <= lowered[dearest]
    <3>1. dearest \in Channels /\ lowered[dearest] \in 0..100
      BY <1>3, <2>8 DEF Shares, Total
    <3>2. Larger(0, lowered[dearest] - still) \in 0..100 /\ Larger(0, lowered[dearest] - still) <= lowered[dearest]
      BY <2>9, <3>1 DEF Larger
    <3> QED BY <2>1, <2>8, <3>1, <3>2 DEF Shares, Total
  <2>11. \A c \in W : ~(q[c] > p[c])
    <3>1. \A c \in W : q[c] \in Int /\ lowered[c] \in Int /\ p[c] \in Int
      BY <1>1, <2>8, <2>10 DEF Shares, Total
    <3>2. \A c \in W : q[c] <= lowered[c]
      BY <2>10, <3>1
    <3> QED BY <2>8, <3>1, <3>2
  <2>12. \A c \in Channels \ W : q[c] = p[c]
    BY <1>3, <2>7, <2>10
  <2>13. ASSUME Floor * Cardinality(W) + Sum(p, Channels \ W) <= Total
         PROVE  Sum(q, Channels) = Total /\ \A c \in W : q[c] >= Floor
    <3>1. /\ Sum(p, W) \in Int /\ Sum(p, Channels \ W) \in Int /\ sum = Sum(p, W) + Sum(p, Channels \ W)
          /\ IsFiniteSet(Channels \ W) /\ Cardinality(W) \in Nat
      <4>1. IsFiniteSet(Channels \ W)
        BY <1>1, FS_Subset
      <4>2. sum = Sum(p, W) + Sum(p, Channels \ W)
        <5>1. IsFiniteSet(Channels) /\ W \in SUBSET Channels /\ \A c \in Channels : p[c] \in Int
          BY <1>1
        <5> QED BY <5>1, SumSplits, Zenon DEF sum
      <4>3. Sum(p, W) \in Int /\ Sum(p, Channels \ W) \in Int
        <5>1. \A c \in Channels : p[c] \in Int
          BY <1>1
        <5> QED BY <1>1, <4>1, <5>1, SumIsInt
      <4>4. Cardinality(W) \in Nat
        BY <1>1, FS_CardinalityType
      <4> QED BY <4>1, <4>2, <4>3, <4>4
    <3>2. 1 * Sum(p, W) <= 1 * Sum(spare, W) + 5 * Cardinality(W)
      <4>1. \A c \in W : p[c] \in Int /\ spare[c] \in Int /\ 1 * p[c] <= 1 * spare[c] + 5
        BY <1>1, <2>2
      <4>2. 1 \in Nat /\ 1 \in Int /\ 5 \in Int
        OBVIOUS
      <4> QED BY <1>1, <4>1, <4>2, SumBounded, Zenon
    <3>3. excess <= Sum(spare, W)
      BY <1>2, <2>3, <2>6, <2>13, <3>1, <3>2 DEF Floor, Total
    <3>4. still = 0 /\ Sum(taken, W) = excess
      BY <2>3, <2>5, <2>6, <2>9, <3>3 DEF Larger, Smaller
    <3>5. \A c \in Channels : q[c] = lowered[c] /\ q[c] \in Int
      <4>1. lowered[dearest] \in Nat
        BY <1>3, <2>8 DEF Shares, Total
      <4>2. q[dearest] = lowered[dearest]
        BY <2>10, <3>4, <4>1 DEF Larger
      <4> QED BY <2>10, <4>2 DEF Shares, Total
    <3>6. Sum(q, Channels \ W) = Sum(p, Channels \ W)
      <4>1. \A c \in Channels \ W : q[c] \in Int /\ q[c] = p[c]
        BY <2>12, <3>5
      <4> QED BY <3>1, <4>1, SumSame
    <3>7. Sum(p, W) = Sum(q, W) + Sum(taken, W)
      <4>1. \A c \in W : q[c] \in Int /\ taken[c] \in Int /\ p[c] = q[c] + taken[c]
        <5> TAKE c \in W
        <5>1. c \in Channels /\ p[c] \in Nat /\ taken[c] \in Nat
          BY <1>1, <2>5
        <5> QED BY <2>7, <3>5, <5>1
      <4>2. IsFiniteSet(W)
        BY <1>1
      <4> QED BY <4>1, <4>2, SumPlus
    <3>8. Sum(q, Channels) = Sum(q, W) + Sum(q, Channels \ W) /\ Sum(q, W) \in Int
      <4>1. \A c \in Channels : q[c] \in Int
        BY <3>5
      <4> QED BY <1>1, <4>1, SumSplits, SumIsInt
    <3>9. Sum(q, Channels) = Total
      BY <1>2, <2>3, <3>1, <3>4, <3>6, <3>7, <3>8 DEF Total
    <3> QED BY <2>8, <3>5, <3>9 DEF Floor
  <2>14. ASSUME NEW c \in W, NEW d \in W, q[c] < p[c], Dearer(a, d, c) PROVE q[d] <= Floor
    <3>1. c # dearest /\ c \in Channels /\ d \in Channels
      BY <1>3, <2>14
    <3>2. q[c] = p[c] - taken[c] /\ p[c] \in Nat /\ taken[c] \in Nat
      BY <1>1, <2>5, <2>7, <2>10, <3>1
    <3>3. taken[d] = spare[d]
      BY <2>5, <2>14, <3>2
    <3>4. lowered[d] = 5
      BY <1>1, <2>2, <2>7, <3>1, <3>3
    <3>5. q[d] <= lowered[d]
      BY <2>10, <3>1, <3>4
    <3> QED BY <3>4, <3>5 DEF Floor
  <2> QED BY <2>10, <2>11, <2>12, <2>13, <2>14 DEF q
<1> QED BY <1>5, <1>6

\* Where the total stays and nobody loses more than MaxShift once somebody gains
\* more, the most a channel loses is what the others may gain.
LEMMA LossIsBounded ==
    ASSUME NEW W \in SUBSET Channels, NEW c \in W,
           NEW p \in [Channels -> Shares], NEW base \in [Channels -> Shares],
           \A d \in Channels \ W : p[d] = base[d],
           Sum(p, Channels) = Sum(base, Channels),
           \A d, e \in W : p[d] > base[d] + MaxShift => p[e] >= base[e] - MaxShift
    PROVE  p[c] >= base[c] - MaxShift * (Cardinality(W) - 1)
<1> DEFINE rest == W \ {c}
           size == Cardinality(rest)
<1>1. /\ \A d \in Channels : p[d] \in Nat /\ base[d] \in Nat /\ p[d] \in Int /\ base[d] \in Int
      /\ IsFiniteSet(Channels) /\ IsFiniteSet(W) /\ IsFiniteSet(Channels \ W) /\ IsFiniteSet(rest)
  <2>1. W \in SUBSET Channels /\ Channels \ W \in SUBSET Channels /\ rest \in SUBSET Channels
    OBVIOUS
  <2>2. \A d \in Channels : p[d] \in Nat /\ base[d] \in Nat /\ p[d] \in Int /\ base[d] \in Int
    BY DEF Shares, Total
  <2> QED BY <2>1, <2>2, ChannelsFinite
<1>2. size \in Nat /\ Cardinality(W) = size + 1
  BY <1>1, FS_RemoveElement, FS_CardinalityType
<1>3. CASE \E d \in W : p[d] > base[d] + 8
  <2>1. PICK d \in W : p[d] > base[d] + 8
    BY <1>3
  <2>2. c \in Channels /\ d \in Channels
    OBVIOUS
  <2>3. p[c] >= base[c] - 8
    BY <2>1 DEF MaxShift
  <2>4. CASE c = d
    <3>1. p[c] > base[c] + 8
      BY <2>1, <2>4
    <3> QED BY <1>1, <1>2, <2>2, <3>1 DEF MaxShift
  <2>5. CASE c # d
    <3>1. size # 0
      <4>1. d \in rest
        BY <2>5
      <4> HIDE DEF rest
      <4> QED BY <1>1, <4>1, FS_EmptySet
    <3> HIDE DEF size
    <3> QED BY <1>1, <1>2, <2>2, <2>3, <3>1 DEF MaxShift
  <2> QED BY <2>4, <2>5
<1>4. CASE \A d \in W : ~(p[d] > base[d] + 8)
  <2>1. Sum(p, Channels \ W) = Sum(base, Channels \ W) /\ Sum(p, Channels \ W) \in Int
    <3>1. \A d \in Channels \ W : p[d] \in Int /\ p[d] = base[d]
      BY <1>1
    <3> QED BY <1>1, <3>1, SumSame, SumIsInt
  <2>2. /\ Sum(p, Channels) = Sum(p, W) + Sum(p, Channels \ W)
        /\ Sum(base, Channels) = Sum(base, W) + Sum(base, Channels \ W)
    BY <1>1, SumSplits, Zenon
  <2>3. \A d \in W : p[d] \in Int /\ base[d] \in Int
    BY <1>1
  <2>4. Sum(p, W) = p[c] + Sum(p, rest) /\ Sum(base, W) = base[c] + Sum(base, rest)
    BY <1>1, <2>3, SumTakes
  <2>5. Sum(p, rest) \in Int /\ Sum(base, rest) \in Int
    BY <1>1, <2>3, SumIsInt
  <2>6. 1 * Sum(p, rest) <= 1 * Sum(base, rest) + 8 * size
    <3>1. \A d \in rest : p[d] \in Int /\ base[d] \in Int /\ 1 * p[d] <= 1 * base[d] + 8
      BY <1>4, <2>3
    <3>2. 1 \in Nat /\ 1 \in Int /\ 8 \in Int
      OBVIOUS
    <3> HIDE DEF rest
    <3> QED BY <1>1, <3>1, <3>2, SumBounded, Zenon
  <2>7. p[c] \in Int /\ base[c] \in Int
    BY <2>3
  <2> HIDE DEF rest, size
  <2>8. Sum(p, W) = Sum(base, W)
    <3>1. Sum(p, W) \in Int /\ Sum(base, W) \in Int
      BY <2>4, <2>5, <2>7
    <3> DEFINE others == Sum(base, Channels \ W)
    <3>2. Sum(p, W) + others = Sum(base, W) + others /\ others \in Int
      BY <2>1, <2>2
    <3>3. \A x, y, z \in Int : x + z = y + z => x = y
      OBVIOUS
    <3> HIDE DEF others
    <3> QED BY <3>1, <3>2, <3>3, Zenon
  <2>9. p[c] >= base[c] - 8 * size
    BY <1>2, <2>4, <2>5, <2>6, <2>7, <2>8
  <2> QED BY <1>2, <2>9 DEF MaxShift
<1> QED BY <1>3, <1>4

\* The weights of the channels that take part are positive.
LEMMA WeightFacts ==
    ASSUME NEW W \in SUBSET Channels, NEW a, \A c \in W : a[c] \in Nat \ {0}
    PROVE  /\ \A c \in W : Weights(a, W)[c] \in Nat \ {0} /\ Weights(a, W)[c] <= Sum(Weights(a, W), W)
           /\ W # {} => Sum(Weights(a, W), W) \in Nat \ {0}
<1> DEFINE weight == Weights(a, W)
<1>1. ASSUME NEW c \in W PROVE weight[c] \in Nat \ {0}
  <2>1. IsFiniteSet(W \ {c}) /\ \A d \in W \ {c} : a[d] \in Nat \ {0}
    <3>1. W \ {c} \in SUBSET Channels
      OBVIOUS
    <3> QED BY <3>1, ChannelsFinite
  <2>2. Product(a, W \ {c}) \in Nat \ {0}
    BY <2>1, ProductIsPositive
  <2> QED BY <2>2 DEF Weights
<1>2. IsFiniteSet(W)
  BY ChannelsFinite
<1> HIDE DEF weight
<1>3. \A c \in W : weight[c] \in Nat
  BY <1>1
<1>4. \A c \in W : weight[c] <= Sum(weight, W) /\ Sum(weight, W) \in Nat
  BY <1>2, <1>3, SumIsLeast
<1>5. W # {} => Sum(weight, W) \in Nat \ {0}
  <2> SUFFICES ASSUME W # {} PROVE Sum(weight, W) \in Nat \ {0}
    OBVIOUS
  <2>1. PICK c \in W : TRUE
    OBVIOUS
  <2>2. weight[c] \in Nat \ {0} /\ weight[c] <= Sum(weight, W) /\ Sum(weight, W) \in Nat
    BY <1>1, <1>4, <2>1
  <2> QED BY <2>2
<1> QED BY <1>1, <1>4, <1>5 DEF weight

\* What is left of a baseline that adds up beside S is what the others have.
LEMMA LeftFacts ==
    ASSUME NEW base \in [Channels -> Shares], NEW S \in SUBSET Channels
    PROVE  /\ Sum(base, S) \in Nat /\ Sum(base, Channels \ S) \in Nat
           /\ LeftBeside(base, S) \in 0..100
           /\ Sum(base, Channels) = Sum(base, S) + Sum(base, Channels \ S)
           /\ Sum(base, Channels) = Total => LeftBeside(base, S) = Sum(base, Channels \ S)
<1>1. /\ IsFiniteSet(S) /\ IsFiniteSet(Channels \ S) /\ IsFiniteSet(Channels)
      /\ \A c \in Channels : base[c] \in Nat
  <2>1. Channels \ S \in SUBSET Channels
    OBVIOUS
  <2> QED BY <2>1, ChannelsFinite DEF Shares, Total
<1>2. Sum(base, S) \in Nat
  BY <1>1, SumIsNat
<1>3. Sum(base, Channels \ S) \in Nat
  BY <1>1, SumIsNat
<1>4. Sum(base, Channels) = Sum(base, S) + Sum(base, Channels \ S)
  <2>1. \A c \in Channels : base[c] \in Int
    BY <1>1
  <2> QED BY <1>1, <2>1, SumSplits
<1> QED BY <1>2, <1>3, <1>4 DEF LeftBeside, Larger, Total

\* What the allocator promises, for every split, reading and set of channels held
\* back.
LEMMA AllocationFacts ==
    ASSUME NEW s \in [Channels -> Shares], NEW a, \A c \in Channels : a[c] \in Nat, NEW held
    PROVE  /\ Allocation(s, a, held) \in [Channels -> Shares]
           /\ N <= 15 => SoundPlan(Allocation(s, a, held), s, held, a)
<1> DEFINE W      == Weighted(a, held)
           H      == {c \in Channels : held[c]}
           base   == Baseline(s)
           p      == Allocation(s, a, held)
           pool   == LeftBeside(base, Channels \ W)
           weight == Weights(a, W)
           all    == Sum(weight, W)
           capped == [c \in Channels |->
                        IF c \in W THEN Larger(Floor, Capped(base[c], pool * weight[c], all)) ELSE base[c]]
<1>1. /\ W \in SUBSET Channels /\ H \in SUBSET Channels /\ W \cap H = {}
      /\ \A c \in W : a[c] \in Nat \ {0}
  <2>1. W \in SUBSET Channels /\ H \in SUBSET Channels /\ \A c \in W : a[c] \in Nat \ {0}
    BY DEF Weighted
  <2>2. W \cap H = {}
    BY Zenon DEF Weighted
  <2> QED BY <2>1, <2>2
<1>2. base \in [Channels -> Shares] /\ (N <= 15 => Sum(base, Channels) = Total)
  BY BaselineFacts
<1>3. p = IF W = {} \/ LeftBeside(base, H) = 0 THEN base ELSE Repaired(capped, a, W)
  BY DEF Allocation
<1>4. \A c \in Channels : base[c] \in Nat /\ base[c] <= 100
  BY <1>2 DEF Shares, Total
<1>5. CASE W = {} \/ LeftBeside(base, H) = 0
  <2>1. p = base
    BY <1>3, <1>5
  <2>2. ASSUME N <= 15, Floor * Cardinality(W) <= Sum(base, W) PROVE W = {}
    <3>1. CASE LeftBeside(base, H) = 0
      <4> HIDE DEF W, H, base
      <4>1. Sum(base, Channels \ H) = 0
        BY <1>1, <1>2, <2>2, <3>1, LeftFacts
      <4>2. IsFiniteSet(Channels \ H) /\ IsFiniteSet(W) /\ W \in SUBSET (Channels \ H)
        <5>1. Channels \ H \in SUBSET Channels
          OBVIOUS
        <5> QED BY <1>1, <5>1, ChannelsFinite
      <4>3. Sum(base, Channels \ H) = Sum(base, W) + Sum(base, (Channels \ H) \ W)
        <5>1. \A c \in Channels \ H : base[c] \in Int
          BY <1>4
        <5> QED BY <4>2, <5>1, SumSplits
      <4>4. Sum(base, W) \in Nat /\ Sum(base, (Channels \ H) \ W) \in Nat
        <5>1. IsFiniteSet((Channels \ H) \ W)
          BY <4>2, FS_Subset
        <5>2. \A c \in Channels : base[c] \in Nat
          BY <1>4
        <5> QED BY <1>1, <4>2, <5>1, <5>2, SumIsNat
      <4>5. Cardinality(W) \in Nat
        BY <4>2, FS_CardinalityType
      <4>6. Cardinality(W) = 0
        BY <2>2, <4>1, <4>3, <4>4, <4>5 DEF Floor
      <4> QED BY <4>2, <4>6, FS_EmptySet
    <3> QED BY <1>5, <3>1
  <2> HIDE DEF W, base, p
  <2>3. \A c \in Channels : ~(p[c] > base[c] + MaxShift) /\ ~(p[c] < base[c] - MaxShift)
    BY <1>4, <2>1 DEF MaxShift
  <2>4. N <= 15 => Sum(p, Channels) = Total
    BY <1>2, <2>1
  <2>5. \A c \in W : c \in Channels
    BY <1>1
  <2>6. N <= 15 => SoundPlan(p, s, held, a)
    <3> SUFFICES ASSUME N <= 15 PROVE SoundPlan(p, s, held, a)
      OBVIOUS
    <3>1. W = {c \in Channels : ~held[c] /\ a[c] > 0}
      BY Zenon DEF Weighted, W
    <3>2. Floor * Cardinality(W) <= Sum(base, W) => W = {}
      BY <2>2
    <3>3. base = Baseline(s)
      BY DEF base
    <3> QED BY <2>1, <2>3, <2>4, <2>5, <3>1, <3>2, <3>3, Zenon DEF SoundPlan
  <2> QED BY <1>2, <2>1, <2>6 DEF p
<1>6. CASE W # {} /\ LeftBeside(base, H) # 0
  <2>1. p = Repaired(capped, a, W)
    BY <1>3, <1>6
  <2>2. pool \in 0..100 /\ all \in Nat \ {0} /\ \A c \in W : weight[c] \in Nat \ {0} /\ weight[c] <= all
    <3>1. Channels \ W \in SUBSET Channels
      OBVIOUS
    <3>2. pool \in 0..100
      BY <1>2, <3>1, LeftFacts
    <3>3. all \in Nat \ {0} /\ \A c \in W : weight[c] \in Nat \ {0} /\ weight[c] <= all
      BY <1>1, <1>6, WeightFacts
    <3> QED BY <3>2, <3>3
  <2>3. ASSUME NEW c \in W
        PROVE  capped[c] \in 5..100 /\ capped[c] <= base[c] + 8 /\ capped[c] >= base[c] - 8
    <3> DEFINE w == Capped(base[c], pool * weight[c], all)
    <3>1. c \in Channels
      BY <1>1
    <3>2. capped[c] = Larger(Floor, w)
      BY <3>1
    <3> HIDE DEF pool, all, weight, base, W
    <3>3. pool * weight[c] \in Nat /\ pool * weight[c] <= 100 * all
      <4> DEFINE x == weight[c]
      <4>1. x \in Nat /\ all \in Nat /\ x <= all /\ pool \in Nat /\ pool <= 100
        BY <2>2
      <4> HIDE DEF x
      <4>2. pool * x <= 100 * x /\ 100 * x <= 100 * all /\ pool * x \in Nat
        BY <4>1
      <4>3. pool * x <= 100 * all
        BY <4>1, <4>2
      <4> QED BY <4>2, <4>3 DEF x
    <3>4. w \in Int /\ w <= base[c] + MaxShift /\ w >= base[c] - MaxShift /\ w <= 100
      BY <1>2, <2>2, <3>1, <3>3, CappedFacts
    <3> HIDE DEF w, capped
    <3>5. base[c] \in Nat
      BY <1>4, <3>1
    <3> QED BY <3>2, <3>4, <3>5 DEF Larger, Floor, MaxShift
  <2>4. /\ capped \in [Channels -> Shares] /\ \A c \in W : capped[c] >= Floor
        /\ \A c \in Channels \ W : capped[c] = base[c]
    <3>1. \A c \in Channels \ W : capped[c] = base[c]
      OBVIOUS
    <3>2. \A c \in Channels : capped[c] \in Shares
      <4> HIDE DEF capped, base, W
      <4> QED BY <1>2, <2>3, <3>1 DEF Shares, Total
    <3>3. \A c \in W : capped[c] >= Floor
      <4> HIDE DEF capped
      <4> QED BY <2>3 DEF Floor
    <3> QED BY <3>1, <3>2, <3>3
  <2> HIDE DEF W, H, base, p, pool, weight, all, capped
  <2>5. /\ p \in [Channels -> Shares]
        /\ \A c \in Channels \ W : p[c] = capped[c]
        /\ \A c, d \in W : p[c] > capped[c] => a[c] <= a[d] /\ p[d] >= capped[d]
        /\ \A c, d \in W : p[c] < capped[c] /\ Dearer(a, d, c) => p[d] <= Floor
        /\ Floor * Cardinality(W) + Sum(capped, Channels \ W) <= Total =>
               /\ Sum(p, Channels) = Total
               /\ \A c \in W : p[c] >= Floor
    <3>1. \A c \in W : a[c] \in Int
      BY <1>1
    <3>2. W \in SUBSET Channels /\ W # {}
      BY <1>1, <1>6
    <3>3. capped \in [Channels -> Shares] /\ \A c \in W : capped[c] >= Floor
      BY <2>4
    <3>4. /\ Repaired(capped, a, W) \in [Channels -> Shares]
          /\ \A c \in Channels \ W : Repaired(capped, a, W)[c] = capped[c]
          /\ \A c, d \in W : Repaired(capped, a, W)[c] > capped[c] =>
                                 a[c] <= a[d] /\ Repaired(capped, a, W)[d] >= capped[d]
          /\ \A c, d \in W : Repaired(capped, a, W)[c] < capped[c] /\ Dearer(a, d, c) =>
                                 Repaired(capped, a, W)[d] <= Floor
          /\ Floor * Cardinality(W) + Sum(capped, Channels \ W) <= Total =>
                 /\ Sum(Repaired(capped, a, W), Channels) = Total
                 /\ \A c \in W : Repaired(capped, a, W)[c] >= Floor
      BY <3>1, <3>2, <3>3, RepairedFacts
    <3> QED BY <2>1, <3>4
  <2>6. \A c \in W : /\ p[c] \in Int /\ base[c] \in Int /\ capped[c] \in Int
                     /\ capped[c] <= base[c] + 8 /\ capped[c] >= base[c] - 8
    BY <1>1, <1>4, <2>3, <2>5 DEF Shares, Total
  <2>7. ASSUME NEW c \in W, NEW d \in W, p[c] > base[c] + MaxShift
        PROVE  a[c] <= a[d] /\ p[d] >= base[d] - MaxShift
    <3>1. p[c] > capped[c]
      BY <2>6, <2>7 DEF MaxShift
    <3>2. a[c] <= a[d] /\ p[d] >= capped[d]
      BY <2>5, <3>1
    <3> QED BY <2>6, <3>2 DEF MaxShift
  <2>8. ASSUME NEW c \in W, NEW d \in W, p[c] < base[c] - MaxShift, Dearer(a, d, c)
        PROVE  p[d] <= Floor
    <3>1. p[c] < capped[c]
      BY <2>6, <2>8 DEF MaxShift
    <3> QED BY <2>5, <2>8, <3>1
  <2>9. ASSUME N <= 15, Floor * Cardinality(W) <= Sum(base, W)
        PROVE  Floor * Cardinality(W) + Sum(capped, Channels \ W) <= Total
    <3>1. Sum(capped, Channels \ W) = Sum(base, Channels \ W)
      <4>1. IsFiniteSet(Channels \ W)
        <5>1. Channels \ W \in SUBSET Channels
          OBVIOUS
        <5> QED BY <5>1, ChannelsFinite
      <4>2. \A c \in Channels \ W : capped[c] \in Int /\ capped[c] = base[c]
        BY <1>4, <2>4
      <4> QED BY <4>1, <4>2, SumSame
    <3>2. /\ Sum(base, Channels) = Sum(base, W) + Sum(base, Channels \ W)
          /\ Sum(base, W) \in Nat /\ Sum(base, Channels \ W) \in Nat
      BY <1>1, <1>2, LeftFacts
    <3>3. Cardinality(W) \in Nat
      BY <1>1, ChannelsFinite, FS_CardinalityType
    <3> QED BY <1>2, <2>9, <3>1, <3>2, <3>3 DEF Floor, Total
  <2>10. ASSUME N <= 15, Floor * Cardinality(W) <= Sum(base, W)
         PROVE  /\ Sum(p, Channels) = Total
                /\ \A c \in W : p[c] >= Floor /\ p[c] >= base[c] - MaxShift * (Cardinality(W) - 1)
    <3>1. Sum(p, Channels) = Total /\ \A c \in W : p[c] >= Floor
      BY <2>5, <2>9, <2>10, Zenon
    <3>2. Sum(base, Channels) = Sum(p, Channels)
      BY <1>2, <2>10, <3>1
    <3>3. \A d \in Channels \ W : p[d] = base[d]
      BY <2>4, <2>5
    <3>4. \A d, e \in W : p[d] > base[d] + MaxShift => p[e] >= base[e] - MaxShift
      BY <2>7
    <3>5. \A c \in W : p[c] >= base[c] - MaxShift * (Cardinality(W) - 1)
      BY <1>1, <1>2, <2>5, <3>2, <3>3, <3>4, LossIsBounded, Zenon
    <3> QED BY <3>1, <3>5
  <2>11. N <= 15 => SoundPlan(p, s, held, a)
    <3>1. W = {c \in Channels : ~held[c] /\ a[c] > 0} /\ base = Baseline(s)
      BY Zenon DEF W, Weighted, base
    <3>2. \A c \in Channels \ W : p[c] = base[c]
      BY <2>4, <2>5
    <3> QED BY <2>7, <2>8, <2>10, <3>1, <3>2, Zenon DEF SoundPlan
  <2> QED BY <2>5, <2>11 DEF p
<1> QED BY <1>5, <1>6

\* Every part of a share of the target is within it.
LEMMA DistributedFacts ==
    ASSUME NEW s \in [Channels -> Shares], NEW S \in SUBSET Channels, NEW target \in Shares
    PROVE  \A c \in S : Distributed(s, S, target)[c] \in Shares
<1> DEFINE pool  == Sum(s, S)
           size  == Cardinality(S)
           whole == [c \in S |-> IF pool = 0 THEN target \div size ELSE (s[c] * target) \div pool]
           part  == [c \in S |-> IF pool = 0 THEN 0 ELSE (s[c] * target) % pool]
           left  == target - Sum(whole, S)
           ahead == [c \in S |-> {d \in S : part[d] > part[c] \/ (part[d] = part[c] /\ d < c)}]
<1>1. SUFFICES ASSUME S # {} PROVE \A c \in S : Distributed(s, S, target)[c] \in Shares
  OBVIOUS
<1>2. IsFiniteSet(S) /\ size \in Nat \ {0}
  BY <1>1, ChannelsFinite, FS_CardinalityType, FS_EmptySet
<1>3. \A c \in S : s[c] \in Nat /\ s[c] <= pool /\ pool \in Nat
  <2>1. \A c \in S : s[c] \in Nat
    BY DEF Shares
  <2> QED BY <1>2, <2>1, SumIsLeast
<1>4. target \in Nat /\ target <= 100
  BY DEF Shares, Total
<1>5. ASSUME NEW c \in S PROVE whole[c] \in Nat /\ whole[c] <= target
  <2>1. \A m \in Nat : \A n \in Nat \ {0} : m <= n * target => m \div n \in Nat /\ m \div n <= target
    <3> SUFFICES ASSUME NEW m \in Nat, NEW n \in Nat \ {0}, m <= n * target
                 PROVE  m \div n \in Nat /\ m \div n <= target
      OBVIOUS
    <3> DEFINE q == m \div n
    <3>1. q \in Int /\ m % n \in 0..(n - 1) /\ m = n * q + (m % n)
      <4>1. m \in Int
        OBVIOUS
      <4> QED BY <4>1, Division
    <3> HIDE DEF q
    <3>2. n * q \in Int /\ n * target \in Int /\ n * q <= n * target /\ n * 0 < n * q + n
      BY <1>4, <3>1
    <3>3. 0 <= q /\ q <= target
      BY <1>4, <3>1, <3>2, Cancel
    <3> QED BY <3>1, <3>3 DEF q
  <2>2. CASE pool = 0
    <3>1. whole[c] = target \div size
      BY <2>2
    <3>2. target <= size * target
      <4> HIDE DEF size
      <4> QED BY <1>2, <1>4
    <3> QED BY <1>2, <1>4, <2>1, <3>1, <3>2
  <2>3. CASE pool # 0
    <3>1. whole[c] = (s[c] * target) \div pool
      BY <2>3
    <3>2. /\ pool \in Nat \ {0} /\ s[c] * target \in Nat
          /\ s[c] * target <= pool * target
      <4> HIDE DEF pool
      <4> QED BY <1>3, <1>4, <2>3
    <3> QED BY <2>1, <3>1, <3>2
  <2> QED BY <2>2, <2>3
<1> DEFINE result == Distributed(s, S, target)
<1>6. \A c \in S : result[c] = whole[c] + (IF Cardinality(ahead[c]) < left THEN 1 ELSE 0)
  BY DEF Distributed
<1>7. \A c \in S : ahead[c] \subseteq S
  OBVIOUS
<1> HIDE DEF result, whole, ahead, part, left
<1>8. left \in Int /\ \A c \in S : whole[c] <= Sum(whole, S) /\ left = target - Sum(whole, S)
  <2>1. \A c \in S : whole[c] <= Sum(whole, S) /\ Sum(whole, S) \in Nat
    BY <1>2, <1>5, SumIsLeast
  <2>2. Sum(whole, S) \in Nat
    BY <1>1, <2>1
  <2> QED BY <1>4, <2>1, <2>2 DEF left
<1>9. ASSUME NEW c \in S PROVE result[c] \in Shares
  <2>1. whole[c] \in Nat /\ whole[c] <= target
    BY <1>5
  <2>2. Cardinality(ahead[c]) \in Nat
    BY <1>2, <1>7, FS_Subset, FS_CardinalityType
  <2>3. CASE Cardinality(ahead[c]) < left
    <3>1. left > 0
      BY <1>8, <2>2, <2>3
    <3>2. Sum(whole, S) \in Int
      <4>1. \A d \in S : whole[d] \in Int
        BY <1>5
      <4> QED BY <1>2, <4>1, SumIsInt
    <3>3. whole[c] + 1 <= target
      BY <1>4, <1>8, <2>1, <3>1, <3>2
    <3>4. result[c] = whole[c] + 1
      BY <1>6, <2>3
    <3> QED BY <1>4, <2>1, <3>3, <3>4 DEF Shares, Total
  <2>4. CASE ~(Cardinality(ahead[c]) < left)
    <3>1. result[c] = whole[c] + 0
      BY <1>6, <2>4
    <3> QED BY <1>4, <2>1, <3>1 DEF Shares, Total
  <2> QED BY <2>3, <2>4
<1> QED BY <1>9 DEF result

\* The points a plan moves are a number.
LEMMA PointsFacts ==
    ASSUME NEW shifts, \A c \in Channels : shifts[c] \in Int
    PROVE  Points(shifts) \in Nat
<1> DEFINE sizes == [c \in Channels |-> Size(shifts[c])]
<1>1. \A c \in Channels : sizes[c] \in Nat
  BY DEF Size
<1> HIDE DEF sizes
<1>2. Sum(sizes, Channels) \in Nat
  BY <1>1, ChannelsFinite, SumIsNat
<1>3. \A m \in Nat : m \div 2 \in Nat
  OBVIOUS
<1> QED BY <1>2, <1>3 DEF Points, sizes

-----------------------------------------------------------------------------
(* What was pushed is what is stored.                                       *)

\* A transaction is told from no transaction by its fields.
LEMMA NoneFacts == \A t : "alone" \in DOMAIN t => t # None
<1>1. DOMAIN None = {"none"}
  BY DEF None
<1> QED BY <1>1

\* Being disturbed leaves a transaction all it holds and takes its being alone.
LEMMA DisturbedFacts ==
    ASSUME NEW t, "alone" \in DOMAIN t
    PROVE  /\ Disturbed(t) # None
           /\ DOMAIN Disturbed(t) = DOMAIN t
           /\ "at" \in DOMAIN t => Disturbed(t).at = t.at
           /\ "landed" \in DOMAIN t => Disturbed(t).landed = t.landed
           /\ "inStep" \in DOMAIN t => Disturbed(t).inStep = t.inStep
           /\ "writes" \in DOMAIN t => Disturbed(t).writes = t.writes
           /\ "lockedThen" \in DOMAIN t => Disturbed(t).lockedThen = t.lockedThen
           /\ Disturbed(t).alone = FALSE
<1>1. Disturbed(t) = [t EXCEPT !["alone"] = FALSE]
  BY NoneFacts DEF Disturbed
<1>2. DOMAIN Disturbed(t) = DOMAIN t /\ Disturbed(t).alone = FALSE
  BY <1>1
<1>3. /\ "at" \in DOMAIN t => Disturbed(t).at = t.at
      /\ "landed" \in DOMAIN t => Disturbed(t).landed = t.landed
      /\ "inStep" \in DOMAIN t => Disturbed(t).inStep = t.inStep
      /\ "writes" \in DOMAIN t => Disturbed(t).writes = t.writes
      /\ "lockedThen" \in DOMAIN t => Disturbed(t).lockedThen = t.lockedThen
  BY <1>1
<1> QED BY <1>2, <1>3, NoneFacts

\* Writing g into f changes f where g is defined and nowhere else.
LEMMA WriteFacts ==
    ASSUME NEW f, NEW g
    PROVE  /\ DOMAIN Write(f, g) = DOMAIN f
           /\ \A c \in DOMAIN f : Write(f, g)[c] = IF c \in DOMAIN g THEN g[c] ELSE f[c]
BY DEF Write

\* What SQLAlchemy sends of the pushed shares: those that are not the loaded
\* ones, so that row and push agree wherever the loaded row is still there.
LEMMA ChangedFacts ==
    ASSUME NEW before, NEW pushed
    PROVE  /\ DOMAIN Changed(before, pushed) \subseteq DOMAIN pushed
           /\ \A c \in DOMAIN pushed :
                 pushed[c] = IF c \in DOMAIN Changed(before, pushed)
                             THEN Changed(before, pushed)[c] ELSE before[c]
BY DEF Changed

\* The channels written were not locked when the rows were read, and those in step
\* with their platforms are among them.
LEMMA LandedFacts ==
    ASSUME NEW L, NEW answer
    PROVE  /\ Landed(L, answer) \subseteq Channels
           /\ \A c \in Landed(L, answer) : ~L[c]
           /\ InStep(L, answer) \subseteq Landed(L, answer) \cap Connected
           /\ \A c \in InStep(L, answer) :
                 c \in Attempted(L) \cap Met(answer, {"taken", "lost"})
           /\ \A c \in Connected \ InStep(L, answer) :
                 \/ c \notin Attempted(L) \cap Met(answer, {"taken", "lost"})
                 \/ c \in Met(answer, {"lost", "absent"})
           /\ answer \in [Connected -> Outcomes] =>
                 (Landed(L, answer) \cap Connected) \ InStep(L, answer) \subseteq Met(answer, {"lost", "absent"})
BY DEF Outcomes, Landed, Attempted, InStep, Met, Failures

\* IInv holds at the start, when the platforms spend the stored shares.
LEMMA InitHolds == Init => IInv
<1> SUFFICES ASSUME Init PROVE IInv
  OBVIOUS
<1>1. share \in [Channels -> Shares] /\ Connected \subseteq Channels
  BY BudgetAssumption DEF Init
<1> QED BY <1>1 DEF Init, IInv, RunSound, ReviewSound, StoredIsSpent

\* A disturbed transaction keeps what WritesWhatLanded says of it, whatever
\* happens to the shares.
LEMMA DisturbedSound ==
    ASSUME NEW t, NEW F, DOMAIN t = F, "none" \notin F, t # None, WritesWhatLanded(t),
           {"alone", "landed", "inStep", "writes", "lockedThen"} \subseteq F
    PROVE  /\ Disturbed(t).landed = t.landed
           /\ Disturbed(t).inStep = t.inStep
           /\ Disturbed(t).inStep \subseteq Disturbed(t).landed \cap Connected
           /\ DOMAIN Disturbed(t) = F
           /\ Disturbed(t) # None
           /\ ~Disturbed(t).alone
           /\ Disturbed(t).landed \subseteq Channels
           /\ \A c \in Disturbed(t).landed : ~Disturbed(t).lockedThen[c]
           /\ DOMAIN Disturbed(t).writes \subseteq Disturbed(t).landed
<1>1. /\ Disturbed(t) # None /\ DOMAIN Disturbed(t) = F /\ Disturbed(t).alone = FALSE
      /\ Disturbed(t).landed = t.landed /\ Disturbed(t).inStep = t.inStep
      /\ Disturbed(t).writes = t.writes
      /\ Disturbed(t).lockedThen = t.lockedThen
  BY DisturbedFacts
<1> QED BY <1>1 DEF WritesWhatLanded

\* A review that a step disturbs stays sound.
LEMMA ReviewDisturbed ==
    ASSUME ReviewSound, review' = Disturbed(review)
    PROVE  /\ ReviewSound'
           /\ review # None <=> review' # None
           /\ review # None => review'.inStep = review.inStep
<1>1. CASE review = None
  BY <1>1, DisturbedFacts DEF ReviewSound, Disturbed
<1>2. CASE review # None
  <2>1. /\ DOMAIN review' = ReviewFields /\ review' # None /\ ~review'.alone
        /\ review'.inStep = review.inStep /\ review'.landed \subseteq Channels
        /\ review'.inStep \subseteq review'.landed \cap Connected
        /\ \A c \in review'.landed : ~review'.lockedThen[c]
        /\ DOMAIN review'.writes \subseteq review'.landed
    <3> DEFINE F == ReviewFields
    <3>1. DOMAIN review = F /\ WritesWhatLanded(review) /\ "none" \notin F
          /\ {"alone", "landed", "inStep", "writes", "lockedThen"} \subseteq F
      BY <1>2 DEF ReviewSound, ReviewFields
    <3> HIDE DEF F
    <3>2. DOMAIN review' = F
      BY <1>2, <3>1, DisturbedSound
    <3> QED BY <1>2, <3>1, <3>2, DisturbedSound DEF F
  <2> QED BY <1>2, <2>1 DEF ReviewSound, WritesWhatLanded
<1> QED BY <1>1, <1>2

\* A run that a step disturbs stays sound.
LEMMA RunDisturbed ==
    ASSUME RunSound, run' = Disturbed(run)
    PROVE  /\ RunSound'
           /\ run # None <=> run' # None
           /\ run # None => run'.inStep = run.inStep /\ run'.at = run.at
<1>1. CASE run = None
  BY <1>1 DEF RunSound, Disturbed
<1>2. CASE run # None
  <2> DEFINE F == RunFields
  <2>1. DOMAIN run = F /\ WritesWhatLanded(run) /\ "none" \notin F
        /\ {"at", "alone", "landed", "inStep", "writes", "lockedThen"} \subseteq F
    BY <1>2 DEF RunSound, RunFields
  <2> HIDE DEF F
  <2>2. /\ DOMAIN run' = F /\ run' # None /\ ~run'.alone
        /\ run'.landed = run.landed /\ run'.landed \subseteq Channels
        /\ run'.inStep = run.inStep /\ run'.inStep \subseteq run'.landed \cap Connected
        /\ \A c \in run'.landed : ~run'.lockedThen[c]
        /\ DOMAIN run'.writes \subseteq run'.landed
    BY <1>2, <2>1, DisturbedSound
  <2>3. run'.at = run.at
    BY <1>2, <2>1, DisturbedFacts
  <2> QED BY <1>2, <2>2, <2>3 DEF RunSound, WritesWhatLanded, F
<1> QED BY <1>1, <1>2

\* Steps that touch neither shares, platforms nor transactions.
LEMMA OthersKeep ==
    ASSUME IInv, UNCHANGED <<share, platform, run, review, apart>>
    PROVE  IInv'
BY DEF IInv, RunSound, ReviewSound, WritesWhatLanded, StoredIsSpent

\* A run that practises or queues its plan has pushed nothing.
LEMMA PlanKeeps ==
    ASSUME IInv, Practise \/ Queue
    PROVE  IInv'
<1>1. /\ run # None /\ run.at # "sent" /\ DOMAIN run = RunFields
      /\ UNCHANGED <<share, platform, review, apart>>
  BY DEF Practise, Queue, Planned, rows, IInv, RunSound
<1>2. PICK x \in {"done", "queued"} : run' = [run EXCEPT !.at = x]
  BY DEF Practise, Queue
<1>3. /\ DOMAIN run' = RunFields /\ run'.at # "sent"
      /\ run'.landed = run.landed /\ run'.inStep = run.inStep /\ run'.writes = run.writes
      /\ run'.lockedThen = run.lockedThen /\ run'.alone = run.alone
  BY <1>1, <1>2 DEF RunFields
<1>4. RunSound'
  BY <1>1, <1>3 DEF IInv, RunSound, WritesWhatLanded
<1>5. ReviewSound'
  BY <1>1 DEF IInv, ReviewSound, WritesWhatLanded
<1>6. StoredIsSpent'
  <2>1. StoredIsSpent /\ run' # None
    <3>1. "none" \notin DOMAIN run' /\ "none" \in DOMAIN None
      BY <1>3 DEF RunFields, None
    <3> QED BY <3>1 DEF IInv
  <2> QED BY <1>1, <1>3, <2>1, Zenon DEF StoredIsSpent
<1> QED BY <1>1, <1>4, <1>5, <1>6 DEF IInv

\* A run that begins has pushed nothing.
LEMMA BeginKeeps ==
    ASSUME IInv, NEW r, NEW gate, BeginRun(r, gate)
    PROVE  IInv'
<1>1. run = None /\ UNCHANGED <<share, platform, review, apart>>
  BY DEF BeginRun
<1>2. \/ run' = None
      \/ /\ DOMAIN run' = RunFields /\ run'.at = "planned"
         /\ run'.landed = {} /\ run'.inStep = {} /\ DOMAIN run'.writes = {}
  BY <1>1 DEF BeginRun, RunFields
<1>3. RunSound'
  BY <1>1, <1>2 DEF RunSound, WritesWhatLanded
<1>4. ReviewSound' /\ StoredIsSpent'
  BY <1>1, <1>2 DEF IInv, ReviewSound, WritesWhatLanded, StoredIsSpent
<1> QED BY <1>1, <1>3, <1>4 DEF IInv

\* Sending pushes shares whose rows are now waiting to be written.
LEMMA SendKeeps ==
    ASSUME IInv, NEW answer, Send(answer)
    PROVE  IInv'
<1> DEFINE landed == Landed(locked, answer)
           step   == InStep(locked, answer)
           asked  == Attempted(locked) \cap Met(answer, {"taken", "lost"})
           pushed == [c \in landed |-> run.plan.percents[c]]
           w == Changed(share, pushed)
<1>1. /\ run # None /\ run.at = "planned" /\ DOMAIN run = RunFields
      /\ answer \in [Connected -> Outcomes]
  BY DEF Send, Planned, Answers, IInv, RunSound
<1>2. /\ review' = Disturbed(review)
      /\ UNCHANGED share /\ apart' = apart \cup Met(answer, {"lost", "absent"})
      /\ platform' = [c \in Connected |-> IF c \in asked THEN run.plan.percents[c] ELSE platform[c]]
  BY DEF Send, Pushed, Parts, rows
<1>3. /\ DOMAIN run' = RunFields /\ run'.at = "sent"
      /\ run'.landed = landed /\ run'.inStep = step /\ run'.writes = w
      /\ run'.lockedThen = locked
  BY <1>1 DEF Send, RunFields
<1>4. /\ ReviewSound'
      /\ review # None <=> review' # None
      /\ review # None => review'.inStep = review.inStep
  BY <1>2, ReviewDisturbed DEF IInv
<1>5. /\ DOMAIN w \subseteq landed
      /\ \A c \in landed : (IF c \in DOMAIN w THEN w[c] ELSE share[c]) = run.plan.percents[c]
  <2>1. DOMAIN pushed = landed /\ \A c \in landed : pushed[c] = run.plan.percents[c]
    OBVIOUS
  <2> HIDE DEF landed, pushed
  <2>2. /\ DOMAIN w \subseteq DOMAIN pushed
        /\ \A c \in DOMAIN pushed : pushed[c] = IF c \in DOMAIN w THEN w[c] ELSE share[c]
    BY ChangedFacts
  <2> QED BY <2>1, <2>2
<1>6. /\ landed \subseteq Channels /\ \A c \in landed : ~locked[c]
      /\ step \subseteq landed \cap Connected
      /\ \A c \in step : c \in asked
      /\ \A c \in Connected \ step : c \notin asked \/ c \in apart'
      /\ (landed \cap Connected) \ step \subseteq apart'
  BY <1>1, <1>2, LandedFacts
<1> HIDE DEF landed, step, asked, pushed, w
<1>7. run' # None
  BY <1>3, NoneFacts DEF RunFields
<1>8. RunSound'
  <2>1. \A c \in step : platform'[c] = IF c \in DOMAIN w THEN w[c] ELSE share[c]
    BY <1>2, <1>5, <1>6
  <2> QED BY <1>2, <1>3, <1>5, <1>6, <2>1 DEF RunSound, WritesWhatLanded
<1>9. StoredIsSpent'
  <2>1. ASSUME NEW c \in Connected \ apart', c \notin step, ~(review # None /\ c \in review.inStep)
        PROVE  share'[c] = platform'[c]
    <3>1. c \notin asked /\ c \notin apart
      BY <1>2, <1>6, <2>1
    <3>2. run.inStep = {}
      BY <1>1 DEF IInv, RunSound, WritesWhatLanded
    <3>3. share[c] = platform[c]
      BY <2>1, <3>1, <3>2 DEF IInv, StoredIsSpent
    <3> QED BY <1>2, <3>1, <3>3
  <2> QED BY <1>3, <1>4, <1>7, <2>1 DEF StoredIsSpent
<1> QED BY <1>2, <1>4, <1>8, <1>9 DEF IInv

\* A transaction that commits leaves the shares it pushed as the platforms have
\* them, or sets them apart.
LEMMA SavedFacts ==
    ASSUME NEW t, WritesWhatLanded(t), DOMAIN share = Channels, Saved(t),
           share' = Write(share, t.writes)
    PROVE  /\ DOMAIN share' = Channels
           /\ \A c \in Channels \ t.landed : share'[c] = share[c]
           /\ \A c \in t.inStep : c \in apart' \/ share'[c] = platform[c]
           /\ \A c \in Connected \ t.inStep : c \in apart => c \in apart'
           /\ \A c \in (t.landed \cap Connected) \ t.inStep : c \in apart'
<1>1. /\ DOMAIN share' = Channels
      /\ \A c \in Channels : share'[c] = IF c \in DOMAIN t.writes THEN t.writes[c] ELSE share[c]
  BY WriteFacts
<1>2. /\ t.landed \subseteq Channels /\ DOMAIN t.writes \subseteq t.landed
      /\ t.inStep \subseteq t.landed \cap Connected
  BY DEF WritesWhatLanded
<1>3. CASE t.alone
  BY <1>1, <1>2, <1>3 DEF WritesWhatLanded, Saved
<1>4. CASE ~t.alone
  BY <1>1, <1>2, <1>4 DEF Saved
<1> QED BY <1>3, <1>4

\* The engine's commit.
LEMMA CommitKeeps ==
    ASSUME IInv, CommitRun
    PROVE  IInv'
<1>1. /\ run # None /\ run' = None
      /\ share' = Write(share, run.writes) /\ platform' = platform
      /\ IF run.at = "sent" THEN Saved(run) /\ review' = Disturbed(review)
         ELSE apart' = apart /\ review' = review
  BY DEF CommitRun
<1>3. RunSound'
  BY <1>1 DEF RunSound
<1>4. WritesWhatLanded(run) /\ DOMAIN share = Channels /\ Connected \subseteq Channels
  BY <1>1, BudgetAssumption DEF IInv, RunSound
<1>5. CASE run.at = "sent"
  <2>1. /\ DOMAIN share' = Channels
        /\ \A c \in Channels \ run.landed : share'[c] = share[c]
        /\ \A c \in run.inStep : c \in apart' \/ share'[c] = platform[c]
        /\ \A c \in Connected \ run.inStep : c \in apart => c \in apart'
        /\ \A c \in (run.landed \cap Connected) \ run.inStep : c \in apart'
    BY <1>1, <1>4, <1>5, SavedFacts
  <2>2. /\ ReviewSound'
        /\ review # None <=> review' # None
        /\ review # None => review'.inStep = review.inStep
    BY <1>1, <1>5, ReviewDisturbed DEF IInv
  <2>3. StoredIsSpent'
    BY <1>1, <1>4, <2>1, <2>2 DEF IInv, StoredIsSpent
  <2> QED BY <1>1, <1>3, <2>1, <2>2, <2>3 DEF IInv
<1>6. CASE run.at # "sent"
  <2>1. DOMAIN run.writes = {} /\ run.inStep = {}
    BY <1>1, <1>4, <1>6 DEF IInv, RunSound, WritesWhatLanded
  <2>2. DOMAIN share' = Channels /\ \A c \in Channels : share'[c] = share[c]
    BY <1>1, <1>4, <2>1, WriteFacts
  <2>3. StoredIsSpent'
    BY <1>1, <1>4, <1>6, <2>1, <2>2 DEF IInv, StoredIsSpent
  <2>4. ReviewSound'
    <3>1. ASSUME review # None
          PROVE  /\ DOMAIN review = ReviewFields /\ WritesWhatLanded(review)
                 /\ \A c \in review.inStep : share'[c] = share[c]
      BY <1>4, <2>2, <3>1 DEF IInv, ReviewSound, WritesWhatLanded
    <3> QED BY <1>1, <1>6, <3>1 DEF ReviewSound, WritesWhatLanded
  <2> QED BY <1>1, <1>3, <2>2, <2>3, <2>4 DEF IInv
<1> QED BY <1>5, <1>6

\* A process that dies after a push leaves what it pushed set apart.
LEMMA DeathKeeps ==
    ASSUME IInv, RunDies \/ RequestDies
    PROVE  IInv'
<1>1. CASE RunDies
  <2>1. /\ run # None /\ run' = None /\ UNCHANGED <<share, platform, review>>
        /\ IF run.at = "sent" THEN apart' = apart \cup run.inStep ELSE apart' = apart
        /\ run.at # "sent" => run.inStep = {}
        /\ run.inStep \subseteq Connected
    BY <1>1 DEF RunDies, rows, IInv, RunSound, WritesWhatLanded
  <2> QED BY <2>1 DEF IInv, RunSound, ReviewSound, WritesWhatLanded, StoredIsSpent
<1>2. CASE RequestDies
  <2>1. /\ review # None /\ review' = None /\ UNCHANGED <<share, platform, run>>
        /\ apart' = apart \cup review.inStep /\ review.inStep \subseteq Connected
    BY <1>2 DEF RequestDies, rows, IInv, ReviewSound, WritesWhatLanded
  <2> QED BY <2>1 DEF IInv, RunSound, ReviewSound, WritesWhatLanded, StoredIsSpent
<1> QED BY <1>1, <1>2

\* An approval pushes shares whose rows are now waiting to be written.
LEMMA ApproveKeeps ==
    ASSUME IInv, NEW answer, Approve(answer)
    PROVE  IInv'
<1> DEFINE landed == Landed(locked, answer)
           step   == InStep(locked, answer)
           asked  == Attempted(locked) \cap Met(answer, {"taken", "lost"})
           pushed == [c \in landed |-> card.percents[c]]
           w == Changed(share, pushed)
<1>1. /\ review = None /\ run' = Disturbed(run) /\ answer \in [Connected -> Outcomes]
      /\ UNCHANGED share /\ apart' = apart \cup Met(answer, {"lost", "absent"})
      /\ platform' = [c \in Connected |-> IF c \in asked THEN card.percents[c] ELSE platform[c]]
  BY DEF Approve, Pushed, Parts, Answers, rows
<1>2. /\ DOMAIN review' = ReviewFields
      /\ review'.landed = landed /\ review'.inStep = step /\ review'.writes = w
      /\ review'.lockedThen = locked
  BY DEF Approve, ReviewFields
<1>3. /\ RunSound
      /\ run # None <=> run' # None
      /\ run # None => run'.inStep = run.inStep /\ run'.at = run.at
  BY <1>1, RunDisturbed DEF IInv
<1>4. RunSound'
  BY <1>1, RunDisturbed DEF IInv
<1>5. /\ DOMAIN w \subseteq landed
      /\ \A c \in landed : (IF c \in DOMAIN w THEN w[c] ELSE share[c]) = card.percents[c]
  <2>1. DOMAIN pushed = landed /\ \A c \in landed : pushed[c] = card.percents[c]
    OBVIOUS
  <2> HIDE DEF landed, pushed
  <2>2. /\ DOMAIN w \subseteq DOMAIN pushed
        /\ \A c \in DOMAIN pushed : pushed[c] = IF c \in DOMAIN w THEN w[c] ELSE share[c]
    BY ChangedFacts
  <2> QED BY <2>1, <2>2
<1>6. /\ landed \subseteq Channels /\ \A c \in landed : ~locked[c]
      /\ step \subseteq landed \cap Connected
      /\ \A c \in step : c \in asked
      /\ \A c \in Connected \ step : c \notin asked \/ c \in apart'
      /\ (landed \cap Connected) \ step \subseteq apart'
  BY <1>1, LandedFacts
<1> HIDE DEF landed, step, asked, pushed, w
<1>7. review' # None
  BY <1>2, NoneFacts DEF ReviewFields
<1>8. ReviewSound'
  <2>1. \A c \in step : platform'[c] = IF c \in DOMAIN w THEN w[c] ELSE share[c]
    BY <1>1, <1>5, <1>6
  <2> QED BY <1>1, <1>2, <1>5, <1>6, <2>1 DEF ReviewSound, WritesWhatLanded
<1>9. StoredIsSpent'
  <2>1. ASSUME NEW c \in Connected \ apart', c \notin step, ~(run # None /\ c \in run.inStep)
        PROVE  share'[c] = platform'[c]
    <3>1. c \notin asked /\ c \notin apart
      BY <1>1, <1>6, <2>1
    <3>2. share[c] = platform[c]
      BY <1>1, <2>1, <3>1 DEF IInv, StoredIsSpent
    <3> QED BY <1>1, <3>1, <3>2
  <2> QED BY <1>2, <1>3, <1>7, <2>1 DEF StoredIsSpent
<1> QED BY <1>1, <1>4, <1>8, <1>9 DEF IInv

\* The approval's commit.
LEMMA SaveApprovalKeeps ==
    ASSUME IInv, SaveApproval
    PROVE  IInv'
<1>1. /\ review # None /\ review' = None /\ run' = Disturbed(run)
      /\ share' = Write(share, review.writes) /\ platform' = platform
      /\ Saved(review)
  BY DEF SaveApproval
<1>2. /\ RunSound'
      /\ run # None <=> run' # None
      /\ run # None => run'.inStep = run.inStep /\ run'.at = run.at
  BY <1>1, RunDisturbed DEF IInv
<1>3. ReviewSound'
  BY <1>1 DEF ReviewSound
<1>4. WritesWhatLanded(review) /\ DOMAIN share = Channels /\ Connected \subseteq Channels
  BY <1>1, BudgetAssumption DEF IInv, ReviewSound
<1>5. /\ DOMAIN share' = Channels
      /\ \A c \in Channels \ review.landed : share'[c] = share[c]
      /\ \A c \in review.inStep : c \in apart' \/ share'[c] = platform[c]
      /\ \A c \in Connected \ review.inStep : c \in apart => c \in apart'
      /\ \A c \in (review.landed \cap Connected) \ review.inStep : c \in apart'
  BY <1>1, <1>4, SavedFacts
<1>6. StoredIsSpent'
  BY <1>1, <1>2, <1>4, <1>5 DEF IInv, StoredIsSpent
<1> QED BY <1>1, <1>2, <1>3, <1>5, <1>6 DEF IInv

\* Shares set by hand are set apart.
LEMMA EditKeeps ==
    ASSUME IInv, SaveEdit
    PROVE  IInv'
<1>1. /\ run' = Disturbed(run) /\ review' = Disturbed(review)
      /\ share' = Write(share, edit.writes) /\ platform' = platform
      /\ apart' = apart \cup (DOMAIN edit.writes \cap Connected)
  BY DEF SaveEdit
<1>2. /\ RunSound'
      /\ run # None <=> run' # None
      /\ run # None => run'.inStep = run.inStep /\ run'.at = run.at
  BY <1>1, RunDisturbed DEF IInv
<1>3. /\ ReviewSound'
      /\ review # None <=> review' # None
      /\ review # None => review'.inStep = review.inStep
  BY <1>1, ReviewDisturbed DEF IInv
<1>4. DOMAIN share = Channels /\ Connected \subseteq Channels
  BY BudgetAssumption DEF IInv
<1>5. /\ DOMAIN share' = Channels
      /\ \A c \in Channels : c \in DOMAIN edit.writes \/ share'[c] = share[c]
  BY <1>1, <1>4, WriteFacts
<1>6. StoredIsSpent'
  BY <1>1, <1>2, <1>3, <1>4, <1>5 DEF IInv, StoredIsSpent
<1> QED BY <1>1, <1>2, <1>3, <1>5, <1>6 DEF IInv

\* IInv is kept by every step.
LEMMA StepKeeps == IInv /\ [Next]_vars => IInv'
<1> SUFFICES ASSUME IInv, [Next]_vars
             PROVE  IInv'
  OBVIOUS
<1>1. CASE Engine
  BY <1>1, BeginKeeps, PlanKeeps, CommitKeeps, DeathKeeps, SendKeeps DEF Engine
<1>2. CASE Reviewer
  <2>1. CASE Reject
    BY <2>1, OthersKeep DEF Reject, rows
  <2> QED BY <1>2, <2>1, ApproveKeeps, SaveApprovalKeeps, DeathKeeps DEF Reviewer
<1>3. CASE Person
  <2>1. ASSUME NEW c \in Channels, NEW p \in HandShares, OpenEdit(c, p) PROVE IInv'
    BY <2>1, OthersKeep DEF OpenEdit, rows
  <2>2. ASSUME NEW c \in Channels, Unlock(c) PROVE IInv'
    BY <2>2, OthersKeep DEF Unlock
  <2> QED BY <1>3, <2>1, <2>2, EditKeeps DEF Person
<1>4. CASE World
  <2>1. UNCHANGED <<share, platform, run, review, apart>>
    BY <1>4 DEF World, Stop, Resume, Midnight, CoolsDown, rows
  <2> QED BY <2>1, OthersKeep
<1>5. CASE UNCHANGED vars
  BY <1>5, OthersKeep DEF vars, rows
<1> QED BY <1>1, <1>2, <1>3, <1>4, <1>5 DEF Next

\* What a transaction remembers of its pushes stays true, however runs, reviews
\* and edits interleave and whatever is refused or dies.
THEOREM Invariance == Spec => []IInv
<1>1. IInv /\ [Next]_vars => IInv'
  BY StepKeeps
<1> QED BY InitHolds, <1>1, PTL DEF Spec

\* The stored share stays what the platform is spending, after any pushes refused
\* one by one, but for channels whose answer was lost or whose platform was not
\* there, set by hand, pushed by a process that died or written by two at once.
THEOREM StoredSharesAreSpent == Spec => []StoredIsSpent
<1>1. IInv => StoredIsSpent
  BY DEF IInv
<1> QED BY Invariance, <1>1, PTL

\* One step: the share of a locked channel is changed by hand or by a transaction
\* that read its rows before the lock.
LEMMA LockedStep ==
    ASSUME IInv, [Next]_vars, NEW c \in Channels, share'[c] # share[c]
    PROVE  \/ edit # None /\ edit' = None
           \/ run # None /\ run' = None /\ ~run.lockedThen[c]
           \/ review # None /\ review' = None /\ ~review.lockedThen[c]
<1>1. DOMAIN share = Channels
  BY DEF IInv
<1>2. CommitRun \/ SaveApproval \/ SaveEdit
  BY DEF Next, Engine, Reviewer, Person, World, BeginRun, Practise, Queue, RunDies, Send, Approve,
         RequestDies, Reject, OpenEdit, Unlock, Stop, Resume, Midnight, CoolsDown, vars, rows
<1>3. CASE CommitRun
  <2>1. run # None /\ run' = None /\ share' = Write(share, run.writes)
    BY <1>3 DEF CommitRun
  <2>2. c \in DOMAIN run.writes
    BY <1>1, <2>1, WriteFacts
  <2> QED BY <2>1, <2>2 DEF IInv, RunSound, WritesWhatLanded
<1>4. CASE SaveApproval
  <2>1. review # None /\ review' = None /\ share' = Write(share, review.writes)
    BY <1>4 DEF SaveApproval
  <2>2. c \in DOMAIN review.writes
    BY <1>1, <2>1, WriteFacts
  <2> QED BY <2>1, <2>2 DEF IInv, ReviewSound, WritesWhatLanded
<1>5. CASE SaveEdit
  BY <1>5 DEF SaveEdit
<1> QED BY <1>2, <1>3, <1>4, <1>5

\* A share set by hand is not quietly undone: neither the engine nor the approval
\* of a plan made before the lock changes it, unless it had begun by then.
THEOREM HandSetSharesStand == Spec => HandSetShareStands
<1>1. IInv /\ [Next]_vars =>
        [\A c \in Channels :
            locked[c] /\ share'[c] # share[c] =>
                \/ edit # None /\ edit' = None
                \/ run # None /\ run' = None /\ ~run.lockedThen[c]
                \/ review # None /\ review' = None /\ ~review.lockedThen[c]]_vars
  BY LockedStep
<1> QED BY Invariance, <1>1, PTL DEF Spec, HandSetShareStands

-----------------------------------------------------------------------------
(* Types.                                                                   *)

\* What is written has the type of what was there.
LEMMA WriteTyped ==
    ASSUME NEW D, NEW V, NEW f \in [D -> V], NEW g, \A c \in DOMAIN g : g[c] \in V
    PROVE  Write(f, g) \in [D -> V]
BY DEF Write

\* Likewise what is sent of the pushed shares.
LEMMA ChangedTyped ==
    ASSUME NEW before, NEW pushed, NEW V, \A c \in DOMAIN pushed : pushed[c] \in V
    PROVE  \A c \in DOMAIN Changed(before, pushed) : Changed(before, pushed)[c] \in V
BY DEF Changed

\* The shift history stays one.
LEMMA LoggedTyped ==
    ASSUME NEW h \in [Channels -> Moves], NEW plan, NEW landed, NEW a \in [Channels -> CACs], day \in Nat
    PROVE  Logged(h, plan, landed, a) \in [Channels -> Moves]
BY DEF Logged, Moves

\* A pushed plan leaves the platforms with shares.
LEMMA PushedTyped ==
    ASSUME NEW plan \in Plans, NEW L, NEW answer, platform \in [Connected -> Shares],
           Pushed(plan, L, answer)
    PROVE  platform' \in [Connected -> Shares]
<1>1. Connected \subseteq Channels /\ plan.percents \in [Channels -> Shares]
  BY BudgetAssumption DEF Plans
<1> QED BY <1>1 DEF Pushed

\* A plan is one.
LEMMA PlanTyped ==
    ASSUME share \in [Channels -> Shares], NEW a \in [Channels -> CACs]
    PROVE  PlanFor(a) \in Plans
<1> DEFINE p == Allocation(share, a, HeldBack(locked, history, a))
           b == Baseline(share)
<1>1. p \in [Channels -> Shares]
  BY AllocationFacts DEF CACs
<1>2. b \in [Channels -> Shares]
  BY BaselineFacts
<1>3. PlanFor(a) = [percents |-> p, shifts |-> [c \in Channels |-> p[c] - b[c]]]
  BY DEF PlanFor
<1> HIDE DEF p, b
<1>4. \A c \in Channels : p[c] - b[c] \in Int
  BY <1>1, <1>2 DEF Shares, Total
<1> DEFINE d == [c \in Channels |-> p[c] - b[c]]
<1>5. d \in [Channels -> Int]
  BY <1>4
<1> HIDE DEF d
<1>6. PlanFor(a) = [percents |-> p, shifts |-> d]
  BY <1>3 DEF d
<1> QED BY <1>1, <1>5, <1>6, SMTT(60) DEF Plans

\* Being disturbed changes nothing else, and nothing into nothing.
LEMMA DisturbedKeeps ==
    ASSUME NEW t
    PROVE  /\ t = None => Disturbed(t) = None
           /\ t # None => /\ DOMAIN Disturbed(t) = DOMAIN t
                          /\ \A x \in DOMAIN t : x # "alone" => Disturbed(t)[x] = t[x]
<1>1. t # None => Disturbed(t) = [t EXCEPT !["alone"] = FALSE]
  BY DEF Disturbed
<1>2. t # None => DOMAIN Disturbed(t) = DOMAIN t
  BY <1>1
<1>3. t # None => \A x \in DOMAIN t : x # "alone" => Disturbed(t)[x] = t[x]
  BY <1>1
<1> QED BY <1>2, <1>3 DEF Disturbed

\* What is left of a run that was disturbed.
LEMMA RunKeeps ==
    ASSUME RunTyped, run' = run \/ run' = Disturbed(run)
    PROVE  /\ run = None <=> run' = None
           /\ run # None => /\ run'.at = run.at /\ run'.plan = run.plan /\ run'.read = run.read
                            /\ run'.base = run.base /\ run'.lockedThen = run.lockedThen
                            /\ run'.log = run.log /\ run'.ledger = run.ledger
                            /\ run'.writes = run.writes /\ run'.charge = run.charge
                            /\ run'.inStep = run.inStep
                            /\ DOMAIN run' = RunFields
           /\ RunTyped'
<1>1. CASE run = None
  <2>1. run' = None
    BY <1>1, DisturbedKeeps
  <2> QED BY <1>1, <2>1 DEF RunTyped
<1>2. CASE run # None
  <2>1. DOMAIN run = RunFields
    BY <1>2 DEF RunTyped
  <2>2. DOMAIN run' = RunFields /\ \A x \in RunFields : x # "alone" => run'[x] = run[x]
    BY <1>2, <2>1, DisturbedKeeps
  <2>3. /\ run'.at = run.at /\ run'.plan = run.plan /\ run'.read = run.read
        /\ run'.base = run.base /\ run'.lockedThen = run.lockedThen
        /\ run'.log = run.log /\ run'.ledger = run.ledger
        /\ run'.writes = run.writes /\ run'.charge = run.charge
        /\ run'.inStep = run.inStep
    BY <2>2 DEF RunFields
  <2>4. run' # None
    BY <2>2, NoneFacts DEF RunFields
  <2>5. RunTyped'
    BY <1>2, <2>2, <2>3 DEF RunTyped
  <2> QED BY <1>2, <2>2, <2>3, <2>4, <2>5
<1> QED BY <1>1, <1>2

\* And of a review.
LEMMA ReviewKeeps ==
    ASSUME ReviewTyped, review' = review \/ review' = Disturbed(review)
    PROVE  ReviewTyped'
<1>1. CASE review = None
  <2>1. review' = None
    BY <1>1, DisturbedKeeps
  <2> QED BY <2>1 DEF ReviewTyped
<1>2. CASE review # None
  <2>1. DOMAIN review = ReviewFields
    BY <1>2 DEF ReviewTyped
  <2>2. DOMAIN review' = ReviewFields /\ \A x \in ReviewFields : x # "alone" => review'[x] = review[x]
    BY <1>2, <2>1, DisturbedKeeps
  <2>3. review'.log = review.log /\ review'.writes = review.writes /\ review'.inStep = review.inStep
    BY <2>2 DEF ReviewFields
  <2> QED BY <1>2, <2>2, <2>3 DEF ReviewTyped
<1> QED BY <1>1, <1>2

\* The types of what is committed.
CommittedTyped ==
    /\ share \in [Channels -> Shares]
    /\ locked \in [Channels -> BOOLEAN]
    /\ cac \in [Channels -> CACs]
    /\ history \in [Channels -> Moves]
    /\ platform \in [Connected -> Shares]
    /\ card \in Plans \cup {None}
    /\ stopped \in BOOLEAN
    /\ day \in Nat
    /\ charged \in Nat
    /\ sent \in Nat
    /\ unlogged \in Nat
    /\ apart \subseteq Connected

\* The invariant in its parts.
LEMMA TypeParts ==
    /\ TypeInv <=> CommittedTyped /\ RunTyped /\ ReviewTyped /\ EditTyped
    /\ TypeInv' <=> CommittedTyped' /\ RunTyped' /\ ReviewTyped' /\ EditTyped'
BY DEF TypeInv, TypeOK, CommittedTyped, RunTyped, ReviewTyped, EditTyped

\* Everything has its type at the start.
LEMMA InitTyped == Init => TypeInv
<1> SUFFICES ASSUME Init PROVE TypeInv
  OBVIOUS
<1>1. share \in [Channels -> Shares] /\ Connected \subseteq Channels
  BY BudgetAssumption DEF Init
<1>2. CommittedTyped
  BY <1>1 DEF Init, CommittedTyped, CACs, Moves
<1>3. RunTyped /\ ReviewTyped /\ EditTyped
  BY DEF Init, RunTyped, ReviewTyped, EditTyped
<1> QED BY <1>2, <1>3, TypeParts

\* A reading written over the last ones gives CACs.
LEMMA ReadingTyped ==
    ASSUME NEW r \in Readings, cac \in [Channels -> CACs]
    PROVE  /\ Write(cac, r) \in [Channels -> CACs]
           /\ \A c \in DOMAIN r : r[c] \in CACs
<1>1. \A c \in DOMAIN r : r[c] \in CACs
  BY BudgetAssumption
<1> QED BY <1>1, WriteTyped

\* A run that begins.
LEMMA BeginTyped ==
    ASSUME TypeInv, NEW r \in Readings, NEW gate, BeginRun(r, gate)
    PROVE  TypeInv'
<1> DEFINE a == Write(cac, r)
           plan == PlanFor(a)
<1>1. CommittedTyped /\ RunTyped /\ ReviewTyped /\ EditTyped
  BY TypeParts
<1>2. a \in [Channels -> CACs] /\ \A c \in DOMAIN r : r[c] \in CACs
  BY <1>1, ReadingTyped DEF CommittedTyped
<1>3. plan \in Plans
  <2> HIDE DEF a
  <2> QED BY <1>1, <1>2, PlanTyped DEF CommittedTyped
<1>4. /\ review' = review /\ edit' = edit
      /\ cac' = a \/ cac' = cac
      /\ UNCHANGED <<share, locked, history, platform, card, stopped, day, charged, sent, unlogged, apart>>
  BY DEF BeginRun, time
<1>5. \/ run' = None
      \/ /\ DOMAIN run' = RunFields
         /\ run'.plan = plan /\ run'.log = history /\ run'.read = r /\ run'.writes = << >>
         /\ run'.charge = [day |-> day, points |-> 0] /\ run'.ledger = charged
         /\ run'.inStep = {}
  BY DEF BeginRun, RunFields
<1> HIDE DEF a, plan
<1>6. RunTyped'
  BY <1>1, <1>2, <1>3, <1>5 DEF RunTyped, CommittedTyped
<1>7. CommittedTyped'
  BY <1>1, <1>2, <1>4 DEF CommittedTyped
<1>8. ReviewTyped' /\ EditTyped'
  BY <1>1, <1>4, ReviewKeeps DEF EditTyped
<1> QED BY <1>6, <1>7, <1>8, TypeParts

\* A run that practises or queues its plan.
LEMMA PlanTypedOn ==
    ASSUME TypeInv, Practise \/ Queue
    PROVE  TypeInv'
<1>1. CommittedTyped /\ RunTyped /\ ReviewTyped /\ EditTyped
  BY TypeParts
<1>2. /\ run # None /\ review' = review /\ edit' = edit
      /\ UNCHANGED <<share, locked, cac, history, platform, card, stopped, day, charged, sent, unlogged, apart>>
  BY DEF Practise, Queue, Planned, rows, time
<1>3. PICK x : run' = [run EXCEPT !.at = x]
  BY DEF Practise, Queue
<1>4. DOMAIN run = RunFields
  BY <1>1, <1>2 DEF RunTyped
<1>5. /\ DOMAIN run' = RunFields
      /\ run'.plan = run.plan /\ run'.log = run.log /\ run'.read = run.read
      /\ run'.writes = run.writes /\ run'.charge = run.charge /\ run'.ledger = run.ledger
      /\ run'.inStep = run.inStep
  BY <1>3, <1>4 DEF RunFields
<1>6. RunTyped'
  BY <1>1, <1>2, <1>5 DEF RunTyped
<1>7. CommittedTyped'
  BY <1>1, <1>2 DEF CommittedTyped
<1>8. ReviewTyped' /\ EditTyped'
  BY <1>1, <1>2, ReviewKeeps DEF EditTyped
<1> QED BY <1>6, <1>7, <1>8, TypeParts

\* A run that sends its plan.
LEMMA SendTyped ==
    ASSUME TypeInv, NEW answer, Send(answer)
    PROVE  TypeInv'
<1> DEFINE landed == Landed(locked, answer)
           failed == Failures(answer) # {}
           points == Points(run.plan.shifts)
           pushed == [c \in landed |-> run.plan.percents[c]]
           log    == Logged(run.log, run.plan, landed, Write(cac, run.read))
           writes == Changed(share, pushed)
           charge == [day |-> day, points |-> IF failed THEN 0 ELSE points]
<1>1. CommittedTyped /\ RunTyped /\ ReviewTyped /\ EditTyped
  BY TypeParts
<1>2. /\ run # None /\ review' = Disturbed(review) /\ edit' = edit
      /\ UNCHANGED <<share, locked, cac, history, card, stopped, day, charged>>
      /\ Pushed(run.plan, locked, answer) /\ Parts(answer)
      /\ sent' = sent + points
      /\ unlogged' = IF failed THEN unlogged + 1 ELSE unlogged
  BY DEF Send, Planned, rows
<1>3. DOMAIN run = RunFields /\ run.plan \in Plans /\ run.log \in [Channels -> Moves]
      /\ run.ledger \in Nat /\ \A c \in DOMAIN run.read : run.read[c] \in CACs
  BY <1>1, <1>2 DEF RunTyped
<1>4. /\ DOMAIN run' = RunFields
      /\ run'.plan = run.plan /\ run'.read = run.read /\ run'.ledger = run.ledger
      /\ run'.log = log /\ run'.writes = writes /\ run'.charge = charge
      /\ run'.inStep = InStep(locked, answer)
  BY <1>2, <1>3 DEF Send, RunFields
<1>5. points \in Nat
  <2>1. run.plan.shifts \in [Channels -> Int]
    BY <1>3 DEF Plans
  <2> QED BY <2>1, PointsFacts
<1>6. log \in [Channels -> Moves]
  <2>1. Write(cac, run.read) \in [Channels -> CACs] /\ day \in Nat
    BY <1>1, <1>3, WriteTyped DEF CommittedTyped
  <2> QED BY <1>3, <2>1, LoggedTyped
<1>7. \A c \in DOMAIN writes : writes[c] \in Shares
  <2>1. landed \subseteq Channels /\ run.plan.percents \in [Channels -> Shares]
    BY <1>3 DEF Landed, Attempted, Plans
  <2>2. \A c \in DOMAIN pushed : pushed[c] \in Shares
    BY <2>1
  <2> HIDE DEF pushed
  <2> QED BY <2>2, ChangedTyped
<1>8. platform' \in [Connected -> Shares]
  BY <1>1, <1>2, <1>3, PushedTyped DEF CommittedTyped
<1>9. charge \in [day : Nat, points : Nat]
  BY <1>1, <1>5 DEF CommittedTyped
<1>13. InStep(locked, answer) \subseteq Connected /\ apart' \subseteq Connected
  BY <1>1, <1>2 DEF InStep, Met, Parts, CommittedTyped
<1> HIDE DEF landed, failed, points, pushed, log, writes, charge
<1>10. RunTyped'
  BY <1>3, <1>4, <1>6, <1>7, <1>9, <1>13 DEF RunTyped
<1>11. CommittedTyped'
  BY <1>1, <1>2, <1>5, <1>8, <1>13 DEF CommittedTyped
<1>12. ReviewTyped' /\ EditTyped'
  BY <1>1, <1>2, ReviewKeeps DEF EditTyped
<1> QED BY <1>10, <1>11, <1>12, TypeParts

\* The engine's commit.
LEMMA CommitTyped ==
    ASSUME TypeInv, CommitRun
    PROVE  TypeInv'
<1>1. CommittedTyped /\ RunTyped /\ ReviewTyped /\ EditTyped
  BY TypeParts
<1>2. /\ run # None /\ run' = None /\ edit' = edit
      /\ review' = review \/ review' = Disturbed(review)
      /\ cac' = Write(cac, run.read) /\ share' = Write(share, run.writes)
      /\ history' = IF run.at = "sent" THEN run.log ELSE history
      /\ card' = IF run.at = "queued" THEN run.plan ELSE card
      /\ charged' = IF run.charge.day = day THEN charged + run.charge.points ELSE charged
      /\ UNCHANGED <<locked, platform, stopped, day, sent, unlogged>>
  BY DEF CommitRun
<1>3. /\ run.plan \in Plans /\ run.log \in [Channels -> Moves]
      /\ \A c \in DOMAIN run.read : run.read[c] \in CACs
      /\ \A c \in DOMAIN run.writes : run.writes[c] \in Shares
      /\ run.charge.points \in Nat
  BY <1>1, <1>2 DEF RunTyped
<1>4. cac' \in [Channels -> CACs] /\ share' \in [Channels -> Shares]
  BY <1>1, <1>2, <1>3, WriteTyped DEF CommittedTyped
<1>5. apart' \subseteq Connected
  BY <1>1 DEF CommitRun, Saved, CommittedTyped
<1>6. CommittedTyped'
  BY <1>1, <1>2, <1>3, <1>4, <1>5 DEF CommittedTyped
<1>7. RunTyped'
  BY <1>2 DEF RunTyped
<1>8. ReviewTyped' /\ EditTyped'
  BY <1>1, <1>2, ReviewKeeps DEF EditTyped
<1> QED BY <1>6, <1>7, <1>8, TypeParts

\* A process that dies.
LEMMA DeathTyped ==
    ASSUME TypeInv, RunDies \/ RequestDies
    PROVE  TypeInv'
<1>1. CommittedTyped /\ RunTyped /\ ReviewTyped /\ EditTyped
  BY TypeParts
<1>2. /\ edit' = edit
      /\ run' = None \/ run' = run
      /\ review' = None \/ review' = review
      /\ UNCHANGED <<share, locked, cac, history, platform, card, stopped, day, charged, sent>>
      /\ unlogged' \in {unlogged, unlogged + 1} /\ apart' \subseteq Connected
  BY <1>1 DEF RunDies, RequestDies, rows, time, CommittedTyped, RunTyped, ReviewTyped
<1>3. CommittedTyped'
  BY <1>1, <1>2 DEF CommittedTyped
<1>4. RunTyped' /\ ReviewTyped' /\ EditTyped'
  BY <1>1, <1>2 DEF RunTyped, ReviewTyped, EditTyped
<1> QED BY <1>3, <1>4, TypeParts

\* An approval.
LEMMA ApproveTyped ==
    ASSUME TypeInv, NEW answer, Approve(answer)
    PROVE  TypeInv'
<1> DEFINE landed == Landed(locked, answer)
           pushed == [c \in landed |-> card.percents[c]]
           log    == Logged(history, card, landed, cac)
           writes == Changed(share, pushed)
<1>1. CommittedTyped /\ RunTyped /\ ReviewTyped /\ EditTyped
  BY TypeParts
<1>2. /\ run' = Disturbed(run) /\ edit' = edit /\ card # None
      /\ UNCHANGED <<share, locked, cac, history, card, stopped, day, charged, sent, unlogged>>
      /\ Pushed(card, locked, answer) /\ Parts(answer)
  BY DEF Approve, rows, time
<1>3. card \in Plans
  BY <1>1, <1>2 DEF CommittedTyped
<1>4. /\ DOMAIN review' = ReviewFields /\ review'.log = log /\ review'.writes = writes
      /\ review'.inStep = InStep(locked, answer)
  BY DEF Approve, ReviewFields
<1>5. log \in [Channels -> Moves]
  BY <1>1, LoggedTyped DEF CommittedTyped
<1>6. \A c \in DOMAIN writes : writes[c] \in Shares
  <2>1. landed \subseteq Channels /\ card.percents \in [Channels -> Shares]
    BY <1>3 DEF Landed, Attempted, Plans
  <2>2. \A c \in DOMAIN pushed : pushed[c] \in Shares
    BY <2>1
  <2> HIDE DEF pushed
  <2> QED BY <2>2, ChangedTyped
<1>7. platform' \in [Connected -> Shares]
  BY <1>1, <1>2, <1>3, PushedTyped DEF CommittedTyped
<1>11. InStep(locked, answer) \subseteq Connected /\ apart' \subseteq Connected
  BY <1>1, <1>2 DEF InStep, Met, Parts, CommittedTyped
<1> HIDE DEF landed, pushed, log, writes
<1>8. ReviewTyped'
  BY <1>4, <1>5, <1>6, <1>11 DEF ReviewTyped
<1>9. CommittedTyped'
  BY <1>1, <1>2, <1>7, <1>11 DEF CommittedTyped
<1>10. RunTyped' /\ EditTyped'
  BY <1>1, <1>2, RunKeeps DEF EditTyped
<1> QED BY <1>8, <1>9, <1>10, TypeParts

\* Its commit.
LEMMA SaveApprovalTyped ==
    ASSUME TypeInv, SaveApproval
    PROVE  TypeInv'
<1>1. CommittedTyped /\ RunTyped /\ ReviewTyped /\ EditTyped
  BY TypeParts
<1>2. /\ review # None /\ review' = None /\ run' = Disturbed(run) /\ edit' = edit
      /\ share' = Write(share, review.writes) /\ history' = review.log
      /\ card' = IF review.done THEN None ELSE card
      /\ UNCHANGED <<locked, cac, platform, stopped, day, charged, sent, unlogged>>
  BY DEF SaveApproval, time
<1>3. review.log \in [Channels -> Moves] /\ \A c \in DOMAIN review.writes : review.writes[c] \in Shares
  BY <1>1, <1>2 DEF ReviewTyped
<1>4. share' \in [Channels -> Shares]
  BY <1>1, <1>2, <1>3, WriteTyped DEF CommittedTyped
<1>5. apart' \subseteq Connected
  BY <1>1 DEF SaveApproval, Saved, CommittedTyped
<1>6. CommittedTyped'
  BY <1>1, <1>2, <1>3, <1>4, <1>5 DEF CommittedTyped
<1>7. ReviewTyped'
  BY <1>2 DEF ReviewTyped
<1>8. RunTyped' /\ EditTyped'
  BY <1>1, <1>2, RunKeeps DEF EditTyped
<1> QED BY <1>6, <1>7, <1>8, TypeParts

\* A person opens an edit: everybody's part of the rest is a share.
LEMMA OpenEditTyped ==
    ASSUME TypeInv, NEW c \in Channels, NEW p \in HandShares, OpenEdit(c, p)
    PROVE  TypeInv'
<1> DEFINE target == Total - p - Sum(share, Fixed(c))
           rest   == Distributed(share, Movable(c), target)
           set    == [d \in Movable(c) \cup {c} |-> IF d = c THEN p ELSE rest[d]]
<1>1. CommittedTyped /\ RunTyped /\ ReviewTyped /\ EditTyped
  BY TypeParts
<1>2. /\ edit'.writes = Changed(share, set)
      /\ Settable(c, p)
      /\ UNCHANGED <<share, locked, cac, history, platform, card, stopped, day, charged, sent, unlogged,
                     run, review, apart>>
  BY DEF OpenEdit, rows, time
<1>3. p \in Shares
  BY BudgetAssumption
<1>4. target \in Shares
  <2>1. Fixed(c) \in SUBSET Channels
    BY DEF Fixed
  <2>2. Sum(share, Fixed(c)) \in Nat
    BY <1>1, <2>1, LeftFacts DEF CommittedTyped
  <2>3. target >= 0
    BY <1>2 DEF Settable
  <2> QED BY <1>3, <2>2, <2>3 DEF Shares, Total
<1>5. \A d \in Movable(c) : rest[d] \in Shares
  <2>1. Movable(c) \in SUBSET Channels
    BY DEF Movable
  <2> HIDE DEF target
  <2> QED BY <1>1, <1>4, <2>1, DistributedFacts DEF CommittedTyped
<1>6. \A d \in DOMAIN set : set[d] \in Shares
  <2> HIDE DEF rest
  <2> QED BY <1>3, <1>5
<1>7. EditTyped'
  <2> HIDE DEF set
  <2>1. \A d \in DOMAIN edit'.writes : edit'.writes[d] \in Shares
    BY <1>2, <1>6, ChangedTyped
  <2> QED BY <2>1 DEF EditTyped
<1>8. CommittedTyped' /\ RunTyped' /\ ReviewTyped'
  BY <1>1, <1>2, RunKeeps, ReviewKeeps DEF CommittedTyped
<1> QED BY <1>7, <1>8, TypeParts

\* What a person saves.
LEMMA SaveEditTyped ==
    ASSUME TypeInv, SaveEdit
    PROVE  TypeInv'
<1>1. CommittedTyped /\ RunTyped /\ ReviewTyped /\ EditTyped
  BY TypeParts
<1>2. /\ edit # None /\ edit' = None /\ run' = Disturbed(run) /\ review' = Disturbed(review)
      /\ share' = Write(share, edit.writes)
      /\ locked' = [locked EXCEPT ![edit.channel] = TRUE]
      /\ apart' = apart \cup (DOMAIN edit.writes \cap Connected)
      /\ UNCHANGED <<cac, history, platform, card, stopped, day, charged, sent, unlogged>>
  BY DEF SaveEdit, time
<1>3. share' \in [Channels -> Shares]
  BY <1>1, <1>2, WriteTyped DEF CommittedTyped, EditTyped
<1>4. CommittedTyped'
  BY <1>1, <1>2, <1>3 DEF CommittedTyped
<1>5. RunTyped' /\ ReviewTyped' /\ EditTyped'
  BY <1>1, <1>2, RunKeeps, ReviewKeeps DEF EditTyped
<1> QED BY <1>4, <1>5, TypeParts

\* Steps that touch no transaction.
LEMMA OthersTyped ==
    ASSUME TypeInv, Reject \/ (\E c \in Channels : Unlock(c)) \/ World \/ UNCHANGED vars
    PROVE  TypeInv'
<1>1. CommittedTyped /\ RunTyped /\ ReviewTyped /\ EditTyped
  BY TypeParts
<1>2. UNCHANGED <<run, review, edit>>
  BY DEF Reject, Unlock, World, Stop, Resume, Midnight, CoolsDown, vars
<1>3. RunTyped' /\ ReviewTyped' /\ EditTyped'
  BY <1>1, <1>2, RunKeeps, ReviewKeeps DEF EditTyped
<1>4. CommittedTyped'
  <2>1. CASE Reject \/ UNCHANGED vars
    BY <1>1, <2>1 DEF CommittedTyped, Reject, vars, rows, time
  <2>2. ASSUME NEW c \in Channels, Unlock(c) PROVE CommittedTyped'
    BY <1>1, <2>2 DEF CommittedTyped, Unlock, time
  <2>3. ASSUME NEW c \in Channels, CoolsDown(c) PROVE CommittedTyped'
    BY <1>1, <2>3 DEF CommittedTyped, CoolsDown, Moves, rows, time
  <2>5. CASE Stop \/ Resume
    <3>1. stopped' \in BOOLEAN
      BY <2>5 DEF Stop, Resume
    <3> QED BY <1>1, <2>5, <3>1 DEF CommittedTyped, Stop, Resume, rows, time
  <2>6. CASE Midnight
    BY <1>1, <2>6 DEF CommittedTyped, Midnight, rows
  <2> QED BY <2>1, <2>2, <2>3, <2>5, <2>6 DEF World
<1> QED BY <1>3, <1>4, TypeParts

\* TypeInv is kept by every step.
LEMMA TypeStep == TypeInv /\ [Next]_vars => TypeInv'
<1> SUFFICES ASSUME TypeInv, [Next]_vars
             PROVE  TypeInv'
  OBVIOUS
<1>1. CASE Engine
  BY <1>1, BeginTyped, PlanTypedOn, SendTyped, CommitTyped, DeathTyped DEF Engine
<1>2. CASE Reviewer
  BY <1>2, ApproveTyped, SaveApprovalTyped, DeathTyped, OthersTyped DEF Reviewer
<1>3. CASE Person
  BY <1>3, OpenEditTyped, SaveEditTyped, OthersTyped DEF Person
<1>4. CASE World \/ UNCHANGED vars
  BY <1>4, OthersTyped
<1> QED BY <1>1, <1>2, <1>3, <1>4 DEF Next

\* Every variable keeps its type, and every transaction what it will write.
THEOREM TypeInvariance == Spec => []TypeInv
BY InitTyped, TypeStep, PTL DEF Spec

\* The shares stay percentages, the plans plans and the CACs numbers, through any
\* allocation, reading, edit and failure.
THEOREM TypeCorrect == Spec => []TypeOK
<1>1. TypeInv => TypeOK
  BY DEF TypeInv
<1> QED BY TypeInvariance, <1>1, PTL

-----------------------------------------------------------------------------
(* The day's limit.                                                         *)

\* Nothing was sent or charged at the start.
LEMMA InitLedger == Init => LedgerHolds
<1> SUFFICES ASSUME Init PROVE LedgerHolds
  OBVIOUS
<1>1. DayLimit \in Nat /\ DayLimit * 0 = 0
  BY BudgetAssumption
<1> QED BY <1>1 DEF Init, LedgerHolds, Pending

\* What the ledger's part of the invariant speaks of has its type.
LEMMA LedgerTyped ==
    ASSUME TypeInv
    PROVE  /\ charged \in Nat /\ sent \in Nat /\ unlogged \in Nat /\ day \in Nat
           /\ DayLimit \in Nat /\ DayLimit * unlogged \in Nat
           /\ DayLimit * (unlogged + 1) = DayLimit * unlogged + DayLimit
           /\ DayLimit * (1 + unlogged) = DayLimit * unlogged + DayLimit
           /\ Pending \in Nat
           /\ run # None => /\ run.charge.points \in Nat /\ run.charge.day \in Nat
                            /\ run.ledger \in Nat /\ run.plan \in Plans
                            /\ DOMAIN run = RunFields
<1>1. charged \in Nat /\ sent \in Nat /\ unlogged \in Nat /\ day \in Nat
  BY DEF TypeInv, TypeOK
<1>2. DayLimit \in Nat
  BY BudgetAssumption
<1>3. run # None => /\ run.charge.points \in Nat /\ run.charge.day \in Nat
                    /\ run.ledger \in Nat /\ run.plan \in Plans /\ DOMAIN run = RunFields
  BY DEF TypeInv, RunTyped
<1>4. Pending \in Nat
  BY <1>3 DEF Pending
<1>5. /\ DayLimit * unlogged \in Nat
      /\ DayLimit * (unlogged + 1) = DayLimit * unlogged + DayLimit
      /\ DayLimit * (1 + unlogged) = DayLimit * unlogged + DayLimit
  BY <1>1, <1>2
<1> QED BY <1>1, <1>2, <1>3, <1>4, <1>5

\* Steps that leave the ledger and the run's charge alone.
LEMMA LedgerStays ==
    ASSUME TypeInv, LedgerHolds, UNCHANGED <<day, charged, sent, unlogged>>,
           run' = run \/ run' = Disturbed(run)
    PROVE  LedgerHolds'
<1>1. /\ run = None <=> run' = None
      /\ run # None => run'.at = run.at /\ run'.ledger = run.ledger /\ run'.charge = run.charge
  BY RunKeeps DEF TypeInv
<1> QED BY <1>1 DEF LedgerHolds, Pending

\* A run that begins has read today's ledger.
LEMMA LedgerBegins ==
    ASSUME TypeInv, LedgerHolds, NEW r \in Readings, NEW gate, BeginRun(r, gate)
    PROVE  LedgerHolds'
<1>1. run = None /\ UNCHANGED <<day, charged, sent, unlogged>>
  BY DEF BeginRun, time
<1>2. \/ run' = None
      \/ /\ run'.at = "planned" /\ run'.ledger = charged
         /\ run'.charge = [day |-> day, points |-> 0]
  BY <1>1 DEF BeginRun
<1>3. Pending = 0
  BY <1>1 DEF Pending
<1>4. Pending' = 0
  BY <1>1, <1>2 DEF Pending
<1>5. charged <= charged /\ day <= day /\ charged \in Nat /\ day \in Nat
  BY LedgerTyped
<1> QED BY <1>1, <1>2, <1>3, <1>4, <1>5 DEF LedgerHolds

\* A run that practises or queues charges nothing.
LEMMA LedgerPlans ==
    ASSUME TypeInv, LedgerHolds, Practise \/ Queue
    PROVE  LedgerHolds'
<1>1. run # None /\ run.at = "planned" /\ UNCHANGED <<day, charged, sent, unlogged>>
  BY DEF Practise, Queue, Planned, time
<1>2. PICK x \in {"done", "queued"} : run' = [run EXCEPT !.at = x]
  BY DEF Practise, Queue
<1>3. DOMAIN run = RunFields
  BY <1>1, LedgerTyped
<1>4. run'.at \in {"done", "queued"} /\ run'.charge = run.charge /\ "alone" \in DOMAIN run'
  BY <1>2, <1>3 DEF RunFields
<1>5. run' # None
  BY <1>4, NoneFacts
<1> QED BY <1>1, <1>4, <1>5 DEF LedgerHolds, Pending

\* What is sent goes on the ledger with the run, or is counted as a send that the
\* ledger does not show; the run had read no less than the ledger shows.
LEMMA LedgerSends ==
    ASSUME TypeInv, LedgerHolds, NEW answer, Send(answer)
    PROVE  LedgerHolds'
<1> DEFINE points == Points(run.plan.shifts)
           failed == Failures(answer) # {}
<1>1. /\ run # None /\ run.at = "planned" /\ UNCHANGED <<day, charged>>
      /\ ~OverLimit(points, run.ledger)
      /\ sent' = sent + points
      /\ unlogged' = IF failed THEN unlogged + 1 ELSE unlogged
  BY DEF Send, Planned
<1>2. /\ charged \in Nat /\ sent \in Nat /\ unlogged \in Nat /\ day \in Nat
      /\ DayLimit \in Nat /\ DayLimit * unlogged \in Nat
      /\ DayLimit * (unlogged + 1) = DayLimit * unlogged + DayLimit
      /\ run.ledger \in Nat /\ run.plan \in Plans /\ DOMAIN run = RunFields
  BY <1>1, LedgerTyped
<1>3. /\ run'.at = "sent" /\ "alone" \in DOMAIN run'
      /\ run'.charge = [day |-> day, points |-> IF failed THEN 0 ELSE points]
  BY <1>2 DEF Send, RunFields
<1>4. run' # None
  BY <1>3, NoneFacts
<1>5. points \in Nat
  BY <1>2, PointsFacts DEF Plans
<1> HIDE DEF points, failed
<1>6. charged + points <= DayLimit /\ points <= DayLimit
  BY <1>1, <1>2, <1>5 DEF OverLimit, LedgerHolds
<1>7. Pending = 0
  BY <1>1 DEF LedgerHolds, Pending
<1>8. charged <= DayLimit /\ sent <= charged + DayLimit * unlogged
  BY <1>2, <1>7 DEF LedgerHolds
<1>9. CASE ~failed
  <2>1. Pending' = points
    BY <1>1, <1>3, <1>4, <1>9 DEF Pending
  <2>2. sent' <= charged' + Pending' + DayLimit * unlogged'
    <3> DEFINE x == DayLimit * unlogged
    <3>1. x \in Nat /\ sent <= charged + x /\ sent' = sent + points /\ unlogged' = unlogged /\ charged' = charged
      BY <1>1, <1>2, <1>8, <1>9
    <3> HIDE DEF x
    <3>2. sent' <= charged' + Pending' + x
      BY <1>2, <1>5, <2>1, <3>1
    <3> QED BY <3>1, <3>2 DEF x
  <2> QED BY <1>1, <1>2, <1>3, <1>6, <2>1, <2>2 DEF LedgerHolds
<1>10. CASE failed
  <2>1. Pending' = 0
    BY <1>1, <1>3, <1>4, <1>10 DEF Pending
  <2>2. sent' <= charged' + Pending' + DayLimit * unlogged'
    <3> DEFINE x == DayLimit * unlogged
    <3>1. /\ x \in Nat /\ sent <= charged + x /\ sent' = sent + points /\ charged' = charged
          /\ DayLimit * unlogged' = x + DayLimit
      BY <1>1, <1>2, <1>8, <1>10
    <3> HIDE DEF x
    <3> QED BY <1>2, <1>5, <1>6, <2>1, <3>1
  <2> QED BY <1>1, <1>2, <1>3, <1>8, <2>1, <2>2 DEF LedgerHolds
<1> QED BY <1>9, <1>10

\* The commit moves the charge to the ledger of its day; a run that dies with one
\* of today becomes a send that the ledger does not show.
LEMMA LedgerEnds ==
    ASSUME TypeInv, LedgerHolds, CommitRun \/ RunDies
    PROVE  LedgerHolds'
<1>1. run # None /\ run' = None /\ UNCHANGED <<day, sent>>
  BY DEF CommitRun, RunDies
<1>2. /\ charged \in Nat /\ sent \in Nat /\ unlogged \in Nat /\ day \in Nat
      /\ DayLimit \in Nat /\ DayLimit * unlogged \in Nat
      /\ DayLimit * (unlogged + 1) = DayLimit * unlogged + DayLimit
      /\ run.charge.points \in Nat /\ run.charge.day \in Nat /\ Pending \in Nat
  BY <1>1, LedgerTyped
<1>3. Pending' = 0
  BY <1>1 DEF Pending
<1>4. CASE CommitRun
  <2>1. charged' = charged + Pending /\ unlogged' = unlogged
    BY <1>1, <1>2, <1>4 DEF CommitRun, Pending
  <2> QED BY <1>1, <1>2, <1>3, <2>1 DEF LedgerHolds
<1>5. CASE RunDies
  <2>1. charged' = charged
    BY <1>5 DEF RunDies
  <2>2. \/ unlogged' = unlogged /\ Pending = 0
        \/ unlogged' = unlogged + 1
    <3>1. unlogged' = unlogged + 1 \/ Pending = 0
      BY <1>1, <1>2, <1>5 DEF RunDies, Pending, LedgerHolds
    <3>2. unlogged' \in {unlogged, unlogged + 1}
      BY <1>5 DEF RunDies
    <3> QED BY <3>1, <3>2
  <2> DEFINE x == DayLimit * unlogged
  <2>3. charged + Pending <= DayLimit /\ sent <= charged + Pending + x /\ x \in Nat
    BY <1>2 DEF LedgerHolds
  <2>4. \/ DayLimit * unlogged' = x /\ Pending = 0
        \/ DayLimit * unlogged' = x + DayLimit
    BY <1>2, <2>2
  <2> HIDE DEF x
  <2>5. sent' <= charged' + Pending' + DayLimit * unlogged' /\ charged' + Pending' <= DayLimit
    BY <1>1, <1>2, <1>3, <2>1, <2>3, <2>4
  <2> QED BY <1>1, <2>5 DEF LedgerHolds
<1> QED BY <1>4, <1>5

\* Midnight: nothing that was charged or sent is of the new day.
LEMMA LedgerTurns ==
    ASSUME TypeInv, LedgerHolds, Midnight
    PROVE  LedgerHolds'
<1>1. day' = day + 1 /\ charged' = 0 /\ sent' = 0 /\ unlogged' = 0 /\ run' = run
  BY DEF Midnight
<1>2. /\ day \in Nat /\ DayLimit \in Nat
      /\ run # None => run.charge.day \in Nat /\ run.ledger \in Nat /\ run.charge.day <= day
  BY LedgerTyped DEF LedgerHolds
<1>3. Pending' = 0
  BY <1>1, <1>2 DEF Pending
<1>4. DayLimit * unlogged' = 0
  BY <1>1, <1>2
<1> QED BY <1>1, <1>2, <1>3, <1>4 DEF LedgerHolds

\* LedgerHolds is kept by every step.
LEMMA LedgerStep == TypeInv /\ LedgerHolds /\ [Next]_vars => LedgerHolds'
<1> SUFFICES ASSUME TypeInv, LedgerHolds, [Next]_vars
             PROVE  LedgerHolds'
  OBVIOUS
<1>1. CASE Engine
  BY <1>1, LedgerBegins, LedgerPlans, LedgerSends, LedgerEnds DEF Engine
<1>2. CASE Reviewer
  <2>1. UNCHANGED <<day, charged, sent, unlogged>> /\ (run' = run \/ run' = Disturbed(run))
    BY <1>2 DEF Reviewer, Approve, SaveApproval, RequestDies, Reject, time
  <2> QED BY <2>1, LedgerStays
<1>3. CASE Person
  <2>1. UNCHANGED <<day, charged, sent, unlogged>> /\ (run' = run \/ run' = Disturbed(run))
    BY <1>3 DEF Person, OpenEdit, SaveEdit, Unlock, time
  <2> QED BY <2>1, LedgerStays
<1>4. CASE World \/ UNCHANGED vars
  <2>1. Midnight \/ UNCHANGED <<day, charged, sent, unlogged, run>>
    BY <1>4 DEF World, Stop, Resume, CoolsDown, vars, time
  <2> QED BY <2>1, LedgerTurns, LedgerStays
<1> QED BY <1>1, <1>2, <1>3, <1>4 DEF Next

\* The day's limit holds, for any limit, any plans and any interleaving of runs
\* with midnights, stops and modes: what the engine sends in a day
\* without a person is within it, but for sends the ledger could not show, each of
\* which is within it by itself.
THEOREM DayLimitHolds == Spec => []MovedWithinLimit
<1>1. TypeInv /\ LedgerHolds => MovedWithinLimit
  <2> SUFFICES ASSUME TypeInv, LedgerHolds PROVE MovedWithinLimit
    OBVIOUS
  <2> DEFINE x == DayLimit * unlogged
  <2>1. /\ charged \in Nat /\ sent \in Nat /\ Pending \in Nat /\ DayLimit \in Nat /\ x \in Nat
        /\ DayLimit * (1 + unlogged) = x + DayLimit
    BY LedgerTyped
  <2>2. charged + Pending <= DayLimit /\ sent <= charged + Pending + x
    BY DEF LedgerHolds
  <2> HIDE DEF x
  <2> QED BY <2>1, <2>2 DEF MovedWithinLimit
<1> QED BY InitLedger, LedgerStep, TypeInvariance, <1>1, PTL DEF Spec

-----------------------------------------------------------------------------
(* Plans.                                                                   *)

\* A run plans soundly: what it reads is what the allocator's promises are about.
LEMMA BeginSound ==
    ASSUME TypeInv, N <= 15, NEW r \in Readings, NEW gate, BeginRun(r, gate)
    PROVE  PlanSound'
<1> DEFINE a    == Write(cac, r)
           held == HeldBack(locked, history, a)
           p    == Allocation(share, a, held)
<1>1. share \in [Channels -> Shares] /\ a \in [Channels -> CACs]
  BY ReadingTyped DEF TypeInv, TypeOK
<1>2. SoundPlan(p, share, held, a)
  <2>1. \A c \in Channels : a[c] \in Nat
    BY <1>1 DEF CACs
  <2> HIDE DEF a, held
  <2> QED BY <1>1, <2>1, AllocationFacts
<1>3. CASE run' = None
  BY <1>3 DEF PlanSound
<1>4. CASE run' # None
  <2>1. /\ run'.plan = PlanFor(a) /\ run'.base = share /\ run'.lockedThen = locked /\ run'.log = history
        /\ run'.read = r /\ cac' = cac
    BY <1>4 DEF BeginRun
  <2>2. PlanFor(a).percents = p
    BY DEF PlanFor
  <2> HIDE DEF p
  <2> QED BY <1>2, <2>1, <2>2 DEF PlanSound
<1> QED BY <1>3, <1>4

\* While it waits to be sent nothing it was made from changes.
LEMMA PlanStays ==
    ASSUME TypeInv, PlanSound, cac' = cac, run' = run \/ run' = Disturbed(run)
    PROVE  PlanSound'
<1>1. /\ run = None <=> run' = None
      /\ run # None => /\ run'.at = run.at /\ run'.plan = run.plan /\ run'.read = run.read
                       /\ run'.base = run.base /\ run'.lockedThen = run.lockedThen
                       /\ run'.log = run.log
  BY RunKeeps DEF TypeInv
<1> QED BY <1>1 DEF PlanSound

\* PlanSound is kept by every step.
LEMMA PlanStep == N <= 15 /\ TypeInv /\ PlanSound /\ [Next]_vars => PlanSound'
<1> SUFFICES ASSUME N <= 15, TypeInv, PlanSound, [Next]_vars
             PROVE  PlanSound'
  OBVIOUS
<1>1. CASE Engine
  <2>1. ASSUME NEW answer, Send(answer) PROVE PlanSound'
    <3>1. run # None /\ DOMAIN run = RunFields
      BY <2>1 DEF Send, Planned, TypeInv, RunTyped
    <3>2. run'.at = "sent"
      BY <2>1, <3>1 DEF Send, RunFields
    <3> QED BY <3>2 DEF PlanSound
  <2>2. CASE Practise \/ Queue
    <3>1. run # None /\ DOMAIN run = RunFields
      BY <2>2 DEF Practise, Queue, Planned, TypeInv, RunTyped
    <3>2. run'.at # "planned"
      BY <2>2, <3>1 DEF Practise, Queue, RunFields
    <3> QED BY <3>2 DEF PlanSound
  <2>3. CASE CommitRun \/ RunDies
    <3>1. run' = None
      BY <2>3 DEF CommitRun, RunDies
    <3> QED BY <3>1 DEF PlanSound
  <2> QED BY <1>1, <2>1, <2>2, <2>3, BeginSound DEF Engine
<1>2. CASE Reviewer
  <2>1. cac' = cac /\ (run' = run \/ run' = Disturbed(run))
    BY <1>2 DEF Reviewer, Approve, SaveApproval, RequestDies, Reject, rows
  <2> QED BY <2>1, PlanStays
<1>3. CASE Person
  <2>1. cac' = cac /\ (run' = run \/ run' = Disturbed(run))
    BY <1>3 DEF Person, OpenEdit, SaveEdit, Unlock, rows
  <2> QED BY <2>1, PlanStays
<1>4. CASE World \/ UNCHANGED vars
  <2>1. cac' = cac /\ run' = run
    BY <1>4 DEF World, Stop, Resume, Midnight, CoolsDown, vars, rows
  <2> QED BY <2>1, PlanStays
<1> QED BY <1>1, <1>2, <1>3, <1>4 DEF Next

\* Every plan of up to fifteen channels is sound, whatever the split, the CACs, the
\* locks and the cooldowns; the code has six (AdChannel).  Fifteen is what keeps
\* the rounding of the baseline from being off by more than its largest share.
THEOREM PlansAreSound == N <= 15 => (Spec => []PlanSound)
<1> SUFFICES ASSUME N <= 15 PROVE Spec => []PlanSound
  OBVIOUS
<1>1. Init => PlanSound
  BY DEF Init, PlanSound
<1>2. TypeInv /\ PlanSound /\ [Next]_vars => PlanSound'
  BY PlanStep
<1> QED BY <1>1, <1>2, TypeInvariance, PTL DEF Spec

=============================================================================
