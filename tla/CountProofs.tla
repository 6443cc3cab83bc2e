----------------------------- MODULE CountProofs -----------------------------
(***************************************************************************)
(* NeverOvercounted of the state file, for any number of workers, tokens   *)
(* and saves, with any number of workers that merge at once.               *)
(***************************************************************************)
EXTENDS LedgerProofs

(***************************************************************************)
(* A sum of natural numbers d[w] over the workers of W is the size of a    *)
(* set of pairs with a column of d[w] for each of them.                    *)
(***************************************************************************)
Pairs(d, W) == {p \in W \X (1..MaxTokens) : p[2] <= d[p[1]]}
Count(d, W) == Cardinality(Pairs(d, W))

Counts == [Worker -> Int]

LEMMA PairsAreFinite ==
  ASSUME NEW d, NEW W \in SUBSET Worker
  PROVE  IsFiniteSet(Pairs(d, W)) /\ Count(d, W) \in Nat
<1>1. IsFiniteSet(Worker) /\ IsFiniteSet(1..MaxTokens)
  BY StateFileAssumption, FS_Interval DEF Worker
<1>2. IsFiniteSet(W) BY <1>1, FS_Subset
<1>3. IsFiniteSet(W \X (1..MaxTokens)) BY <1>1, <1>2, FS_Product
<1>4. Pairs(d, W) \subseteq W \X (1..MaxTokens) BY DEF Pairs
<1> QED BY <1>3, <1>4, FS_Subset, FS_CardinalityType DEF Count

\* A sum over fewer workers is not larger.
LEMMA CountOfFewer ==
  ASSUME NEW d, NEW V \in SUBSET Worker, NEW W \in SUBSET V
  PROVE  Count(d, W) <= Count(d, V)
<1>1. Pairs(d, W) \subseteq Pairs(d, V) BY DEF Pairs
<1> QED BY <1>1, PairsAreFinite, FS_Subset DEF Count

\* A sum grows by n at most if one of its numbers does and the others do not.
LEMMA CountGrows ==
  ASSUME NEW d \in Counts, NEW e \in Counts, NEW W \in SUBSET Worker, NEW w, NEW n \in {0, 1},
         \A v \in W : e[v] <= d[v] + (IF v = w THEN n ELSE 0)
  PROVE  Count(e, W) <= Count(d, W) + n
<1> DEFINE D == Pairs(d, W)
           E == Pairs(e, W)
<1>1. IsFiniteSet(D) /\ IsFiniteSet(E) /\ Cardinality(D) \in Nat /\ Cardinality(E) \in Nat
  BY PairsAreFinite DEF Count
<1>2. CASE n = 0
  <2>1. \A v \in W : e[v] <= d[v] BY <1>2 DEF Counts
  <2>2. E \subseteq D
    <3> SUFFICES ASSUME NEW p \in E PROVE p \in D OBVIOUS
    <3>1. p \in W \X (1..MaxTokens) /\ p[2] <= e[p[1]] BY DEF Pairs
    <3>2. p[1] \in W /\ p[2] \in 1..MaxTokens BY <3>1
    <3>3. p[2] <= d[p[1]] BY <2>1, <3>1, <3>2 DEF Counts
    <3> QED BY <3>1, <3>3 DEF Pairs
  <2>3. Cardinality(E) <= Cardinality(D) BY <1>1, <2>2, FS_Subset
  <2> HIDE DEF D, E
  <2>4. Cardinality(E) <= Cardinality(D) + n BY <1>1, <1>2, <2>3
  <2> QED BY <2>4 DEF Count, D, E
<1>3. CASE n = 1
  <2> DEFINE x == <<w, e[w]>>
  <2>1. E \subseteq D \cup {x}
    <3> SUFFICES ASSUME NEW p \in E PROVE p \in D \/ p = x OBVIOUS
    <3>1. p \in W \X (1..MaxTokens) /\ p[2] <= e[p[1]] BY DEF Pairs
    <3>2. p[1] \in W /\ p[2] \in 1..MaxTokens /\ p = <<p[1], p[2]>> BY <3>1
    <3>3. d[p[1]] \in Int /\ e[p[1]] \in Int BY <3>2 DEF Counts
    <3>4. CASE p[2] <= d[p[1]] BY <3>1, <3>4 DEF Pairs
    <3>5. CASE ~(p[2] <= d[p[1]])
      <4>1. p[1] = w
        <5> SUFFICES ASSUME p[1] # w PROVE FALSE OBVIOUS
        <5>1. e[p[1]] <= d[p[1]] BY <3>2, <3>3
        <5> QED BY <3>1, <3>2, <3>3, <3>5, <5>1
      <4>2. e[p[1]] <= d[p[1]] + 1 BY <1>3, <3>2, <4>1
      <4>3. p[2] = e[p[1]] BY <3>1, <3>2, <3>3, <3>5, <4>2
      <4> QED BY <3>2, <4>1, <4>3
    <3> QED BY <3>4, <3>5
  <2> HIDE DEF D, E, x
  <2>2. IsFiniteSet(D \cup {x}) /\ Cardinality(D \cup {x}) <= Cardinality(D) + 1
    <3> DEFINE m == Cardinality(D)
               c == Cardinality(D \cup {x})
    <3>1. IsFiniteSet(D \cup {x}) /\ (c = m \/ c = m + 1) BY <1>1, FS_AddElement
    <3>2. m \in Nat BY <1>1
    <3> HIDE DEF m, c
    <3>3. c <= m + 1 BY <3>1, <3>2
    <3> QED BY <3>1, <3>3 DEF m, c
  <2>3. Cardinality(E) <= Cardinality(D \cup {x}) /\ Cardinality(D \cup {x}) \in Nat
    BY <2>1, <2>2, FS_Subset, FS_CardinalityType
  <2>4. Cardinality(E) <= Cardinality(D) + n BY <1>1, <1>3, <2>2, <2>3
  <2> QED BY <2>4 DEF Count, D, E
<1> QED BY <1>2, <1>3

\* One number taken out of a sum.
LEMMA CountWithout ==
  ASSUME NEW d \in Counts, NEW w \in Worker, d[w] \in 0..MaxTokens
  PROVE  Count(d, Worker) = Count(d, Worker \ {w}) + d[w]
<1> DEFINE A == Pairs(d, Worker \ {w})
           B == {w} \X (1..d[w])
<1>1. d[w] \in Nat /\ MaxTokens \in Nat BY StateFileAssumption
<1>2. IsFiniteSet(A) BY PairsAreFinite
<1>3. IsFiniteSet(B) /\ Cardinality(B) = d[w]
  <2> DEFINE m == d[w]
  <2>1. 1 \in Int /\ m \in Int /\ 1 <= m + 1 /\ m - 1 + 1 = m BY <1>1
  <2> HIDE DEF m
  <2>2. IsFiniteSet({w} \X (1..m)) /\ Cardinality({w} \X (1..m)) = m - 1 + 1 BY <2>1, Column
  <2>3. IsFiniteSet({w} \X (1..m)) /\ Cardinality({w} \X (1..m)) = m BY <2>1, <2>2
  <2> QED BY <2>3 DEF m
<1>4. A \cap B = {} BY DEF Pairs
<1>5. Pairs(d, Worker) = A \cup B
  <2>1. ASSUME NEW p \in Pairs(d, Worker) PROVE p \in A \/ p \in B
    <3>1. p \in Worker \X (1..MaxTokens) /\ p[2] <= d[p[1]] BY DEF Pairs
    <3>2. p[1] \in Worker /\ p[2] \in 1..MaxTokens /\ p = <<p[1], p[2]>> BY <3>1
    <3>3. CASE p[1] = w
      <4>1. p[2] \in 1..d[w] BY <1>1, <3>1, <3>2, <3>3
      <4> QED BY <3>2, <3>3, <4>1
    <3>4. CASE p[1] # w
      <4>1. p \in (Worker \ {w}) \X (1..MaxTokens) BY <3>2, <3>4
      <4> QED BY <3>1, <4>1 DEF Pairs
    <3> QED BY <3>3, <3>4
  <2>2. A \subseteq Pairs(d, Worker) BY DEF Pairs
  <2>3. B \subseteq Pairs(d, Worker)
    <3> SUFFICES ASSUME NEW i \in 1..d[w] PROVE <<w, i>> \in Pairs(d, Worker) OBVIOUS
    <3>1. i \in 1..MaxTokens /\ i <= d[w] BY <1>1
    <3> QED BY <3>1 DEF Pairs
  <2> QED BY <2>1, <2>2, <2>3
<1> QED BY <1>2, <1>3, <1>4, <1>5, DisjointUnion DEF Count

\* A sum of numbers that are not positive is zero, as the pairs count it.
LEMMA CountNothing ==
  ASSUME NEW d \in Counts, NEW W \in SUBSET Worker, \A v \in W : d[v] <= 0
  PROVE  Count(d, W) = 0
<1>1. Pairs(d, W) = {}
  <2> SUFFICES ASSUME NEW p \in Pairs(d, W) PROVE FALSE OBVIOUS
  <2>1. p \in W \X (1..MaxTokens) /\ p[2] <= d[p[1]] BY DEF Pairs
  <2>2. p[1] \in W /\ p[2] \in 1..MaxTokens BY <2>1
  <2>3. d[p[1]] \in Int /\ d[p[1]] <= 0 BY <2>2 DEF Counts
  <2> QED BY <2>1, <2>2, <2>3
<1> QED BY <1>1, FS_EmptySet DEF Count

(***************************************************************************)
(* What a released worker has delivered since its snapshot is in no ledger *)
(* but its own, until its merge is on disk.  A ledger fits when it holds   *)
(* no more than was delivered even if all of that is added to it, in its   *)
(* open cycle and in all.                                                  *)
(***************************************************************************)
\* of a ledger l, if the workers of W still have f[w] tokens to add in all and
\* g[s][w] to the cycle that started at s, and total tokens were delivered
FitsAt(l, W, f, g, total) ==
    /\ l.start <= total /\ (l.start = NoCycle => l.tokens = 0)
    /\ l.days + Count(f, W) <= total
    /\ l.closed + l.tokens + Count(f, W) <= total
    /\ l.start # NoCycle => l.tokens + Count(g[l.start], W) <= total - l.start + 1

CycleCounts == [1..MaxTokens -> Counts]

LEMMA CyclesCounted ==
  ASSUME NEW l \in Ledger
  PROVE  /\ l.start \in Nat /\ l.tokens \in Nat /\ l.closed \in Nat /\ l.days \in Nat
         /\ l.start # NoCycle => l.start \in 1..MaxTokens
BY StateFileAssumption DEF Ledger, NoCycle

\* A ledger fits for fewer workers too.
LEMMA FitsFewer ==
  ASSUME NEW l \in Ledger, NEW V \in SUBSET Worker, NEW W \in SUBSET V,
         NEW f \in Counts, NEW g \in CycleCounts, NEW total \in Nat, FitsAt(l, V, f, g, total)
  PROVE  FitsAt(l, W, f, g, total)
<1>1. /\ l.start \in Nat /\ l.tokens \in Nat /\ l.closed \in Nat /\ l.days \in Nat
      /\ l.start # NoCycle => l.start \in 1..MaxTokens
  BY CyclesCounted
<1>2. Count(f, W) <= Count(f, V) /\ Count(f, W) \in Nat /\ Count(f, V) \in Nat
  BY CountOfFewer, PairsAreFinite
<1>3. /\ Count(g[l.start], W) <= Count(g[l.start], V)
      /\ Count(g[l.start], W) \in Nat /\ Count(g[l.start], V) \in Nat
  BY CountOfFewer, PairsAreFinite
<1>4. l.days + Count(f, W) <= total /\ l.closed + l.tokens + Count(f, W) <= total
  BY <1>1, <1>2 DEF FitsAt
<1>5. l.start # NoCycle => l.tokens + Count(g[l.start], W) <= total - l.start + 1
  BY <1>1, <1>3 DEF FitsAt
<1> QED BY <1>4, <1>5 DEF FitsAt

\* A ledger that nobody touches fits on, if each token that is to be added was
\* delivered just now.
LEMMA StillFits ==
  ASSUME NEW l \in Ledger, NEW W \in SUBSET Worker, NEW f \in Counts, NEW h \in Counts,
         NEW g \in CycleCounts, NEW k \in CycleCounts, NEW n \in {0, 1}, NEW w, NEW total \in Nat,
         NEW after, after = total + n,
         FitsAt(l, W, f, g, total),
         \A v \in W : h[v] <= f[v] + (IF v = w THEN n ELSE 0),
         \A s \in 1..MaxTokens : s <= total =>
           \A v \in W : k[s][v] <= g[s][v] + (IF v = w THEN n ELSE 0)
  PROVE  FitsAt(l, W, h, k, after)
<1>1. /\ l.start \in Nat /\ l.tokens \in Nat /\ l.closed \in Nat /\ l.days \in Nat
      /\ l.start # NoCycle => l.start \in 1..MaxTokens
  BY CyclesCounted
<1>2. Count(h, W) <= Count(f, W) + n /\ Count(h, W) \in Nat /\ Count(f, W) \in Nat
  BY CountGrows, PairsAreFinite
<1>3. l.days + Count(h, W) <= after /\ l.closed + l.tokens + Count(h, W) <= after
  BY <1>1, <1>2 DEF FitsAt
<1>4. l.start <= after /\ (l.start = NoCycle => l.tokens = 0)
  BY <1>1 DEF FitsAt
<1>5. ASSUME l.start # NoCycle
      PROVE  l.tokens + Count(k[l.start], W) <= after - l.start + 1
  <2> DEFINE s == l.start
             d == g[s]
             e == k[s]
  <2>1. s \in 1..MaxTokens /\ s <= total BY <1>1, <1>5 DEF FitsAt
  <2>2. d \in Counts /\ e \in Counts BY <2>1 DEF CycleCounts
  <2>3. \A v \in W : e[v] <= d[v] + (IF v = w THEN n ELSE 0) BY <2>1
  <2>4. l.tokens + Count(d, W) <= total - s + 1 BY <1>5 DEF FitsAt
  <2> HIDE DEF s, d, e
  <2>5. Count(e, W) <= Count(d, W) + n /\ Count(e, W) \in Nat /\ Count(d, W) \in Nat
    BY <2>2, <2>3, CountGrows, PairsAreFinite
  <2>6. l.tokens + Count(e, W) <= after - s + 1 BY <1>1, <2>1, <2>4, <2>5
  <2> QED BY <2>6 DEF s, e
<1> QED BY <1>3, <1>4, <1>5 DEF FitsAt

\* And so it does if none is to be added.
LEMMA FitsOn ==
  ASSUME NEW l \in Ledger, NEW W \in SUBSET Worker, NEW f \in Counts, NEW h \in Counts,
         NEW g \in CycleCounts, NEW k \in CycleCounts, NEW total \in Nat,
         FitsAt(l, W, f, g, total), \A v \in W : h[v] <= f[v],
         \A s \in 1..MaxTokens : s <= total => \A v \in W : k[s][v] <= g[s][v]
  PROVE  FitsAt(l, W, h, k, total)
<1>1. \A v \in W : h[v] <= f[v] + (IF v = NoCycle THEN 0 ELSE 0)
  <2> SUFFICES ASSUME NEW v \in W PROVE h[v] <= f[v] + 0 OBVIOUS
  <2>1. f[v] \in Int /\ h[v] <= f[v] BY DEF Counts
  <2> QED BY <2>1
<1>2. \A s \in 1..MaxTokens : s <= total =>
        \A v \in W : k[s][v] <= g[s][v] + (IF v = NoCycle THEN 0 ELSE 0)
  <2> SUFFICES ASSUME NEW s \in 1..MaxTokens, s <= total, NEW v \in W
               PROVE  k[s][v] <= g[s][v] + 0
    OBVIOUS
  <2>1. g[s] \in Counts /\ v \in Worker BY DEF CycleCounts
  <2>2. g[s][v] \in Int /\ k[s][v] <= g[s][v] BY <2>1 DEF Counts
  <2> QED BY <2>2
<1>3. 0 \in {0, 1} /\ total = total + 0 OBVIOUS
<1> QED BY <1>1, <1>2, <1>3, StillFits

\* The ledger of the worker that delivers, which has nothing to add to itself.
LEMMA AccruedFits ==
  ASSUME NEW l \in Ledger, NEW W \in SUBSET Worker, NEW f \in Counts, NEW h \in Counts,
         NEW g \in CycleCounts, NEW k \in CycleCounts, NEW total \in Nat, total < MaxTokens,
         NEW after, after = total + 1,
         FitsAt(l, W, f, g, total), \A v \in W : h[v] <= f[v],
         \A s \in 1..MaxTokens : s <= total => \A v \in W : k[s][v] <= g[s][v],
         \A v \in W : k[after][v] <= 0
  PROVE  FitsAt(Accrued(l, after), W, h, k, after)
<1> DEFINE a == Accrued(l, after)
<1>1. /\ l.start \in Nat /\ l.tokens \in Nat /\ l.closed \in Nat /\ l.days \in Nat
      /\ l.start # NoCycle => l.start \in 1..MaxTokens
  BY CyclesCounted
<1>2. /\ a.start = IF l.start = NoCycle THEN after ELSE l.start
      /\ a.tokens = l.tokens + 1 /\ a.closed = l.closed /\ a.days = l.days + 1
  BY DEF Accrued, Ledger
<1> HIDE DEF a
<1>3. FitsAt(l, W, h, k, total) BY FitsOn
<1>4. Count(h, W) \in Nat BY PairsAreFinite
<1>5. a.days + Count(h, W) <= after /\ a.closed + a.tokens + Count(h, W) <= after
  BY <1>1, <1>2, <1>3, <1>4 DEF FitsAt
<1>6. a.start <= after /\ a.start # NoCycle BY <1>1, <1>2, <1>3 DEF FitsAt, NoCycle
<1>7. a.tokens + Count(k[a.start], W) <= after - a.start + 1
  <2>1. CASE l.start = NoCycle
    <3>1. after \in 1..MaxTokens BY StateFileAssumption
    <3>2. k[after] \in Counts BY <3>1 DEF CycleCounts
    <3>3. Count(k[after], W) = 0 BY <3>2, CountNothing
    <3>4. a.tokens = 1 /\ a.start = after BY <1>2, <1>3, <2>1 DEF FitsAt
    <3> QED BY <3>3, <3>4
  <2>2. CASE l.start # NoCycle
    <3>1. a.start = l.start /\ l.tokens + Count(k[l.start], W) <= total - l.start + 1
      BY <1>2, <1>3, <2>2 DEF FitsAt
    <3>2. Count(k[l.start], W) \in Nat BY PairsAreFinite
    <3> QED BY <1>1, <1>2, <3>1, <3>2
  <2> QED BY <2>1, <2>2
<1> QED BY <1>5, <1>6, <1>7 DEF FitsAt, a

LEMMA ClosedFits ==
  ASSUME NEW l \in Ledger, NEW W \in SUBSET Worker, NEW f, NEW g, NEW total \in Nat,
         FitsAt(l, W, f, g, total)
  PROVE  FitsAt(Closed(l), W, f, g, total)
<1> DEFINE c == Closed(l)
<1>1. l.tokens \in Nat /\ l.closed \in Nat /\ l.days \in Nat BY CyclesCounted
<1>2. c.start = NoCycle /\ c.tokens = 0 /\ c.closed = l.closed + l.tokens /\ c.days = l.days
  BY DEF Closed, Ledger
<1>3. Count(f, W) \in Nat BY PairsAreFinite
<1> HIDE DEF c
<1>4. c.start <= total BY <1>2 DEF NoCycle
<1>5. c.closed + c.tokens = l.closed + l.tokens BY <1>1, <1>2
<1>6. FitsAt(c, W, f, g, total) BY <1>2, <1>4, <1>5 DEF FitsAt
<1> QED BY <1>6 DEF c

LEMMA EmptyFits ==
  ASSUME NEW l \in Ledger, NEW W \in SUBSET Worker, NEW f, NEW g, NEW total \in Nat,
         FitsAt(l, W, f, g, total)
  PROVE  FitsAt(EmptyLedger, W, f, g, total)
<1>1. l.days \in Nat /\ Count(f, W) \in Nat BY CyclesCounted, PairsAreFinite
<1>2. Count(f, W) <= total BY <1>1 DEF FitsAt
<1> QED BY <1>1, <1>2 DEF FitsAt, EmptyLedger, NoCycle

\* What the merge of a worker writes: the ledger on disk, with what the worker
\* had to add to it.
LEMMA MergedFits ==
  ASSUME NEW base \in Ledger, NEW before \in Ledger, NEW after \in Ledger, NEW w \in Worker,
         NEW f \in Counts, NEW g \in CycleCounts, NEW total \in Nat, NEW delta \in Nat,
         FitsAt(base, Worker, f, g, total),
         f[w] = after.days - before.days, f[w] \in 0..MaxTokens, delta <= f[w],
         delta = IF before.start = after.start THEN after.tokens - before.tokens ELSE after.tokens,
         after.start # NoCycle => g[after.start][w] = delta
  PROVE  FitsAt(MergeDelta(base, before, after), Worker \ {w}, f, g, total)
<1> DEFINE m == MergeDelta(base, before, after)
           V == Worker \ {w}
           same == base.start # NoCycle /\ base.start = after.start
<1>1. /\ base.start \in Nat /\ base.tokens \in Nat /\ base.closed \in Nat /\ base.days \in Nat
      /\ base.start # NoCycle => base.start \in 1..MaxTokens
  BY CyclesCounted
<1>2. PositiveOr0(delta) = delta /\ PositiveOr0(after.days - before.days) = f[w]
  BY DEF PositiveOr0
<1>3. m = [base EXCEPT !.tokens = IF same THEN @ + delta ELSE @, !.days = @ + f[w]]
  BY <1>2 DEF MergeDelta
<1>4. /\ m.start = base.start /\ m.closed = base.closed /\ m.days = base.days + f[w]
      /\ m.tokens = IF same THEN base.tokens + delta ELSE base.tokens
  <2> HIDE DEF same, m
  <2> QED BY <1>3 DEF Ledger
<1>5. Count(f, Worker) = Count(f, V) + f[w] BY CountWithout
<1>6. Count(f, V) \in Nat /\ f[w] \in Nat BY PairsAreFinite
<1>7. base.start <= total /\ (base.start = NoCycle => base.tokens = 0) BY DEF FitsAt
<1>8. base.days + Count(f, Worker) <= total /\ base.closed + base.tokens + Count(f, Worker) <= total
  BY DEF FitsAt
<1>9. base.start # NoCycle => base.tokens + Count(g[base.start], Worker) <= total - base.start + 1
  BY DEF FitsAt
<1> HIDE DEF m, V
<1>10. m.days + Count(f, V) <= total /\ m.closed + m.tokens + Count(f, V) <= total
  BY <1>1, <1>4, <1>5, <1>6, <1>8
<1>11. m.start # NoCycle => m.tokens + Count(g[m.start], V) <= total - m.start + 1
  <2> SUFFICES ASSUME base.start # NoCycle
               PROVE  m.tokens + Count(g[base.start], V) <= total - base.start + 1
    BY <1>4
  <2> DEFINE d == g[base.start]
  <2>1. d \in Counts BY <1>1 DEF CycleCounts
  <2>2. base.tokens + Count(d, Worker) <= total - base.start + 1 BY <1>9
  <2>3. Count(d, V) \in Nat /\ Count(d, Worker) \in Nat /\ Count(d, V) <= Count(d, Worker)
    BY PairsAreFinite, CountOfFewer DEF V
  <2>4. CASE same
    <3>1. d[w] = delta /\ d[w] \in 0..MaxTokens BY <2>4, StateFileAssumption
    <3> HIDE DEF d
    <3>2. Count(d, Worker) = Count(d, V) + delta BY <2>1, <3>1, CountWithout DEF V
    <3>3. m.tokens = base.tokens + delta BY <1>4, <2>4
    <3>4. m.tokens + Count(d, V) <= total - base.start + 1 BY <1>1, <2>2, <2>3, <3>2, <3>3
    <3> QED BY <3>4 DEF d
  <2>5. CASE ~same
    <3>1. m.tokens = base.tokens BY <1>4, <2>5
    <3> HIDE DEF d
    <3>2. m.tokens + Count(d, V) <= total - base.start + 1 BY <1>1, <2>2, <2>3, <3>1
    <3> QED BY <3>2 DEF d
  <2> QED BY <2>4, <2>5
<1>12. m.start = NoCycle => m.tokens = 0 BY <1>4, <1>7
<1>13. FitsAt(m, V, f, g, total) BY <1>4, <1>7, <1>10, <1>11, <1>12 DEF FitsAt
<1> QED BY <1>13 DEF m, V

\* A worker that has nothing to add does not matter.
LEMMA FitsAgain ==
  ASSUME NEW l \in Ledger, NEW w \in Worker, NEW f \in Counts, NEW g \in CycleCounts,
         NEW total \in Nat, FitsAt(l, Worker \ {w}, f, g, total), f[w] = 0,
         \A s \in 1..MaxTokens : g[s][w] = 0
  PROVE  FitsAt(l, Worker, f, g, total)
<1>1. l.start # NoCycle => l.start \in 1..MaxTokens BY CyclesCounted
<1>2. \A d \in Counts : d[w] = 0 => Count(d, Worker) = Count(d, Worker \ {w})
  <2> SUFFICES ASSUME NEW d \in Counts, d[w] = 0
               PROVE  Count(d, Worker) = Count(d, Worker \ {w})
    OBVIOUS
  <2>1. Count(d, Worker) = Count(d, Worker \ {w}) + d[w] BY StateFileAssumption, CountWithout
  <2>2. Count(d, Worker \ {w}) \in Nat BY PairsAreFinite
  <2> QED BY <2>1, <2>2
<1>3. Count(f, Worker) = Count(f, Worker \ {w}) BY <1>2
<1>4. l.start # NoCycle => Count(g[l.start], Worker) = Count(g[l.start], Worker \ {w})
  BY <1>1, <1>2 DEF CycleCounts
<1> QED BY <1>3, <1>4 DEF FitsAt

(***************************************************************************)
(* The invariant                                                           *)
(***************************************************************************)
\* released, and not merged: the worker has a snapshot, and may have more
Owes(w) == stage[w] \in {"drained", "merging"}
OwedBy(w) == book[w].days - flushed[w].days

\* what its merge would add to the cycle that it has open
CycleDelta(w) == IF book[w].start = flushed[w].start THEN book[w].tokens - flushed[w].tokens
                                                     ELSE book[w].tokens

Owed == [w \in Worker |-> IF Owes(w) THEN OwedBy(w) ELSE 0]
OwedIn == [s \in 1..MaxTokens |->
            [w \in Worker |-> IF Owes(w) /\ book[w].start = s THEN CycleDelta(w) ELSE 0]]

Fits(l, W) == FitsAt(l, W, Owed, OwedIn, clock)

\* whose tokens a worker's own ledger, and what it writes, cannot hold
Apart(w) == IF Owes(w) THEN Worker \ {w} ELSE Worker

Snapshots == \A w \in Worker : Owes(w) =>
    /\ flushed[w].start <= clock /\ (flushed[w].start = NoCycle => flushed[w].tokens = 0)
    /\ CycleDelta(w) \in 0..OwedBy(w)

CountInv ==
    /\ Fits(disk.ledger, Worker)
    /\ \A w \in Worker :
         /\ Fits(book[w], Apart(w))
         /\ \A i \in DOMAIN chain[w] : Fits(chain[w][i].ledger, Apart(w))
         /\ stage[w] = "drained" => chain[w] = <<>>
    /\ Snapshots

LEMMA OwedTypes ==
  ASSUME StateTypeOK
  PROVE  Owed \in Counts /\ OwedIn \in CycleCounts
<1>1. \A w \in Worker : OwedBy(w) \in Int /\ CycleDelta(w) \in Int
  BY CyclesCounted DEF StateTypeOK, OwedBy, CycleDelta
<1>2. Owed \in Counts BY <1>1 DEF Owed, Counts
<1>3. ASSUME NEW s \in 1..MaxTokens PROVE OwedIn[s] \in Counts BY <1>1 DEF OwedIn, Counts
<1> QED BY <1>2, <1>3 DEF CycleCounts, OwedIn

\* Nobody owes less than nothing, nor more than was delivered.
LEMMA OwedBounds ==
  ASSUME StateTypeOK, CountInv, NEW w \in Worker
  PROVE  /\ Owed[w] \in 0..MaxTokens /\ \A s \in 1..MaxTokens : OwedIn[s][w] >= 0
         /\ Owes(w) => OwedBy(w) \in 0..MaxTokens /\ CycleDelta(w) \in 0..OwedBy(w)
<1>1. OwedBy(w) \in Int /\ CycleDelta(w) \in Int /\ book[w] \in Ledger /\ flushed[w] \in Ledger
  BY CyclesCounted DEF StateTypeOK, OwedBy, CycleDelta
<1>2. book[w].days \in Nat /\ flushed[w].days \in Nat BY <1>1, CyclesCounted
<1>3. clock \in Nat /\ clock <= MaxTokens BY StateFileAssumption DEF StateTypeOK
<1>4. book[w].days <= clock
  <2>1. Count(Owed, Apart(w)) \in Nat BY PairsAreFinite DEF Apart
  <2>2. book[w].days + Count(Owed, Apart(w)) <= clock BY DEF CountInv, Fits, FitsAt
  <2> QED BY <1>2, <1>3, <2>1, <2>2
<1>5. OwedBy(w) <= MaxTokens BY <1>2, <1>3, <1>4, StateFileAssumption DEF OwedBy
<1>6. Owes(w) => CycleDelta(w) \in 0..OwedBy(w) BY DEF CountInv, Snapshots
<1>7. Owes(w) => OwedBy(w) \in 0..MaxTokens BY <1>1, <1>5, <1>6
<1>8. Owed[w] = IF Owes(w) THEN OwedBy(w) ELSE 0 BY DEF Owed
<1>9. \A s \in 1..MaxTokens :
        OwedIn[s][w] = IF Owes(w) /\ book[w].start = s THEN CycleDelta(w) ELSE 0
  BY DEF OwedIn
<1>10. \A s \in 1..MaxTokens : OwedIn[s][w] >= 0 BY <1>1, <1>6, <1>9
<1> QED BY <1>6, <1>7, <1>8, <1>10, StateFileAssumption

\* One worker takes a step in which nothing is delivered.
LEMMA OneTurn ==
  ASSUME StateTypeOK, StateTypeOK', CountInv, NEW w \in Worker, clock' = clock,
         \A v \in Worker \ {w} : /\ stage'[v] = stage[v] /\ book'[v] = book[v]
                                 /\ flushed'[v] = flushed[v] /\ chain'[v] = chain[v],
         \/ Fits(disk'.ledger, Worker)
         \/ Fits(disk'.ledger, Worker \ {w}) /\ ~Owes(w)',
         Fits(book'[w], Apart(w)'),
         \A i \in DOMAIN chain'[w] : Fits(chain'[w][i].ledger, Apart(w)'),
         stage'[w] = "drained" => chain'[w] = <<>>,
         \/ ~Owes(w)'
         \/ Owes(w) /\ flushed'[w] = flushed[w] /\ book'[w] \in {book[w], Closed(book[w])}
         \/ flushed'[w] = book'[w]
  PROVE  CountInv'
<1> USE DEF Owes
<1>1. /\ Owed \in Counts /\ OwedIn \in CycleCounts /\ Owed' \in Counts /\ OwedIn' \in CycleCounts
      /\ clock \in Nat
  <2>1. (StateTypeOK => Owed \in Counts /\ OwedIn \in CycleCounts)' BY OwedTypes, PTL
  <2>2. Owed' \in Counts /\ OwedIn' \in CycleCounts BY <2>1 DEF Counts, CycleCounts, Worker
  <2>3. clock \in Nat BY StateFileAssumption DEF StateTypeOK
  <2> QED BY OwedTypes, <2>2, <2>3
<1>2. /\ disk'.ledger \in Ledger
      /\ \A v \in Worker : book'[v] \in Ledger /\ flushed'[v] \in Ledger /\ chain'[v] \in Seq(Job)
  BY DEF StateTypeOK
<1>3. \A v \in Worker : \A i \in DOMAIN chain'[v] : chain'[v][i].ledger \in Ledger
  <2> SUFFICES ASSUME NEW v \in Worker, NEW i \in DOMAIN chain'[v]
               PROVE  chain'[v][i].ledger \in Ledger
    OBVIOUS
  <2>1. chain'[v][i] \in Job BY <1>2, ElementOfSeq, LenProperties
  <2> QED BY <2>1 DEF Job
<1>4. Snapshots'
  <2> SUFFICES ASSUME NEW v \in Worker, Owes(v)'
               PROVE  /\ flushed'[v].start <= clock
                      /\ flushed'[v].start = NoCycle => flushed'[v].tokens = 0
                      /\ CycleDelta(v)' \in 0..(OwedBy(v))'
    BY DEF Snapshots
  <2>1. CASE v # w
    <3>1. Owes(v) /\ CycleDelta(v)' = CycleDelta(v) /\ OwedBy(v)' = OwedBy(v) /\ flushed'[v] = flushed[v]
      BY <2>1 DEF CycleDelta, OwedBy
    <3> QED BY <3>1 DEF CountInv, Snapshots
  <2>2. CASE v = w /\ flushed'[w] = book'[w]
    <3>1. /\ book'[w].start <= clock /\ (book'[w].start = NoCycle => book'[w].tokens = 0)
      BY DEF Fits, FitsAt
    <3>2. book'[w].tokens \in Nat /\ book'[w].days \in Nat BY <1>2, CyclesCounted
    <3>3. CycleDelta(w)' = 0 /\ OwedBy(w)' = 0 BY <2>2, <3>2 DEF CycleDelta, OwedBy
    <3> QED BY <2>2, <3>1, <3>3
  <2>3. CASE v = w /\ Owes(w) /\ flushed'[w] = flushed[w] /\ book'[w] = book[w]
    <3>1. CycleDelta(w)' = CycleDelta(w) /\ OwedBy(w)' = OwedBy(w)
      BY <2>3 DEF CycleDelta, OwedBy
    <3> QED BY <2>3, <3>1 DEF CountInv, Snapshots
  <2>4. CASE v = w /\ Owes(w) /\ flushed'[w] = flushed[w] /\ book'[w] = Closed(book[w])
    <3>1. /\ flushed[w].start <= clock /\ (flushed[w].start = NoCycle => flushed[w].tokens = 0)
          /\ CycleDelta(w) \in 0..OwedBy(w)
      BY <2>4 DEF CountInv, Snapshots
    <3>2. book[w] \in Ledger /\ flushed[w] \in Ledger BY DEF StateTypeOK
    <3>3. /\ Closed(book[w]).start = NoCycle /\ Closed(book[w]).tokens = 0
          /\ Closed(book[w]).days = book[w].days
      BY <3>2 DEF Closed, Ledger
    <3>4. OwedBy(w)' = OwedBy(w) BY <2>4, <3>3 DEF OwedBy
    <3>5. CycleDelta(w)' = 0 BY <2>4, <3>1, <3>3 DEF CycleDelta
    <3>6. OwedBy(w) \in Int BY <3>2, CyclesCounted DEF OwedBy
    <3> QED BY <2>4, <3>1, <3>4, <3>5, <3>6
  <2> QED BY <2>1, <2>2, <2>3, <2>4
<1>5. \A v \in Worker : Owed'[v] <= Owed[v]
  <2> SUFFICES ASSUME NEW v \in Worker PROVE Owed'[v] <= Owed[v] OBVIOUS
  <2>1. /\ Owed[v] = IF Owes(v) THEN OwedBy(v) ELSE 0
        /\ Owed'[v] = IF Owes(v)' THEN OwedBy(v)' ELSE 0
    BY DEF Owed
  <2>2. Owed[v] \in Nat BY OwedBounds, StateFileAssumption
  <2>3. CASE v # w
    <3>1. Owed'[v] = Owed[v] BY <2>1, <2>3 DEF OwedBy
    <3> QED BY <2>2, <3>1
  <2>4. CASE ~Owes(v)' BY <2>1, <2>2, <2>4
  <2>5. CASE v = w /\ Owes(w) /\ flushed'[w] = flushed[w] /\ book'[w] \in {book[w], Closed(book[w])}
    <3>1. Closed(book[w]).days = book[w].days BY DEF Closed, Ledger, StateTypeOK
    <3>2. OwedBy(v)' = OwedBy(v) BY <2>5, <3>1 DEF OwedBy
    <3> QED BY <2>1, <2>2, <2>5, <3>2
  <2>6. CASE v = w /\ flushed'[w] = book'[w]
    <3>1. book'[w].days \in Nat BY <1>2, CyclesCounted
    <3>2. OwedBy(v)' = 0 BY <2>6, <3>1 DEF OwedBy
    <3> QED BY <2>1, <2>2, <3>2
  <2> QED BY <2>3, <2>4, <2>5, <2>6
<1>6. ASSUME NEW s \in 1..MaxTokens, NEW v \in Worker PROVE OwedIn'[s][v] <= OwedIn[s][v]
  <2>1. /\ OwedIn[s][v] = IF Owes(v) /\ book[v].start = s THEN CycleDelta(v) ELSE 0
        /\ OwedIn'[s][v] = IF Owes(v)' /\ book'[v].start = s THEN CycleDelta(v)' ELSE 0
    BY DEF OwedIn
  <2>2. OwedIn[s][v] >= 0 /\ OwedIn[s][v] \in Int BY <1>1, OwedBounds DEF CycleCounts, Counts
  <2>3. CASE v # w
    <3>1. OwedIn'[s][v] = OwedIn[s][v] BY <2>1, <2>3 DEF CycleDelta
    <3> QED BY <2>2, <3>1
  <2>4. CASE ~Owes(v)' BY <2>1, <2>2, <2>4
  <2>5. CASE v = w /\ Owes(w) /\ flushed'[w] = flushed[w] /\ book'[w] = book[w]
    <3>1. CycleDelta(v)' = CycleDelta(v) BY <2>5 DEF CycleDelta
    <3> QED BY <2>1, <2>2, <2>5, <3>1
  <2>6. CASE v = w /\ Owes(w) /\ flushed'[w] = flushed[w] /\ book'[w] = Closed(book[w])
    <3>1. Closed(book[w]).start = NoCycle BY DEF Closed, Ledger, StateTypeOK
    <3>2. book'[v].start # s BY <2>6, <3>1 DEF NoCycle
    <3> QED BY <2>1, <2>2, <3>2
  <2>7. CASE v = w /\ flushed'[w] = book'[w]
    <3>1. book'[w].tokens \in Nat BY <1>2, CyclesCounted
    <3>2. CycleDelta(v)' = 0 BY <2>7, <3>1 DEF CycleDelta
    <3> QED BY <2>1, <2>2, <3>2
  <2> QED BY <2>3, <2>4, <2>5, <2>6, <2>7
<1>7. ASSUME NEW l \in Ledger, NEW W \in SUBSET Worker, Fits(l, W)
      PROVE  FitsAt(l, W, Owed', OwedIn', clock')
  <2>1. FitsAt(l, W, Owed, OwedIn, clock) BY <1>7 DEF Fits
  <2>2. \A v \in W : Owed'[v] <= Owed[v] BY <1>5
  <2>3. \A s \in 1..MaxTokens : s <= clock => \A v \in W : OwedIn'[s][v] <= OwedIn[s][v]
    BY <1>6
  <2>4. FitsAt(l, W, Owed', OwedIn', clock) BY <1>1, <2>1, <2>2, <2>3, FitsOn
  <2> QED BY <2>4
<1>8. \A v \in Worker : Apart(v) \in SUBSET Worker /\ Apart(v)' \in SUBSET Worker BY DEF Apart
<1>9. \A v \in Worker \ {w} : Apart(v)' = Apart(v) BY DEF Apart
<1>10. Fits(disk.ledger, Worker)'
  <2>1. CASE Fits(disk'.ledger, Worker) BY <1>2, <1>7, <2>1 DEF Fits
  <2>2. CASE Fits(disk'.ledger, Worker \ {w}) /\ ~Owes(w)'
    <3>1. FitsAt(disk'.ledger, Worker \ {w}, Owed', OwedIn', clock') BY <1>2, <1>7, <2>2
    <3>2. Owed'[w] = 0 /\ \A s \in 1..MaxTokens : OwedIn'[s][w] = 0 BY <2>2 DEF Owed, OwedIn
    <3>3. FitsAt(disk'.ledger, Worker, Owed', OwedIn', clock')
      BY <1>1, <1>2, <3>1, <3>2, FitsAgain
    <3> QED BY <3>3 DEF Fits
  <2> QED BY <2>1, <2>2
<1>11. ASSUME NEW v \in Worker
       PROVE  /\ Fits(book[v], Apart(v))'
              /\ \A i \in DOMAIN chain'[v] : FitsAt(chain'[v][i].ledger, Apart(v)', Owed', OwedIn', clock')
              /\ stage'[v] = "drained" => chain'[v] = <<>>
  <2>1. /\ Fits(book'[v], Apart(v)')
        /\ \A i \in DOMAIN chain'[v] : Fits(chain'[v][i].ledger, Apart(v)')
        /\ stage'[v] = "drained" => chain'[v] = <<>>
    <3>1. CASE v = w BY <3>1
    <3>2. CASE v # w BY <1>9, <3>2 DEF CountInv
    <3> QED BY <3>1, <3>2
  <2>2. FitsAt(book'[v], Apart(v)', Owed', OwedIn', clock') BY <1>2, <1>7, <1>8, <2>1
  <2>3. \A i \in DOMAIN chain'[v] : FitsAt(chain'[v][i].ledger, Apart(v)', Owed', OwedIn', clock')
    BY <1>3, <1>7, <1>8, <2>1
  <2> QED BY <2>1, <2>2, <2>3 DEF Fits
<1> QED BY <1>4, <1>10, <1>11 DEF CountInv, Fits

LEMMA InitCount == StateInit => CountInv
<1> SUFFICES ASSUME StateInit PROVE CountInv OBVIOUS
<1>1. StateTypeOK BY InitTypes
<1>2. Owed \in Counts /\ OwedIn \in CycleCounts BY <1>1, OwedTypes
<1>3. \A w \in Worker : ~Owes(w) /\ chain[w] = <<>> /\ book[w] = EmptyLedger
  BY DEF StateInit, Owes
<1>4. \A w \in Worker : Owed[w] = 0 BY <1>3 DEF Owed
<1>5. Count(Owed, Worker) = 0 BY <1>2, <1>4, CountNothing
<1>6. Fits(EmptyLedger, Worker) BY <1>5 DEF StateInit, Fits, FitsAt, EmptyLedger, NoCycle
<1>7. \A w \in Worker : Apart(w) = Worker BY <1>3 DEF Apart
<1>8. disk.ledger = EmptyLedger BY DEF StateInit
<1>9. Snapshots BY <1>3 DEF Snapshots
<1> QED BY <1>3, <1>6, <1>7, <1>8, <1>9 DEF CountInv

\* A token is delivered.
LEMMA DeliverCounted ==
  ASSUME StateTypeOK, StateTypeOK', CountInv, NEW w \in Worker, Deliver(w)
  PROVE  CountInv'
<1> DEFINE l == book[w]
<1>1. /\ clock' = clock + 1 /\ clock < MaxTokens /\ UNCHANGED <<disk, stage, chain, flushed>>
      /\ book'[w] = Accrued(l, clock') /\ \A v \in Worker \ {w} : book'[v] = book[v]
  BY DEF Deliver, StateTypeOK
<1>2. /\ Owed \in Counts /\ OwedIn \in CycleCounts /\ Owed' \in Counts /\ OwedIn' \in CycleCounts
      /\ clock \in Nat /\ clock' \in 1..MaxTokens
  <2>1. (StateTypeOK => Owed \in Counts /\ OwedIn \in CycleCounts)' BY OwedTypes, PTL
  <2> QED BY <1>1, OwedTypes, <2>1, StateFileAssumption DEF StateTypeOK
<1>3. /\ l \in Ledger /\ flushed[w] \in Ledger /\ disk.ledger \in Ledger
      /\ \A v \in Worker : book[v] \in Ledger /\ chain[v] \in Seq(Job)
      /\ l.tokens \in Nat /\ l.days \in Nat /\ l.start \in Nat
      /\ flushed[w].tokens \in Nat /\ flushed[w].days \in Nat
  BY CyclesCounted DEF StateTypeOK
<1>4. /\ book'[w].start = IF l.start = NoCycle THEN clock' ELSE l.start
      /\ book'[w].tokens = l.tokens + 1 /\ book'[w].days = l.days + 1
  BY <1>1, <1>3 DEF Accrued, Ledger
<1>5. l.start <= clock /\ (l.start = NoCycle => l.tokens = 0) BY DEF CountInv, Fits, FitsAt
<1> HIDE DEF l
<1>6. ASSUME Owes(w)
      PROVE  /\ OwedBy(w)' = OwedBy(w) + 1 /\ OwedBy(w) \in Nat
             /\ CycleDelta(w)' = IF l.start = NoCycle THEN 1 ELSE CycleDelta(w) + 1
             /\ CycleDelta(w) \in 0..OwedBy(w)
  <2>1. /\ flushed[w].start <= clock /\ (flushed[w].start = NoCycle => flushed[w].tokens = 0)
        /\ CycleDelta(w) \in 0..OwedBy(w)
    BY <1>6 DEF CountInv, Snapshots
  <2>2. OwedBy(w) \in Nat BY <1>6, OwedBounds, StateFileAssumption
  <2>3. OwedBy(w)' = OwedBy(w) + 1
    <3>1. OwedBy(w)' = book'[w].days - flushed'[w].days BY DEF OwedBy
    <3>2. OwedBy(w) = l.days - flushed[w].days BY DEF OwedBy, l
    <3>3. flushed'[w].days = flushed[w].days BY <1>1
    <3> QED BY <1>3, <1>4, <3>1, <3>2, <3>3
  <2>4. CASE l.start = NoCycle
    <3>1. book'[w].start = clock' /\ flushed'[w].start # clock' /\ book'[w].tokens = 1
      BY <1>1, <1>2, <1>3, <1>4, <1>5, <2>1, <2>4, CyclesCounted
    <3>2. CycleDelta(w)' = 1 BY <3>1 DEF CycleDelta
    <3> QED BY <2>1, <2>2, <2>3, <2>4, <3>2
  <2>5. CASE l.start # NoCycle
    <3>1. book'[w].start = l.start /\ flushed' = flushed BY <1>1, <1>4, <2>5
    <3>2. CycleDelta(w)' = CycleDelta(w) + 1 BY <1>3, <1>4, <3>1 DEF CycleDelta, l
    <3> QED BY <2>1, <2>2, <2>3, <2>5, <3>2
  <2> QED BY <2>4, <2>5
<1>7. \A v \in Worker : Owes(v)' = Owes(v) /\ Apart(v)' = Apart(v) BY <1>1 DEF Owes, Apart
<1>8. Snapshots'
  <2> SUFFICES ASSUME NEW v \in Worker, Owes(v)
               PROVE  /\ flushed'[v].start <= clock'
                      /\ flushed'[v].start = NoCycle => flushed'[v].tokens = 0
                      /\ CycleDelta(v)' \in 0..(OwedBy(v))'
    BY <1>7 DEF Snapshots
  <2>1. /\ flushed[v].start <= clock /\ (flushed[v].start = NoCycle => flushed[v].tokens = 0)
        /\ CycleDelta(v) \in 0..OwedBy(v)
    BY DEF CountInv, Snapshots
  <2>2. flushed[v].start \in Nat BY CyclesCounted DEF StateTypeOK
  <2>3. CycleDelta(v)' \in 0..(OwedBy(v))'
    <3>1. CASE v = w BY <1>6, <3>1
    <3>2. CASE v # w
      <4>1. CycleDelta(v)' = CycleDelta(v) /\ OwedBy(v)' = OwedBy(v)
        BY <1>1, <3>2 DEF CycleDelta, OwedBy
      <4> QED BY <2>1, <4>1
    <3> QED BY <3>1, <3>2
  <2> QED BY <1>1, <1>2, <2>1, <2>2, <2>3
<1>9. \A v \in Worker : Owed'[v] = Owed[v] + (IF v = w /\ Owes(w) THEN 1 ELSE 0)
  <2> SUFFICES ASSUME NEW v \in Worker
               PROVE  Owed'[v] = Owed[v] + (IF v = w /\ Owes(w) THEN 1 ELSE 0)
    OBVIOUS
  <2>1. /\ Owed[v] = IF Owes(v) THEN OwedBy(v) ELSE 0
        /\ Owed'[v] = IF Owes(v) THEN OwedBy(v)' ELSE 0
    BY <1>7 DEF Owed
  <2>2. Owed[v] \in Int BY <1>2 DEF Counts
  <2>3. CASE v = w BY <1>6, <2>1, <2>2, <2>3
  <2>4. CASE v # w
    <3>1. OwedBy(v)' = OwedBy(v) BY <1>1, <2>4 DEF OwedBy
    <3> QED BY <2>1, <2>2, <2>4, <3>1
  <2> QED BY <2>3, <2>4
<1>10. ASSUME NEW s \in 1..MaxTokens, s <= clock, NEW v \in Worker
       PROVE  OwedIn'[s][v] <= OwedIn[s][v] + (IF v = w /\ Owes(w) THEN 1 ELSE 0)
  <2>1. /\ OwedIn[s][v] = IF Owes(v) /\ book[v].start = s THEN CycleDelta(v) ELSE 0
        /\ OwedIn'[s][v] = IF Owes(v) /\ book'[v].start = s THEN CycleDelta(v)' ELSE 0
    BY <1>7 DEF OwedIn
  <2>2. OwedIn[s][v] \in Int /\ OwedIn[s][v] >= 0 BY <1>2, OwedBounds DEF CycleCounts, Counts
  <2>3. CASE v # w
    <3>1. CycleDelta(v)' = CycleDelta(v) /\ book'[v] = book[v] BY <1>1, <2>3 DEF CycleDelta
    <3> QED BY <2>1, <2>2, <2>3, <3>1
  <2>4. CASE v = w /\ ~Owes(w) BY <2>1, <2>2, <2>4
  <2>5. CASE v = w /\ Owes(w) /\ l.start = NoCycle
    <3>1. book'[v].start # s BY <1>1, <1>2, <1>4, <1>10, <2>5
    <3> QED BY <2>1, <2>2, <2>5, <3>1
  <2>6. CASE v = w /\ Owes(w) /\ l.start # NoCycle
    <3>1. book'[v].start = book[v].start /\ CycleDelta(v)' = CycleDelta(v) + 1
      BY <1>4, <1>6, <2>6 DEF l
    <3>2. CycleDelta(v) \in Int BY <1>6, <2>6
    <3> QED BY <2>1, <2>2, <2>6, <3>1, <3>2
  <2> QED BY <2>3, <2>4, <2>5, <2>6
<1>11. ASSUME NEW m \in Ledger, NEW W \in SUBSET Worker, Fits(m, W)
       PROVE  FitsAt(m, W, Owed', OwedIn', clock')
  <2>1. FitsAt(m, W, Owed, OwedIn, clock) BY <1>11 DEF Fits
  <2>2. \A v \in W : Owed'[v] <= Owed[v] + (IF v = w THEN 1 ELSE 0)
    <3> SUFFICES ASSUME NEW v \in W PROVE Owed'[v] <= Owed[v] + (IF v = w THEN 1 ELSE 0)
      OBVIOUS
    <3>1. Owed[v] \in Int BY <1>2 DEF Counts
    <3> QED BY <1>9, <3>1
  <2>3. \A s \in 1..MaxTokens : s <= clock =>
          \A v \in W : OwedIn'[s][v] <= OwedIn[s][v] + (IF v = w THEN 1 ELSE 0)
    <3> SUFFICES ASSUME NEW s \in 1..MaxTokens, s <= clock, NEW v \in W
                 PROVE  OwedIn'[s][v] <= OwedIn[s][v] + (IF v = w THEN 1 ELSE 0)
      OBVIOUS
    <3>1. OwedIn[s][v] \in Int /\ OwedIn'[s][v] \in Int BY <1>2 DEF CycleCounts, Counts
    <3>2. OwedIn'[s][v] <= OwedIn[s][v] + (IF v = w /\ Owes(w) THEN 1 ELSE 0) BY <1>10
    <3> QED BY <3>1, <3>2
  <2>4. 1 \in {0, 1} /\ clock' = clock + 1 BY <1>1
  <2> QED BY ONLY <1>2, <1>11, <2>1, <2>2, <2>3, <2>4, StillFits
<1>12. FitsAt(book'[w], Apart(w), Owed', OwedIn', clock')
  <2> DEFINE W == Apart(w)
  <2>1. W \in SUBSET Worker /\ FitsAt(l, W, Owed, OwedIn, clock)
    BY DEF Apart, CountInv, Fits, l
  <2>2. \A v \in W : ~(v = w /\ Owes(w)) BY DEF Apart
  <2>3. \A v \in W : Owed'[v] <= Owed[v]
    <3> SUFFICES ASSUME NEW v \in W PROVE Owed'[v] <= Owed[v] OBVIOUS
    <3>1. v \in Worker /\ Owed[v] \in Int BY <1>2, <2>1 DEF Counts
    <3>2. Owed'[v] = Owed[v] + 0 BY <1>9, <2>2, <3>1
    <3> QED BY <3>1, <3>2
  <2>4. \A s \in 1..MaxTokens : s <= clock => \A v \in W : OwedIn'[s][v] <= OwedIn[s][v]
    <3> SUFFICES ASSUME NEW s \in 1..MaxTokens, s <= clock, NEW v \in W
                 PROVE  OwedIn'[s][v] <= OwedIn[s][v]
      OBVIOUS
    <3>1. v \in Worker /\ OwedIn[s][v] \in Int BY <1>2, <2>1 DEF CycleCounts, Counts
    <3>2. OwedIn'[s][v] <= OwedIn[s][v] + 0 BY <1>10, <2>2, <3>1
    <3> QED BY <3>1, <3>2
  <2>5. \A v \in W : OwedIn'[clock'][v] <= 0
    <3> SUFFICES ASSUME NEW v \in W PROVE OwedIn'[clock'][v] <= 0 OBVIOUS
    <3>1. v \in Worker BY <2>1
    <3>2. OwedIn'[clock'][v] = IF Owes(v)' /\ book'[v].start = clock' THEN CycleDelta(v)' ELSE 0
      BY <1>2, <3>1 DEF OwedIn
    <3>3. CASE ~Owes(v)' BY <3>2, <3>3
    <3>4. CASE Owes(v)'
      <4>1. v # w BY <1>7, <2>2, <3>1, <3>4
      <4>2. book[v].start \in Nat /\ book[v].start <= clock
        BY <3>1, CyclesCounted DEF CountInv, Fits, FitsAt, StateTypeOK
      <4>3. book'[v].start # clock' BY <1>1, <1>2, <3>1, <4>1, <4>2
      <4> QED BY <3>2, <4>3
    <3> QED BY <3>3, <3>4
  <2> HIDE DEF W
  <2>6. FitsAt(Accrued(l, clock'), W, Owed', OwedIn', clock')
    BY <1>1, <1>2, <1>3, <2>1, <2>3, <2>4, <2>5, AccruedFits
  <2> QED BY <1>1, <2>6 DEF W
<1>13. \A v \in Worker : Apart(v) \in SUBSET Worker BY DEF Apart
<1>14. FitsAt(disk'.ledger, Worker, Owed', OwedIn', clock')
  BY <1>1, <1>3, <1>11 DEF CountInv
<1>15. ASSUME NEW v \in Worker PROVE FitsAt(book'[v], Apart(v), Owed', OwedIn', clock')
  <2>1. CASE v = w BY <1>12, <2>1
  <2>2. CASE v # w BY <1>1, <1>3, <1>11, <1>13, <2>2 DEF CountInv
  <2> QED BY <2>1, <2>2
<1>16. ASSUME NEW v \in Worker, NEW i \in DOMAIN chain[v]
       PROVE  FitsAt(chain[v][i].ledger, Apart(v), Owed', OwedIn', clock')
  <2>1. chain[v][i] \in Job BY <1>3, ElementOfSeq, LenProperties
  <2>2. chain[v][i].ledger \in Ledger BY <2>1 DEF Job
  <2> QED BY <1>11, <1>13, <2>2 DEF CountInv
<1>17. \A v \in Worker : stage'[v] = "drained" => chain'[v] = <<>> BY <1>1 DEF CountInv
<1> QED BY <1>1, <1>7, <1>8, <1>14, <1>15, <1>16, <1>17 DEF CountInv, Fits

\* What is queued, from what was queued and what a save adds.
LEMMA QueuedFits ==
  ASSUME NEW c \in Seq(Job), NEW W, \A i \in DOMAIN c : Fits(c[i].ledger, W), NEW q \in Seq(Job),
         \A i \in DOMAIN q : (\E j \in DOMAIN c : q[i].ledger = c[j].ledger) \/ Fits(q[i].ledger, W)
  PROVE  \A i \in DOMAIN q : Fits(q[i].ledger, W)
<1> SUFFICES ASSUME NEW i \in DOMAIN q PROVE Fits(q[i].ledger, W) OBVIOUS
<1>1. CASE Fits(q[i].ledger, W) BY <1>1
<1>2. CASE ~Fits(q[i].ledger, W)
  <2>1. PICK j \in DOMAIN c : q[i].ledger = c[j].ledger BY <1>2
  <2> QED BY <2>1
<1> QED BY <1>1, <1>2

LEMMA QueueEntries ==
  ASSUME NEW c \in Seq(Job), NEW e \in Job
  PROVE  /\ \A i \in DOMAIN Append(c, e) :
               (\E j \in DOMAIN c : Append(c, e)[i] = c[j]) \/ Append(c, e)[i] = e
         /\ c # <<>> =>
              /\ 1 \in DOMAIN c /\ Head(c) = c[1] /\ Head(c) \in Job
              /\ \A i \in DOMAIN Tail(c) : \E j \in DOMAIN c : Tail(c)[i] = c[j]
              /\ \A i \in DOMAIN (<<e>> \o Tail(c)) :
                   (\E j \in DOMAIN c : (<<e>> \o Tail(c))[i] = c[j]) \/ (<<e>> \o Tail(c))[i] = e
<1>1. Len(c) \in Nat /\ DOMAIN c = 1..Len(c) BY LenProperties
<1>2. ASSUME NEW i \in DOMAIN Append(c, e)
      PROVE  (\E j \in DOMAIN c : Append(c, e)[i] = c[j]) \/ Append(c, e)[i] = e
  BY <1>1, AppendProperties, LenProperties
<1>3. ASSUME c # <<>>
      PROVE  /\ 1 \in DOMAIN c /\ Head(c) = c[1] /\ Head(c) \in Job
             /\ Tail(c) \in Seq(Job) /\ Len(Tail(c)) = Len(c) - 1 /\ Len(c) >= 1
             /\ DOMAIN Tail(c) = 1..(Len(c) - 1) /\ \A i \in 1..(Len(c) - 1) : Tail(c)[i] = c[i + 1]
  <2>1. /\ Tail(c) \in Seq(Job) /\ Len(Tail(c)) = Len(c) - 1 /\ Len(c) \in Nat \ {0}
        /\ \A i \in 1..Len(Tail(c)) : Tail(c)[i] = c[i + 1]
    BY <1>3
  <2>2. DOMAIN Tail(c) = 1..(Len(c) - 1) BY <2>1, LenProperties
  <2>3. Head(c) = c[1] /\ Head(c) \in Job BY <1>3, HeadTailProperties
  <2>4. 1 \in DOMAIN c BY <1>1, <2>1
  <2> QED BY <2>1, <2>2, <2>3, <2>4
<1>4. ASSUME c # <<>>, NEW i \in DOMAIN Tail(c) PROVE \E j \in DOMAIN c : Tail(c)[i] = c[j]
  <2>1. i \in 1..(Len(c) - 1) BY <1>3, <1>4
  <2>2. i + 1 \in DOMAIN c /\ Tail(c)[i] = c[i + 1] BY <1>1, <1>3, <1>4, <2>1
  <2> QED BY <2>2
<1>5. ASSUME c # <<>>, NEW i \in DOMAIN (<<e>> \o Tail(c))
      PROVE  (\E j \in DOMAIN c : (<<e>> \o Tail(c))[i] = c[j]) \/ (<<e>> \o Tail(c))[i] = e
  <2> DEFINE q == <<e>> \o Tail(c)
  <2>1. /\ q \in Seq(Job) /\ q # <<>> /\ Len(q) = Len(c) /\ Head(q) = e
        /\ \A k \in 2..Len(q) : q[k] = c[k]
    BY <1>5, HeadReplaced
  <2>2. i \in DOMAIN q BY <1>5
  <2> HIDE DEF q
  <2>3. DOMAIN q = 1..Len(q) /\ Head(q) = q[1] BY <2>1, LenProperties, HeadTailProperties
  <2>4. q[i] = e \/ (q[i] = c[i] /\ i \in DOMAIN c) BY <1>1, <2>1, <2>2, <2>3
  <2> QED BY <2>4 DEF q
<1> QED BY <1>2, <1>3, <1>4, <1>5

LEMMA NextCount ==
  ASSUME StateTypeOK, StateTypeOK', MergeHasRead, CountInv, [StateNext]_svars
  PROVE  CountInv'
<1> USE DEF Owes
<1>1. /\ Owed \in Counts /\ OwedIn \in CycleCounts /\ clock \in Nat /\ MaxTokens \in Nat
      /\ disk.ledger \in Ledger /\ \A w \in Worker : book[w] \in Ledger /\ flushed[w] \in Ledger
      /\ \A w \in Worker : chain[w] \in Seq(Job)
  BY OwedTypes, StateFileAssumption DEF StateTypeOK
<1>2. /\ Fits(disk.ledger, Worker)
      /\ \A w \in Worker :
           /\ Fits(book[w], Apart(w))
           /\ \A i \in DOMAIN chain[w] : Fits(chain[w][i].ledger, Apart(w))
           /\ stage[w] = "drained" => chain[w] = <<>>
           /\ ~Owes(w) => Apart(w) = Worker
  BY DEF CountInv, Apart
<1>3. CASE UNCHANGED svars
  <2>1. UNCHANGED <<disk, clock, stage, book, flushed, chain>> BY <1>3 DEF svars
  <2>2. Owed' = Owed /\ OwedIn' = OwedIn
    BY <2>1 DEF Owed, OwedIn, OwedBy, CycleDelta
  <2> QED BY <2>1, <2>2 DEF CountInv, Fits, Apart, Snapshots, CycleDelta, OwedBy
<1>4. ASSUME NEW w \in Worker, RollOver(w) PROVE CountInv'
  <2>1. /\ UNCHANGED <<disk, clock, stage, chain, flushed>>
        /\ book'[w] = Closed(book[w]) /\ \A v \in Worker \ {w} : book'[v] = book[v]
    BY <1>4 DEF RollOver, StateTypeOK
  <2>2. Fits(Closed(book[w]), Apart(w)) /\ Apart(w)' = Apart(w)
    BY <1>1, <1>2, <2>1, ClosedFits DEF Fits, Apart
  <2>3. ~Owes(w)' \/ Owes(w) BY <2>1
  <2> QED BY <1>2, <2>1, <2>2, <2>3, OneTurn
<1>5. ASSUME NEW w \in Worker, NEW job \in Job, job.ledger = book[w], stage[w] = "primary",
             stage'[w] \in {"primary", "releasing"},
             \A v \in Worker \ {w} : stage'[v] = stage[v] /\ chain'[v] = chain[v],
             chain'[w] = Append(chain[w], job), UNCHANGED <<disk, clock, book, flushed>>
      PROVE  CountInv'
  <2>1. ~Owes(w) /\ ~Owes(w)' /\ Apart(w)' = Worker BY <1>5 DEF Apart
  <2>2. \A i \in DOMAIN chain'[w] : Fits(chain'[w][i].ledger, Worker)
    <3>1. \A i \in DOMAIN Append(chain[w], job) :
            (\E j \in DOMAIN chain[w] : Append(chain[w], job)[i] = chain[w][j])
              \/ Append(chain[w], job)[i] = job
      BY <1>1, QueueEntries
    <3>2. Fits(job.ledger, Worker) BY <1>2, <1>5, <2>1
    <3>3. chain'[w] \in Seq(Job) BY DEF StateTypeOK
    <3>4. \A i \in DOMAIN chain'[w] :
            (\E j \in DOMAIN chain[w] : chain'[w][i].ledger = chain[w][j].ledger)
              \/ Fits(chain'[w][i].ledger, Worker)
      BY <1>5, <3>1, <3>2
    <3> QED BY <1>1, <1>2, <2>1, <3>3, <3>4, QueuedFits
  <2> QED BY <1>2, <1>5, <2>1, <2>2, OneTurn
<1>6. ASSUME NEW w \in Worker, PeriodicSave(w) \/ Releases(w) PROVE CountInv'
  <2>1. PICK e \in {AnyGen} \cup Nat : chain' = [chain EXCEPT ![w] = Append(@, SaveJob(book[w], e))]
    BY <1>6 DEF PeriodicSave, Releases, StateTypeOK
  <2>2. SaveJob(book[w], e) \in Job /\ SaveJob(book[w], e).ledger = book[w]
    BY <1>1, JobTypes DEF SaveJob
  <2>3. /\ chain'[w] = Append(chain[w], SaveJob(book[w], e))
        /\ \A v \in Worker \ {w} : chain'[v] = chain[v]
    BY <2>1 DEF StateTypeOK
  <2>4. /\ stage[w] = "primary" /\ stage'[w] \in {"primary", "releasing"}
        /\ \A v \in Worker \ {w} : stage'[v] = stage[v]
        /\ UNCHANGED <<disk, clock, book, flushed>>
    BY <1>6 DEF PeriodicSave, Releases, HasLease, StateTypeOK
  <2> QED BY <1>5, <2>2, <2>3, <2>4
<1>7. ASSUME NEW w \in Worker, SaveReads(w), stage[w] # "merging" PROVE CountInv'
  <2> DEFINE job == [Head(chain[w]) EXCEPT !.seen = disk.gen]
  <2>1. /\ chain[w] # <<>> /\ UNCHANGED <<disk, clock, stage, book, flushed>>
        /\ \A v \in Worker \ {w} : chain'[v] = chain[v]
        /\ chain'[w] = Tail(chain[w]) \/ chain'[w] = <<job>> \o Tail(chain[w])
    BY <1>7 DEF SaveReads, StateTypeOK
  <2>2. ~Owes(w) BY <1>2, <1>7, <2>1
  <2>3. ~Owes(w)' /\ Apart(w)' = Worker BY <2>1, <2>2 DEF Apart
  <2>4. Head(chain[w]) \in Job /\ Head(chain[w]) = chain[w][1] /\ 1 \in DOMAIN chain[w]
    BY <1>1, <2>1, QueueEntries, HeadDone
  <2>5. job \in Job /\ job.ledger = Head(chain[w]).ledger
    <3>1. disk.gen \in Nat BY DEF StateTypeOK
    <3> QED BY <2>4, <3>1, JobTypes DEF Job
  <2> HIDE DEF job
  <2>6. /\ \A i \in DOMAIN Tail(chain[w]) : \E j \in DOMAIN chain[w] : Tail(chain[w])[i] = chain[w][j]
        /\ \A i \in DOMAIN (<<job>> \o Tail(chain[w])) :
             (\E j \in DOMAIN chain[w] : (<<job>> \o Tail(chain[w]))[i] = chain[w][j])
               \/ (<<job>> \o Tail(chain[w]))[i] = job
    BY <1>1, <2>1, <2>5, QueueEntries
  <2>7. \A i \in DOMAIN chain'[w] : \E j \in DOMAIN chain[w] : chain'[w][i].ledger = chain[w][j].ledger
    <3>1. CASE chain'[w] = Tail(chain[w]) BY <2>6, <3>1
    <3>2. CASE chain'[w] = <<job>> \o Tail(chain[w])
      <4> SUFFICES ASSUME NEW i \in DOMAIN chain'[w]
                   PROVE  \E j \in DOMAIN chain[w] : chain'[w][i].ledger = chain[w][j].ledger
        OBVIOUS
      <4>1. (\E j \in DOMAIN chain[w] : chain'[w][i] = chain[w][j]) \/ chain'[w][i] = job
        BY <2>6, <3>2
      <4>2. CASE chain'[w][i] = job BY <2>4, <2>5, <4>2
      <4>3. CASE \E j \in DOMAIN chain[w] : chain'[w][i] = chain[w][j] BY <4>3
      <4> QED BY <4>1, <4>2, <4>3
    <3> QED BY <2>1, <3>1, <3>2
  <2>8. \A i \in DOMAIN chain'[w] : Fits(chain'[w][i].ledger, Worker)
    BY <1>2, <2>2, <2>7
  <2>9. Fits(disk'.ledger, Worker) /\ Fits(book'[w], Worker) BY <1>2, <2>1, <2>2
  <2>10. stage'[w] # "drained" BY <2>3
  <2> QED BY <2>1, <2>3, <2>8, <2>9, <2>10, OneTurn
<1>8. ASSUME NEW w \in Worker, SaveWrites(w), stage[w] # "merging" PROVE CountInv'
  <2>1. /\ chain[w] # <<>> /\ UNCHANGED <<clock, stage, book, flushed>>
        /\ disk'.ledger = Head(chain[w]).ledger /\ chain'[w] = Tail(chain[w])
        /\ \A v \in Worker \ {w} : chain'[v] = chain[v]
    BY <1>8 DEF SaveWrites, StateTypeOK
  <2>2. ~Owes(w) BY <1>2, <1>8, <2>1
  <2>3. ~Owes(w)' /\ Apart(w)' = Worker BY <2>1, <2>2 DEF Apart
  <2>4. Head(chain[w]) \in Job BY <1>1, <2>1, HeadDone
  <2>5. /\ Head(chain[w]) = chain[w][1] /\ 1 \in DOMAIN chain[w]
        /\ \A i \in DOMAIN Tail(chain[w]) : \E j \in DOMAIN chain[w] : Tail(chain[w])[i] = chain[w][j]
    BY <1>1, <2>1, <2>4, QueueEntries
  <2>6. Fits(disk'.ledger, Worker) BY <1>2, <2>1, <2>2, <2>5
  <2>7. \A i \in DOMAIN chain'[w] : Fits(chain'[w][i].ledger, Worker) BY <1>2, <2>1, <2>2, <2>5
  <2>8. Fits(book'[w], Worker) /\ stage'[w] # "drained" BY <1>2, <2>1, <2>2, <2>3
  <2> QED BY <2>1, <2>3, <2>6, <2>7, <2>8, OneTurn
<1>9. ASSUME NEW w \in Worker, Spawns(w) \/ TakeOver(w) \/ AcquireLease(w) PROVE CountInv'
  <2>1. /\ UNCHANGED <<disk, clock, chain, flushed>>
        /\ \A v \in Worker \ {w} : stage'[v] = stage[v] /\ book'[v] = book[v]
        /\ book'[w] \in {book[w], disk.ledger} /\ ~Owes(w) /\ ~Owes(w)'
    BY <1>9 DEF Spawns, TakeOver, AcquireLease, StateTypeOK
  <2>2. Apart(w)' = Worker /\ stage'[w] # "drained" BY <2>1 DEF Apart
  <2>3. Fits(book'[w], Worker) BY <1>2, <2>1
  <2>4. \A i \in DOMAIN chain'[w] : Fits(chain'[w][i].ledger, Worker) BY <1>2, <2>1
  <2> QED BY <1>2, <2>1, <2>2, <2>3, <2>4, OneTurn
<1>10. ASSUME NEW w \in Worker, Released(w) PROVE CountInv'
  <2>1. /\ UNCHANGED <<disk, clock, book, chain>> /\ chain[w] = <<>>
        /\ flushed'[w] = book'[w] /\ stage[w] = "releasing" /\ stage'[w] = "drained"
        /\ \A v \in Worker \ {w} : stage'[v] = stage[v] /\ flushed'[v] = flushed[v]
    BY <1>10 DEF Released, StateTypeOK
  <2>2. Apart(w)' = Worker \ {w} /\ Apart(w) = Worker BY <2>1 DEF Apart
  <2>3. Fits(book'[w], Worker \ {w}) BY <1>1, <1>2, <2>1, <2>2, FitsFewer DEF Fits
  <2>4. \A i \in DOMAIN chain'[w] : Fits(chain'[w][i].ledger, Worker \ {w}) BY <2>1
  <2> QED BY <1>2, <2>1, <2>2, <2>3, <2>4, OneTurn
<1>11. ASSUME NEW w \in Worker, MergeReads(w) PROVE CountInv'
  <2> DEFINE merged == MergeDelta(disk.ledger, flushed[w], book[w])
             job == [ledger |-> merged, expected |-> AnyGen, seen |-> disk.gen]
  <2>1. /\ UNCHANGED <<disk, clock, book, flushed>> /\ stage[w] = "drained" /\ stage'[w] = "merging"
        /\ chain'[w] = <<job>>
        /\ \A v \in Worker \ {w} : stage'[v] = stage[v] /\ chain'[v] = chain[v]
    BY <1>11 DEF MergeReads, StateTypeOK
  <2>2. Owes(w) /\ Owes(w)' /\ Apart(w)' = Worker \ {w} /\ Apart(w) = Worker \ {w}
    BY <2>1 DEF Apart
  <2>3. OwedBy(w) \in 0..MaxTokens /\ CycleDelta(w) \in 0..OwedBy(w) BY <2>2, OwedBounds
  <2>4. Owed[w] = book[w].days - flushed[w].days /\ Owed[w] \in 0..MaxTokens
    BY <2>2, <2>3 DEF Owed, OwedBy
  <2>5. book[w].start # NoCycle => OwedIn[book[w].start][w] = CycleDelta(w)
    <3>1. book[w].start # NoCycle => book[w].start \in 1..MaxTokens BY <1>1, CyclesCounted
    <3> QED BY <2>2, <3>1 DEF OwedIn
  <2>6. CycleDelta(w) \in Nat /\ CycleDelta(w) <= Owed[w] BY <1>1, <2>3, <2>4 DEF OwedBy
  <2>7. Fits(merged, Worker \ {w})
    <3> DEFINE delta == CycleDelta(w)
    <3>1. delta = IF flushed[w].start = book[w].start THEN book[w].tokens - flushed[w].tokens
                                                      ELSE book[w].tokens
      BY DEF CycleDelta
    <3>2. delta \in Nat /\ delta <= Owed[w]
          /\ (book[w].start # NoCycle => OwedIn[book[w].start][w] = delta)
      BY <2>5, <2>6
    <3> HIDE DEF delta
    <3>3. FitsAt(disk.ledger, Worker, Owed, OwedIn, clock) BY <1>2 DEF Fits
    <3>4. FitsAt(merged, Worker \ {w}, Owed, OwedIn, clock)
      BY <1>1, <2>4, <3>1, <3>2, <3>3, MergedFits
    <3> QED BY <3>4 DEF Fits
  <2>8. job.ledger = merged OBVIOUS
  <2> HIDE DEF merged, job
  <2>9. \A i \in DOMAIN chain'[w] : Fits(chain'[w][i].ledger, Worker \ {w})
    <3>1. DOMAIN chain'[w] = {1} /\ chain'[w][1] = job BY <2>1
    <3> QED BY <2>7, <2>8, <3>1
  <2>10. Fits(book'[w], Worker \ {w}) BY <1>2, <2>1, <2>2
  <2> QED BY <1>2, <2>1, <2>2, <2>9, <2>10, OneTurn
<1>12. ASSUME NEW w \in Worker, Leaves(w), clock' = clock,
              Fits(disk'.ledger, Worker) \/ Fits(disk'.ledger, Worker \ {w})
       PROVE  CountInv'
  <2>1. /\ stage'[w] = "gone" /\ chain'[w] = <<>> /\ book'[w] = EmptyLedger
        /\ \A v \in Worker \ {w} : /\ stage'[v] = stage[v] /\ book'[v] = book[v]
                                   /\ flushed'[v] = flushed[v] /\ chain'[v] = chain[v]
    BY <1>12 DEF Leaves, StateTypeOK
  <2>2. ~Owes(w)' /\ Apart(w)' = Worker BY <2>1 DEF Apart
  <2>3. Fits(book'[w], Worker) BY <1>1, <1>2, <2>1, EmptyFits DEF Fits
  <2>4. \A i \in DOMAIN chain'[w] : Fits(chain'[w][i].ledger, Worker) BY <2>1
  <2> QED BY <1>12, <2>1, <2>2, <2>3, <2>4, OneTurn
<1>13. ASSUME NEW w \in Worker, Stops(w) PROVE CountInv'
  BY <1>2, <1>12, <1>13 DEF Stops
<1>14. ASSUME NEW w \in Worker, MergeWrites(w) PROVE CountInv'
  <2>1. /\ stage[w] = "merging" /\ Leaves(w) /\ clock' = clock
        /\ disk'.ledger = Head(chain[w]).ledger
    BY <1>14 DEF MergeWrites
  <2>2. chain[w] # <<>> BY <2>1 DEF MergeHasRead
  <2>3. Head(chain[w]) \in Job BY <1>1, <2>2, HeadDone
  <2>4. Head(chain[w]) = chain[w][1] /\ 1 \in DOMAIN chain[w] BY <1>1, <2>2, <2>3, QueueEntries
  <2>5. Fits(disk'.ledger, Worker \ {w}) BY <1>2, <2>1, <2>4 DEF Apart
  <2> QED BY <1>12, <2>1, <2>5
<1> QED BY <1>3, <1>4, <1>6, <1>7, <1>8, <1>9, <1>10, <1>11, <1>13, <1>14, DeliverCounted
        DEF StateNext

(* The ledger on disk and the one of every worker never hold more than was *)
(* delivered, whatever is loaded, merged and rewritten by any number of    *)
(* workers, of any number of reloads: config.js and capacity-ledger.js.    *)
THEOREM NothingIsCountedTwice == StateSpec => []NeverOvercounted
<1>1. StateInit => StateTypeOK /\ MergeHasRead /\ CountInv
  BY InitTypes, InitCount DEF StateInit, MergeHasRead
<1>2. StateTypeOK /\ MergeHasRead /\ CountInv /\ [StateNext]_svars
        => (StateTypeOK /\ MergeHasRead /\ CountInv)'
  BY NextTypes, NextMergeHasRead, NextCount
<1>3. StateTypeOK /\ CountInv => NeverOvercounted
  <2> SUFFICES ASSUME StateTypeOK, CountInv, NEW l \in Ledger, NEW W \in SUBSET Worker, Fits(l, W)
               PROVE  /\ l.start # NoCycle => l.tokens <= clock - l.start + 1
                      /\ l.closed + l.tokens <= clock
                      /\ l.days <= clock
    <3>1. \A w \in Worker : Apart(w) \in SUBSET Worker BY DEF Apart
    <3> QED BY <3>1 DEF NeverOvercounted, CountInv, StateTypeOK
  <2>1. /\ l.start \in Nat /\ l.tokens \in Nat /\ l.closed \in Nat /\ l.days \in Nat
        /\ clock \in Nat
    BY CyclesCounted, StateFileAssumption DEF StateTypeOK
  <2>2. Count(Owed, W) \in Nat /\ Count(OwedIn[l.start], W) \in Nat BY PairsAreFinite
  <2> QED BY <2>1, <2>2 DEF Fits, FitsAt
<1> QED BY <1>1, <1>2, <1>3, PTL DEF StateSpec
=============================================================================
