--------------------------- MODULE ForwardingProofs ---------------------------
(***************************************************************************)
(* The safety of forwardRequest and of the queue for any requests, any     *)
(* accounts, any bounds and any faults.                                    *)
(*                                                                         *)
(* A handler takes its request out of the shared state (the lease is       *)
(* released, or the ticket leaves the queue), and then puts it back: under *)
(* a new lease, into the queue, or nowhere.  Apart says what the manager   *)
(* is between the two; it is what every handler establishes and what the   *)
(* ways to go on need.                                                     *)
(***************************************************************************)
EXTENDS Forwarding, FiniteSetTheorems, SequenceTheorems, TLAPS

(* The leases on a, but for that of r *)
Carriers(a, S) == {x \in S : Leased(req[x]) /\ Acct(x) = a}

(* What the fields of a request say of one another: an admission is used up *)
(* by the lease it was for, a ticket is one of a request that waits, the    *)
(* headers the queue sends as a heartbeat are not those of a response that  *)
(* has begun, and only a repair may go past the last attempt.               *)
Settled(r, i) ==
  /\ ~i.admitted
  /\ i.ticket => i.pc = "queued"
  /\ i.pc = "new" => i = Fresh
  /\ i.wire = "real" => i.pc = "answer" /\ ~i.beat
  /\ i.pc = "answer" /\ i.acct \in Local /\ r \in Streams => ~i.beat
  /\ i.tries <= MaxAttempts + Cardinality(i.mended)

AllSettled == \A r \in Request : Settled(r, req[r])

FwdInv ==
  /\ TypeOK /\ AllSettled /\ LeasesCounted /\ ProbeIsCarried /\ NoPhantomBytes
  /\ QueueIsLive

----------------------------------------------------------------------------
(* What Kept keeps *)

\* The places counted up to one of them: from 1 up, and further on they are more.
LEMMA RankGrows ==
  ASSUME NEW n \in Nat, NEW p \in SUBSET (1..n)
  PROVE  /\ IsFiniteSet(p) /\ Cardinality(p) \in Nat /\ Cardinality(p) <= n
         /\ \A i \in p : Rank(p, i) \in 1..Cardinality(p)
         /\ \A i, j \in p : i < j => Rank(p, i) < Rank(p, j)
<1>1. IsFiniteSet(p) /\ Cardinality(p) \in Nat /\ Cardinality(p) <= n
  <2>1. IsFiniteSet(1..n) /\ Cardinality(1..n) = n BY FS_Interval
  <2> QED BY <2>1, FS_Subset, FS_CardinalityType
<1>2. ASSUME NEW i \in p PROVE Rank(p, i) \in 1..Cardinality(p)
  <2> DEFINE low == {j \in p : j <= i}
  <2>1. low \in SUBSET p /\ i \in low OBVIOUS
  <2>2. IsFiniteSet(low) /\ Cardinality(low) <= Cardinality(p) /\ Cardinality(low) \in Nat
    BY <1>1, <2>1, FS_Subset, FS_CardinalityType
  <2>3. Cardinality(low) # 0 BY <2>1, <2>2, FS_EmptySet
  <2> QED BY <1>1, <2>2, <2>3 DEF Rank
<1>3. ASSUME NEW i \in p, NEW j \in p, i < j PROVE Rank(p, i) < Rank(p, j)
  <2> DEFINE low  == {k \in p : k <= i}
             more == {k \in p : k <= j}
  <2>1. i \in Nat /\ j \in Nat /\ \A k \in p : k \in Nat OBVIOUS
  <2>2. low \in SUBSET more
    <3> SUFFICES ASSUME NEW k \in p, k <= i PROVE k <= j OBVIOUS
    <3> QED BY <1>3, <2>1
  <2>3. j \in more /\ j \notin low BY <1>3, <2>1
  <2>4. IsFiniteSet(more) /\ Cardinality(more) \in Nat
    BY <1>1, FS_Subset, FS_CardinalityType
  <2>5. Cardinality(low) <= Cardinality(more) /\ Cardinality(low) # Cardinality(more)
    BY <2>2, <2>3, <2>4, FS_Subset
  <2>6. Cardinality(low) \in Nat BY <1>1, FS_Subset, FS_CardinalityType
  <2> QED BY <2>4, <2>5, <2>6 DEF Rank
<1> QED BY <1>1, <1>2, <1>3

\* Every rank is that of one place.
LEMMA RankIsOnto ==
  ASSUME NEW n \in Nat, NEW p \in SUBSET (1..n), NEW k \in 1..Cardinality(p)
  PROVE  \E i \in p : Rank(p, i) = k
<1> DEFINE ranks == 1..Cardinality(p)
           f     == [i \in p |-> Rank(p, i)]
<1>1. /\ IsFiniteSet(p) /\ Cardinality(p) \in Nat
      /\ \A i \in p : Rank(p, i) \in ranks
      /\ \A i, j \in p : i < j => Rank(p, i) < Rank(p, j)
  BY RankGrows
<1>2. f \in [p -> ranks] BY <1>1
<1>3. IsInjective(f)
  <2> SUFFICES ASSUME NEW i \in p, NEW j \in p, f[i] = f[j] PROVE i = j
    BY <1>2 DEF IsInjective
  <2>1. i \in Nat /\ j \in Nat OBVIOUS
  <2>2. Rank(p, i) = Rank(p, j) /\ Rank(p, i) \in Nat BY <1>1
  <2> HIDE DEF f
  <2>3. ~(i < j) /\ ~(j < i) BY <1>1, <2>2
  <2> QED BY <2>1, <2>3
<1>4. IsFiniteSet(ranks) /\ Cardinality(ranks) = Cardinality(p)
  BY <1>1, FS_Interval
<1>5. f \in Injection(p, ranks) BY <1>2, <1>3 DEF Injection
<1>6. f \in Surjection(p, ranks)
  <2> HIDE DEF f, ranks
  <2> QED BY <1>4, <1>5, FS_Injection
<1>7. PICK i \in p : f[i] = k BY <1>6 DEF Surjection
<1> QED BY <1>7

\* What is kept: a sequence as long as there are places, each element taken
\* from a place of its own, and each place gives one.
LEMMA KeptPlaces ==
  ASSUME NEW T, NEW s \in Seq(T), NEW S
  PROVE  /\ Kept(s, S) \in Seq(T) /\ Len(Kept(s, S)) = Cardinality(Places(s, S))
         /\ ToSet(Kept(s, S)) = ToSet(s) \cap S
         /\ IsInjective(s) => IsInjective(Kept(s, S))
<1> DEFINE p     == Places(s, S)
           at(k) == CHOOSE i \in p : Rank(p, i) = k
           t     == [k \in 1..Cardinality(p) |-> s[at(k)]]
<1>1. /\ Len(s) \in Nat /\ DOMAIN s = 1..Len(s)
      /\ \A i \in 1..Len(s) : s[i] \in T
  OBVIOUS
<1>2. p \in SUBSET (1..Len(s)) /\ \A i \in 1..Len(s) : i \in p <=> s[i] \in S
  BY <1>1 DEF Places
<1>3. Kept(s, S) = t BY DEF Kept
<1> HIDE DEF p
<1>4. Cardinality(p) \in Nat /\ \A i \in p : Rank(p, i) \in 1..Cardinality(p)
  BY <1>1, <1>2, RankGrows
<1>5. \A i, j \in p : i < j => Rank(p, i) < Rank(p, j) BY <1>1, <1>2, RankGrows
<1>6. \A k \in 1..Cardinality(p) : at(k) \in p /\ Rank(p, at(k)) = k
  BY <1>1, <1>2, RankIsOnto
<1> HIDE DEF at
<1>7. t \in Seq(T) /\ Len(t) = Cardinality(p) /\ DOMAIN t = 1..Cardinality(p)
  <2>1. \A k \in 1..Cardinality(p) : s[at(k)] \in T BY <1>1, <1>2, <1>6
  <2> QED BY <1>4, <2>1, IsASeq
<1>8. ASSUME NEW i \in p PROVE at(Rank(p, i)) = i
  <2>1. Rank(p, i) \in 1..Cardinality(p) BY <1>4
  <2>2. at(Rank(p, i)) \in p /\ Rank(p, at(Rank(p, i))) = Rank(p, i) BY <1>6, <2>1
  <2>3. ~(at(Rank(p, i)) < i) /\ ~(i < at(Rank(p, i))) BY <1>4, <1>5, <2>2
  <2>4. i \in 1..Len(s) /\ at(Rank(p, i)) \in 1..Len(s) BY <1>2, <2>2
  <2> QED BY <1>1, <2>3, <2>4
<1>9. ToSet(t) = ToSet(s) \cap S
  <2>1. ASSUME NEW k \in 1..Cardinality(p) PROVE t[k] \in ToSet(s) \cap S
    BY <1>1, <1>2, <1>6 DEF ToSet
  <2>2. ASSUME NEW i \in 1..Len(s), s[i] \in S PROVE s[i] \in ToSet(t)
    <3>1. i \in p BY <1>2, <2>2
    <3>2. Rank(p, i) \in 1..Cardinality(p) /\ t[Rank(p, i)] = s[i] BY <1>4, <1>8, <3>1
    <3> QED BY <1>7, <3>2 DEF ToSet
  <2> QED BY <1>1, <1>7, <2>1, <2>2 DEF ToSet
<1>10. ASSUME IsInjective(s) PROVE IsInjective(t)
  <2> SUFFICES ASSUME NEW k \in 1..Cardinality(p), NEW l \in 1..Cardinality(p), t[k] = t[l]
               PROVE  k = l
    BY <1>7 DEF IsInjective
  <2>1. s[at(k)] = s[at(l)] OBVIOUS
  <2>2. at(k) = at(l) BY <1>1, <1>2, <1>6, <1>10, <2>1 DEF IsInjective
  <2> QED BY <1>6, <2>2
<1> QED BY <1>3, <1>7, <1>9, <1>10 DEF p

\* A sequence that repeats nothing is as long as what it holds is large.
LEMMA LenIsSize ==
  ASSUME NEW T, NEW s \in Seq(T), IsInjective(s)
  PROVE  IsFiniteSet(ToSet(s)) /\ Cardinality(ToSet(s)) = Len(s) /\ Len(s) \in Nat
<1>1. Len(s) \in Nat /\ DOMAIN s = 1..Len(s) /\ s \in [1..Len(s) -> ToSet(s)]
  BY LenProperties DEF ToSet
<1>2. s \in Injection(1..Len(s), ToSet(s)) BY <1>1 DEF Injection
<1>3. s \in Surjection(1..Len(s), ToSet(s)) BY <1>1 DEF Surjection, ToSet
<1>4. IsFiniteSet(1..Len(s)) /\ Cardinality(1..Len(s)) = Len(s) BY <1>1, FS_Interval
<1> HIDE <1>1
<1> QED BY <1>1, <1>2, <1>3, <1>4, FS_Surjection

----------------------------------------------------------------------------
(* The operations of the manager.  Loose is Manager without the bounds that *)
(* only its requests give it.                                               *)

Loose ==
  [busy : [Account -> Nat], cool : [Account -> 0..Bench], prov : [Account -> 0..Bench],
   dead : SUBSET Account, amb : SUBSET Account, until : Never..Bench,
   probing : BOOLEAN, failed : 0..MaxFailed, waiting : Seq(Request), bytes : Nat,
   ramp : BOOLEAN, recent : BOOLEAN]

(* What the queue is on its own, and what else leaves it as it is *)
Orderly(m) ==
  /\ m \in Loose /\ IsInjective(m.waiting) /\ m.bytes <= Len(m.waiting)
Beside(m, n) == n.busy = m.busy /\ n.probing = m.probing
SameQueue(m, n) == n.waiting = m.waiting /\ n.bytes = m.bytes

\* The breaker's operations lose the probe, and nothing of the queue or the leases.
LEMMA BreakerKeeps ==
  ASSUME NEW m \in Loose,
         NEW n \in {Throttled(m), Cleared(m), Relinquished(m), Deferred(m)}
  PROVE  n \in Loose /\ SameQueue(m, n) /\ n.busy = m.busy /\ ~n.probing
<1> USE DEF Loose, SameQueue
<1>1. 0 \in 0..MaxFailed /\ Never \in Never..Bench /\ Bench \in Never..Bench
  BY AdmissionAssumption DEF Never
<1>2. CASE n = Throttled(m)
  <2>1. Larger(m.until, Bench) \in Never..Bench BY <1>1 DEF Larger, Never
  <2> QED BY <1>2, <1>1, <2>1 DEF Throttled
<1>3. Cleared(m) \in Loose /\ SameQueue(m, Cleared(m)) /\ Cleared(m).busy = m.busy
      /\ ~Cleared(m).probing
  BY <1>1 DEF Cleared
<1>4. CASE n = Cleared(m) BY <1>3, <1>4
<1>5. CASE n = Relinquished(m) BY <1>5 DEF Relinquished
<1>6. CASE n = Deferred(m)
  <2>1. CASE m.until = Never /\ ~m.probing
    <3>1. n = m BY <1>6, <2>1 DEF Deferred
    <3> QED BY <2>1, <3>1
  <2>2. CASE ~(m.until = Never /\ ~m.probing) /\ m.failed + 1 >= MaxFailed
    BY <1>3, <1>6, <2>2 DEF Deferred
  <2>3. CASE ~(m.until = Never /\ ~m.probing) /\ ~(m.failed + 1 >= MaxFailed)
    <3>1. m.failed + 1 \in 0..MaxFailed BY <2>3, AdmissionAssumption
    <3>2. n = [m EXCEPT !.failed = m.failed + 1, !.until = Bench, !.probing = FALSE]
      BY <1>6, <2>3 DEF Deferred
    <3> HIDE AdmissionAssumption
    <3> QED BY <1>1, <3>1, <3>2
  <2> QED BY <2>1, <2>2, <2>3
<1> QED BY <1>2, <1>4, <1>5, <1>6

\* Benches touch neither the queue, the leases nor the probe.
LEMMA BenchKeeps ==
  ASSUME NEW m \in Loose, NEW a \in Account, NEW s,
         NEW n \in {Cooled(m, a), Killed(m, a), Suspected(m, a), Unsuspected(m, s), Absolved(m)}
  PROVE  n \in Loose /\ SameQueue(m, n) /\ Beside(m, n)
<1> USE DEF Loose, SameQueue, Beside
<1>1. 0 \in 0..Bench /\ Bench \in 0..Bench BY AdmissionAssumption
<1>2. CASE n = Cooled(m, a) BY <1>1, <1>2 DEF Cooled
<1>3. CASE n = Killed(m, a) BY <1>3 DEF Killed
<1>4. CASE n = Suspected(m, a) BY <1>1, <1>4 DEF Suspected
<1>5. CASE n = Unsuspected(m, s)
  <2>1. [c \in Account |-> IF c \in s THEN 0 ELSE m.prov[c]] \in [Account -> 0..Bench]
    BY <1>1
  <2> QED BY <1>5, <2>1 DEF Unsuspected
<1>6. CASE n = Absolved(m)
  <2>1. [c \in Account |-> IF c \in m.amb THEN 0 ELSE m.cool[c]] \in [Account -> 0..Bench]
    BY <1>1
  <2> QED BY <1>6, <2>1 DEF Absolved
<1> QED BY <1>2, <1>3, <1>4, <1>5, <1>6

\* A release takes one from the count of the account, and the probe it carries.
LEMMA ReleasedKeeps ==
  ASSUME NEW m \in Loose, NEW a \in Account, NEW probe \in BOOLEAN,
         NEW outcome \in {"ok", "failed", "throttled"}
  PROVE  LET n == Released(m, a, probe, outcome) IN
         /\ n \in Loose /\ SameQueue(m, n)
         /\ n.busy = [m.busy EXCEPT ![a] = Less(@)]
         /\ n.probing => m.probing /\ ~(probe /\ outcome # "throttled")
<1> DEFINE f == [m.busy EXCEPT ![a] = Less(@)]
           k == [m EXCEPT !.busy = f]
<1>1. f \in [Account -> Nat] BY DEF Loose, Less
<1>2. k \in Loose /\ SameQueue(m, k) /\ k.busy = f /\ k.probing = m.probing
  <2> HIDE DEF f
  <2> QED BY <1>1 DEF Loose, SameQueue
<1>3. [m EXCEPT !.busy[a] = Less(@)] = k BY DEF Loose
<1> HIDE DEF k
<1>4. CASE probe /\ outcome = "ok"
  <2>1. Released(m, a, probe, outcome) = Cleared(k) BY <1>3, <1>4 DEF Released
  <2> QED BY <1>2, <2>1, BreakerKeeps DEF SameQueue
<1>5. CASE probe /\ outcome = "failed"
  <2>1. Released(m, a, probe, outcome) = Deferred(k) BY <1>3, <1>5 DEF Released
  <2> QED BY <1>2, <2>1, BreakerKeeps DEF SameQueue
<1>6. CASE ~probe \/ outcome = "throttled"
  <2>1. Released(m, a, probe, outcome) = k BY <1>3, <1>6 DEF Released
  <2> QED BY <1>2, <1>6, <2>1
<1> QED BY <1>4, <1>5, <1>6

LEMMA AcquiredKeeps ==
  ASSUME NEW m \in Loose, NEW a \in Account
  PROVE  LET n == Acquired(m, a) IN
         /\ n \in Loose /\ SameQueue(m, n)
         /\ n.busy = [m.busy EXCEPT ![a] = @ + 1]
         /\ n.probing = (m.probing \/ Claims(m, a))
<1> DEFINE f == [m.busy EXCEPT ![a] = @ + 1]
           p == m.probing \/ Claims(m, a)
<1>1. f \in [Account -> Nat] BY DEF Loose
<1>2. p \in BOOLEAN BY DEF Loose, Claims, MayProbe
<1>3. Acquired(m, a) = [m EXCEPT !.busy = f, !.probing = p] BY DEF Acquired, Loose
<1> HIDE DEF f, p
<1>4. /\ [m EXCEPT !.busy = f, !.probing = p] \in Loose
      /\ SameQueue(m, [m EXCEPT !.busy = f, !.probing = p])
  BY <1>1, <1>2 DEF Loose, SameQueue
<1> QED BY <1>3, <1>4 DEF Loose, f, p

----------------------------------------------------------------------------
(* The operations of the queue *)

LEMMA DroppedKeeps ==
  ASSUME NEW m, Orderly(m), NEW gone \in SUBSET Request
  PROVE  LET n == Dropped(m, gone) IN
         /\ Orderly(n) /\ Beside(m, n)
         /\ ToSet(n.waiting) = ToSet(m.waiting) \ gone
<1> DEFINE w == m.waiting
           t == Kept(w, Request \ gone)
           k == Cardinality(gone \cap ToSet(w))
<1>1. w \in Seq(Request) /\ IsInjective(w) /\ m.bytes \in Nat /\ m.bytes <= Len(w)
  BY DEF Orderly, Loose
<1> HIDE DEF w
<1>2. t \in Seq(Request) /\ IsInjective(t) /\ ToSet(t) = ToSet(w) \cap (Request \ gone)
  BY <1>1, KeptPlaces
<1> HIDE DEF t
<1>3. ToSet(w) \subseteq Request BY <1>1 DEF ToSet
<1>4. ToSet(t) = ToSet(w) \ gone BY <1>2, <1>3
<1>5. /\ IsFiniteSet(ToSet(w)) /\ Cardinality(ToSet(w)) = Len(w) /\ Len(w) \in Nat
      /\ Cardinality(ToSet(t)) = Len(t) /\ Len(t) \in Nat
  BY <1>1, <1>2, LenIsSize
<1>6. Len(t) = Len(w) - k /\ k \in Nat
  <2>1. ToSet(w) \cap gone = gone \cap ToSet(w) OBVIOUS
  <2>2. Cardinality(ToSet(w) \ gone) = Cardinality(ToSet(w)) - Cardinality(ToSet(w) \cap gone)
    BY <1>5, FS_Difference
  <2>3. k \in Nat BY <1>5, <2>1, FS_Subset, FS_CardinalityType
  <2> QED BY <1>4, <1>5, <2>1, <2>2, <2>3
<1> HIDE DEF k
<1>7. Fewer(m.bytes, k) \in Nat /\ Fewer(m.bytes, k) <= Len(t)
  BY <1>1, <1>5, <1>6 DEF Fewer, Larger
<1>8. Dropped(m, gone) = [m EXCEPT !.waiting = t, !.bytes = Fewer(m.bytes, k)]
  BY DEF Dropped, Orderly, Loose, w, t, k
<1> QED BY <1>2, <1>4, <1>7, <1>8 DEF Orderly, Loose, Beside, w

\* There is always a first head that is not stale, or none is left.
LEMMA StaleHeadsExist ==
  ASSUME NEW m, m.waiting \in Seq(Request), NEW late
  PROVE  StaleHeads(m, late) \in 0..Len(m.waiting)
<1> DEFINE w    == m.waiting
           P(k) == /\ \A j \in 1..k : w[j] \in late
                   /\ k < Len(w) => w[k + 1] \notin late
           live == {k \in 0..Len(w) : k < Len(w) => w[k + 1] \notin late}
<1>1. Len(w) \in Nat OBVIOUS
<1> SUFFICES \E k \in 0..Len(w) : P(k) BY DEF StaleHeads
<1>2. live # {} /\ live \subseteq Nat
  <2>1. Len(w) \in live BY <1>1
  <2> QED BY <2>1
<1>3. PICK k \in live : \A j \in live : ~(<<j, k>> \in OpToRel(<, Nat))
  <2> HIDE DEF live
  <2> QED BY <1>2, NatLessThanWellFounded, WFMin
<1>4. k \in 0..Len(w) /\ (k < Len(w) => w[k + 1] \notin late) OBVIOUS
<1>5. ASSUME NEW j \in 1..k PROVE w[j] \in late
  <2>1. j - 1 \in 0..Len(w) /\ j - 1 < k /\ j - 1 \in Nat /\ k \in Nat
    BY <1>1, <1>4
  <2>2. j - 1 \notin live BY <1>3, <2>1 DEF OpToRel
  <2> QED BY <2>1, <2>2
<1> QED BY <1>4, <1>5

LEMMA ReapedKeeps ==
  ASSUME NEW m, Orderly(m), NEW late
  PROVE  LET n == Reaped(m, late) IN
         /\ Orderly(n) /\ Beside(m, n)
         /\ ToSet(n.waiting) \subseteq ToSet(m.waiting)
<1> DEFINE w == m.waiting
           k == StaleHeads(m, late)
           t == SubSeq(w, k + 1, Len(w))
<1>1. /\ w \in Seq(Request) /\ m.bytes \in Nat /\ m.bytes <= Len(w) /\ Len(w) \in Nat
      /\ \A i, j \in 1..Len(w) : w[i] = w[j] => i = j
      /\ \A i \in 1..Len(w) : w[i] \in Request
  BY DEF Orderly, Loose, IsInjective
<1>2. k \in 0..Len(w) BY <1>1, StaleHeadsExist
<1> HIDE DEF k
<1>3. /\ t \in Seq(Request) /\ Len(t) = Len(w) - k
      /\ \A i \in 1..Len(t) : t[i] = w[k + i]
  <2>1. \A i \in (k + 1)..Len(w) : w[i] \in Request BY <1>1, <1>2
  <2>2. /\ t \in Seq(Request)
        /\ Len(t) = IF k + 1 <= Len(w) THEN Len(w) - (k + 1) + 1 ELSE 0
        /\ \A i \in 1..(Len(w) - (k + 1) + 1) : t[i] = w[(k + 1) + i - 1]
    BY <1>1, <1>2, <2>1, SubSeqProperties
  <2>3. Len(t) = Len(w) - k BY <1>1, <1>2, <2>2
  <2>4. ASSUME NEW i \in 1..Len(t) PROVE t[i] = w[k + i]
    <3>1. i \in 1..(Len(w) - (k + 1) + 1) /\ (k + 1) + i - 1 = k + i BY <1>1, <1>2, <2>3
    <3>2. t[i] = w[(k + 1) + i - 1] BY <2>2, <3>1
    <3> QED BY <3>1, <3>2
  <2> QED BY <2>2, <2>3, <2>4
<1> HIDE DEF t, w
<1>4. ASSUME NEW i \in 1..Len(t) PROVE k + i \in 1..Len(w)
  BY <1>1, <1>2, <1>3
<1>5. IsInjective(t)
  <2> SUFFICES ASSUME NEW i \in 1..Len(t), NEW j \in 1..Len(t), t[i] = t[j] PROVE i = j
    BY <1>3 DEF IsInjective
  <2>1. k + i = k + j BY <1>1, <1>3, <1>4
  <2> QED BY <1>2, <2>1
<1>6. ToSet(t) \subseteq ToSet(w)
  BY <1>1, <1>3, <1>4 DEF ToSet
<1>7. Fewer(m.bytes, k) \in Nat /\ Fewer(m.bytes, k) <= Len(t)
  BY <1>1, <1>2, <1>3 DEF Fewer, Larger
<1>8. Reaped(m, late) = [m EXCEPT !.waiting = t, !.bytes = Fewer(m.bytes, k)]
  BY DEF Reaped, Orderly, Loose, w, t, k
<1> QED BY <1>3, <1>5, <1>6, <1>7, <1>8 DEF Orderly, Loose, Beside, w

\* A request that is not in the queue goes to its end.
LEMMA QueuedKeeps ==
  ASSUME NEW m, Orderly(m), NEW r \in Request, r \notin ToSet(m.waiting)
  PROVE  LET n == Queued(m, r) IN
         /\ Orderly(n) /\ Beside(m, n)
         /\ ToSet(n.waiting) = ToSet(m.waiting) \cup {r}
<1> DEFINE w == m.waiting
           t == Append(w, r)
<1>1. /\ w \in Seq(Request) /\ m.bytes \in Nat /\ m.bytes <= Len(w) /\ Len(w) \in Nat
      /\ \A i, j \in 1..Len(w) : w[i] = w[j] => i = j
      /\ \A i \in 1..Len(w) : w[i] # r
  BY DEF Orderly, Loose, IsInjective, ToSet
<1>2. /\ t \in Seq(Request) /\ Len(t) = Len(w) + 1 /\ t[Len(w) + 1] = r
      /\ \A i \in 1..Len(w) : t[i] = w[i]
  BY <1>1
<1> HIDE DEF t
<1>3. IsInjective(t)
  <2> SUFFICES ASSUME NEW i \in 1..Len(t), NEW j \in 1..Len(t), t[i] = t[j] PROVE i = j
    BY <1>2 DEF IsInjective
  <2>1. i \in 1..Len(w) \/ i = Len(w) + 1 BY <1>1, <1>2
  <2>2. j \in 1..Len(w) \/ j = Len(w) + 1 BY <1>1, <1>2
  <2> QED BY <1>1, <1>2, <2>1, <2>2
<1>4. ToSet(t) = ToSet(w) \cup {r}
  <2>1. DOMAIN t = 1..(Len(w) + 1) /\ DOMAIN w = 1..Len(w) BY <1>1, <1>2
  <2>2. ASSUME NEW i \in 1..(Len(w) + 1) PROVE t[i] \in ToSet(w) \cup {r}
    <3>1. i \in 1..Len(w) \/ i = Len(w) + 1 BY <1>1
    <3> QED BY <1>2, <2>1, <3>1 DEF ToSet
  <2>3. ASSUME NEW i \in 1..Len(w) PROVE w[i] \in ToSet(t)
    <3>1. i \in 1..(Len(w) + 1) BY <1>1
    <3> QED BY <1>2, <2>1, <3>1 DEF ToSet
  <2>4. r \in ToSet(t)
    <3>1. Len(w) + 1 \in 1..(Len(w) + 1) BY <1>1
    <3> QED BY <1>2, <2>1, <3>1 DEF ToSet
  <2> QED BY <2>1, <2>2, <2>3, <2>4 DEF ToSet
<1>5. Queued(m, r) = [m EXCEPT !.waiting = t, !.bytes = m.bytes + 1]
  BY DEF Queued, Orderly, Loose, t
<1>6. m.bytes + 1 \in Nat /\ m.bytes + 1 <= Len(t) BY <1>1, <1>2
<1> QED BY <1>2, <1>3, <1>4, <1>5, <1>6 DEF Orderly, Loose, Beside

\* An admission takes the request, wherever it stands, and nothing else.
LEMMA AdmittedKeeps ==
  ASSUME NEW m, Orderly(m), NEW r \in Request
  PROVE  LET n == Admitted(m, r) IN
         /\ Orderly(n) /\ Beside(m, n)
         /\ ToSet(n.waiting) = ToSet(m.waiting) \ {r}
<1> DEFINE w == m.waiting
           t == Kept(w, Request \ {r})
<1>1. w \in Seq(Request) /\ IsInjective(w) /\ m.bytes \in Nat /\ m.bytes <= Len(w)
  BY DEF Orderly, Loose
<1> HIDE DEF w
<1>2. t \in Seq(Request) /\ IsInjective(t) /\ ToSet(t) = ToSet(w) \cap (Request \ {r})
  BY <1>1, KeptPlaces
<1> HIDE DEF t
<1>3. ToSet(t) = ToSet(w) \ {r} BY <1>1, <1>2 DEF ToSet
<1>4. /\ IsFiniteSet(ToSet(w)) /\ Cardinality(ToSet(w)) = Len(w) /\ Len(w) \in Nat
      /\ Cardinality(ToSet(t)) = Len(t) /\ Len(t) \in Nat
  BY <1>1, <1>2, LenIsSize
<1>5. Len(t) >= Len(w) - 1
  <2>1. Cardinality(ToSet(w) \ {r})
          = IF r \in ToSet(w) THEN Cardinality(ToSet(w)) - 1 ELSE Cardinality(ToSet(w))
    BY <1>4, FS_RemoveElement
  <2> QED BY <1>3, <1>4, <2>1
<1>6. Fewer(m.bytes, 1) \in Nat /\ Fewer(m.bytes, 1) <= Len(t)
  BY <1>1, <1>4, <1>5 DEF Fewer, Larger
<1>7. Admitted(m, r) = [m EXCEPT !.waiting = t, !.bytes = Fewer(m.bytes, 1), !.recent = m.ramp]
  BY DEF Admitted, Orderly, Loose, w, t
<1> QED BY <1>2, <1>3, <1>6, <1>7 DEF Orderly, Loose, Beside, w

\* An orderly queue is within its bounds, and so is the count of the leases.
LEMMA OrderlyFits ==
  ASSUME NEW m, Orderly(m), \A a \in Account : m.busy[a] <= Cardinality(Request)
  PROVE  m \in Manager
<1>1. IsFiniteSet(Request) /\ Cardinality(Request) \in Nat
  BY AdmissionAssumption, FS_CardinalityType
<1>2. /\ IsFiniteSet(ToSet(m.waiting)) /\ Cardinality(ToSet(m.waiting)) = Len(m.waiting)
      /\ Len(m.waiting) \in Nat
  BY LenIsSize DEF Orderly, Loose
<1>3. ToSet(m.waiting) \subseteq Request BY DEF Orderly, Loose, ToSet
<1>4. Len(m.waiting) <= Cardinality(Request) BY <1>1, <1>2, <1>3, FS_Subset
<1>5. m.bytes \in 0..Cardinality(Request) BY <1>1, <1>2, <1>4 DEF Orderly, Loose
<1>6. m.busy \in [Account -> 0..Cardinality(Request)] BY <1>1 DEF Orderly, Loose
<1> QED BY <1>5, <1>6 DEF Orderly, Loose, Manager

----------------------------------------------------------------------------
(* Between the two halves of a handler of r, m is the manager and i what r *)
(* goes on with.                                                           *)

Apart(m, r) ==
  /\ Orderly(m)
  /\ \A a \in Account : m.busy[a] = Cardinality(Carriers(a, Request \ {r}))
  /\ m.probing => \E x \in Request \ {r} : Leased(req[x]) /\ req[x].probe
  /\ \A x \in ToSet(m.waiting) : x # r /\ Waiting(x) /\ req[x].ticket

GoesOn(i) ==
  /\ i \in Info /\ ~i.ticket /\ (i.wire = "real" => ~i.beat)
  /\ i.tries <= MaxAttempts + Cardinality(i.mended)

(* What every step of r keeps: the invariant, the place of the others, the *)
(* order of the queue, and the bytes of a response.                        *)
Keeps(r) ==
  /\ FwdInv'
  /\ \A x \in Request \ {r} : req'[x].pc = req[x].pc
  /\ req'[r].pc = "token" /\ req[r].pc # "token" /\ req'[r].acct \in Claude
       => Waiting(r) \/ am.waiting = <<>>
  /\ req[r].wire = "real" => req'[r].pc \in {"answer", "done"}

\* The parts of the invariant that concern the manager
LEMMA ManagerOrderly == ASSUME FwdInv PROVE Orderly(am)
  BY DEF FwdInv, TypeOK, Manager, Loose, Orderly, NoPhantomBytes, QueueIsLive

LEMMA CarriersFinite ==
  ASSUME NEW a, NEW S \in SUBSET Request
  PROVE  /\ IsFiniteSet(Carriers(a, S)) /\ Cardinality(Carriers(a, S)) \in Nat
         /\ Cardinality(Carriers(a, S)) <= Cardinality(Request)
<1>1. IsFiniteSet(Request) BY AdmissionAssumption
<1>2. Carriers(a, S) \in SUBSET Request BY DEF Carriers
<1> QED BY <1>1, <1>2, FS_Subset, FS_CardinalityType

\* A lease given back, whatever its outcome, leaves the rest counted right.
LEMMA ApartOnceReleased ==
  ASSUME FwdInv, NEW r \in Request, Leased(req[r]), Acct(r) \in Account,
         NEW n \in Loose, SameQueue(am, n),
         n.busy = [am.busy EXCEPT ![Acct(r)] = Less(@)],
         n.probing => am.probing /\ ~req[r].probe
  PROVE  Apart(n, r)
<1>1. Orderly(am) BY ManagerOrderly
<1>2. Orderly(n) BY <1>1 DEF Orderly, SameQueue
<1>3. ASSUME NEW a \in Account PROVE n.busy[a] = Cardinality(Carriers(a, Request \ {r}))
  <2> DEFINE all  == Carriers(a, Request)
             rest == Carriers(a, Request \ {r})
  <2>1. am.busy[a] = Cardinality(all) /\ am.busy \in [Account -> Nat]
    BY <1>1 DEF FwdInv, LeasesCounted, Carriers, Orderly, Loose
  <2>2. IsFiniteSet(all) /\ Cardinality(all) \in Nat BY CarriersFinite
  <2>3. CASE a = Acct(r)
    <3>1. rest = all \ {r} /\ r \in all BY <2>3 DEF Carriers
    <3>2. Cardinality(rest) \in Nat BY CarriersFinite
    <3> HIDE DEF all, rest
    <3>3. Cardinality(rest) = Cardinality(all) - 1 BY <2>2, <3>1, FS_RemoveElement
    <3> QED BY <2>1, <2>2, <2>3, <3>2, <3>3 DEF Less, rest
  <2>4. CASE a # Acct(r)
    <3>1. rest = all BY <2>4 DEF Carriers
    <3> QED BY <2>1, <2>4, <3>1
  <2> QED BY <2>3, <2>4
<1>4. ASSUME n.probing PROVE \E x \in Request \ {r} : Leased(req[x]) /\ req[x].probe
  BY <1>4 DEF FwdInv, ProbeIsCarried
<1>5. \A x \in ToSet(n.waiting) : x # r /\ Waiting(x) /\ req[x].ticket
  BY DEF FwdInv, QueueIsLive, SameQueue, Waiting, Leased
<1> QED BY <1>2, <1>3, <1>4, <1>5 DEF Apart

\* A request that has neither a lease nor a place in the queue is apart as it is.
LEMMA ApartAsItIs ==
  ASSUME FwdInv, NEW r \in Request, ~Leased(req[r]),
         NEW m, Orderly(m), Beside(am, m), ToSet(m.waiting) \subseteq ToSet(am.waiting) \ {r}
  PROVE  Apart(m, r)
<1>1. ASSUME NEW a \in Account PROVE m.busy[a] = Cardinality(Carriers(a, Request \ {r}))
  <2>1. Carriers(a, Request \ {r}) = {x \in Request : Leased(req[x]) /\ Acct(x) = a}
    BY DEF Carriers
  <2> QED BY <2>1 DEF FwdInv, LeasesCounted, Beside
<1>2. ASSUME m.probing PROVE \E x \in Request \ {r} : Leased(req[x]) /\ req[x].probe
  BY <1>2 DEF FwdInv, ProbeIsCarried, Beside
<1>3. \A x \in ToSet(m.waiting) : x # r /\ Waiting(x) /\ req[x].ticket
  BY DEF FwdInv, QueueIsLive
<1> QED BY <1>1, <1>2, <1>3 DEF Apart

(* Of the others a handler takes tickets, and it tells those with an        *)
(* incident that a request has been accepted.                               *)
Nudged(x) ==
  \E t, b \in BOOLEAN :
    /\ req'[x] = [req[x] EXCEPT !.ticket = t, !.rebutted = b]
    /\ t => req[x].ticket
    /\ req[x].blamed = {} => b = req[x].rebutted

LEMMA NudgedKeeps ==
  ASSUME FwdInv, NEW x \in Request, Nudged(x)
  PROVE  /\ req'[x] \in Info /\ Settled(x, req'[x])
         /\ Leased(req'[x]) = Leased(req[x]) /\ req'[x].acct = req[x].acct
         /\ req'[x].probe = req[x].probe /\ req'[x].pc = req[x].pc
<1>1. req[x] \in Info /\ Settled(x, req[x]) BY DEF FwdInv, TypeOK, AllSettled
<1>2. PICK t \in BOOLEAN, b \in BOOLEAN :
        /\ req'[x] = [req[x] EXCEPT !.ticket = t, !.rebutted = b]
        /\ t => req[x].ticket
        /\ req[x].blamed = {} => b = req[x].rebutted
  BY DEF Nudged
<1>3. req'[x] = [req[x] EXCEPT !.ticket = t, !.rebutted = b] BY <1>2
<1>4. req'[x] \in Info
  <2>1. req[x] \in Info BY <1>1
  <2> QED BY ZenonT(60), <1>3, <2>1 DEF Info
<1>5. /\ req'[x].pc = req[x].pc /\ req'[x].acct = req[x].acct
      /\ req'[x].probe = req[x].probe /\ req'[x].wire = req[x].wire
      /\ req'[x].beat = req[x].beat /\ req'[x].admitted = req[x].admitted
      /\ req'[x].tries = req[x].tries /\ req'[x].mended = req[x].mended
      /\ req'[x].ticket = t
  BY <1>1, <1>2 DEF Info
<1>6. ASSUME req[x].pc = "new" PROVE req'[x] = Fresh
  <2>1. req[x] = Fresh BY <1>1, <1>6 DEF Settled
  <2>2. req[x].ticket = FALSE /\ req[x].blamed = {} BY <2>1 DEF Fresh
  <2>3. t = FALSE BY <1>2, <2>2
  <2>4. t = req[x].ticket /\ b = req[x].rebutted BY <1>2, <2>2, <2>3
  <2>5. req'[x] = req[x] BY <1>1, <1>3, <2>4 DEF Info
  <2> QED BY <2>1, <2>5
<1> QED BY <1>1, <1>2, <1>4, <1>5, <1>6 DEF Settled, Leased

(* Putting r back.  The invariant holds of what is left once the request   *)
(* is neither leased nor queued, leased and counted, or queued and waiting. *)
LEMMA Together ==
  ASSUME FwdInv, NEW r \in Request, NEW m, Apart(m, r), NEW i \in Info, Settled(r, i),
         req' \in [Request -> Info], req'[r] = i, UNCHANGED faults,
         \A x \in Request \ {r} : Nudged(x),
         \A x \in ToSet(am'.waiting) \ {r} : x \in ToSet(m.waiting) /\ req'[x].ticket,
         Orderly(am'),
         r \in ToSet(am'.waiting) => i.pc = "queued" /\ i.ticket,
         \/ ~Leased(i) /\ Beside(m, am')
         \/ /\ Leased(i) /\ i.acct \in Account
            /\ am'.busy = [m.busy EXCEPT ![i.acct] = @ + 1]
            /\ am'.probing => m.probing \/ i.probe
  PROVE  FwdInv'
<1>1. ASSUME NEW x \in Request \ {r}
      PROVE  /\ Leased(req'[x]) = Leased(req[x]) /\ req'[x].acct = req[x].acct
             /\ req'[x].probe = req[x].probe /\ req'[x].pc = req[x].pc
             /\ Settled(x, req'[x])
  BY NudgedKeeps
<1>2. AllSettled' BY <1>1 DEF AllSettled
<1>3. ASSUME NEW a \in Account
      PROVE  /\ am'.busy[a] = Cardinality({x \in Request : Leased(req'[x]) /\ req'[x].acct = a})
             /\ am'.busy[a] <= Cardinality(Request)
  <2> DEFINE rest == Carriers(a, Request \ {r})
             all  == {x \in Request : Leased(req'[x]) /\ req'[x].acct = a}
  <2>1. m.busy[a] = Cardinality(rest) /\ m.busy \in [Account -> Nat]
    BY DEF Apart, Orderly, Loose
  <2>2. IsFiniteSet(rest) /\ Cardinality(rest) \in Nat BY CarriersFinite
  <2>3. /\ Leased(i) /\ i.acct = a => all = rest \cup {r}
        /\ ~(Leased(i) /\ i.acct = a) => all = rest
    <3>1. \A x \in Request \ {r} : x \in all <=> x \in rest BY <1>1 DEF Carriers, Acct
    <3>2. r \in all <=> Leased(i) /\ i.acct = a OBVIOUS
    <3>3. all \subseteq Request /\ rest \subseteq Request \ {r} BY DEF Carriers
    <3> HIDE DEF all, rest
    <3> QED BY <3>1, <3>2, <3>3
  <2>4. r \notin rest BY DEF Carriers
  <2>5. all \in SUBSET Request /\ IsFiniteSet(Request) BY AdmissionAssumption
  <2>6. Cardinality(all) <= Cardinality(Request) BY <2>5, FS_Subset
  <2> HIDE DEF rest, all
  <2>7. CASE Leased(i) /\ i.acct = a
    <3>1. Cardinality(all) = Cardinality(rest) + 1 BY <2>2, <2>3, <2>4, <2>7, FS_AddElement
    <3>2. am'.busy[a] = m.busy[a] + 1 BY <2>1, <2>7
    <3> QED BY <2>1, <2>6, <3>1, <3>2 DEF all
  <2>8. CASE ~(Leased(i) /\ i.acct = a)
    <3>1. am'.busy[a] = m.busy[a] BY <2>1, <2>8 DEF Beside
    <3> QED BY <2>1, <2>3, <2>6, <2>8, <3>1 DEF all
  <2> QED BY <2>7, <2>8
<1>4. LeasesCounted' BY <1>3 DEF LeasesCounted, Acct
<1>5. TypeOK' BY <1>3, OrderlyFits DEF TypeOK, FwdInv
<1>6. ProbeIsCarried'
  <2> SUFFICES ASSUME am'.probing PROVE \E x \in Request : Leased(req'[x]) /\ req'[x].probe
    BY DEF ProbeIsCarried
  <2>1. CASE m.probing
    <3>1. PICK x \in Request \ {r} : Leased(req[x]) /\ req[x].probe BY <2>1 DEF Apart
    <3> QED BY <1>1, <3>1
  <2>2. CASE ~m.probing
    <3>1. Leased(i) /\ i.probe BY <2>2 DEF Beside
    <3> QED BY <3>1
  <2> QED BY <2>1, <2>2
<1>7. NoPhantomBytes' BY DEF NoPhantomBytes, Orderly
<1>8. QueueIsLive'
  <2>1. ASSUME NEW x \in ToSet(am'.waiting) PROVE Waiting(x)' /\ req'[x].ticket
    <3>1. x \in Request BY DEF Orderly, Loose, ToSet
    <3>2. CASE x = r BY <2>1, <3>2 DEF Waiting
    <3>3. CASE x # r
      <4>1. Waiting(x) /\ req'[x].ticket BY <2>1, <3>3 DEF Apart
      <4> QED BY <1>1, <3>1, <3>3, <4>1 DEF Waiting
    <3> QED BY <3>2, <3>3
  <2> QED BY <2>1 DEF QueueIsLive, Orderly
<1> QED BY <1>2, <1>4, <1>5, <1>6, <1>7, <1>8 DEF FwdInv

(* The request is back: leased, and out of turn only if it was admitted,   *)
(* or queued, or answered.                                                 *)
Back(r, m, i) ==
  /\ FwdInv'
  /\ \A x \in Request \ {r} : req'[x].pc = req[x].pc
  /\ req'[r].pc \in {"token", "queued", "done"}
  /\ req'[r].pc = "token" /\ req'[r].acct \in Claude => m.waiting = <<>> \/ i.admitted
  /\ i.wire = "real" => req'[r].pc = "done"

LEMMA UntouchedIsNudged ==
  ASSUME FwdInv, NEW x \in Request, req'[x] = req[x]
  PROVE  Nudged(x)
<1>1. req[x] \in Info BY DEF FwdInv, TypeOK
<1>2. [req[x] EXCEPT !.ticket = req[x].ticket, !.rebutted = req[x].rebutted] = req[x]
  BY <1>1 DEF Info
<1>3. req[x].ticket \in BOOLEAN /\ req[x].rebutted \in BOOLEAN BY <1>1 DEF Info
<1> QED BY <1>2, <1>3 DEF Nudged

LEMMA FreshIsSettled ==
  ASSUME NEW r
  PROVE  /\ Fresh \in Info /\ Settled(r, Fresh)
         /\ LET done == [Fresh EXCEPT !.pc = "done"] IN
            done \in Info /\ Settled(r, done) /\ done.pc = "done" /\ ~Leased(done)
<1>1. IsFiniteSet(Repairs) /\ Cardinality(Repairs) \in Nat /\ Cardinality({}) = 0
  BY ForwardingAssumption, FS_CardinalityType, FS_EmptySet
<1>2. /\ 0 \in 0..(MaxAttempts + Cardinality(Repairs)) /\ 0 \in 0..HeadSkip
      /\ NotHeld \in NotHeld..Window + 1 /\ MaxAttempts \in Nat
  BY <1>1, ForwardingAssumption DEF NotHeld
<1>3. Fresh \in Info BY <1>2 DEF Fresh, Info
<1>4. Settled(r, Fresh) BY <1>1, <1>2 DEF Settled, Fresh
<1> DEFINE done == [Fresh EXCEPT !.pc = "done"]
<1>5. done \in Info BY <1>3 DEF Info
<1>6. /\ done.pc = "done" /\ done.wire = "none" /\ done.ticket = FALSE /\ done.admitted = FALSE
      /\ done.tries = 0 /\ done.mended = {}
  BY DEF Fresh
<1> HIDE DEF done
<1>7. Settled(r, done) BY <1>1, <1>2, <1>6 DEF Settled
<1> QED BY <1>3, <1>4, <1>5, <1>6, <1>7 DEF Leased, done

LEMMA AnswerKeeps ==
  ASSUME FwdInv, NEW r \in Request, NEW m, Apart(m, r), NEW i, Answer(m, r)
  PROVE  Back(r, m, i) /\ req'[r].pc = "done"
<1> DEFINE done == [Fresh EXCEPT !.pc = "done"]
<1>1. done \in Info /\ Settled(r, done) /\ done.pc = "done" /\ ~Leased(done)
  BY FreshIsSettled
<1>2. am' = m /\ req' = [req EXCEPT ![r] = done] /\ UNCHANGED faults
  BY DEF Answer, Set
<1> HIDE DEF done
<1>3. req \in [Request -> Info] BY DEF FwdInv, TypeOK
<1>4. /\ req' \in [Request -> Info] /\ req'[r] = done
      /\ \A x \in Request \ {r} : req'[x] = req[x]
  BY <1>1, <1>2, <1>3
<1>5. \A x \in Request \ {r} : Nudged(x) BY <1>4, UntouchedIsNudged
<1>6. Orderly(am') /\ r \notin ToSet(am'.waiting) BY <1>2 DEF Apart
<1>7. \A x \in ToSet(am'.waiting) \ {r} : x \in ToSet(m.waiting) /\ req'[x].ticket
  <2>1. ToSet(m.waiting) \subseteq Request BY DEF Apart, Orderly, Loose, ToSet
  <2> QED BY <1>2, <1>4, <2>1 DEF Apart
<1>8. Beside(m, am') BY <1>2 DEF Beside
<1>9. FwdInv' BY <1>1, <1>2, <1>4, <1>5, <1>6, <1>7, <1>8, Together
<1> QED BY <1>1, <1>4, <1>9 DEF Back

LEMMA RegisterKeeps ==
  ASSUME FwdInv, NEW r \in Request, NEW m, Apart(m, r), NEW i, GoesOn(i), i.wire # "real",
         Register(m, r, i)
  PROVE  Back(r, m, i)
<1> DEFINE ghosts == Ghosts(r)
           n1     == Reaped(m, Late)
           n      == Dropped(n1, ghosts)
           done   == [Fresh EXCEPT !.pc = "done"]
           holds  == ~Full(n) /\ i.age < Window
           j      == IF holds THEN Held(r, i) ELSE done
<1>1. /\ am' = IF holds THEN Queued(n, r) ELSE n
      /\ req' = [x \in Request |->
                   IF x = r THEN j ELSE [req[x] EXCEPT !.ticket = @ /\ x \notin ghosts]]
      /\ UNCHANGED faults
  BY DEF Register
<1>2. req \in [Request -> Info] BY DEF FwdInv, TypeOK
<1>3. ghosts \in SUBSET Request
  BY ManagerOrderly DEF Ghosts, Orderly, Loose, ToSet
<1>4. /\ Orderly(n) /\ Beside(m, n)
      /\ ToSet(n.waiting) \subseteq ToSet(m.waiting) \ ghosts
  <2>1. Orderly(n1) /\ Beside(m, n1) /\ ToSet(n1.waiting) \subseteq ToSet(m.waiting)
    BY ReapedKeeps DEF Apart
  <2> HIDE DEF n1, ghosts
  <2>2. Orderly(n) /\ Beside(n1, n) /\ ToSet(n.waiting) = ToSet(n1.waiting) \ ghosts
    BY <1>3, <2>1, DroppedKeeps
  <2> QED BY <2>1, <2>2 DEF Beside
<1>5. done \in Info /\ Settled(r, done) /\ done.pc = "done" /\ ~Leased(done)
  BY FreshIsSettled
<1>6. /\ Held(r, i) \in Info /\ Settled(r, Held(r, i))
      /\ Held(r, i).pc = "queued" /\ Held(r, i).ticket
  <2>1. i \in Info BY DEF GoesOn
  <2>2. /\ Beating(r, i) \in Info /\ Beating(r, i).wire # "real"
        /\ Beating(r, i).mended = i.mended
    <3>1. CASE r \in Streams /\ ~i.beat /\ i.wire = "none"
      <4>1. Beating(r, i) = [i EXCEPT !.beat = TRUE, !.wire = "ping"] BY <3>1 DEF Beating
      <4> QED BY ZenonT(60), <2>1, <4>1 DEF Info
    <3>2. CASE ~(r \in Streams /\ ~i.beat /\ i.wire = "none")
      <4>1. Beating(r, i) = i BY <3>2 DEF Beating
      <4> QED BY <2>1, <4>1
    <3> QED BY <3>1, <3>2
  <2> DEFINE b == Beating(r, i)
             h == Held(r, i)
  <2>3. h = [b EXCEPT !.pc = "queued", !.ticket = TRUE, !.waited = 0,
              !.acct = NoAccount, !.probe = FALSE, !.admitted = FALSE,
              !.excluded = {}, !.tries = 0, !.watch = FALSE, !.deaf = FALSE]
    BY DEF Held
  <2> HIDE DEF b, h
  <2>4. Cardinality(b.mended) \in Nat /\ MaxAttempts \in Nat
    <3>1. b.mended \in SUBSET Repairs BY <2>2 DEF Info, b
    <3> QED BY <3>1, ForwardingAssumption, FS_Subset, FS_CardinalityType
  <2>5. 0 \in 0..HeadSkip /\ 0 \in 0..(MaxAttempts + Cardinality(Repairs))
    BY ForwardingAssumption, FS_CardinalityType
  <2>6. h \in Info BY ZenonT(60), <2>2, <2>3, <2>5 DEF Info, b
  <2>7. /\ h.pc = "queued" /\ h.ticket = TRUE /\ h.admitted = FALSE /\ h.wire = b.wire
        /\ h.tries = 0 /\ h.mended = b.mended
    BY <2>2, <2>3 DEF Info, b
  <2>8. Settled(r, h) BY <2>2, <2>4, <2>7 DEF Settled, b
  <2> QED BY <2>6, <2>7, <2>8 DEF h
<1> HIDE DEF n, done, ghosts
<1>7. j \in Info /\ Settled(r, j) /\ ~Leased(j) /\ j.pc \in {"queued", "done"}
      /\ (holds => j.ticket /\ j.pc = "queued")
  BY <1>5, <1>6 DEF Leased
<1> DEFINE held == holds
<1> HIDE DEF j, holds
<1>8. req' \in [Request -> Info] /\ req'[r] = j
  <2>1. ASSUME NEW x \in Request
        PROVE  [req[x] EXCEPT !.ticket = @ /\ x \notin ghosts] \in Info
    <3> DEFINE t == req[x].ticket /\ x \notin ghosts
    <3>1. req[x] \in Info /\ t \in BOOLEAN BY <1>2
    <3> HIDE DEF t
    <3>2. [req[x] EXCEPT !.ticket = t] \in Info BY <3>1 DEF Info
    <3> QED BY <3>2 DEF t
  <2> QED BY <1>1, <1>7, <2>1
<1>9. ASSUME NEW x \in Request \ {r} PROVE Nudged(x)
  <2>1. req[x] \in Info BY <1>2
  <2>2. req'[x] = [req[x] EXCEPT !.ticket = req[x].ticket /\ x \notin ghosts] BY <1>1, <2>1
  <2> DEFINE t == req[x].ticket /\ x \notin ghosts
  <2>3. t \in BOOLEAN /\ req[x].rebutted \in BOOLEAN /\ (t => req[x].ticket)
    BY <2>1 DEF Info
  <2>4. req'[x] = [req[x] EXCEPT !.ticket = t] BY <2>2
  <2> HIDE DEF t
  <2>5. req'[x] = [req[x] EXCEPT !.ticket = t, !.rebutted = req[x].rebutted]
    BY <2>1, <2>4 DEF Info
  <2> QED BY <2>3, <2>5 DEF Nudged
<1>10. ASSUME NEW x \in ToSet(n.waiting)
       PROVE  x \in ToSet(m.waiting) /\ x # r /\ req'[x].ticket
  <2>1. x \in ToSet(m.waiting) /\ x # r /\ req[x].ticket /\ x \notin ghosts
    BY <1>4 DEF Apart
  <2>2. x \in Request BY <2>1 DEF Apart, Orderly, Loose, ToSet
  <2>3. req'[x] = [req[x] EXCEPT !.ticket = @ /\ x \notin ghosts] BY <1>1, <2>1, <2>2
  <2>4. req[x] \in Info BY <1>2, <2>2
  <2>5. req'[x].ticket = (req[x].ticket /\ x \notin ghosts) BY <2>3, <2>4 DEF Info
  <2> QED BY <2>1, <2>5
<1>11. ASSUME holds PROVE FwdInv'
  <2>1. am' = Queued(n, r) BY <1>1, <1>11
  <2>2. r \notin ToSet(n.waiting) BY <1>10
  <2>3. /\ Orderly(am') /\ Beside(n, am')
        /\ ToSet(am'.waiting) = ToSet(n.waiting) \cup {r}
    BY <1>4, <2>1, <2>2, QueuedKeeps
  <2>4. Beside(m, am') BY <1>4, <2>3 DEF Beside
  <2>5. \A x \in ToSet(am'.waiting) \ {r} : x \in ToSet(m.waiting) /\ req'[x].ticket
    BY <1>10, <2>3
  <2> QED BY <1>1, <1>7, <1>8, <1>9, <1>11, <2>3, <2>4, <2>5, Together
<1>12. ASSUME ~holds PROVE FwdInv'
  <2>1. am' = n BY <1>1, <1>12
  <2>2. r \notin ToSet(am'.waiting) BY <1>10, <2>1
  <2> QED BY <1>1, <1>4, <1>7, <1>8, <1>9, <1>10, <2>1, <2>2, Together
<1>13. \A x \in Request \ {r} : req'[x].pc = req[x].pc BY <1>9, NudgedKeeps
<1> QED BY <1>7, <1>8, <1>11, <1>12, <1>13 DEF Back

LEMMA HoldKeeps ==
  ASSUME FwdInv, NEW r \in Request, NEW m, Apart(m, r), NEW i, GoesOn(i), NEW cause,
         Hold(m, r, i, cause)
  PROVE  Back(r, m, i)
<1>1. CASE Answer(m, r) BY <1>1, AnswerKeeps
<1>2. CASE ~RealBytes(i) /\ Register(m, r, HoldStarted(i))
  <2> DEFINE h == HoldStarted(i)
  <2>1. i \in Info /\ i.wire # "real" BY <1>2 DEF RealBytes, GoesOn
  <2>2. Larger(i.age, 0) \in NotHeld..Window + 1
    BY <2>1, ForwardingAssumption DEF Larger, Info, NotHeld
  <2>3. h = [i EXCEPT !.age = Larger(i.age, 0)] BY <2>1 DEF HoldStarted, Info
  <2> HIDE DEF h
  <2>4. /\ h \in Info /\ h.wire = i.wire /\ h.ticket = i.ticket /\ h.tries = i.tries
        /\ h.mended = i.mended /\ h.admitted = i.admitted
    BY <2>1, <2>2, <2>3 DEF Info
  <2>5. GoesOn(h) BY <2>1, <2>4 DEF GoesOn
  <2>6. Back(r, m, h) BY <1>2, <2>1, <2>4, <2>5, RegisterKeeps DEF h
  <2> QED BY <2>1, <2>4, <2>6 DEF Back
<1> QED BY <1>1, <1>2 DEF Hold

LEMMA EnterKeeps ==
  ASSUME FwdInv, NEW r \in Request, NEW m, Apart(m, r), NEW i, GoesOn(i), i.wire # "real",
         Enter(m, r, i)
  PROVE  Back(r, m, i)
<1>1. CASE Hold(m, r, i, "quota") BY <1>1, HoldKeeps
<1>2. ASSUME NEW a \in Route(m, r, i),
             Set(Acquired(m, a), r,
                 [i EXCEPT !.pc = "token", !.acct = a, !.probe = Claims(m, a),
                           !.admitted = FALSE, !.deaf = i.gone,
                           !.watch = a \notin Provider /\ i.wire = "none"])
      PROVE  Back(r, m, i)
  <2> DEFINE c == Claims(m, a)
             w == a \notin Provider /\ i.wire = "none"
             g == i.gone
             j == [i EXCEPT !.pc = "token", !.acct = a, !.probe = c,
                            !.admitted = FALSE, !.deaf = g, !.watch = w]
  <2>1. a \in Account /\ (a \in Claude => m.waiting = <<>> \/ i.ticket \/ i.admitted)
    BY DEF Route, Serves
  <2>2. /\ i \in Info /\ c \in BOOLEAN /\ w \in BOOLEAN /\ g \in BOOLEAN
        /\ a \in Account \cup {NoAccount}
    BY <2>1 DEF Claims, MayProbe, GoesOn, Info
  <2>3. am' = Acquired(m, a) /\ req' = [req EXCEPT ![r] = j] /\ UNCHANGED faults
    BY <1>2 DEF Set
  <2> HIDE DEF c, w, g
  <2>4. j \in Info BY <2>2 DEF Info
  <2>5. /\ j.pc = "token" /\ j.acct = a /\ j.probe = c /\ j.admitted = FALSE
        /\ j.ticket = i.ticket /\ j.wire = i.wire /\ j.tries = i.tries /\ j.mended = i.mended
    BY <2>2 DEF Info
  <2>6. /\ j \in Info /\ j.pc = "token" /\ j.acct = a /\ j.probe = c
        /\ j.admitted = FALSE /\ j.ticket = i.ticket /\ j.wire = i.wire
        /\ j.tries = i.tries /\ j.mended = i.mended
    BY <2>4, <2>5
  <2> HIDE DEF j
  <2>7. Settled(r, j) /\ Leased(j) BY <2>6 DEF Settled, Leased, GoesOn
  <2>8. req \in [Request -> Info] BY DEF FwdInv, TypeOK
  <2>9. /\ req' \in [Request -> Info] /\ req'[r] = j
        /\ \A x \in Request \ {r} : req'[x] = req[x]
    BY <2>3, <2>6, <2>8
  <2>10. \A x \in Request \ {r} : Nudged(x) BY <2>9, UntouchedIsNudged
  <2>11. /\ am' \in Loose /\ SameQueue(m, am') /\ am'.busy = [m.busy EXCEPT ![a] = @ + 1]
         /\ am'.probing => m.probing \/ c
    BY <2>1, <2>3, AcquiredKeeps DEF Apart, Orderly, c
  <2>12. Orderly(am') BY <2>11 DEF Apart, Orderly, SameQueue
  <2>13. /\ r \notin ToSet(am'.waiting)
         /\ \A x \in ToSet(am'.waiting) \ {r} : x \in ToSet(m.waiting) /\ req'[x].ticket
    <3>1. ToSet(m.waiting) \subseteq Request BY DEF Apart, Orderly, Loose, ToSet
    <3> QED BY <2>9, <2>11, <3>1 DEF Apart, SameQueue
  <2>14. FwdInv'
    BY <2>1, <2>3, <2>6, <2>7, <2>9, <2>10, <2>11, <2>12, <2>13, Together
  <2> QED BY <2>1, <2>6, <2>9, <2>14 DEF Back, GoesOn
<1> QED BY <1>1, <1>2 DEF Enter

\* One more attempt stays within what the repairs may add.
LEMMA AgainGoesOn ==
  ASSUME NEW i, GoesOn(i), i.tries < MaxAttempts
  PROVE  GoesOn(Again(i)) /\ Again(i).wire = i.wire /\ Again(i).admitted = i.admitted
<1>1. i \in Info /\ i.mended \in SUBSET Repairs BY DEF GoesOn, Info
<1>2. /\ Cardinality(i.mended) \in Nat /\ Cardinality(Repairs) \in Nat /\ MaxAttempts \in Nat
      /\ Cardinality(i.mended) <= Cardinality(Repairs)
  BY <1>1, ForwardingAssumption, FS_Subset, FS_CardinalityType
<1>3. i.tries \in Nat BY <1>1, <1>2 DEF Info
<1>4. i.tries + 1 \in 0..(MaxAttempts + Cardinality(Repairs)) BY <1>2, <1>3
<1>5. Again(i) = [i EXCEPT !.tries = i.tries + 1] BY DEF Again
<1>6. /\ Again(i) \in Info /\ Again(i).tries = i.tries + 1 /\ Again(i).wire = i.wire
      /\ Again(i).ticket = i.ticket /\ Again(i).beat = i.beat /\ Again(i).mended = i.mended
      /\ Again(i).admitted = i.admitted
  BY <1>1, <1>4, <1>5 DEF Info
<1> QED BY <1>2, <1>3, <1>6 DEF GoesOn

----------------------------------------------------------------------------
(* The leases given back *)

\* What a handler may have done to the manager before it gives the lease back.
Touched(m) ==
  m \in Loose /\ SameQueue(am, m) /\ m.busy = am.busy /\ (m.probing => am.probing)

LEMMA ReleaseApart ==
  ASSUME FwdInv, NEW r \in Request, Leased(req[r]), Acct(r) \in Account,
         NEW m, Touched(m), NEW outcome \in {"ok", "failed", "throttled"},
         outcome = "throttled" => ~m.probing
  PROVE  Apart(Release(m, r, outcome), r) /\ SameQueue(am, Release(m, r, outcome))
<1> DEFINE n == Release(m, r, outcome)
<1>1. req[r].probe \in BOOLEAN BY DEF FwdInv, TypeOK, Info
<1>2. /\ n \in Loose /\ SameQueue(m, n)
      /\ n.busy = [m.busy EXCEPT ![Acct(r)] = Less(@)]
      /\ n.probing => m.probing /\ ~(req[r].probe /\ outcome # "throttled")
  BY <1>1, ReleasedKeeps DEF Release, Touched
<1> HIDE DEF n
<1>3. n \in Loose /\ SameQueue(am, n) /\ n.busy = [am.busy EXCEPT ![Acct(r)] = Less(@)]
  BY <1>2 DEF Touched, SameQueue
<1>4. n.probing => am.probing /\ ~req[r].probe BY <1>2 DEF Touched
<1> QED BY <1>3, <1>4, ApartOnceReleased DEF n

LEMMA HandBackApart ==
  ASSUME FwdInv, NEW r \in Request, Leased(req[r]), Acct(r) \in Account,
         NEW m \in {HandBack(am, r), ReleaseHeard(r, "failed")}
  PROVE  Apart(m, r) /\ SameQueue(am, m)
<1>1. Orderly(am) /\ am \in Loose BY ManagerOrderly DEF Orderly
<1>2. PICK k :
        /\ m = Released(k, Acct(r), FALSE, "failed")
        /\ (req[r].probe => k \in {Relinquished(am), Cleared(am)}) /\ (~req[r].probe => k = am)
  <2>1. CASE m = HandBack(am, r)
    <3> DEFINE k == IF req[r].probe THEN Relinquished(am) ELSE am
    <3>1. m = Released(k, Acct(r), FALSE, "failed") BY <2>1 DEF HandBack
    <3> QED BY <3>1
  <2>2. CASE m = ReleaseHeard(r, "failed")
    <3>1. m = Released(Confirmed(r), Acct(r), FALSE, "failed") BY <2>2 DEF ReleaseHeard
    <3> QED BY <3>1 DEF Confirmed
  <2> QED BY <2>1, <2>2
<1>3. /\ k \in Loose /\ SameQueue(am, k) /\ k.busy = am.busy
      /\ k.probing => am.probing /\ ~req[r].probe
  <2>1. CASE req[r].probe BY <1>1, <1>2, <2>1, BreakerKeeps
  <2>2. CASE ~req[r].probe BY <1>1, <1>2, <2>2 DEF SameQueue
  <2> QED BY <2>1, <2>2
<1>4. /\ m \in Loose /\ SameQueue(k, m)
      /\ m.busy = [k.busy EXCEPT ![Acct(r)] = Less(@)]
      /\ m.probing => k.probing
  BY <1>2, <1>3, ReleasedKeeps
<1>5. SameQueue(am, m) BY <1>3, <1>4 DEF SameQueue
<1> QED BY <1>3, <1>4, <1>5, ApartOnceReleased

\* What a request under a lease is, and what of it the handlers pass on.
LEMMA LeasedGoesOn ==
  ASSUME FwdInv, NEW r \in Request, Leased(req[r])
  PROVE  /\ GoesOn(req[r]) /\ ~req[r].admitted /\ ~Waiting(r)
         /\ req[r].wire = "real" => req[r].pc = "answer" /\ RealBytes(req[r])
  BY DEF FwdInv, TypeOK, AllSettled, Settled, GoesOn, Leased, RealBytes, Waiting

Like(i, j) ==
  /\ j \in Info /\ j.ticket = i.ticket /\ j.beat = i.beat /\ j.wire = i.wire
  /\ j.tries = i.tries /\ j.admitted = i.admitted /\ j.mended = i.mended

LEMMA LikeGoesOn ==
  ASSUME NEW i, GoesOn(i), NEW j, Like(i, j)
  PROVE  GoesOn(j)
  BY DEF GoesOn, Like

\* The end of a lease keeps what every step keeps, if the request comes back.
LEMMA LeaseEnds ==
  ASSUME FwdInv, NEW r \in Request, Leased(req[r]), NEW m, SameQueue(am, m),
         NEW i, i.wire = req[r].wire, ~i.admitted, Back(r, m, i)
  PROVE  Keeps(r)
  BY DEF Back, Keeps, SameQueue

LEMMA AnswersAreLeased ==
  ASSUME FwdInv, NEW r \in Request,
         NEW pc \in {"token", "sent", "answer"}, NEW kind \in SUBSET Account, At(r, pc, kind)
  PROVE  /\ Leased(req[r]) /\ Acct(r) \in Account /\ Acct(r) \in kind
         /\ req[r] \in Info /\ req[r].pc = pc
  BY DEF At, Leased, Acct, FwdInv, TypeOK

\* What the handlers change of a request before it goes on.
LEMMA WithoutIsLike ==
  ASSUME NEW i \in Info, NEW S \in SUBSET Account
  PROVE  Like(i, Without(i, S))
<1> DEFINE e == i.excluded \cup S
<1>1. e \in SUBSET Account BY DEF Info
<1>2. Without(i, S) = [i EXCEPT !.excluded = e, !.probe = FALSE] BY DEF Without
<1> HIDE DEF e
<1> SUFFICES ASSUME NEW j, j = [i EXCEPT !.excluded = e, !.probe = FALSE]
             PROVE  Like(i, j)
  BY <1>2
<1>3. j \in Info BY <1>1 DEF Info
<1>4. /\ j.ticket = i.ticket /\ j.beat = i.beat /\ j.wire = i.wire
      /\ j.tries = i.tries /\ j.admitted = i.admitted /\ j.mended = i.mended
  BY DEF Info
<1> QED BY <1>3, <1>4 DEF Like

LEMMA NotedIsLike ==
  ASSUME NEW i \in Info, NEW b \in SUBSET Claude, NEW s \in SUBSET {"claude", "provider"},
         NEW j \in {[i EXCEPT !.refused = TRUE], [i EXCEPT !.blamed = b],
                    [i EXCEPT !.barred = s], [i EXCEPT !.probe = FALSE]}
  PROVE  Like(i, j)
<1>1. CASE j = [i EXCEPT !.refused = TRUE]
  <2>1. j \in Info BY <1>1 DEF Info
  <2> QED BY <1>1, <2>1 DEF Like, Info
<1>2. CASE j = [i EXCEPT !.blamed = b]
  <2>1. j \in Info BY <1>2 DEF Info
  <2> QED BY <1>2, <2>1 DEF Like, Info
<1>3. CASE j = [i EXCEPT !.barred = s]
  <2>1. j \in Info BY <1>3 DEF Info
  <2> QED BY <1>3, <2>1 DEF Like, Info
<1>4. CASE j = [i EXCEPT !.probe = FALSE]
  <2>1. j \in Info BY <1>4 DEF Info
  <2> QED BY <1>4, <2>1 DEF Like, Info
<1> QED BY <1>1, <1>2, <1>3, <1>4

LEMMA LikeLike ==
  ASSUME NEW i, NEW j, NEW k, Like(i, j), Like(j, k) PROVE Like(i, k)
  BY DEF Like

(* The ways out of a lease that has been given back *)
Ways(m, r, i) ==
  \/ Answer(m, r)
  \/ \E cause \in {"quota", "throttle", "capacity", "network", "proxy"} : Hold(m, r, i, cause)
  \/ req[r].wire # "real" /\ ~Spent(i) /\ Enter(m, r, Again(i))
  \/ req[r].wire # "real" /\ i.tries < MaxAttempts /\ Enter(m, r, Again(i))

LEMMA WaysKeep ==
  ASSUME FwdInv, NEW r \in Request, Leased(req[r]), NEW m, Apart(m, r), SameQueue(am, m),
         NEW i, Like(req[r], i), Ways(m, r, i)
  PROVE  Keeps(r)
<1>1. GoesOn(req[r]) /\ ~req[r].admitted BY LeasedGoesOn
<1>2. GoesOn(i) /\ i.wire = req[r].wire /\ ~i.admitted BY <1>1, LikeGoesOn DEF Like
<1>3. CASE Answer(m, r)
  <2>1. Back(r, m, i) BY <1>3, AnswerKeeps
  <2> QED BY <1>2, <2>1, LeaseEnds
<1>4. ASSUME NEW cause, Hold(m, r, i, cause) PROVE Keeps(r)
  <2>1. Back(r, m, i) BY <1>2, <1>4, HoldKeeps
  <2> QED BY <1>2, <2>1, LeaseEnds
<1>5. ASSUME req[r].wire # "real", i.tries < MaxAttempts, Enter(m, r, Again(i)) PROVE Keeps(r)
  <2>1. GoesOn(Again(i)) /\ Again(i).wire = i.wire /\ Again(i).admitted = i.admitted
    BY <1>2, <1>5, AgainGoesOn
  <2>2. Back(r, m, Again(i)) BY <1>2, <1>5, <2>1, EnterKeeps
  <2> QED BY <1>2, <2>1, <2>2, LeaseEnds
<1>6. ~Spent(i) => i.tries < MaxAttempts
  <2>1. i.tries \in Nat /\ MaxAttempts \in Nat
    BY <1>2, ForwardingAssumption, FS_CardinalityType DEF GoesOn, Info
  <2> QED BY <2>1 DEF Spent
<1> QED BY <1>3, <1>4, <1>5, <1>6 DEF Ways

LEMMA RetryIsAWay ==
  ASSUME NEW r, NEW m, NEW i, NEW may, may => req[r].wire # "real",
         NEW cause \in {"quota", "throttle", "capacity", "network", "proxy"},
         Failover(m, r, i, may, cause) \/ Retry(m, r, i, may, cause)
  PROVE  Ways(m, r, i)
  BY DEF Failover, Retry, Ways

LEMMA ApartTouched ==
  ASSUME NEW m, NEW r, Apart(m, r), NEW n \in Loose, SameQueue(m, n), n.busy = m.busy,
         n.probing => m.probing
  PROVE  Apart(n, r)
  BY DEF Apart, Orderly, SameQueue

----------------------------------------------------------------------------
(* The attempts, action by action *)

LEMMA ArriveKeeps ==
  ASSUME FwdInv, NEW r \in Request, Arrive(r)
  PROVE  Keeps(r)
<1>1. req[r].pc = "new" /\ Enter(am, r, req[r]) BY DEF Arrive
<1>2. req[r] = Fresh /\ req[r] \in Info BY <1>1 DEF FwdInv, AllSettled, Settled, TypeOK
<1>3. req[r].wire = "none" /\ ~req[r].ticket /\ ~req[r].admitted BY <1>2 DEF Fresh
<1>4. GoesOn(req[r])
  BY <1>1, <1>2, <1>3 DEF GoesOn, FwdInv, AllSettled, Settled
<1>5. Apart(am, r)
  <2>1. Orderly(am) /\ Beside(am, am) BY ManagerOrderly DEF Beside
  <2>2. r \notin ToSet(am.waiting) /\ ~Leased(req[r])
    BY <1>1 DEF FwdInv, QueueIsLive, Waiting, Leased
  <2> QED BY <2>1, <2>2, ApartAsItIs
<1>6. Back(r, am, req[r]) BY <1>1, <1>3, <1>4, <1>5, EnterKeeps
<1> QED BY <1>3, <1>6 DEF Back, Keeps

\* Before an answer the client has seen nothing of a response.
LEMMA BeforeAnAnswer ==
  ASSUME FwdInv, NEW r \in Request, NEW kind \in SUBSET Account,
         At(r, "token", kind) \/ At(r, "sent", kind)
  PROVE  /\ Leased(req[r]) /\ Acct(r) \in Account /\ Acct(r) \in kind
         /\ req[r] \in Info /\ req[r].wire # "real"
  BY DEF At, Leased, Acct, FwdInv, TypeOK, AllSettled, Settled

LEMMA Kinds ==
  /\ Claude \in SUBSET Account /\ Provider \in SUBSET Account /\ Mirror \in SUBSET Account
  /\ Local \in SUBSET Account /\ Account \in SUBSET Account
  BY DEF Account, Local

LEMMA AmIsTouched == ASSUME FwdInv PROVE am \in Loose /\ Touched(am)
  BY ManagerOrderly DEF Orderly, Touched, SameQueue

LEMMA BenchIsTouched ==
  ASSUME FwdInv, NEW m, Touched(m), NEW a \in Account, NEW s,
         NEW n \in {Cooled(m, a), Killed(m, a), Suspected(m, a), Unsuspected(m, s), Absolved(m)}
  PROVE  Touched(n)
  BY BenchKeeps DEF Touched, Beside, SameQueue

LEMMA ClientGoneKeeps ==
  ASSUME FwdInv, NEW r \in Request, ClientGone(r)
  PROVE  Keeps(r)
<1>1. Leased(req[r]) /\ Acct(r) \in Account /\ req[r] \in Info
  BY BeforeAnAnswer, Kinds DEF ClientGone
<1>2. Apart(HandBack(am, r), r) /\ SameQueue(am, HandBack(am, r)) BY <1>1, HandBackApart
<1>3. Answer(HandBack(am, r), r) BY DEF ClientGone
<1>4. Like(req[r], req[r]) BY <1>1 DEF Like
<1> QED BY <1>1, <1>2, <1>3, <1>4, WaysKeep DEF Ways

LEMMA TokenFailedKeeps ==
  ASSUME FwdInv, NEW r \in Request, TokenFailed(r)
  PROVE  Keeps(r)
<1>1. /\ Leased(req[r]) /\ Acct(r) \in Account /\ req[r] \in Info /\ req[r].wire # "real"
  BY BeforeAnAnswer, Kinds DEF TokenFailed
<1>2. Apart(HandBack(am, r), r) /\ SameQueue(am, HandBack(am, r)) BY <1>1, HandBackApart
<1>3. Like(req[r], Untried(r)) BY <1>1, WithoutIsLike DEF Untried
<1>4. Ways(HandBack(am, r), r, Untried(r)) BY <1>1, RetryIsAWay DEF TokenFailed
<1> QED BY <1>1, <1>2, <1>3, <1>4, WaysKeep

LEMMA ThreadRefusedKeeps ==
  ASSUME FwdInv, NEW r \in Request, ThreadRefused(r)
  PROVE  Keeps(r)
<1>1. Leased(req[r]) /\ Acct(r) \in Account /\ req[r] \in Info
  BY BeforeAnAnswer, Kinds DEF ThreadRefused
<1> DEFINE n == Release(am, r, "failed")
<1>2. Apart(n, r) /\ SameQueue(am, n) BY <1>1, AmIsTouched, ReleaseApart
<1>3. Answer(n, r) BY DEF ThreadRefused
<1>4. Like(req[r], req[r]) BY <1>1 DEF Like
<1> QED BY <1>1, <1>2, <1>3, <1>4, WaysKeep DEF Ways

LEMMA UpstreamBusyKeeps ==
  ASSUME FwdInv, NEW r \in Request, At(r, "sent", Claude), UpstreamBusy(r)
  PROVE  Keeps(r)
<1>1. /\ Leased(req[r]) /\ Acct(r) \in Claude /\ Acct(r) \in Account
      /\ req[r] \in Info /\ req[r].wire # "real"
  BY BeforeAnAnswer, Kinds
<1> DEFINE b == Untried(r).blamed \cup {Acct(r)}
           i == [Untried(r) EXCEPT !.blamed = b]
           m == Release(Suspected(am, Acct(r)), r, "failed")
           t == Throttled(Unsuspected(m, i.blamed))
<1>2. Like(req[r], i)
  <2>1. Like(req[r], Untried(r)) BY <1>1, WithoutIsLike DEF Untried
  <2>2. Untried(r) \in Info BY <2>1 DEF Like
  <2>3. b \in SUBSET Claude BY <1>1, <2>2 DEF Info
  <2> HIDE DEF b
  <2>4. Like(Untried(r), i) BY <2>2, <2>3, NotedIsLike
  <2> QED BY <2>1, <2>4, LikeLike
<1>3. Touched(Suspected(am, Acct(r))) BY <1>1, AmIsTouched, BenchIsTouched
<1>4. Apart(m, r) /\ SameQueue(am, m) BY <1>1, <1>3, ReleaseApart
<1>5. Apart(t, r) /\ SameQueue(am, t)
  <2> DEFINE u == Unsuspected(m, i.blamed)
  <2>1. m \in Loose BY <1>4 DEF Apart, Orderly
  <2> HIDE DEF m, i
  <2>2. u \in Loose /\ SameQueue(m, u) /\ Beside(m, u) BY <1>1, <2>1, BenchKeeps
  <2> HIDE DEF u
  <2>3. t \in Loose /\ SameQueue(u, t) /\ t.busy = u.busy /\ ~t.probing
    BY <2>2, BreakerKeeps DEF u
  <2>4. Apart(t, r) BY <1>4, <2>2, <2>3, ApartTouched DEF SameQueue, Beside
  <2> QED BY <1>4, <2>2, <2>3, <2>4 DEF SameQueue
<1>6. \/ ~Spent(i) /\ Enter(m, r, Again(i))
      \/ Hold(t, r, i, "throttle")
      \/ Hold(m, r, i, "capacity")
  BY DEF UpstreamBusy
<1> HIDE DEF i, m, t
<1>7. CASE ~Spent(i) /\ Enter(m, r, Again(i))
  BY <1>1, <1>2, <1>4, <1>7, WaysKeep DEF Ways
<1>8. CASE Hold(t, r, i, "throttle") BY <1>1, <1>2, <1>5, <1>8, WaysKeep DEF Ways
<1>9. CASE Hold(m, r, i, "capacity") BY <1>1, <1>2, <1>4, <1>9, WaysKeep DEF Ways
<1> QED BY <1>6, <1>7, <1>8, <1>9

LEMMA OverloadedKeeps ==
  ASSUME FwdInv, NEW r \in Request, Overloaded(r)
  PROVE  Keeps(r)
  BY UpstreamBusyKeeps DEF Overloaded, Answers

LEMMA RateLimitedKeeps ==
  ASSUME FwdInv, NEW r \in Request, RateLimited(r)
  PROVE  Keeps(r)
<1>1. Leased(req[r]) /\ Acct(r) \in Account /\ req[r] \in Info /\ req[r].wire # "real"
  BY BeforeAnAnswer, Kinds DEF RateLimited, Answers
<1> DEFINE m == Release(Cooled(am, Acct(r)), r, "failed")
<1>2. Touched(Cooled(am, Acct(r))) BY <1>1, AmIsTouched, BenchIsTouched
<1>3. Apart(m, r) /\ SameQueue(am, m) BY <1>1, <1>2, ReleaseApart
<1>4. Like(req[r], Untried(r)) BY <1>1, WithoutIsLike DEF Untried
<1>5. Ways(m, r, Untried(r)) BY <1>1, RetryIsAWay DEF RateLimited
<1> QED BY <1>1, <1>3, <1>4, <1>5, WaysKeep

LEMMA AmbiguousLimitKeeps ==
  ASSUME FwdInv, NEW r \in Request, AmbiguousLimit(r)
  PROVE  Keeps(r)
<1>1. /\ Leased(req[r]) /\ Acct(r) \in Account /\ req[r] \in Info /\ req[r].wire # "real"
  BY BeforeAnAnswer, Kinds DEF AmbiguousLimit, Answers
<1> DEFINE s == am.amb \cup {Acct(r)}
           m == [am EXCEPT !.amb = s]
           t == Release(Throttled(Absolved(m)), r, "throttled")
           n == Release(Cooled(m, Acct(r)), r, "failed")
           i == [req[r] EXCEPT !.probe = FALSE]
<1>2. Touched(m)
  <2>1. am \in Loose /\ s \in SUBSET Account BY <1>1, AmIsTouched DEF Loose
  <2> HIDE DEF s
  <2>2. m \in Loose /\ SameQueue(am, m) /\ m.busy = am.busy /\ m.probing = am.probing
    BY <2>1 DEF Loose, SameQueue
  <2> QED BY <2>2 DEF Touched
<1>3. \/ Hold(t, r, i, "throttle")
      \/ Failover(n, r, Untried(r), Unsent(r), "quota")
  BY DEF AmbiguousLimit
<1> HIDE DEF m
<1>4. Apart(t, r) /\ SameQueue(am, t)
  <2>1. Touched(Absolved(m)) BY <1>1, <1>2, BenchIsTouched
  <2> DEFINE u == Absolved(m)
  <2> HIDE DEF u
  <2>2. Touched(Throttled(u)) /\ ~Throttled(u).probing
    BY <2>1, BreakerKeeps DEF Touched, SameQueue, u
  <2> QED BY <1>1, <2>2, ReleaseApart DEF u
<1>5. Apart(n, r) /\ SameQueue(am, n)
  <2>1. Touched(Cooled(m, Acct(r))) BY <1>1, <1>2, BenchIsTouched
  <2> QED BY <1>1, <2>1, ReleaseApart
<1>6. Like(req[r], i)
  <2>1. {} \in SUBSET Claude /\ {} \in SUBSET {"claude", "provider"} OBVIOUS
  <2> QED BY <1>1, <2>1, NotedIsLike
<1>7. Like(req[r], Untried(r)) BY <1>1, WithoutIsLike DEF Untried
<1> HIDE DEF i, t, n
<1>8. CASE Hold(t, r, i, "throttle") BY <1>1, <1>4, <1>6, <1>8, WaysKeep DEF Ways
<1>9. CASE Failover(n, r, Untried(r), Unsent(r), "quota")
  <2>1. Ways(n, r, Untried(r)) BY <1>1, <1>9, RetryIsAWay
  <2> QED BY <1>1, <1>5, <1>7, <2>1, WaysKeep
<1> QED BY <1>3, <1>8, <1>9

LEMMA ProviderAuthKeeps ==
  ASSUME FwdInv, NEW r \in Request, ProviderAuth(r)
  PROVE  Keeps(r)
<1>1. Leased(req[r]) /\ Acct(r) \in Account /\ req[r] \in Info /\ req[r].wire # "real"
  BY BeforeAnAnswer, Kinds DEF ProviderAuth, Answers
<1>2. PICK m \in {Cooled(am, Acct(r)), Killed(am, Acct(r))} :
        \/ ~Spent(req[r]) /\ Enter(Release(m, r, "failed"), r, Again(Untried(r)))
        \/ Answer(Release(m, r, "failed"), r)
  BY DEF ProviderAuth
<1> DEFINE n == Release(m, r, "failed")
<1>3. Touched(m) BY <1>1, AmIsTouched, BenchIsTouched
<1>4. Apart(n, r) /\ SameQueue(am, n) BY <1>1, <1>3, ReleaseApart
<1>5. Like(req[r], Untried(r)) BY <1>1, WithoutIsLike DEF Untried
<1>6. Spent(Untried(r)) = Spent(req[r]) BY <1>5 DEF Like, Spent
<1> HIDE DEF n
<1>7. Ways(n, r, Untried(r)) BY <1>1, <1>2, <1>6 DEF Ways, n
<1> QED BY <1>1, <1>4, <1>5, <1>7, WaysKeep

LEMMA ServerErrorKeeps ==
  ASSUME FwdInv, NEW r \in Request, ServerError(r)
  PROVE  Keeps(r)
<1>1. Leased(req[r]) /\ Acct(r) \in Account /\ req[r] \in Info /\ req[r].wire # "real"
  BY BeforeAnAnswer, Kinds DEF ServerError, Answers
<1> DEFINE m == Release(Cooled(am, Acct(r)), r, "failed")
<1>2. Touched(Cooled(am, Acct(r))) BY <1>1, AmIsTouched, BenchIsTouched
<1>3. Apart(m, r) /\ SameQueue(am, m) BY <1>1, <1>2, ReleaseApart
<1>4. Like(req[r], Untried(r)) BY <1>1, WithoutIsLike DEF Untried
<1>5. Ways(m, r, Untried(r)) BY <1>1, RetryIsAWay DEF ServerError
<1> QED BY <1>1, <1>3, <1>4, <1>5, WaysKeep

LEMMA RejectedKeeps ==
  ASSUME FwdInv, NEW r \in Request, Rejected(r)
  PROVE  Keeps(r)
<1>1. Leased(req[r]) /\ Acct(r) \in Account /\ req[r] \in Info
  BY BeforeAnAnswer, Kinds DEF Rejected, Answers
<1> DEFINE unheard == Release(am, r, "failed")
<1>2. Apart(unheard, r) /\ SameQueue(am, unheard) BY <1>1, AmIsTouched, ReleaseApart
<1>3. Apart(ReleaseHeard(r, "failed"), r) /\ SameQueue(am, ReleaseHeard(r, "failed"))
  BY <1>1, HandBackApart
<1>4. Apart(Killed(unheard, Acct(r)), r) /\ SameQueue(am, Killed(unheard, Acct(r)))
  <2> HIDE DEF unheard
  <2> DEFINE k == Killed(unheard, Acct(r))
  <2>1. unheard \in Loose BY <1>2 DEF Apart, Orderly
  <2>2. k \in Loose /\ SameQueue(unheard, k) /\ Beside(unheard, k)
    BY <1>1, <2>1, BenchKeeps
  <2> HIDE DEF k
  <2>3. Apart(k, r) BY <1>2, <2>2, ApartTouched DEF Beside
  <2> QED BY <1>2, <2>2, <2>3 DEF SameQueue, k
<1>5. \E m \in {unheard, ReleaseHeard(r, "failed"), Killed(unheard, Acct(r))} : Answer(m, r)
  BY DEF Rejected
<1>6. Like(req[r], req[r]) BY <1>1 DEF Like
<1> HIDE DEF unheard
<1> QED BY <1>1, <1>2, <1>3, <1>4, <1>5, <1>6, WaysKeep DEF Ways

\* A repair goes on without a look at the attempts: what it adds is its own.
LEMMA MendKeeps ==
  ASSUME FwdInv, NEW r \in Request, Mend(r)
  PROVE  Keeps(r)
<1>1. Leased(req[r]) /\ Acct(r) \in Account /\ req[r] \in Info /\ req[r].wire # "real"
  BY BeforeAnAnswer, Kinds DEF Mend, Answers
<1> DEFINE m == ReleaseHeard(r, "failed")
           i == Without(req[r], {})
           j(k) == [Again(i) EXCEPT !.mended = @ \cup {k}]
<1>2. PICK k \in Repairs \ req[r].mended : Enter(m, r, j(k))
  BY DEF Mend
<1>3. Apart(m, r) /\ SameQueue(am, m) BY <1>1, HandBackApart
<1>4. Like(req[r], i) BY <1>1, WithoutIsLike
<1> HIDE DEF i, m
<1> DEFINE M == i.mended \cup {k}
<1>5. j(k) = [i EXCEPT !.tries = i.tries + 1, !.mended = M]
  BY <1>4 DEF Again, Like, Info
<1>6. GoesOn(i) /\ ~i.admitted /\ i.wire = req[r].wire
  BY <1>1, <1>4, LeasedGoesOn, LikeGoesOn DEF Like
<1>7. /\ M \in SUBSET Repairs /\ Cardinality(M) = Cardinality(i.mended) + 1
      /\ Cardinality(M) \in Nat /\ Cardinality(M) <= Cardinality(Repairs)
      /\ Cardinality(i.mended) \in Nat /\ Cardinality(Repairs) \in Nat
  <2>1. i.mended \in SUBSET Repairs /\ k \notin i.mended /\ k \in Repairs
    BY <1>2, <1>4 DEF Like, Info
  <2>2. IsFiniteSet(i.mended) /\ IsFiniteSet(M) /\ M \in SUBSET Repairs
    BY <2>1, ForwardingAssumption, FS_Subset
  <2>3. Cardinality(M) = Cardinality(i.mended) + 1 BY <2>1, <2>2, FS_AddElement
  <2>4. Cardinality(M) <= Cardinality(Repairs) BY <2>2, ForwardingAssumption, FS_Subset
  <2> QED BY <2>2, <2>3, <2>4, ForwardingAssumption, FS_CardinalityType
<1>8. i.tries \in Nat /\ MaxAttempts \in Nat
  BY <1>6, <1>7, ForwardingAssumption DEF GoesOn, Info
<1> DEFINE n == i.tries + 1
<1>9. /\ n \in 0..(MaxAttempts + Cardinality(Repairs))
      /\ n <= MaxAttempts + Cardinality(M)
  BY <1>6, <1>7, <1>8 DEF GoesOn
<1> HIDE DEF n, M
<1>10. GoesOn(j(k)) /\ j(k).wire = req[r].wire /\ ~j(k).admitted
  <2> DEFINE f == [i EXCEPT !.tries = n, !.mended = M]
  <2>1. j(k) = f BY <1>5 DEF n
  <2>2. i \in Info BY <1>6 DEF GoesOn
  <2>3. f \in Info BY <1>7, <1>9, <2>2 DEF Info
  <2>4. /\ f.tries = n /\ f.mended = M /\ f.wire = i.wire /\ f.beat = i.beat
        /\ f.ticket = i.ticket /\ f.admitted = i.admitted
    BY <2>2 DEF Info
  <2> QED BY <1>6, <1>9, <2>1, <2>3, <2>4 DEF GoesOn
<1> HIDE DEF j
<1>11. Back(r, m, j(k)) BY <1>1, <1>2, <1>3, <1>10, EnterKeeps
<1> QED BY <1>1, <1>3, <1>10, <1>11, LeaseEnds

LEMMA RedirectedKeeps ==
  ASSUME FwdInv, NEW r \in Request, NEW kind \in SUBSET Account, NEW i,
         Like(req[r], i), Redirected(r, kind, i)
  PROVE  Keeps(r)
<1>1. Leased(req[r]) /\ Acct(r) \in Account /\ req[r] \in Info /\ req[r].wire # "real"
  BY BeforeAnAnswer DEF Redirected, Answers
<1> DEFINE m == ReleaseHeard(r, "failed")
<1>2. Apart(m, r) /\ SameQueue(am, m) BY <1>1, HandBackApart
<1>3. ~Spent(i) /\ Enter(m, r, Again(i)) BY DEF Redirected, Like, Spent
<1> HIDE DEF m
<1>4. Ways(m, r, i) BY <1>1, <1>3 DEF Ways
<1> QED BY <1>1, <1>2, <1>4, WaysKeep

LEMMA ToAnotherKeeps ==
  ASSUME FwdInv, NEW r \in Request, ToIssuer(r) \/ ToProvider(r) \/ ToClaude(r)
  PROVE  Keeps(r)
<1>1. req[r] \in Info BY DEF FwdInv, TypeOK
<1>2. CASE ToIssuer(r)
  <2>1. Answers(r, Claude) /\ Redirected(r, Claude, Untried(r))
    BY <1>2 DEF ToIssuer, Redirected
  <2>2. Acct(r) \in Account BY <2>1, BeforeAnAnswer, Kinds DEF Answers
  <2>3. Like(req[r], Untried(r)) BY <1>1, <2>2, WithoutIsLike DEF Untried
  <2> QED BY <2>1, <2>3, Kinds, RedirectedKeeps
<1>3. CASE ToProvider(r)
  <2> DEFINE s == Untried(r).barred \cup {"claude"}
             i == [Untried(r) EXCEPT !.barred = s]
  <2>1. Answers(r, Claude) /\ Redirected(r, Claude, i)
    BY <1>3 DEF ToProvider, Redirected
  <2>2. Acct(r) \in Account BY <2>1, BeforeAnAnswer, Kinds DEF Answers
  <2>3. Like(req[r], Untried(r)) BY <1>1, <2>2, WithoutIsLike DEF Untried
  <2>4. s \in SUBSET {"claude", "provider"} /\ Untried(r) \in Info
    BY <2>3 DEF Like, Info
  <2> HIDE DEF s
  <2>5. {} \in SUBSET Claude OBVIOUS
  <2>6. Like(Untried(r), i) BY <2>4, <2>5, NotedIsLike
  <2> HIDE DEF i
  <2>7. Like(req[r], i) BY <2>3, <2>6, LikeLike
  <2> QED BY <2>1, <2>7, Kinds, RedirectedKeeps
<1>4. CASE ToClaude(r)
  <2> DEFINE w == Without(req[r], Provider)
             i(bars) == [w EXCEPT !.barred = @ \cup bars]
  <2>1. PICK bars \in {{}, {"provider"}} : Redirected(r, Provider, i(bars))
    BY <1>4 DEF ToClaude
  <2> DEFINE s == w.barred \cup bars
             j == [w EXCEPT !.barred = s]
  <2>2. i(bars) = j OBVIOUS
  <2>3. Like(req[r], w) BY <1>1, Kinds, WithoutIsLike
  <2> HIDE DEF w
  <2>4. s \in SUBSET {"claude", "provider"} /\ w \in Info BY <2>3 DEF Like, Info
  <2> HIDE DEF s
  <2>5. {} \in SUBSET Claude OBVIOUS
  <2>6. Like(w, j) BY <2>4, <2>5, NotedIsLike
  <2>7. Like(req[r], j) BY <2>3, <2>6, LikeLike
  <2> HIDE DEF i, j
  <2> QED BY <2>1, <2>2, <2>7, Kinds, RedirectedKeeps
<1> QED BY <1>2, <1>3, <1>4

LEMMA ProxyErrorKeeps ==
  ASSUME FwdInv, NEW r \in Request, Leased(req[r]), Acct(r) \in Account, req[r].wire # "real",
         NEW i, Like(req[r], i), ProxyError(r, am, i)
  PROVE  Keeps(r)
<1> DEFINE n == Release(am, r, "failed")
           k == Killed(n, Acct(r))
           j == Without(i, {Acct(r)})
<1>1. Apart(n, r) /\ SameQueue(am, n) BY AmIsTouched, ReleaseApart
<1>2. \/ ~Spent(i) /\ Enter(k, r, Again(j))
      \/ Answer(n, r)
  BY DEF ProxyError
<1>3. Like(req[r], j)
  <2>1. i \in Info BY DEF Like
  <2>2. Like(i, j) BY <2>1, WithoutIsLike
  <2> QED BY <2>2, LikeLike
<1> HIDE DEF n, j
<1>4. Apart(k, r) /\ SameQueue(am, k)
  <2>1. n \in Loose BY <1>1 DEF Apart, Orderly
  <2>2. k \in Loose /\ SameQueue(n, k) /\ Beside(n, k) BY <2>1, BenchKeeps
  <2> HIDE DEF k
  <2>3. Apart(k, r) BY <1>1, <2>2, ApartTouched DEF Beside
  <2> QED BY <1>1, <2>2, <2>3 DEF SameQueue
<1>5. Spent(j) = Spent(i) BY <1>3 DEF Like, Spent
<1> HIDE DEF k
<1>6. CASE ~Spent(i) /\ Enter(k, r, Again(j)) BY <1>3, <1>4, <1>5, <1>6, WaysKeep DEF Ways
<1>7. CASE Answer(n, r) BY <1>1, <1>3, <1>7, WaysKeep DEF Ways
<1> QED BY <1>2, <1>6, <1>7

LEMMA FetchThrowsKeeps ==
  ASSUME FwdInv, NEW r \in Request, FetchThrows(r)
  PROVE  Keeps(r)
<1>1. Leased(req[r]) /\ Acct(r) \in Account /\ req[r] \in Info /\ req[r].wire # "real"
  BY BeforeAnAnswer, Kinds DEF FetchThrows, Answers
<1>2. Like(req[r], req[r]) BY <1>1 DEF Like
<1> QED BY <1>1, <1>2, ProxyErrorKeeps DEF FetchThrows

LEMMA NetworkFailsKeeps ==
  ASSUME FwdInv, NEW r \in Request, NetworkFails(r)
  PROVE  Keeps(r)
<1>1. At(r, "sent", Local) \/ At(r, "answer", Local) BY DEF NetworkFails, Answers
<1>2. Leased(req[r]) /\ Acct(r) \in Account /\ req[r] \in Info
  BY <1>1, AnswersAreLeased, Kinds
<1> DEFINE m == Release(Cooled(am, Acct(r)), r, "failed")
<1>3. Touched(Cooled(am, Acct(r))) BY <1>2, AmIsTouched, BenchIsTouched
<1>4. Apart(m, r) /\ SameQueue(am, m) BY <1>2, <1>3, ReleaseApart
<1>5. Like(req[r], Untried(r)) BY <1>2, WithoutIsLike DEF Untried
<1>6. Unsent(r) => req[r].wire # "real" BY DEF Unsent
<1>7. Retry(m, r, Untried(r), Unsent(r), "network") BY DEF NetworkFails
<1> HIDE DEF m
<1>8. Ways(m, r, Untried(r)) BY <1>6, <1>7, RetryIsAWay
<1> QED BY <1>2, <1>4, <1>5, <1>8, WaysKeep

LEMMA AnswerEndsKeeps ==
  ASSUME FwdInv, NEW r \in Request, AnswerEnds(r)
  PROVE  Keeps(r)
<1>1. Leased(req[r]) /\ Acct(r) \in Account /\ req[r] \in Info
  BY AnswersAreLeased, Kinds DEF AnswerEnds
<1> DEFINE m == Release(am, r, "ok")
<1>2. Apart(m, r) /\ SameQueue(am, m) BY <1>1, AmIsTouched, ReleaseApart
<1>3. Answer(m, r) BY DEF AnswerEnds
<1>4. Like(req[r], req[r]) BY <1>1 DEF Like
<1> QED BY <1>1, <1>2, <1>3, <1>4, WaysKeep DEF Ways

LEMMA RefusedKeeps ==
  ASSUME FwdInv, NEW r \in Request, Refused(r)
  PROVE  Keeps(r)
<1>1. Leased(req[r]) /\ Acct(r) \in Account /\ req[r] \in Info /\ req[r].wire # "real"
  BY AnswersAreLeased, Kinds DEF Refused
<1> DEFINE w == Without(req[r], Claude \cup Mirror)
           i == [w EXCEPT !.refused = TRUE]
           j == [req[r] EXCEPT !.refused = TRUE]
           m == Release(am, r, "ok")
<1>2. \/ i.tries < MaxAttempts /\ Enter(m, r, Again(i))
      \/ ProxyError(r, am, i)
      \/ ProxyError(r, am, j)
  BY DEF Refused
<1>3. Like(req[r], i) /\ Like(req[r], j)
  <2>1. {} \in SUBSET Claude /\ {} \in SUBSET {"claude", "provider"} OBVIOUS
  <2>2. Like(req[r], w) BY <1>1, Kinds, WithoutIsLike
  <2> HIDE DEF w
  <2>3. Like(w, i) BY <2>1, <2>2, NotedIsLike DEF Like
  <2>4. Like(req[r], j) BY <1>1, <2>1, NotedIsLike
  <2> HIDE DEF i, j
  <2> QED BY <2>2, <2>3, <2>4, LikeLike
<1>4. Apart(m, r) /\ SameQueue(am, m) BY <1>1, AmIsTouched, ReleaseApart
<1> HIDE DEF i, j, m
<1>5. CASE i.tries < MaxAttempts /\ Enter(m, r, Again(i))
  BY <1>1, <1>3, <1>4, <1>5, WaysKeep DEF Ways
<1> QED BY <1>1, <1>2, <1>3, <1>5, ProxyErrorKeeps

LEMMA MirrorBusyKeeps ==
  ASSUME FwdInv, NEW r \in Request, MirrorBusy(r)
  PROVE  Keeps(r)
<1>1. Leased(req[r]) /\ Acct(r) \in Account /\ req[r] \in Info /\ req[r].wire # "real"
  BY BeforeAnAnswer, Kinds DEF MirrorBusy
<1> DEFINE m == Release(Cooled(am, Acct(r)), r, "failed")
<1>2. Touched(Cooled(am, Acct(r))) BY <1>1, AmIsTouched, BenchIsTouched
<1>3. Apart(m, r) /\ SameQueue(am, m) BY <1>1, <1>2, ReleaseApart
<1>4. Like(req[r], Untried(r)) BY <1>1, WithoutIsLike DEF Untried
<1>5. Ways(m, r, Untried(r)) BY <1>1, RetryIsAWay DEF MirrorBusy
<1> QED BY <1>1, <1>3, <1>4, <1>5, WaysKeep

LEMMA MirrorFailsKeeps ==
  ASSUME FwdInv, NEW r \in Request, MirrorFails(r)
  PROVE  Keeps(r)
<1>1. Leased(req[r]) /\ Acct(r) \in Account /\ req[r] \in Info
  BY AnswersAreLeased, Kinds DEF MirrorFails
<1> DEFINE m == Release(am, r, "failed")
<1>2. Apart(m, r) /\ SameQueue(am, m) BY <1>1, AmIsTouched, ReleaseApart
<1>3. Like(req[r], Untried(r)) BY <1>1, WithoutIsLike DEF Untried
<1>4. Ways(m, r, Untried(r))
  <2>1. \/ Answer(m, r)
        \/ ~RealBytes(req[r]) /\ Failover(m, r, Untried(r), TRUE, "network")
    BY DEF MirrorFails
  <2>2. ~RealBytes(req[r]) => req[r].wire # "real" BY <1>1, LeasedGoesOn
  <2> HIDE DEF m
  <2> QED BY <2>1, <2>2, RetryIsAWay DEF Ways
<1> QED BY <1>1, <1>2, <1>3, <1>4, WaysKeep

----------------------------------------------------------------------------
(* The steps that leave every lease and every ticket where it is *)

LEMMA StillCounted ==
  ASSUME FwdInv, req' \in [Request -> Info], UNCHANGED faults,
         Orderly(am'), am'.busy = am.busy, am'.probing => am.probing,
         ToSet(am'.waiting) \subseteq ToSet(am.waiting),
         \A x \in Request :
           /\ Settled(x, req'[x]) /\ Leased(req'[x]) = Leased(req[x])
           /\ req'[x].acct = req[x].acct
           /\ am'.probing /\ req[x].probe => req'[x].probe
           /\ Waiting(x) /\ req[x].ticket => req'[x].pc = "queued" /\ req'[x].ticket
  PROVE  FwdInv'
<1>1. TypeOK' /\ LeasesCounted'
  <2>1. ASSUME NEW a \in Account
        PROVE  /\ am'.busy[a] = Cardinality({x \in Request : Leased(req'[x]) /\ req'[x].acct = a})
               /\ am'.busy[a] <= Cardinality(Request)
    <3>1. {x \in Request : Leased(req'[x]) /\ req'[x].acct = a} = Carriers(a, Request)
      BY DEF Carriers, Acct
    <3>2. am'.busy[a] = Cardinality(Carriers(a, Request))
      BY DEF FwdInv, LeasesCounted, Carriers
    <3> QED BY <3>1, <3>2, CarriersFinite
  <2>2. LeasesCounted' BY <2>1 DEF LeasesCounted, Acct
  <2>3. am' \in Manager BY <2>1, OrderlyFits
  <2> QED BY <2>2, <2>3 DEF TypeOK, FwdInv
<1>2. AllSettled' BY DEF AllSettled
<1>3. ProbeIsCarried'
  <2> SUFFICES ASSUME am'.probing PROVE \E x \in Request : Leased(req'[x]) /\ req'[x].probe
    BY DEF ProbeIsCarried
  <2>1. PICK x \in Request : Leased(req[x]) /\ req[x].probe BY DEF FwdInv, ProbeIsCarried
  <2> QED BY <2>1
<1>4. NoPhantomBytes' BY DEF NoPhantomBytes, Orderly
<1>5. QueueIsLive'
  <2>1. ASSUME NEW x \in ToSet(am'.waiting) PROVE Waiting(x)' /\ req'[x].ticket
    <3>1. x \in Request BY DEF Orderly, Loose, ToSet
    <3> QED BY <3>1 DEF FwdInv, QueueIsLive, Waiting
  <2> QED BY <2>1 DEF QueueIsLive, Orderly
<1> QED BY <1>1, <1>2, <1>3, <1>4, <1>5 DEF FwdInv

\* A step of one request in its place, under its lease or in the queue.
LEMMA InPlaceKeeps ==
  ASSUME FwdInv, NEW r \in Request,
         Orderly(am'), am'.busy = am.busy, am'.probing => am.probing,
         ToSet(am'.waiting) \subseteq ToSet(am.waiting), UNCHANGED faults,
         NEW j \in Info, req' = [req EXCEPT ![r] = j], Settled(r, j),
         Leased(j) = Leased(req[r]), j.acct = req[r].acct, j.probe = req[r].probe,
         Waiting(r) /\ req[r].ticket => j.pc = "queued" /\ j.ticket,
         j.pc = "token" => req[r].pc = "token",
         req[r].wire = "real" => j.pc = "answer"
  PROVE  Keeps(r)
<1>1. req \in [Request -> Info] BY DEF FwdInv, TypeOK
<1>2. /\ req' \in [Request -> Info] /\ req'[r] = j
      /\ \A x \in Request \ {r} : req'[x] = req[x]
  BY <1>1
<1>3. FwdInv'
  <2>1. ASSUME NEW x \in Request
        PROVE  /\ Settled(x, req'[x]) /\ Leased(req'[x]) = Leased(req[x])
               /\ req'[x].acct = req[x].acct
               /\ am'.probing /\ req[x].probe => req'[x].probe
               /\ Waiting(x) /\ req[x].ticket => req'[x].pc = "queued" /\ req'[x].ticket
    <3>1. CASE x = r BY <1>2, <3>1
    <3>2. CASE x # r BY <1>2, <3>2 DEF FwdInv, AllSettled, Waiting
    <3> QED BY <3>1, <3>2
  <2> QED BY <1>2, <2>1, StillCounted
<1> QED BY <1>2, <1>3 DEF Keeps

LEMMA ClientLeavesKeeps ==
  ASSUME FwdInv, NEW r \in Request, ClientLeaves(r)
  PROVE  Keeps(r)
<1> DEFINE j == [req[r] EXCEPT !.gone = TRUE]
<1>1. /\ req[r] \in Info /\ req[r].pc \in {"token", "sent", "answer", "queued"}
      /\ Settled(r, req[r]) /\ Orderly(am)
  BY ManagerOrderly DEF ClientLeaves, FwdInv, TypeOK, AllSettled
<1>2. am' = am /\ req' = [req EXCEPT ![r] = j] /\ UNCHANGED faults
  BY DEF ClientLeaves, Set
<1>3. j \in Info BY <1>1 DEF Info
<1>4. /\ j.pc = req[r].pc /\ j.acct = req[r].acct /\ j.probe = req[r].probe
      /\ j.ticket = req[r].ticket /\ j.wire = req[r].wire /\ j.beat = req[r].beat
      /\ j.admitted = req[r].admitted /\ j.tries = req[r].tries /\ j.mended = req[r].mended
  BY <1>1 DEF Info
<1> HIDE DEF j
<1>5. Settled(r, j) /\ Leased(j) = Leased(req[r]) BY <1>1, <1>4 DEF Settled, Leased
<1>6. req[r].wire = "real" => j.pc = "answer" BY <1>1, <1>4 DEF Settled
<1> QED BY <1>1, <1>2, <1>3, <1>4, <1>5, <1>6, InPlaceKeeps DEF Waiting

LEMMA TokenReadyKeeps ==
  ASSUME FwdInv, NEW r \in Request, TokenReady(r)
  PROVE  Keeps(r)
<1> DEFINE j == [req[r] EXCEPT !.pc = "sent"]
<1>1. /\ req[r] \in Info /\ req[r].pc = "token" /\ req[r].wire # "real"
      /\ Settled(r, req[r]) /\ Orderly(am)
  BY ManagerOrderly, BeforeAnAnswer, Kinds DEF TokenReady, At, FwdInv, TypeOK, AllSettled
<1>2. am' = am /\ req' = [req EXCEPT ![r] = j] /\ UNCHANGED faults
  BY DEF TokenReady, Set
<1>3. j \in Info BY <1>1 DEF Info
<1>4. /\ j.pc = "sent" /\ j.acct = req[r].acct /\ j.probe = req[r].probe
      /\ j.ticket = req[r].ticket /\ j.wire = req[r].wire /\ j.beat = req[r].beat
      /\ j.admitted = req[r].admitted /\ j.tries = req[r].tries /\ j.mended = req[r].mended
  BY <1>1 DEF Info
<1> HIDE DEF j
<1>5. Settled(r, j) /\ Leased(j) = Leased(req[r]) BY <1>1, <1>4 DEF Settled, Leased
<1> QED BY <1>1, <1>2, <1>3, <1>4, <1>5, InPlaceKeeps DEF Waiting

LEMMA GraceBeatKeeps ==
  ASSUME FwdInv, NEW r \in Request, GraceBeat(r)
  PROVE  Keeps(r)
<1> DEFINE j == Beating(r, req[r])
<1>1. /\ req[r] \in Info /\ req[r].pc = "sent" /\ req[r].wire # "real"
      /\ Settled(r, req[r]) /\ Orderly(am)
  BY ManagerOrderly, BeforeAnAnswer, Kinds DEF GraceBeat, At, FwdInv, TypeOK, AllSettled
<1>2. am' = am /\ req' = [req EXCEPT ![r] = j] /\ UNCHANGED faults
  BY DEF GraceBeat, Set
<1>3. j = req[r] \/ j = [req[r] EXCEPT !.beat = TRUE, !.wire = "ping"] BY DEF Beating
<1> HIDE DEF j
<1>4. j \in Info
  <2>1. CASE j = req[r] BY <1>1, <2>1
  <2>2. CASE j = [req[r] EXCEPT !.beat = TRUE, !.wire = "ping"] BY <1>1, <2>2 DEF Info
  <2> QED BY <1>3, <2>1, <2>2
<1>5. /\ j.pc = "sent" /\ j.acct = req[r].acct /\ j.probe = req[r].probe
      /\ j.ticket = req[r].ticket /\ j.wire # "real"
      /\ j.admitted = req[r].admitted /\ j.tries = req[r].tries /\ j.mended = req[r].mended
  BY <1>1, <1>3 DEF Info
<1>6. Settled(r, j) /\ Leased(j) = Leased(req[r]) BY <1>1, <1>5 DEF Settled, Leased
<1> QED BY <1>1, <1>2, <1>4, <1>5, <1>6, InPlaceKeeps DEF Waiting

LEMMA FirstBytesKeeps ==
  ASSUME FwdInv, NEW r \in Request, FirstBytes(r)
  PROVE  Keeps(r)
<1> DEFINE j == [req[r] EXCEPT !.wire = "real"]
<1>1. /\ req[r] \in Info /\ req[r].pc = "answer" /\ req[r].acct \in Local /\ r \in Streams
      /\ Settled(r, req[r]) /\ Orderly(am)
  BY ManagerOrderly DEF FirstBytes, At, FwdInv, TypeOK, AllSettled
<1>2. am' = am /\ req' = [req EXCEPT ![r] = j] /\ UNCHANGED faults
  BY DEF FirstBytes, Set
<1>3. j \in Info BY <1>1 DEF Info
<1>4. /\ j.pc = "answer" /\ j.acct = req[r].acct /\ j.probe = req[r].probe
      /\ j.ticket = req[r].ticket /\ j.wire = "real" /\ j.beat = req[r].beat
      /\ j.admitted = req[r].admitted /\ j.tries = req[r].tries /\ j.mended = req[r].mended
  BY <1>1 DEF Info
<1> HIDE DEF j
<1>5. Settled(r, j) /\ Leased(j) = Leased(req[r]) BY <1>1, <1>4 DEF Settled, Leased
<1> QED BY <1>1, <1>2, <1>3, <1>4, <1>5, InPlaceKeeps DEF Waiting

LEMMA MirrorAnswersKeeps ==
  ASSUME FwdInv, NEW r \in Request, MirrorAnswers(r)
  PROVE  Keeps(r)
<1> DEFINE j == [req[r] EXCEPT !.pc = "answer", !.wire = "real", !.beat = FALSE]
           n == Release(am, r, "failed")
<1>1. /\ req[r] \in Info /\ req[r].pc = "sent" /\ Settled(r, req[r]) /\ Orderly(am)
      /\ Leased(req[r]) /\ Acct(r) \in Account
  BY ManagerOrderly, BeforeAnAnswer, Kinds DEF MirrorAnswers, At, FwdInv, TypeOK, AllSettled
<1>2. Set(am, r, j) \/ Answer(n, r) BY DEF MirrorAnswers
<1>3. CASE Set(am, r, j)
  <2>1. am' = am /\ req' = [req EXCEPT ![r] = j] /\ UNCHANGED faults BY <1>3 DEF Set
  <2>2. j \in Info BY <1>1 DEF Info
  <2>3. /\ j.pc = "answer" /\ j.acct = req[r].acct /\ j.probe = req[r].probe
        /\ j.ticket = req[r].ticket /\ j.wire = "real" /\ ~j.beat
        /\ j.admitted = req[r].admitted /\ j.tries = req[r].tries /\ j.mended = req[r].mended
    BY <1>1 DEF Info
  <2> HIDE DEF j
  <2>4. Settled(r, j) /\ Leased(j) = Leased(req[r]) BY <1>1, <2>3 DEF Settled, Leased
  <2> QED BY <1>1, <2>1, <2>2, <2>3, <2>4, InPlaceKeeps DEF Waiting
<1>4. CASE Answer(n, r)
  <2>1. Apart(n, r) /\ SameQueue(am, n) BY <1>1, AmIsTouched, ReleaseApart
  <2>2. Like(req[r], req[r]) BY <1>1 DEF Like
  <2> QED BY <1>1, <1>4, <2>1, <2>2, WaysKeep DEF Ways
<1> QED BY <1>2, <1>3, <1>4

LEMMA AcceptedKeeps ==
  ASSUME FwdInv, NEW r \in Request, Accepted(r)
  PROVE  Keeps(r)
<1> DEFINE a == req[r].beat /\ r \notin Streams
           b == req[r].rebutted \/ req[r].blamed # {}
           j == [req[r] EXCEPT !.pc = "answer", !.probe = FALSE, !.beat = a, !.rebutted = b]
           k(x) == req[x].rebutted \/ (Acct(r) \in Claude /\ req[x].blamed # {})
<1>1. /\ req[r] \in Info /\ req[r].pc = "sent" /\ Settled(r, req[r]) /\ Orderly(am)
      /\ Leased(req[r]) /\ req[r].wire # "real" /\ req \in [Request -> Info]
  BY ManagerOrderly, BeforeAnAnswer, Kinds
     DEF Accepted, Answers, At, FwdInv, TypeOK, AllSettled
<1>2. /\ am' = Confirmed(r) /\ UNCHANGED faults
      /\ req' = [x \in Request |-> IF x = r THEN j ELSE [req[x] EXCEPT !.rebutted = k(x)]]
  BY DEF Accepted
<1>3. /\ Orderly(am') /\ am'.busy = am.busy /\ am'.waiting = am.waiting
      /\ am'.probing => am.probing /\ ~req[r].probe
  <2>1. CASE req[r].probe
    <3>1. am' = Cleared(am) /\ am \in Loose BY <1>1, <1>2, <2>1 DEF Confirmed, Orderly
    <3>2. am' \in Loose /\ SameQueue(am, am') /\ am'.busy = am.busy /\ ~am'.probing
      BY <3>1, BreakerKeeps
    <3> QED BY <1>1, <3>2 DEF SameQueue, Orderly
  <2>2. CASE ~req[r].probe
    <3>1. am' = am BY <1>2, <2>2 DEF Confirmed
    <3> QED BY <1>1, <2>2, <3>1
  <2> QED BY <2>1, <2>2
<1>4. j \in Info
  <2>1. a \in BOOLEAN /\ b \in BOOLEAN BY <1>1 DEF Info
  <2> HIDE DEF a, b
  <2> QED BY <1>1, <2>1 DEF Info
<1>5. /\ j.pc = "answer" /\ j.acct = req[r].acct /\ j.probe = FALSE
      /\ j.ticket = req[r].ticket /\ j.wire = req[r].wire /\ j.beat = a
      /\ j.admitted = req[r].admitted /\ j.tries = req[r].tries /\ j.mended = req[r].mended
  <2> HIDE DEF a, b
  <2> QED BY <1>1 DEF Info
<1> HIDE DEF j
<1>6. Settled(r, j) /\ Leased(j) BY <1>1, <1>5 DEF Settled, Leased
<1>7. ASSUME NEW x \in Request \ {r}
      PROVE  Nudged(x) /\ req'[x].ticket = req[x].ticket
  <2> DEFINE c == k(x)
  <2>1. req'[x] = [req[x] EXCEPT !.rebutted = c] BY <1>2
  <2>2. /\ req[x] \in Info /\ c \in BOOLEAN /\ req[x].ticket \in BOOLEAN
        /\ req[x].blamed = {} => c = req[x].rebutted
    BY <1>1 DEF Info
  <2> HIDE DEF c, k
  <2>3. req'[x] = [req[x] EXCEPT !.ticket = req[x].ticket, !.rebutted = c]
    BY <2>1, <2>2 DEF Info
  <2>4. req'[x].ticket = req[x].ticket BY <2>1, <2>2 DEF Info
  <2> QED BY <2>2, <2>3, <2>4 DEF Nudged
<1>8. ASSUME NEW x \in Request \ {r}
      PROVE  /\ req'[x] \in Info /\ Settled(x, req'[x]) /\ Leased(req'[x]) = Leased(req[x])
             /\ req'[x].acct = req[x].acct /\ req'[x].probe = req[x].probe
             /\ req'[x].pc = req[x].pc /\ req'[x].ticket = req[x].ticket
  BY <1>7, NudgedKeeps
<1>9. req'[r] = j BY <1>2
<1>10. req' \in [Request -> Info]
  <2>1. \A x \in Request : req'[x] \in Info BY <1>4, <1>8, <1>9
  <2> QED BY <1>2, <2>1
<1>11. FwdInv'
  <2>1. ASSUME NEW x \in Request
        PROVE  /\ Settled(x, req'[x]) /\ Leased(req'[x]) = Leased(req[x])
               /\ req'[x].acct = req[x].acct
               /\ am'.probing /\ req[x].probe => req'[x].probe
               /\ Waiting(x) /\ req[x].ticket => req'[x].pc = "queued" /\ req'[x].ticket
    <3>1. CASE x = r BY <1>1, <1>3, <1>5, <1>6, <1>9, <3>1 DEF Waiting
    <3>2. CASE x # r BY <1>8, <3>2 DEF Waiting
    <3> QED BY <3>1, <3>2
  <2> QED BY <1>2, <1>3, <1>10, <2>1, StillCounted
<1> QED BY <1>1, <1>5, <1>8, <1>9, <1>11 DEF Keeps

----------------------------------------------------------------------------
(* The polls of the queue *)

\* The queue after a poll of r, with r taken out of it
LEMMA TakenOut ==
  ASSUME FwdInv, NEW r \in Request, ~Leased(req[r]),
         NEW m, Orderly(m), Beside(am, m), ToSet(m.waiting) \subseteq ToSet(am.waiting),
         NEW n \in {Dropped(m, {r}), Admitted(m, r)}
  PROVE  Apart(n, r)
<1>1. /\ Orderly(n) /\ Beside(m, n) /\ ToSet(n.waiting) = ToSet(m.waiting) \ {r}
  <2>1. CASE n = Dropped(m, {r}) BY <2>1, DroppedKeeps
  <2>2. CASE n = Admitted(m, r) BY <2>2, AdmittedKeeps
  <2> QED BY <2>1, <2>2
<1>2. Beside(am, n) /\ ToSet(n.waiting) \subseteq ToSet(am.waiting) \ {r}
  BY <1>1 DEF Beside
<1> QED BY <1>1, <1>2, ApartAsItIs

LEMMA QueueAsItIs ==
  ASSUME FwdInv, NEW m \in {am, Reaped(am, Late)}
  PROVE  Orderly(m) /\ Beside(am, m) /\ ToSet(m.waiting) \subseteq ToSet(am.waiting)
  BY ManagerOrderly, ReapedKeeps DEF Beside

LEMMA PollGoneKeeps ==
  ASSUME FwdInv, NEW r \in Request, PollGone(r)
  PROVE  Keeps(r)
<1>1. Waiting(r) /\ ~Leased(req[r]) BY DEF PollGone, Waiting, Leased
<1>2. Apart(Dropped(am, {r}), r) BY <1>1, QueueAsItIs, TakenOut
<1>3. Back(r, Dropped(am, {r}), req[r]) /\ req'[r].pc = "done"
  BY <1>2, AnswerKeeps DEF PollGone
<1> QED BY <1>3 DEF Back, Keeps

LEMMA PollAdmitsKeeps ==
  ASSUME FwdInv, NEW r \in Request, PollAdmits(r)
  PROVE  Keeps(r)
<1> DEFINE m == IF req[r].ticket THEN Admitted(Reaped(am, Late), r) ELSE am
           d == req[r].admitted \/ req[r].ticket
           i == [req[r] EXCEPT !.ticket = FALSE, !.waited = 0, !.admitted = d]
<1>1. Waiting(r) /\ ~Leased(req[r]) BY DEF PollAdmits, AdmissibleNow, Waiting, Leased
<1>2. req[r] \in Info /\ Settled(r, req[r]) BY DEF FwdInv, TypeOK, AllSettled
<1>3. Enter(m, r, i) BY DEF PollAdmits
<1>4. Apart(m, r)
  <2>1. CASE req[r].ticket BY <1>1, <2>1, QueueAsItIs, TakenOut
  <2>2. CASE ~req[r].ticket
    <3>1. r \notin ToSet(am.waiting) BY <2>2 DEF FwdInv, QueueIsLive
    <3> QED BY <1>1, <2>2, <3>1, QueueAsItIs, ApartAsItIs
  <2> QED BY <2>1, <2>2
<1>5. req[r].wire # "real" BY <1>1, <1>2 DEF Settled, Waiting
<1>6. GoesOn(i) /\ i.wire = req[r].wire
  <2>1. d \in BOOLEAN /\ 0 \in 0..HeadSkip BY <1>2, ForwardingAssumption DEF Info
  <2> HIDE DEF d
  <2>2. i \in Info BY <1>2, <2>1 DEF Info
  <2>3. /\ i.ticket = FALSE /\ i.wire = req[r].wire /\ i.tries = req[r].tries
        /\ i.mended = req[r].mended
    BY <1>2 DEF Info
  <2> QED BY <1>2, <1>5, <2>2, <2>3 DEF GoesOn, Settled
<1> HIDE DEF m, i
<1>7. Back(r, m, i) BY <1>3, <1>4, <1>5, <1>6, EnterKeeps
<1> QED BY <1>1, <1>5, <1>7 DEF Back, Keeps

LEMMA PollWaitsKeeps ==
  ASSUME FwdInv, NEW r \in Request, PollWaits(r)
  PROVE  Keeps(r)
<1> DEFINE m == IF HasRoute(r) THEN Reaped(am, Late) ELSE am
<1>1. Waiting(r) /\ ~Leased(req[r]) BY DEF PollWaits, Waiting, Leased
<1>2. Orderly(m) /\ Beside(am, m) /\ ToSet(m.waiting) \subseteq ToSet(am.waiting)
  BY QueueAsItIs
<1>3. Answer(Dropped(m, {r}), r) \/ Set(m, r, req[r]) BY DEF PollWaits
<1> HIDE DEF m
<1>4. CASE Answer(Dropped(m, {r}), r)
  <2>1. Apart(Dropped(m, {r}), r) BY <1>1, <1>2, TakenOut
  <2>2. Back(r, Dropped(m, {r}), req[r]) /\ req'[r].pc = "done" BY <1>4, <2>1, AnswerKeeps
  <2> QED BY <2>2 DEF Back, Keeps
<1>5. CASE Set(m, r, req[r])
  <2>1. am' = m /\ req' = [req EXCEPT ![r] = req[r]] /\ UNCHANGED faults BY <1>5 DEF Set
  <2>2. req[r] \in Info /\ Settled(r, req[r]) BY DEF FwdInv, TypeOK, AllSettled
  <2> QED BY <1>1, <1>2, <2>1, <2>2, InPlaceKeeps DEF Beside, Waiting, Settled
<1> QED BY <1>3, <1>4, <1>5

----------------------------------------------------------------------------
(* The clock *)

LEMMA RampStepKeeps ==
  ASSUME FwdInv, RampStep
  PROVE  FwdInv' /\ \A x \in Request : req'[x].pc = req[x].pc
<1>1. am' = [am EXCEPT !.recent = FALSE] /\ UNCHANGED <<req, faults>> BY DEF RampStep
<1>2. Orderly(am) /\ req \in [Request -> Info] BY ManagerOrderly DEF FwdInv, TypeOK
<1>3. Orderly(am') /\ am'.busy = am.busy /\ am'.probing = am.probing /\ am'.waiting = am.waiting
  BY <1>1, <1>2 DEF Orderly, Loose
<1>4. FwdInv'
  <2>1. \A x \in Request :
          /\ Settled(x, req'[x]) /\ Leased(req'[x]) = Leased(req[x])
          /\ req'[x].acct = req[x].acct
          /\ am'.probing /\ req[x].probe => req'[x].probe
          /\ Waiting(x) /\ req[x].ticket => req'[x].pc = "queued" /\ req'[x].ticket
    BY <1>1 DEF FwdInv, AllSettled, Waiting
  <2> QED BY <1>1, <1>2, <1>3, <2>1, StillCounted
<1> QED BY <1>1, <1>4

LEMMA ElapseKeeps ==
  ASSUME NEW m, Orderly(m)
  PROVE  Orderly(Elapse(m)) /\ SameQueue(m, Elapse(m)) /\ Beside(m, Elapse(m))
<1> DEFINE c == [a \in Account |-> Less(m.cool[a])]
           p == [a \in Account |-> Less(m.prov[a])]
           u == Less(m.until)
<1>1. m \in Loose /\ Bench \in Nat BY AdmissionAssumption DEF Orderly
<1>2. c \in [Account -> 0..Bench] /\ p \in [Account -> 0..Bench]
  BY <1>1 DEF Loose, Less
<1>3. u \in Never..Bench BY <1>1 DEF Loose, Less, Never
<1>4. Elapse(m) = [m EXCEPT !.cool = c, !.prov = p, !.until = u, !.amb = {},
                            !.ramp = FALSE, !.recent = FALSE]
  BY <1>1 DEF Elapse, Loose
<1> HIDE DEF c, p, u
<1>5. Elapse(m) \in Loose BY <1>1, <1>2, <1>3, <1>4 DEF Loose
<1>6. SameQueue(m, Elapse(m)) /\ Beside(m, Elapse(m))
  BY <1>1, <1>4 DEF Loose, SameQueue, Beside
<1> QED BY <1>5, <1>6 DEF Orderly, SameQueue

LEMMA TickKeeps ==
  ASSUME FwdInv, Tick
  PROVE  FwdInv' /\ \A x \in Request : req'[x].pc = req[x].pc
<1>1. am' = Elapse(am) /\ req' = [r \in Request |-> Aged(req[r])] /\ UNCHANGED faults
  BY DEF Tick
<1>2. /\ Orderly(am') /\ am'.busy = am.busy /\ am'.probing = am.probing
      /\ am'.waiting = am.waiting
  BY <1>1, ManagerOrderly, ElapseKeeps DEF SameQueue, Beside
<1>3. ASSUME NEW x \in Request
      PROVE  /\ req'[x] \in Info /\ Settled(x, req'[x]) /\ Leased(req'[x]) = Leased(req[x])
             /\ req'[x].acct = req[x].acct /\ req'[x].probe = req[x].probe
             /\ req'[x].pc = req[x].pc /\ req'[x].ticket = req[x].ticket
  <2> DEFINE i == req[x]
             a == IF i.age = NotHeld \/ i.age > Window THEN i.age ELSE i.age + 1
             w == IF i.pc = "queued" /\ i.waited < HeadSkip THEN i.waited + 1 ELSE i.waited
             j == req'[x]
  <2>1. i \in Info /\ Settled(x, i) BY DEF FwdInv, TypeOK, AllSettled
  <2>2. j = [i EXCEPT !.age = a, !.waited = w] BY <1>1, <2>1 DEF Aged, Info
  <2>3. a \in NotHeld..Window + 1 /\ w \in 0..HeadSkip
    BY <2>1, ForwardingAssumption DEF Info, NotHeld
  <2>4. i.pc = "new" => a = i.age /\ w = i.waited
    BY <2>1 DEF Settled, Fresh
  <2> HIDE DEF a, w, i, j
  <2>5. j \in Info BY <2>1, <2>2, <2>3 DEF Info
  <2>6. /\ j.pc = i.pc /\ j.acct = i.acct /\ j.probe = i.probe /\ j.ticket = i.ticket
        /\ j.wire = i.wire /\ j.beat = i.beat /\ j.admitted = i.admitted
        /\ j.tries = i.tries /\ j.mended = i.mended
    BY <2>1, <2>2 DEF Info
  <2>7. i.pc = "new" => j = i BY <2>1, <2>2, <2>4 DEF Info
  <2>8. Settled(x, j) /\ Leased(j) = Leased(i) BY <2>1, <2>6, <2>7 DEF Settled, Leased
  <2> QED BY <2>5, <2>6, <2>8 DEF i, j
<1>4. req' \in [Request -> Info] BY <1>1, <1>3
<1>5. FwdInv' BY <1>1, <1>2, <1>3, <1>4, StillCounted DEF Waiting
<1> QED BY <1>3, <1>5

----------------------------------------------------------------------------
LEMMA InitSafe == Init => FwdInv
<1> SUFFICES ASSUME Init PROVE FwdInv OBVIOUS
<1>1. PICK w \in Worlds : am = [FreshManager EXCEPT !.dead = Account \ w.fleet]
                          /\ faults = w.faults
  BY DEF Init
<1>2. w.faults \subseteq Faults BY ForwardingAssumption
<1>3. req = [r \in Request |-> Fresh] BY DEF Init
<1>4. /\ am.busy = [a \in Account |-> 0] /\ am.probing = FALSE /\ am.waiting = <<>>
      /\ am.bytes = 0
  BY <1>1 DEF FreshManager
<1>5. Orderly(am)
  <2>1. /\ 0 \in 0..Bench /\ 0 \in 0..MaxFailed /\ Never \in Never..Bench
    BY AdmissionAssumption DEF Never
  <2>2. FreshManager \in Loose BY <2>1 DEF FreshManager, Loose
  <2> DEFINE d == Account \ w.fleet
  <2>3. d \in SUBSET Account OBVIOUS
  <2> HIDE DEF d
  <2>4. am \in Loose BY <1>1, <2>2, <2>3 DEF Loose, d
  <2>5. IsInjective(am.waiting) /\ Len(am.waiting) = 0 BY <1>4 DEF IsInjective
  <2> QED BY <1>4, <2>4, <2>5 DEF Orderly
<1>6. \A r \in Request : req[r] \in Info /\ Settled(r, req[r]) /\ ~Leased(req[r])
  BY <1>3, FreshIsSettled DEF Leased, Fresh
<1>7. am \in Manager
  <2>1. Cardinality(Request) \in Nat BY AdmissionAssumption, FS_CardinalityType
  <2> QED BY <1>4, <1>5, <2>1, OrderlyFits
<1>8. TypeOK BY <1>1, <1>2, <1>3, <1>6, <1>7 DEF TypeOK
<1>9. LeasesCounted
  <2> SUFFICES ASSUME NEW a \in Account
               PROVE  am.busy[a] = Cardinality({r \in Request : Leased(req[r]) /\ Acct(r) = a})
    BY DEF LeasesCounted
  <2>1. {r \in Request : Leased(req[r]) /\ Acct(r) = a} = {} BY <1>6
  <2> QED BY <1>4, <2>1, FS_EmptySet
<1>10. NoPhantomBytes /\ ProbeIsCarried BY <1>4 DEF NoPhantomBytes, ProbeIsCarried
<1>11. QueueIsLive
  <2>1. ToSet(am.waiting) = {} BY <1>4 DEF ToSet
  <2> QED BY <1>5, <2>1 DEF QueueIsLive, Orderly
<1> QED BY <1>6, <1>8, <1>9, <1>10, <1>11 DEF FwdInv, AllSettled

LEMMA AttemptKeeps ==
  ASSUME FwdInv, NEW r \in Request, Attempt(r)
  PROVE  Keeps(r)
  BY TokenReadyKeeps, TokenFailedKeeps, ThreadRefusedKeeps, ClientGoneKeeps, OverloadedKeeps,
     RateLimitedKeeps, AmbiguousLimitKeeps, ProviderAuthKeeps, ServerErrorKeeps, RejectedKeeps,
     MendKeeps, ToAnotherKeeps, FetchThrowsKeeps, NetworkFailsKeeps, AcceptedKeeps,
     AnswerEndsKeeps, RefusedKeeps, MirrorBusyKeeps, MirrorFailsKeeps, MirrorAnswersKeeps
  DEF Attempt

(* A step is one of the clock, which no request sees, or one of a request. *)
Still == FwdInv' /\ \A x \in Request : req'[x].pc = req[x].pc

LEMMA StepKeeps ==
  ASSUME FwdInv, [Next]_vars
  PROVE  Still \/ \E r \in Request : Keeps(r)
<1>1. CASE Tick BY <1>1, TickKeeps DEF Still
<1>2. CASE RampStep BY <1>2, RampStepKeeps DEF Still
<1>3. ASSUME NEW r \in Request,
             Arrive(r) \/ ClientLeaves(r) \/ GraceBeat(r) \/ FirstBytes(r) \/ Attempt(r) \/ Poll(r)
      PROVE  Keeps(r)
  BY <1>3, ArriveKeeps, ClientLeavesKeeps, GraceBeatKeeps, FirstBytesKeeps, AttemptKeeps,
     PollGoneKeeps, PollAdmitsKeeps, PollWaitsKeeps DEF Poll
<1>4. CASE UNCHANGED vars
  <2>1. FwdInv'
    BY <1>4 DEF vars, FwdInv, TypeOK, AllSettled, LeasesCounted, ProbeIsCarried, NoPhantomBytes,
                QueueIsLive, Acct, Waiting
  <2> QED BY <1>4, <2>1 DEF vars, Still
<1> QED BY <1>1, <1>2, <1>3, <1>4 DEF Next

LEMMA FwdInvHolds == Spec => []FwdInv
<1>1. FwdInv /\ [Next]_vars => FwdInv' BY StepKeeps DEF Still, Keeps
<1> QED BY InitSafe, <1>1, PTL DEF Spec

----------------------------------------------------------------------------
(* Every variable has its type: the in-flight counts never pass the number  *)
(* of the requests, nor the attempts what maxAttempts and the one-shot      *)
(* repairs of forwardRequest allow.                                         *)
THEOREM ForwardingTyped == Spec => []TypeOK
<1>1. FwdInv => TypeOK BY DEF FwdInv
<1> QED BY <1>1, FwdInvHolds, PTL

(* On every way a handler leaves an attempt, the in-flight count of an      *)
(* account (acquireAccount, releaseAccount) is that of the attempts on it.  *)
THEOREM EveryLeaseIsCounted == Spec => []LeasesCounted
<1>1. FwdInv => LeasesCounted BY DEF FwdInv
<1> QED BY <1>1, FwdInvHolds, PTL

(* The breaker's probe (upstreamThrottle.probeInFlight) is out only while a *)
(* lease carries it.                                                        *)
THEOREM EveryProbeIsCarried == Spec => []ProbeIsCarried
<1>1. FwdInv => ProbeIsCarried BY DEF FwdInv
<1> QED BY <1>1, FwdInvHolds, PTL

(* queueState.bytes counts nothing that does not wait, whatever the order   *)
(* of admissions, expiries, departures and stale heads.                     *)
THEOREM QueueBytesAreReal == Spec => []NoPhantomBytes
<1>1. FwdInv => NoPhantomBytes BY DEF FwdInv
<1> QED BY <1>1, FwdInvHolds, PTL

(* Every entry of queueState.waiting is one of a request that polls with    *)
(* this ticket, and no request has two.                                     *)
THEOREM EveryTicketWaits == Spec => []QueueIsLive
<1>1. FwdInv => QueueIsLive BY DEF FwdInv
<1> QED BY <1>1, FwdInvHolds, PTL

(* No step of pickAccount lets a request without a ticket past those that   *)
(* have one.                                                                *)
THEOREM TheQueueIsNotJumped == Spec => NoQueueJumping
<1> DEFINE Turn ==
      \A r \in Request :
        /\ req'[r].pc = "token" /\ req[r].pc # "token" /\ req'[r].acct \in Claude
        => Waiting(r) \/ am.waiting = <<>>
<1>1. FwdInv /\ [Next]_vars => [Turn]_vars
  <2> SUFFICES ASSUME FwdInv, [Next]_vars, NEW r \in Request,
                      req'[r].pc = "token", req[r].pc # "token", req'[r].acct \in Claude
               PROVE  Waiting(r) \/ am.waiting = <<>>
    OBVIOUS
  <2> QED BY StepKeeps DEF Still, Keeps
<1> QED BY <1>1, FwdInvHolds, PTL DEF Spec, NoQueueJumping

(* Nothing is retried or held once bytes of a response are out (the guards  *)
(* on res.headersSent and clientHasRealBytes).                              *)
THEOREM ResponsesAreNotReplayed == Spec => NoReplayAfterBytes
<1> DEFINE Committed ==
      \A r \in Request : req[r].wire = "real" => req'[r].pc \in {"answer", "done"}
<1>1. FwdInv /\ [Next]_vars => [Committed]_vars
  <2> SUFFICES ASSUME FwdInv, [Next]_vars, NEW r \in Request, req[r].wire = "real"
               PROVE  req'[r].pc \in {"answer", "done"}
    OBVIOUS
  <2>1. req[r].pc = "answer" BY DEF FwdInv, AllSettled, Settled
  <2> QED BY <2>1, StepKeeps DEF Still, Keeps
<1> QED BY <1>1, FwdInvHolds, PTL DEF Spec, NoReplayAfterBytes

\* An attempt whose client has left only ends.
LEMMA GoneOnlyEnds ==
  ASSUME FwdInv, NEW r \in Streams, req[r].gone, ~req[r].deaf, Acct(r) \notin Mirror,
         Arrive(r) \/ ClientLeaves(r) \/ GraceBeat(r) \/ FirstBytes(r) \/ Attempt(r) \/ Poll(r)
  PROVE  req'[r].pc = "done"
<1>1. r \in Request /\ req \in [Request -> Info]
  BY ForwardingAssumption DEF FwdInv, TypeOK
<1>2. ASSUME NEW m, Answer(m, r) PROVE req'[r].pc = "done"
  BY <1>1, <1>2 DEF Answer, Set, Fresh
<1>3. Aborted(r) BY DEF Aborted
<1>4. ~Arrive(r)
  <2>1. req[r].pc = "new" => req[r] = Fresh BY <1>1 DEF FwdInv, AllSettled, Settled
  <2> QED BY <2>1 DEF Arrive, Fresh
<1>5. ~ClientLeaves(r) /\ ~GraceBeat(r) /\ ~FirstBytes(r)
  BY DEF ClientLeaves, GraceBeat, FirstBytes
<1>6. Poll(r) => PollGone(r) BY DEF Poll, PollAdmits, AdmissibleNow, PollWaits
<1>7. \A kind : ~Answers(r, kind) BY <1>3 DEF Answers
<1>8. Attempt(r) => ClientGone(r) \/ AnswerEnds(r)
  <2>1. ~TokenReady(r) /\ ~TokenFailed(r) /\ ~ThreadRefused(r) /\ ~Refused(r)
    BY <1>3 DEF TokenReady, TokenFailed, ThreadRefused, Refused
  <2>2. /\ ~Overloaded(r) /\ ~RateLimited(r) /\ ~AmbiguousLimit(r) /\ ~ProviderAuth(r)
        /\ ~ServerError(r) /\ ~Rejected(r) /\ ~Mend(r)
    BY <1>7 DEF Overloaded, RateLimited, AmbiguousLimit, ProviderAuth, ServerError, Rejected, Mend
  <2>3. /\ ~ToIssuer(r) /\ ~ToProvider(r) /\ ~ToClaude(r) /\ ~FetchThrows(r) /\ ~Accepted(r)
        /\ ~NetworkFails(r)
    BY <1>7 DEF ToIssuer, ToProvider, ToClaude, Redirected, FetchThrows, Accepted, NetworkFails
  <2>4. ~MirrorBusy(r) /\ ~MirrorFails(r) /\ ~MirrorAnswers(r)
    BY DEF MirrorBusy, MirrorFails, MirrorAnswers, At, Acct
  <2> QED BY <2>1, <2>2, <2>3, <2>4 DEF Attempt
<1>9. \E m : Answer(m, r)
  BY <1>4, <1>5, <1>6, <1>8 DEF PollGone, ClientGone, AnswerEnds
<1> QED BY <1>2, <1>9

(* releaseOnClientGone and the abort of the fetch: for a streaming client   *)
(* that has left a direct attempt nothing is sent any more.                 *)
THEOREM TheGoneAreLetGo == Spec => NothingSentForTheGone
<1> DEFINE Ends ==
      \A r \in Streams :
        req[r].gone /\ ~req[r].deaf /\ Acct(r) \notin Mirror
        => req'[r].pc \in {req[r].pc, "done"}
<1>1. FwdInv /\ [Next]_vars => [Ends]_vars
  <2> SUFFICES ASSUME FwdInv, [Next]_vars, NEW r \in Streams, r \in Request,
                      req[r].gone, ~req[r].deaf, Acct(r) \notin Mirror
               PROVE  req'[r].pc \in {req[r].pc, "done"}
    BY ForwardingAssumption
  <2>1. CASE Tick BY <2>1, TickKeeps
  <2>2. CASE RampStep BY <2>2, RampStepKeeps
  <2>3. ASSUME NEW x \in Request,
               Arrive(x) \/ ClientLeaves(x) \/ GraceBeat(x) \/ FirstBytes(x) \/ Attempt(x) \/ Poll(x)
        PROVE  req'[r].pc \in {req[r].pc, "done"}
    <3>1. CASE x = r BY <2>3, <3>1, GoneOnlyEnds
    <3>2. CASE x # r
      <4>1. Keeps(x)
        BY <2>3, ArriveKeeps, ClientLeavesKeeps, GraceBeatKeeps, FirstBytesKeeps, AttemptKeeps,
           PollGoneKeeps, PollAdmitsKeeps, PollWaitsKeeps DEF Poll
      <4> QED BY <3>2, <4>1 DEF Keeps
    <3> QED BY <3>1, <3>2
  <2>4. CASE UNCHANGED vars BY <2>4 DEF vars
  <2> QED BY <2>1, <2>2, <2>3, <2>4 DEF Next
<1> QED BY <1>1, FwdInvHolds, PTL DEF Spec, NothingSentForTheGone
=============================================================================
