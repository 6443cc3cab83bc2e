----------------------------- MODULE LedgerProofs -----------------------------
(***************************************************************************)
(* Of the state file, for any number of workers, tokens and saves, if no   *)
(* two workers merge at once: HolderCanSave and ReleasedIsSaved.  Of the   *)
(* ledger, for any window of two minutes or more, clock, number of rows    *)
(* and of restarts: CountedIsWatched, RowsAreDistinct, TokensAccountedFor. *)
(***************************************************************************)
EXTENDS StateFile, CapacityLedger, SequenceTheorems, FiniteSetTheorems, TLAPS

(***************************************************************************)
(* Chains of saves                                                         *)
(***************************************************************************)
\* A save that has read the generation takes the place of the one that had not.
LEMMA HeadReplaced ==
  ASSUME NEW J, NEW s \in Seq(J), s # <<>>, NEW e \in J
  PROVE  LET q == <<e>> \o Tail(s)
         IN  /\ q \in Seq(J) /\ q # <<>> /\ Len(q) = Len(s) /\ Head(q) = e
             /\ \A i \in 2..Len(q) : q[i] = s[i]
<1>1. /\ Tail(s) \in Seq(J) /\ Len(Tail(s)) = Len(s) - 1 /\ Len(s) \in Nat \ {0}
      /\ \A i \in 1..Len(Tail(s)) : Tail(s)[i] = s[i + 1]
  OBVIOUS
<1>2. <<e>> \in Seq(J) /\ Len(<<e>>) = 1 /\ <<e>>[1] = e OBVIOUS
<1> DEFINE q == <<e>> \o Tail(s)
<1>3. q \in Seq(J) /\ Len(q) = Len(s) BY <1>1, <1>2, ConcatProperties
<1>4. \A i \in 1..Len(q) : q[i] = IF i <= 1 THEN <<e>>[i] ELSE Tail(s)[i - 1]
  BY <1>1, <1>2, ConcatProperties
<1> HIDE DEF q
<1>5. q # <<>> /\ Head(q) = q[1] BY <1>1, <1>3
<1>6. q[1] = e BY <1>1, <1>2, <1>3, <1>4
<1>7. \A i \in 2..Len(q) : q[i] = s[i] BY <1>1, <1>3, <1>4
<1> QED BY <1>3, <1>5, <1>6, <1>7 DEF q

\* Queueing a save leaves those before it alone.
LEMMA Queued ==
  ASSUME NEW J, NEW s \in Seq(J), NEW e \in J
  PROVE  LET q == Append(s, e)
         IN  /\ q \in Seq(J) /\ q # <<>>
             /\ Head(q) = IF s = <<>> THEN e ELSE Head(s)
             /\ \A i \in 2..Len(q) : q[i] = e \/ (i \in 2..Len(s) /\ q[i] = s[i])
<1> DEFINE q == Append(s, e)
<1>1. /\ q \in Seq(J) /\ Len(q) = Len(s) + 1 /\ Len(s) \in Nat
      /\ q[Len(s) + 1] = e /\ \A i \in 1..Len(s) : q[i] = s[i]
  BY AppendProperties
<1>2. s = <<>> <=> Len(s) = 0 BY EmptySeq
<1>3. s # <<>> => Head(s) = s[1] BY HeadTailProperties
<1> HIDE DEF q
<1>4. q # <<>> /\ Head(q) = q[1] BY <1>1
<1>5. Head(q) = IF s = <<>> THEN e ELSE Head(s) BY <1>1, <1>2, <1>3, <1>4
<1>6. \A i \in 2..Len(q) : q[i] = e \/ (i \in 2..Len(s) /\ q[i] = s[i]) BY <1>1
<1> QED BY <1>1, <1>4, <1>5, <1>6 DEF q

\* What is behind the head is the head next, and all the more so behind it.
LEMMA HeadDone ==
  ASSUME NEW J, NEW s \in Seq(J), s # <<>>
  PROVE  /\ Head(s) \in J /\ Tail(s) \in Seq(J)
         /\ Tail(s) # <<>> => 2 \in 2..Len(s) /\ Head(Tail(s)) = s[2]
         /\ \A i \in 2..Len(Tail(s)) : i + 1 \in 2..Len(s) /\ Tail(s)[i] = s[i + 1]
<1>1. /\ Tail(s) \in Seq(J) /\ Len(Tail(s)) = Len(s) - 1 /\ Len(s) \in Nat \ {0}
      /\ \A i \in 1..Len(Tail(s)) : Tail(s)[i] = s[i + 1]
  OBVIOUS
<1>2. Head(s) \in J OBVIOUS
<1>3. Tail(s) # <<>> => Len(Tail(s)) # 0 /\ Head(Tail(s)) = Tail(s)[1]
  BY <1>1, HeadTailProperties, EmptySeq
<1> QED BY <1>1, <1>2, <1>3

(***************************************************************************)
(* Types                                                                   *)
(***************************************************************************)
LEMMA LedgerFields ==
  ASSUME NEW l \in Ledger, NEW t \in 0..MaxTokens, NEW m \in Nat, NEW n \in Nat
  PROVE  /\ [l EXCEPT !.start = t, !.tokens = m, !.days = n] \in Ledger
         /\ [l EXCEPT !.start = t, !.tokens = m, !.closed = n] \in Ledger
         /\ [l EXCEPT !.tokens = m, !.days = n] \in Ledger
<1>1. \A r \in Ledger :
        /\ [r EXCEPT !.start = t] \in Ledger /\ [r EXCEPT !.tokens = m] \in Ledger
        /\ [r EXCEPT !.days = n] \in Ledger /\ [r EXCEPT !.closed = n] \in Ledger
  BY DEF Ledger
<1> QED BY <1>1

LEMMA LedgerOps ==
  /\ EmptyLedger \in Ledger
  /\ \A l \in Ledger : Closed(l) \in Ledger
  /\ \A l \in Ledger, t \in 0..MaxTokens : Accrued(l, t) \in Ledger
  /\ \A l, b, a \in Ledger : MergeDelta(l, b, a) \in Ledger
<1>1. EmptyLedger \in Ledger BY StateFileAssumption DEF EmptyLedger, Ledger, NoCycle
<1>2. ASSUME NEW l \in Ledger PROVE Closed(l) \in Ledger
  <2>1. NoCycle \in 0..MaxTokens /\ l.closed + l.tokens \in Nat /\ 0 \in Nat
    BY StateFileAssumption DEF NoCycle, Ledger
  <2> QED BY <2>1, LedgerFields DEF Closed
<1>3. ASSUME NEW l \in Ledger, NEW t \in 0..MaxTokens PROVE Accrued(l, t) \in Ledger
  <2> DEFINE start == IF l.start = NoCycle THEN t ELSE l.start
  <2>1. start \in 0..MaxTokens /\ l.tokens + 1 \in Nat /\ l.days + 1 \in Nat BY DEF Ledger
  <2> HIDE DEF start
  <2>2. [l EXCEPT !.start = start, !.tokens = l.tokens + 1, !.days = l.days + 1] \in Ledger
    BY <2>1, LedgerFields
  <2> QED BY <2>2 DEF Accrued, start
<1>4. ASSUME NEW l \in Ledger, NEW b \in Ledger, NEW a \in Ledger
      PROVE  MergeDelta(l, b, a) \in Ledger
  <2> DEFINE delta == IF b.start = a.start THEN a.tokens - b.tokens ELSE a.tokens
             tokens == IF l.start # NoCycle /\ l.start = a.start
                       THEN l.tokens + PositiveOr0(delta) ELSE l.tokens
             days == l.days + PositiveOr0(a.days - b.days)
  <2>1. delta \in Int /\ a.days - b.days \in Int BY DEF Ledger
  <2>2. \A n \in Int : PositiveOr0(n) \in Nat BY DEF PositiveOr0
  <2>3. PositiveOr0(delta) \in Nat /\ PositiveOr0(a.days - b.days) \in Nat BY <2>1, <2>2
  <2> HIDE DEF delta
  <2>4. tokens \in Nat /\ days \in Nat BY <2>3 DEF Ledger
  <2>5. MergeDelta(l, b, a) = [l EXCEPT !.tokens = tokens, !.days = days]
    BY DEF MergeDelta, delta
  <2>6. 0 \in 0..MaxTokens BY StateFileAssumption
  <2>7. [l EXCEPT !.tokens = tokens, !.days = days] \in Ledger
    <3> HIDE DEF tokens, days
    <3> QED BY <2>4, <2>6, LedgerFields
  <2> QED BY ONLY <2>5, <2>7
<1> QED BY <1>1, <1>2, <1>3, <1>4

LEMMA JobTypes ==
  /\ \A l \in Ledger, e \in {AnyGen} \cup Nat : SaveJob(l, e) \in Job /\ SaveJob(l, e).seen = Unread
  /\ \A j \in Job, g \in Nat : [j EXCEPT !.seen = g] \in Job /\ [j EXCEPT !.seen = g].seen = g
  BY DEF SaveJob, Job

\* A worker that merges has read the file.
MergeHasRead ==
    \A w \in Worker :
        stage[w] = "merging" => chain[w] # <<>> /\ Head(chain[w]).seen # Unread

LEMMA InitTypes == StateInit => StateTypeOK
  BY LedgerOps, StateFileAssumption DEF StateInit, StateTypeOK, Stages

LEMMA LeavesTypes ==
  ASSUME StateTypeOK, NEW w \in Worker, Leaves(w)
  PROVE  /\ stage' \in [Worker -> Stages] /\ known' \in [Worker -> Nat]
         /\ book' \in [Worker -> Ledger] /\ flushed' \in [Worker -> Ledger]
         /\ handed' \in [Worker -> Ledger] /\ chain' \in [Worker -> Seq(Job)]
<1>1. <<>> \in Seq(Job) OBVIOUS
<1> QED BY <1>1, LedgerOps DEF StateTypeOK, Leaves, Stages

LEMMA NextTypes == StateTypeOK /\ MergeHasRead /\ [StateNext]_svars => StateTypeOK'
<1> SUFFICES ASSUME StateTypeOK, MergeHasRead, [StateNext]_svars PROVE StateTypeOK'
  OBVIOUS
<1> USE StateFileAssumption
<1>1. ASSUME NEW w \in Worker, Deliver(w) PROVE StateTypeOK'
  <2>1. clock' \in 0..MaxTokens /\ clock' = clock + 1 BY <1>1 DEF Deliver, StateTypeOK
  <2>2. book' \in [Worker -> Ledger] BY <1>1, <2>1, LedgerOps DEF Deliver, StateTypeOK
  <2> QED BY <1>1, <2>1, <2>2 DEF Deliver, StateTypeOK
<1>2. ASSUME NEW w \in Worker, RollOver(w) PROVE StateTypeOK'
  BY <1>2, LedgerOps DEF RollOver, StateTypeOK
<1>3. ASSUME NEW w \in Worker, PeriodicSave(w) PROVE StateTypeOK'
  <2>1. SaveJob(book[w], known[w]) \in Job BY JobTypes DEF StateTypeOK
  <2>2. Append(chain[w], SaveJob(book[w], known[w])) \in Seq(Job)
    BY <2>1, Queued DEF StateTypeOK
  <2>3. saves' \in 0..MaxSaves BY <1>3 DEF PeriodicSave, StateTypeOK
  <2> QED BY <1>3, <2>2, <2>3 DEF PeriodicSave, StateTypeOK
<1>4. ASSUME NEW w \in Worker, SaveReads(w) PROVE StateTypeOK'
  <2>1. chain[w] \in Seq(Job) /\ chain[w] # <<>> /\ disk.gen \in Nat
    BY <1>4 DEF SaveReads, StateTypeOK
  <2>2. Head(chain[w]) \in Job /\ Tail(chain[w]) \in Seq(Job) BY <2>1, HeadDone
  <2>3. [Head(chain[w]) EXCEPT !.seen = disk.gen] \in Job BY <2>1, <2>2, JobTypes
  <2>4. <<[Head(chain[w]) EXCEPT !.seen = disk.gen]>> \o Tail(chain[w]) \in Seq(Job)
    BY <2>1, <2>3, HeadReplaced
  <2>5. PICK c \in Seq(Job) : chain' = [chain EXCEPT ![w] = c]
    BY <1>4, <2>2, <2>4 DEF SaveReads
  <2> QED BY <1>4, <2>5 DEF SaveReads, StateTypeOK
<1>5. ASSUME NEW w \in Worker, SaveWrites(w) PROVE StateTypeOK'
  <2>1. chain[w] \in Seq(Job) /\ chain[w] # <<>> BY <1>5 DEF SaveWrites, StateTypeOK
  <2>2. Head(chain[w]) \in Job /\ Tail(chain[w]) \in Seq(Job) BY <2>1, HeadDone
  <2>3. Head(chain[w]).seen + 1 \in Nat /\ Head(chain[w]).ledger \in Ledger
    BY <1>5, <2>2 DEF SaveWrites, Job
  <2> QED BY <1>5, <2>2, <2>3 DEF SaveWrites, StateTypeOK
<1>6. ASSUME NEW w \in Worker, Spawns(w) PROVE StateTypeOK'
  <2>1. PICK st \in Stages : stage' = [stage EXCEPT ![w] = st]
    BY <1>6 DEF Spawns, Stages
  <2> QED BY <1>6, <2>1 DEF Spawns, StateTypeOK
<1>7. ASSUME NEW w \in Worker, Releases(w) PROVE StateTypeOK'
  <2>1. SaveJob(book[w], AnyGen) \in Job BY JobTypes DEF StateTypeOK
  <2>2. Append(chain[w], SaveJob(book[w], AnyGen)) \in Seq(Job)
    BY <2>1, Queued DEF StateTypeOK
  <2> QED BY <1>7, <2>2 DEF Releases, StateTypeOK, Stages
<1>8. ASSUME NEW w \in Worker, Released(w) \/ TakeOver(w) \/ AcquireLease(w) PROVE StateTypeOK'
  BY <1>8 DEF Released, TakeOver, AcquireLease, StateTypeOK, Stages
<1>9. ASSUME NEW w \in Worker, MergeReads(w) PROVE StateTypeOK'
  <2> DEFINE merged == MergeDelta(disk.ledger, flushed[w], book[w])
             job == [ledger |-> merged, expected |-> AnyGen, seen |-> disk.gen]
  <2>1. merged \in Ledger BY LedgerOps DEF StateTypeOK
  <2>2. job \in Job
    <3> HIDE DEF merged
    <3> QED BY <2>1 DEF Job, StateTypeOK
  <2>3. chain' = [chain EXCEPT ![w] = <<job>>] BY <1>9 DEF MergeReads
  <2> HIDE DEF job
  <2>4. <<job>> \in Seq(Job) BY <2>2
  <2> QED BY <1>9, <2>3, <2>4 DEF MergeReads, StateTypeOK, Stages
<1>10. ASSUME NEW w \in Worker, Stops(w) PROVE StateTypeOK'
  <2>1. Leaves(w) /\ UNCHANGED <<disk, clock, saves>> BY <1>10 DEF Stops
  <2> QED BY <2>1, LeavesTypes DEF StateTypeOK
<1>11. ASSUME NEW w \in Worker, MergeWrites(w) PROVE StateTypeOK'
  <2>1. chain[w] \in Seq(Job) /\ chain[w] # <<>> /\ Head(chain[w]).seen # Unread
    BY <1>11 DEF MergeWrites, MergeHasRead, StateTypeOK
  <2>2. Head(chain[w]) \in Job BY <2>1, HeadDone
  <2>3. disk' \in [gen: Nat, ledger: Ledger]
    BY <1>11, <2>1, <2>2 DEF MergeWrites, Job, StateTypeOK
  <2>4. Leaves(w) /\ UNCHANGED <<clock, saves>> BY <1>11 DEF MergeWrites
  <2> QED BY <2>3, <2>4, LeavesTypes DEF StateTypeOK
<1>12. CASE UNCHANGED svars BY <1>12 DEF svars, StateTypeOK
<1> QED BY <1>1, <1>2, <1>3, <1>4, <1>5, <1>6, <1>7, <1>8, <1>9, <1>10, <1>11, <1>12 DEF StateNext

LEMMA NextMergeHasRead ==
  StateTypeOK /\ MergeHasRead /\ [StateNext]_svars => MergeHasRead'
<1> SUFFICES ASSUME StateTypeOK, MergeHasRead, [StateNext]_svars,
                    NEW v \in Worker, stage'[v] = "merging"
             PROVE  chain'[v] # <<>> /\ Head(chain'[v]).seen # Unread
  BY DEF MergeHasRead
<1>1. CASE UNCHANGED <<stage, chain>> BY <1>1 DEF MergeHasRead
<1>2. ASSUME NEW w \in Worker, PeriodicSave(w) \/ Spawns(w) \/ Releases(w) \/ Released(w)
                                 \/ TakeOver(w) \/ AcquireLease(w)
      PROVE  chain'[v] # <<>> /\ Head(chain'[v]).seen # Unread
  <2>1. v # w /\ stage[v] = "merging" /\ chain'[v] = chain[v]
    BY <1>2 DEF PeriodicSave, HasLease, Spawns, Releases, Released, TakeOver, AcquireLease,
                StateTypeOK
  <2> QED BY <2>1 DEF MergeHasRead
<1>3. ASSUME NEW w \in Worker, SaveReads(w) \/ SaveWrites(w), stage[w] # "merging"
      PROVE  chain'[v] # <<>> /\ Head(chain'[v]).seen # Unread
  <2>1. v # w /\ stage[v] = "merging" /\ chain'[v] = chain[v]
    BY <1>3 DEF SaveReads, SaveWrites, StateTypeOK
  <2> QED BY <2>1 DEF MergeHasRead
<1>4. ASSUME NEW w \in Worker, MergeReads(w)
      PROVE  chain'[v] # <<>> /\ Head(chain'[v]).seen # Unread
  <2>1. CASE v = w
    <3>1. PICK l : chain'[v] = <<[ledger |-> l, expected |-> AnyGen, seen |-> disk.gen]>>
      BY <1>4, <2>1 DEF MergeReads, StateTypeOK
    <3>2. chain'[v] # <<>> /\ Head(chain'[v]).seen = disk.gen BY <3>1
    <3> QED BY <3>2 DEF StateTypeOK, Unread
  <2>2. CASE v # w
    <3>1. stage[v] = "merging" /\ chain'[v] = chain[v]
      BY <1>4, <2>2 DEF MergeReads, StateTypeOK
    <3> QED BY <3>1 DEF MergeHasRead
  <2> QED BY <2>1, <2>2
<1>5. ASSUME NEW w \in Worker, Leaves(w)
      PROVE  chain'[v] # <<>> /\ Head(chain'[v]).seen # Unread
  <2>1. v # w /\ stage[v] = "merging" /\ chain'[v] = chain[v]
    BY <1>5 DEF Leaves, StateTypeOK
  <2> QED BY <2>1 DEF MergeHasRead
<1>6. ASSUME NEW w \in Worker, Deliver(w) \/ RollOver(w) PROVE UNCHANGED <<stage, chain>>
  BY <1>6 DEF Deliver, RollOver
<1> QED BY <1>1, <1>2, <1>3, <1>4, <1>5, <1>6 DEF StateNext, MergeWrites, Stops, svars

(* state.json and the ledgers in memory are well formed, whatever the      *)
(* workers of any number of reloads load, merge and write back.            *)
THEOREM StateFileTypes == StateSpec => []StateTypeOK
<1>1. StateInit => MergeHasRead BY DEF StateInit, MergeHasRead
<1> QED BY InitTypes, NextTypes, NextMergeHasRead, <1>1, PTL DEF StateSpec

(***************************************************************************)
(* The lease.  HolderCanSave is not inductive: a save and a merge write at *)
(* the generation that they read, so what was read must be bounded by what *)
(* is on disk - from below for the holder, whose save advances it, from    *)
(* above for a merge, that puts it back.  And there is one holder, that    *)
(* took over when there was none.                                          *)
(***************************************************************************)
Holds(w) == stage[w] \in {"primary", "releasing"}
Follows(w) == stage[w] \in {"headless", "takeover"}

StagesInv ==
    \A v, w \in Worker :
        /\ Holds(v) /\ Holds(w) => v = w
        /\ Follows(v) /\ Follows(w) => v = w
        /\ stage[v] = "takeover" => ~Holds(w)
        /\ stage[v] = "merging" /\ stage[w] = "merging" => v = w

\* of a worker in stage st, with the saves c queued, that knows the generation k,
\* if g is on disk
SavesInOrder(st, c, k, g) ==
    /\ c # <<>> => st \in {"primary", "releasing", "merging"}
    /\ st = "merging" => Head(c).seen <= g
    /\ st \in {"primary", "releasing"} =>
          /\ c # <<>> => Head(c).seen = Unread \/ g <= Head(c).seen
          /\ \A i \in 2..Len(c) : c[i].seen = Unread
    /\ st = "primary" => g <= k

ChainsInv == \A w \in Worker : SavesInOrder(stage[w], chain[w], known[w], disk.gen)

LEMMA NextStages ==
  ASSUME StateTypeOK, StagesInv, ~TwoMerge, [StateNext]_svars
  PROVE  StagesInv'
<1>1. CASE UNCHANGED stage BY <1>1 DEF StagesInv, Holds, Follows
<1>2. ASSUME NEW w \in Worker, Spawns(w) PROVE StagesInv'
  <2>1. /\ stage' = [stage EXCEPT ![w] = IF Holder = {} THEN "takeover" ELSE "headless"]
        /\ stage[w] = "unborn" /\ Successor = {}
    BY <1>2 DEF Spawns
  <2>2. \A v \in Worker : ~Follows(v) BY <2>1 DEF Follows, Successor
  <2>3. Holder = {} => \A v \in Worker : ~Holds(v) BY DEF Holds, Holder
  <2>4. CASE Holder = {} BY <2>1, <2>2, <2>3, <2>4 DEF StagesInv, Holds, Follows, StateTypeOK
  <2>5. CASE Holder # {} BY <2>1, <2>2, <2>5 DEF StagesInv, Holds, Follows, StateTypeOK
  <2> QED BY <2>4, <2>5
<1>3. ASSUME NEW w \in Worker, Releases(w) \/ Released(w) PROVE StagesInv'
  <2>1. CASE Releases(w) BY <2>1 DEF Releases, StagesInv, Holds, Follows, StateTypeOK
  <2>2. CASE Released(w) BY <2>2 DEF Released, StagesInv, Holds, Follows, StateTypeOK
  <2> QED BY <1>3, <2>1, <2>2
<1>4. ASSUME NEW w \in Worker, TakeOver(w) PROVE StagesInv'
  <2>1. \A v \in Worker : ~Holds(v) BY <1>4 DEF TakeOver, Holder, Holds
  <2> QED BY <1>4, <2>1 DEF TakeOver, StagesInv, Holds, Follows, StateTypeOK
<1>5. ASSUME NEW w \in Worker, AcquireLease(w) PROVE StagesInv'
  BY <1>5 DEF AcquireLease, StagesInv, Holds, Follows, StateTypeOK
<1>6. ASSUME NEW w \in Worker, MergeReads(w) PROVE StagesInv'
  BY <1>6 DEF MergeReads, StagesInv, Holds, Follows, StateTypeOK
<1>7. ASSUME NEW w \in Worker, Leaves(w) PROVE StagesInv'
  BY <1>7 DEF Leaves, StagesInv, Holds, Follows, StateTypeOK
<1>8. ASSUME NEW w \in Worker, Deliver(w) \/ RollOver(w) \/ PeriodicSave(w) \/ SaveReads(w)
                                 \/ SaveWrites(w)
      PROVE  UNCHANGED stage
  BY <1>8 DEF Deliver, RollOver, PeriodicSave, SaveReads, SaveWrites
<1> QED BY <1>1, <1>2, <1>3, <1>4, <1>5, <1>6, <1>7, <1>8 DEF StateNext, MergeWrites, Stops, svars

\* One worker moves, and the generation does not.
LEMMA OneMoves ==
  ASSUME ChainsInv, NEW w \in Worker, disk'.gen = disk.gen,
         \A v \in Worker \ {w} : /\ stage'[v] = stage[v] /\ chain'[v] = chain[v]
                                 /\ known'[v] = known[v],
         SavesInOrder(stage'[w], chain'[w], known'[w], disk.gen)
  PROVE  ChainsInv'
<1> SUFFICES ASSUME NEW v \in Worker
             PROVE  SavesInOrder(stage'[v], chain'[v], known'[v], disk'.gen)
  BY DEF ChainsInv
<1>1. CASE v = w BY <1>1
<1>2. CASE v # w BY <1>2 DEF ChainsInv
<1> QED BY <1>1, <1>2

LEMMA NextChains ==
  ASSUME StateTypeOK, MergeHasRead, StagesInv, ChainsInv, ~TwoMerge, [StateNext]_svars
  PROVE  ChainsInv'
<1>1. CASE UNCHANGED <<disk, stage, chain, known>> BY <1>1 DEF ChainsInv
<1>2. ASSUME NEW w \in Worker, Deliver(w) \/ RollOver(w)
      PROVE  UNCHANGED <<disk, stage, chain, known>>
  BY <1>2 DEF Deliver, RollOver
<1>3. ASSUME NEW w \in Worker, NEW job \in Job, job.seen = Unread, stage[w] = "primary",
             stage' = stage \/ stage' = [stage EXCEPT ![w] = "releasing"],
             chain' = [chain EXCEPT ![w] = Append(@, job)], UNCHANGED <<disk, known>>
      PROVE  ChainsInv'
  <2> DEFINE c == Append(chain[w], job)
  <2>1. chain[w] \in Seq(Job) /\ chain'[w] = c BY <1>3 DEF StateTypeOK
  <2>2. stage'[w] \in {"primary", "releasing"} BY <1>3 DEF StateTypeOK
  <2>3. SavesInOrder("primary", chain[w], known[w], disk.gen) BY <1>3 DEF ChainsInv
  <2>4. c # <<>> /\ (Head(c).seen = Unread \/ disk.gen <= Head(c).seen)
    BY <1>3, <2>1, <2>3, Queued DEF SavesInOrder
  <2>5. \A i \in 2..Len(c) : c[i].seen = Unread BY <1>3, <2>1, <2>3, Queued DEF SavesInOrder
  <2> HIDE DEF c
  <2>6. SavesInOrder(stage'[w], chain'[w], known'[w], disk.gen)
    BY <1>3, <2>1, <2>2, <2>3, <2>4, <2>5 DEF SavesInOrder
  <2> QED BY <1>3, <2>6, OneMoves DEF StateTypeOK
<1>4. ASSUME NEW w \in Worker, PeriodicSave(w) PROVE ChainsInv'
  <2>1. SaveJob(book[w], known[w]) \in Job /\ SaveJob(book[w], known[w]).seen = Unread
    BY JobTypes DEF StateTypeOK
  <2> QED BY <1>3, <1>4, <2>1 DEF PeriodicSave, HasLease
<1>5. ASSUME NEW w \in Worker, Releases(w) PROVE ChainsInv'
  <2>1. SaveJob(book[w], AnyGen) \in Job /\ SaveJob(book[w], AnyGen).seen = Unread
    BY JobTypes DEF StateTypeOK
  <2> QED BY <1>3, <1>5, <2>1 DEF Releases
<1>6. ASSUME NEW w \in Worker, SaveReads(w), stage[w] # "merging" PROVE ChainsInv'
  <2>1. chain[w] \in Seq(Job) /\ chain[w] # <<>> /\ disk.gen \in Nat /\ disk.gen # Unread
    BY <1>6 DEF SaveReads, StateTypeOK, Unread
  <2>2. SavesInOrder(stage[w], chain[w], known[w], disk.gen) BY DEF ChainsInv
  <2>3. stage[w] \in {"primary", "releasing"} BY <1>6, <2>1, <2>2 DEF SavesInOrder
  <2> DEFINE job == [Head(chain[w]) EXCEPT !.seen = disk.gen]
  <2>4. Head(chain[w]) \in Job /\ Tail(chain[w]) \in Seq(Job) BY <2>1, HeadDone
  <2>5. job \in Job /\ job.seen = disk.gen BY <2>1, <2>4, JobTypes
  <2>6. chain' = [chain EXCEPT ![w] = Tail(chain[w])]
          \/ chain' = [chain EXCEPT ![w] = <<job>> \o Tail(chain[w])]
    BY <1>6 DEF SaveReads
  <2> HIDE DEF job
  <2>7. CASE chain' = [chain EXCEPT ![w] = Tail(chain[w])]
    <3>1. chain'[w] = Tail(chain[w]) BY <2>7 DEF StateTypeOK
    <3>2. SavesInOrder(stage[w], Tail(chain[w]), known[w], disk.gen)
      BY <2>1, <2>2, <2>3, HeadDone DEF SavesInOrder
    <3> QED BY <1>6, <2>7, <3>1, <3>2, OneMoves DEF SaveReads, StateTypeOK
  <2>8. CASE chain' = [chain EXCEPT ![w] = <<job>> \o Tail(chain[w])]
    <3> DEFINE c == <<job>> \o Tail(chain[w])
    <3>1. chain'[w] = c BY <2>8 DEF StateTypeOK
    <3>2. c # <<>> /\ Head(c).seen = disk.gen BY <2>1, <2>5, HeadReplaced
    <3>3. \A i \in 2..Len(c) : i \in 2..Len(chain[w]) /\ c[i] = chain[w][i]
      BY <2>1, <2>5, HeadReplaced
    <3> HIDE DEF c
    <3>4. SavesInOrder(stage[w], c, known[w], disk.gen)
      BY <2>1, <2>2, <2>3, <3>2, <3>3 DEF SavesInOrder
    <3> QED BY <1>6, <2>8, <3>1, <3>4, OneMoves DEF SaveReads, StateTypeOK
  <2> QED BY <2>6, <2>7, <2>8
<1>7. ASSUME NEW w \in Worker, SaveWrites(w), stage[w] # "merging" PROVE ChainsInv'
  <2>1. chain[w] \in Seq(Job) /\ chain[w] # <<>> BY <1>7 DEF SaveWrites, StateTypeOK
  <2>2. Head(chain[w]) \in Job /\ Tail(chain[w]) \in Seq(Job) BY <2>1, HeadDone
  <2>3. SavesInOrder(stage[w], chain[w], known[w], disk.gen) BY DEF ChainsInv
  <2>4. stage[w] \in {"primary", "releasing"} BY <1>7, <2>1, <2>3 DEF SavesInOrder
  <2> DEFINE g == Head(chain[w]).seen + 1
  <2>5. g \in Nat /\ disk.gen <= g
    BY <1>7, <2>1, <2>2, <2>3, <2>4 DEF SavesInOrder, SaveWrites, Job, StateTypeOK
  <2>6. /\ disk'.gen = g /\ known'[w] = g /\ chain'[w] = Tail(chain[w]) /\ stage' = stage
        /\ \A v \in Worker \ {w} : chain'[v] = chain[v] /\ known'[v] = known[v]
    BY <1>7 DEF SaveWrites, StateTypeOK
  <2> HIDE DEF g
  <2>7. SavesInOrder(stage[w], Tail(chain[w]), g, g)
    BY <2>1, <2>3, <2>4, <2>5, HeadDone DEF SavesInOrder
  <2>8. ASSUME NEW v \in Worker \ {w} PROVE SavesInOrder(stage[v], chain[v], known[v], g)
    <3>1. SavesInOrder(stage[v], chain[v], known[v], disk.gen) BY DEF ChainsInv
    <3>2. stage[v] \notin {"primary", "releasing"} BY <2>4 DEF StagesInv, Holds
    <3>3. stage[v] = "merging" => Head(chain[v]).seen <= g
      <4>1. SUFFICES ASSUME stage[v] = "merging" PROVE Head(chain[v]).seen <= g
        OBVIOUS
      <4>2. chain[v] # <<>> /\ Head(chain[v]).seen <= disk.gen
        BY <3>1, <4>1 DEF SavesInOrder, MergeHasRead
      <4>3. Head(chain[v]) \in Job BY <4>2, HeadDone DEF StateTypeOK
      <4>4. Head(chain[v]).seen \in Int BY <4>3 DEF Job, Unread
      <4> QED BY <2>5, <4>2, <4>4 DEF StateTypeOK
    <3> QED BY <3>1, <3>2, <3>3 DEF SavesInOrder
  <2> QED BY <2>6, <2>7, <2>8 DEF ChainsInv
<1>8. ASSUME NEW w \in Worker, Spawns(w) \/ Released(w) \/ TakeOver(w) PROVE ChainsInv'
  <2>1. stage[w] \in {"unborn", "releasing", "headless"} /\ UNCHANGED <<disk, chain>>
    BY <1>8 DEF Spawns, Released, TakeOver
  <2>2. SavesInOrder(stage[w], chain[w], known[w], disk.gen) BY DEF ChainsInv
  <2>3. chain[w] = <<>> BY <1>8, <2>2 DEF SavesInOrder, Spawns, Released, TakeOver
  <2>4. stage'[w] \in {"takeover", "headless", "drained"}
    BY <1>8 DEF Spawns, Released, TakeOver, StateTypeOK
  <2>5. SavesInOrder(stage'[w], chain'[w], known'[w], disk.gen)
    BY <2>1, <2>3, <2>4 DEF SavesInOrder
  <2> QED BY <1>8, <2>1, <2>5, OneMoves DEF Spawns, Released, TakeOver, StateTypeOK
<1>9. ASSUME NEW w \in Worker, AcquireLease(w) PROVE ChainsInv'
  <2>1. SavesInOrder(stage[w], chain[w], known[w], disk.gen) BY DEF ChainsInv
  <2>2. chain[w] = <<>> BY <1>9, <2>1 DEF SavesInOrder, AcquireLease
  <2>3. /\ stage'[w] = "primary" /\ chain'[w] = <<>> /\ known'[w] = disk.gen
        /\ disk.gen <= disk.gen
    BY <1>9, <2>2 DEF AcquireLease, StateTypeOK
  <2>4. \A i \in 2..Len(<<>>) : FALSE OBVIOUS
  <2>5. SavesInOrder(stage'[w], chain'[w], known'[w], disk.gen)
    BY <2>3, <2>4 DEF SavesInOrder
  <2> QED BY <1>9, <2>5, OneMoves DEF AcquireLease, StateTypeOK
<1>10. ASSUME NEW w \in Worker, MergeReads(w) PROVE ChainsInv'
  <2>1. PICK l : chain' = [chain EXCEPT ![w] =
                    <<[ledger |-> l, expected |-> AnyGen, seen |-> disk.gen]>>]
    BY <1>10 DEF MergeReads
  <2>2. stage'[w] = "merging" /\ chain'[w] # <<>> /\ Head(chain'[w]).seen = disk.gen
    BY <1>10, <2>1 DEF MergeReads, StateTypeOK
  <2>3. disk.gen <= disk.gen BY DEF StateTypeOK
  <2>4. SavesInOrder(stage'[w], chain'[w], known'[w], disk.gen)
    BY <2>2, <2>3 DEF SavesInOrder
  <2> QED BY <1>10, <2>1, <2>4, OneMoves DEF MergeReads, StateTypeOK
<1>11. ASSUME NEW w \in Worker, Leaves(w) PROVE SavesInOrder(stage'[w], chain'[w], known'[w], disk'.gen)
  <2>1. stage'[w] = "gone" /\ chain'[w] = <<>> BY <1>11 DEF Leaves, StateTypeOK
  <2> QED BY <2>1 DEF SavesInOrder
<1>12. ASSUME NEW w \in Worker, Stops(w) PROVE ChainsInv'
  <2>1. Leaves(w) /\ disk' = disk BY <1>12 DEF Stops
  <2>2. SavesInOrder(stage'[w], chain'[w], known'[w], disk.gen) BY <1>11, <2>1
  <2> QED BY <2>1, <2>2, OneMoves DEF Leaves, StateTypeOK
<1>13. ASSUME NEW w \in Worker, MergeWrites(w) PROVE ChainsInv'
  <2> DEFINE g == Head(chain[w]).seen
  <2>1. Leaves(w) /\ stage[w] = "merging" /\ disk'.gen = g BY <1>13 DEF MergeWrites
  <2>2. chain[w] \in Seq(Job) /\ chain[w] # <<>> /\ g # Unread
    BY <2>1 DEF MergeHasRead, StateTypeOK
  <2>3. g \in Nat
    <3>1. Head(chain[w]) \in Job BY <2>2, HeadDone
    <3> QED BY <2>2, <3>1 DEF Job
  <2>4. SavesInOrder(stage[w], chain[w], known[w], disk.gen) BY DEF ChainsInv
  <2>5. g <= disk.gen BY <2>1, <2>4 DEF SavesInOrder
  <2> HIDE DEF g
  <2>6. ASSUME NEW v \in Worker \ {w} PROVE SavesInOrder(stage[v], chain[v], known[v], g)
    <3>1. SavesInOrder(stage[v], chain[v], known[v], disk.gen) BY DEF ChainsInv
    <3>2. stage[v] # "merging" BY <2>1 DEF StagesInv
    <3>3. known[v] \in Nat /\ disk.gen \in Nat /\ chain[v] \in Seq(Job) BY DEF StateTypeOK
    <3>4. chain[v] # <<>> => Head(chain[v]) \in Job BY <3>3, HeadDone
    <3>5. chain[v] # <<>> => Head(chain[v]).seen \in Int BY <3>4 DEF Job, Unread
    <3> QED BY <2>3, <2>5, <3>1, <3>2, <3>3, <3>5 DEF SavesInOrder
  <2>7. \A v \in Worker \ {w} : stage'[v] = stage[v] /\ chain'[v] = chain[v]
                                  /\ known'[v] = known[v]
    BY <2>1 DEF Leaves, StateTypeOK
  <2> QED BY <1>11, <2>1, <2>6, <2>7 DEF ChainsInv
<1> QED BY <1>1, <1>2, <1>4, <1>5, <1>6, <1>7, <1>8, <1>9, <1>10, <1>12, <1>13 DEF StateNext, svars

(* The worker with the lease never has a save refused, through any number  *)
(* of reloads, crashes and merges, if no two released workers merge in the *)
(* same second.                                                            *)
THEOREM SavesAreAccepted ==
  ASSUME ~TwoMerge
  PROVE  StateSpec => []HolderCanSave
<1> DEFINE Inv == StateTypeOK /\ MergeHasRead /\ StagesInv /\ ChainsInv
<1>1. StateInit => Inv
  <2> SUFFICES ASSUME StateInit PROVE Inv
    OBVIOUS
  <2>1. StateTypeOK BY InitTypes
  <2>2. MergeHasRead BY DEF StateInit, MergeHasRead
  <2>3. StagesInv BY DEF StateInit, StagesInv, Holds, Follows
  <2>4. \A i \in 2..Len(<<>>) : FALSE OBVIOUS
  <2>5. ChainsInv BY <2>4 DEF StateInit, ChainsInv, SavesInOrder
  <2> QED BY <2>1, <2>2, <2>3, <2>5
<1>2. Inv /\ [StateNext]_svars => Inv'
  BY NextTypes, NextMergeHasRead, NextStages, NextChains
<1>3. Inv => HolderCanSave BY DEF ChainsInv, SavesInOrder, HolderCanSave, HasLease
<1> QED BY <1>1, <1>2, <1>3, PTL DEF StateSpec

(***************************************************************************)
(* The last save.  ReleasedIsSaved needs what is still queued: the last    *)
(* job of a worker that releases is its final save, and is refused by      *)
(* nothing; and that a merge that would put the file back to the           *)
(* generation of that save has read it then or later.                      *)
(***************************************************************************)
Before == {"unborn", "headless"}
After == {"drained", "merging", "gone"}

\* Workers are spawned in order, and one takes over when the others are done.
SpawnOrder ==
    \A v, w \in Worker : v < w =>
        /\ stage[w] # "unborn" => stage[v] \notin {"unborn", "headless", "takeover"}
        /\ stage[w] \notin Before \cup {"gone"} => stage[v] \in After

\* w has saved a last time, and nobody has taken over.
JustSaved(w) ==
    /\ stage[w] = "drained" \/ (stage[w] = "releasing" /\ chain[w] = <<>>)
    /\ \A v \in Worker : v > w => stage[v] \in Before

IsFinal(job, w) == job.expected = AnyGen /\ job.ledger.days >= handed[w].days

SavedOf(w) ==
    /\ stage[w] = "releasing" /\ chain[w] # <<>> => IsFinal(chain[w][Len(chain[w])], w)
    /\ JustSaved(w) =>
         /\ disk.gen = known[w] => disk.ledger.days >= handed[w].days
         /\ \A v \in Worker : stage[v] = "merging" /\ Head(chain[v]).seen = known[w]
                                => Head(chain[v]).ledger.days >= handed[w].days

LeaseInv ==
    /\ StateTypeOK /\ MergeHasRead /\ StagesInv /\ ChainsInv
    /\ SpawnOrder
    /\ \A w \in Worker : SavedOf(w)

LEMMA NextSpawnOrder ==
  ASSUME StateTypeOK, SpawnOrder, [StateNext]_svars
  PROVE  SpawnOrder'
<1> USE DEF Before, After
<1>1. CASE UNCHANGED stage BY <1>1 DEF SpawnOrder
<1>2. ASSUME NEW w \in Worker, Spawns(w) PROVE SpawnOrder'
  <2>1. /\ stage[w] = "unborn" /\ \A v \in Worker : v < w => stage[v] # "unborn"
        /\ \A v \in Worker : stage[v] \notin {"headless", "takeover"}
        /\ stage' = [stage EXCEPT ![w] = IF Holder = {} THEN "takeover" ELSE "headless"]
    BY <1>2 DEF Spawns, Successor, Worker
  <2>2. \A x \in Worker : w < x => stage[x] = "unborn" BY <2>1 DEF SpawnOrder
  <2>3. CASE Holder = {}
    <3>1. \A v \in Worker : v < w => stage[v] \in {"drained", "merging", "gone"}
      BY <2>1, <2>3 DEF Holder, StateTypeOK, Stages
    <3> QED BY <2>1, <2>2, <2>3, <3>1 DEF SpawnOrder, StateTypeOK
  <2>4. CASE Holder # {} BY <2>1, <2>2, <2>4 DEF SpawnOrder, StateTypeOK
  <2> QED BY <2>3, <2>4
<1>3. ASSUME NEW w \in Worker, TakeOver(w) PROVE SpawnOrder'
  <2>1. stage[w] = "headless" /\ stage' = [stage EXCEPT ![w] = "takeover"] /\ Holder = {}
    BY <1>3 DEF TakeOver
  <2>2. \A v \in Worker : v < w => stage[v] \in {"drained", "merging", "gone"}
    BY <2>1 DEF SpawnOrder, Holder, StateTypeOK, Stages
  <2>3. \A x \in Worker : w < x => stage[x] = "unborn" BY <2>1 DEF SpawnOrder
  <2> QED BY <2>1, <2>2, <2>3 DEF SpawnOrder, StateTypeOK
<1>4. ASSUME NEW w \in Worker, AcquireLease(w) \/ Releases(w) \/ Released(w) \/ MergeReads(w)
      PROVE  SpawnOrder'
  <2>1. CASE AcquireLease(w) BY <2>1 DEF AcquireLease, SpawnOrder, StateTypeOK
  <2>2. CASE Releases(w) BY <2>2 DEF Releases, SpawnOrder, StateTypeOK
  <2>3. CASE Released(w) BY <2>3 DEF Released, SpawnOrder, StateTypeOK
  <2>4. CASE MergeReads(w) BY <2>4 DEF MergeReads, SpawnOrder, StateTypeOK
  <2> QED BY <1>4, <2>1, <2>2, <2>3, <2>4
<1>5. ASSUME NEW w \in Worker, Leaves(w), stage[w] # "unborn" PROVE SpawnOrder'
  BY <1>5 DEF Leaves, SpawnOrder, StateTypeOK
<1>6. ASSUME NEW w \in Worker, MergeWrites(w) \/ Stops(w) PROVE SpawnOrder'
  <2>1. Leaves(w) /\ stage[w] # "unborn" BY <1>6 DEF MergeWrites, Stops, Alive
  <2> QED BY <1>5, <2>1
<1>7. ASSUME NEW w \in Worker, Deliver(w) \/ RollOver(w) \/ PeriodicSave(w) \/ SaveReads(w)
                                 \/ SaveWrites(w)
      PROVE  UNCHANGED stage
  BY <1>7 DEF Deliver, RollOver, PeriodicSave, SaveReads, SaveWrites
<1> QED BY <1>1, <1>2, <1>3, <1>4, <1>6, <1>7 DEF StateNext, svars

\* One worker moves, and it neither merges nor touches the file.
LEMMA OthersSaved ==
  ASSUME NEW w \in Worker, NEW x \in Worker, x # w, SavedOf(x), disk' = disk,
         \A v \in Worker \ {w} : /\ stage'[v] = stage[v] /\ chain'[v] = chain[v]
                                 /\ known'[v] = known[v] /\ handed'[v] = handed[v],
         stage'[w] \in Before => stage[w] \in Before,
         stage'[w] = "merging" => stage[w] = "merging" /\ chain'[w] = chain[w]
  PROVE  SavedOf(x)'
<1>1. JustSaved(x)' => JustSaved(x) BY DEF JustSaved, Before
<1>2. /\ stage'[x] = stage[x] /\ chain'[x] = chain[x] /\ known'[x] = known[x]
      /\ handed'[x] = handed[x]
  OBVIOUS
<1>3. (stage[x] = "releasing" /\ chain[x] # <<>> => IsFinal(chain[x][Len(chain[x])], x))'
  BY <1>2 DEF SavedOf, IsFinal
<1>4. ASSUME NEW v \in Worker, stage'[v] = "merging" PROVE stage[v] = "merging" /\ chain'[v] = chain[v]
  BY <1>4
<1>5. ASSUME JustSaved(x)'
      PROVE  /\ disk'.gen = known'[x] => disk'.ledger.days >= handed'[x].days
             /\ \A v \in Worker : stage'[v] = "merging" /\ Head(chain'[v]).seen = known'[x]
                                    => Head(chain'[v]).ledger.days >= handed'[x].days
  BY <1>1, <1>2, <1>4, <1>5 DEF SavedOf
<1> QED BY <1>3, <1>5 DEF SavedOf

\* The last of the queued saves stays the last.
LEMMA LastStays ==
  ASSUME NEW J, NEW s \in Seq(J), s # <<>>, NEW e \in J
  PROVE  /\ Len(s) \in Nat \ {0} /\ Head(s) = s[1]
         /\ Len(<<e>> \o Tail(s)) = Len(s)
         /\ (<<e>> \o Tail(s))[Len(s)] = IF Len(s) = 1 THEN e ELSE s[Len(s)]
         /\ Tail(s) # <<>> => Len(s) # 1 /\ Tail(s)[Len(Tail(s))] = s[Len(s)]
         /\ Tail(s) = <<>> => Len(s) = 1
<1>1. /\ Tail(s) \in Seq(J) /\ Len(Tail(s)) = Len(s) - 1 /\ Len(s) \in Nat \ {0}
      /\ \A i \in 1..Len(Tail(s)) : Tail(s)[i] = s[i + 1]
      /\ Head(s) = s[1]
  OBVIOUS
<1>2. Tail(s) = <<>> <=> Len(Tail(s)) = 0 BY <1>1, EmptySeq
<1> DEFINE q == <<e>> \o Tail(s)
<1>3. /\ q # <<>> /\ Len(q) = Len(s) /\ Head(q) = e /\ q \in Seq(J)
      /\ \A i \in 2..Len(q) : q[i] = s[i]
  BY HeadReplaced
<1> HIDE DEF q
<1>4. q[1] = e BY <1>3
<1>5. q[Len(s)] = IF Len(s) = 1 THEN e ELSE s[Len(s)]
  <2>1. CASE Len(s) = 1 BY <1>4, <2>1
  <2>2. CASE Len(s) # 1
    <3>1. Len(s) \in 2..Len(q) BY <1>1, <1>3, <2>2
    <3> QED BY <1>3, <2>2, <3>1
  <2> QED BY <2>1, <2>2
<1>6. Tail(s) # <<>> => Len(s) # 1 /\ Tail(s)[Len(Tail(s))] = s[Len(s)]
  <2> SUFFICES ASSUME Tail(s) # <<>> PROVE Len(s) # 1 /\ Tail(s)[Len(Tail(s))] = s[Len(s)]
    OBVIOUS
  <2>1. Len(Tail(s)) \in 1..Len(Tail(s)) /\ Len(Tail(s)) + 1 = Len(s) /\ Len(s) # 1
    BY <1>1, <1>2
  <2> QED BY <1>1, <2>1
<1>7. Tail(s) = <<>> => Len(s) = 1 BY <1>1, <1>2
<1> QED BY <1>1, <1>3, <1>5, <1>6, <1>7 DEF q

LEMMA MergeAdds ==
  ASSUME NEW l \in Ledger, NEW b \in Ledger, NEW a \in Ledger
  PROVE  MergeDelta(l, b, a).days >= l.days
<1>1. a.days - b.days \in Int /\ l.days \in Nat BY DEF Ledger
<1>2. \A n \in Int : PositiveOr0(n) \in Nat BY DEF PositiveOr0
<1>3. PositiveOr0(a.days - b.days) \in Nat BY <1>1, <1>2
<1>4. MergeDelta(l, b, a).days = l.days + PositiveOr0(a.days - b.days)
  BY DEF MergeDelta, Ledger
<1> QED BY <1>1, <1>3, <1>4

LEMMA NextSaved ==
  ASSUME LeaseInv, [StateNext]_svars, NEW x \in Worker
  PROVE  SavedOf(x)'
<1> DEFINE Sx == SavedOf(x)'
<1>0. /\ StateTypeOK /\ StagesInv /\ ChainsInv /\ SpawnOrder /\ MergeHasRead
      /\ SavedOf(x) /\ \A w \in Worker : SavedOf(w)
  BY DEF LeaseInv
<1>1. CASE UNCHANGED <<disk, stage, chain, known, handed>>
  BY <1>0, <1>1 DEF SavedOf, JustSaved, IsFinal
<1>2. ASSUME NEW w \in Worker, Deliver(w) \/ RollOver(w) PROVE Sx
  BY <1>1, <1>2 DEF Deliver, RollOver
<1>3. ASSUME NEW w \in Worker, PeriodicSave(w) PROVE Sx
  <2>1. stage[w] = "primary" /\ UNCHANGED <<disk, stage, known, handed>>
        /\ \A v \in Worker \ {w} : chain'[v] = chain[v]
    BY <1>0, <1>3 DEF PeriodicSave, HasLease, StateTypeOK
  <2>2. CASE x = w BY <2>1, <2>2 DEF SavedOf, JustSaved
  <2>3. CASE x # w BY <1>0, <2>1, <2>3, OthersSaved DEF Before
  <2> QED BY <2>2, <2>3
<1>4. ASSUME NEW w \in Worker, Spawns(w) \/ TakeOver(w) \/ AcquireLease(w) PROVE Sx
  <2>1. /\ stage'[w] \in {"headless", "takeover", "primary"}
        /\ stage'[w] = "headless" => stage[w] = "unborn"
        /\ UNCHANGED <<disk, chain, handed>>
        /\ \A v \in Worker \ {w} : stage'[v] = stage[v] /\ known'[v] = known[v]
    BY <1>0, <1>4 DEF Spawns, TakeOver, AcquireLease, StateTypeOK
  <2>2. CASE x = w BY <2>1, <2>2 DEF SavedOf, JustSaved
  <2>3. CASE x # w BY <1>0, <2>1, <2>3, OthersSaved DEF Before
  <2> QED BY <2>2, <2>3
<1>5. ASSUME NEW w \in Worker, Released(w) PROVE Sx
  <2>1. /\ stage[w] = "releasing" /\ chain[w] = <<>> /\ stage'[w] = "drained"
        /\ UNCHANGED <<disk, chain, known, handed>>
        /\ \A v \in Worker \ {w} : stage'[v] = stage[v]
    BY <1>0, <1>5 DEF Released, StateTypeOK
  <2>2. CASE x = w
    <3>1. JustSaved(x)' => JustSaved(x)
      <4>1. \A v \in Worker : v > x => v # w BY <2>2 DEF Worker
      <4> QED BY <2>1, <2>2, <4>1 DEF JustSaved
    <3>2. \A v \in Worker : stage'[v] = "merging" => stage[v] = "merging"
      BY <2>1
    <3> QED BY <1>0, <2>1, <2>2, <3>1, <3>2 DEF SavedOf
  <2>3. CASE x # w BY <1>0, <2>1, <2>3, OthersSaved DEF Before
  <2> QED BY <2>2, <2>3
<1>6. ASSUME NEW w \in Worker, Releases(w) PROVE Sx
  <2> DEFINE job == SaveJob(book[w], AnyGen)
  <2>1. /\ stage[w] = "primary" /\ stage'[w] = "releasing" /\ chain'[w] = Append(chain[w], job)
        /\ handed'[w] = book[w] /\ UNCHANGED <<disk, known>>
        /\ \A v \in Worker \ {w} : /\ stage'[v] = stage[v] /\ chain'[v] = chain[v]
                                   /\ handed'[v] = handed[v]
    BY <1>0, <1>6 DEF Releases, StateTypeOK
  <2>2. CASE x = w
    <3>1. job \in Job /\ job.ledger = book[w] /\ job.expected = AnyGen
      BY <1>0, JobTypes DEF StateTypeOK, SaveJob
    <3> HIDE DEF job
    <3>2. chain[w] \in Seq(Job) BY <1>0 DEF StateTypeOK
    <3>3. /\ Append(chain[w], job) # <<>>
          /\ Append(chain[w], job)[Len(Append(chain[w], job))] = job
      BY <3>1, <3>2, AppendProperties
    <3>4. book[w].days >= book[w].days
      <4>1. book[w] \in Ledger BY <1>0 DEF StateTypeOK
      <4> QED BY <4>1 DEF Ledger
    <3>5. (IsFinal(chain[x][Len(chain[x])], x))'
      BY <2>1, <2>2, <3>1, <3>3, <3>4 DEF IsFinal
    <3> QED BY <2>1, <2>2, <3>3, <3>5 DEF SavedOf, JustSaved
  <2>3. CASE x # w BY <1>0, <2>1, <2>3, OthersSaved DEF Before
  <2> QED BY <2>2, <2>3
<1>7. ASSUME NEW w \in Worker, SaveReads(w), stage[w] # "merging" PROVE Sx
  <2>1. /\ chain[w] # <<>> /\ chain[w] \in Seq(Job) /\ UNCHANGED <<disk, stage, known, handed>>
        /\ \A v \in Worker \ {w} : chain'[v] = chain[v]
    BY <1>0, <1>7 DEF SaveReads, StateTypeOK
  <2>2. CASE x # w BY <1>0, <1>7, <2>1, <2>2, OthersSaved DEF Before
  <2>3. CASE x = w
    <3> DEFINE last == chain[w][Len(chain[w])]
               job == [Head(chain[w]) EXCEPT !.seen = disk.gen]
    <3>1. SavesInOrder(stage[w], chain[w], known[w], disk.gen) BY <1>0 DEF ChainsInv
    <3>2. stage[w] \in {"primary", "releasing"} BY <1>7, <2>1, <3>1 DEF SavesInOrder
    <3>3. CASE stage[w] = "primary" BY <2>1, <2>3, <3>3 DEF SavedOf, JustSaved
    <3>4. CASE stage[w] = "releasing"
      <4>1. IsFinal(last, w) BY <1>0, <2>1, <3>4 DEF SavedOf
      <4>2. Head(chain[w]) \in Job /\ disk.gen \in Nat BY <1>0, <2>1, HeadDone DEF StateTypeOK
      <4>3. job \in Job /\ job.ledger = Head(chain[w]).ledger
            /\ job.expected = Head(chain[w]).expected
        BY <4>2, JobTypes DEF Job
      <4>4. \/ chain'[w] = Tail(chain[w]) /\ Head(chain[w]).expected # AnyGen
            \/ chain'[w] = <<job>> \o Tail(chain[w])
        BY <1>0, <1>7 DEF SaveReads, StateTypeOK
      <4> HIDE DEF job
      <4>5. /\ Len(chain[w]) \in Nat \ {0} /\ Head(chain[w]) = chain[w][1]
            /\ Len(<<job>> \o Tail(chain[w])) = Len(chain[w])
            /\ (<<job>> \o Tail(chain[w]))[Len(chain[w])]
                 = IF Len(chain[w]) = 1 THEN job ELSE last
            /\ Tail(chain[w]) # <<>> => Tail(chain[w])[Len(Tail(chain[w]))] = last
            /\ Tail(chain[w]) = <<>> => Len(chain[w]) = 1
        BY <2>1, <4>3, LastStays
      <4> DEFINE c == chain'[w]
      <4>6. c # <<>> /\ IsFinal(c[Len(c)], w)
        <5>1. CASE c = Tail(chain[w]) /\ Head(chain[w]).expected # AnyGen
          <6>1. Tail(chain[w]) # <<>> BY <4>1, <4>5, <5>1 DEF IsFinal
          <6> QED BY <4>1, <4>5, <5>1, <6>1
        <5>2. CASE c = <<job>> \o Tail(chain[w])
          <6>1. c # <<>> BY <2>1, <4>3, <5>2, HeadReplaced
          <6>2. c[Len(c)] = IF Len(chain[w]) = 1 THEN job ELSE last BY <4>5, <5>2
          <6>3. CASE Len(chain[w]) = 1
            <7>1. Head(chain[w]) = last BY <4>5, <6>3
            <7> QED BY <4>1, <4>3, <6>1, <6>2, <6>3, <7>1 DEF IsFinal
          <6>4. CASE Len(chain[w]) # 1 BY <4>1, <6>1, <6>2, <6>4
          <6> QED BY <6>3, <6>4
        <5> QED BY <4>4, <5>1, <5>2
      <4> QED BY <2>1, <2>3, <3>4, <4>6 DEF SavedOf, JustSaved, IsFinal
    <3> QED BY <3>2, <3>3, <3>4
  <2> QED BY <2>2, <2>3
<1>8. ASSUME NEW w \in Worker, SaveWrites(w), stage[w] # "merging" PROVE Sx
  <2> DEFINE job == Head(chain[w])
  <2>1. /\ chain[w] # <<>> /\ chain[w] \in Seq(Job) /\ UNCHANGED <<stage, handed>>
        /\ \A v \in Worker \ {w} : chain'[v] = chain[v] /\ known'[v] = known[v]
        /\ chain'[w] = Tail(chain[w]) /\ known'[w] = job.seen + 1
        /\ disk' = [gen |-> job.seen + 1, ledger |-> job.ledger] /\ job.seen # Unread
    BY <1>0, <1>8 DEF SaveWrites, StateTypeOK
  <2>2. SavesInOrder(stage[w], chain[w], known[w], disk.gen) BY <1>0 DEF ChainsInv
  <2>3. stage[w] \in {"primary", "releasing"} BY <1>8, <2>1, <2>2 DEF SavesInOrder
  <2>4. CASE x # w
    <3>1. ~JustSaved(x)'
      <4>1. SUFFICES ASSUME JustSaved(x)' PROVE FALSE
        OBVIOUS
      <4>2. stage[x] \in {"drained", "releasing"} /\ \A v \in Worker : v > x => stage[v] \in Before
        BY <2>1, <4>1 DEF JustSaved
      <4>3. stage[x] # "releasing" BY <1>0, <2>3, <2>4 DEF StagesInv, Holds
      <4>4. ~(w > x) BY <2>3, <4>2 DEF Before
      <4>5. w < x BY <2>4, <4>4 DEF Worker
      <4>6. stage[w] \in After BY <1>0, <4>2, <4>3, <4>5 DEF SpawnOrder, Before
      <4> QED BY <2>3, <4>6 DEF After
    <3> QED BY <1>0, <2>1, <2>4, <3>1 DEF SavedOf, IsFinal
  <2>5. CASE x = w
    <3>1. CASE stage[w] = "primary" BY <2>1, <2>5, <3>1 DEF SavedOf, JustSaved
    <3>2. CASE stage[w] = "releasing"
      <4> DEFINE last == chain[w][Len(chain[w])]
      <4>1. IsFinal(last, w) BY <1>0, <2>1, <3>2 DEF SavedOf
      <4>2. job \in Job BY <2>1, HeadDone
      <4>3. /\ Len(chain[w]) \in Nat \ {0} /\ job = chain[w][1]
            /\ Tail(chain[w]) # <<>> => Tail(chain[w])[Len(Tail(chain[w]))] = last
            /\ Tail(chain[w]) = <<>> => Len(chain[w]) = 1
        BY <2>1, <4>2, LastStays
      <4>4. CASE Tail(chain[w]) # <<>>
        BY <2>1, <2>5, <3>2, <4>1, <4>3, <4>4 DEF SavedOf, JustSaved, IsFinal
      <4>5. CASE Tail(chain[w]) = <<>>
        <5>1. job = last BY <4>3, <4>5
        <5>2. disk'.ledger.days >= handed'[w].days BY <2>1, <4>1, <5>1 DEF IsFinal
        <5>3. ASSUME NEW v \in Worker, stage[v] = "merging", Head(chain[v]).seen = job.seen + 1
              PROVE  FALSE
          <6>1. chain[v] # <<>> /\ chain[v] \in Seq(Job)
            BY <1>0, <5>3 DEF MergeHasRead, StateTypeOK
          <6>2. Head(chain[v]) \in Job BY <6>1, HeadDone
          <6>3. SavesInOrder(stage[v], chain[v], known[v], disk.gen) BY <1>0 DEF ChainsInv
          <6>4. Head(chain[v]).seen <= disk.gen BY <5>3, <6>3 DEF SavesInOrder
          <6>5. disk.gen <= job.seen BY <2>1, <2>2, <2>3 DEF SavesInOrder
          <6>6. disk.gen \in Nat /\ job.seen \in Nat BY <1>0, <2>1, <4>2 DEF StateTypeOK, Job
          <6> HIDE DEF job
          <6> QED BY <5>3, <6>4, <6>5, <6>6
        <5>4. \A v \in Worker : stage'[v] = "merging" => v # w /\ stage[v] = "merging"
                                                           /\ chain'[v] = chain[v]
          BY <1>8, <2>1
        <5> HIDE DEF job
        <5> QED BY <2>1, <2>5, <4>5, <5>2, <5>3, <5>4 DEF SavedOf
      <4> QED BY <4>4, <4>5
    <3> QED BY <2>3, <3>1, <3>2
  <2> QED BY <2>4, <2>5
<1>9. ASSUME NEW w \in Worker, MergeReads(w) PROVE Sx
  <2> DEFINE merged == MergeDelta(disk.ledger, flushed[w], book[w])
             job == [ledger |-> merged, expected |-> AnyGen, seen |-> disk.gen]
  <2>1. /\ stage[w] = "drained" /\ stage'[w] = "merging" /\ chain'[w] = <<job>>
        /\ UNCHANGED <<disk, known, handed>>
        /\ \A v \in Worker \ {w} : stage'[v] = stage[v] /\ chain'[v] = chain[v]
    BY <1>0, <1>9 DEF MergeReads, StateTypeOK
  <2>2. CASE x = w BY <2>1, <2>2 DEF SavedOf, JustSaved
  <2>3. CASE x # w
    <3>1. JustSaved(x)' => JustSaved(x) BY <2>1, <2>3 DEF JustSaved, Before
    <3>2. merged.days >= disk.ledger.days BY <1>0, MergeAdds DEF StateTypeOK
    <3>3. merged \in Ledger BY <1>0, LedgerOps DEF StateTypeOK
    <3>4. Head(chain'[w]).seen = disk.gen /\ Head(chain'[w]).ledger = merged
      BY <2>1
    <3>5. merged.days \in Int /\ disk.ledger.days \in Int /\ handed[x].days \in Int
      <4>1. disk.ledger \in Ledger /\ handed[x] \in Ledger BY <1>0 DEF StateTypeOK
      <4> HIDE DEF merged
      <4> QED BY <3>3, <4>1 DEF Ledger
    <3> HIDE DEF merged, job
    <3>6. ASSUME JustSaved(x)', NEW v \in Worker, stage'[v] = "merging",
                 Head(chain'[v]).seen = known'[x]
          PROVE  Head(chain'[v]).ledger.days >= handed'[x].days
      <4>1. CASE v = w
        <5>1. disk.ledger.days >= handed[x].days
          BY <1>0, <2>1, <3>1, <3>4, <3>6, <4>1 DEF SavedOf
        <5>2. merged.days >= handed[x].days BY <3>2, <3>5, <5>1
        <5> QED BY <2>1, <3>4, <4>1, <5>2
      <4>2. CASE v # w BY <1>0, <2>1, <3>1, <3>6, <4>2 DEF SavedOf
      <4> QED BY <4>1, <4>2
    <3> QED BY <1>0, <2>1, <2>3, <3>1, <3>6 DEF SavedOf, IsFinal
  <2> QED BY <2>2, <2>3
<1>10. ASSUME NEW w \in Worker, Stops(w) PROVE Sx
  <2>1. /\ stage'[w] = "gone" /\ disk' = disk
        /\ \A v \in Worker \ {w} : /\ stage'[v] = stage[v] /\ chain'[v] = chain[v]
                                   /\ known'[v] = known[v] /\ handed'[v] = handed[v]
    BY <1>0, <1>10 DEF Stops, Leaves, StateTypeOK
  <2>2. CASE x = w BY <2>1, <2>2 DEF SavedOf, JustSaved
  <2>3. CASE x # w BY <1>0, <2>1, <2>3, OthersSaved DEF Before
  <2> QED BY <2>2, <2>3
<1>11. ASSUME NEW w \in Worker, MergeWrites(w) PROVE Sx
  <2>1. /\ stage[w] = "merging" /\ stage'[w] = "gone"
        /\ disk' = [gen |-> Head(chain[w]).seen, ledger |-> Head(chain[w]).ledger]
        /\ \A v \in Worker \ {w} : /\ stage'[v] = stage[v] /\ chain'[v] = chain[v]
                                   /\ known'[v] = known[v] /\ handed'[v] = handed[v]
    BY <1>0, <1>11 DEF MergeWrites, Leaves, StateTypeOK
  <2>2. CASE x = w BY <2>1, <2>2 DEF SavedOf, JustSaved
  <2>3. CASE x # w
    <3>1. JustSaved(x)' => JustSaved(x) BY <2>1, <2>3 DEF JustSaved, Before
    <3>2. \A v \in Worker : stage'[v] = "merging" => stage[v] = "merging" /\ chain'[v] = chain[v]
      BY <2>1
    <3>3. ASSUME JustSaved(x)'
          PROVE  /\ disk'.gen = known'[x] => disk'.ledger.days >= handed'[x].days
                 /\ \A v \in Worker : stage'[v] = "merging" /\ Head(chain'[v]).seen = known'[x]
                                        => Head(chain'[v]).ledger.days >= handed'[x].days
      BY <1>0, <2>1, <2>3, <3>1, <3>2, <3>3 DEF SavedOf
    <3>4. stage'[x] = stage[x] /\ chain'[x] = chain[x] /\ handed'[x] = handed[x]
      BY <2>1, <2>3
    <3>5. (stage[x] = "releasing" /\ chain[x] # <<>> => IsFinal(chain[x][Len(chain[x])], x))'
      BY <1>0, <3>4 DEF SavedOf, IsFinal
    <3> QED BY <3>3, <3>5 DEF SavedOf
  <2> QED BY <2>2, <2>3
<1>12. CASE UNCHANGED svars BY <1>1, <1>12 DEF svars
<1> QED BY <1>2, <1>3, <1>4, <1>5, <1>6, <1>7, <1>8, <1>9, <1>10, <1>11, <1>12 DEF StateNext

(* Between RELEASED and the takeover, what a worker had counted when it    *)
(* gave the lease up is on disk, however many saves, reloads, crashes and  *)
(* merges came before, if no two released workers merge in the same        *)
(* second.                                                                 *)
THEOREM TheLastSaveIsOnDisk ==
  ASSUME ~TwoMerge
  PROVE  StateSpec => []ReleasedIsSaved
<1>1. StateInit => LeaseInv
  <2> SUFFICES ASSUME StateInit PROVE LeaseInv
    OBVIOUS
  <2>1. StateTypeOK BY InitTypes
  <2>2. MergeHasRead /\ StagesInv
    BY DEF StateInit, MergeHasRead, StagesInv, Holds, Follows
  <2>3. \A i \in 2..Len(<<>>) : FALSE OBVIOUS
  <2>4. ChainsInv BY <2>3 DEF StateInit, ChainsInv, SavesInOrder
  <2>5. SpawnOrder
    <3>1. \A v, w \in Worker : v < w => w # 1 BY DEF Worker
    <3> QED BY <3>1 DEF StateInit, SpawnOrder, Before
  <2>6. \A w \in Worker : SavedOf(w) BY DEF StateInit, SavedOf, JustSaved
  <2> QED BY <2>1, <2>2, <2>4, <2>5, <2>6 DEF LeaseInv
<1>2. LeaseInv /\ [StateNext]_svars => LeaseInv'
  <2> SUFFICES ASSUME LeaseInv, [StateNext]_svars PROVE LeaseInv'
    OBVIOUS
  <2>1. StateTypeOK /\ MergeHasRead /\ StagesInv /\ ChainsInv /\ SpawnOrder BY DEF LeaseInv
  <2>2. StateTypeOK' /\ MergeHasRead' BY <2>1, NextTypes, NextMergeHasRead
  <2>3. StagesInv' /\ ChainsInv' BY <2>1, NextStages, NextChains
  <2>4. SpawnOrder' BY <2>1, NextSpawnOrder
  <2>5. \A w \in Worker : SavedOf(w)' BY NextSaved
  <2> QED BY <2>2, <2>3, <2>4, <2>5 DEF LeaseInv
<1>3. LeaseInv => ReleasedIsSaved
  <2> SUFFICES ASSUME LeaseInv, NEW w \in Worker, stage[w] = "drained",
                      \A v \in Worker : v > w => stage[v] \in Before, disk.gen = known[w]
               PROVE  chain[w] = <<>> /\ disk.ledger.days >= handed[w].days
    BY DEF ReleasedIsSaved, Before
  <2>1. SavesInOrder(stage[w], chain[w], known[w], disk.gen) /\ SavedOf(w)
    BY DEF LeaseInv, ChainsInv
  <2>2. chain[w] = <<>> BY <2>1 DEF SavesInOrder
  <2> QED BY <2>1, <2>2 DEF SavedOf, JustSaved
<1> QED BY <1>1, <1>2, <1>3, PTL DEF StateSpec

(***************************************************************************)
(* The cycles of one window                                                *)
(***************************************************************************)
Cycles == [open: Cycle, closed: {rows \in Seq(Row) : Len(rows) <= MaxRows}, dropped: Nat]

LEMMA NoOpenIsACycle == NoOpen \in Cycle /\ NoOpen.start = Unknown
  BY DEF NoOpen, Cycle, Unknown, Stamp, Level

\* What an open cycle keeps of its start and its completeness
SameSpan(l, m) ==
    /\ m.closed = l.closed /\ m.dropped = l.dropped
    /\ m.open.start = l.open.start /\ m.open.complete = l.open.complete

LEMMA OpenReplaced ==
  ASSUME NEW l \in Cycles, NEW c \in Cycle
  PROVE  /\ [l EXCEPT !.open = c] \in Cycles /\ [l EXCEPT !.open = c].open = c
         /\ [l EXCEPT !.open = c].closed = l.closed
         /\ [l EXCEPT !.open = c].dropped = l.dropped
  BY DEF Cycles

LEMMA ObservedCycles ==
  ASSUME NEW l \in Cycles, NEW u \in Level
  PROVE  Observed(l, u) \in Cycles /\ SameSpan(l, Observed(l, u))
<1>1. l.open \in Cycle BY DEF Cycles
<1> DEFINE risen == [l.open EXCEPT !.peak = u]
           refilled == [l.open EXCEPT !.peak = u, !.refill = TRUE]
<1>2. risen \in Cycle /\ risen.start = l.open.start /\ risen.complete = l.open.complete
  BY <1>1 DEF Cycle
<1>3. refilled = [risen EXCEPT !.refill = TRUE] OBVIOUS
<1>4. /\ refilled \in Cycle /\ refilled.start = l.open.start
      /\ refilled.complete = l.open.complete
  <2> HIDE DEF risen, refilled
  <2> QED BY <1>2, <1>3 DEF Cycle
<1>5. \/ Observed(l, u) = l \/ Observed(l, u) = [l EXCEPT !.open = risen]
      \/ Observed(l, u) = [l EXCEPT !.open = refilled]
  BY DEF Observed
<1> HIDE DEF risen, refilled
<1>6. CASE Observed(l, u) = l BY <1>6 DEF SameSpan
<1>7. CASE Observed(l, u) = [l EXCEPT !.open = risen]
  BY <1>2, <1>7, OpenReplaced DEF SameSpan
<1>8. CASE Observed(l, u) = [l EXCEPT !.open = refilled]
  BY <1>4, <1>8, OpenReplaced DEF SameSpan
<1> QED BY <1>5, <1>6, <1>7, <1>8

LEMMA AccrueCycles ==
  ASSUME NEW l \in Cycles, now \in 0..MaxTime
  PROVE  /\ Accrue(l, 1) \in Cycles /\ Accrue(l, 1).closed = l.closed
         /\ IsOpen(l) => SameSpan(l, Accrue(l, 1))
         /\ ~IsOpen(l) => Accrue(l, 1).open.start = now
<1>1. l.open \in Cycle BY DEF Cycles
<1>2. now \in Stamp BY LedgerAssumption DEF Stamp
<1> DEFINE first == [NoOpen EXCEPT !.start = now]
<1>3. first \in Cycle /\ first.start = now BY <1>2, NoOpenIsACycle DEF Cycle
<1>4. CASE IsOpen(l)
  <2> DEFINE c == [l.open EXCEPT !.tokens = l.open.tokens + 1]
  <2>1. Accrue(l, 1) = [l EXCEPT !.open = c] BY <1>4 DEF Accrue, IsOpen
  <2>2. c \in Cycle /\ c.start = l.open.start /\ c.complete = l.open.complete
    BY <1>1 DEF Cycle
  <2> HIDE DEF c
  <2> DEFINE q == [l EXCEPT !.open = c]
  <2>3. q \in Cycles /\ q.open = c /\ q.closed = l.closed /\ q.dropped = l.dropped
    BY <2>2, OpenReplaced
  <2> QED BY <1>4, <2>1, <2>2, <2>3 DEF SameSpan
<1>5. CASE ~IsOpen(l)
  <2> DEFINE c == [first EXCEPT !.tokens = first.tokens + 1]
  <2>1. Accrue(l, 1) = [l EXCEPT !.open = c] BY <1>5 DEF Accrue, IsOpen
  <2> HIDE DEF first
  <2>2. c \in Cycle /\ c.start = now BY <1>3 DEF Cycle
  <2> HIDE DEF c
  <2> DEFINE q == [l EXCEPT !.open = c]
  <2>3. q \in Cycles /\ q.open = c /\ q.closed = l.closed
    BY <2>2, OpenReplaced
  <2> QED BY <1>5, <2>1, <2>2, <2>3
<1> QED BY <1>4, <1>5

\* A row but for its tokens and the fullness it ended with
SameRow(a, b) ==
    /\ a.start = b.start /\ a.ended = b.ended /\ a.reset = b.reset
    /\ a.complete = b.complete /\ a.disabled = b.disabled

SameRows(l, m) ==
    /\ DOMAIN m.closed = DOMAIN l.closed
    /\ \A i \in DOMAIN l.closed : SameRow(m.closed[i], l.closed[i])

\* The open cycle of l is the last row of m, the oldest row is gone if it had to.
RowAdded(l, m, ended, reset) ==
    \E gone \in 0..1, last \in 1..(Len(l.closed) + 1) :
        /\ last + gone = Len(l.closed) + 1
        /\ DOMAIN m.closed = 1..last
        /\ \A i \in 1..(last - 1) : m.closed[i] = l.closed[i + gone]
        /\ m.closed[last].start = l.open.start
        /\ m.closed[last].ended = ended /\ m.closed[last].reset = reset
        /\ m.closed[last].complete = l.open.complete
        /\ m.closed[last].disabled = l.open.disabled

\* A close, whoever does it, leaves no open cycle; it folds it into the last row
\* or makes a row of it.
LEMMA CloseShape ==
  ASSUME NEW l \in Cycles, NEW ended \in Stamp, NEW reset \in Stamp, NEW util \in Level
  PROVE  LET q == CloseCycle(l, ended, reset, util)
         IN  /\ q \in Cycles
             /\ q.open = IF IsOpen(l) THEN NoOpen ELSE l.open
             /\ \/ SameRows(l, q)
                \/ /\ IsOpen(l) /\ RowAdded(l, q, ended, reset)
                   /\ SameBoundary(l, ended, reset) => ~(l.open.complete /\ ~l.open.disabled)
<1> DEFINE q == CloseCycle(l, ended, reset, util)
           row == RowOf(l.open, ended, reset, util)
           last == Len(l.closed)
<1>1. /\ l.open \in Cycle /\ l.closed \in Seq(Row) /\ Len(l.closed) <= MaxRows
      /\ l.dropped \in Nat /\ last \in Nat
  BY DEF Cycles
<1>2. /\ row \in Row /\ row.start = l.open.start /\ row.ended = ended /\ row.reset = reset
      /\ row.complete = l.open.complete /\ row.disabled = l.open.disabled
  <2>1. (IF l.open.peak # Unknown /\ util < l.open.peak THEN l.open.peak ELSE util) \in Level
    BY <1>1 DEF Cycle
  <2> QED BY <1>1, <2>1 DEF RowOf, Row, Cycle
<1> HIDE DEF row
<1>3. CASE ~IsOpen(l)
  <2>1. q = l BY <1>3 DEF CloseCycle
  <2> QED BY <1>3, <2>1 DEF SameRows, SameRow
<1>4. CASE IsOpen(l) /\ SameBoundary(l, ended, reset) /\ l.open.complete /\ ~l.open.disabled
  <2> DEFINE tail == l.closed[last]
             tokens == tail.tokens + l.open.tokens
             most == IF tail.util = Unknown THEN row.util ELSE tail.util
             folded == [tail EXCEPT !.tokens = tokens, !.util = most]
             rows == [l.closed EXCEPT ![last] = folded]
  <2>1. last \in 1..last /\ tail \in Row BY <1>1, <1>4 DEF SameBoundary
  <2>2. tokens \in Nat /\ most \in Level
    <3> HIDE DEF tail
    <3> QED BY <1>1, <1>2, <2>1 DEF Row, Cycle
  <2>3. folded \in Row /\ SameRow(folded, tail)
    <3> HIDE DEF tokens, most, tail
    <3> QED BY <2>1, <2>2 DEF Row, SameRow
  <2>4. /\ rows \in Seq(Row) /\ Len(rows) = last /\ DOMAIN rows = DOMAIN l.closed
        /\ \A i \in DOMAIN rows : rows[i] = IF i = last THEN folded ELSE l.closed[i]
    <3> HIDE DEF folded
    <3> QED BY <1>1, <2>1, <2>3, ExceptSeq, LenProperties
  <2>5. q = [l EXCEPT !.open = NoOpen, !.closed = rows]
    BY <1>4 DEF CloseCycle, IsOpen, row
  <2> HIDE DEF rows, folded, tokens, most, q
  <2>6. q \in Cycles /\ q.open = NoOpen /\ q.closed = rows
    BY <1>1, <2>4, <2>5, NoOpenIsACycle DEF Cycles
  <2> HIDE DEF tail
  <2>7. SameRows(l, q) BY <2>3, <2>4, <2>6 DEF tail, SameRows, SameRow
  <2> QED BY <1>4, <2>6, <2>7 DEF q
<1>5. CASE IsOpen(l) /\ ~(SameBoundary(l, ended, reset) /\ l.open.complete /\ ~l.open.disabled)
  <2>1. q = Pushed(l, row) BY <1>5 DEF CloseCycle, IsOpen, row
  <2> HIDE DEF q
  <2>2. CASE last < MaxRows
    <3>1. q = [l EXCEPT !.open = NoOpen, !.closed = Append(l.closed, row)]
      BY <2>1, <2>2 DEF Pushed
    <3>2. /\ Append(l.closed, row) \in Seq(Row) /\ Len(Append(l.closed, row)) = last + 1
          /\ \A i \in 1..last : Append(l.closed, row)[i] = l.closed[i]
          /\ Append(l.closed, row)[last + 1] = row
          /\ DOMAIN Append(l.closed, row) = 1..(last + 1) /\ DOMAIN l.closed = 1..last
      BY <1>1, <1>2, AppendProperties, LenProperties
    <3> DEFINE rows == Append(l.closed, row)
    <3> HIDE DEF rows
    <3>3. q = [l EXCEPT !.open = NoOpen, !.closed = rows] BY <3>1 DEF rows
    <3>4. rows \in Seq(Row) /\ Len(rows) <= MaxRows
      BY <1>1, <2>2, <3>2, LedgerAssumption DEF rows
    <3>5. q \in Cycles /\ q.open = NoOpen /\ q.closed = rows
      BY <1>1, <3>3, <3>4, NoOpenIsACycle DEF Cycles
    <3>6. /\ 0 \in 0..1 /\ last + 1 \in 1..(last + 1) /\ DOMAIN rows = 1..(last + 1)
          /\ \A i \in 1..(last + 1 - 1) : rows[i] = l.closed[i + 0]
          /\ rows[last + 1] = row
      BY <1>1, <3>2 DEF rows
    <3>7. RowAdded(l, q, ended, reset)
      <4>1. \E gone \in 0..1, n \in 1..(last + 1) :
              /\ n + gone = last + 1 /\ DOMAIN rows = 1..n
              /\ \A i \in 1..(n - 1) : rows[i] = l.closed[i + gone]
              /\ rows[n] = row
        BY <1>1, <3>6
      <4> QED BY <1>2, <3>5, <4>1 DEF RowAdded
    <3> QED BY <1>5, <3>5, <3>7 DEF q
  <2>3. CASE ~(last < MaxRows)
    <3> DEFINE rows == Append(Tail(l.closed), row)
    <3>1. q = [open |-> NoOpen, closed |-> rows, dropped |-> l.dropped + Head(l.closed).tokens]
      BY <2>1, <2>3 DEF Pushed
    <3>2. l.closed # <<>> /\ last = MaxRows BY <1>1, <2>3, LedgerAssumption
    <3>3. /\ Tail(l.closed) \in Seq(Row) /\ Len(Tail(l.closed)) = last - 1
          /\ \A i \in 1..(last - 1) : Tail(l.closed)[i] = l.closed[i + 1]
          /\ Head(l.closed) \in Row
      BY <1>1, <3>2, HeadTailProperties
    <3>4. /\ rows \in Seq(Row) /\ Len(rows) = last
          /\ \A i \in 1..(last - 1) : rows[i] = Tail(l.closed)[i]
          /\ rows[last] = row
          /\ DOMAIN rows = 1..last /\ DOMAIN l.closed = 1..last
      BY <1>1, <1>2, <3>3, AppendProperties, LenProperties
    <3> HIDE DEF rows
    <3>5. Head(l.closed).tokens \in Nat BY <3>3 DEF Row
    <3>6. q \in Cycles /\ q.open = NoOpen /\ q.closed = rows
      BY <1>1, <3>1, <3>2, <3>4, <3>5, NoOpenIsACycle DEF Cycles
    <3>7. RowAdded(l, q, ended, reset)
      <4>1. \E gone \in 0..1, n \in 1..(last + 1) :
              /\ n + gone = last + 1 /\ DOMAIN rows = 1..n
              /\ \A i \in 1..(n - 1) : rows[i] = l.closed[i + gone]
              /\ rows[n] = row
        BY <1>1, <3>2, <3>3, <3>4, LedgerAssumption
      <4> QED BY <1>2, <3>6, <4>1 DEF RowAdded
    <3> QED BY <1>5, <3>6, <3>7 DEF q
  <2> QED BY <2>2, <2>3, <1>1, LedgerAssumption
<1> QED BY <1>3, <1>4, <1>5

\* So every row spans what a row spanned before, or what the cycle did.
LEMMA CloseCycles ==
  ASSUME NEW l \in Cycles, NEW ended \in Stamp, NEW reset \in Stamp, NEW util \in Level
  PROVE  LET q == CloseCycle(l, ended, reset, util)
         IN  /\ q \in Cycles
             /\ q.open = IF IsOpen(l) THEN NoOpen ELSE l.open
             /\ \A i \in DOMAIN q.closed :
                  \/ \E j \in DOMAIN l.closed :
                        /\ q.closed[i].start = l.closed[j].start
                        /\ q.closed[i].ended = l.closed[j].ended
                        /\ q.closed[i].reset = l.closed[j].reset
                        /\ q.closed[i].complete = l.closed[j].complete
                  \/ /\ IsOpen(l) /\ q.closed[i].start = l.open.start
                     /\ q.closed[i].ended = ended /\ q.closed[i].reset = reset
                     /\ q.closed[i].complete = l.open.complete
<1> DEFINE q == CloseCycle(l, ended, reset, util)
<1>1. Len(l.closed) \in Nat /\ DOMAIN l.closed = 1..Len(l.closed)
  BY LenProperties DEF Cycles
<1>2. /\ q \in Cycles /\ q.open = IF IsOpen(l) THEN NoOpen ELSE l.open
      /\ SameRows(l, q) \/ (IsOpen(l) /\ RowAdded(l, q, ended, reset))
  BY CloseShape
<1> HIDE DEF q
<1>3. CASE SameRows(l, q) BY <1>2, <1>3 DEF SameRows, SameRow, q
<1>4. CASE IsOpen(l) /\ RowAdded(l, q, ended, reset)
  <2>1. PICK gone \in 0..1, last \in 1..(Len(l.closed) + 1) :
          /\ last + gone = Len(l.closed) + 1
          /\ DOMAIN q.closed = 1..last
          /\ \A i \in 1..(last - 1) : q.closed[i] = l.closed[i + gone]
          /\ q.closed[last].start = l.open.start /\ q.closed[last].ended = ended
          /\ q.closed[last].reset = reset /\ q.closed[last].complete = l.open.complete
    BY <1>4 DEF RowAdded
  <2>2. \A i \in 1..(last - 1) : i + gone \in DOMAIN l.closed
    <3> DEFINE m == Len(l.closed)
    <3>1. m \in Nat /\ last + gone = m + 1 /\ last \in Int BY <1>1, <2>1
    <3> HIDE DEF m
    <3>2. \A i \in 1..(last - 1) : i + gone \in 1..m BY <3>1
    <3> QED BY <1>1, <3>2 DEF m
  <2>3. \A i \in DOMAIN q.closed : i = last \/ i \in 1..(last - 1) BY <2>1
  <2> QED BY <1>2, <1>4, <2>1, <2>2, <2>3 DEF q
<1> QED BY <1>2, <1>3, <1>4

LEMMA InitLedger == LedgerInit => LedgerTypeOK /\ cycles \in Cycles
<1> SUFFICES ASSUME LedgerInit PROVE LedgerTypeOK /\ cycles \in Cycles
  OBVIOUS
<1>1. cycles \in Cycles
  <2>1. <<>> \in Seq(Row) /\ Len(<<>>) <= MaxRows BY EmptySeq, LedgerAssumption
  <2> QED BY <2>1, NoOpenIsACycle DEF LedgerInit, Cycles
<1>2. /\ vendor \in [util: Level, stamp: Stamp] /\ quota \in [util: Level, stamp: Stamp]
      /\ answer \in [util: Level, stamp: Stamp]
  BY LedgerAssumption DEF LedgerInit, None, Level, Stamp, Unknown, Full
<1>3. now \in 0..MaxTime /\ asked \in 0..MaxTime /\ served \in 0..MaxServed
  BY LedgerAssumption DEF LedgerInit
<1>4. account \in [type: {"oauth", "provider"}, enabled: BOOLEAN] BY DEF LedgerInit
<1>5. outages \subseteq 0..MaxTime BY DEF LedgerInit
<1> QED BY <1>1, <1>2, <1>3, <1>4, <1>5 DEF LedgerTypeOK, Cycles

LEMMA VendorAt ==
  ASSUME NEW v \in [util: Level, stamp: Stamp], NEW t \in 0..MaxTime
  PROVE  At(v, t) \in [util: Level, stamp: Stamp]
<1>1. CASE t >= v.stamp
  <2>1. v.stamp + Window \in Stamp BY <1>1, LedgerAssumption DEF Stamp, Unknown
  <2>2. 0 \in Level BY DEF Level, Full
  <2> QED BY <1>1, <2>1, <2>2 DEF At
<1>2. CASE ~(t >= v.stamp) BY <1>2 DEF At
<1> QED BY <1>1, <1>2

LEMMA RestoredCycles ==
  ASSUME NEW l \in Cycles, NEW d \in 1..2
  PROVE  /\ Restored(l, d) \in Cycles /\ Restored(l, d).closed = l.closed
         /\ Restored(l, d).open.start = l.open.start
         /\ Restored(l, d).open.complete => l.open.complete
         /\ d > 1 /\ IsOpen(l) => ~Restored(l, d).open.complete
<1>1. l.open \in Cycle BY DEF Cycles
<1> DEFINE c == [l.open EXCEPT !.complete = FALSE]
<1>2. c \in Cycle /\ c.start = l.open.start /\ ~c.complete BY <1>1 DEF Cycle
<1>3. CASE d > 1 /\ IsOpen(l)
  <2>1. Restored(l, d) = [l EXCEPT !.open = c] BY <1>3 DEF Restored
  <2> HIDE DEF c
  <2> DEFINE q == [l EXCEPT !.open = c]
  <2>2. q \in Cycles /\ q.open = c /\ q.closed = l.closed BY <1>2, OpenReplaced
  <2> QED BY <1>2, <2>1, <2>2
<1>4. CASE ~(d > 1 /\ IsOpen(l))
  <2>1. Restored(l, d) = l BY <1>4 DEF Restored
  <2> QED BY <1>4, <2>1
<1> QED BY <1>3, <1>4

LEMMA ToggledCycles ==
  ASSUME NEW l \in Cycles
  PROVE  LET q == [l EXCEPT !.open.disabled = TRUE]
         IN  q \in Cycles /\ SameSpan(l, q)
<1>1. l.open \in Cycle BY DEF Cycles
<1> DEFINE c == [l.open EXCEPT !.disabled = TRUE]
<1>2. c \in Cycle /\ c.start = l.open.start /\ c.complete = l.open.complete BY <1>1 DEF Cycle
<1> HIDE DEF c
<1> DEFINE q == [l EXCEPT !.open = c]
<1>3. q \in Cycles /\ q.open = c /\ q.closed = l.closed /\ q.dropped = l.dropped
  BY <1>2, OpenReplaced
<1>4. [l EXCEPT !.open.disabled = TRUE] = q BY DEF c
<1> QED BY <1>2, <1>3, <1>4 DEF SameSpan

(***************************************************************************)
(* CountedIsWatched is not inductive: it needs that no row ends, and no    *)
(* outage lies, in the future, and that an open cycle that would count has *)
(* seen no outage since it started.                                        *)
(***************************************************************************)
Watched(l) ==
    /\ \A i \in DOMAIN l.closed :
          /\ l.closed[i].ended <= now
          /\ l.closed[i].complete =>
                \A t \in outages : ~(l.closed[i].start <= t /\ t < l.closed[i].ended)
    /\ IsOpen(l) /\ l.open.complete => \A t \in outages : t < l.open.start

LedgerInv ==
    /\ LedgerTypeOK /\ cycles \in Cycles
    /\ \A t \in outages : t < now
    /\ Watched(cycles)

\* A cycle closed no later than now is a row that was watched.
LEMMA CloseIsWatched ==
  ASSUME LedgerTypeOK, NEW l \in Cycles, Watched(l), NEW ended \in Stamp, NEW reset \in Stamp,
         NEW util \in Level, ended <= now
  PROVE  CloseCycle(l, ended, reset, util) \in Cycles /\ Watched(CloseCycle(l, ended, reset, util))
<1> DEFINE q == CloseCycle(l, ended, reset, util)
<1>1. q \in Cycles /\ q.open = (IF IsOpen(l) THEN NoOpen ELSE l.open) BY CloseCycles
<1>2. ASSUME NEW i \in DOMAIN q.closed
      PROVE  /\ q.closed[i].ended <= now
             /\ q.closed[i].complete =>
                  \A t \in outages : ~(q.closed[i].start <= t /\ t < q.closed[i].ended)
  <2>1. CASE \E j \in DOMAIN l.closed :
                /\ q.closed[i].start = l.closed[j].start
                /\ q.closed[i].ended = l.closed[j].ended
                /\ q.closed[i].complete = l.closed[j].complete
    BY <2>1 DEF Watched
  <2>2. CASE /\ IsOpen(l) /\ q.closed[i].start = l.open.start
             /\ q.closed[i].ended = ended /\ q.closed[i].complete = l.open.complete
    <3>1. l.open.start \in Int /\ outages \subseteq Int
      BY DEF Cycles, Cycle, Stamp, Unknown, LedgerTypeOK
    <3> QED BY <2>2, <3>1 DEF Watched
  <2> QED BY <1>2, <2>1, <2>2, CloseCycles
<1>3. IsOpen(q) => q.open = l.open /\ IsOpen(l)
  BY <1>1, NoOpenIsACycle DEF IsOpen
<1> HIDE DEF q
<1>4. Watched(q) BY <1>2, <1>3 DEF Watched
<1> QED BY <1>1, <1>4 DEF q

\* What happens to a ledger apart from the clock and from outages.
LEMMA WatchedStays ==
  ASSUME LedgerInv, cycles' \in Cycles, Watched(cycles'), UNCHANGED <<now, outages>>, LedgerTypeOK'
  PROVE  LedgerInv'
<1>1. Watched(cycles)' BY DEF Watched
<1> QED BY <1>1 DEF LedgerInv

LEMMA SpanIsWatched ==
  ASSUME NEW l, NEW m, Watched(l), SameSpan(l, m)
  PROVE  Watched(m)
  BY DEF Watched, SameSpan, IsOpen

\* The type of the ledger is what of its next state the actions share.
LEMMA TypedNext ==
  ASSUME cycles' \in Cycles, now' \in 0..MaxTime,
         vendor' \in [util: Level, stamp: Stamp], quota' \in [util: Level, stamp: Stamp],
         answer' \in [util: Level, stamp: Stamp], asked' \in 0..MaxTime,
         account' \in [type: {"oauth", "provider"}, enabled: BOOLEAN],
         served' \in 0..MaxServed, outages' \subseteq 0..MaxTime
  PROVE  LedgerTypeOK'
  BY DEF LedgerTypeOK, Cycles

LEMMA NextLedger == LedgerInv /\ [LedgerNext]_lvars => LedgerInv'
<1> SUFFICES ASSUME LedgerInv, [LedgerNext]_lvars PROVE LedgerInv'
  OBVIOUS
<1> USE LedgerAssumption
<1>0. /\ LedgerTypeOK /\ cycles \in Cycles /\ Watched(cycles) /\ \A t \in outages : t < now
      /\ now \in 0..MaxTime /\ asked \in 0..MaxTime /\ served \in 0..MaxServed
      /\ outages \subseteq 0..MaxTime
      /\ account \in [type: {"oauth", "provider"}, enabled: BOOLEAN]
      /\ vendor \in [util: Level, stamp: Stamp] /\ quota \in [util: Level, stamp: Stamp]
      /\ answer \in [util: Level, stamp: Stamp]
      /\ None \in [util: Level, stamp: Stamp] /\ 0 \in 0..MaxTime
  BY DEF LedgerInv, LedgerTypeOK, None, Level, Stamp, Unknown
<1>1. CASE Sweep \/ QuotaExpires
  <2>1. /\ cycles' = CloseCycle(cycles, quota.stamp, quota.stamp, quota.util)
        /\ quota.stamp <= now /\ (quota' = quota \/ quota' = None)
        /\ UNCHANGED <<now, vendor, answer, asked, account, served, outages>>
    BY <1>0, <1>1 DEF Sweep, QuotaExpires, Stamp, Unknown
  <2>2. cycles' \in Cycles /\ Watched(cycles') BY <1>0, <2>1, CloseIsWatched
  <2> QED BY <1>0, <2>1, <2>2, TypedNext, WatchedStays
<1>2. CASE ProbeSent \/ ProbeTimesOut
  <2>1. UNCHANGED <<now, vendor, quota, cycles, account, served, outages>>
    BY <1>2 DEF ProbeSent, ProbeTimesOut
  <2>2. answer' \in [util: Level, stamp: Stamp] /\ asked' \in 0..MaxTime
    BY <1>0, <1>2 DEF ProbeSent, ProbeTimesOut
  <2>3. cycles' \in Cycles /\ Watched(cycles') BY <1>0, <2>1
  <2> QED BY <1>0, <2>1, <2>2, <2>3, TypedNext, WatchedStays
<1>3. CASE ProbeAnswers
  <2> DEFINE q == WindowAdvances(cycles, quota, answer)
             boundary == IF answer.stamp < now THEN answer.stamp ELSE now
  <2>1. q \in Cycles /\ Watched(q)
    <3>1. CASE q = cycles BY <1>0, <3>1
    <3>2. CASE q # cycles
      <4>1. answer.stamp # Unknown /\ q = CloseCycle(cycles, boundary, quota.stamp, quota.util)
        BY <3>2 DEF WindowAdvances
      <4>2. boundary \in Stamp /\ boundary <= now
        BY <1>0, <4>1 DEF Stamp, Unknown
      <4> HIDE DEF boundary, q
      <4> QED BY <1>0, <4>1, <4>2, CloseIsWatched
    <3> QED BY <3>1, <3>2
  <2>2. cycles' = Observed(q, answer.util) BY <1>3 DEF ProbeAnswers
  <2> HIDE DEF q
  <2>3. cycles' \in Cycles /\ Watched(cycles')
    BY <1>0, <2>1, <2>2, ObservedCycles, SpanIsWatched
  <2>4. /\ UNCHANGED <<now, vendor, account, served, outages>>
        /\ quota' = answer /\ answer' = None /\ asked' = 0
    BY <1>3 DEF ProbeAnswers
  <2> QED BY <1>0, <2>3, <2>4, TypedNext, WatchedStays
<1>4. CASE Headers
  <2>1. /\ cycles' = Observed(cycles, vendor.util) /\ quota' = vendor
        /\ UNCHANGED <<now, vendor, answer, asked, account, served, outages>>
    BY <1>4 DEF Headers
  <2>2. cycles' \in Cycles /\ Watched(cycles')
    BY <1>0, <2>1, ObservedCycles, SpanIsWatched
  <2> QED BY <1>0, <2>1, <2>2, TypedNext, WatchedStays
<1>5. CASE Serve
  <2>1. /\ cycles' = Accrue(cycles, 1) /\ served' \in 0..MaxServed
        /\ UNCHANGED <<now, quota, answer, asked, account, outages>>
    BY <1>0, <1>5 DEF Serve
  <2>2. vendor' \in [util: Level, stamp: Stamp]
    BY <1>0, <1>5 DEF Serve, Level, Full, Unknown
  <2>3. cycles' \in Cycles BY <1>0, <2>1, AccrueCycles
  <2>4. Watched(cycles')
    <3>1. CASE IsOpen(cycles) BY <1>0, <2>1, <3>1, AccrueCycles, SpanIsWatched
    <3>2. CASE ~IsOpen(cycles)
      <4>1. cycles'.closed = cycles.closed /\ cycles'.open.start = now
        BY <1>0, <2>1, <3>2, AccrueCycles
      <4> QED BY <1>0, <4>1 DEF Watched
    <3> QED BY <3>1, <3>2
  <2> QED BY <1>0, <2>1, <2>2, <2>3, <2>4, TypedNext, WatchedStays
<1>6. CASE Toggle
  <2>1. /\ account' \in [type: {"oauth", "provider"}, enabled: BOOLEAN]
        /\ cycles' = cycles \/ cycles' = [cycles EXCEPT !.open.disabled = TRUE]
        /\ UNCHANGED <<now, vendor, quota, answer, asked, served, outages>>
    <3>1. \E b \in BOOLEAN : account' = [account EXCEPT !.enabled = b]
      BY <1>6, Zenon DEF Toggle
    <3> QED BY <1>0, <1>6, <3>1 DEF Toggle
  <2>2. cycles' \in Cycles /\ Watched(cycles')
    BY <1>0, <2>1, ToggledCycles, SpanIsWatched
  <2> QED BY <1>0, <2>1, <2>2, TypedNext, WatchedStays
<1>7. ASSUME NEW d \in 1..2, Outage(d) PROVE LedgerInv'
  <2>1. /\ now' = now + d /\ now' \in 0..MaxTime /\ answer' = None /\ asked' = 0
        /\ vendor' = At(vendor, now + d)
        /\ cycles' = Restored(cycles, d) /\ UNCHANGED <<quota, account, served>>
        /\ outages' = IF d > 1 THEN outages \cup now..(now + d - 1) ELSE outages
    BY <1>0, <1>7 DEF Outage
  <2>2. vendor' \in [util: Level, stamp: Stamp] BY <1>0, <2>1, VendorAt
  <2>3. outages' \subseteq 0..MaxTime /\ \A t \in outages' : t < now'
    BY <1>0, <2>1
  <2>4. /\ cycles' \in Cycles /\ cycles'.closed = cycles.closed
        /\ cycles'.open.start = cycles.open.start
        /\ cycles'.open.complete => cycles.open.complete
        /\ d > 1 /\ IsOpen(cycles) => ~cycles'.open.complete
    BY <1>0, <2>1, RestoredCycles
  <2>5. ASSUME NEW i \in DOMAIN cycles'.closed
        PROVE  /\ cycles'.closed[i].ended <= now'
               /\ cycles'.closed[i].complete => \A t \in outages' :
                    ~(cycles'.closed[i].start <= t /\ t < cycles'.closed[i].ended)
    <3> DEFINE row == cycles.closed[i]
    <3>1. i \in DOMAIN cycles.closed /\ cycles'.closed[i] = row BY <2>4
    <3>2. /\ row.ended <= now
          /\ row.complete => \A t \in outages : ~(row.start <= t /\ t < row.ended)
      BY <1>0, <3>1 DEF Watched
    <3>3. row \in Row
      <4>1. cycles.closed \in Seq(Row) BY <1>0 DEF Cycles
      <4> QED BY <3>1, <4>1, LenProperties, ElementOfSeq
    <3>4. row.ended \in Int BY <3>3 DEF Row, Stamp, Unknown
    <3> HIDE DEF row
    <3>5. \A t \in outages' : t \in outages \/ t >= now BY <1>0, <2>1
    <3>6. row.ended <= now' BY <1>0, <2>1, <3>2, <3>4
    <3>7. \A t \in outages' : t \in Int BY <2>3
    <3>8. ASSUME row.complete, NEW t \in outages' PROVE ~(row.start <= t /\ t < row.ended)
      BY <1>0, <3>2, <3>4, <3>5, <3>7, <3>8
    <3> QED BY <3>1, <3>6, <3>8
  <2>6. IsOpen(cycles') /\ cycles'.open.complete => \A t \in outages' : t < cycles'.open.start
    BY <1>0, <2>1, <2>4 DEF IsOpen, Watched
  <2>7. Watched(cycles)' BY <2>5, <2>6 DEF Watched, IsOpen
  <2> QED BY <1>0, <2>1, <2>2, <2>3, <2>4, <2>7, TypedNext DEF LedgerInv
<1>8. CASE Minute
  <2>1. /\ now' = now + 1 /\ now' \in 0..MaxTime /\ vendor' = At(vendor, now + 1)
        /\ UNCHANGED <<quota, answer, asked, cycles, account, served, outages>>
    BY <1>0, <1>8 DEF Minute
  <2>2. vendor' \in [util: Level, stamp: Stamp] BY <1>0, <2>1, VendorAt
  <2>3. \A t \in outages' : t < now' BY <1>0, <2>1
  <2>4. \A i \in DOMAIN cycles.closed : cycles.closed[i].ended <= now'
    <3> SUFFICES ASSUME NEW i \in DOMAIN cycles.closed PROVE cycles.closed[i].ended <= now'
      OBVIOUS
    <3>1. cycles.closed[i] \in Row
      <4>1. cycles.closed \in Seq(Row) BY <1>0 DEF Cycles
      <4> QED BY <4>1, LenProperties, ElementOfSeq
    <3>2. cycles.closed[i].ended \in Int BY <3>1 DEF Row, Stamp, Unknown
    <3>3. cycles.closed[i].ended <= now BY <1>0 DEF Watched
    <3> QED BY <1>0, <2>1, <3>2, <3>3
  <2>5. Watched(cycles)' BY <1>0, <2>1, <2>4 DEF Watched, IsOpen
  <2> QED BY <1>0, <2>1, <2>2, <2>3, <2>5, TypedNext DEF LedgerInv
<1>9. CASE UNCHANGED lvars
  <2>1. UNCHANGED <<now, vendor, quota, answer, asked, cycles, account, served, outages>>
    BY <1>9 DEF lvars
  <2> QED BY <1>0, <2>1, TypedNext, WatchedStays
<1> QED BY <1>1, <1>2, <1>3, <1>4, <1>5, <1>6, <1>7, <1>8, <1>9 DEF LedgerNext

(* A row that the capacity estimate counts was watched from its first      *)
(* token to its end, whoever closed it and however often the process was   *)
(* away.                                                                   *)
THEOREM CountedRowsAreWatched == LedgerSpec => []CountedIsWatched
<1>1. LedgerInit => LedgerInv
  <2>1. LedgerInit => Watched(cycles) /\ \A t \in outages : t < now
    BY NoOpenIsACycle DEF LedgerInit, Watched, IsOpen
  <2> QED BY <2>1, InitLedger DEF LedgerInv
<1>2. LedgerInv => CountedIsWatched BY DEF LedgerInv, Watched, CountedIsWatched
<1> QED BY <1>1, <1>2, NextLedger, PTL DEF LedgerSpec

(***************************************************************************)
(* RowsAreDistinct is not inductive either: two rows of one boundary need  *)
(* not be neighbours.  They are in the order of their resets, because the  *)
(* stamps the account believes in never go back behind a row: a stamp that *)
(* is taken over, from an answer or from headers, is not in the past.      *)
(***************************************************************************)
Sane(row) == row.reset <= row.ended /\ row.ended <= now

NotAfter(first, second) ==
    \/ first.reset < second.reset
    \/ first.reset = second.reset /\ first.ended <= second.ended

\* a row of the boundary that is still to come was closed by the clock
NotAfterStamp(row, stamp) ==
    row.reset < stamp \/ (row.reset = stamp /\ row.ended = stamp)

RowsInOrder(rows) ==
    /\ \A i \in DOMAIN rows : Sane(rows[i])
    /\ \A i, j \in DOMAIN rows : i < j =>
          /\ rows[i].ended <= rows[j].start
          /\ NotAfter(rows[i], rows[j])
          /\ rows[j].complete /\ ~rows[j].disabled =>
                <<rows[i].ended, rows[i].reset>> # <<rows[j].ended, rows[j].reset>>

CyclesInOrder(l) ==
    /\ RowsInOrder(l.closed)
    /\ IsOpen(l) => \A i \in DOMAIN l.closed : l.closed[i].ended <= l.open.start

StampsAhead ==
    /\ now < vendor.stamp
    /\ answer # None => now <= answer.stamp /\ (now = asked => now < answer.stamp)
    /\ quota.stamp # Unknown => \A i \in DOMAIN cycles.closed :
                                   NotAfterStamp(cycles.closed[i], quota.stamp)

OrderInv == LedgerInv /\ CyclesInOrder(cycles) /\ StampsAhead

\* The times of rows are numbers.
LEMMA RowTimes ==
  ASSUME NEW l \in Cycles
  PROVE  /\ Len(l.closed) \in Nat /\ DOMAIN l.closed = 1..Len(l.closed)
         /\ l.open.start \in Int
         /\ \A i \in DOMAIN l.closed :
              /\ l.closed[i].start \in Int /\ l.closed[i].ended \in Int
              /\ l.closed[i].reset \in Int
<1>1. l.closed \in Seq(Row) /\ l.open \in Cycle BY DEF Cycles
<1>2. \A i \in DOMAIN l.closed : l.closed[i] \in Row BY <1>1, LenProperties, ElementOfSeq
<1>3. Stamp \subseteq Int BY DEF Stamp, Unknown
<1> QED BY <1>1, <1>2, <1>3, LenProperties DEF Row, Cycle

\* A boundary that is not before the last row's is not among the rows, unless it
\* is the last row's.
LEMMA OnlyTheLast ==
  ASSUME NEW l \in Cycles, RowsInOrder(l.closed), NEW ended \in Int, NEW reset \in Int,
         NEW i \in DOMAIN l.closed, l.closed[i].ended = ended, l.closed[i].reset = reset,
         \A k \in DOMAIN l.closed : \/ l.closed[k].reset < reset
                                    \/ l.closed[k].reset = reset /\ l.closed[k].ended <= ended
  PROVE  SameBoundary(l, ended, reset)
<1> DEFINE last == Len(l.closed)
<1>1. /\ last \in Nat /\ i \in 1..last /\ last \in DOMAIN l.closed
      /\ l.closed[last].ended \in Int /\ l.closed[last].reset \in Int
  BY RowTimes
<1>2. l.closed \in Seq(Row) /\ l.closed # <<>> /\ Last(l.closed) = l.closed[last]
  BY <1>1, EmptySeq DEF Cycles, Last
<1> HIDE DEF last
<1>3. i = last \/ NotAfter(l.closed[i], l.closed[last])
  BY <1>1 DEF RowsInOrder
<1>4. l.closed[last].reset = reset /\ l.closed[last].ended = ended
  BY <1>1, <1>3 DEF NotAfter
<1> QED BY <1>2, <1>4 DEF SameBoundary

\* A close at a boundary that is not before the others keeps the order.
LEMMA CloseInOrder ==
  ASSUME now \in 0..MaxTime, NEW l \in Cycles, CyclesInOrder(l),
         NEW ended \in Stamp, NEW reset \in Stamp, NEW util \in Level,
         reset <= ended, ended <= now,
         \A k \in DOMAIN l.closed : \/ l.closed[k].reset < reset
                                    \/ l.closed[k].reset = reset /\ l.closed[k].ended <= ended
  PROVE  CyclesInOrder(CloseCycle(l, ended, reset, util))
<1> DEFINE q == CloseCycle(l, ended, reset, util)
<1>1. /\ q \in Cycles /\ q.open = (IF IsOpen(l) THEN NoOpen ELSE l.open)
      /\ \/ SameRows(l, q)
         \/ /\ IsOpen(l) /\ RowAdded(l, q, ended, reset)
            /\ SameBoundary(l, ended, reset) => ~(l.open.complete /\ ~l.open.disabled)
  BY CloseShape
<1>2. ended \in Int /\ reset \in Int BY DEF Stamp, Unknown
<1>3. IsOpen(q) => ~IsOpen(l) /\ q.open = l.open
  BY <1>1, NoOpenIsACycle DEF IsOpen
<1> HIDE DEF q
<1>4. RowsInOrder(l.closed) BY DEF CyclesInOrder
<1>5. CASE SameRows(l, q)
  <2>1. RowsInOrder(q.closed)
    BY <1>4, <1>5 DEF RowsInOrder, SameRows, SameRow, Sane, NotAfter
  <2>2. IsOpen(q) => \A i \in DOMAIN q.closed : q.closed[i].ended <= q.open.start
    BY <1>3, <1>5 DEF CyclesInOrder, SameRows, SameRow, IsOpen
  <2> QED BY <2>1, <2>2 DEF CyclesInOrder, q
<1>6. CASE IsOpen(l) /\ RowAdded(l, q, ended, reset)
             /\ (SameBoundary(l, ended, reset) => ~(l.open.complete /\ ~l.open.disabled))
  <2>1. PICK gone \in 0..1, last \in 1..(Len(l.closed) + 1) :
          /\ last + gone = Len(l.closed) + 1
          /\ DOMAIN q.closed = 1..last
          /\ \A i \in 1..(last - 1) : q.closed[i] = l.closed[i + gone]
          /\ q.closed[last].start = l.open.start
          /\ q.closed[last].ended = ended /\ q.closed[last].reset = reset
          /\ q.closed[last].complete = l.open.complete
          /\ q.closed[last].disabled = l.open.disabled
    BY <1>6 DEF RowAdded
  <2>2. Len(l.closed) \in Nat /\ DOMAIN l.closed = 1..Len(l.closed) BY RowTimes
  <2>3. \A i \in 1..(last - 1) : i + gone \in DOMAIN l.closed BY <2>1, <2>2
  <2>4. \A i \in DOMAIN q.closed : i = last \/ i \in 1..(last - 1) BY <2>1
  <2>5. \A i \in DOMAIN q.closed : Sane(q.closed[i])
    <3> SUFFICES ASSUME NEW i \in DOMAIN q.closed PROVE Sane(q.closed[i])
      OBVIOUS
    <3>1. CASE i = last BY <2>1, <3>1 DEF Sane
    <3>2. CASE i \in 1..(last - 1) BY <1>4, <2>1, <2>3, <3>2 DEF RowsInOrder
    <3> QED BY <2>4, <3>1, <3>2
  <2>6. ASSUME NEW i \in DOMAIN q.closed, NEW j \in DOMAIN q.closed, i < j
        PROVE  /\ q.closed[i].ended <= q.closed[j].start
               /\ NotAfter(q.closed[i], q.closed[j])
               /\ q.closed[j].complete /\ ~q.closed[j].disabled =>
                    <<q.closed[i].ended, q.closed[i].reset>>
                      # <<q.closed[j].ended, q.closed[j].reset>>
    <3>0. i \in 1..last /\ j \in 1..last BY <2>1
    <3>1. i \in 1..(last - 1) /\ i + gone \in DOMAIN l.closed /\ q.closed[i] = l.closed[i + gone]
      <4>1. i \in 1..(last - 1) BY <2>6, <3>0
      <4> QED BY <2>1, <2>3, <4>1
    <3>2. CASE j = last
      <4>1. q.closed[i].ended <= q.closed[j].start
        BY <1>6, <2>1, <3>1, <3>2 DEF CyclesInOrder
      <4>2. NotAfter(q.closed[i], q.closed[j]) BY <2>1, <3>1, <3>2 DEF NotAfter
      <4>3. ASSUME q.closed[j].complete, ~q.closed[j].disabled,
                   q.closed[i].ended = ended, q.closed[i].reset = reset
            PROVE  FALSE
        <5>1. SameBoundary(l, ended, reset) BY <1>2, <1>4, <3>1, <4>3, OnlyTheLast
        <5> QED BY <1>6, <2>1, <3>2, <4>3, <5>1
      <4> QED BY <2>1, <3>2, <4>1, <4>2, <4>3
    <3>3. CASE j \in 1..(last - 1)
      <4>1. j + gone \in DOMAIN l.closed /\ q.closed[j] = l.closed[j + gone] /\ i + gone < j + gone
        <5>1. i \in Int /\ j \in Int /\ gone \in Int BY <3>0
        <5>2. i + gone < j + gone BY <2>6, <5>1
        <5> QED BY <2>1, <2>3, <3>3, <5>2
      <4> QED BY <1>4, <3>1, <4>1 DEF RowsInOrder
    <3> QED BY <2>4, <3>2, <3>3
  <2>7. RowsInOrder(q.closed)
    <3> HIDE DEF RowsInOrder
    <3> QED BY <2>5, <2>6 DEF RowsInOrder
  <2> QED BY <1>3, <1>6, <2>7 DEF CyclesInOrder, q
<1> QED BY <1>1, <1>5, <1>6

\* A stamp that is not in the past is not before any row.
LEMMA AheadOfRows ==
  ASSUME now \in 0..MaxTime, NEW l \in Cycles, CyclesInOrder(l), NEW stamp \in Stamp, now <= stamp
  PROVE  \A i \in DOMAIN l.closed : NotAfterStamp(l.closed[i], stamp)
<1> SUFFICES ASSUME NEW i \in DOMAIN l.closed PROVE NotAfterStamp(l.closed[i], stamp)
  OBVIOUS
<1>1. Sane(l.closed[i]) BY DEF CyclesInOrder, RowsInOrder
<1>2. l.closed[i].ended \in Int /\ l.closed[i].reset \in Int BY RowTimes
<1>3. stamp \in Int BY DEF Stamp, Unknown
<1> QED BY <1>1, <1>2, <1>3 DEF Sane, NotAfterStamp

\* Time may pass, and what an open cycle knows may change.
LEMMA OrderStays ==
  ASSUME cycles \in Cycles, CyclesInOrder(cycles), now \in Int, now' \in Int, now <= now',
         cycles'.closed = cycles.closed, cycles'.open.start = cycles.open.start
  PROVE  CyclesInOrder(cycles)'
<1>1. \A i \in DOMAIN cycles.closed : cycles.closed[i].ended \in Int BY RowTimes
<1>2. \A i \in DOMAIN cycles.closed :
        cycles.closed[i].reset <= cycles.closed[i].ended /\ cycles.closed[i].ended <= now'
  <2> SUFFICES ASSUME NEW i \in DOMAIN cycles.closed
               PROVE  /\ cycles.closed[i].reset <= cycles.closed[i].ended
                      /\ cycles.closed[i].ended <= now'
    OBVIOUS
  <2>1. cycles.closed[i].reset <= cycles.closed[i].ended /\ cycles.closed[i].ended <= now
    BY DEF CyclesInOrder, RowsInOrder, Sane
  <2> QED BY <1>1, <2>1
<1>3. RowsInOrder(cycles.closed)' BY <1>2 DEF CyclesInOrder, RowsInOrder, Sane, NotAfter
<1> QED BY <1>3 DEF CyclesInOrder, IsOpen

\* The clock adds no row that is after the stamp.
LEMMA CloseAtStamp ==
  ASSUME NEW l \in Cycles, NEW stamp \in Stamp, NEW util \in Level,
         \A i \in DOMAIN l.closed : NotAfterStamp(l.closed[i], stamp)
  PROVE  \A i \in DOMAIN CloseCycle(l, stamp, stamp, util).closed :
            NotAfterStamp(CloseCycle(l, stamp, stamp, util).closed[i], stamp)
<1> DEFINE q == CloseCycle(l, stamp, stamp, util)
<1> SUFFICES ASSUME NEW i \in DOMAIN q.closed PROVE NotAfterStamp(q.closed[i], stamp)
  OBVIOUS
<1>1. CASE \E j \in DOMAIN l.closed :
              q.closed[i].ended = l.closed[j].ended /\ q.closed[i].reset = l.closed[j].reset
  <2> HIDE DEF q
  <2> QED BY <1>1 DEF NotAfterStamp
<1>2. CASE q.closed[i].ended = stamp /\ q.closed[i].reset = stamp
  <2> HIDE DEF q
  <2> QED BY <1>2 DEF NotAfterStamp
<1> QED BY <1>1, <1>2, CloseCycles

LEMMA NextOrder == OrderInv /\ [LedgerNext]_lvars => OrderInv'
<1> SUFFICES ASSUME OrderInv, [LedgerNext]_lvars PROVE OrderInv'
  OBVIOUS
<1> USE LedgerAssumption
<1>0. /\ cycles \in Cycles /\ CyclesInOrder(cycles) /\ StampsAhead
      /\ now \in 0..MaxTime /\ asked \in 0..MaxTime
      /\ vendor \in [util: Level, stamp: Stamp] /\ quota \in [util: Level, stamp: Stamp]
      /\ answer \in [util: Level, stamp: Stamp]
      /\ vendor.stamp \in Int /\ answer.stamp \in Int /\ quota.stamp \in Int
  BY DEF OrderInv, LedgerInv, LedgerTypeOK, Stamp, Unknown
<1>1. LedgerInv' BY NextLedger DEF OrderInv
<1>2. now' \in 0..MaxTime /\ cycles' \in Cycles BY <1>1 DEF LedgerInv, LedgerTypeOK
<1>3. /\ now < vendor.stamp
      /\ answer # None => now <= answer.stamp /\ (now = asked => now < answer.stamp)
      /\ quota.stamp # Unknown => \A i \in DOMAIN cycles.closed :
                                     NotAfterStamp(cycles.closed[i], quota.stamp)
  BY <1>0 DEF StampsAhead
<1>4. ASSUME now' = now, CyclesInOrder(cycles') PROVE CyclesInOrder(cycles)'
  BY <1>4 DEF CyclesInOrder, RowsInOrder, Sane, IsOpen
<1>5. CASE Sweep \/ QuotaExpires
  <2>1. /\ cycles' = CloseCycle(cycles, quota.stamp, quota.stamp, quota.util)
        /\ quota.stamp # Unknown /\ quota.stamp <= now /\ (quota' = quota \/ quota' = None)
        /\ UNCHANGED <<now, vendor, answer, asked>>
    BY <1>0, <1>5 DEF Sweep, QuotaExpires
  <2>2. \A k \in DOMAIN cycles.closed :
          \/ cycles.closed[k].reset < quota.stamp
          \/ cycles.closed[k].reset = quota.stamp /\ cycles.closed[k].ended <= quota.stamp
    BY <1>0, <1>3, <2>1 DEF NotAfterStamp
  <2>3. CyclesInOrder(cycles') BY <1>0, <2>1, <2>2, CloseInOrder
  <2>4. \A i \in DOMAIN cycles'.closed : NotAfterStamp(cycles'.closed[i], quota.stamp)
    BY <1>0, <1>3, <2>1, CloseAtStamp
  <2>5. None.stamp = Unknown BY DEF None
  <2>6. StampsAhead' BY <1>3, <2>1, <2>4, <2>5 DEF StampsAhead, NotAfterStamp
  <2> QED BY <1>1, <1>4, <2>1, <2>3, <2>6 DEF OrderInv
<1>6. CASE ProbeSent \/ ProbeTimesOut
  <2>1. /\ UNCHANGED <<now, vendor, quota, cycles>>
        /\ (answer' = vendor /\ asked' = now) \/ answer' = None
    BY <1>6 DEF ProbeSent, ProbeTimesOut
  <2>2. CyclesInOrder(cycles)' BY <1>0, <1>4, <2>1
  <2>3. StampsAhead' BY <1>0, <1>3, <2>1 DEF StampsAhead, NotAfterStamp
  <2> QED BY <1>1, <2>2, <2>3 DEF OrderInv
<1>7. CASE ProbeAnswers
  <2> DEFINE q == WindowAdvances(cycles, quota, answer)
             boundary == IF answer.stamp < now THEN answer.stamp ELSE now
  <2>1. q \in Cycles /\ CyclesInOrder(q)
    <3>1. CASE q = cycles BY <1>0, <3>1
    <3>2. CASE q # cycles
      <4>1. /\ quota.stamp # Unknown /\ answer.stamp # Unknown
            /\ ~(boundary < quota.stamp + 1)
            /\ q = CloseCycle(cycles, boundary, quota.stamp, quota.util)
        BY <3>2 DEF WindowAdvances
      <4>2. /\ boundary \in Stamp /\ boundary \in Int /\ boundary <= now
            /\ quota.stamp <= boundary
        BY <1>0, <4>1 DEF Stamp, Unknown
      <4> HIDE DEF boundary
      <4>3. \A k \in DOMAIN cycles.closed :
              \/ cycles.closed[k].reset < quota.stamp
              \/ cycles.closed[k].reset = quota.stamp /\ cycles.closed[k].ended <= boundary
        BY <1>3, <4>1, <4>2 DEF NotAfterStamp
      <4> HIDE DEF q
      <4>4. q \in Cycles BY <1>0, <4>1, <4>2, CloseCycles
      <4>5. CyclesInOrder(q) BY <1>0, <4>1, <4>2, <4>3, CloseInOrder
      <4> QED BY <4>4, <4>5
    <3> QED BY <3>1, <3>2
  <2>2. /\ cycles' = Observed(q, answer.util) /\ answer # None
        /\ quota' = answer /\ answer' = None /\ UNCHANGED <<now, vendor>>
    BY <1>7 DEF ProbeAnswers
  <2> HIDE DEF q
  <2>3. SameSpan(q, cycles') BY <1>0, <2>1, <2>2, ObservedCycles
  <2>4. CyclesInOrder(cycles') BY <2>1, <2>3 DEF SameSpan, CyclesInOrder, IsOpen
  <2>5. \A i \in DOMAIN cycles'.closed : NotAfterStamp(cycles'.closed[i], answer.stamp)
    BY <1>0, <1>2, <1>3, <2>2, <2>4, AheadOfRows
  <2>6. StampsAhead' BY <1>3, <2>2, <2>5 DEF StampsAhead, NotAfterStamp
  <2> QED BY <1>1, <1>4, <2>2, <2>4, <2>6 DEF OrderInv
<1>8. CASE Headers
  <2>1. /\ cycles' = Observed(cycles, vendor.util) /\ quota' = vendor
        /\ UNCHANGED <<now, vendor, answer, asked>>
    BY <1>8 DEF Headers
  <2>2. SameSpan(cycles, cycles') BY <1>0, <2>1, ObservedCycles
  <2>3. CyclesInOrder(cycles') BY <1>0, <2>2 DEF SameSpan, CyclesInOrder, IsOpen
  <2>4. \A i \in DOMAIN cycles'.closed : NotAfterStamp(cycles'.closed[i], vendor.stamp)
    BY <1>0, <1>2, <1>3, <2>3, AheadOfRows
  <2>5. StampsAhead' BY <1>3, <2>1, <2>4 DEF StampsAhead, NotAfterStamp
  <2> QED BY <1>1, <1>4, <2>1, <2>3, <2>5 DEF OrderInv
<1>9. CASE Serve
  <2>1. /\ cycles' = Accrue(cycles, 1) /\ vendor'.stamp = vendor.stamp
        /\ UNCHANGED <<now, quota, answer, asked>>
    BY <1>0, <1>9 DEF Serve
  <2>2. cycles'.closed = cycles.closed BY <1>0, <2>1, AccrueCycles
  <2>3. CyclesInOrder(cycles)'
    <3>1. CASE IsOpen(cycles)
      <4>1. cycles'.open.start = cycles.open.start BY <1>0, <2>1, <3>1, AccrueCycles DEF SameSpan
      <4> QED BY <1>0, <1>2, <2>1, <2>2, <4>1, OrderStays
    <3>2. CASE ~IsOpen(cycles)
      <4>1. cycles'.open.start = now BY <1>0, <2>1, <3>2, AccrueCycles
      <4>2. RowsInOrder(cycles'.closed) BY <1>0, <2>2 DEF CyclesInOrder
      <4>3. \A i \in DOMAIN cycles'.closed : cycles'.closed[i].ended <= now
        BY <4>2 DEF RowsInOrder, Sane
      <4>4. CyclesInOrder(cycles') BY <4>1, <4>2, <4>3 DEF CyclesInOrder
      <4> QED BY <1>4, <2>1, <4>4
    <3> QED BY <3>1, <3>2
  <2>4. StampsAhead' BY <1>3, <2>1, <2>2 DEF StampsAhead, NotAfterStamp
  <2> QED BY <1>1, <2>3, <2>4 DEF OrderInv
<1>10. CASE Toggle
  <2>1. /\ cycles' = cycles \/ cycles' = [cycles EXCEPT !.open.disabled = TRUE]
        /\ UNCHANGED <<now, vendor, quota, answer, asked>>
    BY <1>10 DEF Toggle
  <2>2. cycles'.closed = cycles.closed /\ cycles'.open.start = cycles.open.start
    BY <1>0, <2>1, ToggledCycles DEF SameSpan
  <2>3. CyclesInOrder(cycles)' BY <1>0, <1>2, <2>1, <2>2, OrderStays
  <2>4. StampsAhead' BY <1>3, <2>1, <2>2 DEF StampsAhead, NotAfterStamp
  <2> QED BY <1>1, <2>3, <2>4 DEF OrderInv
<1>11. ASSUME NEW d \in 1..2, Outage(d) PROVE OrderInv'
  <2>1. /\ now' = now + d /\ vendor' = At(vendor, now + d) /\ answer' = None
        /\ cycles' = Restored(cycles, d) /\ quota' = quota
    BY <1>11 DEF Outage
  <2>2. cycles'.closed = cycles.closed /\ cycles'.open.start = cycles.open.start
    BY <1>0, <2>1, RestoredCycles
  <2>3. CyclesInOrder(cycles)' BY <1>0, <1>2, <2>1, <2>2, OrderStays
  <2>4. now' < vendor'.stamp
    <3>1. CASE now + d >= vendor.stamp
      <4>1. vendor'.stamp = vendor.stamp + Window BY <2>1, <3>1 DEF At
      <4> QED BY <1>0, <1>3, <2>1, <4>1
    <3>2. CASE ~(now + d >= vendor.stamp) BY <1>0, <2>1, <3>2 DEF At
    <3> QED BY <3>1, <3>2
  <2>5. StampsAhead' BY <1>3, <2>1, <2>2, <2>4 DEF StampsAhead, NotAfterStamp
  <2> QED BY <1>1, <2>3, <2>5 DEF OrderInv
<1>12. CASE Minute
  <2>1. /\ now' = now + 1 /\ vendor' = At(vendor, now + 1) /\ (answer # None => now = asked)
        /\ UNCHANGED <<quota, answer, asked, cycles>>
    BY <1>12 DEF Minute
  <2>2. CyclesInOrder(cycles)' BY <1>0, <1>2, <2>1, OrderStays
  <2>3. now' < vendor'.stamp
    <3>1. CASE now + 1 >= vendor.stamp
      <4>1. vendor'.stamp = vendor.stamp + Window BY <2>1, <3>1 DEF At
      <4> QED BY <1>0, <1>3, <2>1, <4>1
    <3>2. CASE ~(now + 1 >= vendor.stamp) BY <1>0, <2>1, <3>2 DEF At
    <3> QED BY <3>1, <3>2
  <2>4. answer' # None => now' <= answer'.stamp /\ now' # asked' BY <1>0, <1>3, <2>1
  <2>5. StampsAhead' BY <1>3, <2>1, <2>3, <2>4 DEF StampsAhead, NotAfterStamp
  <2> QED BY <1>1, <2>2, <2>5 DEF OrderInv
<1>13. CASE UNCHANGED lvars
  <2>1. UNCHANGED <<now, vendor, quota, answer, asked, cycles>> BY <1>13 DEF lvars
  <2>2. CyclesInOrder(cycles)' BY <1>0, <1>4, <2>1
  <2>3. StampsAhead' BY <1>3, <2>1 DEF StampsAhead, NotAfterStamp
  <2> QED BY <1>1, <2>2, <2>3 DEF OrderInv
<1> QED BY <1>5, <1>6, <1>7, <1>8, <1>9, <1>10, <1>11, <1>12, <1>13 DEF LedgerNext

LEMMA InitOrder == LedgerInit => OrderInv
<1> SUFFICES ASSUME LedgerInit PROVE OrderInv
  OBVIOUS
<1>1. cycles.open = NoOpen /\ cycles.closed = <<>> /\ DOMAIN cycles.closed = {}
  <2>1. cycles.open = NoOpen /\ cycles.closed = <<>> BY DEF LedgerInit
  <2> QED BY <2>1
<1>2. LedgerInv
  <2>1. Watched(cycles) /\ \A t \in outages : t < now
    BY <1>1, NoOpenIsACycle DEF LedgerInit, Watched, IsOpen
  <2> QED BY <2>1, InitLedger DEF LedgerInv
<1>3. CyclesInOrder(cycles) BY <1>1 DEF CyclesInOrder, RowsInOrder
<1>4. StampsAhead
  <2>1. now = 0 /\ vendor.stamp = Window /\ answer = None BY DEF LedgerInit
  <2> QED BY <1>1, <2>1, LedgerAssumption DEF StampsAhead
<1> QED BY <1>2, <1>3, <1>4 DEF OrderInv

(* Two rows of the ledger never overlap, and two that count as capacity    *)
(* are of two boundaries, though the sweep, the expiry and the probe close *)
(* cycles without knowing of each other and a late answer takes the stamp  *)
(* back.                                                                   *)
THEOREM OneRowPerBoundary == LedgerSpec => []RowsAreDistinct
<1>1. OrderInv => RowsAreDistinct
  BY DEF OrderInv, CyclesInOrder, RowsInOrder, Sane, RowsAreDistinct
<1> QED BY <1>1, InitOrder, NextOrder, PTL DEF LedgerSpec

(* The rows of a ledger are no more than it may keep, and each has its     *)
(* type, whatever closes, restores and folds them: capacity-ledger.js.     *)
THEOREM LedgerTypes == LedgerSpec => []LedgerTypeOK
<1>1. OrderInv => LedgerTypeOK BY DEF OrderInv, LedgerInv
<1> QED BY <1>1, InitOrder, NextOrder, PTL DEF LedgerSpec

(***************************************************************************)
(* The tokens.  A sum over rows is the size of a set, so a row that is     *)
(* pushed, folded or dropped adds, widens or removes a column of it.       *)
(***************************************************************************)
LEMMA Column ==
  ASSUME NEW k, NEW a \in Int, NEW b \in Int, a <= b + 1
  PROVE  IsFiniteSet({k} \X (a..b)) /\ Cardinality({k} \X (a..b)) = b - a + 1
<1>1. IsFiniteSet({k}) /\ Cardinality({k}) = 1 BY FS_Singleton
<1>2. IsFiniteSet(a..b) /\ Cardinality(a..b) = b - a + 1
  <2>1. IsFiniteSet(a..b) /\ Cardinality(a..b) = IF a > b THEN 0 ELSE b - a + 1 BY FS_Interval
  <2> QED BY <2>1
<1>3. /\ IsFiniteSet({k} \X (a..b))
      /\ Cardinality({k} \X (a..b)) = Cardinality({k}) * Cardinality(a..b)
  BY <1>1, <1>2, FS_Product
<1> QED BY <1>1, <1>2, <1>3

LEMMA DisjointUnion ==
  ASSUME NEW A, NEW B, IsFiniteSet(A), IsFiniteSet(B), A \cap B = {}
  PROVE  IsFiniteSet(A \cup B) /\ Cardinality(A \cup B) = Cardinality(A) + Cardinality(B)
<1>1. /\ IsFiniteSet(A \cup B)
      /\ Cardinality(A \cup B) = Cardinality(A) + Cardinality(B) - Cardinality(A \cap B)
  BY FS_Union
<1>2. Cardinality(A \cap B) = 0 BY FS_EmptySet
<1>3. Cardinality(A) \in Nat /\ Cardinality(B) \in Nat BY FS_CardinalityType
<1> QED BY <1>1, <1>2, <1>3

\* A row that is pushed.
LEMMA TokensPushed ==
  ASSUME NEW rows \in Seq(Row), NEW row \in Row, IsFiniteSet(TokensOf(rows))
  PROVE  /\ IsFiniteSet(TokensOf(Append(rows, row)))
         /\ Cardinality(TokensOf(Append(rows, row))) = Cardinality(TokensOf(rows)) + row.tokens
<1> DEFINE k == Len(rows) + 1
           q == Append(rows, row)
           new == {k} \X (1..row.tokens)
<1>1. /\ DOMAIN rows = 1..Len(rows) /\ DOMAIN q = 1..k /\ Len(rows) \in Nat /\ q[k] = row
      /\ \A i \in 1..Len(rows) : q[i] = rows[i]
  <2>1. q \in Seq(Row) /\ Len(q) = k BY AppendProperties
  <2> QED BY <2>1, AppendProperties, LenProperties
<1>2. row.tokens \in Nat BY DEF Row
<1> HIDE DEF q
<1>3. TokensOf(q) = TokensOf(rows) \cup new
  <2>1. k \in DOMAIN q /\ \A i \in DOMAIN q : i = k \/ i \in DOMAIN rows BY <1>1
  <2>2. DOMAIN rows \subseteq DOMAIN q /\ \A i \in DOMAIN rows : q[i] = rows[i] BY <1>1
  <2>3. new = {k} \X (1..q[k].tokens) BY <1>1
  <2> HIDE DEF k, new
  <2> QED BY <2>1, <2>2, <2>3 DEF TokensOf
<1>4. TokensOf(rows) \cap new = {}
  <2>1. k \notin DOMAIN rows BY <1>1
  <2> HIDE DEF k
  <2> QED BY <2>1 DEF TokensOf
<1>5. IsFiniteSet(new) /\ Cardinality(new) = row.tokens
  <2>1. 1 \in Int /\ row.tokens \in Int /\ 1 <= row.tokens + 1 /\ row.tokens - 1 + 1 = row.tokens
    BY <1>2
  <2> QED BY <2>1, Column
<1> HIDE DEF new
<1> QED BY <1>3, <1>4, <1>5, DisjointUnion DEF q

\* A cycle that is folded into the last row.
LEMMA TokensFolded ==
  ASSUME NEW rows \in Seq(Row), IsFiniteSet(TokensOf(rows)), NEW q,
         DOMAIN q = DOMAIN rows, NEW k \in DOMAIN rows, NEW m \in Nat,
         \A i \in DOMAIN rows : i # k => q[i] = rows[i],
         q[k].tokens = rows[k].tokens + m
  PROVE  /\ IsFiniteSet(TokensOf(q))
         /\ Cardinality(TokensOf(q)) = Cardinality(TokensOf(rows)) + m
<1> DEFINE t == rows[k].tokens
           new == {k} \X ((t + 1)..(t + m))
<1>1. t \in Nat
  <2>1. rows[k] \in Row BY LenProperties, ElementOfSeq
  <2> QED BY <2>1 DEF Row
<1>2. TokensOf(q) = TokensOf(rows) \cup new
  <2>1. 1..(t + m) = (1..t) \cup ((t + 1)..(t + m)) BY <1>1
  <2>2. {k} \X (1..q[k].tokens) = ({k} \X (1..rows[k].tokens)) \cup new
    <3>1. q[k].tokens = t + m OBVIOUS
    <3> QED BY <2>1, <3>1
  <2> HIDE DEF new, t
  <2> QED BY <2>2 DEF TokensOf
<1>3. TokensOf(rows) \cap new = {}
  <2>1. \A i \in DOMAIN rows : \A n \in 1..rows[i].tokens : <<i, n>> \notin new
    BY <1>1
  <2> HIDE DEF new, t
  <2> QED BY <2>1 DEF TokensOf
<1>4. IsFiniteSet(new) /\ Cardinality(new) = m
  <2> HIDE DEF t
  <2>1. /\ t + 1 \in Int /\ t + m \in Int /\ t + 1 <= (t + m) + 1
        /\ (t + m) - (t + 1) + 1 = m
    BY <1>1
  <2> QED BY <2>1, Column
<1> HIDE DEF new
<1> QED BY <1>2, <1>3, <1>4, DisjointUnion

\* The oldest row is dropped.
LEMMA TokensDropped ==
  ASSUME NEW rows \in Seq(Row), rows # <<>>, IsFiniteSet(TokensOf(rows))
  PROVE  /\ IsFiniteSet(TokensOf(Tail(rows)))
         /\ Cardinality(TokensOf(rows)) = Cardinality(TokensOf(Tail(rows))) + Head(rows).tokens
<1> DEFINE old == {1} \X (1..rows[1].tokens)
           A == TokensOf(rows) \ old
           B == TokensOf(Tail(rows))
           f == [p \in A |-> <<p[1] - 1, p[2]>>]
<1>1. /\ Tail(rows) \in Seq(Row) /\ Len(rows) \in Nat \ {0} /\ DOMAIN rows = 1..Len(rows)
      /\ DOMAIN Tail(rows) = 1..(Len(rows) - 1)
      /\ \A i \in 1..(Len(rows) - 1) : Tail(rows)[i] = rows[i + 1]
      /\ Head(rows) = rows[1]
  <2>1. Tail(rows) \in Seq(Row) /\ Len(Tail(rows)) = Len(rows) - 1
    BY HeadTailProperties, EmptySeq
  <2> QED BY <2>1, HeadTailProperties, EmptySeq, LenProperties
<1>2. rows[1] \in Row BY <1>1, ElementOfSeq
<1>3. rows[1].tokens \in Nat BY <1>2 DEF Row
<1>4. IsFiniteSet(old) /\ Cardinality(old) = rows[1].tokens
  <2>1. /\ 1 \in Int /\ rows[1].tokens \in Int /\ 1 <= rows[1].tokens + 1
        /\ rows[1].tokens - 1 + 1 = rows[1].tokens
    BY <1>3
  <2> QED BY <2>1, Column
<1>5. old \subseteq TokensOf(rows)
  <2>1. 1 \in DOMAIN rows BY <1>1
  <2> QED BY <2>1 DEF TokensOf
<1>6. IsFiniteSet(A) /\ Cardinality(TokensOf(rows)) = Cardinality(A) + rows[1].tokens
  <2>1. IsFiniteSet(A) BY FS_Subset
  <2>2. TokensOf(rows) = A \cup old /\ A \cap old = {} BY <1>5
  <2> HIDE DEF A, old
  <2> QED BY <1>4, <2>1, <2>2, DisjointUnion
<1>7. ASSUME NEW p
      PROVE  p \in A <=> \E i \in 1..(Len(rows) - 1) : \E n \in 1..rows[i + 1].tokens : p = <<i + 1, n>>
  <2>1. p \in TokensOf(rows) <=> \E j \in DOMAIN rows : \E n \in 1..rows[j].tokens : p = <<j, n>>
    BY DEF TokensOf
  <2>2. p \in old <=> \E n \in 1..rows[1].tokens : p = <<1, n>> BY <1>3
  <2>3. \A j \in DOMAIN rows : j = 1 \/ (j - 1 \in 1..(Len(rows) - 1) /\ j = (j - 1) + 1)
    BY <1>1
  <2>4. \A i \in 1..(Len(rows) - 1) : i + 1 \in DOMAIN rows /\ i + 1 # 1 BY <1>1
  <2> HIDE DEF old
  <2> QED BY <2>1, <2>2, <2>3, <2>4
<1>8. ASSUME NEW p
      PROVE  p \in B <=> \E i \in 1..(Len(rows) - 1) : \E n \in 1..rows[i + 1].tokens : p = <<i, n>>
  BY <1>1 DEF TokensOf
<1> HIDE DEF A, B
<1>9. f \in Bijection(A, B)
  <2>1. \A i \in 1..(Len(rows) - 1) : (i + 1) - 1 = i OBVIOUS
  <2>2. \A i \in 1..(Len(rows) - 1) : \A n \in 1..rows[i + 1].tokens :
          <<i + 1, n>> \in A /\ f[<<i + 1, n>>] = <<i, n>>
    BY <1>7, <2>1
  <2>3. \A p \in A : f[p] \in B BY <1>7, <1>8, <2>2
  <2>4. ASSUME NEW p \in A, NEW r \in A, f[p] = f[r] PROVE p = r
    <3>1. PICK i \in 1..(Len(rows) - 1) : \E n \in 1..rows[i + 1].tokens : p = <<i + 1, n>>
      BY <1>7
    <3>2. PICK n \in 1..rows[i + 1].tokens : p = <<i + 1, n>> BY <3>1
    <3>3. PICK k \in 1..(Len(rows) - 1) : \E m \in 1..rows[k + 1].tokens : r = <<k + 1, m>>
      BY <1>7
    <3>4. PICK m \in 1..rows[k + 1].tokens : r = <<k + 1, m>> BY <3>3
    <3>5. f[p] = <<i, n>> /\ f[r] = <<k, m>> BY <2>2, <3>2, <3>4
    <3> HIDE DEF f
    <3>6. <<i, n>> = <<k, m>> BY <2>4, <3>5
    <3>7. i = k /\ n = m BY <3>6
    <3> QED BY <3>2, <3>4, <3>7
  <2>5. ASSUME NEW r \in B PROVE \E p \in A : f[p] = r
    <3>1. PICK i \in 1..(Len(rows) - 1) : \E n \in 1..rows[i + 1].tokens : r = <<i, n>>
      BY <1>8
    <3>2. PICK n \in 1..rows[i + 1].tokens : r = <<i, n>> BY <3>1
    <3>3. <<i + 1, n>> \in A /\ f[<<i + 1, n>>] = r BY <2>2, <3>2
    <3> HIDE DEF f
    <3> QED BY <3>3
  <2>6. f \in [A -> B] BY <2>3
  <2> HIDE DEF f
  <2> QED BY <2>4, <2>5, <2>6 DEF Bijection, Injection, Surjection, IsInjective
<1>10. IsFiniteSet(B) /\ Cardinality(B) = Cardinality(A)
  BY <1>6, <1>9, FS_Bijection DEF ExistsBijection
<1> QED BY <1>1, <1>6, <1>10 DEF B

Held(l) == l.dropped + l.open.tokens + Cardinality(TokensOf(l.closed))

\* What is held is countable, and a cycle that is not open holds nothing.
Countable(l) == IsFiniteSet(TokensOf(l.closed)) /\ (~IsOpen(l) => l.open.tokens = 0)

\* The tokens of the oldest row move to the dropped ones, those of the open cycle to the rows.
LEMMA Regroup ==
  ASSUME NEW dropped \in Nat, NEW oldest \in Nat, NEW rest \in Nat, NEW open \in Nat
  PROVE  dropped + oldest + 0 + (rest + open) = dropped + open + (rest + oldest)
OBVIOUS

LEMMA CloseHolds ==
  ASSUME NEW l \in Cycles, Countable(l),
         NEW ended \in Stamp, NEW reset \in Stamp, NEW util \in Level
  PROVE  LET q == CloseCycle(l, ended, reset, util)
         IN  Countable(q) /\ Held(q) = Held(l)
<1> DEFINE q == CloseCycle(l, ended, reset, util)
           row == RowOf(l.open, ended, reset, util)
           last == Len(l.closed)
           n == Cardinality(TokensOf(l.closed))
<1>1. /\ l.open \in Cycle /\ l.closed \in Seq(Row) /\ Len(l.closed) <= MaxRows
      /\ l.dropped \in Nat /\ last \in Nat /\ DOMAIN l.closed = 1..last
  BY LenProperties DEF Cycles
<1>2. row \in Row /\ row.tokens = l.open.tokens /\ l.open.tokens \in Nat
  <2>1. (IF l.open.peak # Unknown /\ util < l.open.peak THEN l.open.peak ELSE util) \in Level
    BY <1>1 DEF Cycle
  <2> QED BY <1>1, <2>1 DEF RowOf, Row, Cycle
<1>3. IsFiniteSet(TokensOf(l.closed)) /\ n \in Nat BY FS_CardinalityType DEF Countable
<1>4. NoOpen.tokens = 0 BY DEF NoOpen
<1> HIDE DEF row
<1>5. CASE ~IsOpen(l)
  <2>1. q = l BY <1>5 DEF CloseCycle
  <2> QED BY <2>1
<1>6. CASE IsOpen(l) /\ SameBoundary(l, ended, reset) /\ l.open.complete /\ ~l.open.disabled
  <2> DEFINE tail == l.closed[last]
             tokens == tail.tokens + l.open.tokens
             folded == [tail EXCEPT !.tokens = tokens,
                                    !.util = IF tail.util = Unknown THEN row.util ELSE tail.util]
             rows == [l.closed EXCEPT ![last] = folded]
  <2>1. last \in DOMAIN l.closed /\ tail \in Row BY <1>1, <1>6 DEF SameBoundary
  <2>2. folded.tokens = tokens
    <3> HIDE DEF tail, tokens
    <3> QED BY <2>1 DEF Row
  <2>3. /\ DOMAIN rows = DOMAIN l.closed /\ rows[last] = folded
        /\ \A i \in DOMAIN l.closed : i # last => rows[i] = l.closed[i]
    <3> HIDE DEF folded
    <3> QED BY <1>1, <2>1
  <2>4. q = [l EXCEPT !.open = NoOpen, !.closed = rows] BY <1>6 DEF CloseCycle, IsOpen, row
  <2>5. rows[last].tokens = l.closed[last].tokens + l.open.tokens BY <2>2, <2>3
  <2> HIDE DEF rows, q
  <2>6. q.open = NoOpen /\ q.closed = rows /\ q.dropped = l.dropped
    BY <2>4 DEF Cycles
  <2>7. /\ IsFiniteSet(TokensOf(rows))
        /\ Cardinality(TokensOf(rows)) = n + l.open.tokens
    <3> HIDE DEF tail, tokens, folded, last
    <3>1. l.closed \in Seq(Row) /\ IsFiniteSet(TokensOf(l.closed)) /\ l.open.tokens \in Nat
      BY <1>1, <1>2, <1>3
    <3> QED BY <2>1, <2>3, <2>5, <3>1, TokensFolded
  <2>8. Countable(q) BY <1>4, <2>6, <2>7 DEF Countable
  <2>9. Held(q) = Held(l)
    <3> HIDE DEF n, last
    <3> SUFFICES Held(q) = l.dropped + l.open.tokens + n
      BY DEF Held, n
    <3> QED BY <1>1, <1>2, <1>3, <1>4, <2>6, <2>7 DEF Held
  <2> QED BY <2>8, <2>9 DEF q
<1>7. CASE IsOpen(l) /\ ~(SameBoundary(l, ended, reset) /\ l.open.complete /\ ~l.open.disabled)
  <2>1. q = Pushed(l, row) BY <1>7 DEF CloseCycle, IsOpen, row
  <2> HIDE DEF q
  <2>2. CASE last < MaxRows
    <3> DEFINE rows == Append(l.closed, row)
    <3>1. q = [l EXCEPT !.open = NoOpen, !.closed = rows] BY <2>1, <2>2 DEF Pushed
    <3>2. IsFiniteSet(TokensOf(rows)) /\ Cardinality(TokensOf(rows)) = n + l.open.tokens
      BY <1>1, <1>2, <1>3, TokensPushed
    <3> HIDE DEF rows, n
    <3>3. q.open = NoOpen /\ q.closed = rows /\ q.dropped = l.dropped BY <3>1 DEF Cycles
    <3>4. Held(q) = Held(l)
      <4> SUFFICES Held(q) = l.dropped + l.open.tokens + n
        BY DEF Held, n
      <4> QED BY <1>1, <1>2, <1>3, <1>4, <3>2, <3>3 DEF Held
    <3> QED BY <1>4, <3>2, <3>3, <3>4 DEF Countable, q
  <2>3. CASE ~(last < MaxRows)
    <3> DEFINE rows == Append(Tail(l.closed), row)
               rest == Cardinality(TokensOf(Tail(l.closed)))
    <3>1. q = [open |-> NoOpen, closed |-> rows, dropped |-> l.dropped + Head(l.closed).tokens]
      BY <2>1, <2>3 DEF Pushed
    <3>2. l.closed # <<>> BY <1>1, <2>3, LedgerAssumption
    <3>3. Tail(l.closed) \in Seq(Row) /\ Head(l.closed) \in Row
      BY <1>1, <3>2, HeadTailProperties
    <3>4. /\ IsFiniteSet(TokensOf(Tail(l.closed))) /\ rest \in Nat
          /\ n = rest + Head(l.closed).tokens
      BY <1>1, <1>3, <3>2, TokensDropped, FS_CardinalityType
    <3>5. IsFiniteSet(TokensOf(rows)) /\ Cardinality(TokensOf(rows)) = rest + row.tokens
      BY <1>2, <3>3, <3>4, TokensPushed
    <3>6. Head(l.closed).tokens \in Nat BY <3>3 DEF Row
    <3> HIDE DEF rows, n, rest
    <3>7. /\ q.open = NoOpen /\ q.closed = rows
          /\ q.dropped = l.dropped + Head(l.closed).tokens
      BY <3>1
    <3>8. Held(q) = Held(l)
      <4> SUFFICES Held(q) = l.dropped + l.open.tokens + n
        BY DEF Held, n
      <4>1. Cardinality(TokensOf(q.closed)) = rest + l.open.tokens BY <1>2, <3>5, <3>7
      <4>2. q.dropped = l.dropped + Head(l.closed).tokens /\ q.open.tokens = 0
        BY <1>4, <3>7
      <4>3. Held(q) = l.dropped + Head(l.closed).tokens + 0 + (rest + l.open.tokens)
        BY <4>1, <4>2 DEF Held
      <4>4. l.dropped \in Nat /\ l.open.tokens \in Nat BY <1>1, <1>2
      <4>5. Held(q) = l.dropped + l.open.tokens + (rest + Head(l.closed).tokens)
        BY <3>4, <3>6, <4>3, <4>4, Regroup
      <4> QED BY <3>4, <4>5
    <3> QED BY <1>4, <3>5, <3>7, <3>8 DEF Countable, q
  <2> QED BY <2>2, <2>3
<1> QED BY <1>5, <1>6, <1>7

\* What does not deliver or close leaves every token where it is.
LEMMA OtherHolds ==
  ASSUME NEW l \in Cycles
  PROVE  /\ \A u \in Level : Observed(l, u).open.tokens = l.open.tokens
         /\ \A d \in 1..2 : Restored(l, d).open.tokens = l.open.tokens
         /\ [l EXCEPT !.open.disabled = TRUE].open.tokens = l.open.tokens
         /\ Accrue(l, 1).open.tokens = IF IsOpen(l) THEN l.open.tokens + 1 ELSE 1
         /\ Accrue(l, 1).dropped = l.dropped
<1>1. l.open \in Cycle BY DEF Cycles
<1>2. \A u \in Level : Observed(l, u).open.tokens = l.open.tokens
  BY <1>1 DEF Observed, Cycles, Cycle
<1>3. \A d \in 1..2 : Restored(l, d).open.tokens = l.open.tokens
  BY <1>1 DEF Restored, Cycles, Cycle
<1>4. [l EXCEPT !.open.disabled = TRUE].open.tokens = l.open.tokens
  BY <1>1 DEF Cycles, Cycle
<1>5. /\ Accrue(l, 1).open.tokens = IF IsOpen(l) THEN l.open.tokens + 1 ELSE 1
      /\ Accrue(l, 1).dropped = l.dropped
  BY <1>1, NoOpenIsACycle DEF Accrue, IsOpen, Cycles, Cycle, NoOpen
<1> QED BY <1>2, <1>3, <1>4, <1>5

LEMMA SameHeld ==
  ASSUME NEW l, NEW m, Countable(l), m.closed = l.closed, m.dropped = l.dropped,
         m.open.start = l.open.start, m.open.tokens = l.open.tokens
  PROVE  Countable(m) /\ Held(m) = Held(l)
  BY DEF Countable, Held, IsOpen

LEMMA NextHeld ==
  ASSUME LedgerInv, Countable(cycles), TokensAccountedFor, [LedgerNext]_lvars
  PROVE  Countable(cycles)' /\ TokensAccountedFor'
<1>0. /\ cycles \in Cycles /\ served = Held(cycles) /\ served \in 0..MaxServed
      /\ vendor \in [util: Level, stamp: Stamp] /\ quota \in [util: Level, stamp: Stamp]
      /\ answer \in [util: Level, stamp: Stamp] /\ now \in 0..MaxTime
  BY DEF LedgerInv, LedgerTypeOK, TokensAccountedFor, Held
<1>1. ASSUME served' = served, Countable(cycles'), Held(cycles') = Held(cycles)
      PROVE  Countable(cycles)' /\ TokensAccountedFor'
  <2>1. Countable(cycles)' BY <1>1 DEF Countable, IsOpen
  <2>2. served' = Held(cycles') BY <1>0, <1>1
  <2> QED BY <2>1, <2>2 DEF TokensAccountedFor, Held
<1>2. CASE Sweep \/ QuotaExpires
  <2>1. cycles' = CloseCycle(cycles, quota.stamp, quota.stamp, quota.util) /\ served' = served
    BY <1>2 DEF Sweep, QuotaExpires
  <2>2. quota.stamp \in Stamp /\ quota.util \in Level BY <1>0
  <2>3. Countable(cycles') /\ Held(cycles') = Held(cycles) BY <1>0, <2>1, <2>2, CloseHolds
  <2> QED BY <1>1, <2>1, <2>3
<1>3. CASE ProbeAnswers
  <2> DEFINE q == WindowAdvances(cycles, quota, answer)
             boundary == IF answer.stamp < now THEN answer.stamp ELSE now
  <2>1. q \in Cycles /\ Countable(q) /\ Held(q) = Held(cycles)
    <3>1. CASE q = cycles BY <1>0, <3>1
    <3>2. CASE q # cycles
      <4>1. answer.stamp # Unknown /\ q = CloseCycle(cycles, boundary, quota.stamp, quota.util)
        BY <3>2 DEF WindowAdvances
      <4>2. boundary \in Stamp /\ quota.stamp \in Stamp /\ quota.util \in Level
        BY <1>0, <4>1, LedgerAssumption DEF Stamp, Unknown
      <4> HIDE DEF boundary, q
      <4> QED BY <1>0, <4>1, <4>2, CloseHolds, CloseShape
    <3> QED BY <3>1, <3>2
  <2>2. cycles' = Observed(q, answer.util) /\ served' = served BY <1>3 DEF ProbeAnswers
  <2> HIDE DEF q
  <2>3. SameSpan(q, cycles') /\ cycles'.open.tokens = q.open.tokens
    BY <1>0, <2>1, <2>2, ObservedCycles, OtherHolds
  <2>4. Countable(cycles') /\ Held(cycles') = Held(cycles)
    BY <2>1, <2>3, SameHeld DEF SameSpan
  <2> QED BY <1>1, <2>2, <2>4
<1>4. CASE Headers
  <2>1. cycles' = Observed(cycles, vendor.util) /\ served' = served BY <1>4 DEF Headers
  <2>2. SameSpan(cycles, cycles') /\ cycles'.open.tokens = cycles.open.tokens
    BY <1>0, <2>1, ObservedCycles, OtherHolds
  <2>3. Countable(cycles') /\ Held(cycles') = Held(cycles)
    BY <2>2, SameHeld DEF SameSpan
  <2> QED BY <1>1, <2>1, <2>3
<1>5. CASE Serve
  <2>1. cycles' = Accrue(cycles, 1) /\ served' = served + 1 BY <1>5 DEF Serve
  <2>2. /\ cycles'.closed = cycles.closed /\ cycles'.dropped = cycles.dropped
        /\ cycles'.open.tokens = cycles.open.tokens + 1
        /\ IsOpen(cycles')
    <3>1. IsOpen(cycles') BY <1>0, <2>1, AccrueCycles DEF IsOpen, SameSpan, Unknown
    <3>2. cycles.open.tokens + 1 = IF IsOpen(cycles) THEN cycles.open.tokens + 1 ELSE 1
      BY DEF Countable
    <3> QED BY <1>0, <2>1, <3>1, <3>2, AccrueCycles, OtherHolds
  <2>3. cycles.open.tokens \in Nat /\ cycles.dropped \in Nat BY <1>0 DEF Cycles, Cycle
  <2>4. Cardinality(TokensOf(cycles.closed)) \in Nat
    BY FS_CardinalityType DEF Countable
  <2>5. Countable(cycles)' BY <2>2 DEF Countable, IsOpen
  <2>6. TokensAccountedFor' BY <2>1, <2>2, <2>3, <2>4 DEF TokensAccountedFor
  <2> QED BY <2>5, <2>6
<1>6. CASE Toggle
  <2>1. /\ served' = served
        /\ cycles' = cycles \/ cycles' = [cycles EXCEPT !.open.disabled = TRUE]
    BY <1>6 DEF Toggle
  <2>2. SameSpan(cycles, cycles') /\ cycles'.open.tokens = cycles.open.tokens
    BY <1>0, <2>1, ToggledCycles, OtherHolds DEF SameSpan
  <2>3. Countable(cycles') /\ Held(cycles') = Held(cycles)
    BY <2>2, SameHeld DEF SameSpan
  <2> QED BY <1>1, <2>1, <2>3
<1>7. ASSUME NEW d \in 1..2, Outage(d) PROVE Countable(cycles)' /\ TokensAccountedFor'
  <2>1. cycles' = Restored(cycles, d) /\ served' = served BY <1>7 DEF Outage
  <2>2. /\ cycles'.closed = cycles.closed /\ cycles'.open.start = cycles.open.start
        /\ cycles'.open.tokens = cycles.open.tokens /\ cycles'.dropped = cycles.dropped
    BY <1>0, <2>1, RestoredCycles, OtherHolds DEF Restored, Cycles
  <2>3. Countable(cycles') /\ Held(cycles') = Held(cycles) BY <2>2, SameHeld
  <2> QED BY <1>1, <2>1, <2>3
<1>8. CASE ProbeSent \/ ProbeTimesOut \/ Minute \/ UNCHANGED lvars
  BY <1>1, <1>8 DEF ProbeSent, ProbeTimesOut, Minute, lvars
<1> QED BY <1>2, <1>3, <1>4, <1>5, <1>6, <1>7, <1>8 DEF LedgerNext

(* No close and no fold loses a token or counts it twice: what was         *)
(* delivered is what the open cycle, the rows and the dropped rows hold.   *)
THEOREM EveryTokenIsHeldOnce == LedgerSpec => []TokensAccountedFor
<1> DEFINE Inv == LedgerInv /\ Countable(cycles) /\ TokensAccountedFor
<1>1. LedgerInit => Inv
  <2> SUFFICES ASSUME LedgerInit PROVE Inv
    OBVIOUS
  <2>1. LedgerInv BY InitOrder DEF OrderInv
  <2>2. /\ cycles.open = NoOpen /\ cycles.closed = <<>> /\ cycles.dropped = 0 /\ served = 0
        /\ NoOpen.tokens = 0
    BY DEF LedgerInit, NoOpen
  <2>3. TokensOf(cycles.closed) = {}
    <3>1. DOMAIN cycles.closed = {} BY <2>2
    <3> QED BY <3>1 DEF TokensOf
  <2>4. IsFiniteSet({}) /\ Cardinality({}) = 0 BY FS_EmptySet
  <2>5. Countable(cycles) BY <2>2, <2>3, <2>4 DEF Countable
  <2>6. TokensAccountedFor
    <3>1. cycles.open.tokens = 0 /\ Cardinality(TokensOf(cycles.closed)) = 0
      BY <2>2, <2>3, <2>4
    <3> QED BY <2>2, <3>1 DEF TokensAccountedFor
  <2> QED BY <2>1, <2>5, <2>6
<1>2. Inv /\ [LedgerNext]_lvars => Inv' BY NextLedger, NextHeld
<1> QED BY <1>1, <1>2, PTL DEF LedgerSpec
=============================================================================
