-------------------------- MODULE AdmissionControl --------------------------
(***************************************************************************)
(* The shared state of one AccountManager (account-manager.js) that every  *)
(* request competes for: the leases and benches of the accounts, the       *)
(* breaker over all the Claude accounts, and the wait queue.  A manager is *)
(* one record, an operation a function of it, and Forwarding calls them in *)
(* the order forwardRequest of server.js does.                             *)
(*                                                                         *)
(* Times are what is left of them in ticks, 0 for "passed".  A queued body *)
(* counts one byte.  Scores, sessions' accounts and quotas only choose     *)
(* among the available accounts: see Selection.                            *)
(***************************************************************************)
EXTENDS Integers, Sequences, FiniteSets, SequencesExt

CONSTANTS
  Request,     \* the client requests
  Claude,      \* accounts that reach Anthropic from here
  Provider,    \* accounts of type 'provider' (GLM, Kimi)
  Mirror,      \* accounts with .remote: rows of a linked pool
  MaxActive,   \* safetyMaxActivePerAccount
  Bench,       \* ticks of every cooldown and of a throttle window
  MaxFailed,   \* MAX_FAILED_PROBES
  MaxQueued,   \* maxConcurrentQueued
  MaxBytes     \* maxQueuedBytes

ASSUME AdmissionAssumption ==
  /\ MaxActive \in Nat \ {0} /\ Bench \in Nat \ {0} /\ MaxFailed \in Nat \ {0}
  /\ MaxQueued \in Nat /\ MaxBytes \in Nat
  /\ IsFiniteSet(Request)

Account == Claude \cup Provider \cup Mirror
Never   == -1     \* upstreamThrottle.until = null

Manager ==
  [busy    : [Account -> 0..Cardinality(Request)],  \* inFlight
   cool    : [Account -> 0..Bench],     \* rateLimitedUntil, cooldownUntil
   prov    : [Account -> 0..Bench],     \* provisionalUpstreamUntil
   dead    : SUBSET Account,            \* status 'error'
   amb     : SUBSET Account,            \* ambiguousRateLimits, one fingerprint
   until   : Never..Bench,              \* upstreamThrottle.until
   probing : BOOLEAN,                   \* upstreamThrottle.probeInFlight
   failed  : 0..MaxFailed,              \* upstreamThrottle.failedProbes
   waiting : Seq(Request),              \* queueState.waiting
   bytes   : 0..Cardinality(Request),   \* queueState.bytes
   ramp    : BOOLEAN,                   \* now < queueState.rampUntil
   recent  : BOOLEAN]                   \* in a ramp: admitted 250 ms ago

FreshManager ==
  [busy |-> [a \in Account |-> 0], cool |-> [a \in Account |-> 0],
   prov |-> [a \in Account |-> 0], dead |-> {}, amb |-> {}, until |-> Never,
   probing |-> FALSE, failed |-> 0, waiting |-> <<>>, bytes |-> 0,
   ramp |-> FALSE, recent |-> FALSE]

\* (mutant: the counter may go below zero)
Less_NoFloor(n) == n - 1

Less(n)    == IF n > 0 THEN n - 1 ELSE n
Larger(m, n) == IF m > n THEN m ELSE n

(* A tick of the clock.  A window of the breaker that has passed stays    *)
(* half-open, at 0, until a probe clears it.                              *)
Elapse(m) ==
  [m EXCEPT !.cool = [a \in Account |-> Less(@[a])],
            !.prov = [a \in Account |-> Less(@[a])],
            !.until = Less(@), !.amb = {}, !.ramp = FALSE, !.recent = FALSE]

----------------------------------------------------------------------------
(* The breaker *)

Throttled(m) == [m EXCEPT !.until = Larger(@, Bench), !.probing = FALSE,
                          !.failed = 0]

Cleared(m) ==
  IF m.until = Never /\ ~m.probing THEN m
  ELSE [m EXCEPT !.until = Never, !.probing = FALSE, !.failed = 0,
                 !.ramp = TRUE, !.recent = TRUE]

Relinquished(m) == [m EXCEPT !.probing = FALSE]

Deferred(m) ==
  IF m.until = Never /\ ~m.probing THEN m
  ELSE IF m.failed + 1 >= MaxFailed THEN Cleared(m)
  ELSE [m EXCEPT !.failed = @ + 1, !.until = Bench, !.probing = FALSE]

Blocking(m) == m.until > 0 \/ (m.until = 0 /\ m.probing)
MayProbe(m) == m.until = 0 /\ ~m.probing

(* An ambiguous 429: the second account with the same one blames the      *)
(* upstream, and the benches of both are lifted.                          *)
Absolved(m) == [m EXCEPT !.cool = [a \in Account |-> IF a \in m.amb THEN 0
                                                     ELSE @[a]],
                         !.amb = {}]

----------------------------------------------------------------------------
(* Leases *)

Available(m, a) ==
  a \notin m.dead /\ m.cool[a] = 0 /\ m.prov[a] = 0 /\ m.busy[a] < MaxActive

Claims(m, a) == a \in Claude /\ MayProbe(m)

Acquired(m, a) == [m EXCEPT !.busy[a] = @ + 1,
                            !.probing = @ \/ Claims(m, a)]

(* releaseAccount: a lease that carries the probe settles the breaker by   *)
(* its outcome, "ok", "throttled" (upstreamThrottled) or "failed".         *)
Released(m, a, probe, outcome) ==
  LET n == [m EXCEPT !.busy[a] = Less(@)] IN
  CASE probe /\ outcome = "ok"     -> Cleared(n)
    [] probe /\ outcome = "failed" -> Deferred(n)
    [] OTHER                       -> n

Cooled(m, a)      == [m EXCEPT !.cool[a] = Bench]
Killed(m, a)      == [m EXCEPT !.dead = @ \cup {a}]
Suspected(m, a)   == [m EXCEPT !.prov[a] = Bench]
Unsuspected(m, s) == [m EXCEPT !.prov = [a \in Account |-> IF a \in s THEN 0
                                                           ELSE @[a]]]

----------------------------------------------------------------------------
(* The wait queue.  late is the set of requests past their deadline.       *)

Fewer(n, k) == Larger(n - k, 0)

(* The elements of s that are in S, in their order: SelectSeq, given by    *)
(* the places that stay, so that it can be reasoned about.                 *)
Places(s, S)  == {i \in DOMAIN s : s[i] \in S}
Rank(p, i)    == Cardinality({j \in p : j <= i})
Kept(s, S) ==
  LET p == Places(s, S) IN
  [n \in 1..Cardinality(p) |-> s[CHOOSE i \in p : Rank(p, i) = n]]

StaleHeads(m, late) ==
  CHOOSE k \in 0..Len(m.waiting) :
    /\ \A j \in 1..k : m.waiting[j] \in late
    /\ k < Len(m.waiting) => m.waiting[k + 1] \notin late

\* (mutant: a stale head keeps its bytes)
Reaped_KeepsBytes(m, late) ==
  [m EXCEPT !.waiting = SubSeq(@, StaleHeads(m, late) + 1, Len(@))]

Reaped(m, late) ==
  LET k == StaleHeads(m, late) IN
  [m EXCEPT !.waiting = SubSeq(@, k + 1, Len(@)), !.bytes = Fewer(@, k)]

Dropped(m, gone) ==
  [m EXCEPT !.waiting = Kept(@, Request \ gone),
            !.bytes = Fewer(@, Cardinality(gone \cap ToSet(m.waiting)))]

Full(m) == \/ Len(m.waiting) >= MaxQueued
           \/ m.waiting # <<>> /\ m.bytes + 1 > MaxBytes

Queued(m, r) == [m EXCEPT !.waiting = Append(@, r), !.bytes = @ + 1]

(* canAdmitQueuedRequest of a request that has a ticket: at the head, or   *)
(* after HEAD_SKIP_MS wherever it stands, and one per 250 ms in a ramp.    *)
Admissible(m, r, waitedLong) ==
  /\ waitedLong \/ (m.waiting # <<>> /\ Head(m.waiting) = r)
  /\ ~(m.ramp /\ m.recent)

\* (mutant: the head leaves the queue whoever is admitted)
Admitted_Head(m, r) ==
  [m EXCEPT !.waiting = IF @ = <<>> THEN @ ELSE Tail(@), !.bytes = Fewer(@, 1),
            !.recent = m.ramp]

Admitted(m, r) ==
  [m EXCEPT !.waiting = Kept(@, Request \ {r}), !.bytes = Fewer(@, 1),
            !.recent = m.ramp]
=============================================================================
