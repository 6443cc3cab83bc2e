------------------------------- MODULE Routing -------------------------------
(* The two questions asked of the fleet for one request: is there an account  *)
(* to serve it (the passes of _selectNext), and, when there is none, how long *)
(* to hold the client (nextRetryForRequest).  They read the same accounts by  *)
(* different code.  A hold that never ends for an account that recovers kills *)
(* a live session; "available" for a request selection refuses spins it.      *)
(*                                                                            *)
(* Utilizations are tenths of a window and the clock is one tick per quarter  *)
(* of a window, so that a rising cap crosses a reading between its ends.      *)
(* refreshExpiredQuotas runs before every question: it is part of Tick.  The  *)
(* score among usable accounts is left out: neither answer depends on it.     *)
EXTENDS Integers, FiniteSets

CONSTANTS
  Subscriptions,   \* accounts with unified windows (Anthropic)
  ApiKeys,         \* provider accounts (z.ai, Kimi)
  Horizon,         \* the last tick
  MaxEvents        \* bound: events other than the passing of time

ASSUME RoutingAssumption ==
  Subscriptions \cap ApiKeys = {} /\ Horizon \in Nat /\ MaxEvents \in Nat

VARIABLES
  fleet,           \* account -> what the manager keeps of it
  instant,
  peak,            \* the peak window of the providers and its cap
  gate,            \* the admission gates every account passes through
  events

fvars == <<fleet, instant, peak, gate, events>>

Fleet == DOMAIN fleet            \* the accounts configured
Span == 4                        \* ticks in a window
SwitchThreshold == 9             \* 0.90: the session bench
Wall == 10                       \* PROVIDER_SES_WALL
Reserve == 8
Critical == 9
Exhausted == 10
Blank == -1                      \* a reading or a stamp that is null
Forever == 1000                  \* retryAfterMs: Infinity
Repoll == 1                      \* BOUNDED_REPOLL_HOLD_MS

Least(S) == CHOOSE x \in S : \A y \in S : x <= y
Greater(x, y) == IF x >= y THEN x ELSE y

FreshAccount ==
  [enabled |-> TRUE, gone |-> FALSE,                       \* gone: subscriptionGone
   status |-> "active", limitedUntil |-> 0, cooldownUntil |-> 0,
   ses |-> Blank, sesReset |-> Blank, wk |-> Blank, wkReset |-> Blank,
   verdict |-> "none", scopedReset |-> 0, full |-> FALSE, cap |-> "none"]

\* What a request carries that routing looks at: a model with a weekly limit of
\* its own, signed thinking, a place in the queue, a transcript Claude rejects.
Kind(m, th, ti, inc) == [model |-> m, thinking |-> th, ticket |-> ti, incompatible |-> inc]

RequestKinds ==
  {Kind(FALSE, FALSE, FALSE, FALSE), Kind(TRUE, TRUE, FALSE, FALSE),
   Kind(TRUE, FALSE, TRUE, FALSE), Kind(FALSE, FALSE, TRUE, TRUE)}

(* ---- Windows that end by themselves -------------------------------------- *)

\* A provider's stamps are only ever replaced by a probe.
ClearExpiredQuotas(f, t) ==
  LET ses == f.ses # Blank /\ f.sesReset # Blank /\ t >= f.sesReset
      wk == f.wk # Blank /\ f.wkReset # Blank /\ t >= f.wkReset
  IN [f EXCEPT !.ses = IF ses THEN Blank ELSE @, !.sesReset = IF ses THEN Blank ELSE @,
               !.wk = IF wk THEN Blank ELSE @, !.wkReset = IF wk THEN Blank ELSE @,
               !.verdict = IF wk THEN "none" ELSE @,
               !.scopedReset = IF t >= @ THEN 0 ELSE @]

Later(a, t) == IF a \in Subscriptions THEN ClearExpiredQuotas(fleet[a], t)
               ELSE [fleet[a] EXCEPT !.scopedReset = IF t >= @ THEN 0 ELSE @]

(* ---- The usage cap, fixed or rising toward the reset ---------------------- *)

CapFloor == 5

EffectiveCap(f, reset, t) ==
  LET elapsed == t - (reset - Span)
      ramp == Greater(0, 2 * elapsed - Span)          \* capRampStart: one half
  IN IF f.cap = "none" THEN Forever
     ELSE IF f.cap = "fixed" \/ reset <= t THEN CapFloor    \* null or past: unknown
     ELSE CapFloor + ((SwitchThreshold - CapFloor) * ramp) \div Span

\* (mutant: the crossing is not computed and the hold lasts until the reset)
CapUnbenchAt_Never(f, used, reset, t) == Blank

\* The first tick at or after the crossing; Blank when the ramp never releases.
CapUnbenchAt(f, used, reset, t) ==
  LET over == (used - CapFloor) * (Span \div 2)
      rise == SwitchThreshold - CapFloor
      at == reset - Span + Span \div 2 + (over + rise - 1) \div rise
  IN IF f.cap # "dynamic" \/ reset <= t \/ used \notin CapFloor .. SwitchThreshold - 1
          \/ at <= t
     THEN Blank ELSE at

Capped(f, used, reset, t) == used # Blank /\ used >= EffectiveCap(f, reset, t)

SessionBenchThreshold(a, f, t) ==
  Least({EffectiveCap(f, f.sesReset, t), IF a \in ApiKeys THEN Wall ELSE SwitchThreshold})

IsSessionQuotaUnavailable(a, f, t) ==
  f.ses # Blank /\ f.ses >= SessionBenchThreshold(a, f, t)

(* ---- The weekly ladder ------------------------------------------------------ *)

IsAccountWideRejected(f) == f.verdict = "rejected" /\ (f.ses >= Exhausted \/ f.wk >= Exhausted)

WeeklyRawState(a, f, t) ==
  LET used == IF a \in ApiKeys /\ f.wk = Blank THEN f.ses ELSE f.wk
      worst == IF a \in ApiKeys THEN Greater(f.ses, f.wk) ELSE f.wk
  IN IF a \in Subscriptions /\ IsAccountWideRejected(f) THEN "exhausted"
     ELSE IF a \in Subscriptions /\ f.wk = Blank THEN "unknown"
     ELSE IF Capped(f, worst, f.wkReset, t) THEN "capped"
     ELSE IF used >= Exhausted /\ (a \in ApiKeys \/ f.verdict # "allowed") THEN "exhausted"
     ELSE IF used >= Critical THEN "critical"
     ELSE IF used >= Reserve THEN "reserve" ELSE "normal"

(* ---- Peak hours ---------------------------------------------------------- *)

InPeak(t) == peak.from <= t /\ t < peak.to

PeakHardBarred(a, t) == a \in ApiKeys /\ InPeak(t) /\ peak.cap = "zero"

(* ---- Selection ------------------------------------------------------------- *)

IsRequestCompatible(a, r) == r.incompatible => a \in ApiKeys

Throttled == instant < gate.throttledUntil       \* _isUpstreamThrottleBlocking

MatchesRequest(a, r) ==
  /\ ~gate.paused
  /\ IsRequestCompatible(a, r)
  /\ a \in Subscriptions => (gate.waiting => r.ticket) /\ ~Throttled

ScopedExhausted(f, r, t) == r.model /\ f.scopedReset > t

IsAvailable(a, f, r, t, allowCritical) ==
  /\ f.enabled /\ ~f.gone
  /\ f.status # "error"
  /\ ~(f.status = "throttled" /\ t < f.limitedUntil)
  /\ t >= f.cooldownUntil
  /\ ~f.full
  /\ ~IsSessionQuotaUnavailable(a, f, t)
  /\ WeeklyRawState(a, f, t) \notin {"exhausted", "capped"}
  /\ WeeklyRawState(a, f, t) = "critical" => allowCritical
  /\ ~ScopedExhausted(f, r, t)
  /\ ~PeakHardBarred(a, t)

\* The accounts the last pass of _selectNext chooses from; the first pass and
\* a binding only narrow the choice.
Routes(r, excluded) ==
  {a \in Fleet \ excluded : MatchesRequest(a, r) /\ IsAvailable(a, fleet[a], r, instant, TRUE)}

(* ---- The retry oracle ---------------------------------------------------- *)

\* An instant, or Blank when the code has no time to offer.
FirstBlocker(f, t, bench) ==
  LET crossing == CapUnbenchAt(f, f.ses, f.sesReset, t)
  IN IF f.status = "throttled" /\ t < f.limitedUntil THEN f.limitedUntil
     ELSE IF t < f.cooldownUntil THEN f.cooldownUntil
     ELSE IF bench /\ crossing # Blank THEN crossing ELSE f.sesReset

\* _shortTermRetry: the first blocker that clears on its own.  It reads no
\* session window of a provider.
ShortTerm(a, f, t) ==
  LET bench == a \in Subscriptions /\ IsSessionQuotaUnavailable(a, f, t)
      held == (f.status = "throttled" /\ t < f.limitedUntil) \/ t < f.cooldownUntil
  IN [blocked |-> held \/ bench, at |-> FirstBlocker(f, t, bench)]

Retry(kind, at) == [kind |-> kind, at |-> at]

\* _retryInfo: "temporary" is queueable, "bounded" holds for one re-poll,
\* "weekly" waits for a weekly reset, "never" contributes nothing.
RetryInfo(a, f, r, t) ==
  LET weekly == WeeklyRawState(a, f, t)
      short == ShortTerm(a, f, t)
      crossing == IF weekly = "capped" THEN CapUnbenchAt(f, f.wk, f.wkReset, t) ELSE Blank
  IN IF ~f.enabled \/ f.status = "error" THEN Retry("never", Blank)
     ELSE IF ScopedExhausted(f, r, t) THEN Retry("weekly", f.scopedReset)
     ELSE IF PeakHardBarred(a, t)
     THEN Retry("temporary",
                Greater(peak.to, Greater(IF short.blocked THEN short.at ELSE 0,
                                         IF weekly = "exhausted" THEN f.wkReset ELSE 0)))
     ELSE IF weekly \in {"exhausted", "capped"}
     THEN Retry("weekly", IF crossing # Blank THEN crossing ELSE f.wkReset)
     ELSE IF short.blocked /\ short.at # Blank THEN Retry("temporary", short.at)
     ELSE IF weekly = "critical" \/ (~short.blocked /\ f.full) THEN Retry("bounded", Blank)
     ELSE Retry("never", Blank)

\* A request with signed thinking that only the queue keeps out is still timed.
FairnessOnlyBlock(a, r) ==
  /\ ~MatchesRequest(a, r)
  /\ r.thinking
  /\ a \in Subscriptions /\ IsRequestCompatible(a, r)
  /\ ~gate.paused /\ ~Throttled
  /\ gate.waiting /\ ~r.ticket

\* (mutant: a request behind the queue is told that an account is available)
SaysAvailable_PastTheQueue(a, r) ==
  /\ MatchesRequest(a, r) \/ FairnessOnlyBlock(a, r)
  /\ IsAvailable(a, fleet[a], r, instant, TRUE)

\* Whether one account makes the oracle answer "available": it passes with the
\* reserve, or it is a critical last resort.  Never from behind the queue.
SaysAvailable(a, r) ==
  /\ MatchesRequest(a, r)
  /\ \/ IsAvailable(a, fleet[a], r, instant, FALSE)
     \/ WeeklyRawState(a, fleet[a], instant) = "critical"
        /\ IsAvailable(a, fleet[a], r, instant, TRUE)

\* The instants one account contributes to the hold.
Recoveries(a, r) ==
  LET retry == RetryInfo(a, fleet[a], r, instant)
      gated == FairnessOnlyBlock(a, r)
  IN IF ~MatchesRequest(a, r) /\ ~gated THEN {}
     ELSE IF (gated /\ IsAvailable(a, fleet[a], r, instant, TRUE)) \/ retry.kind = "bounded"
     THEN {instant + Repoll}
     ELSE IF retry.at > 0 /\ (retry.kind = "temporary" \/ (retry.kind = "weekly" /\ ~gated))
     THEN {retry.at} ELSE {}

\* A provider that can serve now hides the throttle of the upstream.
ThrottleHolds(r, excluded) ==
  Throttled /\ \A a \in (Fleet \cap ApiKeys) \ excluded :
                 ~(MatchesRequest(a, r) /\ IsAvailable(a, fleet[a], [r EXCEPT !.model = FALSE], instant, TRUE))

NextRetry(r, excluded) ==
  LET accounts == Fleet \ excluded
      times == UNION {Recoveries(a, r) : a \in accounts}
  IN IF ThrottleHolds(r, excluded) THEN [available |-> FALSE, at |-> gate.throttledUntil]
     ELSE IF \E a \in accounts : SaysAvailable(a, r) THEN [available |-> TRUE, at |-> instant]
     ELSE [available |-> FALSE, at |-> IF times = {} THEN Forever ELSE Least(times)]

(* ---- What happens to the fleet ------------------------------------------- *)

Note == events < MaxEvents /\ events' = events + 1

RouteInit ==
  /\ \E configured \in {{}, Subscriptions \cup ApiKeys} :
       fleet = [a \in configured |-> FreshAccount]
  /\ instant = 0
  /\ peak = [from |-> 0, to |-> 0, cap |-> "soft"]
  /\ gate = [paused |-> FALSE, waiting |-> FALSE, throttledUntil |-> 0]
  /\ events = 0

ClockTicks ==
  /\ instant < Horizon
  /\ instant' = instant + 1
  /\ fleet' = [a \in Fleet |-> Later(a, instant + 1)]
  /\ UNCHANGED <<peak, gate, events>>

\* updateQuota: a rejection no full window corroborates is a model's own.
HeadersRead(a) ==
  /\ a \in Subscriptions /\ Note
  /\ \E ses \in {3, 6, 10}, wk \in {3, 6, 9, 10}, v \in {"allowed", "rejected"},
        sr \in {Blank, instant + 2}, wr \in {instant + 1, instant + Span} :
       fleet' = [fleet EXCEPT ![a].ses = ses, ![a].wk = wk,
                  ![a].sesReset = IF sr = Blank THEN @ ELSE sr,
                  ![a].wkReset = IF sr = Blank THEN @ ELSE wr,
                  ![a].verdict = IF v = "rejected" /\ ses < Exhausted /\ wk < Exhausted
                                 THEN "allowed" ELSE v]
  /\ UNCHANGED <<instant, peak, gate>>

\* applyProviderUsage: an answer without a weekly window clears it.
UsageProbed(a) ==
  /\ a \in ApiKeys /\ Note
  /\ \E ses \in {3, 6, 10}, wk \in {Blank, 3, 6, 9, 10}, wr \in {instant + 2, instant + Span} :
       fleet' = [fleet EXCEPT ![a].ses = ses, ![a].sesReset = instant + 2, ![a].wk = wk,
                  ![a].wkReset = IF wk = Blank THEN Blank ELSE wr]
  /\ UNCHANGED <<instant, peak, gate>>

RateLimited(a) ==
  /\ Note
  /\ fleet' = [fleet EXCEPT ![a].status = "throttled", ![a].limitedUntil = instant + 1]
  /\ UNCHANGED <<instant, peak, gate>>

CooledDown(a) ==
  /\ Note
  /\ fleet' = [fleet EXCEPT ![a].cooldownUntil = instant + 2]
  /\ UNCHANGED <<instant, peak, gate>>

ModelExhausted(a) ==
  /\ a \in Subscriptions /\ Note
  /\ fleet' = [fleet EXCEPT ![a].scopedReset = instant + 3]
  /\ UNCHANGED <<instant, peak, gate>>

\* A dead credential, a subscription lost or found again, or the owner's switch.
TakenOut(a) ==
  /\ Note
  /\ \/ fleet' = [fleet EXCEPT ![a].status = "error", ![a].limitedUntil = 0,
                               ![a].cooldownUntil = 0]
     \/ fleet' = [fleet EXCEPT ![a].gone = ~@]
     \/ fleet' = [fleet EXCEPT ![a].enabled = ~@]
  /\ UNCHANGED <<instant, peak, gate>>

FillsUp(a) ==
  /\ Note
  /\ fleet' = [fleet EXCEPT ![a].full = ~@]
  /\ UNCHANGED <<instant, peak, gate>>

CapSet(a) ==
  /\ Note
  /\ \E c \in {"none", "fixed", "dynamic"} : fleet' = [fleet EXCEPT ![a].cap = c]
  /\ UNCHANGED <<instant, peak, gate>>

SetPeakSettings ==
  /\ Note
  /\ \E to \in {instant + 1, instant + 2}, c \in {"zero", "soft"} :
       peak' = [from |-> instant, to |-> to, cap |-> c]
  /\ UNCHANGED <<fleet, instant, gate>>

GatesMove ==
  /\ Note
  /\ \/ gate' = [gate EXCEPT !.waiting = ~@]
     \/ gate' = [gate EXCEPT !.throttledUntil = instant + 2]
     \/ gate' = [gate EXCEPT !.paused = ~@]
  /\ UNCHANGED <<fleet, instant, peak>>

RouteNext ==
  \/ ClockTicks
  \/ \E a \in Fleet :
       \/ HeadersRead(a) \/ UsageProbed(a) \/ RateLimited(a) \/ CooledDown(a)
       \/ ModelExhausted(a) \/ TakenOut(a) \/ FillsUp(a) \/ CapSet(a)
  \/ SetPeakSettings
  \/ GatesMove

RouteSpec == RouteInit /\ [][RouteNext]_fvars

(* ---- Properties ------------------------------------------------------------ *)

Exclusions == {{}} \cup {{a} : a \in Fleet}

RouteTypeOK ==
  /\ \A a \in Fleet :
       /\ DOMAIN fleet[a] = DOMAIN FreshAccount
       /\ fleet[a].status \in {"active", "throttled", "error"}
       /\ fleet[a].cap \in {"none", "fixed", "dynamic"}
       /\ {fleet[a].ses, fleet[a].wk} \subseteq Blank .. Exhausted
       /\ {fleet[a].sesReset, fleet[a].wkReset} \subseteq Blank .. Horizon + Span
  /\ instant \in 0 .. Horizon /\ events \in 0 .. MaxEvents

\* The retry oracle never tells a request that an account is available when
\* selection would refuse it every account: the caller asks again at once, and
\* the two would spin.
NoSpin ==
  \A r \in RequestKinds, x \in Exclusions :
    NextRetry(r, x).available => Routes(r, x) # {}

\* The two windows the oracle does not time: the session window of a provider,
\* and a rejection that rests on a full session window alone, which it takes
\* for a weekly one.
Untimed(a) ==
  \/ a \in ApiKeys /\ fleet[a].cap = "dynamic" /\ fleet[a].ses >= CapFloor
  \/ fleet[a].verdict = "rejected" /\ fleet[a].wk < Exhausted

\* An account that will be usable at an instant t with nothing but time.
UsableAt(a, r, t) ==
  /\ ~gate.paused /\ IsRequestCompatible(a, r)
  /\ IsAvailable(a, Later(a, t), r, t, TRUE)

\* A request that is refused now is never told to wait past the instant at
\* which an account it may use comes back by itself.  A thinking request kept
\* out by the queue alone is timed as well, except by a weekly window.
HoldIsNotLate ==
  Throttled \/ \A r \in RequestKinds, x \in Exclusions :
    LET retryAt == NextRetry(r, x).at
        untimed(a) ==
          \/ Untimed(a)
          \/ /\ ~MatchesRequest(a, r)
             /\ \/ ~FairnessOnlyBlock(a, r)
                \/ WeeklyRawState(a, fleet[a], instant) \in {"exhausted", "capped"}
                \/ ScopedExhausted(fleet[a], r, instant)
    IN Routes(r, x) # {} \/ \A a \in Fleet \ x :
         untimed(a) \/ \A t \in instant + 1 .. instant + Span :
                          retryAt <= t \/ ~UsableAt(a, r, t)
=============================================================================
