--------------------------- MODULE CapacityLedger ---------------------------
(***************************************************************************)
(* capacity-ledger.js and the places of account-manager.js that feed it:   *)
(* how the tokens an account delivers are cut into the cycles of one quota *)
(* window.  Three parties close a cycle - the clock (a sweep of the        *)
(* prober), whoever expires the quota (a routed request, the screen), and  *)
(* a probe that sees a new reset stamp - and none knows of the others.     *)
(*                                                                         *)
(* Time is in minutes: five seconds, in which two closes are one boundary, *)
(* are no time, and one minute is the least a window advances by.          *)
(* Fullness is in tenths.                                                  *)
(***************************************************************************)
EXTENDS Integers, Sequences, FiniteSets, SequencesExt

CONSTANTS
    Window,       \* length of the vendor's window: longer than an outage
    MaxTime,      \* bound: the clock
    MaxServed,    \* bound: tokens delivered
    MaxRows,      \* MAX_CYCLES_PER_WINDOW
    MaxOutages    \* bound: restarts

ASSUME LedgerAssumption ==
    /\ Window \in Nat \ 0..1 /\ MaxTime \in Nat /\ MaxServed \in Nat
    /\ MaxRows \in Nat \ {0} /\ MaxOutages \in Nat

VARIABLES
    now,          \* the clock
    vendor,       \* the vendor's fullness and its next reset
    quota,        \* what the account believes of them
    answer,       \* the answer of a probe that is on its way, if any
    asked,        \* when it was sent; it has ten seconds
    cycles,       \* the ledger: the open cycle, the closed ones, and - history -
                  \* the tokens of the rows it has dropped
    account,      \* its type, and whether it is enabled
    served,       \* history: tokens delivered
    outages       \* history: when the process was down

lvars == <<now, vendor, quota, answer, asked, cycles, account, served, outages>>

Unknown == -1
Full == 10
Level == {Unknown} \cup 0..Full
Stamp == {Unknown} \cup 0..(MaxTime + Window)
None == [util |-> Unknown, stamp |-> Unknown]

NoOpen == [start |-> Unknown, tokens |-> 0, complete |-> TRUE, disabled |-> FALSE,
           peak |-> Unknown, refill |-> FALSE]
Cycle == [start: Stamp, tokens: Nat, complete: BOOLEAN, disabled: BOOLEAN,
          peak: Level, refill: BOOLEAN]
Row == [start: Stamp, ended: Stamp, reset: Stamp, tokens: Nat, complete: BOOLEAN,
        disabled: BOOLEAN, util: Level, refill: BOOLEAN]
IsOpen(l) == l.open.start # Unknown

LedgerInit ==
    /\ now = 0
    /\ vendor = [util |-> 0, stamp |-> Window]
    /\ quota = None
    /\ answer = None
    /\ asked = 0
    /\ cycles = [open |-> NoOpen, closed |-> <<>>, dropped |-> 0]
    /\ account \in [type: {"oauth", "provider"}, enabled: {TRUE}]
    /\ served = 0 /\ outages = {}

(***************************************************************************)
(* accrue: the first token opens the cycle                                 *)
(***************************************************************************)
Accrue(l, n) ==
    LET open == IF IsOpen(l) THEN l.open ELSE [NoOpen EXCEPT !.start = now]
    IN  [l EXCEPT !.open = [open EXCEPT !.tokens = @ + n]]

(***************************************************************************)
(* noteUtilizationObserved: fullness only rises within a window, so the    *)
(* cycle keeps its peak; a reading a tenth below it, or more, means the    *)
(* window was refilled under the cycle                                     *)
(***************************************************************************)
Observed(l, u) ==
    IF ~IsOpen(l) \/ u = Unknown \/ u >= Full THEN l
    ELSE IF l.open.peak # Unknown /\ u < l.open.peak
    THEN [l EXCEPT !.open.peak = u, !.open.refill = TRUE]
    ELSE [l EXCEPT !.open.peak = u]

(***************************************************************************)
(* closeCycle: a second close of one boundary is folded into the first     *)
(***************************************************************************)
SameBoundary(l, ended, reset) ==
    /\ l.closed # <<>>
    /\ Last(l.closed).reset = reset /\ Last(l.closed).ended = ended

RowOf(open, ended, reset, util) ==
    [start |-> open.start, ended |-> ended, reset |-> reset, tokens |-> open.tokens,
     complete |-> open.complete, disabled |-> open.disabled, refill |-> open.refill,
     util |-> IF open.peak # Unknown /\ util < open.peak THEN open.peak ELSE util]

\* the cycle is pushed on the rows, and the oldest of a full ledger dropped
Pushed(l, row) ==
    IF Len(l.closed) < MaxRows
    THEN [l EXCEPT !.open = NoOpen, !.closed = Append(@, row)]
    ELSE [open |-> NoOpen, closed |-> Append(Tail(l.closed), row),
          dropped |-> l.dropped + Head(l.closed).tokens]

CloseCycle_NoFold(l, ended, reset, util) ==  \* (mutant: a second close is a row of its own)
    IF ~IsOpen(l) THEN l ELSE Pushed(l, RowOf(l.open, ended, reset, util))
CloseCycle_DropsTail(l, ended, reset, util) ==  \* (mutant: the tail's tokens are not added)
    IF ~IsOpen(l) THEN l
    ELSE IF SameBoundary(l, ended, reset) /\ l.open.complete /\ ~l.open.disabled
    THEN [l EXCEPT !.open = NoOpen]
    ELSE Pushed(l, RowOf(l.open, ended, reset, util))
CloseCycle(l, ended, reset, util) ==
    LET row == RowOf(l.open, ended, reset, util)
        last == Len(l.closed)
        tail == l.closed[last]
        folded == [tail EXCEPT !.tokens = @ + l.open.tokens,
                               !.util = IF @ = Unknown THEN row.util ELSE @]
    IN
    IF ~IsOpen(l) THEN l
    ELSE IF SameBoundary(l, ended, reset) /\ l.open.complete /\ ~l.open.disabled
    THEN [l EXCEPT !.open = NoOpen, !.closed = [@ EXCEPT ![last] = folded]]
    ELSE Pushed(l, row)

(***************************************************************************)
(* The parties that close.  The clock leaves the stamp alone; whoever      *)
(* expires the quota closes first and then forgets it; a probe closes with *)
(* the readings it found, at the earlier of now and the new stamp.         *)
(***************************************************************************)
\* closeExpiredCapacityCycles, at the top of a sweep
Sweep ==
    /\ quota.stamp # Unknown /\ now >= quota.stamp
    /\ cycles' = CloseCycle(cycles, quota.stamp, quota.stamp, quota.util)
    /\ UNCHANGED <<now, vendor, quota, answer, asked, account, served, outages>>

\* _clearExpiredQuotas, which knows the windows of a Claude account
QuotaExpires ==
    /\ account.type = "oauth" /\ quota.util # Unknown
    /\ quota.stamp # Unknown /\ now >= quota.stamp
    /\ cycles' = CloseCycle(cycles, quota.stamp, quota.stamp, quota.util)
    /\ quota' = None
    /\ UNCHANGED <<now, vendor, answer, asked, account, served, outages>>

\* noteCapacityWindowAdvance
WindowAdvances(l, previous, next) ==
    LET boundary == IF next.stamp < now THEN next.stamp ELSE now IN
    IF previous.stamp = Unknown \/ next.stamp = Unknown \/ boundary < previous.stamp + 1
    THEN l
    ELSE CloseCycle(l, boundary, previous.stamp, previous.util)

ProbeSent ==
    /\ answer = None
    /\ answer' = vendor
    /\ asked' = now
    /\ UNCHANGED <<now, vendor, quota, cycles, account, served, outages>>

ProbeTimesOut ==
    /\ answer # None
    /\ answer' = None /\ asked' = 0
    /\ UNCHANGED <<now, vendor, quota, cycles, account, served, outages>>

\* applyUsageData, applyProviderUsage
ProbeAnswers ==
    /\ answer # None
    /\ quota' = answer
    /\ cycles' = Observed(WindowAdvances(cycles, quota, answer), answer.util)
    /\ answer' = None /\ asked' = 0
    /\ UNCHANGED <<now, vendor, account, served, outages>>

(***************************************************************************)
(* A request: the headers of its response overwrite the quota (Claude      *)
(* only), its tokens are counted when it ends                              *)
(***************************************************************************)
\* updateQuota
Headers ==
    /\ account.type = "oauth" /\ served < MaxServed
    /\ quota # vendor
    /\ cycles' = Observed(cycles, vendor.util)
    /\ quota' = vendor
    /\ UNCHANGED <<now, vendor, answer, asked, account, served, outages>>

\* accrueCapacity; the vendor counts it too
Serve ==
    /\ served < MaxServed
    /\ served' = served + 1
    /\ cycles' = Accrue(cycles, 1)
    /\ vendor' = [vendor EXCEPT !.util = IF @ < Full THEN @ + 1 ELSE @]
    /\ UNCHANGED <<now, quota, answer, asked, account, outages>>

(***************************************************************************)
(* setAccountEnabled, and a restart: the ledger comes back from the file,  *)
(* its open cycle marked if the process was away for over a minute         *)
(***************************************************************************)
Toggle ==
    /\ account' = [account EXCEPT !.enabled = ~@]
    /\ cycles' = IF account.enabled /\ IsOpen(cycles)
                 THEN [cycles EXCEPT !.open.disabled = TRUE] ELSE cycles
    /\ UNCHANGED <<now, vendor, quota, answer, asked, served, outages>>

Restored_Unmarked(l, downtime) == l  \* (mutant: the downtime is not noticed)
\* restoreCapacityState
Restored(l, downtime) ==
    IF downtime > 1 /\ IsOpen(l) THEN [l EXCEPT !.open.complete = FALSE] ELSE l

\* the vendor's next reset, when the clock has reached it
At(v, time) == IF time >= v.stamp THEN [util |-> 0, stamp |-> v.stamp + Window] ELSE v

Outage(downtime) ==
    /\ Cardinality(outages) < 2 * MaxOutages /\ now + downtime <= MaxTime
    /\ now' = now + downtime
    /\ vendor' = At(vendor, now + downtime)
    /\ cycles' = Restored(cycles, downtime)
    /\ outages' = IF downtime > 1 THEN outages \cup now..(now + downtime - 1) ELSE outages
    /\ answer' = None /\ asked' = 0
    /\ UNCHANGED <<quota, account, served>>

Minute ==
    /\ now < MaxTime
    /\ answer # None => now = asked
    /\ now' = now + 1
    /\ vendor' = At(vendor, now + 1)
    /\ UNCHANGED <<quota, answer, asked, cycles, account, served, outages>>

LedgerNext ==
    \/ Sweep \/ QuotaExpires \/ ProbeSent \/ ProbeAnswers \/ ProbeTimesOut \/ Headers \/ Serve
    \/ Toggle \/ Minute
    \/ \E downtime \in 1..2 : Outage(downtime)

LedgerSpec == LedgerInit /\ [][LedgerNext]_lvars

(***************************************************************************)
(* Properties                                                              *)
(***************************************************************************)
LedgerTypeOK ==
    /\ now \in 0..MaxTime
    /\ vendor \in [util: Level, stamp: Stamp]
    /\ quota \in [util: Level, stamp: Stamp]
    /\ answer \in [util: Level, stamp: Stamp] /\ asked \in 0..MaxTime
    /\ cycles.open \in Cycle
    /\ cycles.closed \in Seq(Row) /\ Len(cycles.closed) <= MaxRows
    /\ account \in [type: {"oauth", "provider"}, enabled: BOOLEAN]
    /\ cycles.dropped \in Nat /\ served \in 0..MaxServed
    /\ outages \subseteq 0..MaxTime

(* Whoever closes, and however often, the tokens of an account are in one  *)
(* place: the cycles hold what was delivered, no more and no less, but for *)
(* the rows that a full ledger has dropped.  The sum over the rows is the  *)
(* number of their tokens.                                                 *)
TokensOf(rows) == UNION {{i} \X (1..rows[i].tokens) : i \in DOMAIN rows}
TokensAccountedFor ==
    served = cycles.dropped + cycles.open.tokens + Cardinality(TokensOf(cycles.closed))

(* One boundary, one observation: of two rows that count as capacity the   *)
(* earlier has ended when the later starts, none ends in the future, and   *)
(* no two are of the same boundary.                                        *)
RowsAreDistinct ==
    LET rows == cycles.closed IN
    /\ \A i \in DOMAIN rows : rows[i].ended <= now
    /\ IsOpen(cycles) => \A i \in DOMAIN rows : rows[i].ended <= cycles.open.start
    /\ \A i, j \in DOMAIN rows : i < j =>
          /\ rows[i].ended <= rows[j].start
          /\ rows[j].complete /\ ~rows[j].disabled =>
                <<rows[i].ended, rows[i].reset>> # <<rows[j].ended, rows[j].reset>>

(* A cycle that counts as capacity was watched from its first token to its *)
(* end: the process was not away for over a minute in between.             *)
CountedIsWatched ==
    \A i \in DOMAIN cycles.closed :
        LET row == cycles.closed[i] IN
        row.complete => \A t \in outages : ~(row.start <= t /\ t < row.ended)
=============================================================================
