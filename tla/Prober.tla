------------------------------- MODULE Prober -------------------------------
(***************************************************************************)
(* prober.js with reset-policy.js, zai-reset-cards.js, outside-usage.js    *)
(* and claude-reset-grants.js: the background sweep that reads the quota   *)
(* of every account and, on the way, spends reset cards and grants and     *)
(* rotates tokens.  Every step of a sweep is a network call; between two   *)
(* of them the owner may bench the account, a link may, and the writer     *)
(* lease may be given away.                                                *)
(*                                                                         *)
(* at[a] names the call account a waits for.  One tick of the clock is the *)
(* first backoff of a card, fifteen minutes.  The fullness of a week is    *)
(* one of three levels, which is what the policy tells apart.  How long    *)
(* the pause between two logins is, and how it adapts, is left out.        *)
(***************************************************************************)
EXTENDS Naturals

CONSTANTS
    Providers,    \* the z.ai accounts
    Subscribed,   \* the Claude accounts: they share one rate-limited endpoint
    MaxTicks      \* bound: the clock

ASSUME ProberAssumption == MaxTicks \in Nat /\ Providers \cap Subscribed = {}

VARIABLES
    at,           \* the call each account waits for
    acct,         \* enabled, poolBenchedBy, the week, and outsideUsage.outside
    leak,         \* history: the last reading that compared an hour saw outside use
    card,         \* _cardTries and _cardRetryUntil of each provider's card
    sweep,        \* the state of the prober
    tick

bvars == <<at, acct, leak, card, sweep, tick>>

Accounts == Providers \cup Subscribed

Levels == {"low", "some", "wall"}   \* below 30 %, below 90 %, above
ProbeCalls == {"idle", "done", "usage", "outside", "subs", "cards", "redeem", "again", "relist",
          "grants", "claim", "fresh", "probe", "force", "reprobe"}

ProberInit ==
    /\ at = [a \in Accounts |-> "idle"]
    /\ acct = [a \in Accounts |-> [enabled |-> TRUE, benched |-> FALSE, week |-> "low",
                                   outside |-> FALSE]]
    /\ leak = [p \in Providers |-> FALSE]
    /\ card = [p \in Providers |-> [tries |-> 0, until |-> 0]]
    /\ sweep = [running |-> FALSE, timer |-> TRUE, stopping |-> FALSE, sleeping |-> FALSE,
                stop |-> "no"]
    /\ tick = 0

Goes(a, call) == at' = [at EXCEPT ![a] = call]

\* the owner gate: an account that is benched, by whomever, is not acted for
Mine(a) == acct[a].enabled /\ ~acct[a].benched

(***************************************************************************)
(* start, probeAll, _paceUsage and stop                                    *)
(***************************************************************************)
\* the timer of reschedule; an overlapping sweep is skipped
ProbeAll ==
    /\ sweep.timer /\ ~sweep.running
    /\ sweep' = [sweep EXCEPT !.running = TRUE, !.stopping = FALSE]
    /\ at' = [a \in Accounts |-> IF a \in Providers THEN "usage" ELSE "idle"]
    /\ UNCHANGED <<acct, leak, card, tick>>

\* the logins are probed one at a time, after the gap
NoLoginOut == \A a \in Subscribed : at[a] \in {"idle", "done"}

Pace ==
    /\ sweep.running /\ ~sweep.stopping /\ ~sweep.sleeping
    /\ NoLoginOut /\ \E a \in Subscribed : at[a] = "idle"
    /\ sweep' = [sweep EXCEPT !.sleeping = TRUE]
    /\ UNCHANGED <<at, acct, leak, card, tick>>

\* probeOne: the grants of an account that is the owner's own are listed first
ProbeOne(a) ==
    /\ sweep.sleeping /\ at[a] = "idle"
    /\ sweep' = [sweep EXCEPT !.sleeping = FALSE]
    /\ Goes(a, IF Mine(a) THEN "grants" ELSE "fresh")
    /\ UNCHANGED <<acct, leak, card, tick>>

\* the sweep is over when every login is, or none may start, and every provider is
SweepEnds ==
    /\ sweep.running /\ NoLoginOut /\ ~sweep.sleeping
    /\ sweep.stopping \/ \A a \in Subscribed : at[a] = "done"
    /\ \A p \in Providers : at[p] = "done"
    /\ sweep' = [sweep EXCEPT !.running = FALSE]
    /\ at' = [a \in Accounts |-> "idle"]
    /\ UNCHANGED <<acct, leak, card, tick>>

\* stop: no timer, no sleep, and then the sweep in flight is awaited
Stop ==
    /\ sweep.stop = "no"
    /\ sweep' = [sweep EXCEPT !.stopping = TRUE, !.timer = FALSE, !.sleeping = FALSE,
                              !.stop = "waiting"]
    /\ UNCHANGED <<at, acct, leak, card, tick>>

Settled_Unawaited == TRUE  \* (mutant: the sweep in flight is not awaited)
Settled == ~sweep.running

StopReturns ==
    /\ sweep.stop = "waiting" /\ Settled
    /\ sweep' = [sweep EXCEPT !.stop = "returned"]
    /\ UNCHANGED <<at, acct, leak, card, tick>>

(***************************************************************************)
(* probeProvider and _checkOutsideUsage.  A call that times out answers    *)
(* nothing, and what it does upstream it may still do.                     *)
(***************************************************************************)
\* where a provider goes on to its cards, or not
ToCards(p) == IF Mine(p) THEN {"subs", "cards"} ELSE {"done"}

ProviderUsage(p) ==
    /\ at[p] = "usage"
    /\ \/ /\ Goes(p, "done")                                       \* no answer
          /\ UNCHANGED acct
       \/ \E level \in Levels :
            /\ acct' = [acct EXCEPT ![p].week = level]
            /\ \E call \in ToCards(p) \cup (IF Mine(p) THEN {"outside"} ELSE {}) : Goes(p, call)
    /\ UNCHANGED <<leak, card, sweep, tick>>

\* compareOutsideUsage: with no complete hour to compare it says "not outside"
Readings == {"failed", "no hour", "clean", "outside"}

Flagged_Downgrades(flag, reading) == reading = "outside"  \* (mutant: a failed read clears it)
Flagged(flag, reading) == IF reading = "failed" THEN flag ELSE reading = "outside"

OutsideUsage(p) ==
    /\ at[p] = "outside"
    /\ \E reading \in Readings :
        /\ acct' = [acct EXCEPT ![p].outside = Flagged(@, reading)]
        /\ leak' = [leak EXCEPT ![p] = IF reading = "failed" THEN @ ELSE reading = "outside"]
    /\ \E call \in ToCards(p) : Goes(p, call)
    /\ UNCHANGED <<card, sweep, tick>>

Subscription(p) ==
    /\ at[p] = "subs"
    /\ Goes(p, "cards")
    /\ UNCHANGED <<acct, leak, card, sweep, tick>>

(***************************************************************************)
(* decideZai, with a weekly card at hand: at the wall, unless the free     *)
(* refill is near and the week below 98 % (held); or the card is dying and *)
(* the week worth a refill.  Never for an account disabled or leaking.     *)
(***************************************************************************)
DecideZai(p, dying, held) ==
    /\ acct[p].enabled
    /\ ~acct[p].outside
    /\ IF dying THEN acct[p].week # "low" ELSE acct[p].week = "wall" /\ ~held

\* the listing is answered; a card that failed of late is left alone
Cards(p) ==
    /\ at[p] = "cards"
    /\ \E listed, dying, held \in BOOLEAN :
        Goes(p, IF listed /\ DecideZai(p, dying, held) /\ tick >= card[p].until
                THEN "redeem" ELSE "done")
    /\ UNCHANGED <<acct, leak, card, sweep, tick>>

Pow2(n) == CASE n = 0 -> 1 [] n = 1 -> 2 [] n = 2 -> 4 [] n = 3 -> 8
             [] n = 4 -> 16 [] OTHER -> 24
\* fifteen minutes, doubled at each failure, at most six hours
FailedRedeem(c) == [tries |-> c.tries + 1, until |-> tick + Pow2(c.tries)]

RedeemSucceeds(p) ==
    /\ at[p] \in {"redeem", "again"}
    /\ card' = [card EXCEPT ![p] = [tries |-> 0, until |-> 0]]
    /\ Goes(p, "relist")
    /\ UNCHANGED <<acct, leak, sweep, tick>>

\* "unavailable" of a listing that names no grantType is tried again at once
RedeemFails(p) ==
    /\ at[p] \in {"redeem", "again"}
    /\ \/ /\ at[p] = "redeem"
          /\ Goes(p, "again")
          /\ UNCHANGED card
       \/ /\ card' = [card EXCEPT ![p] = FailedRedeem(@)]
          /\ Goes(p, "done")
    /\ UNCHANGED <<acct, leak, sweep, tick>>

Relisted(p) ==
    /\ at[p] = "relist"
    /\ Goes(p, "done")
    /\ UNCHANGED <<acct, leak, card, sweep, tick>>

(***************************************************************************)
(* probeOne: the grants, the token, the quota; a token that is refused is  *)
(* rotated by force, for an account that is enabled                        *)
(***************************************************************************)
\* decideClaude, with a usable weekly grant at hand
DecideClaude(a, dying, requiresLimit) ==
    /\ acct[a].enabled
    /\ acct[a].week = "wall" \/ (dying /\ ~requiresLimit /\ acct[a].week # "low")

Grants(a) ==
    /\ at[a] = "grants"
    /\ \E listed, dying, requiresLimit \in BOOLEAN :
        Goes(a, IF listed /\ DecideClaude(a, dying, requiresLimit) THEN "claim" ELSE "fresh")
    /\ UNCHANGED <<acct, leak, card, sweep, tick>>

\* _claimClaudeGrant, and ensureTokenFresh of a token that is about to expire
Onward(a) ==
    /\ \/ at[a] = "claim" /\ Goes(a, "fresh")
       \/ at[a] = "fresh" /\ Goes(a, "probe")
       \/ at[a] = "force" /\ Goes(a, "reprobe")
    /\ UNCHANGED <<acct, leak, card, sweep, tick>>

\* fetchUsage: an answer, or a 429, a timeout, another error
Usage(a) ==
    /\ at[a] \in {"probe", "reprobe"}
    /\ Goes(a, "done")
    /\ \/ \E level \in Levels : acct' = [acct EXCEPT ![a].week = level]
       \/ UNCHANGED acct
    /\ UNCHANGED <<leak, card, sweep, tick>>

Rejected(a) ==
    /\ at[a] = "probe"
    /\ Goes(a, IF acct[a].enabled THEN "force" ELSE "done")
    /\ UNCHANGED <<acct, leak, card, sweep, tick>>

(***************************************************************************)
(* The owner, the links, the clock, and a restart of the process, which    *)
(* keeps the flag but neither the backoff nor the hours it was read from   *)
(***************************************************************************)
SetAccountEnabled(a) ==
    /\ acct' = [acct EXCEPT ![a].enabled = ~@]
    /\ UNCHANGED <<at, leak, card, sweep, tick>>

Bench(a) ==
    /\ acct' = [acct EXCEPT ![a].benched = ~@]
    /\ UNCHANGED <<at, leak, card, sweep, tick>>

Tick ==
    /\ tick < MaxTicks
    /\ tick' = tick + 1
    /\ UNCHANGED <<at, acct, leak, card, sweep>>

Reboot ==
    /\ at' = [a \in Accounts |-> "idle"]
    /\ leak' = [p \in Providers |-> FALSE]
    /\ card' = [p \in Providers |-> [tries |-> 0, until |-> 0]]
    /\ sweep' = [running |-> FALSE, timer |-> TRUE, stopping |-> FALSE, sleeping |-> FALSE,
                 stop |-> "no"]
    /\ UNCHANGED <<acct, tick>>

Answer(a) ==
    \/ a \in Providers /\ (\/ ProviderUsage(a) \/ OutsideUsage(a) \/ Subscription(a) \/ Cards(a)
                           \/ RedeemSucceeds(a) \/ RedeemFails(a) \/ Relisted(a))
    \/ a \in Subscribed /\ (Grants(a) \/ Onward(a) \/ Usage(a) \/ Rejected(a))

ProberNext ==
    \/ ProbeAll \/ Pace \/ SweepEnds \/ Stop \/ StopReturns \/ Tick \/ Reboot
    \/ \E a \in Subscribed : ProbeOne(a)
    \/ \E a \in Accounts : Answer(a) \/ SetAccountEnabled(a) \/ Bench(a)

ProberSpec == ProberInit /\ [][ProberNext]_bvars

(***************************************************************************)
(* Properties                                                              *)
(***************************************************************************)
ProberTypeOK ==
    /\ at \in [Accounts -> ProbeCalls]
    /\ acct \in [Accounts -> [enabled: BOOLEAN, benched: BOOLEAN, week: Levels,
                              outside: BOOLEAN]]
    /\ leak \in [Providers -> BOOLEAN]
    /\ card \in [Providers -> [tries: Nat, until: Nat]]
    /\ sweep \in [running: BOOLEAN, timer: BOOLEAN, stopping: BOOLEAN, sleeping: BOOLEAN,
                  stop: {"no", "waiting", "returned"}]
    /\ tick \in 0..MaxTicks

(* Whatever the owner did while the listing was awaited, nothing is spent  *)
(* for an account that is disabled: no card, no grant, no forced rotation  *)
(* of its token; and no card for a key that somebody else was seen to use. *)
ActsForTheOwner ==
    [][\A a \in Accounts :
        at[a] # at'[a] /\ at'[a] \in {"redeem", "claim", "force"} =>
            /\ acct[a].enabled
            /\ a \in Providers => ~leak[a]]_bvars

(* When stop() has returned - the lease is about to be handed over - no    *)
(* call of a sweep is out and none will start: no token is rotated and no  *)
(* card is spent by two workers.                                           *)
StopIsFinal ==
    sweep.stop = "returned" =>
        /\ ~sweep.timer /\ ~sweep.sleeping
        /\ \A a \in Accounts : at[a] \in {"idle", "done"}
=============================================================================
