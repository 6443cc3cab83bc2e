----------------------------- MODULE StateFile -----------------------------
(***************************************************************************)
(* state.json and the capacity ledger it carries, over the workers of a    *)
(* reload: the guarded save of the lease holder (config.js, saveState and  *)
(* index.js, persistQuotaState), the last save of a worker that gives the  *)
(* lease up, and what that worker adds to the file of its successor when   *)
(* it has served its last request (mergeFlushCapacityDelta).               *)
(*                                                                         *)
(* A ledger is the tokens of the open cycle, of the closed ones, and of    *)
(* the day buckets, for one account and one window.  A request delivers    *)
(* one token and advances the clock, so a cycle's startedAt identifies it. *)
(***************************************************************************)
EXTENDS Integers, Sequences

CONSTANTS
    Workers,      \* the workers, in the order they are spawned: 1..Workers
    MaxTokens,    \* bound: tokens delivered
    MaxSaves,     \* bound: periodic saves
    TwoMerge      \* whether workers of two reloads may merge in the same second

ASSUME StateFileAssumption == Workers \in Nat /\ MaxTokens \in Nat /\ MaxSaves \in Nat
                          /\ TwoMerge \in BOOLEAN

VARIABLES
    disk,         \* the file: its generation and its ledger
    clock,        \* tokens delivered so far
    stage,        \* of each worker
    book,         \* CapacityLedger in each worker's memory
    known,        \* stateGeneration, as each worker last saw it
    chain,        \* _stateWriteChain: the saves each worker has queued
    flushed,      \* capacityFlushSnapshot
    handed,       \* history: each worker's ledger when it gave the lease up
    saves         \* periodic saves so far

svars == <<disk, clock, stage, book, known, chain, flushed, handed, saves>>

Worker == 1..Workers
Stages == {"unborn", "headless", "takeover", "primary", "releasing", "drained",
           "merging", "gone"}
NoCycle == 0                                        \* no open cycle
EmptyLedger == [start |-> NoCycle, tokens |-> 0, closed |-> 0, days |-> 0]
Ledger == [start: 0..MaxTokens, tokens: Nat, closed: Nat, days: Nat]

Alive(w) == stage[w] \notin {"unborn", "gone"}
HasLease(w) == stage[w] = "primary"

StateInit ==
    /\ disk = [gen |-> 0, ledger |-> EmptyLedger]
    /\ clock = 0
    /\ stage = [w \in Worker |-> IF w = 1 THEN "primary" ELSE "unborn"]
    /\ book = [w \in Worker |-> EmptyLedger]
    /\ known = [w \in Worker |-> 0]
    /\ chain = [w \in Worker |-> <<>>]
    /\ flushed = [w \in Worker |-> EmptyLedger]
    /\ handed = flushed
    /\ saves = 0

(***************************************************************************)
(* The ledger: a cycle opens with the first token, and closes when its     *)
(* window rolls over                                                       *)
(***************************************************************************)
Accrued(l, now) ==
    [l EXCEPT !.start = IF @ = NoCycle THEN now ELSE @, !.tokens = @ + 1, !.days = @ + 1]

Closed(l) == [l EXCEPT !.start = NoCycle, !.tokens = 0, !.closed = @ + l.tokens]

PositiveOr0(n) == IF n > 0 THEN n ELSE 0

(* mergeDelta: what was accrued after the snapshot, onto the cycle it      *)
(* belongs to if the base still has that one open, and onto the days       *)
MergeDelta_AnyCycle(base, before, after) ==  \* (mutant: the cycle is not compared)
    LET delta == IF before.start = after.start THEN after.tokens - before.tokens
                                               ELSE after.tokens
    IN [base EXCEPT !.tokens = IF base.start # NoCycle /\ after.start # NoCycle
                               THEN @ + PositiveOr0(delta) ELSE @,
                    !.days = @ + PositiveOr0(after.days - before.days)]
MergeDelta(base, before, after) ==
    LET delta == IF before.start = after.start THEN after.tokens - before.tokens
                                               ELSE after.tokens
    IN [base EXCEPT !.tokens = IF base.start # NoCycle /\ base.start = after.start
                               THEN @ + PositiveOr0(delta) ELSE @,
                    !.days = @ + PositiveOr0(after.days - before.days)]

Deliver(w) ==
    /\ Alive(w) /\ stage[w] \notin {"headless", "takeover"} /\ clock < MaxTokens
    /\ clock' = clock + 1
    /\ book' = [book EXCEPT ![w] = Accrued(@, clock + 1)]
    /\ UNCHANGED <<disk, stage, known, chain, flushed, handed, saves>>

\* the clock, a routed request or a new reset stamp: whatever notices first
RollOver(w) ==
    /\ Alive(w) /\ stage[w] \notin {"headless", "takeover"} /\ book[w].start # NoCycle
    /\ book' = [book EXCEPT ![w] = Closed(@)]
    /\ UNCHANGED <<disk, clock, stage, known, chain, flushed, handed, saves>>

(***************************************************************************)
(* A save is a job of the worker's chain: first it reads the generation on *)
(* disk, and is refused if that is newer than the one expected, then it    *)
(* writes the next.  The final save expects none.                          *)
(***************************************************************************)
Unread == -1
AnyGen == -1
SaveJob(l, expected) == [ledger |-> l, expected |-> expected, seen |-> Unread]

PeriodicSave(w) ==
    /\ HasLease(w) /\ saves < MaxSaves
    /\ saves' = saves + 1
    /\ chain' = [chain EXCEPT ![w] = Append(@, SaveJob(book[w], known[w]))]
    /\ UNCHANGED <<disk, clock, stage, book, known, flushed, handed>>

SaveReads(w) ==
    /\ Alive(w) /\ chain[w] # <<>>
    /\ LET job == Head(chain[w]) IN
        /\ job.seen = Unread
        /\ chain' = [chain EXCEPT ![w] =
             IF job.expected # AnyGen /\ disk.gen > job.expected
             THEN Tail(@)                            \* refused
             ELSE <<[job EXCEPT !.seen = disk.gen]>> \o Tail(@)]
    /\ UNCHANGED <<disk, clock, stage, book, known, flushed, handed, saves>>

SaveWrites(w) ==
    /\ Alive(w) /\ chain[w] # <<>>
    /\ LET job == Head(chain[w]) IN
        /\ job.seen # Unread
        /\ disk' = [gen |-> job.seen + 1, ledger |-> job.ledger]
        /\ known' = [known EXCEPT ![w] = job.seen + 1]
    /\ chain' = [chain EXCEPT ![w] = Tail(@)]
    /\ UNCHANGED <<clock, stage, book, flushed, handed, saves>>

(***************************************************************************)
(* The lease changes hands                                                 *)
(***************************************************************************)
\* the worker that writes, or is about to stop; the one that will
Holder == {w \in Worker : stage[w] \in {"primary", "releasing"}}
Successor == {w \in Worker : stage[w] \in {"headless", "takeover"}}

\* a reload worker reads the file while its predecessor serves, a cold one
\* when there is nobody; the supervisor has one of them at a time
Spawns(w) ==
    /\ stage[w] = "unborn" /\ \A v \in 1..(w - 1) : stage[v] # "unborn"
    /\ Successor = {} /\ \A v \in Holder : stage[v] = "primary"
    /\ stage' = [stage EXCEPT ![w] = IF Holder = {} THEN "takeover" ELSE "headless"]
    /\ book' = [book EXCEPT ![w] = disk.ledger]
    /\ known' = [known EXCEPT ![w] = disk.gen]
    /\ UNCHANGED <<disk, clock, chain, flushed, handed, saves>>

\* releaseBatonAndDrain: the lease goes, then the state is saved a last time
\* (mutant: the last save is guarded like the others, and refused without the lease)
Releases_Unforced(w) ==
    /\ stage[w] = "primary" /\ Successor # {}
    /\ stage' = [stage EXCEPT ![w] = "releasing"]
    /\ handed' = [handed EXCEPT ![w] = book[w]]
    /\ UNCHANGED <<disk, clock, book, known, chain, flushed, saves>>
Releases(w) ==
    /\ stage[w] = "primary" /\ Successor # {}
    /\ stage' = [stage EXCEPT ![w] = "releasing"]
    /\ chain' = [chain EXCEPT ![w] = Append(@, SaveJob(book[w], AnyGen))]
    /\ handed' = [handed EXCEPT ![w] = book[w]]
    /\ UNCHANGED <<disk, clock, book, known, flushed, saves>>

\* the saves have settled: the snapshot, and MSG_RELEASED
Released(w) ==
    /\ stage[w] = "releasing" /\ chain[w] = <<>>
    /\ stage' = [stage EXCEPT ![w] = "drained"]
    /\ flushed' = [flushed EXCEPT ![w] = book[w]]
    /\ UNCHANGED <<disk, clock, book, known, chain, handed, saves>>

TakeOver(w) ==
    /\ stage[w] = "headless" /\ Holder = {}
    /\ stage' = [stage EXCEPT ![w] = "takeover"]
    /\ UNCHANGED <<disk, clock, book, known, chain, flushed, handed, saves>>

\* acquireLease
AcquireLease_KeepsGeneration(w) ==  \* (mutant: the generation is the one of the boot)
    /\ stage[w] = "takeover"
    /\ stage' = [stage EXCEPT ![w] = "primary"]
    /\ UNCHANGED <<disk, clock, book, known, chain, flushed, handed, saves>>
AcquireLease(w) ==
    /\ stage[w] = "takeover"
    /\ known' = [known EXCEPT ![w] = disk.gen]
    /\ stage' = [stage EXCEPT ![w] = "primary"]
    /\ UNCHANGED <<disk, clock, book, chain, flushed, handed, saves>>

(***************************************************************************)
(* The released worker has served its last request: it reads the file, and *)
(* writes it back at the same generation with its own tokens added.  It    *)
(* gives itself a second for that.                                         *)
(***************************************************************************)
MergeReads(w) ==
    /\ stage[w] = "drained"
    /\ TwoMerge \/ \A v \in Worker : stage[v] # "merging"
    /\ stage' = [stage EXCEPT ![w] = "merging"]
    /\ chain' = [chain EXCEPT ![w] =
         <<[ledger |-> MergeDelta(disk.ledger, flushed[w], book[w]),
            expected |-> AnyGen, seen |-> disk.gen]>>]
    /\ UNCHANGED <<disk, clock, book, known, flushed, handed, saves>>

\* the process ends, and its memory with it
Leaves(w) ==
    /\ stage' = [stage EXCEPT ![w] = "gone"]
    /\ chain' = [chain EXCEPT ![w] = <<>>]
    /\ known' = [known EXCEPT ![w] = 0]
    /\ book' = [book EXCEPT ![w] = EmptyLedger]
    /\ flushed' = [flushed EXCEPT ![w] = EmptyLedger]
    /\ handed' = [handed EXCEPT ![w] = EmptyLedger]

\* saveStateUnbumped, and exit
MergeWrites(w) ==
    /\ stage[w] = "merging"
    /\ disk' = [gen |-> Head(chain[w]).seen, ledger |-> Head(chain[w]).ledger]
    /\ Leaves(w)
    /\ UNCHANGED <<clock, saves>>

\* a crash, a kill, the time allowed for the merge
Stops(w) ==
    /\ Alive(w)
    /\ Leaves(w)
    /\ UNCHANGED <<disk, clock, saves>>

StateNext ==
    \E w \in Worker :
        \/ Deliver(w) \/ RollOver(w) \/ PeriodicSave(w)
        \/ (SaveReads(w) /\ stage[w] # "merging")
        \/ (SaveWrites(w) /\ stage[w] # "merging")
        \/ Spawns(w) \/ Releases(w) \/ Released(w) \/ TakeOver(w) \/ AcquireLease(w)
        \/ MergeReads(w) \/ MergeWrites(w) \/ Stops(w)

StateSpec == StateInit /\ [][StateNext]_svars

(***************************************************************************)
(* Properties                                                              *)
(***************************************************************************)
Job == [ledger: Ledger, expected: {AnyGen} \cup Nat, seen: {Unread} \cup Nat]

StateTypeOK ==
    /\ disk \in [gen: Nat, ledger: Ledger]
    /\ clock \in 0..MaxTokens
    /\ stage \in [Worker -> Stages]
    /\ book \in [Worker -> Ledger]
    /\ flushed \in [Worker -> Ledger] /\ handed \in [Worker -> Ledger]
    /\ known \in [Worker -> Nat]
    /\ chain \in [Worker -> Seq(Job)]
    /\ saves \in 0..MaxSaves

(* The ledger on disk and the one of every worker never hold more than was *)
(* delivered: not in the open cycle since it started, not in all, not in   *)
(* the days; whatever was loaded, merged and rewritten by two workers.     *)
NeverOvercounted ==
    \A l \in {disk.ledger} \cup {book[w] : w \in Worker} :
        /\ l.start # NoCycle => l.tokens <= clock - l.start + 1
        /\ l.closed + l.tokens <= clock
        /\ l.days <= clock

(* The save of the worker that holds the lease is never refused: the       *)
(* generation it expects is not behind the one on disk.  A worker that     *)
(* keeps the one it booted with, or a merge that advances the file, would  *)
(* have every save refused for the rest of its tenure.                     *)
HolderCanSave ==
    \A w \in Worker : HasLease(w) /\ chain[w] = <<>> => disk.gen <= known[w]

(* When a worker says RELEASED, what it had counted when it gave the lease *)
(* up is on disk, until a successor writes; unless a worker released       *)
(* before it has put back a file that it read earlier.                     *)
ReleasedIsSaved ==
    \A w \in Worker :
        /\ stage[w] = "drained"
        /\ \A v \in Worker : v > w => stage[v] \in {"unborn", "headless"}
        /\ disk.gen = known[w]
        => chain[w] = <<>> /\ disk.ledger.days >= handed[w].days
=============================================================================
