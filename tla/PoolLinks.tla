------------------------------ MODULE PoolLinks ------------------------------
(***************************************************************************)
(* pool-link.js and the pool section of account-manager.js: a team pool    *)
(* and this pool hold copies of the same logins.  A login has one writer,  *)
(* so the local copy of what a linked pool holds is benched - not routed,  *)
(* not refreshed - and what the linked pool offers is mirrored as a row of *)
(* this pool.  What a link said last is kept in the state file, for a boot *)
(* during an outage of the link.                                           *)
(*                                                                         *)
(* A login stands for its identity - the uuid of an account, the           *)
(* fingerprint of a key - and for the name of its row.  Time is in days,   *)
(* of which only the age of a seed is told apart.                          *)
(***************************************************************************)
EXTENDS Naturals, FiniteSetsExt

CONSTANTS
    NumLinks,     \* the linked pools, in the order of the config file
    Logins,       \* each has a local copy
    SeedTtl,      \* BOOT_IDS_TTL_MS
    MaxDays,      \* bound: the clock
    MaxChanges    \* bound: changes made to the linked pools

ASSUME PoolAssumption ==
    /\ NumLinks \in Nat \ {0} /\ SeedTtl \in Nat
    /\ MaxDays \in Nat \ {0} /\ MaxChanges \in Nat

VARIABLES
    remote,       \* the logins each linked pool offers
    link,         \* the PoolLink of each
    benched,      \* the local copies with poolBenchedBy set
    mirror,       \* the mirror row of each login: its link, 0 for none, and enabled
    saved,        \* poolIdentities in state.json, and poolIdentitiesAt
    heard,        \* history: what each link said last, when, and whether it was saved
    day,          \* the clock
    changes       \* changes made to the linked pools

pvars == <<remote, link, benched, mirror, saved, heard, day, changes>>

Links == 1..NumLinks
Never == 0        \* the clock starts at 1

\* identities, the rows of status, lastOkAt, _seedAt, lastError
PoolLink == [ids: SUBSET Logins, rows: SUBSET Logins, okAt: 0..MaxDays,
             seedAt: 0..MaxDays, error: BOOLEAN]
FreshLink == [ids |-> {}, rows |-> {}, okAt |-> Never, seedAt |-> Never, error |-> FALSE]
Unheard == [ids |-> {}, at |-> Never, saved |-> FALSE]

PoolInit ==
    /\ remote \in [Links -> SUBSET Logins]
    /\ link = [l \in Links |-> FreshLink]
    /\ benched = {}
    /\ mirror = [x \in Logins |-> [pool |-> 0, enabled |-> FALSE]]
    /\ saved = [ids |-> [l \in Links |-> {}], at |-> Never]
    /\ heard = [l \in Links |-> Unheard]
    /\ day = 1
    /\ changes = 0

(***************************************************************************)
(* applyPoolLinks.  The rows of a link that is down, or that was never     *)
(* heard, count for nothing: its mirrors are put out of routing, in place. *)
(* Its identities still count: what it was last known to hold is benched.  *)
(***************************************************************************)
Rows_OfDownLink(lk) == lk.rows  \* (mutant: a link that is down keeps its mirrors)
Rows(lk) == IF lk.error \/ lk.okAt = Never THEN {} ELSE lk.rows

\* syncRemoteMirrors of every link, in order: a row that is listed is taken over
\* and revived, one that its own link lists no more is disabled
SyncRemoteMirrors(m, links) ==
    [x \in Logins |->
        LET listing == {l \in Links : x \in Rows(links[l])} IN
        IF listing # {} THEN [pool |-> Max(listing), enabled |-> TRUE]
        ELSE [m[x] EXCEPT !.enabled = FALSE]]

ApplyPoolLinks(links) ==
    /\ link' = links
    /\ mirror' = SyncRemoteMirrors(mirror, links)
    /\ benched' = UNION {links[l].ids : l \in Links}

(***************************************************************************)
(* poll: every thirty seconds; a failure keeps the identities              *)
(***************************************************************************)
PollSucceeds(l) ==
    /\ ApplyPoolLinks([link EXCEPT ![l] = [ids |-> remote[l], rows |-> remote[l], okAt |-> day,
                                           seedAt |-> @.seedAt, error |-> FALSE]])
    /\ heard' = [heard EXCEPT ![l] = [ids |-> remote[l], at |-> day, saved |-> FALSE]]
    /\ UNCHANGED <<remote, saved, day, changes>>

Failed_Forgets(lk) == [lk EXCEPT !.error = TRUE, !.ids = {}]  \* (mutant: a failure clears what was heard)
Failed(lk) == [lk EXCEPT !.error = TRUE]

PollFails(l) ==
    /\ ApplyPoolLinks([link EXCEPT ![l] = Failed(@)])
    /\ UNCHANGED <<remote, saved, heard, day, changes>>

(***************************************************************************)
(* The state file: written every minute; a link's own age is not kept, the *)
(* latest of them stands for all                                           *)
(***************************************************************************)
\* the day a link's identities were confirmed
ConfirmedAt(lk) == IF lk.okAt # Never THEN lk.okAt ELSE lk.seedAt

PersistQuotaState ==
    /\ saved' = [ids |-> [l \in Links |-> link[l].ids],
                 at |-> Max({ConfirmedAt(link[l]) : l \in Links})]
    /\ heard' = [l \in Links |-> [heard[l] EXCEPT !.saved = TRUE]]
    /\ UNCHANGED <<remote, link, benched, mirror, day, changes>>

\* seedPoolIdentities
Seeded(lk, ids, at) ==
    IF day - at > SeedTtl \/ lk.ids # {} \/ ids = {} THEN lk
    ELSE [lk EXCEPT !.ids = ids, !.seedAt = at]

\* the process stops and boots: setPoolLinks and seedPoolLinks in one tick, before
\* the first poll is answered.  What was heard since the last flush is lost.
Boot ==
    /\ link' = [l \in Links |-> Seeded(FreshLink, saved.ids[l], saved.at)]
    /\ mirror' = [x \in Logins |-> [pool |-> 0, enabled |-> FALSE]]
    /\ benched' = UNION {link'[l].ids : l \in Links}
    /\ heard' = [l \in Links |-> IF heard[l].saved THEN heard[l] ELSE Unheard]
    /\ UNCHANGED <<remote, saved, day, changes>>

(***************************************************************************)
(* The linked pools, and time                                              *)
(***************************************************************************)
RemoteChanges(l, x) ==
    /\ changes < MaxChanges
    /\ changes' = changes + 1
    /\ remote' = [remote EXCEPT ![l] = IF x \in @ THEN @ \ {x} ELSE @ \cup {x}]
    /\ UNCHANGED <<link, benched, mirror, saved, heard, day>>

Day ==
    /\ day < MaxDays
    /\ day' = day + 1
    /\ UNCHANGED <<remote, link, benched, mirror, saved, heard, changes>>

PoolNext ==
    \/ PersistQuotaState \/ Boot \/ Day
    \/ \E l \in Links : PollSucceeds(l) \/ PollFails(l)
    \/ \E l \in Links, x \in Logins : RemoteChanges(l, x)

PoolSpec == PoolInit /\ [][PoolNext]_pvars

(***************************************************************************)
(* Properties                                                              *)
(***************************************************************************)
PoolTypeOK ==
    /\ remote \in [Links -> SUBSET Logins]
    /\ link \in [Links -> PoolLink]
    /\ benched \subseteq Logins
    /\ mirror \in [Logins -> [pool: 0..NumLinks, enabled: BOOLEAN]]
    /\ saved \in [ids: [Links -> SUBSET Logins], at: 0..MaxDays]
    /\ heard \in [Links -> [ids: SUBSET Logins, at: 0..MaxDays, saved: BOOLEAN]]
    /\ day \in 1..MaxDays /\ changes \in 0..MaxChanges

(* A login has one writer: while a linked pool is known to hold it - by    *)
(* its last good answer, however many polls have failed since, or by the   *)
(* state file after a boot, for as long as a seed is good - the local copy *)
(* is neither routed nor refreshed.                                        *)
SingleWriter ==
    \A l \in Links :
        day - heard[l].at <= SeedTtl => heard[l].ids \subseteq benched

(* The mirror of a login is routed only to a pool that listed it in its    *)
(* last answer, and that answer was good; and a local copy is not benched  *)
(* for a pool that answers without the pool's own row taking its place.    *)
MirrorTakesOver ==
    \A x \in Logins :
        LET listing == {l \in Links : ~link[l].error /\ link[l].okAt # Never /\ x \in heard[l].ids}
        IN /\ mirror[x].enabled <=> listing # {}
           /\ mirror[x].enabled => mirror[x].pool \in listing
=============================================================================
