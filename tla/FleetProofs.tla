----------------------------- MODULE FleetProofs -----------------------------
(***************************************************************************)
(* What the accounts of a pool answer for any of them: SingleWriter and    *)
(* MirrorTakesOver for any number of linked pools, any logins, any life of *)
(* a seed and any clock; NoSpin and HoldIsNotLate for any set of accounts, *)
(* any request, any set of excluded accounts and any clock.  NoSpin needs  *)
(* nothing of the state but that the oracle and selection read the same.   *)
(***************************************************************************)
EXTENDS PoolLinks, Routing, FiniteSetTheorems, TLAPS

(* ---- The linked pools ---------------------------------------------------- *)

\* A finite set of integers has a maximum, and Max is it: of the sets of what
\* lies above an element one is the least.
LEMMA MaxOfFinite ==
  ASSUME NEW S, IsFiniteSet(S), S \subseteq Int, S # {}
  PROVE  Max(S) \in S /\ \A y \in S : y <= Max(S)
<1> DEFINE Above(x) == {y \in S : y > x}
           T == {Above(x) : x \in S}
           R == StrictSubsetOrdering(S)
<1>1. T \subseteq FiniteSubsetsOf(S) /\ T # {}
  <2>1. \A x \in S : Above(x) \in SUBSET S /\ IsFiniteSet(Above(x)) BY FS_Subset
  <2> HIDE DEF Above
  <2> QED BY <2>1 DEF FiniteSubsetsOf
<1>2. PICK U \in T : \A V \in T : ~(<<V, U>> \in R)
  <2> HIDE DEF T, R
  <2>1. IsWellFoundedOn(R, FiniteSubsetsOf(S)) BY FS_StrictSubsetOrderingWellFounded DEF R
  <2> QED BY <1>1, <2>1, WFMin
<1>3. PICK m \in S : U = Above(m) OBVIOUS
<1>4. ASSUME NEW y \in S, y > m PROVE FALSE
  <2>1. Above(y) \subseteq Above(m)
    <3>1. \A z \in S : z > y => z > m BY <1>4
    <3> QED BY <3>1
  <2>2. y \in Above(m) /\ y \notin Above(y) BY <1>4
  <2>3. <<Above(y), Above(m)>> \in R BY <2>1, <2>2 DEF StrictSubsetOrdering
  <2> QED BY <1>2, <1>3, <1>4, <2>3
<1>5. \A y \in S : m >= y BY <1>4
<1>6. \E x \in S : \A y \in S : x >= y BY <1>5
<1> QED BY <1>6 DEF Max

\* What a link was last heard to hold is fresh for as long as its seed would be.
Fresh(l) == day - heard[l].at <= SeedTtl

(***************************************************************************)
(* SingleWriter is not inductive: it has to survive a boot, so that what   *)
(* was heard must be in the state file if it was saved, confirmed there no *)
(* earlier than it was heard - and hence in the link, with a confirmation  *)
(* that the next flush writes down.                                        *)
(***************************************************************************)
BenchCoversLinks == benched = UNION {link[l].ids : l \in Links}

LinkRemembers ==
    \A l \in Links : Fresh(l) /\ heard[l].ids # {} =>
        /\ heard[l].ids \subseteq link[l].ids
        /\ heard[l].at <= ConfirmedAt(link[l])

FileRemembers ==
    \A l \in Links : Fresh(l) /\ heard[l].ids # {} /\ heard[l].saved =>
        /\ heard[l].ids \subseteq saved.ids[l]
        /\ heard[l].at <= saved.at

PoolInv == PoolTypeOK /\ BenchCoversLinks /\ LinkRemembers /\ FileRemembers

LEMMA LinksFinite == IsFiniteSet(Links) /\ 1 \in Links
  BY PoolAssumption, FS_Interval DEF Links

\* The flush writes the latest confirmation of all links.
LEMMA SavedAtCovers ==
  ASSUME PoolTypeOK
  PROVE  LET at == Max({ConfirmedAt(link[l]) : l \in Links})
         IN  at \in 0..MaxDays /\ \A l \in Links : ConfirmedAt(link[l]) <= at
<1> DEFINE S == {ConfirmedAt(link[l]) : l \in Links}
<1>1. \A l \in Links : ConfirmedAt(link[l]) \in 0..MaxDays
  BY DEF PoolTypeOK, PoolLink, ConfirmedAt
<1>2. S \subseteq 0..MaxDays /\ S # {} BY <1>1, LinksFinite
<1>3. IsFiniteSet(S)
  <2>1. IsFiniteSet(0..MaxDays) BY PoolAssumption, FS_Interval
  <2> QED BY <1>2, <2>1, FS_Subset
<1>4. Max(S) \in S /\ \A y \in S : y <= Max(S)
  <2>1. 0..MaxDays \subseteq Int BY PoolAssumption
  <2>2. S \subseteq Int BY <1>2, <2>1
  <2> HIDE DEF S
  <2> QED BY <1>2, <1>3, <2>2, MaxOfFinite
<1>5. \A l \in Links : ConfirmedAt(link[l]) \in S OBVIOUS
<1> HIDE DEF S
<1>6. Max(S) \in 0..MaxDays /\ \A l \in Links : ConfirmedAt(link[l]) <= Max(S)
  BY <1>2, <1>4, <1>5
<1> QED BY <1>6 DEF S

\* The rows that a link counts for are logins, and the last of the links that
\* list a login is one of them.
LEMMA LastListing ==
  ASSUME NEW links \in [Links -> PoolLink], NEW x \in Logins,
         {l \in Links : x \in Rows(links[l])} # {}
  PROVE  Max({l \in Links : x \in Rows(links[l])}) \in {l \in Links : x \in Rows(links[l])}
<1> DEFINE S == {l \in Links : x \in Rows(links[l])}
<1>1. S \subseteq Links OBVIOUS
<1> HIDE DEF S
<1>2. IsFiniteSet(S) BY <1>1, LinksFinite, FS_Subset
<1>3. S \subseteq Int BY <1>1, PoolAssumption DEF Links
<1>4. S # {} => Max(S) \in S BY <1>2, <1>3, MaxOfFinite
<1> QED BY <1>4 DEF S

\* A failure keeps everything of a link but its error.
LEMMA FailedLink ==
  ASSUME NEW lk \in PoolLink
  PROVE  /\ Failed(lk) \in PoolLink /\ Failed(lk).error
         /\ Failed(lk).ids = lk.ids /\ Failed(lk).okAt = lk.okAt
         /\ Failed(lk).seedAt = lk.seedAt
  BY DEF Failed, PoolLink

\* A seeded link has the saved identities if they are not too old, and none if
\* they are.
LEMMA SeededLink ==
  ASSUME PoolTypeOK, NEW l \in Links
  PROVE  LET lk == Seeded(FreshLink, saved.ids[l], saved.at)
         IN  /\ lk \in PoolLink /\ lk.okAt = Never
             /\ day - saved.at <= SeedTtl /\ saved.ids[l] # {}
                  => lk.ids = saved.ids[l] /\ lk.seedAt = saved.at
<1>1. FreshLink \in PoolLink BY PoolAssumption DEF FreshLink, PoolLink, Never
<1>2. saved.ids[l] \subseteq Logins /\ saved.at \in 0..MaxDays BY DEF PoolTypeOK
<1> DEFINE new == [FreshLink EXCEPT !.ids = saved.ids[l], !.seedAt = saved.at]
<1>3. /\ new \in PoolLink /\ new.okAt = Never
      /\ new.ids = saved.ids[l] /\ new.seedAt = saved.at
  <2>1. FreshLink.okAt = Never BY DEF FreshLink
  <2> QED BY <1>1, <1>2, <2>1 DEF PoolLink
<1>4. CASE day - saved.at > SeedTtl \/ saved.ids[l] = {}
  <2>1. Seeded(FreshLink, saved.ids[l], saved.at) = FreshLink BY <1>4 DEF Seeded
  <2>2. ~(day - saved.at <= SeedTtl /\ saved.ids[l] # {})
    BY <1>2, <1>4, PoolAssumption DEF PoolTypeOK
  <2> QED BY <1>1, <2>1, <2>2 DEF FreshLink
<1>5. CASE ~(day - saved.at > SeedTtl \/ saved.ids[l] = {})
  <2>1. FreshLink.ids = {} BY DEF FreshLink
  <2>2. Seeded(FreshLink, saved.ids[l], saved.at) = new BY <1>5, <2>1 DEF Seeded
  <2> HIDE DEF new
  <2> QED BY <1>3, <2>2
<1> QED BY <1>4, <1>5

LEMMA MirrorTypes ==
  ASSUME PoolTypeOK, NEW links \in [Links -> PoolLink]
  PROVE  SyncRemoteMirrors(mirror, links) \in [Logins -> [pool: 0..NumLinks, enabled: BOOLEAN]]
<1> SUFFICES ASSUME NEW x \in Logins
             PROVE  SyncRemoteMirrors(mirror, links)[x] \in [pool: 0..NumLinks, enabled: BOOLEAN]
  BY DEF SyncRemoteMirrors
<1> DEFINE S == {l \in Links : x \in Rows(links[l])}
<1>1. CASE S # {}
  <2>1. Max(S) \in S BY <1>1, LastListing
  <2>2. Max(S) \in 0..NumLinks BY <2>1, PoolAssumption DEF Links
  <2>3. SyncRemoteMirrors(mirror, links)[x] = [pool |-> Max(S), enabled |-> TRUE]
    BY <1>1 DEF SyncRemoteMirrors
  <2> QED BY <2>2, <2>3
<1>2. CASE S = {}
  <2>1. SyncRemoteMirrors(mirror, links)[x] = [mirror[x] EXCEPT !.enabled = FALSE]
    BY <1>2 DEF SyncRemoteMirrors
  <2> QED BY <2>1 DEF PoolTypeOK
<1> QED BY <1>1, <1>2

\* applyPoolLinks keeps the types, and benches what the links hold.
LEMMA ApplyTypes ==
  ASSUME PoolTypeOK, NEW links \in [Links -> PoolLink], ApplyPoolLinks(links)
  PROVE  /\ link' \in [Links -> PoolLink]
         /\ mirror' \in [Logins -> [pool: 0..NumLinks, enabled: BOOLEAN]]
         /\ benched' \subseteq Logins
         /\ BenchCoversLinks'
  BY MirrorTypes DEF ApplyPoolLinks, BenchCoversLinks, PoolLink

LEMMA InitPool == PoolInit => PoolInv
<1> SUFFICES ASSUME PoolInit PROVE PoolInv
  OBVIOUS
<1>1. FreshLink \in PoolLink BY PoolAssumption DEF FreshLink, PoolLink, Never
<1>2. PoolTypeOK
  BY <1>1, PoolAssumption DEF PoolInit, PoolTypeOK, Unheard, Never
<1>3. BenchCoversLinks BY DEF PoolInit, BenchCoversLinks, FreshLink
<1>4. LinkRemembers /\ FileRemembers
  BY DEF PoolInit, LinkRemembers, FileRemembers, Unheard
<1> QED BY <1>2, <1>3, <1>4 DEF PoolInv

LEMMA PollSucceedsKeeps ==
  ASSUME PoolInv, NEW l \in Links, PollSucceeds(l)
  PROVE  PoolInv'
<1> DEFINE new == [ids |-> remote[l], rows |-> remote[l], okAt |-> day,
                   seedAt |-> link[l].seedAt, error |-> FALSE]
           links == [link EXCEPT ![l] = new]
<1>1. PoolTypeOK BY DEF PoolInv
<1>2. links \in [Links -> PoolLink] BY <1>1, PoolAssumption DEF PoolTypeOK, PoolLink
<1>3. ApplyPoolLinks(links) /\ link' = links BY DEF PollSucceeds, ApplyPoolLinks
<1>4. heard' = [heard EXCEPT ![l] = [ids |-> remote[l], at |-> day, saved |-> FALSE]]
  BY DEF PollSucceeds
<1>5. UNCHANGED <<remote, saved, day, changes>> BY DEF PollSucceeds
<1>6. PoolTypeOK'
  <2>1. heard' \in [Links -> [ids: SUBSET Logins, at: 0..MaxDays, saved: BOOLEAN]]
    BY <1>1, <1>4, PoolAssumption DEF PoolTypeOK
  <2> QED BY <1>1, <1>2, <1>3, <1>5, <2>1, ApplyTypes DEF PoolTypeOK
<1>7. BenchCoversLinks' BY <1>1, <1>2, <1>3, ApplyTypes
<1>8. LinkRemembers'
  <2> SUFFICES ASSUME NEW k \in Links, Fresh(k)', heard'[k].ids # {}
               PROVE  /\ heard'[k].ids \subseteq link'[k].ids
                      /\ heard'[k].at <= ConfirmedAt(link'[k])
    BY DEF LinkRemembers
  <2>1. CASE k = l
    <3>1. link'[k] = new /\ heard'[k] = [ids |-> remote[l], at |-> day, saved |-> FALSE]
      BY <1>1, <1>3, <1>4, <2>1 DEF PoolTypeOK
    <3>2. day # Never /\ day <= day BY <1>1 DEF PoolTypeOK, Never
    <3> QED BY <3>1, <3>2 DEF ConfirmedAt
  <2>2. CASE k # l
    <3>1. link'[k] = link[k] /\ heard'[k] = heard[k]
      BY <1>1, <1>3, <1>4, <2>2 DEF PoolTypeOK
    <3> QED BY <1>5, <3>1 DEF PoolInv, LinkRemembers, Fresh
  <2> QED BY <2>1, <2>2
<1>9. FileRemembers'
  <2> SUFFICES ASSUME NEW k \in Links, Fresh(k)', heard'[k].ids # {}, heard'[k].saved
               PROVE  /\ heard'[k].ids \subseteq saved'.ids[k]
                      /\ heard'[k].at <= saved'.at
    BY DEF FileRemembers
  <2>1. k # l BY <1>1, <1>4 DEF PoolTypeOK
  <2>2. heard'[k] = heard[k] BY <1>1, <1>4, <2>1 DEF PoolTypeOK
  <2> QED BY <1>5, <2>2 DEF PoolInv, FileRemembers, Fresh
<1> QED BY <1>6, <1>7, <1>8, <1>9 DEF PoolInv

LEMMA PollFailsKeeps ==
  ASSUME PoolInv, NEW l \in Links, PollFails(l)
  PROVE  PoolInv'
<1> DEFINE links == [link EXCEPT ![l] = Failed(@)]
<1>1. PoolTypeOK BY DEF PoolInv
<1>2. links \in [Links -> PoolLink] BY <1>1, FailedLink DEF PoolTypeOK
<1>3. ApplyPoolLinks(links) /\ link' = links /\ UNCHANGED <<remote, saved, heard, day, changes>>
  BY DEF PollFails, ApplyPoolLinks
<1>4. \A k \in Links : link'[k].ids = link[k].ids /\ ConfirmedAt(link'[k]) = ConfirmedAt(link[k])
  BY <1>1, <1>3, FailedLink DEF PoolTypeOK, ConfirmedAt
<1>5. PoolTypeOK' BY <1>1, <1>2, <1>3, ApplyTypes DEF PoolTypeOK
<1>6. BenchCoversLinks' BY <1>1, <1>2, <1>3, ApplyTypes
<1>7. LinkRemembers' BY <1>3, <1>4 DEF PoolInv, LinkRemembers, Fresh
<1>8. FileRemembers' BY <1>3 DEF PoolInv, FileRemembers, Fresh
<1> QED BY <1>5, <1>6, <1>7, <1>8 DEF PoolInv

LEMMA FlushKeeps ==
  ASSUME PoolInv, PersistQuotaState
  PROVE  PoolInv'
<1> DEFINE at == Max({ConfirmedAt(link[l]) : l \in Links})
<1>1. PoolTypeOK BY DEF PoolInv
<1>2. at \in 0..MaxDays /\ \A l \in Links : ConfirmedAt(link[l]) <= at
  BY <1>1, SavedAtCovers
<1> HIDE DEF at
<1>3. /\ saved' = [ids |-> [l \in Links |-> link[l].ids], at |-> at]
      /\ heard' = [l \in Links |-> [heard[l] EXCEPT !.saved = TRUE]]
      /\ UNCHANGED <<remote, link, benched, mirror, day, changes>>
  BY DEF PersistQuotaState, at
<1>4. \A l \in Links : heard'[l].ids = heard[l].ids /\ heard'[l].at = heard[l].at
  BY <1>1, <1>3 DEF PoolTypeOK
<1>5. PoolTypeOK'
  <2>1. saved' \in [ids: [Links -> SUBSET Logins], at: 0..MaxDays]
    BY <1>1, <1>2, <1>3 DEF PoolTypeOK, PoolLink
  <2>2. heard' \in [Links -> [ids: SUBSET Logins, at: 0..MaxDays, saved: BOOLEAN]]
    BY <1>1, <1>3 DEF PoolTypeOK
  <2> QED BY <1>1, <1>3, <2>1, <2>2 DEF PoolTypeOK
<1>6. BenchCoversLinks' BY <1>3 DEF PoolInv, BenchCoversLinks
<1>7. LinkRemembers' BY <1>3, <1>4 DEF PoolInv, LinkRemembers, Fresh
<1>8. FileRemembers'
  <2> SUFFICES ASSUME NEW k \in Links, Fresh(k)', heard'[k].ids # {}
               PROVE  /\ heard'[k].ids \subseteq saved'.ids[k]
                      /\ heard'[k].at <= saved'.at
    BY DEF FileRemembers
  <2>1. heard[k].ids \subseteq link[k].ids /\ heard[k].at <= ConfirmedAt(link[k])
    BY <1>3, <1>4 DEF PoolInv, LinkRemembers, Fresh
  <2>2. /\ heard[k].at \in Int /\ ConfirmedAt(link[k]) \in Int /\ at \in Int
        /\ ConfirmedAt(link[k]) <= at
    BY <1>1, <1>2 DEF PoolTypeOK, PoolLink, ConfirmedAt
  <2>3. heard[k].at <= at BY <2>1, <2>2
  <2>4. saved'.ids[k] = link[k].ids /\ saved'.at = at BY <1>3
  <2> QED BY <1>4, <2>1, <2>3, <2>4
<1> QED BY <1>5, <1>6, <1>7, <1>8 DEF PoolInv

LEMMA BootKeeps ==
  ASSUME PoolInv, Boot
  PROVE  PoolInv'
<1>1. PoolTypeOK BY DEF PoolInv
<1>2. \A l \in Links : link'[l] = Seeded(FreshLink, saved.ids[l], saved.at)
  BY DEF Boot
<1>3. /\ heard' = [l \in Links |-> IF heard[l].saved THEN heard[l] ELSE Unheard]
      /\ UNCHANGED <<remote, saved, day, changes>>
  BY DEF Boot
<1>4. PoolTypeOK'
  <2>1. \A l \in Links : Seeded(FreshLink, saved.ids[l], saved.at) \in PoolLink
    BY <1>1, SeededLink
  <2>2. link' \in [Links -> PoolLink] BY <2>1 DEF Boot
  <2>3. benched' \subseteq Logins BY <2>2 DEF Boot, PoolLink
  <2>4. heard' \in [Links -> [ids: SUBSET Logins, at: 0..MaxDays, saved: BOOLEAN]]
    BY <1>1, <1>3, PoolAssumption DEF PoolTypeOK, Unheard, Never
  <2>5. mirror' \in [Logins -> [pool: 0..NumLinks, enabled: BOOLEAN]]
    BY PoolAssumption DEF Boot
  <2> QED BY <1>1, <1>3, <2>2, <2>3, <2>4, <2>5 DEF PoolTypeOK
<1>5. BenchCoversLinks' BY DEF Boot, BenchCoversLinks
<1>6. FileRemembers'
  BY <1>3 DEF PoolInv, FileRemembers, Fresh, Unheard
<1>7. LinkRemembers'
  <2> SUFFICES ASSUME NEW k \in Links, Fresh(k)', heard'[k].ids # {}
               PROVE  /\ heard'[k].ids \subseteq link'[k].ids
                      /\ heard'[k].at <= ConfirmedAt(link'[k])
    BY DEF LinkRemembers
  <2>1. heard'[k] = heard[k] /\ heard[k].saved BY <1>3 DEF Unheard
  <2>2. /\ heard[k].ids \subseteq saved.ids[k] /\ heard[k].at <= saved.at
        /\ day - heard[k].at <= SeedTtl
    BY <1>3, <2>1 DEF PoolInv, FileRemembers, Fresh
  <2>3. day - saved.at <= SeedTtl
    BY <1>1, <2>2, PoolAssumption DEF PoolTypeOK
  <2>4. saved.ids[k] # {} BY <2>1, <2>2
  <2>5. /\ link'[k].ids = saved.ids[k] /\ link'[k].seedAt = saved.at
        /\ link'[k].okAt = Never
    BY <1>1, <1>2, <2>3, <2>4, SeededLink
  <2> QED BY <2>1, <2>2, <2>5 DEF ConfirmedAt
<1> QED BY <1>4, <1>5, <1>6, <1>7 DEF PoolInv

LEMMA NextPool == PoolInv /\ [PoolNext]_pvars => PoolInv'
<1> SUFFICES ASSUME PoolInv, [PoolNext]_pvars PROVE PoolInv'
  OBVIOUS
<1>1. PoolTypeOK BY DEF PoolInv
<1>2. CASE PersistQuotaState BY <1>2, FlushKeeps
<1>3. CASE Boot BY <1>3, BootKeeps
<1>4. ASSUME NEW l \in Links, PollSucceeds(l) \/ PollFails(l) PROVE PoolInv'
  BY <1>4, PollSucceedsKeeps, PollFailsKeeps
<1>5. CASE Day
  <2>1. /\ day' = day + 1 /\ day' \in 1..MaxDays
        /\ UNCHANGED <<remote, link, benched, mirror, saved, heard, changes>>
    BY <1>1, <1>5, PoolAssumption DEF Day, PoolTypeOK
  <2>2. \A l \in Links : Fresh(l)' => Fresh(l)
    BY <1>1, <2>1, PoolAssumption DEF Fresh, PoolTypeOK
  <2> QED BY <2>1, <2>2 DEF PoolInv, PoolTypeOK, BenchCoversLinks, LinkRemembers, FileRemembers
<1>6. ASSUME NEW l \in Links, NEW x \in Logins, RemoteChanges(l, x) PROVE PoolInv'
  <2>1. remote' \in [Links -> SUBSET Logins] /\ changes' \in 0..MaxChanges
    BY <1>1, <1>6, PoolAssumption DEF RemoteChanges, PoolTypeOK
  <2> QED BY <1>6, <2>1 DEF RemoteChanges, PoolInv, PoolTypeOK, BenchCoversLinks,
             LinkRemembers, FileRemembers, Fresh
<1>7. CASE UNCHANGED pvars
  BY <1>7 DEF pvars, PoolInv, PoolTypeOK, BenchCoversLinks, LinkRemembers, FileRemembers, Fresh
<1> QED BY <1>2, <1>3, <1>4, <1>5, <1>6, <1>7 DEF PoolNext

(* A login that a linked pool was heard to hold is benched here: through   *)
(* any failed polls, and through boots for as long as a seed is good.      *)
THEOREM OneWriterPerLogin == PoolSpec => []SingleWriter
<1>1. PoolInv => SingleWriter
  BY DEF PoolInv, BenchCoversLinks, LinkRemembers, Fresh, SingleWriter
<1> QED BY InitPool, NextPool, <1>1, PTL DEF PoolSpec

(* What the links keep, and what was heard and saved, has its type.        *)
THEOREM PoolTypes == PoolSpec => []PoolTypeOK
<1>1. PoolInv => PoolTypeOK BY DEF PoolInv
<1> QED BY InitPool, NextPool, <1>1, PTL DEF PoolSpec

(***************************************************************************)
(* The mirrors                                                             *)
(***************************************************************************)
RowsWereHeard ==
    \A l \in Links : ~link[l].error /\ link[l].okAt # Never => link[l].rows = heard[l].ids

MirrorsFollow ==
    \A x \in Logins :
        LET listing == {l \in Links : x \in Rows(link[l])}
        IN /\ mirror[x].enabled <=> listing # {}
           /\ mirror[x].enabled => mirror[x].pool \in listing

MirrorInv == RowsWereHeard /\ MirrorsFollow

LEMMA MirrorsFollowLinks ==
  ASSUME PoolTypeOK, NEW links \in [Links -> PoolLink], ApplyPoolLinks(links)
  PROVE  MirrorsFollow'
<1> SUFFICES ASSUME NEW x \in Logins
             PROVE  LET listing == {l \in Links : x \in Rows(link'[l])}
                    IN /\ mirror'[x].enabled <=> listing # {}
                       /\ mirror'[x].enabled => mirror'[x].pool \in listing
  BY DEF MirrorsFollow, Rows
<1> DEFINE S == {l \in Links : x \in Rows(links[l])}
<1>1. link' = links BY DEF ApplyPoolLinks
<1>2. CASE S # {}
  <2>1. Max(S) \in S BY <1>2, LastListing
  <2>2. mirror'[x] = [pool |-> Max(S), enabled |-> TRUE]
    BY <1>2 DEF ApplyPoolLinks, SyncRemoteMirrors
  <2> QED BY <1>1, <1>2, <2>1, <2>2
<1>3. CASE S = {}
  <2>1. mirror'[x] = [mirror[x] EXCEPT !.enabled = FALSE]
    BY <1>3 DEF ApplyPoolLinks, SyncRemoteMirrors
  <2>2. ~mirror'[x].enabled BY <2>1 DEF PoolTypeOK
  <2> QED BY <1>1, <1>3, <2>2
<1> QED BY <1>2, <1>3

LEMMA NextMirror == PoolTypeOK /\ MirrorInv /\ [PoolNext]_pvars => MirrorInv'
<1> SUFFICES ASSUME PoolTypeOK, MirrorInv, [PoolNext]_pvars PROVE MirrorInv'
  OBVIOUS
<1>1. ASSUME NEW l \in Links, PollSucceeds(l) PROVE MirrorInv'
  <2> DEFINE new == [ids |-> remote[l], rows |-> remote[l], okAt |-> day,
                     seedAt |-> link[l].seedAt, error |-> FALSE]
             links == [link EXCEPT ![l] = new]
  <2>1. links \in [Links -> PoolLink] BY PoolAssumption DEF PoolTypeOK, PoolLink
  <2>2. ApplyPoolLinks(links) /\ link' = links BY <1>1 DEF PollSucceeds, ApplyPoolLinks
  <2>3. MirrorsFollow' BY <2>1, <2>2, MirrorsFollowLinks
  <2>4. link'[l].rows = heard'[l].ids BY <1>1, <2>2 DEF PollSucceeds, PoolTypeOK
  <2>5. \A k \in Links \ {l} : link'[k] = link[k] /\ heard'[k] = heard[k]
    BY <1>1, <2>2 DEF PollSucceeds, PoolTypeOK
  <2>6. RowsWereHeard' BY <2>4, <2>5 DEF MirrorInv, RowsWereHeard
  <2> QED BY <2>3, <2>6 DEF MirrorInv
<1>2. ASSUME NEW l \in Links, PollFails(l) PROVE MirrorInv'
  <2> DEFINE links == [link EXCEPT ![l] = Failed(@)]
  <2>1. links \in [Links -> PoolLink] BY FailedLink DEF PoolTypeOK
  <2>2. ApplyPoolLinks(links) /\ link' = links /\ heard' = heard
    BY <1>2 DEF PollFails, ApplyPoolLinks
  <2>3. MirrorsFollow' BY <2>1, <2>2, MirrorsFollowLinks
  <2>4. link'[l].error BY <2>2, FailedLink DEF PoolTypeOK
  <2>5. \A k \in Links \ {l} : link'[k] = link[k] BY <2>2 DEF PoolTypeOK
  <2>6. RowsWereHeard' BY <2>2, <2>4, <2>5 DEF MirrorInv, RowsWereHeard
  <2> QED BY <2>3, <2>6 DEF MirrorInv
<1>3. CASE Boot
  <2>1. \A l \in Links : link'[l].okAt = Never
    BY <1>3, SeededLink DEF Boot
  <2>2. \A x \in Logins : ~mirror'[x].enabled BY <1>3 DEF Boot
  <2>3. \A l \in Links : Rows(link'[l]) = {} BY <2>1 DEF Rows
  <2>4. MirrorsFollow' BY <2>2, <2>3 DEF MirrorsFollow
  <2>5. RowsWereHeard' BY <2>1 DEF RowsWereHeard
  <2> QED BY <2>4, <2>5 DEF MirrorInv
<1>4. CASE PersistQuotaState
  <2>1. \A l \in Links : heard'[l].ids = heard[l].ids
    BY <1>4 DEF PersistQuotaState, PoolTypeOK
  <2> QED BY <1>4, <2>1 DEF PersistQuotaState, MirrorInv, RowsWereHeard, MirrorsFollow
<1>5. CASE Day \/ UNCHANGED pvars \/ \E l \in Links, x \in Logins : RemoteChanges(l, x)
  <2>1. UNCHANGED <<link, mirror, heard>> BY <1>5 DEF Day, pvars, RemoteChanges
  <2> QED BY <2>1 DEF MirrorInv, RowsWereHeard, MirrorsFollow
<1> QED BY <1>1, <1>2, <1>3, <1>4, <1>5 DEF PoolNext

(* A mirror is routed if and only if a link that answers listed it, and to *)
(* such a link: syncRemoteMirrors, after any polls, failures and boots.    *)
THEOREM MirrorsAreListed == PoolSpec => []MirrorTakesOver
<1>1. PoolInit => MirrorInv
  BY DEF PoolInit, MirrorInv, RowsWereHeard, MirrorsFollow, FreshLink, Unheard, Rows, Never
<1>2. PoolTypeOK /\ MirrorInv => MirrorTakesOver
  <2> SUFFICES ASSUME PoolTypeOK, MirrorInv, NEW x \in Logins
               PROVE  {l \in Links : x \in Rows(link[l])}
                        = {l \in Links : ~link[l].error /\ link[l].okAt # Never
                                           /\ x \in heard[l].ids}
    BY DEF MirrorInv, MirrorsFollow, MirrorTakesOver
  <2> QED BY DEF MirrorInv, RowsWereHeard, Rows
<1>3. PoolInv => PoolTypeOK BY DEF PoolInv
<1> QED BY InitPool, NextPool, NextMirror, <1>1, <1>2, <1>3, PTL DEF PoolSpec

(* ---- Selection and the retry oracle ---------------------------------------- *)

\* The reserve only takes accounts away: what passes with it passes without.
LEMMA ReserveOnlyNarrows ==
  ASSUME NEW a, NEW f, NEW r, NEW t, IsAvailable(a, f, r, t, FALSE)
  PROVE  IsAvailable(a, f, r, t, TRUE)
  BY DEF IsAvailable

\* An account the oracle calls available is one that selection can choose.
LEMMA SaidIsRouted ==
  ASSUME NEW r, NEW x, NEW a \in Fleet \ x, SaysAvailable(a, r)
  PROVE  a \in Routes(r, x)
<1>1. MatchesRequest(a, r) BY DEF SaysAvailable
<1>2. IsAvailable(a, fleet[a], r, instant, TRUE)
  BY ReserveOnlyNarrows DEF SaysAvailable
<1> QED BY <1>1, <1>2 DEF Routes

\* The oracle answers "available" for the sake of an account it may count, and
\* for no other reason.
LEMMA AvailableNamesOne ==
  ASSUME NEW r, NEW x, NextRetry(r, x).available
  PROVE  \E a \in Fleet \ x : SaysAvailable(a, r)
<1> DEFINE times == UNION {Recoveries(a, r) : a \in Fleet \ x}
<1> SUFFICES ASSUME ~ \E a \in Fleet \ x : SaysAvailable(a, r) PROVE FALSE
  OBVIOUS
<1>1. CASE ThrottleHolds(r, x)
  <2>1. NextRetry(r, x) = [available |-> FALSE, at |-> gate.throttledUntil]
    BY <1>1 DEF NextRetry
  <2> QED BY <2>1
<1>2. CASE ~ThrottleHolds(r, x) /\ times = {}
  <2>1. NextRetry(r, x) = [available |-> FALSE, at |-> Forever] BY <1>2 DEF NextRetry
  <2> QED BY <2>1
<1>3. CASE ~ThrottleHolds(r, x) /\ times # {}
  <2>1. NextRetry(r, x) = [available |-> FALSE, at |-> Least(times)] BY <1>3 DEF NextRetry
  <2> QED BY <2>1
<1> QED BY <1>1, <1>2, <1>3

(* nextRetryForRequest never sends a caller back to a selection that would *)
(* refuse it every account, whatever has happened to the fleet.            *)
THEOREM OracleAgreesWithSelection == RouteSpec => []NoSpin
<1>1. NoSpin
  <2> SUFFICES ASSUME NEW r \in RequestKinds, NEW x \in Exclusions, NextRetry(r, x).available
               PROVE  Routes(r, x) # {}
    BY DEF NoSpin
  <2>1. PICK a \in Fleet \ x : SaysAvailable(a, r) BY AvailableNamesOne
  <2> QED BY <2>1, SaidIsRouted
<1> QED BY <1>1, PTL

(***************************************************************************)
(* HoldIsNotLate.  What keeps an account out now and not at t is one of    *)
(* the windows it reads, and each of them is shown to end by t where the   *)
(* oracle says.  Readings are those that headers and probes bring, and a   *)
(* subscription has no window that has ended.                              *)
(***************************************************************************)
Moment == Blank .. Horizon + Span

RouteAccount ==
  [enabled : BOOLEAN, gone : BOOLEAN, status : {"active", "throttled", "error"},
   limitedUntil : Nat, cooldownUntil : Nat,
   ses : {Blank, 3, 6, 10}, sesReset : Moment, wk : {Blank, 3, 6, 9, 10}, wkReset : Moment,
   verdict : {"none", "allowed", "rejected"}, scopedReset : Nat, full : BOOLEAN,
   cap : {"none", "fixed", "dynamic"}]

\* A stamp of f is one of a reading, and t has not reached it.
Runs(f, t) ==
  /\ f.sesReset = Blank \/ (f.ses # Blank /\ t < f.sesReset)
  /\ f.wkReset = Blank \/ (f.wk # Blank /\ t < f.wkReset)

RouteInv ==
  /\ instant \in 0 .. Horizon /\ events \in 0 .. MaxEvents
  /\ peak.to \in Nat /\ peak.from \in Nat
  /\ Fleet \subseteq Subscriptions \cup ApiKeys
  /\ fleet \in [Fleet -> RouteAccount]
  /\ \A a \in Fleet \cap Subscriptions : Runs(fleet[a], instant)

\* A stamp is null, or taken within the span of a window from now.
LEMMA Moments ==
  /\ Blank \in Moment
  /\ \A t \in 0 .. Horizon, n \in 1 .. Span : t + n \in Moment /\ t < t + n
  BY RoutingAssumption DEF Moment, Blank, Span

LEMMA Fields ==
  ASSUME NEW f \in RouteAccount
  PROVE  /\ f.limitedUntil \in Nat /\ f.cooldownUntil \in Nat /\ f.scopedReset \in Nat
         /\ f.ses \in {-1, 3, 6, 10} /\ f.wk \in {-1, 3, 6, 9, 10}
         /\ f.sesReset \in Nat \cup {-1} /\ f.wkReset \in Nat \cup {-1}
         /\ f.cap \in {"none", "fixed", "dynamic"}
  BY RoutingAssumption DEF RouteAccount, Moment, Blank, Span

\* A cap that rises has risen by the last tick of the window, and not before.
LEMMA CapValue ==
  ASSUME NEW f \in RouteAccount, NEW reset \in Int, NEW t \in Int
  PROVE  EffectiveCap(f, reset, t) = IF f.cap = "none" THEN 1000
                                     ELSE IF f.cap = "dynamic" /\ reset = t + 1 THEN 7 ELSE 5
<1>1. f.cap \in {"none", "fixed", "dynamic"} BY Fields
<1>2. CASE f.cap = "none" BY <1>2 DEF EffectiveCap, Forever
<1>3. CASE f.cap = "fixed" \/ (f.cap = "dynamic" /\ reset <= t)
  BY <1>3 DEF EffectiveCap, CapFloor
<1>4. CASE f.cap = "dynamic" /\ ~(reset <= t)
  <2>1. EffectiveCap(f, reset, t)
          = 5 + (4 * Greater(0, 2 * (t - (reset - 4)) - 4)) \div 4
    BY <1>4 DEF EffectiveCap, CapFloor, SwitchThreshold, Span
  <2>2. CASE reset = t + 1
    <3>1. Greater(0, 2 * (t - (reset - 4)) - 4) = 2 BY <2>2 DEF Greater
    <3> QED BY <1>4, <2>1, <2>2, <3>1
  <2>3. CASE reset # t + 1
    <3>1. Greater(0, 2 * (t - (reset - 4)) - 4) = 0 BY <1>4, <2>3 DEF Greater
    <3> QED BY <1>4, <2>1, <2>3, <3>1
  <2> QED BY <2>2, <2>3
<1> QED BY <1>1, <1>2, <1>3, <1>4

\* A reading of 6 is the only one a rising cap comes to meet.
LEMMA Crossing ==
  ASSUME NEW f \in RouteAccount, NEW used \in {-1, 3, 6, 9, 10}, NEW reset \in Int, NEW t \in Int
  PROVE  CapUnbenchAt(f, used, reset, t)
           = IF f.cap = "dynamic" /\ used = 6 /\ t < reset - 1 THEN reset - 1 ELSE -1
<1> USE DEF CapUnbenchAt, CapFloor, SwitchThreshold, Span, Blank
<1>1. CASE used # 6
  <2>1. used \notin 5..8 BY <1>1
  <2> QED BY <1>1, <2>1
<1>2. CASE used = 6
  <2>1. used \in 5..8 /\ (((6 - 5) * (4 \div 2)) + (9 - 5) - 1) \div (9 - 5) = 1 /\ 4 \div 2 = 2 BY <1>2
  <2>2. CapUnbenchAt(f, used, reset, t)
          = IF f.cap # "dynamic" \/ reset <= t \/ reset - 4 + 2 + 1 <= t THEN -1 ELSE reset - 4 + 2 + 1
    BY <1>2, <2>1
  <2> HIDE DEF CapUnbenchAt
  <2> QED BY <1>2, <2>2
<1> QED BY <1>1, <1>2

LEMMA LeastOfTwo == \A x, y \in Int : Least({x, y}) = IF x <= y THEN x ELSE y
<1> SUFFICES ASSUME NEW x \in Int, NEW y \in Int PROVE Least({x, y}) = IF x <= y THEN x ELSE y
  OBVIOUS
<1>1. \E m \in {x, y} : \A z \in {x, y} : m <= z OBVIOUS
<1> QED BY <1>1 DEF Least

\* When the session of an account is full, as a number.
LEMMA SessionBench ==
  ASSUME NEW a, NEW f \in RouteAccount, NEW t \in Int
  PROVE  IsSessionQuotaUnavailable(a, f, t) <=>
           f.ses # -1 /\ (f.ses >= EffectiveCap(f, f.sesReset, t)
                            \/ f.ses >= (IF a \in ApiKeys THEN 10 ELSE 9))
<1> DEFINE cap == EffectiveCap(f, f.sesReset, t)
           wall == IF a \in ApiKeys THEN 10 ELSE 9
<1>1. f.ses \in Int /\ f.sesReset \in Int BY Fields
<1>2. cap \in Int BY <1>1, CapValue
<1>3. wall \in Int OBVIOUS
<1>4. SessionBenchThreshold(a, f, t) = Least({cap, wall})
  BY DEF SessionBenchThreshold, Wall, SwitchThreshold
<1> HIDE DEF cap, wall
<1>5. SessionBenchThreshold(a, f, t) = IF cap <= wall THEN cap ELSE wall
  BY <1>2, <1>3, <1>4, LeastOfTwo
<1>6. IsSessionQuotaUnavailable(a, f, t) <=> f.ses # -1 /\ (f.ses >= cap \/ f.ses >= wall)
  BY <1>1, <1>2, <1>3, <1>5 DEF IsSessionQuotaUnavailable, Blank
<1> QED BY <1>6 DEF cap, wall

\* What time alone makes of an account.
LEMMA Cleared ==
  ASSUME NEW f \in RouteAccount, NEW t \in Nat
  PROVE  LET g == ClearExpiredQuotas(f, t)
             gone == f.ses # -1 /\ f.sesReset # -1 /\ t >= f.sesReset
             over == f.wk # -1 /\ f.wkReset # -1 /\ t >= f.wkReset
         IN /\ g \in RouteAccount
            /\ g.cap = f.cap /\ g.enabled = f.enabled /\ g.gone = f.gone /\ g.status = f.status
            /\ g.limitedUntil = f.limitedUntil /\ g.cooldownUntil = f.cooldownUntil
            /\ g.full = f.full /\ g.scopedReset = IF t >= f.scopedReset THEN 0 ELSE f.scopedReset
            /\ gone => g.ses = -1 /\ g.sesReset = -1
            /\ ~gone => g.ses = f.ses /\ g.sesReset = f.sesReset
            /\ over => g.wk = -1 /\ g.wkReset = -1 /\ g.verdict = "none"
            /\ ~over => g.wk = f.wk /\ g.wkReset = f.wkReset /\ g.verdict = f.verdict
<1> DEFINE gone == f.ses # -1 /\ f.sesReset # -1 /\ t >= f.sesReset
           over == f.wk # -1 /\ f.wkReset # -1 /\ t >= f.wkReset
           scoped == IF t >= f.scopedReset THEN 0 ELSE f.scopedReset
           g == [f EXCEPT !.ses = IF gone THEN -1 ELSE @, !.sesReset = IF gone THEN -1 ELSE @,
                          !.wk = IF over THEN -1 ELSE @, !.wkReset = IF over THEN -1 ELSE @,
                          !.verdict = IF over THEN "none" ELSE @, !.scopedReset = scoped]
<1>1. ClearExpiredQuotas(f, t) = g BY DEF ClearExpiredQuotas, Blank
<1>2. scoped \in Nat BY Fields
<1> HIDE DEF gone, over, scoped
<1>3. g \in RouteAccount BY <1>2, Moments DEF RouteAccount, Blank
<1>4. /\ g.cap = f.cap /\ g.enabled = f.enabled /\ g.gone = f.gone /\ g.status = f.status
      /\ g.limitedUntil = f.limitedUntil /\ g.cooldownUntil = f.cooldownUntil
      /\ g.full = f.full /\ g.scopedReset = scoped
  BY DEF RouteAccount
<1>5. /\ g.ses = (IF gone THEN -1 ELSE f.ses) /\ g.sesReset = (IF gone THEN -1 ELSE f.sesReset)
      /\ g.wk = (IF over THEN -1 ELSE f.wk) /\ g.wkReset = (IF over THEN -1 ELSE f.wkReset)
      /\ g.verdict = (IF over THEN "none" ELSE f.verdict)
  BY DEF RouteAccount
<1> HIDE DEF g
<1> QED BY <1>1, <1>3, <1>4, <1>5 DEF gone, over, scoped

\* The two ways in which a rising cap lets go: the crossing is the last tick.
LEMMA CapLetsGo ==
  ASSUME NEW f \in RouteAccount, NEW used \in {-1, 3, 6, 9, 10}, NEW reset \in Nat \cup {-1},
         NEW now \in Nat, NEW t \in Nat, now < t,
         used >= EffectiveCap(f, reset, now), ~(used >= EffectiveCap(f, reset, t))
  PROVE  /\ f.cap = "dynamic" /\ used = 6 /\ reset = t + 1
         /\ CapUnbenchAt(f, used, reset, now) = t
<1>1. EffectiveCap(f, reset, now) = IF f.cap = "none" THEN 1000
                                    ELSE IF f.cap = "dynamic" /\ reset = now + 1 THEN 7 ELSE 5
  BY CapValue
<1>2. EffectiveCap(f, reset, t) = IF f.cap = "none" THEN 1000
                                  ELSE IF f.cap = "dynamic" /\ reset = t + 1 THEN 7 ELSE 5
  BY CapValue
<1>3. f.cap = "dynamic" /\ used = 6 /\ reset = t + 1 BY <1>1, <1>2
<1>4. now < reset - 1 /\ reset - 1 = t BY <1>3
<1> QED BY <1>3, <1>4, Crossing

LEMMA CrossingIsAhead ==
  ASSUME NEW f \in RouteAccount, NEW used \in {-1, 3, 6, 9, 10}, NEW reset \in Nat \ {0}, NEW now \in Nat
  PROVE  LET crossing == CapUnbenchAt(f, used, reset, now)
             at == IF crossing # Blank THEN crossing ELSE reset
         IN at \in Int /\ 0 < at /\ at <= reset
<1>1. CapUnbenchAt(f, used, reset, now)
        = IF f.cap = "dynamic" /\ used = 6 /\ now < reset - 1 THEN reset - 1 ELSE -1
  BY Crossing
<1> QED BY <1>1 DEF Blank

\* The session of a subscription.
LEMMA SessionEnds ==
  ASSUME NEW a \in Subscriptions, NEW f \in RouteAccount, NEW now \in Nat, NEW t \in Nat, now < t,
         Runs(f, now), IsSessionQuotaUnavailable(a, f, now),
         ~IsSessionQuotaUnavailable(a, ClearExpiredQuotas(f, t), t)
  PROVE  LET crossing == CapUnbenchAt(f, f.ses, f.sesReset, now)
             at == IF crossing # Blank THEN crossing ELSE f.sesReset
         IN at \in Int /\ 0 < at /\ at <= t
<1> DEFINE g == ClearExpiredQuotas(f, t)
<1>1. a \notin ApiKeys BY RoutingAssumption
<1>2. f.ses \in {-1, 3, 6, 9, 10} /\ f.sesReset \in Nat \cup {-1} BY Fields
<1>3. f.ses # -1 /\ (f.ses >= EffectiveCap(f, f.sesReset, now) \/ f.ses >= 9)
  BY <1>1, SessionBench
<1>4. CASE f.sesReset # -1 /\ t >= f.sesReset
  <2>1. now < f.sesReset BY <1>4 DEF Runs, Blank
  <2>2. f.sesReset \in Nat \ {0} BY <1>2, <2>1
  <2> QED BY <1>2, <1>4, <2>2, CrossingIsAhead
<1>5. CASE ~(f.sesReset # -1 /\ t >= f.sesReset)
  <2>1. g \in RouteAccount /\ g.cap = f.cap /\ g.ses = f.ses /\ g.sesReset = f.sesReset
    BY <1>5, Cleared
  <2>2. ~(g.ses >= EffectiveCap(g, g.sesReset, t) \/ g.ses >= 9)
    <3> HIDE DEF g
    <3>1. t \in Int OBVIOUS
    <3>2. IsSessionQuotaUnavailable(a, g, t) <=>
             g.ses # -1 /\ (g.ses >= EffectiveCap(g, g.sesReset, t) \/ g.ses >= 9)
      BY <1>1, <2>1, <3>1, SessionBench
    <3>3. ~IsSessionQuotaUnavailable(a, g, t) BY DEF g
    <3> QED BY <1>3, <2>1, <3>2, <3>3
  <2> HIDE DEF g
  <2>3. EffectiveCap(g, g.sesReset, t) = EffectiveCap(f, f.sesReset, t)
    BY <2>1 DEF EffectiveCap
  <2>4. CapUnbenchAt(f, f.ses, f.sesReset, now) = t
    BY <1>2, <1>3, <2>1, <2>2, <2>3, CapLetsGo
  <2> QED BY <2>4 DEF Blank
<1> QED BY <1>4, <1>5

\* The states that keep an account out, of a subscription ...
LEMMA SubscriptionWeek ==
  ASSUME NEW a \in Subscriptions, NEW f \in RouteAccount, NEW t \in Int
  PROVE  LET rejected == f.verdict = "rejected" /\ (f.ses >= 10 \/ f.wk >= 10)
             capped == f.wk >= EffectiveCap(f, f.wkReset, t)
             full == f.wk >= 10 /\ f.verdict # "allowed"
         IN /\ WeeklyRawState(a, f, t) \in {"exhausted", "capped"}
                 <=> rejected \/ (f.wk # -1 /\ (capped \/ full))
            /\ ~rejected /\ f.wk # -1 /\ capped => WeeklyRawState(a, f, t) = "capped"
<1>1. a \notin ApiKeys BY RoutingAssumption
<1> QED
  BY <1>1 DEF WeeklyRawState, IsAccountWideRejected, Capped, Exhausted, Blank

\* ... and of a provider.
LEMMA ProviderWeek ==
  ASSUME NEW a \in ApiKeys, NEW f \in RouteAccount, NEW t \in Int
  PROVE  LET used == IF f.wk = -1 THEN f.ses ELSE f.wk
             worst == Greater(f.ses, f.wk)
             capped == worst # -1 /\ worst >= EffectiveCap(f, f.wkReset, t)
         IN /\ WeeklyRawState(a, f, t) \in {"exhausted", "capped"} <=> capped \/ used >= 10
            /\ capped => WeeklyRawState(a, f, t) = "capped"
<1>1. a \notin Subscriptions BY RoutingAssumption
<1> QED
  BY <1>1 DEF WeeklyRawState, Capped, Exhausted, Blank

\* The week of a subscription, but for a rejection that its session explains.
LEMMA WeekEnds ==
  ASSUME NEW a \in Subscriptions, NEW f \in RouteAccount, NEW now \in Nat, NEW t \in Nat, now < t,
         Runs(f, now), ~(f.verdict = "rejected" /\ f.wk < 10),
         WeeklyRawState(a, f, now) \in {"exhausted", "capped"},
         WeeklyRawState(a, ClearExpiredQuotas(f, t), t) \notin {"exhausted", "capped"}
  PROVE  LET crossing == IF WeeklyRawState(a, f, now) = "capped"
                         THEN CapUnbenchAt(f, f.wk, f.wkReset, now) ELSE Blank
             at == IF crossing # Blank THEN crossing ELSE f.wkReset
         IN at \in Int /\ 0 < at /\ at <= t
<1> DEFINE g == ClearExpiredQuotas(f, t)
           out == (f.verdict = "rejected" /\ (f.ses >= 10 \/ f.wk >= 10))
                    \/ (f.wk >= 10 /\ f.verdict # "allowed")
<1>1. /\ f.wk \in {-1, 3, 6, 9, 10} /\ f.wkReset \in Nat \cup {-1} /\ now \in Int /\ t \in Int
      /\ f.ses \in {-1, 3, 6, 10}
  BY Fields
<1>2. f.wk # -1 /\ (out \/ f.wk >= EffectiveCap(f, f.wkReset, now))
  BY <1>1, SubscriptionWeek
<1>3. CASE f.wkReset # -1 /\ t >= f.wkReset
  <2>1. now < f.wkReset BY <1>3 DEF Runs, Blank
  <2>2. f.wkReset \in Nat \ {0} BY <1>1, <2>1
  <2> HIDE DEF out
  <2>3. CASE WeeklyRawState(a, f, now) = "capped"
    BY <1>1, <1>3, <2>2, <2>3, CrossingIsAhead
  <2>4. CASE WeeklyRawState(a, f, now) # "capped"
    BY <1>3, <2>2, <2>4
  <2> QED BY <2>3, <2>4
<1>4. CASE ~(f.wkReset # -1 /\ t >= f.wkReset)
  <2>1. g \in RouteAccount /\ g.cap = f.cap /\ g.wk = f.wk /\ g.wkReset = f.wkReset
        /\ g.verdict = f.verdict
    BY <1>4, Cleared
  <2>2. EffectiveCap(g, g.wkReset, t) = EffectiveCap(f, f.wkReset, t)
    BY <2>1 DEF EffectiveCap
  <2>3. ~(f.verdict = "rejected" /\ f.wk >= 10) /\ ~(f.wk >= 10 /\ f.verdict # "allowed")
        /\ ~(f.wk >= EffectiveCap(f, f.wkReset, t))
    <3>1. WeeklyRawState(a, g, t) \notin {"exhausted", "capped"} OBVIOUS
    <3> HIDE DEF g
    <3> QED BY <1>1, <1>2, <2>1, <2>2, <3>1, SubscriptionWeek
  <2>4. ~out BY <1>1, <2>3
  <2>5. WeeklyRawState(a, f, now) = "capped" BY <1>1, <1>2, <2>4, SubscriptionWeek
  <2>6. CapUnbenchAt(f, f.wk, f.wkReset, now) = t BY <1>1, <1>2, <2>3, <2>4, CapLetsGo
  <2> QED BY <2>5, <2>6 DEF Blank
<1> QED BY <1>3, <1>4

\* The week of a provider, whose session is not near its cap.
LEMMA ProviderWeekEnds ==
  ASSUME NEW a \in ApiKeys, NEW f \in RouteAccount, NEW g \in RouteAccount,
         NEW now \in Nat, NEW t \in Nat, now < t,
         g.cap = f.cap, g.ses = f.ses, g.wk = f.wk, g.wkReset = f.wkReset,
         ~(f.cap = "dynamic" /\ f.ses >= 5),
         WeeklyRawState(a, f, now) \in {"exhausted", "capped"},
         WeeklyRawState(a, g, t) \notin {"exhausted", "capped"}
  PROVE  /\ WeeklyRawState(a, f, now) = "capped"
         /\ CapUnbenchAt(f, f.wk, f.wkReset, now) = t
<1> DEFINE worst == Greater(f.ses, f.wk)
           used == IF f.wk = -1 THEN f.ses ELSE f.wk
<1>1. /\ f.wk \in {-1, 3, 6, 9, 10} /\ f.wkReset \in Nat \cup {-1} /\ now \in Int /\ t \in Int
      /\ f.ses \in {-1, 3, 6, 10}
  BY Fields
<1>2. EffectiveCap(g, g.wkReset, t) = EffectiveCap(f, f.wkReset, t) BY DEF EffectiveCap
<1>3. worst \in {-1, 3, 6, 9, 10} BY <1>1 DEF Greater
<1>4. ~(worst # -1 /\ worst >= EffectiveCap(f, f.wkReset, t)) /\ ~(used >= 10)
  BY <1>1, <1>2, ProviderWeek
<1>5. worst # -1 /\ worst >= EffectiveCap(f, f.wkReset, now)
  BY <1>1, <1>4, ProviderWeek
<1>6. WeeklyRawState(a, f, now) = "capped" BY <1>1, <1>5, ProviderWeek
<1> HIDE DEF worst, used
<1>7. f.cap = "dynamic" /\ worst = 6 /\ CapUnbenchAt(f, worst, f.wkReset, now) = t
  BY <1>1, <1>3, <1>4, <1>5, CapLetsGo
<1>8. worst = f.wk BY <1>1, <1>7 DEF worst, Greater
<1> QED BY <1>6, <1>7, <1>8

\* The session of a provider ends by time only under a rising cap.
LEMMA ProviderSession ==
  ASSUME NEW a \in ApiKeys, NEW f \in RouteAccount, NEW g \in RouteAccount,
         NEW now \in Nat, NEW t \in Nat, now < t,
         g.cap = f.cap, g.ses = f.ses, g.sesReset = f.sesReset,
         IsSessionQuotaUnavailable(a, f, now), ~IsSessionQuotaUnavailable(a, g, t)
  PROVE  f.cap = "dynamic" /\ f.ses >= 5
<1>1. f.ses \in {-1, 3, 6, 9, 10} /\ f.sesReset \in Nat \cup {-1} /\ now \in Int /\ t \in Int
  BY Fields
<1>2. EffectiveCap(g, g.sesReset, t) = EffectiveCap(f, f.sesReset, t) BY DEF EffectiveCap
<1>3. /\ f.ses # -1 /\ (f.ses >= EffectiveCap(f, f.sesReset, now) \/ f.ses >= 10)
      /\ ~(f.ses >= EffectiveCap(f, f.sesReset, t) \/ f.ses >= 10)
  BY <1>1, <1>2, SessionBench
<1>4. f.cap = "dynamic" /\ f.ses = 6 BY <1>1, <1>3, CapLetsGo
<1> QED BY <1>4

\* What holds back an account that t finds usable ends by then.
LEMMA ShortEnds ==
  ASSUME NEW a \in Subscriptions \cup ApiKeys, NEW f \in RouteAccount, NEW g \in RouteAccount,
         NEW now \in Nat, NEW t \in Nat, now < t,
         a \in Subscriptions => Runs(f, now) /\ g = ClearExpiredQuotas(f, t),
         g.status = f.status, g.limitedUntil = f.limitedUntil, g.cooldownUntil = f.cooldownUntil,
         ~(g.status = "throttled" /\ t < g.limitedUntil), t >= g.cooldownUntil,
         ~IsSessionQuotaUnavailable(a, g, t),
         ShortTerm(a, f, now).blocked
  PROVE  LET at == ShortTerm(a, f, now).at IN at \in Int /\ 0 < at /\ at <= t
<1> DEFINE bench == a \in Subscriptions /\ IsSessionQuotaUnavailable(a, f, now)
           crossing == CapUnbenchAt(f, f.ses, f.sesReset, now)
           limited == f.status = "throttled" /\ now < f.limitedUntil
<1>1. f.limitedUntil \in Nat /\ f.cooldownUntil \in Nat BY Fields
<1>2. /\ ShortTerm(a, f, now).blocked <=> limited \/ now < f.cooldownUntil \/ bench
      /\ ShortTerm(a, f, now).at = IF limited THEN f.limitedUntil
                                   ELSE IF now < f.cooldownUntil THEN f.cooldownUntil
                                   ELSE IF bench /\ crossing # Blank THEN crossing ELSE f.sesReset
  BY DEF ShortTerm, FirstBlocker
<1>3. CASE limited BY <1>1, <1>2, <1>3
<1>4. CASE ~limited /\ now < f.cooldownUntil
  <2> HIDE DEF limited, bench
  <2> QED BY <1>1, <1>2, <1>4
<1>5. CASE ~limited /\ ~(now < f.cooldownUntil)
  <2>1. bench BY <1>2, <1>5
  <2>2. ShortTerm(a, f, now).at = IF crossing # Blank THEN crossing ELSE f.sesReset
    <3> HIDE DEF limited, bench, crossing
    <3> QED BY <1>2, <1>5, <2>1
  <2>3. LET at == IF crossing # Blank THEN crossing ELSE f.sesReset IN at \in Int /\ 0 < at /\ at <= t
    BY <2>1, SessionEnds
  <2> QED BY <2>2, <2>3
<1> QED BY <1>3, <1>4, <1>5

\* What a later tick makes of an account, whatever its kind.
LEMMA LaterAccount ==
  ASSUME RouteInv, NEW a \in Fleet, NEW t \in Nat
  PROVE  LET f == fleet[a]
             g == Later(a, t)
         IN /\ f \in RouteAccount /\ g \in RouteAccount
            /\ g.cap = f.cap /\ g.enabled = f.enabled /\ g.gone = f.gone /\ g.status = f.status
            /\ g.limitedUntil = f.limitedUntil /\ g.cooldownUntil = f.cooldownUntil
            /\ g.full = f.full /\ g.scopedReset = IF t >= f.scopedReset THEN 0 ELSE f.scopedReset
            /\ a \in Subscriptions => Runs(f, instant) /\ g = ClearExpiredQuotas(f, t)
            /\ a \in ApiKeys => /\ g.ses = f.ses /\ g.sesReset = f.sesReset
                                /\ g.wk = f.wk /\ g.wkReset = f.wkReset
<1> DEFINE f == fleet[a]
<1>1. f \in RouteAccount /\ (a \in Subscriptions => Runs(f, instant)) /\ a \in Subscriptions \cup ApiKeys
  BY DEF RouteInv
<1> HIDE DEF f
<1>2. CASE a \in Subscriptions
  <2>1. a \notin ApiKeys /\ Later(a, t) = ClearExpiredQuotas(f, t)
    BY <1>2, RoutingAssumption DEF Later, f
  <2> QED BY <1>1, <1>2, <2>1, Cleared DEF f
<1>3. CASE a \notin Subscriptions
  <2> DEFINE scoped == IF t >= f.scopedReset THEN 0 ELSE f.scopedReset
  <2>1. Later(a, t) = [f EXCEPT !.scopedReset = scoped] BY <1>3 DEF Later, f
  <2>2. scoped \in Nat BY <1>1, Fields
  <2>3. [f EXCEPT !.scopedReset = scoped] \in RouteAccount
    <3> HIDE DEF scoped
    <3> QED BY <1>1, <2>2 DEF RouteAccount
  <2> QED BY <1>1, <1>3, <2>1, <2>3 DEF f, RouteAccount
<1> QED BY <1>2, <1>3

\* An account that only its windows keep from a request is timed no later than
\* it is back.
LEMMA TimedInTime ==
  ASSUME RouteInv, NEW a \in Fleet, NEW r, NEW t \in Nat, instant < t, UsableAt(a, r, t), ~Untimed(a),
         MatchesRequest(a, r) => ~IsAvailable(a, fleet[a], r, instant, TRUE),
         ~MatchesRequest(a, r) =>
           /\ FairnessOnlyBlock(a, r)
           /\ WeeklyRawState(a, fleet[a], instant) \notin {"exhausted", "capped"}
           /\ ~ScopedExhausted(fleet[a], r, instant)
  PROVE  \E s \in Recoveries(a, r) : s \in Nat /\ s <= t
<1> DEFINE f == fleet[a]
           g == Later(a, t)
           gated == FairnessOnlyBlock(a, r)
           weekly == WeeklyRawState(a, f, instant)
           short == ShortTerm(a, f, instant)
           crossing == IF weekly = "capped" THEN CapUnbenchAt(f, f.wk, f.wkReset, instant) ELSE Blank
           retry == RetryInfo(a, f, r, instant)
           free == IsAvailable(a, f, r, instant, TRUE)
<1>1. /\ instant \in Nat /\ t \in Int /\ f \in RouteAccount /\ g \in RouteAccount
      /\ a \in Subscriptions \cup ApiKeys
      /\ g.cap = f.cap /\ g.enabled = f.enabled /\ g.gone = f.gone /\ g.status = f.status
      /\ g.limitedUntil = f.limitedUntil /\ g.cooldownUntil = f.cooldownUntil
      /\ g.full = f.full /\ g.scopedReset = (IF t >= f.scopedReset THEN 0 ELSE f.scopedReset)
      /\ a \in Subscriptions => Runs(f, instant) /\ g = ClearExpiredQuotas(f, t)
      /\ a \in ApiKeys => /\ g.ses = f.ses /\ g.sesReset = f.sesReset
                          /\ g.wk = f.wk /\ g.wkReset = f.wkReset
  BY LaterAccount DEF RouteInv
<1>2. /\ f.limitedUntil \in Nat /\ f.cooldownUntil \in Nat /\ f.scopedReset \in Nat
      /\ f.ses \in {-1, 3, 6, 10} /\ f.wk \in {-1, 3, 6, 9, 10}
      /\ f.sesReset \in Nat \cup {-1} /\ f.wkReset \in Nat \cup {-1}
  BY <1>1, Fields
<1>3. /\ g.enabled /\ ~g.gone /\ g.status # "error"
      /\ ~(g.status = "throttled" /\ t < g.limitedUntil) /\ t >= g.cooldownUntil
      /\ ~g.full /\ ~IsSessionQuotaUnavailable(a, g, t)
      /\ WeeklyRawState(a, g, t) \notin {"exhausted", "capped"}
      /\ ~ScopedExhausted(g, r, t) /\ ~PeakHardBarred(a, t)
  BY DEF UsableAt, IsAvailable
<1>4. /\ a \in ApiKeys => ~(f.cap = "dynamic" /\ f.ses >= 5)
      /\ ~(f.verdict = "rejected" /\ f.wk < 10)
  BY DEF Untimed, CapFloor, Exhausted
<1>5. /\ gated <=> ~MatchesRequest(a, r)
      /\ gated => weekly \notin {"exhausted", "capped"} /\ ~ScopedExhausted(f, r, instant)
      /\ gated \/ ~free
  BY DEF FairnessOnlyBlock
<1>6. Recoveries(a, r)
        = IF (gated /\ free) \/ retry.kind = "bounded" THEN {instant + 1}
          ELSE IF retry.at > 0 /\ (retry.kind = "temporary" \/ (retry.kind = "weekly" /\ ~gated))
          THEN {retry.at} ELSE {}
  <2>1. ~(~MatchesRequest(a, r) /\ ~gated) BY <1>5
  <2> HIDE DEF gated, free, retry
  <2> QED BY <2>1 DEF Recoveries, Repoll, gated, free, retry
<1>7. free <=> /\ ~(f.status = "throttled" /\ instant < f.limitedUntil) /\ instant >= f.cooldownUntil
               /\ ~IsSessionQuotaUnavailable(a, f, instant)
               /\ weekly \notin {"exhausted", "capped"}
               /\ ~ScopedExhausted(f, r, instant) /\ ~PeakHardBarred(a, instant)
  BY <1>1, <1>3 DEF IsAvailable
<1>8. retry = IF ScopedExhausted(f, r, instant) THEN Retry("weekly", f.scopedReset)
              ELSE IF PeakHardBarred(a, instant)
              THEN Retry("temporary",
                         Greater(peak.to, Greater(IF short.blocked THEN short.at ELSE 0,
                                                  IF weekly = "exhausted" THEN f.wkReset ELSE 0)))
              ELSE IF weekly \in {"exhausted", "capped"}
              THEN Retry("weekly", IF crossing # Blank THEN crossing ELSE f.wkReset)
              ELSE IF short.blocked /\ short.at # Blank THEN Retry("temporary", short.at)
              ELSE IF weekly = "critical" \/ (~short.blocked /\ f.full) THEN Retry("bounded", Blank)
              ELSE Retry("never", Blank)
  BY <1>1, <1>3 DEF RetryInfo
<1>9. short.blocked => short.at \in Int /\ 0 < short.at /\ short.at <= t
  <2> HIDE DEF f, g
  <2> QED BY <1>1, <1>3, ShortEnds
<1>10. a \in ApiKeys /\ weekly \in {"exhausted", "capped"}
         => weekly = "capped" /\ CapUnbenchAt(f, f.wk, f.wkReset, instant) = t
  <2> HIDE DEF f, g
  <2> QED BY <1>1, <1>3, <1>4, ProviderWeekEnds DEF weekly
<1>11. weekly \in {"exhausted", "capped"} =>
         LET at == IF crossing # Blank THEN crossing ELSE f.wkReset IN at \in Int /\ 0 < at /\ at <= t
  <2>1. CASE a \in ApiKeys
    <3> HIDE DEF f, weekly
    <3> QED BY <1>1, <1>10, <2>1 DEF Blank
  <2>2. CASE a \in Subscriptions
    <3> HIDE DEF f
    <3> QED BY <1>1, <1>3, <1>4, <2>2, WeekEnds DEF weekly
  <2> QED BY <1>1, <2>1, <2>2
<1>12. IsSessionQuotaUnavailable(a, f, instant) => short.blocked
  <2>1. CASE a \in Subscriptions BY <2>1 DEF ShortTerm
  <2>2. CASE a \in ApiKeys
    <3> HIDE DEF f, g
    <3> QED BY <1>1, <1>3, <1>4, <2>2, ProviderSession
  <2> QED BY <1>1, <2>1, <2>2
<1>13. (f.status = "throttled" /\ instant < f.limitedUntil) \/ instant < f.cooldownUntil
         => short.blocked
  BY DEF ShortTerm
<1> HIDE DEF f, g, gated, weekly, short, crossing, free
<1>14. CASE gated /\ free
  <2>1. Recoveries(a, r) = {instant + 1} BY <1>6, <1>14
  <2> QED BY <1>1, <2>1
<1>15. CASE ~free
  <2>1. CASE ScopedExhausted(f, r, instant)
    <3>1. retry = Retry("weekly", f.scopedReset) /\ ~gated BY <1>5, <1>8, <2>1
    <3>2. instant < f.scopedReset /\ f.scopedReset <= t
      BY <1>1, <1>2, <1>3, <2>1 DEF ScopedExhausted
    <3> HIDE DEF retry
    <3>3. retry.kind = "weekly" /\ retry.at = f.scopedReset BY <3>1 DEF Retry
    <3>4. Recoveries(a, r) = {f.scopedReset} BY <1>1, <1>2, <1>6, <1>15, <3>1, <3>2, <3>3
    <3> QED BY <1>2, <3>2, <3>4
  <2>2. CASE ~ScopedExhausted(f, r, instant) /\ PeakHardBarred(a, instant)
    <3> DEFINE held == IF short.blocked THEN short.at ELSE 0
               week == IF weekly = "exhausted" THEN f.wkReset ELSE 0
               at == Greater(peak.to, Greater(held, week))
    <3>1. retry = Retry("temporary", at) BY <1>8, <2>2
    <3>2. peak.to \in Nat /\ peak.to <= t /\ instant < peak.to /\ a \in ApiKeys
      BY <1>1, <1>3, <2>2 DEF PeakHardBarred, InPeak, RouteInv
    <3>3. held \in Int /\ held <= t BY <1>9
    <3>4. week = 0 BY <1>10, <3>2
    <3> HIDE DEF held, week
    <3>5. at \in Nat /\ 0 < at /\ at <= t BY <1>1, <3>2, <3>3, <3>4 DEF Greater
    <3> HIDE DEF retry, at
    <3>6. retry.kind = "temporary" /\ retry.at = at BY <3>1 DEF Retry
    <3>7. Recoveries(a, r) = {at} BY <1>6, <1>15, <3>5, <3>6
    <3> QED BY <3>5, <3>7
  <2>3. CASE /\ ~ScopedExhausted(f, r, instant) /\ ~PeakHardBarred(a, instant)
             /\ weekly \in {"exhausted", "capped"}
    <3> DEFINE at == IF crossing # Blank THEN crossing ELSE f.wkReset
    <3>1. retry = Retry("weekly", at) /\ ~gated BY <1>5, <1>8, <2>3
    <3>2. at \in Int /\ 0 < at /\ at <= t BY <1>11, <2>3
    <3> HIDE DEF retry, at
    <3>3. retry.kind = "weekly" /\ retry.at = at BY <3>1 DEF Retry
    <3>4. Recoveries(a, r) = {at} BY <1>6, <1>15, <3>1, <3>2, <3>3
    <3> QED BY <3>2, <3>4
  <2>4. CASE /\ ~ScopedExhausted(f, r, instant) /\ ~PeakHardBarred(a, instant)
             /\ weekly \notin {"exhausted", "capped"}
    <3>1. short.blocked BY <1>1, <1>2, <1>7, <1>12, <1>13, <1>15, <2>4
    <3>2. short.at \in Int /\ 0 < short.at /\ short.at <= t /\ short.at # Blank
      BY <1>9, <3>1 DEF Blank
    <3>3. retry = Retry("temporary", short.at) BY <1>8, <2>4, <3>1, <3>2
    <3> HIDE DEF retry
    <3>4. retry.kind = "temporary" /\ retry.at = short.at BY <3>3 DEF Retry
    <3>5. Recoveries(a, r) = {short.at} BY <1>6, <1>15, <3>2, <3>4
    <3> QED BY <3>2, <3>5
  <2> QED BY <2>1, <2>2, <2>3, <2>4
<1> QED BY <1>5, <1>14, <1>15

\* A nonempty set of natural numbers has a least one, and Least is it.
LEMMA LeastOfNat ==
  ASSUME NEW S, S \subseteq Int, NEW low \in Int, \A x \in S : low <= x, NEW s \in S
  PROVE  Least(S) \in S /\ Least(S) <= s
<1> DEFINE T == {x - low : x \in S}
           R == OpToRel(<, Nat)
<1>1. T \subseteq Nat /\ T # {} OBVIOUS
<1>2. PICK m \in T : \A y \in T : <<y, m>> \notin R
  <2> HIDE DEF T
  <2> QED BY <1>1, NatLessThanWellFounded, WFMin DEF R
<1>3. \A y \in T : ~(y < m)
  <2> HIDE DEF T
  <2>1. \A y \in T : y < m => <<y, m>> \in R BY <1>1, <1>2, Zenon DEF OpToRel
  <2> QED BY <1>2, <2>1
<1>4. PICK x \in S : m = x - low BY <1>2
<1>5. \A y \in S : x <= y
  <2> SUFFICES ASSUME NEW y \in S PROVE x <= y
    OBVIOUS
  <2>1. y - low \in T OBVIOUS
  <2>2. ~(y - low < x - low) BY <1>3, <1>4, <2>1
  <2>3. x \in Int /\ y \in Int BY <1>4
  <2> HIDE DEF T
  <2> QED BY <2>2, <2>3
<1> HIDE DEF T, R
<1>6. \E z \in S : \A y \in S : z <= y BY <1>5
<1> QED BY <1>6 DEF Least

\* What an account contributes is an instant.
LEMMA RecoveriesAreInstants ==
  ASSUME RouteInv, NEW a \in Fleet, NEW r
  PROVE  Recoveries(a, r) \subseteq Nat
<1> DEFINE retry == RetryInfo(a, fleet[a], r, instant)
<1>1. instant \in Nat BY DEF RouteInv
<1>2. retry.at \in Int
  <2>1. fleet[a] \in RouteAccount BY DEF RouteInv
  <2> DEFINE f == fleet[a]
  <2>2. /\ f.limitedUntil \in Nat /\ f.cooldownUntil \in Nat /\ f.scopedReset \in Nat
        /\ f.ses \in {-1, 3, 6, 9, 10} /\ f.wk \in {-1, 3, 6, 9, 10}
        /\ f.sesReset \in Int /\ f.wkReset \in Int
    BY <2>1, Fields
  <2> HIDE DEF f
  <2>3. \A used \in {-1, 3, 6, 9, 10}, reset \in Int :
           CapUnbenchAt(f, used, reset, instant) \in Int
    <3> SUFFICES ASSUME NEW used \in {-1, 3, 6, 9, 10}, NEW reset \in Int
                 PROVE  CapUnbenchAt(f, used, reset, instant) \in Int
      OBVIOUS
    <3>1. CapUnbenchAt(f, used, reset, instant)
            = IF f.cap = "dynamic" /\ used = 6 /\ instant < reset - 1 THEN reset - 1 ELSE -1
      BY <1>1, <2>1, Crossing DEF f
    <3> QED BY <3>1
  <2> DEFINE short == ShortTerm(a, f, instant)
             weekly == WeeklyRawState(a, f, instant)
             crossing == IF weekly = "capped" THEN CapUnbenchAt(f, f.wk, f.wkReset, instant) ELSE Blank
  <2>4. CapUnbenchAt(f, f.ses, f.sesReset, instant) \in Int
        /\ CapUnbenchAt(f, f.wk, f.wkReset, instant) \in Int
    BY <2>2, <2>3
  <2>5. short.at \in Int BY <2>2, <2>4 DEF ShortTerm, FirstBlocker
  <2>6. crossing \in Int BY <2>4 DEF Blank
  <2>7. peak.to \in Int BY DEF RouteInv
  <2>8. \A x, y \in Int : Greater(x, y) \in Int BY DEF Greater
  <2>9. /\ (IF short.blocked THEN short.at ELSE 0) \in Int
        /\ (IF weekly = "exhausted" THEN f.wkReset ELSE 0) \in Int
        /\ (IF crossing # Blank THEN crossing ELSE f.wkReset) \in Int
    BY <2>2, <2>5, <2>6
  <2>10. Greater(peak.to, Greater(IF short.blocked THEN short.at ELSE 0,
                                  IF weekly = "exhausted" THEN f.wkReset ELSE 0)) \in Int
    BY <2>7, <2>8, <2>9
  <2>11. \A kind : \A at \in Int : Retry(kind, at).at \in Int BY DEF Retry
  <2>12. RetryInfo(a, f, r, instant).at \in Int
    <3> HIDE DEF short, weekly, crossing
    <3>1. short.at \in Int /\ f.scopedReset \in Int /\ Blank \in Int BY <2>2, <2>5 DEF Blank
    <3>2. /\ Retry("never", Blank).at \in Int /\ Retry("bounded", Blank).at \in Int
          /\ Retry("weekly", f.scopedReset).at \in Int /\ Retry("temporary", short.at).at \in Int
          /\ Retry("weekly", IF crossing # Blank THEN crossing ELSE f.wkReset).at \in Int
          /\ Retry("temporary", Greater(peak.to, Greater(IF short.blocked THEN short.at ELSE 0,
                                  IF weekly = "exhausted" THEN f.wkReset ELSE 0))).at \in Int
      BY <2>9, <2>10, <2>11, <3>1
    <3> QED BY <3>2 DEF RetryInfo, short, weekly, crossing
  <2> QED BY <2>12 DEF f
<1> HIDE DEF retry
<1>3. \/ Recoveries(a, r) \in {{}, {instant + 1}}
      \/ retry.at > 0 /\ Recoveries(a, r) = {retry.at}
  BY DEF Recoveries, Repoll, retry
<1> QED BY <1>1, <1>2, <1>3

LEMMA HoldEndsInTime ==
  ASSUME RouteInv, ~Throttled, NEW r, NEW x, Routes(r, x) = {},
         NEW a \in Fleet \ x, NEW t \in Nat, instant < t, UsableAt(a, r, t), ~Untimed(a),
         ~MatchesRequest(a, r) =>
           /\ FairnessOnlyBlock(a, r)
           /\ WeeklyRawState(a, fleet[a], instant) \notin {"exhausted", "capped"}
           /\ ~ScopedExhausted(fleet[a], r, instant)
  PROVE  NextRetry(r, x).at <= t
<1> DEFINE times == UNION {Recoveries(b, r) : b \in Fleet \ x}
           said == \E b \in Fleet \ x : SaysAvailable(b, r)
<1>1. ~ThrottleHolds(r, x) BY DEF ThrottleHolds
<1>2. MatchesRequest(a, r) => ~IsAvailable(a, fleet[a], r, instant, TRUE)
  BY DEF Routes
<1>3. PICK s \in Recoveries(a, r) : s \in Nat /\ s <= t
  BY <1>2, TimedInTime
<1>4. s \in times OBVIOUS
<1>5. times \subseteq Nat
  <2>1. \A b \in Fleet \ x : Recoveries(b, r) \subseteq Nat BY RecoveriesAreInstants
  <2> QED BY <2>1
<1>6. NextRetry(r, x) = IF said THEN [available |-> TRUE, at |-> instant]
                        ELSE [available |-> FALSE, at |-> IF times = {} THEN Forever ELSE Least(times)]
  BY <1>1 DEF NextRetry
<1> HIDE DEF times, said
<1>7. CASE said
  <2>1. NextRetry(r, x).at = instant BY <1>6, <1>7
  <2>2. instant \in Nat BY DEF RouteInv
  <2> QED BY <2>1, <2>2
<1>8. CASE ~said
  <2>1. NextRetry(r, x).at = Least(times) BY <1>4, <1>6, <1>8
  <2>2. Least(times) \in times /\ Least(times) <= s
    <3>1. times \subseteq Int /\ 0 \in Int /\ \A z \in times : 0 <= z BY <1>5
    <3> QED BY <1>4, <3>1, LeastOfNat
  <2>3. Least(times) \in Nat BY <1>5, <2>2
  <2> QED BY <1>3, <2>1, <2>2, <2>3
<1> QED BY <1>7, <1>8

LEMMA ClearedRuns ==
  ASSUME NEW f \in RouteAccount, NEW t \in Nat, Runs(f, t)
  PROVE  Runs(ClearExpiredQuotas(f, t + 1), t + 1)
<1> DEFINE g == ClearExpiredQuotas(f, t + 1)
           gone == f.ses # -1 /\ f.sesReset # -1 /\ t + 1 >= f.sesReset
           over == f.wk # -1 /\ f.wkReset # -1 /\ t + 1 >= f.wkReset
<1>1. t + 1 \in Nat /\ f.sesReset \in Int /\ f.wkReset \in Int BY Fields
<1>2. /\ gone => g.ses = -1 /\ g.sesReset = -1
      /\ ~gone => g.ses = f.ses /\ g.sesReset = f.sesReset
      /\ over => g.wk = -1 /\ g.wkReset = -1
      /\ ~over => g.wk = f.wk /\ g.wkReset = f.wkReset
  BY <1>1, Cleared
<1> HIDE DEF g
<1> QED BY <1>1, <1>2 DEF Runs, Blank, g

LEMMA InitRoute == RouteInit => RouteInv
<1> SUFFICES ASSUME RouteInit PROVE RouteInv
  OBVIOUS
<1>1. FreshAccount \in RouteAccount BY Moments DEF FreshAccount, RouteAccount, Blank
<1>2. \A t : Runs(FreshAccount, t) BY DEF Runs, FreshAccount
<1>3. PICK configured \in {{}, Subscriptions \cup ApiKeys} :
         fleet = [a \in configured |-> FreshAccount]
  BY DEF RouteInit
<1>4. Fleet = configured BY <1>3 DEF Fleet
<1>5. /\ instant \in 0 .. Horizon /\ events \in 0 .. MaxEvents
      /\ peak.to \in Nat /\ peak.from \in Nat
  BY RoutingAssumption DEF RouteInit
<1>6. Fleet \subseteq Subscriptions \cup ApiKeys BY <1>4
<1>7. fleet \in [Fleet -> RouteAccount] BY <1>1, <1>3, <1>4
<1>8. \A a \in Fleet \cap Subscriptions : Runs(fleet[a], instant) BY <1>2, <1>3, <1>4
<1> QED BY <1>5, <1>6, <1>7, <1>8 DEF RouteInv

\* One account changes, to one whose windows run.
LEMMA OneChanges ==
  ASSUME RouteInv, NEW a \in Fleet, NEW f, f \in RouteAccount,
         a \in Subscriptions => Runs(f, instant),
         fleet' = [fleet EXCEPT ![a] = f], UNCHANGED <<instant, peak>>, Note
  PROVE  RouteInv'
<1>1. Fleet' = Fleet BY DEF RouteInv, Fleet
<1>2. fleet' \in [Fleet -> RouteAccount] BY DEF RouteInv
<1>3. \A b \in Fleet \cap Subscriptions : Runs(fleet'[b], instant) BY DEF RouteInv
<1>4. events' \in 0 .. MaxEvents BY RoutingAssumption DEF RouteInv, Note
<1> QED BY <1>1, <1>2, <1>3, <1>4 DEF RouteInv

LEMMA NextRoute == RouteInv /\ [RouteNext]_fvars => RouteInv'
<1> SUFFICES ASSUME RouteInv, [RouteNext]_fvars PROVE RouteInv'
  OBVIOUS
<1>1. instant \in 0 .. Horizon /\ instant \in Nat /\ \A a \in Fleet : fleet[a] \in RouteAccount
  BY DEF RouteInv
<1>2. CASE ClockTicks
  <2>1. /\ instant' = instant + 1 /\ instant' \in 0 .. Horizon /\ UNCHANGED <<peak, events>>
        /\ fleet' = [a \in Fleet |-> Later(a, instant + 1)]
    BY <1>1, <1>2, RoutingAssumption DEF ClockTicks
  <2>2. Fleet' = Fleet BY <2>1 DEF Fleet
  <2>3. ASSUME NEW a \in Fleet
        PROVE  /\ Later(a, instant + 1) \in RouteAccount
               /\ a \in Subscriptions => Runs(Later(a, instant + 1), instant + 1)
    <3>1. instant + 1 \in Nat BY <1>1
    <3>2. Later(a, instant + 1) \in RouteAccount BY <3>1, LaterAccount
    <3>3. ASSUME a \in Subscriptions PROVE Runs(Later(a, instant + 1), instant + 1)
      <4>1. /\ Later(a, instant + 1) = ClearExpiredQuotas(fleet[a], instant + 1)
            /\ Runs(fleet[a], instant)
        BY <3>1, <3>3, LaterAccount
      <4>2. fleet[a] \in RouteAccount BY <1>1
      <4> QED BY <1>1, <3>1, <4>1, <4>2, ClearedRuns
    <3> QED BY <3>2, <3>3
  <2>4. fleet' \in [Fleet -> RouteAccount] BY <2>1, <2>3
  <2>5. \A a \in Fleet \cap Subscriptions : Runs(fleet'[a], instant') BY <2>1, <2>3
  <2> QED BY <1>1, <2>1, <2>2, <2>4, <2>5 DEF RouteInv
<1>3. ASSUME NEW a \in Fleet,
             \/ HeadersRead(a) \/ UsageProbed(a) \/ RateLimited(a) \/ CooledDown(a)
             \/ ModelExhausted(a) \/ TakenOut(a) \/ FillsUp(a) \/ CapSet(a)
      PROVE  RouteInv'
  <2>1. CASE HeadersRead(a)
    <3>1. PICK ses \in {3, 6, 10}, wk \in {3, 6, 9, 10}, v \in {"allowed", "rejected"},
               sr \in {Blank, instant + 2}, wr \in {instant + 1, instant + Span} :
            fleet' = [fleet EXCEPT ![a].ses = ses, ![a].wk = wk,
                       ![a].sesReset = IF sr = Blank THEN @ ELSE sr,
                       ![a].wkReset = IF sr = Blank THEN @ ELSE wr,
                       ![a].verdict = IF v = "rejected" /\ ses < Exhausted /\ wk < Exhausted
                                      THEN "allowed" ELSE v]
      BY <2>1 DEF HeadersRead
    <3> DEFINE verdict == IF v = "rejected" /\ ses < Exhausted /\ wk < Exhausted
                          THEN "allowed" ELSE v
               f == fleet[a]
               sesReset == IF sr = Blank THEN f.sesReset ELSE sr
               wkReset == IF sr = Blank THEN f.wkReset ELSE wr
               h == [f EXCEPT !.ses = ses, !.wk = wk, !.sesReset = sesReset, !.wkReset = wkReset,
                              !.verdict = verdict]
    <3>2. f \in RouteAccount /\ Runs(f, instant)
      BY <1>1, <2>1 DEF RouteInv, HeadersRead
    <3>3. fleet' = [fleet EXCEPT ![a] = h] /\ UNCHANGED <<instant, peak>> /\ Note
      <4>1. UNCHANGED <<instant, peak>> /\ Note BY <2>1 DEF HeadersRead
      <4>2. fleet' = [fleet EXCEPT ![a].ses = ses, ![a].wk = wk, ![a].sesReset = sesReset,
                                   ![a].wkReset = wkReset, ![a].verdict = verdict]
        BY <3>1
      <4> HIDE DEF sesReset, wkReset, verdict
      <4>3. fleet' = [fleet EXCEPT ![a] = h] BY <4>2
      <4> QED BY <4>1, <4>3
    <3>4. f.sesReset \in Moment /\ f.wkReset \in Moment BY <3>2 DEF RouteAccount
    <3>5. /\ sesReset \in Moment /\ (sesReset = Blank \/ instant < sesReset)
          /\ wkReset \in Moment /\ (wkReset = Blank \/ instant < wkReset)
      <4>1. 1 \in 1 .. Span /\ 2 \in 1 .. Span /\ Span \in 1 .. Span BY DEF Span
      <4>2. \A n \in 1 .. Span : instant + n \in Moment /\ instant < instant + n BY <1>1, Moments
      <4> HIDE DEF f
      <4> QED BY <3>2, <3>4, <4>1, <4>2 DEF Runs
    <3>6. verdict \in {"allowed", "rejected"} OBVIOUS
    <3> HIDE DEF sesReset, wkReset, verdict, f
    <3>7. h \in RouteAccount BY <3>2, <3>5, <3>6 DEF RouteAccount
    <3>8. h.ses = ses /\ h.wk = wk /\ h.sesReset = sesReset /\ h.wkReset = wkReset
      BY <3>2 DEF RouteAccount
    <3> HIDE DEF h
    <3>9. Runs(h, instant) BY <3>5, <3>8 DEF Runs, Blank
    <3> QED BY <3>3, <3>7, <3>9, OneChanges
  <2>2. CASE UsageProbed(a)
    <3>1. PICK ses \in {3, 6, 10}, wk \in {Blank, 3, 6, 9, 10}, wr \in {instant + 2, instant + Span} :
            fleet' = [fleet EXCEPT ![a].ses = ses, ![a].sesReset = instant + 2, ![a].wk = wk,
                       ![a].wkReset = IF wk = Blank THEN Blank ELSE wr]
      BY <2>2 DEF UsageProbed
    <3> DEFINE f == fleet[a]
               wkReset == IF wk = Blank THEN Blank ELSE wr
               h == [f EXCEPT !.ses = ses, !.sesReset = instant + 2, !.wk = wk, !.wkReset = wkReset]
    <3>2. a \notin Subscriptions /\ UNCHANGED <<instant, peak>> /\ Note
      BY <2>2, RoutingAssumption DEF UsageProbed
    <3>3. fleet' = [fleet EXCEPT ![a] = h] BY <3>1
    <3>4. wkReset \in Moment /\ instant + 2 \in Moment
      <4>1. 2 \in 1 .. Span /\ Span \in 1 .. Span BY DEF Span
      <4> QED BY <1>1, <4>1, Moments
    <3> HIDE DEF wkReset
    <3>5. h \in RouteAccount BY ZenonT(60), <1>1, <3>4 DEF RouteAccount
    <3> QED BY <3>2, <3>3, <3>5, OneChanges
  <2>3. CASE \/ RateLimited(a) \/ CooledDown(a) \/ ModelExhausted(a) \/ TakenOut(a)
             \/ FillsUp(a) \/ CapSet(a)
    <3>1. PICK h \in {[fleet[a] EXCEPT !.status = "throttled", !.limitedUntil = instant + 1],
                      [fleet[a] EXCEPT !.cooldownUntil = instant + 2],
                      [fleet[a] EXCEPT !.scopedReset = instant + 3],
                      [fleet[a] EXCEPT !.status = "error", !.limitedUntil = 0, !.cooldownUntil = 0],
                      [fleet[a] EXCEPT !.gone = ~@], [fleet[a] EXCEPT !.enabled = ~@],
                      [fleet[a] EXCEPT !.full = ~@], [fleet[a] EXCEPT !.cap = "none"],
                      [fleet[a] EXCEPT !.cap = "fixed"], [fleet[a] EXCEPT !.cap = "dynamic"]} :
             fleet' = [fleet EXCEPT ![a] = h]
      BY <2>3 DEF RateLimited, CooledDown, ModelExhausted, TakenOut, FillsUp, CapSet
    <3>2. UNCHANGED <<instant, peak>> /\ Note
      BY <2>3 DEF RateLimited, CooledDown, ModelExhausted, TakenOut, FillsUp, CapSet
    <3> DEFINE f == fleet[a]
    <3>3. f \in RouteAccount /\ (a \in Subscriptions => Runs(f, instant)) BY <1>1 DEF RouteInv
    <3>4. h \in RouteAccount
      <4> HIDE DEF f
      <4>1. /\ \A n \in Nat :
                  [f EXCEPT !.status = "throttled", !.limitedUntil = n] \in RouteAccount
            /\ [f EXCEPT !.status = "error", !.limitedUntil = 0, !.cooldownUntil = 0] \in RouteAccount
        BY <3>3 DEF RouteAccount
      <4>2. \A n \in Nat : /\ [f EXCEPT !.cooldownUntil = n] \in RouteAccount
                            /\ [f EXCEPT !.scopedReset = n] \in RouteAccount
        BY <3>3 DEF RouteAccount
      <4>3. \A flag \in BOOLEAN : /\ [f EXCEPT !.gone = flag] \in RouteAccount
                                  /\ [f EXCEPT !.enabled = flag] \in RouteAccount
                                  /\ [f EXCEPT !.full = flag] \in RouteAccount
        BY <3>3 DEF RouteAccount
      <4>4. (~f.gone) \in BOOLEAN /\ (~f.enabled) \in BOOLEAN /\ (~f.full) \in BOOLEAN OBVIOUS
      <4>5. \A c \in {"none", "fixed", "dynamic"} : [f EXCEPT !.cap = c] \in RouteAccount
        BY <3>3 DEF RouteAccount
      <4>6. instant + 1 \in Nat /\ instant + 2 \in Nat /\ instant + 3 \in Nat BY <1>1
      <4> QED BY <4>1, <4>2, <4>3, <4>4, <4>5, <4>6 DEF f
    <3>5. h.ses = f.ses /\ h.wk = f.wk /\ h.sesReset = f.sesReset /\ h.wkReset = f.wkReset
      BY <3>3 DEF RouteAccount
    <3> HIDE DEF f
    <3>6. a \in Subscriptions => Runs(h, instant) BY <3>3, <3>5 DEF Runs
    <3> QED BY <3>1, <3>2, <3>4, <3>6, OneChanges
  <2> QED BY <1>3, <2>1, <2>2, <2>3
<1>4. CASE SetPeakSettings
  BY <1>1, <1>4, RoutingAssumption DEF SetPeakSettings, Note, RouteInv, Fleet
<1>5. CASE GatesMove BY <1>5, RoutingAssumption DEF GatesMove, Note, RouteInv, Fleet
<1>6. CASE UNCHANGED fvars BY <1>6 DEF fvars, RouteInv, Fleet
<1> QED BY <1>2, <1>3, <1>4, <1>5, <1>6 DEF RouteNext

(* The readings of an account, and the stamps of their windows, stay those *)
(* that headers, probes and resets bring: account-manager.js, whatever is  *)
(* enabled, lost or cooled down in between.                                *)
THEOREM RouteTypes == RouteSpec => []RouteTypeOK
<1>1. RouteInv => RouteTypeOK
  <2> SUFFICES ASSUME RouteInv, NEW a \in Fleet
               PROVE  /\ DOMAIN fleet[a] = DOMAIN FreshAccount
                      /\ fleet[a].status \in {"active", "throttled", "error"}
                      /\ fleet[a].cap \in {"none", "fixed", "dynamic"}
                      /\ {fleet[a].ses, fleet[a].wk} \subseteq Blank .. Exhausted
                      /\ {fleet[a].sesReset, fleet[a].wkReset} \subseteq Blank .. Horizon + Span
    BY DEF RouteInv, RouteTypeOK
  <2>1. fleet[a] \in RouteAccount BY DEF RouteInv
  <2>2. FreshAccount \in RouteAccount BY Moments DEF FreshAccount, RouteAccount, Blank
  <2>3. \A f \in RouteAccount : DOMAIN f = DOMAIN FreshAccount BY DEF RouteAccount, FreshAccount
  <2>4. /\ fleet[a].status \in {"active", "throttled", "error"}
        /\ fleet[a].cap \in {"none", "fixed", "dynamic"}
        /\ fleet[a].ses \in {Blank, 3, 6, 10} /\ fleet[a].wk \in {Blank, 3, 6, 9, 10}
        /\ fleet[a].sesReset \in Moment /\ fleet[a].wkReset \in Moment
    BY <2>1 DEF RouteAccount
  <2>5. {Blank, 3, 6, 9, 10} \subseteq Blank .. Exhausted BY DEF Blank, Exhausted
  <2> QED BY <2>1, <2>3, <2>4, <2>5 DEF Moment
<1> QED BY <1>1, InitRoute, NextRoute, PTL DEF RouteSpec

(* A request that selection refuses now is told to come back no later than *)
(* the first of its accounts does, for any accounts, requests and          *)
(* exclusions; but for the two windows that the code does not time.        *)
THEOREM HoldsEndInTime == RouteSpec => []HoldIsNotLate
<1>1. RouteInv => HoldIsNotLate
  <2> SUFFICES ASSUME RouteInv, ~Throttled, NEW r \in RequestKinds, NEW x \in Exclusions,
                      Routes(r, x) = {}, NEW a \in Fleet \ x, NEW t \in instant + 1 .. instant + Span,
                      UsableAt(a, r, t), ~Untimed(a),
                      ~(/\ ~MatchesRequest(a, r)
                        /\ \/ ~FairnessOnlyBlock(a, r)
                           \/ WeeklyRawState(a, fleet[a], instant) \in {"exhausted", "capped"}
                           \/ ScopedExhausted(fleet[a], r, instant))
               PROVE  NextRetry(r, x).at <= t
    BY DEF HoldIsNotLate
  <2>1. t \in Nat /\ instant < t BY DEF RouteInv, Span
  <2> QED BY <2>1, HoldEndsInTime
<1> QED BY <1>1, InitRoute, NextRoute, PTL DEF RouteSpec
=============================================================================
