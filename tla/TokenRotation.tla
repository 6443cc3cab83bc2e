---------------------------- MODULE TokenRotation ----------------------------
(***************************************************************************)
(* The life of the single-use OAuth refresh tokens: ensureTokenFresh and   *)
(* updateAccountTokens of account-manager.js, refreshAccessToken of        *)
(* oauth.js, and the writers of the config file in index.js and config.js, *)
(* in the worker processes of one alPool.                                  *)
(*                                                                         *)
(* A token is the number of its issue, 0 is none: account a starts with    *)
(* token a.  The access token and the expiry go with the refresh token,    *)
(* and a later issue expires later.  That one process at most rotates is   *)
(* what Supervisor shows of the baton: here it is the guard of BootCold    *)
(* and TakeOver.  One action is one event-loop turn, one decision of the   *)
(* OAuth server, or the end of a file operation.                           *)
(***************************************************************************)
EXTENDS Naturals, Sequences, FiniteSets

CONSTANTS
  NumAccounts,  \* accounts in the config file
  Worker,       \* worker processes
  MaxIssues,    \* bound on the tokens issued by refreshes and logins
  MaxTroubles,  \* bound on kills, failed writes and upstream revocations
  MaxQueue,     \* bound on the config updates queued when a user queues one
  Mishaps       \* what the users and the timers may do, see below

\* "delete"  : an account is deleted whatever else is in flight
\* "overlap" : a headless worker saves the config while the primary saves it
\* "login"   : a refresh that a new login of its account overtook succeeds
ASSUME TokenAssumption ==
  /\ NumAccounts \in Nat /\ MaxIssues \in Nat
  /\ MaxTroubles \in Nat /\ MaxQueue \in Nat
  /\ Mishaps \subseteq {"delete", "overlap", "login"}

Account == 1..NumAccounts
Token   == 0..(NumAccounts + MaxIssues)

VARIABLES
  issues,       \* tokens issued since the start, at most MaxIssues
  spent,        \* the tokens that the OAuth server refuses: used or revoked
  disk,         \* the refresh token of each account in the config file
  phase,        \* phase[w]: the life of process w, as in Supervisor
  list,         \* list[w]: accountManager.accounts, in order
  mem, from,    \* refreshToken and _refreshedFrom of each account
  status,       \* "active", "error", or "dead" for refreshDead
  job,          \* job[w][a]: the refresh behind _refreshPromise
  chain,        \* chain[w]: _configWriteChain, the updates not yet on disk
  content,      \* content[w]: what the update at its head is writing
  cut,          \* history: accounts whose token was lost in a way the code
                \* cannot prevent: a kill, a lost answer, a failed write, a
                \* revocation
  troubles      \* how many of MaxTroubles have happened

server  == <<issues, spent>>
memory  == <<list, mem, from, status>>
writes  == <<chain, content>>
vars    == <<server, disk, phase, memory, job, writes, cut, troubles>>

Job    == [at : {"idle", "sent", "answered", "refused", "saving"},
           tok : Token, new : Token, idx : Nat]
Idle   == [at |-> "idle", tok |-> 0, new |-> 0, idx |-> 0]
Update == [kind : {"rotated", "adopted", "live", "delete"}, acct : Account \cup {0},
           tok : Token, owner : Account \cup {0}]

\* The accounts of A in the order of the config file.
InOrder(A) ==
  {s \in [1..Cardinality(A) -> A] : \A i, j \in DOMAIN s : i < j => s[i] < s[j]}

Members(w) == {list[w][i] : i \in DOMAIN list[w]}
Rotating(w) == phase[w] \in {"primary", "draining"}

TypeOK ==
  /\ issues \in 0..MaxIssues
  /\ spent \subseteq Token
  /\ disk \in [Account -> Token]
  /\ phase \in [Worker -> {"none", "headless", "primary", "draining"}]
  /\ list \in [Worker -> Seq(Account)]
  /\ mem \in [Worker -> [Account -> Token]]
  /\ \A w \in Worker : \A a \in Members(w) : mem[w][a] # 0
  /\ from \in [Worker -> [Account -> Token]]
  /\ status \in [Worker -> [Account -> {"active", "error", "dead"}]]
  /\ job \in [Worker -> [Account -> Job]]
  /\ chain \in [Worker -> Seq(Update)]
  /\ content \in [Worker -> {<<>>} \cup {<<d>> : d \in [Account -> Token]}]
  /\ \A w \in Worker : content[w] # <<>> => chain[w] # <<>>
  /\ cut \subseteq Account
  /\ troubles \in 0..MaxTroubles

Nothing == [a \in Account |-> 0]
Fresh   == [a \in Account |-> "active"]

Init ==
  /\ issues = 0 /\ spent = {}
  /\ disk = [a \in Account |-> a]
  /\ phase = [w \in Worker |-> "none"]
  /\ list = [w \in Worker |-> <<>>]
  /\ mem = [w \in Worker |-> Nothing] /\ from = [w \in Worker |-> Nothing]
  /\ status = [w \in Worker |-> Fresh]
  /\ job = [w \in Worker |-> [a \in Account |-> Idle]]
  /\ chain = [w \in Worker |-> <<>>] /\ content = [w \in Worker |-> <<>>]
  /\ cut = {} /\ troubles = 0

\* The token that the server issues next.
New   == NumAccounts + issues + 1
Issue == issues < MaxIssues /\ issues' = issues + 1

Trouble == troubles < MaxTroubles /\ troubles' = troubles + 1

\* Unless Mishaps says otherwise, no refresh and no process starts while an
\* account is being deleted.
NotDeleting ==
  "delete" \in Mishaps
  \/ \A w \in Worker : \A i \in DOMAIN chain[w] : chain[w][i].kind # "delete"

(***************************************************************************)
(* Processes.                                                              *)
(***************************************************************************)

\* (mutant: an account that is not in the file is loaded too)
Load_Unfiltered(w) ==
  /\ \E s \in InOrder(Account) : list' = [list EXCEPT ![w] = s]
  /\ mem' = [mem EXCEPT ![w] = disk]
  /\ from' = [from EXCEPT ![w] = Nothing]
  /\ status' = [status EXCEPT ![w] = Fresh]

\* serverCommand builds the account manager from the config file.
Load(w) ==
  /\ \E s \in InOrder({a \in Account : disk[a] # 0}) : list' = [list EXCEPT ![w] = s]
  /\ mem' = [mem EXCEPT ![w] = disk]
  /\ from' = [from EXCEPT ![w] = Nothing]
  /\ status' = [status EXCEPT ![w] = Fresh]

Becomes(w, p) == phase' = [phase EXCEPT ![w] = p]

BootCold(w) ==
  /\ phase[w] = "none" /\ \A v \in Worker : ~Rotating(v)
  /\ Becomes(w, "primary") /\ Load(w)
  /\ UNCHANGED <<server, disk, job, writes, cut, troubles>>

BootHeadless(w) ==
  /\ phase[w] = "none" /\ NotDeleting
  /\ \E v \in Worker : phase[v] = "primary"
  /\ \A v \in Worker : phase[v] # "headless"
  /\ Becomes(w, "headless") /\ Load(w)
  /\ UNCHANGED <<server, disk, job, writes, cut, troubles>>

\* syncAccountsFromDisk: adopt the tokens on disk that are newer than ours, and
\* have updateAccountTokens queue a save of each.
Adopt(w) ==
  LET newer   == {a \in Members(w) : disk[a] > mem[w][a]}
      save(a) == [kind |-> "adopted", acct |-> a, tok |-> disk[a], owner |-> 0]
  IN
  /\ mem' = [mem EXCEPT ![w] = [a \in Account |-> IF a \in newer THEN disk[a] ELSE @[a]]]
  /\ status' = [status EXCEPT ![w] = [a \in Account |-> IF a \in newer THEN "active" ELSE @[a]]]
  /\ \E s \in InOrder(newer) :
       chain' = [chain EXCEPT ![w] = @ \o [i \in DOMAIN s |-> save(s[i])]]

\* (mutant: no re-sync at the takeover)
TakeOver_NoSync(w) ==
  /\ phase[w] = "headless"
  /\ \A v \in Worker : ~Rotating(v)
  /\ Becomes(w, "primary")
  /\ UNCHANGED <<server, disk, memory, job, writes, cut, troubles>>

\* becomePrimary({viaTakeover}): re-sync, then acquireLease.
TakeOver(w) ==
  /\ phase[w] = "headless" /\ ("overlap" \in Mishaps \/ chain[w] = <<>>)
  /\ \A v \in Worker : ~Rotating(v)
  /\ Becomes(w, "primary") /\ Adopt(w)
  /\ UNCHANGED <<server, disk, list, from, job, content, cut, troubles>>

\* The sync timer, which runs in a headless worker too.  An account that it finds
\* on disk and not in memory it adds: never, as long as none is being deleted.
SyncAccounts(w) ==
  /\ \/ phase[w] = "primary"
     \/ phase[w] = "headless" /\ ("overlap" \in Mishaps \/ \A v \in Worker : chain[v] = <<>>)
  /\ \A i \in DOMAIN chain[w] : chain[w][i].kind # "delete"
  /\ Adopt(w)
  /\ UNCHANGED <<server, disk, phase, list, from, job, content, cut, troubles>>

\* releaseBatonAndDrain: the lease is dropped and the sync timer stopped ...
Release(w) ==
  /\ phase[w] = "primary" /\ \E v \in Worker : phase[v] = "headless"
  /\ Becomes(w, "draining")
  /\ UNCHANGED <<server, disk, memory, job, writes, cut, troubles>>

\* The process ends: w's memory, refreshes and queued writes are gone.  The
\* server may still handle the requests of the refreshes in lost.
Gone(w, lost) ==
  /\ Becomes(w, "none")
  /\ list' = [list EXCEPT ![w] = <<>>]
  /\ mem' = [mem EXCEPT ![w] = Nothing] /\ from' = [from EXCEPT ![w] = Nothing]
  /\ status' = [status EXCEPT ![w] = Fresh]
  /\ job' = [job EXCEPT ![w] = [a \in Account |-> Idle]]
  /\ chain' = [chain EXCEPT ![w] = <<>>] /\ content' = [content EXCEPT ![w] = <<>>]
  /\ spent' = spent \cup {job[w][a].tok : a \in lost}
  /\ UNCHANGED <<issues, disk>>

\* (mutant: without the barrier on the config writes)
Released_NoBarrier(w) ==
  /\ phase[w] = "draining"
  /\ \A a \in Account : job[w][a].at \in {"idle", "saving"}
  /\ Gone(w, {})
  /\ UNCHANGED <<cut, troubles>>

\* ... then drainRefreshes and flushConfigWrites have settled.  What is left of
\* the released worker serves requests with its access tokens.
Released(w) ==
  /\ phase[w] = "draining"
  /\ \A a \in Account : job[w][a] = Idle
  /\ chain[w] = <<>>
  /\ Gone(w, {})
  /\ UNCHANGED <<cut, troubles>>

\* SIGKILL, a crash, or an exit that does not wait (a drain budget ran out, a
\* reload rolled back).
Kill(w) ==
  /\ phase[w] \in {"headless", "primary", "draining"} /\ Trouble
  /\ \E lost \in SUBSET {a \in Account : job[w][a].at = "sent"} : Gone(w, lost)
  /\ cut' = cut \cup {a \in Account : job[w][a] # Idle}
                \cup ({chain[w][i].acct : i \in DOMAIN chain[w]} \cap Account)

(***************************************************************************)
(* One refresh: ensureTokenFresh and refreshAccessToken.                   *)
(***************************************************************************)

\* The lease, the latch and the coalescing promise let it start; the request,
\* the prober or a 401 wants it.
StartRefresh(w, a) ==
  /\ phase[w] = "primary" /\ a \in Members(w) /\ NotDeleting
  /\ status[w][a] # "dead" /\ job[w][a] = Idle
  /\ \E i \in DOMAIN list[w] :
       /\ list[w][i] = a
       /\ job' = [job EXCEPT ![w][a] = [at |-> "sent", tok |-> mem[w][a], new |-> 0, idx |-> i]]
  /\ from' = [from EXCEPT ![w][a] = mem[w][a]]
  /\ UNCHANGED <<server, disk, phase, list, mem, status, writes, cut, troubles>>

Ends(w, a, how) == job' = [job EXCEPT ![w][a].at = how]

\* The server rotates the token and the answer arrives; or it answers without a
\* new refresh token, and the old one stays.
Accept(w, a) ==
  LET t == job[w][a].tok IN
  /\ job[w][a].at = "sent" /\ t \notin spent
  /\ mem[w][a] # t => "login" \in Mishaps
  /\ \/ /\ Issue
        /\ spent' = spent \cup {t}
        /\ job' = [job EXCEPT ![w][a].at = "answered", ![w][a].new = New]
     \/ /\ job' = [job EXCEPT ![w][a].at = "answered", ![w][a].new = t]
        /\ UNCHANGED server
  /\ UNCHANGED <<disk, phase, memory, writes, cut, troubles>>

\* The server no longer accepts the token of the refresh, and w does not know.
Lose(w, a) ==
  /\ spent' = spent \cup {job[w][a].tok}
  /\ cut' = cut \cup (IF mem[w][a] = job[w][a].tok THEN {a} ELSE {})

\* 4xx: the token was used before, or it is revoked.
Refuse(w, a) ==
  LET t == job[w][a].tok IN
  /\ job[w][a].at = "sent"
  /\ IF t \in spent THEN UNCHANGED <<spent, cut, troubles>>
     ELSE Trouble /\ Lose(w, a)
  /\ Ends(w, a, "refused")
  /\ UNCHANGED <<issues, disk, phase, memory, writes>>

\* The continuation after a successful refresh: the tokens go to memory, and
\* persistTokenRefresh queues a save for whichever account now has the index
\* that ensureTokenFresh was called with.
Refreshed(w, a) ==
  LET j == job[w][a] IN
  /\ j.at = "answered"
  /\ mem' = [mem EXCEPT ![w][a] = j.new]
  /\ status' = [status EXCEPT ![w][a] = IF @ = "dead" THEN @ ELSE "active"]
  /\ IF j.idx \in DOMAIN list[w]
     THEN /\ chain' = [chain EXCEPT ![w] = Append(@,
               [kind |-> "rotated", acct |-> list[w][j.idx], tok |-> j.new, owner |-> a])]
          /\ Ends(w, a, "saving")
     ELSE /\ job' = [job EXCEPT ![w][a] = Idle] /\ UNCHANGED chain
  /\ UNCHANGED <<server, disk, phase, list, from, content, cut, troubles>>

\* The refresh fails for now, after the attempts that the code makes: 429, 5xx,
\* no connection.  Or the server rotated the token and the answer is lost.  The
\* account cools down at most.
RefreshFails(w, a) ==
  LET t == job[w][a].tok IN
  /\ job[w][a].at = "sent"
  /\ job' = [job EXCEPT ![w][a] = Idle]
  /\ \/ UNCHANGED <<spent, cut>>
     \/ t \notin spent /\ Lose(w, a)
  /\ UNCHANGED <<issues, disk, phase, memory, writes, troubles>>

\* The refresh was refused.  If the access token we hold has expired too, which
\* that of a newer login has not, the account is out: markAuthFailed by index,
\* refreshDead on the account itself.
RefreshRefused(w, a) ==
  LET j == job[w][a]
      blamed == IF j.idx \in DOMAIN list[w] THEN {list[w][j.idx]} ELSE {}
  IN
  /\ j.at = "refused"
  /\ job' = [job EXCEPT ![w][a] = Idle]
  /\ \/ UNCHANGED status
     \/ /\ mem[w][a] = j.tok
        /\ status' = [status EXCEPT ![w] = [b \in Account |->
             IF b = a THEN "dead"
             ELSE IF b \in blamed /\ status[w][b] = "active" THEN "error" ELSE status[w][b]]]
  /\ UNCHANGED <<server, disk, phase, list, mem, from, writes, cut, troubles>>

(***************************************************************************)
(* The config file: atomicConfigUpdate and the updates it runs in turn.    *)
(***************************************************************************)

\* persistTokenRefresh, with its generation guard.
Rotated(w, u) ==
  IF disk[u.acct] \in {from[w][u.acct], u.tok} /\ disk[u.acct] # 0
  THEN [disk EXCEPT ![u.acct] = u.tok] ELSE disk

\* persistLiveConfig: the accounts of the configuration, with the tokens that
\* the account manager has now.  A deletion takes its account out of the
\* configuration before it queues its update.
Live(w) ==
  LET deleted == {chain[w][i].acct : i \in {i \in DOMAIN chain[w] : chain[w][i].kind = "delete"}}
  IN [a \in Account |-> IF a \in Members(w) \ deleted THEN mem[w][a] ELSE 0]

\* loadConfig has returned: the updater runs on what it read.
ConfigRead(w) ==
  /\ chain[w] # <<>> /\ content[w] = <<>>
  /\ "overlap" \in Mishaps \/ phase[w] = "headless"
     \/ \A v \in Worker : phase[v] = "headless" => chain[v] = <<>>
  /\ LET u == Head(chain[w]) IN
     content' = [content EXCEPT ![w] =
       << IF u.kind \in {"rotated", "adopted"} THEN Rotated(w, u) ELSE Live(w) >>]
  /\ UNCHANGED <<server, disk, phase, memory, job, chain, cut, troubles>>

\* The update at the head is over, on disk or not; who awaited it goes on.
Settle(w) ==
  LET u == Head(chain[w]) IN
  /\ chain' = [chain EXCEPT ![w] = Tail(@)] /\ content' = [content EXCEPT ![w] = <<>>]
  /\ job' = IF u.kind = "rotated" THEN [job EXCEPT ![w][u.owner] = Idle] ELSE job

\* removeAccount, by the index found before the await.
ConfigWrite(w) ==
  /\ content[w] # <<>>
  /\ disk' = content[w][1]
  /\ Settle(w)
  /\ LET u == Head(chain[w]) IN
     IF u.kind = "delete"
     THEN \E s \in InOrder(Members(w) \ {u.acct}) : list' = [list EXCEPT ![w] = s]
     ELSE UNCHANGED list
  /\ UNCHANGED <<server, phase, mem, from, status, cut, troubles>>

ConfigFails(w) ==
  /\ content[w] # <<>> /\ Trouble
  /\ Settle(w)
  /\ cut' = cut \cup ({Head(chain[w]).acct} \cap Account)
  /\ UNCHANGED <<server, disk, phase, memory>>

(***************************************************************************)
(* What the user does in the terminal or through the control service.      *)
(***************************************************************************)

Queue(w, k, a) ==
  chain' = [chain EXCEPT ![w] = Append(@, [kind |-> k, acct |-> a, tok |-> 0, owner |-> 0])]

\* (mutant: the latch of the dead account stays)
Relogin_KeepsLatch(w, a) ==
  /\ phase[w] = "primary" /\ a \in Members(w) /\ Len(chain[w]) < MaxQueue
  /\ job[w][a].at = "answered" => "login" \in Mishaps
  /\ Issue
  /\ mem' = [mem EXCEPT ![w][a] = New]
  /\ Queue(w, "live", a) /\ cut' = cut \ {a}
  /\ UNCHANGED <<spent, disk, phase, list, from, status, job, content, troubles>>

\* _upsertOAuthAccount after a browser login of a known account.
Relogin(w, a) ==
  /\ phase[w] = "primary" /\ a \in Members(w) /\ Len(chain[w]) < MaxQueue
  /\ job[w][a].at = "answered" => "login" \in Mishaps
  /\ Issue
  /\ mem' = [mem EXCEPT ![w][a] = New]
  /\ status' = [status EXCEPT ![w][a] = "active"]
  /\ Queue(w, "live", a) /\ cut' = cut \ {a}
  /\ UNCHANGED <<spent, disk, phase, list, from, job, content, troubles>>

\* Any setting that is saved: persistLiveConfig.
SaveSettings(w) ==
  /\ phase[w] = "primary" /\ Len(chain[w]) < MaxQueue
  /\ Queue(w, "live", 0)
  /\ UNCHANGED <<server, disk, phase, memory, job, content, cut, troubles>>

\* An account with no request in flight is deleted: saved first, then removed.
Delete(w, a) ==
  /\ phase[w] = "primary" /\ a \in Members(w) /\ Len(chain[w]) < MaxQueue
  /\ \/ "delete" \in Mishaps
     \/ /\ \A b \in Account : job[w][b] = Idle
        /\ \A v \in Worker : phase[v] # "headless"
  /\ Queue(w, "delete", a)
  /\ UNCHANGED <<server, disk, phase, memory, job, content, cut, troubles>>

-----------------------------------------------------------------------------
Next ==
  \E w \in Worker :
    \/ BootCold(w) \/ BootHeadless(w) \/ TakeOver(w) \/ SyncAccounts(w)
    \/ Release(w) \/ Released(w) \/ Kill(w)
    \/ ConfigRead(w) \/ ConfigWrite(w) \/ ConfigFails(w) \/ SaveSettings(w)
    \/ \E a \in Account :
         \/ StartRefresh(w, a) \/ Accept(w, a) \/ Refuse(w, a)
         \/ Refreshed(w, a) \/ RefreshFails(w, a) \/ RefreshRefused(w, a)
         \/ Relogin(w, a) \/ Delete(w, a)

Spec == Init /\ [][Next]_vars

(***************************************************************************)
(* Properties.                                                             *)
(***************************************************************************)

\* w is about to put a token of a on disk.
Saving(w, a) == job[w][a] # Idle \/ \E i \in DOMAIN chain[w] : chain[w][i].acct = a

\* account-manager.js:4415-4418: once the refresh of an account is over, the
\* file holds a token that the server accepts.
NoTokenLost ==
  \A a \in Account \ cut :
    disk[a] \in spent => \E w \in Worker : Rotating(w) /\ Saving(w, a)

\* index.js:1519-1522: the token that the lease holder would present next was
\* not presented before, by it or by its predecessors.
HolderIsCurrent ==
  \A w \in Worker : \A a \in Members(w) \ cut :
    phase[w] = "primary" /\ job[w][a] = Idle => mem[w][a] \notin spent

\* An account is out only if the server refuses the token it holds: no refusal
\* meant for another account, or for a token replaced since, puts it out.
BlameIsDeserved ==
  \A w \in Worker : \A a \in Members(w) :
    status[w][a] # "active" => mem[w][a] \in spent
=============================================================================
