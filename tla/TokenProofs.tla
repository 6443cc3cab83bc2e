----------------------------- MODULE TokenProofs -----------------------------
(***************************************************************************)
(* Theorems about TokenRotation for any number of accounts, processes,     *)
(* tokens and troubles: its types, and, when nothing of Mishaps happens,   *)
(* that no token is lost, none is presented twice and no account is blamed *)
(* for nothing.                                                            *)
(***************************************************************************)
EXTENDS TokenRotation, FiniteSetTheorems, FunctionTheorems, SequenceTheorems, TLAPS

\* A refresh presents a token, and an answer brings one.  Without it, a refresh
\* could leave an account of the list without a token.
RefreshHasToken ==
  \A w \in Worker : \A a \in Account :
    /\ job[w][a].at = "sent" => job[w][a].tok # 0
    /\ job[w][a].at = "answered" => job[w][a].new # 0

TypeInv == TypeOK /\ RefreshHasToken

(***************************************************************************)
(* Sequences.                                                              *)
(***************************************************************************)

\* A set of accounts in order is a sequence of its elements.
LEMMA InOrderIsSeq ==
  ASSUME NEW A \in SUBSET Account, NEW s \in InOrder(A)
  PROVE  s \in Seq(A) /\ s \in Seq(Account)
<1>1. IsFiniteSet(Account) /\ NumAccounts \in Nat
  BY TokenAssumption, FS_Interval DEF Account
<1>2. Cardinality(A) \in Nat
  BY <1>1, FS_Subset, FS_CardinalityType
<1>3. s \in [1..Cardinality(A) -> A]
  BY DEF InOrder
<1> QED BY <1>2, <1>3, IsASeq, SeqMonotonic

\* Only accounts are in a list.
LEMMA MembersAreAccounts ==
  ASSUME TypeOK, NEW w \in Worker
  PROVE  /\ Members(w) \subseteq Account
         /\ \A i \in DOMAIN list[w] : list[w][i] \in Members(w)
<1>1. list[w] \in Seq(Account)
  BY DEF TypeOK
<1>2. \A i \in DOMAIN list[w] : list[w][i] \in Account
  BY <1>1
<1> QED BY <1>2 DEF Members

\* The head of a write chain is an update, and without it the chain is one still.
LEMMA ChainHead ==
  ASSUME TypeOK, NEW w \in Worker, chain[w] # <<>>
  PROVE  Head(chain[w]) \in Update /\ Tail(chain[w]) \in Seq(Update)
<1>1. chain[w] \in Seq(Update)
  BY DEF TypeOK
<1> QED BY <1>1, HeadTailProperties

(***************************************************************************)
(* The types of what the helpers set.                                      *)
(***************************************************************************)

LEMMA Numbers == NumAccounts \in Nat /\ MaxIssues \in Nat /\ MaxTroubles \in Nat
BY TokenAssumption

LEMMA AccountTokens ==
  ASSUME TypeOK
  PROVE  /\ Account \subseteq Token \ {0} /\ 0 \in Token
         /\ (Issue => New \in Token \ {0} /\ issues' \in 0..MaxIssues)
BY Numbers DEF TypeOK, Account, Token, New, Issue

LEMMA IdleIsJob == Idle \in Job /\ Idle.at = "idle"
BY Numbers DEF Idle, Job, Token

LEMMA TroubleType == ASSUME TypeOK, Trouble PROVE troubles' \in 0..MaxTroubles
BY Numbers DEF TypeOK, Trouble

\* The account manager that a process starts with holds a token of each account.
LEMMA LoadTypes ==
  ASSUME TypeOK, NEW w \in Worker, Load(w)
  PROVE  /\ list' \in [Worker -> Seq(Account)]
         /\ mem' \in [Worker -> [Account -> Token]]
         /\ from' \in [Worker -> [Account -> Token]]
         /\ status' \in [Worker -> [Account -> {"active", "error", "dead"}]]
         /\ \A v \in Worker : \A a \in Members(v)' : mem'[v][a] # 0
<1>1. PICK s \in InOrder({a \in Account : disk[a] # 0}) : list' = [list EXCEPT ![w] = s]
  BY DEF Load
<1>2. s \in Seq({a \in Account : disk[a] # 0}) /\ s \in Seq(Account)
  BY <1>1, InOrderIsSeq
<1>3. list' \in [Worker -> Seq(Account)]
  BY <1>1, <1>2 DEF TypeOK
<1>4. mem' \in [Worker -> [Account -> Token]]
  BY DEF TypeOK, Load
<1>5. /\ from' \in [Worker -> [Account -> Token]]
      /\ status' \in [Worker -> [Account -> {"active", "error", "dead"}]]
  BY AccountTokens DEF TypeOK, Load, Nothing, Fresh
<1>6. ASSUME NEW v \in Worker, NEW a \in Members(v)' PROVE mem'[v][a] # 0
  <2>1. CASE v = w
    <3>1. list'[w] = s BY <1>1 DEF TypeOK
    <3>2. \A i \in DOMAIN s : disk[s[i]] # 0 BY <1>2
    <3>3. mem'[w] = disk BY DEF TypeOK, Load
    <3> QED BY <2>1, <3>1, <3>2, <3>3 DEF Members
  <2>2. CASE v # w
    <3>1. list'[v] = list[v] /\ mem'[v] = mem[v] BY <1>1, <2>2 DEF TypeOK, Load
    <3> QED BY <3>1 DEF TypeOK, Members
  <2> QED BY <2>1, <2>2
<1> QED BY <1>3, <1>4, <1>5, <1>6

\* Adopted tokens are newer than what was there, so none of them is 0.
LEMMA AdoptTypes ==
  ASSUME TypeOK, NEW w \in Worker, Adopt(w), UNCHANGED list
  PROVE  /\ mem' \in [Worker -> [Account -> Token]]
         /\ status' \in [Worker -> [Account -> {"active", "error", "dead"}]]
         /\ chain' \in [Worker -> Seq(Update)]
         /\ \A v \in Worker : \A a \in Members(v)' : mem'[v][a] # 0
         /\ \A v \in Worker : chain[v] # <<>> => chain'[v] # <<>>
<1> DEFINE newer == {a \in Members(w) : disk[a] > mem[w][a]}
           save(a) == [kind |-> "adopted", acct |-> a, tok |-> disk[a], owner |-> 0]
<1>1. newer \subseteq Account
  BY MembersAreAccounts
<1>2. PICK s \in InOrder(newer) :
        chain' = [chain EXCEPT ![w] = @ \o [i \in DOMAIN s |-> save(s[i])]]
  BY DEF Adopt
<1>3. s \in Seq(Account)
  BY <1>1, <1>2, InOrderIsSeq
<1>4. [i \in DOMAIN s |-> save(s[i])] \in Seq(Update)
  <2>1. \A i \in DOMAIN s : s[i] \in Account
    BY <1>3
  <2>2. \A a \in Account : save(a) \in Update
    BY AccountTokens DEF TypeOK, Update
  <2>3. DOMAIN s = 1..Len(s) /\ Len(s) \in Nat
    BY <1>3
  <2> QED BY <2>1, <2>2, <2>3, IsASeq
<1>5. /\ chain' \in [Worker -> Seq(Update)]
      /\ \A v \in Worker : chain[v] # <<>> => chain'[v] # <<>>
  <2> DEFINE q == [i \in DOMAIN s |-> save(s[i])]
  <2>1. q \in Seq(Update) /\ chain[w] \in Seq(Update)
    BY <1>4 DEF TypeOK
  <2>2. chain' = [chain EXCEPT ![w] = chain[w] \o q]
    BY <1>2 DEF TypeOK
  <2> HIDE DEF q
  <2>3. chain[w] \o q \in Seq(Update) /\ (chain[w] # <<>> => chain[w] \o q # <<>>)
    BY <2>1, ConcatProperties, ConcatEqualIffEmpty
  <2> QED BY <2>2, <2>3 DEF TypeOK
<1>6. /\ mem' \in [Worker -> [Account -> Token]]
      /\ status' \in [Worker -> [Account -> {"active", "error", "dead"}]]
  BY DEF TypeOK, Adopt
<1>7. ASSUME NEW v \in Worker, NEW a \in Members(v)' PROVE mem'[v][a] # 0
  <2>1. a \in Members(v) /\ a \in Account
    BY MembersAreAccounts DEF Members
  <2>2. mem[v][a] # 0 /\ mem[v][a] \in Nat /\ disk[a] \in Nat
    BY <2>1, Numbers DEF TypeOK, Token
  <2>3. mem'[v][a] = mem[v][a] \/ (mem'[v][a] = disk[a] /\ disk[a] > mem[v][a])
    BY <2>1 DEF TypeOK, Adopt
  <2> QED BY <2>2, <2>3
<1> QED BY <1>5, <1>6, <1>7

LEMMA GoneTypes ==
  ASSUME TypeInv, NEW w \in Worker,
         NEW lost \in SUBSET {a \in Account : job[w][a].at = "sent"}, Gone(w, lost),
         cut' \subseteq Account, troubles' \in 0..MaxTroubles
  PROVE  TypeInv'
<1>1. list' \in [Worker -> Seq(Account)] /\ chain' \in [Worker -> Seq(Update)]
  BY EmptySeq DEF TypeInv, TypeOK, Gone
<1>2. /\ mem' \in [Worker -> [Account -> Token]]
      /\ from' \in [Worker -> [Account -> Token]]
      /\ status' \in [Worker -> [Account -> {"active", "error", "dead"}]]
  BY AccountTokens DEF TypeInv, TypeOK, Gone, Nothing, Fresh
<1>3. \A v \in Worker : \A a \in Members(v)' : mem'[v][a] # 0
  <2> SUFFICES ASSUME NEW v \in Worker, NEW a \in Members(v)' PROVE mem'[v][a] # 0
    OBVIOUS
  <2>1. v # w
    BY DEF TypeInv, TypeOK, Gone, Members
  <2>2. list'[v] = list[v] /\ mem'[v] = mem[v]
    BY <2>1 DEF TypeInv, TypeOK, Gone
  <2> QED BY <2>2 DEF TypeInv, TypeOK, Members
<1>4. job' \in [Worker -> [Account -> Job]] /\ RefreshHasToken'
  BY IdleIsJob DEF TypeInv, TypeOK, Gone, RefreshHasToken
<1>5. spent' \subseteq Token
  BY DEF TypeInv, TypeOK, Gone, Job
<1>6. /\ content' \in [Worker -> {<<>>} \cup {<<d>> : d \in [Account -> Token]}]
      /\ \A v \in Worker : content'[v] # <<>> => chain'[v] # <<>>
  BY DEF TypeInv, TypeOK, Gone
<1>7. phase' \in [Worker -> {"none", "headless", "primary", "draining"}]
  BY DEF TypeInv, TypeOK, Gone, Becomes
<1>8. issues' \in 0..MaxIssues /\ disk' \in [Account -> Token]
  BY DEF TypeInv, TypeOK, Gone
<1> QED BY <1>1, <1>2, <1>3, <1>4, <1>5, <1>6, <1>7, <1>8 DEF TypeInv, TypeOK

\* The end of an update: the next one moves up, and its refresh is over.
LEMMA SettleTypes ==
  ASSUME TypeInv, NEW w \in Worker, content[w] # <<>>, Settle(w)
  PROVE  /\ chain' \in [Worker -> Seq(Update)]
         /\ content' \in [Worker -> {<<>>} \cup {<<d>> : d \in [Account -> Token]}]
         /\ \A v \in Worker : content'[v] # <<>> => chain'[v] # <<>>
         /\ job' \in [Worker -> [Account -> Job]]
         /\ RefreshHasToken'
<1>1. chain[w] # <<>>
  BY DEF TypeInv, TypeOK
<1>2. chain' \in [Worker -> Seq(Update)]
  BY <1>1, ChainHead DEF TypeInv, TypeOK, Settle
<1>3. /\ content' \in [Worker -> {<<>>} \cup {<<d>> : d \in [Account -> Token]}]
      /\ \A v \in Worker : content'[v] # <<>> => chain'[v] # <<>>
  BY DEF TypeInv, TypeOK, Settle
<1>4. PICK x : job' = job \/ job' = [job EXCEPT ![w][x] = Idle]
  BY DEF Settle
<1>5. [job[w] EXCEPT ![x] = Idle] \in [Account -> Job]
  BY IdleIsJob DEF TypeInv, TypeOK
<1>6. /\ job' \in [Worker -> [Account -> Job]]
      /\ \A v \in Worker : \A a \in Account : job'[v][a] \in {job[v][a], Idle}
  <2>1. job' = job \/ job' = [job EXCEPT ![w] = [job[w] EXCEPT ![x] = Idle]]
    BY <1>4 DEF TypeInv, TypeOK
  <2>2. \A a \in Account : [job[w] EXCEPT ![x] = Idle][a] \in {job[w][a], Idle}
    BY DEF TypeInv, TypeOK
  <2> DEFINE f == [job[w] EXCEPT ![x] = Idle]
  <2>3. /\ f \in [Account -> Job]
        /\ \A a \in Account : f[a] \in {job[w][a], Idle}
        /\ job' = job \/ job' = [job EXCEPT ![w] = f]
    BY <1>5, <2>1, <2>2
  <2> HIDE DEF f
  <2> QED BY <2>3 DEF TypeInv, TypeOK
<1>7. RefreshHasToken'
  BY <1>6, IdleIsJob DEF TypeInv, RefreshHasToken
<1> QED BY <1>2, <1>3, <1>6, <1>7

\* One refresh moves to r.
LEMMA JobTypes ==
  ASSUME TypeInv, NEW w \in Worker, NEW a \in Account, NEW r \in Job,
         r.at = "sent" => r.tok # 0, r.at = "answered" => r.new # 0,
         job' = [job EXCEPT ![w][a] = r]
  PROVE  job' \in [Worker -> [Account -> Job]] /\ RefreshHasToken'
BY DEF TypeInv, TypeOK, RefreshHasToken

\* The end of a refresh, as the client sees it.
LEMMA EndsTypes ==
  ASSUME TypeInv, NEW w \in Worker, NEW a \in Account, NEW how \in {"refused", "saving"},
         Ends(w, a, how)
  PROVE  job' \in [Worker -> [Account -> Job]] /\ RefreshHasToken'
<1> DEFINE r == [job[w][a] EXCEPT !.at = how]
<1>1. job[w][a] \in Job
  BY DEF TypeInv, TypeOK
<1>2. r \in Job /\ r.at = how
  BY <1>1 DEF Job
<1>3. job' = [job EXCEPT ![w][a] = r]
  BY DEF Ends, TypeInv, TypeOK, Job
<1> HIDE DEF r
<1> QED BY <1>2, <1>3, JobTypes

\* An update is appended: by a user, or by the end of a refresh.
LEMMA AppendTypes ==
  ASSUME TypeOK, NEW w \in Worker, NEW u \in Update,
         chain' = [chain EXCEPT ![w] = Append(chain[w], u)]
  PROVE  /\ chain' \in [Worker -> Seq(Update)]
         /\ \A v \in Worker : chain[v] # <<>> => chain'[v] # <<>>
<1>1. chain[w] \in Seq(Update)
  BY DEF TypeOK
<1>2. Append(chain[w], u) \in Seq(Update) /\ Append(chain[w], u) # <<>>
  BY <1>1, AppendProperties
<1> QED BY <1>2 DEF TypeOK

(***************************************************************************)
(* The actions.                                                            *)
(***************************************************************************)

LEMMA InitTypes == Init => TypeInv
<1> SUFFICES ASSUME Init PROVE TypeInv
  OBVIOUS
<1>1. issues \in 0..MaxIssues /\ troubles \in 0..MaxTroubles /\ spent \subseteq Token
  BY Numbers DEF Init
<1>2. disk \in [Account -> Token]
  BY Numbers DEF Init, Account, Token
<1>3. list \in [Worker -> Seq(Account)] /\ chain \in [Worker -> Seq(Update)]
  BY EmptySeq DEF Init
<1>4. /\ mem \in [Worker -> [Account -> Token]] /\ from \in [Worker -> [Account -> Token]]
      /\ status \in [Worker -> [Account -> {"active", "error", "dead"}]]
  BY Numbers DEF Init, Nothing, Fresh, Token
<1>5. \A w \in Worker : Members(w) = {}
  BY DEF Init, Members
<1>6. job \in [Worker -> [Account -> Job]] /\ RefreshHasToken
  BY IdleIsJob DEF Init, RefreshHasToken
<1>7. content \in [Worker -> {<<>>} \cup {<<d>> : d \in [Account -> Token]}]
  BY DEF Init
<1>8. \A w \in Worker : content[w] # <<>> => chain[w] # <<>>
  BY DEF Init
<1> QED
  BY <1>1, <1>2, <1>3, <1>4, <1>5, <1>6, <1>7, <1>8 DEF Init, TypeInv, TypeOK

\* The life of a process.
LEMMA ProcessTypes ==
  ASSUME TypeInv, NEW w \in Worker,
         BootCold(w) \/ BootHeadless(w) \/ TakeOver(w) \/ SyncAccounts(w)
         \/ Release(w) \/ Released(w) \/ Kill(w)
  PROVE  TypeInv'
<1>1. CASE BootCold(w) \/ BootHeadless(w)
  <2>1. Load(w) BY <1>1 DEF BootCold, BootHeadless
  <2>2. phase' \in [Worker -> {"none", "headless", "primary", "draining"}]
    BY <1>1 DEF BootCold, BootHeadless, Becomes, TypeInv, TypeOK
  <2> QED BY <1>1, <2>1, <2>2, LoadTypes
    DEF BootCold, BootHeadless, server, writes, TypeInv, TypeOK, RefreshHasToken
<1>2. CASE TakeOver(w)
  <2>1. Adopt(w) /\ UNCHANGED list BY <1>2 DEF TakeOver
  <2>2. phase' \in [Worker -> {"none", "headless", "primary", "draining"}]
    BY <1>2 DEF TakeOver, Becomes, TypeInv, TypeOK
  <2> QED BY <1>2, <2>1, <2>2, AdoptTypes DEF TakeOver, server, TypeInv, TypeOK, RefreshHasToken
<1>3. CASE SyncAccounts(w)
  <2>1. Adopt(w) /\ UNCHANGED list BY <1>3 DEF SyncAccounts
  <2> QED BY <1>3, <2>1, AdoptTypes DEF SyncAccounts, server, TypeInv, TypeOK, RefreshHasToken
<1>4. CASE Release(w)
  <2>1. phase' \in [Worker -> {"none", "headless", "primary", "draining"}]
    BY <1>4 DEF Release, Becomes, TypeInv, TypeOK
  <2> QED BY <1>4, <2>1
    DEF Release, server, memory, writes, Members, TypeInv, TypeOK, RefreshHasToken
<1>5. CASE Released(w)
  <2>1. Gone(w, {}) BY <1>5 DEF Released
  <2> QED BY <1>5, <2>1, GoneTypes DEF Released, TypeInv, TypeOK
<1>6. CASE Kill(w)
  <2>1. PICK lost \in SUBSET {a \in Account : job[w][a].at = "sent"} : Gone(w, lost)
    BY <1>6 DEF Kill
  <2>2. cut' \subseteq Account
    BY <1>6 DEF Kill, TypeInv, TypeOK
  <2>3. troubles' \in 0..MaxTroubles
    BY <1>6, TroubleType DEF Kill, TypeInv
  <2> QED BY <2>1, <2>2, <2>3, GoneTypes
<1> QED BY <1>1, <1>2, <1>3, <1>4, <1>5, <1>6

\* One refresh.
LEMMA RefreshTypes ==
  ASSUME TypeInv, NEW w \in Worker, NEW a \in Account,
         StartRefresh(w, a) \/ Accept(w, a) \/ Refuse(w, a)
         \/ Refreshed(w, a) \/ RefreshFails(w, a) \/ RefreshRefused(w, a)
  PROVE  TypeInv'
<1> DEFINE j == job[w][a]
<1>1. j \in Job /\ w \in DOMAIN job /\ a \in DOMAIN job[w]
  BY DEF TypeInv, TypeOK
<1>2. CASE StartRefresh(w, a)
  <2>1. PICK i \in DOMAIN list[w] :
          job' = [job EXCEPT ![w][a] = [at |-> "sent", tok |-> mem[w][a], new |-> 0, idx |-> i]]
    BY <1>2 DEF StartRefresh
  <2>2. mem[w][a] \in Token \ {0} /\ i \in Nat /\ 0 \in Token
    BY <1>2, <2>1, AccountTokens DEF StartRefresh, TypeInv, TypeOK
  <2>3. job' \in [Worker -> [Account -> Job]] /\ RefreshHasToken'
    BY <2>1, <2>2 DEF TypeInv, TypeOK, RefreshHasToken, Job
  <2>4. from' \in [Worker -> [Account -> Token]]
    BY <1>2, <2>2 DEF StartRefresh, TypeInv, TypeOK
  <2> QED BY <1>2, <2>3, <2>4 DEF StartRefresh, server, writes, Members, TypeInv, TypeOK
<1>3. CASE Accept(w, a)
  <2>1. j.tok \in Token \ {0}
    BY <1>1, <1>3 DEF Accept, TypeInv, RefreshHasToken, Job
  <2>2. PICK t \in Token \ {0} : job' = [job EXCEPT ![w][a].at = "answered", ![w][a].new = t]
    BY <1>3, <2>1, AccountTokens DEF Accept, TypeInv
  <2>3. job' \in [Worker -> [Account -> Job]] /\ RefreshHasToken'
    <3> DEFINE r == [j EXCEPT !.at = "answered", !.new = t]
    <3>1. r \in Job /\ r.at = "answered" /\ r.new = t
      BY <1>1, <2>2 DEF Job
    <3>2. job' = [job EXCEPT ![w][a] = r]
      BY <1>1, <2>2 DEF TypeInv, TypeOK
    <3> HIDE DEF r
    <3> QED BY <2>2, <3>1, <3>2, JobTypes
  <2>4. issues' \in 0..MaxIssues /\ spent' \subseteq Token
    BY <1>3, <2>1, AccountTokens DEF Accept, server, TypeInv, TypeOK
  <2> QED BY <1>3, <2>3, <2>4 DEF Accept, memory, writes, Members, TypeInv, TypeOK
<1>4. CASE Refuse(w, a)
  <2>1. job' \in [Worker -> [Account -> Job]] /\ RefreshHasToken'
    BY <1>4, EndsTypes DEF Refuse
  <2>2. spent' \subseteq Token /\ cut' \subseteq Account /\ troubles' \in 0..MaxTroubles
    BY <1>1, <1>4, TroubleType DEF Refuse, Lose, TypeInv, TypeOK, Job
  <2> QED BY <1>4, <2>1, <2>2 DEF Refuse, memory, writes, Members, TypeInv, TypeOK
<1>5. CASE Refreshed(w, a)
  <2>1. j.new \in Token \ {0}
    BY <1>1, <1>5 DEF Refreshed, TypeInv, RefreshHasToken, Job
  <2>2. mem' \in [Worker -> [Account -> Token]]
    BY <1>5, <2>1 DEF Refreshed, TypeInv, TypeOK
  <2>3. \A v \in Worker : \A b \in Members(v)' : mem'[v][b] # 0
    <3>1. \A v \in Worker : Members(v)' = Members(v) /\ Members(v) \subseteq Account
      BY <1>5, MembersAreAccounts DEF Refreshed, Members, TypeInv
    <3> QED BY <1>5, <2>1, <3>1 DEF Refreshed, TypeInv, TypeOK
  <2>4. status' \in [Worker -> [Account -> {"active", "error", "dead"}]]
    BY <1>5 DEF Refreshed, TypeInv, TypeOK
  <2>5. job' \in [Worker -> [Account -> Job]] /\ RefreshHasToken'
    BY <1>5, IdleIsJob, EndsTypes, JobTypes DEF Refreshed
  <2>6. /\ chain' \in [Worker -> Seq(Update)]
        /\ \A v \in Worker : chain[v] # <<>> => chain'[v] # <<>>
    <3>1. CASE j.idx \in DOMAIN list[w]
      <4> DEFINE u == [kind |-> "rotated", acct |-> list[w][j.idx], tok |-> j.new, owner |-> a]
      <4>1. list[w][j.idx] \in Account
        BY <3>1, MembersAreAccounts DEF TypeInv
      <4>2. u \in Update
        BY <2>1, <4>1 DEF Update
      <4>3. chain' = [chain EXCEPT ![w] = Append(chain[w], u)]
        BY <1>5, <3>1 DEF Refreshed, TypeInv, TypeOK
      <4> HIDE DEF u
      <4> QED BY <4>2, <4>3, AppendTypes DEF TypeInv
    <3>2. CASE j.idx \notin DOMAIN list[w]
      BY <1>5, <3>2 DEF Refreshed, TypeInv, TypeOK
    <3> QED BY <3>1, <3>2
  <2> QED BY <1>5, <2>2, <2>3, <2>4, <2>5, <2>6 DEF Refreshed, server, TypeInv, TypeOK
<1>6. CASE RefreshFails(w, a)
  <2>1. job' \in [Worker -> [Account -> Job]] /\ RefreshHasToken'
    BY <1>6, IdleIsJob DEF RefreshFails, TypeInv, TypeOK, RefreshHasToken
  <2>2. spent' \subseteq Token /\ cut' \subseteq Account
    BY <1>1, <1>6 DEF RefreshFails, Lose, TypeInv, TypeOK, Job
  <2> QED BY <1>6, <2>1, <2>2 DEF RefreshFails, memory, writes, Members, TypeInv, TypeOK
<1>7. CASE RefreshRefused(w, a)
  <2>1. job' \in [Worker -> [Account -> Job]] /\ RefreshHasToken'
    BY <1>7, IdleIsJob DEF RefreshRefused, TypeInv, TypeOK, RefreshHasToken
  <2>2. status' \in [Worker -> [Account -> {"active", "error", "dead"}]]
    <3>1. CASE UNCHANGED status BY <3>1 DEF TypeInv, TypeOK
    <3>2. CASE ~UNCHANGED status
      <4>1. \E f \in [Account -> {"active", "error", "dead"}] : status' = [status EXCEPT ![w] = f]
        BY <1>7, <3>2 DEF RefreshRefused, TypeInv, TypeOK
      <4> QED BY <4>1 DEF TypeInv, TypeOK
    <3> QED BY <3>1, <3>2
  <2> QED BY <1>7, <2>1, <2>2 DEF RefreshRefused, server, writes, Members, TypeInv, TypeOK
<1> QED BY <1>2, <1>3, <1>4, <1>5, <1>6, <1>7

\* The config file.
LEMMA ConfigTypes ==
  ASSUME TypeInv, NEW w \in Worker, ConfigRead(w) \/ ConfigWrite(w) \/ ConfigFails(w)
  PROVE  TypeInv'
<1>1. CASE ConfigRead(w)
  <2> DEFINE u == Head(chain[w])
  <2>1. u \in Update /\ Live(w) \in [Account -> Token]
    BY <1>1, ChainHead, AccountTokens DEF ConfigRead, Live, TypeInv, TypeOK
  <2>2. Rotated(w, u) \in [Account -> Token]
    BY <2>1 DEF Rotated, Update, TypeInv, TypeOK
  <2>3. PICK d \in [Account -> Token] : content' = [content EXCEPT ![w] = <<d>>]
    BY <1>1, <2>1, <2>2 DEF ConfigRead
  <2>4. /\ content' \in [Worker -> {<<>>} \cup {<<e>> : e \in [Account -> Token]}]
        /\ \A v \in Worker : content'[v] # <<>> => chain'[v] # <<>>
    BY <1>1, <2>3 DEF ConfigRead, TypeInv, TypeOK
  <2> QED BY <1>1, <2>4 DEF ConfigRead, server, memory, Members, TypeInv, TypeOK, RefreshHasToken
<1>2. CASE ConfigWrite(w)
  <2>1. content[w] # <<>> /\ Settle(w)
    BY <1>2 DEF ConfigWrite
  <2>2. disk' \in [Account -> Token]
    BY <1>2 DEF ConfigWrite, TypeInv, TypeOK
  <2>3. /\ list' \in [Worker -> Seq(Account)]
        /\ \A v \in Worker : Members(v)' \subseteq Members(v)
    <3>1. CASE UNCHANGED list
      BY <3>1 DEF TypeInv, TypeOK, Members
    <3>2. CASE \E A \in SUBSET Members(w) :
                 \E s \in InOrder(A) : list' = [list EXCEPT ![w] = s]
      <4>1. PICK A \in SUBSET Members(w) :
              \E s \in InOrder(A) : list' = [list EXCEPT ![w] = s]
        BY <3>2
      <4>2. PICK s \in InOrder(A) : list' = [list EXCEPT ![w] = s]
        BY <4>1
      <4>3. s \in Seq(A) /\ s \in Seq(Account)
        BY <4>1, <4>2, MembersAreAccounts, InOrderIsSeq DEF TypeInv
      <4>4. \A i \in DOMAIN s : s[i] \in Members(w)
        BY <4>2, <4>3
      <4> QED BY <4>2, <4>3, <4>4 DEF TypeInv, TypeOK, Members
    <3> QED BY <1>2, <3>1, <3>2 DEF ConfigWrite
  <2>4. \A v \in Worker : \A a \in Members(v)' : mem'[v][a] # 0
    BY <1>2, <2>3 DEF ConfigWrite, TypeInv, TypeOK
  <2> QED BY <1>2, <2>1, <2>2, <2>3, <2>4, SettleTypes DEF ConfigWrite, server, TypeInv, TypeOK
<1>3. CASE ConfigFails(w)
  <2>1. content[w] # <<>> /\ Settle(w) /\ troubles' \in 0..MaxTroubles
    BY <1>3, TroubleType DEF ConfigFails, TypeInv
  <2>2. cut' \subseteq Account
    BY <1>3 DEF ConfigFails, TypeInv, TypeOK
  <2> QED BY <1>3, <2>1, <2>2, SettleTypes
    DEF ConfigFails, server, memory, Members, TypeInv, TypeOK
<1> QED BY <1>1, <1>2, <1>3

\* What the users do.
LEMMA UserTypes ==
  ASSUME TypeInv, NEW w \in Worker,
         SaveSettings(w) \/ \E a \in Account : Relogin(w, a) \/ Delete(w, a)
  PROVE  TypeInv'
<1>1. ASSUME NEW k \in {"live", "delete"}, NEW b \in Account \cup {0}, Queue(w, k, b)
      PROVE  /\ chain' \in [Worker -> Seq(Update)]
             /\ \A v \in Worker : chain[v] # <<>> => chain'[v] # <<>>
  <2> DEFINE u == [kind |-> k, acct |-> b, tok |-> 0, owner |-> 0]
  <2>1. u \in Update
    BY AccountTokens DEF Update, TypeInv
  <2>2. chain' = [chain EXCEPT ![w] = Append(chain[w], u)]
    BY <1>1 DEF Queue, TypeInv, TypeOK
  <2> HIDE DEF u
  <2> QED BY <2>1, <2>2, AppendTypes DEF TypeInv
<1>2. ASSUME NEW a \in Account, Relogin(w, a) PROVE TypeInv'
  <2>1. New \in Token \ {0} /\ issues' \in 0..MaxIssues
    BY <1>2, AccountTokens DEF Relogin, TypeInv
  <2>2. mem' \in [Worker -> [Account -> Token]]
    BY <1>2, <2>1 DEF Relogin, TypeInv, TypeOK
  <2>3. \A v \in Worker : \A b \in Members(v)' : mem'[v][b] # 0
    <3>1. \A v \in Worker : Members(v)' = Members(v) /\ Members(v) \subseteq Account
      BY <1>2, MembersAreAccounts DEF Relogin, Members, TypeInv
    <3> QED BY <1>2, <2>1, <3>1 DEF Relogin, TypeInv, TypeOK
  <2>4. status' \in [Worker -> [Account -> {"active", "error", "dead"}]]
    BY <1>2 DEF Relogin, TypeInv, TypeOK
  <2>5. /\ chain' \in [Worker -> Seq(Update)]
        /\ \A v \in Worker : chain[v] # <<>> => chain'[v] # <<>>
    BY <1>1, <1>2 DEF Relogin
  <2> QED BY <1>2, <2>1, <2>2, <2>3, <2>4, <2>5 DEF Relogin, TypeInv, TypeOK, RefreshHasToken
<1>3. CASE SaveSettings(w) \/ \E a \in Account : Delete(w, a)
  <2>1. /\ chain' \in [Worker -> Seq(Update)]
        /\ \A v \in Worker : chain[v] # <<>> => chain'[v] # <<>>
    BY <1>1, <1>3 DEF SaveSettings, Delete
  <2>2. UNCHANGED <<issues, spent, disk, phase, list, mem, from, status, job, content, cut, troubles>>
    BY <1>3 DEF SaveSettings, Delete, server, memory
  <2>3. \A v \in Worker : Members(v)' = Members(v) BY <2>2 DEF Members
  <2>4. \A v \in Worker : \A a \in Members(v)' : mem'[v][a] # 0
    BY <2>2, <2>3 DEF TypeInv, TypeOK
  <2>5. \A v \in Worker : content'[v] # <<>> => chain'[v] # <<>>
    BY <2>1, <2>2 DEF TypeInv, TypeOK
  <2>6. TypeOK' BY <2>1, <2>2, <2>4, <2>5 DEF TypeInv, TypeOK
  <2>7. RefreshHasToken' BY <2>2 DEF TypeInv, RefreshHasToken
  <2> QED BY <2>6, <2>7 DEF TypeInv
<1> QED BY <1>2, <1>3

LEMMA TypeStep == TypeInv /\ [Next]_vars => TypeInv'
<1> SUFFICES ASSUME TypeInv, [Next]_vars PROVE TypeInv'
  OBVIOUS
<1>1. CASE Next
  BY <1>1, ProcessTypes, RefreshTypes, ConfigTypes, UserTypes DEF Next
<1>2. CASE UNCHANGED vars
  BY <1>2 DEF vars, server, memory, writes, Members, TypeInv, TypeOK, RefreshHasToken
<1> QED BY <1>1, <1>2

\* Every reachable state is well typed, an account of the list holds a token, and
\* nothing is being written when nothing is queued: whatever the accounts, the
\* processes, the bounds and the mishaps.
THEOREM TypeCorrect == Spec => []TypeOK
<1>1. TypeInv => TypeOK
  BY DEF TypeInv
<1> QED BY <1>1, InitTypes, TypeStep, PTL DEF Spec

(***************************************************************************)
(* The tokens.  What follows holds when nothing of Mishaps happens: each   *)
(* mishap breaks it, as the runs that allow them show.                     *)
(*                                                                         *)
(* The invariant follows a token from the server to the file.  At most one *)
(* process rotates, and it is the only one that changes the file; a        *)
(* headless one only confirms what is there (Roles, Adoptions).  A refresh *)
(* knows its account (Refreshes), and what it saves is what its account    *)
(* holds, or a login's save is queued behind it (Rotations).  So what the  *)
(* file holds, and what it will hold when the write under way is over, is  *)
(* the token in memory, or else an update that is still queued brings it   *)
(* (Due).  That every step adds at most one used token, and that accounts  *)
(* never share one (Apart), keeps the others from being touched.           *)
(***************************************************************************)
Headless(w) == phase[w] = "headless"
Deleting(w) == \E i \in DOMAIN chain[w] : chain[w][i].kind = "delete"
Written(w)  == content[w][1]

\* One process at most has the lease or gave it up and drains, one at most is
\* headless, and one that ended left nothing.
Roles ==
  /\ \A v, w \in Worker : Rotating(v) /\ Rotating(w) => v = w
  /\ \A v, w \in Worker : Headless(v) /\ Headless(w) => v = w
  /\ \A w \in Worker : phase[w] = "none" =>
       list[w] = <<>> /\ chain[w] = <<>> /\ content[w] = <<>>

\* An account is deleted while nothing else is going on, and is not in the
\* content that its deletion writes.
Deletion(w, i) ==
  chain[w][i].kind = "delete" =>
    /\ phase[w] = "primary"
    /\ chain[w][i].acct \in Account
    /\ content[w] # <<>> /\ i = 1 => Written(w)[chain[w][i].acct] = 0

Deletions ==
  \A w \in Worker :
    /\ \A i \in DOMAIN chain[w] : Deletion(w, i)
    /\ Deleting(w) => /\ \A v \in Worker : ~Headless(v)
                      /\ \A a \in Account : job[w][a] = Idle

\* A refresh in flight belongs to the process that rotates, finds its account at
\* the index that it was started with, and the account is not out.
Refresh(w, a) ==
  LET j == job[w][a] IN
  j # Idle =>
    /\ Rotating(w)
    /\ j.idx \in DOMAIN list[w] /\ list[w][j.idx] = a
    /\ j.at # "idle" /\ j.tok # 0 /\ from[w][a] = j.tok
    /\ status[w][a] # "dead"
    /\ j.at = "answered" => mem[w][a] = j.tok
    /\ j.at \in {"answered", "saving"} => j.tok <= j.new
    /\ j.at = "refused" => j.tok \in spent

Refreshes == \A w \in Worker : \A a \in Account : Refresh(w, a)

\* The save of a refresh is the only one of its account, and saves what the
\* account holds unless a later login is queued behind it.
Rotation(w, i, u) ==
  u.kind = "rotated" =>
    /\ u.acct \in Account /\ u.owner = u.acct
    /\ job[w][u.acct].at = "saving" /\ job[w][u.acct].new = u.tok
    /\ u.tok <= mem[w][u.acct]
    /\ \/ mem[w][u.acct] = u.tok
       \/ \E k \in DOMAIN chain[w] :
            k > i /\ chain[w][k].kind = "live" /\ chain[w][k].acct = u.acct
    /\ \A k \in DOMAIN chain[w] :
         chain[w][k].kind = "rotated" /\ chain[w][k].acct = u.acct => k = i

Rotations == \A w \in Worker : \A i \in DOMAIN chain[w] : Rotation(w, i, chain[w][i])

\* Adopted tokens are saved first, and the file holds them already: a headless
\* process writes what it read.
Adoption(w, i) ==
  chain[w][i].kind = "adopted" =>
    /\ chain[w][i].acct \in Account
    /\ chain[w][i].tok = disk[chain[w][i].acct]
    /\ \A k \in 1..i : chain[w][k].kind = "adopted"

Adoptions ==
  \A w \in Worker :
    /\ \A i \in DOMAIN chain[w] : Adoption(w, i)
    /\ content[w] # <<>> /\ chain[w][1].kind = "adopted" => Written(w) = disk
    /\ Headless(w) => \A i \in DOMAIN chain[w] : chain[w][i].kind = "adopted"
    /\ Headless(w) /\ chain[w] # <<>> => \A v \in Worker \ {w} : content[v] = <<>>

\* The file is never ahead of the process that rotates, and a headless one never
\* ahead of the file, but for an account that the file has no more.
Ahead(w) ==
  Rotating(w) =>
    /\ \A a \in Members(w) : disk[a] <= mem[w][a]
    /\ content[w] # <<>> =>
         /\ \A a \in Members(w) : Written(w)[a] <= mem[w][a]
         /\ \A a \in Account \ Members(w) : Written(w)[a] \in {0, disk[a]}
         /\ ~Deleting(w) => \A a \in Members(w) : disk[a] <= Written(w)[a]

Behind(h) ==
  Headless(h) =>
    /\ \A a \in Members(h) : mem[h][a] <= disk[a] \/ disk[a] = 0
    /\ \A w \in Worker : Rotating(w) =>
         \A a \in Members(h) \cap Members(w) : mem[h][a] <= disk[a]

Order == \A w \in Worker : Ahead(w) /\ Behind(w)

\* Token d of account a, on disk or about to be, is nothing to worry about: w
\* holds it, or one of the updates I of its queue replaces it.
Due(w, a, d, I) ==
  \/ d = 0
  \/ a \notin Members(w) /\ d \notin spent
  \/ a \in Members(w) /\ d = mem[w][a]
  \/ /\ a \in Members(w)
     /\ \E i \in I : /\ chain[w][i].acct = a
                     /\ \/ chain[w][i].kind = "live"
                        \/ /\ chain[w][i].kind = "rotated"
                           /\ chain[w][i].tok = mem[w][a] /\ d = from[w][a]

\* While a process rotates: it can refresh its accounts, the file holds what it
\* holds or will, and a headless one can refresh what only that one knows.
Good(w, a) ==
  /\ a \in Members(w) =>
       (IF job[w][a].at = "answered" THEN job[w][a].new ELSE mem[w][a]) \notin spent
  /\ Due(w, a, disk[a], DOMAIN chain[w])
  /\ content[w] # <<>> => Due(w, a, Written(w)[a], DOMAIN chain[w] \ {1})
  /\ \A h \in Worker :
       Headless(h) /\ a \in Members(h) \ Members(w) => mem[h][a] \notin spent

Holder(w) == Rotating(w) => \A a \in Account \ cut : Good(w, a)

\* While none does: the file is good, and so is what a headless process prefers
\* to the file.
Vacancy ==
  (\A w \in Worker : ~Rotating(w)) =>
    \A a \in Account \ cut :
      /\ disk[a] \notin spent
      /\ \A h \in Worker : Headless(h) /\ a \in Members(h) =>
           mem[h][a] <= disk[a] \/ mem[h][a] \notin spent

\* t is in use for account a, in the file, in memory or on the way.
Holds(t, a) ==
  \/ t = disk[a]
  \/ \E w \in Worker :
       \/ t \in {mem[w][a], job[w][a].tok, job[w][a].new}
       \/ content[w] # <<>> /\ t = Written(w)[a]
       \/ \E i \in DOMAIN chain[w] : chain[w][i].acct = a /\ t = chain[w][i].tok

Apart ==
  /\ \A t \in Token \ {0} : \A a, b \in Account : Holds(t, a) /\ Holds(t, b) => a = b
  /\ \A t \in Token : \A a \in Account : Holds(t, a) => t <= NumAccounts + issues
  /\ \A t \in spent : t # 0 /\ t <= NumAccounts + issues

TokenInv ==
  /\ TypeInv
  /\ Roles /\ Deletions /\ Refreshes /\ Rotations /\ Adoptions
  /\ Order /\ (\A w \in Worker : Holder(w)) /\ Vacancy
  /\ Apart /\ BlameIsDeserved

LEMMA InitTokens == Init => TokenInv
<1> SUFFICES ASSUME Init PROVE TokenInv
  OBVIOUS
<1>1. TypeInv BY InitTypes
<1>2. /\ \A w \in Worker : ~Rotating(w) /\ ~Headless(w) /\ chain[w] = <<>> /\ content[w] = <<>>
      /\ \A w \in Worker : Members(w) = {} /\ ~Deleting(w)
      /\ \A w \in Worker : \A a \in Account : job[w][a] = Idle /\ mem[w][a] = 0
  BY DEF Init, Rotating, Headless, Members, Deleting, Nothing
<1>3. Roles /\ Deletions /\ Refreshes /\ Rotations /\ Adoptions /\ Order
  BY <1>2 DEF Init, Roles, Deletions, Refreshes, Refresh, Rotations, Adoptions, Order, Ahead,
    Behind
<1>4. (\A w \in Worker : Holder(w)) /\ Vacancy /\ BlameIsDeserved
  BY <1>2 DEF Init, Holder, Vacancy, BlameIsDeserved
<1>5. Apart
  <2>1. \A t \in Token, a \in Account : Holds(t, a) => t = a \/ t = 0
    BY <1>2 DEF Init, Holds, Idle
  <2> QED BY <2>1, Numbers DEF Init, Apart, Token, Account
<1> QED BY <1>1, <1>3, <1>4, <1>5 DEF TokenInv

LEMMA OneMore ==
  ASSUME NEW n \in Nat, NEW m \in Nat, NEW k \in {m, m + 1}
  PROVE  \A t \in Nat : t <= n + m \/ t = 0 => t <= n + k
<1>1. CASE k = m BY <1>1
<1>2. CASE k = m + 1 BY <1>2
<1> QED BY <1>1, <1>2

\* A step that issues at most one token, to one account, and has only tokens in
\* use refused, leaves the accounts with tokens of their own.
LEMMA StaysApart ==
  ASSUME TypeInv, Apart, NEW b, issues' \in {issues, issues + 1},
         \A t \in Token : \A a \in Account :
           Holds(t, a)' => t = 0 \/ Holds(t, a) \/ (t = New /\ a = b /\ issues' = issues + 1),
         \A t \in spent' : t \in spent \/ (t \in Token \ {0} /\ \E a \in Account : Holds(t, a))
  PROVE  Apart'
<1>1. issues \in Nat /\ NumAccounts \in Nat /\ Token \subseteq Nat
  BY Numbers DEF TypeInv, TypeOK, Token
<1>2. \A t \in Token : \A a \in Account : Holds(t, a) => t <= NumAccounts + issues /\ t # New
  BY <1>1 DEF Apart, New
<1>3. ASSUME NEW t \in Token, NEW a \in Account, Holds(t, a)'
      PROVE  t <= NumAccounts + issues'
  <2>1. t = 0 \/ t <= NumAccounts + issues \/ (t = New /\ issues' = issues + 1)
    BY <1>2, <1>3
  <2>2. t \in Nat BY <1>1
  <2>3. CASE t <= NumAccounts + issues \/ t = 0 BY <1>1, <2>2, <2>3, OneMore
  <2>4. CASE t = New /\ issues' = issues + 1 BY <1>1, <2>4 DEF New
  <2> QED BY <2>1, <2>3, <2>4
<1>4. ASSUME NEW t \in Token \ {0}, NEW a \in Account, NEW c \in Account,
             Holds(t, a)', Holds(t, c)'
      PROVE  a = c
  <2>1. Holds(t, a) \/ (t = New /\ a = b) BY <1>4
  <2>2. Holds(t, c) \/ (t = New /\ c = b) BY <1>4
  <2> QED BY <1>2, <2>1, <2>2 DEF Apart
<1>5. \A t \in spent' : t # 0 /\ t <= NumAccounts + issues'
  <2>1. \A t \in spent : t # 0 /\ t <= NumAccounts + issues
    BY DEF Apart
  <2>2. \A t \in spent' : t # 0 /\ t <= NumAccounts + issues /\ t \in Nat
    BY <1>1, <1>2, <2>1 DEF TypeInv, TypeOK
  <2>3. issues' = issues \/ issues' = issues + 1 OBVIOUS
  <2> QED BY <1>1, <2>2, <2>3
<1> QED BY <1>3, <1>4, <1>5 DEF Apart

\* What depends on the processes, their lists and their queues alone.
LEMMA SamePlaces ==
  ASSUME UNCHANGED <<phase, list, writes>>
  PROVE  \A v \in Worker :
           /\ Members(v)' = Members(v)
           /\ Rotating(v)' <=> Rotating(v)
           /\ Headless(v)' <=> Headless(v)
           /\ Deleting(v)' <=> Deleting(v)
           /\ chain'[v] = chain[v] /\ content'[v] = content[v]
           /\ Written(v)' = Written(v)
BY DEF Members, Rotating, Headless, Deleting, Written, writes

\* The refresh of one account starts, is answered or ends, with nothing of the
\* others and nothing of the file touched.
LEMMA RequestKeeps ==
  ASSUME TokenInv, TypeInv', NEW w \in Worker, NEW a \in Members(w), Rotating(w),
         UNCHANGED <<disk, phase, list, mem, writes>>,
         \A v \in Worker : \A b \in Account :
           v # w \/ b # a => job'[v][b] = job[v][b] /\ from'[v][b] = from[v][b],
         job[w][a].at # "saving", ~Deleting(w), Refresh(w, a)', BlameIsDeserved',
         \A v \in Worker : \A b \in Account :
           v # w \/ b # a => (status[v][b] # "dead" => status'[v][b] # "dead"),
         issues' \in {issues, issues + 1}, cut \subseteq cut', spent \subseteq spent',
         \A t \in spent' : t \in spent \/ (t = job[w][a].tok /\ job[w][a] # Idle),
         job'[w][a].tok \in {0, job[w][a].tok, mem[w][a]},
         \/ job'[w][a].new \in {0, job[w][a].tok, job[w][a].new}
         \/ job'[w][a].new = New /\ issues' = issues + 1,
         a \notin cut' =>
           (IF job'[w][a].at = "answered" THEN job'[w][a].new ELSE mem[w][a]) \notin spent'
  PROVE  TokenInv'
<1>1. a \in Account /\ \A v \in Worker : Members(v) \subseteq Account
  BY MembersAreAccounts DEF TokenInv, TypeInv
<1>2. \A v \in Worker :
        /\ Members(v)' = Members(v)
        /\ Rotating(v)' <=> Rotating(v)
        /\ Headless(v)' <=> Headless(v)
        /\ Deleting(v)' <=> Deleting(v)
        /\ chain'[v] = chain[v] /\ content'[v] = content[v]
        /\ Written(v)' = Written(v)
  BY SamePlaces
<1>3. Roles' BY <1>2 DEF TokenInv, Roles
<1>4. Deletions'
  BY <1>1, <1>2 DEF TokenInv, Deletions, Deletion
<1>5. Refreshes'
  <2> SUFFICES ASSUME NEW v \in Worker, NEW b \in Account, v # w \/ b # a PROVE Refresh(v, b)'
    BY DEF Refreshes
  <2>1. Refresh(v, b) BY DEF TokenInv, Refreshes
  <2> QED BY <1>2, <2>1 DEF Refresh
<1>6. Rotations'
  <2> SUFFICES ASSUME NEW v \in Worker, NEW i \in DOMAIN chain[v], NEW q, q = chain[v][i]
               PROVE  Rotation(v, i, q)'
    BY <1>2 DEF Rotations
  <2>1. Rotation(v, i, q) BY DEF TokenInv, Rotations
  <2> SUFFICES ASSUME q.kind = "rotated" PROVE Rotation(v, i, q)'
    BY DEF Rotation
  <2>2. q.acct \in Account /\ job[v][q.acct].at = "saving" BY <2>1 DEF Rotation
  <2>3. v # w \/ q.acct # a BY <2>2
  <2>4. job'[v][q.acct] = job[v][q.acct] BY <2>2, <2>3
  <2>5. chain'[v] = chain[v] BY <1>2
  <2>6. mem' = mem OBVIOUS
  <2>7. /\ q.owner = q.acct /\ job'[v][q.acct].at = "saving" /\ job'[v][q.acct].new = q.tok
        /\ q.tok <= mem'[v][q.acct]
    BY <2>1, <2>4, <2>6 DEF Rotation
  <2>8. \/ mem'[v][q.acct] = q.tok
        \/ \E k \in DOMAIN chain'[v] :
             k > i /\ chain'[v][k].kind = "live" /\ chain'[v][k].acct = q.acct
    BY <2>1, <2>5, <2>6 DEF Rotation
  <2>9. \A k \in DOMAIN chain'[v] :
          chain'[v][k].kind = "rotated" /\ chain'[v][k].acct = q.acct => k = i
    BY <2>1, <2>5 DEF Rotation
  <2> QED BY <2>2, <2>7, <2>8, <2>9 DEF Rotation
<1>7. Adoptions' BY <1>2 DEF TokenInv, Adoptions, Adoption
<1>8. Order'
  <2>1. \A v \in Worker : Ahead(v)' BY <1>2 DEF TokenInv, Order, Ahead
  <2>2. \A v \in Worker : Behind(v)' BY <1>2 DEF TokenInv, Order, Behind
  <2> QED BY <2>1, <2>2 DEF Order
<1>9. Apart'
  <2>1. \A t \in Token, b \in Account :
          Holds(t, b)' => t = 0 \/ Holds(t, b) \/ (t = New /\ b = a /\ issues' = issues + 1)
    BY <1>1, <1>2 DEF Holds
  <2>2. \A t \in spent' : t \in spent \/ (t \in Token \ {0} /\ Holds(t, a))
    <3>1. job[w][a] # Idle => job[w][a].tok \in Token \ {0}
      BY <1>1 DEF TokenInv, Refreshes, Refresh, TypeInv, TypeOK, Job
    <3>2. Holds(job[w][a].tok, a) BY DEF Holds
    <3> QED BY <3>1, <3>2
  <2> QED BY <1>1, <2>1, <2>2, StaysApart DEF TokenInv
<1>10. ASSUME NEW t \in spent' \ spent, NEW b \in Account, b # a PROVE ~Holds(t, b)
  <2>1. t = job[w][a].tok /\ Holds(t, a) BY <1>10 DEF Holds
  <2>2. t \in Token \ {0} 
    BY <1>1, <1>10, <2>1 DEF TokenInv, Refreshes, Refresh, TypeInv, TypeOK, Job
  <2> QED BY <1>1, <1>10, <2>1, <2>2 DEF TokenInv, Apart
<1>11. ASSUME NEW v \in Worker PROVE Holder(v)'
  <2> SUFFICES ASSUME Rotating(v), NEW b \in Account \ cut' PROVE Good(v, b)'
    BY <1>2 DEF Holder
  <2>1. v = w /\ Good(w, b) BY DEF TokenInv, Roles, Holder
  <2>2. b \in Members(w) =>
          (IF job'[w][b].at = "answered" THEN job'[w][b].new ELSE mem[w][b]) \notin spent'
    <3>1. b # a => Holds(job[w][b].new, b) /\ Holds(mem[w][b], b) BY DEF Holds
    <3> QED BY <1>10, <2>1, <3>1 DEF Good
  <2>3. b # a => Holds(disk[b], b) /\ (content[w] # <<>> => Holds(Written(w)[b], b))
                 /\ \A h \in Worker : Holds(mem[h][b], b)
    BY DEF Holds
  <2>4. \A i \in DOMAIN chain[w] : chain[w][i].kind = "rotated" => chain[w][i].acct # a
    BY DEF TokenInv, Rotations, Rotation
  <2>5. ASSUME NEW d, NEW I \in SUBSET DOMAIN chain[w], Due(w, b, d, I),
               b = a \/ d \notin spent' \/ d \in spent
        PROVE  Due(w, b, d, I)'
    BY <1>2, <2>1, <2>4, <2>5 DEF Due
  <2>6. Due(w, b, disk[b], DOMAIN chain[w])'
    BY <1>2, <1>10, <2>1, <2>3, <2>5 DEF Good
  <2>7. content[w] # <<>> => Due(w, b, Written(w)[b], DOMAIN chain[w] \ {1})'
    BY <1>2, <1>10, <2>1, <2>3, <2>5 DEF Good
  <2>8. \A h \in Worker :
          Headless(h) /\ b \in Members(h) \ Members(w) => mem[h][b] \notin spent'
    BY <1>10, <2>1, <2>3 DEF Good
  <2> QED BY <1>2, <2>1, <2>2, <2>6, <2>7, <2>8 DEF Good
<1>12. Vacancy' BY <1>2 DEF Vacancy
<1> QED BY <1>3, <1>4, <1>5, <1>6, <1>7, <1>8, <1>9, <1>11, <1>12 DEF TokenInv

\* The latch of an account is its own: a step that leaves status, tokens and lists
\* alone takes nothing from the refusals.
LEMMA SameBlame ==
  ASSUME BlameIsDeserved, UNCHANGED <<list, mem, status>>, spent \subseteq spent'
  PROVE  BlameIsDeserved'
BY DEF BlameIsDeserved, Members

\* The process whose refresh of an account is in flight rotates, and the account
\* is one of its own.
LEMMA InFlight ==
  ASSUME TokenInv, NEW w \in Worker, NEW a \in Account, job[w][a] # Idle
  PROVE  /\ Rotating(w) /\ a \in Members(w) /\ ~Deleting(w)
         /\ job[w][a] \in Job
         /\ Refresh(w, a)
<1>1. Refresh(w, a) /\ job[w][a] \in Job
  BY DEF TokenInv, Refreshes, TypeInv, TypeOK
<1>2. a \in Members(w) BY <1>1 DEF Refresh, Members
<1>3. ~Deleting(w) BY DEF TokenInv, Deletions
<1> QED BY <1>1, <1>2, <1>3 DEF Refresh

LEMMA StartRefreshKeeps ==
  ASSUME Mishaps = {}, TokenInv, TypeInv', NEW w \in Worker, NEW a \in Account, StartRefresh(w, a)
  PROVE  TokenInv'
<1>1. PICK i \in DOMAIN list[w] :
        /\ list[w][i] = a
        /\ job' = [job EXCEPT ![w][a] = [at |-> "sent", tok |-> mem[w][a], new |-> 0, idx |-> i]]
  BY DEF StartRefresh
<1> DEFINE r == [at |-> "sent", tok |-> mem[w][a], new |-> 0, idx |-> i]
<1>2. r.at = "sent" /\ r.tok = mem[w][a] /\ r.new = 0 /\ r.idx = i /\ r # Idle
  BY DEF Idle
<1>3. \A v \in Worker, b \in Account :
        /\ job'[v][b] = IF v = w /\ b = a THEN r ELSE job[v][b]
        /\ from'[v][b] = IF v = w /\ b = a THEN mem[w][a] ELSE from[v][b]
  BY <1>1 DEF StartRefresh, TokenInv, TypeInv, TypeOK
<1> HIDE DEF r
<1>4. /\ a \in Members(w) /\ Rotating(w) /\ ~Deleting(w) /\ status[w][a] # "dead"
      /\ job[w][a] = Idle /\ mem[w][a] # 0
      /\ UNCHANGED <<disk, phase, list, mem, writes, issues, spent, cut, status>>
  BY DEF StartRefresh, Rotating, NotDeleting, Deleting, server, TokenInv, TypeInv, TypeOK
<1>5. Refresh(w, a)'
  BY <1>1, <1>2, <1>3, <1>4 DEF Refresh, Rotating
<1>6. BlameIsDeserved' BY <1>4, SameBlame DEF TokenInv
<1>7. a \notin cut => mem[w][a] \notin spent
  <2>1. Idle.at = "idle" BY DEF Idle
  <2> QED BY <1>4, <2>1 DEF TokenInv, Holder, Good
<1> QED BY <1>2, <1>3, <1>4, <1>5, <1>6, <1>7, RequestKeeps DEF Idle

LEMMA AcceptKeeps ==
  ASSUME Mishaps = {}, TokenInv, TypeInv', NEW w \in Worker, NEW a \in Account, Accept(w, a)
  PROVE  TokenInv'
<1> DEFINE j == job[w][a]
<1>1. j.at = "sent" /\ j # Idle /\ j.tok \notin spent /\ mem[w][a] = j.tok
  BY DEF Accept, Idle
<1>2. /\ Rotating(w) /\ a \in Members(w) /\ ~Deleting(w) /\ j \in Job /\ Refresh(w, a)
  BY <1>1, InFlight
<1>3. PICK t :
        /\ job' = [job EXCEPT ![w][a].at = "answered", ![w][a].new = t]
        /\ \/ t = New /\ issues' = issues + 1 /\ spent' = spent \cup {j.tok}
           \/ t = j.tok /\ issues' = issues /\ spent' = spent
  BY DEF Accept, Issue, server
<1> DEFINE r == [j EXCEPT !.at = "answered", !.new = t]
<1>4. r.at = "answered" /\ r.tok = j.tok /\ r.new = t /\ r.idx = j.idx /\ r # Idle
  BY <1>2 DEF Job, Idle
<1>5. \A v \in Worker, b \in Account : job'[v][b] = IF v = w /\ b = a THEN r ELSE job[v][b]
  BY <1>3 DEF TokenInv, TypeInv, TypeOK
<1> HIDE DEF r
<1>6. UNCHANGED <<disk, phase, list, mem, writes, from, status, cut>>
  BY DEF Accept, memory
<1>7. j.tok < New /\ New \notin spent /\ j.tok \in Nat
  <2>1. Holds(j.tok, a) /\ j.tok \in Token BY <1>2 DEF Holds, Job
  <2>2. j.tok <= NumAccounts + issues /\ \A t2 \in spent : t2 <= NumAccounts + issues
    BY <2>1 DEF TokenInv, Apart
  <2>3. issues \in Nat BY Numbers DEF TokenInv, TypeInv, TypeOK
  <2>4. j.tok \in Nat BY <2>1, Numbers DEF Token
  <2>5. New = NumAccounts + issues + 1 /\ New \in Nat /\ ~(New <= NumAccounts + issues)
    BY <2>3, Numbers DEF New
  <2>6. New \notin spent BY <2>2, <2>5
  <2> QED BY <2>2, <2>3, <2>4, <2>5, <2>6, Numbers
<1>8. /\ j.tok <= t /\ t \notin spent'
      /\ issues' \in {issues, issues + 1} /\ spent \subseteq spent'
      /\ \A u \in spent' : u \in spent \/ u = j.tok
      /\ t \in {0, j.tok, j.new} \/ (t = New /\ issues' = issues + 1)
  <2>1. j.tok <= New /\ j.tok # New /\ j.tok <= j.tok BY <1>7, Numbers DEF New, TokenInv, TypeInv, TypeOK
  <2>2. CASE t = New /\ issues' = issues + 1 /\ spent' = spent \cup {j.tok}
    BY <1>7, <2>1, <2>2
  <2>3. CASE t = j.tok /\ issues' = issues /\ spent' = spent
    BY <1>1, <2>1, <2>3
  <2> QED BY <1>3, <2>2, <2>3
<1>9. Refresh(w, a)'
  BY <1>1, <1>2, <1>4, <1>5, <1>6, <1>8 DEF Refresh, Rotating
<1>10. BlameIsDeserved' BY <1>3, <1>6, SameBlame DEF TokenInv
<1>11. /\ job'[w][a].tok \in {0, job[w][a].tok, mem[w][a]}
       /\ \/ job'[w][a].new \in {0, job[w][a].tok, job[w][a].new}
          \/ job'[w][a].new = New /\ issues' = issues + 1
       /\ (IF job'[w][a].at = "answered" THEN job'[w][a].new ELSE mem[w][a]) \notin spent'
  BY <1>4, <1>5, <1>8
<1> QED BY <1>1, <1>2, <1>5, <1>6, <1>8, <1>9, <1>10, <1>11, RequestKeeps

\* What the two kinds of failure have in common: the token may be refused from
\* now on, and the account is cut off if it holds no other.
LEMMA FailedKeeps ==
  ASSUME TokenInv, TypeInv', NEW w \in Worker, NEW a \in Account, job[w][a].at = "sent",
         UNCHANGED <<issues, disk, phase, memory, writes>>,
         (UNCHANGED <<spent, cut>>) \/ (job[w][a].tok \notin spent /\ Lose(w, a)),
         \/ job' = [job EXCEPT ![w][a] = Idle]
         \/ Ends(w, a, "refused") /\ job[w][a].tok \in spent'
  PROVE  TokenInv'
<1> DEFINE j == job[w][a]
<1>1. j # Idle BY DEF Idle
<1>2. /\ Rotating(w) /\ a \in Members(w) /\ ~Deleting(w) /\ j \in Job /\ Refresh(w, a)
  BY <1>1, InFlight
<1>3. PICK r : /\ job' = [job EXCEPT ![w][a] = r]
               /\ \/ r = Idle
                  \/ /\ r.at = "refused" /\ r.tok = j.tok /\ r.new = j.new /\ r.idx = j.idx
                     /\ j.tok \in spent'
  <2>1. CASE job' = [job EXCEPT ![w][a] = Idle] BY <2>1
  <2>2. CASE Ends(w, a, "refused") /\ j.tok \in spent'
    <3> DEFINE r == [j EXCEPT !.at = "refused"]
    <3>1. r.at = "refused" /\ r.tok = j.tok /\ r.new = j.new /\ r.idx = j.idx
      BY <1>2 DEF Job
    <3>2. job' = [job EXCEPT ![w][a] = r] BY <2>2 DEF Ends, TokenInv, TypeInv, TypeOK
    <3> HIDE DEF r
    <3> QED BY <2>2, <3>1, <3>2
  <2> QED BY <2>1, <2>2
<1>4. \A v \in Worker, b \in Account : job'[v][b] = IF v = w /\ b = a THEN r ELSE job[v][b]
  BY <1>3 DEF TokenInv, TypeInv, TypeOK
<1>5. /\ spent \subseteq spent' /\ cut \subseteq cut'
      /\ \A t \in spent' : t \in spent \/ t = j.tok
      /\ UNCHANGED <<list, mem, from, status>>
  BY DEF Lose, memory
<1>6. Refresh(w, a)'
  BY <1>1, <1>2, <1>3, <1>4, <1>5 DEF Refresh, Rotating
<1>7. BlameIsDeserved' BY <1>5, SameBlame DEF TokenInv
<1>8. a \notin cut' => mem[w][a] \notin spent'
  <2>1. a \notin cut => mem[w][a] \notin spent BY <1>2 DEF TokenInv, Holder, Good
  <2> QED BY <1>2, <2>1 DEF Lose
<1>9. r.at # "answered" /\ r.tok \in {0, j.tok} /\ r.new \in {0, j.new}
  BY <1>3 DEF Idle
<1> QED BY <1>1, <1>2, <1>4, <1>5, <1>6, <1>7, <1>8, <1>9, RequestKeeps

LEMMA RefuseKeeps ==
  ASSUME TokenInv, TypeInv', NEW w \in Worker, NEW a \in Account,
         Refuse(w, a) \/ RefreshFails(w, a)
  PROVE  TokenInv'
<1>1. CASE Refuse(w, a) BY <1>1, FailedKeeps DEF Refuse, Lose
<1>2. CASE RefreshFails(w, a) BY <1>2, FailedKeeps DEF RefreshFails
<1> QED BY <1>1, <1>2

LEMMA RefreshRefusedKeeps ==
  ASSUME TokenInv, TypeInv', NEW w \in Worker, NEW a \in Account, RefreshRefused(w, a)
  PROVE  TokenInv'
<1> DEFINE j == job[w][a]
<1>1. j.at = "refused" /\ j # Idle
  BY DEF RefreshRefused, Idle
<1>2. /\ Rotating(w) /\ a \in Members(w) /\ ~Deleting(w) /\ j \in Job /\ Refresh(w, a)
  BY <1>1, InFlight
<1>3. \A v \in Worker, b \in Account : job'[v][b] = IF v = w /\ b = a THEN Idle ELSE job[v][b]
  BY DEF RefreshRefused, TokenInv, TypeInv, TypeOK
<1>4. UNCHANGED <<issues, spent, disk, phase, list, mem, from, writes, cut>>
  BY DEF RefreshRefused, server
<1>5. /\ \A v \in Worker, b \in Account : v # w \/ b # a => status'[v][b] = status[v][b]
      /\ status'[w][a] # status[w][a] => mem[w][a] = j.tok
  <2>1. list[w][j.idx] = a /\ j.idx \in DOMAIN list[w] BY <1>1, <1>2 DEF Refresh
  <2>2. CASE UNCHANGED status BY <2>2
  <2>3. CASE ~UNCHANGED status
    <3>1. /\ mem[w][a] = j.tok
          /\ status' = [status EXCEPT ![w] = [b \in Account |->
               IF b = a THEN "dead"
               ELSE IF b \in {a} /\ status[w][b] = "active" THEN "error" ELSE status[w][b]]]
      BY <2>1, <2>3 DEF RefreshRefused
    <3> QED BY <3>1 DEF TokenInv, TypeInv, TypeOK
  <2> QED BY <2>2, <2>3
<1>6. Refresh(w, a)' BY <1>3 DEF Refresh
<1>7. BlameIsDeserved'
  <2>1. j.tok \in spent BY <1>1, <1>2 DEF Refresh
  <2>2. \A v \in Worker : Members(v)' = Members(v) /\ Members(v) \subseteq Account
    BY <1>4, MembersAreAccounts DEF Members, TokenInv, TypeInv
  <2> QED BY <1>4, <1>5, <2>1, <2>2 DEF BlameIsDeserved, TokenInv
<1>8. a \notin cut => mem[w][a] \notin spent
  BY <1>1, <1>2 DEF TokenInv, Holder, Good
<1>9. Idle.tok = 0 /\ Idle.new = 0 /\ Idle.at = "idle" BY DEF Idle
<1> QED BY <1>1, <1>2, <1>3, <1>4, <1>5, <1>6, <1>7, <1>8, <1>9, RequestKeeps

LEMMA Interval ==
  ASSUME NEW n \in Nat
  PROVE  /\ 1..n \subseteq 1..(n + 1) /\ n + 1 \in 1..(n + 1)
         /\ \A k \in 1..(n + 1) : k \in 1..n \/ k = n + 1
         /\ \A i \in 1..n : n + 1 > i
OBVIOUS

LEMMA TokenOrder ==
  /\ \A x \in Token : x <= x
  /\ \A x, y, z \in Token : x <= y /\ y <= z => x <= z
BY Numbers DEF Token

\* The queue of w after an update is appended.
LEMMA Appended ==
  ASSUME TypeOK, NEW w \in Worker, NEW u \in Update,
         chain' = [chain EXCEPT ![w] = Append(chain[w], u)]
  PROVE  LET n == Len(chain[w]) IN
         /\ n \in Nat /\ DOMAIN chain[w] = 1..n /\ DOMAIN chain'[w] = 1..(n + 1)
         /\ \A i \in 1..n : chain'[w][i] = chain[w][i]
         /\ chain'[w][n + 1] = u
         /\ chain[w] # <<>> => n # 0
         /\ \A v \in Worker : v # w => chain'[v] = chain[v]
<1> DEFINE s == chain[w]
<1>1. s \in Seq(Update) BY DEF TypeOK
<1>2. chain'[w] = Append(s, u) /\ \A v \in Worker : v # w => chain'[v] = chain[v]
  BY DEF TypeOK
<1> HIDE DEF s
<1>3. /\ Len(s) \in Nat /\ DOMAIN s = 1..Len(s) /\ (s # <<>> => Len(s) # 0)
      /\ DOMAIN Append(s, u) = 1..(Len(s) + 1)
      /\ \A i \in 1..Len(s) : Append(s, u)[i] = s[i]
      /\ Append(s, u)[Len(s) + 1] = u
  BY <1>1, AppendProperties, EmptySeq
<1> QED BY <1>2, <1>3 DEF s

\* The process that rotates queues update u, and account a gets a token with it,
\* a new one or the one its refresh brought.
Queues(w, a, u) ==
  /\ Rotating(w) /\ u \in Update
  /\ chain' = [chain EXCEPT ![w] = Append(chain[w], u)]
  /\ UNCHANGED <<spent, disk, phase, list, from, content>>
  /\ issues' = issues \/ issues' = issues + 1
  /\ \A v \in Worker : \A b \in Account :
       v # w \/ b # a => /\ job'[v][b] = job[v][b] /\ mem'[v][b] = mem[v][b]
                        /\ status'[v][b] = status[v][b]
  /\ a \in Account => mem[w][a] <= mem'[w][a]
  /\ \/ mem'[w][a] = mem[w][a]
     \/ mem'[w][a] = New /\ issues' = issues + 1 /\ u.kind = "live" /\ u.acct = a
     \/ mem'[w][a] = job[w][a].new /\ u.kind = "rotated"
  /\ u.kind # "rotated" => job'[w][a] = job[w][a] /\ u.tok = 0
  /\ u.kind = "rotated" =>
       /\ a \in Account /\ u.acct = a /\ u.owner = a /\ job[w][a].at = "answered"
       /\ job'[w][a].at = "saving" /\ job'[w][a].tok = job[w][a].tok
       /\ job'[w][a].new = job[w][a].new /\ mem'[w][a] = job[w][a].new /\ u.tok = job[w][a].new
  /\ u.kind = "delete" =>
       /\ phase[w] = "primary" /\ u.acct \in Account
       /\ \A v \in Worker : ~Headless(v)
       /\ \A b \in Account : job[w][b] = Idle
  /\ u.kind # "adopted"
  /\ a \in Account => Refresh(w, a)'
  /\ u.kind = "live" /\ u.acct \in Account => u.acct \in Members(w)
  /\ \A b \in Account : b \notin cut' => b \notin cut \/ (b = a /\ u.kind = "live" /\ u.acct = a)
  /\ a \in Members(w) /\ a \notin cut' =>
       (IF job'[w][a].at = "answered" THEN job'[w][a].new ELSE mem'[w][a]) \notin spent

LEMMA QueuedKeeps ==
  ASSUME TokenInv, TypeInv', NEW w \in Worker, NEW a, NEW u, Queues(w, a, u), BlameIsDeserved'
  PROVE  TokenInv'
<1> USE DEF Queues
<1> DEFINE n == Len(chain[w])
<1>1. /\ n \in Nat /\ DOMAIN chain[w] = 1..n /\ DOMAIN chain'[w] = 1..(n + 1)
      /\ \A i \in 1..n : chain'[w][i] = chain[w][i]
      /\ chain'[w][n + 1] = u
      /\ chain[w] # <<>> => n # 0
      /\ \A v \in Worker : v # w => chain'[v] = chain[v]
  BY Appended DEF TokenInv, TypeInv
<1> HIDE DEF n
<1>2. \A v \in Worker :
        /\ Members(v)' = Members(v) /\ Members(v) \subseteq Account
        /\ Rotating(v)' <=> Rotating(v)
        /\ Headless(v)' <=> Headless(v)
        /\ Written(v)' = Written(v) /\ content'[v] = content[v]
        /\ v # w => (Deleting(v)' <=> Deleting(v))
  <2>1. \A v \in Worker : Members(v) \subseteq Account
    BY MembersAreAccounts DEF TokenInv, TypeInv
  <2> QED BY <1>1, <2>1 DEF Members, Rotating, Headless, Written, Deleting
<1>3. /\ ~Headless(w) /\ phase[w] # "none"
      /\ \A v \in Worker : Rotating(v) => v = w
      /\ content[w] # <<>> => n # 0
  BY <1>1 DEF TokenInv, Roles, Rotating, Headless, TypeInv, TypeOK
<1>4. Deleting(w)' <=> Deleting(w) \/ u.kind = "delete"
  <2>1. \A i \in 1..(n + 1) : i \in 1..n \/ i = n + 1 BY <1>1
  <2>2. 1..n \subseteq 1..(n + 1) /\ n + 1 \in 1..(n + 1) BY <1>1
  <2> QED BY <1>1, <2>1, <2>2 DEF Deleting
<1>5. Roles' BY <1>1, <1>2, <1>3 DEF TokenInv, Roles
<1>6. Deletions'
  <2>1. ASSUME NEW v \in Worker, NEW i \in DOMAIN chain'[v] PROVE Deletion(v, i)'
    <3>1. CASE v # w
      <4>1. Deletion(v, i) BY <1>1, <3>1 DEF TokenInv, Deletions
      <4> QED BY <1>1, <1>2, <3>1, <4>1 DEF Deletion
    <3>2. CASE v = w /\ i \in 1..n
      <4>1. Deletion(w, i) BY <1>1, <3>2 DEF TokenInv, Deletions
      <4> QED BY <1>1, <1>2, <3>2, <4>1 DEF Deletion
    <3>3. CASE v = w /\ i = n + 1
      BY <1>1, <1>3, <3>3 DEF Deletion
    <3> QED BY <1>1, <2>1, <3>1, <3>2, <3>3
  <2>2. ASSUME NEW v \in Worker, Deleting(v)'
        PROVE  (\A x \in Worker : ~Headless(x)) /\ \A b \in Account : job'[v][b] = Idle
    <3>1. CASE v # w BY <1>2, <2>2, <3>1 DEF TokenInv, Deletions
    <3>2. CASE v = w /\ Deleting(w)
      <4>1. (a \in Account => job[w][a].at = "idle") /\ \A b \in Account : job[w][b] = Idle
        BY <3>2 DEF TokenInv, Deletions, Idle
      <4> QED BY <3>2, <4>1 DEF TokenInv, Deletions
    <3>3. CASE v = w /\ u.kind = "delete" BY <3>3
    <3> QED BY <1>4, <2>2, <3>1, <3>2, <3>3
  <2> QED BY <1>2, <2>1, <2>2 DEF Deletions
<1>7. Refreshes'
  <2> SUFFICES ASSUME NEW v \in Worker, NEW b \in Account, v # w \/ b # a PROVE Refresh(v, b)'
    BY DEF Refreshes
  <2>1. Refresh(v, b) BY DEF TokenInv, Refreshes
  <2> QED BY <1>2, <2>1 DEF Refresh
<1>8. Rotations'
  <2> SUFFICES ASSUME NEW v \in Worker, NEW i \in DOMAIN chain'[v], NEW q, q = chain'[v][i]
               PROVE  Rotation(v, i, q)'
    BY DEF Rotations
  <2>1. CASE v # w
    <3>1. Rotation(v, i, q) BY <1>1, <2>1 DEF TokenInv, Rotations
    <3> QED BY <1>1, <2>1, <3>1 DEF Rotation
  <2>2. CASE v = w /\ i \in 1..n
    <3> SUFFICES ASSUME q.kind = "rotated" PROVE Rotation(w, i, q)'
      BY <2>2 DEF Rotation
    <3>1. q = chain[w][i] /\ q \in Update /\ Rotation(w, i, q)
      BY <1>1, <2>2 DEF TokenInv, Rotations, TypeInv, TypeOK
    <3>2. /\ q.acct \in Account /\ q.owner = q.acct
          /\ job[w][q.acct].at = "saving" /\ job[w][q.acct].new = q.tok
          /\ q.tok <= mem[w][q.acct]
          /\ \/ mem[w][q.acct] = q.tok
             \/ \E k \in 1..n : k > i /\ chain[w][k].kind = "live" /\ chain[w][k].acct = q.acct
          /\ \A k \in 1..n : chain[w][k].kind = "rotated" /\ chain[w][k].acct = q.acct => k = i
      BY <1>1, <3>1 DEF Rotation
    <3>3. /\ 1..n \subseteq 1..(n + 1) /\ n + 1 \in 1..(n + 1) /\ n + 1 > i
          /\ \A k \in 1..(n + 1) : k \in 1..n \/ k = n + 1
      BY <1>1, <2>2, Interval
    <3>4. job'[w][q.acct] = job[w][q.acct] /\ (u.kind = "rotated" => u.acct # q.acct)
      <4>1. q.acct # a => job'[w][q.acct] = job[w][q.acct] BY <3>2
      <4>2. q.acct = a => u.kind # "rotated" BY <3>2
      <4> QED BY <4>1, <4>2
    <3>5. /\ q.acct # a => mem'[w][q.acct] = mem[w][q.acct]
          /\ q.acct = a => mem[w][q.acct] <= mem'[w][q.acct]
          /\ mem'[w][q.acct] = mem[w][q.acct] \/ (u.kind = "live" /\ u.acct = q.acct)
      <4>1. q.acct # a => mem'[w][q.acct] = mem[w][q.acct] BY <3>2
      <4>2. q.acct = a => mem[w][q.acct] <= mem'[w][q.acct] BY <3>2
      <4>3. q.acct = a => mem'[w][a] = mem[w][a] \/ (u.kind = "live" /\ u.acct = a)
        BY <3>2, <3>4
      <4> QED BY <4>1, <4>2, <4>3
    <3>6. TokenInv /\ TypeInv' OBVIOUS
    <3> HIDE DEF Queues
    <3>7. q.tok <= mem'[w][q.acct]
      <4>1. mem[w][q.acct] \in Token /\ mem'[w][q.acct] \in Token /\ q.tok \in Token
        <5>1. mem \in [Worker -> [Account -> Token]] /\ mem' \in [Worker -> [Account -> Token]]
          BY <3>6 DEF TokenInv, TypeInv, TypeOK
        <5>2. q.tok \in Token BY <3>1 DEF Update
        <5> QED BY <3>2, <5>1, <5>2
      <4>2. mem[w][q.acct] <= mem'[w][q.acct]
        <5>1. CASE q.acct = a BY <3>5, <5>1
        <5>2. CASE q.acct # a
          <6>1. mem'[w][q.acct] = mem[w][q.acct] BY <3>5, <5>2
          <6> QED BY <4>1, <6>1, TokenOrder
        <5> QED BY <5>1, <5>2
      <4> QED BY <3>2, <4>1, <4>2, TokenOrder
    <3>8. \/ mem'[w][q.acct] = q.tok
          \/ \E k \in 1..(n + 1) :
               k > i /\ chain'[w][k].kind = "live" /\ chain'[w][k].acct = q.acct
      <4>1. CASE mem'[w][q.acct] = mem[w][q.acct]
        <5>1. CASE mem[w][q.acct] = q.tok BY <4>1, <5>1
        <5>2. ASSUME NEW k \in 1..n,
                     k > i /\ chain[w][k].kind = "live" /\ chain[w][k].acct = q.acct
              PROVE  \E m \in 1..(n + 1) :
                       m > i /\ chain'[w][m].kind = "live" /\ chain'[w][m].acct = q.acct
          <6>1. chain'[w][k] = chain[w][k] /\ k \in 1..(n + 1) BY <1>1, <3>3
          <6> QED BY <5>2, <6>1
        <5> QED BY <3>2, <5>1, <5>2
      <4>2. CASE u.kind = "live" /\ u.acct = q.acct BY <1>1, <3>3, <4>2
      <4> QED BY <3>5, <4>1, <4>2
    <3>9. \A k \in 1..(n + 1) :
            chain'[w][k].kind = "rotated" /\ chain'[w][k].acct = q.acct => k = i
      BY <1>1, <3>2, <3>3, <3>4
    <3> QED BY <1>1, <3>2, <3>4, <3>7, <3>8, <3>9 DEF Rotation
  <2>3. CASE v = w /\ i = n + 1
    <3>1. \A k \in 1..(n + 1) : k \in 1..n \/ k = n + 1 BY <1>1
    <3>2. u.kind = "rotated" => \A k \in 1..n : chain[w][k].kind = "rotated" => chain[w][k].acct # a
      BY <1>1 DEF TokenInv, Rotations, Rotation
    <3>3. u.tok \in Nat BY Numbers DEF Update, Token
    <3>4. u.kind = "rotated" => u.tok <= mem'[w][a] /\ mem'[w][a] = u.tok BY <3>3
    <3> QED BY <1>1, <2>3, <3>1, <3>2, <3>4 DEF Rotation
  <2> QED BY <1>1, <2>1, <2>2, <2>3
<1>9. Adoptions'
  <2>1. ASSUME NEW v \in Worker, NEW i \in DOMAIN chain'[v] PROVE Adoption(v, i)'
    <3>1. CASE v # w
      <4>1. Adoption(v, i) BY <1>1, <3>1 DEF TokenInv, Adoptions
      <4> QED BY <1>1, <3>1, <4>1 DEF Adoption
    <3>2. CASE v = w /\ i \in 1..n
      <4>1. Adoption(w, i) /\ 1..i \subseteq 1..n BY <1>1, <3>2 DEF TokenInv, Adoptions
      <4> QED BY <1>1, <3>2, <4>1 DEF Adoption
    <3>3. CASE v = w /\ i = n + 1
      BY <1>1, <3>3 DEF Adoption
    <3> QED BY <1>1, <2>1, <3>1, <3>2, <3>3
  <2>2. ASSUME NEW v \in Worker, content[v] # <<>>, chain'[v][1].kind = "adopted"
        PROVE  Written(v) = disk
    <3> HIDE DEF Queues
    <3>1. v = w => 1 \in 1..n BY <1>1, <1>3, <2>2
    <3>2. chain[v][1].kind = "adopted" BY <1>1, <2>2, <3>1
    <3> QED BY <2>2, <3>2 DEF TokenInv, Adoptions
  <2>3. ASSUME NEW v \in Worker, Headless(v)
        PROVE  /\ \A i \in DOMAIN chain'[v] : chain'[v][i].kind = "adopted"
               /\ chain'[v] # <<>> => \A x \in Worker \ {v} : content[x] = <<>>
    <3> HIDE DEF Queues
    <3>1. chain'[v] = chain[v] BY <1>1, <1>3, <2>3
    <3>2. /\ \A i \in DOMAIN chain[v] : chain[v][i].kind = "adopted"
          /\ chain[v] # <<>> => \A x \in Worker \ {v} : content[x] = <<>>
      BY <2>3 DEF TokenInv, Adoptions
    <3> QED BY <3>1, <3>2
  <2> QED BY <1>2, <2>1, <2>2, <2>3 DEF Adoptions
<1>10. Order'
  <2>1. \A v \in Worker : Ahead(v) /\ Behind(v) BY DEF TokenInv, Order
  <2>2. \A v \in Worker : Ahead(v)'
    <3> SUFFICES ASSUME NEW v \in Worker, Rotating(v) PROVE Ahead(v)'
      BY <1>2 DEF Ahead
    <3>1. v = w BY <1>3
    <3>2. \A b \in Account :
            /\ mem[w][b] <= mem'[w][b] /\ mem[w][b] \in Nat /\ mem'[w][b] \in Nat
            /\ disk[b] \in Nat /\ (content[w] # <<>> => Written(w)[b] \in Nat)
      <4>1. \A b \in Account : mem[w][b] \in Nat /\ mem'[w][b] \in Nat /\ disk[b] \in Nat
        BY Numbers DEF TokenInv, TypeInv, TypeOK, Token
      <4>2. content[w] # <<>> => Written(w) \in [Account -> Token]
        BY DEF Written, TokenInv, TypeInv, TypeOK
      <4> QED BY <4>1, <4>2, Numbers DEF Token
    <3> QED BY <1>2, <1>4, <2>1, <3>1, <3>2 DEF Ahead
  <2>3. \A v \in Worker : Behind(v)' BY <1>2, <1>3, <2>1 DEF Behind
  <2> QED BY <2>2, <2>3 DEF Order
<1>11. Apart'
  <2>1. ASSUME NEW t \in Token, NEW b \in Account, Holds(t, b)'
        PROVE  t = 0 \/ Holds(t, b) \/ (t = New /\ b = a /\ issues' = issues + 1)
    <3>1. CASE t = disk'[b] BY <3>1 DEF Holds
    <3>2. ASSUME NEW v \in Worker,
                 \/ t \in {mem'[v][b], job'[v][b].tok, job'[v][b].new}
                 \/ content'[v] # <<>> /\ t = Written(v)'[b]
          PROVE  Holds(t, b) \/ (t = New /\ b = a /\ issues' = issues + 1)
      <4>1. CASE v # w \/ b # a BY <1>2, <3>2, <4>1 DEF Holds
      <4>2. CASE v = w /\ b = a
        <5>1. job'[w][a].tok = job[w][a].tok /\ job'[w][a].new = job[w][a].new OBVIOUS
        <5> QED BY <1>2, <3>2, <4>2, <5>1 DEF Holds
      <4> QED BY <4>1, <4>2
    <3>3. ASSUME NEW v \in Worker, NEW i \in DOMAIN chain'[v],
                 chain'[v][i].acct = b, t = chain'[v][i].tok
          PROVE  t = 0 \/ Holds(t, b)
      <4>1. CASE v # w BY <1>1, <3>3, <4>1 DEF Holds
      <4>2. CASE v = w /\ i \in 1..n BY <1>1, <3>3, <4>2 DEF Holds
      <4>3. CASE v = w /\ i = n + 1
        BY <1>1, <3>3, <4>3 DEF Holds
      <4> QED BY <1>1, <3>3, <4>1, <4>2, <4>3
    <3> QED BY <2>1, <3>1, <3>2, <3>3 DEF Holds
  <2> QED BY <2>1, StaysApart DEF TokenInv
<1>12. ASSUME NEW v \in Worker PROVE Holder(v)'
  <2> SUFFICES ASSUME Rotating(v), NEW b \in Account, b \notin cut' PROVE Good(v, b)'
    BY <1>2 DEF Holder
  <2>1. v = w /\ (b \notin cut \/ (b = a /\ u.kind = "live" /\ u.acct = a)) BY <1>3
  <2>2. b \notin cut => Good(w, b) BY DEF TokenInv, Holder
  <2>3. b \in Members(w) =>
          (IF job'[w][b].at = "answered" THEN job'[w][b].new ELSE mem'[w][b]) \notin spent
    <3>1. CASE b = a BY <3>1
    <3>2. CASE b # a BY <2>1, <2>2, <3>2 DEF Good
    <3> QED BY <3>1, <3>2
  <2>4. ASSUME NEW d, NEW I \in SUBSET (1..n), NEW J \in SUBSET (1..(n + 1)),
               I \subseteq J, n + 1 \in J,
               b \notin cut => Due(w, b, d, I)
        PROVE  Due(w, b, d, J)'
    <3>1. CASE u.kind = "live" /\ u.acct = b
      <4>1. b \in Members(w)' BY <1>2, <3>1
      <4> QED BY <1>1, <2>4, <3>1, <4>1 DEF Due
    <3>2. CASE u.kind = "rotated" /\ b = a
      <4>1. \A i \in 1..n : chain[w][i].kind = "rotated" => chain[w][i].acct # a
        BY <1>1, <3>2 DEF TokenInv, Rotations, Rotation
      <4>2. a \in Members(w) /\ from[w][a] = job[w][a].tok /\ mem[w][a] = job[w][a].tok
        <5>1. job[w][a] # Idle BY <3>2 DEF Idle
        <5> QED BY <3>2, <5>1, InFlight DEF Refresh
      <4>3. Due(w, b, d, I) BY <2>1, <2>4, <3>2
      <4>4. CASE \E i \in I : chain[w][i].acct = b /\ chain[w][i].kind = "live"
        BY <1>1, <1>2, <2>4, <3>2, <4>2, <4>4 DEF Due
      <4>5. CASE d = 0 BY <4>5 DEF Due
      <4>6. CASE d = mem[w][b]
        <5>1. d = from[w][b] /\ from'[w][b] = from[w][b] /\ u.tok = mem'[w][b] /\ u.acct = b
          BY <3>2, <4>2, <4>6
        <5>2. b \in Members(w)' BY <1>2, <3>2, <4>2
        <5> QED BY <1>1, <2>4, <3>2, <5>1, <5>2 DEF Due
      <4> QED BY <2>4, <3>2, <4>1, <4>2, <4>3, <4>4, <4>5, <4>6 DEF Due
    <3>3. CASE ~(u.kind = "live" /\ u.acct = b) /\ ~(u.kind = "rotated" /\ b = a)
      <4>1. mem'[w][b] = mem[w][b] /\ b \notin cut BY <2>1, <3>3
      <4>2. Members(w)' = Members(w) /\ \A i \in I : i \in J /\ chain'[w][i] = chain[w][i]
        BY <1>1, <1>2, <2>4
      <4>3. CASE /\ b \in Members(w)
                 /\ \E i \in I : /\ chain[w][i].acct = b
                                 /\ \/ chain[w][i].kind = "live"
                                    \/ /\ chain[w][i].kind = "rotated"
                                       /\ chain[w][i].tok = mem[w][b] /\ d = from[w][b]
        <5>1. PICK i \in I : /\ chain[w][i].acct = b
                             /\ \/ chain[w][i].kind = "live"
                                \/ /\ chain[w][i].kind = "rotated"
                                   /\ chain[w][i].tok = mem[w][b] /\ d = from[w][b]
          BY <4>3
        <5>2. chain'[w][i] = chain[w][i] /\ i \in J /\ from'[w][b] = from[w][b] BY <4>2
        <5>3. b \in Members(w)' BY <4>2, <4>3
        <5> HIDE DEF Queues
        <5> QED BY <4>1, <5>1, <5>2, <5>3 DEF Due
      <4>4. CASE d = 0 \/ (b \notin Members(w) /\ d \notin spent)
                      \/ (b \in Members(w) /\ d = mem[w][b])
        BY <4>1, <4>2, <4>4 DEF Due
      <4> QED BY <2>4, <4>1, <4>3, <4>4 DEF Due
    <3> QED BY <3>1, <3>2, <3>3
  <2>5. Due(w, b, disk[b], DOMAIN chain[w])'
    <3>1. PICK d, J : d = disk[b] /\ J = 1..(n + 1) OBVIOUS
    <3>2. 1..n \subseteq J /\ n + 1 \in J BY <1>1, <3>1
    <3>3. Due(w, b, d, J)' BY <1>1, <2>2, <2>4, <3>1, <3>2 DEF Good
    <3> QED BY <1>1, <3>1, <3>3 DEF Due
  <2>6. ASSUME content[w] # <<>> PROVE Due(w, b, Written(w)[b], DOMAIN chain[w] \ {1})'
    <3>1. PICK d, I, J : d = Written(w)[b] /\ I = 1..n \ {1} /\ J = 1..(n + 1) \ {1} OBVIOUS
    <3>2. I \in SUBSET (1..n) /\ J \in SUBSET (1..(n + 1)) /\ I \subseteq J /\ n + 1 \in J
      BY <1>1, <1>3, <2>6, <3>1
    <3>3. b \notin cut => Due(w, b, d, I) BY <1>1, <2>2, <2>6, <3>1 DEF Good
    <3>4. Due(w, b, d, J)' BY <2>4, <3>2, <3>3
    <3> QED BY <1>1, <1>2, <3>1, <3>4 DEF Due
  <2>7. ASSUME NEW h \in Worker, Headless(h), b \in Members(h) \ Members(w)
        PROVE  mem'[h][b] \notin spent
    <3>1. b \notin cut /\ h # w BY <1>3, <2>1, <2>7
    <3> QED BY <2>2, <2>7, <3>1 DEF Good
  <2> QED BY <1>2, <2>1, <2>3, <2>5, <2>6, <2>7 DEF Good
<1>13. Vacancy' BY <1>2 DEF Vacancy
<1> QED BY <1>5, <1>6, <1>7, <1>8, <1>9, <1>10, <1>11, <1>12, <1>13 DEF TokenInv

LEMMA RefreshedKeeps ==
  ASSUME Mishaps = {}, TokenInv, TypeInv', NEW w \in Worker, NEW a \in Account, Refreshed(w, a)
  PROVE  TokenInv'
<1> DEFINE j == job[w][a]
           u == [kind |-> "rotated", acct |-> a, tok |-> j.new, owner |-> a]
<1>1. j.at = "answered" /\ j # Idle
  BY DEF Refreshed, Idle
<1>2. /\ Rotating(w) /\ a \in Members(w) /\ ~Deleting(w) /\ j \in Job
      /\ j.idx \in DOMAIN list[w] /\ list[w][j.idx] = a /\ j.tok # 0 /\ from[w][a] = j.tok
      /\ status[w][a] # "dead" /\ mem[w][a] = j.tok /\ j.tok <= j.new
  BY <1>1, InFlight DEF Refresh
<1>3. /\ chain' = [chain EXCEPT ![w] = Append(chain[w], u)]
      /\ Ends(w, a, "saving")
      /\ mem' = [mem EXCEPT ![w][a] = j.new]
      /\ status' = [status EXCEPT ![w][a] = IF @ = "dead" THEN @ ELSE "active"]
  <2>1. chain' = [chain EXCEPT ![w] = Append(@, u)] /\ Ends(w, a, "saving")
    BY <1>2 DEF Refreshed
  <2> QED BY <2>1 DEF Refreshed, TokenInv, TypeInv, TypeOK
<1>4. /\ u \in Update
      /\ u.kind = "rotated" /\ u.acct = a /\ u.tok = j.new /\ u.owner = a
  BY <1>2 DEF Update, Job
<1> DEFINE r == [j EXCEPT !.at = "saving"]
<1>5. r.at = "saving" /\ r.tok = j.tok /\ r.new = j.new /\ r.idx = j.idx
  BY <1>2 DEF Job
<1>6. /\ \A v \in Worker, b \in Account :
           /\ job'[v][b] = IF v = w /\ b = a THEN r ELSE job[v][b]
           /\ mem'[v][b] = IF v = w /\ b = a THEN j.new ELSE mem[v][b]
           /\ status'[v][b] = IF v = w /\ b = a THEN "active" ELSE status[v][b]
  BY <1>2, <1>3 DEF Ends, TokenInv, TypeInv, TypeOK
<1> HIDE DEF r, u
<1>7. UNCHANGED <<issues, spent, disk, phase, list, from, content, cut>>
  BY DEF Refreshed, server
<1>8. Refresh(w, a)'
  BY <1>2, <1>5, <1>6, <1>7 DEF Refresh, Rotating
<1>9. BlameIsDeserved'
  <2>1. \A v \in Worker : Members(v)' = Members(v) /\ Members(v) \subseteq Account
    BY <1>7, MembersAreAccounts DEF Members, TokenInv, TypeInv
  <2> QED BY <1>6, <1>7, <2>1 DEF BlameIsDeserved, TokenInv
<1>10. a \notin cut => j.new \notin spent
  BY <1>1, <1>2 DEF TokenInv, Holder, Good
<1>11. job'[w][a].at # "answered" /\ mem'[w][a] = j.new /\ mem[w][a] <= mem'[w][a]
  BY <1>2, <1>5, <1>6
<1>12. /\ job[w][a].at = "answered" /\ job'[w][a].at = "saving"
       /\ job'[w][a].tok = job[w][a].tok /\ job'[w][a].new = job[w][a].new
       /\ mem'[w][a] = job[w][a].new /\ u.tok = job[w][a].new
       /\ a \notin cut' =>
            (IF job'[w][a].at = "answered" THEN job'[w][a].new ELSE mem'[w][a]) \notin spent
  BY <1>1, <1>2, <1>4, <1>5, <1>6, <1>7, <1>10
<1>13. \A v \in Worker : \A b \in Account :
         v # w \/ b # a => job'[v][b] = job[v][b] /\ mem'[v][b] = mem[v][b]
                           /\ status'[v][b] = status[v][b]
  BY <1>6
<1> HIDE DEF j
<1>14. Queues(w, a, u)
  BY <1>2, <1>3, <1>4, <1>7, <1>8, <1>11, <1>12, <1>13 DEF Queues
<1> QED BY <1>9, <1>14, QueuedKeeps

\* The token of a login is newer than any that was in use.
LEMMA LoginIsNew ==
  ASSUME TokenInv
  PROVE  /\ New \notin spent
         /\ \A w \in Worker : \A a \in Account : mem[w][a] < New /\ mem[w][a] <= New
<1>1. issues \in Nat /\ spent \subseteq Nat
  BY Numbers DEF Token, TokenInv, TypeInv, TypeOK
<1>2. New \notin spent
  BY <1>1, Numbers DEF New, TokenInv, Apart
<1>3. ASSUME NEW w \in Worker, NEW a \in Account PROVE mem[w][a] < New /\ mem[w][a] <= New
  <2>1. mem[w][a] \in Token /\ Holds(mem[w][a], a) BY DEF Holds, TokenInv, TypeInv, TypeOK
  <2>2. mem[w][a] \in Nat /\ mem[w][a] <= NumAccounts + issues
    BY <2>1, Numbers DEF TokenInv, Apart, Token
  <2> QED BY <1>1, <2>2, Numbers DEF New
<1> QED BY <1>2, <1>3

LEMMA ReloginKeeps ==
  ASSUME Mishaps = {}, TokenInv, TypeInv', NEW w \in Worker, NEW a \in Account, Relogin(w, a)
  PROVE  TokenInv'
<1> DEFINE u == [kind |-> "live", acct |-> a, tok |-> 0, owner |-> 0]
<1>1. /\ phase[w] = "primary" /\ Rotating(w) /\ a \in Members(w) /\ job[w][a].at # "answered"
      /\ issues' = issues + 1 /\ cut' = cut \ {a}
      /\ UNCHANGED <<spent, disk, phase, list, from, job, content>>
  BY DEF Relogin, Issue, Rotating
<1>2. \A v \in Worker, b \in Account :
        /\ mem'[v][b] = IF v = w /\ b = a THEN New ELSE mem[v][b]
        /\ status'[v][b] = IF v = w /\ b = a THEN "active" ELSE status[v][b]
  BY DEF Relogin, TokenInv, TypeInv, TypeOK
<1>3. /\ u \in Update /\ u.kind = "live" /\ u.acct = a /\ u.tok = 0
      /\ chain' = [chain EXCEPT ![w] = Append(chain[w], u)]
  BY AccountTokens DEF Relogin, Queue, Update, TokenInv, TypeInv, TypeOK
<1> HIDE DEF u
<1>4. /\ New \notin spent /\ mem[w][a] <= New /\ mem'[w][a] = New
  BY <1>2, LoginIsNew
<1>5. Refresh(w, a)'
  <2>1. Refresh(w, a) BY DEF TokenInv, Refreshes
  <2> QED BY <1>1, <1>2, <2>1 DEF Refresh, Rotating
<1>6. BlameIsDeserved'
  <2>1. \A v \in Worker : Members(v)' = Members(v) /\ Members(v) \subseteq Account
    BY <1>1, MembersAreAccounts DEF Members, TokenInv, TypeInv
  <2> QED BY <1>1, <1>2, <2>1 DEF BlameIsDeserved, TokenInv
<1>7. /\ \A v \in Worker : \A b \in Account :
           v # w \/ b # a => job'[v][b] = job[v][b] /\ mem'[v][b] = mem[v][b]
                             /\ status'[v][b] = status[v][b]
      /\ \A b \in Account : b \notin cut' => b \notin cut \/ (b = a /\ u.kind = "live" /\ u.acct = a)
      /\ (IF job'[w][a].at = "answered" THEN job'[w][a].new ELSE mem'[w][a]) \notin spent
      /\ mem[w][a] <= mem'[w][a] /\ job'[w][a] = job[w][a]
  BY <1>1, <1>2, <1>3, <1>4
<1>8. Queues(w, a, u)
  BY <1>1, <1>3, <1>4, <1>5, <1>7 DEF Queues
<1> QED BY <1>6, <1>8, QueuedKeeps

LEMMA SaveSettingsKeeps ==
  ASSUME TokenInv, TypeInv', NEW w \in Worker, SaveSettings(w)
  PROVE  TokenInv'
<1> DEFINE u == [kind |-> "live", acct |-> 0, tok |-> 0, owner |-> 0]
<1>1. /\ Rotating(w) /\ 0 \notin Account
      /\ UNCHANGED <<issues, spent, disk, phase, list, mem, status, from, job, content, cut>>
  BY Numbers DEF SaveSettings, Rotating, server, memory, Account
<1>2. /\ u \in Update /\ u.kind = "live" /\ u.acct = 0 /\ u.tok = 0
      /\ chain' = [chain EXCEPT ![w] = Append(chain[w], u)]
  BY AccountTokens DEF SaveSettings, Queue, Update, TokenInv, TypeInv, TypeOK
<1> HIDE DEF u
<1>3. BlameIsDeserved' BY <1>1, SameBlame DEF TokenInv
<1>4. PICK x : x \notin Account /\ x # 0
  <2>1. NumAccounts + 1 \notin Account /\ NumAccounts + 1 # 0 BY Numbers DEF Account
  <2> QED BY <2>1
<1>5. ~(u.kind = "live" /\ u.acct = x) /\ ~(x \in Members(w) /\ x \notin cut')
  BY <1>2, <1>4, MembersAreAccounts DEF TokenInv, TypeInv
<1>6. Queues(w, x, u)
  BY <1>1, <1>2, <1>4, <1>5 DEF Queues
<1> QED BY <1>3, <1>6, QueuedKeeps

LEMMA DeleteKeeps ==
  ASSUME Mishaps = {}, TokenInv, TypeInv', NEW w \in Worker, NEW a \in Account, Delete(w, a)
  PROVE  TokenInv'
<1> DEFINE u == [kind |-> "delete", acct |-> a, tok |-> 0, owner |-> 0]
<1>1. /\ phase[w] = "primary" /\ Rotating(w) /\ a \in Members(w)
      /\ \A b \in Account : job[w][b] = Idle
      /\ \A v \in Worker : ~Headless(v)
      /\ UNCHANGED <<issues, spent, disk, phase, list, mem, status, from, job, content, cut>>
  BY DEF Delete, Rotating, Headless, server, memory
<1>2. /\ u \in Update /\ u.kind = "delete" /\ u.acct = a /\ u.tok = 0
      /\ chain' = [chain EXCEPT ![w] = Append(chain[w], u)]
  BY AccountTokens DEF Delete, Queue, Update, TokenInv, TypeInv, TypeOK
<1> HIDE DEF u
<1>3. BlameIsDeserved' BY <1>1, SameBlame DEF TokenInv
<1>4. Refresh(w, a)' BY <1>1 DEF Refresh
<1>5. /\ mem[w][a] <= mem'[w][a]
      /\ a \notin cut' => (IF job'[w][a].at = "answered" THEN job'[w][a].new ELSE mem'[w][a]) \notin spent
  <2>1. mem[w][a] \in Token BY DEF TokenInv, TypeInv, TypeOK
  <2>2. mem[w][a] <= mem[w][a] BY <2>1, TokenOrder
  <2> QED BY <1>1, <2>2 DEF TokenInv, Holder, Good
<1>6. Queues(w, a, u)
  BY <1>1, <1>2, <1>4, <1>5 DEF Queues
<1> QED BY <1>3, <1>6, QueuedKeeps

\* Each element of a set of accounts is in its sequence in order.
LEMMA InOrderIsOnto ==
  ASSUME NEW A \in SUBSET Account, NEW s \in InOrder(A)
  PROVE  {s[i] : i \in DOMAIN s} = A
<1> DEFINE n == Cardinality(A)
<1>1. IsFiniteSet(A) /\ n \in Nat
  <2>1. IsFiniteSet(Account) BY Numbers, FS_Interval DEF Account
  <2> QED BY <2>1, FS_Subset, FS_CardinalityType
<1>2. s \in [1..n -> A] /\ \A i, j \in 1..n : i < j => s[i] < s[j]
  BY DEF InOrder
<1>3. IsFiniteSet(1..n) /\ Cardinality(1..n) = n
  BY <1>1, FS_Interval
<1> HIDE DEF n
<1>4. \A i, j \in 1..n : s[i] = s[j] => i = j
  <2> SUFFICES ASSUME NEW i \in 1..n, NEW j \in 1..n, i < j PROVE s[i] # s[j]
    BY <1>1
  <2>1. s[i] \in Account BY <1>2
  <2>2. s[i] \in Nat BY <2>1, Numbers DEF Account
  <2>3. s[i] < s[j] BY <1>2
  <2> QED BY <2>2, <2>3
<1>5. s \in Injection(1..n, A)
  BY <1>2, <1>4, Fun_IsInj
<1>6. s \in Surjection(1..n, A)
  BY <1>1, <1>3, <1>5, FS_Injection DEF n
<1>7. DOMAIN s = 1..n /\ \A t \in A : \E i \in 1..n : s[i] = t
  BY <1>2, <1>6 DEF Surjection
<1> QED BY <1>2, <1>7

\* The queue of w after the update at its head is over.
LEMMA HeadSettled ==
  ASSUME TypeOK, NEW w \in Worker, chain[w] # <<>>, chain' = [chain EXCEPT ![w] = Tail(chain[w])]
  PROVE  LET n == Len(chain[w]) IN
         /\ n \in Nat /\ n # 0 /\ DOMAIN chain[w] = 1..n /\ DOMAIN chain'[w] = 1..(n - 1)
         /\ \A i \in 1..(n - 1) : i + 1 \in 2..n /\ chain'[w][i] = chain[w][i + 1]
         /\ \A i \in 2..n : i - 1 \in 1..(n - 1) /\ chain'[w][i - 1] = chain[w][i]
         /\ Head(chain[w]) = chain[w][1]
         /\ \A v \in Worker : v # w => chain'[v] = chain[v]
<1> DEFINE s == chain[w]
<1>1. s \in Seq(Update) /\ s # <<>> BY DEF TypeOK
<1>2. chain'[w] = Tail(s) /\ \A v \in Worker : v # w => chain'[v] = chain[v]
  BY DEF TypeOK
<1> HIDE DEF s
<1>3. /\ Len(s) \in Nat /\ DOMAIN s = 1..Len(s) /\ Len(s) # 0 /\ Head(s) = s[1]
      /\ Tail(s) \in Seq(Update) /\ Len(Tail(s)) = Len(s) - 1
      /\ \A i \in 1..(Len(s) - 1) : Tail(s)[i] = s[i + 1]
  BY <1>1, HeadTailProperties, EmptySeq
<1>4. DOMAIN Tail(s) = 1..(Len(s) - 1) BY <1>3
<1>5. \A i \in 2..Len(s) : i - 1 \in 1..(Len(s) - 1) /\ (i - 1) + 1 = i BY <1>3
<1>6. \A i \in 1..(Len(s) - 1) : i + 1 \in 2..Len(s) BY <1>3
<1>7. \A i \in 2..Len(s) : Tail(s)[i - 1] = s[i] BY <1>3, <1>5
<1> QED BY <1>2, <1>3, <1>4, <1>5, <1>6, <1>7 DEF s

\* What the update at the head of w's queue writes, from what it reads.
LEMMA ReadContent ==
  ASSUME TokenInv, NEW w \in Worker, chain[w] # <<>>, content[w] = <<>>, NEW d,
         LET u == Head(chain[w])
         IN  d = IF u.kind \in {"rotated", "adopted"} THEN Rotated(w, u) ELSE Live(w)
  PROVE  LET n == Len(chain[w])
             u == chain[w][1] IN
         /\ n \in Nat /\ 1 \in 1..n /\ DOMAIN chain[w] = 1..n
         /\ \/ u.kind = "adopted" /\ d = disk
            \/ /\ u.kind = "rotated" /\ u.acct \in Members(w) /\ Rotating(w) /\ ~Deleting(w)
               /\ u.tok <= mem[w][u.acct] /\ from[w][u.acct] <= u.tok
               /\ \A b \in Account : b # u.acct => d[b] = disk[b]
               /\ \/ d[u.acct] = u.tok
                     /\ (disk[u.acct] = u.tok \/ disk[u.acct] = from[w][u.acct])
                  \/ d[u.acct] = disk[u.acct]
                     /\ (disk[u.acct] = 0 \/ disk[u.acct] # from[w][u.acct])
            \/ /\ u.kind \in {"live", "delete"} /\ Rotating(w)
               /\ \A b \in Account :
                    IF b \in Members(w) /\ (\A i \in 1..n : chain[w][i].kind = "delete" => chain[w][i].acct # b)
                    THEN d[b] = mem[w][b] ELSE d[b] = 0
<1> DEFINE n == Len(chain[w])
<1>1. chain[w] \in Seq(Update) BY DEF TokenInv, TypeInv, TypeOK
<1>2. n \in Nat /\ 1 \in 1..n /\ DOMAIN chain[w] = 1..n /\ Head(chain[w]) = chain[w][1]
  BY <1>1, EmptySeq
<1>3. PICK u \in Update : u = chain[w][1] /\ u = Head(chain[w]) BY <1>1, <1>2
<1>4. CASE u.kind = "adopted"
  <2>1. u.acct \in Account /\ u.tok = disk[u.acct]
    BY <1>2, <1>3, <1>4 DEF TokenInv, Adoptions, Adoption
  <2>2. d = Rotated(w, u) BY <1>3, <1>4
  <2>3. d = disk BY <2>1, <2>2 DEF Rotated, TokenInv, TypeInv, TypeOK
  <2> QED BY <1>2, <1>3, <1>4, <2>3
<1>5. CASE u.kind = "rotated"
  <2>1. /\ u.acct \in Account /\ job[w][u.acct].at = "saving" /\ job[w][u.acct].new = u.tok
        /\ u.tok <= mem[w][u.acct]
    BY <1>2, <1>3, <1>5 DEF TokenInv, Rotations, Rotation
  <2>2. job[w][u.acct] # Idle BY <2>1 DEF Idle
  <2>3. /\ u.acct \in Members(w) /\ Rotating(w) /\ ~Deleting(w) /\ from[w][u.acct] <= u.tok
    BY <2>1, <2>2, InFlight DEF Refresh
  <2>4. d = Rotated(w, u) BY <1>3, <1>5
  <2>5. /\ \A b \in Account : b # u.acct => d[b] = disk[b]
        /\ \/ d[u.acct] = u.tok
              /\ (disk[u.acct] = u.tok \/ disk[u.acct] = from[w][u.acct])
           \/ d[u.acct] = disk[u.acct]
              /\ (disk[u.acct] = 0 \/ disk[u.acct] # from[w][u.acct])
    BY <2>1, <2>4 DEF Rotated, TokenInv, TypeInv, TypeOK
  <2> QED BY <1>2, <1>3, <1>5, <2>1, <2>3, <2>5
<1>6. CASE u.kind \in {"live", "delete"}
  <2>1. d = Live(w) BY <1>3, <1>6
  <2>2. \A b \in Account :
          IF b \in Members(w) /\ (\A i \in 1..n : chain[w][i].kind = "delete" => chain[w][i].acct # b)
          THEN d[b] = mem[w][b] ELSE d[b] = 0
    BY <1>2, <2>1 DEF Live
  <2>3. Rotating(w)
    BY <1>2, <1>3, <1>6 DEF TokenInv, TypeInv, TypeOK, Roles, Adoptions, Headless, Rotating
  <2> QED BY <1>2, <1>3, <1>6, <2>2, <2>3
<1> QED BY <1>4, <1>5, <1>6 DEF Update

LEMMA ConfigReadKeeps ==
  ASSUME Mishaps = {}, TokenInv, TypeInv', NEW w \in Worker, ConfigRead(w)
  PROVE  TokenInv'
<1> DEFINE n == Len(chain[w])
<1>1. PICK d : /\ content' = [content EXCEPT ![w] = <<d>>]
               /\ LET u == Head(chain[w])
                  IN  d = IF u.kind \in {"rotated", "adopted"} THEN Rotated(w, u) ELSE Live(w)
  BY DEF ConfigRead
<1>2. /\ chain[w] # <<>> /\ content[w] = <<>>
      /\ Headless(w) \/ \A v \in Worker : Headless(v) => chain[v] = <<>>
      /\ UNCHANGED <<issues, spent, disk, phase, list, mem, from, status, job, chain, cut>>
  BY DEF ConfigRead, Headless, server, memory
<1>3. PICK u : u = chain[w][1] OBVIOUS
<1>4. /\ n \in Nat /\ 1 \in 1..n /\ DOMAIN chain[w] = 1..n
      /\ \/ u.kind = "adopted" /\ d = disk
         \/ /\ u.kind = "rotated" /\ u.acct \in Members(w) /\ Rotating(w) /\ ~Deleting(w)
            /\ u.tok <= mem[w][u.acct] /\ from[w][u.acct] <= u.tok
            /\ \A b \in Account : b # u.acct => d[b] = disk[b]
            /\ \/ d[u.acct] = u.tok
                  /\ (disk[u.acct] = u.tok \/ disk[u.acct] = from[w][u.acct])
               \/ d[u.acct] = disk[u.acct]
                  /\ (disk[u.acct] = 0 \/ disk[u.acct] # from[w][u.acct])
         \/ /\ u.kind \in {"live", "delete"} /\ Rotating(w)
            /\ \A b \in Account :
                 IF b \in Members(w) /\ (\A i \in 1..n : chain[w][i].kind = "delete" => chain[w][i].acct # b)
                 THEN d[b] = mem[w][b] ELSE d[b] = 0
  BY <1>1, <1>2, <1>3, ReadContent
<1> HIDE DEF n
<1>5. /\ content'[w] = <<d>> /\ content'[w] # <<>> /\ Written(w)' = d
      /\ \A v \in Worker : v # w => content'[v] = content[v] /\ Written(v)' = Written(v)
  BY <1>1 DEF Written, TokenInv, TypeInv, TypeOK
<1>6. \A v \in Worker :
        /\ Members(v)' = Members(v) /\ Members(v) \subseteq Account
        /\ Rotating(v)' <=> Rotating(v)
        /\ Headless(v)' <=> Headless(v)
        /\ Deleting(v)' <=> Deleting(v)
  <2>1. \A v \in Worker : Members(v) \subseteq Account
    BY MembersAreAccounts DEF TokenInv, TypeInv
  <2> QED BY <1>2, <2>1 DEF Members, Rotating, Headless, Deleting
<1>7. Roles'
  <2>1. phase[w] # "none" BY <1>2 DEF TokenInv, Roles
  <2> QED BY <1>2, <1>5, <1>6, <2>1 DEF TokenInv, Roles
<1>8. Deletions'
  <2>1. ASSUME NEW v \in Worker, NEW i \in DOMAIN chain[v] PROVE Deletion(v, i)'
    <3>1. Deletion(v, i) BY DEF TokenInv, Deletions
    <3>2. CASE v # w BY <1>2, <1>5, <3>1, <3>2 DEF Deletion
    <3>3. CASE v = w
      <4>1. u.kind = "delete" /\ u.acct \in Account => d[u.acct] = 0 BY <1>3, <1>4
      <4> QED BY <1>2, <1>3, <1>5, <3>1, <3>3, <4>1 DEF Deletion
    <3> QED BY <3>2, <3>3
  <2> QED BY <1>2, <1>6, <2>1 DEF TokenInv, Deletions
<1>9. Refreshes' BY <1>2, <1>6 DEF TokenInv, Refreshes, Refresh
<1>10. Rotations'
  <2> SUFFICES ASSUME NEW v \in Worker, NEW i \in DOMAIN chain[v], NEW q, q = chain[v][i]
               PROVE  Rotation(v, i, q)'
    BY <1>2 DEF Rotations
  <2>1. Rotation(v, i, q) BY DEF TokenInv, Rotations
  <2> QED BY <1>2, <2>1 DEF Rotation
<1>11. Adoptions'
  <2>1. \A v \in Worker : \A i \in DOMAIN chain[v] : Adoption(v, i)'
    BY <1>2 DEF TokenInv, Adoptions, Adoption
  <2>2. ASSUME NEW v \in Worker, content'[v] # <<>>, chain[v][1].kind = "adopted"
        PROVE  Written(v)' = disk
    BY <1>3, <1>4, <1>5, <2>2 DEF TokenInv, Adoptions
  <2>3. ASSUME NEW v \in Worker, Headless(v)
        PROVE  /\ \A i \in DOMAIN chain[v] : chain[v][i].kind = "adopted"
               /\ chain[v] # <<>> => \A x \in Worker \ {v} : content'[x] = <<>>
    <3>1. /\ \A i \in DOMAIN chain[v] : chain[v][i].kind = "adopted"
          /\ chain[v] # <<>> => \A x \in Worker \ {v} : content[x] = <<>>
      BY <2>3 DEF TokenInv, Adoptions
    <3>2. chain[v] # <<>> => v = w BY <1>2, <2>3 DEF TokenInv, Roles
    <3> QED BY <1>5, <3>1, <3>2
  <2> QED BY <1>2, <1>6, <2>1, <2>2, <2>3 DEF Adoptions
<1>12. Order'
  <2>1. \A v \in Worker : Ahead(v) /\ Behind(v) BY DEF TokenInv, Order
  <2>2. \A v \in Worker : Behind(v)' BY <1>2, <1>6, <2>1 DEF Behind
  <2>3. ASSUME NEW v \in Worker, v # w PROVE Ahead(v)'
    BY <1>2, <1>5, <1>6, <2>1, <2>3 DEF Ahead
  <2>4. ASSUME Rotating(w) PROVE Ahead(w)'
    <3>1. \A b \in Account : mem[w][b] \in Token /\ disk[b] \in Token /\ from[w][b] \in Token
      BY DEF TokenInv, TypeInv, TypeOK
    <3>2. \A a \in Members(w) : disk[a] <= mem[w][a] BY <2>1, <2>4 DEF Ahead
    <3>3. \A b \in Token : 0 <= b BY Numbers DEF Token
    <3>4. /\ \A a \in Members(w) : d[a] <= mem[w][a]
          /\ \A a \in Account \ Members(w) : d[a] \in {0, disk[a]}
          /\ ~Deleting(w) => \A a \in Members(w) : disk[a] <= d[a]
      <4>1. CASE u.kind = "adopted" /\ d = disk BY <1>6, <3>1, <3>2, <4>1, TokenOrder
      <4>2. CASE u.kind = "rotated"
        <5>1. \A a \in Members(w) : a # u.acct => d[a] <= mem[w][a] /\ disk[a] <= d[a]
          BY <1>4, <1>6, <3>1, <3>2, <4>2, TokenOrder
        <5>2. d[u.acct] <= mem[w][u.acct] /\ disk[u.acct] <= d[u.acct]
          <6>1. u.acct \in Members(w) /\ u.acct \in Account BY <1>4, <1>6, <4>2
          <6>2. CASE d[u.acct] = disk[u.acct] BY <3>1, <3>2, <6>1, <6>2, TokenOrder
          <6>3. CASE d[u.acct] = u.tok /\ (disk[u.acct] = u.tok \/ disk[u.acct] = from[w][u.acct])
            <7>1. u.tok <= mem[w][u.acct] /\ from[w][u.acct] <= u.tok BY <1>4, <4>2
            <7>2. disk[u.acct] = u.tok => disk[u.acct] <= u.tok BY <3>1, <6>1, TokenOrder
            <7> QED BY <6>3, <7>1, <7>2
          <6> QED BY <1>4, <4>2, <6>2, <6>3
        <5>3. \A a \in Account \ Members(w) : d[a] \in {0, disk[a]} BY <1>4, <4>2
        <5> QED BY <5>1, <5>2, <5>3
      <4>3. CASE u.kind \in {"live", "delete"}
        <5>1. \A a \in Members(w) : d[a] <= mem[w][a]
          BY <1>4, <1>6, <3>1, <3>3, <4>3, TokenOrder
        <5>2. \A a \in Account \ Members(w) : d[a] \in {0, disk[a]} BY <1>4, <4>3
        <5>3. ~Deleting(w) => \A a \in Members(w) : d[a] = mem[w][a]
          BY <1>4, <1>6, <4>3 DEF Deleting
        <5> QED BY <3>2, <5>1, <5>2, <5>3
      <4> QED BY <1>4, <4>1, <4>2, <4>3
    <3> QED BY <1>2, <1>5, <1>6, <3>2, <3>4 DEF Ahead
  <2>5. ~Rotating(w) => Ahead(w)' BY <1>6 DEF Ahead
  <2> QED BY <2>2, <2>3, <2>4, <2>5 DEF Order
<1>13. Apart'
  <2>1. ASSUME NEW t \in Token, NEW b \in Account, Holds(t, b)' PROVE t = 0 \/ Holds(t, b)
    <3>1. CASE t # d[b] BY <1>2, <1>5, <2>1, <3>1 DEF Holds
    <3>2. CASE t = d[b]
      <4>1. u.acct = b /\ t = u.tok => Holds(t, b) BY <1>3, <1>4 DEF Holds
      <4>2. t \in {0, disk[b], mem[w][b]} \/ (u.acct = b /\ t = u.tok) BY <1>4, <3>2
      <4> QED BY <4>1, <4>2 DEF Holds
    <3> QED BY <3>1, <3>2
  <2> QED BY <1>2, <2>1, StaysApart DEF TokenInv
<1>14. ASSUME NEW v \in Worker PROVE Holder(v)'
  <2> SUFFICES ASSUME Rotating(v), NEW b \in Account \ cut PROVE Good(v, b)'
    BY <1>2, <1>6 DEF Holder
  <2>1. Good(v, b) BY DEF TokenInv, Holder
  <2>2. Due(v, b, disk[b], DOMAIN chain[v])'
    BY <1>2, <1>6, <2>1 DEF Good, Due
  <2>3. ASSUME content'[v] # <<>> PROVE Due(v, b, Written(v)[b], DOMAIN chain[v] \ {1})'
    <3>1. CASE v # w BY <1>2, <1>5, <1>6, <2>1, <2>3, <3>1 DEF Good, Due
    <3>2. CASE v = w
      <4>1. Due(w, b, disk[b], 1..n) BY <1>4, <2>1, <3>2 DEF Good
      <4>2. (d[b] = disk[b] /\ ~(u.kind = "rotated" /\ u.acct = b /\ disk[b] = from[w][b] /\ disk[b] # 0)
                            /\ ~(u.kind = "live"))
            => Due(w, b, d[b], (1..n) \ {1})
        BY <1>3, <4>1 DEF Due
      <4>3. Due(w, b, d[b], (1..n) \ {1})
        <5>1. CASE u.kind = "adopted" /\ d = disk BY <4>2, <5>1
        <5>2. CASE u.kind = "rotated" /\ (u.acct # b \/ d[b] # u.tok)
          BY <1>4, <4>2, <5>2
        <5>3. CASE u.kind = "rotated" /\ u.acct = b /\ d[b] = u.tok
          <6>1. /\ b \in Members(w)
                /\ mem[w][b] = u.tok
                   \/ \E k \in 1..n : k > 1 /\ chain[w][k].kind = "live" /\ chain[w][k].acct = b
            BY <1>3, <1>4, <5>3 DEF TokenInv, Rotations, Rotation
          <6> QED BY <5>3, <6>1 DEF Due
        <5>4. CASE u.kind \in {"live", "delete"} /\ d[b] \in {0, mem[w][b]}
          BY <1>4, <5>4 DEF Due
        <5> QED BY <1>4, <5>1, <5>2, <5>3, <5>4
      <4> QED BY <1>2, <1>4, <1>5, <1>6, <3>2, <4>3 DEF Due
    <3> QED BY <3>1, <3>2
  <2> QED BY <1>2, <1>6, <2>1, <2>2, <2>3 DEF Good
<1>15. Vacancy' BY <1>2, <1>6 DEF TokenInv, Vacancy
<1>16. BlameIsDeserved' BY <1>2, SameBlame DEF TokenInv
<1> QED BY <1>7, <1>8, <1>9, <1>10, <1>11, <1>12, <1>13, <1>14, <1>15, <1>16 DEF TokenInv

\* The update at the head of w's queue is over.  Either it is on disk, and an
\* account whose deletion it was is gone from the list, or the account that it was
\* for is cut off.
LEMMA SettledKeeps ==
  ASSUME TokenInv, TypeInv', NEW w \in Worker, content[w] # <<>>, Settle(w),
         UNCHANGED <<issues, spent, phase, mem, from, status>>,
         \A v \in Worker : v # w => list'[v] = list[v],
         \/ /\ disk' = Written(w) /\ cut' = cut
            /\ \/ list' = list
               \/ /\ chain[w][1].kind = "delete"
                  /\ Members(w)' = Members(w) \ {chain[w][1].acct}
         \/ /\ disk' = disk /\ list' = list
            /\ cut' = cut \cup ({chain[w][1].acct} \cap Account)
  PROVE  TokenInv'
<1> DEFINE n == Len(chain[w])
<1>1. chain[w] # <<>> /\ chain' = [chain EXCEPT ![w] = Tail(chain[w])]
  BY DEF Settle, TokenInv, TypeInv, TypeOK
<1>2. /\ n \in Nat /\ n # 0 /\ DOMAIN chain[w] = 1..n /\ DOMAIN chain'[w] = 1..(n - 1)
      /\ \A i \in 1..(n - 1) : i + 1 \in 2..n /\ chain'[w][i] = chain[w][i + 1]
      /\ \A i \in 2..n : i - 1 \in 1..(n - 1) /\ chain'[w][i - 1] = chain[w][i]
      /\ Head(chain[w]) = chain[w][1]
      /\ \A v \in Worker : v # w => chain'[v] = chain[v]
  BY <1>1, HeadSettled DEF TokenInv, TypeInv
<1>3. 2..n \subseteq 1..n /\ 1 \in 1..n /\ (\A i \in 1..n : i = 1 \/ i \in 2..n)
      /\ 1 \notin 2..n /\ (\A i \in 1..(n - 1) : i + 1 \in 1..n /\ i + 1 # 1)
  BY <1>2
<1> HIDE DEF n
<1>4. PICK u \in Update : u = chain[w][1]
  BY <1>2, <1>3 DEF TokenInv, TypeInv, TypeOK
<1>5. /\ content'[w] = <<>> /\ \A v \in Worker : v # w => content'[v] = content[v]
      /\ \A v \in Worker : v # w => Written(v)' = Written(v)
  BY DEF Settle, Written, TokenInv, TypeInv, TypeOK
<1>6. \A v \in Worker, b \in Account :
        job'[v][b] = IF u.kind = "rotated" /\ v = w /\ b = u.owner THEN Idle ELSE job[v][b]
  BY <1>2, <1>4 DEF Settle, TokenInv, TypeInv, TypeOK
<1>7. \A v \in Worker :
        /\ Members(v)' \subseteq Members(v) /\ Members(v) \subseteq Account
        /\ Rotating(v)' <=> Rotating(v)
        /\ Headless(v)' <=> Headless(v)
        /\ Deleting(v)' => Deleting(v)
        /\ v # w => Members(v)' = Members(v)
        /\ ~Deleting(v) => list'[v] = list[v] /\ Members(v)' = Members(v)
  <2>1. \A v \in Worker : Members(v) \subseteq Account
    BY MembersAreAccounts DEF TokenInv, TypeInv
  <2>2. \A v \in Worker : Deleting(v)' => Deleting(v) BY <1>2, <1>3 DEF Deleting
  <2>3. \A v \in Worker : v # w => Members(v)' = Members(v) BY DEF Members
  <2>4. list' = list => Members(w)' = Members(w) BY DEF Members
  <2>5. list' = list \/ (Deleting(w) /\ Members(w)' = Members(w) \ {u.acct})
    BY <1>2, <1>3, <1>4 DEF Deleting
  <2> QED BY <2>1, <2>2, <2>3, <2>4, <2>5 DEF Rotating, Headless
<1>8. Headless(w) => disk' = disk
  BY <1>2, <1>3 DEF TokenInv, Adoptions
<1>9. /\ Rotating(w) \/ Headless(w)
      /\ \A v \in Worker : Rotating(w) /\ Rotating(v) => v = w
      /\ \A v \in Worker : Headless(w) /\ Headless(v) => v = w
      /\ ~(Rotating(w) /\ Headless(w))
      /\ \A v \in Worker : phase[v] = "none" \/ Rotating(v) \/ Headless(v)
  BY DEF TokenInv, TypeInv, TypeOK, Roles, Rotating, Headless
<1>10. u.kind = "rotated" => u.acct \in Account /\ u.owner = u.acct
  BY <1>2, <1>3, <1>4 DEF TokenInv, Rotations, Rotation
<1>11. Roles'
  BY <1>2, <1>5, <1>7, <1>9 DEF TokenInv, Roles, Rotating, Headless
<1>12. Deletions'
  <2>1. ASSUME NEW v \in Worker, NEW i \in DOMAIN chain'[v] PROVE Deletion(v, i)'
    <3>1. CASE v # w
      <4>1. Deletion(v, i) BY <1>2, <3>1 DEF TokenInv, Deletions
      <4> QED BY <1>2, <1>5, <3>1, <4>1 DEF Deletion
    <3>2. CASE v = w
      <4>1. Deletion(w, i + 1) BY <1>2, <1>3, <2>1, <3>2 DEF TokenInv, Deletions
      <4> QED BY <1>2, <1>5, <2>1, <3>2, <4>1 DEF Deletion
    <3> QED BY <3>1, <3>2
  <2>2. \A v \in Worker : Deleting(v) => /\ \A x \in Worker : ~Headless(x)
                                         /\ \A a \in Account : job'[v][a] = Idle
    BY <1>6 DEF TokenInv, Deletions
  <2> QED BY <1>7, <2>1, <2>2 DEF Deletions
<1>13. Refreshes'
  <2> SUFFICES ASSUME NEW v \in Worker, NEW b \in Account, job'[v][b] # Idle
               PROVE  Refresh(v, b)'
    BY DEF Refreshes, Refresh
  <2>1. job'[v][b] = job[v][b] /\ job[v][b] # Idle /\ Refresh(v, b) /\ ~Deleting(v)
    BY <1>6, InFlight
  <2>2. list'[v] = list[v] BY <1>7, <2>1
  <2> QED BY <1>7, <2>1, <2>2 DEF Refresh
<1>14. Rotations'
  <2> SUFFICES ASSUME NEW v \in Worker, NEW i \in DOMAIN chain'[v], NEW q, q = chain'[v][i]
               PROVE  Rotation(v, i, q)'
    BY DEF Rotations
  <2>1. CASE v # w
    <3>1. Rotation(v, i, q) BY <1>2, <2>1 DEF TokenInv, Rotations
    <3> QED BY <1>2, <1>6, <2>1, <3>1 DEF Rotation
  <2>2. CASE v = w
    <3> SUFFICES ASSUME q.kind = "rotated" PROVE Rotation(w, i, q)'
      BY <2>2 DEF Rotation
    <3>1. q = chain[w][i + 1] /\ i + 1 \in 2..n /\ i \in 1..(n - 1) /\ Rotation(w, i + 1, q)
      BY <1>2, <1>3, <2>2 DEF TokenInv, Rotations
    <3>2. /\ q.acct \in Account /\ q.owner = q.acct
          /\ job[w][q.acct].at = "saving" /\ job[w][q.acct].new = q.tok
          /\ q.tok <= mem[w][q.acct]
          /\ \/ mem[w][q.acct] = q.tok
             \/ \E k \in 1..n : k > i + 1 /\ chain[w][k].kind = "live" /\ chain[w][k].acct = q.acct
          /\ \A k \in 1..n : chain[w][k].kind = "rotated" /\ chain[w][k].acct = q.acct => k = i + 1
      BY <1>2, <3>1 DEF Rotation
    <3>3. job'[w][q.acct] = job[w][q.acct]
      <4>1. u.kind = "rotated" => u.acct # q.acct BY <1>3, <1>4, <3>1, <3>2
      <4> QED BY <1>6, <1>10, <3>2, <4>1
    <3>4. ASSUME NEW k \in 1..n, k > i + 1, chain[w][k].kind = "live", chain[w][k].acct = q.acct
          PROVE  \E m \in 1..(n - 1) :
                   m > i /\ chain'[w][m].kind = "live" /\ chain'[w][m].acct = q.acct
      <4>1. k \in 2..n BY <1>2, <3>1, <3>4
      <4>2. k - 1 \in 1..(n - 1) /\ chain'[w][k - 1] = chain[w][k] BY <1>2, <4>1
      <4>3. k - 1 > i BY <1>2, <3>1, <3>4
      <4> QED BY <3>4, <4>2, <4>3
    <3>5. ASSUME NEW k \in 1..(n - 1), chain'[w][k].kind = "rotated", chain'[w][k].acct = q.acct
          PROVE  k = i
      <4>1. chain[w][k + 1] = chain'[w][k] /\ k + 1 \in 1..n BY <1>2, <1>3
      <4>2. k + 1 = i + 1 BY <3>2, <3>5, <4>1
      <4> QED BY <1>2, <3>1, <4>2
    <3> QED BY <1>2, <3>2, <3>3, <3>4, <3>5 DEF Rotation
  <2> QED BY <2>1, <2>2
<1>15. Adoptions'
  <2>1. ASSUME NEW v \in Worker, NEW i \in DOMAIN chain'[v] PROVE Adoption(v, i)'
    <3>1. CASE v # w
      <4>1. Adoption(v, i) /\ chain'[v] = chain[v] BY <1>2, <3>1 DEF TokenInv, Adoptions
      <4>2. chain[v] # <<>> => disk' = disk \/ phase[v] # "none"
        BY DEF TokenInv, Roles
      <4>3. Headless(v) /\ chain[v] # <<>> => content[w] = <<>>
        BY <3>1 DEF TokenInv, Adoptions
      <4>4. chain[v] # <<>> => disk' = disk
        BY <1>8, <1>9, <3>1, <4>2, <4>3
      <4>5. disk' = disk BY <2>1, <4>1, <4>4
      <4> QED BY <4>1, <4>5 DEF Adoption
    <3>2. CASE v = w
      <4>1. /\ Adoption(w, i + 1) /\ chain[w][i + 1] = chain'[w][i]
            /\ i \in 1..(n - 1) /\ i + 1 \in 1..n
        BY <1>2, <1>3, <2>1, <3>2 DEF TokenInv, Adoptions
      <4> SUFFICES ASSUME chain'[w][i].kind = "adopted" PROVE Adoption(w, i)'
        BY <3>2 DEF Adoption
      <4>2. \A k \in 1..(i + 1) : chain[w][k].kind = "adopted" BY <4>1 DEF Adoption
      <4>3. u.kind = "adopted" BY <1>2, <1>4, <4>1, <4>2
      <4>4. disk' = disk BY <1>4, <4>3 DEF TokenInv, Adoptions
      <4>5. \A k \in 1..i : k \in 1..(n - 1) /\ k + 1 \in 1..(i + 1) BY <1>2, <4>1
      <4>6. chain'[w][i].acct \in Account /\ chain'[w][i].tok = disk'[chain'[w][i].acct]
        BY <4>1, <4>4 DEF Adoption
      <4>7. ASSUME NEW k \in 1..i PROVE chain'[w][k].kind = "adopted"
        <5>1. k \in 1..(n - 1) /\ k + 1 \in 1..(i + 1) BY <4>5
        <5>2. chain[w][k + 1] = chain'[w][k] BY <1>2, <1>3, <5>1
        <5> QED BY <4>2, <5>1, <5>2
      <4> QED BY <4>6, <4>7 DEF Adoption
    <3> QED BY <3>1, <3>2
  <2>2. ASSUME NEW v \in Worker, content'[v] # <<>>, chain'[v][1].kind = "adopted"
        PROVE  Written(v)' = disk'
    <3>1. v # w /\ chain'[v] = chain[v] /\ content[v] # <<>> /\ Written(v)' = Written(v)
      BY <1>2, <1>5, <2>2
    <3>2. Written(v) = disk BY <2>2, <3>1 DEF TokenInv, Adoptions
    <3>3. chain[v] # <<>> BY <3>1 DEF TokenInv, TypeInv, TypeOK
    <3>4. phase[v] # "none" BY <3>3 DEF TokenInv, Roles
    <3>5. Headless(v) => content[w] = <<>> BY <3>1, <3>3 DEF TokenInv, Adoptions
    <3>6. disk' = disk BY <1>8, <1>9, <3>1, <3>4, <3>5
    <3> QED BY <3>1, <3>2, <3>6
  <2>3. ASSUME NEW v \in Worker, Headless(v)
        PROVE  /\ \A i \in DOMAIN chain'[v] : chain'[v][i].kind = "adopted"
               /\ chain'[v] # <<>> => \A x \in Worker \ {v} : content'[x] = <<>>
    <3>1. /\ \A i \in DOMAIN chain[v] : chain[v][i].kind = "adopted"
          /\ chain[v] # <<>> => \A x \in Worker \ {v} : content[x] = <<>>
      BY <2>3 DEF TokenInv, Adoptions
    <3>2. CASE v # w BY <1>2, <1>5, <3>1, <3>2
    <3>3. CASE v = w BY <1>1, <1>2, <1>3, <1>5, <3>1, <3>3
    <3> QED BY <3>2, <3>3
  <2> QED BY <1>7, <2>1, <2>2, <2>3 DEF Adoptions
<1>16. /\ \A b \in Account : disk[b] \in Token /\ disk'[b] \in Token /\ Written(w)[b] \in Token
       /\ \A v \in Worker : \A b \in Account : mem[v][b] \in Token
  BY DEF Written, TokenInv, TypeInv, TypeOK
<1>17. Order'
  <2>1. \A v \in Worker : Ahead(v) /\ Behind(v) BY DEF TokenInv, Order
  <2>2. ASSUME NEW v \in Worker PROVE Ahead(v)'
    <3> SUFFICES ASSUME Rotating(v) PROVE Ahead(v)' BY <1>7 DEF Ahead
    <3>1. CASE v = w
      <4>1. \A a \in Members(w) : disk'[a] <= mem[w][a] BY <2>1, <3>1 DEF Ahead
      <4> QED BY <1>5, <1>7, <3>1, <4>1 DEF Ahead
    <3>2. CASE v # w
      <4>1. disk' = disk BY <1>8, <1>9, <3>2
      <4>2. Deleting(v) => Deleting(v)' BY <1>2, <3>2 DEF Deleting
      <4> QED BY <1>5, <1>7, <2>1, <3>2, <4>1, <4>2 DEF Ahead
    <3> QED BY <3>1, <3>2
  <2>3. ASSUME NEW h \in Worker PROVE Behind(h)'
    <3> SUFFICES ASSUME Headless(h) PROVE Behind(h)' BY <1>7 DEF Behind
    <3>1. CASE disk' = disk BY <1>7, <2>1, <3>1 DEF Behind
    <3>2. CASE disk' # disk
      <4>1. Rotating(w) /\ h # w /\ ~Deleting(w) /\ disk' = Written(w)
        BY <1>8, <1>9, <3>2 DEF TokenInv, Deletions
      <4>2. /\ \A a \in Members(h) : mem[h][a] <= disk[a] \/ disk[a] = 0
            /\ \A a \in Members(h) \cap Members(w) : mem[h][a] <= disk[a]
        BY <2>1, <4>1 DEF Behind
      <4>3. /\ \A a \in Account \ Members(w) : disk'[a] \in {0, disk[a]}
            /\ \A a \in Members(w) : disk[a] <= disk'[a]
        BY <2>1, <4>1 DEF Ahead
      <4>4. \A a \in Members(h) \cap Members(w) : mem[h][a] <= disk'[a]
        BY <1>7, <1>16, <4>2, <4>3, TokenOrder
      <4>5. \A a \in Members(h) : mem[h][a] <= disk'[a] \/ disk'[a] = 0
        BY <1>7, <4>2, <4>3, <4>4
      <4> QED BY <1>7, <1>9, <4>1, <4>4, <4>5 DEF Behind
    <3> QED BY <3>1, <3>2
  <2> QED BY <2>2, <2>3 DEF Order
<1>18. Apart'
  <2>1. ASSUME NEW t \in Token, NEW b \in Account, Holds(t, b)' PROVE t = 0 \/ Holds(t, b)
    <3>1. CASE t = disk'[b] BY <3>1 DEF Holds
    <3>2. ASSUME NEW v \in Worker,
                 \/ t \in {mem'[v][b], job'[v][b].tok, job'[v][b].new}
                 \/ content'[v] # <<>> /\ t = Written(v)'[b]
          PROVE  t = 0 \/ Holds(t, b)
      <4>1. Idle.tok = 0 /\ Idle.new = 0 BY DEF Idle
      <4> QED BY <1>5, <1>6, <3>2, <4>1 DEF Holds
    <3>3. ASSUME NEW v \in Worker, NEW i \in DOMAIN chain'[v],
                 chain'[v][i].acct = b, t = chain'[v][i].tok
          PROVE  Holds(t, b)
      <4>1. CASE v # w BY <1>2, <3>3, <4>1 DEF Holds
      <4>2. CASE v = w
        <5>1. chain[w][i + 1] = chain'[w][i] /\ i + 1 \in DOMAIN chain[w] BY <1>2, <1>3, <3>3, <4>2
        <5> QED BY <3>3, <4>2, <5>1 DEF Holds
      <4> QED BY <4>1, <4>2
    <3> QED BY <2>1, <3>1, <3>2, <3>3 DEF Holds
  <2> QED BY <2>1, StaysApart DEF TokenInv
<1>19. ASSUME NEW v \in Worker PROVE Holder(v)'
  <2> SUFFICES ASSUME Rotating(v), NEW b \in Account \ cut' PROVE Good(v, b)'
    BY <1>7 DEF Holder
  <2>1. b \notin cut /\ Good(v, b) BY DEF TokenInv, Holder
  <2>2. b \in Members(v) =>
          (IF job'[v][b].at = "answered" THEN job'[v][b].new ELSE mem[v][b]) \notin spent
    <3>1. job'[v][b] = job[v][b] \/ (job'[v][b].at # "answered" /\ job[v][b].at # "answered")
      <4>1. Idle.at = "idle" BY DEF Idle
      <4>2. u.kind = "rotated" => job[w][u.owner].at = "saving"
        BY <1>2, <1>3, <1>4 DEF TokenInv, Rotations, Rotation
      <4> QED BY <1>6, <4>1, <4>2
    <3> QED BY <2>1, <3>1 DEF Good
  <2>3. CASE v # w
    <3>1. disk' = disk BY <1>8, <1>9, <2>3
    <3> QED BY <1>2, <1>5, <1>7, <2>1, <2>2, <2>3, <3>1 DEF Good, Due
  <2>4. CASE v = w
    <3>1. \A h \in Worker : Headless(h) => ~Deleting(w) /\ h # w
      BY <1>9, <2>4 DEF TokenInv, Deletions
    <3>2. \A h \in Worker :
            Headless(h) /\ b \in Members(h) \ Members(w)' => mem[h][b] \notin spent
      BY <1>7, <2>1, <2>4, <3>1 DEF Good
    <3>3. Due(w, b, disk[b], DOMAIN chain[w])'
      <4>1. PICK x : x = disk'[b] OBVIOUS
      <4>2. Due(w, b, x, 2..n)
        <5>1. CASE disk' = Written(w) BY <1>2, <1>3, <2>1, <2>4, <4>1, <5>1 DEF Good, Due
        <5>2. CASE disk' = disk /\ u.acct # b
          BY <1>2, <1>3, <1>4, <2>1, <2>4, <4>1, <5>2 DEF Good, Due
        <5> QED BY <1>4, <5>1, <5>2
      <4>3. CASE x = 0 BY <4>1, <4>3 DEF Due
      <4>4. CASE b \notin Members(w) /\ x \notin spent BY <1>7, <4>1, <4>4 DEF Due
      <4>5. CASE b \in Members(w) /\ b \notin Members(w)'
        <5>1. list' # list BY <4>5 DEF Members
        <5>2. /\ disk' = Written(w) /\ u.kind = "delete"
              /\ Members(w)' = Members(w) \ {u.acct}
          BY <1>4, <5>1
        <5>3. b = u.acct BY <4>5, <5>2
        <5>4. Written(w)[b] = 0
          BY <1>2, <1>3, <1>4, <5>2, <5>3 DEF TokenInv, Deletions, Deletion
        <5> QED BY <4>1, <4>3, <5>2, <5>4
      <4>6. CASE b \in Members(w)' /\ x = mem[w][b] BY <4>1, <4>6 DEF Due
      <4>7. CASE /\ b \in Members(w)'
                 /\ \E i \in 2..n : /\ chain[w][i].acct = b
                                    /\ \/ chain[w][i].kind = "live"
                                       \/ /\ chain[w][i].kind = "rotated"
                                          /\ chain[w][i].tok = mem[w][b] /\ x = from[w][b]
        <5>1. PICK i \in 2..n : /\ chain[w][i].acct = b
                               /\ \/ chain[w][i].kind = "live"
                                  \/ /\ chain[w][i].kind = "rotated"
                                     /\ chain[w][i].tok = mem[w][b] /\ x = from[w][b]
          BY <4>7
        <5>2. i - 1 \in DOMAIN chain'[w] /\ chain'[w][i - 1] = chain[w][i] BY <1>2
        <5> QED BY <4>1, <4>7, <5>1, <5>2 DEF Due
      <4> QED BY <4>2, <4>3, <4>4, <4>5, <4>6, <4>7 DEF Due
    <3> QED BY <1>5, <1>7, <2>2, <2>4, <3>2, <3>3 DEF Good
  <2> QED BY <2>3, <2>4
<1>20. Vacancy'
  <2> SUFFICES ASSUME \A v \in Worker : ~Rotating(v) PROVE Vacancy'
    BY <1>7 DEF Vacancy
  <2>1. disk' = disk BY <1>8, <1>9
  <2> QED BY <1>7, <2>1 DEF TokenInv, Vacancy
<1>21. BlameIsDeserved'
  BY <1>7 DEF TokenInv, BlameIsDeserved
<1> QED
  BY <1>11, <1>12, <1>13, <1>14, <1>15, <1>17, <1>18, <1>19, <1>20, <1>21 DEF TokenInv

LEMMA ConfigWriteKeeps ==
  ASSUME TokenInv, TypeInv', NEW w \in Worker, ConfigWrite(w) \/ ConfigFails(w)
  PROVE  TokenInv'
<1>1. /\ content[w] # <<>> /\ Settle(w) /\ chain[w] # <<>> /\ Head(chain[w]) = chain[w][1]
      /\ UNCHANGED <<issues, spent, phase, mem, from, status>>
  <2>1. content[w] # <<>> /\ chain[w] # <<>> /\ chain[w] \in Seq(Update)
    BY DEF ConfigWrite, ConfigFails, TokenInv, TypeInv, TypeOK
  <2> QED BY <2>1 DEF ConfigWrite, ConfigFails, server, memory
<1>2. CASE ConfigFails(w)
  <2>1. disk' = disk /\ list' = list /\ cut' = cut \cup ({chain[w][1].acct} \cap Account)
    BY <1>1, <1>2 DEF ConfigFails, memory
  <2> QED BY <1>1, <2>1, SettledKeeps
<1>3. CASE ConfigWrite(w)
  <2>1. disk' = Written(w) /\ cut' = cut
    BY <1>3 DEF ConfigWrite, Written
  <2>2. CASE list' = list BY <1>1, <2>1, <2>2, SettledKeeps
  <2>3. CASE list' # list
    <3>1. chain[w][1].kind = "delete"
      BY <1>1, <1>3, <2>3 DEF ConfigWrite
    <3> DEFINE A == Members(w) \ {chain[w][1].acct}
    <3>2. PICK s \in InOrder(A) : list' = [list EXCEPT ![w] = s]
      BY <1>1, <1>3, <3>1 DEF ConfigWrite
    <3>3. A \in SUBSET Account BY MembersAreAccounts DEF TokenInv, TypeInv
    <3> HIDE DEF A
    <3>4. list'[w] = s /\ \A v \in Worker : v # w => list'[v] = list[v]
      BY <3>2 DEF TokenInv, TypeInv, TypeOK
    <3>5. Members(w)' = A
      BY <3>2, <3>3, <3>4, InOrderIsOnto DEF Members
    <3> QED BY <1>1, <2>1, <3>1, <3>4, <3>5, SettledKeeps DEF A
  <2> QED BY <2>2, <2>3
<1> QED BY <1>2, <1>3

(***************************************************************************)
(* The processes come and go.                                              *)
(***************************************************************************)

\* While none rotates there is no refresh, and what is queued confirms the file.
LEMMA Quiet ==
  ASSUME TokenInv, \A v \in Worker : ~Rotating(v)
  PROVE  /\ \A v \in Worker, b \in Account : job[v][b] = Idle
         /\ \A v \in Worker : ~Deleting(v)
         /\ \A v \in Worker : \A i \in DOMAIN chain[v] : chain[v][i].kind = "adopted"
<1>1. \A v \in Worker, b \in Account : job[v][b] = Idle BY InFlight
<1>2. ASSUME NEW v \in Worker, NEW i \in DOMAIN chain[v] PROVE chain[v][i].kind = "adopted"
  <2>1. CASE Headless(v) BY <2>1 DEF TokenInv, Adoptions
  <2>2. CASE ~Headless(v)
    <3>1. chain[v] = <<>> BY <2>2 DEF TokenInv, TypeInv, TypeOK, Roles, Headless, Rotating
    <3> QED BY <3>1
  <2> QED BY <2>1, <2>2
<1> QED BY <1>1, <1>2 DEF Deleting

\* The process that a lock starts with no predecessor, and the one that waits
\* headless for its turn, hold what the file holds.
LEMMA BootKeeps ==
  ASSUME Mishaps = {}, TokenInv, TypeInv', NEW w \in Worker, BootCold(w) \/ BootHeadless(w)
  PROVE  TokenInv'
<1>1. /\ phase[w] = "none" /\ Load(w)
      /\ UNCHANGED <<issues, spent, disk, job, chain, content, cut>>
      /\ \A v \in Worker : v # w => phase'[v] = phase[v]
      /\ \/ phase'[w] = "primary" /\ \A v \in Worker : ~Rotating(v)
         \/ /\ phase'[w] = "headless" /\ \E v \in Worker : Rotating(v)
            /\ \A v \in Worker : ~Headless(v) /\ ~Deleting(v)
  BY DEF BootCold, BootHeadless, Becomes, NotDeleting, Deleting, Headless, Rotating, server, writes,
    TokenInv, TypeInv, TypeOK
<1>2. PICK s \in InOrder({a \in Account : disk[a] # 0}) : list' = [list EXCEPT ![w] = s]
  BY <1>1 DEF Load
<1>3. Members(w)' = {a \in Account : disk[a] # 0}
  <2>1. list'[w] = s BY <1>2 DEF TokenInv, TypeInv, TypeOK
  <2> QED BY <2>1, InOrderIsOnto DEF Members
<1>4. /\ mem'[w] = disk /\ from'[w] = Nothing /\ status'[w] = Fresh
      /\ \A v \in Worker : v # w => /\ list'[v] = list[v] /\ mem'[v] = mem[v]
                                    /\ from'[v] = from[v] /\ status'[v] = status[v]
  BY <1>1 DEF Load, TokenInv, TypeInv, TypeOK
<1>5. \A v \in Worker :
        /\ v # w => /\ Members(v)' = Members(v)
                    /\ Rotating(v)' <=> Rotating(v)
                    /\ Headless(v)' <=> Headless(v)
        /\ Members(v) \subseteq Account /\ Members(v)' \subseteq Account
        /\ Deleting(v)' <=> Deleting(v)
        /\ Written(v)' = Written(v)
  <2>1. \A v \in Worker : Members(v) \subseteq Account
    BY MembersAreAccounts DEF TokenInv, TypeInv
  <2>2. \A v \in Worker : v # w => Members(v)' = Members(v) BY <1>4 DEF Members
  <2> QED BY <1>1, <1>3, <2>1, <2>2 DEF Rotating, Headless, Deleting, Written
<1>6. /\ ~Rotating(w) /\ ~Headless(w) /\ chain[w] = <<>> /\ content[w] = <<>>
      /\ \A b \in Account : job[w][b] = Idle
      /\ \A b \in Account : disk[b] \in Token /\ disk[b] <= disk[b]
  <2>1. ~Rotating(w) /\ ~Headless(w) BY <1>1 DEF Rotating, Headless
  <2>2. \A b \in Account : disk[b] \in Token BY DEF TokenInv, TypeInv, TypeOK
  <2>3. \A b \in Account : disk[b] <= disk[b] BY <2>2, TokenOrder
  <2> QED BY <1>1, <2>1, <2>2, <2>3, InFlight DEF TokenInv, Roles
<1>7. Roles' BY <1>1, <1>4, <1>5, <1>6 DEF TokenInv, Roles, Rotating, Headless
<1>8. Deletions'
  <2>1. ASSUME NEW v \in Worker, NEW i \in DOMAIN chain[v] PROVE Deletion(v, i)'
    <3>1. v # w /\ Deletion(v, i) BY <1>6 DEF TokenInv, Deletions
    <3> QED BY <1>1, <1>5, <3>1 DEF Deletion
  <2>2. ASSUME NEW v \in Worker, Deleting(v)
        PROVE  /\ \A x \in Worker : ~Headless(x)'
               /\ \A a \in Account : job[v][a] = Idle
    <3>1. phase'[w] = "primary" BY <1>1, <2>2
    <3> QED BY <1>5, <2>2, <3>1 DEF TokenInv, Deletions, Headless
  <2> QED BY <1>1, <1>5, <2>1, <2>2 DEF Deletions
<1>9. Refreshes'
  <2> SUFFICES ASSUME NEW v \in Worker, NEW b \in Account PROVE Refresh(v, b)'
    BY DEF Refreshes
  <2>1. CASE v = w BY <1>1, <1>6, <2>1 DEF Refresh
  <2>2. CASE v # w
    <3>1. Refresh(v, b) BY DEF TokenInv, Refreshes
    <3> QED BY <1>1, <1>4, <1>5, <2>2, <3>1 DEF Refresh
  <2> QED BY <2>1, <2>2
<1>10. Rotations'
  <2> SUFFICES ASSUME NEW v \in Worker, NEW i \in DOMAIN chain[v], NEW q, q = chain[v][i]
               PROVE  Rotation(v, i, q)'
    BY <1>1 DEF Rotations
  <2>1. v # w BY <1>6
  <2>2. Rotation(v, i, q) BY DEF TokenInv, Rotations
  <2> QED BY <1>1, <1>4, <2>1, <2>2 DEF Rotation
<1>11. Adoptions'
  <2>1. ASSUME NEW v \in Worker, NEW i \in DOMAIN chain[v] PROVE Adoption(v, i)'
    <3>1. Adoption(v, i) BY DEF TokenInv, Adoptions
    <3> QED BY <1>1, <3>1 DEF Adoption
  <2>2. ASSUME NEW v \in Worker, Headless(v)'
        PROVE  /\ \A i \in DOMAIN chain[v] : chain[v][i].kind = "adopted"
               /\ chain[v] # <<>> => \A x \in Worker \ {v} : content[x] = <<>>
    <3>1. CASE v = w BY <1>6, <3>1
    <3>2. CASE v # w BY <1>5, <2>2, <3>2 DEF TokenInv, Adoptions
    <3> QED BY <3>1, <3>2
  <2>3. \A v \in Worker : content[v] # <<>> /\ chain[v][1].kind = "adopted" => Written(v) = disk
    BY DEF TokenInv, Adoptions
  <2> QED BY <1>1, <1>5, <2>1, <2>2, <2>3 DEF Adoptions
<1>12. Order'
  <2>1. \A v \in Worker : Ahead(v) /\ Behind(v) BY DEF TokenInv, Order
  <2>2. ASSUME NEW v \in Worker PROVE Ahead(v)'
    <3>1. CASE v = w BY <1>1, <1>4, <1>5, <1>6, <3>1 DEF Ahead
    <3>2. CASE v # w BY <1>1, <1>4, <1>5, <2>1, <3>2 DEF Ahead
    <3> QED BY <3>1, <3>2
  <2>3. ASSUME NEW h \in Worker PROVE Behind(h)'
    <3>1. CASE h = w BY <1>1, <1>4, <1>5, <1>6, <3>1 DEF Behind
    <3>2. CASE h # w
      <4> SUFFICES ASSUME Headless(h) PROVE Behind(h)' BY <1>5, <3>2 DEF Behind
      <4>1. /\ \A a \in Members(h) : mem[h][a] <= disk[a] \/ disk[a] = 0
            /\ \A v \in Worker : Rotating(v) =>
                 \A a \in Members(h) \cap Members(v) : mem[h][a] <= disk[a]
        BY <2>1 DEF Behind
      <4>2. \A a \in Members(h) \cap Members(w)' : mem[h][a] <= disk[a] BY <1>3, <4>1
      <4>3. \A v \in Worker : Rotating(v)' =>
              \A a \in Members(h) \cap Members(v)' : mem[h][a] <= disk[a]
        BY <1>5, <4>1, <4>2
      <4> QED BY <1>1, <1>4, <1>5, <3>2, <4>1, <4>3 DEF Behind
    <3> QED BY <3>1, <3>2
  <2> QED BY <2>2, <2>3 DEF Order
<1>13. Apart'
  <2>1. ASSUME NEW t \in Token, NEW b \in Account, Holds(t, b)' PROVE Holds(t, b)
    <3>1. CASE t = disk[b] BY <3>1 DEF Holds
    <3>2. CASE t # disk[b]
      <4>1. \A v \in Worker : v # w => mem'[v][b] = mem[v][b] BY <1>4
      <4> QED BY <1>1, <1>4, <1>5, <2>1, <3>2, <4>1 DEF Holds
    <3> QED BY <3>1, <3>2
  <2> QED BY <1>1, <2>1, StaysApart DEF TokenInv
<1>14. ASSUME NEW v \in Worker PROVE Holder(v)'
  <2> SUFFICES ASSUME Rotating(v)', NEW b \in Account, b \notin cut PROVE Good(v, b)'
    BY <1>1 DEF Holder
  <2>1. CASE v = w
    <3>1. \A x \in Worker : ~Rotating(x) BY <1>1, <2>1 DEF Rotating
    <3>2. /\ disk[b] \notin spent
          /\ \A h \in Worker : Headless(h) /\ b \in Members(h) =>
               mem[h][b] <= disk[b] \/ mem[h][b] \notin spent
      BY <3>1 DEF TokenInv, Vacancy
    <3>3. job[w][b].at # "answered" /\ mem'[w][b] = disk[b] BY <1>4, <1>6 DEF Idle
    <3>4. Due(w, b, disk[b], DOMAIN chain[w])'
      <4>1. PICK x : x = disk[b] OBVIOUS
      <4>2. b \in Members(w)' \/ x = 0 BY <1>3, <4>1
      <4> QED BY <1>1, <3>3, <4>1, <4>2 DEF Due
    <3>5. ASSUME NEW h \in Worker, Headless(h)', b \in Members(h)' \ Members(w)'
          PROVE  mem'[h][b] \notin spent
      <4>1. h # w /\ disk[b] = 0 BY <1>1, <1>3, <2>1, <3>5 DEF Rotating, Headless
      <4>2. b \in Members(h) /\ Headless(h) /\ mem'[h][b] = mem[h][b] BY <1>4, <1>5, <3>5, <4>1
      <4>3. mem[h][b] # 0 /\ mem[h][b] \in Nat
        BY <4>2, Numbers DEF TokenInv, TypeInv, TypeOK, Token
      <4> QED BY <3>2, <4>1, <4>2, <4>3
    <3> QED BY <1>1, <1>6, <2>1, <3>2, <3>3, <3>4, <3>5 DEF Good
  <2>2. CASE v # w
    <3>1. Rotating(v) /\ Good(v, b) BY <1>5, <2>2 DEF TokenInv, Holder
    <3>2. ASSUME NEW h \in Worker, Headless(h)', b \in Members(h)' \ Members(v)'
          PROVE  mem'[h][b] \notin spent
      <4>1. CASE h = w
        <5>1. mem'[w][b] = disk[b] /\ disk[b] # 0 BY <1>3, <1>4, <3>2, <4>1
        <5> QED BY <1>5, <2>2, <3>1, <3>2, <4>1, <5>1 DEF Good, Due
      <4>2. CASE h # w BY <1>4, <1>5, <2>2, <3>1, <3>2, <4>2 DEF Good
      <4> QED BY <4>1, <4>2
    <3> QED BY <1>1, <1>4, <1>5, <2>2, <3>1, <3>2 DEF Good, Due
  <2> QED BY <2>1, <2>2
<1>15. Vacancy'
  <2>1. \E v \in Worker : Rotating(v)' BY <1>1, <1>5, <1>6 DEF Rotating
  <2> QED BY <2>1 DEF Vacancy
<1>16. BlameIsDeserved'
  <2>1. \A b \in Members(w)' : status'[w][b] = "active" BY <1>4, <1>5 DEF Fresh
  <2> QED BY <1>1, <1>4, <1>5, <2>1 DEF TokenInv, BlameIsDeserved
<1> QED BY <1>7, <1>8, <1>9, <1>10, <1>11, <1>12, <1>13, <1>14, <1>15, <1>16 DEF TokenInv

\* A headless process adopts what is newer in the file, while nothing is queued:
\* its sync timer fired, or it takes over from a predecessor that is gone.
LEMMA AdoptKeeps ==
  ASSUME TokenInv, TypeInv', NEW w \in Worker, Headless(w), Adopt(w),
         \A v \in Worker : chain[v] = <<>>,
         UNCHANGED <<issues, spent, disk, list, from, job, content, cut>>,
         \/ UNCHANGED phase
         \/ phase' = [phase EXCEPT ![w] = "primary"] /\ \A v \in Worker : ~Rotating(v)
  PROVE  TokenInv'
<1> DEFINE A == {a \in Members(w) : disk[a] > mem[w][a]}
           save(a) == [kind |-> "adopted", acct |-> a, tok |-> disk[a], owner |-> 0]
<1>1. /\ \A v \in Worker : Members(v)' = Members(v) /\ Members(v) \subseteq Account
      /\ \A v \in Worker : content[v] = <<>> /\ Written(v)' = Written(v)
  <2>1. \A v \in Worker : Members(v) \subseteq Account
    BY MembersAreAccounts DEF TokenInv, TypeInv
  <2> QED BY <2>1 DEF Members, Written, TokenInv, TypeInv, TypeOK
<1>2. PICK s \in InOrder(A) :
        chain' = [chain EXCEPT ![w] = chain[w] \o [i \in DOMAIN s |-> save(s[i])]]
  BY DEF Adopt, TokenInv, TypeInv, TypeOK
<1>3. /\ chain'[w] = [i \in DOMAIN s |-> save(s[i])]
      /\ \A v \in Worker : v # w => chain'[v] = <<>>
      /\ \A i \in DOMAIN s : s[i] \in A
      /\ DOMAIN s = 1..Len(s) /\ Len(s) \in Nat
  <2> DEFINE q == [i \in DOMAIN s |-> save(s[i])]
  <2>1. s \in Seq(A) BY <1>1, <1>2, InOrderIsSeq
  <2>2. \A i \in DOMAIN s : s[i] \in A BY <2>1
  <2>3. DOMAIN s = 1..Len(s) /\ Len(s) \in Nat BY <2>1
  <2>4. q \in Seq({save(a) : a \in A}) BY <2>2, <2>3, IsASeq
  <2>5. chain' = [chain EXCEPT ![w] = <<>> \o q] BY <1>2
  <2> HIDE DEF q
  <2>6. <<>> \o q = q BY <2>4, ConcatEmptySeq
  <2>7. chain'[w] = q /\ \A v \in Worker : v # w => chain'[v] = <<>>
    BY <2>5, <2>6 DEF TokenInv, TypeInv, TypeOK
  <2> QED BY <2>2, <2>3, <2>7 DEF q
<1>4. \A v \in Worker, b \in Account :
        /\ mem'[v][b] = IF v = w /\ b \in A THEN disk[b] ELSE mem[v][b]
        /\ status'[v][b] = IF v = w /\ b \in A THEN "active" ELSE status[v][b]
  BY DEF Adopt, TokenInv, TypeInv, TypeOK
<1>5. \A b \in A : b \in Members(w) /\ b \in Account /\ disk[b] > mem[w][b]
  BY <1>1
<1>6. \A i \in DOMAIN chain'[w] :
        /\ i \in 1..Len(s)
        /\ chain'[w][i].kind = "adopted" /\ chain'[w][i].acct \in Account
        /\ chain'[w][i].tok = disk[chain'[w][i].acct]
  BY <1>3, <1>5
<1>7. DOMAIN chain'[w] = 1..Len(s) BY <1>3
<1>8. \A b \in Account :
        /\ disk[b] \in Token /\ disk[b] \in Nat /\ disk[b] <= disk[b]
        /\ \A v \in Worker : mem[v][b] \in Token /\ mem[v][b] \in Nat
        /\ b \in A => disk[b] # 0
        /\ b \in Members(w) /\ b \notin A => mem[w][b] >= disk[b]
  <2>1. \A b \in Account : disk[b] \in Token /\ \A v \in Worker : mem[v][b] \in Token
    BY DEF TokenInv, TypeInv, TypeOK
  <2>2. Token \subseteq Nat BY Numbers DEF Token
  <2>3. \A b \in Account : disk[b] \in Nat /\ \A v \in Worker : mem[v][b] \in Nat
    BY <2>1, <2>2
  <2>4. ASSUME NEW b \in Account
        PROVE  /\ disk[b] <= disk[b]
               /\ b \in A => disk[b] # 0
               /\ b \in Members(w) /\ b \notin A => mem[w][b] >= disk[b]
    <3>1. disk[b] \in Nat /\ mem[w][b] \in Nat BY <2>3
    <3> QED BY <3>1
  <2> QED BY <2>1, <2>3, <2>4
<1> HIDE DEF A, save
<1>9. /\ \A v \in Worker : Headless(v) => v = w
      /\ ~Rotating(w)
      /\ \A v \in Worker : v # w => phase'[v] = phase[v]
      /\ \/ /\ phase'[w] = "primary" /\ \A v \in Worker : ~Rotating(v)
         \/ phase' = phase
      /\ \A v \in Worker : ~Deleting(v) /\ ~Deleting(v)'
  <2>1. \A v \in Worker : Headless(v) => v = w BY DEF TokenInv, Roles
  <2>2. \A v \in Worker : ~Deleting(v) BY DEF Deleting
  <2>3. \A v \in Worker : ~Deleting(v)' BY <1>3, <1>6 DEF Deleting
  <2> QED BY <2>1, <2>2, <2>3 DEF Headless, Rotating, TokenInv, TypeInv, TypeOK
<1>10. Roles'
  BY <1>1, <1>3, <1>9 DEF TokenInv, Roles, Rotating, Headless
<1>11. Deletions'
  <2>1. \A v \in Worker : \A i \in DOMAIN chain'[v] : Deletion(v, i)'
    BY <1>3, <1>6 DEF Deletion
  <2> QED BY <1>9, <2>1 DEF Deletions
<1>12. Refreshes'
  <2> SUFFICES ASSUME NEW v \in Worker, NEW b \in Account PROVE Refresh(v, b)'
    BY DEF Refreshes
  <2>1. Refresh(v, b) BY DEF TokenInv, Refreshes
  <2>2. CASE job[v][b] = Idle BY <2>2 DEF Refresh
  <2>3. CASE job[v][b] # Idle
    <3>1. v # w /\ Rotating(v) BY <1>9, <2>3, InFlight
    <3> QED BY <1>4, <1>9, <2>1, <3>1 DEF Refresh, Rotating
  <2> QED BY <2>2, <2>3
<1>13. Rotations'
  <2>1. \A v \in Worker : \A i \in DOMAIN chain'[v] : chain'[v][i].kind = "adopted"
    BY <1>3, <1>6
  <2> QED BY <2>1 DEF Rotations, Rotation
<1>14. Adoptions'
  <2>1. ASSUME NEW v \in Worker, NEW i \in DOMAIN chain'[v] PROVE Adoption(v, i)'
    <3>1. v = w BY <1>3
    <3>2. \A k \in 1..i : k \in 1..Len(s) BY <1>3, <1>6, <2>1, <3>1
    <3> QED BY <1>6, <1>7, <2>1, <3>1, <3>2 DEF Adoption
  <2> QED BY <1>1, <1>3, <1>6, <2>1 DEF Adoptions
<1>15. Order'
  <2>1. \A v \in Worker : Ahead(v) /\ Behind(v) BY DEF TokenInv, Order
  <2>2. \A b \in Members(w) : disk[b] <= mem'[w][b] BY <1>1, <1>4, <1>8
  <2>3. \A b \in Members(w) :
          /\ mem[w][b] <= disk[b] => mem'[w][b] <= disk[b]
          /\ mem'[w][b] <= disk[b] \/ disk[b] = 0
    <3>1. \A b \in Members(w) : mem[w][b] <= disk[b] \/ disk[b] = 0 BY <2>1 DEF Behind
    <3> QED BY <1>1, <1>4, <1>8, <3>1
  <2>4. ASSUME NEW v \in Worker PROVE Ahead(v)'
    <3>1. CASE v = w BY <1>1, <2>2, <3>1 DEF Ahead
    <3>2. CASE v # w BY <1>1, <1>4, <1>9, <2>1, <3>2 DEF Ahead, Rotating
    <3> QED BY <3>1, <3>2
  <2>5. ASSUME NEW v \in Worker, Headless(v)' PROVE Behind(v)'
    <3>1. v = w /\ phase' = phase BY <1>9, <2>5 DEF Headless
    <3>2. ASSUME NEW x \in Worker, Rotating(x), NEW b \in Members(w) \cap Members(x)
          PROVE  mem'[w][b] <= disk[b]
      <4>1. mem[w][b] <= disk[b] BY <2>1, <3>2 DEF Behind
      <4> QED BY <2>3, <4>1
    <3> QED BY <1>1, <2>3, <3>1, <3>2 DEF Behind, Rotating
  <2> QED BY <2>4, <2>5 DEF Order, Behind
<1>16. Apart'
  <2>1. ASSUME NEW t \in Token, NEW b \in Account, Holds(t, b)' PROVE Holds(t, b)
    <3>1. CASE t = disk[b] BY <3>1 DEF Holds
    <3>2. CASE t # disk[b]
      <4>1. \A v \in Worker : mem'[v][b] = mem[v][b] \/ mem'[v][b] = disk[b] BY <1>4
      <4>2. \A v \in Worker : \A i \in DOMAIN chain'[v] :
              ~(chain'[v][i].acct = b /\ t = chain'[v][i].tok)
        BY <1>3, <1>6, <3>2
      <4> QED BY <1>1, <2>1, <3>2, <4>1, <4>2 DEF Holds
    <3> QED BY <3>1, <3>2
  <2> QED BY <2>1, StaysApart DEF TokenInv
<1>17. ASSUME NEW v \in Worker PROVE Holder(v)'
  <2> SUFFICES ASSUME Rotating(v)', NEW b \in Account, b \notin cut PROVE Good(v, b)'
    BY DEF Holder
  <2>1. CASE v = w
    <3>1. \A x \in Worker : ~Rotating(x) BY <1>9, <2>1 DEF Rotating
    <3>2. /\ disk[b] \notin spent
          /\ b \in Members(w) => mem[w][b] <= disk[b] \/ mem[w][b] \notin spent
          /\ b \in Members(w) => mem[w][b] <= disk[b] \/ disk[b] = 0
      BY <3>1 DEF TokenInv, Vacancy, Order, Behind
    <3>3. job[w][b].at # "answered" BY <3>1, Quiet DEF Idle
    <3>4. b \in Members(w) => mem'[w][b] \notin spent
      <4>1. CASE b \in A BY <1>4, <3>2, <4>1
      <4>2. CASE b \in Members(w) /\ b \notin A
        <5>1. mem[w][b] <= disk[b] => mem[w][b] = disk[b] BY <1>8, <4>2
        <5> QED BY <1>4, <3>2, <4>2, <5>1
      <4> QED BY <4>1, <4>2
    <3>5. disk[b] = 0 \/ b \notin Members(w) \/ disk[b] = mem'[w][b]
      <4>1. CASE b \in A BY <1>4, <4>1
      <4>2. CASE b \in Members(w) /\ b \notin A /\ disk[b] # 0
        <5>1. mem[w][b] = disk[b] BY <1>8, <3>2, <4>2
        <5> QED BY <1>4, <4>2, <5>1
      <4> QED BY <4>1, <4>2
    <3>6. \A h \in Worker : ~Headless(h)' BY <1>9, <3>1, <2>1 DEF Headless, Rotating
    <3> QED BY <1>1, <2>1, <3>2, <3>3, <3>4, <3>5, <3>6 DEF Good, Due
  <2>2. CASE v # w
    <3>1. Rotating(v) /\ Good(v, b) /\ phase' = phase BY <1>9, <2>2 DEF TokenInv, Holder, Rotating
    <3>2. Due(v, b, disk[b], DOMAIN chain[v]) BY <3>1 DEF Good
    <3>3. ASSUME NEW h \in Worker, Headless(h), b \in Members(h) \ Members(v)
          PROVE  mem'[h][b] \notin spent
      <4>1. (h = w /\ disk[b] = 0) \/ disk[b] \notin spent BY <1>9, <3>2, <3>3 DEF Due
      <4>2. mem[h][b] \notin spent BY <3>1, <3>3 DEF Good
      <4> QED BY <1>4, <1>8, <4>1, <4>2
    <3>4. chain'[v] = chain[v] /\ mem'[v][b] = mem[v][b] BY <1>3, <1>4, <2>2
    <3> QED BY <1>1, <2>2, <3>1, <3>3, <3>4 DEF Good, Due, Headless
  <2> QED BY <2>1, <2>2
<1>18. Vacancy'
  <2> SUFFICES ASSUME \A v \in Worker : ~Rotating(v)', NEW b \in Account \ cut
               PROVE  /\ disk[b] \notin spent
                      /\ \A h \in Worker : Headless(h) /\ b \in Members(h) =>
                           mem'[h][b] <= disk[b] \/ mem'[h][b] \notin spent
    BY <1>1, <1>9 DEF Vacancy, Headless, Rotating
  <2>1. phase' = phase /\ \A v \in Worker : ~Rotating(v) BY <1>9 DEF Rotating
  <2>2. /\ disk[b] \notin spent
        /\ \A h \in Worker : Headless(h) /\ b \in Members(h) =>
             mem[h][b] <= disk[b] \/ mem[h][b] \notin spent
    BY <2>1 DEF TokenInv, Vacancy
  <2> QED BY <1>4, <2>2
<1>19. BlameIsDeserved'
  BY <1>1, <1>4 DEF TokenInv, BlameIsDeserved
<1> QED
  BY <1>10, <1>11, <1>12, <1>13, <1>14, <1>15, <1>16, <1>17, <1>18, <1>19 DEF TokenInv

LEMMA StutterKeeps ==
  ASSUME TokenInv,
         UNCHANGED <<issues, spent, disk, phase, list, mem, from, status, job, chain, content, cut>>,
         TypeInv'
  PROVE  TokenInv'
<1>1. \A w \in Worker : /\ Members(w)' = Members(w) /\ Written(w)' = Written(w)
                        /\ Rotating(w)' <=> Rotating(w)
                        /\ Headless(w)' <=> Headless(w)
                        /\ Deleting(w)' <=> Deleting(w)
  BY DEF Members, Written, Rotating, Headless, Deleting
<1>2. Roles' /\ Deletions' BY <1>1 DEF TokenInv, Roles, Deletions, Deletion
<1>3. Refreshes' /\ Rotations' BY <1>1 DEF TokenInv, Refreshes, Refresh, Rotations, Rotation
<1>4. Adoptions' BY <1>1 DEF TokenInv, Adoptions, Adoption
<1>5. Order' BY <1>1 DEF TokenInv, Order, Ahead, Behind
<1>6. \A w \in Worker : Holder(w)' BY <1>1 DEF TokenInv, Holder, Good, Due
<1>7. Vacancy' BY <1>1 DEF TokenInv, Vacancy
<1>8. Apart' BY <1>1 DEF TokenInv, Apart, Holds
<1>9. BlameIsDeserved' BY SameBlame DEF TokenInv
<1> QED BY <1>2, <1>3, <1>4, <1>5, <1>6, <1>7, <1>8, <1>9 DEF TokenInv

LEMMA TakeOverKeeps ==
  ASSUME Mishaps = {}, TokenInv, TypeInv', NEW w \in Worker, TakeOver(w)
  PROVE  TokenInv'
<1>1. /\ Headless(w) /\ chain[w] = <<>> /\ (\A v \in Worker : ~Rotating(v))
      /\ phase' = [phase EXCEPT ![w] = "primary"] /\ Adopt(w)
      /\ UNCHANGED <<issues, spent, disk, list, from, job, content, cut>>
  BY DEF TakeOver, Headless, Becomes, server
<1>2. \A v \in Worker : chain[v] = <<>>
  BY <1>1 DEF TokenInv, TypeInv, TypeOK, Roles, Headless, Rotating
<1> QED BY <1>1, <1>2, AdoptKeeps

\* The process that rotates finds nothing newer in the file.
LEMMA SyncAccountsKeeps ==
  ASSUME Mishaps = {}, TokenInv, TypeInv', NEW w \in Worker, SyncAccounts(w)
  PROVE  TokenInv'
<1>1. /\ Adopt(w)
      /\ UNCHANGED <<issues, spent, disk, phase, list, from, job, content, cut>>
      /\ Rotating(w) \/ (Headless(w) /\ \A v \in Worker : chain[v] = <<>>)
  BY DEF SyncAccounts, Headless, Rotating, server
<1>2. CASE Headless(w) /\ \A v \in Worker : chain[v] = <<>>
  BY <1>1, <1>2, AdoptKeeps
<1>3. CASE Rotating(w)
  <2> DEFINE A == {a \in Members(w) : disk[a] > mem[w][a]}
             save(a) == [kind |-> "adopted", acct |-> a, tok |-> disk[a], owner |-> 0]
  <2>1. A = {}
    <3> SUFFICES ASSUME NEW a \in Members(w) PROVE ~(disk[a] > mem[w][a])
      OBVIOUS
    <3>1. a \in Account BY MembersAreAccounts DEF TokenInv, TypeInv
    <3>2. disk[a] \in Nat /\ mem[w][a] \in Nat
      BY <3>1, Numbers DEF TokenInv, TypeInv, TypeOK, Token
    <3>3. disk[a] <= mem[w][a] BY <1>3 DEF TokenInv, Order, Ahead
    <3> QED BY <3>2, <3>3
  <2>2. PICK s \in InOrder(A) :
          chain' = [chain EXCEPT ![w] = chain[w] \o [i \in DOMAIN s |-> save(s[i])]]
    BY <1>1 DEF Adopt, TokenInv, TypeInv, TypeOK
  <2>3. /\ mem' = [mem EXCEPT ![w] = [a \in Account |-> IF a \in A THEN disk[a] ELSE mem[w][a]]]
        /\ status' = [status EXCEPT ![w] =
             [a \in Account |-> IF a \in A THEN "active" ELSE status[w][a]]]
    BY <1>1 DEF Adopt, TokenInv, TypeInv, TypeOK
  <2>4. mem' = mem /\ status' = status
    BY <2>1, <2>3 DEF TokenInv, TypeInv, TypeOK
  <2>5. [i \in DOMAIN s |-> save(s[i])] = <<>>
    <3> DEFINE q == [i \in DOMAIN s |-> save(s[i])]
    <3>1. s \in Seq(A) BY <2>1, <2>2, InOrderIsSeq
    <3>2. s = <<>> BY <2>1, <3>1, EmptySeq
    <3>3. DOMAIN s = 1..0 BY <3>2
    <3>4. DOMAIN q = 1..0 /\ q = [i \in 1..0 |-> save(s[i])] BY <3>3
    <3>5. q \in Seq(Update) BY <3>4, IsASeq
    <3> HIDE DEF q
    <3>6. q = <<>> BY <3>4, <3>5, EmptySeq
    <3> QED BY <3>6 DEF q
  <2>6. chain[w] \o <<>> = chain[w] BY ConcatEmptySeq DEF TokenInv, TypeInv, TypeOK
  <2>7. chain' = chain BY <2>2, <2>5, <2>6 DEF TokenInv, TypeInv, TypeOK
  <2> QED BY <1>1, <2>4, <2>7, StutterKeeps
<1> QED BY <1>1, <1>2, <1>3

\* The lease is handed over while no account is being deleted.
LEMMA ReleaseKeeps ==
  ASSUME TokenInv, TypeInv', NEW w \in Worker, Release(w)
  PROVE  TokenInv'
<1>1. /\ phase[w] = "primary" /\ \E v \in Worker : Headless(v)
      /\ phase' = [phase EXCEPT ![w] = "draining"]
      /\ UNCHANGED <<issues, spent, disk, list, mem, from, status, job, chain, content, cut>>
  BY DEF Release, Headless, Becomes, server, memory, writes
<1>2. \A v \in Worker :
        /\ Members(v)' = Members(v) /\ Written(v)' = Written(v)
        /\ Rotating(v)' <=> Rotating(v)
        /\ Headless(v)' <=> Headless(v)
        /\ Deleting(v)' <=> Deleting(v)
        /\ ~Deleting(v)
        /\ phase'[v] = "none" <=> phase[v] = "none"
  <2>1. \A v \in Worker : ~Deleting(v) BY <1>1 DEF TokenInv, Deletions
  <2> QED BY <1>1, <2>1
    DEF Members, Written, Rotating, Headless, Deleting, TokenInv, TypeInv, TypeOK
<1>3. Roles' BY <1>1, <1>2 DEF TokenInv, Roles
<1>4. Deletions'
  <2>1. \A v \in Worker : \A i \in DOMAIN chain[v] : chain[v][i].kind # "delete"
    BY <1>2 DEF Deleting
  <2> QED BY <1>1, <1>2, <2>1 DEF Deletions, Deletion
<1>5. Refreshes' BY <1>1, <1>2 DEF TokenInv, Refreshes, Refresh
<1>6. Rotations' BY <1>1, <1>2 DEF TokenInv, Rotations, Rotation
<1>7. Adoptions' BY <1>1, <1>2 DEF TokenInv, Adoptions, Adoption
<1>8. Order' BY <1>1, <1>2 DEF TokenInv, Order, Ahead, Behind
<1>9. \A v \in Worker : Holder(v)' BY <1>1, <1>2 DEF TokenInv, Holder, Good, Due
<1>10. Vacancy' BY <1>1, <1>2 DEF TokenInv, Vacancy
<1>11. Apart' BY <1>1, <1>2 DEF TokenInv, Apart, Holds
<1>12. BlameIsDeserved' BY <1>1, SameBlame DEF TokenInv
<1> QED BY <1>3, <1>4, <1>5, <1>6, <1>7, <1>8, <1>9, <1>10, <1>11, <1>12 DEF TokenInv

\* A process ends: orderly, when its refreshes and its queue are done, or not, and
\* then the accounts that it still worked for are cut off.
LEMMA GoneKeeps ==
  ASSUME TokenInv, TypeInv', NEW w \in Worker,
         NEW lost \in SUBSET {a \in Account : job[w][a].at = "sent"}, Gone(w, lost),
         cut \subseteq cut',
         \A a \in Account \ cut' :
           job[w][a] = Idle /\ \A i \in DOMAIN chain[w] : chain[w][i].acct # a
  PROVE  TokenInv'
<1>1. /\ UNCHANGED <<issues, disk>>
      /\ spent' = spent \cup {job[w][a].tok : a \in lost}
      /\ phase'[w] = "none" /\ list'[w] = <<>> /\ mem'[w] = Nothing /\ from'[w] = Nothing
      /\ chain'[w] = <<>> /\ content'[w] = <<>>
      /\ \A b \in Account : job'[w][b] = Idle
      /\ \A v \in Worker : v # w =>
           /\ phase'[v] = phase[v] /\ list'[v] = list[v] /\ mem'[v] = mem[v]
           /\ from'[v] = from[v] /\ status'[v] = status[v] /\ job'[v] = job[v]
           /\ chain'[v] = chain[v] /\ content'[v] = content[v]
  BY DEF Gone, Becomes, TokenInv, TypeInv, TypeOK
<1>2. /\ Members(w)' = {} /\ ~Rotating(w)' /\ ~Headless(w)' /\ ~Deleting(w)'
      /\ \A v \in Worker : v # w =>
           /\ Members(v)' = Members(v) /\ Written(v)' = Written(v)
           /\ Rotating(v)' <=> Rotating(v)
           /\ Headless(v)' <=> Headless(v)
           /\ Deleting(v)' <=> Deleting(v)
  BY <1>1 DEF Members, Written, Rotating, Headless, Deleting
<1>3. \A t \in spent' : t \in spent \/ (t \in Token \ {0} /\ \E a \in lost : t = job[w][a].tok)
  <2>1. \A a \in lost : job[w][a].tok \in Token \ {0}
    BY DEF TokenInv, TypeInv, TypeOK, RefreshHasToken, Job
  <2> QED BY <1>1, <2>1
<1>4. \A a \in lost : a \in Account /\ job[w][a] # Idle /\ a \in cut'
  <2>1. \A a \in lost : a \in Account /\ job[w][a] # Idle BY DEF Idle
  <2> QED BY <2>1
<1>5. lost # {} => Rotating(w) BY <1>4, InFlight
<1>6. ASSUME NEW a \in Account \ cut', NEW t \in Token, Holds(t, a), t \notin spent
      PROVE  t \notin spent'
  <2> SUFFICES ASSUME NEW b \in lost, t = job[w][b].tok, t # 0 PROVE FALSE
    BY <1>3, <1>6
  <2>1. Holds(t, b) /\ b \in Account BY <1>4 DEF Holds
  <2>2. a = b BY <1>6, <2>1 DEF TokenInv, Apart
  <2> QED BY <1>4, <2>2
<1>7. Roles' BY <1>1, <1>2 DEF TokenInv, Roles
<1>8. Deletions'
  <2>1. ASSUME NEW v \in Worker, NEW i \in DOMAIN chain'[v] PROVE Deletion(v, i)'
    <3>1. v # w BY <1>1
    <3>2. Deletion(v, i) BY <1>1, <3>1 DEF TokenInv, Deletions
    <3> QED BY <1>1, <1>2, <3>1, <3>2 DEF Deletion
  <2>2. ASSUME NEW v \in Worker, Deleting(v)'
        PROVE  /\ \A x \in Worker : ~Headless(x)'
               /\ \A a \in Account : job'[v][a] = Idle
    <3>1. v # w /\ Deleting(v) BY <1>2, <2>2
    <3>2. (\A x \in Worker : ~Headless(x)) /\ \A a \in Account : job[v][a] = Idle
      BY <3>1 DEF TokenInv, Deletions
    <3> QED BY <1>1, <1>2, <3>1, <3>2
  <2> QED BY <2>1, <2>2 DEF Deletions
<1>9. Refreshes'
  <2> SUFFICES ASSUME NEW v \in Worker, NEW b \in Account PROVE Refresh(v, b)'
    BY DEF Refreshes
  <2>1. CASE v = w BY <1>1, <2>1 DEF Refresh
  <2>2. CASE v # w
    <3>1. Refresh(v, b) BY DEF TokenInv, Refreshes
    <3> QED BY <1>1, <1>2, <2>2, <3>1 DEF Refresh
  <2> QED BY <2>1, <2>2
<1>10. Rotations'
  <2> SUFFICES ASSUME NEW v \in Worker, NEW i \in DOMAIN chain'[v], NEW q, q = chain'[v][i]
               PROVE  Rotation(v, i, q)'
    BY DEF Rotations
  <2>1. v # w BY <1>1
  <2>2. Rotation(v, i, q) BY <1>1, <2>1 DEF TokenInv, Rotations
  <2> QED BY <1>1, <2>1, <2>2 DEF Rotation
<1>11. Adoptions'
  <2>1. ASSUME NEW v \in Worker, NEW i \in DOMAIN chain'[v] PROVE Adoption(v, i)'
    <3>1. v # w BY <1>1
    <3>2. Adoption(v, i) BY <1>1, <3>1 DEF TokenInv, Adoptions
    <3> QED BY <1>1, <3>1, <3>2 DEF Adoption
  <2>2. ASSUME NEW v \in Worker
        PROVE  /\ content'[v] # <<>> /\ chain'[v][1].kind = "adopted" => Written(v)' = disk
               /\ Headless(v)' => \A i \in DOMAIN chain'[v] : chain'[v][i].kind = "adopted"
               /\ Headless(v)' /\ chain'[v] # <<>> =>
                    \A x \in Worker \ {v} : content'[x] = <<>>
    <3>1. CASE v = w BY <1>1, <1>2, <3>1
    <3>2. CASE v # w
      <4>1. /\ content[v] # <<>> /\ chain[v][1].kind = "adopted" => Written(v) = disk
            /\ Headless(v) => \A i \in DOMAIN chain[v] : chain[v][i].kind = "adopted"
            /\ Headless(v) /\ chain[v] # <<>> => \A x \in Worker \ {v} : content[x] = <<>>
        BY DEF TokenInv, Adoptions
      <4> QED BY <1>1, <1>2, <3>2, <4>1
    <3> QED BY <3>1, <3>2
  <2> QED BY <1>1, <2>1, <2>2 DEF Adoptions
<1>12. Order'
  <2>1. ASSUME NEW v \in Worker PROVE Ahead(v)' /\ Behind(v)'
    <3>1. Ahead(v) /\ Behind(v) BY DEF TokenInv, Order
    <3>2. CASE v = w BY <1>2, <3>2 DEF Ahead, Behind
    <3>3. CASE v # w
      <4>1. Ahead(v)' BY <1>1, <1>2, <3>1, <3>3 DEF Ahead
      <4>2. Behind(v)' BY <1>1, <1>2, <3>1, <3>3 DEF Behind
      <4> QED BY <4>1, <4>2
    <3> QED BY <3>2, <3>3
  <2> QED BY <2>1 DEF Order
<1>13. Apart'
  <2>1. ASSUME NEW t \in Token, NEW b \in Account, Holds(t, b)' PROVE t = 0 \/ Holds(t, b)
    <3>1. CASE t = disk[b] BY <3>1 DEF Holds
    <3>2. CASE t # disk[b]
      <4>1. mem'[w][b] = 0 /\ job'[w][b].tok = 0 /\ job'[w][b].new = 0
        BY <1>1 DEF Nothing, Idle
      <4> QED BY <1>1, <1>2, <2>1, <3>2, <4>1 DEF Holds
    <3> QED BY <3>1, <3>2
  <2>2. \A t \in spent' : t \in spent \/ (t \in Token \ {0} /\ \E a \in Account : Holds(t, a))
    BY <1>3, <1>4 DEF Holds
  <2> QED BY <1>1, <2>1, <2>2, StaysApart DEF TokenInv
<1>14. ASSUME NEW v \in Worker PROVE Holder(v)'
  <2> SUFFICES ASSUME Rotating(v)', NEW b \in Account \ cut' PROVE Good(v, b)'
    BY DEF Holder
  <2>1. v # w /\ Rotating(v) /\ Good(v, b) BY <1>2 DEF TokenInv, Holder
  <2>2. lost = {} BY <1>5, <2>1 DEF TokenInv, Roles
  <2>3. spent' = spent BY <1>1, <2>2
  <2>4. \A h \in Worker : Headless(h)' => h # w BY <1>2
  <2> QED BY <1>1, <1>2, <2>1, <2>3, <2>4 DEF Good, Due
<1>15. Vacancy'
  <2> SUFFICES ASSUME \A v \in Worker : ~Rotating(v)', NEW b \in Account \ cut'
               PROVE  /\ disk[b] \notin spent'
                      /\ \A h \in Worker : Headless(h)' /\ b \in Members(h)' =>
                           mem'[h][b] <= disk[b] \/ mem'[h][b] \notin spent'
    BY <1>1 DEF Vacancy
  <2>1. CASE ~Rotating(w)
    <3>1. (\A v \in Worker : ~Rotating(v)) /\ spent' = spent BY <1>1, <1>2, <1>5, <2>1
    <3>2. /\ disk[b] \notin spent
          /\ \A h \in Worker : Headless(h) /\ b \in Members(h) =>
               mem[h][b] <= disk[b] \/ mem[h][b] \notin spent
      BY <3>1 DEF TokenInv, Vacancy
    <3> QED BY <1>1, <1>2, <3>1, <3>2
  <2>2. CASE Rotating(w)
    <3>1. Good(w, b) /\ job[w][b].at # "answered" /\ \A i \in DOMAIN chain[w] : chain[w][i].acct # b
      BY <2>2 DEF TokenInv, Holder, Idle
    <3>2. /\ disk[b] \in Token /\ Holds(disk[b], b)
          /\ \A h \in Worker : mem[h][b] \in Token /\ Holds(mem[h][b], b)
      BY DEF Holds, TokenInv, TypeInv, TypeOK
    <3>3. disk[b] \notin spent
      <4>1. 0 \notin spent BY DEF TokenInv, Apart
      <4> QED BY <3>1, <4>1 DEF Good, Due
    <3>4. ASSUME NEW h \in Worker, Headless(h)', b \in Members(h)'
          PROVE  mem'[h][b] <= disk[b] \/ mem'[h][b] \notin spent'
      <4>1. h # w /\ Headless(h) /\ b \in Members(h) /\ mem'[h][b] = mem[h][b]
        BY <1>1, <1>2, <3>4
      <4>2. CASE b \in Members(w)
        BY <2>2, <4>1, <4>2 DEF TokenInv, Order, Behind
      <4>3. CASE b \notin Members(w)
        <5>1. mem[h][b] \notin spent BY <3>1, <4>1, <4>3 DEF Good
        <5> QED BY <1>6, <3>2, <4>1, <5>1
      <4> QED BY <4>2, <4>3
    <3> QED BY <1>6, <3>2, <3>3, <3>4
  <2> QED BY <2>1, <2>2
<1>16. BlameIsDeserved'
  <2>1. spent \subseteq spent' BY <1>1
  <2> QED BY <1>1, <1>2, <2>1 DEF TokenInv, BlameIsDeserved
<1> QED BY <1>7, <1>8, <1>9, <1>10, <1>11, <1>12, <1>13, <1>14, <1>15, <1>16 DEF TokenInv

LEMMA EndKeeps ==
  ASSUME TokenInv, TypeInv', NEW w \in Worker, Released(w) \/ Kill(w)
  PROVE  TokenInv'
<1>1. CASE Released(w)
  <2>1. /\ Gone(w, {}) /\ chain[w] = <<>> /\ cut' = cut
        /\ \A a \in Account : job[w][a] = Idle
    BY <1>1 DEF Released
  <2> QED BY <2>1, GoneKeeps
<1>2. CASE Kill(w)
  <2>1. PICK lost \in SUBSET {a \in Account : job[w][a].at = "sent"} : Gone(w, lost)
    BY <1>2 DEF Kill
  <2>2. cut' = cut \cup {a \in Account : job[w][a] # Idle}
                 \cup ({chain[w][i].acct : i \in DOMAIN chain[w]} \cap Account)
    BY <1>2 DEF Kill
  <2>3. cut \subseteq cut' BY <2>2
  <2>4. \A a \in Account \ cut' :
          job[w][a] = Idle /\ \A i \in DOMAIN chain[w] : chain[w][i].acct # a
    BY <2>2
  <2> QED BY <2>1, <2>3, <2>4, GoneKeeps
<1> QED BY <1>1, <1>2

(***************************************************************************)
(* The theorems.                                                           *)
(***************************************************************************)

LEMMA TokenStep == ASSUME Mishaps = {} PROVE TokenInv /\ [Next]_vars => TokenInv'
<1> SUFFICES ASSUME TokenInv, [Next]_vars PROVE TokenInv'
  OBVIOUS
<1>1. TypeInv' BY TypeStep DEF TokenInv
<1>2. ASSUME NEW w \in Worker,
             BootCold(w) \/ BootHeadless(w) \/ TakeOver(w) \/ SyncAccounts(w)
             \/ Release(w) \/ Released(w) \/ Kill(w)
      PROVE  TokenInv'
  BY <1>1, <1>2, BootKeeps, TakeOverKeeps, SyncAccountsKeeps, ReleaseKeeps, EndKeeps
<1>3. ASSUME NEW w \in Worker,
             ConfigRead(w) \/ ConfigWrite(w) \/ ConfigFails(w) \/ SaveSettings(w)
      PROVE  TokenInv'
  BY <1>1, <1>3, ConfigReadKeeps, ConfigWriteKeeps, SaveSettingsKeeps
<1>4. ASSUME NEW w \in Worker, NEW a \in Account,
             StartRefresh(w, a) \/ Accept(w, a) \/ Refuse(w, a) \/ Refreshed(w, a)
             \/ RefreshFails(w, a) \/ RefreshRefused(w, a)
      PROVE  TokenInv'
  BY <1>1, <1>4, StartRefreshKeeps, AcceptKeeps, RefuseKeeps, RefreshedKeeps, RefreshRefusedKeeps
<1>5. ASSUME NEW w \in Worker, NEW a \in Account, Relogin(w, a) \/ Delete(w, a)
      PROVE  TokenInv'
  BY <1>1, <1>5, ReloginKeeps, DeleteKeeps
<1>6. CASE UNCHANGED vars
  BY <1>1, <1>6, StutterKeeps DEF vars, server, memory, writes
<1> QED BY <1>2, <1>3, <1>4, <1>5, <1>6 DEF Next

LEMMA TokenInvHolds == ASSUME Mishaps = {} PROVE Spec => []TokenInv
BY InitTokens, TokenStep, PTL DEF Spec

\* Once the refresh of an account is over, the file holds a token that the server
\* accepts (account-manager.js:4415-4418), unless a kill, a lost answer, a failed
\* write or a revocation cut the account off.
THEOREM NothingIsLost == ASSUME Mishaps = {} PROVE Spec => []NoTokenLost
<1>1. TokenInv => NoTokenLost
  <2> SUFFICES ASSUME TokenInv, NEW a \in Account \ cut, disk[a] \in spent
               PROVE  \E w \in Worker : Rotating(w) /\ Saving(w, a)
    BY DEF NoTokenLost
  <2>1. PICK w \in Worker : Rotating(w) BY DEF TokenInv, Vacancy
  <2>2. Good(w, a) BY <2>1 DEF TokenInv, Holder
  <2>3. 0 \notin spent BY DEF TokenInv, Apart
  <2>4. CASE a \in Members(w) /\ disk[a] = mem[w][a]
    <3>1. job[w][a].at = "answered" BY <2>2, <2>4 DEF Good
    <3> QED BY <2>1, <3>1 DEF Saving, Idle
  <2>5. CASE \E i \in DOMAIN chain[w] : chain[w][i].acct = a BY <2>1, <2>5 DEF Saving
  <2> QED BY <2>2, <2>3, <2>4, <2>5 DEF Good, Due
<1> QED BY <1>1, TokenInvHolds, PTL

\* The lease holder presents no token that it or a predecessor presented before
\* (index.js:1519-1522): the takeover loses no rotation, however the refreshes,
\* the saves and the handovers interleave.
THEOREM NothingIsPresentedTwice == ASSUME Mishaps = {} PROVE Spec => []HolderIsCurrent
<1>1. TokenInv => HolderIsCurrent
  <2> SUFFICES ASSUME TokenInv, NEW w \in Worker, NEW a \in Members(w) \ cut,
                      phase[w] = "primary", job[w][a] = Idle
               PROVE  mem[w][a] \notin spent
    BY DEF HolderIsCurrent
  <2>1. a \in Account BY MembersAreAccounts DEF TokenInv, TypeInv
  <2>2. Good(w, a) BY <2>1 DEF TokenInv, Holder, Rotating
  <2> QED BY <2>2 DEF Good, Idle
<1> QED BY <1>1, TokenInvHolds, PTL

\* An account is latched dead or in error only for the token it holds, and one
\* that the server refuses: never for a refusal of an older token, nor for one
\* of another account (account-manager.js ensureTokenFresh, markAuthFailed).
THEOREM NoneIsBlamedForAnother == ASSUME Mishaps = {} PROVE Spec => []BlameIsDeserved
<1>1. TokenInv => BlameIsDeserved
  BY DEF TokenInv
<1> QED BY <1>1, TokenInvHolds, PTL
=============================================================================
