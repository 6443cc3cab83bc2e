----------------------------- MODULE Forwarding -----------------------------
(***************************************************************************)
(* forwardRequest and queueAndRetry of server.js: the attempts of each     *)
(* client request over the accounts, its waits in the queue, and what the  *)
(* client sees of them.                                                    *)
(*                                                                         *)
(* One action is what runs between two awaits; the headers of an error and *)
(* the read of its short body are one action.  A request is the record     *)
(* that forwardRequest's arguments and requestInfo make: a repair copies   *)
(* requestInfo, and the copy goes on with the same fields.  Its body fits  *)
(* the retry buffer.  Which of the available accounts is chosen is left    *)
(* open.                                                                   *)
(***************************************************************************)
EXTENDS AdmissionControl

CONSTANTS
  Streams,      \* requests with "stream": true
  AllProfile,   \* requests of profile 'all': providers may serve them
  Siblings,     \* the pairs of requests of one session
  MaxAttempts,  \* maxAttempts
  Window,       \* the hold window, in ticks: computeQueueWindowMs
  HeadSkip,     \* HEAD_SKIP_MS, in ticks
  Repairs,      \* the one-shot repairs of a rejected body
  Worlds        \* what a behaviour may be about: the accounts that work at
                \* first and the faults that may happen, see Faults

\* "leave": a client leaves.  "token": a token cannot be refreshed.
\* "overload", "limit", "ambiguous", "auth", "server", "network", "throw": the
\* answers 529, 429, 429 of unknown scope, 401 or 403 of a provider, 5xx, none,
\* an exception.  "reject", "mend", "reroute", "thread", "refuse": the answers
\* 4xx to a body that nothing, a repair or another account heals, the refusal
\* of the thread gate and that of Anthropic's safeguards.
Faults == {"leave", "token", "overload", "limit", "ambiguous", "auth", "server",
           "network", "throw", "reject", "mend", "reroute", "thread", "refuse"}

ASSUME ForwardingAssumption ==
  /\ Worlds \subseteq [fleet : SUBSET Account, faults : SUBSET Faults]
  /\ Streams \subseteq Request /\ AllProfile \subseteq Request
  /\ MaxAttempts \in Nat \ {0} /\ Window \in Nat \ {0} /\ HeadSkip \in Nat
  /\ IsFiniteSet(Repairs)

VARIABLES
  am,     \* the AccountManager
  req,    \* the requests
  faults  \* the faults of this behaviour, which never change

vars == <<am, req, faults>>

NoAccount == "no account"
NotHeld   == -1

Info ==
  [pc       : {"new", "token", "sent", "answer", "queued", "done"},
   acct     : Account \cup {NoAccount}, \* lease.account
   probe    : BOOLEAN,            \* lease.upstreamThrottleProbe
   deaf     : BOOLEAN,            \* 'close' had fired before this attempt
   watch    : BOOLEAN,            \* _refusalRerouteEligible
   excluded : SUBSET Account,     \* excludedIndexes
   tries    : 0..(MaxAttempts + Cardinality(Repairs)),   \* retryCount
   wire     : {"none", "ping", "real"},  \* headersSent, and what followed
   beat     : BOOLEAN,            \* queueHeartbeatActive
   gone     : BOOLEAN,            \* res.destroyed: the client has left
   ticket   : BOOLEAN,            \* queueTicket # null
   waited   : 0..HeadSkip,        \* since the ticket's queuedAt
   admitted : BOOLEAN,            \* queueAdmitted
   age      : NotHeld..Window + 1,\* since queueStartedAt
   blamed   : SUBSET Claude,      \* upstreamIncidents, one fingerprint
   rebutted : BOOLEAN,            \* Anthropic has accepted a request since
   mended   : SUBSET Repairs,     \* effortRepaired, thinkingStripped, ...
   barred   : SUBSET {"claude", "provider"}, \* anthropicIncompatible, largeContext
   refused  : BOOLEAN]            \* history: a safeguard refused the turn

Fresh ==
  [pc |-> "new", acct |-> NoAccount, probe |-> FALSE, deaf |-> FALSE,
   watch |-> FALSE, excluded |-> {}, tries |-> 0, wire |-> "none",
   beat |-> FALSE, gone |-> FALSE, ticket |-> FALSE, waited |-> 0,
   admitted |-> FALSE, age |-> NotHeld, blamed |-> {}, rebutted |-> FALSE,
   mended |-> {}, barred |-> {}, refused |-> FALSE]

Leased(i)    == i.pc \in {"token", "sent", "answer"}
RealBytes(i) == i.wire # "none" /\ ~i.beat        \* clientHasRealBytes
Late         == {x \in Request : req[x].age > Window}

(* _evictQueuedSession: the dead holds of the same session *)
Ghosts(r) == {x \in ToSet(am.waiting) : req[x].gone /\ {r, x} \in Siblings}

(* _matchesRequest and _isAvailable *)
Compatible(r, i, a) ==
  IF a \in Provider THEN r \in AllProfile /\ "provider" \notin i.barred
                    ELSE "claude" \notin i.barred

Serves(m, r, i, a) ==
  /\ Available(m, a) /\ Compatible(r, i, a)
  /\ a \in Claude => /\ m.waiting = <<>> \/ i.ticket \/ i.admitted
                     /\ ~Blocking(m)

Route(m, r, i) == {a \in Account \ i.excluded : Serves(m, r, i, a)}
HasRoute(r)    == Route(am, r, [req[r] EXCEPT !.excluded = {}]) # {}

----------------------------------------------------------------------------
(* How an attempt goes on.  m and i are the manager and the request as the *)
(* handler has left them.                                                  *)

Set(m, r, i) == am' = m /\ req' = [req EXCEPT ![r] = i] /\ UNCHANGED faults

Answer(m, r) == Set(m, r, [Fresh EXCEPT !.pc = "done"])

(* ensureQueueHeartbeat *)
Beating(r, i) ==
  IF r \in Streams /\ ~i.beat /\ i.wire = "none"
  THEN [i EXCEPT !.beat = TRUE, !.wire = "ping"] ELSE i

\* (mutant: every hold starts its own window)
HoldStarted_Anew(i) == [i EXCEPT !.age = 0]

HoldStarted(i) == [i EXCEPT !.age = Larger(@, 0)]     \* queueStartedAt ||= now

Held(r, i) ==
  [Beating(r, i) EXCEPT !.pc = "queued", !.ticket = TRUE, !.waited = 0,
     !.acct = NoAccount, !.probe = FALSE, !.admitted = FALSE,
     !.excluded = {}, !.tries = 0, !.watch = FALSE, !.deaf = FALSE]

(* registerQueuedRequest, which also takes the tickets of the ghosts *)
Register(m, r, i) ==
  LET ghosts == Ghosts(r)
      n      == Dropped(Reaped(m, Late), ghosts)
      done   == [Fresh EXCEPT !.pc = "done"]
      holds  == ~Full(n) /\ i.age < Window
  IN /\ am' = IF holds THEN Queued(n, r) ELSE n
     /\ req' = [x \in Request |->
                  IF x = r THEN IF holds THEN Held(r, i) ELSE done
                  ELSE [req[x] EXCEPT !.ticket = @ /\ x \notin ghosts]]
     /\ UNCHANGED faults

(* queueAndRetry up to the await of waitForAvailableRoute *)
Hold(m, r, i, cause) ==
  IF RealBytes(i) \/ i.gone \/ cause = "proxy" THEN Answer(m, r)
  ELSE \/ Register(m, r, HoldStarted(i))
       \/ cause = "network" /\ i.age > 0 /\ Answer(m, r)  \* networkSoakDeadline

\* (mutant: an admission lasts for the failovers that follow)
Enter_KeepsAdmission(m, r, i) ==
  \/ \E a \in Route(m, r, i) :
       Set(Acquired(m, a), r,
           [i EXCEPT !.pc = "token", !.acct = a, !.probe = Claims(m, a),
                     !.deaf = i.gone,
                     !.watch = a \notin Provider /\ i.wire = "none"])
  \/ Route(m, r, i) = {} /\ Hold(m, r, i, "quota")

(* forwardRequest from its first line to the await of ensureTokenFresh *)
Enter(m, r, i) ==
  \/ \E a \in Route(m, r, i) :
       Set(Acquired(m, a), r,
           [i EXCEPT !.pc = "token", !.acct = a, !.probe = Claims(m, a),
                     !.admitted = FALSE, !.deaf = i.gone,
                     !.watch = a \notin Provider /\ i.wire = "none"])
  \/ Route(m, r, i) = {} /\ Hold(m, r, i, "quota")

Again(i)      == [i EXCEPT !.tries = @ + 1]
Without(i, s) == [i EXCEPT !.excluded = @ \cup s, !.probe = FALSE]
Spent(i)      == i.tries + 1 >= MaxAttempts

(* The failover of an attempt that has released its lease: to another      *)
(* account when the client's socket allows it and there is one, else the   *)
(* queue.                                                                  *)
Failover(m, r, i, may, cause) ==
  IF may /\ ~Spent(i) /\ Route(m, r, i) # {}
  THEN Enter(m, r, Again(i)) ELSE Hold(m, r, i, cause)

(* The same where the code does not look for a route first *)
Retry(m, r, i, may, cause) ==
  IF may /\ ~Spent(i) THEN Enter(m, r, Again(i)) ELSE Hold(m, r, i, cause)

Acct(r)     == req[r].acct
Untried(r)  == Without(req[r], {Acct(r)})
\* (mutant: what the client has seen is not looked at)
Unsent_Ignored(r) == TRUE

Unsent(r)   == req[r].wire = "none"                \* ! res.headersSent

(* The lease of r given back: by its outcome, or with the probe unused *)
Release(m, r, outcome) == Released(m, Acct(r), req[r].probe, outcome)
\* (mutant: the probe is not handed back)
HandBack_KeepsProbe(m, r) == Released(m, Acct(r), FALSE, "failed")

HandBack(m, r) ==
  Released(IF req[r].probe THEN Relinquished(m) ELSE m, Acct(r), FALSE, "failed")

(* The header boundary: any answer but a capacity signal settles the probe *)
Confirmed(r)    == IF req[r].probe THEN Cleared(am) ELSE am
ReleaseHeard(r, outcome) == Released(Confirmed(r), Acct(r), FALSE, outcome)

----------------------------------------------------------------------------
Init ==
  /\ \E w \in Worlds : /\ am = [FreshManager EXCEPT !.dead = Account \ w.fleet]
                       /\ faults = w.faults
  /\ req = [r \in Request |-> Fresh]

Arrive(r) == req[r].pc = "new" /\ Enter(am, r, req[r])

ClientLeaves(r) ==
  /\ req[r].pc \in {"token", "sent", "answer", "queued"} /\ ~req[r].gone
  /\ "leave" \in faults
  /\ Set(am, r, [req[r] EXCEPT !.gone = TRUE])

At(r, pc, kind) == req[r].pc = pc /\ req[r].acct \in kind
\* (mutant: nothing listens for the client's leaving)
Aborted_Never(r) == FALSE

Aborted(r)      == req[r].gone /\ ~req[r].deaf
Local           == Claude \cup Provider

\* (mutant: the account is not released)
ClientGone_Leaks(r) ==
  Aborted(r) /\ (At(r, "token", Account) \/ At(r, "sent", Local)) /\ Answer(am, r)

(* releaseOnClientGone *)
ClientGone(r) ==
  /\ Aborted(r) /\ (At(r, "token", Account) \/ At(r, "sent", Local))
  /\ Answer(HandBack(am, r), r)

TokenReady(r) ==
  /\ At(r, "token", Account) /\ ~Aborted(r)
  /\ Set(am, r, [req[r] EXCEPT !.pc = "sent"])

TokenFailed(r) ==
  /\ "token" \in faults
  /\ At(r, "token", Claude) /\ ~Aborted(r)
  /\ Failover(HandBack(am, r), r, Untried(r), TRUE, "quota")

(* The thread gate refuses the turn before it is sent *)
ThreadRefused(r) ==
  /\ "thread" \in faults /\ At(r, "token", Local) /\ ~Aborted(r)
  /\ Answer(Release(am, r, "failed"), r)

(* commitStreamGraceHeartbeat: no byte within streamForwardGraceMs *)
GraceBeat(r) ==
  /\ At(r, "sent", Local) /\ Unsent(r) /\ r \in Streams /\ ~req[r].gone
  /\ Set(am, r, Beating(r, req[r]))

----------------------------------------------------------------------------
(* What the upstream answers before any byte of a response *)

Answers(r, kind) == At(r, "sent", kind) /\ ~Aborted(r)

(* shouldPromoteUpstreamFailure *)
Promote(i) ==
  /\ Cardinality(i.blamed) >= 2
  /\ "claude" \in i.barred \/ (~i.rebutted /\ Claude \ am.dead \subseteq i.blamed)

(* The server limits everyone, or so it says *)
UpstreamBusy(r) ==
  LET i == [Untried(r) EXCEPT !.blamed = @ \cup {Acct(r)}]
      m == Release(Suspected(am, Acct(r)), r, "failed")
  IN IF Unsent(r) /\ ~Spent(i) /\ Route(m, r, i) # {}
     THEN Enter(m, r, Again(i))
     ELSE IF Promote(i)
          THEN Hold(Throttled(Unsuspected(m, i.blamed)), r, i, "throttle")
          ELSE Hold(m, r, i, "capacity")

(* a 529, or a 429 of the upstream's scope *)
Overloaded(r) == "overload" \in faults /\ Answers(r, Claude) /\ UpstreamBusy(r)

RateLimited(r) ==
  /\ "limit" \in faults
  /\ Answers(r, Local)
  /\ Failover(Release(Cooled(am, Acct(r)), r, "failed"), r, Untried(r),
              Unsent(r), "quota")

(* a 429 that does not say whose limit it is *)
AmbiguousLimit(r) ==
  /\ "ambiguous" \in faults
  /\ Answers(r, Claude)
  /\ LET m == [am EXCEPT !.amb = @ \cup {Acct(r)}] IN
     IF Cardinality(m.amb) >= 2
     THEN Hold(Release(Throttled(Absolved(m)), r, "throttled"), r,
               [req[r] EXCEPT !.probe = FALSE], "throttle")
     ELSE Failover(Release(Cooled(m, Acct(r)), r, "failed"), r, Untried(r),
                   Unsent(r), "quota")

(* 403 cools a provider, 401 disables it *)
ProviderAuth(r) ==
  /\ "auth" \in faults
  /\ Answers(r, Provider)
  /\ \E m \in {Cooled(am, Acct(r)), Killed(am, Acct(r))} :
       LET n == Release(m, r, "failed") IN
       IF Unsent(r) /\ ~Spent(req[r]) /\ Route(n, r, Untried(r)) # {}
       THEN Enter(n, r, Again(Untried(r))) ELSE Answer(n, r)

ServerError(r) ==
  /\ "server" \in faults
  /\ Answers(r, Local)
  /\ Retry(Release(Cooled(am, Acct(r)), r, "failed"), r, Untried(r),
           ~RealBytes(req[r]), "capacity")

(* Any other 4xx that nothing can heal.  403 and 408 do not clear the       *)
(* probe, and the third 403 that says the subscription is gone benches the  *)
(* account.                                                                 *)
Rejected(r) ==
  /\ "reject" \in faults
  /\ Answers(r, Local)
  /\ LET unheard == Release(am, r, "failed") IN
     \E m \in {unheard, ReleaseHeard(r, "failed")}
              \cup IF Acct(r) \in Claude THEN {Killed(unheard, Acct(r))} ELSE {} :
       Answer(m, r)

(* A 400 that a one-shot repair of the body heals.  Only the effort repair *)
(* is charged to the attempts.                                             *)
Mend(r) ==
  /\ "mend" \in faults
  /\ Answers(r, Local) /\ ~RealBytes(req[r])
  /\ \E k \in Repairs \ req[r].mended :
       /\ k = "effort" => ~Spent(req[r])
       /\ k # "effort" => /\ Acct(r) \in Claude
                          /\ Cardinality(req[r].mended \ {"effort"}) < 6
       /\ k = "fold" => "ordering" \in req[r].mended
       /\ Enter(ReleaseHeard(r, "failed"), r,
                [Again(Without(req[r], {})) EXCEPT !.mended = @ \cup {k}])

(* A 400 that another account can serve *)
Redirected(r, kind, i) ==
  /\ "reroute" \in faults
  /\ Answers(r, kind) /\ ~RealBytes(req[r]) /\ ~Spent(req[r])
  /\ Enter(ReleaseHeard(r, "failed"), r, Again(i))

(* the account whose thinking the session carries, when it moved this turn *)
ToIssuer(r) == Redirected(r, Claude, Untried(r))

(* a provider, for a transcript that Claude rejects *)
ToProvider(r) ==
  /\ Provider # {}
  /\ Redirected(r, Claude, [Untried(r) EXCEPT !.barred = @ \cup {"claude"}])

(* Claude, for a request too large for the providers, or of a shape that *)
(* none of them takes                                                    *)
ToClaude(r) ==
  \E bars \in {{}, {"provider"}} :
    Redirected(r, Provider, [Without(req[r], Provider) EXCEPT !.barred = @ \cup bars])

(* an exception that is not network-class, also a refusal that is not rerouted *)
ProxyError(r, m, i) ==
  LET n == Release(m, r, "failed") IN
  IF ~Spent(i) /\ ~RealBytes(i)
  THEN Enter(Killed(n, Acct(r)), r, Again(Without(i, {Acct(r)})))
  ELSE Answer(n, r)

FetchThrows(r) == "throw" \in faults /\ Answers(r, Local) /\ ProxyError(r, am, req[r])

(* ECONNRESET, no headers within UPSTREAM_TTFB_MS; or, from "answer", the   *)
(* body ends early or stalls                                               *)
NetworkFails(r) ==
  /\ "network" \in faults
  /\ \/ Answers(r, Local)
     \/ At(r, "answer", Local) /\ ~(req[r].gone /\ r \in Streams)
  /\ Retry(Release(Cooled(am, Acct(r)), r, "failed"), r, Untried(r),
           Unsent(r), "network")

----------------------------------------------------------------------------
(* A response below 400 *)

Accepted(r) ==
  /\ Answers(r, Local)
  /\ am' = Confirmed(r)
  /\ req' = [x \in Request |->
       IF x = r THEN [req[r] EXCEPT !.pc = "answer", !.probe = FALSE,
                                    !.beat = @ /\ r \notin Streams,
                                    !.rebutted = @ \/ req[r].blamed # {}]
       ELSE [req[x] EXCEPT !.rebutted =
               @ \/ (Acct(r) \in Claude /\ req[x].blamed # {})]]
  /\ UNCHANGED faults

FirstBytes(r) ==
  /\ At(r, "answer", Local) /\ r \in Streams /\ req[r].wire # "real"
  /\ ~req[r].gone
  /\ Set(am, r, [req[r] EXCEPT !.wire = "real"])

AnswerEnds(r) ==
  At(r, "answer", Account) /\ Answer(Release(am, r, "ok"), r)

(* stop_reason "refusal" while the first events are held *)
Refused(r) ==
  /\ "refuse" \in faults
  /\ At(r, "answer", Claude) /\ req[r].watch /\ r \in Streams
  /\ req[r].wire # "real" /\ ~req[r].gone
  /\ LET i == [Without(req[r], Claude \cup Mirror) EXCEPT !.refused = TRUE] IN
     IF Unsent(r) /\ Provider \ i.excluded # {} /\ i.tries < MaxAttempts
     THEN Enter(Release(am, r, "ok"), r, Again(i))
     ELSE ProxyError(r, am, IF Unsent(r) THEN i
                            ELSE [req[r] EXCEPT !.refused = TRUE])

----------------------------------------------------------------------------
(* A mirror: the request goes to the linked pool, pinned to its account *)

MirrorBusy(r) ==        \* 429 or 503
  /\ "limit" \in faults
  /\ At(r, "sent", Mirror) /\ ~RealBytes(req[r])
  /\ Failover(Release(Cooled(am, Acct(r)), r, "failed"), r, Untried(r),
              TRUE, "capacity")

(* the fetch or the read throws, which a client that leaves also causes *)
MirrorFails(r) ==
  /\ "network" \in faults \/ req[r].gone
  /\ At(r, "sent", Mirror) \/ At(r, "answer", Mirror)
  /\ LET m == Release(am, r, "failed") IN
     IF RealBytes(req[r]) THEN Answer(m, r)
     ELSE Failover(m, r, Untried(r), TRUE, "network")

MirrorAnswers(r) ==
  /\ At(r, "sent", Mirror)
  /\ \/ Set(am, r, [req[r] EXCEPT !.pc = "answer", !.wire = "real", !.beat = FALSE])
     \/ req[r].beat /\ Answer(Release(am, r, "failed"), r)     \* status >= 400

----------------------------------------------------------------------------
(* waitForAvailableRoute, polled every second *)

Waiting(r) == req[r].pc = "queued"
Due(r)     == req[r].age >= Window

PollGone(r) ==
  Waiting(r) /\ req[r].gone /\ Answer(Dropped(am, {r}), r)

(* hasAvailableRoute and canAdmitQueuedRequest, then forwardRequest afresh *)
AdmissibleNow(r) ==
  /\ Waiting(r) /\ ~req[r].gone /\ HasRoute(r)
  /\ req[r].ticket => Admissible(Reaped(am, Late), r, req[r].waited >= HeadSkip)

PollAdmits(r) ==
  /\ AdmissibleNow(r)
  /\ Enter(IF req[r].ticket THEN Admitted(Reaped(am, Late), r) ELSE am, r,
           [req[r] EXCEPT !.ticket = FALSE, !.waited = 0, !.admitted = @ \/ req[r].ticket])

(* a poll that does not admit: it may reap the head, and at the deadline it *)
(* is the last                                                             *)
PollWaits(r) ==
  /\ Waiting(r) /\ ~req[r].gone /\ ~AdmissibleNow(r)
  /\ LET m == IF HasRoute(r) THEN Reaped(am, Late) ELSE am IN
     \/ Due(r) /\ Answer(Dropped(m, {r}), r)
     \/ ~Due(r) /\ m # am /\ Set(m, r, req[r])

----------------------------------------------------------------------------
RampStep == am.recent /\ am' = [am EXCEPT !.recent = FALSE] /\ UNCHANGED <<req, faults>>

Aged(i) ==
  [i EXCEPT !.age = IF @ = NotHeld \/ @ > Window THEN @ ELSE @ + 1,
            !.waited = IF i.pc = "queued" /\ @ < HeadSkip THEN @ + 1 ELSE @]

Tick ==
  /\ am' = Elapse(am) /\ req' = [r \in Request |-> Aged(req[r])]
  /\ UNCHANGED faults

Attempt(r) ==
  \/ TokenReady(r) \/ TokenFailed(r) \/ ThreadRefused(r) \/ ClientGone(r)
  \/ Overloaded(r) \/ RateLimited(r) \/ AmbiguousLimit(r) \/ ProviderAuth(r)
  \/ ServerError(r) \/ Rejected(r) \/ Mend(r) \/ ToIssuer(r) \/ ToProvider(r)
  \/ ToClaude(r) \/ FetchThrows(r) \/ NetworkFails(r) \/ Accepted(r) \/ AnswerEnds(r) \/ Refused(r)
  \/ MirrorBusy(r) \/ MirrorFails(r) \/ MirrorAnswers(r)
Poll(r) == PollGone(r) \/ PollAdmits(r) \/ PollWaits(r)

Next ==
  \/ Tick \/ RampStep
  \/ \E r \in Request : \/ Arrive(r) \/ ClientLeaves(r) \/ GraceBeat(r)
                        \/ FirstBytes(r) \/ Attempt(r) \/ Poll(r)

(* The event loop runs every timer and every settled promise, and the      *)
(* guards on time to first byte, idle streams and bodies settle each       *)
(* attempt.  A stream that never pauses is taken to end.                   *)
Fairness ==
  /\ WF_vars(Tick)
  /\ \A r \in Request : WF_vars(Attempt(r) \/ Poll(r))

Spec == Init /\ [][Next]_vars /\ Fairness

----------------------------------------------------------------------------
(* Every variable has its type. *)
TypeOK ==
  am \in Manager /\ req \in [Request -> Info] /\ faults \subseteq Faults

(* releaseAccount is not idempotent: the in-flight count of an account is   *)
(* that of the attempts under way on it, whatever way each of them is left, *)
(* so that no slot leaks and none is given away twice.                      *)
LeasesCounted ==
  \A a \in Account :
    am.busy[a] = Cardinality({r \in Request : Leased(req[r]) /\ Acct(r) = a})

(* A breaker that waits for its probe waits for an attempt that will bring  *)
(* the result: a probe in flight is carried by a lease.                     *)
ProbeIsCarried == am.probing => \E r \in Request : Leased(req[r]) /\ req[r].probe

(* The byte budget of the queue never counts more than what waits, so that  *)
(* a queue that empties admits again: the bytes are given back on every way *)
(* out, the admission, the expiry, the client's leaving, the stale head.    *)
NoPhantomBytes == am.bytes <= Len(am.waiting)

(* A ticket in the queue is one of a request that still waits with it, and  *)
(* a request has one: no entry is left behind to block the head.            *)
QueueIsLive ==
  /\ IsInjective(am.waiting)
  /\ \A r \in ToSet(am.waiting) : Waiting(r) /\ req[r].ticket

(* A request that is not in the queue takes no Claude account while others  *)
(* wait, be it new, failing over, or admitted before and failing over now.  *)
NoQueueJumping ==
  [][\A r \in Request :
       /\ req'[r].pc = "token" /\ req[r].pc # "token" /\ req'[r].acct \in Claude
       => Waiting(r) \/ am.waiting = <<>>]_vars

(* Once the client has bytes of a response, its request is never sent again *)
(* nor held: a second response would corrupt the stream.                    *)
NoReplayAfterBytes ==
  [][\A r \in Request : req[r].wire = "real" =>
       req'[r].pc \in {"answer", "done"}]_vars

(* For a streaming client that has left a direct attempt, no account is     *)
(* taken any more.  (A linked pool and a response read whole do not see it.) *)
NothingSentForTheGone ==
  [][\A r \in Streams :
       req[r].gone /\ ~req[r].deaf /\ Acct(r) \notin Mirror
       => req'[r].pc \in {req[r].pc, "done"}]_vars

(* A turn that Anthropic's safeguards refused is not sent to Anthropic      *)
(* again.                                                                   *)
RefusalIsFinal ==
  \A r \in Request : req[r].refused /\ Leased(req[r]) => Acct(r) \in Provider

(* Every request is answered, or its client left, in the end: the window of *)
(* the queue starts once, the repairs happen once, the attempts are counted. *)
InFlight == {r \in Request : req[r].pc \notin {"new", "done"}}
EveryRequestEnds == InFlight # {} ~> InFlight = {}
=============================================================================
