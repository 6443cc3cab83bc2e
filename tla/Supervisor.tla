------------------------------ MODULE Supervisor ------------------------------
(***************************************************************************)
(* The supervisor of src/index.js (supervisorCommand) and the worker       *)
(* processes it runs, with the baton of reload-protocol.js between them.   *)
(*                                                                         *)
(* The supervisor runs two asynchronous activities in one process: the     *)
(* supervision loop (spawn a cold worker, await the end of its turn) and   *)
(* at most one reload baton (probe the new worker, release the old one,    *)
(* hand over).  They share activeWorker and endTurn, and both react to the *)
(* exit events of the same processes.                                      *)
(*                                                                         *)
(* A worker id is recycled once its process is gone and nothing refers to  *)
(* it.  The messages of one pair of processes are a set with one element   *)
(* per kind; where the order of two kinds matters a guard restores the     *)
(* channel's FIFO order.                                                   *)
(***************************************************************************)
EXTENDS FiniteSets, Naturals

CONSTANTS
  Worker,       \* process ids: a bound on the processes alive at one time
  NoWorker,     \* activeWorker = null
  MaxTroubles,  \* bound on crashes, failed listens and repeated SIGHUPs
  Mishaps       \* the ill-timed exits the environment may produce, see below

\* "asker dies"     : the worker that asked for a reload exits while the
\*                    supervisor still waits for the new one's READY
\* "released dies"  : the released worker exits before the swap completed
\* "quit races"     : a worker is told to quit while its reload is under way
ASSUME SupervisorAssumption ==
  /\ NoWorker \notin Worker
  /\ MaxTroubles \in Nat
  /\ Mishaps \subseteq {"asker dies", "released dies", "quit races"}

VARIABLES
  loop,      \* the supervision loop: "relisten", "turn" (endTurn is set),
             \* "stopped" (it returned), "down" (process.exit(1))
  active,    \* activeWorker
  master,    \* masterServer.listening
  baton,     \* the reload in flight: its phase and its two workers
  st,        \* st[w]: where process w is in its life
  kind,      \* kind[w]: spawned "cold" or as a "reload" worker
  code,      \* code[w]: how it exited
  down, up,  \* down[w], up[w]: messages in flight to and from w
  writing,   \* processes with a refresh, a probe or a write in flight
  asked,     \* asked[w]: its restart latch and reloadWatchdog are armed
  reason,    \* reason[w]: lastRollbackReason
  verdict,   \* history: why the last reload was rolled back, in the words of
             \* reload-protocol.js:16-20
  troubles   \* how many of MaxTroubles have happened

supVars  == <<loop, active, master, baton>>
procVars == <<st, kind, code, asked, reason>>
wires    == <<down, up>>
vars     == <<supVars, procVars, wires, writing, verdict, troubles>>

(***************************************************************************)
(* The life of a worker process.  "leaving" is a worker told to quit while *)
(* becomePrimary still runs: it takes the lease all the same ("parting").  *)
(***************************************************************************)
LeaseStates == {"primary", "parting"}
Draining    == {"releasing", "released", "quitting", "restarting", "leaving", "parting"}
States      == {"none", "boot", "headless", "listening", "primary", "dead"} \cup Draining

Alive(w)     == st[w] \notin {"none", "dead"}
Lease(w)     == st[w] \in LeaseStates                               \* hasLease
Accepting(w) == st[w] \in {"listening", "primary", "restarting"}
Writers      == {w \in Worker : Lease(w) \/ w \in writing}            \* or may write

\* The port is bound by w: it listens, or the handle is on its way to it.
HoldsPort(w) == Accepting(w) \/ (Alive(w) /\ down[w] \cap {"listen", "takeover"} # {})
PortBusy     == \E w \in Worker : HoldsPort(w)

NoBaton == [phase |-> "idle", old |-> NoWorker, new |-> NoWorker]
Free(w) == st[w] = "none" /\ w \notin {active, baton.old, baton.new}

\* w's reload request is in flight, or its READY phase is running.
Asking(w) ==
  loop # "down" /\ ("reload" \in up[w] \/ (baton.phase = "ready" /\ baton.old = w))
\* w answered RELEASED and the swap is not done.
HandingOver(w) ==
  /\ loop # "down" /\ baton.old = w
  /\ baton.phase \in {"rearm", "takeover"} \/ (baton.phase = "release" /\ "released" \in up[w])
\* May w exit now, in the environments that Mishaps allows?
MayDie(w) ==
  /\ Asking(w) => "asker dies" \in Mishaps
  /\ HandingOver(w) => "released dies" \in Mishaps

TypeOK ==
  /\ loop \in {"relisten", "turn", "stopped", "down"}
  /\ active \in Worker \cup {NoWorker}
  /\ master \in BOOLEAN
  /\ baton \in [phase : {"idle", "ready", "release", "rearm", "takeover"},
                old : Worker \cup {NoWorker}, new : Worker \cup {NoWorker}]
  /\ st \in [Worker -> States]
  /\ kind \in [Worker -> {"cold", "reload"}]
  /\ code \in [Worker -> {"none", "restart", "fail", "clean"}]
  /\ down \in [Worker -> SUBSET {"listen", "probe", "release", "takeover", "timeout", "failed"}]
  /\ up \in [Worker -> SUBSET {"reload", "ready", "failed", "released", "primary"}]
  /\ writing \subseteq Worker
  /\ asked \in [Worker -> BOOLEAN]
  /\ reason \in [Worker -> {"none", "timeout", "failed"}]
  /\ verdict \in {"none", "slow", "broken"}
  /\ troubles \in 0..MaxTroubles

Init ==
  /\ loop = "relisten" /\ active = NoWorker /\ master = TRUE /\ baton = NoBaton
  /\ st = [w \in Worker |-> "none"]
  /\ kind = [w \in Worker |-> "cold"]
  /\ code = [w \in Worker |-> "none"]
  /\ down = [w \in Worker |-> {}] /\ up = [w \in Worker |-> {}]
  /\ writing = {}
  /\ asked = [w \in Worker |-> FALSE]
  /\ reason = [w \in Worker |-> "none"]
  /\ verdict = "none" /\ troubles = 0

(***************************************************************************)
(* Steps shared by several handlers.                                       *)
(***************************************************************************)
Trouble == troubles < MaxTroubles /\ troubles' = troubles + 1

\* Process w is now in state s.
Goes(w, s) == st' = [st EXCEPT ![w] = s]

\* The processes of S end with exit code c, cutting off what they were writing;
\* the exit of those in seen has been observed.
Die(S, c, seen) ==
  LET hit(w) == w \in S /\ Alive(w) IN
  /\ st'     = [w \in Worker |-> IF w \in seen THEN "none" ELSE IF hit(w) THEN "dead" ELSE st[w]]
  /\ code'   = [w \in Worker |-> IF w \in seen THEN "none" ELSE IF hit(w) THEN c ELSE code[w]]
  /\ asked'  = [w \in Worker |-> asked[w] /\ ~hit(w)]
  /\ reason' = [w \in Worker |-> IF hit(w) THEN "none" ELSE reason[w]]
  /\ writing' = writing \ S

\* spawnWorker: a fresh process with its first message already sent.
Spawn(w, k, msg) ==
  /\ Free(w)
  /\ Goes(w, "boot")
  /\ kind' = [kind EXCEPT ![w] = k]
  /\ down' = [down EXCEPT ![w] = {msg}]
  /\ up' = [up EXCEPT ![w] = {}]

(***************************************************************************)
(* The supervision loop.                                                   *)
(***************************************************************************)

\* relistenMaster, then spawn a cold worker and start its turn.  The backoff
\* before a respawn only delays this step.
SpawnCold(w) ==
  /\ loop = "relisten" /\ (master \/ ~PortBusy)
  /\ Spawn(w, "cold", "listen")
  /\ loop' = "turn" /\ active' = w /\ master' = TRUE
  /\ UNCHANGED <<baton, code, asked, reason, writing, verdict, troubles>>

\* The port stays taken for all the retries, by a worker or by a stranger.
PortTaken == ~master /\ (IF PortBusy THEN UNCHANGED troubles ELSE Trouble)

\* handleServerListenError: the supervisor exits.
RelistenFails ==
  /\ loop = "relisten" /\ PortTaken
  /\ loop' = "down"
  /\ UNCHANGED <<active, master, baton, procVars, wires, writing, verdict>>

\* Where the loop goes when the active worker's exit ends the turn.
AfterExit == [restart |-> {"relisten"}, fail |-> {"relisten", "stopped"}, clean |-> {"stopped"}]
\* (mutant: the exit of any worker ends the turn)
AfterTurn_AnyWorker(w) == IF loop = "turn" THEN AfterExit[code[w]] ELSE {loop}

AfterTurn(w) == IF active = w /\ loop = "turn" THEN AfterExit[code[w]] ELSE {loop}

\* MSG_PRIMARY at monitorAsActive's handler: stop the supervisor's own accepts.
PrimaryHeard(w) ==
  /\ loop # "down" /\ "primary" \in up[w]
  /\ ~(baton.phase = "takeover" /\ baton.new = w)
  /\ master' = (master /\ active # w)
  /\ up' = [up EXCEPT ![w] = @ \ {"primary"}]
  /\ UNCHANGED <<loop, active, baton, procVars, down, writing, verdict, troubles>>

(***************************************************************************)
(* The reload baton: orchestrateReload drives runReloadBaton.              *)
(***************************************************************************)

\* MSG_RELOAD_REQUEST, read after an earlier MSG_PRIMARY of the same worker.
\* A request that finds a reload in flight is dropped.
BeginReload(w) ==
  /\ loop # "down" /\ "reload" \in up[w] /\ "primary" \notin up[w]
  /\ IF baton.phase # "idle"
     THEN /\ up' = [up EXCEPT ![w] = @ \ {"reload"}]
          /\ UNCHANGED <<supVars, procVars, down, writing, verdict, troubles>>
     ELSE \E n \in Worker :
          /\ Free(n)
          /\ Goes(n, "boot")
          /\ kind' = [kind EXCEPT ![n] = "reload"]
          /\ down' = [down EXCEPT ![n] = {"probe"}]
          /\ up' = [up EXCEPT ![w] = @ \ {"reload"}, ![n] = {}]
          /\ baton' = [phase |-> "ready", old |-> active, new |-> n]
          /\ verdict' = "none"
          /\ UNCHANGED <<loop, active, master, code, asked, reason, writing, troubles>>

\* The processes in killed get SIGKILL; gone is the process whose exit, just
\* observed, brought the baton to its end.  What they had sent and was
\* not read yet is dropped (an abstraction: a pipe may still deliver it).
Silence(killed, gone) == [v \in Worker |-> IF v \in killed \cup gone THEN {} ELSE up[v]]

\* (mutant: the new worker is left running)
RollBack_KeepsNew(why, truth, gone) ==
  /\ baton' = NoBaton /\ verdict' = truth
  /\ down' = [down EXCEPT ![baton.old] = @ \cup {why}]
  /\ up' = Silence({}, gone)
  /\ Die({}, "fail", gone)
  /\ UNCHANGED <<active, kind, troubles>>

\* RELOAD_ROLLED_BACK: tell the old worker why, kill the new one.
RollBack(why, truth, gone) ==
  /\ baton' = NoBaton /\ verdict' = truth
  /\ down' = [v \in Worker |-> IF v = baton.old THEN down[v] \cup {why}
                               ELSE IF v \in gone THEN {} ELSE down[v]]
  /\ up' = Silence({baton.new}, gone)
  /\ Die({baton.new}, "fail", gone)
  /\ UNCHANGED <<active, kind, troubles>>

\* (mutants: only the old worker is killed; the turn is not ended)
FallBack_KeepsNew(l, gone) ==
  /\ baton' = NoBaton /\ active' = NoWorker
  /\ loop' = IF l = "turn" THEN "relisten" ELSE l
  /\ up' = Silence({baton.old}, gone) /\ UNCHANGED down
  /\ Die({baton.old}, "fail", gone)
  /\ UNCHANGED <<kind, verdict>>

FallBack_KeepsTurn(l, gone) ==
  /\ baton' = NoBaton /\ active' = NoWorker /\ loop' = l
  /\ up' = Silence({baton.old, baton.new}, gone) /\ UNCHANGED down
  /\ Die({baton.old, baton.new}, "fail", gone)
  /\ UNCHANGED <<kind, verdict>>

\* RELOAD_FALLBACK: kill both workers and end the turn, whoever's turn it is.
FallBack(l, gone) ==
  /\ baton' = NoBaton /\ active' = NoWorker
  /\ loop' = IF l = "turn" THEN "relisten" ELSE l
  /\ up' = Silence({baton.old, baton.new}, gone)
  /\ down' = [v \in Worker |-> IF v \in gone THEN {} ELSE down[v]]
  /\ Die({baton.old, baton.new}, "fail", gone)
  /\ UNCHANGED <<kind, verdict>>

\* (a) READY arrived: release the old worker.  If its exit was observed
\* meanwhile, the send fails and the baton falls back.
ReadyHeard ==
  /\ loop # "down" /\ baton.phase = "ready" /\ "ready" \in up[baton.new]
  /\ IF baton.old \in Worker /\ st[baton.old] # "none"
     THEN /\ baton' = [baton EXCEPT !.phase = "release"]
          /\ down' = [down EXCEPT ![baton.old] = @ \cup {"release"}]
          /\ up' = [up EXCEPT ![baton.new] = @ \ {"ready"}]
          /\ UNCHANGED <<loop, active, master, procVars, writing, verdict, troubles>>
     ELSE FallBack(loop, {}) /\ UNCHANGED <<master, troubles>>

\* (b) FAILED arrived, or the readiness budget ran out.
ReadyFailed ==
  /\ loop # "down" /\ baton.phase = "ready" /\ "failed" \in up[baton.new]
  /\ RollBack("failed", "broken", {}) /\ UNCHANGED <<loop, master>>

\* (mutant: a reason the worker does not know)
ReadyTimeout_BadReason ==
  /\ loop # "down" /\ baton.phase = "ready"
  /\ RollBack("slow", "slow", {}) /\ UNCHANGED <<loop, master>>

ReadyTimeout ==
  /\ loop # "down" /\ baton.phase = "ready"
  /\ RollBack("timeout", "slow", {}) /\ UNCHANGED <<loop, master>>

\* (c) RELEASED arrived, after everything else the old worker had sent.
ReleasedHeard ==
  /\ loop # "down" /\ baton.phase = "release"
  /\ "released" \in up[baton.old] /\ "reload" \notin up[baton.old]
  /\ baton' = [baton EXCEPT !.phase = "rearm"]
  /\ up' = [up EXCEPT ![baton.old] = @ \ {"released"}]
  /\ UNCHANGED <<loop, active, master, procVars, down, writing, verdict, troubles>>

\* The old worker, or later the new one, does not answer in time.
HandoverTimeout ==
  /\ loop # "down" /\ baton.phase \in {"release", "takeover"}
  /\ FallBack(loop, {}) /\ UNCHANGED <<master, troubles>>

\* prepareHandle, then (d) TAKEOVER.  Sending to a worker whose exit was
\* observed fails the step.
Rearm ==
  /\ loop # "down" /\ baton.phase = "rearm" /\ (master \/ ~PortBusy)
  /\ master' = TRUE
  /\ IF st[baton.new] # "none"
     THEN /\ baton' = [baton EXCEPT !.phase = "takeover"]
          /\ down' = [down EXCEPT ![baton.new] = @ \cup {"takeover"}]
          /\ UNCHANGED <<loop, active, procVars, up, writing, verdict, troubles>>
     ELSE FallBack(loop, {}) /\ UNCHANGED troubles

RearmFails ==
  /\ loop # "down" /\ baton.phase = "rearm" /\ PortTaken
  /\ FallBack(loop, {}) /\ UNCHANGED master

\* (mutant: the master's accepts are not closed at the swap)
Swap_KeepsMaster ==
  /\ loop # "down" /\ baton.phase = "takeover" /\ "primary" \in up[baton.new]
  /\ baton' = NoBaton /\ active' = baton.new
  /\ up' = [up EXCEPT ![baton.new] = @ \ {"primary"}]
  /\ UNCHANGED <<loop, master, procVars, down, writing, verdict, troubles>>

\* RELOAD_SWAPPED: the new worker is monitored, the old one left to the reaper.
Swap ==
  /\ loop # "down" /\ baton.phase = "takeover" /\ "primary" \in up[baton.new]
  /\ baton' = NoBaton /\ active' = baton.new /\ master' = FALSE
  /\ up' = [up EXCEPT ![baton.new] = @ \ {"primary"}]
  /\ UNCHANGED <<loop, procVars, down, writing, verdict, troubles>>

\* The exit of w is observed: first by monitorAsActive's handler, then by the
\* baton's waitFor.  When the loop returns it closes masterServer.
ExitSeen(w) ==
  /\ loop # "down" /\ st[w] = "dead"
  /\ \E l \in AfterTurn(w) :
       /\ master' = (master /\ (loop = "turn" => l # "stopped"))
       /\ \/ /\ baton.phase = "ready" /\ baton.new = w
             /\ RollBack("timeout", "broken", {w}) /\ loop' = l
          \/ /\ \/ baton.phase = "release" /\ baton.old = w
                \/ baton.phase = "takeover" /\ baton.new = w
             /\ FallBack(l, {w}) /\ UNCHANGED troubles
          \/ /\ ~(baton.phase \in {"ready", "takeover"} /\ baton.new = w)
             /\ ~(baton.phase = "release" /\ baton.old = w)
             /\ loop' = l
             /\ down' = [down EXCEPT ![w] = {}] /\ up' = [up EXCEPT ![w] = {}]
             /\ Die({}, "fail", {w})
             /\ UNCHANGED <<active, baton, kind, verdict, troubles>>

\* reapOldWorker: a swapped-out worker outlived its drain cap.
ReapOldWorker(w) ==
  /\ loop # "down"
  /\ st[w] \in {"released", "quitting", "restarting"} /\ w \notin {active, baton.old, baton.new}
  /\ Die({w}, "fail", {}) /\ up' = Silence({w}, {})
  /\ UNCHANGED <<supVars, kind, down, verdict, troubles>>

(***************************************************************************)
(* The worker processes.                                                   *)
(***************************************************************************)
WorkerOnly == UNCHANGED <<supVars, kind, verdict>>

Receive(w, m) == m \in down[w] /\ down' = [down EXCEPT ![w] = @ \ {m}]
Send(w, m) == up' = [up EXCEPT ![w] = @ \cup {m}]

\* MSG_LISTEN or MSG_TAKEOVER with a handle: listenOnHandle, becomePrimary starts.
StartListening(w) ==
  /\ \/ st[w] = "boot" /\ kind[w] = "cold" /\ Receive(w, "listen")
     \/ st[w] = "headless" /\ Receive(w, "takeover")
  /\ Goes(w, "listening")
  /\ WorkerOnly /\ UNCHANGED <<up, code, asked, reason, writing, troubles>>

\* listenOnHandle or becomePrimary throws: a cold worker exits 75, a reload
\* worker reports MSG_FAILED, which nobody waits for in that phase.
ListenFails(w) ==
  /\ Trouble
  /\ \/ st[w] = "boot" /\ kind[w] = "cold" /\ Receive(w, "listen")
        /\ Die({w}, "restart", {}) /\ UNCHANGED up
     \/ st[w] = "headless" /\ Receive(w, "takeover") /\ Send(w, "failed")
        /\ UNCHANGED <<st, code, asked, reason, writing>>
  /\ WorkerOnly

\* A reload worker booted headless answers MSG_PROBE_READY.
AnswerProbe(w) ==
  /\ st[w] = "boot" /\ kind[w] = "reload" /\ Receive(w, "probe")
  /\ Goes(w, "headless")
  /\ \E m \in {"ready", "failed"} : Send(w, m)
  /\ WorkerOnly /\ UNCHANGED <<code, asked, reason, writing, troubles>>

\* The end of becomePrimary: acquireLease, then MSG_PRIMARY.
BecomePrimary(w) ==
  /\ \/ st[w] = "listening" /\ Goes(w, "primary")
     \/ st[w] = "leaving" /\ Goes(w, "parting")
  /\ Send(w, "primary")
  /\ WorkerOnly /\ UNCHANGED <<down, code, asked, reason, writing, troubles>>

\* A refresh, a probe or a save starts under the lease; it may outlive it.
StartWrite(w) ==
  /\ Lease(w) /\ w \notin writing
  /\ writing' = writing \cup {w}
  /\ WorkerOnly /\ UNCHANGED <<st, code, asked, reason, wires, troubles>>

FinishWrite(w) ==
  /\ w \in writing /\ writing' = writing \ {w}
  /\ WorkerOnly /\ UNCHANGED <<st, code, asked, reason, wires, troubles>>

\* requestReload.  The restart latch keeps the terminal from asking twice; a
\* SIGHUP does not look at it.
RequestReload(w) ==
  /\ st[w] = "primary"
  /\ IF asked[w] THEN Trouble ELSE UNCHANGED troubles
  /\ asked' = [asked EXCEPT ![w] = TRUE]
  /\ reason' = [reason EXCEPT ![w] = "none"]
  /\ Send(w, "reload")
  /\ WorkerOnly /\ UNCHANGED <<st, code, down, writing>>

\* MSG_ROLLED_BACK.
RolledBack(w) ==
  /\ Alive(w)
  /\ \E why \in {"timeout", "failed"} :
       Receive(w, why) /\ reason' = [reason EXCEPT ![w] = why]
  /\ WorkerOnly /\ UNCHANGED <<st, code, asked, up, writing, troubles>>

\* (mutant: the latch stays set)
Watchdog_KeepsLatch(w) ==
  /\ st[w] = "primary" /\ asked[w]
  /\ reason[w] = "timeout" /\ Goes(w, "restarting")
  /\ WorkerOnly /\ UNCHANGED <<code, asked, reason, wires, writing, troubles>>

\* reloadWatchdog: its 50 s outlast the 30 s readiness budget, so the reload
\* it covers is over and its verdict delivered, if the supervisor still runs.
\* It resumes serving, or restarts cold into the update (restartWorkerNow).
Watchdog(w) ==
  /\ st[w] = "primary" /\ asked[w]
  /\ ~Asking(w) /\ (loop = "down" \/ (baton.old # w /\ down[w] = {}))
  /\ asked' = [asked EXCEPT ![w] = FALSE]
  /\ \/ UNCHANGED st
     \/ reason[w] = "timeout" /\ Goes(w, "restarting")
  /\ WorkerOnly /\ UNCHANGED <<code, reason, wires, writing, troubles>>

\* MSG_RELEASE, releaseBatonAndDrain: a worker that is draining already
\* answers at once; otherwise it stops accepting and drops the lease.
Release(w) ==
  /\ Alive(w) /\ Receive(w, "release")
  /\ \/ st[w] \in Draining /\ Send(w, "released") /\ UNCHANGED <<st, asked>>
     \/ /\ st[w] = "primary" /\ Goes(w, "releasing")
        /\ asked' = [asked EXCEPT ![w] = FALSE] /\ UNCHANGED up
  /\ WorkerOnly /\ UNCHANGED <<code, reason, writing, troubles>>

\* (mutant: RELEASED means only that the flag is flipped)
Released_FlagOnly(w) ==
  /\ st[w] = "releasing"
  /\ Goes(w, "released") /\ Send(w, "released")
  /\ WorkerOnly /\ UNCHANGED <<code, asked, reason, down, writing, troubles>>

\* The prober, the refreshes and the writes have drained.
Released(w) ==
  /\ st[w] = "releasing" /\ w \notin writing
  /\ Goes(w, "released") /\ Send(w, "released")
  /\ WorkerOnly /\ UNCHANGED <<code, asked, reason, down, writing, troubles>>

\* q, SIGINT, SIGTERM, a hangup: shutdownGracefully.  A second one, or one to
\* a process that has nothing to drain, exits at once.
Quit(w) ==
  /\ Alive(w)
  /\ \/ /\ st[w] = "primary" /\ Goes(w, "quitting")
        /\ (Asking(w) \/ "release" \in down[w]) => "quit races" \in Mishaps
        /\ asked' = [asked EXCEPT ![w] = FALSE] /\ UNCHANGED <<code, reason, writing>>
     \/ st[w] = "listening" /\ Goes(w, "leaving") /\ UNCHANGED <<code, asked, reason, writing>>
     \/ /\ st[w] \in {"headless"} \cup Draining /\ MayDie(w)
        /\ \E c \in {"fail", "clean"} : Die({w}, c, {})
  /\ WorkerOnly /\ UNCHANGED <<wires, troubles>>

\* The end of a drain: server.close is done, or the drain budget ran out, with
\* the final flush never waited for.  restartWorkerNow exits 75 after 2 s at most.
Exit(w) ==
  /\ MayDie(w)
  /\ \/ st[w] = "released" /\ Die({w}, "clean", {})
     \/ st[w] = "restarting" /\ Die({w}, "restart", {})
     \/ st[w] \in {"quitting", "leaving", "parting"} /\ \E c \in {"fail", "clean"} : Die({w}, c, {})
  /\ WorkerOnly /\ UNCHANGED <<wires, troubles>>

\* A fatal signal (any signal, during the boot) or a failed boot; or an uncaught exception, for which a
\* worker that is neither a reload worker nor draining exits 75.
Crash(w) ==
  /\ Alive(w) /\ MayDie(w) /\ Trouble
  /\ \/ Die({w}, "fail", {})
     \/ kind[w] = "cold" /\ st[w] \notin Draining /\ Die({w}, "restart", {})
  /\ WorkerOnly /\ UNCHANGED wires

-----------------------------------------------------------------------------
SupervisorNext ==
  \/ RelistenFails \/ ReadyHeard \/ ReadyFailed \/ ReadyTimeout
  \/ ReleasedHeard \/ HandoverTimeout \/ Rearm \/ RearmFails \/ Swap
  \/ \E w \in Worker : SpawnCold(w) \/ PrimaryHeard(w) \/ BeginReload(w)
                       \/ ExitSeen(w) \/ ReapOldWorker(w)

WorkerNext(w) ==
  \/ StartListening(w) \/ ListenFails(w) \/ AnswerProbe(w) \/ BecomePrimary(w)
  \/ StartWrite(w) \/ FinishWrite(w) \/ RequestReload(w) \/ RolledBack(w)
  \/ Watchdog(w) \/ Release(w) \/ Released(w) \/ Exit(w) \/ Quit(w) \/ Crash(w)

\* When the loop has stopped and no process is left, the program has ended.
Ended ==
  /\ loop \in {"stopped", "down"} /\ \A w \in Worker : st[w] \in {"none", "dead"}
  /\ UNCHANGED vars

Next == SupervisorNext \/ (\E w \in Worker : WorkerNext(w)) \/ Ended

Spec == Init /\ [][Next]_vars

\* The event loops run: a process handles what is waiting for it, a started
\* write ends, a timer armed in the code fires.  Nothing is assumed of signals,
\* crashes, reload requests and new writes.
Fairness ==
  /\ WF_vars(ReadyHeard \/ ReadyFailed \/ ReadyTimeout)
  /\ WF_vars(ReleasedHeard \/ Swap \/ HandoverTimeout)
  /\ WF_vars(Rearm) /\ WF_vars(RelistenFails \/ \E w \in Worker : SpawnCold(w))
  /\ \A w \in Worker :
       /\ WF_vars(ExitSeen(w)) /\ WF_vars(BeginReload(w)) /\ WF_vars(PrimaryHeard(w))
       /\ WF_vars(StartListening(w) \/ AnswerProbe(w)) /\ WF_vars(BecomePrimary(w))
       /\ WF_vars(FinishWrite(w)) /\ WF_vars(Release(w)) /\ WF_vars(Released(w))
       /\ WF_vars(RolledBack(w)) /\ WF_vars(Watchdog(w)) /\ WF_vars(Exit(w))

FairSpec == Spec /\ Fairness

(***************************************************************************)
(* Safety.                                                                 *)
(***************************************************************************)

\* reload-protocol.js:8-13: one process at most writes, or may start to.
SingleWriter == \A v, w \in Writers : v = w

\* One process at most accepts connections, counting the handles on their way.
SingleAcceptor == \A v, w \in Worker : HoldsPort(v) /\ HoldsPort(w) => v = w

\* index.js:1519-1522: once RELEASED was sent, and until the baton is over,
\* the old worker has no write in flight and can start none.
ReleasedMeansQuiet ==
  \A w \in Worker : HandingOver(w) => w \notin Writers

\* index.js:233-237: the supervisor accepts beside a worker only until that
\* worker's MSG_PRIMARY is read.
MasterListensOnlyInGaps ==
  \A w \in Worker : master /\ Accepting(w) => st[w] = "listening" \/ "primary" \in up[w]

\* A worker that serves is the one whose exit the loop is waiting for, or the
\* baton's new worker: no orphan keeps the port, a crash is noticed, and the
\* supervisor never gives up on a port that its own worker holds.
Supervised ==
  \A w \in Worker : Accepting(w) =>
    /\ loop = "turn"
    /\ w = active \/ (w = baton.new /\ baton.phase = "takeover")

\* index.js:342-344: the exit of the active primary ends a turn, so the loop is
\* still there to respawn it.
PrimaryIsMonitored ==
  \A w \in Worker : w = active /\ st[w] = "primary" => loop # "stopped"

\* The socket, on its way or bound, and the lease are one baton.
Owns(w) == HoldsPort(w) \/ Lease(w) \/ st[w] = "leaving" \/ w \in writing
Owners == {w \in Worker : Owns(w)}
Owner == IF Owners = {} THEN NoWorker ELSE CHOOSE w \in Owners : TRUE
Baton == INSTANCE WriterBaton WITH owner <- Owner, busy <- (writing # {})
ImplementsBaton == Baton!Spec

\* Whatever exits ill-timed: a worker that drained before it answered stays
\* quiet, and a headless worker never outlives its reload.
ReleasedStaysQuiet == \A w \in Worker : st[w] = "released" => w \notin Writers
NoStrayHeadless ==
  \A w \in Worker : st[w] = "headless" \/ (st[w] = "boot" /\ kind[w] = "reload") =>
    baton.phase # "idle" /\ w = baton.new

(***************************************************************************)
(* Action properties and liveness.                                         *)
(***************************************************************************)

\* reload-protocol.js:16-20: nobody restarts cold into a build that reported
\* failure or died before it was ready.
NoColdRestartIntoBrokenBuild ==
  [][\A w \in Worker : st[w] = "primary" /\ st'[w] = "restarting" => verdict # "broken"]_vars

\* As long as the supervisor runs its loop, a worker becomes primary again and
\* again, unless each one is told to quit before it gets there.
ServiceResumes ==
  loop \in {"relisten", "turn"} ~>
    loop \in {"stopped", "down"} \/ \E w \in Worker : st[w] \in {"primary", "leaving"}

\* index.js:1112-1117: a reload that did not happen releases the restart latch,
\* so the worker does not answer 503 for ever.
LatchClears == \A w \in Worker : asked[w] ~> ~asked[w]
=============================================================================
