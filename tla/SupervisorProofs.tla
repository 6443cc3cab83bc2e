--------------------------- MODULE SupervisorProofs ---------------------------
(***************************************************************************)
(* Theorems about Supervisor for any number of processes and troubles.     *)
(***************************************************************************)
EXTENDS Supervisor, TLAPS

(***************************************************************************)
(* Type correctness.  That an observed death has an exit code has to be    *)
(* carried along: the loop's next state is looked up by it.                *)
(***************************************************************************)
DeadHasCode == \A w \in Worker : st[w] = "dead" => code[w] # "none"
TypeInv == TypeOK /\ DeadHasCode

\* What Die does to the types of the variables it sets.
LEMMA DieTypes ==
  ASSUME TypeInv, NEW S, NEW c \in {"restart", "fail", "clean"}, NEW seen, Die(S, c, seen)
  PROVE  /\ st' \in [Worker -> States]
         /\ code' \in [Worker -> {"none", "restart", "fail", "clean"}]
         /\ asked' \in [Worker -> BOOLEAN]
         /\ reason' \in [Worker -> {"none", "timeout", "failed"}]
         /\ writing' \subseteq Worker
         /\ DeadHasCode'
<1>1. st' \in [Worker -> States]
  BY DEF TypeInv, TypeOK, Die, States, Draining, Alive
<1>2. code' \in [Worker -> {"none", "restart", "fail", "clean"}]
  BY DEF TypeInv, TypeOK, Die, Alive
<1>3. asked' \in [Worker -> BOOLEAN]
  BY DEF TypeInv, TypeOK, Die, Alive
<1>4. reason' \in [Worker -> {"none", "timeout", "failed"}]
  BY DEF TypeInv, TypeOK, Die, Alive
<1>5. writing' \subseteq Worker
  BY DEF TypeInv, TypeOK, Die
<1>6. DeadHasCode'
  BY DEF TypeInv, TypeOK, Die, Alive, DeadHasCode, States, Draining
<1> QED BY <1>1, <1>2, <1>3, <1>4, <1>5, <1>6

\* The two ends of a baton that kill workers keep the types.
LEMMA RollBackTypes ==
  ASSUME TypeInv, NEW why \in {"timeout", "failed"}, NEW truth \in {"slow", "broken"},
         NEW gone, RollBack(why, truth, gone),
         loop' \in {"relisten", "turn", "stopped", "down"}, master' \in BOOLEAN
  PROVE  TypeInv'
<1>1. Die({baton.new}, "fail", gone) BY DEF RollBack
<1>2. /\ st' \in [Worker -> States]
      /\ code' \in [Worker -> {"none", "restart", "fail", "clean"}]
      /\ asked' \in [Worker -> BOOLEAN]
      /\ reason' \in [Worker -> {"none", "timeout", "failed"}]
      /\ writing' \subseteq Worker
      /\ DeadHasCode'
  BY <1>1, DieTypes
<1>3. down' \in [Worker -> SUBSET {"listen", "probe", "release", "takeover", "timeout", "failed"}]
  BY DEF RollBack, TypeInv, TypeOK
<1>4. up' \in [Worker -> SUBSET {"reload", "ready", "failed", "released", "primary"}]
  BY DEF RollBack, Silence, TypeInv, TypeOK
<1> QED BY <1>2, <1>3, <1>4 DEF RollBack, NoBaton, TypeInv, TypeOK

LEMMA FallBackTypes ==
  ASSUME TypeInv, NEW l \in {"relisten", "turn", "stopped", "down"},
         NEW gone, FallBack(l, gone), master' \in BOOLEAN, troubles' \in 0..MaxTroubles
  PROVE  TypeInv'
<1>1. Die({baton.old, baton.new}, "fail", gone) BY DEF FallBack
<1>2. /\ st' \in [Worker -> States]
      /\ code' \in [Worker -> {"none", "restart", "fail", "clean"}]
      /\ asked' \in [Worker -> BOOLEAN]
      /\ reason' \in [Worker -> {"none", "timeout", "failed"}]
      /\ writing' \subseteq Worker
      /\ DeadHasCode'
  BY <1>1, DieTypes
<1>3. down' \in [Worker -> SUBSET {"listen", "probe", "release", "takeover", "timeout", "failed"}]
  BY DEF FallBack, TypeInv, TypeOK
<1>4. up' \in [Worker -> SUBSET {"reload", "ready", "failed", "released", "primary"}]
  BY DEF FallBack, Silence, TypeInv, TypeOK
<1> QED BY <1>2, <1>3, <1>4 DEF FallBack, NoBaton, TypeInv, TypeOK

LEMMA TroubleType ==
  ASSUME TypeInv, Trouble
  PROVE  troubles' \in 0..MaxTroubles
<1>1. troubles \in 0..MaxTroubles /\ MaxTroubles \in Nat
  BY SupervisorAssumption DEF TypeInv, TypeOK
<1>2. troubles < MaxTroubles /\ troubles' = troubles + 1
  BY DEF Trouble
<1> QED BY <1>1, <1>2

\* Receiving and sending keep the types of the wires.
LEMMA WireTypes ==
  ASSUME TypeInv, NEW w \in Worker
  PROVE  /\ \A m \in {"listen", "probe", "release", "takeover", "timeout", "failed"} :
              Receive(w, m) => down' \in [Worker -> SUBSET {"listen", "probe", "release",
                                                            "takeover", "timeout", "failed"}]
         /\ \A m \in {"reload", "ready", "failed", "released", "primary"} :
              Send(w, m) => up' \in [Worker -> SUBSET {"reload", "ready", "failed",
                                                       "released", "primary"}]
BY DEF TypeInv, TypeOK, Receive, Send

LEMMA GoesTypes ==
  ASSUME TypeInv, NEW w \in Worker, NEW s \in States \ {"dead"}, Goes(w, s), UNCHANGED code
  PROVE  st' \in [Worker -> States] /\ DeadHasCode'
BY DEF TypeInv, TypeOK, Goes, DeadHasCode

\* The steps of the supervisor keep the types.
LEMMA SupervisorTypes == TypeInv /\ SupervisorNext => TypeInv'
<1> SUFFICES ASSUME TypeInv, SupervisorNext PROVE TypeInv'
  OBVIOUS
<1> USE DEF TypeInv
<1>1. CASE RelistenFails
  <2>1. troubles' \in 0..MaxTroubles
    BY <1>1, TroubleType DEF RelistenFails, PortTaken, TypeOK
  <2> QED BY <1>1, <2>1 DEF RelistenFails, TypeOK, DeadHasCode, procVars, wires
<1>2. CASE ReadyHeard
  <2>1. CASE FallBack(loop, {}) /\ UNCHANGED <<master, troubles>>
    BY <2>1, FallBackTypes DEF TypeOK
  <2>2. CASE ~(FallBack(loop, {}) /\ UNCHANGED <<master, troubles>>)
    BY <1>2, <2>2 DEF ReadyHeard, TypeOK, DeadHasCode, procVars
  <2> QED BY <2>1, <2>2
<1>3. CASE ReadyFailed
  BY <1>3, RollBackTypes DEF ReadyFailed, TypeOK
<1>4. CASE ReadyTimeout
  BY <1>4, RollBackTypes DEF ReadyTimeout, TypeOK
<1>5. CASE ReleasedHeard
  BY <1>5 DEF ReleasedHeard, TypeOK, DeadHasCode, procVars
<1>6. CASE HandoverTimeout
  BY <1>6, FallBackTypes DEF HandoverTimeout, TypeOK
<1>7. CASE Rearm
  <2>1. CASE FallBack(loop, {}) /\ UNCHANGED troubles
    BY <1>7, <2>1, FallBackTypes DEF Rearm, TypeOK
  <2>2. CASE ~(FallBack(loop, {}) /\ UNCHANGED troubles)
    BY <1>7, <2>2 DEF Rearm, TypeOK, DeadHasCode, procVars
  <2> QED BY <2>1, <2>2
<1>8. CASE RearmFails
  <2>1. troubles' \in 0..MaxTroubles
    BY <1>8, TroubleType DEF RearmFails, PortTaken, TypeOK
  <2> QED BY <1>8, <2>1, FallBackTypes DEF RearmFails, TypeOK
<1>9. CASE Swap
  BY <1>9 DEF Swap, NoBaton, TypeOK, DeadHasCode, procVars
<1>10. ASSUME NEW w \in Worker, SpawnCold(w) PROVE TypeInv'
  BY <1>10 DEF SpawnCold, Spawn, Goes, TypeOK, DeadHasCode, States
<1>11. ASSUME NEW w \in Worker, PrimaryHeard(w) PROVE TypeInv'
  BY <1>11 DEF PrimaryHeard, TypeOK, DeadHasCode, procVars
<1>12. ASSUME NEW w \in Worker, BeginReload(w) PROVE TypeInv'
  <2>1. CASE baton.phase # "idle"
    BY <1>12, <2>1 DEF BeginReload, TypeOK, DeadHasCode, supVars, procVars
  <2>2. CASE baton.phase = "idle"
    BY <1>12, <2>2 DEF BeginReload, Goes, TypeOK, DeadHasCode, States
  <2> QED BY <2>1, <2>2
<1>13. ASSUME NEW w \in Worker, ExitSeen(w) PROVE TypeInv'
  <2>1. PICK l \in AfterTurn(w) : ExitSeen(w)!2!(l)
    BY <1>13 DEF ExitSeen
  <2>2. l \in {"relisten", "turn", "stopped", "down"} /\ master' \in BOOLEAN
    BY <1>13, <2>1 DEF ExitSeen, AfterTurn, AfterExit, TypeOK, DeadHasCode
  <2>3. CASE RollBack("timeout", "broken", {w}) /\ loop' = l
    BY <2>2, <2>3, RollBackTypes DEF TypeOK
  <2>4. CASE FallBack(l, {w}) /\ UNCHANGED troubles
    BY <2>2, <2>4, FallBackTypes DEF TypeOK
  <2>5. CASE /\ loop' = l
             /\ down' = [down EXCEPT ![w] = {}] /\ up' = [up EXCEPT ![w] = {}]
             /\ Die({}, "fail", {w})
             /\ UNCHANGED <<active, baton, kind, verdict, troubles>>
    BY ZenonT(60), <2>2, <2>5, DieTypes DEF TypeOK
  <2> QED BY <2>1, <2>3, <2>4, <2>5
<1>14. ASSUME NEW w \in Worker, ReapOldWorker(w) PROVE TypeInv'
  <2>1. up' \in [Worker -> SUBSET {"reload", "ready", "failed", "released", "primary"}]
    BY <1>14 DEF ReapOldWorker, Silence, TypeOK
  <2> QED BY ZenonT(60), <1>14, <2>1, DieTypes DEF ReapOldWorker, TypeOK, supVars
<1> QED
  BY <1>1, <1>2, <1>3, <1>4, <1>5, <1>6, <1>7, <1>8, <1>9, <1>10, <1>11, <1>12, <1>13, <1>14
  DEF SupervisorNext

\* The steps of a worker keep the types.
LEMMA WorkerTypes ==
  ASSUME TypeInv, NEW w \in Worker, WorkerNext(w)
  PROVE  TypeInv'
<1> USE DEF TypeInv, WorkerOnly, supVars, wires
<1>0. ASSUME NEW c \in {"restart", "fail", "clean"}, Die({w}, c, {})
      PROVE  /\ st' \in [Worker -> States]
             /\ code' \in [Worker -> {"none", "restart", "fail", "clean"}]
             /\ asked' \in [Worker -> BOOLEAN]
             /\ reason' \in [Worker -> {"none", "timeout", "failed"}]
             /\ writing' \subseteq Worker
             /\ DeadHasCode'
  BY <1>0, DieTypes
<1>1. CASE StartListening(w)
  BY <1>1, WireTypes, GoesTypes DEF StartListening, TypeOK, States
<1>2. CASE ListenFails(w)
  <2>1. troubles' \in 0..MaxTroubles
    BY <1>2, TroubleType DEF ListenFails
  <2>2. CASE Receive(w, "listen") /\ Die({w}, "restart", {}) /\ UNCHANGED up
    <3>1. down' \in [Worker -> SUBSET {"listen", "probe", "release", "takeover", "timeout", "failed"}]
      BY <2>2, WireTypes
    <3> QED BY <1>2, <2>1, <2>2, <3>1, <1>0 DEF ListenFails, TypeOK
  <2>3. CASE /\ Receive(w, "takeover") /\ Send(w, "failed")
             /\ UNCHANGED <<st, code, asked, reason, writing>>
    BY <1>2, <2>1, <2>3, WireTypes DEF ListenFails, TypeOK, DeadHasCode
  <2> QED BY <1>2, <2>2, <2>3 DEF ListenFails
<1>3. CASE AnswerProbe(w)
  BY <1>3, WireTypes, GoesTypes DEF AnswerProbe, TypeOK, States
<1>4. CASE BecomePrimary(w)
  BY <1>4, WireTypes, GoesTypes DEF BecomePrimary, TypeOK, States, Draining
<1>5. CASE StartWrite(w)
  BY <1>5 DEF StartWrite, TypeOK, DeadHasCode
<1>6. CASE FinishWrite(w)
  BY <1>6 DEF FinishWrite, TypeOK, DeadHasCode
<1>7. CASE RequestReload(w)
  <2>1. troubles' \in 0..MaxTroubles
    BY <1>7, TroubleType DEF RequestReload, TypeOK
  <2> QED BY <1>7, <2>1, WireTypes DEF RequestReload, TypeOK, DeadHasCode
<1>8. CASE RolledBack(w)
  BY <1>8, WireTypes DEF RolledBack, TypeOK, DeadHasCode
<1>9. CASE Watchdog(w)
  BY <1>9 DEF Watchdog, Goes, TypeOK, DeadHasCode, States, Draining
<1>10. CASE Release(w)
  <2>1. down' \in [Worker -> SUBSET {"listen", "probe", "release", "takeover", "timeout", "failed"}]
    BY <1>10, WireTypes DEF Release
  <2>2. CASE Send(w, "released") /\ UNCHANGED <<st, asked>>
    BY <1>10, <2>1, <2>2, WireTypes DEF Release, TypeOK, DeadHasCode
  <2>3. CASE Goes(w, "releasing") /\ asked' = [asked EXCEPT ![w] = FALSE] /\ UNCHANGED up
    <3>1. st' \in [Worker -> States] /\ DeadHasCode'
      BY <1>10, <2>3, GoesTypes DEF Release, States, Draining
    <3> QED BY <1>10, <2>1, <2>3, <3>1 DEF Release, TypeOK
  <2> QED BY <1>10, <2>2, <2>3 DEF Release
<1>11. CASE Released(w)
  BY <1>11, WireTypes, GoesTypes DEF Released, TypeOK, States, Draining
<1>12. CASE Quit(w)
  <2>1. CASE \E c \in {"fail", "clean"} : Die({w}, c, {})
    <3>1. UNCHANGED <<supVars, kind, verdict, wires, troubles>>
      BY <1>12 DEF Quit
    <3> QED BY <2>1, <3>1, <1>0 DEF TypeOK
  <2>2. CASE ~(\E c \in {"fail", "clean"} : Die({w}, c, {}))
    <3>1. /\ UNCHANGED <<supVars, kind, verdict, wires, troubles, code, reason, writing>>
          /\ Goes(w, "quitting") \/ Goes(w, "leaving")
      BY <1>12, <2>2 DEF Quit
    <3>2. st' \in [Worker -> States] /\ DeadHasCode'
      BY <3>1, GoesTypes DEF States, Draining
    <3>3. asked' \in [Worker -> BOOLEAN]
      BY <1>12, <2>2 DEF Quit, TypeOK
    <3> QED BY <3>1, <3>2, <3>3 DEF TypeOK
  <2> QED BY <2>1, <2>2
<1>13. CASE Exit(w)
  <2>1. \E c \in {"restart", "fail", "clean"} : Die({w}, c, {})
    BY <1>13 DEF Exit
  <2> QED BY <1>13, <2>1, <1>0 DEF Exit, TypeOK
<1>14. CASE Crash(w)
  <2>1. \E c \in {"restart", "fail", "clean"} : Die({w}, c, {})
    BY <1>14 DEF Crash
  <2>2. troubles' \in 0..MaxTroubles
    BY <1>14, TroubleType DEF Crash
  <2> QED BY <1>14, <2>1, <2>2, <1>0 DEF Crash, TypeOK
<1> QED
  BY <1>1, <1>2, <1>3, <1>4, <1>5, <1>6, <1>7, <1>8, <1>9, <1>10, <1>11, <1>12, <1>13, <1>14
  DEF WorkerNext

LEMMA NextTypes == TypeInv /\ [Next]_vars => TypeInv'
<1> SUFFICES ASSUME TypeInv, [Next]_vars PROVE TypeInv'
  OBVIOUS
<1>1. CASE SupervisorNext
  BY <1>1, SupervisorTypes
<1>2. CASE \E w \in Worker : WorkerNext(w)
  BY <1>2, WorkerTypes
<1>3. CASE UNCHANGED vars
  BY <1>3 DEF TypeInv, TypeOK, DeadHasCode, vars, supVars, procVars, wires
<1> QED BY <1>1, <1>2, <1>3 DEF Next, Ended

LEMMA InitTypes == Init => TypeInv
<1> SUFFICES ASSUME Init PROVE TypeInv
  OBVIOUS
<1>1. troubles \in 0..MaxTroubles
  <2>1. MaxTroubles \in Nat BY SupervisorAssumption
  <2>2. troubles = 0 BY DEF Init
  <2> QED BY <2>1, <2>2
<1>2. baton \in [phase : {"idle", "ready", "release", "rearm", "takeover"},
                old : Worker \cup {NoWorker}, new : Worker \cup {NoWorker}]
  BY DEF Init, NoBaton
<1>3. "none" \in States /\ "none" # "dead"
  BY DEF States
<1>4. st \in [Worker -> States] /\ DeadHasCode
  BY <1>3 DEF Init, DeadHasCode
<1> QED BY <1>1, <1>2, <1>4 DEF Init, TypeInv, TypeOK

LEMMA TypeInvHolds == Spec => []TypeInv
BY InitTypes, NextTypes, PTL DEF Spec

\* Every reachable state has the declared types, in every environment.
THEOREM TypeCorrect == Spec => []TypeOK
<1>1. TypeInv => TypeOK BY DEF TypeInv
<1> QED BY <1>1, TypeInvHolds, PTL

(***************************************************************************)
(* Whatever exits ill-timed, a released process has nothing in flight, and *)
(* a headless one belongs to the reload that is under way.                 *)
(***************************************************************************)

\* A step of a worker leaves the supervisor's variables and every other process
\* alone.
LEMMA WorkerFrame ==
  ASSUME TypeInv, NEW w \in Worker, WorkerNext(w)
  PROVE  /\ UNCHANGED <<supVars, kind>>
         /\ \A v \in Worker \ {w} :
              /\ st'[v] = st[v] /\ down'[v] = down[v] /\ up'[v] = up[v]
              /\ v \in writing' <=> v \in writing
         /\ st' \in [Worker -> States] /\ down'[w] \subseteq down[w]
<1> USE DEF TypeInv, TypeOK, WorkerOnly, wires, Receive, Send, Goes, Die, Alive
<1>1. CASE StartListening(w) BY <1>1 DEF StartListening, States
<1>2. CASE ListenFails(w) BY <1>2 DEF ListenFails, States
<1>3. CASE AnswerProbe(w) BY <1>3 DEF AnswerProbe, States
<1>4. CASE BecomePrimary(w)
  <2>1. {"primary", "parting"} \subseteq States BY DEF States, Draining
  <2> QED BY <1>4, <2>1 DEF BecomePrimary
<1>5. CASE StartWrite(w) BY <1>5 DEF StartWrite
<1>6. CASE FinishWrite(w) BY <1>6 DEF FinishWrite
<1>7. CASE RequestReload(w) BY <1>7 DEF RequestReload
<1>8. CASE RolledBack(w) BY <1>8 DEF RolledBack
<1>9. CASE Watchdog(w) BY <1>9 DEF Watchdog, States, Draining
<1>10. CASE Release(w) BY <1>10 DEF Release, States, Draining
<1>11. CASE Released(w) BY <1>11 DEF Released, States, Draining
<1>12. CASE Quit(w)
  <2>1. {"quitting", "leaving", "dead"} \subseteq States BY DEF States, Draining
  <2>2. UNCHANGED <<supVars, kind>> /\ UNCHANGED <<down, up>>
    BY <1>12 DEF Quit
  <2>3. ASSUME NEW s \in States, Goes(w, s), UNCHANGED writing
        PROVE  /\ \A v \in Worker \ {w} : st'[v] = st[v] /\ (v \in writing' <=> v \in writing)
               /\ st' \in [Worker -> States]
    BY <2>3
  <2>4. ASSUME NEW c, Die({w}, c, {})
        PROVE  /\ \A v \in Worker \ {w} : st'[v] = st[v] /\ (v \in writing' <=> v \in writing)
               /\ st' \in [Worker -> States]
    BY <2>1, <2>4
  <2>5. \/ \E s \in {"quitting", "leaving"} : Goes(w, s) /\ UNCHANGED writing
        \/ \E c \in {"fail", "clean"} : Die({w}, c, {})
    BY <1>12 DEF Quit
  <2> QED BY <2>1, <2>2, <2>3, <2>4, <2>5
<1>13. CASE Exit(w) BY <1>13 DEF Exit, States
<1>14. CASE Crash(w) BY <1>14 DEF Crash, States
<1> QED
  BY <1>1, <1>2, <1>3, <1>4, <1>5, <1>6, <1>7, <1>8, <1>9, <1>10, <1>11, <1>12, <1>13, <1>14
  DEF WorkerNext

\* What the two say of one process.  That a process told it is primary, and so is
\* not headless any more, is what lets the swap end the reload.
Young(w) == st[w] = "headless" \/ (st[w] = "boot" /\ kind[w] = "reload")

Calm(w) ==
  /\ st[w] = "released" => w \notin writing
  /\ Young(w) => baton.phase # "idle" /\ w = baton.new
  /\ "primary" \in up[w] => st[w] \notin {"boot", "headless"}

CalmInv == TypeInv /\ \A w \in Worker : Calm(w)

LEMMA WorkerStaysCalm ==
  ASSUME TypeInv, NEW w \in Worker, Calm(w), WorkerNext(w)
  PROVE  Calm(w)'
<1> USE DEF TypeInv, TypeOK, Calm, Young, WorkerOnly, supVars, wires, Receive, Send, Goes, Alive,
            Lease, LeaseStates, Draining
<1>1. CASE StartListening(w) BY <1>1 DEF StartListening
<1>2. CASE ListenFails(w) BY <1>2 DEF ListenFails, Die
<1>3. CASE AnswerProbe(w) BY <1>3 DEF AnswerProbe
<1>4. CASE BecomePrimary(w) BY <1>4 DEF BecomePrimary
<1>5. CASE StartWrite(w) BY <1>5 DEF StartWrite
<1>6. CASE FinishWrite(w) BY <1>6 DEF FinishWrite
<1>7. CASE RequestReload(w) BY <1>7 DEF RequestReload
<1>8. CASE RolledBack(w) BY <1>8 DEF RolledBack
<1>9. CASE Watchdog(w) BY <1>9 DEF Watchdog
<1>10. CASE Release(w) BY <1>10 DEF Release
<1>11. CASE Released(w) BY <1>11 DEF Released
<1>12. CASE Quit(w) BY ZenonT(60), <1>12 DEF Quit, Die
<1>13. CASE Exit(w) BY <1>13 DEF Exit, Die
<1>14. CASE Crash(w) BY <1>14 DEF Crash, Die
<1> QED
  BY <1>1, <1>2, <1>3, <1>4, <1>5, <1>6, <1>7, <1>8, <1>9, <1>10, <1>11, <1>12, <1>13, <1>14
  DEF WorkerNext

\* The supervisor sends the new worker away with its reload, or makes it the
\* worker of the turn when it is not headless any more.
LEMMA SupervisorStaysCalm ==
  ASSUME CalmInv, SupervisorNext
  PROVE  \A v \in Worker : Calm(v)'
<1> USE DEF CalmInv, TypeInv, TypeOK, Calm, Young
<1>1. ASSUME NEW why, NEW truth, NEW gone, RollBack(why, truth, gone)
      PROVE  \A v \in Worker : Calm(v)'
  <2> SUFFICES ASSUME NEW v \in Worker PROVE Calm(v)'
    OBVIOUS
  <2>1. /\ st'[v] = st[v] \/ st'[v] \in {"none", "dead"}
        /\ v = baton.new => st'[v] \in {"none", "dead"}
        /\ kind' = kind /\ writing' \subseteq writing /\ up'[v] \subseteq up[v]
    BY <1>1 DEF RollBack, Die, Silence, Alive, States, Draining
  <2> QED BY <2>1
<1>2. ASSUME NEW l, NEW gone, FallBack(l, gone)
      PROVE  \A v \in Worker : Calm(v)'
  <2> SUFFICES ASSUME NEW v \in Worker PROVE Calm(v)'
    OBVIOUS
  <2>1. /\ st'[v] = st[v] \/ st'[v] \in {"none", "dead"}
        /\ v = baton.new => st'[v] \in {"none", "dead"}
        /\ kind' = kind /\ writing' \subseteq writing /\ up'[v] \subseteq up[v]
    BY <1>2 DEF FallBack, Die, Silence, Alive, States, Draining
  <2> QED BY <2>1
<1>3. CASE RelistenFails BY <1>3 DEF RelistenFails, procVars, wires
<1>4. CASE ReadyHeard
  <2>1. CASE FallBack(loop, {}) BY <1>2, <2>1
  <2>2. CASE ~FallBack(loop, {})
    <3>1. /\ baton' = [baton EXCEPT !.phase = "release"]
          /\ UNCHANGED <<st, kind, writing>> /\ \A v \in Worker : up'[v] \subseteq up[v]
      BY <1>4, <2>2 DEF ReadyHeard, procVars
    <3> QED BY <3>1
  <2> QED BY <2>1, <2>2
<1>5. CASE ReadyFailed BY <1>1, <1>5 DEF ReadyFailed
<1>6. CASE ReadyTimeout BY <1>1, <1>6 DEF ReadyTimeout
<1>7. CASE ReleasedHeard
  <2>1. /\ baton' = [baton EXCEPT !.phase = "rearm"]
        /\ UNCHANGED <<st, kind, writing>> /\ \A v \in Worker : up'[v] \subseteq up[v]
    BY <1>7 DEF ReleasedHeard, procVars
  <2> QED BY <2>1
<1>8. CASE HandoverTimeout BY <1>2, <1>8 DEF HandoverTimeout
<1>9. CASE Rearm
  <2>1. CASE FallBack(loop, {}) BY <1>2, <2>1
  <2>2. CASE ~FallBack(loop, {})
    <3>1. baton' = [baton EXCEPT !.phase = "takeover"] /\ UNCHANGED <<st, kind, up, writing>>
      BY <1>9, <2>2 DEF Rearm, procVars
    <3> QED BY <3>1
  <2> QED BY <2>1, <2>2
<1>10. CASE RearmFails BY <1>2, <1>10 DEF RearmFails
<1>11. CASE Swap
  <2>1. /\ "primary" \in up[baton.new]
        /\ UNCHANGED <<st, kind, writing>> /\ \A v \in Worker : up'[v] \subseteq up[v]
    BY <1>11 DEF Swap, procVars
  <2> QED BY <2>1
<1>12. ASSUME NEW w \in Worker, SpawnCold(w) PROVE \A v \in Worker : Calm(v)'
  BY <1>12 DEF SpawnCold, Spawn, Goes
<1>13. ASSUME NEW w \in Worker, PrimaryHeard(w) PROVE \A v \in Worker : Calm(v)'
  BY <1>13 DEF PrimaryHeard, procVars
<1>14. ASSUME NEW w \in Worker, BeginReload(w) PROVE \A v \in Worker : Calm(v)'
  <2>1. CASE baton.phase # "idle" BY <1>14, <2>1 DEF BeginReload, supVars, procVars
  <2>2. CASE baton.phase = "idle"
    <3>1. PICK n \in Worker :
            /\ st' = [st EXCEPT ![n] = "boot"]
            /\ kind' = [kind EXCEPT ![n] = "reload"]
            /\ up' = [up EXCEPT ![w] = @ \ {"reload"}, ![n] = {}]
            /\ baton' = [phase |-> "ready", old |-> active, new |-> n]
            /\ UNCHANGED writing
      BY <1>14, <2>2 DEF BeginReload, Goes
    <3> QED BY <2>2, <3>1
  <2> QED BY <2>1, <2>2
<1>15. ASSUME NEW w \in Worker, ExitSeen(w) PROVE \A v \in Worker : Calm(v)'
  <2>1. PICK l : \/ RollBack("timeout", "broken", {w})
                 \/ FallBack(l, {w})
                 \/ /\ down' = [down EXCEPT ![w] = {}] /\ up' = [up EXCEPT ![w] = {}]
                    /\ Die({}, "fail", {w})
                    /\ UNCHANGED <<active, baton, kind, verdict, troubles>>
    BY <1>15 DEF ExitSeen
  <2>2. CASE /\ up' = [up EXCEPT ![w] = {}] /\ Die({}, "fail", {w}) /\ UNCHANGED <<baton, kind>>
    <3> SUFFICES ASSUME NEW v \in Worker PROVE Calm(v)'
      OBVIOUS
    <3>1. /\ st'[v] = st[v] \/ st'[v] = "none"
          /\ writing' = writing /\ up'[v] \subseteq up[v]
      BY <2>2 DEF Die
    <3> QED BY <2>2, <3>1
  <2> QED BY <1>1, <1>2, <2>1, <2>2
<1>16. ASSUME NEW w \in Worker, ReapOldWorker(w) PROVE \A v \in Worker : Calm(v)'
  <2> SUFFICES ASSUME NEW v \in Worker PROVE Calm(v)'
    OBVIOUS
  <2>1. /\ st'[v] = st[v] \/ st'[v] = "dead"
        /\ writing' \subseteq writing /\ up'[v] \subseteq up[v] /\ UNCHANGED <<baton, kind>>
    BY <1>16 DEF ReapOldWorker, Die, Silence, supVars
  <2> QED BY <2>1
<1> QED
  BY <1>3, <1>4, <1>5, <1>6, <1>7, <1>8, <1>9, <1>10, <1>11, <1>12, <1>13, <1>14, <1>15, <1>16
  DEF SupervisorNext

LEMMA CalmInvHolds == Spec => []CalmInv
<1>1. Init => CalmInv
  BY InitTypes DEF Init, CalmInv, Calm, Young
<1>2. CalmInv /\ [Next]_vars => CalmInv'
  <2> SUFFICES ASSUME CalmInv, [Next]_vars PROVE CalmInv'
    OBVIOUS
  <2>1. TypeInv' BY NextTypes DEF CalmInv
  <2>2. CASE SupervisorNext BY <2>1, <2>2, SupervisorStaysCalm DEF CalmInv
  <2>3. ASSUME NEW w \in Worker, WorkerNext(w) PROVE CalmInv'
    <3>1. Calm(w)' BY <2>3, WorkerStaysCalm DEF CalmInv
    <3>2. /\ UNCHANGED <<baton, kind>>
          /\ \A v \in Worker \ {w} :
               st'[v] = st[v] /\ up'[v] = up[v] /\ (v \in writing' <=> v \in writing)
      BY <2>3, WorkerFrame DEF CalmInv, supVars
    <3>3. \A v \in Worker \ {w} : Calm(v)' BY <3>2 DEF CalmInv, Calm, Young
    <3> QED BY <2>1, <3>1, <3>3 DEF CalmInv
  <2>4. CASE UNCHANGED vars
    BY <2>1, <2>4 DEF CalmInv, Calm, Young, vars, supVars, procVars, wires
  <2> QED BY <2>2, <2>3, <2>4 DEF Next, Ended
<1> QED BY <1>1, <1>2, PTL DEF Spec

\* A process that answered RELEASED has nothing in flight and starts nothing
\* (index.js:1519-1522), also when the supervisor, the asker or a second signal
\* cut the handover short.
THEOREM TheReleasedStayQuiet == Spec => []ReleasedStaysQuiet
<1>1. CalmInv => ReleasedStaysQuiet
  BY DEF CalmInv, Calm, ReleasedStaysQuiet, Writers, Lease, LeaseStates
<1> QED BY <1>1, CalmInvHolds, PTL

\* No headless process outlives its reload: it is killed, or it is primary before
\* the reload is over (index.js orchestrateReload).
THEOREM HeadlessOnesAreKnown == Spec => []NoStrayHeadless
<1>1. CalmInv => NoStrayHeadless
  BY DEF CalmInv, Calm, Young, NoStrayHeadless
<1> QED BY <1>1, CalmInvHolds, PTL
================================================================================
