---------------------------- MODULE HandoverProofs ----------------------------
(***************************************************************************)
(* Why at most one process owns the baton when no exit is ill-timed        *)
(* (Mishaps = {}).  Only the supervisor gives it out, by sending the       *)
(* handle, and it does so only when nobody can own it: a cold worker is    *)
(* spawned when the loop is between turns, and the new worker gets the     *)
(* handle when the old one has been released.  So the invariant says where *)
(* an owner can be, and what the loop and the baton know about it.         *)
(***************************************************************************)
EXTENDS SupervisorProofs

\* A process that writes is alive, and a released one writes no more.
WritersAlive == \A w \in Worker : w \in writing => Alive(w) /\ st[w] # "released"

\* A handle is taken before anything else happens to a process.
HandlesEarly ==
  \A w \in Worker : Alive(w) =>
    /\ "listen" \in down[w] => st[w] = "boot" /\ kind[w] = "cold"
    /\ "takeover" \in down[w] => st[w] = "headless"

\* An owner is the worker of the current turn, or the new one of a takeover.
OwnerPlaced ==
  \A w \in Worker : Owns(w) =>
    loop = "turn" /\ (w = active \/ (baton.phase = "takeover" /\ w = baton.new))

\* A baton runs within a turn, between its worker and another one.
BatonPlaced ==
  baton.phase # "idle" =>
    /\ loop = "turn" /\ active = baton.old
    /\ baton.old \in Worker /\ baton.new \in Worker /\ baton.old # baton.new

\* The old worker serves until it is released, and has released when the new
\* one gets the handle.
OldWorker ==
  /\ baton.phase = "ready" => st[baton.old] = "primary"
  /\ baton.phase \in {"rearm", "takeover"} => st[baton.old] = "released"

\* The new worker has booted, and done no more, when its READY is handled.
NewWorker ==
  /\ baton.phase = "ready" /\ "ready" \in up[baton.new] => st[baton.new] \in {"headless", "dead"}
  /\ baton.phase \in {"release", "rearm"} => st[baton.new] \in {"headless", "dead", "none"}

\* What a message in flight says about its sender or receiver.
Requests ==
  \A w \in Worker : "reload" \in up[w] =>
    \/ baton.phase \in {"idle", "ready"} /\ w = active /\ st[w] = "primary"
    \/ baton.phase = "release" /\ w = baton.old
    \/ baton.phase = "takeover" /\ w = baton.new /\ st[w] = "primary"
Acks ==
  \A w \in Worker : "released" \in up[w] =>
    baton.phase = "release" /\ w = baton.old /\ st[w] = "released"
Releasing ==
  \A w \in Worker : st[w] = "releasing" => baton.phase = "release" /\ w = baton.old
Releases ==
  \A w \in Worker : Alive(w) /\ "release" \in down[w] =>
    baton.phase = "release" /\ w = baton.old /\ st[w] = "primary"

BatonInv ==
  /\ TypeInv /\ WritersAlive /\ HandlesEarly /\ OwnerPlaced /\ BatonPlaced
  /\ OldWorker /\ NewWorker /\ Requests /\ Acks /\ Releasing /\ Releases

(***************************************************************************)
(* The steps of a worker.  They never make an owner of a process that was  *)
(* none.                                                                   *)
(***************************************************************************)
\* What a worker step does to the worker itself, in the terms of BatonInv.
LocalInv(w) ==
  /\ w \in writing => Alive(w) /\ st[w] # "released"
  /\ Alive(w) /\ "listen" \in down[w] => st[w] = "boot" /\ kind[w] = "cold"
  /\ Alive(w) /\ "takeover" \in down[w] => st[w] = "headless"
  /\ baton.phase = "ready" /\ w = baton.new /\ "ready" \in up[w] => st[w] \in {"headless", "dead"}
  /\ baton.phase \in {"release", "rearm"} /\ w = baton.new => st[w] \in {"headless", "dead", "none"}
  /\ baton.phase = "ready" /\ w = baton.old => st[w] = "primary"
  /\ baton.phase \in {"rearm", "takeover"} /\ w = baton.old => st[w] = "released"
  /\ "reload" \in up[w] =>
       \/ baton.phase \in {"idle", "ready"} /\ w = active /\ st[w] = "primary"
       \/ baton.phase = "release" /\ w = baton.old
       \/ baton.phase = "takeover" /\ w = baton.new /\ st[w] = "primary"
  /\ "released" \in up[w] => baton.phase = "release" /\ w = baton.old /\ st[w] = "released"
  /\ st[w] = "releasing" => baton.phase = "release" /\ w = baton.old
  /\ Alive(w) /\ "release" \in down[w] =>
       baton.phase = "release" /\ w = baton.old /\ st[w] = "primary"

LEMMA WorkerLocal ==
  ASSUME Mishaps = {}, BatonInv, NEW w \in Worker, WorkerNext(w)
  PROVE  LocalInv(w)' /\ (Owns(w)' => Owns(w))
<1>1. /\ LocalInv(w)
      /\ st \in [Worker -> States] /\ down \in [Worker -> SUBSET {"listen", "probe",
            "release", "takeover", "timeout", "failed"}]
      /\ up \in [Worker -> SUBSET {"reload", "ready", "failed", "released", "primary"}]
      /\ Owns(w) => /\ loop = "turn"
                    /\ w = active \/ (baton.phase = "takeover" /\ w = baton.new)
      /\ baton.phase # "idle" => loop = "turn" /\ active = baton.old /\ baton.old # baton.new
  BY DEF BatonInv, TypeInv, TypeOK, LocalInv, WritersAlive, HandlesEarly, OwnerPlaced,
         BatonPlaced, OldWorker, NewWorker, Requests, Acks, Releasing, Releases
<1> USE <1>1 DEF LocalInv, Owns, HoldsPort, Accepting, Lease, LeaseStates, Alive,
                 WorkerOnly, supVars, wires, Receive, Send, Goes, Die
<1>2. CASE StartListening(w)
  <2>1. /\ st[w] \in {"boot", "headless"} /\ st'[w] = "listening"
        /\ Owns(w) /\ UNCHANGED writing
        /\ down'[w] \cap {"listen", "takeover"} = {} /\ down'[w] \subseteq down[w]
        /\ UNCHANGED <<loop, active, master, baton, up>>
    BY <1>2 DEF StartListening
  <2> QED BY <2>1
<1>3. CASE ListenFails(w) BY <1>3 DEF ListenFails
<1>4. CASE AnswerProbe(w) BY <1>4 DEF AnswerProbe
<1>5. CASE BecomePrimary(w) BY <1>5 DEF BecomePrimary
<1>6. CASE StartWrite(w) BY <1>6 DEF StartWrite
<1>7. CASE FinishWrite(w) BY <1>7 DEF FinishWrite
<1>8. CASE RequestReload(w)
  <2>1. /\ st[w] = "primary" /\ Owns(w)
        /\ UNCHANGED <<loop, active, master, baton, st, down, writing>>
        /\ up'[w] = up[w] \cup {"reload"}
    BY <1>8 DEF RequestReload
  <2>2. "released" \notin up'[w] BY <2>1
  <2>3. \/ baton.phase \in {"idle", "ready"} /\ w = active
        \/ baton.phase = "release" /\ w = baton.old
        \/ baton.phase = "takeover" /\ w = baton.new
    <3>1. baton.phase \in {"idle", "ready", "release", "rearm", "takeover"}
      BY DEF BatonInv, TypeInv, TypeOK
    <3> QED BY <2>1, <3>1
  <2> QED BY <2>1, <2>2, <2>3
<1>9. CASE RolledBack(w) BY <1>9 DEF RolledBack
<1>10. CASE Watchdog(w) BY <1>10 DEF Watchdog, Asking
<1>11. CASE Release(w) BY <1>11 DEF Release, Draining
<1>12. CASE Released(w) BY <1>12 DEF Released
<1>13. CASE Quit(w) BY <1>13 DEF Quit, Asking, MayDie, HandingOver, Draining
<1>14. CASE Exit(w) BY <1>14 DEF Exit, Asking, MayDie, HandingOver
<1>15. CASE Crash(w) BY <1>15 DEF Crash, Asking, MayDie, HandingOver
<1> QED
  BY <1>2, <1>3, <1>4, <1>5, <1>6, <1>7, <1>8, <1>9, <1>10, <1>11, <1>12, <1>13, <1>14, <1>15
  DEF WorkerNext

LEMMA WorkerKeepsBatonInv ==
  ASSUME Mishaps = {}, BatonInv, NEW w \in Worker, WorkerNext(w)
  PROVE  BatonInv'
<1>1. TypeInv'
  BY WorkerTypes DEF BatonInv
<1>2. /\ UNCHANGED <<loop, active, master, baton, kind>>
      /\ \A v \in Worker \ {w} :
           /\ st'[v] = st[v] /\ down'[v] = down[v] /\ up'[v] = up[v]
           /\ v \in writing' <=> v \in writing
  BY WorkerFrame DEF BatonInv, supVars
<1>3. LocalInv(w)' /\ (Owns(w)' => Owns(w))
  BY WorkerLocal
<1>4. \A v \in Worker \ {w} : LocalInv(v)' /\ (Owns(v)' => Owns(v))
  <2> SUFFICES ASSUME NEW v \in Worker \ {w} PROVE LocalInv(v)' /\ (Owns(v)' => Owns(v))
    OBVIOUS
  <2>1. LocalInv(v)
    BY DEF BatonInv, LocalInv, WritersAlive, HandlesEarly, OldWorker, NewWorker, Requests,
           Acks, Releasing, Releases
  <2> QED BY <1>2, <2>1 DEF LocalInv, Owns, HoldsPort, Accepting, Lease, Alive
<1>5. \A v \in Worker : LocalInv(v)'
  BY <1>3, <1>4
<1>6. BatonPlaced'
  BY <1>2 DEF BatonInv, BatonPlaced
<1>7. OwnerPlaced'
  BY <1>2, <1>3, <1>4 DEF BatonInv, OwnerPlaced
<1>8. WritersAlive' /\ HandlesEarly' /\ Requests' /\ Acks' /\ Releasing' /\ Releases'
  BY <1>5 DEF LocalInv, WritersAlive, HandlesEarly, Requests, Acks, Releasing, Releases, Alive
<1>9. OldWorker' /\ NewWorker'
  BY <1>5, <1>6 DEF LocalInv, OldWorker, NewWorker, BatonPlaced
<1> QED BY <1>1, <1>6, <1>7, <1>8, <1>9 DEF BatonInv

(***************************************************************************)
(* The steps of the supervisor, the ends of a baton first.                 *)
(***************************************************************************)
UntypedInv ==
  /\ WritersAlive /\ HandlesEarly /\ OwnerPlaced /\ BatonPlaced /\ OldWorker
  /\ NewWorker /\ Requests /\ Acks /\ Releasing /\ Releases

\* A step makes an owner only if there was none, and starts no write.
NoPass ==
  /\ \A w \in Worker : Owns(w)' => Owns(w) \/ \A v \in Worker : ~Owns(v)
  /\ writing' \subseteq writing

\* A roll-back kills only the new worker, which owns nothing; the old one goes
\* on as the worker of the turn.
LEMMA RollBackKeeps ==
  ASSUME BatonInv, baton.phase = "ready", NEW why \in {"timeout", "failed"}, NEW truth,
         NEW gone \in SUBSET {baton.new}, RollBack(why, truth, gone), loop' = loop
  PROVE  UntypedInv' /\ NoPass
<1> DEFINE old == baton.old
           new == baton.new
<1>1. /\ old \in Worker /\ new \in Worker /\ old # new /\ loop = "turn" /\ active = old
      /\ st[old] = "primary" /\ ~Owns(new)
  BY DEF BatonInv, BatonPlaced, OldWorker, OwnerPlaced
<1>2. /\ baton'.phase = "idle" /\ active' = active /\ kind' = kind
      /\ \A v \in Worker \ {new} :
           /\ st'[v] = st[v] /\ up'[v] = up[v] /\ (v \in writing' <=> v \in writing)
           /\ down'[v] \subseteq down[v] \cup {why}
  BY <1>1 DEF RollBack, Die, NoBaton, Silence, Alive, BatonInv, TypeInv, TypeOK
<1>3. st'[new] \in {"none", "dead"} /\ up'[new] = {} /\ new \notin writing'
  BY <1>1 DEF RollBack, Die, Silence, Alive, BatonInv, TypeInv, TypeOK
<1>4. \A v \in Worker : Owns(v)' => Owns(v) /\ v # new
  BY <1>2, <1>3 DEF Owns, HoldsPort, Accepting, Lease, LeaseStates, Alive
<1>5. OwnerPlaced' /\ BatonPlaced' /\ OldWorker' /\ NewWorker'
  BY <1>1, <1>2, <1>4 DEF BatonInv, OwnerPlaced, BatonPlaced, OldWorker, NewWorker
<1>6. WritersAlive' /\ HandlesEarly'
  BY <1>2, <1>3 DEF BatonInv, WritersAlive, HandlesEarly, Alive
<1>7. Requests' /\ Acks' /\ Releasing' /\ Releases'
  BY <1>1, <1>2, <1>3 DEF BatonInv, Requests, Acks, Releasing, Releases, Alive
<1>8. writing' \subseteq writing
  BY DEF RollBack, Die
<1>9. NoPass
  BY <1>4, <1>8 DEF NoPass
<1> QED BY <1>5, <1>6, <1>7, <1>9 DEF UntypedInv

\* A fall-back kills everybody who could own anything.
LEMMA FallBackKeeps ==
  ASSUME BatonInv, baton.phase # "idle", NEW l,
         NEW gone \in SUBSET {baton.old, baton.new}, FallBack(l, gone)
  PROVE  UntypedInv' /\ NoPass
<1> DEFINE old == baton.old
           new == baton.new
<1>1. old \in Worker /\ new \in Worker /\ old # new /\ active = old
  BY DEF BatonInv, BatonPlaced
<1>2. /\ baton'.phase = "idle" /\ kind' = kind
      /\ \A v \in Worker \ {old, new} :
           /\ st'[v] = st[v] /\ up'[v] = up[v] /\ (v \in writing' <=> v \in writing)
           /\ down'[v] = down[v]
  BY <1>1 DEF FallBack, Die, NoBaton, Silence, Alive, BatonInv, TypeInv, TypeOK
<1>3. \A v \in {old, new} : st'[v] \in {"none", "dead"} /\ up'[v] = {} /\ v \notin writing'
  BY <1>1 DEF FallBack, Die, Silence, Alive, BatonInv, TypeInv, TypeOK
<1>4. \A v \in Worker : ~Owns(v)'
  <2>1. \A v \in Worker \ {old, new} : ~Owns(v)
    BY <1>1 DEF BatonInv, OwnerPlaced
  <2> QED BY <1>2, <1>3, <2>1 DEF Owns, HoldsPort, Accepting, Lease, LeaseStates, Alive
<1>5. OwnerPlaced' /\ BatonPlaced' /\ OldWorker' /\ NewWorker'
  BY <1>2, <1>4 DEF OwnerPlaced, BatonPlaced, OldWorker, NewWorker
<1>6. WritersAlive' /\ HandlesEarly'
  BY <1>2, <1>3 DEF BatonInv, WritersAlive, HandlesEarly, Alive
<1>7. Requests' /\ Acks' /\ Releasing' /\ Releases'
  BY <1>1, <1>2, <1>3 DEF BatonInv, Requests, Acks, Releasing, Releases, Alive
<1>8. writing' \subseteq writing
  BY DEF FallBack, Die
<1>9. NoPass
  BY <1>4, <1>8 DEF NoPass
<1> QED BY <1>5, <1>6, <1>7, <1>9 DEF UntypedInv

\* Nothing is owned and no baton runs between two turns.
LEMMA NoOwnerBetweenTurns ==
  ASSUME BatonInv, loop # "turn"
  PROVE  baton.phase = "idle" /\ \A w \in Worker : ~Owns(w)
BY DEF BatonInv, OwnerPlaced, BatonPlaced

LEMMA SpawnColdKeeps ==
  ASSUME BatonInv, NEW w \in Worker, SpawnCold(w)
  PROVE  UntypedInv' /\ NoPass
<1>1. /\ baton.phase = "idle" /\ baton' = baton /\ \A v \in Worker : ~Owns(v)
      /\ loop' = "turn" /\ active' = w
  BY NoOwnerBetweenTurns DEF SpawnCold
<1>2. /\ st[w] = "none" /\ w \notin writing /\ writing' = writing
      /\ st'[w] = "boot" /\ kind'[w] = "cold" /\ down'[w] = {"listen"} /\ up'[w] = {}
      /\ \A v \in Worker \ {w} :
           st'[v] = st[v] /\ kind'[v] = kind[v] /\ down'[v] = down[v] /\ up'[v] = up[v]
  BY DEF SpawnCold, Spawn, Free, Goes, BatonInv, TypeInv, TypeOK, WritersAlive, Alive
<1>3. \A v \in Worker \ {w} : ~Owns(v)'
  BY <1>1, <1>2 DEF Owns, HoldsPort, Accepting, Lease, Alive
<1>4. OwnerPlaced' /\ BatonPlaced' /\ OldWorker' /\ NewWorker'
  BY <1>1, <1>3 DEF OwnerPlaced, BatonPlaced, OldWorker, NewWorker
<1>5. WritersAlive' /\ HandlesEarly'
  BY <1>2 DEF BatonInv, WritersAlive, HandlesEarly, Alive
<1>6. \A v \in Worker : "reload" \notin up[v]
  <2>1. \A v \in Worker : "reload" \in up[v] => Owns(v)
    BY <1>1 DEF BatonInv, Requests, Owns, Lease, LeaseStates
  <2> QED BY <1>1, <2>1
<1>7. Requests' /\ Acks' /\ Releasing' /\ Releases'
  BY <1>1, <1>2, <1>6 DEF BatonInv, Requests, Acks, Releasing, Releases, Alive
<1>8. NoPass
  BY <1>1, <1>2 DEF NoPass
<1> QED BY <1>4, <1>5, <1>7, <1>8 DEF UntypedInv

\* The request comes from the worker of the turn; the process it starts was free.
LEMMA BeginReloadKeeps ==
  ASSUME BatonInv, NEW w \in Worker, BeginReload(w)
  PROVE  UntypedInv' /\ NoPass
<1>1. CASE baton.phase # "idle"
  <2>1. /\ UNCHANGED <<loop, active, baton, st, kind, down, writing>>
        /\ \A v \in Worker : up'[v] \subseteq up[v]
    BY <1>1 DEF BeginReload, supVars, procVars, BatonInv, TypeInv, TypeOK
  <2>2. WritersAlive' /\ HandlesEarly' /\ OwnerPlaced' /\ BatonPlaced' /\ OldWorker'
    BY <2>1 DEF BatonInv, WritersAlive, HandlesEarly, OwnerPlaced, BatonPlaced, OldWorker,
                Owns, HoldsPort, Accepting, Lease, Alive
  <2>3. NewWorker'
    BY <1>1, <2>1 DEF BatonInv, NewWorker, BatonPlaced
  <2>4. Requests' /\ Acks' /\ Releasing' /\ Releases'
    BY <2>1 DEF BatonInv, Requests, Acks, Releasing, Releases, Alive
  <2>5. NoPass
    BY <2>1 DEF NoPass, Owns, HoldsPort, Accepting, Lease, Alive
  <2> QED BY <2>2, <2>3, <2>4, <2>5 DEF UntypedInv
<1>2. CASE baton.phase = "idle"
  <2>1. w = active /\ st[w] = "primary" /\ Owns(w) /\ loop = "turn"
    BY <1>2 DEF BeginReload, BatonInv, Requests, OwnerPlaced, Owns, Lease, LeaseStates
  <2>2. PICK n \in Worker :
          /\ Free(n)
          /\ Goes(n, "boot")
          /\ kind' = [kind EXCEPT ![n] = "reload"]
          /\ down' = [down EXCEPT ![n] = {"probe"}]
          /\ up' = [up EXCEPT ![w] = @ \ {"reload"}, ![n] = {}]
          /\ baton' = [phase |-> "ready", old |-> active, new |-> n]
          /\ UNCHANGED <<loop, active, writing>>
    BY <1>2 DEF BeginReload
  <2>3. /\ st[n] = "none" /\ n # w /\ n \notin writing
        /\ st'[n] = "boot" /\ down'[n] = {"probe"} /\ up'[n] = {}
        /\ \A v \in Worker \ {n} :
             /\ st'[v] = st[v] /\ kind'[v] = kind[v] /\ down'[v] = down[v]
             /\ up'[v] \subseteq up[v]
    BY <2>1, <2>2 DEF Free, Goes, BatonInv, TypeInv, TypeOK, WritersAlive, Alive
  <2>4. \A v \in Worker : Owns(v)' => Owns(v) /\ v # n
    BY <2>2, <2>3 DEF Owns, HoldsPort, Accepting, Lease, LeaseStates, Alive
  <2>5. /\ baton'.phase = "ready" /\ baton'.old = w /\ baton'.new = n
    BY <2>1, <2>2
  <2>6. OwnerPlaced' /\ BatonPlaced' /\ OldWorker' /\ NewWorker'
    BY ZenonT(60), <1>2, <2>1, <2>2, <2>3, <2>4, <2>5
    DEF BatonInv, OwnerPlaced, BatonPlaced, OldWorker, NewWorker
  <2>7. WritersAlive' /\ HandlesEarly'
    BY <2>2, <2>3 DEF BatonInv, WritersAlive, HandlesEarly, Alive
  <2>8. Requests' /\ Acks'
    BY <1>2, <2>1, <2>2, <2>3, <2>5 DEF BatonInv, Requests, Acks
  <2>9. Releasing' /\ Releases'
    BY <1>2, <2>3 DEF BatonInv, Releasing, Releases, Alive
  <2>10. NoPass
    BY <2>2, <2>4 DEF NoPass
  <2> QED BY <2>6, <2>7, <2>8, <2>9, <2>10 DEF UntypedInv
<1> QED BY <1>1, <1>2

\* The old worker is the primary, so the release goes to it.
LEMMA ReadyHeardKeeps ==
  ASSUME BatonInv, ReadyHeard
  PROVE  UntypedInv' /\ NoPass
<1> DEFINE old == baton.old
           new == baton.new
<1>1. /\ old \in Worker /\ new \in Worker /\ old # new /\ loop = "turn" /\ active = old
      /\ st[old] = "primary" /\ baton.phase = "ready" /\ "ready" \in up[new]
      /\ st[new] \in {"headless", "dead"}
  BY DEF ReadyHeard, BatonInv, BatonPlaced, OldWorker, NewWorker
<1>2. /\ baton' = [baton EXCEPT !.phase = "release"]
      /\ down' = [down EXCEPT ![old] = @ \cup {"release"}]
      /\ up' = [up EXCEPT ![new] = @ \ {"ready"}]
      /\ UNCHANGED <<loop, active, st, kind, writing>>
  BY <1>1 DEF ReadyHeard, procVars
<1>3. /\ baton'.phase = "release" /\ baton'.old = old /\ baton'.new = new
      /\ \A v \in Worker : up'[v] \subseteq up[v]
      /\ \A v \in Worker : down'[v] \subseteq down[v] \cup {"release"}
      /\ \A v \in Worker \ {old} : down'[v] = down[v]
  BY <1>1, <1>2 DEF BatonInv, TypeInv, TypeOK
<1>4. \A v \in Worker : Owns(v)' => Owns(v)
  BY <1>2, <1>3 DEF Owns, HoldsPort, Accepting, Lease, Alive
<1>5. OwnerPlaced' /\ BatonPlaced' /\ OldWorker' /\ NewWorker'
  BY <1>1, <1>2, <1>3, <1>4 DEF BatonInv, OwnerPlaced, BatonPlaced, OldWorker, NewWorker
<1>6. WritersAlive' /\ HandlesEarly'
  BY <1>2, <1>3 DEF BatonInv, WritersAlive, HandlesEarly, Alive
<1>7. Requests' /\ Acks' /\ Releasing' /\ Releases'
  BY <1>1, <1>2, <1>3 DEF BatonInv, Requests, Acks, Releasing, Releases, Alive
<1>8. NoPass
  BY <1>2, <1>4 DEF NoPass
<1> QED BY <1>5, <1>6, <1>7, <1>8 DEF UntypedInv

LEMMA ReleasedHeardKeeps ==
  ASSUME BatonInv, ReleasedHeard
  PROVE  UntypedInv' /\ NoPass
<1> DEFINE old == baton.old
           new == baton.new
<1>1. /\ old \in Worker /\ new \in Worker /\ old # new /\ loop = "turn" /\ active = old
      /\ st[old] = "released" /\ baton.phase = "release" /\ "reload" \notin up[old]
  BY DEF ReleasedHeard, BatonInv, BatonPlaced, Acks
<1>2. /\ baton' = [baton EXCEPT !.phase = "rearm"]
      /\ up' = [up EXCEPT ![old] = @ \ {"released"}]
      /\ UNCHANGED <<loop, active, st, kind, down, writing>>
  BY DEF ReleasedHeard, procVars
<1>3. /\ baton'.phase = "rearm" /\ baton'.old = old /\ baton'.new = new
      /\ up'[old] = up[old] \ {"released"}
      /\ \A v \in Worker \ {old} : up'[v] = up[v]
  BY <1>1, <1>2 DEF BatonInv, TypeInv, TypeOK
<1>4. OwnerPlaced' /\ BatonPlaced' /\ OldWorker' /\ NewWorker'
  BY <1>1, <1>2, <1>3 DEF BatonInv, OwnerPlaced, BatonPlaced, OldWorker, NewWorker, Owns,
    HoldsPort, Accepting, Lease, Alive
<1>5. WritersAlive' /\ HandlesEarly'
  BY <1>2 DEF BatonInv, WritersAlive, HandlesEarly, Alive
<1>6. Requests' /\ Acks' /\ Releasing' /\ Releases'
  BY <1>1, <1>2, <1>3 DEF BatonInv, Requests, Acks, Releasing, Releases, Alive
<1>7. NoPass
  BY <1>2 DEF NoPass, Owns, HoldsPort, Accepting, Lease, Alive
<1> QED BY <1>4, <1>5, <1>6, <1>7 DEF UntypedInv

\* A released process has nothing left: no handle, no lease, no write.
LEMMA ReleasedOwnsNothing ==
  ASSUME BatonInv, NEW w \in Worker, st[w] \in {"released", "dead", "none"}
  PROVE  ~Owns(w)
BY DEF BatonInv, WritersAlive, HandlesEarly, Owns, HoldsPort, Accepting, Lease, LeaseStates, Alive

\* The handle goes out while nobody owns anything.
LEMMA RearmKeeps ==
  ASSUME BatonInv, Rearm
  PROVE  UntypedInv' /\ NoPass
<1> DEFINE old == baton.old
           new == baton.new
<1>1. /\ old \in Worker /\ new \in Worker /\ old # new /\ loop = "turn" /\ active = old
      /\ st[old] = "released" /\ baton.phase = "rearm"
      /\ st[new] \in {"headless", "dead", "none"} /\ \A v \in Worker : ~Owns(v)
  BY ReleasedOwnsNothing DEF Rearm, BatonInv, BatonPlaced, OldWorker, NewWorker, OwnerPlaced
<1>2. CASE st[new] # "none"
  <2>1. /\ baton' = [baton EXCEPT !.phase = "takeover"]
        /\ down' = [down EXCEPT ![new] = @ \cup {"takeover"}]
        /\ UNCHANGED <<loop, active, st, kind, up, writing>>
    BY <1>2 DEF Rearm, procVars
  <2>2. /\ baton'.phase = "takeover" /\ baton'.old = old /\ baton'.new = new
        /\ down'[new] = down[new] \cup {"takeover"}
        /\ \A v \in Worker \ {new} : down'[v] = down[v]
    BY <1>1, <2>1 DEF BatonInv, TypeInv, TypeOK
  <2>3. \A v \in Worker \ {new} : ~Owns(v)'
    BY <1>1, <2>1, <2>2 DEF Owns, HoldsPort, Accepting, Lease, Alive
  <2>4. OwnerPlaced' /\ BatonPlaced' /\ OldWorker' /\ NewWorker'
    BY <1>1, <2>1, <2>2, <2>3 DEF BatonInv, OwnerPlaced, BatonPlaced, OldWorker, NewWorker
  <2>5. WritersAlive' /\ HandlesEarly'
    BY <1>1, <2>1, <2>2 DEF BatonInv, WritersAlive, HandlesEarly, Alive
  <2>6. Requests' /\ Acks'
    BY <1>1, <2>1, <2>2 DEF BatonInv, Requests, Acks
  <2>7. Releasing' /\ Releases'
    BY <1>1, <2>1, <2>2 DEF BatonInv, Releasing, Releases, Alive
  <2>8. NoPass
    BY <1>1, <2>1 DEF NoPass
  <2> QED BY <2>4, <2>5, <2>6, <2>7, <2>8 DEF UntypedInv
<1>3. CASE st[new] = "none"
  <2>1. baton.phase # "idle" /\ FallBack(loop, {})
    BY <1>1, <1>3 DEF Rearm
  <2> QED BY <2>1, FallBackKeeps
<1> QED BY <1>2, <1>3

\* The old worker owns nothing, so the turn can pass to the new one.
LEMMA SwapKeeps ==
  ASSUME BatonInv, Swap
  PROVE  UntypedInv' /\ NoPass
<1> DEFINE old == baton.old
           new == baton.new
<1>1. /\ old \in Worker /\ new \in Worker /\ old # new /\ loop = "turn" /\ active = old
      /\ st[old] = "released" /\ baton.phase = "takeover" /\ ~Owns(old)
  BY ReleasedOwnsNothing DEF Swap, BatonInv, BatonPlaced, OldWorker
<1>2. /\ baton'.phase = "idle" /\ active' = new
      /\ UNCHANGED <<loop, st, kind, down, writing>>
      /\ \A v \in Worker : up'[v] \subseteq up[v]
  BY DEF Swap, NoBaton, procVars, BatonInv, TypeInv, TypeOK
<1>3. OwnerPlaced' /\ BatonPlaced' /\ OldWorker' /\ NewWorker'
  BY <1>1, <1>2 DEF BatonInv, OwnerPlaced, BatonPlaced, OldWorker, NewWorker, Owns, HoldsPort,
    Accepting, Lease, Alive
<1>4. WritersAlive' /\ HandlesEarly'
  BY <1>2 DEF BatonInv, WritersAlive, HandlesEarly, Alive
<1>5. Requests' /\ Acks'
  BY <1>1, <1>2 DEF BatonInv, Requests, Acks
<1>6. Releasing' /\ Releases'
  BY <1>1, <1>2 DEF BatonInv, Releasing, Releases, Alive
<1>7. NoPass
  BY <1>2 DEF NoPass, Owns, HoldsPort, Accepting, Lease, Alive
<1> QED BY <1>3, <1>4, <1>5, <1>6, <1>7 DEF UntypedInv

LEMMA PrimaryHeardKeeps ==
  ASSUME BatonInv, NEW w \in Worker, PrimaryHeard(w)
  PROVE  UntypedInv' /\ NoPass
<1>1. /\ UNCHANGED <<loop, active, baton, st, kind, down, writing>>
      /\ \A v \in Worker : up'[v] \subseteq up[v]
  BY DEF PrimaryHeard, procVars, BatonInv, TypeInv, TypeOK
<1>2. OwnerPlaced' /\ WritersAlive' /\ HandlesEarly'
  BY <1>1 DEF BatonInv, OwnerPlaced, WritersAlive, HandlesEarly, Owns, HoldsPort, Accepting,
    Lease, Alive
<1>3. BatonPlaced' /\ OldWorker' /\ NewWorker'
  BY <1>1 DEF BatonInv, BatonPlaced, OldWorker, NewWorker
<1>4. Requests' /\ Acks' /\ Releasing' /\ Releases'
  BY <1>1 DEF BatonInv, Requests, Acks, Releasing, Releases, Alive
<1>5. NoPass
  BY <1>1 DEF NoPass, Owns, HoldsPort, Accepting, Lease, Alive
<1> QED BY <1>2, <1>3, <1>4, <1>5 DEF UntypedInv

\* The end of a worker's turn leaves no owner behind.
LEMMA ExitSeenKeeps ==
  ASSUME BatonInv, NEW w \in Worker, ExitSeen(w)
  PROVE  UntypedInv' /\ NoPass
<1>1. PICK l \in AfterTurn(w) :
        \/ /\ baton.phase = "ready" /\ baton.new = w
           /\ RollBack("timeout", "broken", {w}) /\ loop' = l
        \/ /\ \/ baton.phase = "release" /\ baton.old = w
              \/ baton.phase = "takeover" /\ baton.new = w
           /\ FallBack(l, {w})
        \/ /\ ~(baton.phase \in {"ready", "takeover"} /\ baton.new = w)
           /\ ~(baton.phase = "release" /\ baton.old = w)
           /\ loop' = l
           /\ down' = [down EXCEPT ![w] = {}] /\ up' = [up EXCEPT ![w] = {}]
           /\ Die({}, "fail", {w})
           /\ UNCHANGED <<active, baton, kind>>
  BY DEF ExitSeen
<1>2. /\ st[w] = "dead" /\ ~Owns(w)
      /\ baton.phase # "idle" => /\ active = baton.old /\ baton.old # baton.new
                                 /\ baton.phase # "release" => w # baton.old
  BY ReleasedOwnsNothing DEF ExitSeen, BatonInv, BatonPlaced, OldWorker, TypeInv, TypeOK
<1>3. active # w \/ loop # "turn" => l = loop
  BY <1>1 DEF AfterTurn
<1>4. CASE /\ baton.phase = "ready" /\ baton.new = w
           /\ RollBack("timeout", "broken", {w}) /\ loop' = l
  <2>1. loop' = loop /\ {w} \in SUBSET {baton.new}
    BY <1>2, <1>3, <1>4
  <2> QED BY <1>4, <2>1, RollBackKeeps
<1>5. CASE /\ \/ baton.phase = "release" /\ baton.old = w
              \/ baton.phase = "takeover" /\ baton.new = w
           /\ FallBack(l, {w})
  <2>1. baton.phase # "idle" /\ {w} \in SUBSET {baton.old, baton.new}
    BY <1>5
  <2> QED BY <1>5, <2>1, FallBackKeeps
<1>6. CASE /\ ~(baton.phase \in {"ready", "takeover"} /\ baton.new = w)
           /\ ~(baton.phase = "release" /\ baton.old = w)
           /\ loop' = l
           /\ down' = [down EXCEPT ![w] = {}] /\ up' = [up EXCEPT ![w] = {}]
           /\ Die({}, "fail", {w})
           /\ UNCHANGED <<active, baton, kind>>
  <2>1. /\ st'[w] = "none" /\ up'[w] = {} /\ down'[w] = {} /\ writing' = writing
        /\ \A v \in Worker \ {w} : st'[v] = st[v] /\ up'[v] = up[v] /\ down'[v] = down[v]
    BY <1>6 DEF Die, BatonInv, TypeInv, TypeOK
  <2>2. \A v \in Worker : Owns(v)' => Owns(v) /\ v # w
    BY <1>2, <2>1 DEF Owns, HoldsPort, Accepting, Lease, LeaseStates, Alive
  <2>3. \/ loop' = loop
        \/ baton.phase = "idle" /\ \A v \in Worker : ~Owns(v)'
    <3>1. CASE active # w \/ loop # "turn" BY <1>3, <1>6, <3>1
    <3>2. CASE active = w
      <4>1. baton.phase = "idle"
        BY <1>2, <1>6, <3>2
      <4> QED BY <2>2, <3>2, <4>1 DEF BatonInv, OwnerPlaced
    <3> QED BY <3>1, <3>2
  <2>4. OwnerPlaced' /\ BatonPlaced'
    BY <1>6, <2>2, <2>3 DEF BatonInv, OwnerPlaced, BatonPlaced
  <2>5. OldWorker' /\ NewWorker'
    BY <1>2, <1>6, <2>1 DEF BatonInv, BatonPlaced, OldWorker, NewWorker
  <2>6. WritersAlive' /\ HandlesEarly'
    BY <1>2, <1>6, <2>1 DEF BatonInv, WritersAlive, HandlesEarly, Alive
  <2>7. Requests' /\ Acks'
    BY <1>6, <2>1 DEF BatonInv, Requests, Acks
  <2>8. Releasing' /\ Releases'
    BY <1>6, <2>1 DEF BatonInv, Releasing, Releases, Alive
  <2>9. NoPass
    BY <2>1, <2>2 DEF NoPass
  <2> QED BY <2>4, <2>5, <2>6, <2>7, <2>8, <2>9 DEF UntypedInv
<1> QED BY <1>1, <1>4, <1>5, <1>6

\* The reaper kills a process that owns nothing.
LEMMA ReapOldWorkerKeeps ==
  ASSUME BatonInv, NEW w \in Worker, ReapOldWorker(w)
  PROVE  UntypedInv' /\ NoPass
<1>1. /\ st[w] \in {"released", "quitting", "restarting"}
      /\ baton.phase # "idle" => w # baton.old /\ w # baton.new
      /\ UNCHANGED <<loop, active, baton, kind, down>>
      /\ st'[w] = "dead" /\ up'[w] = {} /\ writing' = writing \ {w}
      /\ \A v \in Worker \ {w} : st'[v] = st[v] /\ up'[v] = up[v]
  BY DEF ReapOldWorker, Die, Silence, Alive, supVars, BatonInv, TypeInv, TypeOK
<1>2. \A v \in Worker : Owns(v)' => Owns(v)
  BY <1>1 DEF Owns, HoldsPort, Accepting, Lease, LeaseStates, Alive
<1>3. OwnerPlaced' /\ BatonPlaced'
  BY <1>1, <1>2 DEF BatonInv, OwnerPlaced, BatonPlaced
<1>4. OldWorker' /\ NewWorker'
  BY <1>1 DEF BatonInv, BatonPlaced, OldWorker, NewWorker
<1>5. WritersAlive' /\ HandlesEarly'
  BY <1>1 DEF BatonInv, WritersAlive, HandlesEarly, Alive
<1>6. Requests' /\ Acks'
  BY <1>1 DEF BatonInv, Requests, Acks
<1>7. Releasing' /\ Releases'
  BY <1>1 DEF BatonInv, Releasing, Releases, Alive
<1>8. NoPass
  BY <1>1, <1>2 DEF NoPass
<1> QED BY <1>3, <1>4, <1>5, <1>6, <1>7, <1>8 DEF UntypedInv

LEMMA SupervisorKeepsBatonInv ==
  ASSUME BatonInv, SupervisorNext
  PROVE  UntypedInv' /\ NoPass
<1>1. CASE RelistenFails
  <2>1. /\ baton.phase = "idle" /\ \A v \in Worker : ~Owns(v)
        /\ UNCHANGED <<active, baton, st, kind, down, up, writing>>
    BY <1>1, NoOwnerBetweenTurns DEF RelistenFails, procVars, wires
  <2> QED
    BY <2>1 DEF BatonInv, UntypedInv, NoPass, WritersAlive, HandlesEarly, OwnerPlaced, BatonPlaced,
      OldWorker, NewWorker, Requests, Acks, Releasing, Releases, Owns, HoldsPort, Accepting,
      Lease, Alive
<1>2. CASE ReadyHeard BY <1>2, ReadyHeardKeeps
<1>3. CASE ReadyFailed BY <1>3, RollBackKeeps DEF ReadyFailed
<1>4. CASE ReadyTimeout BY <1>4, RollBackKeeps DEF ReadyTimeout
<1>5. CASE ReleasedHeard BY <1>5, ReleasedHeardKeeps
<1>6. CASE HandoverTimeout BY <1>6, FallBackKeeps DEF HandoverTimeout
<1>7. CASE Rearm BY <1>7, RearmKeeps
<1>8. CASE RearmFails BY <1>8, FallBackKeeps DEF RearmFails
<1>9. CASE Swap BY <1>9, SwapKeeps
<1>10. ASSUME NEW w \in Worker, SpawnCold(w) PROVE UntypedInv' /\ NoPass BY <1>10, SpawnColdKeeps
<1>11. ASSUME NEW w \in Worker, PrimaryHeard(w) PROVE UntypedInv' /\ NoPass BY <1>11, PrimaryHeardKeeps
<1>12. ASSUME NEW w \in Worker, BeginReload(w) PROVE UntypedInv' /\ NoPass BY <1>12, BeginReloadKeeps
<1>13. ASSUME NEW w \in Worker, ExitSeen(w) PROVE UntypedInv' /\ NoPass BY <1>13, ExitSeenKeeps
<1>14. ASSUME NEW w \in Worker, ReapOldWorker(w) PROVE UntypedInv' /\ NoPass BY <1>14, ReapOldWorkerKeeps
<1> QED
  BY <1>1, <1>2, <1>3, <1>4, <1>5, <1>6, <1>7, <1>8, <1>9, <1>10, <1>11, <1>12, <1>13, <1>14
  DEF SupervisorNext

(***************************************************************************)
(* The invariant and what follows from it.                                 *)
(***************************************************************************)
LEMMA InitBatonInv == Init => BatonInv
<1> SUFFICES ASSUME Init PROVE BatonInv
  OBVIOUS
<1>1. TypeInv
  BY InitTypes
<1>2. /\ loop = "relisten" /\ baton.phase = "idle" /\ writing = {}
      /\ \A w \in Worker : st[w] = "none" /\ up[w] = {} /\ down[w] = {}
  BY DEF Init, NoBaton
<1> QED
  BY <1>1, <1>2 DEF BatonInv, WritersAlive, HandlesEarly, OwnerPlaced, BatonPlaced, OldWorker,
    NewWorker, Requests, Acks, Releasing, Releases, Owns, HoldsPort, Accepting, Lease,
    LeaseStates, Alive

LEMMA NextKeepsBatonInv ==
  ASSUME Mishaps = {}, BatonInv, [Next]_vars
  PROVE  BatonInv'
<1>1. CASE SupervisorNext
  BY <1>1, SupervisorTypes, SupervisorKeepsBatonInv DEF BatonInv, UntypedInv
<1>2. CASE \E w \in Worker : WorkerNext(w)
  BY <1>2, WorkerKeepsBatonInv
<1>3. CASE UNCHANGED vars
  <2>1. TypeInv'
    BY <1>3, NextTypes DEF BatonInv
  <2>2. UNCHANGED <<loop, active, baton, st, kind, down, up, writing>>
    BY <1>3 DEF vars, supVars, procVars, wires
  <2> QED
    BY <2>1, <2>2 DEF BatonInv, WritersAlive, HandlesEarly, OwnerPlaced, BatonPlaced, OldWorker,
      NewWorker, Requests, Acks, Releasing, Releases, Owns, HoldsPort, Accepting, Lease, Alive
<1> QED
  BY <1>1, <1>2, <1>3 DEF Next, Ended

LEMMA BatonInvHolds == ASSUME Mishaps = {} PROVE Spec => []BatonInv
BY InitBatonInv, NextKeepsBatonInv, PTL DEF Spec

\* The owner is the worker of the turn, or the new worker once the old one has
\* been released, and never both.
LEMMA OneOwner ==
  ASSUME BatonInv, NEW v \in Worker, NEW w \in Worker, Owns(v), Owns(w)
  PROVE  v = w
<1>1. baton.phase = "takeover" => active = baton.old /\ baton.old \in Worker /\ ~Owns(baton.old)
  BY ReleasedOwnsNothing DEF BatonInv, BatonPlaced, OldWorker
<1> QED BY <1>1 DEF BatonInv, OwnerPlaced

\* At most one process may write the state file or rotate a token
\* (reload-protocol.js:8-13), when no exit is ill-timed.
THEOREM OneWriter == ASSUME Mishaps = {} PROVE Spec => []SingleWriter
<1>1. BatonInv => SingleWriter
  BY OneOwner DEF SingleWriter, Writers, Owns
<1> QED BY <1>1, BatonInvHolds, PTL

\* At most one process accepts connections on the port, counting the handles
\* on their way (index.js:233-237).
THEOREM OneAcceptor == ASSUME Mishaps = {} PROVE Spec => []SingleAcceptor
<1>1. BatonInv => SingleAcceptor
  BY OneOwner DEF SingleAcceptor, Owns
<1> QED BY <1>1, BatonInvHolds, PTL

\* No write is in flight, and none can start, between a RELEASED and the end of
\* its baton (index.js:1519-1522).
THEOREM NoWriteAfterReleased == ASSUME Mishaps = {} PROVE Spec => []ReleasedMeansQuiet
<1>1. BatonInv => ReleasedMeansQuiet
  <2> SUFFICES ASSUME BatonInv, NEW w \in Worker, HandingOver(w) PROVE w \notin Writers
    BY DEF ReleasedMeansQuiet
  <2>1. st[w] = "released"
    BY DEF HandingOver, BatonInv, OldWorker, Acks
  <2> QED BY <2>1, ReleasedOwnsNothing DEF Writers, Owns
<1> QED BY <1>1, BatonInvHolds, PTL

\* A process that accepts connections is one whose exit the supervisor waits for.
THEOREM NoUnwatchedAcceptor == ASSUME Mishaps = {} PROVE Spec => []Supervised
<1>1. BatonInv => Supervised
  BY DEF BatonInv, OwnerPlaced, Supervised, Owns, HoldsPort, Accepting, Alive
<1> QED BY <1>1, BatonInvHolds, PTL

(***************************************************************************)
(* The supervisor's own accepts.                                           *)
(***************************************************************************)

\* It opens them when nobody owns anything, and the worker that listens next is
\* the one whose MSG_PRIMARY closes them.
InGap(w) == master /\ Accepting(w) => st[w] = "listening" \/ "primary" \in up[w]

LEMMA WorkerStaysInGap ==
  ASSUME TypeInv, NEW w \in Worker, InGap(w), WorkerNext(w)
  PROVE  InGap(w)'
<1> USE DEF TypeInv, TypeOK, InGap, Accepting, WorkerOnly, supVars, wires, Receive, Send, Goes, Alive
<1>1. CASE StartListening(w) BY <1>1 DEF StartListening
<1>2. CASE ListenFails(w) BY <1>2 DEF ListenFails, Die
<1>3. CASE AnswerProbe(w) BY <1>3 DEF AnswerProbe
<1>4. CASE BecomePrimary(w) BY <1>4 DEF BecomePrimary
<1>5. CASE StartWrite(w) BY <1>5 DEF StartWrite
<1>6. CASE FinishWrite(w) BY <1>6 DEF FinishWrite
<1>7. CASE RequestReload(w) BY <1>7 DEF RequestReload
<1>8. CASE RolledBack(w) BY <1>8 DEF RolledBack
<1>9. CASE Watchdog(w) BY <1>9 DEF Watchdog
<1>10. CASE Release(w) BY <1>10 DEF Release
<1>11. CASE Released(w) BY <1>11 DEF Released
<1>12. CASE Quit(w) BY ZenonT(60), <1>12 DEF Quit, Die
<1>13. CASE Exit(w) BY <1>13 DEF Exit, Die
<1>14. CASE Crash(w) BY <1>14 DEF Crash, Die
<1> QED
  BY <1>1, <1>2, <1>3, <1>4, <1>5, <1>6, <1>7, <1>8, <1>9, <1>10, <1>11, <1>12, <1>13, <1>14
  DEF WorkerNext

LEMMA SupervisorStaysInGap ==
  ASSUME BatonInv, MasterListensOnlyInGaps, SupervisorNext
  PROVE  \A v \in Worker : InGap(v)'
<1> USE DEF BatonInv, TypeInv, TypeOK, MasterListensOnlyInGaps, InGap, Accepting
<1>1. ASSUME NEW why, NEW truth, NEW gone \in SUBSET {baton.new}, RollBack(why, truth, gone),
             master' => master
      PROVE  \A v \in Worker : InGap(v)'
  <2> SUFFICES ASSUME NEW v \in Worker PROVE InGap(v)'
    OBVIOUS
  <2>1. \/ st'[v] = st[v] /\ up'[v] = up[v]
        \/ st'[v] \in {"none", "dead"}
    BY <1>1 DEF RollBack, Die, Silence, Alive
  <2> QED BY <1>1, <2>1
<1>2. ASSUME NEW l, NEW gone \in SUBSET {baton.old, baton.new}, FallBack(l, gone),
             master' => master \/ \A v \in Worker : ~Owns(v)
      PROVE  \A v \in Worker : InGap(v)'
  <2> SUFFICES ASSUME NEW v \in Worker PROVE InGap(v)'
    OBVIOUS
  <2>1. \/ st'[v] = st[v] /\ up'[v] = up[v]
        \/ st'[v] \in {"none", "dead"}
    BY <1>2 DEF FallBack, Die, Silence, Alive
  <2> QED BY <1>2, <2>1 DEF Owns, HoldsPort
<1>3. CASE RelistenFails BY <1>3 DEF RelistenFails, procVars, wires
<1>4. CASE ReadyHeard
  <2>1. CASE FallBack(loop, {}) /\ UNCHANGED master BY <1>2, <2>1
  <2>2. CASE ~(FallBack(loop, {}) /\ UNCHANGED master)
    <3>1. /\ up' = [up EXCEPT ![baton.new] = @ \ {"ready"}] /\ UNCHANGED <<master, st>>
      BY <1>4, <2>2 DEF ReadyHeard, procVars
    <3> QED BY <3>1
  <2> QED BY <2>1, <2>2
<1>5. CASE ReadyFailed BY <1>1, <1>5 DEF ReadyFailed
<1>6. CASE ReadyTimeout BY <1>1, <1>6 DEF ReadyTimeout
<1>7. CASE ReleasedHeard
  <2>1. up' = [up EXCEPT ![baton.old] = @ \ {"released"}] /\ UNCHANGED <<master, st>>
    BY <1>7 DEF ReleasedHeard, procVars
  <2> QED BY <2>1
<1>8. CASE HandoverTimeout BY <1>2, <1>8 DEF HandoverTimeout
<1>9. CASE Rearm
  <2>1. \A v \in Worker : ~Owns(v)
    BY <1>9, ReleasedOwnsNothing DEF Rearm, BatonPlaced, OldWorker, OwnerPlaced
  <2>2. CASE FallBack(loop, {}) BY <1>2, <2>1, <2>2
  <2>3. CASE ~FallBack(loop, {})
    <3>1. UNCHANGED <<st, up>> BY <1>9, <2>3 DEF Rearm, procVars
    <3> QED BY <2>1, <3>1 DEF Owns, HoldsPort
  <2> QED BY <2>2, <2>3
<1>10. CASE RearmFails BY <1>2, <1>10 DEF RearmFails
<1>11. CASE Swap BY <1>11 DEF Swap
<1>12. ASSUME NEW w \in Worker, SpawnCold(w) PROVE \A v \in Worker : InGap(v)'
  <2>1. \A v \in Worker : ~Owns(v) BY <1>12, NoOwnerBetweenTurns DEF SpawnCold
  <2>2. \A v \in Worker : st'[v] = st[v] \/ st'[v] = "boot"
    BY <1>12 DEF SpawnCold, Spawn, Goes
  <2> QED BY <2>1, <2>2 DEF Owns, HoldsPort
<1>13. ASSUME NEW w \in Worker, PrimaryHeard(w) PROVE \A v \in Worker : InGap(v)'
  <2>1. /\ st' = st /\ \A v \in Worker : v # w => up'[v] = up[v]
        /\ master' => master /\ active # w
        /\ ~(baton.phase = "takeover" /\ baton.new = w)
    BY <1>13 DEF PrimaryHeard, procVars
  <2>2. master' => ~Accepting(w)
    BY <2>1 DEF OwnerPlaced, Owns, HoldsPort
  <2> QED BY <2>1, <2>2
<1>14. ASSUME NEW w \in Worker, BeginReload(w) PROVE \A v \in Worker : InGap(v)'
  <2>1. CASE baton.phase # "idle"
    <3>1. up' = [up EXCEPT ![w] = @ \ {"reload"}] /\ UNCHANGED <<master, st>>
      BY <1>14, <2>1 DEF BeginReload, supVars, procVars
    <3> QED BY <3>1
  <2>2. CASE baton.phase = "idle"
    <3>1. PICK n \in Worker :
            /\ st' = [st EXCEPT ![n] = "boot"]
            /\ up' = [up EXCEPT ![w] = @ \ {"reload"}, ![n] = {}]
            /\ UNCHANGED master
      BY <1>14, <2>2 DEF BeginReload, Goes
    <3> QED BY <3>1
  <2> QED BY <2>1, <2>2
<1>15. ASSUME NEW w \in Worker, ExitSeen(w) PROVE \A v \in Worker : InGap(v)'
  <2>1. PICK l : /\ master' => master
                 /\ \/ baton.new = w /\ RollBack("timeout", "broken", {w})
                    \/ (baton.old = w \/ baton.new = w) /\ FallBack(l, {w})
                    \/ up' = [up EXCEPT ![w] = {}] /\ Die({}, "fail", {w})
    BY <1>15 DEF ExitSeen
  <2>2. CASE up' = [up EXCEPT ![w] = {}] /\ Die({}, "fail", {w})
    <3> SUFFICES ASSUME NEW v \in Worker PROVE InGap(v)'
      OBVIOUS
    <3>1. (st'[v] = st[v] /\ up'[v] = up[v]) \/ st'[v] = "none"
      BY <2>2 DEF Die
    <3> QED BY <2>1, <3>1
  <2>3. CASE baton.new = w /\ RollBack("timeout", "broken", {w}) BY <1>1, <2>1, <2>3
  <2>4. CASE (baton.old = w \/ baton.new = w) /\ FallBack(l, {w}) BY <1>2, <2>1, <2>4
  <2> QED BY <2>1, <2>2, <2>3, <2>4
<1>16. ASSUME NEW w \in Worker, ReapOldWorker(w) PROVE \A v \in Worker : InGap(v)'
  <2> SUFFICES ASSUME NEW v \in Worker PROVE InGap(v)'
    OBVIOUS
  <2>1. (st'[v] = st[v] /\ up'[v] = up[v]) \/ st'[v] = "dead"
    BY <1>16 DEF ReapOldWorker, Die, Silence, Alive
  <2> QED BY <1>16, <2>1 DEF ReapOldWorker, supVars
<1> QED
  BY <1>3, <1>4, <1>5, <1>6, <1>7, <1>8, <1>9, <1>10, <1>11, <1>12, <1>13, <1>14, <1>15, <1>16
  DEF SupervisorNext

\* Beside a worker that accepts connections the supervisor accepts only until that
\* worker's MSG_PRIMARY is read (index.js:233-237).
THEOREM MasterKeepsToGaps == ASSUME Mishaps = {} PROVE Spec => []MasterListensOnlyInGaps
<1> DEFINE Inv == BatonInv /\ MasterListensOnlyInGaps
<1>1. Init => Inv
  BY InitBatonInv DEF Init, MasterListensOnlyInGaps, Accepting
<1>2. Inv /\ [Next]_vars => Inv'
  <2> SUFFICES ASSUME BatonInv, MasterListensOnlyInGaps, [Next]_vars PROVE Inv'
    OBVIOUS
  <2>1. BatonInv' BY NextKeepsBatonInv
  <2>2. MasterListensOnlyInGaps <=> \A v \in Worker : InGap(v)
    BY DEF MasterListensOnlyInGaps, InGap
  <2>3. MasterListensOnlyInGaps' <=> \A v \in Worker : InGap(v)'
    BY DEF MasterListensOnlyInGaps, InGap
  <2>4. CASE SupervisorNext BY <2>1, <2>3, <2>4, SupervisorStaysInGap
  <2>5. ASSUME NEW w \in Worker, WorkerNext(w) PROVE Inv'
    <3>1. InGap(w)' BY <2>2, <2>5, WorkerStaysInGap DEF BatonInv
    <3>2. UNCHANGED master /\ \A v \in Worker \ {w} : st'[v] = st[v] /\ up'[v] = up[v]
      BY <2>5, WorkerFrame DEF BatonInv, supVars
    <3>3. \A v \in Worker \ {w} : InGap(v)' BY <2>2, <3>2 DEF InGap, Accepting
    <3> QED BY <2>1, <2>3, <3>1, <3>3
  <2>6. CASE UNCHANGED vars
    BY <2>1, <2>6 DEF MasterListensOnlyInGaps, Accepting, vars, supVars, procVars, wires
  <2> QED BY <2>4, <2>5, <2>6 DEF Next, Ended
<1> QED BY <1>1, <1>2, PTL DEF Spec

(***************************************************************************)
(* The handover implements WriterBaton.                                    *)
(***************************************************************************)
LEMMA NextPassesNothing ==
  ASSUME Mishaps = {}, BatonInv, Next
  PROVE  \A w \in Worker : /\ Owns(w)' => Owns(w) \/ \A v \in Worker : ~Owns(v)
                           /\ w \in writing' => Owns(w)
<1>1. CASE SupervisorNext
  BY <1>1, SupervisorKeepsBatonInv DEF NoPass, Owns
<1>2. ASSUME NEW w \in Worker, WorkerNext(w)
      PROVE  \A v \in Worker : Owns(v)' => Owns(v)
  <2>1. Owns(w)' => Owns(w)
    BY <1>2, WorkerLocal
  <2>2. \A v \in Worker \ {w} : Owns(v)' => Owns(v)
    BY <1>2, WorkerFrame
    DEF BatonInv, supVars, Owns, HoldsPort, Accepting, Lease, Alive
  <2> QED BY <2>1, <2>2
<1>3. CASE \E w \in Worker : WorkerNext(w)
  BY <1>2, <1>3 DEF Owns
<1>4. CASE UNCHANGED vars
  BY <1>4 DEF vars, supVars, procVars, wires, Owns, HoldsPort, Accepting, Lease, Alive
<1> QED BY <1>1, <1>3, <1>4 DEF Next, Ended

OwnerIsTheOwner ==
  /\ Owner = NoWorker <=> \A w \in Worker : ~Owns(w)
  /\ \A w \in Worker : Owns(w) <=> Owner = w
  /\ writing # {} => Owner # NoWorker

LEMMA TheOwner == BatonInv => OwnerIsTheOwner
<1> SUFFICES ASSUME BatonInv PROVE OwnerIsTheOwner
  OBVIOUS
<1>1. \A v, w \in Owners : v = w
  BY OneOwner DEF Owners
<1>2. Owners # {} => Owner \in Owners
  BY DEF Owner
<1>3. writing \subseteq Owners
  BY DEF Owners, Owns, BatonInv, TypeInv, TypeOK
<1> QED BY <1>1, <1>2, <1>3, SupervisorAssumption DEF OwnerIsTheOwner, Owner, Owners

\* A step of the handover is a step of the baton, or none.
LEMMA BatonStep ==
  ASSUME Mishaps = {}, BatonInv, BatonInv', [Next]_vars
  PROVE  [Baton!Next]_(Baton!vars)
<1> DEFINE busy == writing # {}
<1>1. /\ Owner = NoWorker <=> \A w \in Worker : ~Owns(w)
      /\ \A w \in Worker : Owns(w) <=> Owner = w
      /\ busy => Owner # NoWorker
  BY TheOwner DEF OwnerIsTheOwner
<1>2. OwnerIsTheOwner'
  BY TheOwner, PTL
<1>3. /\ Owner' = NoWorker <=> \A w \in Worker : ~Owns(w)'
      /\ \A w \in Worker : Owns(w)' <=> Owner' = w
      /\ busy' => Owner' # NoWorker
  BY <1>2 DEF OwnerIsTheOwner
<1>4. /\ \A w \in Worker : Owns(w)' => Owns(w) \/ \A v \in Worker : ~Owns(v)
      /\ \A w \in Worker : w \in writing' => Owns(w)
  <2>1. CASE Next BY <2>1, NextPassesNothing
  <2>2. CASE UNCHANGED vars
    BY <2>2 DEF vars, supVars, procVars, wires, Owns, HoldsPort, Accepting, Lease, Alive
  <2> QED BY <2>1, <2>2
<1>5. writing' \subseteq Worker /\ busy \in BOOLEAN /\ busy' \in BOOLEAN
  BY DEF BatonInv, TypeInv, TypeOK
<1>6. Owner \in Worker \cup {NoWorker} /\ Owner' \in Worker \cup {NoWorker}
  BY <1>1, <1>3
<1>7. CASE Owner' = NoWorker
  BY <1>3, <1>5, <1>7 DEF Baton!Next, Baton!Leave
<1>8. CASE Owner' # NoWorker /\ Owner = NoWorker
  <2>1. busy' = FALSE
    BY <1>1, <1>4, <1>5, <1>8
  <2> QED BY <1>6, <1>8, <2>1 DEF Baton!Next, Baton!Take
<1>9. CASE Owner' # NoWorker /\ Owner # NoWorker
  <2>1. Owner' = Owner
    BY <1>1, <1>3, <1>4, <1>6, <1>9
  <2>2. CASE busy'
    BY <1>5, <1>9, <2>1, <2>2 DEF Baton!Next, Baton!Write
  <2>3. CASE ~busy'
    BY <1>5, <2>1, <2>3 DEF Baton!Next, Baton!Settle
  <2> QED BY <2>2, <2>3
<1> QED BY <1>7, <1>8, <1>9

\* The socket and the writer lease are one baton: one process at most owns them,
\* and it is never passed directly (reload-protocol.js:5-13).
THEOREM HandoverImplementsBaton == ASSUME Mishaps = {} PROVE Spec => ImplementsBaton
<1>1. Init => Baton!Init
  BY TheOwner, InitBatonInv
  DEF OwnerIsTheOwner, Init, Baton!Init, Owns, HoldsPort, Accepting, Lease, LeaseStates, Alive
<1> QED
  BY <1>1, BatonStep, BatonInvHolds, PTL DEF Spec, ImplementsBaton, Baton!Spec
================================================================================
