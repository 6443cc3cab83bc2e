---------------------------- MODULE ServiceProofs ----------------------------
(***************************************************************************)
(* Three services of a worker.  NoOrphanedLatch for any requests and any   *)
(* number of restarts; StopIsFinal and ActsForTheOwner for any accounts;   *)
(* ThreadIsHeld for any sessions, accounts and bounds.  And the seven      *)
(* together, in the state space that the run checks.                       *)
(***************************************************************************)
EXTENDS MCServices, FleetProofs, CountProofs, SequenceTheorems, TLAPS

(* ---- The restart controller ---------------------------------------------- *)
(***************************************************************************)
(* NoOrphanedLatch is not inductive: that a drain which ends restarts the  *)
(* worker cold, and does not leave admission paused behind a seamless      *)
(* reload, rests on the drain being asked of unsupervised workers only.    *)
(***************************************************************************)
(* A supervised worker never drains first, and a restart that has begun is *)
(* not pending any more.                                                   *)
OneLatch == ctl.pending => ~supervised /\ ~ctl.restarting

LatchInv == RestartTypeOK /\ OneLatch /\ NoOrphanedLatch

\* What the operators are given: a controller with the requests it may hold.
Sound(c) == c \in Controller /\ c.upstream \subseteq c.active

LEMMA InitLatch == RestartInit => LatchInv
  BY RestartAssumption
     DEF RestartInit, LatchInv, RestartTypeOK, OneLatch, NoOrphanedLatch, Controller, Reasons

\* _restart from any state of the controller, unless it is supervised and paused.
LEMMA RestartLatches ==
  ASSUME RestartTypeOK, NEW c, Sound(c), Restart(c), UNCHANGED supervised,
         restarts' \in 0..MaxRestarts, supervised => ~c.paused
  PROVE  LatchInv'
<1> DEFINE d == Latched(c)
<1>1. Sound(d) /\ d.restarting /\ ~d.pending /\ d.paused = c.paused
  BY DEF Sound, Latched, Controller
<1>2. CASE worker # "serving" /\ ctl' = d /\ UNCHANGED <<swap, worker>>
  BY <1>1, <1>2 DEF LatchInv, RestartTypeOK, OneLatch, NoOrphanedLatch, Sound
<1>3. CASE /\ worker = "serving" /\ supervised
           /\ ctl' = [d EXCEPT !.watchdog = TRUE, !.reason = "none"]
           /\ swap' = "booting" /\ UNCHANGED worker
  <2>1. Sound(ctl') /\ ctl'.restarting /\ ~ctl'.pending /\ ~ctl'.paused /\ ctl'.watchdog
    BY <1>1, <1>3 DEF Sound, Controller, Reasons
  <2> QED BY <1>3, <2>1 DEF LatchInv, RestartTypeOK, OneLatch, NoOrphanedLatch, Sound
<1>4. CASE worker = "serving" /\ ctl' = d /\ worker' = "cold" /\ UNCHANGED swap
  BY <1>1, <1>4 DEF LatchInv, RestartTypeOK, OneLatch, NoOrphanedLatch, Sound
<1> QED BY <1>2, <1>3, <1>4 DEF Restart, Reload

\* _maybeRestart: whatever left the upstream requests as they are in c.
LEMMA MaybeRestartLatches ==
  ASSUME LatchInv, NEW c, Sound(c), MaybeRestart(c), UNCHANGED <<supervised, restarts>>,
         \A f \in {"pending", "restarting", "paused", "drainTimer", "watchdog"} : c[f] = ctl[f]
  PROVE  LatchInv'
<1>1. /\ c.pending = ctl.pending /\ c.restarting = ctl.restarting /\ c.paused = ctl.paused
      /\ c.drainTimer = ctl.drainTimer /\ c.watchdog = ctl.watchdog
  OBVIOUS
<1>2. CASE c.pending /\ ~c.restarting /\ c.upstream = {}
  <2>1. Restart(c) BY <1>2 DEF MaybeRestart
  <2>2. ~supervised BY <1>1, <1>2 DEF LatchInv, OneLatch
  <2> QED BY <2>1, <2>2, RestartLatches DEF LatchInv, RestartTypeOK
<1>3. CASE ~(c.pending /\ ~c.restarting /\ c.upstream = {})
  <2>1. ctl' = c /\ UNCHANGED <<swap, worker>> BY <1>3 DEF MaybeRestart
  <2> QED BY <1>1, <1>3, <2>1 DEF LatchInv, RestartTypeOK, OneLatch, NoOrphanedLatch, Sound
<1> QED BY <1>2, <1>3

LEMMA NextLatch == LatchInv /\ [RestartNext]_rvars => LatchInv'
<1> SUFFICES ASSUME LatchInv, [RestartNext]_rvars PROVE LatchInv'
  OBVIOUS
<1>1. Sound(ctl) BY DEF LatchInv, RestartTypeOK, Sound
<1>2. ASSUME NEW q \in Calls, Started(q) PROVE LatchInv'
  BY <1>2 DEF Started, LatchInv, RestartTypeOK, OneLatch, NoOrphanedLatch, Controller
<1>3. ASSUME NEW q \in Calls, NEW up \in BOOLEAN, Routed(q, up) PROVE LatchInv'
  <2> DEFINE c == [ctl EXCEPT !.upstream = IF up THEN @ \cup {q} ELSE @ \ {q}]
  <2>1. Sound(c) BY <1>1, <1>3 DEF Sound, Controller, Routed
  <2>2. \A f \in {"pending", "restarting", "paused", "drainTimer", "watchdog"} : c[f] = ctl[f]
    BY <1>1 DEF Sound, Controller
  <2>3. MaybeRestart(c) /\ UNCHANGED <<supervised, restarts>> BY <1>3 DEF Routed
  <2> QED BY <2>1, <2>2, <2>3, MaybeRestartLatches
<1>4. ASSUME NEW q \in Calls, Finished(q) PROVE LatchInv'
  <2> DEFINE c == [ctl EXCEPT !.active = @ \ {q}, !.upstream = @ \ {q}]
  <2>1. Sound(c) BY <1>1 DEF Sound, Controller
  <2>2. \A f \in {"pending", "restarting", "paused", "drainTimer", "watchdog"} : c[f] = ctl[f]
    BY <1>1 DEF Sound, Controller
  <2>3. MaybeRestart(c) /\ UNCHANGED <<supervised, restarts>> BY <1>4 DEF Finished
  <2> QED BY <2>1, <2>2, <2>3, MaybeRestartLatches
<1>5. ASSUME NEW update \in BOOLEAN, RequestRestart(update) PROVE LatchInv'
  <2> DEFINE c == [ctl EXCEPT !.forUpdate = @ \/ update]
             p == [c EXCEPT !.paused = TRUE]
             d == [p EXCEPT !.pending = TRUE, !.drainTimer = TRUE]
  <2>1. /\ Sound(c) /\ c.pending = ctl.pending /\ c.restarting = ctl.restarting
        /\ c.paused = ctl.paused /\ c.drainTimer = ctl.drainTimer /\ c.watchdog = ctl.watchdog
        /\ c.upstream = ctl.upstream
    <3>1. (ctl.forUpdate \/ update) \in BOOLEAN OBVIOUS
    <3>2. \A b \in BOOLEAN :
            LET f == [ctl EXCEPT !.forUpdate = b]
            IN  /\ f \in Controller /\ f.active = ctl.active /\ f.upstream = ctl.upstream
                /\ f.pending = ctl.pending /\ f.restarting = ctl.restarting
                /\ f.paused = ctl.paused /\ f.drainTimer = ctl.drainTimer
                /\ f.watchdog = ctl.watchdog
      BY <1>1 DEF Sound, Controller
    <3> QED BY <1>1, <3>1, <3>2 DEF Sound
  <2> HIDE DEF c
  <2>2. Sound(p) /\ p.upstream = ctl.upstream /\ p.restarting = ctl.restarting
    <3>1. c \in Controller /\ c.upstream \subseteq c.active BY <2>1 DEF Sound
    <3>2. p \in Controller BY <3>1 DEF Controller
    <3>3. p.upstream = c.upstream /\ p.active = c.active /\ p.restarting = c.restarting
      BY <3>1 DEF Controller
    <3> QED BY <2>1, <3>1, <3>2, <3>3 DEF Sound
  <2> HIDE DEF p
  <2>3. /\ Sound(d) /\ d.pending /\ d.drainTimer /\ d.upstream = ctl.upstream
        /\ d.restarting = ctl.restarting
    <3>1. p \in Controller /\ p.upstream \subseteq p.active BY <2>2 DEF Sound
    <3>2. d \in Controller BY <3>1 DEF Controller
    <3>3. /\ d.upstream = p.upstream /\ d.active = p.active /\ d.restarting = p.restarting
          /\ d.pending /\ d.drainTimer
      BY <3>1 DEF Controller
    <3> QED BY <2>2, <3>1, <3>2, <3>3 DEF Sound
  <2> HIDE DEF d
  <2>4. restarts' \in 0..MaxRestarts /\ UNCHANGED supervised
    BY <1>5, RestartAssumption DEF RequestRestart, LatchInv, RestartTypeOK
  <2>5. CASE c.restarting \/ c.pending
    <3>1. ctl' = c /\ UNCHANGED <<swap, worker>> BY <1>5, <2>5 DEF RequestRestart, c
    <3> QED BY <2>1, <2>4, <3>1 DEF LatchInv, RestartTypeOK, OneLatch, NoOrphanedLatch, Sound
  <2>6. CASE ~(c.restarting \/ c.pending) /\ supervised
    <3>1. Restart(c) BY <1>5, <2>6 DEF RequestRestart, c
    <3>2. CASE worker = "serving"
      <4>1. ~c.paused BY <2>1, <2>6, <3>2 DEF LatchInv, NoOrphanedLatch
      <4> QED BY <2>1, <2>4, <3>1, <4>1, RestartLatches DEF LatchInv
    <3>3. CASE worker # "serving"
      <4>1. ctl' = Latched(c) /\ UNCHANGED <<swap, worker>>
        BY <3>1, <3>3 DEF Restart, Reload
      <4>2. Sound(ctl') /\ ~ctl'.pending BY <2>1, <4>1 DEF Sound, Latched, Controller
      <4> QED BY <2>4, <3>3, <4>1, <4>2
              DEF LatchInv, RestartTypeOK, OneLatch, NoOrphanedLatch, Sound
    <3> QED BY <3>2, <3>3
  <2>7. CASE ~(c.restarting \/ c.pending) /\ ~supervised /\ p.upstream = {}
    <3>1. Restart(p) BY <1>5, <2>7 DEF RequestRestart, p, c
    <3> QED BY <2>2, <2>4, <2>7, <3>1, RestartLatches DEF LatchInv
  <2>8. CASE ~(c.restarting \/ c.pending) /\ ~supervised /\ p.upstream # {}
    <3>1. ctl' = d /\ UNCHANGED <<swap, worker>> BY <1>5, <2>8 DEF RequestRestart, d, p, c
    <3> QED BY <2>1, <2>2, <2>3, <2>4, <2>8, <3>1
            DEF LatchInv, RestartTypeOK, OneLatch, NoOrphanedLatch, Sound
  <2> QED BY <2>5, <2>6, <2>7, <2>8
<1>6. CASE DrainTimesOut
  <2>1. CASE ctl.pending /\ ~ctl.restarting
    <3>1. Restart(ctl) /\ ~supervised BY <1>6, <2>1 DEF DrainTimesOut, LatchInv, OneLatch
    <3> QED BY <1>6, <1>1, <3>1, RestartLatches DEF DrainTimesOut, LatchInv, RestartTypeOK
  <2>2. CASE ~(ctl.pending /\ ~ctl.restarting)
    <3>1. ~ctl.pending BY <2>2 DEF LatchInv, OneLatch
    <3> QED BY <1>6, <1>1, <2>2, <3>1
            DEF DrainTimesOut, LatchInv, RestartTypeOK, OneLatch, NoOrphanedLatch, Controller
  <2> QED BY <2>1, <2>2
<1>7. CASE WatchdogFires
  <2> DEFINE c == [ctl EXCEPT !.watchdog = FALSE]
  <2>1. /\ Sound(c) /\ c.pending = ctl.pending /\ c.restarting = ctl.restarting
        /\ c.paused = ctl.paused /\ c.drainTimer = ctl.drainTimer /\ c.upstream = ctl.upstream
    BY <1>1 DEF Sound, Controller
  <2>2. CASE worker # "serving"
    BY <1>7, <2>1, <2>2
       DEF WatchdogFires, LatchInv, RestartTypeOK, OneLatch, NoOrphanedLatch, Sound
  <2>3. CASE worker = "serving"
    <3>1. /\ ctl' = Cancelled(c) /\ UNCHANGED <<supervised, swap, restarts>>
          /\ worker' \in {"cold", "serving"}
      BY <1>7, <2>3 DEF WatchdogFires
    <3>2. Sound(ctl') /\ ~ctl'.pending /\ ~ctl'.restarting
      BY <2>1, <3>1 DEF Cancelled, Sound, Controller
    <3>3. ~ctl'.paused
      BY <2>1, <2>3, <3>1 DEF Cancelled, Sound, Controller, LatchInv, NoOrphanedLatch
    <3> QED BY <3>1, <3>2, <3>3 DEF LatchInv, RestartTypeOK, OneLatch, NoOrphanedLatch, Sound
  <2> QED BY <2>2, <2>3
<1>8. ASSUME NEW why \in {"timeout", "failed"}, RollsBack(why) PROVE LatchInv'
  BY <1>8 DEF RollsBack, LatchInv, RestartTypeOK, OneLatch, NoOrphanedLatch, Controller, Reasons
<1>9. CASE Release
  BY <1>9 DEF Release, LatchInv, RestartTypeOK, OneLatch, NoOrphanedLatch, Controller
<1>10. CASE Quits
  BY <1>10 DEF Quits, LatchInv, RestartTypeOK, OneLatch, NoOrphanedLatch
<1>11. CASE Exits
  BY <1>11 DEF Exits, LatchInv, RestartTypeOK, OneLatch, NoOrphanedLatch, Controller
<1>12. CASE UNCHANGED rvars
  BY <1>12 DEF rvars, LatchInv, RestartTypeOK, OneLatch, NoOrphanedLatch
<1> QED BY <1>2, <1>3, <1>4, <1>5, <1>6, <1>7, <1>8, <1>9, <1>10, <1>11, <1>12 DEF RestartNext

(* The controller and the worker have their types, and no request is with  *)
(* an upstream that is not active.                                         *)
THEOREM RestartTypes == RestartSpec => []RestartTypeOK
<1>1. LatchInv => RestartTypeOK BY DEF LatchInv
<1> QED BY InitLatch, NextLatch, <1>1, PTL DEF RestartSpec

(* A worker that serves refuses requests only while the watchdog or the    *)
(* drain timer is armed to end it: restart-controller.js with              *)
(* requestReload, for any requests and restarts.                           *)
THEOREM LatchIsArmed == RestartSpec => []NoOrphanedLatch
<1>1. LatchInv => NoOrphanedLatch BY DEF LatchInv
<1> QED BY InitLatch, NextLatch, <1>1, PTL DEF RestartSpec

(* ---- The prober ------------------------------------------------------------ *)
(***************************************************************************)
(* StopIsFinal is not inductive: that nothing is out when stop returns     *)
(* rests on a sweep that has ended leaving no account in a call, and that  *)
(* none starts afterwards on no sweep starting without the timer.          *)
(***************************************************************************)
Rest == {"idle", "done"}

QuietBetweenSweeps ==
    ~sweep.running => ~sweep.sleeping /\ \A a \in Accounts : at[a] \in Rest

NoTimerOnceStopped ==
    /\ sweep.stop # "no" => ~sweep.timer
    /\ sweep.stop = "returned" => ~sweep.running

StopInv == ProberTypeOK /\ QuietBetweenSweeps /\ NoTimerOnceStopped

LEMMA InitStop == ProberInit => StopInv
  BY ProberAssumption DEF ProberInit, StopInv, ProberTypeOK, ProbeCalls, Levels,
     QuietBetweenSweeps, NoTimerOnceStopped, Rest, Accounts

\* A call that is answered was out: there is a sweep, and it goes on.
LEMMA AnswerKeeps ==
  ASSUME StopInv, NEW a \in Accounts, at[a] \notin Rest, NEW call \in ProbeCalls,
         Goes(a, call), UNCHANGED <<sweep, tick>>,
         acct' \in [Accounts -> [enabled: BOOLEAN, benched: BOOLEAN, week: Levels,
                                 outside: BOOLEAN]],
         leak' \in [Providers -> BOOLEAN],
         card' \in [Providers -> [tries: Nat, until: Nat]]
  PROVE  StopInv'
<1>1. sweep.running BY DEF StopInv, QuietBetweenSweeps
<1>2. at' \in [Accounts -> ProbeCalls] BY DEF Goes, StopInv, ProberTypeOK
<1> QED BY <1>1, <1>2 DEF StopInv, ProberTypeOK, QuietBetweenSweeps, NoTimerOnceStopped

LEMMA ProviderAnswers ==
  ASSUME StopInv, NEW p \in Providers,
         \/ ProviderUsage(p) \/ OutsideUsage(p) \/ Subscription(p) \/ Cards(p)
         \/ RedeemSucceeds(p) \/ RedeemFails(p) \/ Relisted(p)
  PROVE  StopInv'
<1>1. p \in Accounts BY DEF Accounts
<1>2. /\ acct \in [Accounts -> [enabled: BOOLEAN, benched: BOOLEAN, week: Levels,
                                outside: BOOLEAN]]
      /\ leak \in [Providers -> BOOLEAN]
      /\ card \in [Providers -> [tries: Nat, until: Nat]]
      /\ tick \in Nat
  BY ProberAssumption DEF StopInv, ProberTypeOK
<1>3. CASE ProviderUsage(p)
  <2>1. at[p] \notin Rest BY <1>3 DEF ProviderUsage, Rest
  <2>2. PICK call \in {"done", "subs", "cards", "outside"} : Goes(p, call)
    BY <1>3 DEF ProviderUsage, ToCards
  <2>3. acct' \in [Accounts -> [enabled: BOOLEAN, benched: BOOLEAN, week: Levels,
                                outside: BOOLEAN]]
    BY <1>3, <1>1, <1>2 DEF ProviderUsage
  <2>4. UNCHANGED <<leak, card, sweep, tick>> BY <1>3 DEF ProviderUsage
  <2>5. call \in ProbeCalls BY DEF ProbeCalls
  <2> QED BY <1>1, <1>2, <2>1, <2>2, <2>3, <2>4, <2>5, AnswerKeeps
<1>4. CASE OutsideUsage(p)
  <2>1. at[p] \notin Rest BY <1>4 DEF OutsideUsage, Rest
  <2>2. PICK call \in {"done", "subs", "cards"} : Goes(p, call)
    BY <1>4 DEF OutsideUsage, ToCards
  <2>3. PICK reading \in Readings :
          /\ acct' = [acct EXCEPT ![p].outside = Flagged(@, reading)]
          /\ leak' = [leak EXCEPT ![p] = IF reading = "failed" THEN @ ELSE reading = "outside"]
    BY <1>4 DEF OutsideUsage
  <2>4. Flagged(acct[p].outside, reading) \in BOOLEAN BY <1>1, <1>2 DEF Flagged
  <2>5. acct' \in [Accounts -> [enabled: BOOLEAN, benched: BOOLEAN, week: Levels,
                                outside: BOOLEAN]]
    BY <1>1, <1>2, <2>3, <2>4
  <2>6. leak' \in [Providers -> BOOLEAN] BY <1>2, <2>3
  <2>7. UNCHANGED <<card, sweep, tick>> BY <1>4 DEF OutsideUsage
  <2>8. call \in ProbeCalls BY DEF ProbeCalls
  <2> QED BY <1>1, <1>2, <2>1, <2>2, <2>5, <2>6, <2>7, <2>8, AnswerKeeps
<1>5. CASE Subscription(p)
  <2>1. at[p] \notin Rest BY <1>5 DEF Subscription, Rest
  <2>2. "cards" \in ProbeCalls BY DEF ProbeCalls
  <2> QED BY <1>5, <1>1, <1>2, <2>1, <2>2, AnswerKeeps DEF Subscription
<1>6. CASE Cards(p)
  <2>1. at[p] \notin Rest BY <1>6 DEF Cards, Rest
  <2>2. PICK call \in {"redeem", "done"} : Goes(p, call) BY <1>6 DEF Cards
  <2>3. call \in ProbeCalls BY DEF ProbeCalls
  <2> QED BY <1>6, <1>1, <1>2, <2>1, <2>2, <2>3, AnswerKeeps DEF Cards
<1>7. CASE RedeemSucceeds(p)
  <2>1. at[p] \notin Rest BY <1>7 DEF RedeemSucceeds, Rest
  <2>2. "relist" \in ProbeCalls BY DEF ProbeCalls
  <2>3. card' \in [Providers -> [tries: Nat, until: Nat]] BY <1>7, <1>2 DEF RedeemSucceeds
  <2> QED BY <1>7, <1>1, <1>2, <2>1, <2>2, <2>3, AnswerKeeps DEF RedeemSucceeds
<1>8. CASE RedeemFails(p)
  <2>1. at[p] \notin Rest BY <1>8 DEF RedeemFails, Rest
  <2>2. PICK call \in {"again", "done"} : Goes(p, call) BY <1>8 DEF RedeemFails
  <2>3. call \in ProbeCalls BY DEF ProbeCalls
  <2>4. \A n \in Nat : Pow2(n) \in Nat BY DEF Pow2
  <2>5. FailedRedeem(card[p]) \in [tries: Nat, until: Nat]
    BY <1>2, <2>4 DEF FailedRedeem
  <2>6. card' \in [Providers -> [tries: Nat, until: Nat]]
    BY <1>8, <1>2, <2>5 DEF RedeemFails
  <2> QED BY <1>8, <1>1, <1>2, <2>1, <2>2, <2>3, <2>6, AnswerKeeps DEF RedeemFails
<1>9. CASE Relisted(p)
  <2>1. at[p] \notin Rest BY <1>9 DEF Relisted, Rest
  <2>2. "done" \in ProbeCalls BY DEF ProbeCalls
  <2> QED BY <1>9, <1>1, <1>2, <2>1, <2>2, AnswerKeeps DEF Relisted
<1> QED BY <1>3, <1>4, <1>5, <1>6, <1>7, <1>8, <1>9

LEMMA LoginAnswers ==
  ASSUME StopInv, NEW a \in Subscribed, Grants(a) \/ Onward(a) \/ Usage(a) \/ Rejected(a)
  PROVE  StopInv'
<1>1. a \in Accounts BY DEF Accounts
<1>2. /\ acct \in [Accounts -> [enabled: BOOLEAN, benched: BOOLEAN, week: Levels,
                                outside: BOOLEAN]]
      /\ leak \in [Providers -> BOOLEAN]
      /\ card \in [Providers -> [tries: Nat, until: Nat]]
  BY DEF StopInv, ProberTypeOK
<1>3. at[a] \notin Rest BY DEF Grants, Onward, Usage, Rejected, Rest
<1>4. PICK call \in {"claim", "fresh", "probe", "reprobe", "done", "force"} : Goes(a, call)
  BY DEF Grants, Onward, Usage, Rejected
<1>5. call \in ProbeCalls BY DEF ProbeCalls
<1>6. acct' \in [Accounts -> [enabled: BOOLEAN, benched: BOOLEAN, week: Levels,
                              outside: BOOLEAN]]
  BY <1>1, <1>2 DEF Grants, Onward, Usage, Rejected
<1>7. UNCHANGED <<leak, card, sweep, tick>> BY DEF Grants, Onward, Usage, Rejected
<1> QED BY <1>1, <1>2, <1>3, <1>4, <1>5, <1>6, <1>7, AnswerKeeps

LEMMA NextStop == StopInv /\ [ProberNext]_bvars => StopInv'
<1> SUFFICES ASSUME StopInv, [ProberNext]_bvars PROVE StopInv'
  OBVIOUS
<1> USE DEF StopInv, QuietBetweenSweeps, NoTimerOnceStopped, Rest
<1>1. ProberTypeOK OBVIOUS
<1>2. CASE ProbeAll
  <2>1. at' \in [Accounts -> ProbeCalls] BY <1>2 DEF ProbeAll, ProbeCalls
  <2> QED BY <1>2, <1>1, <2>1 DEF ProbeAll, ProberTypeOK
<1>3. CASE Pace
  BY <1>3, <1>1 DEF Pace, ProberTypeOK
<1>4. CASE SweepEnds
  <2>1. at' \in [Accounts -> ProbeCalls] /\ \A a \in Accounts : at'[a] = "idle"
    BY <1>4 DEF SweepEnds, ProbeCalls
  <2> QED BY <1>4, <1>1, <2>1 DEF SweepEnds, ProberTypeOK
<1>5. CASE Stop
  BY <1>5, <1>1 DEF Stop, ProberTypeOK
<1>6. CASE StopReturns
  BY <1>6, <1>1 DEF StopReturns, Settled, ProberTypeOK
<1>7. CASE Tick
  BY <1>7, <1>1, ProberAssumption DEF Tick, ProberTypeOK
<1>8. CASE Reboot
  <2>1. at' \in [Accounts -> ProbeCalls] /\ \A a \in Accounts : at'[a] = "idle"
    BY <1>8 DEF Reboot, ProbeCalls
  <2> QED BY <1>8, <1>1, <2>1 DEF Reboot, ProberTypeOK
<1>9. ASSUME NEW a \in Subscribed, ProbeOne(a) PROVE StopInv'
  <2>1. a \in Accounts /\ sweep.running BY <1>9 DEF Accounts, ProbeOne
  <2>2. at' \in [Accounts -> ProbeCalls]
    BY <1>9, <1>1, <2>1 DEF ProbeOne, Goes, ProbeCalls, ProberTypeOK
  <2> QED BY <1>9, <1>1, <2>1, <2>2 DEF ProbeOne, ProberTypeOK
<1>10. ASSUME NEW a \in Accounts, Answer(a) PROVE StopInv'
  BY <1>10, ProviderAnswers, LoginAnswers DEF Answer
<1>11. ASSUME NEW a \in Accounts, SetAccountEnabled(a) \/ Bench(a) PROVE StopInv'
  <2>1. acct' \in [Accounts -> [enabled: BOOLEAN, benched: BOOLEAN, week: Levels,
                                outside: BOOLEAN]]
    <3>1. CASE SetAccountEnabled(a)
      <4>1. \E b \in BOOLEAN : acct' = [acct EXCEPT ![a].enabled = b]
        <5>1. (~acct[a].enabled) \in BOOLEAN OBVIOUS
        <5> QED BY <3>1, <5>1, Zenon DEF SetAccountEnabled
      <4> QED BY <1>1, <4>1 DEF ProberTypeOK
    <3>2. CASE Bench(a)
      <4>1. \E b \in BOOLEAN : acct' = [acct EXCEPT ![a].benched = b]
        <5>1. (~acct[a].benched) \in BOOLEAN OBVIOUS
        <5> QED BY <3>2, <5>1, Zenon DEF Bench
      <4> QED BY <1>1, <4>1 DEF ProberTypeOK
    <3> QED BY <1>11, <3>1, <3>2
  <2>2. UNCHANGED <<at, leak, card, sweep, tick>> BY <1>11 DEF SetAccountEnabled, Bench
  <2> QED BY <1>1, <2>1, <2>2 DEF ProberTypeOK
<1>12. CASE UNCHANGED bvars
  BY <1>12, <1>1 DEF bvars, ProberTypeOK
<1> QED BY <1>2, <1>3, <1>4, <1>5, <1>6, <1>7, <1>8, <1>9, <1>10, <1>11, <1>12 DEF ProberNext

(* When stop() of prober.js has returned no call of a sweep is out and     *)
(* none will start, for any number of accounts of either kind.             *)
THEOREM StoppedForGood == ProberSpec => []StopIsFinal
<1>1. StopInv => StopIsFinal
  BY DEF StopInv, QuietBetweenSweeps, NoTimerOnceStopped, Rest, StopIsFinal
<1> QED BY InitStop, NextStop, <1>1, PTL DEF ProberSpec

(* An account is in one call of the probe at a time, and what is kept of   *)
(* it has its type: prober.js and the reset modules.                       *)
THEOREM ProberTypes == ProberSpec => []ProberTypeOK
<1>1. StopInv => ProberTypeOK BY DEF StopInv
<1> QED BY InitStop, NextStop, <1>1, PTL DEF ProberSpec

(***************************************************************************)
(* The owner.  What the policy reads is the saved flag; what it means is   *)
(* the last reading.                                                       *)
(***************************************************************************)
FlagCovers == \A p \in Providers : leak[p] => acct[p].outside

LEMMA NextFlag == ProberTypeOK /\ FlagCovers /\ [ProberNext]_bvars => FlagCovers'
<1> SUFFICES ASSUME ProberTypeOK, FlagCovers, [ProberNext]_bvars,
                    NEW q \in Providers, leak'[q]
             PROVE  acct'[q].outside
  BY DEF FlagCovers
<1>1. /\ q \in Accounts
      /\ acct \in [Accounts -> [enabled: BOOLEAN, benched: BOOLEAN, week: Levels,
                                outside: BOOLEAN]]
      /\ leak \in [Providers -> BOOLEAN]
      /\ leak[q] => acct[q].outside
  BY DEF Accounts, ProberTypeOK, FlagCovers
<1>2. CASE ProbeAll \/ Pace \/ SweepEnds \/ Stop \/ StopReturns \/ Tick \/ UNCHANGED bvars
  BY <1>2, <1>1 DEF ProbeAll, Pace, SweepEnds, Stop, StopReturns, Tick, bvars
<1>3. CASE Reboot
  BY <1>3 DEF Reboot
<1>4. ASSUME NEW a \in Subscribed, ProbeOne(a) PROVE acct'[q].outside
  BY <1>4, <1>1 DEF ProbeOne
<1>5. ASSUME NEW a \in Accounts, SetAccountEnabled(a) \/ Bench(a) PROVE acct'[q].outside
  BY <1>5, <1>1 DEF SetAccountEnabled, Bench
<1>6. ASSUME NEW p \in Providers, OutsideUsage(p) PROVE acct'[q].outside
  <2>1. p \in Accounts BY DEF Accounts
  <2>2. PICK reading \in Readings :
          /\ acct' = [acct EXCEPT ![p].outside = Flagged(@, reading)]
          /\ leak' = [leak EXCEPT ![p] = IF reading = "failed" THEN @ ELSE reading = "outside"]
    BY <1>6 DEF OutsideUsage
  <2>3. CASE p = q
    <3>1. acct'[q].outside = Flagged(acct[q].outside, reading) BY <1>1, <2>2, <2>3
    <3>2. leak'[q] = (IF reading = "failed" THEN leak[q] ELSE reading = "outside")
      BY <1>1, <2>2, <2>3
    <3> QED BY <1>1, <3>1, <3>2 DEF Flagged
  <2>4. CASE p # q
    <3>1. acct'[q] = acct[q] /\ leak'[q] = leak[q] BY <1>1, <2>2, <2>4
    <3> QED BY <1>1, <3>1
  <2> QED BY <2>3, <2>4
<1>7. ASSUME NEW p \in Providers, ProviderUsage(p) PROVE acct'[q].outside
  <2>1. p \in Accounts BY DEF Accounts
  <2>2. acct'[q].outside = acct[q].outside BY <1>7, <1>1, <2>1 DEF ProviderUsage
  <2> QED BY <1>7, <1>1, <2>2 DEF ProviderUsage
<1>8. ASSUME NEW p \in Providers, \/ Subscription(p) \/ Cards(p) \/ RedeemSucceeds(p)
                                  \/ RedeemFails(p) \/ Relisted(p)
      PROVE  acct'[q].outside
  BY <1>8, <1>1 DEF Subscription, Cards, RedeemSucceeds, RedeemFails, Relisted
<1>9. ASSUME NEW a \in Subscribed, Grants(a) \/ Onward(a) \/ Usage(a) \/ Rejected(a)
      PROVE  acct'[q].outside
  <2>1. a \in Accounts BY DEF Accounts
  <2>2. acct'[q].outside = acct[q].outside /\ leak' = leak
    BY <1>9, <1>1, <2>1 DEF Grants, Onward, Usage, Rejected
  <2> QED BY <1>1, <2>2
<1> QED BY <1>2, <1>3, <1>4, <1>5, <1>6, <1>7, <1>8, <1>9 DEF ProberNext, Answer

\* What may be spent, seen from a step.
Spends(a) == at[a] # at'[a] /\ at'[a] \in {"redeem", "claim", "force"}

LEMMA SpendsOwned ==
  ASSUME ProberTypeOK, FlagCovers, ProberNext, NEW a \in Accounts, Spends(a)
  PROVE  acct[a].enabled /\ (a \in Providers => ~leak[a])
<1>1. at \in [Accounts -> ProbeCalls] BY DEF ProberTypeOK
<1>2. CASE ProbeAll \/ SweepEnds \/ Reboot
  BY <1>2 DEF ProbeAll, SweepEnds, Reboot, Spends
<1>3. CASE Pace \/ Stop \/ StopReturns \/ Tick
  BY <1>3 DEF Pace, Stop, StopReturns, Tick, Spends
<1>4. ASSUME NEW b \in Subscribed, ProbeOne(b) PROVE FALSE
  BY <1>4, <1>1 DEF ProbeOne, Goes, Spends
<1>5. ASSUME NEW b \in Accounts, SetAccountEnabled(b) \/ Bench(b) PROVE FALSE
  BY <1>5 DEF SetAccountEnabled, Bench, Spends
<1>6. ASSUME NEW b \in Accounts, Answer(b)
      PROVE  acct[a].enabled /\ (a \in Providers => ~leak[a])
  <2>1. PICK call : Goes(b, call)
    BY <1>6 DEF Answer, ProviderUsage, OutsideUsage, Subscription, Cards, RedeemSucceeds,
       RedeemFails, Relisted, Grants, Onward, Usage, Rejected
  <2>2. b = a /\ at'[a] = call /\ call \in {"redeem", "claim", "force"}
    BY <1>1, <2>1 DEF Goes, Spends
  <2>3. CASE a \in Providers
    <3>1. a \notin Subscribed BY <2>3, ProberAssumption
    <3>2. Cards(a)
      <4>1. ProviderUsage(a) => at'[a] \in {"done", "subs", "cards", "outside"}
        BY <1>1 DEF ProviderUsage, ToCards, Goes
      <4>2. OutsideUsage(a) => at'[a] \in {"done", "subs", "cards"}
        BY <1>1 DEF OutsideUsage, ToCards, Goes
      <4>3. Subscription(a) \/ RedeemSucceeds(a) \/ RedeemFails(a) \/ Relisted(a)
              => at'[a] \in {"cards", "relist", "again", "done"}
        BY <1>1 DEF Subscription, RedeemSucceeds, RedeemFails, Relisted, Goes
      <4> QED BY <1>6, <2>2, <3>1, <4>1, <4>2, <4>3 DEF Answer
    <3>3. acct[a].enabled /\ ~acct[a].outside
      BY <1>1, <2>2, <3>2 DEF Cards, DecideZai, Goes
    <3> QED BY <2>3, <3>3 DEF FlagCovers
  <2>4. CASE a \notin Providers
    <3>1. Grants(a) \/ Onward(a) \/ Usage(a) \/ Rejected(a)
      BY <1>6, <2>2, <2>4 DEF Answer
    <3>2. acct[a].enabled
      BY <1>1, <2>2, <3>1 DEF Grants, Onward, Usage, Rejected, DecideClaude, Goes
    <3> QED BY <2>4, <3>2
  <2> QED BY <2>3, <2>4
<1> QED BY <1>2, <1>3, <1>4, <1>5, <1>6 DEF ProberNext

(* Nothing is spent for an account its owner has disabled, and no card for *)
(* a key that the last reading saw in use elsewhere, whatever happened     *)
(* while the listing was awaited: prober.js with reset-policy.js.          *)
THEOREM OwnerIsObeyed == ProberSpec => ActsForTheOwner
<1>1. ProberInit => ProberTypeOK BY InitStop DEF StopInv
<1>2. ProberInit => FlagCovers BY DEF ProberInit, FlagCovers
<1>3. ProberTypeOK /\ FlagCovers /\ [ProberNext]_bvars =>
        [\A a \in Accounts :
           at[a] # at'[a] /\ at'[a] \in {"redeem", "claim", "force"} =>
               /\ acct[a].enabled
               /\ a \in Providers => ~leak[a]]_bvars
  BY SpendsOwned DEF Spends
<1>4. StopInv => ProberTypeOK BY DEF StopInv
<1> QED BY InitStop, NextStop, NextFlag, <1>2, <1>3, <1>4, PTL DEF ProberSpec, ActsForTheOwner

(* ---- The thread gate -------------------------------------------------------- *)
(***************************************************************************)
(* What the map says of a session is what happened: its owner is the       *)
(* account that served the last threaded turn, and it counts no refusals   *)
(* that were not made.  It may count fewer: a full map forgets.            *)
(***************************************************************************)
Accounted == Claude \cup ThirdParty \cup {Nobody}
EntrySet == [key : Keys, owner : Accounted, refusals : 0..MaxRefusals]

OneEntryEach(map) == \A i, j \in DOMAIN map : map[i].key = map[j].key => i = j

GateInv ==
    /\ owners \in Seq(EntrySet) /\ OneEntryEach(owners) /\ Len(owners) <= MaxSessions
    /\ row \in [Keys -> 0..MaxRefusals]
    /\ \A s \in Sessions : holder[s] = Entry(s).owner
    /\ \A k \in Keys \ Sessions : Entry(k).owner = Nobody
    /\ \A k \in Keys : Entry(k).refusals <= row[k]

\* An entry that is there is the one of its key.
LEMMA TheEntry ==
    ASSUME owners \in Seq(EntrySet), OneEntryEach(owners), NEW k
    PROVE  /\ \A i \in DOMAIN owners : owners[i].key = k => Has(k) /\ Entry(k) = owners[i]
           /\ Has(k) => Place(k) \in DOMAIN owners /\ owners[Place(k)].key = k
           /\ ~Has(k) => Entry(k) = [key |-> k, owner |-> Nobody, refusals |-> 0]
<1>1. Has(k) => Place(k) \in DOMAIN owners /\ owners[Place(k)].key = k
  BY DEF Has, Place
<1>2. ASSUME NEW i \in DOMAIN owners, owners[i].key = k PROVE Has(k) /\ Entry(k) = owners[i]
  <2>1. Has(k) BY <1>2 DEF Has
  <2>2. Place(k) = i BY <1>1, <1>2, <2>1 DEF OneEntryEach
  <2> QED BY <2>1, <2>2 DEF Entry
<1> QED BY <1>1, <1>2 DEF Entry

LEMMA Removed ==
    ASSUME NEW S, NEW s \in Seq(S), NEW n \in DOMAIN s
    PROVE  /\ RemoveAt(s, n) \in Seq(S) /\ Len(RemoveAt(s, n)) = Len(s) - 1
           /\ \A i \in 1..(Len(s) - 1) : RemoveAt(s, n)[i] = IF i < n THEN s[i] ELSE s[i + 1]
<1>1. n \in 1..Len(s) /\ Len(s) \in Nat BY LenProperties
<1> DEFINE a == SubSeq(s, 1, n - 1)
           b == SubSeq(s, n + 1, Len(s))
<1>2. a \in Seq(S) /\ Len(a) = n - 1 /\ \A i \in 1..(n - 1) : a[i] = s[i]
  BY <1>1, SubSeqProperties
<1>3. b \in Seq(S) /\ Len(b) = Len(s) - n /\ \A i \in 1..(Len(s) - n) : b[i] = s[n + i]
  BY <1>1, SubSeqProperties
<1> HIDE DEF a, b
<1>4. /\ a \o b \in Seq(S) /\ Len(a \o b) = Len(s) - 1
      /\ \A i \in 1..(Len(s) - 1) : (a \o b)[i] = IF i <= n - 1 THEN a[i] ELSE b[i - (n - 1)]
  <2>1. Len(a) + Len(b) = Len(s) - 1 BY <1>1, <1>2, <1>3
  <2>2. /\ a \o b \in Seq(S) /\ Len(a \o b) = Len(a) + Len(b)
        /\ \A i \in 1..(Len(a) + Len(b)) :
             (a \o b)[i] = IF i <= Len(a) THEN a[i] ELSE b[i - Len(a)]
    BY <1>2, <1>3, ConcatProperties
  <2> QED BY <1>2, <2>1, <2>2
<1>5. ASSUME NEW i \in 1..(Len(s) - 1) PROVE (a \o b)[i] = IF i < n THEN s[i] ELSE s[i + 1]
  <2>1. CASE i <= n - 1
    <3>1. (a \o b)[i] = a[i] BY <1>4, <2>1
    <3>2. i \in 1..(n - 1) /\ i < n BY <1>1, <2>1
    <3> QED BY <1>2, <3>1, <3>2
  <2>2. CASE ~(i <= n - 1)
    <3>1. (a \o b)[i] = b[i - (n - 1)] BY <1>4, <2>2
    <3>2. i - (n - 1) \in 1..(Len(s) - n) /\ n + (i - (n - 1)) = i + 1 /\ ~(i < n)
      BY <1>1, <2>2
    <3>3. b[i - (n - 1)] = s[n + (i - (n - 1))] BY <1>3, <3>2
    <3> QED BY <3>1, <3>2, <3>3
  <2> QED BY <2>1, <2>2
<1> QED BY <1>4, <1>5 DEF RemoveAt, a, b

\* What a turn leaves of the map: its own entry, and of the others what was there.
LEMMA PutIs ==
    ASSUME owners \in Seq(EntrySet), OneEntryEach(owners), Len(owners) <= MaxSessions,
           NEW e \in EntrySet
    PROVE  /\ Put(e) \in Seq(EntrySet) /\ OneEntryEach(Put(e)) /\ Len(Put(e)) <= MaxSessions
           /\ \E i \in DOMAIN Put(e) : Put(e)[i] = e
           /\ \A i \in DOMAIN Put(e) :
                Put(e)[i] = e \/ (Put(e)[i].key # e.key /\ \E j \in DOMAIN owners : Put(e)[i] = owners[j])
<1> DEFINE others == Others(e.key)
           kept == Append(others, e)
           Known(q) == \A i \in DOMAIN q : q[i].key # e.key /\ \E j \in DOMAIN owners : q[i] = owners[j]
<1>1. Len(owners) \in Nat /\ DOMAIN owners = 1..Len(owners) BY LenProperties
<1>2. others \in Seq(EntrySet) /\ Len(others) <= MaxSessions /\ OneEntryEach(others) /\ Known(others)
  <2>1. CASE ~Has(e.key) BY <1>1, <2>1 DEF Others, Has
  <2>2. CASE Has(e.key)
    <3> DEFINE n == Place(e.key)
    <3>1. n \in DOMAIN owners /\ owners[n].key = e.key BY <2>2, TheEntry
    <3>2. others = RemoveAt(owners, n) BY <2>2 DEF Others
    <3> HIDE DEF n, others
    <3>3. /\ others \in Seq(EntrySet) /\ Len(others) = Len(owners) - 1
          /\ \A i \in 1..(Len(owners) - 1) : others[i] = IF i < n THEN owners[i] ELSE owners[i + 1]
      BY <3>1, <3>2, Removed
    <3>4. DOMAIN others = 1..(Len(owners) - 1) BY <3>3, LenProperties
    <3>5. ASSUME NEW i \in DOMAIN others
          PROVE  \E j \in DOMAIN owners : j = (IF i < n THEN i ELSE i + 1) /\ others[i] = owners[j] /\ j # n
      BY <1>1, <3>1, <3>3, <3>4
    <3>6. Known(others) BY <3>1, <3>5 DEF OneEntryEach
    <3>7. OneEntryEach(others)
      <4> SUFFICES ASSUME NEW i \in DOMAIN others, NEW j \in DOMAIN others,
                          others[i].key = others[j].key
                   PROVE  i = j
        BY DEF OneEntryEach
      <4>1. (IF i < n THEN i ELSE i + 1) = (IF j < n THEN j ELSE j + 1)
        BY <3>5 DEF OneEntryEach
      <4>2. i \in Nat /\ j \in Nat /\ n \in Nat BY <1>1, <3>1, <3>4
      <4> QED BY <4>1, <4>2
    <3>8. MaxSessions \in Nat BY GateAssumption
    <3> QED BY <1>1, <3>3, <3>6, <3>7, <3>8 DEF others
  <2> QED BY <2>1, <2>2
<1> DEFINE m == Len(others)
<1> HIDE DEF others
<1>3. m \in Nat /\ DOMAIN others = 1..m BY <1>2, LenProperties
<1>4. /\ kept \in Seq(EntrySet) /\ Len(kept) = m + 1 /\ DOMAIN kept = 1..(m + 1)
      /\ kept[m + 1] = e /\ \A i \in 1..m : kept[i] = others[i]
  BY <1>2, <1>3, AppendProperties, LenProperties
<1> HIDE DEF kept, m
<1>5. OneEntryEach(kept)
  <2> SUFFICES ASSUME NEW i \in 1..(m + 1), NEW j \in 1..(m + 1), kept[i].key = kept[j].key
               PROVE  i = j
    BY <1>4 DEF OneEntryEach
  <2>1. CASE i \in 1..m /\ j \in 1..m BY SMTT(30), <1>2, <1>3, <1>4, <2>1 DEF OneEntryEach
  <2>2. CASE i \in 1..m /\ j = m + 1 BY <1>2, <1>3, <1>4, <2>2
  <2>3. CASE i = m + 1 /\ j \in 1..m BY <1>2, <1>3, <1>4, <2>3
  <2> QED BY <1>3, <2>1, <2>2, <2>3
<1>6. \A i \in 1..(m + 1) :
         kept[i] = e \/ (kept[i].key # e.key /\ \E j \in DOMAIN owners : kept[i] = owners[j])
  BY <1>2, <1>3, <1>4
<1>7. MaxSessions \in Nat \ {0} BY GateAssumption
<1>8. CASE Len(kept) <= MaxSessions
  <2>1. Put(e) = kept BY <1>4, <1>3, <1>7, <1>8 DEF Put, kept, others
  <2>2. m + 1 \in DOMAIN kept BY <1>3, <1>4
  <2> QED BY <1>4, <1>5, <1>6, <1>8, <2>1, <2>2
<1>9. CASE ~(Len(kept) <= MaxSessions)
  <2>1. Put(e) = Tail(kept) BY <1>4, <1>3, <1>7, <1>9 DEF Put, kept, others
  <2>2. m >= 1 /\ m <= MaxSessions BY <1>2, <1>3, <1>4, <1>7, <1>9 DEF m
  <2>3. /\ Tail(kept) \in Seq(EntrySet) /\ Len(Tail(kept)) = m /\ DOMAIN Tail(kept) = 1..m
        /\ \A i \in 1..m : Tail(kept)[i] = kept[i + 1]
    <3>1. kept # <<>> BY <1>3, <1>4, EmptySeq
    <3> QED BY <1>3, <1>4, <3>1, HeadTailProperties, LenProperties
  <2> DEFINE q == Tail(kept)
  <2> HIDE DEF q
  <2>4. /\ q \in Seq(EntrySet) /\ Len(q) = m /\ DOMAIN q = 1..m /\ \A i \in 1..m : q[i] = kept[i + 1]
    BY <2>3 DEF q
  <2>5. OneEntryEach(q)
    <3> SUFFICES ASSUME NEW i \in 1..m, NEW j \in 1..m, q[i].key = q[j].key PROVE i = j
      BY <2>4 DEF OneEntryEach
    <3>1. i + 1 \in DOMAIN kept /\ j + 1 \in DOMAIN kept /\ kept[i + 1].key = kept[j + 1].key
      BY <1>3, <1>4, <2>4
    <3>2. i + 1 = j + 1 BY <1>5, <3>1 DEF OneEntryEach
    <3> QED BY <1>3, <3>2
  <2>6. \E i \in DOMAIN q : q[i] = e BY <1>3, <1>4, <2>2, <2>4
  <2>7. \A i \in DOMAIN q :
           q[i] = e \/ (q[i].key # e.key /\ \E j \in DOMAIN owners : q[i] = owners[j])
    <3>1. \A i \in 1..m : i + 1 \in 1..(m + 1) BY <1>3
    <3> QED BY <1>6, <2>4, <3>1
  <2> QED BY <2>1, <2>2, <2>4, <2>5, <2>6, <2>7 DEF q
<1> QED BY <1>8, <1>9

\* The map after an entry was put: the others keep theirs or are forgotten.
LEMMA EntriesAfter ==
    ASSUME GateInv, NEW e \in EntrySet, owners' = Put(e)
    PROVE  /\ (owners \in Seq(EntrySet) /\ OneEntryEach(owners) /\ Len(owners) <= MaxSessions)'
           /\ Has(e.key)' /\ Entry(e.key)' = e
           /\ \A k \in Keys \ {e.key} :
                Entry(k)' = IF Has(k)' THEN Entry(k) ELSE [key |-> k, owner |-> Nobody, refusals |-> 0]
<1>1. /\ (owners \in Seq(EntrySet) /\ OneEntryEach(owners) /\ Len(owners) <= MaxSessions)'
      /\ \E i \in DOMAIN owners' : owners'[i] = e
      /\ \A i \in DOMAIN owners' : owners'[i] = e
             \/ (owners'[i].key # e.key /\ \E j \in DOMAIN owners : owners'[i] = owners[j])
  <2>1. owners \in Seq(EntrySet) /\ OneEntryEach(owners) /\ Len(owners) <= MaxSessions BY DEF GateInv
  <2> DEFINE q == Put(e)
  <2>2. /\ q \in Seq(EntrySet) /\ OneEntryEach(q) /\ Len(q) <= MaxSessions
        /\ \E i \in DOMAIN q : q[i] = e
        /\ \A i \in DOMAIN q :
             q[i] = e \/ (q[i].key # e.key /\ \E j \in DOMAIN owners : q[i] = owners[j])
    BY <2>1, PutIs
  <2>3. owners' = q OBVIOUS
  <2> HIDE DEF q
  <2>4. (OneEntryEach(owners))' BY <2>2, <2>3 DEF OneEntryEach
  <2> QED BY <2>2, <2>3, <2>4
<1>2. \A k : /\ \A i \in DOMAIN owners' : owners'[i].key = k => Has(k)' /\ Entry(k)' = owners'[i]
             /\ Has(k)' => \E i \in DOMAIN owners' : owners'[i].key = k
             /\ ~Has(k)' => Entry(k)' = [key |-> k, owner |-> Nobody, refusals |-> 0]
  <2> SUFFICES ASSUME NEW k
               PROVE  /\ \A i \in DOMAIN owners' : owners'[i].key = k => Has(k)' /\ Entry(k)' = owners'[i]
                      /\ Has(k)' => \E i \in DOMAIN owners' : owners'[i].key = k
                      /\ ~Has(k)' => Entry(k)' = [key |-> k, owner |-> Nobody, refusals |-> 0]
    OBVIOUS
  <2>1. \A i, j \in DOMAIN owners' : owners'[i].key = owners'[j].key => i = j
    BY <1>1 DEF OneEntryEach
  <2>2. ASSUME NEW i \in DOMAIN owners', owners'[i].key = k PROVE Has(k)' /\ Entry(k)' = owners'[i]
    <3>1. Has(k)' BY <2>2 DEF Has
    <3>2. Place(k)' \in DOMAIN owners' /\ owners'[Place(k)'].key = k BY <2>2 DEF Place
    <3>3. Place(k)' = i BY <2>1, <2>2, <3>2
    <3> QED BY <3>1, <3>3 DEF Entry
  <2> QED BY <2>2 DEF Has, Entry
<1>3. ASSUME NEW k \in Keys \ {e.key}, Has(k)' PROVE Entry(k)' = Entry(k)
  <2>1. PICK i \in DOMAIN owners' : owners'[i].key = k BY <1>2, <1>3
  <2>2. PICK j \in DOMAIN owners : owners'[i] = owners[j] BY <1>1, <1>3, <2>1
  <2>3. Entry(k) = owners[j] BY <2>1, <2>2, TheEntry DEF GateInv
  <2> QED BY <1>2, <2>1, <2>2, <2>3
<1> QED BY <1>1, <1>2, <1>3

LEMMA EntryTyped ==
    ASSUME GateInv, NEW k \in Keys
    PROVE  Entry(k) \in EntrySet /\ Entry(k).key = k
<1>1. CASE Has(k)
  <2>1. Place(k) \in DOMAIN owners /\ owners[Place(k)].key = k BY <1>1, TheEntry DEF GateInv
  <2>2. owners[Place(k)] \in EntrySet BY <2>1, ElementOfSeq, LenProperties DEF GateInv
  <2> QED BY <1>1, <2>1, <2>2 DEF Entry
<1>2. CASE ~Has(k)
  BY <1>2, GateAssumption DEF Entry, EntrySet, Accounted
<1> QED BY <1>1, <1>2

\* The key a turn is counted under: the session it names, or its account.
LEMMA KeyIs ==
    ASSUME NEW session \in Sessions \cup {Nobody}, NEW acc \in Claude \cup ThirdParty
    PROVE  /\ KeyOf(session, acc) \in Keys /\ acc # Nobody /\ Nobody \notin Sessions
           /\ session # Nobody => KeyOf(session, acc) = session /\ session \in Sessions
           /\ session = Nobody => KeyOf(session, acc) = acc /\ acc \notin Sessions
BY GateAssumption DEF KeyOf, Keys, Nobody

\* A turn keeps the account of its session and of every other.
LEMMA TurnKeeps ==
    ASSUME GateInv, NEW session \in Sessions \cup {Nobody}, NEW acc \in Claude \cup ThirdParty,
           NEW what, Remember(session, acc, what),
           NEW e \in EntrySet, e.key = KeyOf(session, acc), owners' = Put(e),
           what # "refused" => e.refusals = 0 /\ e.owner = IF session = Nobody THEN Nobody ELSE acc,
           what = "refused" =>
             /\ e.owner = Entry(e.key).owner
             /\ e.refusals = IF Entry(e.key).refusals < MaxRefusals THEN Entry(e.key).refusals + 1
                                                                    ELSE Entry(e.key).refusals
    PROVE  GateInv'
<1> DEFINE key == KeyOf(session, acc)
<1>1. /\ key \in Keys /\ acc # Nobody /\ Nobody \notin Sessions
      /\ session # Nobody => key = session /\ session \in Sessions
      /\ session = Nobody => key = acc /\ acc \notin Sessions
  BY KeyIs
<1>2. e.key = key OBVIOUS
<1>3. /\ row' = [row EXCEPT ![key] = IF what # "refused" THEN 0
                                     ELSE IF @ < MaxRefusals THEN @ + 1 ELSE @]
      /\ \A s \in Sessions :
           holder'[s] = IF ~Has(s)' THEN Nobody
                        ELSE IF s = session /\ what # "refused" THEN acc ELSE holder[s]
  BY DEF Remember, Has
<1> HIDE DEF key
<1>4. /\ (owners \in Seq(EntrySet) /\ OneEntryEach(owners) /\ Len(owners) <= MaxSessions)'
      /\ Has(key)' /\ Entry(key)' = e
      /\ \A k \in Keys \ {key} :
           Entry(k)' = IF Has(k)' THEN Entry(k) ELSE [key |-> k, owner |-> Nobody, refusals |-> 0]
  BY <1>2, EntriesAfter
<1>5. MaxRefusals \in Nat \ {0} BY GateAssumption
<1>6. row[key] \in 0..MaxRefusals BY <1>1 DEF GateInv
<1>7. row' \in [Keys -> 0..MaxRefusals]
  <2>1. (IF row[key] < MaxRefusals THEN row[key] + 1 ELSE row[key]) \in 0..MaxRefusals
    BY <1>5, <1>6
  <2>2. row \in [Keys -> 0..MaxRefusals] /\ 0 \in 0..MaxRefusals BY <1>5 DEF GateInv
  <2> QED BY <1>3, <2>1, <2>2
<1>8. ASSUME NEW s \in Sessions PROVE holder'[s] = (Entry(s)').owner
  <2>1. s \in Keys /\ s # Nobody /\ holder[s] = Entry(s).owner BY <1>1, <1>8 DEF GateInv, Keys
  <2>2. CASE s = session
    <3>1. key = s BY <1>1, <2>1, <2>2
    <3> QED BY <1>2, <1>3, <1>4, <2>1, <2>2, <3>1
  <2>3. CASE s # session
    <3>1. s # key BY <1>1, <2>3
    <3>2. (Entry(s)').owner = IF Has(s)' THEN Entry(s).owner ELSE Nobody BY <1>4, <2>1, <3>1
    <3> QED BY <1>3, <2>1, <2>3, <3>2
  <2> QED BY <2>2, <2>3
<1>9. ASSUME NEW k \in Keys \ Sessions PROVE (Entry(k)').owner = Nobody
  <2>1. Entry(k).owner = Nobody BY DEF GateInv
  <2>2. CASE k = key BY <1>1, <1>2, <1>4, <2>1, <2>2
  <2>3. CASE k # key BY <1>4, <2>1, <2>3
  <2> QED BY <2>2, <2>3
<1>10. ASSUME NEW k \in Keys PROVE (Entry(k)').refusals <= row'[k]
  <2>1. Entry(k).refusals <= row[k] /\ row[k] \in 0..MaxRefusals BY DEF GateInv
  <2>2. Entry(k).refusals \in 0..MaxRefusals BY EntryTyped DEF EntrySet
  <2>3. CASE k = key
    <3>1. (Entry(k)').refusals = e.refusals BY <1>4, <2>3
    <3>2. row'[k] = IF what # "refused" THEN 0 ELSE IF row[k] < MaxRefusals THEN row[k] + 1 ELSE row[k]
      BY <1>1, <1>3, <2>3 DEF GateInv
    <3>3. CASE what # "refused" BY <3>1, <3>2, <3>3
    <3>4. CASE what = "refused"
      <4>1. e.refusals = IF Entry(k).refusals < MaxRefusals THEN Entry(k).refusals + 1
                                                           ELSE Entry(k).refusals
        BY <1>2, <2>3, <3>4
      <4>2. row'[k] = IF row[k] < MaxRefusals THEN row[k] + 1 ELSE row[k] BY <3>2, <3>4
      <4> QED BY <1>5, <2>1, <2>2, <3>1, <4>1, <4>2
    <3> QED BY <3>3, <3>4
  <2>4. CASE k # key
    <3>1. row'[k] = row[k] BY <1>3, <2>4 DEF GateInv
    <3>2. (Entry(k)').refusals \in {Entry(k).refusals, 0} BY <1>4, <2>4
    <3> QED BY <2>1, <2>2, <3>1, <3>2
  <2> QED BY <2>3, <2>4
<1> QED BY <1>4, <1>7, <1>8, <1>9, <1>10 DEF GateInv

LEMMA InitGate == GateInit => GateInv /\ ThreadIsHeld
<1> SUFFICES ASSUME GateInit PROVE GateInv /\ ThreadIsHeld OBVIOUS
<1>1. owners = <<>> /\ DOMAIN owners = {} BY DEF GateInit
<1>2. \A k : Entry(k) = [key |-> k, owner |-> Nobody, refusals |-> 0] BY <1>1 DEF Entry, Has
<1>3. MaxSessions \in Nat \ {0} /\ MaxRefusals \in Nat \ {0} BY GateAssumption
<1>4. owners \in Seq(EntrySet) /\ OneEntryEach(owners) /\ Len(owners) <= MaxSessions
  BY <1>1, <1>3 DEF OneEntryEach
<1>5. row \in [Keys -> 0..MaxRefusals] /\ \A k \in Keys : row[k] = 0 BY <1>3 DEF GateInit
<1>6. \A s \in Sessions : holder[s] = Nobody BY DEF GateInit
<1>7. ThreadIsHeld BY DEF GateInit, ThreadIsHeld
<1> QED BY <1>2, <1>4, <1>5, <1>6, <1>7 DEF GateInv

LEMMA NextGate == GateInv /\ ThreadIsHeld /\ [GateNext]_gvars => GateInv' /\ ThreadIsHeld'
<1> SUFFICES ASSUME GateInv, ThreadIsHeld, [GateNext]_gvars PROVE GateInv' /\ ThreadIsHeld'
  OBVIOUS
<1>1. CASE UNCHANGED gvars
  BY <1>1 DEF gvars, GateInv, OneEntryEach, Entry, Has, Place, ThreadIsHeld
<1>2. ASSUME NEW session \in Sessions \cup {Nobody}, NEW acc \in Claude \cup ThirdParty,
             \/ Create(session, acc) \/ Continue(session, acc) \/ Refuse(session, acc)
      PROVE  GateInv' /\ ThreadIsHeld'
  <2> DEFINE key == KeyOf(session, acc)
  <2>1. /\ key \in Keys /\ acc # Nobody /\ Nobody \notin Sessions
        /\ session # Nobody => key = session /\ session \in Sessions
        /\ session = Nobody => key = acc /\ acc \in Keys \ Sessions
    BY KeyIs
  <2>2. MaxRefusals \in Nat \ {0} BY GateAssumption
  <2>3. /\ Entry(key) \in EntrySet /\ Entry(key).key = key
        /\ Entry(key).refusals <= row[key] /\ row[key] \in 0..MaxRefusals
        /\ session # Nobody => holder[session] = Entry(key).owner
        /\ session = Nobody => Entry(key).owner = Nobody
    BY <2>1, EntryTyped DEF GateInv
  <2>4. Entry(key).refusals \in 0..MaxRefusals /\ Entry(key).owner \in Accounted BY <2>3 DEF EntrySet
  <2>5. ASSUME NEW what, Remember(session, acc, what)
        PROVE  /\ last'.what = what /\ last'.claude = (acc \in Claude) /\ last'.row = row[key]
               /\ last'.held = (session # Nobody /\ holder[session] = acc)
    BY <2>5 DEF Remember
  <2>6. ASSUME Served(session, acc), NEW what \in {"created", "continued"},
               Remember(session, acc, what)
        PROVE  GateInv'
    <3> DEFINE e == [key |-> key, refusals |-> 0, owner |-> IF session = Nobody THEN Nobody ELSE acc]
    <3>1. e \in EntrySet BY <2>1, <2>2 DEF EntrySet, Accounted
    <3>2. owners' = Put(e) BY <2>6 DEF Served
    <3>3. e.key = key /\ e.refusals = 0 /\ e.owner = IF session = Nobody THEN Nobody ELSE acc
      OBVIOUS
    <3> HIDE DEF e
    <3> QED BY <2>6, <3>1, <3>2, <3>3, TurnKeeps
  <2>7. CASE Create(session, acc)
    <3>1. Served(session, acc) /\ Remember(session, acc, "created") BY <2>7 DEF Create
    <3>2. GateInv' BY <2>6, <3>1
    <3>3. last'.what = "created" BY <2>5, <3>1
    <3> QED BY <3>2, <3>3 DEF ThreadIsHeld
  <2>8. CASE Continue(session, acc)
    <3>1. /\ Served(session, acc) /\ Remember(session, acc, "continued")
          /\ ~ShouldRefuse(key, acc)
      BY <2>8 DEF Continue
    <3>2. GateInv' BY <2>6, <3>1
    <3>3. acc \in Claude /\ (Entry(key).owner = acc \/ ~(Entry(key).refusals < MaxRefusals))
      BY <3>1 DEF ShouldRefuse
    <3>4. (session # Nobody /\ holder[session] = acc) \/ row[key] = MaxRefusals
      BY <2>1, <2>2, <2>3, <2>4, <3>3
    <3>5. last'.what = "continued" /\ last'.claude /\ (last'.held \/ last'.row = MaxRefusals)
      BY <2>5, <3>1, <3>3, <3>4
    <3> QED BY <3>2, <3>5 DEF ThreadIsHeld
  <2>9. CASE Refuse(session, acc)
    <3>1. /\ Refused(session, acc) /\ Remember(session, acc, "refused")
          /\ ShouldRefuse(key, acc)
      BY <2>9 DEF Refuse
    <3>2. GateInv'
      <4> DEFINE n == IF Entry(key).refusals < MaxRefusals THEN Entry(key).refusals + 1
                                                          ELSE Entry(key).refusals
                 e == [Entry(key) EXCEPT !.refusals = n]
      <4>1. n \in 0..MaxRefusals BY <2>2, <2>4
      <4>2. owners' = Put(e) BY <3>1 DEF Refused
      <4>3. /\ e \in EntrySet /\ e.key = key /\ e.refusals = n /\ e.owner = Entry(key).owner
        <5> HIDE DEF n
        <5> QED BY <2>3, <4>1 DEF EntrySet
      <4> HIDE DEF e
      <4> QED BY <3>1, <4>2, <4>3, TurnKeeps
    <3>3. ~(acc \in Claude) \/ ~(session # Nobody /\ holder[session] = acc)
      <4>1. CASE acc \in ThirdParty BY <4>1, GateAssumption
      <4>2. CASE ~(Has(key) /\ Entry(key).owner = acc)
        <5>1. Entry(key).owner = acc => Has(key) BY <2>1 DEF Entry
        <5> QED BY <2>3, <4>2, <5>1
      <4> QED BY <3>1, <4>1, <4>2 DEF ShouldRefuse
    <3>4. last'.what = "refused" /\ (~last'.claude \/ ~last'.held) BY <2>5, <3>1, <3>3
    <3> QED BY <3>2, <3>4 DEF ThreadIsHeld
  <2> QED BY <1>2, <2>7, <2>8, <2>9
<1> QED BY <1>1, <1>2 DEF GateNext

(* A turn that names a thread reaches only a Claude account, and one that  *)
(* holds the thread, unless the client has ignored the refusals one after  *)
(* the other; and the account that holds it is never told to refuse:       *)
(* thread-gate.js and its use in server.js, whatever a full map forgets.   *)
THEOREM TheHolderIsAsked == GateSpec => []ThreadIsHeld
BY InitGate, NextGate, PTL DEF GateSpec

(* The map never outgrows its bound and holds accounts that were given a    *)
(* turn: thread-gate.js.                                                    *)
THEOREM GateTypes == GateSpec => []GateTypeOK
<1>1. GateInit => GateTypeOK
  BY GateAssumption DEF GateInit, GateTypeOK, Keys
<1>2. GateInv /\ GateInv' /\ GateTypeOK /\ [GateNext]_gvars => GateTypeOK'
  <2> SUFFICES ASSUME GateInv, GateInv', GateTypeOK, [GateNext]_gvars PROVE GateTypeOK'
    OBVIOUS
  <2>1. /\ owners' \in Seq(EntrySet) /\ Len(owners') <= MaxSessions
        /\ row' \in [Keys -> 0..MaxRefusals]
    BY DEF GateInv, EntrySet, Accounted, Keys, Nobody
  <2>2. CASE UNCHANGED gvars BY <2>2 DEF gvars, GateTypeOK, Keys, Nobody
  <2>3. ASSUME NEW session \in Sessions \cup {Nobody}, NEW acc \in Claude \cup ThirdParty,
               NEW what, Remember(session, acc, what)
        PROVE  /\ holder' \in [Sessions -> Accounted] /\ last'.row \in 0..MaxRefusals
    <3>1. \A s \in Sessions : holder[s] \in Accounted BY DEF GateTypeOK, Accounted
    <3>2. KeyOf(session, acc) \in Keys BY KeyIs
    <3>3. row[KeyOf(session, acc)] \in 0..MaxRefusals BY <3>2 DEF GateTypeOK
    <3>4. last'.row = row[KeyOf(session, acc)] BY <2>3 DEF Remember
    <3>5. holder' \in [Sessions -> Accounted]
      <4>1. Nobody \in Accounted /\ acc \in Accounted BY DEF Accounted
      <4>2. \E kept : holder' = [s \in Sessions |->
                 IF s \notin kept THEN Nobody
                 ELSE IF s = session /\ what # "refused" THEN acc ELSE holder[s]]
        BY <2>3 DEF Remember
      <4> QED BY <3>1, <4>1, <4>2
    <3> QED BY <3>3, <3>4, <3>5
  <2>4. CASE GateNext
    <3>1. \E session \in Sessions \cup {Nobody}, acc \in Claude \cup ThirdParty :
             \E what : Remember(session, acc, what)
      BY <2>4 DEF GateNext, Create, Continue, Refuse
    <3>2. holder' \in [Sessions -> Accounted] /\ last'.row \in 0..MaxRefusals BY <2>3, <3>1
    <3> QED BY <2>1, <3>2 DEF GateTypeOK, EntrySet, Accounted
  <2> QED BY <2>2, <2>4
<1> QED BY InitGate, NextGate, <1>1, <1>2, PTL DEF GateSpec

(* ---- The services together -------------------------------------------------- *)
(***************************************************************************)
(* The run checks the services in one state space, one of them at a time.  *)
(***************************************************************************)
LEMMA EachStepsAlone ==
    [Next]_vars =>
        /\ [RestartNext]_rvars /\ [StateNext]_svars /\ [LedgerNext]_lvars /\ [PoolNext]_pvars
        /\ [ProberNext]_bvars /\ [GateNext]_gvars /\ [RouteNext]_fvars
        /\ UNCHANGED focus
  BY DEF Next, vars

(* A behaviour of the run is a behaviour of each service, so all that is   *)
(* proved of a service holds in the run, whichever of them moves.          *)
THEOREM EachRunsAlone ==
    Spec => /\ RestartSpec /\ StateSpec /\ LedgerSpec /\ PoolSpec
            /\ ProberSpec /\ GateSpec /\ RouteSpec
<1>1. Init => /\ RestartInit /\ StateInit /\ LedgerInit /\ PoolInit
              /\ ProberInit /\ GateInit /\ RouteInit
  BY DEF Init
<1> QED BY <1>1, EachStepsAlone, PTL
        DEF Spec, RestartSpec, StateSpec, LedgerSpec, PoolSpec, ProberSpec, GateSpec, RouteSpec

(* Every service has the type that its module states, whichever moves.     *)
THEOREM ServicesTyped == Spec => []TypeOK
<1>1. Init => focus \in Parts BY DEF Init
<1>2. focus \in Parts /\ [Next]_vars => (focus \in Parts)' BY EachStepsAlone
<1>3. focus \in Parts /\ RestartTypeOK /\ StateTypeOK /\ LedgerTypeOK /\ PoolTypeOK
        /\ ProberTypeOK /\ GateTypeOK /\ RouteTypeOK => TypeOK
  BY DEF Parts, TypeOK
<1> QED BY EachRunsAlone, RestartTypes, StateFileTypes, LedgerTypes, PoolTypes, ProberTypes,
           GateTypes, RouteTypes, <1>1, <1>2, <1>3, PTL DEF Spec
=============================================================================
