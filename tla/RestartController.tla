------------------------- MODULE RestartController -------------------------
(***************************************************************************)
(* restart-controller.js and the worker's end of a reload in index.js:     *)
(* what refuses new requests while a restart is under way, what it waits   *)
(* for, and what takes the refusal back when the reload does not happen.   *)
(*                                                                         *)
(* The controller and the flags of index.js that go with it are one        *)
(* record, `ctl'; the operators below are the methods, each from a record  *)
(* to the next.  The supervisor is reduced to the verdict it gives.        *)
(***************************************************************************)
EXTENDS Naturals, FiniteSets

CONSTANTS
    Calls,        \* the requests the worker may be asked to serve
    MaxRestarts   \* bound: restarts asked for in a behaviour

ASSUME RestartAssumption == MaxRestarts \in Nat

VARIABLES
    ctl,          \* the controller
    supervised,   \* reloadStrategy: the worker has a supervisor to reload it
    swap,         \* what the supervisor is doing about it
    worker,       \* "serving", "released" to drain, "quitting", "cold" or "gone"
    restarts      \* restarts asked for

rvars == <<ctl, supervised, swap, worker, restarts>>

Reasons == {"none", "timeout", "failed"}

Controller == [active: SUBSET Calls, upstream: SUBSET Calls,
               pending: BOOLEAN, restarting: BOOLEAN, paused: BOOLEAN,
               drainTimer: BOOLEAN,    \* _drainTimer is armed
               watchdog: BOOLEAN,      \* reloadWatchdog is armed
               forUpdate: BOOLEAN,     \* reloadIsForUpdate
               reason: Reasons]        \* lastRollbackReason

RestartInit ==
    /\ ctl = [active |-> {}, upstream |-> {}, pending |-> FALSE,
              restarting |-> FALSE, paused |-> FALSE, drainTimer |-> FALSE,
              watchdog |-> FALSE, forUpdate |-> FALSE, reason |-> "none"]
    /\ supervised \in BOOLEAN
    /\ swap = "none"
    /\ worker = "serving"
    /\ restarts = 0

(***************************************************************************)
(* _restart and requestReload: the latch is set, then either the           *)
(* supervisor is asked to swap the worker, with a watchdog in case it does *)
(* not, or the worker restarts at once.  A channel that is gone makes the  *)
(* first into the second.                                                  *)
(***************************************************************************)
Latched(c) == [c EXCEPT !.restarting = TRUE, !.pending = FALSE, !.drainTimer = FALSE]

Reload(c) ==
    \/ /\ worker # "serving"                        \* draining: requestReload returns
       /\ ctl' = c
       /\ UNCHANGED <<swap, worker>>
    \/ /\ worker = "serving" /\ supervised
       /\ ctl' = [c EXCEPT !.watchdog = TRUE, !.reason = "none"]
       /\ swap' = "booting"
       /\ UNCHANGED worker
    \/ /\ worker = "serving"
       /\ ctl' = c
       /\ worker' = "cold"
       /\ UNCHANGED swap

Restart(c) == Reload(Latched(c))

\* (mutant: the request that leaves is not taken off the upstream ones first)
MaybeRestart_Lags(c) ==
    IF ctl.pending /\ ~ctl.restarting /\ ctl.upstream = {}
    THEN Restart(c)
    ELSE ctl' = c /\ UNCHANGED <<swap, worker>>
\* _maybeRestart
MaybeRestart(c) ==
    IF c.pending /\ ~c.restarting /\ c.upstream = {}
    THEN Restart(c)
    ELSE ctl' = c /\ UNCHANGED <<swap, worker>>

(***************************************************************************)
(* Requests: onRequestStart, onRequestRouted and onRequestEnd              *)
(***************************************************************************)
Started(q) ==
    /\ worker # "gone" /\ q \notin ctl.active
    /\ ~ctl.pending /\ ~ctl.restarting              \* else 503, restart_in_progress
    /\ ctl' = [ctl EXCEPT !.active = @ \cup {q}]
    /\ UNCHANGED <<supervised, swap, worker, restarts>>

\* to an account, or back to "(queued)" or "(none available)"
Routed(q, toUpstream) ==
    /\ q \in ctl.active
    /\ MaybeRestart([ctl EXCEPT !.upstream = IF toUpstream THEN @ \cup {q} ELSE @ \ {q}])
    /\ UNCHANGED <<supervised, restarts>>

\* (mutant: a request that ends is still counted with the upstream ones)
Finished_Upstream(q) ==
    /\ q \in ctl.active
    /\ MaybeRestart([ctl EXCEPT !.active = @ \ {q}])
    /\ UNCHANGED <<supervised, restarts>>
Finished(q) ==
    /\ q \in ctl.active
    /\ MaybeRestart([ctl EXCEPT !.active = @ \ {q}, !.upstream = @ \ {q}])
    /\ UNCHANGED <<supervised, restarts>>

(***************************************************************************)
(* requestRestart: the operator, a signal, or an update that is ready.  A  *)
(* seamless restart neither pauses nor waits; a cold one pauses admission  *)
(* and waits for the requests that are with an upstream.                   *)
(***************************************************************************)
RequestRestart(forUpdate) ==
    LET c == [ctl EXCEPT !.forUpdate = @ \/ forUpdate]
        p == [c EXCEPT !.paused = TRUE]
    IN
    /\ restarts < MaxRestarts /\ worker # "gone"
    /\ restarts' = restarts + 1
    /\ IF c.restarting \/ c.pending
       THEN ctl' = c /\ UNCHANGED <<swap, worker>>
       ELSE IF supervised
       THEN Restart(c)
       ELSE IF p.upstream = {}
       THEN Restart(p)
       ELSE /\ ctl' = [p EXCEPT !.pending = TRUE, !.drainTimer = TRUE]
            /\ UNCHANGED <<swap, worker>>
    /\ UNCHANGED supervised

DrainTimesOut ==
    /\ worker # "gone" /\ ctl.drainTimer
    /\ IF ctl.pending /\ ~ctl.restarting
       THEN Restart(ctl)
       ELSE ctl' = [ctl EXCEPT !.drainTimer = FALSE] /\ UNCHANGED <<swap, worker>>
    /\ UNCHANGED <<supervised, restarts>>

(***************************************************************************)
(* cancelRestart, and the watchdog that calls it: a worker that nobody     *)
(* released serves again.  It restarts cold instead when the reload was    *)
(* for an update and the new worker was only slow.                         *)
(***************************************************************************)
\* (mutant: the latch of a restart that has begun is left on)
Cancelled_PendingOnly(c) ==
    IF ~c.pending /\ ~c.restarting THEN c
    ELSE [c EXCEPT !.pending = FALSE, !.drainTimer = FALSE, !.paused = FALSE]
Cancelled(c) ==
    IF ~c.pending /\ ~c.restarting THEN c
    ELSE [c EXCEPT !.pending = FALSE, !.restarting = FALSE,
                   !.drainTimer = FALSE, !.paused = FALSE]

WatchdogFires ==
    LET c == [ctl EXCEPT !.watchdog = FALSE] IN
    /\ worker # "gone" /\ ctl.watchdog
    /\ IF worker # "serving"
       THEN ctl' = c /\ UNCHANGED worker
       ELSE /\ ctl' = Cancelled(c)
            /\ worker' = IF c.forUpdate /\ c.reason = "timeout" THEN "cold" ELSE worker
    /\ UNCHANGED <<supervised, swap, restarts>>

(***************************************************************************)
(* The supervisor releases the worker, or rolls the reload back            *)
(***************************************************************************)
RollsBack(reason) ==
    /\ swap = "booting" /\ worker # "gone"
    /\ swap' = "none"
    /\ ctl' = [ctl EXCEPT !.reason = reason]
    /\ UNCHANGED <<supervised, worker, restarts>>

Release ==
    /\ swap = "booting" /\ worker = "serving"
    /\ swap' = "released"
    /\ worker' = "released"
    /\ ctl' = [ctl EXCEPT !.watchdog = FALSE]
    /\ UNCHANGED <<supervised, restarts>>

Quits ==
    /\ worker = "serving"
    /\ worker' = "quitting"
    /\ UNCHANGED <<ctl, supervised, swap, restarts>>

\* a released or quitting worker leaves when it is idle or its time is up, a
\* worker that restarts cold once its last writes are out
Exits ==
    /\ worker \in {"released", "quitting", "cold"}
    /\ worker' = "gone"
    /\ ctl' = [ctl EXCEPT !.active = {}, !.upstream = {}]
    /\ UNCHANGED <<supervised, swap, restarts>>

RestartNext ==
    \/ \E q \in Calls : Started(q) \/ Finished(q)
    \/ \E q \in Calls, up \in BOOLEAN : Routed(q, up)
    \/ \E update \in BOOLEAN : RequestRestart(update)
    \/ DrainTimesOut \/ WatchdogFires
    \/ \E reason \in {"timeout", "failed"} : RollsBack(reason)
    \/ Release \/ Quits \/ Exits

\* timers fire; the supervisor and the clients promise nothing
RestartFairness == WF_rvars(DrainTimesOut) /\ WF_rvars(WatchdogFires)

RestartSpec == RestartInit /\ [][RestartNext]_rvars /\ RestartFairness

(***************************************************************************)
(* Properties                                                              *)
(***************************************************************************)
RestartTypeOK ==
    /\ ctl \in Controller
    /\ ctl.upstream \subseteq ctl.active
    /\ supervised \in BOOLEAN
    /\ swap \in {"none", "booting", "released"}
    /\ worker \in {"serving", "released", "quitting", "cold", "gone"}
    /\ restarts \in 0..MaxRestarts

(* A worker that serves refuses requests, or keeps admission paused, only  *)
(* while something is armed that will end it: the watchdog of a reload, or *)
(* the timer of a drain that still has a request to wait for.              *)
NoOrphanedLatch ==
    worker = "serving" =>
        /\ ctl.restarting => ctl.watchdog
        /\ ctl.pending => ctl.drainTimer /\ ctl.upstream # {}
        /\ ctl.paused => ctl.pending

(* A restart that was asked for comes to an end: the worker is replaced or *)
(* on its way out, or it takes requests again.                             *)
RestartSettles ==
    (ctl.pending \/ ctl.restarting) ~> (worker # "serving" \/ ~(ctl.pending \/ ctl.restarting))
=============================================================================
