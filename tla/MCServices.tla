----------------------------- MODULE MCServices -----------------------------
(* The worker's parts beside the requests, for TLC.  They meet only through   *)
(* what each of them takes from its environment, so a behaviour is about one  *)
(* of them, the focus, and the others stand still in their initial state.     *)
EXTENDS RestartController, StateFile, CapacityLedger, PoolLinks, Prober, ThreadGate, Routing

VARIABLE focus

Parts == {"restart", "state", "ledger", "links", "prober", "threads", "routing"}

\* Where a part has several initial states, only the focus ranges over them.
Init ==
  /\ focus \in Parts
  /\ RestartInit /\ (focus = "restart" \/ supervised)
  /\ LedgerInit /\ (focus = "ledger" \/ account.type = "oauth")
  /\ PoolInit /\ (focus = "links" \/ remote = [l \in Links |-> {}])
  /\ StateInit /\ ProberInit /\ GateInit
  /\ RouteInit /\ (focus = "routing" \/ fleet = <<>>)

Next ==
  \/ focus = "restart" /\ RestartNext /\ UNCHANGED <<svars, lvars, pvars, bvars, gvars, fvars, focus>>
  \/ focus = "state" /\ StateNext /\ UNCHANGED <<rvars, lvars, pvars, bvars, gvars, fvars, focus>>
  \/ focus = "ledger" /\ LedgerNext /\ UNCHANGED <<rvars, svars, pvars, bvars, gvars, fvars, focus>>
  \/ focus = "links" /\ PoolNext /\ UNCHANGED <<rvars, svars, lvars, bvars, gvars, fvars, focus>>
  \/ focus = "prober" /\ ProberNext /\ UNCHANGED <<rvars, svars, lvars, pvars, gvars, fvars, focus>>
  \/ focus = "threads" /\ GateNext /\ UNCHANGED <<rvars, svars, lvars, pvars, bvars, fvars, focus>>
  \/ focus = "routing" /\ RouteNext /\ UNCHANGED <<rvars, svars, lvars, pvars, bvars, gvars, focus>>

vars == <<rvars, svars, lvars, pvars, bvars, gvars, fvars, focus>>

Spec == Init /\ [][Next]_vars /\ RestartFairness

\* Every part has the type its module states; one that stands still keeps it.
TypeOK ==
  CASE focus = "restart" -> RestartTypeOK
    [] focus = "state" -> StateTypeOK
    [] focus = "ledger" -> LedgerTypeOK
    [] focus = "links" -> PoolTypeOK
    [] focus = "prober" -> ProberTypeOK
    [] focus = "threads" -> GateTypeOK
    [] focus = "routing" -> RouteTypeOK
=============================================================================
