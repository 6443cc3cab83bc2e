---------------------------- MODULE MCForwarding ----------------------------
(***************************************************************************)
(* Two requests of one session, one of them streaming and of a profile     *)
(* that providers may serve, over fleets of one or two accounts.  Each     *)
(* world lets a few faults happen, as often as they like: together they    *)
(* hold every fault, in the fleets where it has the most to disturb.       *)
(***************************************************************************)
EXTENDS Forwarding

CONSTANTS c1, c2, p1, m1

Pairs       == {Request}
World(f, x) == [fleet |-> f, faults |-> x]

MCWorlds ==
  {World({c1, c2}, {"overload"}), World({c1, c2}, {"ambiguous", "leave"}),
   World({c1, p1}, {"mend", "limit"}),     World({c1, p1}, {"token", "network", "leave"}),
   World({c1, p1}, {"auth", "reroute", "server"}),
   World({c1, p1}, {"refuse", "reject", "limit"}),
   World({c1, p1}, {"throw", "thread", "overload"}),
   World({c1, m1}, {"network", "limit"}),  World({c1, m1}, {"leave", "overload"})}

RefusalWorlds == {World({c1, p1}, {"refuse"})}
=============================================================================
