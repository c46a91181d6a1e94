-------------------------- MODULE MCAnchorBuilder --------------------------
(***************************************************************************)
(* Drand rounds of 4 s, blocks of 2 s; the clocks may be 3 s + 1 round, or *)
(* 2 blocks + 1 round, apart. A fetch is given up after 2 s without a      *)
(* connection or 2 s without another part of the answer; the 12 s in which *)
(* builds may follow each other hold builds that are quick enough for the  *)
(* tolerances, builds that are not, and servers that trickle until the end.*)
(* The system clock is right, off by less than the tolerance, by exactly   *)
(* as much, by just more, or far off to before the epoch.                  *)
(***************************************************************************)
EXTENDS AnchorBuilder

Ahead(n) == [ahead |-> n, behind |-> 0]
Behind(n) == [ahead |-> 0, behind |-> n]
MCClocks == {Ahead(n) : n \in {0, 2, 8}} \cup {Behind(n) : n \in {7, 12, 99}}
=============================================================================
