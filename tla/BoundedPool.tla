----------------------------- MODULE BoundedPool -----------------------------
(***************************************************************************)
(* What the connection table promises the rest of the program: a set of    *)
(* open connections that never exceeds its capacity, that admits one new   *)
(* connection at a time and only when there is room, and that gives one up *)
(* before it takes another.  `maxConnections` in the configuration is this *)
(* promise.                                                                *)
(***************************************************************************)
EXTENDS Naturals, FiniteSets

CONSTANTS Keys, Capacity

VARIABLE open

Init == open = {}

Admit(k) ==
  /\ k \notin open
  /\ Cardinality(open) < Capacity
  /\ open' = open \cup {k}

Release(k) ==
  /\ k \in open
  /\ open' = open \ {k}

(* The process ends, and the pool with it. *)
Clear == open' = {}

Next == \/ \E k \in Keys : Admit(k) \/ Release(k)
        \/ Clear

Spec == Init /\ [][Next]_open
==============================================================================
