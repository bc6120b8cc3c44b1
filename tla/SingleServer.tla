---------------------------- MODULE SingleServer ----------------------------
(***************************************************************************)
(* What the daemon's socket promises the commands that use it: the path is *)
(* taken by one daemon at a time, it leads to that daemon for as long as   *)
(* it is in service, and nobody takes it over from a daemon that is.  A    *)
(* daemon that goes in order leaves no path behind; one that crashes does, *)
(* and it is cleared away before the next one takes its place.             *)
(***************************************************************************)
CONSTANTS Daemons, Nobody

VARIABLES
  serving, \* the daemons in service
  path     \* the daemon the path leads to

Init == serving = {} /\ path = Nobody

Take(d) ==
  /\ serving = {}
  /\ path = Nobody
  /\ serving' = {d}
  /\ path' = d

GiveUp(d) ==
  /\ serving = {d}
  /\ serving' = {}
  /\ path' = Nobody

Vanish(d) ==
  /\ serving = {d}
  /\ serving' = {}
  /\ UNCHANGED path

ClearAway ==
  /\ serving = {}
  /\ path' = Nobody
  /\ UNCHANGED serving

Next == \/ \E d \in Daemons : Take(d) \/ GiveUp(d) \/ Vanish(d)
        \/ ClearAway

Spec == Init /\ [][Next]_<<serving, path>>
=============================================================================
