------------------------------ MODULE MCDaemon ------------------------------
(* Instances of Daemon for TLC.  Requests are model values, keys too.       *)
EXTENDS Daemon, TLC

CONSTANTS k1, k2, k3, c1, c2

ThreeKeys == {k1, k2, k3}
TwoKeys == {k1, k2}
OneClient == {c1}
TwoClients == {c1, c2}

(* Any request about any key. *)
AnyKey == [c \in Clients |-> Keys]

(* Nothing is asked of these keys. *)
NoneOf == [c \in Clients |-> {}]

(* Each key is asked for by one client only: no two requests are about the *)
(* same target at the same time.                                           *)
OwnKeys == [c \in Clients |-> IF c = c1 THEN {k1, k3} ELSE {k2}]

(* One client opens connections, to any key; the others only close them. *)
OneOpener == [c \in Clients |-> IF c = c1 THEN Keys ELSE {}]

NoFaults == {}
AllFaults == FaultKinds
MastersDie == {"die"}

KeySymmetry == Permutations(Keys)
=============================================================================
