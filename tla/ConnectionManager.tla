-------------------------- MODULE ConnectionManager --------------------------
(***************************************************************************)
(* The operations of ConnectionManager (crates/daemon/src/                 *)
(* connection_manager.rs) as operators on a table: a function from the     *)
(* managed keys to the time each was last used.  Every method takes the    *)
(* DashMap shard lock for its own duration only, so each operator is used  *)
(* as one atomic step and nothing is held between two of them.             *)
(*                                                                         *)
(* What is left out of a ManagedConnection: the target and the control     *)
(* socket, which are functions of the key (control_socket_path hashes it); *)
(* pid, created_at, reused_count and last_latency_ms, which nothing        *)
(* decides on; and `healthy`, which every caller sets to true.             *)
(***************************************************************************)
EXTENDS Naturals, FiniteSets

(* A table over some of keys, with no stamp later than now. *)
IsTable(table, keys, now) ==
  /\ DOMAIN table \subseteq keys
  /\ IsFiniteSet(DOMAIN table)
  /\ table \in [DOMAIN table -> 0..now]

EmptyTable == [k \in {} |-> 0]

Size(table) == Cardinality(DOMAIN table)

(* Seeded fault: the stamp is rounded up to the next second. *)
InsertNew_RoundsUp(table, key, now) ==
  [k \in DOMAIN table \cup {key} |-> IF k = key THEN now + 1 ELSE table[k]]

InsertNew(table, key, now) ==
  [k \in DOMAIN table \cup {key} |-> IF k = key THEN now ELSE table[k]]

(* mark_reused and touch both stamp an entry that is still there, and do   *)
(* nothing when it has gone.                                               *)
Touch(table, key, now) ==
  [k \in DOMAIN table |-> IF k = key THEN now ELSE table[k]]

Remove(table, key) == [k \in DOMAIN table \ {key} |-> table[k]]

(* Seeded fault: max_by_key. *)
MostRecentlyUsed(table) ==
  {k \in DOMAIN table : \A other \in DOMAIN table : table[k] >= table[other]}

(* min_by_key over the iteration order of the DashMap: with equal stamps   *)
(* (they are whole seconds) any of the oldest may come first.              *)
LeastRecentlyUsed(table) ==
  {k \in DOMAIN table : \A other \in DOMAIN table : table[k] <= table[other]}
==============================================================================
