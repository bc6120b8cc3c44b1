----------------------------- MODULE MCPlugins -----------------------------
(***************************************************************************)
(* Plugins with a file for each way a plugin can behave.                   *)
(***************************************************************************)
EXTENDS Plugins

MCFiles == {"notify", "log", "watch", "broken", "malformed"}

(* notify wants failures only; no list means all events.                    *)
MCEvents == [f \in MCFiles |-> IF f = "notify" THEN {"AuthenticationFailed"} ELSE {}]
=============================================================================
