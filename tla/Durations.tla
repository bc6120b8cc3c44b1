----------------------------- MODULE Durations -----------------------------
(***************************************************************************)
(* The durations of config.yaml, healthCheck and persistTime:              *)
(* parse_duration of crates/config.  What refuses to be read is replaced   *)
(* by a default where it is used, in the health loop (30 seconds) and for  *)
(* ControlPersist (600).                                                   *)
(***************************************************************************)
EXTENDS Texts

CONSTANTS MaxU64,        \* u64::MAX, scaled down
          Wide           \* the characters of more than one byte

ASSUME DurationAssumption == MaxU64 \in Nat

SecondsPer == [unit \in {"s", "m", "h"} |->
                 CASE unit = "s" -> 1 [] unit = "m" -> 60 [] unit = "h" -> 3600]

Ok(secs) == [kind |-> "ok", secs |-> secs]
Refused == [kind |-> "refused"]
Panic == [kind |-> "panic"]

(* n * 60 and n * 3600 are unchecked: a build with overflow checks panics,  *)
(* a release build wraps around.                                            *)
Times(n, factor) ==
  IF n * factor <= MaxU64 THEN {Ok(n * factor)}
  ELSE {Panic, Ok((n * factor) % (MaxU64 + 1))}

(* Seeded fault: the text is not trimmed.                                   *)
ParseDuration_Untrimmed(raw) ==
  LET numbers == ParseUnsigned(Before(raw, Len(raw)), MaxU64)
  IN  IF raw = <<>> THEN {Refused}
      ELSE IF raw[Len(raw)] \in Wide THEN {Panic}
      ELSE IF raw[Len(raw)] \notin DOMAIN SecondsPer \/ numbers = {} THEN {Refused}
      ELSE UNION {Times(n, SecondsPer[raw[Len(raw)]]) : n \in numbers}

(* parse_duration: the set of its outcomes.  The text is split one byte     *)
(* before its end, which is inside the last character when that is wide.    *)
ParseDuration(raw) ==
  LET trimmed == Trimmed(raw)
      unit == trimmed[Len(trimmed)]
      numbers == ParseUnsigned(Before(trimmed, Len(trimmed)), MaxU64)
  IN  IF trimmed = <<>> THEN {Refused}
      ELSE IF unit \in Wide THEN {Panic}
      ELSE IF unit \notin DOMAIN SecondsPer \/ numbers = {} THEN {Refused}
      ELSE UNION {Times(n, SecondsPer[unit]) : n \in numbers}

=============================================================================
