---------------------------- MODULE MetricsLedger ----------------------------
(***************************************************************************)
(* What the metrics of one day promise the calls that are made to them: a  *)
(* call that records something is counted once before it returns, in the   *)
(* counters of its kind, and a snapshot counts nothing.  The counters go   *)
(* back to zero only when a call brings another day with it, and then      *)
(* before any call of that day can count, so that no count is wiped by a   *)
(* reset of its own day.  A new daemon starts from what was on disk, of    *)
(* which the ledger says nothing; the calls of the old one are over.       *)
(***************************************************************************)
EXTENDS Naturals

CONSTANTS Callers, Days

VARIABLES
  epoch, \* which daemon this is
  day,   \* the day the counters are for
  tally, \* the counters
  call   \* call[c]: how far caller c's call has got, its kind and its day

Counters == {"connections", "reused", "failures", "reconnects"}

(* The kinds of record and the counters each one moves. *)
Moves == [fresh     |-> {"connections"},
          reused    |-> {"connections", "reused"},
          failure   |-> {"failures"},
          reconnect |-> {"reconnects"}]

Records == DOMAIN Moves

Zero == [n \in Counters |-> 0]

Add(t, kind) ==
  [n \in Counters |-> IF n \in Moves[kind] THEN t[n] + 1 ELSE t[n]]

NoCall == [stage |-> "out", kind |-> "snapshot", on |-> 0]

Init ==
  /\ epoch = 1
  /\ day = 0
  /\ tally = Zero
  /\ call = [c \in Callers |-> NoCall]

Becomes(c, stage) == call' = [call EXCEPT ![c].stage = stage]

(* A call is made, on some day. *)
Ask(c) ==
  /\ call[c].stage = "out"
  /\ \E k \in Records \cup {"snapshot"}, d \in Days :
       call' = [call EXCEPT ![c] = [stage |-> "asked", kind |-> k, on |-> d]]
  /\ UNCHANGED <<epoch, day, tally>>

(* The counters are those of the call's day, or become so. *)
Admit(c) ==
  /\ call[c].stage = "asked"
  /\ day' = call[c].on
  /\ tally' = IF call[c].on = day THEN tally ELSE Zero
  /\ Becomes(c, "admitted")
  /\ UNCHANGED epoch

Count(c) ==
  /\ call[c].stage = "admitted"
  /\ call[c].kind \in Records
  /\ tally' = Add(tally, call[c].kind)
  /\ Becomes(c, "counted")
  /\ UNCHANGED <<epoch, day>>

Return(c) ==
  /\ \/ call[c].stage = "counted"
     \/ call[c].stage = "admitted" /\ call[c].kind = "snapshot"
  /\ call' = [call EXCEPT ![c] = NoCall]
  /\ UNCHANGED <<epoch, day, tally>>

Reload ==
  /\ epoch' = epoch + 1
  /\ call' = [c \in Callers |-> NoCall]

Next == \/ \E c \in Callers : Ask(c) \/ Admit(c) \/ Count(c) \/ Return(c)
        \/ Reload

Spec == Init /\ [][Next]_<<epoch, day, tally, call>>
==============================================================================
