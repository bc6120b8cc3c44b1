------------------------------- MODULE Metrics -------------------------------
(***************************************************************************)
(* MetricsStore (crates/metrics/src/lib.rs) under the concurrent calls of  *)
(* the daemon's handlers: three parking_lot RwLocks, for the day, the      *)
(* handshake baseline and the totals, taken one inside the other, and a    *)
(* file that is rewritten after every record with no lock held, and by     *)
(* every daemon that starts, before it knows whether it may serve.         *)
(*                                                                         *)
(* The steps of a call are at[w]:                                          *)
(*                                                                         *)
(*   idle -> roll [-> reset] -> count [-> baseline] [-> hosts] -> persist  *)
(*        -> persistBaseline -> persistTotals -> persistHosts              *)
(*        -> truncate -> write -> idle                                     *)
(*   idle -> roll [-> reset] -> read -> idle                  (snapshot)   *)
(*                                                                         *)
(* No variable holds a lock: a guard lives exactly as long as its owner is *)
(* between two places, so who holds what is read off `at`.                 *)
(*                                                                         *)
(* Of the per-host map, whose entries are locked one at a time, only the   *)
(* connections of all hosts together are kept: as each step adds one, the  *)
(* sum persist collects entry by entry is the sum there was at some moment *)
(* of the collecting.  Left out: latencies, the value of the baseline,     *)
(* bytes, labels.                                                          *)
(***************************************************************************)
EXTENDS Naturals, FiniteSets

CONSTANTS
  Workers,   \* threads that can be inside the store at the same time
  Kinds,     \* the kinds of call that are made
  MaxCalls,  \* bound on the number of calls and of daemons started, together
  MaxDay     \* bound on the number of midnights

AllKinds == {"fresh", "reused", "failure", "reconnect", "snapshot"}

ASSUME KindsAssumption == Kinds \subseteq AllKinds
ASSUME WorkersAssumption == IsFiniteSet(Workers) /\ Workers # {}
ASSUME BoundsAssumption ==
  MaxCalls \in Nat /\ MaxDay \in Nat

VARIABLES
  today,  \* today_index()
  day,    \* day_index
  totals, \* the counters, tagged with the day_index they were reset under
  hosts,  \* the connections counted in the per-host map
  at,     \* at[w]: the step worker w has come to
  kind,   \* kind[w]: the call it is making
  seen,   \* seen[w]: the day it read before asking for the day lock
  copy,   \* copy[w]: the PersistedState it is building
  file,   \* metrics.json: whole, empty once truncated, or torn by two writers
  calls,  \* calls made and daemons started, for MaxCalls
  epoch,  \* daemons that have served
  starter \* a daemon that is starting while this one runs, and what it loaded

store == <<day, totals, hosts, at, kind, seen, copy>>
process == <<epoch, starter>>
vars == <<today, day, totals, hosts, at, kind, seen, copy, file, calls, epoch,
          starter>>

Places == {"idle", "roll", "reset", "count", "baseline", "hosts", "read", "persist",
           "persistBaseline", "persistTotals", "persistHosts", "truncate", "write"}

Connections == {"fresh", "reused"}

StarterPlaces == {"none", "load", "truncate", "write", "loaded"}

(* The store as seen by its callers: how far each call has got. *)
Stage(place) ==
  CASE place = "idle" -> "out"
    [] place \in {"roll", "reset"} -> "asked"
    [] place \in {"count", "read"} -> "admitted"
    [] OTHER -> "counted"

CallsMade ==
  [w \in Workers |-> [stage |-> Stage(at[w]), kind |-> kind[w], on |-> seen[w]]]

Ledger == INSTANCE MetricsLedger
            WITH Callers <- Workers, Days <- 0..MaxDay, call <- CallsMade,
                 tally <- totals.tally, day <- totals.day

Fresh(d) == [day |-> d, tally |-> Ledger!Zero]

-----------------------------------------------------------------------------
(* Who holds which lock.  roll_day_if_needed keeps the day write guard     *)
(* while it resets the totals; record_connection keeps the totals write    *)
(* guard while it looks at the baseline; the guards taken in the struct    *)
(* literal of persist all live to the end of that statement.               *)
In(places) == {w \in Workers : at[w] \in places}

(* Seeded fault: the day guard is given up before the totals are reset. *)
DayWriters_None == {}

DayWriters == In({"reset"})

(* Seeded fault: the day is copied out before the literal is built. *)
DayReaders_None == {}

DayReaders == In({"persistBaseline", "persistTotals", "persistHosts"})
BaselineReaders == In({"persistTotals", "persistHosts"})
TotalsReaders == In({"persistHosts"})
(* Seeded fault: the totals guard lives to the end of the function. *)
TotalsWriters_UntilReturn ==
  In({"baseline", "hosts", "persist", "persistBaseline", "persistTotals"})

TotalsWriters == In({"baseline"})

(* Guards held for longer than one step; the others come and go at once.   *)
DayFree == DayWriters = {} /\ DayReaders = {}
TotalsFree == TotalsWriters = {} /\ TotalsReaders = {}

-----------------------------------------------------------------------------
NoCopy == [day |-> 0, totals |-> Fresh(0), hosts |-> 0]
NoStarter == [at |-> "none", day |-> 0, totals |-> Fresh(0), hosts |-> 0]

Init ==
  /\ today = 0
  /\ day = 0
  /\ totals = Fresh(0)
  /\ hosts = 0
  /\ at = [w \in Workers |-> "idle"]
  /\ kind = [w \in Workers |-> "snapshot"]
  /\ seen = [w \in Workers |-> 0]
  /\ copy = [w \in Workers |-> NoCopy]
  /\ file = [text |-> "whole", day |-> 0, totals |-> Fresh(0), hosts |-> 0]
  /\ calls = 0
  /\ epoch = 1
  /\ starter = NoStarter

Goto(w, place) == at' = [at EXCEPT ![w] = place]

(* A call returns, and its locals are gone. *)
Return(w) ==
  /\ Goto(w, "idle")
  /\ kind' = [kind EXCEPT ![w] = "snapshot"]
  /\ seen' = [seen EXCEPT ![w] = 0]
  /\ copy' = [copy EXCEPT ![w] = NoCopy]

(* Seeded fault: seconds are rounded up to days. *)
Begin_RoundsUp(w) ==
  /\ at[w] = "idle"
  /\ calls < MaxCalls
  /\ calls' = calls + 1
  /\ \E k \in Kinds : kind' = [kind EXCEPT ![w] = k]
  /\ seen' = [seen EXCEPT ![w] = today + 1]
  /\ Goto(w, "roll")
  /\ UNCHANGED <<today, day, totals, hosts, copy, file, process>>

(* record_connection, record_failure, record_reconnect and snapshot begin  *)
(* with roll_day_if_needed, and that with the clock: the day is read       *)
(* before the day lock is asked for.                                       *)
Begin(w) ==
  /\ at[w] = "idle"
  /\ calls < MaxCalls
  /\ calls' = calls + 1
  /\ \E k \in Kinds : kind' = [kind EXCEPT ![w] = k]
  /\ seen' = [seen EXCEPT ![w] = today]
  /\ Goto(w, "roll")
  /\ UNCHANGED <<today, day, totals, hosts, copy, file, process>>

AfterRoll(w) == IF kind[w] = "snapshot" THEN "read" ELSE "count"

(* Under the day write lock.  The guard is kept if there is a reset to do. *)
RollDay(w) ==
  /\ at[w] = "roll"
  /\ DayFree
  /\ day' = seen[w]
  /\ Goto(w, IF day = seen[w] THEN AfterRoll(w) ELSE "reset")
  /\ UNCHANGED <<today, totals, hosts, kind, seen, copy, file, calls, process>>

ResetTotals(w) ==
  /\ at[w] = "reset"
  /\ TotalsFree
  /\ totals' = Fresh(day)
  /\ Goto(w, AfterRoll(w))
  /\ UNCHANGED <<today, day, hosts, kind, seen, copy, file, calls, process>>

(* The increments, under the totals write lock; a connection goes on to    *)
(* the baseline without giving that lock up.                               *)
CountRecord(w) ==
  /\ at[w] = "count"
  /\ TotalsFree
  /\ totals' = [totals EXCEPT !.tally = Ledger!Add(@, kind[w])]
  /\ Goto(w, CASE kind[w] \in Connections -> "baseline"
               [] kind[w] = "failure" -> "hosts"
               [] OTHER -> "persist")
  /\ UNCHANGED <<today, day, hosts, kind, seen, copy, file, calls, process>>

(* A reuse reads the baseline, a fresh connection moves it. *)
UseBaseline(w) ==
  /\ at[w] = "baseline"
  /\ kind[w] = "fresh" => BaselineReaders = {}
  /\ Goto(w, "hosts")
  /\ UNCHANGED <<today, day, totals, hosts, kind, seen, copy, file, calls, process>>

(* Seeded fault: a reuse is not counted for its host. *)
CountHost_FreshOnly(w) ==
  /\ at[w] = "hosts"
  /\ hosts' = IF kind[w] = "fresh" THEN hosts + 1 ELSE hosts
  /\ Goto(w, "persist")
  /\ UNCHANGED <<today, day, totals, kind, seen, copy, file, calls, process>>

(* The entry of the host, with no other lock held; a failure leaves its    *)
(* connections alone.                                                      *)
CountHost(w) ==
  /\ at[w] = "hosts"
  /\ hosts' = IF kind[w] \in Connections THEN hosts + 1 ELSE hosts
  /\ Goto(w, "persist")
  /\ UNCHANGED <<today, day, totals, kind, seen, copy, file, calls, process>>

ReadSnapshot(w) ==
  /\ at[w] = "read"
  /\ TotalsWriters = {}
  /\ Return(w)
  /\ UNCHANGED <<today, day, totals, hosts, file, calls, process>>

-----------------------------------------------------------------------------
(* persist: the copy is built field by field, then the file is opened with *)
(* truncation and written, by then with no lock.                           *)
CopyDay(w) ==
  /\ at[w] = "persist"
  /\ DayWriters = {}
  /\ copy' = [copy EXCEPT ![w].day = day]
  /\ Goto(w, "persistBaseline")
  /\ UNCHANGED <<today, day, totals, hosts, kind, seen, file, calls, process>>

CopyBaseline(w) ==
  /\ at[w] = "persistBaseline"
  /\ Goto(w, "persistTotals")
  /\ UNCHANGED <<today, day, totals, hosts, kind, seen, copy, file, calls, process>>

CopyTotals(w) ==
  /\ at[w] = "persistTotals"
  /\ TotalsWriters = {}
  /\ copy' = [copy EXCEPT ![w].totals = totals]
  /\ Goto(w, "persistHosts")
  /\ UNCHANGED <<today, day, totals, hosts, kind, seen, file, calls, process>>

CopyHosts(w) ==
  /\ at[w] = "persistHosts"
  /\ copy' = [copy EXCEPT ![w].hosts = hosts]
  /\ Goto(w, "truncate")
  /\ UNCHANGED <<today, day, totals, hosts, kind, seen, file, calls, process>>

Truncated == file' = [file EXCEPT !.text = "empty"]

(* Written from the start of the file: when another has written since the  *)
(* truncation and its text was longer, the end of it stays.                *)
Written(p) ==
  \E text \in IF file.text = "empty" THEN {"whole"} ELSE {"whole", "torn"} :
    file' = [text |-> text, day |-> p.day, totals |-> p.totals, hosts |-> p.hosts]

(* The disk is full: nothing is written, or a part.  *)
Spoiled == UNCHANGED file \/ file' = [file EXCEPT !.text = "torn"]

Truncate(w) ==
  /\ at[w] = "truncate"
  /\ Truncated
  /\ Goto(w, "write")
  /\ UNCHANGED <<today, day, totals, hosts, kind, seen, copy, calls, process>>

(* An error of fs::write is logged, and the call returns as if nothing had *)
(* happened.                                                               *)
OpenFails(w) ==
  /\ at[w] = "truncate"
  /\ Return(w)
  /\ UNCHANGED <<today, day, totals, hosts, file, calls, process>>

Write(w) ==
  /\ at[w] = "write"
  /\ Written(copy[w])
  /\ Return(w)
  /\ UNCHANGED <<today, day, totals, hosts, calls, process>>

WriteFails(w) ==
  /\ at[w] = "write"
  /\ Spoiled
  /\ Return(w)
  /\ UNCHANGED <<today, day, totals, hosts, calls, process>>

-----------------------------------------------------------------------------
Midnight ==
  /\ today < MaxDay
  /\ today' = today + 1
  /\ UNCHANGED <<day, totals, hosts, at, kind, seen, copy, file, calls, process>>

(* Another daemon starts while this one runs: load reads the clock, then   *)
(* the file - the hosts, the totals if they are of that day, nothing if it *)
(* cannot be parsed - and persists, before serve_unix can refuse.          *)
Start ==
  /\ starter.at = "none"
  /\ calls < MaxCalls
  /\ calls' = calls + 1
  /\ starter' = [at |-> "load", day |-> today, totals |-> Fresh(today), hosts |-> 0]
  /\ UNCHANGED <<today, store, file, epoch>>

Load ==
  /\ starter.at = "load"
  /\ starter' = [starter EXCEPT
       !.at = "truncate",
       !.totals = IF file.text = "whole" /\ file.day = starter.day
                    THEN file.totals ELSE Fresh(starter.day),
       !.hosts = IF file.text = "whole" THEN file.hosts ELSE 0]
  /\ UNCHANGED <<today, store, file, calls, epoch>>

StarterGoto(place) ==
  /\ starter' = [starter EXCEPT !.at = place]
  /\ UNCHANGED <<today, store, calls, epoch>>

StarterPersists ==
  \/ starter.at = "truncate" /\ Truncated /\ StarterGoto("write")
  \/ starter.at = "truncate" /\ UNCHANGED file /\ StarterGoto("loaded")
  \/ starter.at = "write" /\ (Written(starter) \/ Spoiled) /\ StarterGoto("loaded")

(* It is refused, fails or is killed. *)
Refused ==
  /\ starter.at # "none"
  /\ starter' = NoStarter
  /\ UNCHANGED <<today, store, file, calls, epoch>>

(* The old daemon has ended, at any point of any call, and the new one     *)
(* serves with what it loaded, however long ago.                           *)
Restart ==
  /\ starter.at = "loaded"
  /\ epoch' = epoch + 1
  /\ starter' = NoStarter
  /\ day' = starter.day
  /\ totals' = starter.totals
  /\ hosts' = starter.hosts
  /\ at' = [w \in Workers |-> "idle"]
  /\ kind' = [w \in Workers |-> "snapshot"]
  /\ seen' = [w \in Workers |-> 0]
  /\ copy' = [w \in Workers |-> NoCopy]
  /\ UNCHANGED <<today, file, calls>>

Work(w) ==
  \/ RollDay(w) \/ ResetTotals(w) \/ CountRecord(w) \/ UseBaseline(w)
  \/ CountHost(w) \/ ReadSnapshot(w)
  \/ CopyDay(w) \/ CopyBaseline(w) \/ CopyTotals(w) \/ CopyHosts(w)
  \/ Truncate(w) \/ OpenFails(w) \/ Write(w) \/ WriteFails(w)

NewDaemon == Start \/ Load \/ StarterPersists \/ Refused \/ Restart

Next == \/ \E w \in Workers : Begin(w) \/ Work(w)
        \/ Midnight
        \/ NewDaemon

Spec == Init /\ [][Next]_vars

(* A reader does not pass a writer that already waits for the lock.        *)
Prompt(w) ==
  /\ at[w] = "persist" => DayReaders = {} \/ In({"roll"}) = {}
  /\ at[w] = "persistBaseline" =>
       \/ BaselineReaders = {}
       \/ \A v \in In({"baseline"}) : kind[v] # "fresh"
  /\ at[w] \in {"persistTotals", "read"} =>
       TotalsReaders = {} \/ In({"reset", "count"}) = {}
  /\ Work(w)

(* The locks are eventually fair (parking_lot), so a step that is possible *)
(* again and again is taken.                                               *)
FairSpec == Spec /\ \A w \in Workers : SF_vars(Prompt(w))

-----------------------------------------------------------------------------
(* The types of the variables. *)
Totals == [day : 0..MaxDay, tally : [Ledger!Counters -> Nat]]

TypeOK ==
  /\ today \in 0..MaxDay
  /\ day \in 0..MaxDay
  /\ totals \in Totals
  /\ hosts \in Nat
  /\ at \in [Workers -> Places]
  /\ kind \in [Workers -> AllKinds]
  /\ seen \in [Workers -> 0..MaxDay]
  /\ copy \in [Workers -> [day : 0..MaxDay, totals : Totals, hosts : Nat]]
  /\ file \in [text : {"whole", "empty", "torn"}, day : 0..MaxDay, totals : Totals,
                hosts : Nat]
  /\ calls \in 0..MaxCalls
  /\ epoch \in Nat \ {0}
  /\ starter \in [at : StarterPlaces, day : 0..MaxDay, totals : Totals, hosts : Nat]

(* The counters written to disk belong to the day written with them: the   *)
(* file never shows yesterday's counters as today's, although persist      *)
(* reads the two from under different locks.                               *)
FilePairsDayWithTotals == file.text = "whole" => file.totals.day = file.day

(* Why: the day a persist has copied cannot move until it has copied the   *)
(* totals too, and in the meantime the totals are those of that day.       *)
TotalsAreOfDay == DayWriters = {} => totals.day = day
CopyHoldsDay ==
  /\ DayReaders # {} => DayWriters = {}
  /\ \A w \in DayReaders : copy[w].day = day
CopyIsPaired ==
  \A w \in In({"persistHosts", "truncate", "write"}) : copy[w].totals.day = copy[w].day
StarterIsPaired == starter.totals.day = starter.day
PairInv == /\ TotalsAreOfDay
           /\ CopyHoldsDay
           /\ CopyIsPaired
           /\ StarterIsPaired
           /\ FilePairsDayWithTotals

(* The store implements the ledger, through locks taken one by one: each   *)
(* call of record_connection, record_failure or record_reconnect is        *)
(* counted exactly once before it returns, a snapshot never, no call is    *)
(* counted before the counters are those of the day it came with or a      *)
(* later roll's, and a reset wipes no count of the day it begins.          *)
LedgerSpec == Ledger!Spec

(* A call to the store comes back: record_connection, record_failure,      *)
(* record_reconnect and snapshot never wait for each other in a circle.    *)
EveryCallReturns == \A w \in Workers : at[w] # "idle" ~> at[w] = "idle"

(* The hosts do not fall behind the day's connections, though the two are  *)
(* counted under different locks and copied to disk one after the other:   *)
(* the difference is the connections being recorded and, for each daemon   *)
(* that took over from a file, at most one for every thread but the one    *)
(* whose copy that was.  snapshot answers with both, "connections today"   *)
(* and "most used hosts".                                                  *)
Uncounted == {w \in In({"baseline", "hosts"}) : kind[w] \in Connections}
LostAtRestarts(e) == (e - 1) * (Cardinality(Workers) - 1)

HostsKeepUp ==
  totals.tally["connections"] <= hosts + Cardinality(Uncounted) + LostAtRestarts(epoch)

(* Why: what a persist copies, and so the file, misses no more than the    *)
(* other threads were recording.                                           *)
CopiesKeepUp ==
  \A w \in Workers :
    LET counted == copy[w].totals.tally["connections"]
    IN  /\ at[w] = "persistHosts" => counted <= hosts + LostAtRestarts(epoch + 1)
        /\ at[w] \in {"truncate", "write"} =>
             counted <= copy[w].hosts + LostAtRestarts(epoch + 1)
FileKeepsUp ==
  file.text = "whole" =>
    file.totals.tally["connections"] <= file.hosts + LostAtRestarts(epoch + 1)
StarterKeepsUp ==
  starter.totals.tally["connections"] <= starter.hosts + LostAtRestarts(epoch + 1)
HostsInv == HostsKeepUp /\ CopiesKeepUp /\ FileKeepsUp /\ StarterKeepsUp
=============================================================================
