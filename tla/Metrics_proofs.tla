---------------------------- MODULE Metrics_proofs ----------------------------
(* Proofs about Metrics, for any number of threads, calls, days and daemons. *)
EXTENDS Metrics, FiniteSetTheorems, TLAPS

LEMMA FreshTotals ==
  ASSUME NEW d \in 0..MaxDay
  PROVE  Fresh(d) \in Totals /\ Fresh(d).day = d
  BY DEF Fresh, Totals, Ledger!Zero

(* Every step keeps the types. *)
LEMMA TypeStep == TypeOK /\ [Next]_vars => TypeOK'
<1> SUFFICES ASSUME TypeOK, [Next]_vars PROVE TypeOK'
  OBVIOUS
<1> USE KindsAssumption, BoundsAssumption DEF process
<1>1. ASSUME NEW w \in Workers, Begin(w) PROVE TypeOK'
  BY <1>1 DEF Begin, Goto, TypeOK, Places
<1>2. ASSUME NEW w \in Workers, Work(w) PROVE TypeOK'
  <2>1. NoCopy \in [day : 0..MaxDay, totals : Totals, hosts : Nat]
    BY FreshTotals DEF NoCopy
  <2>2. CASE RollDay(w)
    BY <2>2 DEF RollDay, AfterRoll, Goto, TypeOK, Places
  <2>3. CASE ResetTotals(w)
    BY <2>3, FreshTotals DEF ResetTotals, AfterRoll, Goto, TypeOK, Places
  <2>4. CASE CountRecord(w)
    <3>1. Ledger!Add(totals.tally, kind[w]) \in [Ledger!Counters -> Nat]
      BY DEF Ledger!Add, TypeOK, Totals
    <3>2. totals' \in Totals
      BY <2>4, <3>1 DEF CountRecord, TypeOK, Totals
    <3>3. QED
      BY <2>4, <3>2 DEF CountRecord, Goto, TypeOK, Places
  <2>5. CASE UseBaseline(w)
    BY <2>5 DEF UseBaseline, Goto, TypeOK, Places
  <2>6. CASE ReadSnapshot(w)
    BY <2>6, <2>1 DEF ReadSnapshot, Return, Goto, TypeOK, Places, AllKinds
  <2>7. CASE CopyDay(w)
    BY <2>7 DEF CopyDay, Goto, TypeOK, Places
  <2>8. CASE CopyBaseline(w)
    BY <2>8 DEF CopyBaseline, Goto, TypeOK, Places
  <2>9. CASE CopyTotals(w)
    BY <2>9 DEF CopyTotals, Goto, TypeOK, Places
  <2>10. CASE Truncate(w)
    BY <2>10 DEF Truncate, Truncated, Goto, TypeOK, Places
  <2>11. CASE OpenFails(w) \/ Write(w) \/ WriteFails(w)
    <3>1. file' \in [text : {"whole", "empty", "torn"}, day : 0..MaxDay,
                    totals : Totals, hosts : Nat]
      BY <2>11 DEF OpenFails, Write, WriteFails, Written, Spoiled, TypeOK
    <3>2. Return(w) /\ UNCHANGED <<today, day, totals, hosts, calls, process>>
      BY <2>11 DEF OpenFails, Write, WriteFails
    <3>3. QED
      BY <2>1, <3>1, <3>2 DEF Return, Goto, TypeOK, Places, AllKinds
  <2>12. CASE CountHost(w)
    BY <2>12 DEF CountHost, Goto, TypeOK, Places
  <2>13. CASE CopyHosts(w)
    BY <2>13 DEF CopyHosts, Goto, TypeOK, Places
  <2>14. QED
    BY <1>2, <2>2, <2>3, <2>4, <2>5, <2>6, <2>7, <2>8, <2>9, <2>10, <2>11, <2>12, <2>13
       DEF Work
<1>3. CASE Midnight
  BY <1>3 DEF Midnight, TypeOK
<1>4. CASE NewDaemon
  <2>1. /\ NoStarter \in [at : StarterPlaces, day : 0..MaxDay, totals : Totals, hosts : Nat]
        /\ NoCopy \in [day : 0..MaxDay, totals : Totals, hosts : Nat]
    BY FreshTotals DEF NoStarter, NoCopy, StarterPlaces
  <2>2. CASE Start
    BY <2>2, FreshTotals DEF Start, store, TypeOK, StarterPlaces
  <2>3. CASE Load
    BY <2>3, FreshTotals DEF Load, store, TypeOK, StarterPlaces
  <2>4. CASE StarterPersists
    <3>1. file' \in [text : {"whole", "empty", "torn"}, day : 0..MaxDay,
                    totals : Totals, hosts : Nat]
      BY <2>4 DEF StarterPersists, Truncated, Written, Spoiled, TypeOK
    <3>2. /\ starter' \in [at : StarterPlaces, day : 0..MaxDay, totals : Totals, hosts : Nat]
          /\ UNCHANGED <<today, store, calls, epoch>>
      BY <2>4 DEF StarterPersists, StarterGoto, TypeOK, StarterPlaces
    <3>3. QED
      BY <3>1, <3>2 DEF TypeOK, store
  <2>5. CASE Refused
    BY <2>5, <2>1 DEF Refused, store, TypeOK
  <2>6. CASE Restart
    BY <2>6, <2>1 DEF Restart, TypeOK, Places, AllKinds
  <2>7. QED
    BY <1>4, <2>2, <2>3, <2>4, <2>5, <2>6 DEF NewDaemon
<1>5. CASE UNCHANGED vars
  BY <1>5 DEF vars, TypeOK
<1>6. QED
  BY <1>1, <1>2, <1>3, <1>4, <1>5 DEF Next

(* The variables of the store keep their types. *)
THEOREM TypeCorrect == Spec => []TypeOK
<1>1. Init => TypeOK
  BY FreshTotals, BoundsAssumption
     DEF Init, TypeOK, Places, AllKinds, NoCopy, NoStarter, StarterPlaces
<1>2. QED
  BY <1>1, TypeStep, PTL DEF Spec

(* A step of one thread keeps day and totals paired, in memory, in the     *)
(* copies under way and on disk.                                           *)
LEMMA PairWorkStep ==
  ASSUME TypeOK, PairInv, NEW w \in Workers, Work(w)
  PROVE  PairInv'
<1> USE DEF PairInv, TotalsAreOfDay, CopyHoldsDay, CopyIsPaired,
            StarterIsPaired, FilePairsDayWithTotals, DayWriters, DayReaders, In, DayFree,
            process
<1>1. /\ at \in [Workers -> Places]
      /\ copy \in [Workers -> [day : 0..MaxDay, totals : Totals, hosts : Nat]]
      /\ totals \in [day : 0..MaxDay, tally : [Ledger!Counters -> Nat]]
      /\ day \in 0..MaxDay
  BY DEF TypeOK, Totals
<1>2. CASE RollDay(w)
  BY <1>1, <1>2 DEF RollDay, AfterRoll, Goto
<1>3. CASE ResetTotals(w)
  BY <1>1, <1>3, FreshTotals DEF ResetTotals, AfterRoll, Goto
<1>4. CASE CountRecord(w)
  BY <1>1, <1>4 DEF CountRecord, Goto
<1>5. CASE UseBaseline(w)
  BY <1>1, <1>5 DEF UseBaseline, Goto
<1>6. CASE ReadSnapshot(w)
  BY <1>1, <1>6 DEF ReadSnapshot, Return, Goto
<1>7. CASE CopyDay(w)
  BY <1>1, <1>7 DEF CopyDay, Goto
<1>8. CASE CopyBaseline(w)
  BY <1>1, <1>8 DEF CopyBaseline, Goto
<1>9. CASE CopyTotals(w)
  BY <1>1, <1>9 DEF CopyTotals, Goto
<1>10. CASE Truncate(w)
  BY <1>1, <1>10 DEF Truncate, Truncated, Goto, TypeOK
<1>11. CASE OpenFails(w) \/ Write(w) \/ WriteFails(w)
  BY <1>1, <1>11
     DEF OpenFails, Write, WriteFails, Written, Spoiled, Return, Goto, TypeOK
<1>12. CASE CountHost(w)
  BY <1>1, <1>12 DEF CountHost, Goto
<1>13. CASE CopyHosts(w)
  BY <1>1, <1>13 DEF CopyHosts, Goto
<1>14. QED
  BY <1>2, <1>3, <1>4, <1>5, <1>6, <1>7, <1>8, <1>9, <1>10, <1>11, <1>12, <1>13,
     Work(w) DEF Work

LEMMA PairStep == TypeOK /\ PairInv /\ [Next]_vars => PairInv'
<1> SUFFICES ASSUME TypeOK, PairInv, [Next]_vars PROVE PairInv'
  OBVIOUS
<1> USE DEF PairInv, TotalsAreOfDay, CopyHoldsDay, CopyIsPaired,
            StarterIsPaired, FilePairsDayWithTotals, DayWriters, DayReaders, In, process
<1>1. ASSUME NEW w \in Workers, Begin(w) PROVE PairInv'
  BY <1>1 DEF Begin, Goto, TypeOK
<1>2. CASE Midnight
  BY <1>2 DEF Midnight
<1>3. CASE NewDaemon
  <2>1. NoStarter.totals.day = NoStarter.day
    BY DEF NoStarter, Fresh
  <2>2. CASE Start
    BY <2>2 DEF Start, store, Fresh
  <2>3. CASE Load
    BY <2>3, FreshTotals DEF Load, store, TypeOK
  <2>4. CASE StarterPersists
    <3>1. /\ UNCHANGED store
          /\ starter'.totals = starter.totals /\ starter'.day = starter.day
      BY <2>4 DEF StarterPersists, StarterGoto, TypeOK
    <3>2. FilePairsDayWithTotals'
      BY <2>4 DEF StarterPersists, Truncated, Written, Spoiled, TypeOK
    <3>3. QED
      BY <3>1, <3>2 DEF store
  <2>5. CASE Refused
    BY <2>5, <2>1 DEF Refused, store
  <2>6. CASE Restart
    BY <2>6, <2>1 DEF Restart
  <2>7. QED
    BY <1>3, <2>2, <2>3, <2>4, <2>5, <2>6 DEF NewDaemon
<1>4. CASE UNCHANGED vars
  BY <1>4 DEF vars
<1>5. QED
  BY <1>1, <1>2, <1>3, <1>4, PairWorkStep DEF Next

(* What is on disk is never one day with the counters of another, however  *)
(* many threads record and persist around midnight and across restarts.    *)
THEOREM FileIsPaired == Spec => []FilePairsDayWithTotals
<1>1. Init => PairInv
  BY FreshTotals, BoundsAssumption
     DEF Init, PairInv, TotalsAreOfDay, CopyHoldsDay, CopyIsPaired,
         StarterIsPaired, NoStarter, Fresh, FilePairsDayWithTotals, DayWriters,
         DayReaders, In
<1>2. PairInv => FilePairsDayWithTotals
  BY DEF PairInv
<1>3. QED
  BY <1>1, <1>2, PairStep, TypeCorrect, PTL DEF Spec

(* The reason for it, as the runs check it: the day a persist has copied    *)
(* cannot move until it has the totals of that day.                         *)
THEOREM DayAndTotalsPaired == Spec => []PairInv
<1>1. Init => PairInv
  BY FreshTotals, BoundsAssumption
     DEF Init, PairInv, TotalsAreOfDay, CopyHoldsDay, CopyIsPaired,
         StarterIsPaired, NoStarter, Fresh, FilePairsDayWithTotals, DayWriters,
         DayReaders, In
<1>2. QED
  BY <1>1, PairStep, TypeCorrect, PTL DEF Spec

-----------------------------------------------------------------------------
(* One thread at a time resets the totals, and only those of another day    *)
(* than its own.                                                            *)
ResetIsDue ==
  /\ \A w \in DayWriters : totals.day # day /\ seen[w] = day
  /\ \A v, w \in DayWriters : v = w

(* The steps of a call that touch neither the day nor the totals.           *)
Quiet(w) ==
  \/ UseBaseline(w) \/ CountHost(w) \/ ReadSnapshot(w) \/ CopyDay(w) \/ CopyBaseline(w)
  \/ CopyTotals(w) \/ CopyHosts(w) \/ Truncate(w) \/ OpenFails(w) \/ Write(w) \/ WriteFails(w)

LEMMA QuietStep ==
  ASSUME TypeOK, NEW w \in Workers, Quiet(w)
  PROVE  /\ UNCHANGED <<day, totals, epoch>>
         /\ at'[w] \notin {"reset", "count", "read"}
         /\ \A v \in Workers : v # w => at'[v] = at[v] /\ kind'[v] = kind[v] /\ seen'[v] = seen[v]
<1>1. at \in [Workers -> Places] /\ kind \in [Workers -> AllKinds] /\ seen \in [Workers -> 0..MaxDay]
  BY DEF TypeOK
<1>2. CASE ReadSnapshot(w) \/ OpenFails(w) \/ Write(w) \/ WriteFails(w)
  BY <1>1, <1>2 DEF ReadSnapshot, OpenFails, Write, WriteFails, Return, Goto, process
<1>3. CASE \/ UseBaseline(w) \/ CountHost(w) \/ CopyDay(w) \/ CopyBaseline(w) \/ CopyTotals(w)
           \/ CopyHosts(w) \/ Truncate(w)
  BY <1>1, <1>3 DEF UseBaseline, CountHost, CopyDay, CopyBaseline, CopyTotals, CopyHosts,
                    Truncate, Goto, process
<1>4. QED
  BY <1>2, <1>3 DEF Quiet

(* A daemon that starts leaves the running one alone, until it takes over.  *)
LEMMA StarterStep ==
  NewDaemon => Restart \/ UNCHANGED <<day, totals, hosts, at, kind, seen, copy, epoch>>
BY DEF NewDaemon, Start, Load, StarterPersists, StarterGoto, Refused, store

LEMMA ResetStep == TypeOK /\ PairInv /\ ResetIsDue /\ [Next]_vars => ResetIsDue'
<1> SUFFICES ASSUME TypeOK, PairInv, ResetIsDue, [Next]_vars PROVE ResetIsDue'
  OBVIOUS
<1> USE DEF ResetIsDue, DayWriters, In
<1>1. at \in [Workers -> Places] /\ seen \in [Workers -> 0..MaxDay]
  BY DEF TypeOK
<1>2. ASSUME NEW w \in Workers, Begin(w) PROVE ResetIsDue'
  BY <1>1, <1>2 DEF Begin, Goto
<1>3. ASSUME NEW w \in Workers, RollDay(w) PROVE ResetIsDue'
  <2>1. totals.day = day
    BY <1>3 DEF RollDay, DayFree, PairInv, TotalsAreOfDay
  <2>2. QED
    BY <1>1, <1>3, <2>1 DEF RollDay, DayFree, AfterRoll, Goto
<1>4. ASSUME NEW w \in Workers, ResetTotals(w) PROVE ResetIsDue'
  BY <1>1, <1>4 DEF ResetTotals, AfterRoll, Goto
<1>5. ASSUME NEW w \in Workers, CountRecord(w) PROVE ResetIsDue'
  BY <1>1, <1>5 DEF CountRecord, Goto, TypeOK, Totals
<1>6. ASSUME NEW w \in Workers, Quiet(w) PROVE ResetIsDue'
  BY <1>6, QuietStep
<1>7. CASE Midnight
  BY <1>7 DEF Midnight
<1>8. CASE NewDaemon
  BY <1>8, StarterStep DEF Restart
<1>9. CASE UNCHANGED vars
  BY <1>9 DEF vars
<1>10. QED
  BY <1>2, <1>3, <1>4, <1>5, <1>6, <1>7, <1>8, <1>9 DEF Next, Work, Quiet

(* A snapshot counts nothing, and only a snapshot reads.                    *)
RecordsCount ==
  \A w \in Workers : /\ at[w] = "count" => kind[w] # "snapshot"
                     /\ at[w] = "read" => kind[w] = "snapshot"

LEMMA RecordsCountStep == TypeOK /\ RecordsCount /\ [Next]_vars => RecordsCount'
<1> SUFFICES ASSUME TypeOK, RecordsCount, [Next]_vars PROVE RecordsCount'
  OBVIOUS
<1> USE DEF RecordsCount
<1>1. at \in [Workers -> Places] /\ kind \in [Workers -> AllKinds]
  BY DEF TypeOK
<1>2. ASSUME NEW w \in Workers, Begin(w) \/ RollDay(w) \/ ResetTotals(w) PROVE RecordsCount'
  BY <1>1, <1>2 DEF Begin, RollDay, ResetTotals, AfterRoll, Goto
<1>3. ASSUME NEW w \in Workers, CountRecord(w) PROVE RecordsCount'
  <2>1. at'[w] \notin {"count", "read"} /\ \A v \in Workers \ {w} : at'[v] = at[v]
    BY <1>1, <1>3 DEF CountRecord, Goto
  <2>2. QED
    BY <1>3, <2>1 DEF CountRecord
<1>4. ASSUME NEW w \in Workers, Quiet(w) PROVE RecordsCount'
  BY <1>4, QuietStep
<1>5. CASE NewDaemon
  BY <1>5, StarterStep DEF Restart
<1>6. CASE Midnight \/ UNCHANGED vars
  BY <1>6 DEF Midnight, vars
<1>7. QED
  BY <1>2, <1>3, <1>4, <1>5, <1>6 DEF Next, Work, Quiet

(* A step to another place that keeps the locals moves the call's stage.    *)
LEMMA CallMoves ==
  ASSUME TypeOK, NEW w \in Workers, NEW p \in Places, Goto(w, p), UNCHANGED <<kind, seen>>
  PROVE  CallsMade' = [CallsMade EXCEPT ![w].stage = Stage(p)]
BY DEF TypeOK, Goto, CallsMade

LEMMA CallEnds ==
  ASSUME TypeOK, NEW w \in Workers, Return(w)
  PROVE  CallsMade' = [CallsMade EXCEPT ![w] = Ledger!NoCall]
<1>1. /\ at' = [at EXCEPT ![w] = "idle"] /\ at \in [Workers -> Places]
      /\ kind' = [kind EXCEPT ![w] = "snapshot"] /\ kind \in [Workers -> AllKinds]
      /\ seen' = [seen EXCEPT ![w] = 0] /\ seen \in [Workers -> 0..MaxDay]
  BY DEF TypeOK, Return, Goto
<1>2. Stage("idle") = "out"
  BY DEF Stage
<1>3. QED
  BY <1>1, <1>2 DEF CallsMade, Ledger!NoCall

LEMMA CallOf ==
  ASSUME NEW w \in Workers
  PROVE  /\ CallsMade[w].stage = Stage(at[w])
         /\ CallsMade[w].kind = kind[w]
         /\ CallsMade[w].on = seen[w]
BY DEF CallsMade

LEMMA RecordKinds == Ledger!Records = {"fresh", "reused", "failure", "reconnect"}
BY DEF Ledger!Records, Ledger!Moves

(* Every step of one thread is one of the ledger, or none.                  *)
LedgerVars == <<epoch, totals.day, totals.tally, CallsMade>>

LEMMA LedgerWorkStep ==
  ASSUME TypeOK, PairInv, ResetIsDue, RecordsCount, NEW w \in Workers, Work(w)
  PROVE  [Ledger!Next]_LedgerVars
<1>1. /\ CallsMade[w].stage = Stage(at[w])
      /\ CallsMade[w].kind = kind[w]
      /\ CallsMade[w].on = seen[w]
  BY CallOf
<1>2. at[w] \in Places /\ kind[w] \in AllKinds
  BY DEF TypeOK
<1>3. CASE RollDay(w)
  <2>1. totals.day = day
    BY <1>3 DEF RollDay, DayFree, PairInv, TotalsAreOfDay
  <2>2. UNCHANGED <<epoch, totals, kind, seen>>
    BY <1>3 DEF RollDay, process
  <2>3. CASE day = seen[w]
    <3>1. AfterRoll(w) \in Places /\ Stage(AfterRoll(w)) = "admitted"
      BY DEF AfterRoll, Stage, Places
    <3>2. Goto(w, AfterRoll(w))
      BY <1>3, <2>3 DEF RollDay
    <3>3. CallsMade' = [CallsMade EXCEPT ![w].stage = "admitted"]
      BY <3>1, <3>2, <2>2, CallMoves
    <3>4. CallsMade[w].stage = "asked"
      BY <1>1, <1>3 DEF RollDay, Stage
    <3>5. Ledger!Admit(w)
      BY <1>1, <2>1, <2>2, <2>3, <3>3, <3>4 DEF Ledger!Admit, Ledger!Becomes
    <3>6. QED
      BY <3>5 DEF Ledger!Next
  <2>4. CASE day # seen[w]
    <3>1. Goto(w, "reset") /\ at[w] = "roll"
      BY <1>3, <2>4 DEF RollDay
    <3>2. CallsMade' = CallsMade
      BY <2>2, <3>1 DEF Goto, CallsMade, Stage, TypeOK
    <3>3. QED
      BY <2>2, <3>2 DEF LedgerVars
  <2>5. QED
    BY <2>3, <2>4
<1>4. CASE ResetTotals(w)
  <2>1. totals.day # day /\ seen[w] = day
    BY <1>4 DEF ResetTotals, ResetIsDue, DayWriters, In
  <2>2. /\ totals' = Fresh(day) /\ UNCHANGED <<epoch, kind, seen>>
        /\ Goto(w, AfterRoll(w)) /\ at[w] = "reset"
    BY <1>4 DEF ResetTotals, process
  <2>3. AfterRoll(w) \in Places /\ Stage(AfterRoll(w)) = "admitted"
    BY DEF AfterRoll, Stage, Places
  <2>4. CallsMade' = [CallsMade EXCEPT ![w].stage = "admitted"]
    BY <2>2, <2>3, CallMoves
  <2>5. CallsMade[w].stage = "asked"
    BY <1>1, <2>2 DEF Stage
  <2>6. totals'.day = day /\ totals'.tally = Ledger!Zero
    BY <2>2 DEF Fresh
  <2>7. Ledger!Admit(w)
    BY <1>1, <2>1, <2>2, <2>4, <2>5, <2>6 DEF Ledger!Admit, Ledger!Becomes
  <2>8. QED
    BY <2>7 DEF Ledger!Next
<1>5. CASE CountRecord(w)
  <2>1. kind[w] \in Ledger!Records
    <3>1. kind[w] \in {"fresh", "reused", "failure", "reconnect"}
      BY <1>2, <1>5 DEF CountRecord, RecordsCount, AllKinds
    <3>2. QED
      BY <3>1, RecordKinds
  <2>2. totals'.tally = Ledger!Add(totals.tally, kind[w]) /\ totals'.day = totals.day
    BY <1>5 DEF CountRecord, TypeOK, Totals
  <2>3. UNCHANGED <<epoch, kind, seen>> /\ at[w] = "count"
    BY <1>5 DEF CountRecord, process
  <2>4. PICK p \in {"baseline", "hosts", "persist"} : Goto(w, p)
    BY <1>5 DEF CountRecord
  <2>5. p \in Places /\ Stage(p) = "counted"
    BY DEF Stage, Places
  <2>6. CallsMade' = [CallsMade EXCEPT ![w].stage = "counted"]
    BY <2>3, <2>4, <2>5, CallMoves
  <2>7. CallsMade[w].stage = "admitted"
    BY <1>1, <2>3 DEF Stage
  <2>8. Ledger!Count(w)
    BY <1>1, <2>1, <2>2, <2>3, <2>6, <2>7 DEF Ledger!Count, Ledger!Becomes
  <2>9. QED
    BY <2>8 DEF Ledger!Next
<1>6. CASE ReadSnapshot(w) \/ OpenFails(w) \/ Write(w) \/ WriteFails(w)
  <2>1. Return(w) /\ UNCHANGED <<epoch, totals>>
    BY <1>6 DEF ReadSnapshot, OpenFails, Write, WriteFails, process
  <2>2. at[w] \in {"truncate", "write"} \/ (at[w] = "read" /\ kind[w] = "snapshot")
    BY <1>6 DEF ReadSnapshot, OpenFails, Write, WriteFails, RecordsCount
  <2>3. \/ CallsMade[w].stage = "counted"
        \/ CallsMade[w].stage = "admitted" /\ CallsMade[w].kind = "snapshot"
    BY <1>1, <2>2 DEF Stage
  <2>4. Ledger!Return(w)
    BY <2>1, <2>3, CallEnds DEF Ledger!Return
  <2>5. QED
    BY <2>4 DEF Ledger!Next
<1>7. CASE \/ UseBaseline(w) \/ CountHost(w) \/ CopyDay(w) \/ CopyBaseline(w) \/ CopyTotals(w)
           \/ CopyHosts(w) \/ Truncate(w)
  <2>1. UNCHANGED <<epoch, totals, kind, seen>>
    BY <1>7 DEF UseBaseline, CountHost, CopyDay, CopyBaseline, CopyTotals, CopyHosts,
                Truncate, process
  <2>2. PICK p \in Places :
           Goto(w, p) /\ Stage(p) = "counted" /\ Stage(at[w]) = "counted"
    BY <1>7 DEF UseBaseline, CountHost, CopyDay, CopyBaseline, CopyTotals, CopyHosts,
                Truncate, Stage, Places
  <2>3. CallsMade' = CallsMade
    BY <2>1, <2>2 DEF Goto, CallsMade, TypeOK
  <2>4. QED
    BY <2>1, <2>3 DEF LedgerVars
<1>8. QED
  BY <1>3, <1>4, <1>5, <1>6, <1>7, Work(w) DEF Work

(* So is every other step of the store. *)
LEMMA LedgerStep ==
  TypeOK /\ PairInv /\ ResetIsDue /\ RecordsCount /\ [Next]_vars =>
    [Ledger!Next]_<<epoch, totals.day, totals.tally, CallsMade>>
<1> SUFFICES ASSUME TypeOK, PairInv, ResetIsDue, RecordsCount, [Next]_vars
             PROVE  [Ledger!Next]_LedgerVars
  BY DEF LedgerVars
<1>1. ASSUME NEW w \in Workers, Begin(w) PROVE Ledger!Ask(w)
  <2>1. PICK k \in Kinds : kind' = [kind EXCEPT ![w] = k]
    BY <1>1 DEF Begin
  <2>2. /\ at' = [at EXCEPT ![w] = "roll"] /\ at[w] = "idle"
        /\ seen' = [seen EXCEPT ![w] = today]
        /\ UNCHANGED <<epoch, totals>>
    BY <1>1 DEF Begin, Goto, process
  <2>3. k \in Ledger!Records \cup {"snapshot"} /\ today \in 0..MaxDay
    <3>1. k \in {"fresh", "reused", "failure", "reconnect", "snapshot"}
      BY KindsAssumption DEF AllKinds
    <3>2. QED
      BY <3>1, RecordKinds DEF TypeOK
  <2>4. Stage("roll") = "asked" /\ CallsMade[w].stage = "out"
    BY <2>2 DEF Stage, CallsMade
  <2>5. CallsMade' = [CallsMade EXCEPT ![w] = [stage |-> "asked", kind |-> k, on |-> today]]
    BY <2>1, <2>2, <2>4 DEF CallsMade, TypeOK
  <2>6. QED
    BY <2>2, <2>3, <2>4, <2>5 DEF Ledger!Ask
<1>2. CASE NewDaemon
  <2>1. CASE Restart
    <3>1. CallsMade' = [w \in Workers |-> Ledger!NoCall]
      BY <2>1 DEF Restart, CallsMade, Stage, Ledger!NoCall
    <3>2. QED
      BY <2>1, <3>1 DEF Restart, Ledger!Reload, Ledger!Next
  <2>2. CASE UNCHANGED <<day, totals, hosts, at, kind, seen, copy, epoch>>
    BY <2>2 DEF LedgerVars, CallsMade
  <2>3. QED
    BY <1>2, <2>1, <2>2, StarterStep
<1>3. CASE Midnight \/ UNCHANGED vars
  BY <1>3 DEF Midnight, process, vars, LedgerVars, CallsMade
<1>4. QED
  BY <1>1, <1>2, <1>3, LedgerWorkStep DEF Next, Ledger!Next

(* The store implements the ledger: through locks taken one by one, each    *)
(* call that records is counted exactly once before it returns, in counters *)
(* that are of the day it came with or of a later roll, and no reset wipes  *)
(* a count of the day it begins, for any number of threads, calls,          *)
(* midnights and daemons.                                                   *)
THEOREM ImplementsLedger == Spec => LedgerSpec
<1>1. Init => ResetIsDue /\ RecordsCount /\ PairInv
  BY FreshTotals, BoundsAssumption
     DEF Init, ResetIsDue, RecordsCount, PairInv, TotalsAreOfDay, CopyHoldsDay, CopyIsPaired,
         StarterIsPaired, NoStarter, FilePairsDayWithTotals, DayWriters, DayReaders, In, Fresh
<1>2. Init => Ledger!Init
  BY DEF Init, Fresh, CallsMade, Stage, Ledger!Init, Ledger!NoCall
<1>3. Spec => [](TypeOK /\ PairInv /\ ResetIsDue /\ RecordsCount)
  BY <1>1, TypeCorrect, DayAndTotalsPaired, ResetStep, RecordsCountStep, PTL DEF Spec
<1>4. QED
  BY <1>2, <1>3, LedgerStep, PTL DEF Spec, LedgerSpec, Ledger!Spec

-----------------------------------------------------------------------------
(* What a restart can lose grows by one for every other thread.             *)
LEMMA LossGrows ==
  ASSUME NEW e \in Nat \ {0}
  PROVE  /\ Cardinality(Workers) - 1 \in Nat
         /\ LostAtRestarts(e) \in Nat
         /\ LostAtRestarts(e + 1) = LostAtRestarts(e) + (Cardinality(Workers) - 1)
<1> DEFINE n == Cardinality(Workers) - 1
<1>1. n \in Nat
  BY WorkersAssumption, FS_CardinalityType, FS_EmptySet
<1>2. LostAtRestarts(e) = (e - 1) * n /\ LostAtRestarts(e + 1) = ((e + 1) - 1) * n
  BY DEF LostAtRestarts
<1> HIDE DEF n
<1>3. (e - 1) * n \in Nat /\ ((e + 1) - 1) * n = (e - 1) * n + n
  BY <1>1
<1>4. QED
  BY <1>1, <1>2, <1>3 DEF n

LEMMA UncountedBound ==
  /\ IsFiniteSet(Uncounted) /\ Cardinality(Uncounted) \in Nat
  /\ \A w \in Workers : w \notin Uncounted => Cardinality(Uncounted) <= Cardinality(Workers) - 1
<1>1. Uncounted \in SUBSET Workers
  BY DEF Uncounted, In
<1>2. IsFiniteSet(Uncounted) /\ Cardinality(Uncounted) \in Nat
  BY <1>1, WorkersAssumption, FS_Subset, FS_CardinalityType
<1>3. ASSUME NEW w \in Workers, w \notin Uncounted
      PROVE  Cardinality(Uncounted) <= Cardinality(Workers) - 1
  <2>1. /\ IsFiniteSet(Workers \ {w})
        /\ Cardinality(Workers \ {w}) = Cardinality(Workers) - 1
    BY <1>3, WorkersAssumption, FS_RemoveElement
  <2>2. Uncounted \in SUBSET (Workers \ {w})
    BY <1>1, <1>3
  <2>3. QED
    BY <2>1, <2>2, FS_Subset
<1>4. QED
  BY <1>2, <1>3

(* A record moves the connections if it is one.                             *)
LEMMA AddConnections ==
  ASSUME NEW t \in [Ledger!Counters -> Nat], NEW k \in AllKinds \ {"snapshot"}
  PROVE  Ledger!Add(t, k)["connections"] =
           IF k \in Connections THEN t["connections"] + 1 ELSE t["connections"]
BY DEF Ledger!Add, Ledger!Moves, Ledger!Counters, Connections, AllKinds

LEMMA FreshIsZero == \A d : Fresh(d).tally["connections"] = 0
BY DEF Fresh, Ledger!Zero, Ledger!Counters

(* The facts of the type invariant the step needs.                          *)
HostTypes ==
  /\ epoch \in Nat \ {0} /\ hosts \in Nat
  /\ totals.tally \in [Ledger!Counters -> Nat] /\ totals.tally["connections"] \in Nat
  /\ at \in [Workers -> Places] /\ kind \in [Workers -> AllKinds]
  /\ copy \in [Workers -> [day : 0..MaxDay, totals : Totals, hosts : Nat]]
  /\ \A w \in Workers : /\ copy[w].totals.tally["connections"] \in Nat
                         /\ copy[w].hosts \in Nat
  /\ file.totals.tally["connections"] \in Nat /\ file.hosts \in Nat
  /\ starter.totals.tally["connections"] \in Nat /\ starter.hosts \in Nat

LEMMA HostTypesHold == TypeOK => HostTypes
BY BoundsAssumption DEF TypeOK, HostTypes, Totals, Ledger!Counters

LEMMA HostsWorkStep ==
  ASSUME TypeOK, RecordsCount, HostsInv, NEW w \in Workers, Work(w)
  PROVE  HostsInv'
<1> USE DEF HostsInv, HostsKeepUp, CopiesKeepUp, FileKeepsUp, StarterKeepsUp
<1>1. HostTypes
  BY HostTypesHold
<1>2. /\ Cardinality(Workers) - 1 \in Nat /\ LostAtRestarts(epoch) \in Nat
      /\ LostAtRestarts(epoch + 1) = LostAtRestarts(epoch) + (Cardinality(Workers) - 1)
      /\ LostAtRestarts(epoch + 1) \in Nat
  BY <1>1, LossGrows DEF HostTypes
<1>3. /\ IsFiniteSet(Uncounted) /\ Cardinality(Uncounted) \in Nat
      /\ w \notin Uncounted => Cardinality(Uncounted) <= Cardinality(Workers) - 1
  BY UncountedBound
<1>4. /\ UNCHANGED <<epoch, starter>>
      /\ LostAtRestarts(epoch)' = LostAtRestarts(epoch)
      /\ LostAtRestarts(epoch + 1)' = LostAtRestarts(epoch + 1)
      /\ StarterKeepsUp'
  <2>1. UNCHANGED <<epoch, starter>>
    BY Work(w) DEF Work, RollDay, ResetTotals, CountRecord, UseBaseline, CountHost, ReadSnapshot,
               CopyDay, CopyBaseline, CopyTotals, CopyHosts, Truncate, OpenFails, Write,
               WriteFails, process
  <2>2. QED
    BY <2>1 DEF LostAtRestarts
<1>5. CASE CountRecord(w)
  <2>1. /\ totals'.tally["connections"] =
             IF kind[w] \in Connections THEN totals.tally["connections"] + 1
                                        ELSE totals.tally["connections"]
    <3>1. kind[w] \in AllKinds \ {"snapshot"}
      BY <1>1, <1>5 DEF CountRecord, RecordsCount, HostTypes
    <3>2. totals'.tally = Ledger!Add(totals.tally, kind[w])
      BY <1>5 DEF CountRecord, TypeOK, Totals
    <3>3. QED
      BY <1>1, <3>1, <3>2, AddConnections DEF HostTypes
  <2>2. w \notin Uncounted
    BY <1>5 DEF CountRecord, Uncounted, In
  <2>3. Uncounted' = IF kind[w] \in Connections THEN Uncounted \cup {w} ELSE Uncounted
    BY <1>1, <1>5, <2>2 DEF CountRecord, Goto, Uncounted, In, HostTypes, Connections
  <2>4. Cardinality(Uncounted') = IF kind[w] \in Connections THEN Cardinality(Uncounted) + 1
                                                            ELSE Cardinality(Uncounted)
    BY <1>3, <2>2, <2>3, FS_AddElement
  <2>5. HostsKeepUp'
    BY <1>1, <1>2, <1>3, <1>4, <1>5, <2>1, <2>4 DEF CountRecord, HostTypes
  <2>6. CopiesKeepUp' /\ FileKeepsUp'
    BY <1>1, <1>4, <1>5 DEF CountRecord, Goto, HostTypes
  <2>7. QED
    BY <1>4, <2>5, <2>6
<1>6. CASE CountHost(w)
  <2>1. Uncounted' = IF kind[w] \in Connections THEN Uncounted \ {w} ELSE Uncounted
    BY <1>1, <1>6 DEF CountHost, Goto, Uncounted, In, HostTypes
  <2>2. kind[w] \in Connections => w \in Uncounted
    BY <1>6 DEF CountHost, Uncounted, In
  <2>3. Cardinality(Uncounted') = IF kind[w] \in Connections THEN Cardinality(Uncounted) - 1
                                                            ELSE Cardinality(Uncounted)
    BY <1>3, <2>1, <2>2, FS_RemoveElement
  <2>4. hosts' \in Nat /\ hosts' >= hosts /\
        hosts' = IF kind[w] \in Connections THEN hosts + 1 ELSE hosts
    BY <1>1, <1>6 DEF CountHost, HostTypes
  <2>5. HostsKeepUp'
    BY <1>1, <1>2, <1>3, <1>4, <1>6, <2>3, <2>4 DEF CountHost, HostTypes
  <2>6. CopiesKeepUp'
    BY <1>1, <1>2, <1>4, <1>6, <2>4 DEF CountHost, Goto, HostTypes
  <2>7. FileKeepsUp'
    BY <1>4, <1>6 DEF CountHost
  <2>8. QED
    BY <1>4, <2>5, <2>6, <2>7
<1>7. ASSUME ~CountRecord(w), ~CountHost(w) PROVE Uncounted' = Uncounted
  BY <1>1, <1>7, Work(w)
     DEF Work, RollDay, AfterRoll, ResetTotals, UseBaseline, ReadSnapshot, Return, CopyDay,
         CopyBaseline, CopyTotals, CopyHosts, Truncate, OpenFails, Write, WriteFails, Goto, Uncounted, In,
         HostTypes
<1>8. CASE ResetTotals(w)
  <2>1. totals'.tally["connections"] = 0
    BY <1>8, FreshIsZero DEF ResetTotals
  <2>2. Uncounted' = Uncounted
    BY <1>1, <1>8 DEF ResetTotals, AfterRoll, Goto, Uncounted, In, HostTypes
  <2>3. HostsKeepUp'
    BY <1>1, <1>2, <1>3, <1>4, <1>8, <2>1, <2>2 DEF ResetTotals, HostTypes
  <2>4. CopiesKeepUp' /\ FileKeepsUp'
    BY <1>1, <1>4, <1>8 DEF ResetTotals, AfterRoll, Goto, HostTypes
  <2>5. QED
    BY <1>4, <2>3, <2>4
<1>9. CASE CopyTotals(w)
  <2>1. w \notin Uncounted
    BY <1>9 DEF CopyTotals, Uncounted, In
  <2>2. UNCHANGED <<totals, hosts, file>> /\ Uncounted' = Uncounted
    BY <1>1, <1>9 DEF CopyTotals, Goto, Uncounted, In, HostTypes
  <2>3. totals.tally["connections"] <= hosts + LostAtRestarts(epoch + 1)
    BY <1>1, <1>2, <1>3, <2>1 DEF HostTypes
  <2>4. CopiesKeepUp'
    BY <1>1, <1>4, <1>9, <2>3 DEF CopyTotals, Goto, HostTypes
  <2>5. QED
    BY <1>4, <2>2, <2>4
<1>10. CASE CopyHosts(w)
  BY <1>1, <1>4, <1>7, <1>10 DEF CopyHosts, CountRecord, CountHost, Goto, HostTypes
<1>11. CASE OpenFails(w) \/ Write(w) \/ WriteFails(w)
  <2>1. UNCHANGED <<totals, hosts>> /\ Uncounted' = Uncounted
    BY <1>7, <1>11 DEF OpenFails, Write, WriteFails, CountRecord, CountHost
  <2>2. /\ at'[w] = "idle"
        /\ \A v \in Workers : v # w => at'[v] = at[v] /\ copy'[v] = copy[v]
    BY <1>1, <1>11 DEF OpenFails, Write, WriteFails, Return, Goto, HostTypes
  <2>3. \/ file' = file \/ file'.text = "torn"
        \/ /\ at[w] = "write"
           /\ file'.totals = copy[w].totals /\ file'.hosts = copy[w].hosts
    BY <1>11 DEF OpenFails, Write, WriteFails, Written, Spoiled, TypeOK
  <2>4. FileKeepsUp'
    BY <1>4, <2>3
  <2>5. HostsKeepUp' /\ CopiesKeepUp'
    BY <1>4, <2>1, <2>2
  <2>6. QED
    BY <1>4, <2>4, <2>5
<1>12. CASE RollDay(w) \/ UseBaseline(w)
  BY <1>1, <1>4, <1>7, <1>12 DEF RollDay, AfterRoll, UseBaseline, CountRecord, CountHost, Goto, HostTypes
<1>13. CASE ReadSnapshot(w) \/ Truncate(w)
  <2>1. UNCHANGED <<totals, hosts>> /\ Uncounted' = Uncounted
    BY <1>7, <1>13 DEF ReadSnapshot, Truncate, CountRecord, CountHost
  <2>2. UNCHANGED file \/ file'.text = "empty"
    BY <1>13 DEF ReadSnapshot, Truncate, Truncated, TypeOK
  <2>3. /\ at'[w] \in {"idle", "write"}
        /\ at'[w] = "write" => at[w] = "truncate" /\ copy'[w] = copy[w]
        /\ \A v \in Workers : v # w => at'[v] = at[v] /\ copy'[v] = copy[v]
    BY <1>1, <1>13 DEF ReadSnapshot, Return, Truncate, Goto, HostTypes
  <2>4. HostsKeepUp' /\ FileKeepsUp'
    BY <1>4, <1>13, <2>1, <2>2
  <2>5. CopiesKeepUp'
    BY <1>4, <2>1, <2>3
  <2>6. QED
    BY <1>4, <2>4, <2>5
<1>14. CASE CopyDay(w) \/ CopyBaseline(w)
  <2>1. Uncounted' = Uncounted
    BY <1>7, <1>14 DEF CopyDay, CopyBaseline, CountRecord, CountHost
  <2>2. /\ UNCHANGED <<totals, hosts, file>>
        /\ at'[w] \in {"persistBaseline", "persistTotals"}
        /\ \A v \in Workers : v # w => at'[v] = at[v] /\ copy'[v] = copy[v]
    BY <1>1, <1>14 DEF CopyDay, CopyBaseline, Goto, HostTypes
  <2>3. HostsKeepUp' /\ FileKeepsUp'
    BY <1>4, <2>1, <2>2
  <2>4. CopiesKeepUp'
    BY <1>4, <2>2
  <2>5. QED
    BY <1>4, <2>3, <2>4
<1>15. QED
  BY <1>5, <1>6, <1>8, <1>9, <1>10, <1>11, <1>12, <1>13, <1>14, Work(w) DEF Work

LEMMA HostsStep == TypeOK /\ RecordsCount /\ HostsInv /\ [Next]_vars => HostsInv'
<1> SUFFICES ASSUME TypeOK, RecordsCount, HostsInv, [Next]_vars PROVE HostsInv'
  OBVIOUS
<1> USE DEF HostsInv, HostsKeepUp, CopiesKeepUp, FileKeepsUp, StarterKeepsUp
<1>1. HostTypes
  BY HostTypesHold
<1>2. ASSUME NEW w \in Workers, Begin(w) PROVE HostsInv'
  <2>1. Uncounted' = Uncounted
    BY <1>1, <1>2 DEF Begin, Goto, Uncounted, In, HostTypes
  <2>2. QED
    BY <1>1, <1>2, <2>1 DEF Begin, Goto, process, HostTypes, LostAtRestarts
<1>3. CASE Midnight \/ UNCHANGED vars
  BY <1>3 DEF Midnight, process, vars, Uncounted, In, LostAtRestarts
<1>4. CASE NewDaemon
  <2>1. /\ LostAtRestarts(epoch) \in Nat /\ LostAtRestarts(epoch + 1) \in Nat
        /\ NoStarter.totals.tally["connections"] = 0 /\ NoStarter.hosts = 0
    BY <1>1, LossGrows, FreshIsZero DEF HostTypes, NoStarter
  <2>2. CASE Restart
    <3>1. epoch' = epoch + 1 /\ epoch + 1 \in Nat \ {0}
      BY <1>1, <2>2 DEF Restart, HostTypes
    <3>2. /\ LostAtRestarts(epoch') = LostAtRestarts(epoch + 1)
          /\ LostAtRestarts(epoch' + 1) \in Nat
          /\ LostAtRestarts(epoch' + 1) >= LostAtRestarts(epoch + 1)
      <4>1. /\ Cardinality(Workers) - 1 \in Nat
            /\ LostAtRestarts(epoch' + 1) \in Nat
            /\ LostAtRestarts(epoch' + 1) = LostAtRestarts(epoch') + (Cardinality(Workers) - 1)
        BY <3>1, LossGrows
      <4>2. LostAtRestarts(epoch') = LostAtRestarts(epoch + 1)
        BY <3>1
      <4>3. QED
        BY <2>1, <4>1, <4>2
    <3>3. Uncounted' = {}
      BY <2>2 DEF Restart, Uncounted, In
    <3>4. totals' = starter.totals /\ hosts' = starter.hosts /\ starter' = NoStarter
          /\ UNCHANGED file /\ \A w \in Workers : at'[w] = "idle"
      BY <2>2 DEF Restart
    <3>5. HostsKeepUp'
      BY <1>1, <2>1, <3>2, <3>3, <3>4, FS_EmptySet DEF LostAtRestarts, HostTypes
    <3>6. CopiesKeepUp' /\ FileKeepsUp' /\ StarterKeepsUp'
      BY <1>1, <2>1, <3>2, <3>4 DEF LostAtRestarts, HostTypes
    <3>7. QED
      BY <3>5, <3>6
  <2>3. ASSUME UNCHANGED <<totals, hosts, at, kind, copy, epoch>>
        PROVE  /\ HostsKeepUp' /\ CopiesKeepUp'
               /\ LostAtRestarts(epoch + 1)' = LostAtRestarts(epoch + 1)
    BY <2>3 DEF LostAtRestarts, Uncounted, In
  <2>4. CASE Start
    BY <2>1, <2>3, <2>4, FreshIsZero DEF Start, store
  <2>5. CASE Load
    <3>1. /\ UNCHANGED file /\ UNCHANGED <<totals, hosts, at, kind, copy, epoch>>
          /\ starter'.totals = IF file.text = "whole" /\ file.day = starter.day
                                 THEN file.totals ELSE Fresh(starter.day)
          /\ starter'.hosts = IF file.text = "whole" THEN file.hosts ELSE 0
      BY <2>5 DEF Load, store, TypeOK
    <3>2. FileKeepsUp' /\ StarterKeepsUp'
      BY <1>1, <2>1, <2>3, <3>1, FreshIsZero DEF HostTypes
    <3>3. QED
      BY <2>3, <3>1, <3>2
  <2>6. CASE StarterPersists
    <3>1. /\ UNCHANGED <<totals, hosts, at, kind, copy, epoch>>
          /\ starter'.totals = starter.totals /\ starter'.hosts = starter.hosts
      BY <2>6 DEF StarterPersists, StarterGoto, store, TypeOK
    <3>2. \/ file' = file \/ file'.text \in {"empty", "torn"}
          \/ file'.totals = starter.totals /\ file'.hosts = starter.hosts
      BY <2>6 DEF StarterPersists, Truncated, Written, Spoiled, TypeOK
    <3>3. QED
      BY <2>3, <3>1, <3>2
  <2>7. CASE Refused
    BY <2>1, <2>3, <2>7 DEF Refused, store
  <2>8. QED
    BY <1>4, <2>2, <2>4, <2>5, <2>6, <2>7 DEF NewDaemon
<1>5. QED
  BY <1>2, <1>3, <1>4, HostsWorkStep DEF Next

(* "Most used hosts" keeps up with "connections today", but for what is     *)
(* being recorded and what a change of daemons lost (record_connection,     *)
(* persist, load), whatever writes fail and daemons start in vain.          *)
THEOREM HostsAreCounted == Spec => []HostsInv
<1>1. Init => HostsInv /\ RecordsCount
  <2> SUFFICES ASSUME Init PROVE HostsInv /\ RecordsCount
    OBVIOUS
  <2>1. Uncounted = {}
    BY DEF Init, Uncounted, In
  <2>2. LostAtRestarts(epoch) \in Nat /\ LostAtRestarts(epoch + 1) \in Nat
    BY LossGrows DEF Init
  <2>3. QED
    BY <2>1, <2>2, FreshIsZero, FS_EmptySet
       DEF Init, NoStarter, HostsInv, HostsKeepUp, CopiesKeepUp, FileKeepsUp,
           StarterKeepsUp, RecordsCount
<1>2. QED
  BY <1>1, TypeCorrect, RecordsCountStep, HostsStep, PTL DEF Spec
=============================================================================
