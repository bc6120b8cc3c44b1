----------------------- MODULE DaemonOwnership_proofs -----------------------
(***************************************************************************)
(* Proofs about who owns a master and who hears of it, when requests keep  *)
(* to keys of their own and no health loop runs: however many requests run *)
(* at once and whatever they evict from each other, every entry has been   *)
(* announced, and where ssh commands do what they say every master that    *)
(* lives is accounted for.                                                 *)
(***************************************************************************)
EXTENDS Daemon_proofs

(* No two clients are about the same key. *)
Disjoint ==
  \A c, d \in Clients :
    c # d => (Ensures[c] \cup Closes[c]) \cap (Ensures[d] \cup Closes[d]) = {}

(* Nor does anything go wrong except that masters die. *)
Exclusive ==
  /\ Disjoint
  /\ HealthCheck = FALSE
  /\ Faults \subseteq {"die"}

(* What plugins are told rests on the keys being disjoint alone; who owns  *)
(* a master, on the commands doing what they say as well.                  *)
AnnouncedInv == TargetIsOwn /\ ClosedStaysOut /\ EveryEntryAnnounced
OwnedInv == StaleStaysDead /\ NoOrphan

-----------------------------------------------------------------------------
(* Without a health loop nothing of it ever moves. *)
HealthIdle == healthAt = "loop" /\ unvisited = {}

LEMMA ClientKeepsHealth ==
  ASSUME NEW c \in Clients, Client(c)
  PROVE  UNCHANGED health
  BY DEF Client, Request, Handler, Cli, Ensure, Close, Reuse,
         FindAlive, FindStale,
         DropStale, CheckCapacity, PickVictim, NothingToEvict,
         Evict, VictimGone, StopVictim, StartMaster, NeedsInteractiveAuth,
         StartFails, InsertFresh, AnnounceOpened, StopClosed, AnnounceClosed,
         StartInteractive, InteractiveFails, RegisterExternalMaster,
         LoseHandover, health

LEMMA HealthIdleStays ==
  ASSUME HealthCheck = FALSE
  PROVE  HealthIdle => ~Health
  BY DEF HealthIdle, Health, HealthTick, HealthVisit, HealthFindsAlive,
         HealthFindsDead, HealthStart, HealthStartFails, HealthRevive,
         HealthDrop, HealthAnnounce

LEMMA HealthOff ==
  ASSUME HealthCheck = FALSE
  PROVE  Spec => []HealthIdle
<1>1. Init => HealthIdle
  BY DEF Init, HealthIdle
<1>2. HealthIdle /\ [Next]_vars => HealthIdle'
  <2>1. HealthIdle /\ (Environment \/ UNCHANGED vars) => HealthIdle'
    BY DEF HealthIdle, Environment, MasterDies, ClockTick, Restart, health, vars
  <2>2. QED
    BY <2>1, HealthIdleStays, ClientKeepsHealth DEF Next, HealthIdle, health
<1>3. QED
  BY <1>1, <1>2, PTL DEF Spec

-----------------------------------------------------------------------------
(* Whatever fails, a client's step keeps what plugins were told in line    *)
(* with the table.                                                         *)
LEMMA AnnouncedClientStep ==
  ASSUME Disjoint, TypeOK, AnnouncedInv, NEW c \in Clients, Client(c)
  PROVE  AnnouncedInv'
<1>1. \A d \in Clients \ {c} : \A k :
        k \in Ensures[c] \cup Closes[c] => k \notin Ensures[d] \cup Closes[d]
  BY DEF Disjoint
<1>2. ASSUME NEW k, connections' = Remove(connections, k)
      PROVE  DOMAIN connections' = DOMAIN connections \ {k}
  BY <1>2, RemoveDomain
<1>3. ASSUME NEW k, connections' = InsertNew(connections, k, now)
      PROVE  DOMAIN connections' = DOMAIN connections \cup {k}
  BY <1>3, InsertNewDomain
<1> USE <1>1 DEF TypeOK, AnnouncedInv, TargetIsOwn, ClosedStaysOut,
                 EveryEntryAnnounced, Goto, Reply, table
<1>4. CASE Request(c)
  <2>1. ASSUME NEW k \in Keys, Ensure(c, k) PROVE AnnouncedInv'
    BY <2>1 DEF Ensure
  <2>2. ASSUME NEW k \in Keys, Close(c, k) PROVE AnnouncedInv'
    <3>1. DOMAIN connections' = DOMAIN connections \ {k}
      BY <2>2, <1>2 DEF Close
    <3>2. TargetIsOwn' /\ ClosedStaysOut'
      BY <2>2, <3>1 DEF Close
    <3>3. EveryEntryAnnounced'
      BY <2>2, <3>1 DEF Close
    <3>4. QED
      BY <3>2, <3>3
  <2>3. QED
    BY <1>4, <2>1, <2>2 DEF Request
<1>5. CASE Handler(c)
  <2>1. CASE Reuse(c)
    BY <2>1, TouchDomain DEF Reuse
  <2>2. CASE FindStale(c)
    BY <2>2 DEF FindStale
  <2>3. CASE DropStale(c)
    <3>1. DOMAIN connections' = DOMAIN connections \ {target[c]}
      BY <2>3, <1>2 DEF DropStale
    <3>2. TargetIsOwn' /\ ClosedStaysOut'
      BY <2>3, <3>1 DEF DropStale
    <3>3. EveryEntryAnnounced'
      BY <2>3, <3>1 DEF DropStale
    <3>4. QED
      BY <3>2, <3>3
  <2>4. CASE CheckCapacity(c)
    BY <2>4 DEF CheckCapacity
  <2>5. CASE PickVictim(c)
    BY <2>5 DEF PickVictim
  <2>6. CASE NothingToEvict(c)
    BY <2>6 DEF NothingToEvict
  <2>7. CASE Evict(c)
    <3>1. DOMAIN connections' = DOMAIN connections \ {victim[c]}
      BY <2>7, <1>2 DEF Evict
    <3>2. TargetIsOwn' /\ ClosedStaysOut'
      BY <2>7, <3>1 DEF Evict
    <3>3. EveryEntryAnnounced'
      BY <2>7, <3>1 DEF Evict
    <3>4. QED
      BY <3>2, <3>3
  <2>8. CASE VictimGone(c)
    BY <2>8 DEF VictimGone
  <2>9. CASE StopVictim(c)
    BY <2>9 DEF StopVictim, StopMaster
  <2>10. CASE StartMaster(c)
    BY <2>10 DEF StartMaster
  <2>11. CASE NeedsInteractiveAuth(c)
    BY <2>11 DEF NeedsInteractiveAuth
  <2>12. CASE StartFails(c)
    BY <2>12 DEF StartFails
  <2>13. CASE InsertFresh(c)
    <3>1. DOMAIN connections' = DOMAIN connections \cup {target[c]}
      BY <2>13, <1>3 DEF InsertFresh
    <3>2. TargetIsOwn' /\ ClosedStaysOut'
      BY <2>13, <3>1 DEF InsertFresh
    <3>3. EveryEntryAnnounced'
      BY <2>13, <3>1 DEF InsertFresh
    <3>4. QED
      BY <3>2, <3>3
  <2>14. CASE AnnounceOpened(c)
    BY <2>14 DEF AnnounceOpened
  <2>15. CASE StopClosed(c)
    BY <2>15 DEF StopClosed, StopMaster
  <2>16. CASE AnnounceClosed(c)
    BY <2>16 DEF AnnounceClosed
  <2>17. CASE FindAlive(c)
    BY <2>17 DEF FindAlive
  <2>18. QED
    BY <1>5, <2>1, <2>2, <2>3, <2>4, <2>5, <2>6, <2>7, <2>8, <2>9, <2>10,
       <2>11, <2>12, <2>13, <2>14, <2>15, <2>16, <2>17 DEF Handler
<1>6. CASE Cli(c)
  <2>1. CASE StartInteractive(c)
    BY <2>1 DEF StartInteractive
  <2>2. CASE InteractiveFails(c)
    BY <2>2 DEF InteractiveFails
  <2>3. CASE RegisterExternalMaster(c)
    <3>1. DOMAIN connections' = DOMAIN connections \cup {target[c]}
      BY <2>3, <1>3 DEF RegisterExternalMaster
    <3>2. TargetIsOwn' /\ ClosedStaysOut'
      BY <2>3, <3>1 DEF RegisterExternalMaster
    <3>3. EveryEntryAnnounced'
      BY <2>3, <3>1 DEF RegisterExternalMaster
    <3>4. QED
      BY <3>2, <3>3
  <2>4. CASE LoseHandover(c)
    BY <2>4 DEF LoseHandover
  <2>5. QED
    BY <1>6, <2>1, <2>2, <2>3, <2>4 DEF Cli
<1>7. QED
  BY <1>4, <1>5, <1>6 DEF Client

LEMMA AnnouncedOtherStep ==
  ASSUME AnnouncedInv, Environment \/ UNCHANGED vars
  PROVE  AnnouncedInv'
<1> USE DEF AnnouncedInv, TargetIsOwn, ClosedStaysOut, EveryEntryAnnounced
<1>1. CASE Restart
  <2>1. DOMAIN connections' = {}
    BY <1>1 DEF Restart, EmptyTable
  <2>2. \A c \in Clients :
          at'[c] # "idle" => at[c] # "idle" /\ target'[c] = target[c]
    BY <1>1 DEF Restart, CliPlaces
  <2>3. QED
    BY <2>1, <2>2
<1>2. CASE UNCHANGED <<connections, handlers, told>>
  BY <1>2 DEF handlers
<1>3. QED
  BY <1>1, <1>2 DEF Environment, MasterDies, ClockTick, table, vars

(* An announced entry never becomes one that plugins think closed: the     *)
(* inductive invariant behind the theorem below.                           *)
THEOREM AnnouncedInvariant ==
  ASSUME Disjoint, HealthCheck = FALSE
  PROVE  Spec => []AnnouncedInv
<1>1. Init => AnnouncedInv
  BY DEF Init, EmptyTable, AnnouncedInv, TargetIsOwn, ClosedStaysOut,
         EveryEntryAnnounced
<1>2. TypeOK /\ AnnouncedInv /\ ~Health /\ [Next]_vars => AnnouncedInv'
  BY AnnouncedClientStep, AnnouncedOtherStep DEF Next
<1>3. HealthIdle => ~Health
  BY HealthIdleStays
<1>4. QED
  BY <1>1, <1>2, <1>3, TypeCorrect, HealthOff, PTL DEF Spec

(* Plugins have been told of every connection that is in the table, or are *)
(* just being told, whatever fails, dies or restarts.                      *)
THEOREM OpeningsAnnounced ==
  ASSUME Disjoint, HealthCheck = FALSE
  PROVE  Spec => []EveryEntryAnnounced
<1>1. AnnouncedInv => EveryEntryAnnounced
  BY DEF AnnouncedInv
<1>2. QED
  BY <1>1, AnnouncedInvariant, PTL

-----------------------------------------------------------------------------
(* With ssh commands that do what they say, a client's step loses no       *)
(* master.                                                                 *)
LEMMA OwnedClientStep ==
  ASSUME Exclusive, TypeOK, TargetIsOwn, OwnedInv,
         NEW c \in Clients, Client(c)
  PROVE  OwnedInv'
<1>1. /\ \A d \in Clients \ {c} : \A k :
           k \in Ensures[c] \cup Closes[c] => k \notin Ensures[d] \cup Closes[d]
      /\ "stop" \notin Faults
      /\ "check" \notin Faults
      /\ "handover" \notin Faults
  BY DEF Exclusive, Disjoint
<1>2. ASSUME NEW k, connections' = Remove(connections, k)
      PROVE  DOMAIN connections' = DOMAIN connections \ {k}
  BY <1>2, RemoveDomain
<1>3. ASSUME NEW k, connections' = InsertNew(connections, k, now)
      PROVE  DOMAIN connections' = DOMAIN connections \cup {k}
  BY <1>3, InsertNewDomain
<1> USE <1>1 DEF TypeOK, OwnedInv, TargetIsOwn, StaleStaysDead, NoOrphan,
                 Accounts, Goto, Reply, table
<1>4. CASE Request(c)
  <2>1. ASSUME NEW k \in Keys, Ensure(c, k) PROVE OwnedInv'
    BY <2>1 DEF Ensure
  <2>2. ASSUME NEW k \in Keys, Close(c, k) PROVE OwnedInv'
    <3>1. DOMAIN connections' = DOMAIN connections \ {k}
      BY <2>2, <1>2 DEF Close
    <3>2. StaleStaysDead'
      BY <2>2, <3>1 DEF Close
    <3>3. NoOrphan'
      BY <2>2, <3>1 DEF Close
    <3>4. QED
      BY <3>2, <3>3
  <2>3. QED
    BY <1>4, <2>1, <2>2 DEF Request
<1>5. CASE Handler(c)
  <2>1. CASE Reuse(c)
    BY <2>1, TouchDomain DEF Reuse
  <2>2. CASE FindStale(c)
    BY <2>2 DEF FindStale
  <2>3. CASE DropStale(c)
    <3>1. DOMAIN connections' = DOMAIN connections \ {target[c]}
      BY <2>3, <1>2 DEF DropStale
    <3>2. StaleStaysDead'
      BY <2>3, <3>1 DEF DropStale
    <3>3. NoOrphan'
      BY <2>3, <3>1 DEF DropStale
    <3>4. QED
      BY <3>2, <3>3
  <2>4. CASE CheckCapacity(c)
    BY <2>4 DEF CheckCapacity
  <2>5. CASE PickVictim(c)
    BY <2>5 DEF PickVictim
  <2>6. CASE NothingToEvict(c)
    BY <2>6 DEF NothingToEvict
  <2>7. CASE Evict(c)
    <3>1. DOMAIN connections' = DOMAIN connections \ {victim[c]}
      BY <2>7, <1>2 DEF Evict
    <3>2. StaleStaysDead'
      BY <2>7, <3>1 DEF Evict
    <3>3. NoOrphan'
      BY <2>7, <3>1 DEF Evict
    <3>4. QED
      BY <3>2, <3>3
  <2>8. CASE VictimGone(c)
    BY <2>8 DEF VictimGone
  <2>9. CASE StopVictim(c)
    BY <2>9 DEF StopVictim, StopMaster
  <2>10. CASE StartMaster(c)
    BY <2>10 DEF StartMaster
  <2>11. CASE NeedsInteractiveAuth(c)
    BY <2>11 DEF NeedsInteractiveAuth
  <2>12. CASE StartFails(c)
    BY <2>12 DEF StartFails
  <2>13. CASE InsertFresh(c)
    <3>1. DOMAIN connections' = DOMAIN connections \cup {target[c]}
      BY <2>13, <1>3 DEF InsertFresh
    <3>2. StaleStaysDead'
      BY <2>13, <3>1 DEF InsertFresh
    <3>3. NoOrphan'
      BY <2>13, <3>1 DEF InsertFresh
    <3>4. QED
      BY <3>2, <3>3
  <2>14. CASE AnnounceOpened(c)
    BY <2>14 DEF AnnounceOpened
  <2>15. CASE StopClosed(c)
    BY <2>15 DEF StopClosed, StopMaster
  <2>16. CASE AnnounceClosed(c)
    BY <2>16 DEF AnnounceClosed
  <2>17. CASE FindAlive(c)
    BY <2>17 DEF FindAlive
  <2>18. QED
    BY <1>5, <2>1, <2>2, <2>3, <2>4, <2>5, <2>6, <2>7, <2>8, <2>9, <2>10,
       <2>11, <2>12, <2>13, <2>14, <2>15, <2>16, <2>17 DEF Handler
<1>6. CASE Cli(c)
  <2>1. CASE StartInteractive(c)
    BY <2>1 DEF StartInteractive
  <2>2. CASE InteractiveFails(c)
    BY <2>2 DEF InteractiveFails
  <2>3. CASE RegisterExternalMaster(c)
    <3>1. DOMAIN connections' = DOMAIN connections \cup {target[c]}
      BY <2>3, <1>3 DEF RegisterExternalMaster
    <3>2. StaleStaysDead'
      BY <2>3, <3>1 DEF RegisterExternalMaster
    <3>3. NoOrphan'
      BY <2>3, <3>1 DEF RegisterExternalMaster
    <3>4. QED
      BY <3>2, <3>3
  <2>4. CASE LoseHandover(c)
    BY <2>4 DEF LoseHandover
  <2>5. QED
    BY <1>6, <2>1, <2>2, <2>3, <2>4 DEF Cli
<1>7. QED
  BY <1>4, <1>5, <1>6 DEF Client

LEMMA OwnedOtherStep ==
  ASSUME Exclusive, OwnedInv, Environment \/ UNCHANGED vars
  PROVE  OwnedInv'
<1> USE DEF OwnedInv, StaleStaysDead, NoOrphan, Accounts
<1>1. ASSUME NEW k \in Keys, MasterDies(k) PROVE OwnedInv'
  BY <1>1 DEF MasterDies, table, handlers
<1>2. CASE UNCHANGED <<connections, alive, handlers>>
  BY <1>2 DEF handlers
<1>3. ~Restart
  BY DEF Exclusive, Restart
<1>4. QED
  BY <1>1, <1>2, <1>3 DEF Environment, ClockTick, handlers, table, vars

(* With keys of their own, requests never have a stale entry come back to   *)
(* life or a closed one come back to the table behind their back: the       *)
(* inductive invariant behind the theorem below.                            *)
THEOREM ExclusiveInvariant ==
  ASSUME Exclusive
  PROVE  Spec => []ExclusiveInv
<1>1. Disjoint /\ HealthCheck = FALSE
  BY DEF Exclusive
<1>2. Spec => []AnnouncedInv
  BY <1>1, AnnouncedInvariant
<1>3. Spec => []HealthIdle
  BY <1>1, HealthOff
<1>4. Init => OwnedInv
  BY DEF Init, OwnedInv, StaleStaysDead, NoOrphan
<1>5. TypeOK /\ HealthIdle /\ AnnouncedInv /\ OwnedInv /\ [Next]_vars => OwnedInv'
  BY <1>1, HealthIdleStays, OwnedClientStep, OwnedOtherStep DEF Next, AnnouncedInv
<1>6. AnnouncedInv /\ OwnedInv => ExclusiveInv
  BY DEF AnnouncedInv, OwnedInv, ExclusiveInv
<1>7. QED
  BY <1>2, <1>3, <1>4, <1>5, <1>6, TypeCorrect, PTL DEF Spec

(* The daemon loses no master: one that lives is in the table, or a        *)
(* request in progress is about to put it there or to stop it, with any    *)
(* number of requests evicting each other's connections.                   *)
THEOREM NoMasterLost ==
  ASSUME Exclusive
  PROVE  Spec => []NoOrphan
<1>1. ExclusiveInv => NoOrphan
  BY DEF ExclusiveInv
<1>2. QED
  BY <1>1, ExclusiveInvariant, PTL

-----------------------------------------------------------------------------
(* How a master comes to be nobody's, and a connection to be held open     *)
(* though it is gone: for any requests, with every fault and with the      *)
(* health loop.                                                            *)
LEMMA OrphanedByClient ==
  ASSUME TypeOK, NEW k \in Keys, ~Orphaned(k), Orphaned(k)',
         NEW c \in Clients, Client(c)
  PROVE  Abandons(k)
<1>1. /\ k \in alive' /\ k \notin DOMAIN connections' /\ ~Accounts(c, k)'
      /\ k \notin alive \/ k \in DOMAIN connections \/ Accounts(c, k)
  <2>1. \A d \in Clients \ {c} : Accounts(d, k)' <=> Accounts(d, k)
    BY ClientFrame DEF Accounts
  <2>2. QED
    BY <2>1 DEF Orphaned
<1>2. /\ at \in [Clients -> Places]
      /\ target \in [Clients -> Keys \cup {NoKey}]
      /\ victim \in [Clients -> Keys \cup {NoKey}]
  BY DEF TypeOK
<1>3. ASSUME NEW j, connections' = Remove(connections, j)
      PROVE  DOMAIN connections' = DOMAIN connections \ {j}
  BY <1>3, RemoveDomain
<1>4. ASSUME NEW j, connections' = InsertNew(connections, j, now)
      PROVE  DOMAIN connections' = DOMAIN connections \cup {j}
  BY <1>4, InsertNewDomain
<1> USE <1>1, <1>2 DEF Accounts, Goto, Reply, table
<1>5. CASE Request(c)
  <2>1. ASSUME NEW j \in Keys, Ensure(c, j) PROVE Abandons(k)
    BY <2>1 DEF Ensure
  <2>2. ASSUME NEW j \in Keys, Close(c, j) PROVE Abandons(k)
    <3>1. DOMAIN connections' = DOMAIN connections \ {j}
      BY <1>3, <2>2 DEF Close
    <3>2. QED
      BY <2>2, <3>1 DEF Close
  <2>3. QED
    BY <1>5, <2>1, <2>2 DEF Request
<1>6. CASE DropStale(c)
  BY <1>3, <1>6 DEF Abandons, DropStale
<1>7. CASE StopVictim(c) \/ StopClosed(c)
  BY <1>7 DEF Abandons, StopVictim, StopClosed, StopMaster
<1>8. CASE Reuse(c)
  BY <1>8, TouchDomain DEF Reuse
<1>9. CASE Evict(c)
  BY <1>3, <1>9 DEF Evict
<1>10. CASE InsertFresh(c) \/ RegisterExternalMaster(c)
  <2>1. DOMAIN connections' = DOMAIN connections \cup {target[c]}
    BY <1>4, <1>10 DEF InsertFresh, RegisterExternalMaster
  <2>2. QED
    BY <1>10, <2>1 DEF InsertFresh, RegisterExternalMaster
<1>11. CASE StartMaster(c) \/ StartInteractive(c)
  BY <1>11 DEF StartMaster, StartInteractive
<1>12. CASE InteractiveFails(c) \/ LoseHandover(c)
  BY <1>12 DEF Abandons, InteractiveFails, LoseHandover
<1>13. CASE \/ FindAlive(c) \/ FindStale(c)
            \/ CheckCapacity(c) \/ PickVictim(c)
            \/ NothingToEvict(c) \/ VictimGone(c) \/ NeedsInteractiveAuth(c)
            \/ StartFails(c) \/ AnnounceOpened(c) \/ AnnounceClosed(c)
  BY <1>13 DEF FindAlive, FindStale, CheckCapacity, PickVictim, NothingToEvict,
               VictimGone, NeedsInteractiveAuth, StartFails, AnnounceOpened,
               AnnounceClosed
<1>14. QED
  BY <1>5, <1>6, <1>7, <1>8, <1>9, <1>10, <1>11, <1>12, <1>13
     DEF Client, Handler, Cli

LEMMA OrphanedByOthers ==
  ASSUME NEW k \in Keys, ~Orphaned(k), Orphaned(k)',
         Health \/ Environment \/ UNCHANGED vars
  PROVE  Abandons(k)
<1> USE DEF Orphaned, Accounts
<1>1. CASE HealthStart
  BY <1>1 DEF HealthStart, Abandons, table, handlers
<1>2. CASE HealthDrop
  BY <1>2, RemoveDomain DEF HealthDrop, Abandons, handlers
<1>3. CASE HealthRevive
  BY <1>3, TouchDomain DEF HealthRevive, handlers
<1>4. ASSUME NEW j \in Keys, MasterDies(j) PROVE Abandons(k)
  BY <1>4 DEF MasterDies, table, handlers
<1>5. CASE Restart
  BY <1>5 DEF Abandons
<1>6. CASE UNCHANGED <<connections, alive, handlers>>
  BY <1>6 DEF handlers
<1>7. QED
  BY <1>1, <1>2, <1>3, <1>4, <1>5, <1>6
     DEF Health, HealthTick, HealthVisit, HealthFindsAlive, HealthFindsDead,
         HealthStartFails, HealthAnnounce, Environment, ClockTick, table,
         handlers, vars

(* A master is left behind only where a command fails, a handover is lost, *)
(* an entry is dropped unseen alive or started unseen gone, or the daemon  *)
(* ends: never by requests that evict, close and open in whatever order.   *)
THEOREM EveryOrphanExplained == Spec => OrphansExplained
<1>1. TypeOK /\ [Next]_vars =>
        [\A k \in Keys : ~Orphaned(k) /\ Orphaned(k)' => Abandons(k)]_vars
  BY OrphanedByClient, OrphanedByOthers DEF Next
<1>2. QED
  BY <1>1, TypeCorrect, PTL DEF Spec, OrphansExplained

LEMMA HeldOpenByClient ==
  ASSUME TypeOK, NEW k \in Keys, ~HeldOpen(k), HeldOpen(k)',
         NEW c \in Clients, Client(c)
  PROVE  Silently(k)
<1> DEFINE Mine == at[c] \in {"closeStop", "closed"} /\ target[c] = k
<1>1. /\ k \in told' /\ k \notin DOMAIN connections' /\ ~Mine'
      /\ k \notin told \/ k \in DOMAIN connections \/ Mine
  <2>1. ASSUME NEW d \in Clients \ {c}
        PROVE  at'[d] = at[d] /\ target'[d] = target[d]
    BY ClientFrame
  <2>2. ~(healthAt = "closed" /\ healthKey = k)'
    BY DEF HeldOpen, Announcing
  <2>3. UNCHANGED <<healthAt, healthKey>>
    BY ClientKeepsHealth DEF health
  <2>4. QED
    BY <2>1, <2>2, <2>3 DEF HeldOpen, Announcing
<1>2. /\ at \in [Clients -> Places]
      /\ target \in [Clients -> Keys \cup {NoKey}]
  BY DEF TypeOK
<1>3. ASSUME NEW j, connections' = Remove(connections, j)
      PROVE  DOMAIN connections' = DOMAIN connections \ {j}
  BY <1>3, RemoveDomain
<1>4. ASSUME NEW j, connections' = InsertNew(connections, j, now)
      PROVE  DOMAIN connections' = DOMAIN connections \cup {j}
  BY <1>4, InsertNewDomain
<1> USE <1>1, <1>2 DEF Goto, Reply, table
<1>5. CASE Request(c)
  <2>1. ASSUME NEW j \in Keys, Ensure(c, j) PROVE Silently(k)
    BY <2>1 DEF Ensure
  <2>2. ASSUME NEW j \in Keys, Close(c, j) PROVE Silently(k)
    <3>1. DOMAIN connections' = DOMAIN connections \ {j}
      BY <1>3, <2>2 DEF Close
    <3>2. QED
      BY <2>2, <3>1 DEF Close
  <2>3. QED
    BY <1>5, <2>1, <2>2 DEF Request
<1>6. CASE DropStale(c)
  BY <1>3, <1>6 DEF Silently, DropStale
<1>7. CASE Evict(c)
  BY <1>3, <1>7 DEF Silently, Evict
<1>8. CASE Reuse(c)
  BY <1>8, TouchDomain DEF Reuse
<1>9. CASE InsertFresh(c) \/ RegisterExternalMaster(c)
  <2>1. DOMAIN connections' = DOMAIN connections \cup {target[c]}
    BY <1>4, <1>9 DEF InsertFresh, RegisterExternalMaster
  <2>2. QED
    BY <1>9, <2>1 DEF InsertFresh, RegisterExternalMaster
<1>10. CASE AnnounceOpened(c)
  BY <1>10 DEF Silently, AnnounceOpened
<1>11. CASE StopClosed(c) \/ AnnounceClosed(c)
  BY <1>11 DEF StopClosed, AnnounceClosed
<1>12. CASE \/ FindAlive(c) \/ FindStale(c)
            \/ CheckCapacity(c) \/ PickVictim(c)
            \/ NothingToEvict(c) \/ VictimGone(c) \/ StopVictim(c)
            \/ StartMaster(c) \/ NeedsInteractiveAuth(c) \/ StartFails(c)
            \/ StartInteractive(c) \/ InteractiveFails(c) \/ LoseHandover(c)
  BY <1>12 DEF FindAlive, FindStale, CheckCapacity, PickVictim, NothingToEvict,
               VictimGone, StopVictim, StartMaster, NeedsInteractiveAuth,
               StartFails, StartInteractive, InteractiveFails, LoseHandover
<1>13. QED
  BY <1>5, <1>6, <1>7, <1>8, <1>9, <1>10, <1>11, <1>12 DEF Client, Handler, Cli

LEMMA HeldOpenByOthers ==
  ASSUME NEW k \in Keys, ~HeldOpen(k), HeldOpen(k)',
         Health \/ Environment \/ UNCHANGED vars
  PROVE  Silently(k)
<1> USE DEF HeldOpen, Announcing
<1>1. CASE HealthDrop
  <2>1. DOMAIN connections' = DOMAIN connections \ {healthKey}
    BY <1>1, RemoveDomain DEF HealthDrop
  <2>2. QED
    BY <1>1, <2>1 DEF HealthDrop, HealthGoto, handlers
<1>2. CASE HealthRevive
  BY <1>2, TouchDomain DEF HealthRevive, NextKey, handlers
<1>3. CASE HealthAnnounce
  BY <1>3 DEF HealthAnnounce, NextKey, table, handlers
<1>4. CASE Restart
  BY <1>4 DEF Silently
<1>5. CASE /\ UNCHANGED <<connections, told, handlers>>
           /\ healthAt # "closed" \/ UNCHANGED <<healthAt, healthKey>>
  BY <1>5 DEF handlers
<1>6. QED
  BY <1>1, <1>2, <1>3, <1>4, <1>5
     DEF Health, HealthTick, HealthVisit, HealthFindsAlive, HealthFindsDead,
         HealthStart, HealthStartFails, Environment, MasterDies, ClockTick,
         table, handlers, health, vars

(* Plugins never go on holding open a connection that was closed or that   *)
(* the health loop dropped: only an eviction, a stale entry, an opening    *)
(* announced too late or the end of the daemon leave them with one.        *)
THEOREM EveryDriftExplained == Spec => DriftExplained
<1>1. TypeOK /\ [Next]_vars =>
        [\A k \in Keys : ~HeldOpen(k) /\ HeldOpen(k)' => Silently(k)]_vars
  BY HeldOpenByClient, HeldOpenByOthers DEF Next
<1>2. QED
  BY <1>1, TypeCorrect, PTL DEF Spec, DriftExplained
=============================================================================
