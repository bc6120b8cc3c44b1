---------------------------- MODULE Daemon_proofs ----------------------------
(***************************************************************************)
(* Proofs about Daemon, for every value of its constants: any number of    *)
(* clients and keys, any configuration, every fault.                       *)
(***************************************************************************)
EXTENDS Daemon, ConnectionManager_proofs

(* Every step keeps the types. *)
LEMMA TypeStep == TypeOK /\ [Next]_vars => TypeOK'
<1> SUFFICES ASSUME TypeOK, [Next]_vars PROVE TypeOK'
  OBVIOUS
<1> USE NoKeyAssumption, RequestsAssumption, ConfigAssumption
<1>1. now \in Nat
  BY DEF TypeOK
<1>2. ASSUME NEW key
      PROVE  /\ IsTable(Touch(connections, key, now), Keys, now)
             /\ IsTable(Remove(connections, key), Keys, now)
             /\ key \in Keys => IsTable(InsertNew(connections, key, now), Keys, now)
  BY <1>1, TouchType, RemoveType, InsertNewType DEF TypeOK
<1>3. ASSUME NEW c \in Clients, Request(c) PROVE TypeOK'
  <2>1. ASSUME NEW k \in Keys, Ensure(c, k) PROVE TypeOK'
    BY <2>1 DEF Ensure, TypeOK, Goto, Places, table, health
  <2>2. ASSUME NEW k \in Keys, Close(c, k) PROVE TypeOK'
    BY <2>2, <1>2 DEF Close, TypeOK, Goto, Places, health
  <2>3. QED
    BY <1>3, <2>1, <2>2 DEF Request
<1>4. ASSUME NEW c \in Clients, Handler(c) PROVE TypeOK'
  <2>1. CASE Reuse(c)
    BY <2>1, <1>2 DEF Reuse, TypeOK, Goto, Reply, Places, health
  <2>2. CASE FindStale(c)
    BY <2>2 DEF FindStale, TypeOK, Goto, Places, table, health
  <2>3. CASE DropStale(c)
    BY <2>3, <1>2 DEF DropStale, TypeOK, Goto, Places, health
  <2>4. CASE CheckCapacity(c)
    BY <2>4 DEF CheckCapacity, TypeOK, Goto, Places, table, health
  <2>5. CASE PickVictim(c)
    <3>1. PICK k \in LeastRecentlyUsed(connections) :
            victim' = [victim EXCEPT ![c] = k]
      BY <2>5 DEF PickVictim
    <3>2. k \in Keys
      BY <3>1, LeastRecentlyUsedFacts DEF TypeOK, IsTable
    <3>3. QED
      BY <2>5, <3>1, <3>2 DEF PickVictim, TypeOK, Goto, Places, table, health
  <2>6. CASE NothingToEvict(c)
    BY <2>6 DEF NothingToEvict, TypeOK, Goto, Places, table, health
  <2>7. CASE Evict(c)
    BY <2>7, <1>2 DEF Evict, TypeOK, Goto, Places, health
  <2>8. CASE VictimGone(c)
    BY <2>8 DEF VictimGone, TypeOK, Goto, Places, table, health
  <2>9. CASE StopVictim(c)
    BY <2>9 DEF StopVictim, StopMaster, TypeOK, Goto, Places, table, health
  <2>10. CASE StartMaster(c)
    BY <2>10 DEF StartMaster, TypeOK, Goto, Places, table, health
  <2>11. CASE NeedsInteractiveAuth(c)
    BY <2>11 DEF NeedsInteractiveAuth, TypeOK, Goto, Places, table, health
  <2>12. CASE StartFails(c)
    BY <2>12 DEF StartFails, TypeOK, Goto, Reply, Places, table, health
  <2>13. CASE InsertFresh(c)
    BY <2>13, <1>2 DEF InsertFresh, TypeOK, Goto, Places, health
  <2>14. CASE AnnounceOpened(c)
    BY <2>14 DEF AnnounceOpened, TypeOK, Goto, Reply, Places, table, health
  <2>15. CASE StopClosed(c)
    BY <2>15 DEF StopClosed, StopMaster, TypeOK, Goto, Places, table, health
  <2>16. CASE AnnounceClosed(c)
    BY <2>16 DEF AnnounceClosed, TypeOK, Goto, Reply, Places, table, health
  <2>17. CASE FindAlive(c)
    BY <2>17 DEF FindAlive, TypeOK, Goto, Places, table, health
  <2>18. QED
    BY <1>4, <2>1, <2>2, <2>3, <2>4, <2>5, <2>6, <2>7, <2>8, <2>9, <2>10,
       <2>11, <2>12, <2>13, <2>14, <2>15, <2>16, <2>17 DEF Handler
<1>5. ASSUME NEW c \in Clients, Cli(c) PROVE TypeOK'
  <2>1. CASE StartInteractive(c)
    BY <2>1 DEF StartInteractive, TypeOK, Goto, Places, table, health
  <2>2. CASE InteractiveFails(c)
    BY <2>2 DEF InteractiveFails, TypeOK, Goto, Reply, Places, table, health
  <2>3. CASE RegisterExternalMaster(c)
    BY <2>3, <1>2 DEF RegisterExternalMaster, TypeOK, Goto, Places, health
  <2>4. CASE LoseHandover(c)
    BY <2>4 DEF LoseHandover, TypeOK, Goto, Reply, Places, table, health
  <2>5. QED
    BY <1>5, <2>1, <2>2, <2>3, <2>4 DEF Cli
<1>6. ASSUME Health PROVE TypeOK'
  <2>1. CASE HealthTick
    BY <2>1 DEF HealthTick, TypeOK, IsTable, table, handlers
  <2>2. ASSUME NEW k \in Keys, HealthVisit(k) PROVE TypeOK'
    BY <2>2 DEF HealthVisit, TypeOK, HealthPlaces, table, handlers
  <2>3. CASE HealthFindsAlive
    BY <2>3 DEF HealthFindsAlive, NextKey, TypeOK, HealthPlaces, table, handlers
  <2>4. CASE HealthFindsDead
    BY <2>4 DEF HealthFindsDead, HealthGoto, TypeOK, HealthPlaces, table, handlers
  <2>5. CASE HealthStart
    BY <2>5 DEF HealthStart, HealthGoto, TypeOK, HealthPlaces, table, handlers
  <2>6. CASE HealthStartFails
    BY <2>6 DEF HealthStartFails, HealthGoto, TypeOK, HealthPlaces, table, handlers
  <2>7. CASE HealthRevive
    BY <2>7, <1>2 DEF HealthRevive, NextKey, TypeOK, HealthPlaces, handlers
  <2>8. CASE HealthDrop
    BY <2>8, <1>2 DEF HealthDrop, HealthGoto, TypeOK, HealthPlaces, handlers
  <2>9. CASE HealthAnnounce
    BY <2>9 DEF HealthAnnounce, NextKey, TypeOK, HealthPlaces, table, handlers
  <2>10. QED
    BY <1>6, <2>1, <2>2, <2>3, <2>4, <2>5, <2>6, <2>7, <2>8, <2>9 DEF Health
<1>7. ASSUME NEW k \in Keys, MasterDies(k) PROVE TypeOK'
  BY <1>7 DEF MasterDies, TypeOK, table, handlers, health
<1>8. CASE ClockTick
  <2>1. IsTable(connections, Keys, now + 1)
    BY <1>1, LaterTable DEF TypeOK
  <2>2. QED
    BY <1>8, <2>1 DEF ClockTick, TypeOK, handlers, health
<1>9. CASE Restart
  <2>1. Starting \subseteq Keys
    BY DEF Starting, TypeOK
  <2>2. alive' \subseteq Keys
    BY <1>9, <2>1 DEF Restart, TypeOK
  <2>3. IsTable(connections, Keys, now)'
    BY <1>9, <1>1, EmptyTableFacts DEF Restart
  <2>4. QED
    BY <1>9, <2>2, <2>3 DEF Restart, CliPlaces, TypeOK, Places, HealthPlaces
<1>10. CASE UNCHANGED vars
  BY <1>10 DEF vars, TypeOK
<1>11. QED
  BY <1>3, <1>4, <1>5, <1>6, <1>7, <1>8, <1>9, <1>10
     DEF Next, Client, Environment

(* The variables keep their types, whatever the requests, the faults and   *)
(* the health loop do.                                                     *)
THEOREM TypeCorrect == Spec => []TypeOK
<1>1. Init => TypeOK
  BY EmptyTableFacts, ConfigAssumption, NoKeyAssumption
     DEF Init, TypeOK, Places, HealthPlaces
<1>2. QED
  BY <1>1, TypeStep, PTL DEF Spec

-----------------------------------------------------------------------------
(* Connections are opened one at a time, as the CLI of one user in one     *)
(* terminal does; any number of other requests may be closing them.        *)
OneOpensAtATime ==
  \A c, d \in Clients : Ensures[c] # {} /\ Ensures[d] # {} => c = d

(* Only a client that asks for connections is ever on its way to open one. *)
ClosingPlaces == {"idle", "closeStop", "closed"}
OnlyOpenersOpen ==
  \A c \in Clients : at[c] \notin ClosingPlaces => Ensures[c] # {}

(* What a client does moves its own slot, no other and not the health      *)
(* loop's, and sets out to open a connection only when it asks for some.   *)
LEMMA ClientFrame ==
  ASSUME TypeOK, NEW c \in Clients, Client(c)
  PROVE  /\ \A d \in Clients \ {c} : /\ at'[d] = at[d]
                                     /\ target'[d] = target[d]
                                     /\ victim'[d] = victim[d]
         /\ healthAt' = healthAt
         /\ at'[c] \notin ClosingPlaces =>
              at[c] \notin ClosingPlaces \/ Ensures[c] # {}
<1> USE DEF Goto, Reply, ClosingPlaces, health
<1>1. /\ at \in [Clients -> Places]
      /\ target \in [Clients -> Keys \cup {NoKey}]
      /\ victim \in [Clients -> Keys \cup {NoKey}]
  BY DEF TypeOK
<1>2. CASE Request(c)
  BY <1>1, <1>2 DEF Request, Ensure, Close
<1>3. CASE Handler(c)
  BY <1>1, <1>3
     DEF Handler, Reuse, FindAlive, FindStale,
         DropStale, CheckCapacity, PickVictim,
         NothingToEvict, Evict, VictimGone, StopVictim, StartMaster,
         NeedsInteractiveAuth, StartFails, InsertFresh, AnnounceOpened,
         StopClosed, AnnounceClosed
<1>4. CASE Cli(c)
  BY <1>1, <1>4
     DEF Cli, StartInteractive, InteractiveFails, RegisterExternalMaster,
         LoseHandover
<1>5. QED
  BY <1>2, <1>3, <1>4 DEF Client

LEMMA OpenersOnly == Spec => []OnlyOpenersOpen
<1>1. Init => OnlyOpenersOpen
  BY DEF Init, OnlyOpenersOpen, ClosingPlaces
<1>2. TypeOK /\ OnlyOpenersOpen /\ [Next]_vars => OnlyOpenersOpen'
  <2> SUFFICES ASSUME TypeOK, OnlyOpenersOpen, [Next]_vars,
                      NEW d \in Clients, at'[d] \notin ClosingPlaces
               PROVE  Ensures[d] # {}
    BY DEF OnlyOpenersOpen
  <2> USE DEF OnlyOpenersOpen
  <2>1. ASSUME NEW c \in Clients, Client(c) PROVE Ensures[d] # {}
    <3>1. CASE d = c
      BY <2>1, <3>1, ClientFrame
    <3>2. CASE d # c
      BY <2>1, <3>2, ClientFrame
    <3>3. QED
      BY <3>1, <3>2
  <2>2. CASE Restart
    BY <2>2 DEF Restart, ClosingPlaces
  <2>3. CASE UNCHANGED handlers
    BY <2>3 DEF handlers
  <2>4. QED
    BY <2>1, <2>2, <2>3
       DEF Next, Health, HealthTick, HealthVisit, HealthFindsAlive,
           HealthFindsDead, HealthStart, HealthStartFails, HealthRevive,
           HealthDrop, HealthAnnounce, Environment, MasterDies, ClockTick,
           handlers, vars
<1>3. QED
  BY <1>1, <1>2, TypeCorrect, PTL DEF Spec

LEMMA CapacityType == Capacity \in Nat /\ Capacity >= 1 /\ Capacity >= MaxConnections
  BY ConfigAssumption DEF Capacity

(* Taking an entry out disturbs nobody: there is only more room, and what  *)
(* was absent stays absent.                                                *)
LEMMA SerialRemoval ==
  ASSUME TypeOK, SerialInv, NEW key, connections' = Remove(connections, key),
         \A c \in Clients :
           \/ at'[c] \in ClosingPlaces
           \/ at'[c] = at[c] /\ target'[c] = target[c] /\ victim'[c] = victim[c]
  PROVE  SerialInv'
<1> USE CapacityType
<1>1. now \in Nat /\ IsTable(connections, Keys, now)
  BY DEF TypeOK
<1>2. /\ DOMAIN connections' \subseteq DOMAIN connections
      /\ Size(connections') <= Size(connections)
      /\ Size(connections') \in Nat
      /\ Size(connections) \in Nat
  <2>1. Size(connections) \in Nat
    BY <1>1, SizeType
  <2>2. /\ DOMAIN connections' \subseteq DOMAIN connections
        /\ IsTable(connections', Keys, now)
        /\ \/ Size(connections') = Size(connections)
           \/ Size(connections') = Size(connections) - 1
    BY <1>1, RemoveDomain, RemoveType, RemoveSize DEF IsTable
  <2>3. Size(connections') \in Nat
    BY <1>1, <2>2, SizeType
  <2>4. QED
    BY <2>1, <2>2, <2>3
<1>3. ASSUME NEW k
      PROVE  /\ Size(Remove(connections', k)) <= Size(Remove(connections, k))
             /\ Size(Remove(connections', k)) \in Nat
             /\ Size(Remove(connections, k)) \in Nat
  <2>1. /\ IsTable(Remove(connections, key), Keys, now)
        /\ IsTable(Remove(connections, k), Keys, now)
    BY <1>1, RemoveType
  <2>2. IsTable(Remove(Remove(connections, key), k), Keys, now)
    BY <1>1, <2>1, RemoveType
  <2>3. Size(Remove(Remove(connections, key), k)) <= Size(Remove(connections, k))
    BY <1>1, RemoveTwice
  <2>4. QED
    BY <2>1, <2>2, <2>3, SizeType
<1>4. QED
  BY <1>2, <1>3
     DEF SerialInv, WithinCapacity, RoomToAdd, RoomOnceEvicted, TargetAbsent,
         NeverEvictsOwnTarget, Adding, ClosingPlaces

(* The only client that opens connections keeps the room it found or made. *)
LEMMA SerialOpenerStep ==
  ASSUME OneOpensAtATime, TypeOK, OnlyOpenersOpen, SerialInv,
         NEW c \in Clients, Client(c), Ensures[c] # {}
  PROVE  SerialInv'
<1> USE CapacityType, ConfigAssumption
<1> DEFINE Mine == /\ at'[c] \in Adding => Size(connections') < Capacity
                   /\ at'[c] = "evict" =>
                        Size(Remove(connections', victim'[c])) < Capacity
                   /\ at'[c] \in {"capacity", "pick", "evict"} \cup Adding
                        => target'[c] \notin DOMAIN connections'
                   /\ at'[c] \in {"evict", "stop"} => victim'[c] # target'[c]
<1>1. SUFFICES Size(connections') <= Capacity /\ Mine
  <2>1. \A d \in Clients \ {c} : at'[d] \in ClosingPlaces
    BY ClientFrame DEF OneOpensAtATime, OnlyOpenersOpen
  <2>2. QED
    BY <2>1 DEF SerialInv, WithinCapacity, RoomToAdd, RoomOnceEvicted,
                TargetAbsent, NeverEvictsOwnTarget, Adding, ClosingPlaces
<1>2. now \in Nat /\ IsTable(connections, Keys, now)
  BY DEF TypeOK
<1>3. Size(connections) \in Nat
  BY <1>2, SizeType
<1>4. /\ at \in [Clients -> Places]
      /\ target \in [Clients -> Keys \cup {NoKey}]
      /\ victim \in [Clients -> Keys \cup {NoKey}]
      /\ at[c] # "idle" => target[c] \in Keys
  BY DEF TypeOK
<1>5. /\ Size(connections) <= Capacity
      /\ at[c] \in Adding => Size(connections) < Capacity
      /\ at[c] = "evict" => Size(Remove(connections, victim[c])) < Capacity
      /\ at[c] \in {"capacity", "pick", "evict"} \cup Adding
           => target[c] \notin DOMAIN connections
      /\ at[c] \in {"evict", "stop"} => victim[c] # target[c]
  BY DEF SerialInv, WithinCapacity, RoomToAdd, RoomOnceEvicted, TargetAbsent,
         NeverEvictsOwnTarget
<1>6. ASSUME NEW key
      PROVE  /\ DOMAIN Remove(connections, key) = DOMAIN connections \ {key}
             /\ Size(Remove(connections, key)) <= Capacity
             /\ key \in DOMAIN connections =>
                  Size(Remove(connections, key)) < Capacity
             /\ key \notin DOMAIN connections =>
                  Size(Remove(connections, key)) = Size(connections)
  <2>1. /\ DOMAIN Remove(connections, key) = DOMAIN connections \ {key}
        /\ key \in DOMAIN connections =>
             Size(Remove(connections, key)) = Size(connections) - 1
        /\ key \notin DOMAIN connections =>
             Size(Remove(connections, key)) = Size(connections)
    BY <1>2, RemoveDomain, RemoveSize DEF IsTable
  <2>2. Size(connections) - 1 < Capacity /\ Size(connections) - 1 <= Capacity
    BY <1>3, <1>5
  <2>3. QED
    BY <1>5, <2>1, <2>2
<1>7. ASSUME NEW key \in Keys, Size(connections) < Capacity
      PROVE  Size(InsertNew(connections, key, now)) <= Capacity
  <2>1. Size(InsertNew(connections, key, now)) <= Size(connections) + 1
    BY <1>2, InsertNewSize DEF IsTable
  <2>2. Size(InsertNew(connections, key, now)) \in Nat
    BY <1>2, InsertNewType, SizeType
  <2>3. QED
    BY <1>3, <1>7, <2>1, <2>2
<1>8. CASE Request(c)
  <2>1. ASSUME NEW k \in Keys, Ensure(c, k)
        PROVE  Size(connections') <= Capacity /\ Mine
    BY <2>1, <1>4, <1>5 DEF Ensure, Goto, Adding, table
  <2>2. ASSUME NEW k \in Keys, Close(c, k)
        PROVE  Size(connections') <= Capacity /\ Mine
    BY <2>2, <1>4, <1>5, <1>6 DEF Close, Goto, Adding
  <2>3. QED
    BY <1>8, <2>1, <2>2 DEF Request
<1>9. CASE Handler(c)
  <2>1. CASE Reuse(c)
    <3>1. /\ DOMAIN connections' = DOMAIN connections
          /\ Size(connections') = Size(connections)
      BY <2>1, TouchDomain DEF Reuse
    <3>2. QED
      BY <2>1, <3>1, <1>4, <1>5 DEF Reuse, Goto, Reply, Adding
  <2>2. CASE FindStale(c)
    BY <2>2, <1>4, <1>5 DEF FindStale, Goto, Adding, table
  <2>3. CASE DropStale(c)
    BY <2>3, <1>4, <1>5, <1>6 DEF DropStale, Goto, Adding
  <2>4. CASE CheckCapacity(c)
    <3>1. ~AtCapacity(connections) => Size(connections) < Capacity
      BY <1>3 DEF AtCapacity
    <3>2. QED
      BY <2>4, <3>1, <1>4, <1>5 DEF CheckCapacity, Goto, Adding, table
  <2>5. CASE PickVictim(c)
    <3>1. PICK k \in LeastRecentlyUsed(connections) :
            victim' = [victim EXCEPT ![c] = k]
      BY <2>5 DEF PickVictim
    <3>2. k \in DOMAIN connections
      BY <3>1, LeastRecentlyUsedFacts
    <3>3. Size(Remove(connections, k)) < Capacity
      BY <3>2, <1>6
    <3>4. QED
      BY <2>5, <3>1, <3>2, <3>3, <1>4, <1>5 DEF PickVictim, Goto, Adding, table
  <2>6. CASE NothingToEvict(c)
    <3>1. Size(connections) < Capacity
      BY <2>6, NoEntries DEF NothingToEvict
    <3>2. QED
      BY <2>6, <3>1, <1>4, <1>5 DEF NothingToEvict, Goto, Adding, table
  <2>7. CASE Evict(c)
    BY <2>7, <1>4, <1>5, <1>6 DEF Evict, Goto, Adding
  <2>8. CASE VictimGone(c)
    BY <2>8, <1>4, <1>5, <1>6 DEF VictimGone, Goto, Adding, table
  <2>9. CASE StopVictim(c)
    BY <2>9, <1>4, <1>5 DEF StopVictim, Goto, Adding, table
  <2>10. CASE StartMaster(c)
    BY <2>10, <1>4, <1>5 DEF StartMaster, Goto, Adding, table
  <2>11. CASE NeedsInteractiveAuth(c)
    BY <2>11, <1>4, <1>5 DEF NeedsInteractiveAuth, Goto, Adding, table
  <2>12. CASE StartFails(c)
    BY <2>12, <1>4, <1>5 DEF StartFails, Goto, Reply, Adding, table
  <2>13. CASE InsertFresh(c)
    <3>1. Size(connections') <= Capacity
      BY <2>13, <1>4, <1>5, <1>7 DEF InsertFresh, Adding
    <3>2. QED
      BY <2>13, <3>1, <1>4 DEF InsertFresh, Goto, Adding
  <2>14. CASE AnnounceOpened(c)
    BY <2>14, <1>4, <1>5 DEF AnnounceOpened, Goto, Reply, Adding, table
  <2>15. CASE StopClosed(c)
    BY <2>15, <1>4, <1>5 DEF StopClosed, Goto, Adding, table
  <2>16. CASE AnnounceClosed(c)
    BY <2>16, <1>4, <1>5 DEF AnnounceClosed, Goto, Reply, Adding, table
  <2>17. CASE FindAlive(c)
    BY <2>17, <1>4, <1>5 DEF FindAlive, Goto, Adding, table
  <2>18. QED
    BY <1>9, <2>1, <2>2, <2>3, <2>4, <2>5, <2>6, <2>7, <2>8, <2>9, <2>10,
       <2>11, <2>12, <2>13, <2>14, <2>15, <2>16, <2>17 DEF Handler
<1>10. CASE Cli(c)
  <2>1. CASE StartInteractive(c)
    BY <2>1, <1>4, <1>5 DEF StartInteractive, Goto, Adding, table
  <2>2. CASE InteractiveFails(c)
    BY <2>2, <1>4, <1>5 DEF InteractiveFails, Goto, Reply, Adding, table
  <2>3. CASE RegisterExternalMaster(c)
    <3>1. Size(connections') <= Capacity
      BY <2>3, <1>4, <1>5, <1>7 DEF RegisterExternalMaster, Adding
    <3>2. QED
      BY <2>3, <3>1, <1>4 DEF RegisterExternalMaster, Goto, Adding
  <2>4. CASE LoseHandover(c)
    BY <2>4, <1>4, <1>5 DEF LoseHandover, Goto, Reply, Adding, table
  <2>5. QED
    BY <1>10, <2>1, <2>2, <2>3, <2>4 DEF Cli
<1>11. QED
  BY <1>1, <1>8, <1>9, <1>10 DEF Client

(* A client that only closes takes out at most one entry. *)
LEMMA SerialCloserStep ==
  ASSUME TypeOK, OnlyOpenersOpen, SerialInv,
         NEW c \in Clients, Client(c), Ensures[c] = {}
  PROVE  SerialInv'
<1>1. at[c] \in ClosingPlaces /\ at'[c] \in ClosingPlaces
  BY ClientFrame DEF OnlyOpenersOpen
<1>2. \A d \in Clients :
        \/ at'[d] \in ClosingPlaces
        \/ at'[d] = at[d] /\ target'[d] = target[d] /\ victim'[d] = victim[d]
  BY <1>1, ClientFrame
<1>3. CASE \E k \in Keys : Close(c, k)
  BY <1>2, <1>3, SerialRemoval DEF Close
<1>4. CASE StopClosed(c) \/ AnnounceClosed(c)
  <2>1. UNCHANGED connections
    BY <1>4 DEF StopClosed, AnnounceClosed, table
  <2>2. QED
    BY <1>2, <2>1
       DEF SerialInv, WithinCapacity, RoomToAdd, RoomOnceEvicted, TargetAbsent,
           NeverEvictsOwnTarget, Adding, ClosingPlaces
<1>5. QED
  BY <1>1, <1>3, <1>4
     DEF ClosingPlaces, Client, Request, Handler, Cli, Ensure, Reuse,
         FindAlive, FindStale,
         DropStale, CheckCapacity, PickVictim, NothingToEvict, Evict,
         VictimGone, StopVictim, StartMaster, NeedsInteractiveAuth, StartFails,
         InsertFresh, AnnounceOpened, StartInteractive, InteractiveFails,
         RegisterExternalMaster, LoseHandover

(* The health loop and the world outside only ever take entries away. *)
LEMMA SerialOtherStep ==
  ASSUME TypeOK, SerialInv, Health \/ Environment \/ UNCHANGED vars
  PROVE  SerialInv'
<1> USE CapacityType, ConfigAssumption
    DEF SerialInv, WithinCapacity, RoomToAdd, RoomOnceEvicted, TargetAbsent,
        NeverEvictsOwnTarget
<1>1. now \in Nat /\ IsTable(connections, Keys, now)
  BY DEF TypeOK
<1>2. CASE UNCHANGED <<connections, handlers>>
  BY <1>2 DEF handlers
<1>3. CASE HealthRevive
  <2>1. /\ DOMAIN connections' = DOMAIN connections
        /\ Size(connections') = Size(connections)
    BY <1>3, TouchDomain DEF HealthRevive
  <2>2. ASSUME NEW k PROVE Size(Remove(connections', k)) = Size(Remove(connections, k))
    BY <2>1 DEF Remove, Size
  <2>3. QED
    BY <1>3, <2>1, <2>2 DEF HealthRevive, handlers
<1>4. CASE HealthDrop
  BY <1>4, SerialRemoval DEF HealthDrop, handlers
<1>5. CASE Restart
  <2>1. DOMAIN connections' = {} /\ Size(connections') = 0
    BY <1>5, <1>1, EmptyTableFacts DEF Restart
  <2>2. \A c \in Clients : at'[c] \notin {"evict", "stop"}
    BY <1>5 DEF Restart, CliPlaces
  <2>3. QED
    BY <2>1, <2>2
<1>6. QED
  BY <1>2, <1>3, <1>4, <1>5
     DEF Health, Environment, HealthTick, HealthVisit, HealthFindsAlive,
         HealthFindsDead, HealthStart, HealthStartFails, HealthAnnounce,
         MasterDies, ClockTick, table, handlers, vars

(* A daemon that is asked for one connection at a time always has, or      *)
(* makes, room for the one it is about to add, and adds it only where      *)
(* there is none, however many other requests close connections meanwhile: *)
(* the inductive invariant behind the three theorems below.                *)
THEOREM SerialInvariant ==
  ASSUME OneOpensAtATime
  PROVE  Spec => [](TypeOK /\ SerialInv)
<1>1. Init => SerialInv
  BY CapacityType, EmptyTableFacts, ConfigAssumption
     DEF Init, SerialInv, WithinCapacity, RoomToAdd, RoomOnceEvicted,
         TargetAbsent, NeverEvictsOwnTarget, Adding
<1>2. OnlyOpenersOpen /\ TypeOK /\ SerialInv /\ [Next]_vars => SerialInv'
  BY SerialOpenerStep, SerialCloserStep, SerialOtherStep DEF Next
<1>3. QED
  BY <1>1, <1>2, TypeCorrect, OpenersOnly, PTL DEF Spec

(* When connections are opened one at a time the table never outgrows      *)
(* maxConnections, whatever is closed meanwhile, whatever dies, fails or   *)
(* restarts, and with the health loop running.                             *)
THEOREM SerialCapacity ==
  ASSUME OneOpensAtATime
  PROVE  Spec => []WithinCapacity
<1>1. SerialInv => WithinCapacity
  BY DEF SerialInv
<1>2. QED
  BY <1>1, SerialInvariant, PTL

(* When connections are opened one at a time an eviction never hits the    *)
(* request's own target.                                                   *)
THEOREM SerialEviction ==
  ASSUME OneOpensAtATime
  PROVE  Spec => []NeverEvictsOwnTarget
<1>1. SerialInv => NeverEvictsOwnTarget
  BY DEF SerialInv
<1>2. QED
  BY <1>1, SerialInvariant, PTL

(* When connections are opened one at a time the daemon implements the     *)
(* bounded pool: it never overwrites an entry, adds one only where there   *)
(* is room, and takes them out one by one, or all together when it ends.   *)
THEOREM ImplementsPool ==
  ASSUME OneOpensAtATime
  PROVE  Spec => PoolSpec
<1>1. Init => Pool!Init
  BY EmptyTableFacts, ConfigAssumption DEF Init, Pool!Init
<1>2. ASSUME TypeOK, SerialInv, [Next]_vars
      PROVE  [Pool!Next]_(DOMAIN connections)
  <2>1. ASSUME NEW k \in Keys, connections' = Remove(connections, k)
        PROVE  [Pool!Next]_(DOMAIN connections)
    BY <2>1, RemoveDomain DEF Pool!Next, Pool!Release
  <2>2. ASSUME NEW k \in Keys, connections' = InsertNew(connections, k, now),
               k \notin DOMAIN connections, Size(connections) < Capacity
        PROVE  [Pool!Next]_(DOMAIN connections)
    <3>1. Cardinality(DOMAIN connections) = Pool!Cardinality(DOMAIN connections)
      BY DEF Cardinality, Pool!Cardinality
    <3>2. QED
      BY <2>2, <3>1, InsertNewDomain DEF Pool!Next, Pool!Admit, Size
  <2>3. ASSUME NEW k, connections' = Touch(connections, k, now)
        PROVE  [Pool!Next]_(DOMAIN connections)
    BY <2>3, TouchDomain
  <2>4. CASE UNCHANGED connections
    BY <2>4
  <2>5. ASSUME NEW c \in Clients, Client(c)
        PROVE  [Pool!Next]_(DOMAIN connections)
    <3>1. /\ at[c] # "idle" => target[c] \in Keys
          /\ at[c] = "evict" => victim[c] \in Keys
          /\ at[c] \in {"insert", "handover"} =>
               /\ target[c] \notin DOMAIN connections
               /\ Size(connections) < Capacity
      BY <1>2 DEF TypeOK, SerialInv, TargetAbsent, RoomToAdd, Adding
    <3>2. CASE \E k \in Keys : Close(c, k)
      BY <3>2, <2>1 DEF Close
    <3>3. CASE Reuse(c)
      BY <3>3, <2>3 DEF Reuse
    <3>4. CASE DropStale(c)
      BY <3>4, <3>1, <2>1 DEF DropStale
    <3>5. CASE Evict(c)
      BY <3>5, <3>1, <2>1 DEF Evict
    <3>6. CASE InsertFresh(c) \/ RegisterExternalMaster(c)
      BY <3>6, <3>1, <2>2 DEF InsertFresh, RegisterExternalMaster
    <3>7. QED
      BY <2>5, <3>2, <3>3, <3>4, <3>5, <3>6, <2>4
         DEF Client, Request, Handler, Cli, Ensure, FindAlive, FindStale,
             CheckCapacity,
             PickVictim, NothingToEvict, VictimGone, StopVictim, StartMaster,
             NeedsInteractiveAuth, StartFails, AnnounceOpened, StopClosed,
             AnnounceClosed, StartInteractive, InteractiveFails, LoseHandover,
             table
  <2>6. CASE Health
    <3>1. healthAt = "drop" => healthKey \in Keys
      BY <1>2 DEF TypeOK
    <3>2. CASE HealthRevive
      BY <3>2, <2>3 DEF HealthRevive
    <3>3. CASE HealthDrop
      BY <3>1, <3>3, <2>1 DEF HealthDrop
    <3>4. QED
      BY <2>6, <3>2, <3>3, <2>4
         DEF Health, HealthTick, HealthVisit, HealthFindsAlive,
             HealthFindsDead, HealthStart, HealthStartFails, HealthAnnounce,
             table
  <2>7. CASE Restart
    <3>1. DOMAIN connections' = {}
      BY <2>7, EmptyTableFacts, ConfigAssumption DEF Restart
    <3>2. QED
      BY <3>1 DEF Pool!Next, Pool!Clear
  <2>8. QED
    BY <1>2, <2>4, <2>5, <2>6, <2>7
       DEF Next, Environment, MasterDies, ClockTick, table, vars
<1>3. QED
  BY <1>1, <1>2, SerialInvariant, TypeCorrect, PTL DEF Spec, PoolSpec, Pool!Spec

-----------------------------------------------------------------------------
(* Between the choice of a victim and its removal others may take entries  *)
(* out, the victim too, but nobody uses one: no other request opens a      *)
(* connection, and no health loop revives what it finds dead.              *)
VictimStaysOldest ==
  \A c \in Clients :
    at[c] = "evict" /\ victim[c] \in DOMAIN connections
      => victim[c] \in LeastRecentlyUsed(connections)
NoRevival == healthAt \notin {"start", "revive"}

LEMMA RemovalKeepsOldest ==
  ASSUME NEW tbl, NEW key, NEW k \in DOMAIN Remove(tbl, key),
         k \in LeastRecentlyUsed(tbl)
  PROVE  k \in LeastRecentlyUsed(Remove(tbl, key))
  BY DEF LeastRecentlyUsed, Remove

(* The one step that goes from "evict" to "stop" is the eviction. *)
LEMMA EvictionStep ==
  ASSUME TypeOK, NEW c \in Clients, NEW d \in Clients, Client(d),
         at[c] = "evict", at'[c] = "stop"
  PROVE  victim[c] \in DOMAIN connections
<1>1. at \in [Clients -> Places]
  BY DEF TypeOK
<1>2. d = c
  BY ClientFrame
<1>3. QED
  BY <1>1, <1>2
     DEF Client, Request, Handler, Cli, Ensure, Close, Reuse,
         FindAlive, FindStale,
         DropStale, CheckCapacity, PickVictim, NothingToEvict, Evict,
         VictimGone, StopVictim, StartMaster, NeedsInteractiveAuth, StartFails,
         InsertFresh, AnnounceOpened, StopClosed, AnnounceClosed,
         StartInteractive, InteractiveFails, RegisterExternalMaster,
         LoseHandover, Goto, Reply

LEMMA VictimClientStep ==
  ASSUME OneOpensAtATime, TypeOK, OnlyOpenersOpen, VictimStaysOldest,
         NEW c \in Clients, Client(c)
  PROVE  VictimStaysOldest'
<1> SUFFICES ASSUME NEW d \in Clients, at'[d] = "evict",
                    victim'[d] \in DOMAIN connections'
             PROVE  victim'[d] \in LeastRecentlyUsed(connections')
  BY DEF VictimStaysOldest
<1>1. at \in [Clients -> Places] /\ victim \in [Clients -> Keys \cup {NoKey}]
  BY DEF TypeOK
<1>2. CASE d = c
  <2>1. PickVictim(c)
    BY <1>1, <1>2
       DEF Client, Request, Handler, Cli, Ensure, Close, Reuse,
           FindAlive, FindStale,
           DropStale, CheckCapacity, NothingToEvict, Evict, VictimGone,
           StopVictim, StartMaster, NeedsInteractiveAuth, StartFails,
           InsertFresh, AnnounceOpened, StopClosed, AnnounceClosed,
           StartInteractive, InteractiveFails, RegisterExternalMaster,
           LoseHandover, Goto, Reply
  <2>2. QED
    BY <1>1, <1>2, <2>1 DEF PickVictim, table
<1>3. CASE d # c
  <2>1. at[d] = "evict" /\ victim'[d] = victim[d]
    BY <1>3, ClientFrame
  <2>2. at[c] \in ClosingPlaces /\ Ensures[c] = {}
    BY <1>3, <2>1 DEF OneOpensAtATime, OnlyOpenersOpen, ClosingPlaces
  <2>3. \/ UNCHANGED connections
        \/ \E k \in Keys : connections' = Remove(connections, k)
    BY <2>2
       DEF ClosingPlaces, Client, Request, Handler, Cli, Ensure, Close, Reuse,
           FindAlive, FindStale,
           DropStale, CheckCapacity, PickVictim, NothingToEvict,
           Evict, VictimGone, StopVictim, StartMaster, NeedsInteractiveAuth,
           StartFails, InsertFresh, AnnounceOpened, StopClosed, AnnounceClosed,
           StartInteractive, InteractiveFails, RegisterExternalMaster,
           LoseHandover, table
  <2>4. CASE UNCHANGED connections
    BY <2>1, <2>4 DEF VictimStaysOldest
  <2>5. ASSUME NEW k \in Keys, connections' = Remove(connections, k)
        PROVE  victim'[d] \in LeastRecentlyUsed(connections')
    <3>1. victim[d] \in DOMAIN connections
      BY <2>1, <2>5, RemoveDomain
    <3>2. QED
      BY <2>1, <2>5, <3>1, RemovalKeepsOldest DEF VictimStaysOldest
  <2>6. QED
    BY <2>3, <2>4, <2>5
<1>4. QED
  BY <1>2, <1>3

LEMMA VictimOtherStep ==
  ASSUME TypeOK, VictimStaysOldest, NoRevival, Reconnect = FALSE,
         Health \/ Environment \/ UNCHANGED vars
  PROVE  /\ VictimStaysOldest'
         /\ NoRevival'
         /\ \A c \in Clients : ~(at[c] = "evict" /\ at'[c] = "stop")
<1> USE DEF VictimStaysOldest, NoRevival
<1>1. CASE HealthDrop
  <2>1. connections' = Remove(connections, healthKey) /\ UNCHANGED handlers
    BY <1>1 DEF HealthDrop
  <2>2. DOMAIN connections' \subseteq DOMAIN connections
    BY <2>1, RemoveDomain
  <2>3. healthAt' = "closed"
    BY <1>1 DEF HealthDrop, HealthGoto
  <2>4. QED
    BY <2>1, <2>2, <2>3, RemovalKeepsOldest DEF handlers
<1>2. CASE Health /\ ~HealthDrop
  BY <1>2
     DEF Health, HealthTick, HealthVisit, HealthFindsAlive, HealthFindsDead,
         HealthStart, HealthStartFails, HealthRevive, HealthAnnounce,
         HealthGoto, NextKey, table, handlers
<1>3. CASE Restart
  BY <1>3 DEF Restart, CliPlaces
<1>4. CASE (Environment /\ ~Restart) \/ UNCHANGED vars
  BY <1>4 DEF Environment, MasterDies, ClockTick, table, handlers, health, vars
<1>5. QED
  BY <1>1, <1>2, <1>3, <1>4 DEF Environment

(* When connections are opened one at a time, and no reconnection happens  *)
(* behind the request's back, what an eviction removes is still the least  *)
(* recently used connection, whatever was closed since it was chosen.      *)
THEOREM SerialEvictsOldest ==
  ASSUME OneOpensAtATime, Reconnect = FALSE
  PROVE  Spec => EvictsLeastRecentlyUsed
<1> DEFINE Inv == TypeOK /\ OnlyOpenersOpen /\ VictimStaysOldest /\ NoRevival
<1>1. Init => VictimStaysOldest /\ NoRevival
  BY DEF Init, VictimStaysOldest, NoRevival
<1>2. Inv /\ [Next]_vars => VictimStaysOldest' /\ NoRevival'
  BY VictimClientStep, VictimOtherStep, ClientFrame DEF Next, NoRevival
<1>3. Inv /\ [Next]_vars =>
        [\A c \in Clients :
           at[c] = "evict" /\ at'[c] = "stop"
             => \A k \in DOMAIN connections :
                  connections[victim[c]] <= connections[k]]_vars
  <2> SUFFICES ASSUME Inv, [Next]_vars, NEW c \in Clients,
                      at[c] = "evict", at'[c] = "stop"
               PROVE  victim[c] \in LeastRecentlyUsed(connections)
    BY DEF LeastRecentlyUsed
  <2>1. PICK d \in Clients : Client(d)
    BY VictimOtherStep DEF Next
  <2>2. QED
    BY <2>1, EvictionStep DEF VictimStaysOldest
<1>4. QED
  BY <1>1, <1>2, <1>3, TypeCorrect, OpenersOnly, PTL
     DEF Spec, EvictsLeastRecentlyUsed
=============================================================================
