------------------------------- MODULE Daemon -------------------------------
(***************************************************************************)
(* The Connection Manager at work: the request handlers of ipc.rs, the     *)
(* eviction of state.rs, the health loop of health.rs and the part of the  *)
(* CLI that starts an interactive master, all running against one          *)
(* connection table and the OpenSSH masters themselves.                    *)
(*                                                                         *)
(* A handler is a task of a multi-threaded runtime.  Every table call and  *)
(* every ssh subprocess is a step of its own, in the order of the code,    *)
(* because between two of them any other task may run.  The steps of a     *)
(* client slot c are at[c]:                                                *)
(*                                                                         *)
(*   idle -Ensure-> check -> stale -> capacity -> pick -> evict -> stop    *)
(*     -> start -> insert -> opened -> idle                                *)
(*   check -> reuse -> idle                                                *)
(*   start -> interactive -> handover -> opened -> idle       (CLI, TTY)   *)
(*   idle -Close-> closeStop -> closed -> idle                             *)
(***************************************************************************)
EXTENDS ConnectionManager

CONSTANTS
  Clients,        \* requests that can be in progress at the same time
  Keys,           \* distinct targets, HostTarget::key
  NoKey,          \* not a key: a slot that holds none
  Ensures,        \* Ensures[c]: the keys client c asks to be connected to
  Closes,         \* Closes[c]: the keys client c asks to close
  MaxConnections, \* config.maxConnections
  HealthCheck,    \* whether the health loop runs
  Reconnect,      \* config.reconnect
  Faults,         \* what may go wrong in this instance, see FaultKinds
  MaxNow          \* bound on the clock

(* die: a master exits by itself (ControlPersist expired, network, kill).  *)
(* check, stop: the ssh -O check / exit subprocess fails to run.           *)
(* handover: RegisterExternalMaster does not reach the daemon.             *)
(* restart: the daemon process ends and another one takes its place.       *)
FaultKinds == {"die", "check", "stop", "handover", "restart"}

ASSUME NoKeyAssumption == NoKey \notin Keys
ASSUME RequestsAssumption == /\ Ensures \in [Clients -> SUBSET Keys]
                             /\ Closes \in [Clients -> SUBSET Keys]
ASSUME ConfigAssumption == /\ MaxConnections \in Nat
                           /\ HealthCheck \in BOOLEAN
                           /\ Reconnect \in BOOLEAN
                           /\ MaxNow \in Nat
                           /\ Faults \subseteq FaultKinds

VARIABLES
  connections, \* the table of the Connection Manager
  alive,       \* keys whose control socket a live master is serving
  now,         \* now_unix()
  at,          \* at[c]: the step client c's request has come to
  target,      \* target[c]: the key the request is about
  victim,      \* victim[c]: the key the request is evicting
  healthAt,    \* the step the health loop has come to
  healthKey,   \* the key it is looking at
  unvisited,   \* keys of this pass it has not looked at yet
  told         \* keys plugins hold open, by the events they were sent

table == <<connections, now>>
handlers == <<at, target, victim>>
health == <<healthAt, healthKey, unvisited>>
vars == <<connections, alive, now, at, target, victim, healthAt, healthKey,
          unvisited, told>>

Places == {"idle", "check", "reuse", "stale", "capacity", "pick", "evict",
           "stop", "start", "insert", "opened", "interactive", "handover",
           "closeStop", "closed"}

HealthPlaces == {"loop", "check", "start", "revive", "drop", "closed"}

Init ==
  /\ connections = EmptyTable
  /\ alive = {}
  /\ now = 0
  /\ at = [c \in Clients |-> "idle"]
  /\ target = [c \in Clients |-> NoKey]
  /\ victim = [c \in Clients |-> NoKey]
  /\ healthAt = "loop"
  /\ healthKey = NoKey
  /\ unvisited = {}
  /\ told = {}

Goto(c, place) == at' = [at EXCEPT ![c] = place]

(* The response is written and the slot is free for another request. *)
Reply(c) ==
  /\ Goto(c, "idle")
  /\ target' = [target EXCEPT ![c] = NoKey]

-----------------------------------------------------------------------------
(* EnsureConnection: is the key in the table? *)
Ensure(c, k) ==
  /\ at[c] = "idle"
  /\ k \in Ensures[c]
  /\ target' = [target EXCEPT ![c] = k]
  /\ Goto(c, IF k \in DOMAIN connections THEN "check" ELSE "capacity")
  /\ UNCHANGED <<table, alive, victim, health, told>>

(* is_master_alive said yes. *)
FindAlive(c) ==
  /\ at[c] = "check"
  /\ target[c] \in alive
  /\ Goto(c, "reuse")
  /\ UNCHANGED <<table, alive, target, victim, health, told>>

(* mark_reused, for the entry if it is still there, and answer with the    *)
(* socket.  ConnectionReused opens nothing and closes nothing.             *)
Reuse(c) ==
  /\ at[c] = "reuse"
  /\ connections' = Touch(connections, target[c], now)
  /\ Reply(c)
  /\ UNCHANGED <<alive, now, victim, health, told>>

(* is_master_alive said no, or could not be asked. *)
FindStale(c) ==
  /\ at[c] = "check"
  /\ target[c] \notin alive \/ "check" \in Faults
  /\ Goto(c, "stale")
  /\ UNCHANGED <<table, alive, target, victim, health, told>>

(* Seeded fault: the stale entry is left for insert_new to overwrite. *)
DropStale_Keeps(c) ==
  /\ at[c] = "stale"
  /\ Goto(c, "capacity")
  /\ UNCHANGED <<table, alive, target, victim, health, told>>

DropStale(c) ==
  /\ at[c] = "stale"
  /\ connections' = Remove(connections, target[c])
  /\ Goto(c, "capacity")
  /\ UNCHANGED <<alive, now, target, victim, health, told>>

(* Seeded fault: one too many. *)
AtCapacity_OffByOne(tbl) == Size(tbl) > MaxConnections

AtCapacity(tbl) == Size(tbl) >= MaxConnections

CheckCapacity(c) ==
  /\ at[c] = "capacity"
  /\ Goto(c, IF AtCapacity(connections) THEN "pick" ELSE "start")
  /\ UNCHANGED <<table, alive, target, victim, health, told>>

(* evict_lru: choose the victim, then remove it, then stop its master. *)
PickVictim(c) ==
  /\ at[c] = "pick"
  /\ \E k \in LeastRecentlyUsed(connections) :
       victim' = [victim EXCEPT ![c] = k]
  /\ Goto(c, "evict")
  /\ UNCHANGED <<table, alive, target, health, told>>

NothingToEvict(c) ==
  /\ at[c] = "pick"
  /\ DOMAIN connections = {}
  /\ Goto(c, "start")
  /\ UNCHANGED <<table, alive, target, victim, health, told>>

(* Seeded faults: the master is stopped and the entry stays; the entry is   *)
(* removed and the master stays.                                            *)
Evict_KeepsEntry(c) ==
  /\ at[c] = "evict"
  /\ victim[c] \in DOMAIN connections
  /\ Goto(c, "stop")
  /\ UNCHANGED <<table, alive, target, victim, health, told>>

Evict_KeepsMaster(c) ==
  /\ at[c] = "evict"
  /\ victim[c] \in DOMAIN connections
  /\ connections' = Remove(connections, victim[c])
  /\ Goto(c, "start")
  /\ UNCHANGED <<alive, now, target, victim, health, told>>

Evict(c) ==
  /\ at[c] = "evict"
  /\ victim[c] \in DOMAIN connections
  /\ connections' = Remove(connections, victim[c])
  /\ Goto(c, "stop")
  /\ UNCHANGED <<alive, now, target, victim, health, told>>

(* Someone else removed the victim since it was chosen. *)
VictimGone(c) ==
  /\ at[c] = "evict"
  /\ victim[c] \notin DOMAIN connections
  /\ Goto(c, "start")
  /\ victim' = [victim EXCEPT ![c] = NoKey]
  /\ UNCHANGED <<table, alive, target, health, told>>

(* ssh -O exit: the master goes, or the command fails and nobody is told. *)
StopMaster(k) ==
  \/ alive' = alive \ {k}
  \/ "stop" \in Faults /\ UNCHANGED alive

StopVictim(c) ==
  /\ at[c] = "stop"
  /\ StopMaster(victim[c])
  /\ Goto(c, "start")
  /\ victim' = [victim EXCEPT ![c] = NoKey]
  /\ UNCHANGED <<table, target, health, told>>

(* start_master_noninteractive succeeds.  When a live master already serves *)
(* the socket it stays the one that does.                                   *)
StartMaster(c) ==
  /\ at[c] = "start"
  /\ alive' = alive \cup {target[c]}
  /\ Goto(c, "insert")
  /\ UNCHANGED <<table, target, victim, health, told>>

(* NeedsInteractiveAuth: the CLI goes on in the foreground. *)
NeedsInteractiveAuth(c) ==
  /\ at[c] = "start"
  /\ Goto(c, "interactive")
  /\ UNCHANGED <<table, alive, target, victim, health, told>>

(* ssh missing, connection refused, task lost; no socket directory to put  *)
(* the socket in looks the same.                                           *)
StartFails(c) ==
  /\ at[c] = "start"
  /\ Reply(c)
  /\ UNCHANGED <<table, alive, victim, health, told>>

InsertFresh(c) ==
  /\ at[c] = "insert"
  /\ connections' = InsertNew(connections, target[c], now)
  /\ Goto(c, "opened")
  /\ UNCHANGED <<alive, now, target, victim, health, told>>

AnnounceOpened(c) ==
  /\ at[c] = "opened"
  /\ told' = told \cup {target[c]}
  /\ Reply(c)
  /\ UNCHANGED <<table, alive, victim, health>>

-----------------------------------------------------------------------------
(* The CLI answers NeedsInteractiveAuth: it runs ssh on its own terminal,  *)
(* then registers the master with the daemon and ignores what it answers.  *)
StartInteractive(c) ==
  /\ at[c] = "interactive"
  /\ alive' = alive \cup {target[c]}
  /\ Goto(c, "handover")
  /\ UNCHANGED <<table, target, victim, health, told>>

InteractiveFails(c) ==
  /\ at[c] = "interactive"
  /\ Reply(c)
  /\ UNCHANGED <<table, alive, victim, health, told>>

(* Seeded fault: the handed-over master is not announced. *)
RegisterExternalMaster_Silent(c) ==
  /\ at[c] = "handover"
  /\ connections' = InsertNew(connections, target[c], now)
  /\ Reply(c)
  /\ UNCHANGED <<alive, now, victim, health, told>>

RegisterExternalMaster(c) ==
  /\ at[c] = "handover"
  /\ connections' = InsertNew(connections, target[c], now)
  /\ Goto(c, "opened")
  /\ UNCHANGED <<alive, now, target, victim, health, told>>

LoseHandover(c) ==
  /\ at[c] = "handover"
  /\ "handover" \in Faults
  /\ Reply(c)
  /\ UNCHANGED <<table, alive, victim, health, told>>

-----------------------------------------------------------------------------
(* Seeded fault: the entry is removed and the master stays. *)
Close_KeepsMaster(c, k) ==
  /\ at[c] = "idle"
  /\ k \in Closes[c]
  /\ k \in DOMAIN connections
  /\ connections' = Remove(connections, k)
  /\ target' = [target EXCEPT ![c] = k]
  /\ Goto(c, "closed")
  /\ UNCHANGED <<alive, now, victim, health, told>>

(* CloseConnection: an unknown key is an error and changes nothing. *)
Close(c, k) ==
  /\ at[c] = "idle"
  /\ k \in Closes[c]
  /\ k \in DOMAIN connections
  /\ connections' = Remove(connections, k)
  /\ target' = [target EXCEPT ![c] = k]
  /\ Goto(c, "closeStop")
  /\ UNCHANGED <<alive, now, victim, health, told>>

StopClosed(c) ==
  /\ at[c] = "closeStop"
  /\ StopMaster(target[c])
  /\ Goto(c, "closed")
  /\ UNCHANGED <<table, target, victim, health, told>>

AnnounceClosed(c) ==
  /\ at[c] = "closed"
  /\ told' = told \ {target[c]}
  /\ Reply(c)
  /\ UNCHANGED <<table, alive, victim, health>>

-----------------------------------------------------------------------------
(* check_all takes the keys once, then looks at them one after another.    *)
(* "loop" with nothing left to visit is the wait for the next tick.        *)
HealthTick ==
  /\ HealthCheck
  /\ healthAt = "loop"
  /\ unvisited = {}
  /\ unvisited' = DOMAIN connections
  /\ UNCHANGED <<table, alive, handlers, healthAt, healthKey, told>>

HealthGoto(place) == healthAt' = place /\ UNCHANGED <<healthKey, unvisited>>

NextKey ==
  /\ healthAt' = "loop"
  /\ healthKey' = NoKey
  /\ UNCHANGED unvisited

(* get_clone; a key that has gone since the snapshot is skipped. *)
HealthVisit(k) ==
  /\ healthAt = "loop"
  /\ k \in unvisited
  /\ unvisited' = unvisited \ {k}
  /\ IF k \in DOMAIN connections
       THEN healthAt' = "check" /\ healthKey' = k
       ELSE UNCHANGED <<healthAt, healthKey>>
  /\ UNCHANGED <<table, alive, handlers, told>>

(* mark_healthy(true): nothing else reads or clears that flag. *)
HealthFindsAlive ==
  /\ healthAt = "check"
  /\ healthKey \in alive
  /\ NextKey
  /\ UNCHANGED <<table, alive, handlers, told>>

HealthFindsDead ==
  /\ healthAt = "check"
  /\ healthKey \notin alive \/ "check" \in Faults
  /\ HealthGoto(IF Reconnect THEN "start" ELSE "drop")
  /\ UNCHANGED <<table, alive, handlers, told>>

HealthStart ==
  /\ healthAt = "start"
  /\ alive' = alive \cup {healthKey}
  /\ HealthGoto("revive")
  /\ UNCHANGED <<table, handlers, told>>

(* Seeded fault: a failed reconnection is left for the next pass. *)
HealthStartFails_Skips ==
  /\ healthAt = "start"
  /\ NextKey
  /\ UNCHANGED <<table, alive, handlers, told>>

HealthStartFails ==
  /\ healthAt = "start"
  /\ HealthGoto("drop")
  /\ UNCHANGED <<table, alive, handlers, told>>

(* mark_healthy, touch and the Reconnect event, for the entry if it is     *)
(* still there.                                                            *)
HealthRevive ==
  /\ healthAt = "revive"
  /\ connections' = Touch(connections, healthKey, now)
  /\ NextKey
  /\ UNCHANGED <<alive, now, handlers, told>>

(* Seeded fault: plugins are not told of a connection the loop drops. *)
HealthDrop_Silent ==
  /\ healthAt = "drop"
  /\ connections' = Remove(connections, healthKey)
  /\ NextKey
  /\ UNCHANGED <<alive, now, handlers, told>>

HealthDrop ==
  /\ healthAt = "drop"
  /\ connections' = Remove(connections, healthKey)
  /\ HealthGoto("closed")
  /\ UNCHANGED <<alive, now, handlers, told>>

HealthAnnounce ==
  /\ healthAt = "closed"
  /\ told' = told \ {healthKey}
  /\ NextKey
  /\ UNCHANGED <<table, alive, handlers>>

-----------------------------------------------------------------------------
(* A master exits without anyone having asked it to. *)
MasterDies(k) ==
  /\ "die" \in Faults
  /\ k \in alive
  /\ alive' = alive \ {k}
  /\ UNCHANGED <<table, handlers, health, told>>

(* The clock, up to the bound MaxNow. *)
ClockTick ==
  /\ now < MaxNow
  /\ now' = now + 1
  /\ UNCHANGED <<connections, alive, handlers, health, told>>

(* Requests the CLI itself is carrying survive the daemon. *)
CliPlaces == {"interactive", "handover"}

(* The ssh processes a dying daemon leaves behind run on by themselves:    *)
(* those starting a master may still succeed, those stopping one too.      *)
Starting == {target[c] : c \in {d \in Clients : at[d] = "start"}}
            \cup (IF healthAt = "start" THEN {healthKey} ELSE {})
Stopping == {victim[c] : c \in {d \in Clients : at[d] = "stop"}}
            \cup {target[c] : c \in {d \in Clients : at[d] = "closeStop"}}

(* The daemon ends, by a signal, a Shutdown request or a crash, with       *)
(* whatever its handlers were doing, and the next request starts another.  *)
(* The table is never saved; the masters are processes of their own.       *)
Restart ==
  /\ "restart" \in Faults
  /\ \E started \in SUBSET Starting, stopped \in SUBSET Stopping :
       alive' = (alive \cup started) \ stopped
  /\ connections' = EmptyTable
  /\ at' = [c \in Clients |-> IF at[c] \in CliPlaces THEN at[c] ELSE "idle"]
  /\ target' = [c \in Clients |->
                  IF at[c] \in CliPlaces THEN target[c] ELSE NoKey]
  /\ victim' = [c \in Clients |-> NoKey]
  /\ healthAt' = "loop"
  /\ healthKey' = NoKey
  /\ unvisited' = {}
  /\ UNCHANGED <<now, told>>

-----------------------------------------------------------------------------
Handler(c) ==
  \/ FindAlive(c) \/ Reuse(c) \/ FindStale(c) \/ DropStale(c)
  \/ CheckCapacity(c) \/ PickVictim(c) \/ NothingToEvict(c)
  \/ Evict(c) \/ VictimGone(c) \/ StopVictim(c)
  \/ StartMaster(c) \/ NeedsInteractiveAuth(c) \/ StartFails(c)
  \/ InsertFresh(c) \/ AnnounceOpened(c)
  \/ StopClosed(c) \/ AnnounceClosed(c)

Cli(c) ==
  \/ StartInteractive(c) \/ InteractiveFails(c)
  \/ RegisterExternalMaster(c) \/ LoseHandover(c)

Request(c) == \E k \in Keys : Ensure(c, k) \/ Close(c, k)

Client(c) == Request(c) \/ Handler(c) \/ Cli(c)

Health ==
  \/ HealthTick
  \/ \E k \in Keys : HealthVisit(k)
  \/ HealthFindsAlive \/ HealthFindsDead
  \/ HealthStart \/ HealthStartFails
  \/ HealthRevive \/ HealthDrop \/ HealthAnnounce

Environment ==
  \/ \E k \in Keys : MasterDies(k)
  \/ ClockTick
  \/ Restart

Next == (\E c \in Clients : Client(c)) \/ Health \/ Environment

Spec == Init /\ [][Next]_vars

(* The runtime polls every task that can go on, and the blocking pool runs *)
(* every subprocess to its end; nobody has to send a request.              *)
FairSpec == Spec /\ WF_vars(Health) /\ \A c \in Clients : WF_vars(Handler(c))

-----------------------------------------------------------------------------
(* The types of the variables; the table holds finitely many entries, none *)
(* of them stamped in the future.                                          *)
TypeOK ==
  /\ now \in 0..MaxNow
  /\ IsTable(connections, Keys, now)
  /\ alive \subseteq Keys
  /\ at \in [Clients -> Places]
  /\ target \in [Clients -> Keys \cup {NoKey}]
  /\ \A c \in Clients : at[c] # "idle" => target[c] \in Keys
  /\ victim \in [Clients -> Keys \cup {NoKey}]
  /\ \A c \in Clients : at[c] \in {"evict", "stop"} => victim[c] \in Keys
  /\ healthAt \in HealthPlaces
  /\ healthKey \in Keys \cup {NoKey}
  /\ healthAt # "loop" => healthKey \in Keys
  /\ unvisited \subseteq Keys
  /\ told \subseteq Keys

(* ensure_connection evicts before it adds, so with maxConnections = 0 it  *)
(* still keeps the one connection it was asked for.                        *)
Capacity == IF MaxConnections = 0 THEN 1 ELSE MaxConnections

(* maxConnections is respected: the table never holds more entries than    *)
(* the configuration allows (ensure_connection, evict_lru).                *)
WithinCapacity == Size(connections) <= Capacity

(* maxConnections is respected at least once the requests are over. *)
SettlesWithinCapacity == (\A c \in Clients : at[c] = "idle") => WithinCapacity

(* The daemon as seen from the table: it implements the bounded pool.      *)
Pool == INSTANCE BoundedPool WITH open <- DOMAIN connections
PoolSpec == Pool!Spec

(* A request that makes room for its own target never throws out that very *)
(* target: evict_lru runs only after the table was found, or made, without *)
(* an entry for it.                                                        *)
NeverEvictsOwnTarget ==
  \A c \in Clients : at[c] \in {"evict", "stop"} => victim[c] # target[c]

(* Why the two hold when connections are opened one at a time: between the *)
(* check of the capacity and the insertion there is always room for one    *)
(* more entry, and the target is not among the entries, so that inserting  *)
(* it cannot overwrite one.                                                *)
Adding == {"stop", "start", "insert", "interactive", "handover"}
RoomToAdd == \A c \in Clients : at[c] \in Adding => Size(connections) < Capacity
RoomOnceEvicted ==
  \A c \in Clients :
    at[c] = "evict" => Size(Remove(connections, victim[c])) < Capacity
TargetAbsent ==
  \A c \in Clients :
    at[c] \in {"capacity", "pick", "evict"} \cup Adding
      => target[c] \notin DOMAIN connections
SerialInv == /\ WithinCapacity
             /\ RoomToAdd
             /\ RoomOnceEvicted
             /\ TargetAbsent
             /\ NeverEvictsOwnTarget

(* The entry an eviction removes is, at that moment, one that no other     *)
(* entry has gone unused for longer than.                                  *)
EvictsLeastRecentlyUsed ==
  [][\A c \in Clients :
       at[c] = "evict" /\ at'[c] = "stop"
         => \A k \in DOMAIN connections :
              connections[victim[c]] <= connections[k]]_vars

(* The steps between a change to a master and the table change that goes   *)
(* with it: the request still knows about the master.                      *)
Accounts(c, k) ==
  \/ at[c] \in {"insert", "handover", "closeStop"} /\ target[c] = k
  \/ at[c] = "stop" /\ victim[c] = k

(* The daemon owns every master it started: a live master is in the table, *)
(* or a request is about to put it there or to stop it.                    *)
NoOrphan ==
  \A k \in alive :
    k \in DOMAIN connections \/ \E c \in Clients : Accounts(c, k)

(* A master loses its last keeper for these reasons and no others: its     *)
(* ssh -O exit failed, its handover was lost, its entry was found dead and *)
(* dropped though it lives, the health loop started it for an entry that   *)
(* had gone, or the daemon ended.  Nothing an eviction or a close does by  *)
(* itself, in whatever order they meet, leaves a master behind.            *)
Orphaned(k) ==
  k \in alive \ DOMAIN connections /\ ~ \E c \in Clients : Accounts(c, k)
Abandons(k) ==
  \/ \E c \in Clients :
       \/ StopVictim(c) /\ victim[c] = k /\ "stop" \in Faults
       \/ StopClosed(c) /\ target[c] = k /\ "stop" \in Faults
       \/ LoseHandover(c) /\ target[c] = k
       \/ DropStale(c) /\ target[c] = k
  \/ (HealthStart \/ HealthDrop) /\ healthKey = k
  \/ Restart
OrphansExplained ==
  [][\A k \in Keys : ~Orphaned(k) /\ Orphaned(k)' => Abandons(k)]_vars

(* Plugins hear of every managed connection: an entry of the table has     *)
(* been announced as opened, or is about to be.                            *)
EveryEntryAnnounced ==
  \A k \in DOMAIN connections :
    k \in told \/ \E c \in Clients : at[c] = "opened" /\ target[c] = k

(* Plugins go on holding open a connection that is gone for these reasons  *)
(* and no others: it was evicted or dropped as stale, of which they hear   *)
(* nothing, its opening was announced after its entry had been taken out,  *)
(* or the daemon ended.  A close and a health drop are always followed by  *)
(* their announcement.                                                     *)
Announcing(k) ==
  \/ \E c \in Clients : at[c] \in {"closeStop", "closed"} /\ target[c] = k
  \/ healthAt = "closed" /\ healthKey = k
HeldOpen(k) == k \in told \ DOMAIN connections /\ ~Announcing(k)
Silently(k) ==
  \/ \E c \in Clients :
       \/ Evict(c) /\ victim[c] = k
       \/ DropStale(c) /\ target[c] = k
       \/ AnnounceOpened(c) /\ target[c] = k
  \/ Restart
DriftExplained ==
  [][\A k \in Keys : ~HeldOpen(k) /\ HeldOpen(k)' => Silently(k)]_vars

(* Why the two hold when no two requests are about the same key: an entry  *)
(* found stale stays dead until it is dropped, and a closed key stays out  *)
(* of the table until its closing is announced.                            *)
TargetIsOwn ==
  \A c \in Clients :
    at[c] # "idle" => target[c] \in Ensures[c] \cup Closes[c]
StaleStaysDead == \A c \in Clients : at[c] = "stale" => target[c] \notin alive
ClosedStaysOut ==
  \A c \in Clients :
    at[c] \in {"closeStop", "closed"} => target[c] \notin DOMAIN connections
ExclusiveInv == /\ TargetIsOwn
                /\ StaleStaysDead
                /\ ClosedStaysOut
                /\ NoOrphan
                /\ EveryEntryAnnounced

(* The health loop never leaves a dead connection in the table: an entry   *)
(* whose master is gone is dropped, or its master is started again.        *)
DeadEntryHandled ==
  \A k \in Keys :
    (k \in DOMAIN connections /\ k \notin alive)
      ~> (k \notin DOMAIN connections \/ k \in alive)
=============================================================================
