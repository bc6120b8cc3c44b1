------------------------- MODULE DaemonProcess_proofs -------------------------
(***************************************************************************)
(* Proofs about DaemonProcess, for any number of daemons and of commands.  *)
(***************************************************************************)
EXTENDS DaemonProcess, TLAPS

(* Every step keeps the types. *)
LEMMA TypeStep == TypeOK /\ [Next]_vars => TypeOK'
<1> SUFFICES ASSUME TypeOK, [Next]_vars PROVE TypeOK'
  OBVIOUS
<1> USE NobodyAssumption DEF TypeOK, tasks, files, Goto, Places, Starting, Serving
<1>1. ASSUME NEW d \in Daemons, Main(d) PROVE TypeOK'
  <2>1. CASE WritePid(d) \/ SpawnTasks(d)
    BY <2>1 DEF WritePid, SpawnTasks
  <2>2. CASE Exists(d)
    BY <2>2 DEF Exists
  <2>3. CASE Probe(d)
    BY <2>3 DEF Probe
  <2>4. CASE UnlinkStale(d)
    BY <2>4 DEF UnlinkStale
  <2>5. CASE Bind(d) \/ BindFails(d) \/ Listen(d) \/ ListenFails(d)
    BY <2>5 DEF Bind, BindFails, Listen, ListenFails
  <2>6. CASE Subscribe(d) \/ ChmodFails(d) \/ Stop(d)
    BY <2>6 DEF Subscribe, ChmodFails, Stop
  <2>7. CASE UnlinkOwn(d) \/ CloseListener(d) \/ AwaitHealth(d)
    BY <2>7 DEF UnlinkOwn, CloseListener, AwaitHealth
  <2>8. CASE SendShutdown(d)
    BY <2>8 DEF SendShutdown, Send, Receivers
  <2>9. CASE RemovePid(d)
    BY <2>9 DEF RemovePid, End
  <2> QED
    BY <1>1, <2>1, <2>2, <2>3, <2>4, <2>5, <2>6, <2>7, <2>8, <2>9 DEF Main
<1>2. ASSUME NEW d \in Daemons, Tasks(d) PROVE TypeOK'
  BY <1>2 DEF Tasks, InstallHandlers, HealthSubscribes, HealthPanics, HealthStops
<1>3. ASSUME NEW d \in Daemons, Outside(d) PROVE TypeOK'
  <2>1. CASE Signal(d)
    BY <2>1 DEF Signal, Send, Receivers
  <2>2. CASE Shutdown(d)
    BY <2>2 DEF Shutdown, Send, Receivers
  <2>3. CASE AcceptFails(d)
    BY <2>3 DEF AcceptFails
  <2>4. CASE Kill(d)
    BY <2>4 DEF Kill, End
  <2> QED
    BY <1>3, <2>1, <2>2, <2>3, <2>4 DEF Outside
<1>4. ASSUME NEW c \in Clis, Cli(c) PROVE TypeOK'
  <2>1. CASE CliStarts(c)
    BY <2>1 DEF CliStarts, CliGoto, StartDaemon
  <2>2. CASE CliPings(c) \/ CliWaits(c) \/ CliAsks(c)
    BY <2>2 DEF CliPings, CliWaits, CliAsks, CliGoto
  <2> QED
    BY <1>4, <2>1, <2>2 DEF Cli
<1>5. CASE UNCHANGED vars
  BY <1>5 DEF vars
<1> QED
  BY <1>1, <1>2, <1>3, <1>4, <1>5 DEF Next

(* The variables of the process model keep their types. *)
THEOREM TypeCorrect == Spec => []TypeOK
<1>1. Init => TypeOK
  BY DEF Init, TypeOK, Places
<1> QED
  BY <1>1, TypeStep, PTL DEF Spec

-----------------------------------------------------------------------------
(* Starts one after another: each step of a main task keeps ProcessInv. *)
LEMMA ProcessMainStep ==
  ASSUME TypeOK, ProcessInv, NEW d \in Daemons, Main(d)
  PROVE  ProcessInv'
<1> USE NobodyAssumption
    DEF TypeOK, ProcessInv, OwnsItsSocket, UnlinksOnlyStale, StartsAreSerial,
        Bound, tasks, files, Goto, Starting, Serving
<1>1. CASE WritePid(d) \/ SpawnTasks(d) \/ Exists(d)
  BY <1>1 DEF WritePid, SpawnTasks, Exists
<1>2. CASE Probe(d)
  <2>1. ASSUME ~Connects, NEW e \in Daemons PROVE at[e] \notin Serving
    BY <2>1 DEF Connects, Listening
  <2> QED
    BY <1>2, <2>1 DEF Probe
<1>3. CASE UnlinkStale(d)
  <2>1. ASSUME NEW e \in Daemons PROVE at'[e] \notin Bound
    BY <1>3 DEF UnlinkStale
  <2> QED
    BY <1>3, <2>1 DEF UnlinkStale
<1>4. CASE Bind(d)
  <2>1. ASSUME NEW e \in Daemons PROVE at[e] \notin Bound
    BY <1>4 DEF Bind
  <2> QED
    BY <1>4, <2>1 DEF Bind
<1>5. CASE BindFails(d) \/ Listen(d) \/ ListenFails(d) \/ ChmodFails(d)
  BY <1>5 DEF BindFails, Listen, ListenFails, ChmodFails
<1>6. CASE Subscribe(d)
  BY <1>6 DEF Subscribe
<1>7. CASE Stop(d) \/ CloseListener(d) \/ SendShutdown(d) \/ AwaitHealth(d)
  BY <1>7 DEF Stop, CloseListener, SendShutdown, AwaitHealth
<1>8. CASE UnlinkOwn(d)
  <2>1. ASSUME NEW e \in Daemons PROVE at'[e] \notin Bound
    BY <1>8 DEF UnlinkOwn
  <2> QED
    BY <1>8, <2>1 DEF UnlinkOwn
<1>9. CASE RemovePid(d)
  BY <1>9 DEF RemovePid, End
<1> QED
  BY <1>1, <1>2, <1>3, <1>4, <1>5, <1>6, <1>7, <1>8, <1>9 DEF Main

(* So does every other step. *)
LEMMA ProcessOtherStep ==
  ASSUME ~ConcurrentStarts, TypeOK, ProcessInv,
         \/ \E d \in Daemons : Tasks(d) \/ Outside(d)
         \/ \E c \in Clis : Cli(c)
         \/ UNCHANGED vars
  PROVE  ProcessInv'
<1> USE DEF TypeOK, ProcessInv, OwnsItsSocket, UnlinksOnlyStale,
            StartsAreSerial, Bound, tasks, files, Goto, Starting, Serving
<1>1. ASSUME NEW d \in Daemons, Tasks(d) PROVE ProcessInv'
  BY <1>1 DEF Tasks, InstallHandlers, HealthSubscribes, HealthPanics, HealthStops
<1>2. ASSUME NEW d \in Daemons, Outside(d) PROVE ProcessInv'
  <2>1. CASE Signal(d) \/ Shutdown(d)
    BY <2>1 DEF Signal, Shutdown
  <2>2. CASE AcceptFails(d)
    BY <2>2 DEF AcceptFails
  <2>3. CASE Kill(d)
    BY <2>3 DEF Kill, End
  <2> QED
    BY <1>2, <2>1, <2>2, <2>3 DEF Outside
<1>3. ASSUME NEW c \in Clis, Cli(c) PROVE ProcessInv'
  <2>1. CASE CliStarts(c)
    BY <2>1 DEF CliStarts, CliGoto, StartDaemon
  <2>2. CASE CliPings(c) \/ CliWaits(c) \/ CliAsks(c)
    BY <2>2 DEF CliPings, CliWaits, CliAsks
  <2> QED
    BY <1>3, <2>1, <2>2 DEF Cli
<1>4. CASE UNCHANGED vars
  BY <1>4 DEF vars
<1> QED
  BY <1>1, <1>2, <1>3, <1>4

(* When daemons do not start at the same time, the path of the socket is   *)
(* that of the daemon bound to it, for any number of daemons, whatever     *)
(* crashes and however slowly one goes down while the next comes up.       *)
THEOREM SocketIsOwned ==
  ASSUME ~ConcurrentStarts
  PROVE  Spec => []ProcessInv
<1>1. Init => ProcessInv
  BY DEF Init, ProcessInv, OwnsItsSocket, UnlinksOnlyStale, StartsAreSerial,
         Bound, Starting, Serving
<1>2. TypeOK /\ ProcessInv /\ [Next]_vars => ProcessInv'
  BY ProcessMainStep, ProcessOtherStep DEF Next
<1> QED
  BY <1>1, <1>2, TypeCorrect, PTL DEF Spec

(* Then no two daemons serve at the same time: one instance per user. *)
THEOREM OneInstanceServes ==
  ASSUME ~ConcurrentStarts
  PROVE  Spec => []OneInstance
<1>1. ProcessInv => OneInstance
  BY DEF ProcessInv, OwnsItsSocket, OneInstance, Bound, Serving
<1> QED
  BY <1>1, SocketIsOwned, PTL

-----------------------------------------------------------------------------
(* Then, too, the daemons implement the single server: whoever binds the   *)
(* path finds it free and nobody in service, and whoever removes it is the *)
(* one in service or removes what a crash has left.                        *)
LEMMA ServerMainStep ==
  ASSUME TypeOK, ProcessInv, NEW d \in Daemons, Main(d)
  PROVE  [Server!Next]_<<InService, sockFile>>
<1>1. /\ at \in [Daemons -> Places]
      /\ \A e \in Daemons : at[e] \in Bound => sockFile = e
      /\ at[d] \in Bound => InService = {d}
  BY DEF TypeOK, ProcessInv, OwnsItsSocket, InService
<1> USE <1>1, NobodyAssumption DEF InService, Goto, Bound, Serving
<1>2. CASE UNCHANGED <<InService, sockFile>>
  BY <1>2
<1>3. CASE \/ WritePid(d) \/ SpawnTasks(d) \/ Exists(d) \/ Probe(d) \/ BindFails(d)
           \/ Listen(d) \/ Subscribe(d) \/ Stop(d) \/ CloseListener(d) \/ SendShutdown(d)
           \/ AwaitHealth(d) \/ RemovePid(d)
  <2>1. /\ at[d] \in Bound <=> at'[d] \in Bound
        /\ \A e \in Daemons \ {d} : at'[e] = at[e]
        /\ UNCHANGED sockFile
    BY <1>3 DEF WritePid, SpawnTasks, Exists, Probe, BindFails, Listen, Subscribe, Stop,
                CloseListener, SendShutdown, AwaitHealth, RemovePid, End, files
  <2> QED
    BY <2>1, <1>2
<1>4. CASE UnlinkStale(d)
  <2>1. InService = {}
    BY <1>4 DEF UnlinkStale, ProcessInv, UnlinksOnlyStale, StartsAreSerial, Starting
  <2>2. InService' = {} /\ sockFile' = Nobody
    BY <1>4, <2>1 DEF UnlinkStale
  <2> QED
    BY <2>1, <2>2 DEF Server!Next, Server!ClearAway
<1>5. CASE Bind(d)
  <2>1. InService = {} /\ sockFile = Nobody
    BY <1>5 DEF Bind
  <2>2. InService' = {d} /\ sockFile' = d
    BY <1>5, <2>1 DEF Bind
  <2> QED
    BY <2>1, <2>2 DEF Server!Next, Server!Take
<1>6. CASE UnlinkOwn(d)
  <2>1. InService = {d}
    BY <1>6 DEF UnlinkOwn
  <2>2. InService' = {} /\ sockFile' = Nobody
    BY <1>6, <2>1 DEF UnlinkOwn
  <2> QED
    BY <2>1, <2>2 DEF Server!Next, Server!GiveUp
<1>7. CASE ListenFails(d) \/ ChmodFails(d)
  <2>1. InService = {d}
    BY <1>7 DEF ListenFails, ChmodFails
  <2>2. InService' = {} /\ sockFile' = sockFile
    BY <1>7, <2>1 DEF ListenFails, ChmodFails, files
  <2> QED
    BY <2>1, <2>2 DEF Server!Next, Server!Vanish
<1> QED
  BY <1>3, <1>4, <1>5, <1>6, <1>7 DEF Main

LEMMA ServerOtherStep ==
  ASSUME TypeOK, ProcessInv,
         \/ \E d \in Daemons : Tasks(d) \/ Outside(d)
         \/ \E c \in Clis : Cli(c)
         \/ UNCHANGED vars
  PROVE  [Server!Next]_<<InService, sockFile>>
<1>1. /\ at \in [Daemons -> Places]
      /\ \A e \in Daemons : at[e] \in Bound => sockFile = e
  BY DEF TypeOK, ProcessInv, OwnsItsSocket
<1> USE <1>1 DEF InService, Goto, Bound, Serving, files, tasks
<1>2. CASE UNCHANGED <<at, sockFile>>
  BY <1>2
<1>3. ASSUME NEW d \in Daemons, AcceptFails(d) \/ Kill(d)
      PROVE  [Server!Next]_<<InService, sockFile>>
  <2>1. /\ at'[d] \notin Bound
        /\ \A e \in Daemons \ {d} : at'[e] = at[e]
        /\ UNCHANGED sockFile
    BY <1>3 DEF AcceptFails, Kill, End
  <2>2. CASE at[d] \in Bound
    <3>1. InService = {d} /\ InService' = {}
      BY <2>1, <2>2
    <3> QED
      BY <2>1, <3>1 DEF Server!Next, Server!Vanish
  <2>3. CASE at[d] \notin Bound
    BY <2>1, <2>3
  <2> QED
    BY <2>2, <2>3
<1>4. ASSUME NEW c \in Clis, CliStarts(c)
      PROVE  [Server!Next]_<<InService, sockFile>>
  BY <1>4 DEF CliStarts, StartDaemon
<1> QED
  BY <1>2, <1>3, <1>4
     DEF Tasks, Outside, Cli, InstallHandlers, HealthSubscribes, HealthPanics,
         HealthStops, Signal, Shutdown, CliPings, CliWaits, CliAsks, vars

(* When daemons do not start at the same time, the path is taken by one at *)
(* a time and leads to it while it is in service, and nobody takes it over *)
(* from a daemon that is, whatever crashes, fails or is told to stop.      *)
THEOREM ImplementsSingleServer ==
  ASSUME ~ConcurrentStarts
  PROVE  Spec => ServerSpec
<1>1. Init => Server!Init
  BY DEF Init, Server!Init, InService, Bound, Serving
<1>2. TypeOK /\ ProcessInv /\ [Next]_vars
        => [Server!Next]_<<InService, sockFile>>
  BY ServerMainStep, ServerOtherStep DEF Next
<1> QED
  BY <1>1, <1>2, SocketIsOwned, TypeCorrect, PTL DEF Spec, ServerSpec, Server!Spec
=============================================================================
