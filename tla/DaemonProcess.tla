---------------------------- MODULE DaemonProcess ----------------------------
(***************************************************************************)
(* The life of the daemon process on Unix: main.rs, serve_unix of ipc.rs,  *)
(* the shutdown channel, and the CLI that starts a daemon when it finds    *)
(* none (ipc_client.rs).  Several daemons may be alive at once: one going  *)
(* down, one coming up, one that is about to be refused.  What they share  *)
(* is two paths in ~/.sshflow, the pid file and the socket.                *)
(*                                                                         *)
(* The main task of daemon d is at[d]:                                     *)
(*                                                                         *)
(*   off -> writePid -> spawn -> exists -> probe -> unlink -> bind         *)
(*     -> listen -> chmod -> serving -> unlinkOwn -> close -> send         *)
(*     -> await -> removePid -> off                                        *)
(*                                                                         *)
(* and any error before `serving`, or of accept, goes straight to `send`.  *)
(* The configuration and the plugins are only read on the way.  Loading    *)
(* the metrics, between writePid and spawn, is more: it rewrites           *)
(* metrics.json, also for a daemon that is refused a moment later.  No     *)
(* property here reads that file; Metrics models what it does to it.       *)
(***************************************************************************)

CONSTANTS
  Daemons,         \* processes; one that has ended may come back
  Clis,            \* sshflow commands that can be in progress
  Nobody,          \* a path that does not exist
  ConcurrentStarts \* whether a daemon may start while another is starting

ASSUME NobodyAssumption == Nobody \notin Daemons
ASSUME StartsAssumption == ConcurrentStarts \in BOOLEAN

VARIABLES
  at,       \* at[d]: the step main has come to
  health,   \* health[d]: the health task
  signals,  \* signals[d]: the signal task
  notified, \* notified[d]: receivers with a change of shutdown_tx to see
  pidFile,  \* the daemon that daemon.pid names
  sockFile, \* the daemon whose socket daemon.sock is
  cli       \* cli[c]: the step the command has come to

tasks == <<health, signals, notified>>
files == <<pidFile, sockFile>>
vars == <<at, health, signals, notified, pidFile, sockFile, cli>>

Starting == {"writePid", "spawn", "exists", "probe", "unlink", "bind",
             "listen", "chmod"}
Serving == {"serving", "unlinkOwn"}
Places == Starting \cup Serving
          \cup {"off", "close", "send", "await", "removePid"}

(* The listener exists from listen until serve_unix returns. *)
Listening == {"chmod", "close"} \cup Serving

Init ==
  /\ at = [d \in Daemons |-> "off"]
  /\ health = [d \in Daemons |-> "none"]
  /\ signals = [d \in Daemons |-> "none"]
  /\ notified = [d \in Daemons |-> {}]
  /\ pidFile = Nobody
  /\ sockFile = Nobody
  /\ cli = [c \in Clis |-> "idle"]

Goto(d, place) == at' = [at EXCEPT ![d] = place]

(* Connecting to daemon.sock succeeds when its socket has a listener. *)
Connects == sockFile \in Daemons /\ at[sockFile] \in Listening

-----------------------------------------------------------------------------
(* The process has been spawned.  One that has ended stands for a new one  *)
(* again as soon as no socket of its former life is left at the path.      *)
StartDaemon(d) ==
  /\ at[d] = "off"
  /\ d # sockFile
  /\ ConcurrentStarts \/ \A e \in Daemons : at[e] \notin Starting
  /\ Goto(d, "writePid")

(* Seeded fault: the pid is that of the command that started the daemon. *)
WritePid_Command(d) ==
  /\ at[d] = "writePid"
  /\ \E c \in Clis : pidFile' = c
  /\ Goto(d, "spawn")
  /\ UNCHANGED <<tasks, sockFile, cli>>

(* Whatever it named before. *)
WritePid(d) ==
  /\ at[d] = "writePid"
  /\ pidFile' = d
  /\ Goto(d, "spawn")
  /\ UNCHANGED <<tasks, sockFile, cli>>

SpawnTasks(d) ==
  /\ at[d] = "spawn"
  /\ health' = [health EXCEPT ![d] = "spawned"]
  /\ signals' = [signals EXCEPT ![d] = "spawned"]
  /\ Goto(d, "exists")
  /\ UNCHANGED <<notified, files, cli>>

Exists(d) ==
  /\ at[d] = "exists"
  /\ Goto(d, IF sockFile = Nobody THEN "bind" ELSE "probe")
  /\ UNCHANGED <<tasks, files, cli>>

(* Seeded fault: a socket that exists is taken for a stale one. *)
Probe_Skips(d) ==
  /\ at[d] = "probe"
  /\ Goto(d, "unlink")
  /\ UNCHANGED <<tasks, files, cli>>

(* Is another daemon listening?  Then this one refuses to start. *)
Probe(d) ==
  /\ at[d] = "probe"
  /\ Goto(d, IF Connects THEN "send" ELSE "unlink")
  /\ UNCHANGED <<tasks, files, cli>>

(* remove_file fails when the path has gone since. *)
UnlinkStale(d) ==
  /\ at[d] = "unlink"
  /\ sockFile' = Nobody
  /\ Goto(d, IF sockFile = Nobody THEN "send" ELSE "bind")
  /\ UNCHANGED <<tasks, pidFile, cli>>

Bind(d) ==
  /\ at[d] = "bind"
  /\ sockFile = Nobody
  /\ sockFile' = d
  /\ Goto(d, "listen")
  /\ UNCHANGED <<tasks, pidFile, cli>>

(* The address is in use, or whatever else the system has against it. *)
BindFails(d) ==
  /\ at[d] = "bind"
  /\ Goto(d, "send")
  /\ UNCHANGED <<tasks, files, cli>>

(* UnixListener::bind makes two system calls; between them a connection is *)
(* refused.                                                                *)
Listen(d) ==
  /\ at[d] = "listen"
  /\ Goto(d, "chmod")
  /\ UNCHANGED <<tasks, files, cli>>

(* The second of them fails: the path stays behind. *)
ListenFails(d) ==
  /\ at[d] = "listen"
  /\ Goto(d, "send")
  /\ UNCHANGED <<tasks, files, cli>>

(* set_permissions, then subscribe: a value sent before counts as seen. *)
Subscribe(d) ==
  /\ at[d] = "chmod"
  /\ sockFile # Nobody
  /\ Goto(d, "serving")
  /\ UNCHANGED <<tasks, files, cli>>

(* The socket stays behind. *)
ChmodFails(d) ==
  /\ at[d] = "chmod"
  /\ Goto(d, "send")
  /\ UNCHANGED <<tasks, files, cli>>

-----------------------------------------------------------------------------
(* shutdown_tx.send(true): with nobody subscribed it changes nothing, and a *)
(* receiver that subscribes later has nothing to see.                       *)
Receivers(d) == {r \in {"serve", "health"} :
                   \/ r = "serve" /\ at[d] = "serving"
                   \/ r = "health" /\ health[d] = "running"}

Send(d) == notified' = [notified EXCEPT ![d] = @ \cup Receivers(d)]

(* SIGTERM or SIGINT reaches the task that waits for one, which then ends: *)
(* the next signal does nothing.  Before the handlers are installed the    *)
(* process dies of it, which is Kill.                                      *)
Signal(d) ==
  /\ signals[d] = "waiting"
  /\ signals' = [signals EXCEPT ![d] = "ended"]
  /\ Send(d)
  /\ UNCHANGED <<at, health, files, cli>>

InstallHandlers(d) ==
  /\ signals[d] = "spawned"
  /\ signals' = [signals EXCEPT ![d] = "waiting"]
  /\ UNCHANGED <<at, health, notified, files, cli>>

(* A Shutdown request. *)
Shutdown(d) ==
  /\ at[d] \in Serving
  /\ Send(d)
  /\ UNCHANGED <<at, health, signals, files, cli>>

Stop(d) ==
  /\ at[d] = "serving"
  /\ "serve" \in notified[d]
  /\ Goto(d, "unlinkOwn")
  /\ UNCHANGED <<tasks, files, cli>>

(* accept failed: serve_unix returns without removing the socket. *)
AcceptFails(d) ==
  /\ at[d] = "serving"
  /\ Goto(d, "send")
  /\ UNCHANGED <<tasks, files, cli>>

(* By path, whoever's socket is there. *)
UnlinkOwn(d) ==
  /\ at[d] = "unlinkOwn"
  /\ sockFile' = Nobody
  /\ Goto(d, "close")
  /\ UNCHANGED <<tasks, pidFile, cli>>

CloseListener(d) ==
  /\ at[d] = "close"
  /\ Goto(d, "send")
  /\ UNCHANGED <<tasks, files, cli>>

(* Seeded fault: whoever stopped serve_unix is trusted to have told health. *)
SendShutdown_Omitted(d) ==
  /\ at[d] = "send"
  /\ Goto(d, "await")
  /\ UNCHANGED <<tasks, files, cli>>

SendShutdown(d) ==
  /\ at[d] = "send"
  /\ Send(d)
  /\ Goto(d, "await")
  /\ UNCHANGED <<health, signals, files, cli>>

AwaitHealth(d) ==
  /\ at[d] = "await"
  /\ health[d] = "ended"
  /\ Goto(d, "removePid")
  /\ UNCHANGED <<tasks, files, cli>>

(* The process is gone, with its tasks and its listener. *)
End(d) ==
  /\ Goto(d, "off")
  /\ health' = [health EXCEPT ![d] = "none"]
  /\ signals' = [signals EXCEPT ![d] = "none"]
  /\ notified' = [notified EXCEPT ![d] = {}]

(* Seeded fault: the socket is cleaned up once more. *)
RemovePid_AndSocket(d) ==
  /\ at[d] = "removePid"
  /\ pidFile' = Nobody
  /\ sockFile' = Nobody
  /\ End(d)
  /\ UNCHANGED cli

(* By path, whoever the file names. *)
RemovePid(d) ==
  /\ at[d] = "removePid"
  /\ pidFile' = Nobody
  /\ End(d)
  /\ UNCHANGED <<sockFile, cli>>

(* SIGKILL, a power cut, a signal before its handler, or an error before   *)
(* the tasks exist: the files stay as they are.                            *)
Kill(d) ==
  /\ at[d] # "off"
  /\ End(d)
  /\ UNCHANGED <<files, cli>>

-----------------------------------------------------------------------------
HealthSubscribes(d) ==
  /\ health[d] = "spawned"
  /\ health' = [health EXCEPT ![d] = "running"]
  /\ UNCHANGED <<at, signals, notified, files, cli>>

(* With a healthCheck of zero, tokio::time::interval panics. *)
HealthPanics(d) ==
  /\ health[d] = "spawned"
  /\ health' = [health EXCEPT ![d] = "ended"]
  /\ UNCHANGED <<at, signals, notified, files, cli>>

(* The loop looks at the channel between two passes. *)
HealthStops(d) ==
  /\ health[d] = "running"
  /\ "health" \in notified[d]
  /\ health' = [health EXCEPT ![d] = "ended"]
  /\ UNCHANGED <<at, signals, notified, files, cli>>

-----------------------------------------------------------------------------
(* ensure_daemon_running: a ping, and if it fails a daemon, and pings      *)
(* again until one is answered or the command gives up.  A ping waits      *)
(* while its connection is neither answered nor reset.                     *)
CliGoto(c, place) == cli' = [cli EXCEPT ![c] = place]

Answered == Connects /\ at[sockFile] = "serving"

CliPings(c) ==
  /\ cli[c] = "idle"
  /\ \/ Answered /\ CliGoto(c, "ask")
     \/ ~Connects /\ CliGoto(c, "start")
  /\ UNCHANGED <<at, tasks, files>>

CliStarts(c) ==
  /\ cli[c] = "start"
  /\ \E d \in Daemons : StartDaemon(d)
  /\ CliGoto(c, "wait")
  /\ UNCHANGED <<tasks, files>>

(* After forty pings, four seconds. *)
CliWaits(c) ==
  /\ cli[c] = "wait"
  /\ \/ Answered /\ CliGoto(c, "ask")
     \/ ~Connects /\ CliGoto(c, "idle")
  /\ UNCHANGED <<at, tasks, files>>

(* The request itself, on a connection of its own. *)
CliAsks(c) ==
  /\ cli[c] = "ask"
  /\ Answered \/ ~Connects
  /\ CliGoto(c, "idle")
  /\ UNCHANGED <<at, tasks, files>>

-----------------------------------------------------------------------------
Main(d) ==
  \/ WritePid(d) \/ SpawnTasks(d) \/ Exists(d) \/ Probe(d) \/ UnlinkStale(d)
  \/ Bind(d) \/ BindFails(d) \/ Listen(d) \/ ListenFails(d)
  \/ Subscribe(d) \/ ChmodFails(d)
  \/ Stop(d) \/ UnlinkOwn(d) \/ CloseListener(d)
  \/ SendShutdown(d) \/ AwaitHealth(d) \/ RemovePid(d)

Tasks(d) ==
  \/ InstallHandlers(d)
  \/ HealthSubscribes(d) \/ HealthPanics(d) \/ HealthStops(d)

Outside(d) == Signal(d) \/ Shutdown(d) \/ AcceptFails(d) \/ Kill(d)

Cli(c) == CliPings(c) \/ CliStarts(c) \/ CliWaits(c) \/ CliAsks(c)

Next == \/ \E d \in Daemons : Main(d) \/ Tasks(d) \/ Outside(d)
        \/ \E c \in Clis : Cli(c)

Spec == Init /\ [][Next]_vars

(* The runtime polls the tasks that can go on. *)
FairSpec == Spec /\ \A d \in Daemons : WF_vars(Main(d)) /\ WF_vars(Tasks(d))

-----------------------------------------------------------------------------
(* The types of the variables. *)
TypeOK ==
  /\ at \in [Daemons -> Places]
  /\ health \in [Daemons -> {"none", "spawned", "running", "ended"}]
  /\ signals \in [Daemons -> {"none", "spawned", "waiting", "ended"}]
  /\ notified \in [Daemons -> SUBSET {"serve", "health"}]
  /\ pidFile \in Daemons \cup {Nobody}
  /\ sockFile \in Daemons \cup {Nobody}
  /\ cli \in [Clis -> {"idle", "start", "wait", "ask"}]

(* "Long-running, one instance per user": no two daemons serve requests at *)
(* the same time.                                                          *)
OneInstance ==
  \A d, e \in Daemons : at[d] \in Serving /\ at[e] \in Serving => d = e

(* Why it holds when starts do not overlap, whatever daemons crash, leave  *)
(* sockets behind or are still going down: daemon.sock is the socket of    *)
(* the daemon that has bound it until that daemon removes it itself, and   *)
(* while one is about to remove a socket it found stale nobody serves.     *)
Bound == {"listen", "chmod"} \cup Serving
OwnsItsSocket == \A d \in Daemons : at[d] \in Bound => sockFile = d
UnlinksOnlyStale ==
  \A d, e \in Daemons : at[d] = "unlink" => at[e] \notin Serving
StartsAreSerial ==
  \A d, e \in Daemons : at[d] \in Starting /\ at[e] \in Starting => d = e
ProcessInv == /\ OwnsItsSocket
              /\ UnlinksOnlyStale
              /\ StartsAreSerial

(* The daemons as seen from the socket, from bind until a daemon removes   *)
(* the path or stops: they implement the single server.                    *)
InService == {d \in Daemons : at[d] \in Bound}
Server == INSTANCE SingleServer WITH serving <- InService, path <- sockFile
ServerSpec == Server!Spec

(* A daemon that is told to stop while it serves ends, by itself, not only *)
(* when it is killed: its health loop runs, and hears of it, or a period   *)
(* of zero has made it panic, and main, which waits for it, goes on.       *)
ToldServerStops ==
  \A d \in Daemons :
    (/\ at[d] = "serving"
     /\ "serve" \in notified[d]
     /\ health[d] \in {"running", "ended"})
      ~> at[d] = "off"
=============================================================================
