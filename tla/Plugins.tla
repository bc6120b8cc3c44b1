------------------------------- MODULE Plugins -------------------------------
(***************************************************************************)
(* The plugin manager, crates/plugins/src/lib.rs: tasks of the daemon      *)
(* (request handlers, the health loop) dispatch events, each in its own    *)
(* thread; a hook process is started for every plugin that subscribed, is  *)
(* given the event on its standard input, and is left to a reaper thread.  *)
(* The operating system limits the processes and threads of a user.        *)
(***************************************************************************)
EXTENDS Integers, FiniteSets, Sequences, SequencesExt

CONSTANTS Callers,       \* tasks that dispatch events
          Files,         \* the *.yaml files of the plugins directory
          Malformed,     \* those that cannot be parsed
          Events,        \* for each file, the names it subscribes to
          EventNames,
          Broken,        \* files whose command cannot be started
          Readers,       \* hooks that first of all read their input to its end
          Chatty,        \* hooks that fill the pipe of their standard error
          Endless,       \* hooks that do not end by themselves
          MaxTasks,      \* processes and threads that can be started
          MaxEvents      \* bound: events a caller dispatches

ASSUME PluginsAssumption ==
  /\ IsFiniteSet(Files)
  /\ EventNames # {}
  /\ Events \in [Files -> SUBSET EventNames]
  /\ MaxTasks \in Nat /\ MaxEvents \in Nat

Hooks == Callers \X (1..MaxEvents) \X Files     \* one per caller, dispatch and plugin

VARIABLES
  loaded,      \* the plugins, in the order the directory was read
  at,          \* at[c]: the step caller c has come to
  sent,        \* sent[c]: events c has dispatched or is dispatching
  event,       \* event[c]: the last of them, and whether it overflows a pipe
  pos,         \* pos[c]: the plugin c has come to
  hook,        \* what has become of each hook
  fed,         \* hooks whose input has been closed
  reapers      \* hooks a thread waits for

vars == <<loaded, at, sent, event, pos, hook, fed, reapers>>

Places == {"idle", "next", "feed", "reap", "panicked"}
Event == [name : EventNames, large : BOOLEAN]
HookStates == {"none", "failed", "running", "ended", "reaped"}

(* Seeded fault: a file that cannot be parsed is loaded with defaults.      *)
Init_Lenient ==
  /\ loaded \in SetToSeqs(Files) \cup {<<>>}
  /\ at = [c \in Callers |-> "idle"]
  /\ sent = [c \in Callers |-> 0]
  /\ event \in [Callers -> Event]
  /\ \A c \in Callers : event[c] = CHOOSE e \in Event : TRUE
  /\ pos = [c \in Callers |-> 1]
  /\ hook = [h \in Hooks |-> "none"]
  /\ fed = {}
  /\ reapers = {}

(* PluginManager::load, after which the plugins never change; or none, when *)
(* the directory cannot be read or plugins are switched off.                *)
Init ==
  /\ loaded \in SetToSeqs(Files \ Malformed) \cup {<<>>}
  /\ at = [c \in Callers |-> "idle"]
  /\ sent = [c \in Callers |-> 0]
  /\ event \in [Callers -> Event]
  /\ \A c \in Callers : event[c] = CHOOSE e \in Event : TRUE
  /\ pos = [c \in Callers |-> 1]
  /\ hook = [h \in Hooks |-> "none"]
  /\ fed = {}
  /\ reapers = {}

Goto(c, place) == at' = [at EXCEPT ![c] = place]

Plugin(c) == loaded[pos[c]]
Current(c) == <<c, sent[c], Plugin(c)>>

Subscribed(p, name) == Events[p] = {} \/ name \in Events[p]

(* Hooks that run or have not been waited for, and threads.                 *)
Tasks ==
  Cardinality({h \in Hooks : hook[h] \in {"running", "ended"}}) + Cardinality(reapers)
Room == Tasks < MaxTasks
-----------------------------------------------------------------------------
Dispatch(c, e) ==
  /\ at[c] = "idle" /\ sent[c] < MaxEvents
  /\ sent' = [sent EXCEPT ![c] = @ + 1]
  /\ event' = [event EXCEPT ![c] = e]
  /\ pos' = [pos EXCEPT ![c] = 1]
  /\ Goto(c, "next")
  /\ UNCHANGED <<loaded, hook, fed, reapers>>

AtPlugin(c) == at[c] = "next" /\ pos[c] <= Len(loaded)

Skip(c) ==
  /\ AtPlugin(c)
  /\ ~Subscribed(Plugin(c), event[c].name)
  /\ pos' = [pos EXCEPT ![c] = @ + 1]
  /\ UNCHANGED <<loaded, at, sent, event, hook, fed, reapers>>

Spawn(c) ==
  /\ AtPlugin(c)
  /\ Subscribed(Plugin(c), event[c].name)
  /\ Room /\ Plugin(c) \notin Broken
  /\ hook' = [hook EXCEPT ![Current(c)] = "running"]
  /\ Goto(c, "feed")
  /\ UNCHANGED <<loaded, sent, event, pos, fed, reapers>>

(* Seeded fault: one hook that does not start ends the dispatch.            *)
SpawnFails_Returns(c) ==
  /\ AtPlugin(c)
  /\ Subscribed(Plugin(c), event[c].name)
  /\ ~Room \/ Plugin(c) \in Broken
  /\ hook' = [hook EXCEPT ![Current(c)] = "failed"]
  /\ Goto(c, "idle")
  /\ UNCHANGED <<loaded, sent, event, pos, fed, reapers>>

(* The failure is logged and the next plugin has its turn.                  *)
SpawnFails(c) ==
  /\ AtPlugin(c)
  /\ Subscribed(Plugin(c), event[c].name)
  /\ ~Room \/ Plugin(c) \in Broken
  /\ hook' = [hook EXCEPT ![Current(c)] = "failed"]
  /\ pos' = [pos EXCEPT ![c] = @ + 1]
  /\ UNCHANGED <<loaded, at, sent, event, fed, reapers>>

Return(c) ==
  /\ at[c] = "next" /\ pos[c] > Len(loaded)
  /\ Goto(c, "idle")
  /\ UNCHANGED <<loaded, sent, event, pos, hook, fed, reapers>>

(* Seeded fault: the input is written when the hook has ended.              *)
Feed_Waits(c) ==
  /\ at[c] = "feed"
  /\ hook[Current(c)] = "ended"
  /\ fed' = fed \cup {Current(c)}
  /\ Goto(c, "reap")
  /\ UNCHANGED <<loaded, sent, event, pos, hook, reapers>>

(* write_all, in the caller's thread: what a pipe holds is written at once, *)
(* the rest as the hook reads it, and to a hook that has ended it fails,    *)
(* which is ignored.  The input is closed after it.                         *)
Feed(c) ==
  /\ at[c] = "feed"
  /\ \/ ~event[c].large
     \/ Plugin(c) \in Readers
     \/ hook[Current(c)] = "ended"
  /\ fed' = fed \cup {Current(c)}
  /\ Goto(c, "reap")
  /\ UNCHANGED <<loaded, sent, event, pos, hook, reapers>>

(* Seeded fault: nobody waits for the hook.                                 *)
SpawnReaper_Omitted(c) ==
  /\ at[c] = "reap"
  /\ Room
  /\ Goto(c, "next")
  /\ pos' = [pos EXCEPT ![c] = @ + 1]
  /\ UNCHANGED <<loaded, sent, event, hook, fed, reapers>>

SpawnReaper(c) ==
  /\ at[c] = "reap"
  /\ Room
  /\ reapers' = reapers \cup {Current(c)}
  /\ Goto(c, "next")
  /\ pos' = [pos EXCEPT ![c] = @ + 1]
  /\ UNCHANGED <<loaded, sent, event, hook, fed>>

(* std::thread::spawn panics when the thread cannot be created: the task is *)
(* gone, the rest of the plugins are not told, the handle of the hook is    *)
(* dropped and nobody waits for it.                                         *)
SpawnPanics(c) ==
  /\ at[c] = "reap"
  /\ ~Room
  /\ Goto(c, "panicked")
  /\ UNCHANGED <<loaded, sent, event, pos, hook, fed, reapers>>

(* The hook's own doing.  A reader waits for the end of its input; a chatty *)
(* one fills the pipe of its standard error, which nobody reads, and goes   *)
(* on only when the daemon's end of it is dropped.                          *)
Dropped(h) == at[h[1]] = "panicked" /\ h = Current(h[1])

HookEnds(h) ==
  /\ hook[h] = "running"
  /\ h[3] \notin Endless
  /\ h[3] \in Readers => h \in fed
  /\ h[3] \in Chatty => Dropped(h)
  /\ hook' = [hook EXCEPT ![h] = "ended"]
  /\ UNCHANGED <<loaded, at, sent, event, pos, fed, reapers>>

(* Seeded fault: the thread looks once and does not wait.                   *)
Reap_Polls(h) ==
  /\ h \in reapers
  /\ hook' = [hook EXCEPT ![h] = IF @ = "ended" THEN "reaped" ELSE @]
  /\ reapers' = reapers \ {h}
  /\ UNCHANGED <<loaded, at, sent, event, pos, fed>>

Reap(h) ==
  /\ h \in reapers /\ hook[h] = "ended"
  /\ hook' = [hook EXCEPT ![h] = "reaped"]
  /\ reapers' = reapers \ {h}
  /\ UNCHANGED <<loaded, at, sent, event, pos, fed>>
-----------------------------------------------------------------------------
Steps(c) ==
  \/ Skip(c) \/ Spawn(c) \/ SpawnFails(c) \/ Return(c)
  \/ Feed(c) \/ SpawnReaper(c) \/ SpawnPanics(c)

Next ==
  \/ \E c \in Callers : Steps(c) \/ \E e \in Event : Dispatch(c, e)
  \/ \E h \in Hooks : HookEnds(h) \/ Reap(h)

Spec == Init /\ [][Next]_vars

(* Threads that can run do; a hook that can end does.                       *)
Fairness ==
  /\ \A c \in Callers : WF_vars(Steps(c))
  /\ \A h \in Hooks : WF_vars(HookEnds(h)) /\ WF_vars(Reap(h))

FairSpec == Spec /\ Fairness
-----------------------------------------------------------------------------
TypeOK ==
  /\ loaded \in Seq(Files \ Malformed)
  /\ at \in [Callers -> Places]
  /\ sent \in [Callers -> 0..MaxEvents]
  /\ event \in [Callers -> Event]
  /\ pos \in [Callers -> 1..(Len(loaded) + 1)]
  /\ hook \in [Hooks -> HookStates]
  /\ fed \in SUBSET Hooks /\ reapers \in SUBSET Hooks
  /\ \A c \in Callers : at[c] \in {"feed", "reap", "panicked"} =>
       pos[c] <= Len(loaded) /\ sent[c] > 0

(* One broken plugin does not keep an event from the others: of the plugins *)
(* dispatch has come past, those that subscribed have had a hook started    *)
(* for them, or tried, and no others (dispatch goes on after an error).     *)
WholeAudience ==
  \A c \in Callers : sent[c] > 0 =>
    \A i \in 1..Len(loaded) :
      LET p == loaded[i]
      IN  hook[<<c, sent[c], p>>] # "none" <=>
            /\ Subscribed(p, event[c].name)
            /\ \/ i < pos[c]
               \/ i = pos[c] /\ at[c] \in {"feed", "reap", "panicked"}
               \/ at[c] = "idle"

(* Every hook that has not been waited for has a thread that waits for it,  *)
(* or its caller is about to start one, or panicked in trying: hooks never  *)
(* pile up as zombies behind a daemon that runs (run_hook).                 *)
NobodyForgotten ==
  \A h \in Hooks : hook[h] \in {"running", "ended"} =>
    \/ h \in reapers
    \/ at[h[1]] \in {"feed", "reap", "panicked"} /\ h = Current(h[1])

(* dispatch returns, whatever the hooks do afterwards.  Two things keep it: *)
(* a payload larger than a pipe for a hook that neither reads nor ends, and *)
(* the panic of CallersSurvive.                                             *)
Stuck(c) ==
  /\ at[c] = "feed" /\ event[c].large
  /\ Plugin(c) \notin Readers /\ Plugin(c) \in Endless \cup Chatty

DispatchReturns ==
  \A c \in Callers : at[c] # "idle" ~> at[c] \in {"idle", "panicked"} \/ Stuck(c)

(* A hook that has ended is reaped, it does not stay a zombie, unless the   *)
(* caller that started it panicked.                                         *)
EveryHookReaped ==
  \A h \in Hooks : hook[h] = "ended" ~> (hook[h] = "reaped" \/ Dropped(h))

(* "never panics the caller" (the comment of dispatch).                     *)
CallersSurvive == \A c \in Callers : at[c] # "panicked"
=============================================================================
