--------------------------- MODULE Plugins_proofs ---------------------------
(***************************************************************************)
(* Proofs about Plugins, for any callers, plugins, kinds of hooks and      *)
(* limits.                                                                 *)
(***************************************************************************)
EXTENDS Plugins, FiniteSetTheorems, SequenceTheorems, TLAPS

(* The plugins are a sequence in which each occurs once.                    *)
LoadedOnce ==
  /\ loaded \in Seq(Files \ Malformed)
  /\ \A i, j \in 1..Len(loaded) : loaded[i] = loaded[j] => i = j

LEMMA InitLoaded == Init => LoadedOnce
  <1> SUFFICES ASSUME Init PROVE LoadedOnce
    OBVIOUS
  <1> DEFINE F == Files \ Malformed
  <1>1. Cardinality(F) \in Nat
    BY PluginsAssumption, FS_Subset, FS_CardinalityType
  <1>2. CASE loaded = <<>>
    BY <1>2, EmptySeq DEF LoadedOnce
  <1>3. CASE loaded \in SetToSeqs(F)
    <2>1. /\ loaded \in [1..Cardinality(F) -> F]
          /\ \A i, j \in 1..Cardinality(F) : i # j => loaded[i] # loaded[j]
      BY <1>3 DEF SetToSeqs
    <2>2. loaded \in Seq(F)
      BY <1>1, <2>1, SeqDef
    <2>3. Len(loaded) = Cardinality(F)
      BY <1>1, <2>1, <2>2, LenProperties
    <2> QED
      BY <2>1, <2>2, <2>3 DEF LoadedOnce
  <1> QED
    BY <1>2, <1>3 DEF Init

LEMMA LoadedStep == LoadedOnce /\ [Next]_vars => LoadedOnce'
  <1>1. [Next]_vars => UNCHANGED loaded
    BY DEF Next, Steps, Dispatch, Skip, Spawn, SpawnFails, Return, Feed, SpawnReaper,
           SpawnPanics, HookEnds, Reap, vars
  <1> QED
    BY <1>1 DEF LoadedOnce

(* What the types are kept by: the plugin at hand is one that was loaded.   *)
LEMMA CurrentIsHook ==
  ASSUME TypeOK, NEW c \in Callers, pos[c] <= Len(loaded), sent[c] > 0
  PROVE  /\ Plugin(c) \in Files /\ Current(c) \in Hooks /\ Len(loaded) \in Nat
         /\ pos[c] \in 1..Len(loaded)
  <1>1. Len(loaded) \in Nat /\ pos[c] \in 1..Len(loaded)
    BY LenProperties DEF TypeOK
  <1>2. Plugin(c) \in Files
    BY <1>1, ElementOfSeq DEF TypeOK, Plugin
  <1>3. sent[c] \in 1..MaxEvents
    BY PluginsAssumption DEF TypeOK
  <1> QED
    BY <1>1, <1>2, <1>3 DEF Current, Hooks

(* Dispatching and hooks; the steps of a dispatch come after a first event. *)
SentFirst == \A c \in Callers : at[c] # "idle" => sent[c] > 0

LEMMA TypeStep == TypeOK /\ SentFirst /\ [Next]_vars => TypeOK' /\ SentFirst'
  <1> SUFFICES ASSUME TypeOK, SentFirst, [Next]_vars PROVE TypeOK' /\ SentFirst'
    OBVIOUS
  <1> USE PluginsAssumption
  <1>0. Len(loaded) \in Nat
    BY LenProperties DEF TypeOK
  <1>1. ASSUME NEW c \in Callers, NEW e \in Event, Dispatch(c, e)
        PROVE  TypeOK' /\ SentFirst'
    <2>1. sent'[c] \in 1..MaxEvents /\ sent' \in [Callers -> 0..MaxEvents]
      BY <1>1 DEF Dispatch, TypeOK
    <2>2. pos' \in [Callers -> 1..(Len(loaded) + 1)]
      BY <1>0, <1>1 DEF Dispatch, TypeOK
    <2> QED
      BY <1>1, <2>1, <2>2 DEF Dispatch, Goto, TypeOK, SentFirst, Places
  <1>2. ASSUME NEW c \in Callers, Skip(c) PROVE TypeOK' /\ SentFirst'
    <2>1. pos' \in [Callers -> 1..(Len(loaded) + 1)]
      BY <1>0, <1>2 DEF Skip, AtPlugin, TypeOK
    <2> QED
      BY <1>2, <2>1 DEF Skip, AtPlugin, TypeOK, SentFirst
  <1>3. ASSUME NEW c \in Callers, Spawn(c) PROVE TypeOK' /\ SentFirst'
    <2>1. Current(c) \in Hooks
      BY <1>3, CurrentIsHook DEF Spawn, AtPlugin, SentFirst
    <2> QED
      BY <1>3, <2>1 DEF Spawn, AtPlugin, Goto, TypeOK, SentFirst, Places, HookStates
  <1>4. ASSUME NEW c \in Callers, SpawnFails(c) PROVE TypeOK' /\ SentFirst'
    <2>1. Current(c) \in Hooks
      BY <1>4, CurrentIsHook DEF SpawnFails, AtPlugin, SentFirst
    <2>2. pos' \in [Callers -> 1..(Len(loaded) + 1)]
      BY <1>0, <1>4 DEF SpawnFails, AtPlugin, TypeOK
    <2> QED
      BY <1>4, <2>1, <2>2 DEF SpawnFails, AtPlugin, TypeOK, SentFirst, HookStates
  <1>5. ASSUME NEW c \in Callers, Return(c) PROVE TypeOK' /\ SentFirst'
    BY <1>5 DEF Return, Goto, TypeOK, SentFirst, Places
  <1>6. ASSUME NEW c \in Callers, Feed(c) PROVE TypeOK' /\ SentFirst'
    <2>1. Current(c) \in Hooks
      BY <1>6, CurrentIsHook DEF Feed, TypeOK, SentFirst
    <2> QED
      BY <1>6, <2>1 DEF Feed, Goto, TypeOK, SentFirst, Places
  <1>7. ASSUME NEW c \in Callers, SpawnReaper(c) PROVE TypeOK' /\ SentFirst'
    <2>1. Current(c) \in Hooks
      BY <1>7, CurrentIsHook DEF SpawnReaper, TypeOK, SentFirst
    <2>2. pos' \in [Callers -> 1..(Len(loaded) + 1)]
      BY <1>0, <1>7 DEF SpawnReaper, TypeOK
    <2> QED
      BY <1>7, <2>1, <2>2 DEF SpawnReaper, Goto, TypeOK, SentFirst, Places
  <1>8. ASSUME NEW c \in Callers, SpawnPanics(c) PROVE TypeOK' /\ SentFirst'
    BY <1>8 DEF SpawnPanics, Goto, TypeOK, SentFirst, Places
  <1>9. ASSUME NEW h \in Hooks, HookEnds(h) \/ Reap(h) PROVE TypeOK' /\ SentFirst'
    BY <1>9 DEF HookEnds, Reap, TypeOK, SentFirst, HookStates
  <1>10. CASE UNCHANGED vars
    BY <1>10 DEF vars, TypeOK, SentFirst
  <1> QED
    BY <1>1, <1>2, <1>3, <1>4, <1>5, <1>6, <1>7, <1>8, <1>9, <1>10 DEF Next, Steps

LEMMA InitTypes == Init => TypeOK /\ SentFirst
  BY InitLoaded, LenProperties, PluginsAssumption
     DEF Init, TypeOK, SentFirst, LoadedOnce, Places, HookStates

(* The variables keep their types.                                          *)
THEOREM TypeCorrect == Spec => []TypeOK
  <1>1. Spec => [](TypeOK /\ SentFirst)
    BY InitTypes, TypeStep, PTL DEF Spec
  <1> QED
    BY <1>1, PTL

LEMMA Basics == Spec => [](TypeOK /\ SentFirst /\ LoadedOnce)
  BY InitTypes, TypeStep, InitLoaded, LoadedStep, PTL DEF Spec
-----------------------------------------------------------------------------
(* NobodyForgotten is inductive: only Spawn makes a hook run, and its caller*)
(* stays with it until a thread has taken it over.                          *)
LEMMA ForgottenStep ==
  TypeOK /\ SentFirst /\ NobodyForgotten /\ [Next]_vars => NobodyForgotten'
  <1> SUFFICES ASSUME TypeOK, SentFirst, NobodyForgotten, [Next]_vars,
                      NEW h \in Hooks, (hook[h] \in {"running", "ended"})'
               PROVE  \/ h \in reapers'
                      \/ (at[h[1]] \in {"feed", "reap", "panicked"} /\ h = Current(h[1]))'
    BY DEF NobodyForgotten
  <1> DEFINE c == h[1]
  <1>0. c \in Callers
    BY DEF Hooks
  <1>1. CASE h \in reapers
    <2>1. CASE \E g \in Hooks : Reap(g)
      BY <1>1, <2>1 DEF Reap, TypeOK
    <2>2. CASE ~\E g \in Hooks : Reap(g)
      BY <1>1, <2>2 DEF Next, Steps, Dispatch, Skip, Spawn, SpawnFails, Return, Feed,
                        SpawnReaper, SpawnPanics, HookEnds, vars
    <2> QED
      BY <2>1, <2>2
  <1>2. CASE h \notin reapers /\ hook[h] \in {"running", "ended"}
    <2>1. at[c] \in {"feed", "reap", "panicked"} /\ h = Current(c)
      BY <1>2 DEF NobodyForgotten
    <2>2. ASSUME NEW d \in Callers, Steps(d) \/ \E e \in Event : Dispatch(d, e)
          PROVE  \/ h \in reapers'
                 \/ (at[c] \in {"feed", "reap", "panicked"} /\ h = Current(c))'
      <3>1. CASE d = c
        BY <1>0, <2>1, <2>2, <3>1
           DEF Steps, Dispatch, Skip, AtPlugin, Spawn, SpawnFails, Return, Feed, SpawnReaper,
               SpawnPanics, Goto, Current, Plugin, TypeOK
      <3>2. CASE d # c
        BY <1>0, <2>1, <2>2, <3>2
           DEF Steps, Dispatch, Skip, AtPlugin, Spawn, SpawnFails, Return, Feed, SpawnReaper,
               SpawnPanics, Goto, Current, Plugin, TypeOK
      <3> QED
        BY <3>1, <3>2
    <2>3. ASSUME NEW g \in Hooks, HookEnds(g) \/ Reap(g)
          PROVE  (at[c] \in {"feed", "reap", "panicked"} /\ h = Current(c))'
      BY <2>1, <2>3 DEF HookEnds, Reap, Current, Plugin
    <2>4. CASE UNCHANGED vars
      BY <2>1, <2>4 DEF vars, Current, Plugin
    <2> QED
      BY <2>2, <2>3, <2>4 DEF Next
  <1>3. CASE hook[h] \notin {"running", "ended"}
    <2>1. PICK d \in Callers : Spawn(d) /\ h = Current(d)
      <3>1. ASSUME NEW g \in Hooks, HookEnds(g) \/ Reap(g) PROVE FALSE
        BY <1>3, <3>1 DEF HookEnds, Reap, TypeOK
      <3>2. ASSUME NEW d \in Callers, SpawnFails(d) PROVE FALSE
        BY <1>3, <3>2 DEF SpawnFails, TypeOK
      <3>3. ASSUME NEW d \in Callers, Spawn(d) PROVE h = Current(d)
        BY <1>3, <3>3 DEF Spawn, TypeOK
      <3>4. PICK d \in Callers : Spawn(d)
        BY <1>3, <3>1, <3>2 DEF Next, Steps, Dispatch, Skip, Return, Feed, SpawnReaper,
                                 SpawnPanics, vars
      <3> QED
        BY <3>3, <3>4
    <2>2. h[1] = d
      BY <2>1 DEF Current
    <2> QED
      BY <2>1, <2>2 DEF Spawn, Goto, TypeOK, Current, Plugin
  <1> QED
    BY <1>1, <1>2, <1>3

(* Hooks never pile up behind a daemon that runs: run_hook leaves each to a *)
(* thread, or the caller that could not panicked.                           *)
THEOREM EveryHookHasAReaper == Spec => []NobodyForgotten
  <1>1. Init => NobodyForgotten
    BY DEF Init, NobodyForgotten
  <1>2. Spec => [](TypeOK /\ SentFirst)
    BY InitTypes, TypeStep, PTL DEF Spec
  <1> QED
    BY <1>1, <1>2, ForgottenStep, PTL DEF Spec
-----------------------------------------------------------------------------
(* The hooks of events still to come have not been started.                 *)
Fresh == \A h \in Hooks : h[2] > sent[h[1]] => hook[h] = "none"

(* Which plugins dispatch has come past.                                    *)
Past(c, i) ==
  \/ i < pos[c]
  \/ i = pos[c] /\ at[c] \in {"feed", "reap", "panicked"}
  \/ at[c] = "idle"

AudienceInv == Fresh /\ WholeAudience

(* Who has been told is decided by the caller's own steps only.             *)
LEMMA AudienceStep ==
  TypeOK /\ SentFirst /\ LoadedOnce /\ AudienceInv /\ [Next]_vars => AudienceInv'
  <1> SUFFICES ASSUME TypeOK, SentFirst, LoadedOnce, AudienceInv, [Next]_vars
               PROVE  AudienceInv'
    OBVIOUS
  <1> USE PluginsAssumption
  <1> DEFINE Told(c) == \A i \in 1..Len(loaded) :
                          hook[<<c, sent[c], loaded[i]>>] # "none" <=>
                            Subscribed(loaded[i], event[c].name) /\ Past(c, i)
  <1>0. /\ WholeAudience <=> \A c \in Callers : sent[c] > 0 => Told(c)
        /\ WholeAudience' <=> \A c \in Callers : (sent[c] > 0 => Told(c))'
    BY DEF WholeAudience, Past
  <1>1. \A c \in Callers : sent[c] > 0 => Told(c)
    BY <1>0 DEF AudienceInv
  <1>2. Len(loaded) \in Nat /\ \A i \in 1..Len(loaded) : loaded[i] \in Files
    BY LenProperties, ElementOfSeq DEF LoadedOnce
  <1>3. ASSUME NEW d \in Callers, Steps(d) \/ \E e \in Event : Dispatch(d, e)
        PROVE  AudienceInv'
    <2>1. ASSUME NEW c \in Callers, c # d, (sent[c] > 0)' PROVE Told(c)'
      <3>1. UNCHANGED <<sent[c], event[c], pos[c], at[c], loaded>>
        BY <1>3, <2>1
           DEF Steps, Dispatch, Skip, AtPlugin, Spawn, SpawnFails, Return, Feed, SpawnReaper,
               SpawnPanics, Goto, TypeOK
      <3>2. \A k, p : <<c, k, p>> \in Hooks => hook'[<<c, k, p>>] = hook[<<c, k, p>>]
        BY <1>3, <2>1
           DEF Steps, Dispatch, Skip, Spawn, SpawnFails, Return, Feed, SpawnReaper,
               SpawnPanics, Current, TypeOK
      <3>3. sent[c] \in 1..MaxEvents
        BY <2>1, <3>1 DEF TypeOK
      <3>4. \A i \in 1..Len(loaded) : <<c, sent[c], loaded[i]>> \in Hooks
        BY <1>2, <3>3 DEF Hooks
      <3>5. Told(c)
        BY <1>1, <3>3
      <3> QED
        BY <3>1, <3>2, <3>4, <3>5 DEF Past
    <2>2. Len(loaded') = Len(loaded) /\ loaded' = loaded
      BY <1>3 DEF Steps, Dispatch, Skip, Spawn, SpawnFails, Return, Feed, SpawnReaper,
                  SpawnPanics
    <2>3. ASSUME NEW e \in Event, Dispatch(d, e) PROVE Told(d)' /\ Fresh'
      <3>1. /\ sent'[d] = sent[d] + 1 /\ sent'[d] \in 1..MaxEvents
            /\ pos'[d] = 1 /\ at'[d] = "next" /\ hook' = hook
            /\ \A c \in Callers : sent'[c] >= sent[c]
        BY <2>3 DEF Dispatch, Goto, TypeOK
      <3>2. \A i \in 1..Len(loaded) : hook'[<<d, sent'[d], loaded[i]>>] = "none"
        BY <1>2, <3>1 DEF AudienceInv, Fresh, Hooks, TypeOK
      <3>3. \A i \in 1..Len(loaded) : ~Past(d, i)'
        BY <3>1 DEF Past
      <3>4. Fresh'
        <4> SUFFICES ASSUME NEW h \in Hooks, h[2] > sent'[h[1]] PROVE hook[h] = "none"
          BY <3>1 DEF Fresh
        <4>1. h[1] \in Callers /\ h[2] \in Int
          BY DEF Hooks
        <4>2. sent[h[1]] \in Int /\ sent'[h[1]] \in Int /\ sent'[h[1]] >= sent[h[1]]
          BY <2>3, <3>1, <4>1 DEF TypeOK, Dispatch
        <4>3. h[2] > sent[h[1]]
          BY <4>1, <4>2
        <4> QED
          BY <4>3 DEF AudienceInv, Fresh
      <3> QED
        BY <2>2, <3>2, <3>3, <3>4
    <2>4. ASSUME Steps(d) PROVE Told(d)' /\ Fresh'
      <3>1. sent[d] \in 1..MaxEvents /\ UNCHANGED <<sent, event>> /\ Told(d)
        <4>1. at[d] # "idle"
          BY <2>4 DEF Steps, Skip, AtPlugin, Spawn, SpawnFails, Return, Feed, SpawnReaper,
                      SpawnPanics
        <4>2. sent[d] \in 1..MaxEvents
          BY <4>1 DEF SentFirst, TypeOK
        <4> QED
          BY <1>1, <2>4, <4>2 DEF Steps, Skip, Spawn, SpawnFails, Return, Feed, SpawnReaper,
                             SpawnPanics
      <3>2. \A i \in 1..Len(loaded) : <<d, sent[d], loaded[i]>> \in Hooks
        BY <1>2, <3>1 DEF Hooks
      <3>3. pos[d] \in Nat
        BY DEF TypeOK
      <3>4. CASE Skip(d)
        <4>1. /\ at[d] = "next" /\ at'[d] = "next" /\ pos'[d] = pos[d] + 1 /\ hook' = hook
              /\ ~Subscribed(loaded[pos[d]], event[d].name)
          BY <3>4 DEF Skip, AtPlugin, TypeOK, Plugin
        <4>2. /\ \A i \in 1..Len(loaded) : Past(d, i) <=> i < pos[d]
              /\ \A i \in 1..Len(loaded) : Past(d, i)' <=> i < pos[d] \/ i = pos[d]
          BY <3>3, <4>1 DEF Past
        <4>3. Told(d)'
          BY <2>2, <3>1, <3>3, <4>1, <4>2
        <4> QED
          BY <3>1, <4>1, <4>3 DEF AudienceInv, Fresh
      <3>5. ASSUME NEW state \in {"running", "failed"},
                   hook' = [hook EXCEPT ![Current(d)] = state], AtPlugin(d),
                   Subscribed(Plugin(d), event[d].name),
                   \A i \in 1..Len(loaded) : Past(d, i)' <=> i < pos[d] \/ i = pos[d]
            PROVE  Told(d)' /\ Fresh'
        <4>1. /\ pos[d] \in 1..Len(loaded)
              /\ \A i \in 1..Len(loaded) : Past(d, i) <=> i < pos[d]
          BY <1>2, <3>3, <3>5 DEF AtPlugin, Past, TypeOK
        <4>2. \A i \in 1..Len(loaded) :
                hook'[<<d, sent[d], loaded[i]>>] =
                  IF i = pos[d] THEN state ELSE hook[<<d, sent[d], loaded[i]>>]
          BY <3>2, <3>5, <4>1 DEF LoadedOnce, Current, Plugin, TypeOK
        <4>3. \A i \in 1..Len(loaded) : i \in Int
          OBVIOUS
        <4>4. Told(d)'
          BY <2>2, <3>1, <3>3, <3>5, <4>1, <4>2, <4>3 DEF Plugin
        <4>5. Fresh'
          BY <3>1, <3>5 DEF AudienceInv, Fresh, Current, Hooks, TypeOK
        <4> QED
          BY <4>4, <4>5
      <3>6. CASE Spawn(d)
        BY <3>3, <3>5, <3>6 DEF Spawn, AtPlugin, Goto, Past, TypeOK
      <3>7. CASE SpawnFails(d)
        <4>1. pos'[d] = pos[d] + 1 /\ at'[d] = "next"
          BY <3>7 DEF SpawnFails, AtPlugin, TypeOK
        <4>2. \A i \in 1..Len(loaded) : Past(d, i)' <=> i < pos[d] \/ i = pos[d]
          BY <3>3, <4>1 DEF Past
        <4> QED
          BY <3>5, <3>7, <4>2 DEF SpawnFails
      <3>8. CASE Return(d)
        BY <1>2, <2>2, <3>1, <3>3, <3>8 DEF Return, Goto, Past, TypeOK, AudienceInv, Fresh
      <3>9. CASE Feed(d) \/ SpawnPanics(d)
        BY <2>2, <3>1, <3>9 DEF Feed, SpawnPanics, Goto, Past, TypeOK, AudienceInv, Fresh
      <3>10. CASE SpawnReaper(d)
        <4>1. pos'[d] = pos[d] + 1 /\ at'[d] = "next" /\ at[d] = "reap" /\ hook' = hook
          BY <3>10 DEF SpawnReaper, Goto, TypeOK
        <4>2. \A i \in 1..Len(loaded) : Past(d, i)' <=> Past(d, i)
          BY <3>3, <4>1 DEF Past
        <4> QED
          BY <2>2, <3>1, <4>1, <4>2 DEF AudienceInv, Fresh
      <3> QED
        BY <2>4, <3>4, <3>6, <3>7, <3>8, <3>9, <3>10 DEF Steps
    <2> QED
      BY <1>0, <1>3, <2>1, <2>3, <2>4 DEF AudienceInv
  <1>4. ASSUME NEW h \in Hooks, HookEnds(h) \/ Reap(h) PROVE AudienceInv'
    <2>1. /\ UNCHANGED <<loaded, at, sent, event, pos>>
          /\ \A g \in Hooks : hook'[g] = "none" <=> hook[g] = "none"
      BY <1>4 DEF HookEnds, Reap, TypeOK
    <2>2. \A c \in Callers : sent[c] > 0 => \A i \in 1..Len(loaded) :
            <<c, sent[c], loaded[i]>> \in Hooks
      BY <1>2 DEF Hooks, TypeOK
    <2>3. \A c \in Callers : (sent[c] > 0 => Told(c))'
      BY <1>1, <2>1, <2>2 DEF Past
    <2>4. Fresh'
      BY <2>1 DEF AudienceInv, Fresh
    <2> QED
      BY <1>0, <2>3, <2>4 DEF AudienceInv
  <1>5. CASE UNCHANGED vars
    BY <1>5 DEF vars, AudienceInv, Fresh, WholeAudience
  <1> QED
    BY <1>3, <1>4, <1>5 DEF Next

(* A plugin that cannot be started does not keep an event from the others:  *)
(* dispatch logs the error of run_hook and goes on.                         *)
THEOREM EveryoneIsTold == Spec => []WholeAudience
  <1>1. Init => AudienceInv
    BY DEF Init, AudienceInv, Fresh, WholeAudience
  <1>2. AudienceInv => WholeAudience
    BY DEF AudienceInv
  <1> QED
    BY <1>1, <1>2, Basics, AudienceStep, PTL DEF Spec
=============================================================================
