------------------------- MODULE NativeLibraryProofs -------------------------
(***************************************************************************)
(* Proofs about NativeLibrary, for any number of Java threads and models:  *)
(* type correctness, the loop starts with its slots and handlers, and once *)
(* every setLogger call has returned the callback that is set is alive.    *)
(***************************************************************************)
EXTENDS NativeLibrary, TLAPS

USE DEF Loaded

-----------------------------------------------------------------------------
(***************************************************************************)
(* Type correctness.                                                       *)
(***************************************************************************)
States == {"null", "stale", "global", "freed"}

LEMMA RefsLeft ==
  ASSUME ref \in [Refs -> States], NEW r \in GivenUp \cup {MadeGlobal}
  PROVE  r \in [Refs -> States]
<1>1. GlobalClasses \in [Refs -> States] BY DEF GlobalClasses, States
<1>2. MadeGlobal \in [Refs -> States] BY DEF MadeGlobal, States
<1> QED BY <1>1, <1>2 DEF GivenUp, States

LEMMA InitType == Init => TypeOK
<1> SUFFICES ASSUME Init PROVE TypeOK
  OBVIOUS
<1>1. busy \in [Models -> 0 .. MaxPasses] BY PassesAssumption DEF Init
<1>2. ref \in [Refs -> States] BY DEF Init, States
<1>3. /\ arg \in [Users -> SUBSET ({"json", "callback"} \cup Models)]
      /\ attached \subseteq Threads /\ logging \subseteq Threads /\ ctx \subseteq Models
  BY DEF Init, Threads
<1>4. /\ stage = [m \in Models |-> "none"] /\ loop = [m \in Models |-> "none"]
      /\ running = [m \in Models |-> FALSE] /\ tasks = [m \in Models |-> {}]
      /\ upc = [u \in Users |-> "idle"]
  BY DEF Init
<1>5. /\ library \in {"absent", "loaded", "refused", "unloaded", "crashed"}
      /\ ggml_log \in {"stdout", "trampoline"}
      /\ log_json \in BOOLEAN /\ log_callback \in BOOLEAN
  BY DEF Init
<1> QED BY <1>1, <1>2, <1>3, <1>4, <1>5 DEF TypeOK, States

LEMMA LibraryType == TypeOK /\ (JNI_OnLoad \/ JNI_OnUnload) => TypeOK'
<1> SUFFICES ASSUME TypeOK PROVE JNI_OnLoad \/ JNI_OnUnload => TypeOK'
  OBVIOUS
<1>1. ASSUME JNI_OnLoad PROVE TypeOK'
  <2>1. ref' \in [Refs -> States] BY <1>1, RefsLeft DEF JNI_OnLoad, TypeOK, States
  <2> QED BY <1>1, <2>1 DEF JNI_OnLoad, TypeOK, States, logVars, userVars, loopVars
<1>2. ASSUME JNI_OnUnload PROVE TypeOK'
  BY <1>2 DEF JNI_OnUnload, TypeOK, Unnoticed, logVars, userVars, loopVars
<1> QED BY <1>1, <1>2

LEMMA LoggerType ==
  ASSUME TypeOK, NEW u \in Users,
         ReleaseCallback(u) \/ SetFormat(u) \/ InstallCallback(u)
  PROVE  TypeOK'
<1>1. CASE ReleaseCallback(u)
  <2>1. library' \in {"absent", "loaded", "refused", "unloaded", "crashed"}
    BY <1>1 DEF ReleaseCallback, TypeOK, Unnoticed
  <2>2. ref' \in [Refs -> States] BY <1>1 DEF ReleaseCallback, TypeOK, States
  <2>3. arg' \in [Users -> SUBSET ({"json", "callback"} \cup Models)]
    <3>1. PICK given \in SUBSET {"json", "callback"} : arg' = [arg EXCEPT ![u] = given]
      BY <1>1 DEF ReleaseCallback
    <3> QED BY <3>1 DEF TypeOK
  <2> QED BY <1>1, <2>1, <2>2, <2>3 DEF ReleaseCallback, TypeOK, States, Goes, logVars,
                                        loopVars
<1>2. CASE SetFormat(u)
  <2>1. log_json' \in BOOLEAN BY <1>2 DEF SetFormat
  <2>2. log_callback' \in BOOLEAN /\ ggml_log' \in {"stdout", "trampoline"}
    BY <1>2 DEF SetFormat, TypeOK, ResetFunction
  <2>3. \/ upc' = [upc EXCEPT ![u] = "install"]
        \/ upc' = [upc EXCEPT ![u] = "idle"]
    BY <1>2 DEF SetFormat, Goes
  <2> QED BY <1>2, <2>1, <2>2, <2>3 DEF SetFormat, TypeOK, loopVars
<1>3. CASE InstallCallback(u)
  BY <1>3 DEF InstallCallback, TypeOK, Goes, loopVars
<1> QED BY <1>1, <1>2, <1>3

LEMMA MessageType ==
  ASSUME TypeOK, NEW t \in Threads, FindCallback(t) \/ CallJava(t)
  PROVE  TypeOK'
BY DEF FindCallback, CallJava, Unnoticed, TypeOK, logVars, userVars, loopVars

LEMMA ModelType ==
  ASSUME TypeOK, NEW u \in Users, NEW m \in Models, ReadModel(u) \/ OnModel(u, m)
  PROVE  TypeOK'
<1>1. CASE ReadModel(u)
  BY <1>1 DEF ReadModel, TypeOK, Goes, logVars, loopVars
<1>2. CASE NewContext(u, m) \/ LoadModel(u, m) \/ InitSlots(u, m) \/ InstallHandlers(u, m)
  BY <1>2 DEF NewContext, LoadModel, InitSlots, InstallHandlers, AfterInit, Stage, Goes,
              TypeOK, logVars, loopVars
<1>3. CASE StartThread(u, m) \/ SetHandle(u, m) \/ EnterNative(u, m)
  BY <1>3 DEF StartThread, SetHandle, EnterNative, Goes, TypeOK, logVars, loopVars
<1>4. CASE PostRequest(u, m)
  <2>1. tasks' \in [Models -> SUBSET {"request", "next"}] BY <1>4 DEF PostRequest, TypeOK
  <2> QED BY <1>4, <2>1 DEF PostRequest, Goes, TypeOK, logVars
<1>5. CASE Terminate(u, m)
  BY <1>5 DEF Terminate, Goes, TypeOK, logVars
<1>6. CASE Delete(u, m)
  BY <1>6 DEF Delete, Stage, Goes, TypeOK, logVars, loopVars
<1> QED BY <1>1, <1>2, <1>3, <1>4, <1>5, <1>6 DEF OnModel

LEMMA LoopType ==
  ASSUME TypeOK, NEW m \in Models, LoopThread(m) \/ TouchFreed(m)
  PROVE  TypeOK'
<1> USE PassesAssumption
<1>1. CASE AttachLoop(m) \/ SetRunning(m) \/ CheckQueue(m) \/ Wake(m)
  <2>1. CASE AttachLoop(m)
    BY <2>1 DEF AttachLoop, Moves, notLoop, TypeOK, Threads, logVars, userVars
  <2>2. CASE SetRunning(m)
    BY <2>2 DEF SetRunning, Moves, notLoop, TypeOK, logVars, userVars
  <2>3. CASE CheckQueue(m)
    <3>1. \E to \in {"top", "wait", "ended"} : loop' = [loop EXCEPT ![m] = to]
      BY <2>3 DEF CheckQueue, Moves
    <3> QED BY <2>3, <3>1 DEF CheckQueue, notLoop, TypeOK, logVars, userVars
  <2>4. CASE Wake(m)
    BY <2>4 DEF Wake, Moves, notLoop, TypeOK, logVars, userVars
  <2> QED BY <1>1, <2>1, <2>2, <2>3, <2>4
<1>2. CASE TakeTasks(m)
  <2>1. PICK n \in busy[m] .. MaxPasses \cup {busy[m]} : busy' = [busy EXCEPT ![m] = n]
    BY <1>2 DEF TakeTasks
  <2>2. n \in 0 .. MaxPasses BY <2>1 DEF TypeOK
  <2>3. busy' \in [Models -> 0 .. MaxPasses] BY <2>1, <2>2 DEF TypeOK
  <2> QED BY <1>2, <2>3 DEF TakeTasks, Moves, notLoop, TypeOK, logVars, userVars
<1>3. CASE Pass(m)
  <2>1. busy' \in [Models -> 0 .. MaxPasses] BY <1>3 DEF Pass, AllIdle, TypeOK
  <2>2. tasks' \in [Models -> SUBSET {"request", "next"}] BY <1>3 DEF Pass, TypeOK
  <2> QED BY <1>3, <2>1, <2>2 DEF Pass, Moves, notLoop, TypeOK, logVars, userVars
<1>4. CASE CallJava(m) BY <1>4, MessageType DEF Threads
<1>5. CASE TouchFreed(m)
  BY <1>5 DEF TouchFreed, notLoop, TypeOK, logVars, userVars, loopVars
<1> QED BY <1>1, <1>2, <1>3, <1>4, <1>5 DEF LoopThread

LEMMA NextType == TypeOK /\ [Next]_vars => TypeOK'
<1> SUFFICES ASSUME TypeOK, [Next]_vars PROVE TypeOK'
  OBVIOUS
<1>1. CASE JNI_OnLoad \/ JNI_OnUnload BY <1>1, LibraryType
<1>2. ASSUME NEW u \in Users, User(u) PROVE TypeOK'
  <2>1. CASE ReleaseCallback(u) \/ SetFormat(u) \/ InstallCallback(u) BY <2>1, LoggerType
  <2>2. CASE FindCallback(u) \/ CallJava(u) BY <2>2, MessageType DEF Threads
  <2>3. CASE ReadModel(u)
    BY <2>3 DEF ReadModel, TypeOK, Goes, logVars, loopVars
  <2>4. CASE \E m \in Models : OnModel(u, m) BY <2>4, ModelType
  <2> QED BY <1>2, <2>1, <2>2, <2>3, <2>4 DEF User
<1>3. ASSUME NEW m \in Models, LoopThread(m) \/ FindCallback(m) \/ TouchFreed(m)
      PROVE  TypeOK'
  BY <1>3, LoopType, MessageType DEF Threads
<1>4. CASE UNCHANGED vars
  BY <1>4 DEF vars, TypeOK, logVars, userVars, loopVars
<1> QED BY <1>1, <1>2, <1>3, <1>4 DEF Next

\* Every variable keeps its type, for any number of Java threads and models.
THEOREM TypeCorrect == Spec => []TypeOK
<1> QED BY InitType, NextType, PTL DEF Spec

-----------------------------------------------------------------------------
(***************************************************************************)
(* How far a loading thread is, and what that says of its model.           *)
(***************************************************************************)
Steps == {"load", "init", "handlers", "thread", "handle"}

Reached(at) == CASE at = "load" -> "new" [] at = "init" -> "model"
                 [] at = "handlers" -> "slots" [] OTHER -> "ready"

Loads(u, m) == upc[u] \in Steps /\ arg[u] = {m}

StartedInv ==
  \A m \in Models : loop[m] # "none" \/ m \in ctx => stage[m] \in {"ready", "freed"}
LoadersInv ==
  \A u \in Users, m \in Models :
     Loads(u, m) => /\ stage[m] = Reached(upc[u]) /\ m \notin ctx
                    /\ upc[u] # "handle" => loop[m] = "none"
OneLoader == \A m \in Models : \A u, v \in Users : Loads(u, m) /\ Loads(v, m) => u = v
ClosersInv == \A u \in Users, m \in Models : upc[u] = "delete" /\ arg[u] = {m} => m \in ctx
StartInv == StartedInv /\ LoadersInv /\ OneLoader /\ ClosersInv

LEMMA StartInitial == Init => StartInv
BY DEF Init, StartInv, StartedInv, LoadersInv, OneLoader, ClosersInv, Loads, Steps

\* What a loading thread knows.
LEMMA LoaderKnows ==
  ASSUME StartInv, NEW u \in Users, NEW m \in Models, Loads(u, m)
  PROVE  /\ stage[m] = Reached(upc[u]) /\ m \notin ctx
         /\ upc[u] # "handle" => loop[m] = "none"
         /\ \A v \in Users \ {u} : ~Loads(v, m)
         /\ \A v \in Users : ~(upc[v] = "delete" /\ arg[v] = {m})
BY DEF StartInv, LoadersInv, OneLoader, ClosersInv

\* A step of user u on model m leaves the other users and the other models as
\* they were; it keeps the invariant if it does so for u and m.
LEMMA StartStep ==
  ASSUME StartInv, NEW u \in Users, NEW m \in Models,
         \A v \in Users \ {u} : upc'[v] = upc[v] /\ arg'[v] = arg[v],
         \A n \in Models \ {m} : /\ stage'[n] = stage[n] /\ loop'[n] = loop[n]
                                 /\ n \in ctx' <=> n \in ctx,
         \A n \in Models \ {m} : /\ ~Loads(u, n)'
                                 /\ ~(upc'[u] = "delete" /\ arg'[u] = {n}),
         loop'[m] # "none" \/ m \in ctx' => stage'[m] \in {"ready", "freed"},
         Loads(u, m)' => /\ stage'[m] = Reached(upc'[u]) /\ m \notin ctx'
                         /\ upc'[u] # "handle" => loop'[m] = "none",
         upc'[u] = "delete" /\ arg'[u] = {m} => m \in ctx',
         \/ /\ UNCHANGED <<stage, loop, ctx>> /\ ~Loads(u, m)'
         \/ \A v \in Users \ {u} : /\ ~Loads(v, m)
                                   /\ upc[v] = "delete" /\ arg[v] = {m} => m \in ctx'
  PROVE  StartInv'
<1>1. \A v \in Users \ {u}, n \in Models : Loads(v, n)' <=> Loads(v, n) BY DEF Loads
<1>2. StartedInv' BY DEF StartInv, StartedInv
<1>3. LoadersInv'
  <2> SUFFICES ASSUME NEW v \in Users, NEW n \in Models, Loads(v, n)'
               PROVE  /\ stage'[n] = Reached(upc'[v]) /\ n \notin ctx'
                      /\ upc'[v] # "handle" => loop'[n] = "none"
    BY DEF LoadersInv, Reached
  <2>1. CASE v = u BY <2>1
  <2>2. CASE v # u
    <3>1. Loads(v, n) /\ upc'[v] = upc[v] BY <1>1, <2>2
    <3>2. /\ stage[n] = Reached(upc[v]) /\ n \notin ctx
          /\ upc[v] # "handle" => loop[n] = "none"
      BY <3>1 DEF StartInv, LoadersInv
    <3>3. stage'[n] = stage[n] /\ loop'[n] = loop[n] /\ (n \in ctx' <=> n \in ctx)
      BY <2>2, <3>1
    <3> QED BY <3>1, <3>2, <3>3
  <2> QED BY <2>1, <2>2
<1>4. OneLoader' BY <1>1 DEF StartInv, OneLoader
<1>5. ClosersInv'
  <2> SUFFICES ASSUME NEW v \in Users, NEW n \in Models, upc'[v] = "delete", arg'[v] = {n}
               PROVE  n \in ctx'
    BY DEF ClosersInv
  <2>1. CASE v = u BY <2>1
  <2>2. CASE v # u
    <3>1. upc[v] = "delete" /\ arg[v] = {n} /\ n \in ctx
      BY <2>2 DEF StartInv, ClosersInv
    <3> QED BY <2>2, <3>1
  <2> QED BY <2>1, <2>2
<1> QED BY <1>2, <1>3, <1>4, <1>5 DEF StartInv

\* A thread that is neither loading nor closing afterwards disturbs nothing.
LEMMA StartOther ==
  ASSUME StartInv, NEW u \in Users, UNCHANGED <<stage, ctx, loop>>,
         upc'[u] \notin Steps, upc'[u] # "delete",
         \A v \in Users \ {u} : upc'[v] = upc[v] /\ arg'[v] = arg[v]
  PROVE  StartInv'
<1>1. \A m \in Models : ~Loads(u, m)' BY DEF Loads
<1> QED BY <1>1, StartStep DEF StartInv, StartedInv, LoadersInv, OneLoader, ClosersInv, Loads

LEMMA StartModel ==
  ASSUME TypeOK, StartInv, NEW u \in Users, NEW m \in Models, OnModel(u, m)
  PROVE  StartInv'
<1>1. \A n \in Models : {n} = {m} => n = m OBVIOUS
<1>2. ASSUME arg'[u] = {m} PROVE \A n \in Models \ {m} : ~Loads(u, n)' /\ arg'[u] # {n}
  BY <1>1, <1>2 DEF Loads
<1>3. CASE NewContext(u, m)
  <2>1. /\ loop[m] = "none" /\ m \notin ctx
        /\ \A v \in Users : ~Loads(v, m) /\ ~(upc[v] = "delete" /\ arg[v] = {m})
    BY <1>3 DEF NewContext, StartInv, StartedInv, LoadersInv, ClosersInv, Loads, Steps, Reached
  <2>2. /\ \A v \in Users \ {u} : upc'[v] = upc[v] /\ arg'[v] = arg[v]
        /\ \A n \in Models \ {m} : stage'[n] = stage[n]
        /\ UNCHANGED <<loop, ctx>>
        /\ arg'[u] = {m} /\ upc'[u] = "load" /\ stage'[m] = "new"
    BY <1>3 DEF NewContext, TypeOK, Stage, Goes, loopVars
  <2> QED BY <1>2, <2>1, <2>2, StartStep DEF Reached
<1>4. CASE \/ LoadModel(u, m) \/ InitSlots(u, m) \/ InstallHandlers(u, m)
           \/ StartThread(u, m) \/ SetHandle(u, m)
  <2>1. Loads(u, m)
    BY <1>4 DEF LoadModel, InitSlots, InstallHandlers, StartThread, SetHandle, Loading,
                Loads, Steps
  <2>2. /\ \A v \in Users \ {u} : upc'[v] = upc[v] /\ arg'[v] = arg[v]
        /\ arg'[u] = {m}
    BY <1>4 DEF LoadModel, InitSlots, InstallHandlers, StartThread, SetHandle, Loading,
                Goes, TypeOK
  <2>3. CASE LoadModel(u, m) \/ InitSlots(u, m) \/ InstallHandlers(u, m)
    <3>1. /\ \A n \in Models \ {m} : stage'[n] = stage[n]
          /\ UNCHANGED <<loop, ctx>> /\ upc[u] # "handle"
          /\ \/ upc'[u] = "idle"
             \/ upc'[u] = "init" /\ stage'[m] = "model"
             \/ upc'[u] = "handlers" /\ stage'[m] = "slots"
             \/ upc'[u] = "thread" /\ stage'[m] = "ready"
      BY <2>3 DEF LoadModel, InitSlots, InstallHandlers, AfterInit, Loading, Stage, Goes,
                  TypeOK, loopVars
    <3>2. loop[m] = "none" /\ m \notin ctx BY <2>1, <3>1, LoaderKnows
    <3>3. Loads(u, m)' => stage'[m] = Reached(upc'[u])
      BY <3>1 DEF Loads, Steps, Reached
    <3> QED BY <1>2, <2>1, <2>2, <3>1, <3>2, <3>3, LoaderKnows, StartStep
  <2>4. CASE StartThread(u, m)
    <3>1. /\ \A n \in Models \ {m} : loop'[n] = loop[n]
          /\ UNCHANGED <<stage, ctx>> /\ upc[u] = "thread" /\ upc'[u] = "handle"
      BY <2>4 DEF StartThread, Loading, Goes, TypeOK
    <3>2. stage[m] = "ready" /\ m \notin ctx BY <2>1, <3>1, LoaderKnows DEF Reached
    <3> QED BY <1>2, <2>1, <2>2, <3>1, <3>2, LoaderKnows, StartStep DEF Reached
  <2>5. CASE SetHandle(u, m)
    <3>1. /\ UNCHANGED <<stage, loop>> /\ upc[u] = "handle" /\ upc'[u] = "idle"
          /\ ctx' = ctx \cup {m}
      BY <2>5 DEF SetHandle, Loading, Goes, TypeOK, loopVars
    <3>2. stage[m] = "ready" BY <2>1, <3>1, LoaderKnows DEF Reached
    <3>3. ~Loads(u, m)' BY <3>1 DEF Loads, Steps
    <3> QED BY <1>2, <2>1, <2>2, <3>1, <3>2, <3>3, LoaderKnows, StartStep
  <2> QED BY <1>4, <2>3, <2>4, <2>5
<1>5. CASE EnterNative(u, m) \/ PostRequest(u, m)
  <2>1. /\ UNCHANGED <<stage, ctx, loop>> /\ upc'[u] \in {"native", "idle"}
        /\ \A v \in Users \ {u} : upc'[v] = upc[v] /\ arg'[v] = arg[v]
    BY <1>5 DEF EnterNative, PostRequest, TypeOK, Goes, loopVars
  <2> QED BY <2>1, StartOther DEF Steps
<1>6. CASE Terminate(u, m)
  <2>1. /\ m \in ctx /\ UNCHANGED <<stage, ctx, loop>>
        /\ arg'[u] = {m} /\ upc'[u] = "delete"
        /\ \A v \in Users \ {u} : upc'[v] = upc[v] /\ arg'[v] = arg[v]
    BY <1>6 DEF Terminate, TypeOK, Goes
  <2>2. ~Loads(u, m)' BY <2>1 DEF Loads, Steps
  <2>3. stage[m] \in {"ready", "freed"} BY <2>1 DEF StartInv, StartedInv
  <2> QED BY <1>2, <2>1, <2>2, <2>3, StartStep
<1>7. CASE Delete(u, m)
  <2>1. /\ UNCHANGED <<ctx, loop>> /\ stage'[m] = "freed" /\ upc'[u] = "idle"
        /\ arg'[u] = {m} /\ upc[u] = "delete" /\ arg[u] = {m}
        /\ \A n \in Models \ {m} : stage'[n] = stage[n]
        /\ \A v \in Users \ {u} : upc'[v] = upc[v] /\ arg'[v] = arg[v]
    BY <1>7 DEF Delete, TypeOK, Stage, Goes, loopVars
  <2>2. m \in ctx BY <2>1 DEF StartInv, ClosersInv
  <2>3. \A v \in Users : ~Loads(v, m) BY <2>2, LoaderKnows
  <2>4. ~Loads(u, m)' BY <2>1 DEF Loads, Steps
  <2> QED BY <1>2, <2>1, <2>2, <2>3, <2>4, StartStep
<1> QED BY <1>3, <1>4, <1>5, <1>6, <1>7 DEF OnModel

LEMMA StartNext == TypeOK /\ StartInv /\ [Next]_vars => StartInv'
<1> SUFFICES ASSUME TypeOK, StartInv, [Next]_vars PROVE StartInv'
  OBVIOUS
<1>1. CASE UNCHANGED <<userVars, stage, ctx, loop>>
  BY <1>1 DEF userVars, StartInv, StartedInv, LoadersInv, OneLoader, ClosersInv, Loads
<1>2. ASSUME NEW u \in Users,
             ReleaseCallback(u) \/ SetFormat(u) \/ InstallCallback(u) \/ ReadModel(u)
      PROVE  StartInv'
  <2>1. /\ UNCHANGED <<stage, ctx, loop>>
        /\ upc'[u] \in {"format", "install", "idle"}
        /\ \A v \in Users \ {u} : upc'[v] = upc[v] /\ arg'[v] = arg[v]
    BY <1>2 DEF ReleaseCallback, SetFormat, InstallCallback, ReadModel, Goes, TypeOK, loopVars
  <2> QED BY <2>1, StartOther DEF Steps
<1>3. ASSUME NEW m \in Models, LoopThread(m), loop' # loop PROVE StartInv'
  <2>1. /\ UNCHANGED <<upc, arg, stage, ctx>> /\ loop[m] # "none"
        /\ \A n \in Models \ {m} : loop'[n] = loop[n]
    BY <1>3 DEF LoopThread, AttachLoop, SetRunning, TakeTasks, Pass, CheckQueue, Wake,
                CallJava, At, Moves, notLoop, userVars, loopVars, TypeOK
  <2>2. \A u \in Users, n \in Models : Loads(u, n)' <=> Loads(u, n) BY <2>1 DEF Loads
  <2> QED BY <2>1, <2>2 DEF StartInv, StartedInv, LoadersInv, OneLoader, ClosersInv
<1>4. ASSUME NEW m \in Models, LoopThread(m) \/ FindCallback(m) \/ TouchFreed(m)
      PROVE  UNCHANGED <<userVars, stage, ctx>>
  BY <1>4 DEF LoopThread, AttachLoop, SetRunning, TakeTasks, Pass, CheckQueue, Wake,
              CallJava, FindCallback, TouchFreed, notLoop, userVars
<1>5. ASSUME NEW m \in Models, FindCallback(m) \/ TouchFreed(m) PROVE UNCHANGED loop
  BY <1>5 DEF FindCallback, TouchFreed, loopVars
<1>6. ASSUME NEW u \in Users, User(u) PROVE StartInv'
  <2>1. CASE FindCallback(u) \/ CallJava(u)
    BY <1>1, <2>1 DEF FindCallback, CallJava, loopVars
  <2> QED BY <1>2, <1>6, <2>1, StartModel DEF User
<1>7. CASE JNI_OnLoad \/ JNI_OnUnload \/ UNCHANGED vars
  BY <1>1, <1>7 DEF JNI_OnLoad, JNI_OnUnload, vars, loopVars
<1> QED BY <1>1, <1>3, <1>4, <1>5, <1>6, <1>7 DEF Next

LEMMA StartBefore == StartInv => HandlersBeforeLoop
BY DEF StartInv, StartedInv, HandlersBeforeLoop

\* A loop thread runs only for a model whose slots are initialised and whose
\* four callbacks are installed.
THEOREM HandlersBeforeLoopAlways == Spec => []HandlersBeforeLoop
<1>1. Init => TypeOK /\ StartInv BY InitType, StartInitial
<1>2. TypeOK /\ StartInv /\ [Next]_vars => (TypeOK /\ StartInv)' BY NextType, StartNext
<1> QED BY <1>1, <1>2, StartBefore, PTL DEF Spec

-----------------------------------------------------------------------------
(***************************************************************************)
(* Who sets the logger, and who may be on the way to calling it.           *)
(***************************************************************************)
AttachedInv ==
  /\ Users \subseteq attached
  /\ \A m \in Models : loop[m] \notin {"none", "created"} => m \in attached
  /\ \A t \in logging : MayLog(t)

\* Whoever released the reference last is still in setLogger.
SettledInv ==
  /\ library = "absent" => ~log_callback
  /\ Loaded /\ log_callback /\ ref[Callback] # "global" => \E u \in Users : Setting(u)

LEMMA AttachedInitial == Init => AttachedInv
BY DEF Init, AttachedInv

\* A user that moves is not on its way to Java, and no loop thread moves but
\* one that is just made.
LEMMA AttachedUser ==
  ASSUME AttachedInv, NEW u \in Users, u \notin logging, logging \subseteq Threads,
         attached' = attached, logging' = logging,
         \A v \in Users \ {u} : upc'[v] = upc[v],
         \A m \in Models : loop'[m] = loop[m] \/ (loop[m] = "none" /\ loop'[m] = "created")
  PROVE  AttachedInv'
<1>1. \A t \in logging : MayLog(t)' BY DEF AttachedInv, MayLog, Threads
<1> QED BY <1>1 DEF AttachedInv

LEMMA AttachedNext == TypeOK /\ StartInv /\ AttachedInv /\ [Next]_vars => AttachedInv'
<1> SUFFICES ASSUME TypeOK, StartInv, AttachedInv, [Next]_vars PROVE AttachedInv'
  OBVIOUS
<1>0. logging \subseteq Threads BY DEF TypeOK
<1>1. CASE UNCHANGED <<upc, attached, logging, loop>> BY <1>1 DEF AttachedInv, MayLog
<1>2. ASSUME NEW u \in Users, ~(u \in logging /\ MayLog(u)) PROVE u \notin logging
  BY <1>2 DEF AttachedInv
<1>3. ASSUME NEW u \in Users,
             ReleaseCallback(u) \/ SetFormat(u) \/ InstallCallback(u) \/ ReadModel(u)
      PROVE  AttachedInv'
  <2>1. ~MayLog(u)
    BY <1>3 DEF ReleaseCallback, SetFormat, InstallCallback, ReadModel, Idle, MayLog
  <2>2. /\ UNCHANGED <<attached, logging, loop>>
        /\ \A v \in Users \ {u} : upc'[v] = upc[v]
    BY <1>3 DEF ReleaseCallback, SetFormat, InstallCallback, ReadModel, Goes, TypeOK, loopVars
  <2>3. u \notin logging BY <1>2, <2>1
  <2> QED BY <1>0, <2>2, <2>3, AttachedUser
<1>4. ASSUME NEW t \in Threads, FindCallback(t) \/ CallJava(t) PROVE AttachedInv'
  BY <1>4 DEF FindCallback, CallJava, AttachedInv, MayLog, userVars, loopVars
<1>5. ASSUME NEW u \in Users, NEW m \in Models, OnModel(u, m) PROVE AttachedInv'
  <2>1. u \notin logging
    BY <1>2, <1>5 DEF OnModel, NewContext, LoadModel, InitSlots, InstallHandlers, StartThread,
                      SetHandle, EnterNative, PostRequest, Terminate, Delete, Loading, Idle,
                      MayLog
  <2>2. /\ UNCHANGED <<attached, logging>> /\ \A v \in Users \ {u} : upc'[v] = upc[v]
    BY <1>5 DEF OnModel, NewContext, LoadModel, InitSlots, InstallHandlers, StartThread,
                SetHandle, EnterNative, PostRequest, Terminate, Delete, Goes, TypeOK
  <2>3. CASE StartThread(u, m)
    <3>1. Loads(u, m) /\ upc[u] = "thread"
      BY <2>3 DEF StartThread, Loading, Loads, Steps
    <3>2. loop[m] = "none" BY <3>1, LoaderKnows
    <3>3. \A n \in Models : \/ loop'[n] = loop[n]
                            \/ loop[n] = "none" /\ loop'[n] = "created"
      BY <2>3, <3>2 DEF StartThread, TypeOK
    <3> QED BY <1>0, <2>1, <2>2, <3>3, AttachedUser
  <2>4. CASE ~StartThread(u, m)
    <3>1. UNCHANGED loop
      BY <1>5, <2>4 DEF OnModel, NewContext, LoadModel, InitSlots, InstallHandlers, SetHandle,
                        EnterNative, PostRequest, Terminate, Delete, loopVars
    <3> QED BY <1>0, <2>1, <2>2, <3>1, AttachedUser
  <2> QED BY <2>3, <2>4
<1>6. ASSUME NEW m \in Models, LoopThread(m) \/ TouchFreed(m), ~CallJava(m), loop' # loop
      PROVE  AttachedInv'
  <2>1. /\ m \notin logging /\ UNCHANGED <<upc, logging>> /\ attached \subseteq attached'
        /\ \A n \in Models \ {m} : loop'[n] = loop[n]
        /\ m \in attached'
    BY <1>6 DEF LoopThread, AttachLoop, SetRunning, TakeTasks, Pass, CheckQueue, Wake, At,
                Moves, TouchFreed, notLoop, userVars, loopVars, TypeOK, AttachedInv
  <2>2. \A t \in logging : MayLog(t)' BY <1>0, <2>1 DEF AttachedInv, MayLog, Threads
  <2> QED BY <2>1, <2>2 DEF AttachedInv
<1>7. ASSUME NEW m \in Models, LoopThread(m) \/ TouchFreed(m), ~CallJava(m), loop' = loop
      PROVE  AttachedInv'
  <2>1. UNCHANGED <<upc, logging>> /\ attached \subseteq attached'
    BY <1>7 DEF LoopThread, AttachLoop, SetRunning, TakeTasks, Pass, CheckQueue, Wake,
                TouchFreed, notLoop, userVars
  <2> QED BY <1>7, <2>1 DEF AttachedInv, MayLog
<1>8. CASE JNI_OnLoad \/ JNI_OnUnload \/ UNCHANGED vars
  BY <1>1, <1>8 DEF JNI_OnLoad, JNI_OnUnload, vars, userVars, loopVars
<1> QED BY <1>3, <1>4, <1>5, <1>6, <1>7, <1>8 DEF Next, User, Threads

LEMMA SettledInitial == Init => SettledInv
BY DEF Init, SettledInv

\* A step that leaves the callback and the threads in setLogger alone.
LEMMA SettledKept ==
  ASSUME SettledInv, Loaded, ref' = ref, log_callback' = log_callback,
         library' # "absent", \A u \in Users : Setting(u) => Setting(u)'
  PROVE  SettledInv'
BY DEF SettledInv

\* The steps of setLogger, of any number of threads at once.
LEMMA SettledSets ==
  ASSUME TypeOK, SettledInv, NEW u \in Users,
         ReleaseCallback(u) \/ SetFormat(u) \/ InstallCallback(u)
  PROVE  SettledInv'
<1>1. library' # "absent"
  BY DEF ReleaseCallback, SetFormat, InstallCallback, Idle, Unnoticed
<1>2. CASE ReleaseCallback(u)
  <2>1. Setting(u)' BY <1>2 DEF ReleaseCallback, Setting, Goes, TypeOK
  <2> QED BY <1>1, <2>1 DEF SettledInv
<1>3. CASE SetFormat(u)
  <2>1. Setting(u)' \/ ~log_callback'
    BY <1>3 DEF SetFormat, Setting, Goes, ResetFunction, TypeOK
  <2> QED BY <1>1, <2>1 DEF SettledInv
<1>4. CASE InstallCallback(u)
  <2>1. ref'[Callback] = "global" BY <1>4 DEF InstallCallback, TypeOK, Refs
  <2> QED BY <1>1, <2>1 DEF SettledInv
<1> QED BY <1>2, <1>3, <1>4

LEMMA SettledNext == TypeOK /\ SettledInv /\ [Next]_vars => SettledInv'
<1> SUFFICES ASSUME TypeOK, SettledInv, [Next]_vars PROVE SettledInv'
  OBVIOUS
<1>1. CASE JNI_OnLoad BY <1>1 DEF JNI_OnLoad, SettledInv, logVars
<1>2. CASE JNI_OnUnload BY <1>2 DEF JNI_OnUnload, SettledInv, Unnoticed
<1>3. ASSUME NEW t \in Threads, FindCallback(t) \/ CallJava(t) PROVE SettledInv'
  BY <1>3, SettledKept DEF FindCallback, CallJava, Unnoticed, logVars, userVars, Setting
<1>4. ASSUME NEW u \in Users, NEW m \in Models, OnModel(u, m)
      PROVE  SettledInv'
  <2>1. /\ ~Setting(u)
        /\ \A v \in Users \ {u} : upc'[v] = upc[v]
        /\ Loaded /\ UNCHANGED <<library, ref, log_callback>>
    BY <1>4 DEF OnModel, NewContext, LoadModel, InitSlots, InstallHandlers,
                StartThread, SetHandle, EnterNative, PostRequest, Terminate, Delete, Idle,
                Loading, Goes, Setting, TypeOK, logVars
  <2>2. \A v \in Users : Setting(v) => Setting(v)' BY <2>1 DEF Setting
  <2> QED BY <2>1, <2>2, SettledKept
<1>5. ASSUME NEW m \in Models, LoopThread(m) \/ TouchFreed(m), ~CallJava(m)
      PROVE  SettledInv'
  <2>1. Loaded /\ library' # "absent" /\ UNCHANGED <<ref, log_callback, upc>>
    BY <1>5 DEF LoopThread, AttachLoop, SetRunning, TakeTasks, Pass, CheckQueue, Wake, At,
                TouchFreed, notLoop, logVars, userVars
  <2> QED BY <2>1, SettledKept DEF Setting
<1>6. CASE UNCHANGED vars BY <1>6 DEF vars, logVars, userVars, SettledInv, Setting
<1>7. ASSUME NEW u \in Users, ReadModel(u) PROVE SettledInv'
  <2>1. /\ ~Setting(u)
        /\ \A v \in Users \ {u} : upc'[v] = upc[v]
        /\ Loaded /\ UNCHANGED <<library, ref, log_callback>>
    BY <1>7 DEF ReadModel, Goes, Setting, TypeOK, logVars
  <2>2. \A v \in Users : Setting(v) => Setting(v)' BY <2>1 DEF Setting
  <2> QED BY <2>1, <2>2, SettledKept
<1> QED BY <1>1, <1>2, <1>3, <1>4, <1>5, <1>6, <1>7, SettledSets DEF Next, User, Threads

LEMMA SettledHolds == TypeOK /\ AttachedInv /\ SettledInv => CallbackSettled
<1> SUFFICES ASSUME TypeOK, AttachedInv, SettledInv, NEW t \in logging PROVE t \in attached
  BY DEF CallbackSettled, SettledInv
<1>1. t \in Threads /\ MayLog(t) BY DEF TypeOK, AttachedInv
<1> QED BY <1>1 DEF AttachedInv, MayLog, Threads

\* Once every setLogger call has returned, a callback that is set uses a live
\* reference, and every thread on its way to it is attached, for any number of
\* threads that set loggers at any time.
THEOREM CallbackSettledAlways == Spec => []CallbackSettled
<1> DEFINE Inv == TypeOK /\ StartInv /\ AttachedInv /\ SettledInv
<1>1. Init => Inv BY InitType, StartInitial, AttachedInitial, SettledInitial
<1>2. Inv /\ [Next]_vars => Inv' BY NextType, StartNext, AttachedNext, SettledNext
<1>3. Inv => CallbackSettled BY SettledHolds
<1> HIDE DEF Inv
<1> QED BY <1>1, <1>2, <1>3, PTL DEF Spec
=============================================================================
