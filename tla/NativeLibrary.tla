--------------------------- MODULE NativeLibrary ---------------------------
(***************************************************************************)
(* The life of the native library and of the models it loads: JNI_OnLoad   *)
(* and JNI_OnUnload with the references to Java classes and objects, the   *)
(* logger that Java threads set and every thread calls, loadModel with the *)
(* detached loop thread it starts, and close() with terminate and delete.  *)
(*                                                                         *)
(* A model's tasks are LlamaServer's subject; here its queue only holds    *)
(* requests and the loop's own NEXT_RESPONSE.  Using freed memory or a     *)
(* freed reference either goes unnoticed or ends the process.              *)
(***************************************************************************)
EXTENDS Naturals, FiniteSets

CONSTANTS
  Users,          \* Java threads
  Models,         \* LlamaModel objects; each names its loop thread as well
  MaxPasses       \* bound: passes until a request's slot is idle again

Threads == Users \cup Models

ASSUME ThreadsAssumption == Users \cap Models = {}
ASSUME PassesAssumption  == MaxPasses \in Nat

Classes == {"c_llama_model", "c_llama_iterator", "c_standard_charsets", "c_output",
            "c_string", "c_hash_map", "c_map", "c_set", "c_entry", "c_iterator",
            "c_integer", "c_float", "c_biconsumer", "c_llama_error",
            "c_log_level", "c_log_format", "c_error_oom"}
Objects == {"o_utf_8", "o_log_level_debug", "o_log_level_info",
            "o_log_level_warn", "o_log_level_error",
            "o_log_format_json", "o_log_format_text"}
Callback == "o_log_callback"
Refs == Classes \cup Objects \cup {Callback}

\* c_standard_charsets is used in JNI_OnLoad only and stays a local reference.
Kept == (Classes \ {"c_standard_charsets"}) \cup Objects

VARIABLES
  library,       \* absent, loaded, refused, unloaded, or crashed (the process)
  ref,           \* the state of every reference
  log_json,      \* FALSE from static initialisation
  log_callback,  \* is the std::function set?
  ggml_log,      \* where GGML's messages go: stdout or log_callback_trampoline
  upc, arg,      \* where a Java thread is, and with which model or logger
  attached,      \* threads attached to the JVM
  logging,       \* threads in server_log that found log_callback set
  stage,         \* of each server_context
  ctx,           \* models whose field ctx is set
  loop,          \* where each loop thread is
  running,       \* server_queue::running
  tasks,         \* what is in each queue_tasks
  busy           \* passes until all slots are idle

logVars  == <<log_json, log_callback, ggml_log>>
userVars == <<upc, arg>>
loopVars == <<loop, running, tasks, busy>>
vars == <<library, ref, logVars, userVars, attached, logging, stage, ctx, loopVars>>

Loaded == library = "loaded"

Init ==
  /\ library = "absent"
  /\ ref = [r \in Refs |-> "null"]
  /\ log_json = FALSE /\ log_callback = FALSE /\ ggml_log = "stdout"
  /\ upc = [u \in Users |-> "idle"] /\ arg = [u \in Users |-> {}]
  /\ attached = Users /\ logging = {}
  /\ stage = [m \in Models |-> "none"] /\ ctx = {}
  /\ loop = [m \in Models |-> "none"]
  /\ running = [m \in Models |-> FALSE]     \* uninitialized; start_loop sets it
  /\ tasks = [m \in Models |-> {}] /\ busy = [m \in Models |-> 0]

\* What deleting a reference twice or using a freed one may come to.
Unnoticed(lib) == {lib, "crashed"}

-----------------------------------------------------------------------------
(***************************************************************************)
(* The references.                                                         *)
(***************************************************************************)
GlobalClasses == [r \in Refs |-> IF r \in Kept \cap Classes THEN "global"
                                 ELSE IF r \in Classes THEN "stale" ELSE "null"]

\* Local references are gone when JNI_OnLoad returns.
MadeGlobal == [r \in Refs |-> IF r \in Kept THEN "global"
                              ELSE IF r = Callback THEN "null" ELSE "stale"]

\* What JNI_OnLoad leaves when it gives up: before the classes are made
\* global, at the constructors, methods or fields, or at the objects.
GivenUp == {ref,
            [r \in Refs |-> IF r \in Classes THEN "stale" ELSE "null"],
            GlobalClasses,
            [r \in Refs |-> IF r \in Objects THEN "stale" ELSE GlobalClasses[r]]}

JNI_OnLoad ==
  /\ library = "absent"
  /\ \/ library' = "refused" /\ ref' \in GivenUp \cup {MadeGlobal}
     \/ library' = "loaded"  /\ ref' = MadeGlobal
  /\ UNCHANGED <<logVars, userVars, attached, logging, stage, ctx, loopVars>>

\* c_log_level is deleted twice, c_log_format never.
Deleted == (Kept \ {"c_log_format"})
             \cup (IF ref[Callback] = "null" THEN {} ELSE {Callback})

\* Native calls keep the library, models that nobody closed do not.
JNI_OnUnload ==
  /\ Loaded
  /\ \A u \in Users : upc[u] = "idle"
  /\ library' \in Unnoticed("unloaded")
  /\ ref' = [r \in Refs |-> IF r \in Deleted THEN "freed" ELSE ref[r]]
  /\ UNCHANGED <<logVars, userVars, attached, logging, stage, ctx, loopVars>>

-----------------------------------------------------------------------------
(***************************************************************************)
(* setLogger, at any time and in the steps another thread can see, and the *)
(* messages.                                                               *)
(***************************************************************************)
Goes(u, to) == upc' = [upc EXCEPT ![u] = to]
Idle(u) == Loaded /\ upc[u] = "idle"
Open(m) == stage[m] \notin {"none", "failed", "freed"}

\* The old callback is deleted; setLogger(null) leaves the deleted one behind.
ReleaseCallback(u) ==
  /\ Idle(u)
  /\ \E given \in SUBSET {"json", "callback"} : arg' = [arg EXCEPT ![u] = given]
  /\ library' \in IF ref[Callback] = "freed" THEN Unnoticed(library) ELSE {library}
  /\ ref' = [ref EXCEPT ![Callback] = IF @ = "null" THEN @ ELSE "freed"]
  /\ Goes(u, "format")
  /\ UNCHANGED <<logVars, attached, logging, stage, ctx, loopVars>>

KeepFunction  == log_callback    \* mutant: the function outlives its reference
ResetFunction == FALSE

SetFormat(u) ==
  /\ Loaded /\ upc[u] = "format"
  /\ log_json' = ("json" \in arg[u])
  /\ IF "callback" \in arg[u]
     THEN Goes(u, "install") /\ UNCHANGED <<log_callback, ggml_log>>
     ELSE Goes(u, "idle") /\ log_callback' = ResetFunction /\ ggml_log' = "stdout"
  /\ UNCHANGED <<library, ref, arg, attached, logging, stage, ctx, loopVars>>

InstallCallback(u) ==
  /\ Loaded /\ upc[u] = "install"
  /\ ref' = [ref EXCEPT ![Callback] = "global"]
  /\ log_callback' = TRUE
  /\ ggml_log' = IF log_json THEN ggml_log ELSE "trampoline"
  /\ Goes(u, "idle")
  /\ UNCHANGED <<library, log_json, arg, attached, logging, stage, ctx, loopVars>>

\* Phases of a thread with LOG_* statements in them.
MayLog(t) == IF t \in Users THEN upc[t] \in {"load", "init", "handlers"}
             ELSE loop[t] \in {"top", "pass"}

FindCallback(t) ==
  /\ Loaded /\ MayLog(t) /\ t \notin logging
  /\ log_callback
  /\ logging' = logging \cup {t}
  /\ UNCHANGED <<library, ref, logVars, userVars, attached, stage, ctx, loopVars>>

\* get_jni_env throws in a thread that is not attached, and nothing catches it.
Usable(t) == t \in attached /\ log_callback /\ ref[Callback] = "global"

CallJava(t) ==
  /\ Loaded /\ t \in logging
  /\ logging' = logging \ {t}
  /\ library' \in IF Usable(t) THEN {library}
                  ELSE IF t \in attached /\ log_callback THEN Unnoticed(library)
                  ELSE {"crashed"}
  /\ UNCHANGED <<ref, logVars, userVars, attached, stage, ctx, loopVars>>

-----------------------------------------------------------------------------
(***************************************************************************)
(* loadModel, the calls on a loaded model, and close.                      *)
(***************************************************************************)
Loading(u, m) == Loaded /\ u \notin logging /\ arg[u] = {m}
Stage(m, to) == stage' = [stage EXCEPT ![m] = to]

NewContext(u, m) ==
  /\ Idle(u) /\ stage[m] = "none"
  /\ Stage(m, "new") /\ arg' = [arg EXCEPT ![u] = {m}] /\ Goes(u, "load")
  /\ UNCHANGED <<library, ref, logVars, attached, logging, ctx, loopVars>>

\* A model that cannot be loaded is an exception; its context is never freed.
LoadModel(u, m) ==
  /\ Loading(u, m) /\ upc[u] = "load"
  /\ \/ Stage(m, "model") /\ Goes(u, "init")
     \/ Stage(m, "failed") /\ Goes(u, "idle")
  /\ UNCHANGED <<library, ref, logVars, arg, attached, logging, ctx, loopVars>>

StartAtOnce == "thread"      \* mutant: the loop starts without its handlers
AfterInit   == "handlers"

InitSlots(u, m) ==
  /\ Loading(u, m) /\ upc[u] = "init"
  /\ Stage(m, "slots") /\ Goes(u, AfterInit)
  /\ UNCHANGED <<library, ref, logVars, arg, attached, logging, ctx, loopVars>>

InstallHandlers(u, m) ==
  /\ Loading(u, m) /\ upc[u] = "handlers"
  /\ Stage(m, "ready") /\ Goes(u, "thread")
  /\ UNCHANGED <<library, ref, logVars, arg, attached, logging, ctx, loopVars>>

StartThread(u, m) ==
  /\ Loading(u, m) /\ upc[u] = "thread"
  /\ loop' = [loop EXCEPT ![m] = "created"] /\ Goes(u, "handle")
  /\ UNCHANGED <<library, ref, logVars, arg, attached, logging, stage, ctx, running,
                 tasks, busy>>

SetHandle(u, m) ==
  /\ Loading(u, m) /\ upc[u] = "handle"
  /\ ctx' = ctx \cup {m} /\ Goes(u, "idle")
  /\ UNCHANGED <<library, ref, logVars, arg, attached, logging, stage, loopVars>>

\* The application uses an open model, from any thread.
EnterNative(u, m) ==
  /\ Idle(u) /\ m \in ctx /\ Open(m)
  /\ \A v \in Users : ~(upc[v] = "delete" /\ arg[v] = {m})
  /\ arg' = [arg EXCEPT ![u] = {m}] /\ Goes(u, "native")
  /\ UNCHANGED <<library, ref, logVars, attached, logging, stage, ctx, loopVars>>

\* encode and decodeBytes only read the model.
ReadModel(u) ==
  /\ Loaded /\ upc[u] = "native"
  /\ Goes(u, "idle")
  /\ UNCHANGED <<library, ref, logVars, arg, attached, logging, stage, ctx, loopVars>>

PostRequest(u, m) ==
  /\ Loaded /\ upc[u] = "native" /\ arg[u] = {m}
  /\ tasks' = [tasks EXCEPT ![m] = @ \cup {"request"}] /\ Goes(u, "idle")
  /\ UNCHANGED <<library, ref, logVars, arg, attached, logging, stage, ctx, loop,
                 running, busy>>

\* close(): once per model, and not during another thread's call on it.
Terminate(u, m) ==
  /\ Idle(u) /\ m \in ctx /\ Open(m)
  /\ \A v \in Users : ~(upc[v] \in {"native", "delete"} /\ arg[v] = {m})
  /\ running' = [running EXCEPT ![m] = FALSE]
  /\ arg' = [arg EXCEPT ![u] = {m}] /\ Goes(u, "delete")
  /\ UNCHANGED <<library, ref, logVars, attached, logging, stage, ctx, loop, tasks, busy>>

Delete(u, m) ==
  /\ Loaded /\ upc[u] = "delete" /\ arg[u] = {m}
  /\ Stage(m, "freed") /\ Goes(u, "idle")
  /\ UNCHANGED <<library, ref, logVars, arg, attached, logging, ctx, loopVars>>

-----------------------------------------------------------------------------
(***************************************************************************)
(* The loop thread: start_loop.                                            *)
(***************************************************************************)
At(m, here) == Loaded /\ m \notin logging /\ loop[m] = here
Moves(m, to) == loop' = [loop EXCEPT ![m] = to]
notLoop == <<ref, logVars, userVars, logging, stage, ctx>>

AttachLoop(m) ==
  /\ At(m, "created")
  /\ \/ attached' = attached \cup {m} /\ Moves(m, "attached") /\ UNCHANGED library
     \/ library' = "crashed" /\ UNCHANGED <<attached, loop>>
  /\ UNCHANGED <<notLoop, running, tasks, busy>>

SetRunning(m) ==
  /\ At(m, "attached")
  /\ running' = [running EXCEPT ![m] = TRUE] /\ Moves(m, "top")
  /\ UNCHANGED <<notLoop, library, attached, tasks, busy>>

\* The tasks are popped; a request keeps its slot busy for a few passes.
TakeTasks(m) ==
  /\ At(m, "top")
  /\ tasks' = [tasks EXCEPT ![m] = {}]
  /\ \E n \in IF "request" \in tasks[m] THEN busy[m] .. MaxPasses ELSE {busy[m]} :
       busy' = [busy EXCEPT ![m] = n]
  /\ Moves(m, "pass")
  /\ UNCHANGED <<notLoop, library, attached, running>>

NeverIdle(m) == FALSE              \* mutant: the test of all_idle is wrong
AllIdle(m)   == busy[m] = 0

Pass(m) ==
  /\ At(m, "pass")
  /\ IF AllIdle(m) THEN UNCHANGED <<tasks, busy>>
     ELSE /\ tasks' = [tasks EXCEPT ![m] = @ \cup {"next"}]
          /\ busy' = [busy EXCEPT ![m] = @ - 1]
  /\ Moves(m, "check")
  /\ UNCHANGED <<notLoop, library, attached, running>>

\* Under mutex_tasks: the loop ends only when its queue is empty.
CheckQueue(m) ==
  /\ At(m, "check")
  /\ Moves(m, IF tasks[m] # {} THEN "top" ELSE IF running[m] THEN "wait" ELSE "ended")
  /\ UNCHANGED <<notLoop, library, attached, running, tasks, busy>>

WakesOnTask(m) == tasks[m] # {}                  \* mutant: !running forgotten
Wakes(m)       == tasks[m] # {} \/ ~running[m]

Wake(m) ==
  /\ At(m, "wait") /\ Wakes(m)
  /\ Moves(m, "top")
  /\ UNCHANGED <<notLoop, library, attached, running, tasks, busy>>

LoopThread(m) == AttachLoop(m) \/ SetRunning(m) \/ TakeTasks(m) \/ Pass(m)
                   \/ CheckQueue(m) \/ Wake(m) \/ CallJava(m)

\* Memory used after delete may be gone.
TouchFreed(m) ==
  /\ Loaded /\ stage[m] = "freed" /\ loop[m] \notin {"created", "ended"}
  /\ library' = "crashed"
  /\ UNCHANGED <<notLoop, attached, loopVars>>

-----------------------------------------------------------------------------
OnModel(u, m) ==
  \/ NewContext(u, m) \/ LoadModel(u, m) \/ InitSlots(u, m)
  \/ InstallHandlers(u, m) \/ StartThread(u, m) \/ SetHandle(u, m)
  \/ EnterNative(u, m) \/ PostRequest(u, m) \/ Terminate(u, m) \/ Delete(u, m)

User(u) ==
  \/ ReleaseCallback(u) \/ SetFormat(u) \/ InstallCallback(u)
  \/ FindCallback(u) \/ CallJava(u) \/ ReadModel(u)
  \/ \E m \in Models : OnModel(u, m)

Next == \/ JNI_OnLoad \/ JNI_OnUnload
        \/ \E u \in Users : User(u)
        \/ \E m \in Models : LoopThread(m) \/ FindCallback(m) \/ TouchFreed(m)

Spec == Init /\ [][Next]_vars

\* A loop thread that can go on does, and what it logs in a phase is finitely
\* many messages; nothing is assumed of the application.
FairSpec == Spec /\ \A m \in Models : /\ WF_vars(LoopThread(m))
                                      /\ SF_vars(TakeTasks(m) \/ Pass(m))

-----------------------------------------------------------------------------
\* The type invariant.
TypeOK ==
  /\ library \in {"absent", "loaded", "refused", "unloaded", "crashed"}
  /\ ref \in [Refs -> {"null", "stale", "global", "freed"}]
  /\ log_json \in BOOLEAN /\ log_callback \in BOOLEAN
  /\ ggml_log \in {"stdout", "trampoline"}
  /\ upc \in [Users -> {"idle", "format", "install", "load", "init", "handlers",
                        "thread", "handle", "native", "delete"}]
  /\ arg \in [Users -> SUBSET ({"json", "callback"} \cup Models)]
  /\ attached \subseteq Threads /\ logging \subseteq Threads
  /\ stage \in [Models -> {"none", "new", "model", "slots", "ready", "failed", "freed"}]
  /\ ctx \subseteq Models
  /\ loop \in [Models -> {"none", "created", "attached", "top", "pass", "check",
                          "wait", "ended"}]
  /\ running \in [Models -> BOOLEAN]
  /\ tasks \in [Models -> SUBSET {"request", "next"}]
  /\ busy \in [Models -> 0 .. MaxPasses]

Setting(u) == upc[u] \in {"format", "install"}

\* Once every setLogger call has returned, in whatever order the calls of
\* several threads released, reset and installed, the function in log_callback
\* and the reference it uses belong together: a message that server_log then
\* hands to it finds a live o_log_callback, in a thread the JVM knows.  (While a
\* call is on its way it may find a deleted one: ReleaseCallback comes first.)
CallbackSettled ==
  Loaded /\ log_callback /\ ~(\E u \in Users : Setting(u)) =>
     ref[Callback] = "global" /\ logging \subseteq attached

\* The loop thread runs its callbacks only when loadModel has initialised the
\* slots and installed all four of them; it may already run while loadModel
\* returns, and the first request finds the loop at any point of its start.
HandlersBeforeLoop ==
  \A m \in Models : loop[m] # "none" => stage[m] \in {"ready", "freed"}

\* A loop thread that runs when terminate() clears `running` ends: it drains its
\* queue and the busy slots' own NEXT_RESPONSE tasks, and neither sleeps through
\* the notification nor waits again.
TerminatedLoopEnds ==
  \A m \in Models :
     loop[m] \notin {"none", "created", "attached"} /\ ~running[m]
       ~> loop[m] = "ended" \/ ~Loaded

=============================================================================
