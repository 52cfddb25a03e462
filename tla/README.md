# TLA+ model of the j-llama.cpp inference server

j-llama.cpp is a Java binding of llama.cpp. `LlamaModel` (Java) calls native
methods (`jllama.cpp`), which hand tasks to a `server_context` (`server.hpp`)
whose loop thread evaluates the prompts of several requests together. This
directory models that server in TLA+, model-checks it with TLC on small
instances, and proves its main safety properties with TLAPS.

Line numbers below are of `src/src/main/cpp/server.hpp` unless said otherwise.

## 1. Inventory

| Component | State | Operations | Hard because |
|---|---|---|---|
| task queue, `server_queue` (386-572) | `id`, `queue_tasks`, `queue_tasks_deferred`, `queue_multitasks`, `running`, `mutex_tasks`, `condition_tasks` | `post`, `defer`, `get_new_id`, `notify_slot_changed`, `terminate`, `start_loop`, multitasks | Java threads and the loop thread interleave between critical sections; a deferred task must be brought back by somebody |
| result queue, `server_response` (574-661) | `waiting_task_ids`, `queue_results`, `mutex_results` | `add_waiting_task_id`, `remove_waiting_task_id`, `recv`, `send` | results are dropped when nobody waits, kept when somebody stops waiting too late |
| task dispatch (1739-2013) | `slots`: state, command, task | `process_single_task` (COMPLETION, CANCEL, NEXT_RESPONSE), `release` | a slot's state is what is left of its last task; cancels come at any moment |
| choice and launch of a slot (866-1208) | `slots`: prompt, `t_last_used`, parameters | `get_slot_by_id`, `get_available_slot`, `launch_slot_with_task` | compares prompts and microseconds; a launch may stop half way |
| batching, decoding, sampling: `update_slots` (2035-2676) | `batch`, the locals `n_batch`, `i`, `batch_type` | release, idle, context shift, sampled tokens, prompts, decode, sample | several slots share a batch of bounded size; a decode fails or is retried with half the batch |
| context window of a slot | its sequence in the KV cache, `cache_tokens`, `n_past`, `n_keep` | truncation, prefix reuse, removal, context shift | two descriptions of the same cells must agree, through index arithmetic and failures |
| streamed text (175-213, 258-294, 1293-1439; `utils.hpp` 331-353) | `generated_text`, `n_sent_text`, the `stopped_*` flags, `n_decoded` | `process_token`, `find_stopping_strings`, `has_budget`, `reset` | text is cut at bytes that are not known yet; tokens split characters and stop words anywhere |
| system prompt (1220-1291, 1778-1788) | `system_prompt`, `system_tokens`, `system_need_update` | `system_prompt_set`, `system_prompt_update` | changes under running slots, takes effect at the next pass |
| multi-prompt tasks (549-571, 1708-1737, 2015-2033) | `queue_multitasks` | split, update, finish | results of subtasks come in any order; two mutexes |
| self-extend (2425-2447, 2507-2545) | `ga_i`, `n_past_se` | group attention | index arithmetic, retries |
| metrics (336-384) | counters | `on_prompt_eval`, `on_prediction` | - |
| JNI binding, `jllama.cpp` | the handle `ctx`, references to classes and objects (14-76) | `JNI_OnLoad`, `JNI_OnUnload`, `loadModel`, `requestCompletion`, `receiveCompletion`, `embed`, `cancelCompletion`, `delete`, `encode`, `decodeBytes` | starts a detached thread; `delete` frees what that thread uses |
| logging (`setLogger`, `jllama.cpp` 639-669; `server_log`, `utils.hpp` 29-149) | `log_json`, `log_callback`, `o_log_callback` | set, reset, call | globals without a lock, used by every thread |
| Java API, `LlamaModel`, `LlamaIterator` | `ctx`, `taskId`, `hasNext` | `complete`, `generate`, `next`, `cancel`, `embed`, `close` | iterators may be abandoned, cancelled or go on after an error |
| parameter parsing, library loader | - | parsing, file extraction | - |

How they interact:

1. A Java thread takes an id (`get_new_id`), announces that it waits for it
   (`add_waiting_task_id`) and posts a COMPLETION task: three critical sections.
   Then it blocks in `recv`; an iterator calls `recv` once per `next()`.
2. The loop thread pops tasks one by one (`process_single_task`). A COMPLETION
   is launched on an available slot, or deferred. With the queue empty it runs
   one pass of `update_slots`, which posts a NEXT_RESPONSE task to itself when a
   slot is busy, so that it does not sleep in `condition_tasks.wait`.
3. A pass releases the slots that are done (each brings the deferred tasks back,
   `notify_slot_changed`), shifts full contexts, puts one sampled token of every
   generating slot and as much of the waiting prompts as fits into one batch,
   decodes it in chunks of `n_batch` tokens, samples every slot whose logits are
   in the chunk, and sends partial and final results.
4. Everything after `llama_decode` and the `llama_kv_cache_*` calls is the
   llama.cpp library; only its return value and its effect on a sequence's cells
   are seen here.

What makes each part correct: no task is lost or answered twice; whoever waits
is answered; the loop sleeps only when nothing is left to do; the batch stays in
its allocation; each slot samples its own logits, once per pass; an embedding is
not mixed with generations; a slot stays in its share of the context; what
`cache_tokens` says was computed was computed; a task gets the slot and the
parameters it asks for; what is streamed is the beginning of the answer, in
whole characters and without stop words; a token is sampled under the system
prompt of now; the logger that is set is one that can be called; the loop ends after
`close()`.

The system's boundary is the native methods: what an application may send is
any JSON text `requestCompletion` accepts, at any time the Java API allows.

## 2. The modules

| Module | What it is |
|---|---|
| `CompletionService` | what the Java API promises each thread, with no server in sight |
| `LlamaServer` | the queues, slots, passes and Java threads; implements `CompletionService` |
| `MCLlamaServer` | values of its constants for TLC |
| `LlamaServerProofs` | type correctness; no sleep on work, no lost request |
| `LlamaServerBatch` | the batch: its capacity, its logits, embeddings apart from generations |
| `LlamaServerService` | one answer per request, and the refinement of `CompletionService` |
| `SlotCache` | the context window of one slot, with tokens |
| `MCSlotCache` | values of its constants for TLC |
| `SlotCacheProofs` | truncation, the context bound, the context shift; `cache_tokens` describes the KV cache |
| `Dispatch` | the choice of a slot and its launch, with the parameters |
| `DispatchProofs` | types, parameters as asked, deferral behind a busy slot, the best slot |
| `TokenText` | from tokens to the text that is streamed and answered |
| `TokenTextProofs` | types, the streamed prefix, the budget, whole characters, stop words, the answer |
| `SystemPrompt` | the system prompt's changes under the slots' sequences |
| `SystemPromptProofs` | types, what a sampled token has behind it |
| `NativeLibrary` | references, logger, load, loop thread and close |
| `NativeLibraryProofs` | types, handlers before the loop, the logger that is left set |
| `MCDispatch`, `MCTokenText`, `MCSystemPrompt`, `MCNativeLibrary` | values of their constants for TLC |

`LlamaServer` is the composition of the queues, the slots and the threads. The
four modules after it each open what it leaves open, at the place named in its
abstractions: which slot (`Dispatch`), what is in the cache (`SlotCache`), which
text a token makes (`TokenText`), under which system prompt (`SystemPrompt`);
`NativeLibrary` is what happens around it.

### CompletionService

A thread asks, its results are made one after the other, it takes them in that
order, and one of them is the last. What partial results say is not part of it, so
its pending results are a number of partial ones and whether the last is there.
`LlamaServer` maps its state to it: a thread's `partials` are the results in
`queue_results` with its task's id, `closed` says that a terminal one is among
them, its `phase` is its place in the native calls, and everything the loop thread
does but send a result is a stutter. The property `Service` of `LlamaServer` is that
refinement. It says that no thread gets another one's result although
all share a queue, that nothing follows a last result a thread still takes, and
that a cancelled request delivers no more.

### LlamaServer

The grain is the mutex. Two critical sections are never in one action; what the
loop thread does between two of them touches only its own state. `pc` says
where the loop thread is (`pop` between tasks, then the phases of `update_slots`,
then `wait`), `cur` is its slot in a loop over the slots, and `jpc[c]` where Java
thread `c` is in its native call. Variables are named after the C++ fields.

- Java threads: `GetNewId`, `AddWaiting`, `PostCompletion`, `Recv`,
  `RemoveWaiting` are the critical sections of `requestCompletion`,
  `receiveCompletion` and `embed`; `CallNext` and `PostCancel` are the
  application's calls of `LlamaIterator`.
- Tasks: `LaunchTask` (with the launch that fails), `DeferTask`, `CancelTask`,
  `SkipNextResponse`. A request names a slot (`id_slot`) or none. It is deferred when
  no slot it may take is available (`FreeFor`), and also past free slots: when it
  names no slot of the server, or names none and a slot was released in the
  microsecond of the choice (946). `just_released` are the slots whose `t_last_used`
  is the current microsecond, `ClockAdvances` is the tick of the clock, and
  `ClockTies` says whether a choice may come before it.
- A pass: `BeginUpdate`, `ReleaseSlots`, `AllIdle` or `PostNextResponse`,
  `AddSampledTokens`, then one action per turn of the prompt loop
  (`NothingToLoad`, `EmptyPrompt`, `TooLargeToEmbed`, `PostponePrompt`,
  `LoadPrompt`), then `Decode`, `FailSlot`, `SendEmbedding`, `SampleToken`,
  `FinishSlot`, `NextChunk`, `EndDecode`, and `WaitForTask`.

Abstractions. A prompt is its number of tokens; a request is its kind, its length
and whether the launch rejects it. Which available slot is chosen (`Dispatch`), how
many tokens of the prompt are cached (`SlotCache`), whether a token is sent and
whether it ends the sequence (`TokenText`) are left open. The context
shift changes nothing this module looks at and is in `SlotCache`. `recv` is one
action with the result's presence as its guard: its spinning on results of
others is not visible. The
releases of several slots in one pass are one action, because between two of
them only tasks can arrive, behind which the deferred ones would be put either
way; the bound on their order is not a property here. NEXT_RESPONSE takes no id
from the counter.

### SlotCache

One slot over a sequence of requests. Here tokens are kept: `kv` is the set of
[position, token] cells of the slot's sequence, `cache_tokens` what the slot
believes it holds. `Launch`, `CancelTask`, `IdlePass` and `BusyPass` are the
task phase; `ShiftContext`/`NoShift`, `AddSampled`/`NothingSampled`,
`PostponePrompt`/`LoadPrompt`, `Decode`/`FailDecode`, `Sample`/`NoSample` are the
phases of a pass. The room other slots leave in the batch is any number up to
`NBatch`. `NSystem` tokens of a system prompt, when there is one, occupy the
first positions. `n_discard` has its default (half), group attention is off, the
prompt is not empty, and `llama_kv_cache_seq_rm` succeeds.

### Dispatch

A JSON field is the set of its values, empty when it is absent; `json_value` is
translated as it is. `ChosenSlots` is the slot a task finds at a time `t`, or
none; `Launched` overwrites the slot in the order of `launch_slot_with_task`, so
that a launch that stops at the prompt has left the scalars behind, and one that
stops at the grammar everything but `ctx_sampling`. The parameters that only
the sampler reads are one (`scalar`); the lists that are filled element by element
(logit bias, penalty tokens, stop words, samplers) are there. Of the stop words only
an empty JSON value (`null`) is left out: `word.empty()` (1158) is false for the
string `""`. `Post`, `Launch`,
`Defer`, `BeginUpdate` and `ReleaseSlots` are the loop thread around it. Time is a
counter of which only the order matters.

### TokenText

A text is a sequence of bytes and a byte stands for its class: a character of one
byte, the beginning of one of two, three or four, or a continuation. `ProcessToken`
is `process_token` in its order: `AddToken`, `Searched` (unfinished character, full
stop words in the window, beginning of a stop word, send), `Limited` (budget, end
of generation, trained context). `slot` has the members of `server_slot` this code
touches, which survive from one request to the next except where `reset` clears
them.

### SystemPrompt

Several slots with their sequences. A cell of the KV cache remembers the system
prompt it was evaluated under, because the numbers in it depend on what precedes
it. `Launch` is a task, with or without a system prompt, refused or not;
`UpdateSystem`, `ReleaseSlots`, `Evaluate` and `Sample` are a pass. How much of each
prompt is in a batch is any choice that fits `NBatch`, which contains the code's. The
slots' batches are all decoded; the update's own decode may fail. The batch of
`system_prompt_update` has no bound here and none in the code (1235-1238: it adds
all tokens of the system prompt to the allocation the slots' batches use).

### NativeLibrary

Every reference to a Java class or object is `null`, `stale` (a local reference
after its frame), `global` or `freed`. Java threads load a model in the steps
another thread can see, use it, close it, and set loggers, at any time and several at
once; the loop thread attaches,
sets `running`, and goes round. Using what was freed goes unnoticed or ends the
process (`library = "crashed"`), and so does every use of a context after `delete`
(`TouchFreed`). Applications are assumed to follow the Java API in this: no call on a
model while or after it is closed. A model may stay open for ever, also when the
library is unloaded.

## 3. The runs

The behaviours stop when the last request is done: a program that is idle waits
for its user, so deadlock is not checked (`CHECK_DEADLOCK FALSE`). What must not
stop is stated by `SleepsOnlyWhenDone` and `RequestAnswered`.

| Run | Instance | Checks |
|---|---|---|
| `LlamaServer_safety` | 2 threads, 2 slots, batch of 2, 2 requests of 8 fates, with and without `id_slot`, clock ties | `NoLostRequest`, `AnsweredOnce`, `OwnLogits`, `EmbeddingsUnmixed`, `BatchWithinCapacity`, `SleepsOnlyWhenDone`, and `Service`, the refinement of `CompletionService` |
| `LlamaServer_failures` | 2 threads, 2 slots, 2 requests, one kind bound to slot 0, every return value of `llama_decode`, no continuous batching | `TypeOK`, `NoLostRequest`, `SleepsOnlyWhenDone`, `AllSampled`, and `RequestAnswered` under `FairSpec` |
| `SlotCache_window` | 3 requests of 3 prompts, context of 6, batch of 3, `cache_prompt` on | `GaplessContext`, `CacheCoherent`, `ReusedWereComputed` |
| `SlotCache_bounds` | 2 requests, `cache_prompt` on or off, `n_keep` unset, -1 or 1, failures and early requests | `ContextFits`, `LoadingUnshifted` |
| `Dispatch_launch` | 4 tasks out of 8 kinds, 2 slots, similarity 50 %, a cap of 4 tokens | `TypeOK`, `LaunchedAsAsked`, `DeferredBehindBusy`, `BestSlotTaken` |
| `TokenText_stream` | 8 tokens, 3 overlapping stop words and an empty one, 6 requests, one after the other | `TypeOK`, `StreamedIsPrefix`, `NoStopWordSent`, `WholeCharacters`, `AnswerIsCompletion`, `BudgetKept` |
| `SystemPrompt_change` | 2 slots, 3 tasks out of 5 kinds, a system prompt at start | `TypeOK`, `OwnPartComplete` |
| `NativeLibrary_life` | 2 Java threads, 1 model, loggers set at any time | `TypeOK`, `CallbackSettled`, `HandlersBeforeLoop`, `TerminatedLoopEnds` under `FairSpec` |

Runs that find the program at odds with what its comments say:

| Run | Property | What it shows |
|---|---|---|
| `LlamaServer_cancel` | `CancelStops` | a CANCEL of a task that is queued, deferred or loading its prompt is lost: `release` (234) acts on a PROCESSING slot only |
| `SlotCache_early` | `ReusedWereComputed` | a request before the loop's first pass: the KV cache is cleared afterwards (2079), `cache_tokens` is not |
| `TokenText_split` | `NoStopWordSent` | a token that ends a stop word and begins a character of several bytes: while the character is unfinished nothing is searched (1338), and later the word is behind the window (267-268), or the sequence has ended |
| `SystemPrompt_reuse` | `ReuseIsComputed` | a task changes the system prompt, which clears the KV cache; `cache_tokens` stays, and the next prompt with the same prefix skips tokens that are not there (2344) |

### What the models say where no property is claimed

The passing runs name the conditions under which their properties hold. Where
those conditions are weaker than what an application may do, the property
fails in the same model, with the constant or the guard changed:

- `AnsweredOnce` with failing decodes: the loop at 2573 sends an error to the task
  of every slot, idle ones and answered ones included.
- A stream cancelled after a partial result leaves it in `queue_results` (603); from
  then on the condition at 612 is true for every `recv`, which spins.
- `ReusedWereComputed` with failing decodes: the tokens of the failed batch are in
  `cache_tokens` (2163, 2441) before it is decoded. With `cache_prompt` off,
  `cache_tokens.resize(n_past)` (2414) fills with zeros that a prompt beginning with
  token 0 matches (`Resized`).
- `ContextFits` with a system prompt: the truncation test (2297) leaves it out, which
  the TODO at 2157 says. The context shift (2107-2123) counts positions from 0 and
  `cache_tokens` without the system prompt.
- `n_keep` defaults to the slot's previous value (995), unlike all other parameters.
- `DeferredBehindBusy` with `ClockStep = 0`: a slot released in the very microsecond of the
  choice is not older than "now" (946) and is passed over; in `LlamaServer` with
  `ClockTies = TRUE` the loop then goes to sleep over the deferred task, with every slot
  free, until another request ends. A task with an `id_slot` that names no slot (1750) is deferred for ever; the Java API has no
  setter for `id_slot`, only the JSON text carries it.
- `OwnPartComplete` with `SystemDecodes = {TRUE, FALSE}`: a system prompt whose decoding
  failed (1258-1262) is tried again at each pass, which clears the KV cache under
  slots that went on in between. A prompt tokenized before a change keeps or misses
  its BOS (2245). The tasks of slots that `system_prompt_set` releases (1286) get no
  final result; their callers wait for ever.
- An empty stop word is kept (1158 tests the JSON value, not the string), and ends a
  generation with the first token that completes its characters: `NoStopWordSent` and
  `AnswerIsCompletion` speak of requests without one.
- `StreamedIsPrefix` and no more: what is held back when the sequence ends is not
  sent, and the final result of a stream has no content (1562).
- `setLogger(null)` leaves the deleted reference in `o_log_callback`, which the next call
  deletes again.
- While `setLogger` is on its way, a thread that found `log_callback` set may call the
  reference that was deleted (644) before the function was replaced (651, 657).
- `TerminatedLoopEnds` for a `close()` right after the load: `running = true` (482) comes
  after `running = false` (469), and the loop waits for ever in a freed context.
- `delete` (`jllama.cpp` 628) waits for nobody: the loop may go on in a freed context
  (`TouchFreed`). A model that cannot be loaded (403) leaves its context behind.
  `JNI_OnUnload` deletes `c_log_level` twice and `c_log_format` never.
- The README of the program says of the log format "The default is JSON" (219);
  `log_json` (`jllama.cpp` 153) is false until `setLogger` is called.
- `embed` of an empty prompt gets a final response without an embedding, and the
  native method throws a C++ exception through JNI (571).

### Bounds

- `MaxTasks` (LlamaServer, Dispatch, SystemPrompt) and `MaxRequests` (SlotCache) bound
  the requests of a behaviour; `MaxGenerated` (SystemPrompt) the tokens of a task and
  `MaxPasses` (NativeLibrary) the passes a request keeps a slot busy. There are no
  others in the guards: `TokenText` is bounded by the limits of the code itself. Two requests are enough for
  a stale slot, a cancel racing another request, a mixed batch, and a request deferred
  behind the slot it names or past one just released. `LlamaServer_failures` has no
  request that names a slot the server does not have, and no clock ties: over those a
  request may wait for ever. A task deferred because all slots are busy takes a third
  request; `Dispatch_launch` has it, and the theorems about `LlamaServer`. Three requests
  of a slot let the third reuse what
  the second left after a shift.
- Prompts of 1 to 3 tokens with batches of 1 to 3 give prompts that fit, fill and
  exceed a batch, alone and next to sampled tokens.
- The context of 6 tokens with prompts of 2, 4 and 8 gives a prompt that fits, one
  that fills it by generation, and one that is truncated; `NBatch = 3` splits the
  longer ones over passes.
- Four tasks on two slots let the third and the fourth meet the parameters of two
  different predecessors, a launch given up among them. Similarity is compared
  between prompts of one to three characters, with shares of a third to all.
- Stop words of two and three bytes that begin with each other's ends, one of them
  with a character of two bytes in it, and tokens of up to two bytes: every way to
  split a word or a character over tokens. A text of six bytes (`NCtxTrain`, `n_predict`
  5) holds a character of four bytes next to a stop word.
- Two slots and three tasks let a change of the system prompt meet one slot that
  loads (a prompt of three tokens and BOS takes two batches of three) and one that
  generates, and a second change or a refused one meet the first.
- One model and two threads: models share nothing but the references and the
  logger, which two threads reach already.
- `SYMMETRY` permutes the Java threads in `LlamaServer_safety` only; they are
  interchangeable, as no constant names one.

### Fairness

`FairSpec` assumes weak fairness of the loop thread (a thread whose actions only
block on the mutexes, held for short sections, and on an empty queue) and of a
Java thread inside a native call. Nothing is assumed of the application: it may
never call `next()` again. `NativeLibrary!FairSpec` adds strong fairness of `TakeTasks`
and `Pass`: in these phases the thread may log, which disables them for the
moment of the message, and a phase logs finitely many messages. The bounded number
of requests hides starvation by an endless stream of newer tasks.

## 4. The proofs

All for every value of the constants that meets the named assumptions: any
number of threads, slots, requests and tokens.

- `LlamaServerProofs!TypeCorrect`: `Spec => []TypeOK`. `TypeOK` is not inductive; the
  strengthening `TypeInv` adds that a Java thread inside a call holds an id that was
  issued, that a loading slot has a part of its prompt left (else `n_prompt - n_past`
  could leave the naturals), and that the slot the loop finishes is a busy one.
  Part of what it shows is that `n_batch` is never halved to 0.
- `LlamaServerProofs!NeverSleepsOnWork`: `Spec => []SleepsOnlyWhenDone`. The
  invariant `SleepInv` says who will wake the loop: while a task is deferred a slot it
  may take is not available, or it is of the two kinds nobody comes back to
  (`DeferredHasSlot`, `PassedOver`: it names no slot of the server, or it names none and
  the clock may tie); from `PostNextResponse` to the end of
  the pass there is a task in the queue (`PassHasTask`), since nobody else pops; so a
  loop that waits on an empty queue came from `AllIdle` (`EmptyAndAsleep`).
- `LlamaServerProofs!NoRequestLost`: `Spec => []NoLostRequest`. `DeliveryInv` adds
  that no two threads hold the same id, that an id whose result may still be taken is
  in `waiting_task_ids`, so that `send` keeps the result, and that a CANCEL in the
  queue has a target that nobody receives for any more.
- `LlamaServerBatch!BatchNeverOverflows`: `Spec => []BatchWithinCapacity`. What bounds
  the sampled tokens is history: a slot starts to generate only in a pass whose
  batch took the end of its prompt next to one token of every slot that generated
  already, so the generating slots never outnumber the tokens of the batch of that
  pass, nor `NBatch` between passes (`GeneratingFit`).
- `LlamaServerBatch!EverySequenceSampled`: `Spec => []AllSampled`. A slot's `i_batch`
  lies ahead of what was sampled: from `i_chunk`, or from the end of the chunk once
  the sampling loop is past the slot, to `n_tokens` (`IndexAhead`). So no chunk skips
  it, however `n_batch` is halved, and at the end of the batch none is left.
- `LogitsNeverShared` and `EmbeddingsApart`: `OwnLogits` and `EmbeddingsUnmixed`, for
  behaviours in which no batch fails for good, `[](pc # "fail")`. `LogitsInv` says that
  only generating slots hold an index and no two the same; `TypeOfBatch` that all
  slots in the batch agree with `batch_type`; `EmbeddingWhole` that an embedding's
  prompt is loaded at once or not at all. The condition is needed: a slot released
  by a failed batch keeps its index (2573-2580), and a request with an empty prompt
  puts it to PROCESSING without a new one, to be sampled from another slot's logits.
- `LlamaServerService!OneAnswer`: `Spec /\ [](pc # "fail") => []AnsweredOnce`. A task that
  is not answered is in one *place*: the queue, the deferred queue, or a slot that
  works on it (`OnePlace`). Every step of the loop thread *moves* tasks (`Moves`: each
  place after the step is filled from one before it, no two from the same), sends a
  partial result of a task in place, or takes the task from its place with the
  terminal result. A failed batch answers slots that work on nothing, hence the
  condition.
- `LlamaServerService!ServiceImplemented`: `Spec /\ [](pc # "fail") => Service`, the
  refinement of `CompletionService`. A step that only moves tasks is a stutter
  (`SilentTurn`), one that sends is `DeliverPartial` or `DeliverLast` of the thread that
  holds the id, or of nobody (`SendTurn`), each critical section of a Java thread is
  its action of the service. It uses `DeliveryInv` (no shared ids, nothing follows
  for a CANCEL's target) and that a slot's `stream` is its task's kind (`RequestKept`).
- `SlotCacheProofs!TruncatedFits`: what truncation leaves is not empty and shorter
  than the context, so the assertion of 2330 holds.
- `SlotCacheProofs!WindowFits` and `ShiftSparesLoading`: without a system prompt,
  `Spec => []ContextFits` and `Spec => LoadingUnshifted`. The invariant `WindowInv`
  says that a tokenized prompt fits with its clamped `n_keep`, that a loading slot
  has not evaluated all of it (so `n_past < n_ctx - 1` and no shift is due), and
  that a full context has something to discard after `n_keep` and the BOS token.
  Both fail with a system prompt, which fills part of the window before any prompt
  is truncated to it, so the assumption `NSystem = 0` is needed.
- `SlotCacheProofs!CacheStaysCoherent`, `ContextWithoutGaps`, `ReuseIsSound`:
  `CacheCoherent`, `GaplessContext` and `ReusedWereComputed`, under `Promised` (no
  system prompt, `cache_prompt` in every request, no failing decode, no request
  before the first pass; for each of these the section above says what breaks). `ExactInv` is an
  equality: the cells of the sequence, with those of the batch while it is decoded,
  are exactly `cache_tokens`, and a slot that works has `n_past = Len(cache_tokens)`.
  Prefix reuse keeps it because `CommonPrefix` is a set of positions closed downward
  (`DownClosed`), a shift because it drops the same positions from both (`ExactShift`).
- `TokenTextProofs!TextTypes`, `StreamIsPrefix`, `BudgetAlwaysKept`, `StreamEndsWhole`:
  `TypeOK`, `StreamedIsPrefix`, `BudgetKept` and `WholeCharacters`, for every
  vocabulary, all limits and any stop words. `TextInv`
  says that the streamed text is the first `n_sent_text` bytes of `generated_text`,
  through every erasure at a stop word, and that generation goes on only within
  the limits. The assumption `Requests # {}` only gives `Init` a request to start from.
  `Missing` is a fold over the bytes, and by induction over the text (`Begun`,
  `MissingIs`) bytes are missing only where `Incomplete` says so.
- `TokenTextProofs!StopWordsHeldBack`: `Spec => []NoStopWordSent`. `Clean` says that no stop
  word is in the text and that what was sent does not end with the beginning of
  one; so a stop word that a token completes ends in that token and starts in the
  unsent part, where the window of `find_stopping_strings` reaches it
  (`NewStopFound`). The assumption `Unmixed` is that no token has bytes in front of
  a character that it leaves unfinished, and that stop words are whole characters; the
  property itself speaks of requests without an empty stop word (`WordsNotEmpty`).
  It holds in `TokenText_stream` (whole characters, and pieces of one); the run
  `TokenText_split` shows that it is needed.
- `TokenTextProofs!AnswerIsWhole`: `Spec => []AnswerIsCompletion`, under `Unmixed` too.
  `CompletionInv` compares the slot's text with all that was sampled (`Completed`):
  equal until a stop word is found, cut before the first one after that. A token
  more appends its text to the whole generation (`FlattenAppend`, by induction over
  the tokens), and what the search finds in the unsent part are all stop words of the
  whole text (`AllStopsFound`), so the first found is the first of all.
- `SystemPromptProofs!SystemTypeCorrect`: `Spec => []TypeOK`. `TypeInv` adds how far each
  slot is with its task (`Progress`).
- `SystemPromptProofs!OwnPartAlwaysComplete`: `Spec => []OwnPartComplete` if the system
  prompt can always be decoded (`FALSE \notin SystemDecodes`). `CacheInv`: while an update
  is due no slot with a task has evaluated anything; otherwise `system_tokens` are
  those of `system_prompt`, every sequence starts with their cells, also an idle
  one's, and behind them and the reused positions are the tokens its task evaluated,
  under that prompt. Of the reused positions nothing is said: what should hold of
  them, `ReuseIsComputed`, is false.

- `DispatchProofs!DispatchTypes` and `AlwaysLaunchedAsAsked`: `Spec => []TypeOK` and
  `Spec => []LaunchedAsAsked`. A slot's parameters are written by its last launch
  only (`LaunchedIs`), and a launch that gives up leaves the slot idle. The fold
  over `logit_bias` is found by induction over the array (`BiasDecided`): after `n`
  entries the last of them that names a token decides on it.
- `DispatchProofs!NeverDeferredInVain`: `Spec => []DeferredBehindBusy` if `ClockStep = 1`:
  then every free slot was used before now, so a task that finds none finds all
  busy; a launch only makes slots busy, and a release brings all deferred tasks
  back. With `ClockStep = 0` the property is false.
- `DispatchProofs!AlwaysBestSlotTaken`: `Spec => BestSlotTaken`.

- `NativeLibraryProofs!TypeCorrect`: `Spec => []TypeOK`, for any number of threads and
  models; `TypeOK` is inductive.
- `HandlersBeforeLoopAlways`: `Spec => []HandlersBeforeLoop`. The stage of a model
  follows the place of the one thread that loads it (`LoadersInv`, `OneLoader`), which
  holds because the model's `ctx` is set last, so that nobody can close it before
  (`ClosersInv`), and because the loop is still `none` until `StartThread`.
- `CallbackSettledAlways`: `Spec => []CallbackSettled`, for any number of threads in
  `setLogger` at once. `SettledInv`: while `log_callback` is set and its reference is not
  alive, somebody is in `setLogger`; the thread that released the reference last leaves
  it with a new one, or with `log_callback` cleared, and until then `log_callback`
  is set only together with a new one. `AttachedInv` says where a thread may be that is on its way to Java: in
  a phase with messages, in an attached thread.

Only model-checked:

- `RequestAnswered` and `TerminatedLoopEnds`, which are liveness under fairness. The
  properties of the runs that end in a violation are false, and proved nowhere.

## 5. Not modelled

- Multi-prompt tasks: `InferenceParameters` sends one prompt string. An array of strings
  could only come from a JSON text made by hand, and `receiveCompletion`
  (`jllama.cpp` 514) reads `data["content"]`, which the combined result
  (`{"results": [...]}`) does not have; no call of the API gets an answer from there.
- METRICS and SLOT_* tasks, which nothing in this repository posts.
- Self-extend (`ga_n > 1`), infill's token order, probabilities (`n_probs`), the values
  of logits, the grammar's meaning.
- Parameter parsing at load (`server_params_parse`), the library loader, timings and
  metrics: no control depends on their state.
- Iterators used after an exception or by two threads.

## 6. Plan

1. The delivery theorems after a batch that failed for good: what is left of
   `AnsweredOnce` for the requests whose slots it did not touch.
2. Self-extend as an extension of `SlotCache`, with retries of a chunk.
3. An unbounded stream of tasks, for starvation of deferred ones.
