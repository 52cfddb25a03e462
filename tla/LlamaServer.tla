---------------------------- MODULE LlamaServer ----------------------------
(***************************************************************************)
(* The inference server behind the JNI binding: Java threads post tasks on *)
(* server_queue, one loop thread (server_queue::start_loop) pops them,     *)
(* launches them on slots, batches the tokens of all slots, decodes and    *)
(* samples, and answers through server_response, where the Java threads    *)
(* wait in recv().                                                         *)
(*                                                                         *)
(* The grain is the mutex: two critical sections (mutex_tasks,             *)
(* mutex_results) are never in one action, and what the loop thread does   *)
(* between two of them touches only its own state (slots, batch).  A       *)
(* prompt is its number of tokens, a token stream its length.              *)
(***************************************************************************)
EXTENDS Integers, SequencesExt

CONSTANTS
  Clients,        \* Java threads, each busy with one request at a time
  Requests,       \* [kind, len, bad, id_slot] records a thread may issue
  NSlots,         \* params.n_parallel
  NBatch,         \* llama_n_batch(ctx)
  NUBatch,        \* llama_n_ubatch(ctx)
  NPredict,       \* n_predict of every request
  ContBatching,   \* params.cont_batching
  CachePrompt,    \* cache_prompt of every request
  DecodeResults,  \* what llama_decode may return: 0, 1 (no KV room), -1
  ClockTies,      \* may a slot be asked for in the microsecond of its release?
  MaxTasks        \* bound: requests issued in a behaviour

Slots == 0 .. NSlots - 1
Kinds == {"complete", "generate", "embed"}
AnySlot == -1                   \* the id_slot of a request that names none
RequestType == [kind : Kinds, len : Nat, bad : BOOLEAN, id_slot : Int]
NoRequest ==                                          \* before the first
  [kind |-> "embed", len |-> 0, bad |-> FALSE, id_slot |-> AnySlot]

ASSUME SlotsAssumption   == NSlots \in Nat \ {0}
ASSUME BatchAssumption   == NBatch \in Nat \ {0} /\ NUBatch \in 1 .. NBatch
ASSUME PredictAssumption == NPredict \in Nat \ {0}
ASSUME RequestAssumption == Requests \subseteq RequestType
ASSUME OptionAssumption  == ContBatching \in BOOLEAN /\ CachePrompt \in BOOLEAN
ASSUME ClockAssumption   == ClockTies \in BOOLEAN
ASSUME DecodeAssumption  == DecodeResults \subseteq {-1, 0, 1}
ASSUME TasksAssumption   == MaxTasks \in Nat

VARIABLES
  next_id,               \* server_queue::id
  queue_tasks,           \* server_queue::queue_tasks
  queue_tasks_deferred,  \* server_queue::queue_tasks_deferred
  waiting_task_ids,      \* server_response::waiting_task_ids
  queue_results,         \* server_response::queue_results
  slots,                 \* server_context::slots
  just_released,         \* slots whose t_last_used is the current microsecond
  pc,                    \* where the loop thread is
  cur,                   \* its slot cursor inside a loop over the slots
  n_tokens,              \* batch.n_tokens
  n_batch,               \* local n_batch of update_slots, halved on retry
  i_chunk,               \* local i: first token of the chunk to decode
  batch_type,            \* -1: none, 0: non-embedding, 1: embedding
  jpc,                   \* where each Java thread is in its native call
  task_id,               \* the id_task it got
  request                \* the request it issued

queueVars  == <<next_id, queue_tasks, queue_tasks_deferred>>
resultVars == <<waiting_task_ids, queue_results>>
batchVars  == <<n_tokens, n_batch, i_chunk, batch_type>>
loopVars   == <<slots, just_released, pc, cur, batchVars>>
clientVars == <<jpc, task_id, request>>
vars == <<queueVars, resultVars, loopVars, clientVars>>

(***************************************************************************)
(* Tasks, results and slots.                                               *)
(***************************************************************************)
Completion(t, r) == [type |-> "COMPLETION", id |-> t, request |-> r]
Cancel(t)        == [type |-> "CANCEL", id_target |-> t]
NextResponse     == [type |-> "NEXT_RESPONSE"]

Partial(t)    == [id |-> t, stop |-> FALSE, error |-> FALSE]
ErrorUnflagged(t) == [id |-> t, stop |-> FALSE, error |-> FALSE]   \* mutant
Final(t)      == [id |-> t, stop |-> TRUE,  error |-> FALSE]
ErrorFor(t)   == [id |-> t, stop |-> FALSE, error |-> TRUE]
Terminal(res) == res.stop \/ res.error

FreshSlot == [state |-> "IDLE", command |-> "NONE", id_task |-> -1,
              embedding |-> FALSE, stream |-> FALSE, prompt |-> 0,
              n_prompt |-> 0, n_past |-> 0, n_decoded |-> 0, i_batch |-> -1]

Available(s)  == s.state = "IDLE" /\ s.command = "NONE"
Loading(s)    == s.state = "IDLE" /\ s.command = "LOAD_PROMPT"

\* server_slot::release: only a slot that is PROCESSING takes the command.
Released(s) == IF s.state = "PROCESSING" THEN [s EXCEPT !.command = "RELEASE"]
                                         ELSE s

\* The two lines every early exit of the prompt and decode loops starts with.
Aborted(s) == Released([s EXCEPT !.state = "PROCESSING", !.command = "NONE"])

\* server_response::send drops a result nobody waits for.
Send(res) == queue_results' = IF res.id \in waiting_task_ids
                              THEN Append(queue_results, res)
                              ELSE queue_results

Post(task) == queue_tasks' = Append(queue_tasks, task)

Init ==
  /\ next_id = 0
  /\ queue_tasks = <<>> /\ queue_tasks_deferred = <<>>
  /\ waiting_task_ids = {} /\ queue_results = <<>>
  /\ slots = [k \in Slots |-> FreshSlot]
  /\ just_released = {}
  /\ pc = "pop" /\ cur = 0
  /\ n_tokens = 0 /\ n_batch = NBatch /\ i_chunk = 0 /\ batch_type = -1
  /\ jpc = [c \in Clients |-> "idle"]
  /\ task_id = [c \in Clients |-> -1]
  /\ request = [c \in Clients |-> NoRequest]

-----------------------------------------------------------------------------
(***************************************************************************)
(* Java threads: LlamaModel.complete, LlamaIterator and LlamaModel.embed   *)
(* down to the critical sections of the native calls.                      *)
(***************************************************************************)
Go(c, to) == jpc' = [jpc EXCEPT ![c] = to]

GetNewId(c) ==
  /\ jpc[c] = "idle" /\ next_id < MaxTasks
  /\ \E r \in Requests : request' = [request EXCEPT ![c] = r]
  /\ task_id' = [task_id EXCEPT ![c] = next_id]
  /\ next_id' = next_id + 1
  /\ Go(c, "add")
  /\ UNCHANGED <<queue_tasks, queue_tasks_deferred, resultVars, loopVars>>

AddWaiting(c) ==
  /\ jpc[c] = "add"
  /\ waiting_task_ids' = waiting_task_ids \cup {task_id[c]}
  /\ Go(c, "post")
  /\ UNCHANGED <<queueVars, queue_results, loopVars, task_id, request>>

\* The iterator only posts; complete and embed go on to receive.
PostCompletion(c) ==
  /\ jpc[c] = "post"
  /\ Post(Completion(task_id[c], request[c]))
  /\ Go(c, IF request[c].kind = "generate" THEN "iter" ELSE "recv")
  /\ UNCHANGED <<next_id, queue_tasks_deferred, resultVars, loopVars,
                 task_id, request>>

\* LlamaIterator.next, called by the application while hasNext.
CallNext(c) ==
  /\ jpc[c] = "iter"
  /\ Go(c, "recv")
  /\ UNCHANGED <<queueVars, resultVars, loopVars, task_id, request>>

\* server_response::recv takes the first result of the task, then the native
\* call decides: embed and an answered request stop waiting, an iterator goes
\* on, complete returns whatever it got.
Recv(c) ==
  /\ jpc[c] = "recv"
  /\ \E i \in DOMAIN queue_results :
       LET res == queue_results[i] IN
       /\ res.id = task_id[c]
       /\ \A j \in 1 .. i - 1 : queue_results[j].id # task_id[c]
       /\ queue_results' = RemoveAt(queue_results, i)
       /\ Go(c, IF Terminal(res) \/ request[c].kind = "embed" THEN "remove"
                ELSE IF request[c].kind = "generate" THEN "iter" ELSE "idle")
  /\ UNCHANGED <<queueVars, waiting_task_ids, loopVars, task_id, request>>

RemoveWaiting(c) ==
  /\ jpc[c] = "remove"
  /\ waiting_task_ids' = waiting_task_ids \ {task_id[c]}
  /\ Go(c, "idle")
  /\ UNCHANGED <<queueVars, queue_results, loopVars, task_id, request>>

\* LlamaIterator.cancel: first the CANCEL task, then the id stops waiting.
PostCancel(c) ==
  /\ jpc[c] = "iter"
  /\ Post(Cancel(task_id[c]))
  /\ Go(c, "remove")
  /\ UNCHANGED <<next_id, queue_tasks_deferred, resultVars, loopVars,
                 task_id, request>>

ClientStep(c) ==
  \/ AddWaiting(c) \/ PostCompletion(c) \/ Recv(c) \/ RemoveWaiting(c)

ClientNext(c) == ClientStep(c) \/ GetNewId(c) \/ CallNext(c) \/ PostCancel(c)

-----------------------------------------------------------------------------
(***************************************************************************)
(* process_single_task, run by the loop thread for the task it popped.     *)
(***************************************************************************)
Pop == pc = "pop" /\ queue_tasks # <<>>

LinkedStreaming(s, task) ==     \* mutant: a slot that streamed goes on to
  [s EXCEPT !.id_task = task.id, !.n_prompt = 0, !.n_past = 0,
            !.embedding = (task.request.kind = "embed"),
            !.stream    = (s.stream \/ task.request.kind = "generate")]

\* slot.reset() and the fields of the task, whether the launch succeeds or not.
Linked(s, task) ==
  [s EXCEPT !.id_task = task.id, !.n_prompt = 0, !.n_past = 0,
            !.embedding = (task.request.kind = "embed"),
            !.stream    = (task.request.kind = "generate")]

LaunchedIdle(s, r) == [s EXCEPT !.prompt = r.len]  \* mutant: no LOAD_PROMPT

\* What launch_slot_with_task leaves when nothing is wrong with the request.
Launched(s, r) == [s EXCEPT !.prompt = r.len, !.command = "LOAD_PROMPT"]

\* The free slots a request may be launched on: the one it names, or any.
FreeFor(r) == {k \in Slots : Available(slots[k]) /\ r.id_slot \in {AnySlot, k}}

LaunchTask ==
  /\ Pop /\ Head(queue_tasks).type = "COMPLETION"
  /\ \E k \in FreeFor(Head(queue_tasks).request) :
       LET task == Head(queue_tasks)
           s    == Linked(slots[k], task) IN
       \/ /\ task.request.bad
          /\ slots' = [slots EXCEPT ![k] = s]
          /\ Send(ErrorFor(task.id))
       \/ /\ ~task.request.bad
          /\ slots' = [slots EXCEPT ![k] = Launched(s, task.request)]
          /\ UNCHANGED queue_results
  /\ queue_tasks' = Tail(queue_tasks)
  /\ UNCHANGED <<next_id, queue_tasks_deferred, waiting_task_ids, pc, cur,
                 batchVars, just_released, clientVars>>

\* A request that names a slot is deferred while the slot is busy, or is none
\* of the server's; another one while every slot is busy or was released in the
\* microsecond of the choice, because t_last_used must be less than the time.
DeferTask ==
  /\ Pop /\ Head(queue_tasks).type = "COMPLETION"
  /\ LET r == Head(queue_tasks).request
     IN  \A k \in FreeFor(r) : r.id_slot = AnySlot /\ k \in just_released
  /\ queue_tasks_deferred' = Append(queue_tasks_deferred, Head(queue_tasks))
  /\ queue_tasks' = Tail(queue_tasks)
  /\ UNCHANGED <<next_id, resultVars, loopVars, clientVars>>

\* The first slot linked with the target is released; nothing else is searched.
CancelTask ==
  /\ Pop /\ Head(queue_tasks).type = "CANCEL"
  /\ LET linked == {k \in Slots : slots[k].id_task = Head(queue_tasks).id_target}
     IN  slots' = [k \in Slots |->
                     IF k \in linked /\ \A j \in linked : k <= j
                     THEN Released(slots[k]) ELSE slots[k]]
  /\ queue_tasks' = Tail(queue_tasks)
  /\ UNCHANGED <<next_id, queue_tasks_deferred, resultVars, pc, cur,
                 batchVars, just_released, clientVars>>

SkipNextResponse ==
  /\ Pop /\ Head(queue_tasks).type = "NEXT_RESPONSE"
  /\ queue_tasks' = Tail(queue_tasks)
  /\ UNCHANGED <<next_id, queue_tasks_deferred, resultVars, loopVars,
                 clientVars>>

\* ggml_time_us; what it says is looked at when a task is popped.
ClockAdvances ==
  /\ pc = "pop" /\ just_released # {}
  /\ just_released' = {}
  /\ UNCHANGED <<queueVars, resultVars, slots, pc, cur, batchVars, clientVars>>

ProcessTask == LaunchTask \/ DeferTask \/ CancelTask \/ SkipNextResponse

-----------------------------------------------------------------------------
(***************************************************************************)
(* update_slots.                                                           *)
(***************************************************************************)
BeginUpdate ==
  /\ pc = "pop" /\ queue_tasks = <<>>
  /\ pc' = "release"
  /\ UNCHANGED <<queueVars, resultVars, slots, cur, batchVars,
                 just_released, clientVars>>

NotifyNobody ==        \* mutant: deferred tasks stay where they are
  UNCHANGED <<queue_tasks, queue_tasks_deferred>>

\* notify_slot_changed moves every deferred task back to the main queue.
NotifySlotChanged ==
  /\ queue_tasks' = queue_tasks \o queue_tasks_deferred
  /\ queue_tasks_deferred' = <<>>

\* Released slots become idle; the first of them finds the deferred tasks, the
\* others find none left.
ReleaseSlots ==
  LET done == {k \in Slots : slots[k].command = "RELEASE"} IN
  /\ pc = "release"
  /\ slots' = [k \in Slots |->
                 IF k \in done
                 THEN [slots[k] EXCEPT !.state = "IDLE", !.command = "NONE"]
                 ELSE slots[k]]
  /\ just_released' = IF ClockTies THEN just_released \cup done ELSE {}
  /\ IF done = {} THEN UNCHANGED <<queue_tasks, queue_tasks_deferred>>
     ELSE NotifySlotChanged
  /\ pc' = "idle"
  /\ UNCHANGED <<next_id, resultVars, cur, batchVars, clientVars>>

AllIdle ==
  /\ pc = "idle"
  /\ \A k \in Slots : Available(slots[k])
  /\ pc' = "wait"
  /\ UNCHANGED <<queueVars, resultVars, slots, cur, batchVars,
                 just_released, clientVars>>

PostNextResponse ==
  /\ pc = "idle"
  /\ \E k \in Slots : ~Available(slots[k])
  /\ Post(NextResponse)
  /\ pc' = "sampled"
  /\ UNCHANGED <<next_id, queue_tasks_deferred, resultVars, slots, cur,
                 batchVars, just_released, clientVars>>

Busy == {k \in Slots : slots[k].state # "IDLE"}

\* One sampled token per ongoing sequence, unchecked against the batch size.
AddSampledTokens ==
  /\ pc = "sampled"
  /\ slots' = [k \in Slots |->
                 IF k \in Busy
                 THEN [slots[k] EXCEPT
                         !.i_batch = Cardinality({j \in Busy : j < k}),
                         !.n_past = @ + 1]
                 ELSE slots[k]]
  /\ n_tokens' = Cardinality(Busy)
  /\ batch_type' = IF Busy = {} THEN -1 ELSE 0
  /\ n_batch' = NBatch /\ i_chunk' = 0 /\ cur' = 0
  /\ pc' = IF ContBatching \/ Busy = {} THEN "prompt" ELSE "decode"
  /\ UNCHANGED <<queueVars, resultVars, just_released, clientVars>>

\* `continue` skips the test that ends the loop over the slots.
ContinuePrompts ==
  /\ cur' = cur + 1
  /\ pc' = IF cur + 1 < NSlots THEN "prompt" ELSE "decode"

EndOfPromptBody(used) ==
  /\ cur' = cur + 1
  /\ pc' = IF cur + 1 < NSlots /\ used < n_batch THEN "prompt" ELSE "decode"

NothingToLoad ==
  /\ pc = "prompt" /\ ~Loading(slots[cur])
  /\ EndOfPromptBody(n_tokens)
  /\ UNCHANGED <<queueVars, resultVars, slots, batchVars,
                 just_released, clientVars>>

NotTokenized(s) == Loading(s) /\ s.n_prompt = 0

EmptyPrompt ==
  LET s == slots[cur] IN
  /\ pc = "prompt" /\ NotTokenized(s) /\ s.prompt = 0
  /\ slots' = [slots EXCEPT ![cur] = [Aborted(s) EXCEPT !.n_past = 0]]
  /\ Send(Final(s.id_task))
  /\ ContinuePrompts
  /\ UNCHANGED <<queueVars, waiting_task_ids, batchVars,
                 just_released, clientVars>>

TooLargeToEmbed ==
  LET s == slots[cur] IN
  /\ pc = "prompt" /\ NotTokenized(s) /\ s.embedding /\ s.prompt > NUBatch
  /\ slots' = [slots EXCEPT ![cur] =
                 [Aborted(s) EXCEPT !.n_past = 0, !.n_prompt = s.prompt]]
  /\ Send(ErrorFor(s.id_task))
  /\ ContinuePrompts
  /\ UNCHANGED <<queueVars, waiting_task_ids, batchVars,
                 just_released, clientVars>>

\* The slot once its prompt is tokenized: a cached prefix of any length is
\* reused, but at least one token is left to evaluate.
Tokenized(s) ==
  IF s.n_prompt # 0 THEN {s}
  ELSE {[s EXCEPT !.n_prompt = s.prompt, !.n_past = p] :
          p \in IF CachePrompt /\ ~s.embedding THEN 0 .. s.prompt - 1 ELSE {0}}

MayLoad(s) ==
  /\ Loading(s)
  /\ s.n_prompt = 0 => s.prompt > 0 /\ ~(s.embedding /\ s.prompt > NUBatch)

SlotType(s) == IF s.embedding THEN 1 ELSE 0
FitsBatch(s) == s.embedding => n_tokens + s.n_prompt <= n_batch
AnyType(s)   == TRUE         \* mutant: batch_type not looked at
RightType(s) == batch_type \in {-1, SlotType(s)}

PostponePrompt ==
  /\ pc = "prompt" /\ MayLoad(slots[cur])
  /\ \E s \in Tokenized(slots[cur]) :
       /\ ~(FitsBatch(s) /\ RightType(s))
       /\ slots' = [slots EXCEPT ![cur] = s]
  /\ ContinuePrompts
  /\ UNCHANGED <<queueVars, resultVars, batchVars, just_released, clientVars>>

TakenWhole(s) == s.n_prompt - s.n_past   \* mutant: no look at the room left

\* Tokens of the prompt that go in the batch while it has room.
Taken(s) == IF n_batch - n_tokens <= 0 THEN 0
            ELSE IF s.n_prompt - s.n_past <= n_batch - n_tokens
                 THEN s.n_prompt - s.n_past ELSE n_batch - n_tokens

LastOfPrompt(m)  == m - 1             \* mutant: counted from the slot's own tokens
LastInBatch(m)   == n_tokens + m - 1  \* batch.n_tokens - 1, the m tokens added

LoadedPrompt(s, m) ==
  IF s.n_past + m = s.n_prompt
  THEN [s EXCEPT !.n_past = @ + m, !.state = "PROCESSING", !.command = "NONE",
                 !.n_decoded = 0, !.i_batch = LastInBatch(m)]
  ELSE [s EXCEPT !.n_past = @ + m]

LoadPrompt ==
  /\ pc = "prompt" /\ MayLoad(slots[cur])
  /\ \E s \in Tokenized(slots[cur]) :
       /\ FitsBatch(s) /\ RightType(s)
       /\ slots' = [slots EXCEPT ![cur] = LoadedPrompt(s, Taken(s))]
       /\ n_tokens' = n_tokens + Taken(s)
       /\ batch_type' = SlotType(s)
       /\ EndOfPromptBody(n_tokens + Taken(s))
  /\ UNCHANGED <<queueVars, resultVars, n_batch, i_chunk,
                 just_released, clientVars>>

BatchPrompts == NothingToLoad \/ EmptyPrompt \/ TooLargeToEmbed
                  \/ PostponePrompt \/ LoadPrompt

-----------------------------------------------------------------------------
(***************************************************************************)
(* Decoding the batch in chunks of n_batch tokens, and sampling.           *)
(***************************************************************************)
EndDecode ==
  /\ pc = "decode" /\ i_chunk >= n_tokens
  /\ pc' = "wait"
  /\ UNCHANGED <<queueVars, resultVars, slots, cur, batchVars,
                 just_released, clientVars>>

NeverTooSmall(ret) == ret < 0         \* mutant: n_batch halved down to 0
Fatal(ret) == n_batch = 1 \/ ret < 0

Decode ==
  /\ pc = "decode" /\ i_chunk < n_tokens
  /\ \E ret \in DecodeResults :
       \/ /\ ret = 0
          /\ pc' = "sample" /\ cur' = 0 /\ UNCHANGED n_batch
       \/ /\ ret # 0 /\ Fatal(ret)
          /\ pc' = "fail" /\ cur' = 0 /\ UNCHANGED n_batch
       \/ /\ ret # 0 /\ ~Fatal(ret)         \* i -= n_batch; i += n_batch
          /\ n_batch' = n_batch \div 2 /\ UNCHANGED <<pc, cur>>
  /\ UNCHANGED <<queueVars, resultVars, slots, n_tokens, i_chunk, batch_type,
                 just_released, clientVars>>

\* A failed decode ends the batch with an error to the task of every slot.
FailSlot ==
  /\ pc = "fail"
  /\ slots' = [slots EXCEPT ![cur] = Aborted(@)]
  /\ Send(ErrorFor(slots[cur].id_task))
  /\ cur' = cur + 1
  /\ pc' = IF cur + 1 < NSlots THEN "fail" ELSE "wait"
  /\ UNCHANGED <<queueVars, waiting_task_ids, batchVars,
                 just_released, clientVars>>

ChunkEndShort == IF n_tokens - i_chunk < n_batch     \* mutant: off by one
                 THEN n_tokens ELSE i_chunk + n_batch - 1
ChunkEnd == IF n_tokens - i_chunk < n_batch THEN n_tokens ELSE i_chunk + n_batch

\* Slots, from the cursor on, whose logits are in the decoded chunk.
Hits == {k \in Slots : /\ k >= cur /\ slots[k].state = "PROCESSING"
                       /\ slots[k].i_batch \in i_chunk .. ChunkEnd - 1}

FirstHit(k) == pc = "sample" /\ k \in Hits /\ \A j \in Hits : k <= j

Unreleased(s) == [s EXCEPT !.i_batch = -1]           \* mutant: no release
Finished(s)   == [Released(s) EXCEPT !.i_batch = -1]

SendEmbedding ==
  /\ \E k \in Slots :
       /\ FirstHit(k) /\ slots[k].embedding
       /\ Send(Final(slots[k].id_task))
       /\ slots' = [slots EXCEPT ![k] = Finished(@)]
       /\ cur' = k + 1
  /\ UNCHANGED <<queueVars, waiting_task_ids, pc, batchVars,
                 just_released, clientVars>>

Sampled(s, more) == [s EXCEPT !.n_decoded = @ + 1,
                              !.i_batch = IF more THEN -1 ELSE @]

\* Sampling and process_token: a streamed token is sent unless it ends inside
\* a UTF-8 character; the sequence goes on while no end, stop word or limit is
\* met.
SampleToken ==
  /\ \E k \in Slots, sent \in BOOLEAN, more \in BOOLEAN :
       LET s == slots[k] IN
       /\ FirstHit(k) /\ ~s.embedding
       /\ sent => s.stream
       /\ more => s.n_decoded + 1 < NPredict
       /\ IF sent THEN Send(Partial(s.id_task)) ELSE UNCHANGED queue_results
       /\ slots' = [slots EXCEPT ![k] = Sampled(s, more)]
       /\ pc' = IF more THEN "sample" ELSE "finish"
       /\ cur' = IF more THEN k + 1 ELSE k
  /\ UNCHANGED <<queueVars, waiting_task_ids, batchVars,
                 just_released, clientVars>>

FinishSlot ==
  /\ pc = "finish"
  /\ slots' = [slots EXCEPT ![cur] = Finished(@)]
  /\ Send(Final(slots[cur].id_task))
  /\ cur' = cur + 1 /\ pc' = "sample"
  /\ UNCHANGED <<queueVars, waiting_task_ids, batchVars,
                 just_released, clientVars>>

NextChunk ==
  /\ pc = "sample" /\ Hits = {}
  /\ i_chunk' = i_chunk + n_batch
  /\ pc' = "decode"
  /\ UNCHANGED <<queueVars, resultVars, slots, cur, n_tokens, n_batch,
                 batch_type, just_released, clientVars>>

DecodeBatch == EndDecode \/ Decode \/ FailSlot \/ SendEmbedding \/ SampleToken
                 \/ FinishSlot \/ NextChunk

\* condition_tasks.wait: the loop sleeps here while the queue is empty.
WaitForTask ==
  /\ pc = "wait" /\ queue_tasks # <<>>
  /\ pc' = "pop"
  /\ UNCHANGED <<queueVars, resultVars, slots, cur, batchVars,
                 just_released, clientVars>>

LoopStep == ProcessTask \/ ClockAdvances \/ BeginUpdate \/ ReleaseSlots
              \/ AllIdle \/ PostNextResponse \/ AddSampledTokens \/ BatchPrompts
              \/ DecodeBatch \/ WaitForTask

-----------------------------------------------------------------------------
Next == LoopStep \/ \E c \in Clients : ClientNext(c)

Spec == Init /\ [][Next]_vars

\* The loop thread keeps running, and so does a Java thread inside a native
\* call; issuing a request, calling next() or cancel() is the application's
\* choice.
FairSpec == /\ Spec
            /\ WF_vars(LoopStep)
            /\ \A c \in Clients : WF_vars(ClientStep(c))

-----------------------------------------------------------------------------
(***************************************************************************)
(* What the server promises.                                               *)
(***************************************************************************)
TaskIds == 0 .. next_id - 1
CompletionTask == [type : {"COMPLETION"}, id : Nat, request : RequestType]
TaskType == CompletionTask
              \cup [type : {"CANCEL"}, id_target : Nat]
              \cup [type : {"NEXT_RESPONSE"}]
ResultType == [id : Int, stop : BOOLEAN, error : BOOLEAN]
SlotRecord == [state : {"IDLE", "PROCESSING"},
               command : {"NONE", "LOAD_PROMPT", "RELEASE"},
               id_task : Int, embedding : BOOLEAN, stream : BOOLEAN,
               prompt : Nat, n_prompt : Nat, n_past : Nat, n_decoded : Nat,
               i_batch : Int]
LoopPcs == {"pop", "release", "idle", "sampled", "prompt", "decode", "fail",
            "sample", "finish", "wait"}
ClientPcs == {"idle", "add", "post", "iter", "recv", "remove"}

\* The type invariant.
TypeOK ==
  /\ next_id \in Nat
  /\ queue_tasks \in Seq(TaskType)
  /\ queue_tasks_deferred \in Seq(CompletionTask)
  /\ waiting_task_ids \subseteq Nat
  /\ queue_results \in Seq(ResultType)
  /\ slots \in [Slots -> SlotRecord]
  /\ just_released \subseteq (IF ClockTies THEN Slots ELSE {})
  /\ pc \in LoopPcs /\ cur \in 0 .. NSlots
  /\ pc \in {"prompt", "fail", "finish"} => cur \in Slots
  /\ n_tokens \in Nat /\ n_batch \in 1 .. NBatch /\ i_chunk \in Nat
  /\ batch_type \in {-1, 0, 1}
  /\ jpc \in [Clients -> ClientPcs]
  /\ task_id \in [Clients -> Int]
  /\ request \in [Clients -> RequestType]

Working(s) == Loading(s) \/ (s.state = "PROCESSING" /\ s.command = "NONE")

Queued(t)    == \E i \in DOMAIN queue_tasks :
                  queue_tasks[i].type = "COMPLETION" /\ queue_tasks[i].id = t
Deferred(t)  == \E i \in DOMAIN queue_tasks_deferred :
                  queue_tasks_deferred[i].id = t
InSlot(t)    == \E k \in Slots : slots[k].id_task = t /\ Working(slots[k])
Answered(t)  == \E i \in DOMAIN queue_results :
                  queue_results[i].id = t /\ Terminal(queue_results[i])
Pending(t)   == Queued(t) \/ Deferred(t) \/ InSlot(t)

\* A request is never lost: while its thread still wants results, the task is
\* queued, deferred or worked on by a slot, or its last result is there to be
\* received.  (process_single_task, defer, notify_slot_changed, update_slots
\* and send hand the task on; a task dropped by one of them blocks the caller
\* of complete() or next() forever.)
NoLostRequest ==
  \A c \in Clients : jpc[c] \in {"iter", "recv"} =>
     Pending(task_id[c]) \/ Answered(task_id[c])

\* Two kinds of requests nobody comes back to: one that names no slot of the
\* server, and one that was passed over because its slot was released in the
\* same microsecond.
PassedOver(r) == \/ r.id_slot = AnySlot /\ ClockTies
                 \/ r.id_slot \notin Slots \cup {AnySlot}

\* The loop thread sleeps only with nothing left that it could do: when it waits
\* on condition_tasks with an empty queue no slot is busy, because update_slots
\* posts NEXT_RESPONSE whenever a slot is not idle, and no task is deferred
\* behind a slot, its own or any, because each released slot brings the deferred
\* tasks back; what is left are requests that were passed over with every slot
\* they could have taken free.
SleepsOnlyWhenDone ==
  pc = "wait" /\ queue_tasks = <<>> =>
     /\ \A k \in Slots : Available(slots[k])
     /\ \A i \in DOMAIN queue_tasks_deferred :
          PassedOver(queue_tasks_deferred[i].request)

\* The terminal result of a task is its last trace: there is one, and the task
\* is nowhere else in the server when it is sent.  (A slot that is sampled
\* again, or an error sent for an answered task, would answer twice.)
AnsweredOnce ==
  \A i, j \in DOMAIN queue_results :
     Terminal(queue_results[i]) =>
       /\ ~Pending(queue_results[i].id)
       /\ queue_results[j].id = queue_results[i].id => j <= i

\* Every sequence in the batch is sampled once per pass: at the end of
\* update_slots no working slot still holds the index of an unsampled token,
\* however often the decode loop halved n_batch and went on from token i.
AllSampled ==
  pc = "wait" => \A k \in Slots :
     slots[k].state = "PROCESSING" /\ slots[k].command = "NONE" =>
        slots[k].i_batch = -1

\* Two sequences never sample the same logits: working slots that have a token
\* in the batch have it at different indices, inside the batch.  (Whose token
\* is at an index the batch of this module does not record.)
OwnLogits ==
  pc \in {"prompt", "decode", "sample"} => \A k, m \in Slots :
     LET processing(j) == slots[j].state = "PROCESSING" /\ slots[j].i_batch # -1
     IN  processing(k) => /\ slots[k].i_batch < n_tokens
                          /\ processing(m) /\ k # m =>
                               slots[k].i_batch # slots[m].i_batch

\* update_slots "will always submit a maximum of n_batch tokens": the batch was
\* allocated with llama_batch_init(n_batch) in server_context::init, and the
\* loop that adds the sampled tokens does not look at its size.  It holds for
\* any number of slots, because a slot only starts generating in a pass whose
\* batch had room for the end of its prompt.
BatchWithinCapacity == n_tokens <= NBatch

\* An embedding prompt goes whole into one batch, and never into one with a
\* generation.  (A decode retried with half the batch may still split it.)
EmbeddingsUnmixed ==
  /\ \A k \in Slots : slots[k].embedding /\ Loading(slots[k]) =>
        slots[k].n_past = 0
  /\ pc \in {"decode", "sample"} =>
        \A k \in Hits : slots[k].embedding <=> batch_type = 1

\* Whoever waits in a native call is answered, if the slot it names, when it names
\* one, exists, and no task is passed over because a clock tick is missing
\* (PassedOver): the failed and halved batches, and a slot that is busy with
\* another request, are no reason to wait for ever.
RequestAnswered ==
  \A c \in Clients : jpc[c] = "recv" ~> jpc[c] # "recv"

\* Handling a CANCEL stops the task: no slot works on it any more and it does
\* not come back from the deferred queue.
CancelStops ==
  [][\A t \in TaskIds : CancelTask /\ Head(queue_tasks).id_target = t =>
                          ~InSlot(t)' /\ ~Deferred(t)']_vars

InCall(c) == jpc[c] \in {"iter", "recv"}
OwnPartials(c) == {i \in DOMAIN queue_results : /\ queue_results[i].id = task_id[c]
                                                /\ ~Terminal(queue_results[i])}

\* What each Java thread sees of the server: its call, the kind of its request,
\* and the results of its task that it has not received.
Phase    == [c \in Clients |-> IF InCall(c) THEN jpc[c] ELSE "idle"]
Kind     == [c \in Clients |-> request[c].kind]
Partials == [c \in Clients |-> IF InCall(c) THEN Cardinality(OwnPartials(c)) ELSE 0]
Closed   == [c \in Clients |-> InCall(c) /\ Answered(task_id[c])]

\* The server implements the service its API promises: seen from each Java
\* thread, whatever the others ask and cancel, its results are those of its own
\* task, in the order they were sent, with one last result and partial ones
\* before it only for who streams.
CompletionService == INSTANCE CompletionService WITH
  phase <- Phase, kind <- Kind, partials <- Partials, closed <- Closed
Service == CompletionService!Spec

=============================================================================
