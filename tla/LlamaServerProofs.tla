-------------------------- MODULE LlamaServerProofs --------------------------
(***************************************************************************)
(* Proofs about LlamaServer, for every number of slots, threads and        *)
(* requests, and for every result of llama_decode: its types, and that     *)
(* tasks get where they should.                                            *)
(***************************************************************************)
EXTENDS LlamaServer, FiniteSetTheorems, TLAPS

(***************************************************************************)
(* Sequences: what the queue operations keep.                              *)
(***************************************************************************)
LEMMA AppendLemma ==
  ASSUME NEW S, NEW s \in Seq(S), NEW e \in S
  PROVE  /\ Append(s, e) \in Seq(S)
         /\ Append(s, e) # <<>>
         /\ DOMAIN Append(s, e) = 1 .. Len(s) + 1
         /\ \A i \in DOMAIN s : i \in DOMAIN Append(s, e) /\ Append(s, e)[i] = s[i]
         /\ Append(s, e)[Len(s) + 1] = e
  OBVIOUS

LEMMA TailLemma ==
  ASSUME NEW S, NEW s \in Seq(S), s # <<>>
  PROVE  /\ Tail(s) \in Seq(S)
         /\ Head(s) = s[1] /\ Head(s) \in S /\ 1 \in DOMAIN s
         /\ \A i \in DOMAIN s : i # 1 => i - 1 \in DOMAIN Tail(s) /\ Tail(s)[i - 1] = s[i]
         /\ \A i \in DOMAIN Tail(s) : i + 1 \in DOMAIN s /\ Tail(s)[i] = s[i + 1]
  OBVIOUS

LEMMA ConcatLemma ==
  ASSUME NEW S, NEW s \in Seq(S), NEW t \in Seq(S)
  PROVE  /\ s \o t \in Seq(S)
         /\ \A i \in DOMAIN s : i \in DOMAIN (s \o t) /\ (s \o t)[i] = s[i]
         /\ \A i \in DOMAIN t :
              Len(s) + i \in DOMAIN (s \o t) /\ (s \o t)[Len(s) + i] = t[i]
         /\ \A i \in DOMAIN (s \o t) : \/ i \in DOMAIN s /\ (s \o t)[i] = s[i]
                                       \/ i - Len(s) \in DOMAIN t
                                          /\ (s \o t)[i] = t[i - Len(s)]
  OBVIOUS

LEMMA SeqMonotone ==
  ASSUME NEW S, NEW T, S \subseteq T, NEW s \in Seq(S)
  PROVE  s \in Seq(T)
  <1>1. Len(s) \in Nat /\ s = [i \in 1 .. Len(s) |-> s[i]]
    OBVIOUS
  <1>2. \A i \in 1 .. Len(s) : s[i] \in T
    OBVIOUS
  <1> QED BY <1>1, <1>2

LEMMA RemoveAtLemma ==
  ASSUME NEW S, NEW s \in Seq(S), NEW i \in DOMAIN s
  PROVE  /\ RemoveAt(s, i) \in Seq(S)
         /\ \A j \in DOMAIN s : j # i =>
              \E m \in DOMAIN RemoveAt(s, i) : RemoveAt(s, i)[m] = s[j]
  <1> DEFINE a == SubSeq(s, 1, i - 1)
             b == SubSeq(s, i + 1, Len(s))
  <1>1. /\ a \in Seq(S)
        /\ \A j \in DOMAIN s : j < i => j \in DOMAIN a /\ a[j] = s[j]
    OBVIOUS
  <1>2. /\ b \in Seq(S)
        /\ \A j \in DOMAIN s : j > i => j - i \in DOMAIN b /\ b[j - i] = s[j]
    <2>1. Len(b) = Len(s) - i /\ b \in Seq(S)
      OBVIOUS
    <2>2. \A j \in 1 .. Len(s) - i : b[j] = s[i + j]
      OBVIOUS
    <2> QED BY <2>1, <2>2
  <1>3. RemoveAt(s, i) = a \o b
    BY DEF RemoveAt
  <1> HIDE DEF a, b
  <1>4. \A j \in DOMAIN s : j # i =>
              \E m \in DOMAIN (a \o b) : (a \o b)[m] = s[j]
    <2> SUFFICES ASSUME NEW j \in DOMAIN s, j # i
                 PROVE  \E m \in DOMAIN (a \o b) : (a \o b)[m] = s[j]
      OBVIOUS
    <2>1. CASE j < i
      BY <1>1, <1>2, <2>1, ConcatLemma
    <2>2. CASE j > i
      <3>1. j - i \in DOMAIN b /\ b[j - i] = s[j]
        BY <1>2, <2>2
      <3>2. Len(a) + (j - i) \in DOMAIN (a \o b) /\ (a \o b)[Len(a) + (j - i)] = b[j - i]
        <4>1. \A m \in DOMAIN b :
                Len(a) + m \in DOMAIN (a \o b) /\ (a \o b)[Len(a) + m] = b[m]
          BY SMTT(20), <1>1, <1>2, ConcatLemma
        <4> QED BY <3>1, <4>1
      <3> QED BY <3>1, <3>2
    <2> QED BY <2>1, <2>2
  <1> QED BY <1>1, <1>2, <1>3, <1>4, ConcatLemma

(***************************************************************************)
(* Type correctness.  Three facts make TypeOK inductive: a busy Java       *)
(* thread holds an id that was issued, a slot that is loading still has a  *)
(* part of its prompt to put in a batch, and the slot that the loop        *)
(* finishes is a busy one.                                                 *)
(***************************************************************************)
IssuedIds == \A c \in Clients : jpc[c] # "idle" => task_id[c] \in TaskIds

PromptLeft ==
  \A k \in Slots : Loading(slots[k]) =>
     \/ slots[k].n_prompt = 0 /\ slots[k].n_past = 0
     \/ slots[k].n_past < slots[k].n_prompt

FinishBusy == pc = "finish" => slots[cur].state = "PROCESSING"

TypeInv == TypeOK /\ IssuedIds /\ PromptLeft /\ FinishBusy

USE DEF Slots, Kinds, RequestType, TaskType, ResultType, LoopPcs, ClientPcs

LEMMA SlotSubset ==
  ASSUME NEW T \in SUBSET Slots
  PROVE  IsFiniteSet(T) /\ Cardinality(T) \in Nat
  <1>1. IsFiniteSet(Slots)
    BY SlotsAssumption, FS_Interval
  <1>2. IsFiniteSet(T)
    BY <1>1, FS_Subset
  <1> QED BY <1>2, FS_CardinalityType

LEMMA TypeInit == Init => TypeInv
  BY SlotsAssumption, BatchAssumption, SMTT(30)
  DEF Init, TypeInv, TypeOK, IssuedIds, PromptLeft, FinishBusy, FreshSlot, NoRequest,
      AnySlot, SlotRecord, Loading

\* The steps of a Java thread.
LEMMA TypeClient ==
  ASSUME TypeInv, NEW c \in Clients, ClientNext(c)
  PROVE  TypeInv'
  <1> USE RequestAssumption DEF TypeInv, TypeOK
  <1>1. UNCHANGED <<slots, just_released, pc, cur, n_tokens, n_batch, i_chunk,
                    batch_type>>
    BY DEF ClientNext, ClientStep, GetNewId, AddWaiting, PostCompletion, CallNext,
       Recv, RemoveWaiting, PostCancel, loopVars, batchVars
  <1>2. PromptLeft' /\ FinishBusy'
    BY <1>1 DEF PromptLeft, Loading, FinishBusy
  <1>3. CASE GetNewId(c)
    <2>1. /\ jpc' = [jpc EXCEPT ![c] = "add"]
          /\ next_id' = next_id + 1
          /\ task_id' = [task_id EXCEPT ![c] = next_id]
          /\ UNCHANGED <<queue_tasks, queue_tasks_deferred, queue_results,
                          waiting_task_ids>>
      BY <1>3 DEF GetNewId, Go, resultVars
    <2>2. request' \in [Clients -> RequestType]
      BY <1>3 DEF GetNewId
    <2>3. IssuedIds'
      BY <1>1, <2>1 DEF IssuedIds, TaskIds
    <2>4. /\ jpc' \in [Clients -> ClientPcs]
          /\ task_id' \in [Clients -> Int]
          /\ next_id' \in Nat
      BY <2>1
    <2>5. TypeOK'
      BY <1>1, <2>1, <2>2, <2>4
    <2> QED
      BY <1>2, <2>3, <2>5
  <1>4. CASE AddWaiting(c)
    <2>1. task_id[c] \in Nat
      BY <1>4 DEF AddWaiting, IssuedIds, TaskIds
    <2>2. waiting_task_ids' \subseteq Nat
      BY <1>4, <2>1, Zenon DEF AddWaiting
    <2> QED
      BY <1>1, <1>2, <1>4, <2>2 DEF AddWaiting, Go, IssuedIds, TaskIds, queueVars
  <1>5. CASE PostCompletion(c)
    <2>1. Completion(task_id[c], request[c]) \in TaskType
      BY <1>5 DEF PostCompletion, IssuedIds, TaskIds, Completion, CompletionTask
    <2>2. queue_tasks' \in Seq(TaskType)
      BY <1>5, <2>1, AppendLemma DEF PostCompletion, Post
    <2> QED
      BY <1>1, <1>2, <1>5, <2>2 DEF PostCompletion, Go, IssuedIds, TaskIds, resultVars
  <1>6. CASE CallNext(c)
    BY <1>1, <1>2, <1>6 DEF CallNext, Go, IssuedIds, TaskIds, queueVars, resultVars
  <1>7. CASE Recv(c)
    <2>1. queue_results' \in Seq(ResultType)
      BY <1>7, RemoveAtLemma DEF Recv
    <2> QED
      BY <1>1, <1>2, <1>7, <2>1 DEF Recv, Go, IssuedIds, TaskIds, queueVars
  <1>8. CASE RemoveWaiting(c)
    BY <1>1, <1>2, <1>8 DEF RemoveWaiting, Go, IssuedIds, TaskIds, queueVars
  <1>9. CASE PostCancel(c)
    <2>1. Cancel(task_id[c]) \in TaskType
      BY <1>9 DEF PostCancel, IssuedIds, TaskIds, Cancel
    <2>2. queue_tasks' \in Seq(TaskType)
      BY <1>9, <2>1, AppendLemma DEF PostCancel, Post
    <2> QED
      BY <1>1, <1>2, <1>9, <2>2 DEF PostCancel, Go, IssuedIds, TaskIds, resultVars
  <1> QED
    BY <1>3, <1>4, <1>5, <1>6, <1>7, <1>8, <1>9 DEF ClientNext, ClientStep

\* Results go to threads that wait: send keeps the queue a sequence of results.
LEMMA SendType ==
  ASSUME queue_results \in Seq(ResultType), NEW res \in ResultType, Send(res)
  PROVE  queue_results' \in Seq(ResultType)
  BY AppendLemma DEF Send

LEMMA ResultsAreTyped ==
  ASSUME NEW t \in Int
  PROVE  Partial(t) \in ResultType /\ Final(t) \in ResultType
           /\ ErrorFor(t) \in ResultType
  BY DEF Partial, Final, ErrorFor

LEMMA AbortedType ==
  ASSUME NEW s \in SlotRecord
  PROVE  /\ Released(s) \in SlotRecord /\ Aborted(s) \in SlotRecord
         /\ Aborted(s).state = "PROCESSING" /\ Aborted(s).command = "RELEASE"
         /\ Aborted(s).id_task = s.id_task
         /\ s.state = "PROCESSING" => Released(s).command = "RELEASE"
         /\ Released(s).state = s.state /\ Released(s).id_task = s.id_task
         /\ Released(s).n_past = s.n_past /\ Released(s).n_prompt = s.n_prompt
  BY DEF SlotRecord, Aborted, Released

\* One field at a time: what the updates of a slot that follow are made of.
LEMMA SetField ==
  ASSUME NEW s \in SlotRecord
  PROVE  /\ \A v \in Int : [s EXCEPT !.id_task = v] \in SlotRecord
         /\ \A v \in Int : [s EXCEPT !.i_batch = v] \in SlotRecord
         /\ \A v \in Nat : [s EXCEPT !.n_prompt = v] \in SlotRecord
         /\ \A v \in Nat : [s EXCEPT !.n_past = v] \in SlotRecord
         /\ \A v \in Nat : [s EXCEPT !.n_decoded = v] \in SlotRecord
         /\ \A v \in BOOLEAN : [s EXCEPT !.embedding = v] \in SlotRecord
         /\ \A v \in BOOLEAN : [s EXCEPT !.stream = v] \in SlotRecord
  BY DEF SlotRecord

SameTask(r, s) ==
  r.state = s.state /\ r.command = s.command /\ r.id_task = s.id_task

LEMMA SetKeepsTask ==
  ASSUME NEW s \in SlotRecord
  PROVE  /\ [s EXCEPT !.i_batch = -1] \in SlotRecord
         /\ SameTask([s EXCEPT !.i_batch = -1], s)
         /\ [s EXCEPT !.i_batch = -1].n_past = s.n_past
         /\ [s EXCEPT !.i_batch = -1].n_prompt = s.n_prompt
         /\ [s EXCEPT !.n_past = 0] \in SlotRecord
         /\ SameTask([s EXCEPT !.n_past = 0], s)
         /\ \A v \in Nat : SameTask([s EXCEPT !.n_prompt = v], s)
  <1>1. -1 \in Int /\ 0 \in Nat
    OBVIOUS
  <1>2. [s EXCEPT !.i_batch = -1] \in SlotRecord /\ [s EXCEPT !.n_past = 0] \in SlotRecord
    BY <1>1, SetField
  <1> QED BY <1>2 DEF SlotRecord, SameTask

LEMMA LinkedType ==
  ASSUME NEW s \in SlotRecord, NEW task \in CompletionTask
  PROVE  /\ Linked(s, task) \in SlotRecord
         /\ Linked(s, task).n_prompt = 0 /\ Linked(s, task).n_past = 0
         /\ Linked(s, task).state = s.state
         /\ Linked(s, task).command = s.command
         /\ Linked(s, task).id_task = task.id
  <1> DEFINE em == task.request.kind = "embed"
             st == task.request.kind = "generate"
             r1 == [s EXCEPT !.id_task = task.id]
             r2 == [r1 EXCEPT !.n_prompt = 0]
             r3 == [r2 EXCEPT !.n_past = 0]
             r4 == [r3 EXCEPT !.embedding = em]
             r5 == [r4 EXCEPT !.stream = st]
             keeps(r) == /\ r \in SlotRecord
                         /\ r.state = s.state /\ r.command = s.command
                         /\ r.id_task = task.id
  <1>0. em \in BOOLEAN /\ st \in BOOLEAN
    OBVIOUS
  <1>1. keeps(r1)
    BY SetField DEF CompletionTask, SlotRecord
  <1> HIDE DEF r1
  <1>2. keeps(r2) /\ r2.n_prompt = 0
    BY <1>1, SetField DEF SlotRecord
  <1> HIDE DEF r2
  <1>3. keeps(r3) /\ r3.n_prompt = 0 /\ r3.n_past = 0
    BY <1>2, SetField DEF SlotRecord
  <1> HIDE DEF r3, em, st
  <1>4. keeps(r4) /\ r4.n_prompt = 0 /\ r4.n_past = 0
    BY <1>0, <1>3, SetField DEF SlotRecord
  <1> HIDE DEF r4
  <1>5. keeps(r5) /\ r5.n_prompt = 0 /\ r5.n_past = 0
    BY <1>0, <1>4, SetField DEF SlotRecord
  <1> HIDE DEF r5
  <1>6. Linked(s, task) = r5
    BY DEF Linked, em, st, r1, r2, r3, r4, r5
  <1> QED BY <1>5, <1>6

LEMMA LaunchedType ==
  ASSUME NEW s \in SlotRecord, NEW r \in RequestType
  PROVE  /\ Launched(s, r) \in SlotRecord
         /\ Launched(s, r).n_prompt = s.n_prompt /\ Launched(s, r).n_past = s.n_past
         /\ Launched(s, r).state = s.state /\ Launched(s, r).id_task = s.id_task
         /\ Launched(s, r).command = "LOAD_PROMPT"
  BY DEF SlotRecord, Launched

\* The steps that process a popped task.
LEMMA TypeProcess ==
  ASSUME TypeInv, ProcessTask
  PROVE  TypeInv'
  <1> USE DEF TypeInv, TypeOK
  <1>1. /\ queue_tasks # <<>> /\ Head(queue_tasks) \in TaskType
        /\ Tail(queue_tasks) \in Seq(TaskType)
        /\ queue_tasks' = Tail(queue_tasks)
    BY TailLemma DEF ProcessTask, LaunchTask, DeferTask, CancelTask,
       SkipNextResponse, Pop
  <1>2. UNCHANGED <<next_id, waiting_task_ids, just_released, pc, cur, n_tokens,
                    n_batch, i_chunk, batch_type, jpc, task_id, request>>
    BY DEF ProcessTask, LaunchTask, DeferTask, CancelTask, SkipNextResponse,
       resultVars, loopVars, batchVars, clientVars
  <1>3. IssuedIds' /\ FinishBusy'
    <2>1. pc = "pop"
      BY DEF ProcessTask, LaunchTask, DeferTask, CancelTask, SkipNextResponse, Pop
    <2> QED BY <1>2, <2>1 DEF IssuedIds, TaskIds, FinishBusy
  <1>4. CASE LaunchTask
    <2> DEFINE task == Head(queue_tasks)
    <2>1. task \in CompletionTask /\ task.request \in RequestType
      BY <1>1, <1>4 DEF LaunchTask, CompletionTask
    <2> HIDE DEF task
    <2>2. PICK k \in Slots :
            LET s == Linked(slots[k], task) IN
            /\ Available(slots[k])
            /\ \/ slots' = [slots EXCEPT ![k] = s] /\ Send(ErrorFor(task.id))
               \/ slots' = [slots EXCEPT ![k] = Launched(s, task.request)]
                  /\ UNCHANGED queue_results
      BY <1>4 DEF LaunchTask, FreeFor, task
    <2> DEFINE s == Linked(slots[k], task)
    <2>3. /\ s \in SlotRecord /\ s.n_prompt = 0 /\ s.n_past = 0
          /\ Launched(s, task.request) \in SlotRecord
          /\ Launched(s, task.request).n_prompt = 0
          /\ Launched(s, task.request).n_past = 0
      <3>1. slots[k] \in SlotRecord
        BY <2>2
      <3>2. s \in SlotRecord /\ s.n_prompt = 0 /\ s.n_past = 0
        BY <2>1, <3>1, LinkedType
      <3> HIDE DEF s
      <3> QED BY <2>1, <3>2, LaunchedType
    <2> HIDE DEF s
    <2>4. slots' \in [Slots -> SlotRecord] /\ PromptLeft'
      BY <2>2, <2>3 DEF PromptLeft, Loading, s
    <2>5. queue_results' \in Seq(ResultType)
      <3>1. task.id \in Int
        BY <2>1 DEF CompletionTask
      <3> QED BY <2>2, <3>1, ResultsAreTyped, SendType
    <2>6. UNCHANGED queue_tasks_deferred
      BY <1>4 DEF LaunchTask
    <2> QED BY <1>1, <1>2, <1>3, <2>4, <2>5, <2>6
  <1>5. CASE DeferTask
    <2>1. Head(queue_tasks) \in CompletionTask
      BY <1>1, <1>5 DEF DeferTask, CompletionTask
    <2>2. queue_tasks_deferred' \in Seq(CompletionTask)
      BY <1>5, <2>1, AppendLemma DEF DeferTask
    <2>3. UNCHANGED <<queue_results, slots>>
      BY <1>5 DEF DeferTask, resultVars, loopVars
    <2> QED BY <1>1, <1>2, <1>3, <2>2, <2>3 DEF PromptLeft, Loading
  <1>6. CASE CancelTask
    <2>0. \A k \in Slots : slots[k] \in SlotRecord
      OBVIOUS
    <2>1. \A k \in Slots : slots'[k] = Released(slots[k]) \/ slots'[k] = slots[k]
      BY <1>6 DEF CancelTask
    <2>2. slots' \in [Slots -> SlotRecord]
      BY <1>6, AbortedType DEF CancelTask
    <2>3. \A k \in Slots : Loading(slots'[k]) => slots'[k] = slots[k]
      <3>1. \A s \in SlotRecord : Loading(Released(s)) => Released(s) = s
        BY DEF Loading, Released, SlotRecord
      <3> QED BY <2>0, <2>1, <3>1
    <2>4. PromptLeft'
      BY <2>3 DEF PromptLeft
    <2>5. UNCHANGED <<queue_tasks_deferred, queue_results>>
      BY <1>6 DEF CancelTask, resultVars
    <2> QED BY <1>1, <1>2, <1>3, <2>2, <2>4, <2>5
  <1>7. CASE SkipNextResponse
    <2>1. UNCHANGED <<queue_tasks_deferred, queue_results, slots>>
      BY <1>7 DEF SkipNextResponse, resultVars, loopVars
    <2> QED BY <1>1, <1>2, <1>3, <2>1 DEF PromptLeft
  <1> QED BY <1>4, <1>5, <1>6, <1>7 DEF ProcessTask

\* Steps of update_slots that leave the slots and the queues alone.
LEMMA TypeControl ==
  ASSUME TypeInv,
         BeginUpdate \/ AllIdle \/ NothingToLoad \/ EndDecode \/ Decode
           \/ NextChunk \/ WaitForTask
  PROVE  TypeInv'
  <1> USE SlotsAssumption, BatchAssumption DEF TypeInv, TypeOK
  <1>1. UNCHANGED <<next_id, queue_tasks, queue_tasks_deferred, waiting_task_ids,
                    queue_results, slots, just_released, n_tokens, batch_type, jpc,
                    task_id, request>>
    BY DEF BeginUpdate, AllIdle, NothingToLoad, EndDecode, Decode, NextChunk,
       WaitForTask, queueVars, resultVars, batchVars, clientVars
  <1>2. IssuedIds' /\ PromptLeft' /\ FinishBusy'
    <2>1. pc' # "finish"
      BY DEF BeginUpdate, AllIdle, NothingToLoad, EndOfPromptBody, EndDecode,
         Decode, NextChunk, WaitForTask
    <2> QED BY <1>1, <2>1 DEF IssuedIds, TaskIds, PromptLeft, Loading, FinishBusy
  <1>3. CASE BeginUpdate
    BY <1>1, <1>2, <1>3 DEF BeginUpdate, batchVars
  <1>4. CASE AllIdle
    BY <1>1, <1>2, <1>4 DEF AllIdle, batchVars
  <1>5. CASE NothingToLoad
    BY <1>1, <1>2, <1>5 DEF NothingToLoad, EndOfPromptBody, batchVars
  <1>6. CASE EndDecode
    BY <1>1, <1>2, <1>6 DEF EndDecode, batchVars
  <1>7. CASE Decode
    BY <1>1, <1>2, <1>7 DEF Decode, Fatal
  <1>8. CASE NextChunk
    BY <1>1, <1>2, <1>8 DEF NextChunk
  <1>9. CASE WaitForTask
    BY <1>1, <1>2, <1>9 DEF WaitForTask, batchVars
  <1> QED BY <1>3, <1>4, <1>5, <1>6, <1>7, <1>8, <1>9

\* Steps that update the slots as a whole or post NEXT_RESPONSE.
LEMMA TypePass ==
  ASSUME TypeInv, ReleaseSlots \/ PostNextResponse \/ AddSampledTokens
  PROVE  TypeInv'
  <1> USE SlotsAssumption, BatchAssumption DEF TypeInv, TypeOK
  <1>1. UNCHANGED <<next_id, waiting_task_ids, queue_results, jpc, task_id, request>>
    BY DEF ReleaseSlots, PostNextResponse, AddSampledTokens, queueVars,
       resultVars, clientVars
  <1>2. IssuedIds' /\ FinishBusy'
    BY <1>1 DEF IssuedIds, TaskIds, FinishBusy, ReleaseSlots, PostNextResponse,
       AddSampledTokens
  <1>3. \A k \in Slots : slots[k] \in SlotRecord
    OBVIOUS
  <1>4. CASE ReleaseSlots
    <2>1. \A s \in SlotRecord :
            /\ [s EXCEPT !.state = "IDLE", !.command = "NONE"] \in SlotRecord
            /\ [s EXCEPT !.state = "IDLE", !.command = "NONE"].command = "NONE"
      BY DEF SlotRecord
    <2>2. slots' \in [Slots -> SlotRecord]
      BY <1>3, <1>4, <2>1 DEF ReleaseSlots
    <2>3. \A k \in Slots : Loading(slots'[k]) => slots'[k] = slots[k]
      BY <1>3, <1>4, <2>1 DEF ReleaseSlots, Loading
    <2>4. queue_tasks' \in Seq(TaskType)
      <3>1. queue_tasks_deferred \in Seq(TaskType)
        BY SeqMonotone
      <3>2. queue_tasks \o queue_tasks_deferred \in Seq(TaskType)
        BY <3>1, ConcatLemma
      <3> QED BY <1>4, <3>2 DEF ReleaseSlots, NotifySlotChanged
    <2>5. queue_tasks_deferred' \in Seq(CompletionTask)
      <3>1. << >> \in Seq(CompletionTask)
        OBVIOUS
      <3>2. queue_tasks_deferred' \in {queue_tasks_deferred, << >>}
        BY <1>4 DEF ReleaseSlots, NotifySlotChanged
      <3> QED BY <3>1, <3>2
    <2>6. PromptLeft'
      BY <2>3 DEF PromptLeft
    <2>7. UNCHANGED <<cur, n_tokens, n_batch, i_chunk, batch_type>> /\ pc' = "idle"
      BY <1>4 DEF ReleaseSlots, batchVars
    <2>8. just_released' \subseteq (IF ClockTies THEN Slots ELSE {})
      BY <1>4 DEF ReleaseSlots
    <2> QED BY <1>1, <1>2, <2>2, <2>4, <2>5, <2>6, <2>7, <2>8
  <1>5. CASE PostNextResponse
    <2>1. queue_tasks' \in Seq(TaskType)
      BY <1>5, AppendLemma DEF PostNextResponse, Post, NextResponse
    <2>2. UNCHANGED <<queue_tasks_deferred, slots, just_released, cur, n_tokens,
                      n_batch, i_chunk, batch_type>> /\ pc' = "sampled"
      BY <1>5 DEF PostNextResponse, batchVars
    <2> QED BY <1>1, <1>2, <2>1, <2>2 DEF PromptLeft, Loading
  <1>6. CASE AddSampledTokens
    <2>1. Busy \subseteq Slots /\ IsFiniteSet(Busy) /\ Cardinality(Busy) \in Nat
      BY SlotSubset DEF Busy
    <2>2. \A k \in Slots : Cardinality({j \in Busy : j < k}) \in Nat
      <3>1. \A k \in Slots : {j \in Busy : j < k} \in SUBSET Slots
        BY <2>1
      <3> QED BY <3>1, SlotSubset
    <2>3. \A s \in SlotRecord, n \in Nat :
            [s EXCEPT !.i_batch = n, !.n_past = @ + 1] \in SlotRecord
      <3> SUFFICES ASSUME NEW s \in SlotRecord, NEW n \in Nat
                   PROVE  [s EXCEPT !.i_batch = n, !.n_past = @ + 1] \in SlotRecord
        OBVIOUS
      <3> DEFINE r1 == [s EXCEPT !.i_batch = n]
                 r2 == [r1 EXCEPT !.n_past = s.n_past + 1]
      <3>1. r1 \in SlotRecord /\ s.n_past + 1 \in Nat /\ r1.n_past = s.n_past
        <4>1. n \in Int
          OBVIOUS
        <4>2. s.n_past \in Nat
          BY DEF SlotRecord
        <4>3. r1.n_past = s.n_past
          BY DEF SlotRecord
        <4>4. r1 \in SlotRecord
          BY <4>1, SetField
        <4> QED BY SMTT(20), <4>2, <4>3, <4>4
      <3> HIDE DEF r1
      <3>2. r2 \in SlotRecord
        BY <3>1, SetField
      <3> QED BY <3>1, <3>2 DEF r1
    <2>4. slots' \in [Slots -> SlotRecord]
      BY <1>3, <1>6, <2>2, <2>3 DEF AddSampledTokens
    <2>5. \A k \in Slots : slots[k].state = "IDLE" <=> k \notin Busy
      BY DEF Busy
    <2>6. \A k \in Slots : k \in Busy => slots'[k].state = slots[k].state
      BY <1>3, <1>6 DEF AddSampledTokens, SlotRecord
    <2>7. \A k \in Slots : Loading(slots'[k]) => slots'[k] = slots[k]
      BY <1>6, <2>5, <2>6 DEF AddSampledTokens, Loading
    <2>8. PromptLeft'
      BY <2>7 DEF PromptLeft
    <2>9. /\ n_tokens' \in Nat /\ n_batch' = NBatch /\ i_chunk' = 0 /\ cur' = 0
          /\ batch_type' \in {-1, 0} /\ pc' \in {"prompt", "decode"}
          /\ UNCHANGED <<queue_tasks, queue_tasks_deferred, just_released>>
      BY <1>6, <2>1 DEF AddSampledTokens, queueVars
    <2> QED BY <1>1, <1>2, <2>4, <2>8, <2>9
  <1> QED BY <1>4, <1>5, <1>6

AnswerStep == EmptyPrompt \/ TooLargeToEmbed \/ FailSlot \/ SendEmbedding
                \/ FinishSlot

\* Five ways out of the loop for a slot: it is released, and its task gets a
\* terminal result.
LEMMA AnswerLemma ==
  ASSUME TypeInv, AnswerStep
  PROVE  \E k \in Slots, s \in SlotRecord, res \in ResultType :
           /\ slots' = [slots EXCEPT ![k] = s]
           /\ s.state = "PROCESSING" /\ s.command = "RELEASE"
           /\ s.id_task = slots[k].id_task /\ res.id = slots[k].id_task
           /\ Terminal(res) /\ Send(res)
           /\ \/ FailSlot \/ Loading(slots[k]) \/ FirstHit(k)
              \/ pc = "finish" /\ k = cur
  <1> USE SlotsAssumption DEF TypeInv, TypeOK
  <1> DEFINE out(s, k) == /\ s \in SlotRecord
                          /\ s.state = "PROCESSING" /\ s.command = "RELEASE"
                          /\ s.id_task = slots[k].id_task
  <1>1. \A k \in Slots :
          /\ slots[k] \in SlotRecord
          /\ Final(slots[k].id_task) \in ResultType
          /\ Final(slots[k].id_task).id = slots[k].id_task
          /\ Terminal(Final(slots[k].id_task))
          /\ ErrorFor(slots[k].id_task) \in ResultType
          /\ ErrorFor(slots[k].id_task).id = slots[k].id_task
          /\ Terminal(ErrorFor(slots[k].id_task))
    <2>1. \A k \in Slots : slots[k] \in SlotRecord /\ slots[k].id_task \in Int
      BY DEF SlotRecord
    <2> QED BY <2>1, ResultsAreTyped DEF Final, ErrorFor, Terminal
  <1>2. \A k \in Slots : out(Aborted(slots[k]), k)
    BY <1>1, AbortedType
  <1>3. \A k \in Slots : slots[k].state = "PROCESSING" =>
          out(Finished(slots[k]), k)
    <2> TAKE k \in Slots
    <2> HAVE slots[k].state = "PROCESSING"
    <2>1. out(Released(slots[k]), k)
      BY <1>1, AbortedType
    <2>2. \A s \in SlotRecord : /\ [s EXCEPT !.i_batch = -1] \in SlotRecord
                                /\ SameTask([s EXCEPT !.i_batch = -1], s)
      BY SetKeepsTask
    <2> DEFINE r == [Released(slots[k]) EXCEPT !.i_batch = -1]
    <2>3. r \in SlotRecord /\ SameTask(r, Released(slots[k]))
      BY <2>1, <2>2
    <2> HIDE DEF r
    <2>4. out(r, k)
      BY <2>1, <2>3 DEF SameTask
    <2> QED BY <2>4 DEF r, Finished
  <1>4. CASE EmptyPrompt
    <2> DEFINE r == [Aborted(slots[cur]) EXCEPT !.n_past = 0]
    <2>1. cur \in Slots /\ Send(Final(slots[cur].id_task))
            /\ slots' = [slots EXCEPT ![cur] = r] /\ Loading(slots[cur])
      BY <1>4 DEF EmptyPrompt, NotTokenized
    <2>2. out(Aborted(slots[cur]), cur)
      BY <1>2, <2>1
    <2>3. r \in SlotRecord /\ SameTask(r, Aborted(slots[cur]))
      BY <2>2, SetKeepsTask
    <2> HIDE DEF r
    <2>4. out(r, cur)
      BY <2>2, <2>3 DEF SameTask
    <2> QED BY <1>1, <2>1, <2>4
  <1>5. CASE TooLargeToEmbed
    <2> DEFINE r1 == [Aborted(slots[cur]) EXCEPT !.n_past = 0]
               r2 == [r1 EXCEPT !.n_prompt = slots[cur].prompt]
    <2>1. cur \in Slots /\ Send(ErrorFor(slots[cur].id_task))
            /\ slots' = [slots EXCEPT ![cur] = r2] /\ Loading(slots[cur])
      BY <1>5 DEF TooLargeToEmbed, NotTokenized
    <2>2. out(Aborted(slots[cur]), cur) /\ slots[cur].prompt \in Nat
      BY <1>1, <1>2, <2>1 DEF SlotRecord
    <2>3. r1 \in SlotRecord /\ SameTask(r1, Aborted(slots[cur]))
      BY <2>2, SetKeepsTask
    <2> HIDE DEF r1
    <2>4. r2 \in SlotRecord /\ SameTask(r2, r1)
      BY <2>2, <2>3, SetField, SetKeepsTask
    <2> HIDE DEF r2
    <2>5. out(r2, cur)
      BY <2>2, <2>3, <2>4 DEF SameTask
    <2> QED BY <1>1, <2>1, <2>5
  <1>6. CASE FailSlot
    <2>1. cur \in Slots /\ Send(ErrorFor(slots[cur].id_task))
            /\ slots' = [slots EXCEPT ![cur] = Aborted(slots[cur])]
      BY <1>6 DEF FailSlot
    <2> QED BY <1>1, <1>2, <1>6, <2>1
  <1>7. CASE SendEmbedding
    <2>1. PICK k \in Slots :
            /\ FirstHit(k) /\ Send(Final(slots[k].id_task))
            /\ slots' = [slots EXCEPT ![k] = Finished(slots[k])]
      BY <1>7 DEF SendEmbedding
    <2>2. slots[k].state = "PROCESSING"
      BY <2>1 DEF FirstHit, Hits
    <2> QED BY <1>1, <1>3, <2>1, <2>2
  <1>8. CASE FinishSlot
    <2>1. cur \in Slots /\ Send(Final(slots[cur].id_task))
            /\ slots[cur].state = "PROCESSING" /\ pc = "finish"
            /\ slots' = [slots EXCEPT ![cur] = Finished(slots[cur])]
      BY <1>8 DEF FinishSlot, FinishBusy
    <2> QED BY <1>1, <1>3, <2>1
  <1> QED BY <1>4, <1>5, <1>6, <1>7, <1>8 DEF AnswerStep

LEMMA TypeAnswer ==
  ASSUME TypeInv, AnswerStep
  PROVE  TypeInv'
  <1> USE SlotsAssumption DEF TypeInv, TypeOK
  <1>1. UNCHANGED <<next_id, queue_tasks, queue_tasks_deferred, waiting_task_ids,
                    just_released, n_tokens, n_batch, i_chunk, batch_type, jpc,
                    task_id, request>>
    BY DEF AnswerStep, EmptyPrompt, TooLargeToEmbed, FailSlot, SendEmbedding,
       FinishSlot, queueVars, batchVars, clientVars
  <1>2. IssuedIds'
    BY <1>1 DEF IssuedIds, TaskIds
  <1>3. PICK k \in Slots, s \in SlotRecord, res \in ResultType :
          /\ slots' = [slots EXCEPT ![k] = s]
          /\ s.state = "PROCESSING"
          /\ Send(res)
    BY AnswerLemma
  <1>4. slots' \in [Slots -> SlotRecord] /\ PromptLeft'
    BY <1>3 DEF PromptLeft, Loading
  <1>5. queue_results' \in Seq(ResultType)
    BY <1>3, SendType
  <1>6. pc' \in LoopPcs \ {"finish"} /\ cur' \in 0 .. NSlots
          /\ (pc' \in {"prompt", "fail", "finish"} => cur' \in Slots)
    <2>1. CASE EmptyPrompt \/ TooLargeToEmbed
      BY SMTT(20), <2>1 DEF EmptyPrompt, TooLargeToEmbed, ContinuePrompts
    <2>2. CASE FailSlot
      BY <2>2 DEF FailSlot
    <2>3. CASE SendEmbedding
      <3>1. PICK m \in Slots : FirstHit(m) /\ cur' = m + 1
        BY <2>3 DEF SendEmbedding
      <3>2. pc = "sample" /\ pc' = pc
        BY <2>3, <3>1 DEF SendEmbedding, FirstHit
      <3> QED BY <3>1, <3>2
    <2>4. CASE FinishSlot
      BY <2>4 DEF FinishSlot
    <2> QED BY <2>1, <2>2, <2>3, <2>4 DEF AnswerStep
  <1> QED BY <1>1, <1>2, <1>4, <1>5, <1>6 DEF FinishBusy

\* What tokenizing and batching make of a loading slot.
LEMMA TokenizedType ==
  ASSUME NEW s \in SlotRecord, MayLoad(s),
         s.n_prompt = 0 \/ s.n_past < s.n_prompt,
         NEW t \in Tokenized(s)
  PROVE  t \in SlotRecord /\ SameTask(t, s) /\ t.n_past < t.n_prompt
  <1>1. CASE s.n_prompt # 0
    BY <1>1 DEF Tokenized, SameTask
  <1>2. CASE s.n_prompt = 0
    <2>1. s.prompt \in Nat /\ s.prompt > 0
      BY <1>2 DEF MayLoad, SlotRecord
    <2>2. PICK p \in 0 .. s.prompt - 1 : t = [s EXCEPT !.n_prompt = s.prompt, !.n_past = p]
      <3> DEFINE P == IF CachePrompt /\ ~s.embedding THEN 0 .. s.prompt - 1 ELSE {0}
      <3>1. Tokenized(s) = {[s EXCEPT !.n_prompt = s.prompt, !.n_past = p] : p \in P}
        BY <1>2 DEF Tokenized
      <3>2. P \subseteq 0 .. s.prompt - 1
        BY <2>1
      <3> HIDE DEF P
      <3> QED BY <3>1, <3>2
    <2> DEFINE r1 == [s EXCEPT !.n_prompt = s.prompt]
               r2 == [r1 EXCEPT !.n_past = p]
    <2>3. r1 \in SlotRecord /\ SameTask(r1, s) /\ r1.n_prompt = s.prompt
      <3>1. r1 \in SlotRecord
        BY <2>1, SetField
      <3>2. SameTask(r1, s)
        BY <2>1, SetKeepsTask
      <3>3. r1.n_prompt = s.prompt
        BY DEF SlotRecord
      <3> QED BY <3>1, <3>2, <3>3
    <2> HIDE DEF r1
    <2>4. p \in Nat /\ p < s.prompt
      BY <2>1
    <2>5. r2 \in SlotRecord /\ r2.n_past = p /\ r2.n_prompt = r1.n_prompt
            /\ SameTask(r2, r1)
      BY <2>3, <2>4, SetField DEF SlotRecord, SameTask
    <2>6. t = r2
      BY <2>2 DEF r1
    <2> HIDE DEF r2
    <2> QED BY <2>3, <2>4, <2>5, <2>6 DEF SameTask
  <1> QED BY <1>1, <1>2 DEF SlotRecord

LEMMA TakenType ==
  ASSUME TypeOK, NEW s \in SlotRecord, s.n_past < s.n_prompt
  PROVE  /\ Taken(s) \in Nat /\ s.n_past + Taken(s) <= s.n_prompt
         /\ Taken(s) = 0 \/ n_tokens + Taken(s) <= n_batch
  BY SMTT(20), BatchAssumption DEF Taken, TypeOK, SlotRecord

LEMMA LoadedType ==
  ASSUME TypeOK, NEW s \in SlotRecord, Loading(s), s.n_past < s.n_prompt,
         NEW m \in Nat, s.n_past + m <= s.n_prompt
  PROVE  LET r == LoadedPrompt(s, m) IN
         /\ r \in SlotRecord /\ r.id_task = s.id_task
         /\ \/ m # 0 /\ r.state = "PROCESSING" /\ r.command = "NONE"
            \/ SameTask(r, s) /\ r.n_past < r.n_prompt
  <1>1. s.n_past \in Nat /\ s.n_prompt \in Nat /\ n_tokens \in Nat
          /\ s.n_past + m \in Nat /\ n_tokens + m - 1 \in Int
    BY DEF SlotRecord, TypeOK
  <1> DEFINE r1 == [s EXCEPT !.n_past = s.n_past + m]
  <1>2. r1 \in SlotRecord /\ SameTask(r1, s) /\ r1.n_past = s.n_past + m
          /\ r1.n_prompt = s.n_prompt
    BY <1>1, SetField DEF SlotRecord, SameTask
  <1>3. CASE s.n_past + m = s.n_prompt
    <2> DEFINE r2 == [r1 EXCEPT !.state = "PROCESSING", !.command = "NONE"]
               r3 == [r2 EXCEPT !.n_decoded = 0]
               r4 == [r3 EXCEPT !.i_batch = n_tokens + m - 1]
               done(r) == /\ r \in SlotRecord /\ r.id_task = s.id_task
                          /\ r.state = "PROCESSING" /\ r.command = "NONE"
    <2> HIDE DEF r1
    <2>1. done(r2)
      BY <1>2 DEF SlotRecord, SameTask
    <2> HIDE DEF r2
    <2>2. done(r3)
      BY <2>1, SetField DEF SlotRecord
    <2> HIDE DEF r3
    <2>3. done(r4)
      BY <1>1, <2>2, SetField DEF SlotRecord
    <2> HIDE DEF r4
    <2>4. LoadedPrompt(s, m) = r4
      BY <1>3 DEF LoadedPrompt, LastInBatch, r1, r2, r3, r4
    <2> QED BY <1>1, <1>3, <2>3, <2>4
  <1>4. CASE s.n_past + m # s.n_prompt
    <2>1. LoadedPrompt(s, m) = r1
      BY <1>4 DEF LoadedPrompt
    <2> HIDE DEF r1
    <2> QED BY <1>1, <1>2, <1>4, <2>1 DEF SameTask
  <1> QED BY <1>3, <1>4

LEMMA SampledType ==
  ASSUME NEW s \in SlotRecord, NEW more \in BOOLEAN
  PROVE  Sampled(s, more) \in SlotRecord /\ SameTask(Sampled(s, more), s)
  <1> DEFINE r1 == [s EXCEPT !.n_decoded = s.n_decoded + 1]
             b  == IF more THEN -1 ELSE r1.i_batch
             r2 == [r1 EXCEPT !.i_batch = b]
  <1>1. s.n_decoded + 1 \in Nat
    BY DEF SlotRecord
  <1>2. r1 \in SlotRecord /\ SameTask(r1, s)
    BY <1>1, SetField DEF SlotRecord, SameTask
  <1>3. b \in Int
    BY <1>2 DEF SlotRecord
  <1>4. Sampled(s, more) = r2
    BY DEF Sampled
  <1> HIDE DEF r1, b
  <1>5. r2 \in SlotRecord /\ SameTask(r2, r1)
    BY <1>2, <1>3, SetField DEF SlotRecord, SameTask
  <1> QED BY <1>2, <1>4, <1>5 DEF SameTask

\* Batching a prompt and sampling a token.
LEMMA TypeProgress ==
  ASSUME TypeInv, PostponePrompt \/ LoadPrompt \/ SampleToken
  PROVE  TypeInv'
  <1> USE SlotsAssumption DEF TypeInv
  <1>1. UNCHANGED <<next_id, queue_tasks, queue_tasks_deferred, waiting_task_ids,
                    just_released, n_batch, i_chunk, jpc, task_id, request>>
    BY DEF PostponePrompt, LoadPrompt, SampleToken, queueVars, resultVars,
       batchVars, clientVars
  <1>2. IssuedIds'
    BY <1>1 DEF IssuedIds, TaskIds
  <1>3. \A k \in Slots : slots[k] \in SlotRecord
    BY DEF TypeOK
  <1>4. CASE PostponePrompt
    <2>1. cur \in Slots /\ MayLoad(slots[cur])
      BY <1>4 DEF PostponePrompt, TypeOK
    <2>2. PICK s \in Tokenized(slots[cur]) : slots' = [slots EXCEPT ![cur] = s]
      BY <1>4 DEF PostponePrompt
    <2>3. s \in SlotRecord /\ s.n_past < s.n_prompt
      BY <1>3, <2>1, <2>2, TokenizedType DEF PromptLeft, MayLoad
    <2>4. slots' \in [Slots -> SlotRecord] /\ PromptLeft'
      BY <2>2, <2>3 DEF TypeOK, PromptLeft, Loading
    <2>5. UNCHANGED <<queue_results, n_tokens, batch_type>>
            /\ pc' \in {"prompt", "decode"} /\ cur' \in 0 .. NSlots
            /\ (pc' = "prompt" => cur' \in Slots)
      BY <1>4, <2>1 DEF PostponePrompt, ContinuePrompts, resultVars, batchVars
    <2> QED BY <1>1, <1>2, <2>4, <2>5 DEF TypeOK, FinishBusy
  <1>5. CASE LoadPrompt
    <2>1. cur \in Slots /\ MayLoad(slots[cur])
      BY <1>5 DEF LoadPrompt, TypeOK
    <2>2. PICK s \in Tokenized(slots[cur]) :
            /\ slots' = [slots EXCEPT ![cur] = LoadedPrompt(s, Taken(s))]
            /\ n_tokens' = n_tokens + Taken(s)
            /\ batch_type' = SlotType(s)
            /\ EndOfPromptBody(n_tokens + Taken(s))
      BY <1>5 DEF LoadPrompt
    <2>3. s \in SlotRecord /\ s.n_past < s.n_prompt /\ SameTask(s, slots[cur])
      BY <1>3, <2>1, <2>2, TokenizedType DEF PromptLeft, MayLoad
    <2>4. Loading(s)
      BY <2>1, <2>3 DEF MayLoad, Loading, SameTask
    <2>5. Taken(s) \in Nat /\ s.n_past + Taken(s) <= s.n_prompt
      BY <2>3, TakenType
    <2> DEFINE r == LoadedPrompt(s, Taken(s))
    <2>6. r \in SlotRecord /\ (r.state = "PROCESSING" \/ r.n_past < r.n_prompt)
      BY <2>3, <2>4, <2>5, LoadedType DEF SameTask
    <2> HIDE DEF r
    <2>7. slots' \in [Slots -> SlotRecord] /\ PromptLeft'
      BY <2>2, <2>6 DEF TypeOK, PromptLeft, Loading, r
    <2>8. UNCHANGED queue_results /\ n_tokens' \in Nat /\ batch_type' \in {0, 1}
            /\ pc' \in {"prompt", "decode"} /\ cur' \in 0 .. NSlots
            /\ (pc' = "prompt" => cur' \in Slots)
      BY <1>5, <2>1, <2>2, <2>5 DEF LoadPrompt, EndOfPromptBody, SlotType, resultVars, TypeOK
    <2> QED BY <1>1, <1>2, <2>7, <2>8 DEF TypeOK, FinishBusy
  <1>6. CASE SampleToken
    <2>1. PICK k \in Slots, sent \in BOOLEAN, more \in BOOLEAN :
            /\ FirstHit(k)
            /\ IF sent THEN Send(Partial(slots[k].id_task)) ELSE UNCHANGED queue_results
            /\ slots' = [slots EXCEPT ![k] = Sampled(slots[k], more)]
            /\ pc' = IF more THEN "sample" ELSE "finish"
            /\ cur' = IF more THEN k + 1 ELSE k
      BY <1>6 DEF SampleToken
    <2> DEFINE r == Sampled(slots[k], more)
    <2>2. slots[k].state = "PROCESSING"
      BY <2>1 DEF FirstHit, Hits
    <2>3. r \in SlotRecord /\ SameTask(r, slots[k])
      BY <1>3, SampledType
    <2>4. slots' = [slots EXCEPT ![k] = r]
      BY <2>1
    <2> HIDE DEF r
    <2>5. r \in SlotRecord /\ r.state = "PROCESSING"
      BY <2>2, <2>3 DEF SameTask
    <2>6. slots' \in [Slots -> SlotRecord] /\ PromptLeft'
      BY <2>4, <2>5 DEF TypeOK, PromptLeft, Loading
    <2>7. queue_results' \in Seq(ResultType)
      <3>1. slots[k].id_task \in Int
        BY <1>3 DEF SlotRecord
      <3> QED BY <2>1, <3>1, ResultsAreTyped, SendType DEF TypeOK
    <2>8. UNCHANGED <<n_tokens, batch_type>> /\ pc' \in {"sample", "finish"}
            /\ cur' \in 0 .. NSlots /\ (pc' = "finish" => cur' \in Slots)
      <3>1. k + 1 \in 0 .. NSlots /\ k \in 0 .. NSlots
        OBVIOUS
      <3>2. (pc' = "sample" /\ cur' = k + 1) \/ (pc' = "finish" /\ cur' = k)
        BY <2>1
      <3>3. UNCHANGED <<n_tokens, batch_type>>
        BY <1>6 DEF SampleToken, batchVars
      <3> QED BY <3>1, <3>2, <3>3
    <2>9. FinishBusy'
      BY <2>1, <2>4, <2>5 DEF TypeOK, FinishBusy
    <2> QED BY <1>1, <1>2, <2>6, <2>7, <2>8, <2>9 DEF TypeOK
  <1> QED BY <1>4, <1>5, <1>6

\* The clock only makes slots older.
LEMMA ClockLemma ==
  ASSUME ClockAdvances
  PROVE  /\ pc = "pop" /\ just_released' = {}
         /\ UNCHANGED <<next_id, queue_tasks, queue_tasks_deferred, waiting_task_ids,
                        queue_results, slots, pc, cur, n_tokens, n_batch, i_chunk,
                        batch_type, jpc, task_id, request>>
  BY DEF ClockAdvances, queueVars, resultVars, batchVars, clientVars

LEMMA TypeClock ==
  ASSUME TypeInv, ClockAdvances
  PROVE  TypeInv'
  BY ClockLemma DEF TypeInv, TypeOK, IssuedIds, TaskIds, PromptLeft, Loading, FinishBusy

LEMMA TypeNext == TypeInv /\ [Next]_vars => TypeInv'
  <1> SUFFICES ASSUME TypeInv, [Next]_vars
               PROVE  TypeInv'
    OBVIOUS
  <1>1. CASE LoopStep
    BY <1>1, TypeProcess, TypeClock, TypeControl, TypePass, TypeAnswer, TypeProgress
    DEF AnswerStep, LoopStep, BatchPrompts, DecodeBatch
  <1>2. ASSUME NEW c \in Clients, ClientNext(c)
        PROVE  TypeInv'
    BY <1>2, TypeClient
  <1>3. CASE UNCHANGED vars
    BY <1>3 DEF vars, queueVars, resultVars, loopVars, batchVars, clientVars,
       TypeInv, TypeOK, IssuedIds, TaskIds, PromptLeft, Loading, FinishBusy
  <1> QED BY <1>1, <1>2, <1>3 DEF Next

\* Every variable keeps its type, whatever the numbers of slots, threads and
\* tokens: slots, queues and the loop's cursor in particular.
THEOREM TypeCorrect == Spec => []TypeOK
  <1>1. TypeInv => TypeOK
    BY DEF TypeInv
  <1> QED BY <1>1, TypeInit, TypeNext, PTL DEF Spec

HIDE DEF Slots, Kinds, RequestType, TaskType, ResultType, LoopPcs, ClientPcs

(***************************************************************************)
(* Delivery: no request is lost (NoLostRequest), and the loop thread never *)
(* sleeps on work (SleepsOnlyWhenDone).                                    *)
(***************************************************************************)
(***************************************************************************)
(* What a step keeps of the places a task can be in.                       *)
(***************************************************************************)
QueueKept == \A i \in DOMAIN queue_tasks :
               \E j \in DOMAIN queue_tasks' : queue_tasks'[j] = queue_tasks[i]
ResultsKept == \A i \in DOMAIN queue_results :
                 \E j \in DOMAIN queue_results' : queue_results'[j] = queue_results[i]
SlotsKept == \A k \in Slots : Working(slots[k]) =>
               Working(slots'[k]) /\ slots'[k].id_task = slots[k].id_task

LEMMA QueueKeptLemma ==
  ASSUME QueueKept, NEW t, Queued(t)
  PROVE  Queued(t)'
  <1>1. PICK i \in DOMAIN queue_tasks :
          queue_tasks[i].type = "COMPLETION" /\ queue_tasks[i].id = t
    BY DEF Queued
  <1>2. PICK j \in DOMAIN queue_tasks' : queue_tasks'[j] = queue_tasks[i]
    BY DEF QueueKept
  <1> QED BY <1>1, <1>2 DEF Queued

LEMMA ResultsKeptLemma ==
  ASSUME ResultsKept, NEW t, Answered(t)
  PROVE  Answered(t)'
  <1>1. PICK i \in DOMAIN queue_results :
          queue_results[i].id = t /\ Terminal(queue_results[i])
    BY DEF Answered
  <1>2. PICK j \in DOMAIN queue_results' : queue_results'[j] = queue_results[i]
    BY DEF ResultsKept
  <1> QED BY <1>1, <1>2 DEF Answered

LEMMA SlotsKeptLemma ==
  ASSUME SlotsKept, NEW t, InSlot(t)
  PROVE  InSlot(t)'
  BY DEF SlotsKept, InSlot

LEMMA AllKeptLemma ==
  ASSUME QueueKept, ResultsKept, SlotsKept, UNCHANGED queue_tasks_deferred, NEW t,
         Pending(t) \/ Answered(t)
  PROVE  (Pending(t) \/ Answered(t))'
  <1>1. Deferred(t) => Deferred(t)'
    BY DEF Deferred
  <1> QED
    BY <1>1, QueueKeptLemma, ResultsKeptLemma, SlotsKeptLemma DEF Pending

\* A result that is sent to a waiting id is there, and the others stay.
LEMMA SendKeeps ==
  ASSUME queue_results \in Seq(ResultType), NEW res \in ResultType, Send(res)
  PROVE  /\ ResultsKept
         /\ res.id \in waiting_task_ids /\ Terminal(res) => Answered(res.id)'
  <1>1. CASE res.id \in waiting_task_ids
    <2>1. queue_results' = Append(queue_results, res)
      BY <1>1 DEF Send
    <2>2. ResultsKept
      BY <2>1, AppendLemma DEF ResultsKept
    <2>3. Len(queue_results) + 1 \in DOMAIN queue_results'
            /\ queue_results'[Len(queue_results) + 1] = res
      BY <2>1
    <2> QED BY <2>2, <2>3 DEF Answered
  <1>2. CASE res.id \notin waiting_task_ids
    BY <1>2 DEF Send, ResultsKept
  <1> QED BY <1>1, <1>2

LEMMA PostKeeps ==
  ASSUME queue_tasks \in Seq(TaskType), NEW task \in TaskType, Post(task)
  PROVE  /\ QueueKept /\ queue_tasks' # <<>>
         /\ task.type = "COMPLETION" => Queued(task.id)'
         /\ \A i \in DOMAIN queue_tasks' :
              queue_tasks'[i] = task \/ (i \in DOMAIN queue_tasks
                                          /\ queue_tasks'[i] = queue_tasks[i])
  <1>1. queue_tasks' = Append(queue_tasks, task)
    BY DEF Post
  <1>2. QueueKept /\ queue_tasks' # <<>>
    BY <1>1, AppendLemma DEF QueueKept
  <1>3. Len(queue_tasks) + 1 \in DOMAIN queue_tasks'
          /\ queue_tasks'[Len(queue_tasks) + 1] = task
    BY <1>1
  <1>4. \A i \in DOMAIN queue_tasks' :
              queue_tasks'[i] = task \/ (i \in DOMAIN queue_tasks
                                          /\ queue_tasks'[i] = queue_tasks[i])
    BY <1>1
  <1> QED BY <1>2, <1>3, <1>4 DEF Queued

(***************************************************************************)
(* The steps that put a slot to work: postponing, loading, sampling.       *)
(***************************************************************************)
ProgressStep == PostponePrompt \/ LoadPrompt \/ SampleToken

LEMMA ProgressLemma ==
  ASSUME TypeInv, ProgressStep
  PROVE  /\ SlotsKept
         /\ \A k \in Slots : Available(slots'[k]) => Available(slots[k])
         /\ ResultsKept
  <1> USE DEF TypeInv, TypeOK
  <1>1. \A k \in Slots : slots[k] \in SlotRecord
    OBVIOUS
  <1>2. ASSUME NEW k \in Slots, NEW s \in SlotRecord,
               slots' = [slots EXCEPT ![k] = s],
               s.id_task = slots[k].id_task,
               \/ SameTask(s, slots[k])
               \/ s.state = "PROCESSING" /\ s.command = "NONE"
        PROVE  /\ SlotsKept
               /\ \A m \in Slots : Available(slots'[m]) => Available(slots[m])
    BY <1>2 DEF SlotsKept, Available, Working, Loading, SameTask
  <1>3. CASE PostponePrompt
    <2>1. cur \in Slots /\ MayLoad(slots[cur]) /\ UNCHANGED queue_results
      BY <1>3 DEF PostponePrompt, resultVars
    <2>2. PICK s \in Tokenized(slots[cur]) : slots' = [slots EXCEPT ![cur] = s]
      BY <1>3 DEF PostponePrompt
    <2>3. s \in SlotRecord /\ SameTask(s, slots[cur])
      BY <1>1, <2>1, <2>2, TokenizedType DEF PromptLeft, MayLoad
    <2> QED BY <1>2, <2>1, <2>2, <2>3 DEF SameTask, ResultsKept
  <1>4. CASE LoadPrompt
    <2>1. cur \in Slots /\ MayLoad(slots[cur]) /\ UNCHANGED queue_results
      BY <1>4 DEF LoadPrompt, resultVars
    <2>2. PICK s \in Tokenized(slots[cur]) :
            slots' = [slots EXCEPT ![cur] = LoadedPrompt(s, Taken(s))]
      BY <1>4 DEF LoadPrompt
    <2>3. s \in SlotRecord /\ s.n_past < s.n_prompt /\ SameTask(s, slots[cur])
      BY <1>1, <2>1, <2>2, TokenizedType DEF PromptLeft, MayLoad
    <2>4. Loading(s)
      BY <2>1, <2>3 DEF MayLoad, Loading, SameTask
    <2>5. Taken(s) \in Nat /\ s.n_past + Taken(s) <= s.n_prompt
      BY <2>3, TakenType
    <2> DEFINE r == LoadedPrompt(s, Taken(s))
    <2>6. r \in SlotRecord /\ r.id_task = s.id_task
            /\ ((r.state = "PROCESSING" /\ r.command = "NONE") \/ SameTask(r, s))
      BY <2>3, <2>4, <2>5, LoadedType
    <2>7. slots' = [slots EXCEPT ![cur] = r]
      BY <2>2
    <2> HIDE DEF r
    <2> QED BY <1>2, <2>1, <2>3, <2>6, <2>7 DEF SameTask, ResultsKept
  <1>5. CASE SampleToken
    <2>1. PICK k \in Slots, sent \in BOOLEAN, more \in BOOLEAN :
            /\ IF sent THEN Send(Partial(slots[k].id_task)) ELSE UNCHANGED queue_results
            /\ slots' = [slots EXCEPT ![k] = Sampled(slots[k], more)]
      BY <1>5 DEF SampleToken
    <2> DEFINE r == Sampled(slots[k], more)
    <2>2. r \in SlotRecord /\ SameTask(r, slots[k])
      BY <1>1, SampledType
    <2>3. slots' = [slots EXCEPT ![k] = r]
      BY <2>1
    <2> HIDE DEF r
    <2>4. ResultsKept
      <3>1. CASE sent
        <4>1. Partial(slots[k].id_task) \in ResultType
          BY <1>1, ResultsAreTyped DEF SlotRecord
        <4> QED BY <2>1, <3>1, <4>1, SendKeeps
      <3>2. CASE ~sent
        BY <2>1, <3>2 DEF ResultsKept
      <3> QED BY <3>1, <3>2
    <2> QED BY <1>2, <2>2, <2>3, <2>4 DEF SameTask
  <1> QED BY <1>3, <1>4, <1>5 DEF ProgressStep

(***************************************************************************)
(* The loop thread sleeps only with nothing left to do.                    *)
(***************************************************************************)
LEMMA ClientTasks ==
  ASSUME TypeInv, NEW c \in Clients, jpc[c] # "idle"
  PROVE  /\ Completion(task_id[c], request[c]) \in TaskType
         /\ Cancel(task_id[c]) \in TaskType
  BY DEF TypeInv, TypeOK, IssuedIds, TaskIds, TaskType, CompletionTask, Completion,
     Cancel

\* From posting NEXT_RESPONSE to the end of the pass.
InPass == pc \in {"sampled", "prompt", "decode", "fail", "sample", "finish"}

\* A busy slot whose release brings the request back.
Awaits(r, k) == ~Available(slots[k]) /\ r.id_slot \in {AnySlot, k}

DeferredHasSlot ==
  \A i \in DOMAIN queue_tasks_deferred :
     \/ PassedOver(queue_tasks_deferred[i].request)
     \/ \E k \in Slots : Awaits(queue_tasks_deferred[i].request, k)

PassHasTask == InPass => queue_tasks # <<>>

EmptyAndAsleep == pc = "wait" /\ queue_tasks = <<>> =>
                    \A k \in Slots : Available(slots[k])

SleepInv == TypeInv /\ DeferredHasSlot /\ PassHasTask /\ EmptyAndAsleep

LEMMA StillDeferred ==
  ASSUME DeferredHasSlot, UNCHANGED queue_tasks_deferred,
         \A k \in Slots : Available(slots'[k]) => Available(slots[k])
  PROVE  DeferredHasSlot'
  BY DEF DeferredHasSlot, PassedOver, Awaits

LEMMA DeferLemma ==
  ASSUME TypeInv, DeferTask
  PROVE  LET r == Head(queue_tasks).request IN
         PassedOver(r) \/ \E k \in Slots : Awaits(r, k)
  <1> DEFINE r == Head(queue_tasks).request
             waits == \E k \in Slots : Awaits(r, k)
  <1>1. \A k \in FreeFor(r) : r.id_slot = AnySlot /\ k \in just_released
    BY DEF DeferTask
  <1>2. ~ClockTies => just_released = {}
    BY DEF TypeInv, TypeOK
  <1> HIDE DEF r
  <1>3. 0 \in Slots /\ AnySlot \notin Slots
    BY SlotsAssumption DEF Slots, AnySlot
  <1>4. r.id_slot = AnySlot => ClockTies \/ waits
    BY <1>1, <1>2, <1>3 DEF Awaits, FreeFor
  <1>5. r.id_slot \in Slots => waits
    BY <1>1, <1>3 DEF Awaits, FreeFor
  <1> HIDE DEF waits
  <1>6. PassedOver(r) \/ waits
    BY <1>4, <1>5 DEF PassedOver
  <1> QED BY <1>6 DEF r, waits

LEMMA SleepClient ==
  ASSUME SleepInv, NEW c \in Clients, ClientNext(c)
  PROVE  SleepInv'
  <1> USE DEF SleepInv
  <1>1. TypeInv'
    BY TypeClient
  <1>2. UNCHANGED <<queue_tasks_deferred, slots, pc>>
    BY DEF ClientNext, ClientStep, GetNewId, AddWaiting, PostCompletion, CallNext,
       Recv, RemoveWaiting, PostCancel, queueVars, loopVars
  <1>3. UNCHANGED queue_tasks \/ queue_tasks' # <<>>
    <2>1. CASE PostCompletion(c)
      <3>1. Completion(task_id[c], request[c]) \in TaskType
        BY <2>1, ClientTasks DEF PostCompletion
      <3> QED BY <2>1, <3>1, PostKeeps DEF PostCompletion, TypeInv, TypeOK
    <2>2. CASE PostCancel(c)
      <3>1. Cancel(task_id[c]) \in TaskType
        BY <2>2, ClientTasks DEF PostCancel
      <3> QED BY <2>2, <3>1, PostKeeps DEF PostCancel, TypeInv, TypeOK
    <2>3. CASE ~PostCompletion(c) /\ ~PostCancel(c)
      BY <2>3 DEF ClientNext, ClientStep, GetNewId, AddWaiting, CallNext, Recv,
         RemoveWaiting, queueVars
    <2> QED BY <2>1, <2>2, <2>3
  <1>4. DeferredHasSlot'
    BY <1>2, StillDeferred
  <1> QED
    BY <1>1, <1>2, <1>3, <1>4 DEF PassHasTask, EmptyAndAsleep, InPass, Available

LEMMA SleepLoop ==
  ASSUME SleepInv, LoopStep
  PROVE  SleepInv'
  <1> USE SlotsAssumption DEF SleepInv
  <1>1. TypeInv'
    BY TypeNext DEF Next
  <1>2. CASE LaunchTask
    <2>0. PICK k \in Slots :
            Available(slots[k]) /\ \E x : slots' = [slots EXCEPT ![k] = x]
      BY <1>2 DEF LaunchTask, FreeFor
    <2>1. PICK s : Available(slots[k]) /\ slots' = [slots EXCEPT ![k] = s]
      BY <2>0
    <2>2. UNCHANGED <<queue_tasks_deferred, pc>> /\ pc = "pop"
      BY <1>2 DEF LaunchTask, Pop
    <2>3. \A m \in Slots : Available(slots'[m]) => Available(slots[m])
      BY <2>1 DEF TypeInv, TypeOK
    <2>4. DeferredHasSlot'
      BY <2>2, <2>3, StillDeferred
    <2> QED BY <1>1, <2>2, <2>4 DEF PassHasTask, EmptyAndAsleep, InPass
  <1>3. CASE DeferTask
    <2>1. /\ queue_tasks_deferred' = Append(queue_tasks_deferred, Head(queue_tasks))
          /\ UNCHANGED <<slots, pc>> /\ pc = "pop"
      BY <1>3 DEF DeferTask, Pop, loopVars
    <2>2. queue_tasks_deferred \in Seq(CompletionTask)
      BY DEF TypeInv, TypeOK
    <2>3. \A i \in DOMAIN queue_tasks_deferred' :
            \/ i \in DOMAIN queue_tasks_deferred
               /\ queue_tasks_deferred'[i] = queue_tasks_deferred[i]
            \/ queue_tasks_deferred'[i] = Head(queue_tasks)
      BY <2>1, <2>2
    <2>4. DeferredHasSlot'
      <3> SUFFICES ASSUME NEW i \in DOMAIN queue_tasks_deferred'
                   PROVE  \/ PassedOver(queue_tasks_deferred'[i].request)
                          \/ \E k \in Slots :
                               Awaits(queue_tasks_deferred'[i].request, k)
        BY <2>1 DEF DeferredHasSlot, PassedOver, Awaits
      <3> QED BY <1>3, <2>3, DeferLemma DEF DeferredHasSlot
    <2> QED BY <1>1, <2>1, <2>4 DEF PassHasTask, EmptyAndAsleep, InPass
  <1>4. CASE CancelTask
    <2>1. \A k \in Slots : slots'[k] = Released(slots[k]) \/ slots'[k] = slots[k]
      BY <1>4 DEF CancelTask
    <2>2. \A k \in Slots : ~Available(slots[k]) => ~Available(slots'[k])
      <3>1. \A s \in SlotRecord : ~Available(s) => ~Available(Released(s))
        BY DEF Available, Released, SlotRecord
      <3>2. \A k \in Slots : slots[k] \in SlotRecord
        BY DEF TypeInv, TypeOK
      <3> QED BY <2>1, <3>1, <3>2
    <2>3. UNCHANGED <<queue_tasks_deferred, pc>> /\ pc = "pop"
      BY <1>4 DEF CancelTask, Pop
    <2> QED
      BY <1>1, <2>2, <2>3, StillDeferred DEF PassHasTask, EmptyAndAsleep, InPass
  <1>5. CASE SkipNextResponse
    BY <1>1, <1>5, StillDeferred DEF SkipNextResponse, Pop, loopVars,
       PassHasTask, EmptyAndAsleep, InPass, Available
  <1>6. CASE ReleaseSlots
    <2> DEFINE done == {k \in Slots : slots[k].command = "RELEASE"}
    <2>1. pc' = "idle"
      BY <1>6 DEF ReleaseSlots
    <2>2. CASE done = {}
      <3>1. slots' = slots
        BY <1>6, <2>2 DEF ReleaseSlots, TypeInv, TypeOK
      <3>2. queue_tasks_deferred' = queue_tasks_deferred
        BY <1>6, <2>2 DEF ReleaseSlots
      <3> QED
        BY <1>1, <2>1, <3>1, <3>2, StillDeferred
        DEF PassHasTask, EmptyAndAsleep, InPass, Available
    <2>3. CASE done # {}
      <3>1. queue_tasks_deferred' = <<>>
        BY <1>6, <2>3 DEF ReleaseSlots, NotifySlotChanged
      <3>2. DeferredHasSlot'
        BY <3>1 DEF DeferredHasSlot
      <3> QED BY <1>1, <2>1, <3>2 DEF PassHasTask, EmptyAndAsleep, InPass
    <2> QED BY <2>2, <2>3
  <1>7. CASE BeginUpdate \/ AllIdle \/ WaitForTask
    BY <1>1, <1>7, StillDeferred DEF BeginUpdate, AllIdle, WaitForTask, queueVars,
       PassHasTask, EmptyAndAsleep, InPass, Available
  <1>8. CASE PostNextResponse
    <2>1. queue_tasks' # <<>>
      <3>1. NextResponse \in TaskType
        BY DEF NextResponse, TaskType
      <3> QED BY <1>8, <3>1, PostKeeps DEF PostNextResponse, TypeInv, TypeOK
    <2> QED
      BY <1>1, <1>8, <2>1, StillDeferred
      DEF PostNextResponse, PassHasTask, EmptyAndAsleep, InPass, Available
  <1>9. ASSUME InPass, UNCHANGED <<queue_tasks, queue_tasks_deferred>>,
               \A k \in Slots : Available(slots'[k]) => Available(slots[k])
        PROVE  SleepInv'
    BY <1>1, <1>9, StillDeferred DEF PassHasTask, EmptyAndAsleep, InPass
  <1>10. CASE AddSampledTokens
    <2>1. \A s \in SlotRecord, n \in Nat :
            s.state # "IDLE" => ~Available([s EXCEPT !.i_batch = n, !.n_past = @ + 1])
      BY DEF Available, SlotRecord
    <2>2. \A k \in Slots : slots[k] \in SlotRecord
      BY DEF TypeInv, TypeOK
    <2>3. \A k \in Slots : slots'[k].state = slots[k].state
                          /\ slots'[k].command = slots[k].command
      BY <1>10, <2>2 DEF AddSampledTokens, SlotRecord
    <2> QED BY <1>9, <1>10, <2>3 DEF AddSampledTokens, InPass, queueVars, Available
  <1>11. CASE NothingToLoad \/ EndDecode \/ Decode \/ NextChunk
    BY <1>9, <1>11 DEF NothingToLoad, EndDecode, Decode, NextChunk, InPass,
       queueVars, Available
  <1>12. CASE AnswerStep
    <2>1. PICK k \in Slots, s \in SlotRecord :
            slots' = [slots EXCEPT ![k] = s] /\ s.state = "PROCESSING"
      BY <1>12, AnswerLemma
    <2>2. \A m \in Slots : Available(slots'[m]) => Available(slots[m])
      BY <2>1 DEF Available, TypeInv, TypeOK
    <2> QED
      BY <1>9, <1>12, <2>2 DEF AnswerStep, EmptyPrompt, TooLargeToEmbed, FailSlot,
         SendEmbedding, FinishSlot, FirstHit, InPass, queueVars
  <1>13. CASE ProgressStep
    BY <1>9, <1>13, ProgressLemma DEF ProgressStep, PostponePrompt, LoadPrompt,
       SampleToken, FirstHit, InPass, queueVars
  <1>14. CASE ClockAdvances
    BY <1>1, <1>14, ClockLemma, StillDeferred DEF PassHasTask, EmptyAndAsleep, InPass
  <1> QED
    BY <1>2, <1>3, <1>4, <1>5, <1>6, <1>7, <1>8, <1>10, <1>11, <1>12, <1>13, <1>14
    DEF LoopStep, ProcessTask, BatchPrompts, DecodeBatch, AnswerStep, ProgressStep

\* When the loop thread waits on condition_tasks with an empty queue, no slot is
\* busy, and the tasks that are still deferred name no slot of the server or
\* were passed over because the clock stood still.  Every pass that finds a busy
\* slot leaves NEXT_RESPONSE in the queue, and any other deferred task has a
\* busy slot whose release brings it back.
THEOREM NeverSleepsOnWork == Spec => []SleepsOnlyWhenDone
  <1>1. Init => SleepInv
    <2> HAVE Init
    <2>1. TypeInv
      BY TypeInit
    <2> QED BY <2>1 DEF Init, SleepInv, DeferredHasSlot, PassHasTask, EmptyAndAsleep,
               InPass
  <1>2. SleepInv /\ [Next]_vars => SleepInv'
    <2> SUFFICES ASSUME SleepInv, [Next]_vars
                 PROVE  SleepInv'
      OBVIOUS
    <2>1. CASE UNCHANGED vars
      <3>1. TypeInv'
        BY TypeNext DEF SleepInv
      <3> QED
        BY <2>1, <3>1, StillDeferred DEF vars, queueVars, loopVars, SleepInv,
           PassHasTask, EmptyAndAsleep, InPass, Available
    <2> QED BY <2>1, SleepClient, SleepLoop DEF Next
  <1>3. SleepInv => SleepsOnlyWhenDone
    BY DEF SleepInv, SleepsOnlyWhenDone, DeferredHasSlot, EmptyAndAsleep, Awaits
  <1> QED BY <1>1, <1>2, <1>3, PTL DEF Spec

(***************************************************************************)
(* No request is lost.  Three facts support it: no two Java threads hold   *)
(* the same id, an id whose result may still be taken is waited for, so    *)
(* that send() keeps the result, and a CANCEL in the queue has a target    *)
(* that no thread receives for any more.                                   *)
(***************************************************************************)
UniqueIds == \A c, d \in Clients :
               c # d /\ jpc[c] # "idle" /\ jpc[d] # "idle" => task_id[c] # task_id[d]

ActiveWaits == \A c \in Clients : jpc[c] \in {"post", "iter", "recv", "remove"} =>
                 task_id[c] \in waiting_task_ids

CancelDead ==
  \A i \in DOMAIN queue_tasks : queue_tasks[i].type = "CANCEL" =>
     /\ queue_tasks[i].id_target < next_id
     /\ \A c \in Clients : jpc[c] \in {"add", "post", "iter", "recv"} =>
          task_id[c] # queue_tasks[i].id_target

DeliveryInv == TypeInv /\ UniqueIds /\ ActiveWaits /\ CancelDead /\ NoLostRequest

\* Steps of the loop thread leave the threads' side alone.
LEMMA LoopClients ==
  ASSUME LoopStep
  PROVE  UNCHANGED <<next_id, waiting_task_ids, jpc, task_id, request>>
  BY DEF LoopStep, ProcessTask, LaunchTask, DeferTask, CancelTask, SkipNextResponse,
     ClockAdvances, BeginUpdate, ReleaseSlots, AllIdle, PostNextResponse,
     AddSampledTokens, BatchPrompts, NothingToLoad, EmptyPrompt, TooLargeToEmbed, PostponePrompt,
     LoadPrompt, DecodeBatch, EndDecode, Decode, FailSlot, SendEmbedding,
     SampleToken, FinishSlot, NextChunk, WaitForTask,
     queueVars, resultVars, clientVars

\* A task somebody waits for and nobody cancelled stays in the server: what
\* the steps that pop a task, release the slots or answer make of its places;
\* the other steps keep everything.
LEMMA LoopKeepsTask ==
  ASSUME TypeInv, LoopStep, NEW t, t \in waiting_task_ids,
         \A i \in DOMAIN queue_tasks :
            queue_tasks[i].type = "CANCEL" => queue_tasks[i].id_target # t,
         Pending(t) \/ Answered(t)
  PROVE  Pending(t)' \/ Answered(t)'
  <1> USE DEF TypeInv, TypeOK
  <1>1. \A k \in Slots : slots[k] \in SlotRecord
    OBVIOUS
  <1>2. ASSUME QueueKept, ResultsKept, SlotsKept, UNCHANGED queue_tasks_deferred
        PROVE  Pending(t)' \/ Answered(t)'
    BY <1>2, AllKeptLemma
  <1>3. ASSUME Pop, queue_tasks' = Tail(queue_tasks), Queued(t)
        PROVE  Queued(t)' \/ (Head(queue_tasks).type = "COMPLETION"
                              /\ Head(queue_tasks).id = t)
    <2>1. PICK i \in DOMAIN queue_tasks :
            queue_tasks[i].type = "COMPLETION" /\ queue_tasks[i].id = t
      BY <1>3 DEF Queued
    <2>2. CASE i = 1
      BY <1>3, <2>1, <2>2, TailLemma DEF Pop
    <2>3. CASE i # 1
      <3>1. i - 1 \in DOMAIN queue_tasks' /\ queue_tasks'[i - 1] = queue_tasks[i]
        BY <1>3, <2>3, TailLemma DEF Pop
      <3> QED BY <2>1, <3>1 DEF Queued
    <2> QED BY <2>2, <2>3
  <1>4. CASE LaunchTask
    <2> DEFINE task == Head(queue_tasks)
    <2>1. /\ Pop /\ queue_tasks' = Tail(queue_tasks)
          /\ UNCHANGED <<queue_tasks_deferred, waiting_task_ids>>
          /\ task \in CompletionTask
      BY <1>4, TailLemma DEF LaunchTask, Pop, TaskType, CompletionTask
    <2> HIDE DEF task
    <2>2. PICK k \in Slots :
            LET s == Linked(slots[k], task) IN
            /\ Available(slots[k])
            /\ \/ slots' = [slots EXCEPT ![k] = s] /\ Send(ErrorFor(task.id))
               \/ slots' = [slots EXCEPT ![k] = Launched(s, task.request)]
                  /\ UNCHANGED queue_results
      BY <1>4 DEF LaunchTask, FreeFor, task
    <2> DEFINE s == Linked(slots[k], task)
               r == Launched(s, task.request)
    <2>3. task.id \in Nat /\ task.request \in RequestType
      BY <2>1 DEF CompletionTask
    <2>4. s \in SlotRecord /\ SameTask(s, [slots[k] EXCEPT !.id_task = task.id])
      BY <1>1, <2>1, LinkedType DEF SameTask, SlotRecord
    <2>5. r \in SlotRecord /\ r.state = s.state /\ r.id_task = s.id_task
            /\ r.command = "LOAD_PROMPT"
      <3> HIDE DEF s
      <3> QED BY <2>3, <2>4, LaunchedType
    <2>6. Working(r) /\ r.id_task = task.id
      BY <1>1, <2>2, <2>4, <2>5 DEF SameTask, SlotRecord, Available, Working, Loading
    <2>7. SlotsKept
      BY <2>2 DEF SlotsKept, Available, Working, Loading
    <2>8. CASE slots' = [slots EXCEPT ![k] = s] /\ Send(ErrorFor(task.id))
      <3>1. ErrorFor(task.id) \in ResultType /\ ErrorFor(task.id).id = task.id
              /\ Terminal(ErrorFor(task.id))
        <4>1. ErrorFor(task.id) \in ResultType
          BY <2>3, ResultsAreTyped
        <4>2. ErrorFor(task.id).id = task.id /\ Terminal(ErrorFor(task.id))
          BY DEF ErrorFor, Terminal
        <4> QED BY <4>1, <4>2
      <3>2. ResultsKept /\ (task.id = t => Answered(t)')
        BY <2>8, <3>1, SendKeeps
      <3> QED
        BY <1>3, <2>1, <2>7, <3>2, ResultsKeptLemma, SlotsKeptLemma
        DEF Pending, Deferred, task
    <2>9. CASE slots' = [slots EXCEPT ![k] = r] /\ UNCHANGED queue_results
      <3>1. task.id = t => InSlot(t)'
        <4> HIDE DEF r
        <4> QED BY <2>6, <2>9 DEF InSlot
      <3>2. ResultsKept
        BY <2>9 DEF ResultsKept
      <3> QED
        BY <1>3, <2>1, <2>7, <3>1, <3>2, ResultsKeptLemma, SlotsKeptLemma
        DEF Pending, Deferred, task
    <2> QED BY <2>2, <2>8, <2>9
  <1>5. CASE DeferTask
    <2>1. /\ Pop /\ queue_tasks' = Tail(queue_tasks)
          /\ UNCHANGED <<slots, queue_results>>
          /\ Head(queue_tasks) \in CompletionTask
          /\ queue_tasks_deferred' = Append(queue_tasks_deferred, Head(queue_tasks))
      <3>1. Head(queue_tasks) \in TaskType /\ Head(queue_tasks).type = "COMPLETION"
        BY <1>5, TailLemma DEF DeferTask, Pop
      <3>2. Head(queue_tasks) \in CompletionTask
        BY <3>1 DEF TaskType, CompletionTask
      <3> QED BY <1>5, <3>2 DEF DeferTask, resultVars, loopVars
    <2>2. Deferred(t) => Deferred(t)'
      BY <2>1, AppendLemma DEF Deferred
    <2>3. Head(queue_tasks).id = t => Deferred(t)'
      <3>1. Len(queue_tasks_deferred) + 1 \in DOMAIN queue_tasks_deferred'
        BY <2>1
      <3> QED BY SMTT(20), <2>1, <3>1, AppendLemma DEF Deferred
    <2> QED BY <1>3, <2>1, <2>2, <2>3 DEF Pending, InSlot, Answered
  <1>6. CASE CancelTask
    <2>1. /\ Pop /\ queue_tasks' = Tail(queue_tasks)
          /\ UNCHANGED <<queue_tasks_deferred, queue_results>>
          /\ Head(queue_tasks).type = "CANCEL"
      BY <1>6 DEF CancelTask, resultVars
    <2>2. Head(queue_tasks).id_target # t
      BY <2>1, TailLemma DEF Pop
    <2>3. \A k \in Slots : slots[k].id_task = t => slots'[k] = slots[k]
      BY <1>6, <2>2 DEF CancelTask
    <2> QED BY <1>3, <2>1, <2>3 DEF Pending, InSlot, Deferred, Answered
  <1>7. CASE SkipNextResponse
    BY <1>3, <1>7 DEF SkipNextResponse, resultVars, loopVars, Pending, InSlot,
       Deferred, Answered
  <1>8. CASE ReleaseSlots
    <2>1. SlotsKept /\ UNCHANGED queue_results
      BY <1>8 DEF ReleaseSlots, SlotsKept, Working, Loading, resultVars
    <2>2. Queued(t) \/ Deferred(t) => Queued(t)' \/ Deferred(t)'
      <3>1. CASE UNCHANGED <<queue_tasks, queue_tasks_deferred>>
        BY <3>1 DEF Queued, Deferred
      <3>2. CASE queue_tasks' = queue_tasks \o queue_tasks_deferred
        <4>1. queue_tasks_deferred \in Seq(TaskType)
          BY SeqMonotone DEF TaskType
        <4>2. Queued(t) => Queued(t)'
          BY <3>2, <4>1, ConcatLemma DEF Queued
        <4>3. ASSUME Deferred(t)
              PROVE  Queued(t)'
          <5>1. PICK i \in DOMAIN queue_tasks_deferred : queue_tasks_deferred[i].id = t
            BY <4>3 DEF Deferred
          <5>2. queue_tasks_deferred[i].type = "COMPLETION"
            <6>1. queue_tasks_deferred[i] \in CompletionTask
              OBVIOUS
            <6> QED BY <6>1 DEF CompletionTask
          <5>3. Len(queue_tasks) + i \in DOMAIN queue_tasks'
                  /\ queue_tasks'[Len(queue_tasks) + i] = queue_tasks_deferred[i]
            BY <3>2, <4>1, ConcatLemma
          <5> QED BY <5>1, <5>2, <5>3 DEF Queued
        <4> QED BY <4>2, <4>3
      <3> QED BY <1>8, <3>1, <3>2 DEF ReleaseSlots, NotifySlotChanged
    <2> QED BY <2>1, <2>2, SlotsKeptLemma DEF Pending, Answered
  <1>9. CASE AnswerStep
    <2>1. PICK k \in Slots, s \in SlotRecord, res \in ResultType :
           /\ slots' = [slots EXCEPT ![k] = s]
           /\ res.id = slots[k].id_task /\ Terminal(res) /\ Send(res)
      BY <1>9, AnswerLemma
    <2>2. UNCHANGED <<queue_tasks, queue_tasks_deferred>>
      BY <1>9 DEF AnswerStep, EmptyPrompt, TooLargeToEmbed, FailSlot, SendEmbedding,
         FinishSlot, queueVars
    <2>3. ResultsKept /\ (res.id = t => Answered(t)')
      BY <2>1, SendKeeps
    <2>4. InSlot(t) => InSlot(t)' \/ Answered(t)'
      BY <2>1, <2>3 DEF InSlot
    <2> QED BY <2>2, <2>3, <2>4, ResultsKeptLemma DEF Pending, Queued, Deferred
  <1>10. CASE ProgressStep
    <2>1. UNCHANGED <<queue_tasks, queue_tasks_deferred>>
      BY <1>10 DEF ProgressStep, PostponePrompt, LoadPrompt, SampleToken, queueVars
    <2> QED BY <1>2, <1>10, <2>1, ProgressLemma DEF QueueKept
  <1>11. CASE PostNextResponse
    <2>1. NextResponse \in TaskType
      BY DEF NextResponse, TaskType
    <2>2. UNCHANGED <<queue_tasks_deferred, queue_results, slots>>
      BY <1>11 DEF PostNextResponse, resultVars
    <2> QED
      BY <1>2, <1>11, <2>1, <2>2, PostKeeps
      DEF PostNextResponse, ResultsKept, SlotsKept
  <1>12. CASE AddSampledTokens
    <2>1. UNCHANGED <<queue_tasks, queue_tasks_deferred, queue_results>>
      BY <1>12 DEF AddSampledTokens, queueVars, resultVars
    <2>2. \A k \in Slots : /\ slots'[k].state = slots[k].state
                           /\ slots'[k].command = slots[k].command
                           /\ slots'[k].id_task = slots[k].id_task
      BY <1>1, <1>12 DEF AddSampledTokens, SlotRecord
    <2> QED
      BY <1>2, <2>1, <2>2 DEF QueueKept, ResultsKept, SlotsKept, Working, Loading
  <1>13. CASE BeginUpdate \/ AllIdle \/ NothingToLoad \/ EndDecode \/ Decode
                \/ NextChunk \/ WaitForTask
    BY <1>2, <1>13 DEF BeginUpdate, AllIdle, NothingToLoad, EndDecode, Decode,
       NextChunk, WaitForTask, queueVars, resultVars, QueueKept, ResultsKept, SlotsKept
  <1>14. CASE ClockAdvances
    BY <1>2, <1>14, ClockLemma DEF QueueKept, ResultsKept, SlotsKept
  <1> QED
    BY <1>4, <1>5, <1>6, <1>7, <1>8, <1>9, <1>10, <1>11, <1>12, <1>13, <1>14
    DEF LoopStep, ProcessTask, BatchPrompts, DecodeBatch, AnswerStep, ProgressStep

LEMMA DeliveryLoop ==
  ASSUME DeliveryInv, LoopStep
  PROVE  DeliveryInv'
  <1> USE DEF DeliveryInv
  <1>1. TypeInv'
    BY TypeNext DEF Next
  <1>2. UniqueIds' /\ ActiveWaits'
    BY LoopClients DEF UniqueIds, ActiveWaits
  <1>3. \A i \in DOMAIN queue_tasks' : queue_tasks'[i].type = "CANCEL" =>
          \E j \in DOMAIN queue_tasks : queue_tasks[j] = queue_tasks'[i]
    <2> SUFFICES ASSUME NEW i \in DOMAIN queue_tasks', queue_tasks'[i].type = "CANCEL"
                 PROVE  \E j \in DOMAIN queue_tasks : queue_tasks[j] = queue_tasks'[i]
      OBVIOUS
    <2>0. queue_tasks \in Seq(TaskType) /\ queue_tasks_deferred \in Seq(CompletionTask)
      BY DEF TypeInv, TypeOK
    <2>1. CASE UNCHANGED queue_tasks
      BY <2>1
    <2>2. CASE Pop /\ queue_tasks' = Tail(queue_tasks)
      BY <2>0, <2>2, TailLemma DEF Pop
    <2>3. CASE Post(NextResponse)
      <3>1. NextResponse \in TaskType /\ NextResponse.type # "CANCEL"
        BY DEF NextResponse, TaskType
      <3> QED BY <2>0, <2>3, <3>1, PostKeeps
    <2>4. CASE queue_tasks' = queue_tasks \o queue_tasks_deferred
      <3>1. queue_tasks_deferred \in Seq(TaskType)
        BY <2>0, SeqMonotone DEF TaskType
      <3>2. \A j \in DOMAIN queue_tasks_deferred : queue_tasks_deferred[j].type # "CANCEL"
        <4> TAKE j \in DOMAIN queue_tasks_deferred
        <4>1. queue_tasks_deferred[j] \in CompletionTask
          BY <2>0
        <4> QED BY <4>1 DEF CompletionTask
      <3> QED BY <2>0, <2>4, <3>1, <3>2, ConcatLemma
    <2> QED
      BY <2>1, <2>2, <2>3, <2>4
      DEF LoopStep, ProcessTask, LaunchTask, DeferTask, CancelTask, SkipNextResponse,
          ClockAdvances, BeginUpdate, ReleaseSlots, NotifySlotChanged, AllIdle,
          PostNextResponse, AddSampledTokens,
          BatchPrompts, NothingToLoad, EmptyPrompt, TooLargeToEmbed, PostponePrompt,
          LoadPrompt, DecodeBatch, EndDecode, Decode, FailSlot, SendEmbedding,
          SampleToken, FinishSlot, NextChunk, WaitForTask, queueVars
  <1>4. CancelDead'
    BY <1>3, LoopClients DEF CancelDead
  <1>5. NoLostRequest'
    <2> SUFFICES ASSUME NEW c \in Clients, jpc'[c] \in {"iter", "recv"}
                 PROVE  (Pending(task_id[c]) \/ Answered(task_id[c]))'
      BY DEF NoLostRequest
    <2>1. jpc[c] \in {"iter", "recv"} /\ task_id'[c] = task_id[c]
      BY LoopClients
    <2>2. PICK t : t = task_id[c]
      OBVIOUS
    <2>3. /\ t \in waiting_task_ids /\ (Pending(t) \/ Answered(t))
          /\ \A i \in DOMAIN queue_tasks :
                queue_tasks[i].type = "CANCEL" => queue_tasks[i].id_target # t
      BY <2>1, <2>2 DEF ActiveWaits, CancelDead, NoLostRequest
    <2>4. Pending(t)' \/ Answered(t)'
      BY <2>3, LoopKeepsTask
    <2> QED
      BY <2>1, <2>2, <2>4 DEF Pending, Queued, Deferred, InSlot, Answered
  <1> QED BY <1>1, <1>2, <1>4, <1>5

LEMMA DeliveryClient ==
  ASSUME DeliveryInv, NEW c \in Clients, ClientNext(c)
  PROVE  DeliveryInv'
  <1> USE DEF DeliveryInv
  <1>0. TypeInv'
    BY TypeClient
  <1>1. /\ jpc \in [Clients -> ClientPcs] /\ task_id \in [Clients -> Int]
        /\ next_id \in Nat /\ queue_tasks \in Seq(TaskType)
        /\ queue_results \in Seq(ResultType)
        /\ \A d \in Clients : jpc[d] # "idle" =>
              task_id[d] < next_id /\ task_id[d] \in Nat
    BY DEF TypeInv, TypeOK, IssuedIds, TaskIds
  <1>2. UNCHANGED <<slots, pc, cur, queue_tasks_deferred>>
    BY DEF ClientNext, ClientStep, GetNewId, AddWaiting, PostCompletion, CallNext,
       Recv, RemoveWaiting, PostCancel, queueVars, loopVars
  <1>3. \A u : (Deferred(u) => Deferred(u)') /\ (InSlot(u) => InSlot(u)')
    BY <1>2 DEF Deferred, InSlot
  \* What is left to show for a step: the threads' own facts, and that it keeps
  \* the tasks the other threads receive for.
  <1>4. ASSUME UNCHANGED <<queue_tasks, queue_results>>
        PROVE  \A u : Pending(u) \/ Answered(u) => Pending(u)' \/ Answered(u)'
    BY <1>3, <1>4 DEF Pending, Queued, Answered
  <1>5. CASE GetNewId(c)
    <2>1. /\ jpc' = [jpc EXCEPT ![c] = "add"] /\ jpc[c] = "idle"
          /\ task_id' = [task_id EXCEPT ![c] = next_id] /\ next_id' = next_id + 1
          /\ UNCHANGED <<queue_tasks, queue_results, waiting_task_ids>>
      BY <1>5 DEF GetNewId, Go, resultVars
    <2>2. UniqueIds' /\ ActiveWaits' /\ CancelDead'
      <3>1. UniqueIds'
        BY <1>1, <2>1 DEF UniqueIds
      <3>2. ActiveWaits'
        BY <1>1, <2>1 DEF ActiveWaits
      <3>3. CancelDead'
        <4>1. \A i \in DOMAIN queue_tasks : queue_tasks[i].type = "CANCEL" =>
                queue_tasks[i].id_target \in Nat
          <5> TAKE i \in DOMAIN queue_tasks
          <5>1. queue_tasks[i] \in TaskType
            BY <1>1
          <5> QED BY <5>1 DEF TaskType, CompletionTask
        <4> QED BY <1>1, <2>1, <4>1 DEF CancelDead
      <3> QED BY <3>1, <3>2, <3>3
    <2>3. \A d \in Clients : jpc'[d] \in {"iter", "recv"} =>
            jpc[d] \in {"iter", "recv"} /\ task_id'[d] = task_id[d]
      BY <1>1, <2>1
    <2>4. NoLostRequest'
      BY <1>4, <2>1, <2>3 DEF NoLostRequest
    <2> QED BY <1>0, <2>2, <2>4
  <1>6. CASE AddWaiting(c)
    <2>1. /\ jpc' = [jpc EXCEPT ![c] = "post"] /\ jpc[c] = "add"
          /\ waiting_task_ids' = waiting_task_ids \cup {task_id[c]}
          /\ UNCHANGED <<queue_tasks, queue_results, next_id, task_id>>
      BY <1>6 DEF AddWaiting, Go, queueVars
    <2>2. UniqueIds' /\ CancelDead'
      BY <1>1, <2>1 DEF UniqueIds, CancelDead
    <2>3. ActiveWaits'
      <3>1. \A d \in Clients : task_id[d] \in waiting_task_ids =>
                                 task_id[d] \in waiting_task_ids'
        BY <2>1, Zenon
      <3>2. task_id[c] \in waiting_task_ids'
        BY <2>1, Zenon
      <3>3. \A d \in Clients : d # c => jpc'[d] = jpc[d]
        BY <1>1, <2>1
      <3> QED BY <2>1, <3>1, <3>2, <3>3 DEF ActiveWaits
    <2>4. \A d \in Clients : jpc'[d] \in {"iter", "recv"} => jpc[d] \in {"iter", "recv"}
      BY <1>1, <2>1
    <2>5. NoLostRequest'
      BY <1>4, <2>1, <2>4 DEF NoLostRequest
    <2> QED BY <1>0, <2>2, <2>3, <2>5
  <1>7. CASE PostCompletion(c)
    <2>1. PICK to \in {"iter", "recv"} : jpc' = [jpc EXCEPT ![c] = to]
      BY <1>7 DEF PostCompletion, Go
    <2>2. /\ jpc[c] = "post" /\ Post(Completion(task_id[c], request[c]))
          /\ UNCHANGED <<queue_results, waiting_task_ids, next_id, task_id>>
      BY <1>7 DEF PostCompletion, resultVars
    <2>9. PICK t : t = task_id[c]
      OBVIOUS
    <2>3. PICK task \in TaskType : /\ Post(task) /\ task.type = "COMPLETION"
                                   /\ task.id = t
      <3>1. /\ Completion(task_id[c], request[c]) \in TaskType
            /\ Completion(task_id[c], request[c]).type = "COMPLETION"
            /\ Completion(task_id[c], request[c]).id = task_id[c]
        BY <2>2, ClientTasks DEF Completion
      <3> QED BY <2>2, <2>9, <3>1
    <2>4. /\ QueueKept /\ Queued(t)'
          /\ \A i \in DOMAIN queue_tasks' : queue_tasks'[i].type = "CANCEL" =>
               i \in DOMAIN queue_tasks /\ queue_tasks'[i] = queue_tasks[i]
      BY <1>1, <2>3, PostKeeps
    <2>5. \A d \in Clients : d # c => jpc'[d] = jpc[d]
      BY <1>1, <2>1
    <2>6. UniqueIds' /\ ActiveWaits' /\ CancelDead'
      <3>1. jpc'[c] \in {"iter", "recv"}
        BY <1>1, <2>1
      <3>2. UniqueIds'
        BY <2>2, <2>5 DEF UniqueIds
      <3>3. ActiveWaits'
        BY <2>2, <2>5 DEF ActiveWaits
      <3>4. \A d \in Clients : jpc'[d] \in {"add", "post", "iter", "recv"} =>
                                 jpc[d] \in {"add", "post", "iter", "recv"}
        BY <2>2, <2>5
      <3>5. CancelDead'
        BY <2>2, <2>4, <3>4 DEF CancelDead
      <3> QED BY <3>2, <3>3, <3>5
    <2>7. \A u : Pending(u) \/ Answered(u) => Pending(u)' \/ Answered(u)'
      <3> SUFFICES ASSUME NEW u, Pending(u) \/ Answered(u)
                   PROVE  Pending(u)' \/ Answered(u)'
        OBVIOUS
      <3>1. ResultsKept /\ SlotsKept
        BY <1>2, <2>2 DEF ResultsKept, SlotsKept
      <3> QED BY <1>2, <2>4, <3>1, AllKeptLemma
    <2>8. NoLostRequest'
      <3> SUFFICES ASSUME NEW d \in Clients, jpc'[d] \in {"iter", "recv"}
                   PROVE  (Pending(task_id[d]) \/ Answered(task_id[d]))'
        BY DEF NoLostRequest
      <3>1. PICK u : u = task_id[d] /\ task_id'[d] = u
        BY <2>2
      <3>2. Pending(u)' \/ Answered(u)'
        <4>1. CASE d = c
          BY <2>4, <2>9, <3>1, <4>1 DEF Pending
        <4>2. CASE d # c
          BY <2>5, <2>7, <3>1, <4>2 DEF NoLostRequest
        <4> QED BY <4>1, <4>2
      <3> QED BY <3>1, <3>2 DEF Pending, Queued, Deferred, InSlot, Answered
    <2> QED BY <1>0, <2>6, <2>8
  <1>8. CASE CallNext(c)
    <2>1. /\ jpc' = [jpc EXCEPT ![c] = "recv"] /\ jpc[c] = "iter"
          /\ UNCHANGED <<queue_tasks, queue_results, waiting_task_ids, next_id, task_id>>
      BY <1>8 DEF CallNext, Go, queueVars, resultVars
    <2>2. UniqueIds' /\ ActiveWaits' /\ CancelDead'
      BY <1>1, <2>1 DEF UniqueIds, ActiveWaits, CancelDead
    <2>3. \A d \in Clients : jpc'[d] \in {"iter", "recv"} => jpc[d] \in {"iter", "recv"}
      BY <1>1, <2>1
    <2>4. NoLostRequest'
      BY <1>4, <2>1, <2>3 DEF NoLostRequest
    <2> QED BY <1>0, <2>2, <2>4
  <1>9. CASE Recv(c)
    <2>1. PICK i \in DOMAIN queue_results, to \in {"remove", "iter", "idle"} :
            /\ queue_results[i].id = task_id[c]
            /\ queue_results' = RemoveAt(queue_results, i)
            /\ jpc' = [jpc EXCEPT ![c] = to]
            /\ to = "iter" => ~Terminal(queue_results[i])
      BY <1>9 DEF Recv, Go
    <2>2. /\ jpc[c] = "recv"
          /\ UNCHANGED <<queue_tasks, waiting_task_ids, next_id, task_id>>
      BY <1>9 DEF Recv, queueVars
    <2>3. \A d \in Clients : d # c => jpc'[d] = jpc[d]
      BY <1>1, <2>1
    <2>4. jpc'[c] = to
      BY <1>1, <2>1
    <2>5. UniqueIds' /\ ActiveWaits' /\ CancelDead'
      BY <2>2, <2>3, <2>4 DEF UniqueIds, ActiveWaits, CancelDead
    <2>6. \A j \in DOMAIN queue_results : j # i =>
            \E m \in DOMAIN queue_results' : queue_results'[m] = queue_results[j]
      BY <1>1, <2>1, RemoveAtLemma
    <2>7. NoLostRequest'
      <3> SUFFICES ASSUME NEW d \in Clients, jpc'[d] \in {"iter", "recv"}
                   PROVE  (Pending(task_id[d]) \/ Answered(task_id[d]))'
        BY DEF NoLostRequest
      <3>1. PICK u : u = task_id[d] /\ task_id'[d] = u
        BY <2>2
      <3>2. jpc[d] \in {"iter", "recv"} /\ (d = c => to = "iter")
        BY <2>2, <2>3, <2>4
      <3>3. queue_results[i].id = u => ~Terminal(queue_results[i])
        BY <2>1, <2>2, <3>1, <3>2 DEF UniqueIds
      <3>4. Answered(u) => Answered(u)'
        <4> SUFFICES ASSUME Answered(u)
                     PROVE  Answered(u)'
          OBVIOUS
        <4>1. PICK j \in DOMAIN queue_results :
                queue_results[j].id = u /\ Terminal(queue_results[j])
          BY DEF Answered
        <4>2. PICK m \in DOMAIN queue_results' : queue_results'[m] = queue_results[j]
          BY <2>6, <3>3, <4>1
        <4> QED BY <4>1, <4>2 DEF Answered
      <3>5. Pending(u) \/ Answered(u)
        BY <3>1, <3>2 DEF NoLostRequest
      <3>6. Pending(u) => Pending(u)'
        BY <1>3, <2>2 DEF Pending, Queued
      <3>7. Pending(u)' \/ Answered(u)'
        BY <3>4, <3>5, <3>6
      <3> QED BY <3>1, <3>7 DEF Pending, Queued, Deferred, InSlot, Answered
    <2> QED BY <1>0, <2>5, <2>7
  <1>10. CASE RemoveWaiting(c)
    <2>1. /\ jpc' = [jpc EXCEPT ![c] = "idle"] /\ jpc[c] = "remove"
          /\ waiting_task_ids' = waiting_task_ids \ {task_id[c]}
          /\ UNCHANGED <<queue_tasks, queue_results, next_id, task_id>>
      BY <1>10 DEF RemoveWaiting, Go, queueVars
    <2>2. \A d \in Clients : d # c => jpc'[d] = jpc[d]
      BY <1>1, <2>1
    <2>3. jpc'[c] = "idle"
      BY <1>1, <2>1
    <2>4. UniqueIds' /\ CancelDead'
      BY <2>1, <2>2, <2>3 DEF UniqueIds, CancelDead
    <2>5. ActiveWaits'
      BY <2>1, <2>2, <2>3 DEF ActiveWaits, UniqueIds
    <2>6. NoLostRequest'
      BY <1>4, <2>1, <2>2, <2>3 DEF NoLostRequest
    <2> QED BY <1>0, <2>4, <2>5, <2>6
  <1>11. CASE PostCancel(c)
    <2>1. /\ jpc' = [jpc EXCEPT ![c] = "remove"] /\ jpc[c] = "iter"
          /\ Post(Cancel(task_id[c]))
          /\ UNCHANGED <<queue_results, waiting_task_ids, next_id, task_id>>
      BY <1>11 DEF PostCancel, Go, resultVars
    <2>2. PICK task \in TaskType : /\ Post(task) /\ task.type = "CANCEL"
                                   /\ task.id_target = task_id[c]
      <3>1. Cancel(task_id[c]) \in TaskType
        BY <2>1, ClientTasks
      <3> QED BY <2>1, <3>1 DEF Cancel
    <2>3. /\ QueueKept
          /\ \A i \in DOMAIN queue_tasks' :
              queue_tasks'[i] = task \/ (i \in DOMAIN queue_tasks
                                          /\ queue_tasks'[i] = queue_tasks[i])
      BY <1>1, <2>2, PostKeeps
    <2>4. \A d \in Clients : d # c => jpc'[d] = jpc[d]
      BY <1>1, <2>1
    <2>5. jpc'[c] = "remove"
      BY <1>1, <2>1
    <2>6. UniqueIds' /\ ActiveWaits'
      BY <2>1, <2>4, <2>5 DEF UniqueIds, ActiveWaits
    <2>7. CancelDead'
      <3>1. /\ task.id_target < next_id
            /\ \A d \in Clients : jpc'[d] \in {"add", "post", "iter", "recv"} =>
                 task_id[d] # task.id_target
        BY <1>1, <2>1, <2>2, <2>4, <2>5 DEF UniqueIds
      <3> QED BY <2>1, <2>3, <2>4, <2>5, <3>1 DEF CancelDead
    <2>8. NoLostRequest'
      <3> SUFFICES ASSUME NEW d \in Clients, jpc'[d] \in {"iter", "recv"}
                   PROVE  (Pending(task_id[d]) \/ Answered(task_id[d]))'
        BY DEF NoLostRequest
      <3>1. PICK u : u = task_id[d] /\ task_id'[d] = u
        BY <2>1
      <3>2. Pending(u) \/ Answered(u)
        BY <2>4, <2>5, <3>1 DEF NoLostRequest
      <3>3. ResultsKept /\ SlotsKept
        BY <1>2, <2>1 DEF ResultsKept, SlotsKept
      <3>4. Pending(u)' \/ Answered(u)'
        BY <1>2, <2>3, <3>2, <3>3, AllKeptLemma
      <3> QED BY <3>1, <3>4 DEF Pending, Queued, Deferred, InSlot, Answered
    <2> QED BY <1>0, <2>6, <2>7, <2>8
  <1> QED
    BY <1>5, <1>6, <1>7, <1>8, <1>9, <1>10, <1>11 DEF ClientNext, ClientStep

\* No request is lost: whatever the threads, the slots and llama_decode do, the
\* task of a thread that still wants results is queued, deferred, worked on by
\* a slot, or answered.
THEOREM NoRequestLost == Spec => []NoLostRequest
  <1>1. Init => DeliveryInv
    <2> HAVE Init
    <2>1. TypeInv
      BY TypeInit
    <2> QED
      BY <2>1 DEF Init, DeliveryInv, UniqueIds, ActiveWaits, CancelDead, NoLostRequest
  <1>2. DeliveryInv /\ [Next]_vars => DeliveryInv'
    <2> SUFFICES ASSUME DeliveryInv, [Next]_vars
                 PROVE  DeliveryInv'
      OBVIOUS
    <2>1. CASE UNCHANGED vars
      <3>1. TypeInv'
        BY TypeNext DEF DeliveryInv
      <3>2. UniqueIds' /\ ActiveWaits' /\ CancelDead'
        BY <2>1 DEF vars, queueVars, resultVars, clientVars, DeliveryInv, UniqueIds,
           ActiveWaits, CancelDead
      <3>3. NoLostRequest'
        BY <2>1 DEF vars, queueVars, resultVars, loopVars, clientVars, DeliveryInv,
           NoLostRequest, Pending, Queued, Deferred, InSlot, Answered
      <3> QED BY <3>1, <3>2, <3>3 DEF DeliveryInv
    <2> QED BY <2>1, DeliveryClient, DeliveryLoop DEF Next
  <1>3. DeliveryInv => NoLostRequest
    BY DEF DeliveryInv
  <1> QED BY <1>1, <1>2, <1>3, PTL DEF Spec

=============================================================================
