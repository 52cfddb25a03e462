-------------------------- MODULE LlamaServerBatch --------------------------
(***************************************************************************)
(* The batch of update_slots, for every number of slots and every batch    *)
(* size: it never overflows (BatchWithinCapacity), every sequence in it is *)
(* sampled (AllSampled) from logits of its own (OwnLogits), and embeddings *)
(* are alone in it (EmbeddingsUnmixed).                                    *)
(*                                                                         *)
(* update_slots adds one token per generating slot without a test.  What   *)
(* bounds them is history: a slot starts generating only in a pass whose   *)
(* batch took the end of its prompt, next to one token of each slot that   *)
(* generated already.                                                      *)
(***************************************************************************)
EXTENDS LlamaServerProofs

Generating == {k \in Slots : slots[k].state = "PROCESSING" /\ slots[k].command = "NONE"}

\* From the first sampled token to the end of the decode loop.
InBatch == pc \in {"prompt", "decode", "fail", "sample", "finish"}

NoReloadWhileBusy == \A k \in Slots :
                       slots[k].state = "PROCESSING" => slots[k].command # "LOAD_PROMPT"

NoneReleased == pc \in {"idle", "sampled"} =>
                  \A k \in Slots : slots[k].command # "RELEASE"

GeneratingFit == Cardinality(Generating) <= IF InBatch THEN n_tokens ELSE NBatch

BatchInv == TypeInv /\ NoReloadWhileBusy /\ NoneReleased /\ GeneratingFit
              /\ BatchWithinCapacity

LEMMA GeneratingFinite ==
  ASSUME BatchInv
  PROVE  IsFiniteSet(Generating) /\ Cardinality(Generating) \in Nat
  BY SlotSubset DEF Generating

\* A step that starts no generation, and changes neither the batch nor whether
\* there is one, or ends it.
LEMMA FewerFit ==
  ASSUME BatchInv, Generating' \subseteq Generating, UNCHANGED n_tokens,
         InBatch' => InBatch
  PROVE  GeneratingFit' /\ BatchWithinCapacity'
  <1>1. /\ IsFiniteSet(Generating) /\ Cardinality(Generating) \in Nat
        /\ n_tokens \in Nat /\ NBatch \in Nat
    BY GeneratingFinite, BatchAssumption DEF BatchInv, TypeInv, TypeOK
  <1>2. /\ Cardinality(Generating') <= Cardinality(Generating)
        /\ Cardinality(Generating') \in Nat
    <2>1. Generating' \in SUBSET Generating
      OBVIOUS
    <2> QED BY <1>1, <2>1, FS_Subset, FS_CardinalityType
  <1>3. Cardinality(Generating)' = Cardinality(Generating')
    OBVIOUS
  <1> QED BY <1>1, <1>2, <1>3 DEF BatchInv, GeneratingFit, BatchWithinCapacity

LEMMA BatchSteps ==
  ASSUME BatchInv, LoopStep
  PROVE  BatchInv'
  <1> USE DEF BatchInv
  <1>1. TypeInv'
    BY TypeNext DEF Next
  <1>2. \A k \in Slots : slots[k] \in SlotRecord
    BY DEF TypeInv, TypeOK
  <1>3. NBatch \in Nat /\ n_tokens \in Nat /\ slots \in [Slots -> SlotRecord]
    BY BatchAssumption DEF TypeInv, TypeOK
  <1>4. CASE LaunchTask
    <2> DEFINE task == Head(queue_tasks)
    <2>1. task \in CompletionTask /\ task.request \in RequestType
      <3>1. task \in TaskType /\ task.type = "COMPLETION"
        BY <1>4, TailLemma DEF LaunchTask, Pop, TypeInv, TypeOK
      <3> QED BY <3>1 DEF TaskType, CompletionTask
    <2>2. PICK k \in Slots :
            LET s == Linked(slots[k], task) IN
            /\ Available(slots[k])
            /\ \/ slots' = [slots EXCEPT ![k] = s]
               \/ slots' = [slots EXCEPT ![k] = Launched(s, task.request)]
      BY <1>4 DEF LaunchTask, FreeFor
    <2> HIDE DEF task
    <2> DEFINE s == Linked(slots[k], task)
               r == Launched(s, task.request)
    <2>3. s \in SlotRecord /\ s.state = "IDLE"
      BY <1>2, <2>1, <2>2, LinkedType DEF Available
    <2>4. r.state = "IDLE"
      <3> HIDE DEF s
      <3> QED BY <2>1, <2>3, LaunchedType
    <2>5. PICK x : slots' = [slots EXCEPT ![k] = x] /\ x.state = "IDLE"
      BY <2>2, <2>3, <2>4
    <2>6. pc' = pc /\ pc = "pop" /\ UNCHANGED n_tokens
      BY <1>4 DEF LaunchTask, Pop, batchVars
    <2>7. Generating' \subseteq Generating /\ NoReloadWhileBusy'
      BY <1>3, <2>5 DEF Generating, NoReloadWhileBusy
    <2> QED BY <1>1, <2>6, <2>7, FewerFit DEF NoneReleased, InBatch
  <1>5. CASE CancelTask
    <2>1. \A k \in Slots : slots'[k] = Released(slots[k]) \/ slots'[k] = slots[k]
      BY <1>5 DEF CancelTask
    <2>2. \A s \in SlotRecord : Released(s).state = s.state
                                /\ Released(s).command \in {s.command, "RELEASE"}
      BY DEF Released, SlotRecord
    <2>3. pc' = pc /\ pc = "pop" /\ UNCHANGED n_tokens
      BY <1>5 DEF CancelTask, Pop, batchVars
    <2>4. Generating' \subseteq Generating /\ NoReloadWhileBusy'
      BY <1>2, <2>1, <2>2 DEF Generating, NoReloadWhileBusy
    <2> QED BY <1>1, <2>3, <2>4, FewerFit DEF NoneReleased, InBatch
  <1>6. CASE ReleaseSlots
    <2>1. \A k \in Slots :
            /\ slots[k].command = "RELEASE" =>
                 slots'[k].state = "IDLE" /\ slots'[k].command = "NONE"
            /\ slots[k].command # "RELEASE" => slots'[k] = slots[k]
      BY <1>2, <1>6 DEF ReleaseSlots, SlotRecord
    <2>2. Generating' \subseteq Generating /\ NoReloadWhileBusy' /\ NoneReleased'
      BY <2>1 DEF Generating, NoReloadWhileBusy, NoneReleased
    <2>3. pc' = "idle" /\ UNCHANGED n_tokens
      BY <1>6 DEF ReleaseSlots, batchVars
    <2> QED BY <1>1, <2>2, <2>3, FewerFit DEF InBatch
  <1>7. CASE DeferTask \/ SkipNextResponse \/ BeginUpdate \/ AllIdle
               \/ PostNextResponse \/ NothingToLoad \/ EndDecode \/ Decode
               \/ NextChunk \/ WaitForTask \/ ClockAdvances
    <2>1. UNCHANGED <<slots, n_tokens>>
      BY <1>7 DEF DeferTask, SkipNextResponse, BeginUpdate, AllIdle,
         PostNextResponse, NothingToLoad, EndDecode, Decode, NextChunk,
         WaitForTask, ClockAdvances, loopVars, batchVars
    <2>2. InBatch' => InBatch
      BY <1>7 DEF InBatch, Pop, DeferTask, SkipNextResponse, BeginUpdate, AllIdle,
         PostNextResponse, NothingToLoad, EndDecode, Decode, NextChunk,
         WaitForTask, ClockAdvances, loopVars
    <2>3. pc' \in {"idle", "sampled"} => pc \in {"idle", "sampled"}
      BY <1>7 DEF Pop, DeferTask, SkipNextResponse, BeginUpdate, AllIdle,
         PostNextResponse, NothingToLoad, EndOfPromptBody, EndDecode, Decode,
         NextChunk, WaitForTask, ClockAdvances, loopVars
    <2>4. Generating' = Generating /\ NoReloadWhileBusy' /\ NoneReleased'
      BY <2>1, <2>3 DEF Generating, NoReloadWhileBusy, NoneReleased
    <2> QED BY <1>1, <2>1, <2>2, <2>4, FewerFit
  <1>8. CASE AddSampledTokens
    <2>1. pc = "sampled" /\ n_tokens' = Cardinality(Busy) /\ pc' \in {"prompt", "decode"}
      BY <1>8 DEF AddSampledTokens
    <2>2. Busy = Generating
      <3>1. \A k \in Slots : slots[k].command # "RELEASE"
        BY <2>1 DEF NoneReleased
      <3> QED BY <1>2, <3>1 DEF Busy, Generating, NoReloadWhileBusy, SlotRecord
    <2>3. \A k \in Slots : /\ slots'[k].state = slots[k].state
                           /\ slots'[k].command = slots[k].command
      BY <1>2, <1>8 DEF AddSampledTokens, SlotRecord
    <2>4. Generating' = Generating /\ NoReloadWhileBusy'
      BY <2>3 DEF Generating, NoReloadWhileBusy
    <2>5. Cardinality(Generating) <= NBatch
      BY <2>1 DEF GeneratingFit, InBatch
    <2>6. GeneratingFit' /\ BatchWithinCapacity'
      <3>1. Cardinality(Generating)' = n_tokens' /\ n_tokens' <= NBatch
        BY <2>1, <2>2, <2>4, <2>5
      <3>2. n_tokens' \in Nat
        BY <1>1 DEF TypeInv, TypeOK
      <3> QED BY <1>3, <2>1, <3>1, <3>2 DEF GeneratingFit, InBatch, BatchWithinCapacity
    <2> QED BY <1>1, <2>1, <2>4, <2>6 DEF NoneReleased
  <1>9. CASE AnswerStep
    <2>1. PICK k \in Slots, s \in SlotRecord :
            /\ slots' = [slots EXCEPT ![k] = s]
            /\ s.state = "PROCESSING" /\ s.command = "RELEASE"
      BY <1>9, AnswerLemma
    <2>2. Generating' \subseteq Generating /\ NoReloadWhileBusy'
      BY <1>3, <2>1 DEF Generating, NoReloadWhileBusy
    <2>3. InBatch /\ pc' \notin {"idle", "sampled"} /\ UNCHANGED n_tokens
      BY <1>9 DEF AnswerStep, EmptyPrompt, TooLargeToEmbed, FailSlot, SendEmbedding,
         FinishSlot, FirstHit, ContinuePrompts, InBatch, batchVars
    <2> QED BY <1>1, <2>2, <2>3, FewerFit DEF NoneReleased
  <1>10. ASSUME NEW k \in Slots, NEW s \in SlotRecord,
                slots' = [slots EXCEPT ![k] = s], SameTask(s, slots[k]),
                InBatch, UNCHANGED n_tokens, pc' \notin {"idle", "sampled"}
         PROVE  BatchInv'
    <2>1. Generating' = Generating /\ NoReloadWhileBusy'
      BY <1>3, <1>10 DEF Generating, NoReloadWhileBusy, SameTask
    <2> QED BY <1>1, <1>10, <2>1, FewerFit DEF NoneReleased
  <1>11. CASE PostponePrompt
    <2>1. cur \in Slots /\ MayLoad(slots[cur]) /\ pc = "prompt"
      BY <1>11 DEF PostponePrompt, TypeInv, TypeOK
    <2>2. PICK s \in Tokenized(slots[cur]) : slots' = [slots EXCEPT ![cur] = s]
      BY <1>11 DEF PostponePrompt
    <2>3. s \in SlotRecord /\ SameTask(s, slots[cur])
      BY <1>2, <2>1, <2>2, TokenizedType DEF PromptLeft, MayLoad, TypeInv
    <2>4. UNCHANGED n_tokens /\ pc' \notin {"idle", "sampled"} /\ InBatch
      BY <1>11, <2>1 DEF PostponePrompt, ContinuePrompts, batchVars, InBatch
    <2> QED BY <1>10, <2>1, <2>2, <2>3, <2>4
  <1>12. CASE LoadPrompt
    <2>1. cur \in Slots /\ MayLoad(slots[cur]) /\ pc = "prompt"
            /\ n_batch \in Nat /\ n_batch <= NBatch
      BY <1>3, <1>12 DEF LoadPrompt, TypeInv, TypeOK
    <2>2. PICK s \in Tokenized(slots[cur]) :
            /\ slots' = [slots EXCEPT ![cur] = LoadedPrompt(s, Taken(s))]
            /\ n_tokens' = n_tokens + Taken(s)
      BY <1>12 DEF LoadPrompt
    <2>3. s \in SlotRecord /\ s.n_past < s.n_prompt /\ SameTask(s, slots[cur])
      BY <1>2, <2>1, <2>2, TokenizedType DEF PromptLeft, MayLoad, TypeInv
    <2>4. Loading(s)
      BY <2>1, <2>3 DEF MayLoad, Loading, SameTask
    <2>5. /\ Taken(s) \in Nat /\ s.n_past + Taken(s) <= s.n_prompt
          /\ Taken(s) = 0 \/ n_tokens + Taken(s) <= n_batch
      BY <2>3, TakenType DEF TypeInv
    <2>6. PICK m \in Nat : m = Taken(s)
      BY <2>5
    <2> DEFINE r == LoadedPrompt(s, m)
    <2>7. /\ r \in SlotRecord
          /\ \/ m # 0 /\ r.state = "PROCESSING" /\ r.command = "NONE"
             \/ SameTask(r, s)
      BY <2>3, <2>4, <2>5, <2>6, LoadedType DEF TypeInv
    <2>8. slots' = [slots EXCEPT ![cur] = r]
      BY <2>2, <2>6
    <2> HIDE DEF r
    <2>9. /\ n_tokens' = n_tokens + m /\ n_tokens' <= NBatch
      BY <1>3, <2>1, <2>2, <2>5, <2>6 DEF BatchWithinCapacity
    <2>10. pc' \notin {"idle", "sampled"} /\ InBatch /\ InBatch'
      BY <1>12, <2>1 DEF LoadPrompt, EndOfPromptBody, InBatch
    <2>11. NoReloadWhileBusy'
      BY <1>3, <2>3, <2>7, <2>8 DEF NoReloadWhileBusy, SameTask
    <2>12. Cardinality(Generating') <= n_tokens + m
      <3>1. Cardinality(Generating) <= n_tokens /\ IsFiniteSet(Generating)
              /\ Cardinality(Generating) \in Nat
        BY <2>10, GeneratingFinite DEF GeneratingFit
      <3>2. CASE SameTask(r, s)
        <4>1. Generating' = Generating
          BY <1>3, <2>3, <2>8, <3>2 DEF Generating, SameTask
        <4> QED BY <1>3, <3>1, <4>1
      <3>3. CASE m # 0
        <4>1. Generating' \in SUBSET (Generating \cup {cur})
          BY <1>3, <2>8 DEF Generating
        <4>2. /\ IsFiniteSet(Generating \cup {cur})
              /\ Cardinality(Generating \cup {cur}) \in
                   {Cardinality(Generating), Cardinality(Generating) + 1}
          BY <3>1, FS_AddElement
        <4>3. /\ Cardinality(Generating') <= Cardinality(Generating \cup {cur})
              /\ Cardinality(Generating') \in Nat
          BY <4>1, <4>2, FS_Subset, FS_CardinalityType
        <4> QED BY <1>3, <3>1, <3>3, <4>2, <4>3
      <3> QED BY <2>7, <3>2, <3>3
    <2>13. GeneratingFit' /\ BatchWithinCapacity'
      <3>1. Cardinality(Generating)' = Cardinality(Generating')
        OBVIOUS
      <3> QED BY <2>9, <2>10, <2>12, <3>1 DEF GeneratingFit, BatchWithinCapacity
    <2> QED BY <1>1, <2>10, <2>11, <2>13 DEF NoneReleased
  <1>13. CASE SampleToken
    <2>1. PICK k \in Slots, more \in BOOLEAN :
            slots' = [slots EXCEPT ![k] = Sampled(slots[k], more)]
      BY <1>13 DEF SampleToken
    <2> DEFINE r == Sampled(slots[k], more)
    <2>2. r \in SlotRecord /\ SameTask(r, slots[k])
      BY <1>2, SampledType
    <2>3. slots' = [slots EXCEPT ![k] = r]
      BY <2>1
    <2> HIDE DEF r
    <2>4. InBatch /\ pc' \notin {"idle", "sampled"} /\ UNCHANGED n_tokens
      BY <1>13 DEF SampleToken, FirstHit, InBatch, batchVars
    <2> QED BY <1>10, <2>2, <2>3, <2>4
  <1> QED
    BY <1>4, <1>5, <1>6, <1>7, <1>8, <1>9, <1>11, <1>12, <1>13
    DEF LoopStep, ProcessTask, BatchPrompts, DecodeBatch, AnswerStep

LEMMA BatchInit == Init => BatchInv
  <1> HAVE Init
  <1>1. TypeInv
    BY TypeInit
  <1>2. /\ \A k \in Slots : slots[k].state = "IDLE" /\ slots[k].command = "NONE"
        /\ pc = "pop" /\ n_tokens = 0
    BY DEF Init, FreshSlot
  <1>3. Generating = {}
    BY <1>2 DEF Generating
  <1> QED
    BY <1>1, <1>2, <1>3, FS_EmptySet, BatchAssumption
    DEF BatchInv, NoReloadWhileBusy, NoneReleased, GeneratingFit, InBatch,
        BatchWithinCapacity

LEMMA ClientsOutside ==
  ASSUME UNCHANGED vars \/ \E c \in Clients : ClientNext(c)
  PROVE  UNCHANGED <<slots, pc, cur, n_tokens, n_batch, i_chunk, batch_type>>
  BY DEF ClientNext, ClientStep, GetNewId, AddWaiting, PostCompletion, CallNext, Recv,
     RemoveWaiting, PostCancel, vars, loopVars, batchVars

LEMMA BatchNext == BatchInv /\ [Next]_vars => BatchInv'
  <1> SUFFICES ASSUME BatchInv, [Next]_vars
               PROVE  BatchInv'
    OBVIOUS
  <1>1. CASE LoopStep
    BY <1>1, BatchSteps
  <1>2. CASE UNCHANGED vars \/ \E c \in Clients : ClientNext(c)
    <2>1. UNCHANGED <<slots, pc, n_tokens>>
      BY <1>2, ClientsOutside
    <2>2. TypeInv'
      BY TypeNext DEF BatchInv
    <2>3. Generating' = Generating /\ NoReloadWhileBusy' /\ NoneReleased'
            /\ (InBatch' => InBatch)
      BY <2>1 DEF BatchInv, Generating, NoReloadWhileBusy, NoneReleased, InBatch
    <2> QED BY <2>1, <2>2, <2>3, FewerFit DEF BatchInv
  <1> QED BY <1>1, <1>2 DEF Next

\* update_slots never submits more than n_batch tokens, the size the batch was
\* allocated with, for any number of slots: the inductive invariant counts the
\* generating slots, which never outnumber the tokens of the batch they are in.
THEOREM BatchNeverOverflows == Spec => []BatchWithinCapacity
  <1>1. BatchInv => BatchWithinCapacity
    BY DEF BatchInv
  <1> QED BY <1>1, BatchInit, BatchNext, PTL DEF Spec

(***************************************************************************)
(* Every sequence is sampled once per pass, and from its own logits.       *)
(***************************************************************************)
Held(k) == slots[k].i_batch # -1

\* The first index that has not been sampled when the loop looks at slot k.
Unsampled(k) == IF pc \in {"sample", "finish"} /\ k < cur THEN ChunkEnd ELSE i_chunk

IndexAhead == \A k \in Generating : Held(k) =>
                /\ InBatch
                /\ pc # "fail" => slots[k].i_batch \in Unsampled(k) .. n_tokens - 1

FailedReleased == pc = "fail" => \A k \in Generating : cur <= k

ChunkStart == pc = "prompt" => i_chunk = 0

EmbeddingWhole == \A k \in Slots :
  slots[k].embedding /\ Loading(slots[k]) => slots[k].n_past = 0

EmbeddingIndexed == \A k \in Generating : slots[k].embedding => Held(k)

TypeOfBatch == InBatch => \A k \in Generating : batch_type = SlotType(slots[k])

IndexInv == BatchInv /\ IndexAhead /\ FailedReleased /\ ChunkStart
              /\ EmbeddingWhole /\ EmbeddingIndexed /\ TypeOfBatch

\* After a batch that failed for good a slot keeps its index; these two hold
\* until then.
NoneStale == \A k \in Slots : Held(k) => k \in Generating
Distinct  == \A k, m \in Slots :
               Held(k) /\ slots[k].i_batch = slots[m].i_batch => k = m

LogitsInv == NoneStale /\ Distinct

\* What the proof of a step has to show: BatchInv' is BatchSteps.
IndexKept == /\ IndexAhead' /\ FailedReleased' /\ ChunkStart'
             /\ EmbeddingWhole' /\ EmbeddingIndexed' /\ TypeOfBatch'
LogitsKept == LogitsInv /\ pc # "fail" => LogitsInv'

\* What the updates of a slot do to the index of its token.
LEMMA UpdatedIndex ==
  ASSUME NEW s \in SlotRecord
  PROVE  /\ Released(s).i_batch = s.i_batch /\ Released(s).embedding = s.embedding
         /\ Released(s).n_past = s.n_past
         /\ Aborted(s).i_batch = s.i_batch
         /\ Finished(s).i_batch = -1
         /\ [Aborted(s) EXCEPT !.n_past = 0].i_batch = s.i_batch
         /\ \A n : [Aborted(s) EXCEPT !.n_past = 0, !.n_prompt = n].i_batch = s.i_batch
         /\ \A task : Linked(s, task).i_batch = s.i_batch /\ Linked(s, task).n_past = 0
         /\ \A r : Launched(s, r).i_batch = s.i_batch
                     /\ Launched(s, r).n_past = s.n_past
         /\ \A more : /\ Sampled(s, more).i_batch = (IF more THEN -1 ELSE s.i_batch)
                      /\ Sampled(s, more).embedding = s.embedding
  BY DEF SlotRecord, Released, Aborted, Finished, Linked, Launched, Sampled

LEMMA TokenizedIndex ==
  ASSUME NEW s \in SlotRecord, NEW t \in Tokenized(s)
  PROVE  /\ t.i_batch = s.i_batch /\ t.embedding = s.embedding
         /\ s.embedding => t.n_past = IF s.n_prompt = 0 THEN 0 ELSE s.n_past
  BY DEF Tokenized, SlotRecord

LEMMA LoadedIndex ==
  ASSUME NEW s \in SlotRecord, NEW m \in Nat
  PROVE  LET r == LoadedPrompt(s, m) IN
         /\ r.embedding = s.embedding
         /\ IF s.n_past + m = s.n_prompt
            THEN r.i_batch = n_tokens + m - 1 /\ r.state = "PROCESSING" /\ r.command = "NONE"
            ELSE r.i_batch = s.i_batch /\ SameTask(r, s) /\ r.n_past = s.n_past + m
  BY DEF LoadedPrompt, LastInBatch, SlotRecord, SameTask

\* Outside the pass no generating slot holds an index, so nothing but the end
\* of a generation can happen to them.
LEMMA IndexOutside ==
  ASSUME IndexInv, ~InBatch, ~InBatch',
         \A k \in Slots : slots'[k].i_batch = slots[k].i_batch,
         \A k \in Generating' : k \in Generating /\ slots'[k].embedding = slots[k].embedding,
         EmbeddingWhole'
  PROVE  IndexKept /\ LogitsKept
  <1>1. \A k \in Generating : ~Held(k) /\ ~slots[k].embedding
    BY DEF IndexInv, IndexAhead, EmbeddingIndexed
  <1>2. \A k \in Generating' : k \in Slots /\ ~Held(k)' /\ ~slots'[k].embedding
    BY <1>1 DEF Held, Generating
  <1>3. pc' \notin {"fail", "prompt"}
    BY DEF InBatch
  <1>4. IndexKept
    BY <1>2, <1>3 DEF IndexKept, IndexAhead, FailedReleased, ChunkStart,
       EmbeddingIndexed, TypeOfBatch
  <1>5. LogitsKept
    BY <1>1 DEF LogitsKept, LogitsInv, NoneStale, Distinct, Held
  <1> QED BY <1>4, <1>5

LEMMA IndexLaunch ==
  ASSUME IndexInv, LaunchTask
  PROVE  IndexKept /\ LogitsKept
  <1>1. \A k \in Slots : slots[k] \in SlotRecord
    BY DEF IndexInv, BatchInv, TypeInv, TypeOK
  <1>2. slots \in [Slots -> SlotRecord] /\ pc = "pop" /\ pc' = "pop"
    BY DEF IndexInv, BatchInv, TypeInv, TypeOK, LaunchTask, Pop
  <1> DEFINE task == Head(queue_tasks)
  <1>3. task \in CompletionTask /\ task.request \in RequestType
    <2>1. task \in TaskType /\ task.type = "COMPLETION"
      BY TailLemma DEF LaunchTask, Pop, IndexInv, BatchInv, TypeInv, TypeOK
    <2> QED BY <2>1 DEF TaskType, CompletionTask
  <1>4. PICK k \in Slots :
          LET s == Linked(slots[k], task) IN
          /\ Available(slots[k])
          /\ \/ slots' = [slots EXCEPT ![k] = s]
             \/ slots' = [slots EXCEPT ![k] = Launched(s, task.request)]
    BY DEF LaunchTask, FreeFor
  <1> HIDE DEF task
  <1> DEFINE s == Linked(slots[k], task)
             r == Launched(s, task.request)
  <1>5. /\ s \in SlotRecord /\ s.state = "IDLE"
        /\ s.i_batch = slots[k].i_batch /\ s.n_past = 0
    BY <1>1, <1>3, <1>4, LinkedType, UpdatedIndex DEF Available
  <1>6. r.state = "IDLE" /\ r.i_batch = slots[k].i_batch /\ r.n_past = 0
    <2> HIDE DEF s
    <2> QED BY <1>3, <1>5, LaunchedType, UpdatedIndex
  <1>7. PICK x : /\ slots' = [slots EXCEPT ![k] = x] /\ x.state = "IDLE"
                 /\ x.i_batch = slots[k].i_batch /\ x.n_past = 0
    BY <1>4, <1>5, <1>6
  <1>8. /\ \A m \in Slots : slots'[m].i_batch = slots[m].i_batch
        /\ \A m \in Generating' : m \in Generating /\ slots'[m].embedding = slots[m].embedding
    BY <1>2, <1>7 DEF Generating
  <1>9. EmbeddingWhole'
    BY <1>2, <1>7 DEF IndexInv, EmbeddingWhole, Loading
  <1> QED BY <1>2, <1>8, <1>9, IndexOutside DEF InBatch

LEMMA IndexIdle ==
  ASSUME IndexInv, DeferTask \/ CancelTask \/ SkipNextResponse \/ BeginUpdate
                     \/ ReleaseSlots \/ AllIdle \/ PostNextResponse \/ WaitForTask
                     \/ ClockAdvances
  PROVE  IndexKept /\ LogitsKept
  <1>1. \A k \in Slots : slots[k] \in SlotRecord
    BY DEF IndexInv, BatchInv, TypeInv, TypeOK
  <1>2. ~InBatch /\ ~InBatch'
    BY DEF DeferTask, CancelTask, SkipNextResponse, Pop, BeginUpdate, ReleaseSlots,
       AllIdle, PostNextResponse, WaitForTask, ClockAdvances, loopVars, InBatch
  <1> DEFINE freed(s) == [s EXCEPT !.state = "IDLE", !.command = "NONE"]
  <1>3. \A k \in Slots : slots'[k] \in {slots[k], Released(slots[k]), freed(slots[k])}
    BY DEF DeferTask, CancelTask, SkipNextResponse, BeginUpdate, ReleaseSlots,
       AllIdle, PostNextResponse, WaitForTask, ClockAdvances, loopVars
  <1>4. \A s \in SlotRecord :
          /\ freed(s).i_batch = s.i_batch /\ freed(s).embedding = s.embedding
          /\ freed(s).n_past = s.n_past
          /\ freed(s).state = "IDLE" /\ freed(s).command = "NONE"
    BY DEF SlotRecord
  <1> HIDE DEF freed
  <1>5. \A s \in SlotRecord :
          /\ Released(s).i_batch = s.i_batch /\ Released(s).embedding = s.embedding
          /\ Released(s).n_past = s.n_past /\ Released(s).state = s.state
    BY UpdatedIndex, AbortedType
  <1>6. \A s \in SlotRecord : Released(s).command \in {s.command, "RELEASE"}
    BY DEF Released, SlotRecord
  <1>7. \A k \in Slots : slots'[k].i_batch = slots[k].i_batch
    BY <1>1, <1>3, <1>4, <1>5
  <1>8. \A k \in Generating' : k \in Generating /\ slots'[k].embedding = slots[k].embedding
    BY <1>1, <1>3, <1>4, <1>5, <1>6 DEF Generating
  <1>9. EmbeddingWhole'
    BY <1>1, <1>3, <1>4, <1>5, <1>6 DEF IndexInv, EmbeddingWhole, Loading
  <1> QED BY <1>2, <1>7, <1>8, <1>9, IndexOutside

LEMMA BusyGenerates ==
  ASSUME BatchInv, pc = "sampled"
  PROVE  Busy = Generating
  BY DEF BatchInv, TypeInv, TypeOK, NoneReleased, NoReloadWhileBusy, Busy, Generating,
     SlotRecord

\* The sampled tokens are numbered in the order of the slots.
LEMMA SampledTokensNumbered ==
  /\ \A k \in Busy : Cardinality({j \in Busy : j < k}) \in 0 .. Cardinality(Busy) - 1
  /\ \A k, m \in Busy :
       k # m => Cardinality({j \in Busy : j < k}) # Cardinality({j \in Busy : j < m})
  <1> DEFINE before(k) == {j \in Busy : j < k}
  <1>1. /\ IsFiniteSet(Busy) /\ Cardinality(Busy) \in Nat /\ Busy \subseteq Slots
        /\ \A k : IsFiniteSet(before(k)) /\ Cardinality(before(k)) \in Nat
    <2>1. Busy \in SUBSET Slots /\ \A k : before(k) \in SUBSET Slots
      BY DEF Busy
    <2> HIDE DEF before
    <2> QED BY <2>1, SlotSubset
  <1>0. \A k \in Busy : k \in Int
    BY DEF Busy, Slots
  <1>2. \A k \in Busy : Cardinality(before(k)) < Cardinality(Busy)
    <2> TAKE k \in Busy
    <2>1. before(k) \in SUBSET Busy /\ k \in Busy \ before(k)
      BY <1>0
    <2> HIDE DEF before
    <2>2. /\ Cardinality(before(k)) <= Cardinality(Busy)
          /\ Cardinality(Busy) # Cardinality(before(k))
      BY <1>1, <2>1, FS_Subset
    <2> QED BY <1>1, <2>2
  <1>3. \A k, m \in Busy : k < m => Cardinality(before(k)) < Cardinality(before(m))
    <2> TAKE k, m \in Busy
    <2> HAVE k < m
    <2>1. before(k) \in SUBSET before(m) /\ k \in before(m) \ before(k)
      BY <1>0
    <2> HIDE DEF before
    <2>2. /\ Cardinality(before(k)) <= Cardinality(before(m))
          /\ Cardinality(before(m)) # Cardinality(before(k))
      BY <1>1, <2>1, FS_Subset
    <2> QED BY <1>1, <2>2
  <1> HIDE DEF before
  <1>4. \A k, m \in Busy : k # m => Cardinality(before(k)) # Cardinality(before(m))
    <2> TAKE k, m \in Busy
    <2> HAVE k # m
    <2>1. k < m \/ m < k
      BY <1>0
    <2> QED BY <1>1, <1>3, <2>1
  <1>5. \A k \in Busy : Cardinality(before(k)) \in 0 .. Cardinality(Busy) - 1
    BY <1>1, <1>2
  <1> QED BY <1>4, <1>5 DEF before

LEMMA IndexStart ==
  ASSUME IndexInv, AddSampledTokens
  PROVE  IndexKept /\ LogitsKept
  <1> DEFINE rank(k) == Cardinality({j \in Busy : j < k})
  <1>1. pc = "sampled" /\ Busy = Generating /\ ~InBatch
    BY BusyGenerates DEF AddSampledTokens, IndexInv, InBatch
  <1>2. \A k \in Slots : slots[k] \in SlotRecord
    BY DEF IndexInv, BatchInv, TypeInv, TypeOK
  <1>3. \A k \in Generating : ~Held(k) /\ ~slots[k].embedding
    BY <1>1 DEF IndexInv, IndexAhead, EmbeddingIndexed
  <1>4. /\ \A k \in Generating : rank(k) \in 0 .. Cardinality(Busy) - 1
        /\ \A k, m \in Generating : k # m => rank(k) # rank(m)
    BY <1>1, SampledTokensNumbered
  <1> HIDE DEF rank
  <1>5. \A k \in Generating :
          /\ slots'[k].i_batch = rank(k) /\ slots'[k].embedding = slots[k].embedding
          /\ slots'[k].state = "PROCESSING" /\ slots'[k].command = "NONE"
    BY <1>1, <1>2 DEF AddSampledTokens, Generating, rank, SlotRecord
  <1>6. \A k \in Slots : k \notin Generating => slots'[k] = slots[k]
    BY <1>1 DEF AddSampledTokens
  <1>7. Generating' = Generating
    BY <1>5, <1>6 DEF Generating
  <1>8. /\ pc' \in {"prompt", "decode"} /\ InBatch' /\ i_chunk' = 0
        /\ n_tokens' = Cardinality(Busy)
        /\ batch_type' = IF Generating = {} THEN -1 ELSE 0
    BY <1>1 DEF AddSampledTokens, InBatch
  <1>9. IndexAhead'
    <2> SUFFICES ASSUME NEW k \in Generating
                 PROVE  slots'[k].i_batch \in Unsampled(k)' .. n_tokens' - 1
      BY <1>7, <1>8 DEF IndexAhead
    <2>1. Unsampled(k)' = 0
      BY <1>8 DEF Unsampled
    <2> QED BY <1>4, <1>5, <1>8, <2>1
  <1>10. FailedReleased' /\ ChunkStart'
    BY <1>8 DEF FailedReleased, ChunkStart
  <1>11. EmbeddingWhole'
    BY <1>5, <1>6 DEF IndexInv, EmbeddingWhole, Loading
  <1>12. EmbeddingIndexed' /\ TypeOfBatch'
    BY <1>3, <1>5, <1>7, <1>8 DEF EmbeddingIndexed, TypeOfBatch, SlotType
  <1>13. LogitsKept
    <2> SUFFICES ASSUME LogitsInv
                 PROVE  LogitsInv'
      BY DEF LogitsKept
    <2>1. \A k \in Slots : Held(k)' => k \in Generating
      BY <1>3, <1>6 DEF LogitsInv, NoneStale, Held
    <2>2. NoneStale'
      BY <1>7, <2>1 DEF NoneStale
    <2>3. Distinct'
      <3> SUFFICES ASSUME NEW k \in Slots, NEW m \in Slots, Held(k)',
                          slots'[k].i_batch = slots'[m].i_batch
                   PROVE  k = m
        BY DEF Distinct
      <3>1. k \in Generating /\ m \in Generating
        BY <2>1 DEF Held
      <3> QED BY <1>4, <1>5, <3>1
    <2> QED BY <2>2, <2>3 DEF LogitsInv
  <1> QED BY <1>9, <1>10, <1>11, <1>12, <1>13 DEF IndexKept

(***************************************************************************)
(* The loop over the prompts changes the slot at its cursor, which is      *)
(* loading: it is released, goes on loading, or takes the last index of    *)
(* the batch and starts to generate.                                       *)
(***************************************************************************)
PromptTurn(s) ==
  \/ /\ s.state = "PROCESSING" /\ s.command = "RELEASE"
     /\ s.i_batch = slots[cur].i_batch
  \/ /\ Loading(s) /\ s.i_batch = slots[cur].i_batch
     /\ s.embedding => s.n_past = 0
  \/ /\ s.state = "PROCESSING" /\ s.command = "NONE"
     /\ s.i_batch \in n_tokens .. n_tokens' - 1
     /\ batch_type' = SlotType(s)

LEMMA PromptTurnKept ==
  ASSUME IndexInv, pc = "prompt", pc' \in {"prompt", "decode"}, i_chunk' = i_chunk,
         n_tokens' \in Nat, n_tokens <= n_tokens',
         batch_type' = batch_type \/ batch_type = -1,
         cur \in Slots, Loading(slots[cur]),
         NEW s, slots' = [slots EXCEPT ![cur] = s], PromptTurn(s)
  PROVE  IndexKept /\ LogitsKept
  <1> DEFINE starts == s.state = "PROCESSING" /\ s.command = "NONE"
  <1>0. slots \in [Slots -> SlotRecord] /\ n_tokens \in Nat /\ InBatch /\ InBatch'
    BY DEF IndexInv, BatchInv, TypeInv, TypeOK, InBatch
  <1>1. cur \notin Generating /\ i_chunk = 0
    BY DEF Generating, Loading, IndexInv, ChunkStart
  <1>2. /\ slots'[cur] = s
        /\ \A k \in Slots : k # cur => slots'[k] = slots[k]
        /\ Generating' = IF starts THEN Generating \cup {cur} ELSE Generating
    BY <1>0, <1>1 DEF Generating
  <1>3. starts => s.i_batch \in n_tokens .. n_tokens' - 1 /\ batch_type' = SlotType(s)
    BY DEF PromptTurn, Loading
  <1>4. \A k \in Generating : /\ k # cur /\ k \in Slots
                              /\ Held(k) => slots[k].i_batch \in 0 .. n_tokens - 1
    BY <1>1 DEF IndexInv, IndexAhead, Unsampled, Generating
  <1>5. IndexAhead'
    <2> SUFFICES ASSUME NEW k \in Generating', Held(k)'
                 PROVE  slots'[k].i_batch \in 0 .. n_tokens' - 1
      BY <1>0, <1>1 DEF IndexAhead, Unsampled
    <2>1. CASE k = cur
      BY <1>0, <1>1, <1>2, <1>3, <2>1
    <2>2. CASE k # cur
      BY <1>0, <1>2, <1>4, <2>2 DEF Held
    <2> QED BY <2>1, <2>2
  <1>6. FailedReleased' /\ ChunkStart'
    BY <1>1 DEF FailedReleased, ChunkStart
  <1>7. EmbeddingWhole'
    BY <1>2 DEF IndexInv, EmbeddingWhole, PromptTurn, Loading
  <1>8. EmbeddingIndexed'
    <2> SUFFICES ASSUME NEW k \in Generating', slots'[k].embedding
                 PROVE  Held(k)'
      BY DEF EmbeddingIndexed
    <2>1. CASE k = cur
      BY <1>0, <1>1, <1>2, <1>3, <2>1 DEF Held
    <2>2. CASE k # cur
      BY <1>2, <1>4, <2>2 DEF IndexInv, EmbeddingIndexed, Held
    <2> QED BY <2>1, <2>2
  <1>9. TypeOfBatch'
    <2> SUFFICES ASSUME NEW k \in Generating'
                 PROVE  batch_type' = SlotType(slots'[k])
      BY DEF TypeOfBatch
    <2>1. CASE k = cur
      BY <1>1, <1>2, <1>3, <2>1
    <2>2. CASE k # cur
      <3>1. k \in Generating /\ slots'[k] = slots[k]
        BY <1>2, <1>4, <2>2
      <3>2. batch_type = SlotType(slots[k]) /\ batch_type # -1
        BY <1>0, <3>1 DEF IndexInv, TypeOfBatch, SlotType
      <3> QED BY <3>1, <3>2
    <2> QED BY <2>1, <2>2
  <1>10. LogitsKept
    <2> SUFFICES ASSUME LogitsInv
                 PROVE  LogitsInv'
      BY DEF LogitsKept
    <2>1. ~Held(cur)
      BY <1>1 DEF LogitsInv, NoneStale
    <2>2. ~starts => s.i_batch = -1
      BY <2>1 DEF PromptTurn, Held
    <2>3. NoneStale'
      BY <1>2, <2>2 DEF LogitsInv, NoneStale, Held
    <2>4. \A k \in Slots : k # cur /\ Held(k)' => slots'[k].i_batch < n_tokens
      BY <1>0, <1>2, <1>4 DEF LogitsInv, NoneStale, Held
    <2>5. slots'[cur].i_batch # -1 => slots'[cur].i_batch >= n_tokens
      BY <1>0, <1>2, <1>3, <2>2
    <2>6. \A k \in Slots : Held(k)' => slots'[k].i_batch \in Int
      BY <1>0, <1>2, <1>3, <1>4, <2>2 DEF LogitsInv, NoneStale, Held
    <2>7. Distinct'
      <3> SUFFICES ASSUME NEW k \in Slots, NEW m \in Slots, Held(k)',
                          slots'[k].i_batch = slots'[m].i_batch
                   PROVE  k = m
        BY DEF Distinct
      <3>1. Held(m)'
        BY DEF Held
      <3>2. CASE k # cur /\ m # cur
        BY <1>2, <3>2 DEF LogitsInv, Distinct, Held
      <3>3. CASE k = cur \/ m = cur
        BY <1>0, <2>4, <2>5, <2>6, <3>1, <3>3 DEF Held
      <3> QED BY <3>2, <3>3
    <2> QED BY <2>3, <2>7 DEF LogitsInv
  <1> QED BY <1>5, <1>6, <1>7, <1>8, <1>9, <1>10 DEF IndexKept

LEMMA IndexPrompt ==
  ASSUME IndexInv, EmptyPrompt \/ TooLargeToEmbed \/ PostponePrompt \/ LoadPrompt
  PROVE  IndexKept /\ LogitsKept
  <1>1. /\ pc = "prompt" /\ cur \in Slots /\ slots[cur] \in SlotRecord
        /\ Loading(slots[cur])
        /\ slots[cur].n_prompt = 0 \/ slots[cur].n_past < slots[cur].n_prompt
        /\ n_tokens \in Nat /\ n_batch \in Nat
    BY DEF EmptyPrompt, TooLargeToEmbed, PostponePrompt, LoadPrompt, NotTokenized,
       MayLoad, IndexInv, BatchInv, TypeInv, TypeOK, PromptLeft
  <1>2. pc' \in {"prompt", "decode"} /\ i_chunk' = i_chunk
    BY DEF EmptyPrompt, TooLargeToEmbed, PostponePrompt, LoadPrompt, ContinuePrompts,
       EndOfPromptBody, batchVars
  <1>3. CASE EmptyPrompt \/ TooLargeToEmbed
    <2>1. PICK s : /\ slots' = [slots EXCEPT ![cur] = s]
                   /\ s.state = "PROCESSING" /\ s.command = "RELEASE"
                   /\ s.i_batch = slots[cur].i_batch
      <3> DEFINE r1 == [Aborted(slots[cur]) EXCEPT !.n_past = 0]
                 r2 == [r1 EXCEPT !.n_prompt = slots[cur].prompt]
      <3>1. /\ r1.state = "PROCESSING" /\ r1.command = "RELEASE"
            /\ r1.i_batch = slots[cur].i_batch
            /\ r2.state = "PROCESSING" /\ r2.command = "RELEASE"
            /\ r2.i_batch = slots[cur].i_batch
        BY <1>1, AbortedType, UpdatedIndex DEF SlotRecord
      <3>2. slots' = [slots EXCEPT ![cur] = r1] \/ slots' = [slots EXCEPT ![cur] = r2]
        BY <1>3 DEF EmptyPrompt, TooLargeToEmbed
      <3> HIDE DEF r1, r2
      <3> QED BY <3>1, <3>2
    <2>2. /\ n_tokens' = n_tokens /\ batch_type' = batch_type
          /\ n_tokens' \in Nat /\ n_tokens <= n_tokens'
      BY <1>1, <1>3 DEF EmptyPrompt, TooLargeToEmbed, batchVars
    <2>3. PromptTurn(s)
      BY <2>1 DEF PromptTurn
    <2> QED BY <1>1, <1>2, <2>1, <2>2, <2>3, PromptTurnKept
  <1>4. ASSUME NEW s \in Tokenized(slots[cur]), MayLoad(slots[cur])
        PROVE  /\ s \in SlotRecord /\ Loading(s) /\ s.i_batch = slots[cur].i_batch
               /\ s.n_past < s.n_prompt
               /\ s.embedding => s.n_past = 0
    <2>1. s \in SlotRecord /\ SameTask(s, slots[cur]) /\ s.n_past < s.n_prompt
      BY <1>1, <1>4, TokenizedType
    <2>2. s.i_batch = slots[cur].i_batch /\ s.embedding = slots[cur].embedding
            /\ (s.embedding => s.n_past = IF slots[cur].n_prompt = 0 THEN 0 ELSE slots[cur].n_past)
      BY <1>1, <1>4, TokenizedIndex
    <2>3. slots[cur].embedding => slots[cur].n_past = 0
      BY <1>1 DEF IndexInv, EmbeddingWhole
    <2> QED BY <1>1, <2>1, <2>2, <2>3 DEF SameTask, Loading
  <1>5. CASE PostponePrompt
    <2>1. PICK s \in Tokenized(slots[cur]) : slots' = [slots EXCEPT ![cur] = s]
      BY <1>5 DEF PostponePrompt
    <2>2. PromptTurn(s)
      BY <1>4, <1>5, <2>1 DEF PromptTurn, PostponePrompt
    <2>3. /\ n_tokens' = n_tokens /\ batch_type' = batch_type
          /\ n_tokens' \in Nat /\ n_tokens <= n_tokens'
      BY <1>1, <1>5 DEF PostponePrompt, batchVars
    <2> QED BY <1>1, <1>2, <2>1, <2>2, <2>3, PromptTurnKept
  <1>6. CASE LoadPrompt
    <2>1. PICK s \in Tokenized(slots[cur]) :
            /\ FitsBatch(s) /\ RightType(s)
            /\ slots' = [slots EXCEPT ![cur] = LoadedPrompt(s, Taken(s))]
            /\ n_tokens' = n_tokens + Taken(s)
            /\ batch_type' = SlotType(s)
      BY <1>6 DEF LoadPrompt
    <2>2. /\ s \in SlotRecord /\ Loading(s) /\ s.i_batch = slots[cur].i_batch
          /\ s.n_past < s.n_prompt
          /\ s.embedding => s.n_past = 0
      BY <1>4, <1>6, <2>1 DEF LoadPrompt
    <2>3. Taken(s) \in Nat
      BY <2>2, TakenType DEF IndexInv, BatchInv, TypeInv
    <2>4. s.n_past \in Nat /\ s.n_prompt \in Nat
      BY <2>2 DEF SlotRecord
    <2>5. s.embedding => s.n_past + Taken(s) = s.n_prompt
      BY <1>1, <2>1, <2>2, <2>4 DEF FitsBatch, Taken
    <2>6. PICK m \in Nat : m = Taken(s)
      BY <2>3
    <2> DEFINE r == LoadedPrompt(s, m)
    <2>7. /\ r.embedding = s.embedding
          /\ IF s.n_past + m = s.n_prompt
             THEN r.i_batch = n_tokens + m - 1 /\ r.state = "PROCESSING" /\ r.command = "NONE"
             ELSE r.i_batch = s.i_batch /\ SameTask(r, s) /\ r.n_past = s.n_past + m
      BY <2>2, LoadedIndex
    <2>8. slots' = [slots EXCEPT ![cur] = r]
      BY <2>1, <2>6
    <2> HIDE DEF r
    <2>9. PromptTurn(r)
      <3>1. CASE s.n_past + m = s.n_prompt
        <4>1. r.i_batch \in n_tokens .. n_tokens' - 1
          BY <1>1, <2>1, <2>2, <2>4, <2>6, <2>7, <3>1
        <4>2. batch_type' = SlotType(r)
          BY <2>1, <2>7 DEF SlotType
        <4> QED BY <2>7, <3>1, <4>1, <4>2 DEF PromptTurn
      <3>2. CASE s.n_past + m # s.n_prompt
        BY <2>2, <2>5, <2>6, <2>7, <3>2 DEF PromptTurn, SameTask, Loading
      <3> QED BY <3>1, <3>2
    <2>10. n_tokens' \in Nat /\ n_tokens <= n_tokens'
      BY <1>1, <2>1, <2>3
    <2>11. batch_type' = batch_type \/ batch_type = -1
      BY <2>1 DEF RightType
    <2> QED BY <1>1, <1>2, <2>8, <2>9, <2>10, <2>11, PromptTurnKept
  <1> QED BY <1>3, <1>5, <1>6

(***************************************************************************)
(* Decoding moves the window of indices that are sampled; nothing of the   *)
(* slots changes.                                                          *)
(***************************************************************************)
LEMMA ChunkEndType ==
  ASSUME TypeOK
  PROVE  /\ i_chunk \in Nat /\ n_tokens \in Nat /\ n_batch \in Nat /\ ChunkEnd \in Nat
         /\ i_chunk <= n_tokens => i_chunk <= ChunkEnd
         /\ ChunkEnd < n_tokens => ChunkEnd = i_chunk + n_batch
  BY BatchAssumption DEF TypeOK, ChunkEnd

LEMMA IndexDecode ==
  ASSUME IndexInv, NothingToLoad \/ EndDecode \/ Decode \/ NextChunk
  PROVE  IndexKept /\ LogitsKept
  <1>1. UNCHANGED <<slots, n_tokens, batch_type>> /\ TypeOK /\ pc \in {"prompt", "decode", "sample"}
    BY DEF NothingToLoad, EndDecode, Decode, NextChunk, batchVars, IndexInv, BatchInv,
       TypeInv
  <1>2. Generating' = Generating /\ Generating \subseteq Slots
    BY <1>1 DEF Generating
  <1>3. LogitsKept
    BY <1>1, <1>2 DEF LogitsKept, LogitsInv, NoneStale, Distinct, Held
  <1>4. EmbeddingWhole' /\ EmbeddingIndexed'
    BY <1>1, <1>2 DEF IndexInv, EmbeddingWhole, EmbeddingIndexed, Held
  <1>5. TypeOfBatch'
    BY <1>1, <1>2 DEF IndexInv, TypeOfBatch, InBatch
  <1>6. FailedReleased' /\ ChunkStart'
    <2>1. pc' = "fail" => cur' = 0
      BY DEF NothingToLoad, EndOfPromptBody, EndDecode, Decode, NextChunk
    <2>2. pc' = "prompt" => pc = "prompt" /\ i_chunk' = i_chunk
      BY DEF NothingToLoad, EndOfPromptBody, EndDecode, Decode, NextChunk, batchVars
    <2> QED BY <1>2, <2>1, <2>2 DEF IndexInv, ChunkStart, FailedReleased, Slots
  <1>7. IndexAhead'
    <2> SUFFICES ASSUME NEW k \in Generating, Held(k)
                 PROVE  /\ InBatch'
                        /\ pc' # "fail" => slots[k].i_batch \in Unsampled(k)' .. n_tokens - 1
      BY <1>1, <1>2 DEF IndexAhead, Held
    <2>1. slots[k].i_batch \in Unsampled(k) .. n_tokens - 1 /\ k \in Slots
      BY <1>1, <1>2 DEF IndexInv, IndexAhead
    <2>2. /\ i_chunk \in Nat /\ n_tokens \in Nat /\ n_batch \in Nat /\ ChunkEnd \in Nat
          /\ i_chunk <= n_tokens => i_chunk <= ChunkEnd
          /\ ChunkEnd < n_tokens => ChunkEnd = i_chunk + n_batch
      BY <1>1, ChunkEndType
    <2>3. CASE NothingToLoad
      BY <2>1, <2>3 DEF NothingToLoad, EndOfPromptBody, InBatch, Unsampled, batchVars
    <2>4. CASE EndDecode
      BY <2>1, <2>2, <2>4 DEF EndDecode, Unsampled
    <2>5. CASE Decode
      <3>1. pc' \in {"decode", "sample", "fail"} /\ i_chunk' = i_chunk
              /\ (pc' = "sample" => cur' = 0)
        BY <2>5 DEF Decode
      <3>2. pc = "decode" /\ Unsampled(k) = i_chunk
        BY <2>5 DEF Decode, Unsampled
      <3>3. Unsampled(k)' = i_chunk \/ pc' = "fail"
        BY <2>1, <3>1 DEF Unsampled, Slots
      <3> QED BY <2>1, <3>1, <3>2, <3>3 DEF InBatch
    <2>6. CASE NextChunk
      <3>1. pc = "sample" /\ pc' = "decode" /\ i_chunk' = i_chunk + n_batch /\ Hits = {}
        BY <2>6 DEF NextChunk
      <3>2. ChunkEnd <= slots[k].i_batch
        <4>1. CASE k < cur
          BY <2>1, <2>2, <3>1, <4>1 DEF Unsampled
        <4>2. CASE ~(k < cur)
          <5>1. k >= cur
            BY <1>1, <2>1, <4>2 DEF TypeOK, Slots
          <5>2. slots[k].i_batch \notin i_chunk .. ChunkEnd - 1
            BY <2>1, <3>1, <5>1 DEF Hits, Generating
          <5> QED BY <2>1, <2>2, <3>1, <4>2, <5>2 DEF Unsampled
        <4> QED BY <4>1, <4>2
      <3>3. i_chunk + n_batch = ChunkEnd /\ slots[k].i_batch \in Int
              /\ slots[k].i_batch < n_tokens
        BY <2>1, <2>2, <3>2
      <3> QED BY <2>1, <2>2, <3>1, <3>2, <3>3 DEF InBatch, Unsampled
    <2> QED BY <2>3, <2>4, <2>5, <2>6
  <1> QED BY <1>3, <1>4, <1>5, <1>6, <1>7 DEF IndexKept

(***************************************************************************)
(* Sampling a slot: every generating slot before it has an index behind    *)
(* the chunk, or none.                                                     *)
(***************************************************************************)
Sampling(k) == \/ FirstHit(k)
               \/ pc = "finish" /\ k = cur

\* The slot is released without an index, or it generates text and keeps its
\* index at most until it is finished.
SampleTurn(k, s) ==
  \/ s.state = "PROCESSING" /\ s.command = "RELEASE" /\ s.i_batch = -1
  \/ /\ SameTask(s, slots[k]) /\ slots[k].state = "PROCESSING"
     /\ ~s.embedding /\ ~slots[k].embedding
     /\ \/ s.i_batch = -1
        \/ cur' = k /\ s.i_batch = slots[k].i_batch

LEMMA SampleTurnKept ==
  ASSUME IndexInv, NEW k \in Slots, Sampling(k), pc' \in {"sample", "finish"},
         cur' \in {k, k + 1},
         n_tokens' = n_tokens, n_batch' = n_batch, i_chunk' = i_chunk,
         batch_type' = batch_type,
         NEW s, slots' = [slots EXCEPT ![k] = s], SampleTurn(k, s)
  PROVE  IndexKept /\ LogitsKept
  <1>1. /\ slots \in [Slots -> SlotRecord] /\ n_tokens \in Nat /\ i_chunk \in Nat
        /\ ChunkEnd \in Nat
        /\ i_chunk <= n_tokens => i_chunk <= ChunkEnd
        /\ cur \in Int /\ pc \in {"sample", "finish"}
    BY ChunkEndType
    DEF IndexInv, BatchInv, TypeInv, TypeOK, Sampling, FirstHit, Slots
  <1>2. ChunkEnd' = ChunkEnd /\ InBatch /\ InBatch'
    BY <1>1 DEF ChunkEnd, InBatch
  <1>3. \A j \in Slots : slots'[j] = IF j = k THEN s ELSE slots[j]
    BY <1>1
  <1>4. \A j \in Generating' : j \in Generating /\ j \in Slots
    BY <1>3 DEF Generating, SampleTurn, SameTask
  <1>5. ASSUME NEW j \in Generating, j # k, Held(j)
        PROVE  slots[j].i_batch \in (IF j < k THEN ChunkEnd ELSE i_chunk) .. n_tokens - 1
    <2>1. j \in Slots /\ j \in Int /\ k \in Int
      BY DEF Generating, Slots
    <2>2. slots[j].i_batch \in Unsampled(j) .. n_tokens - 1
      BY <1>1, <1>5 DEF IndexInv, IndexAhead
    <2>3. CASE j < cur
      <3>1. slots[j].i_batch \in ChunkEnd .. n_tokens - 1
        BY <1>1, <2>2, <2>3 DEF Unsampled
      <3>2. i_chunk <= n_tokens \/ ChunkEnd = n_tokens
        BY <1>1 DEF ChunkEnd, IndexInv, BatchInv, TypeInv, TypeOK
      <3>3. i_chunk <= ChunkEnd
        BY <1>1, <3>1, <3>2 DEF ChunkEnd, IndexInv, BatchInv, TypeInv, TypeOK
      <3> QED BY <1>1, <2>1, <3>1, <3>3
    <2>4. CASE ~(j < cur)
      <3>1. slots[j].i_batch \in i_chunk .. n_tokens - 1
        BY <2>2, <2>4 DEF Unsampled
      <3>2. j < k => j \notin Hits
        BY <1>1, <2>1, <2>4 DEF Sampling, FirstHit
      <3>3. j < k => slots[j].i_batch \notin i_chunk .. ChunkEnd - 1
        <4>1. j < k => pc = "sample"
          BY <1>1, <2>1, <2>4 DEF Sampling, FirstHit
        <4> QED BY <1>1, <2>1, <2>4, <3>2 DEF Hits, Generating
      <3> QED BY <1>1, <3>1, <3>3
    <2> QED BY <2>3, <2>4
  <1>6. IndexAhead'
    <2> SUFFICES ASSUME NEW j \in Generating', slots'[j].i_batch # -1
                 PROVE  slots'[j].i_batch \in Unsampled(j)' .. n_tokens - 1
      BY <1>2 DEF IndexAhead, Held
    <2>1. j \in Generating /\ j \in Int /\ k \in Int
      BY <1>4 DEF Slots
    <2>2. Unsampled(j)' = IF j < cur' THEN ChunkEnd ELSE i_chunk
      BY <1>2 DEF Unsampled
    <2>3. CASE j = k
      <3>1. cur' = k /\ s.i_batch = slots[k].i_batch /\ k \in Generating /\ Held(k)
        BY <1>3, <2>1, <2>3 DEF SampleTurn, Held, Generating
      <3>2. slots[k].i_batch \in Unsampled(k) .. n_tokens - 1
        BY <1>1, <3>1 DEF IndexInv, IndexAhead
      <3>3. Unsampled(k) = i_chunk
        BY <1>1, <2>1 DEF Unsampled, Sampling, FirstHit, Hits
      <3> QED BY <1>3, <2>1, <2>2, <2>3, <3>1, <3>2, <3>3
    <2>4. CASE j # k
      <3>1. slots'[j] = slots[j] /\ Held(j)
        BY <1>3, <1>4, <2>4 DEF Held
      <3>2. slots[j].i_batch \in (IF j < k THEN ChunkEnd ELSE i_chunk) .. n_tokens - 1
        BY <1>5, <2>1, <2>4, <3>1
      <3>3. j < cur' <=> j < k
        BY <2>1, <2>4
      <3> QED BY <2>2, <3>1, <3>2, <3>3
    <2> QED BY <2>3, <2>4
  <1>7. FailedReleased' /\ ChunkStart'
    BY DEF FailedReleased, ChunkStart
  <1>8. EmbeddingWhole'
    BY <1>3 DEF IndexInv, EmbeddingWhole, SampleTurn, SameTask, Loading
  <1>9. EmbeddingIndexed'
    BY <1>3, <1>4 DEF IndexInv, EmbeddingIndexed, SampleTurn, Generating, Held
  <1>10. TypeOfBatch'
    BY <1>2, <1>3, <1>4 DEF IndexInv, TypeOfBatch, SampleTurn, Generating, SlotType
  <1>11. LogitsKept
    <2> SUFFICES ASSUME LogitsInv
                 PROVE  LogitsInv'
      BY DEF LogitsKept
    <2>1. \A j \in Slots : slots'[j].i_batch # -1 =>
            slots'[j].i_batch = slots[j].i_batch /\ j \in Generating'
      BY <1>3 DEF LogitsInv, NoneStale, Held, SampleTurn, SameTask, Generating
    <2> QED BY <2>1 DEF LogitsInv, NoneStale, Distinct, Held
  <1> QED BY <1>6, <1>7, <1>8, <1>9, <1>10, <1>11 DEF IndexKept

LEMMA IndexSample ==
  ASSUME IndexInv, SendEmbedding \/ SampleToken \/ FinishSlot
  PROVE  IndexKept /\ LogitsKept
  <1>1. n_tokens' = n_tokens /\ n_batch' = n_batch /\ i_chunk' = i_chunk
          /\ batch_type' = batch_type
    BY DEF SendEmbedding, SampleToken, FinishSlot, batchVars
  <1>2. \A k \in Slots : slots[k] \in SlotRecord
    BY DEF IndexInv, BatchInv, TypeInv, TypeOK
  <1>3. ASSUME NEW k \in Slots, slots[k].state = "PROCESSING"
        PROVE  SampleTurn(k, Finished(slots[k]))
    <2>1. Released(slots[k]) \in SlotRecord /\ Released(slots[k]).state = "PROCESSING"
            /\ Released(slots[k]).command = "RELEASE"
      BY <1>2, <1>3, AbortedType
    <2> DEFINE r == Released(slots[k])
               f == [r EXCEPT !.i_batch = -1]
    <2> HIDE DEF r
    <2>2. f.state = "PROCESSING" /\ f.command = "RELEASE" /\ f.i_batch = -1
      BY <2>1 DEF SlotRecord, r
    <2> QED BY <2>2 DEF SampleTurn, Finished, r
  <1>4. CASE SendEmbedding
    <2>1. PICK k \in Slots : /\ FirstHit(k) /\ cur' = k + 1
                             /\ slots' = [slots EXCEPT ![k] = Finished(slots[k])]
      BY <1>4 DEF SendEmbedding
    <2>2. SampleTurn(k, Finished(slots[k]))
      BY <1>3, <2>1 DEF FirstHit, Hits
    <2>3. pc' \in {"sample", "finish"} /\ cur' \in {k, k + 1} /\ Sampling(k)
      BY <1>4, <2>1 DEF SendEmbedding, FirstHit, Sampling
    <2> QED BY <1>1, <2>1, <2>2, <2>3, SampleTurnKept
  <1>5. CASE SampleToken
    <2>1. PICK k \in Slots, more \in BOOLEAN :
            /\ FirstHit(k) /\ ~slots[k].embedding
            /\ slots' = [slots EXCEPT ![k] = Sampled(slots[k], more)]
            /\ pc' = IF more THEN "sample" ELSE "finish"
            /\ cur' = IF more THEN k + 1 ELSE k
      BY <1>5 DEF SampleToken
    <2> DEFINE s == Sampled(slots[k], more)
    <2>2. /\ SameTask(s, slots[k]) /\ s.embedding = slots[k].embedding
          /\ s.i_batch = IF more THEN -1 ELSE slots[k].i_batch
      BY <1>2, SampledType, UpdatedIndex
    <2>3. slots' = [slots EXCEPT ![k] = s]
      BY <2>1
    <2> HIDE DEF s
    <2>4. SampleTurn(k, s)
      BY <2>1, <2>2 DEF SampleTurn, FirstHit, Hits
    <2>5. pc' \in {"sample", "finish"} /\ cur' \in {k, k + 1} /\ Sampling(k)
      BY <2>1 DEF Sampling
    <2> QED BY <1>1, <2>3, <2>4, <2>5, SampleTurnKept
  <1>6. CASE FinishSlot
    <2>1. /\ cur \in Slots /\ slots[cur].state = "PROCESSING" /\ pc = "finish"
          /\ cur' = cur + 1 /\ pc' = "sample"
          /\ slots' = [slots EXCEPT ![cur] = Finished(slots[cur])]
      BY <1>6 DEF FinishSlot, IndexInv, BatchInv, TypeInv, TypeOK, FinishBusy
    <2>2. PICK k \in Slots : k = cur
      BY <2>1
    <2>3. SampleTurn(k, Finished(slots[k])) /\ Sampling(k)
      BY <1>3, <2>1, <2>2 DEF Sampling
    <2> QED BY <1>1, <2>1, <2>2, <2>3, SampleTurnKept
  <1> QED BY <1>4, <1>5, <1>6

LEMMA IndexFail ==
  ASSUME IndexInv, FailSlot
  PROVE  IndexKept /\ LogitsKept
  <1>1. /\ pc = "fail" /\ cur \in Slots /\ slots \in [Slots -> SlotRecord]
        /\ slots' = [slots EXCEPT ![cur] = Aborted(slots[cur])]
        /\ cur' = cur + 1 /\ batch_type' = batch_type
        /\ pc' = IF cur + 1 < NSlots THEN "fail" ELSE "wait"
    BY DEF FailSlot, IndexInv, BatchInv, TypeInv, TypeOK, batchVars
  <1>2. /\ Aborted(slots[cur]).state = "PROCESSING"
        /\ Aborted(slots[cur]).command = "RELEASE"
        /\ slots[cur] \in SlotRecord
    BY <1>1, AbortedType
  <1>3. PICK s : slots' = [slots EXCEPT ![cur] = s] /\ s.state = "PROCESSING"
                   /\ s.command = "RELEASE"
    BY <1>1, <1>2
  <1>4. \A k \in Generating' : /\ k \in Generating /\ k # cur /\ slots'[k] = slots[k]
                               /\ k \in Slots
    BY <1>1, <1>3 DEF Generating
  <1>5. \A k \in Generating' : k >= cur + 1 /\ cur + 1 < NSlots
    BY <1>1, <1>4, SlotsAssumption DEF IndexInv, FailedReleased, Slots
  <1>6. IndexAhead'
    BY <1>1, <1>5 DEF IndexAhead, InBatch
  <1>7. FailedReleased' /\ ChunkStart'
    BY <1>1, <1>5 DEF FailedReleased, ChunkStart, Slots
  <1>8. EmbeddingWhole' /\ EmbeddingIndexed'
    BY <1>1, <1>3, <1>4 DEF IndexInv, EmbeddingWhole, EmbeddingIndexed, Held, Loading
  <1>9. TypeOfBatch'
    BY <1>1, <1>4 DEF IndexInv, TypeOfBatch, InBatch
  <1>10. LogitsKept
    BY <1>1 DEF LogitsKept
  <1> QED BY <1>6, <1>7, <1>8, <1>9, <1>10 DEF IndexKept

LEMMA IndexInit == Init => IndexInv /\ LogitsInv
  <1> HAVE Init
  <1>1. BatchInv
    BY BatchInit
  <1>2. /\ \A k \in Slots : slots[k].state = "IDLE" /\ slots[k].command = "NONE"
                            /\ slots[k].i_batch = -1
        /\ pc = "pop"
    BY DEF Init, FreshSlot
  <1>3. Generating = {}
    BY <1>2 DEF Generating
  <1> QED
    BY <1>1, <1>2, <1>3
    DEF IndexInv, IndexAhead, FailedReleased, ChunkStart, EmbeddingWhole, Loading,
        EmbeddingIndexed, TypeOfBatch, InBatch, LogitsInv, NoneStale, Distinct, Held

LEMMA IndexNext == IndexInv /\ [Next]_vars => IndexInv' /\ LogitsKept
  <1> SUFFICES ASSUME IndexInv, [Next]_vars
               PROVE  IndexInv' /\ LogitsKept
    OBVIOUS
  <1>1. BatchInv'
    BY BatchNext DEF IndexInv
  <1>2. IndexKept /\ LogitsKept
    <2>1. CASE LoopStep
      BY <2>1, IndexLaunch, IndexIdle, IndexStart, IndexPrompt, IndexDecode,
         IndexSample, IndexFail
      DEF LoopStep, ProcessTask, BatchPrompts, DecodeBatch
    <2>2. CASE UNCHANGED vars \/ \E c \in Clients : ClientNext(c)
      <3>1. UNCHANGED <<slots, pc, cur, n_tokens, n_batch, i_chunk, batch_type>>
        BY <2>2, ClientsOutside
      <3>2. Generating' = Generating /\ (InBatch' <=> InBatch) /\ ChunkEnd' = ChunkEnd
        BY <3>1 DEF Generating, InBatch, ChunkEnd
      <3>3. IndexKept
        BY <3>1, <3>2 DEF IndexInv, IndexKept, IndexAhead, FailedReleased, ChunkStart,
           EmbeddingWhole, Loading, EmbeddingIndexed, TypeOfBatch, Held, Unsampled
      <3>4. LogitsKept
        BY <3>1, <3>2 DEF LogitsKept, LogitsInv, NoneStale, Distinct, Held
      <3> QED BY <3>3, <3>4
    <2> QED BY <2>1, <2>2 DEF Next
  <1> QED BY <1>1, <1>2 DEF IndexInv, IndexKept

\* At the end of update_slots no sequence that goes on is left with an index
\* in the batch, whatever llama_decode returned and however often the loop
\* halved n_batch: each of its indices has been met by exactly the chunk that
\* holds it.
THEOREM EverySequenceSampled == Spec => []AllSampled
  <1>1. IndexInv => AllSampled
    BY DEF IndexInv, IndexAhead, InBatch, Generating, Held, AllSampled
  <1>2. IndexInv /\ [Next]_vars => IndexInv'
    BY IndexNext
  <1> QED BY <1>1, <1>2, IndexInit, PTL DEF Spec

\* Until a batch fails for good (the slots are then released with their
\* indices, and an empty prompt can put one of them to PROCESSING again), no
\* two sequences sample the same logits, for every number of slots and every
\* way to halve the batch.
THEOREM LogitsNeverShared == Spec /\ [](pc # "fail") => []OwnLogits
  <1>1. IndexInv /\ LogitsInv => OwnLogits
    <2> SUFFICES ASSUME IndexInv, LogitsInv, pc # "fail"
                 PROVE  OwnLogits
      BY DEF OwnLogits
    <2>1. \A k \in Slots : Held(k) => slots[k].i_batch < n_tokens
      <3> SUFFICES ASSUME NEW k \in Slots, Held(k)
                   PROVE  slots[k].i_batch < n_tokens
        OBVIOUS
      <3>1. slots[k].i_batch \in Unsampled(k) .. n_tokens - 1
        BY DEF LogitsInv, NoneStale, IndexInv, IndexAhead
      <3>2. Unsampled(k) \in Nat /\ n_tokens \in Nat
        BY ChunkEndType DEF IndexInv, BatchInv, TypeInv, Unsampled
      <3> QED BY <3>1, <3>2
    <2> QED BY <2>1 DEF LogitsInv, Distinct, Held, OwnLogits
  <1>2. IndexInv /\ LogitsInv /\ pc # "fail" /\ [Next]_vars => IndexInv' /\ LogitsInv'
    BY IndexNext DEF LogitsKept
  <1> QED BY <1>1, <1>2, IndexInit, PTL DEF Spec

\* Until then, too, what is decoded and sampled as an embedding was batched
\* whole (its prompt goes in one piece) and alone: never next to a generation.
THEOREM EmbeddingsApart == Spec /\ [](pc # "fail") => []EmbeddingsUnmixed
  <1>1. IndexInv /\ LogitsInv => EmbeddingsUnmixed
    <2> SUFFICES ASSUME IndexInv, LogitsInv
                 PROVE  EmbeddingsUnmixed
      OBVIOUS
    <2>1. \A k \in Slots : slots[k].embedding /\ Loading(slots[k]) => slots[k].n_past = 0
      BY DEF IndexInv, EmbeddingWhole
    <2>2. ASSUME pc \in {"decode", "sample"}, NEW k \in Hits
          PROVE  slots[k].embedding <=> batch_type = 1
      <3>1. k \in Slots /\ slots[k].i_batch \in i_chunk .. ChunkEnd - 1
        BY DEF Hits
      <3>2. Held(k)
        BY <3>1, ChunkEndType DEF Held, IndexInv, BatchInv, TypeInv
      <3>3. batch_type = SlotType(slots[k])
        BY <2>2, <3>1, <3>2 DEF LogitsInv, NoneStale, IndexInv, TypeOfBatch, InBatch
      <3>4. slots[k].embedding \in BOOLEAN
        BY <3>1 DEF IndexInv, BatchInv, TypeInv, TypeOK, SlotRecord
      <3> QED BY <3>3, <3>4 DEF SlotType
    <2> QED BY <2>1, <2>2 DEF EmbeddingsUnmixed
  <1>2. IndexInv /\ LogitsInv /\ pc # "fail" /\ [Next]_vars => IndexInv' /\ LogitsInv'
    BY IndexNext DEF LogitsKept
  <1> QED BY <1>1, <1>2, IndexInit, PTL DEF Spec

=============================================================================
