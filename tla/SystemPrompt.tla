---------------------------- MODULE SystemPrompt ----------------------------
(***************************************************************************)
(* The system prompt and the sequences of all slots: a task that brings    *)
(* another system prompt stops the slots that generate and sends those     *)
(* that load back to the start (process_single_task, system_prompt_set);   *)
(* the next pass clears the KV cache, evaluates the system prompt once and *)
(* copies it to every sequence (system_prompt_update), before the slots'   *)
(* own tokens follow behind it.                                            *)
(*                                                                         *)
(* All of it runs on the loop thread, so that a pass is split only at the  *)
(* points where it is worth looking.  A cell of the KV cache remembers the *)
(* system prompt it was evaluated under, as the numbers in it depend on    *)
(* what precedes it.  Contexts fit (see SlotCache for those that do not),  *)
(* embeddings are left out, and the batch of the slots is decoded.         *)
(***************************************************************************)
EXTENDS Integers, SequencesExt

CONSTANTS
  NSlots,        \* params.n_parallel
  Requests,      \* the tasks: [prompt, system, cache_prompt, valid]; system
                 \* is {} or the one system_prompt of the task's JSON, and
                 \* launch_slot_with_task gives up a task that is not valid
  AtStart,       \* params.system_prompt; <<>>: none
  SystemDecodes, \* results of llama_decode for the system prompt
  NBatch,        \* llama_n_batch(ctx)
  MaxTasks,      \* bound: tasks launched
  MaxGenerated   \* bound: tokens a slot generates for a task

Slots == 1 .. NSlots
Text  == Seq({"a", "b"})

ASSUME SlotsAssumption == NSlots \in Nat \ {0} /\ NBatch \in Nat /\ NBatch >= NSlots
ASSUME RequestsAssumption ==
  \A r \in Requests : /\ r.prompt \in Text \ {<<>>} /\ r.system \subseteq Text
                      /\ r.cache_prompt \in BOOLEAN /\ r.valid \in BOOLEAN
ASSUME SystemAssumption == AtStart \in Text /\ SystemDecodes \subseteq BOOLEAN
ASSUME BoundsAssumption == MaxTasks \in Nat /\ MaxGenerated \in Nat

VARIABLES
  system_prompt, system_tokens, system_need_update,
  clean_kv_cache,  \* server_context::clean_kv_cache
  slots,           \* see FreshSlot
  kv,              \* of each slot's sequence the cells: [pos, tok, under]
  pc,              \* "tasks", or the part of update_slots that comes next
  launched         \* tasks taken so far

systemVars == <<system_prompt, system_tokens, system_need_update>>
vars == <<systemVars, clean_kv_cache, slots, kv, pc, launched>>

\* n_reused and generated are not the code's: how much of the context was taken
\* from cache_tokens, and the tokens sampled for the task.
FreshSlot == [state |-> "IDLE", command |-> "NONE", n_past |-> 0, n_reused |-> 0,
              prompt |-> <<>>, prompt_tokens |-> <<>>, generated |-> <<>>,
              cache_prompt |-> FALSE, cache_tokens |-> <<>>, i_batch |-> FALSE]

\* loadModel sets the system prompt before there are slots.
Init ==
  /\ system_prompt = AtStart /\ system_tokens = <<>>
  /\ system_need_update = (AtStart # <<>>)
  /\ clean_kv_cache = TRUE
  /\ slots = [k \in Slots |-> FreshSlot] /\ kv = [k \in Slots |-> {}]
  /\ pc = "tasks" /\ launched = 0

Generating(k) == slots[k].state = "PROCESSING"
Loading(k)    == slots[k].state = "IDLE" /\ slots[k].command = "LOAD_PROMPT"
Available(k)  == slots[k].state = "IDLE" /\ slots[k].command = "NONE"

ReleasedAlways(s) == [s EXCEPT !.command = "RELEASE"]   \* mutant: whatever it does
Released(s) == IF s.state = "PROCESSING" THEN [s EXCEPT !.command = "RELEASE"] ELSE s

-----------------------------------------------------------------------------
(***************************************************************************)
(* Tasks.                                                                  *)
(***************************************************************************)
\* system_prompt_set, and the reset of the slots that follows it.
ReleasedOnly(s) == Released(s)    \* mutant: n_past is left alone
Restarted(s) == [Released(s) EXCEPT !.n_past = 0, !.n_reused = 0]

Taken(s, r) ==
  IF ~r.valid THEN [s EXCEPT !.n_past = 0, !.n_reused = 0]
  ELSE [s EXCEPT !.command = "LOAD_PROMPT", !.n_past = 0, !.n_reused = 0, !.prompt = r.prompt,
                 !.prompt_tokens = <<>>, !.generated = <<>>,
                 !.cache_prompt = r.cache_prompt]

\* A task that is refused has changed the system prompt all the same.
Launch ==
  /\ pc = "tasks" /\ launched < MaxTasks
  /\ \E k \in Slots, r \in Requests :
       /\ Available(k)
       /\ LET all == IF r.system = {} THEN slots
                     ELSE [j \in Slots |-> Restarted(slots[j])]
          IN  slots' = [all EXCEPT ![k] = Taken(@, r)]
       /\ system_prompt' = IF r.system = {} THEN system_prompt
                           ELSE CHOOSE s \in r.system : TRUE
       /\ system_need_update' = (system_need_update \/ r.system # {})
  /\ launched' = launched + 1
  /\ UNCHANGED <<system_tokens, clean_kv_cache, kv, pc>>

Cancel ==
  /\ pc = "tasks"
  /\ \E k \in Slots : Generating(k) /\ slots' = [slots EXCEPT ![k] = Released(@)]
  /\ UNCHANGED <<systemVars, clean_kv_cache, kv, pc, launched>>

-----------------------------------------------------------------------------
(***************************************************************************)
(* A pass: the system prompt, releases, a batch, its samples.              *)
(***************************************************************************)
Cell(pos, tok, under) == [pos |-> pos, tok |-> tok, under |-> under]
WithBos(text) == <<"bos">> \o text

SystemTokens(text) == IF text = <<>> THEN <<>> ELSE WithBos(text)
SystemCells(toks) == {Cell(i - 1, toks[i], <<>>) : i \in DOMAIN toks}

\* system_prompt_update; when the decoding fails, system_tokens is set and the
\* update is due again, after a pass without the system prompt.
CellsAfter(decoded) ==
  [k \in Slots |-> IF decoded THEN SystemCells(SystemTokens(system_prompt)) ELSE {}]

UpdateSystem ==
  /\ pc = "tasks" /\ system_need_update
  /\ \E decoded \in SystemDecodes :
       /\ kv' = CellsAfter(decoded)
       /\ system_need_update' = ~decoded
  /\ system_tokens' = SystemTokens(system_prompt)
  /\ clean_kv_cache' = FALSE
  /\ pc' = "release"
  /\ UNCHANGED <<system_prompt, slots, launched>>

KeepSystem ==
  /\ pc = "tasks" /\ ~system_need_update
  /\ pc' = "release"
  /\ UNCHANGED <<systemVars, clean_kv_cache, slots, kv, launched>>

\* The pass ends here when that leaves no slot with anything to do.
ReleaseSlots ==
  /\ pc = "release"
  /\ LET idle == \A k \in Slots : slots[k].command = "RELEASE" \/ Available(k)
         wipe == idle /\ system_prompt = <<>> /\ clean_kv_cache
     IN  /\ kv' = IF wipe THEN [k \in Slots |-> {}] ELSE kv
         /\ clean_kv_cache' = (clean_kv_cache /\ ~wipe)
         /\ pc' = IF idle THEN "tasks" ELSE "batch"
  /\ slots' = [k \in Slots |-> IF slots[k].command = "RELEASE"
                 THEN [slots[k] EXCEPT !.state = "IDLE", !.command = "NONE"] ELSE slots[k]]
  /\ UNCHANGED <<systemVars, launched>>

\* The sampled token of a slot that generates.
WithSampled(s) ==
  [s EXCEPT !.n_past = @ + 1, !.i_batch = TRUE,
            !.cache_tokens = IF s.cache_prompt THEN Append(@, Last(s.generated)) ELSE @]

\* The prompt is tokenized once, with a BOS token if there is no system prompt
\* at that time, and what cache_tokens shares with it is not evaluated again,
\* except for its last token.
CommonPart(a, b) == Cardinality({n \in 1 .. Len(b) : n <= Len(a) /\ \A i \in 1 .. n : a[i] = b[i]})
Tokenized(s) ==
  IF s.prompt_tokens # <<>> THEN s ELSE
  LET toks   == IF system_prompt = <<>> THEN WithBos(s.prompt) ELSE s.prompt
      common == IF s.cache_prompt THEN CommonPart(s.cache_tokens, toks) ELSE 0
      reused == IF common = Len(toks) THEN common - 1 ELSE common
  IN  [s EXCEPT !.prompt_tokens = toks, !.n_past = reused, !.n_reused = reused]

\* m tokens of the prompt of the slot t, which is tokenized, go to the batch.
\* cache_tokens.resize(n_past) fills up with token 0, "".
Resized(toks, n) == [i \in 1 .. n |-> IF i <= Len(toks) THEN toks[i] ELSE ""]
WithPrompt(t, m) ==
  LET done == t.n_past + m = Len(t.prompt_tokens)
  IN  [t EXCEPT !.n_past = @ + m, !.i_batch = done,
         !.cache_tokens = Resized(@, t.n_past) \o
           (IF t.cache_prompt THEN SubSeq(t.prompt_tokens, t.n_past + 1, t.n_past + m) ELSE <<>>),
         !.state   = IF done THEN "PROCESSING" ELSE @,
         !.command = IF done THEN "NONE" ELSE @]

\* The cells of a sequence after the slot s was advanced to t: those from the
\* old n_past on are replaced by the tokens in the batch.
CellsOf(cells, n_past, t) ==
  {c \in cells : c.pos < Len(system_tokens) + n_past} \union
  {Cell(Len(system_tokens) + i - 1, (t.prompt_tokens \o t.generated)[i], system_tokens) :
     i \in n_past + 1 .. t.n_past}

\* How much of each prompt is in the batch depends on the order of the slots and
\* on the room; a slot that finds none is not looked at.
Evaluate ==
  /\ pc = "batch"
  /\ \E m \in [Slots -> 0 .. NBatch] :
       LET start(k) == IF Loading(k) /\ m[k] > 0 THEN Tokenized(slots[k]) ELSE slots[k]
           next(k)  == IF Generating(k) THEN WithSampled(slots[k])
                       ELSE IF m[k] > 0 THEN WithPrompt(start(k), m[k])
                       ELSE [slots[k] EXCEPT !.i_batch = FALSE]
       IN  /\ \A k \in Slots : m[k] > 0 =>
                Loading(k) /\ start(k).n_past + m[k] <= Len(start(k).prompt_tokens)
           /\ FoldFunction(+, Cardinality({k \in Slots : Generating(k)}), m) <= NBatch
           /\ slots' = [k \in Slots |-> next(k)]
           /\ kv' = [k \in Slots |-> IF next(k).n_past = start(k).n_past THEN kv[k]
                                     ELSE CellsOf(kv[k], start(k).n_past, next(k))]
  /\ pc' = "sample"
  /\ UNCHANGED <<systemVars, clean_kv_cache, launched>>

\* Each slot whose logits are in the batch gets a token, which may be its last.
Sample ==
  /\ pc = "sample"
  /\ \E last \in SUBSET {k \in Slots : slots[k].i_batch} :
       /\ \A k \in Slots : slots[k].i_batch /\ Len(slots[k].generated) + 1 >= MaxGenerated => k \in last
       /\ slots' = [k \in Slots |->
            IF ~slots[k].i_batch THEN slots[k] ELSE
            [slots[k] EXCEPT !.generated = Append(@, "a"), !.i_batch = FALSE,
                             !.command = IF k \in last THEN "RELEASE" ELSE @]]
  /\ pc' = "tasks"
  /\ UNCHANGED <<systemVars, clean_kv_cache, kv, launched>>

Next == \/ Launch \/ Cancel \/ UpdateSystem \/ KeepSystem \/ ReleaseSlots
        \/ Evaluate \/ Sample

Spec == Init /\ [][Next]_vars

-----------------------------------------------------------------------------
\* The type invariant.
TypeOK ==
  /\ system_prompt \in Text
  /\ system_tokens = <<>> \/ (Head(system_tokens) = "bos" /\ Tail(system_tokens) \in Text)
  /\ pc \in {"tasks", "release", "batch", "sample"} /\ launched \in 0 .. MaxTasks
  /\ \A k \in Slots :
       /\ slots[k].state \in {"IDLE", "PROCESSING"}
       /\ slots[k].command \in {"NONE", "LOAD_PROMPT", "RELEASE"}
       /\ slots[k].command = "RELEASE" => slots[k].state = "PROCESSING"
       /\ slots[k].n_reused \in 0 .. slots[k].n_past

\* What the task of the slot s evaluated itself: behind the reused tokens, each
\* token at its position and under the system prompt of now.
OwnPart(s) ==
  LET system == SystemTokens(system_prompt)
  IN  {Cell(Len(system) + i - 1, (s.prompt_tokens \o s.generated)[i], system) :
         i \in s.n_reused + 1 .. s.n_past}

\* The positions of what it took over from cache_tokens.
ReusedPositions(s) ==
  LET base == Len(SystemTokens(system_prompt)) IN base .. base + s.n_reused - 1

\* A token is sampled behind the system prompt of now and all that its task
\* evaluated itself under that system prompt, with nothing stale between or
\* behind them: for a task that reuses nothing, its whole context.  So a slot
\* that was half way through its prompt when another task changed the system
\* prompt starts again, and none goes on to generate from the old one.  What a
\* task reuses is left out: see ReuseIsComputed.
OwnPartComplete ==
  pc = "sample" => \A k \in Slots : slots[k].i_batch =>
    {c \in kv[k] : c.pos \notin ReusedPositions(slots[k])}
      = SystemCells(SystemTokens(system_prompt)) \union OwnPart(slots[k])

\* "reuse any previously computed tokens that are common with the new prompt"
\* (server.hpp:2344): what a task takes over was computed, under the system
\* prompt of now, and is in the KV cache.  It is not so: update_slots clears the
\* KV cache when the system prompt changes, and cache_tokens stays.
ReuseIsComputed ==
  pc = "sample" => \A k \in Slots : slots[k].i_batch =>
    LET system == SystemTokens(system_prompt)
    IN  \A i \in 1 .. slots[k].n_reused :
          Cell(Len(system) + i - 1, slots[k].prompt_tokens[i], system) \in kv[k]

=============================================================================
