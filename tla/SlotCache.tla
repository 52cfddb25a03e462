----------------------------- MODULE SlotCache -----------------------------
(***************************************************************************)
(* The context window of one slot over a sequence of requests: what its    *)
(* sequence of the KV cache holds, what cache_tokens says it holds, the    *)
(* truncation of a long prompt, the reuse of a common prefix and the       *)
(* context shift.  Tokens are kept, so that "the cache holds this prompt"  *)
(* can be said; which tokens the model samples is left open.               *)
(*                                                                         *)
(* The slots share nothing here but the room in the batch, which is        *)
(* nondeterministic, and the decode calls, which may fail for all of them. *)
(* Group attention is off (ga_n = 1), the slot generates (embedding is     *)
(* FALSE), and prompts are not empty.  The KV cache is external: cells are *)
(* added by llama_decode and removed or moved by the llama_kv_cache_*      *)
(* calls; a partial removal succeeds, as it does for transformers.         *)
(***************************************************************************)
EXTENDS Integers, SequencesExt

CONSTANTS
  Tokens,        \* vocabulary; 0 is what std::vector::resize fills with
  Requests,      \* [prompt, cache_prompt, keep]; keep is {} or {n_keep}
  NCtx,          \* slot.n_ctx
  NSystem,       \* system_tokens.size()
  AddBos,        \* add_bos_token, as 0 or 1
  NBatch,        \* llama_n_batch(ctx)
  EarlyRequest,  \* may a request be posted before the loop's first pass?
  DecodeFails,   \* may llama_decode fail?
  MaxRequests    \* bound: requests of a behaviour

RequestType == [prompt : Seq(Tokens) \ {<<>>}, cache_prompt : BOOLEAN,
                keep : SUBSET Int]
NoRequest == [prompt |-> <<>>, cache_prompt |-> FALSE, keep |-> {}]

ASSUME TokensAssumption   == 0 \in Tokens /\ Tokens \subseteq Nat
ASSUME RequestsAssumption == Requests \subseteq RequestType
ASSUME ContextAssumption  == NCtx \in Nat /\ NCtx >= 4
ASSUME SystemAssumption   == NSystem \in Nat /\ AddBos \in {0, 1}
ASSUME BatchAssumption    == NBatch \in Nat \ {0}
ASSUME OptionAssumption   == EarlyRequest \in BOOLEAN /\ DecodeFails \in BOOLEAN

VARIABLES
  state, command,  \* as in LlamaServer
  request,         \* prompt and parameters of the task launched last
  n_keep,          \* slot.params.n_keep
  prompt_tokens,   \* the tokenized, truncated prompt; <<>> until then
  n_past,          \* tokens of the context evaluated or in the batch
  sampled,         \* the token sampled last
  cache_tokens,    \* what the slot believes its sequence holds
  kv,              \* the cells of its sequence: [pos, tok] records
  batch,           \* its cells in the batch of this pass
  i_batch,         \* are its logits in the batch?
  clean_kv_cache,  \* server_context::clean_kv_cache
  pc,              \* the phase of update_slots
  issued           \* requests launched so far

slotVars  == <<state, command, n_past>>
taskVars  == <<request, n_keep, prompt_tokens>>
cacheVars == <<cache_tokens, kv>>
passVars  == <<batch, i_batch>>
vars == <<slotVars, taskVars, cacheVars, passVars, sampled, clean_kv_cache, pc,
          issued>>

Cell(p, t) == [pos |-> p, tok |-> t]

\* A system prompt is decoded first and copied to the slot's sequence by
\* system_prompt_update, which also clears the KV cache.
Init ==
  /\ state = "IDLE" /\ command = "NONE"
  /\ request = NoRequest /\ n_keep = 0
  /\ prompt_tokens = <<>> /\ n_past = 0 /\ sampled = 0
  /\ cache_tokens = <<>>
  /\ kv = {Cell(p, 0) : p \in 0 .. NSystem - 1}
  /\ batch = {} /\ i_batch = FALSE
  /\ clean_kv_cache = (NSystem = 0)
  /\ pc = "tasks" /\ issued = 0

-----------------------------------------------------------------------------
(***************************************************************************)
(* Tasks and the beginning of a pass.                                      *)
(***************************************************************************)
\* The request's n_keep, or else the one the slot has.
KeepOf(r) == IF r.keep = {} THEN n_keep ELSE CHOOSE n \in r.keep : TRUE

Launch ==
  /\ pc = "tasks" /\ state = "IDLE" /\ command = "NONE"
  /\ issued < MaxRequests
  /\ clean_kv_cache => EarlyRequest
  /\ \E r \in Requests : request' = r /\ n_keep' = KeepOf(r)
  /\ command' = "LOAD_PROMPT" /\ prompt_tokens' = <<>> /\ n_past' = 0
  /\ issued' = issued + 1
  /\ UNCHANGED <<state, cacheVars, passVars, sampled, clean_kv_cache, pc>>

CancelTask ==
  /\ pc = "tasks" /\ state = "PROCESSING"
  /\ command' = "RELEASE"
  /\ UNCHANGED <<state, n_past, taskVars, cacheVars, passVars, sampled,
                 clean_kv_cache, pc, issued>>

\* A pass that finds the slot idle; the first one that finds all slots idle
\* clears the KV cache, the cells of every sequence, and no cache_tokens.
IdlePass ==
  /\ pc = "tasks"
  /\ command = "RELEASE" \/ (state = "IDLE" /\ command = "NONE")
  /\ state' = "IDLE" /\ command' = "NONE"
  /\ \/ /\ NSystem = 0 /\ clean_kv_cache
        /\ kv' = {} /\ clean_kv_cache' = FALSE
     \/ UNCHANGED <<kv, clean_kv_cache>>
  /\ UNCHANGED <<n_past, taskVars, cache_tokens, passVars, sampled, pc, issued>>

BusyPass ==
  /\ pc = "tasks"
  /\ command # "RELEASE" /\ ~(state = "IDLE" /\ command = "NONE")
  /\ pc' = "shift"
  /\ UNCHANGED <<slotVars, taskVars, cacheVars, passVars, sampled,
                 clean_kv_cache, issued>>

-----------------------------------------------------------------------------
(***************************************************************************)
(* Context shift: half of the tokens after the first n_keep are dropped.   *)
(***************************************************************************)
NeverFull == FALSE   \* mutant: no context shift
Full == NSystem + n_past >= NCtx - 1

FirstCells == n_keep + AddBos
Discarded  == (NSystem + n_past - FirstCells) \div 2

\* llama_kv_cache_seq_rm and llama_kv_cache_seq_add.
ShiftedCells ==
  LET lo == FirstCells  hi == FirstCells + Discarded IN
  {IF c.pos >= hi /\ c.pos < NSystem + n_past
   THEN [c EXCEPT !.pos = @ - Discarded] ELSE c :
     c \in {x \in kv : x.pos < lo \/ x.pos >= hi}}

UnshiftedTokens ==   \* mutant: the tail is cut instead of the middle
  SubSeq(cache_tokens, 1, Len(cache_tokens) - Discarded)

ShiftedTokens ==
  [i \in 1 .. Len(cache_tokens) - Discarded |->
     IF i <= FirstCells THEN cache_tokens[i] ELSE cache_tokens[i + Discarded]]

ShiftContext ==
  /\ pc = "shift" /\ Full
  /\ kv' = ShiftedCells
  /\ cache_tokens' = IF request.cache_prompt THEN ShiftedTokens ELSE cache_tokens
  /\ n_past' = n_past - Discarded
  /\ pc' = "sampled"
  /\ UNCHANGED <<state, command, taskVars, passVars, sampled, clean_kv_cache,
                 issued>>

NoShift ==
  /\ pc = "shift" /\ ~Full
  /\ pc' = "sampled"
  /\ UNCHANGED <<slotVars, taskVars, cacheVars, passVars, sampled,
                 clean_kv_cache, issued>>

-----------------------------------------------------------------------------
(***************************************************************************)
(* The batch of a pass: the sampled token, or a part of the prompt.        *)
(***************************************************************************)
AddSampled ==
  /\ pc = "sampled" /\ state # "IDLE"
  /\ batch' = {Cell(NSystem + n_past, sampled)} /\ i_batch' = TRUE
  /\ n_past' = n_past + 1
  /\ cache_tokens' = IF request.cache_prompt THEN Append(cache_tokens, sampled)
                                             ELSE cache_tokens
  /\ pc' = "decode"
  /\ UNCHANGED <<state, command, taskVars, kv, sampled, clean_kv_cache, issued>>

NothingSampled ==
  /\ pc = "sampled" /\ state = "IDLE"
  /\ batch' = {} /\ i_batch' = FALSE
  /\ pc' = "prompt"
  /\ UNCHANGED <<slotVars, taskVars, cacheVars, sampled, clean_kv_cache, issued>>

\* n_keep < 0 keeps the whole prompt; four tokens stay free.
ClampedKeep(p, k) == LET n == IF k < 0 THEN Len(p) ELSE k
                     IN  IF n < NCtx - 4 THEN n ELSE NCtx - 4

ErasedOneLess(p, k) ==    \* mutant: one block too few
  LET block == (NCtx - k) \div 2
  IN  ((Len(p) - k - block) \div block - 1) * block

\* Tokens erased from a prompt that is too long: whole blocks of half of what
\* n_keep leaves of the context.
Erased(p, k) ==
  LET block == (NCtx - k) \div 2
  IN  ((Len(p) - k - block) \div block) * block

Truncated(p, k) ==
  IF Len(p) < NCtx THEN p
  ELSE SubSeq(p, 1, k) \o SubSeq(p, k + Erased(p, k) + 1, Len(p))

CommonLength(a, b) ==    \* mutant: the tokens are not compared
  Cardinality({n \in 1 .. Len(b) : n <= Len(a)})

\* common_part: the length of the longest common prefix.
CommonPart(a, b) ==
  Cardinality({n \in 1 .. Len(b) : n <= Len(a) /\ \A i \in 1 .. n : a[i] = b[i]})

\* Tokens of the new prompt p that need no evaluation; one always does.
Reused(p) ==
  LET common == IF request.cache_prompt THEN CommonPart(cache_tokens, p) ELSE 0
  IN  IF common = Len(p) THEN common - 1 ELSE common

\* The prompt, the n_keep and the n_past of the slot once it is tokenized.
KeepNow   == IF prompt_tokens = <<>> THEN ClampedKeep(request.prompt, n_keep)
                                     ELSE n_keep
PromptNow == IF prompt_tokens = <<>> THEN Truncated(request.prompt, KeepNow)
                                     ELSE prompt_tokens
PastNow   == IF prompt_tokens = <<>> THEN Reused(PromptNow) ELSE n_past

\* The batch is full, or of the other type, before or after tokenization.
PostponePrompt ==
  /\ pc = "prompt"
  /\ \/ UNCHANGED <<prompt_tokens, n_keep, n_past>>
     \/ prompt_tokens' = PromptNow /\ n_keep' = KeepNow /\ n_past' = PastNow
  /\ pc' = "decode"
  /\ UNCHANGED <<state, command, request, cacheVars, passVars, sampled,
                 clean_kv_cache, issued>>

\* cache_tokens.resize(n_past)
Resized(s, n) == [i \in 1 .. n |-> IF i <= Len(s) THEN s[i] ELSE 0]

KeptAll(p) == kv               \* mutant: no llama_kv_cache_seq_rm
Kept(p) == {c \in kv : c.pos < NSystem + p}

LoadPrompt ==
  /\ pc = "prompt"
  /\ \E m \in 0 .. NBatch :
       LET added == SubSeq(PromptNow, PastNow + 1, PastNow + m)
           cache == Resized(cache_tokens, PastNow)
           done  == PastNow + m = Len(PromptNow)
       IN  /\ PastNow + m <= Len(PromptNow)
           /\ batch' = {Cell(NSystem + PastNow + i - 1, added[i]) : i \in 1 .. m}
           /\ kv' = Kept(PastNow)
           /\ cache_tokens' = IF request.cache_prompt THEN cache \o added ELSE cache
           /\ n_past' = PastNow + m
           /\ prompt_tokens' = PromptNow /\ n_keep' = KeepNow
           /\ state'   = IF done THEN "PROCESSING" ELSE state
           /\ command' = IF done THEN "NONE" ELSE command
           /\ i_batch' = done
  /\ pc' = "decode"
  /\ UNCHANGED <<request, sampled, clean_kv_cache, issued>>

-----------------------------------------------------------------------------
(***************************************************************************)
(* Decoding and sampling.                                                  *)
(***************************************************************************)
Decode ==
  /\ pc = "decode"
  /\ kv' = kv \cup batch
  /\ pc' = "sample"
  /\ UNCHANGED <<slotVars, taskVars, cache_tokens, passVars, sampled,
                 clean_kv_cache, issued>>

\* The chunks before the one that failed were decoded.
FailDecode ==
  /\ pc = "decode" /\ DecodeFails
  /\ \E p \in 0 .. NSystem + n_past : kv' = kv \cup {c \in batch : c.pos < p}
  /\ state' = "PROCESSING" /\ command' = "RELEASE"
  /\ pc' = "tasks"
  /\ UNCHANGED <<n_past, taskVars, cache_tokens, passVars, sampled,
                 clean_kv_cache, issued>>

Sample ==
  /\ pc = "sample" /\ i_batch
  /\ sampled' \in Tokens
  /\ command' \in {command, "RELEASE"}
  /\ pc' = "tasks"
  /\ UNCHANGED <<state, n_past, taskVars, cacheVars, passVars, clean_kv_cache,
                 issued>>

NoSample ==
  /\ pc = "sample" /\ ~i_batch
  /\ pc' = "tasks"
  /\ UNCHANGED <<slotVars, taskVars, cacheVars, passVars, sampled,
                 clean_kv_cache, issued>>

-----------------------------------------------------------------------------
Next == \/ Launch \/ CancelTask \/ IdlePass \/ BusyPass
        \/ ShiftContext \/ NoShift
        \/ AddSampled \/ NothingSampled \/ PostponePrompt \/ LoadPrompt
        \/ Decode \/ FailDecode \/ Sample \/ NoSample

Spec == Init /\ [][Next]_vars

-----------------------------------------------------------------------------
(***************************************************************************)
(* What the context window promises.                                       *)
(***************************************************************************)
\* The slot never evaluates a token beyond its part of the context: every cell
\* it occupies or is about to occupy is below slot.n_ctx.  (Truncation leaves
\* one position free, and the context shift frees at least one before the next
\* sampled token.)
ContextFits == \A c \in kv \cup batch : c.pos < NCtx

\* The context shift is for generation: it never moves the cells of a slot that
\* is still loading its prompt, whose remaining tokens would follow at the
\* wrong positions.
LoadingUnshifted ==
  [][ShiftContext => command # "LOAD_PROMPT"]_vars

\* A token is sampled from a context without gaps: after a successful decode
\* the sequence of a generating slot has one cell at every position up to
\* n_past, and none above.
GaplessContext ==
  pc = "sample" /\ state = "PROCESSING" =>
    /\ {c.pos : c \in kv} = 0 .. NSystem + n_past - 1
    /\ Cardinality(kv) = NSystem + n_past

\* cache_tokens is what the sequence holds whenever the loop looks at the next
\* tasks; a context shift, a truncation and a reused prefix keep it so.
CacheCoherent ==
  pc = "tasks" => \A i \in DOMAIN cache_tokens :
                    Cell(NSystem + i - 1, cache_tokens[i]) \in kv

\* "reuse any previously computed tokens that are common with the new prompt":
\* the tokens of a new prompt that are not evaluated are in the KV cache.
ReusedWereComputed ==
  [][LoadPrompt /\ prompt_tokens = <<>> =>
       \A i \in 1 .. PastNow : Cell(NSystem + i - 1, PromptNow[i]) \in kv]_vars

=============================================================================
