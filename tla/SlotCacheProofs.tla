-------------------------- MODULE SlotCacheProofs --------------------------
(***************************************************************************)
(* Proofs about SlotCache, for every context size, batch size, n_keep and  *)
(* prompt.  With failing decodes and early requests: without a system      *)
(* prompt the slot stays inside its context (ContextFits) and the context  *)
(* shift spares a prompt that is being loaded (LoadingUnshifted); with a   *)
(* system prompt neither holds.  Under Promised: cache_tokens describes    *)
(* the sequence of the KV cache, which has no gaps, and what is reused of  *)
(* a prompt is in it (CacheCoherent, GaplessContext, ReusedWereComputed).  *)
(***************************************************************************)
EXTENDS SlotCache, FiniteSetTheorems, TLAPS

(***************************************************************************)
(* Truncation.                                                             *)
(***************************************************************************)
LEMMA DivLemma ==
  ASSUME NEW a \in Int, NEW b \in Nat \ {0}
  PROVE  a \div b \in Int /\ b * (a \div b) <= a /\ a < b * (a \div b) + b
  OBVIOUS

\* What is left of n >= ctx tokens when whole blocks are erased after the first
\* keep of them fits in ctx, and the end of the prompt is at least a block.
LEMMA BlocksLemma ==
  ASSUME NEW n \in Nat, NEW ctx \in Nat, NEW keep \in Nat, keep <= ctx - 4,
         n >= ctx,
         NEW block, block = (ctx - keep) \div 2,
         NEW erased, erased = ((n - keep - block) \div block) * block
  PROVE  erased \in Nat /\ n - erased < ctx /\ keep + block <= n - erased
           /\ block \in Nat \ {0}
  <1>1. block \in Nat \ {0} /\ 2 * block <= ctx - keep
    OBVIOUS
  <1>2. PICK x \in Int : x = n - keep - block
    BY <1>1
  <1>3. PICK q \in Int : q = x \div block /\ block * q <= x /\ x < block * q + block
    BY <1>1, <1>2, DivLemma
  <1>4. q >= 0
    <2>1. x >= 0
      BY <1>1, <1>2
    <2>2. q < 0 => block * q + block <= 0
      BY <1>1, <1>3
    <2> QED BY <1>1, <1>3, <2>1, <2>2
  <1>5. erased \in Nat /\ erased = block * q
    BY <1>1, <1>2, <1>3, <1>4
  <1> QED BY <1>1, <1>2, <1>3, <1>5

LEMMA ClampLemma ==
  ASSUME NEW p \in Seq(Tokens), NEW k \in Int
  PROVE  ClampedKeep(p, k) \in 0 .. NCtx - 4
  BY ContextAssumption DEF ClampedKeep

LEMMA CutLemma ==
  ASSUME NEW S, NEW p \in Seq(S), NEW k \in Nat, NEW j \in Nat, k <= j, j < Len(p)
  PROVE  /\ SubSeq(p, 1, k) \o SubSeq(p, j + 1, Len(p)) \in Seq(S)
         /\ Len(SubSeq(p, 1, k) \o SubSeq(p, j + 1, Len(p))) = k + Len(p) - j
  <1> DEFINE a == SubSeq(p, 1, k)
             b == SubSeq(p, j + 1, Len(p))
  <1>1. a \in Seq(S) /\ Len(a) = k
    OBVIOUS
  <1>2. b \in Seq(S) /\ Len(b) = Len(p) - j
    OBVIOUS
  <1> HIDE DEF a, b
  <1>3. a \o b \in Seq(S) /\ Len(a \o b) = Len(a) + Len(b)
    BY <1>1, <1>2
  <1>4. a \o b \in Seq(S) /\ Len(a \o b) = k + Len(p) - j
    BY <1>1, <1>2, <1>3
  <1> QED BY <1>4 DEF a, b

\* A truncated prompt is not empty and leaves a position of the context free:
\* GGML_ASSERT(slot.n_prompt_tokens < slot.n_ctx) of update_slots never fails.
THEOREM TruncatedFits ==
  ASSUME NEW p \in Seq(Tokens), p # <<>>, NEW k \in 0 .. NCtx - 4
  PROVE  /\ Truncated(p, k) \in Seq(Tokens)
         /\ Len(Truncated(p, k)) \in 1 .. NCtx - 1
  <1> USE ContextAssumption
  <1>1. CASE Len(p) < NCtx
    BY <1>1 DEF Truncated
  <1>2. CASE Len(p) >= NCtx
    <2>1. Len(p) \in Nat /\ k \in Nat /\ k <= NCtx - 4 /\ NCtx \in Nat
      OBVIOUS
    <2> DEFINE block == (NCtx - k) \div 2
    <2>2. Erased(p, k) = ((Len(p) - k - block) \div block) * block
      BY DEF Erased
    <2> HIDE DEF block
    <2>3. /\ Erased(p, k) \in Nat /\ Len(p) - Erased(p, k) < NCtx
          /\ k + block <= Len(p) - Erased(p, k) /\ block \in Nat \ {0}
      <3>1. block = (NCtx - k) \div 2
        BY DEF block
      <3> QED BY <1>2, <2>1, <2>2, <3>1, BlocksLemma
    <2>4. PICK j \in Nat : /\ j = k + Erased(p, k) /\ k <= j /\ j < Len(p)
                            /\ Len(p) - Erased(p, k) < NCtx
      BY <2>1, <2>3
    <2>5. Truncated(p, k) = SubSeq(p, 1, k) \o SubSeq(p, j + 1, Len(p))
      <3>1. ~(Len(p) < NCtx)
        BY <1>2, <2>1
      <3> QED BY <2>4, <3>1 DEF Truncated
    <2>6. /\ Truncated(p, k) \in Seq(Tokens)
          /\ Len(Truncated(p, k)) = k + Len(p) - j
      <3>1. /\ SubSeq(p, 1, k) \o SubSeq(p, j + 1, Len(p)) \in Seq(Tokens)
            /\ Len(SubSeq(p, 1, k) \o SubSeq(p, j + 1, Len(p))) = k + Len(p) - j
        BY <2>1, <2>4, CutLemma
      <3> QED BY <2>5, <3>1
    <2>7. k + Len(p) - j \in 1 .. NCtx - 1
      BY <2>1, <2>3, <2>4
    <2> QED BY <2>6, <2>7
  <1> QED BY <1>1, <1>2

LEMMA ReusedLemma ==
  ASSUME NEW p \in Seq(Tokens), p # <<>>
  PROVE  Reused(p) \in 0 .. Len(p) - 1
  <1>1. CommonPart(cache_tokens, p) \in 0 .. Len(p)
    <2> DEFINE I == 1 .. Len(p)
               C == {n \in I : n <= Len(cache_tokens)
                                 /\ \A i \in 1 .. n : cache_tokens[i] = p[i]}
    <2>1. IsFiniteSet(I) /\ Cardinality(I) = Len(p)
      BY FS_Interval
    <2>2. C \in SUBSET I
      OBVIOUS
    <2> HIDE DEF C, I
    <2>3. IsFiniteSet(C) /\ Cardinality(C) <= Len(p) /\ Cardinality(C) \in Nat
      BY <2>1, <2>2, FS_Subset, FS_CardinalityType
    <2> QED BY <2>3 DEF CommonPart, C, I
  <1>2. Len(p) \in Nat \ {0}
    OBVIOUS
  <1> QED BY <1>1, <1>2 DEF Reused

(***************************************************************************)
(* The inductive invariant.                                                *)
(***************************************************************************)
Cells == [pos : 0 .. NCtx - 1, tok : Tokens]

WindowType ==
  /\ state \in {"IDLE", "PROCESSING"}
  /\ command \in {"NONE", "LOAD_PROMPT", "RELEASE"}
  /\ pc \in {"tasks", "shift", "sampled", "prompt", "decode", "sample"}
  /\ n_keep \in Int /\ sampled \in Tokens
  /\ prompt_tokens \in Seq(Tokens) /\ n_past \in 0 .. NCtx - 1
  /\ kv \subseteq Cells /\ batch \subseteq Cells

\* A tokenized prompt fits, with its n_keep.
PromptFits ==
  prompt_tokens # <<>> => Len(prompt_tokens) < NCtx /\ n_keep \in 0 .. NCtx - 4

\* A slot that loads its prompt has not evaluated all of it.
LoadingInv ==
  command = "LOAD_PROMPT" =>
    /\ state = "IDLE" /\ request \in Requests
    /\ \/ prompt_tokens = <<>> /\ n_past = 0
       \/ n_past < Len(prompt_tokens)

GeneratingInv ==
  state = "PROCESSING" /\ command = "NONE" => prompt_tokens # <<>>

\* A pass past its first phase has a busy slot; the shift has made room.
PassInv ==
  /\ pc # "tasks" => command # "RELEASE" /\ (state = "IDLE" => command = "LOAD_PROMPT")
  /\ pc = "prompt" => state = "IDLE"
  /\ pc = "sampled" => n_past <= NCtx - 2

WindowInv == WindowType /\ PromptFits /\ LoadingInv /\ GeneratingInv /\ PassInv

LEMMA NoRoomNeeded ==
  ASSUME NSystem = 0, WindowInv, pc = "shift", Full
  PROVE  /\ state = "PROCESSING" /\ command = "NONE" /\ n_past = NCtx - 1
         /\ FirstCells \in 0 .. NCtx - 3
         /\ Discarded \in 1 .. NCtx - 1 /\ FirstCells + Discarded < NCtx
         /\ n_past - Discarded \in 0 .. NCtx - 2
  <1> USE ContextAssumption, SystemAssumption
      DEF WindowInv, WindowType, PromptFits, LoadingInv, GeneratingInv, PassInv
  <1>1. n_past = NCtx - 1
    BY DEF Full
  <1>2. command # "LOAD_PROMPT"
    <2>1. Len(prompt_tokens) \in Nat
      OBVIOUS
    <2> QED BY <1>1, <2>1
  <1>3. state = "PROCESSING" /\ command = "NONE"
    BY <1>2
  <1>4. n_keep \in 0 .. NCtx - 4
    BY <1>3
  <1>5. FirstCells \in 0 .. NCtx - 3
    BY <1>4 DEF FirstCells
  <1>6. PICK f \in 0 .. NCtx - 3 : f = FirstCells
    BY <1>5
  <1>7. Discarded = (NCtx - 1 - f) \div 2
    BY <1>1, <1>6 DEF Discarded
  <1>8. /\ (NCtx - 1 - f) \div 2 \in 1 .. NCtx - 1
        /\ f + ((NCtx - 1 - f) \div 2) < NCtx
    BY <1>6
  <1> QED BY <1>1, <1>3, <1>5, <1>6, <1>7, <1>8

LEMMA WindowInit ==
  ASSUME NSystem = 0, Init
  PROVE  WindowInv
  <1>1. kv = {}
    BY DEF Init
  <1> QED
    BY <1>1, ContextAssumption, TokensAssumption
    DEF Init, WindowInv, WindowType, PromptFits, LoadingInv, GeneratingInv, PassInv

\* The steps between the passes and those that only move on.
LEMMA WindowControl ==
  ASSUME NSystem = 0, WindowInv,
         \/ Launch \/ CancelTask \/ IdlePass \/ BusyPass \/ NoShift
         \/ NothingSampled \/ Sample \/ NoSample \/ UNCHANGED vars
  PROVE  WindowInv'
  <1> USE ContextAssumption
      DEF WindowInv, WindowType, PromptFits, LoadingInv, GeneratingInv, PassInv,
          slotVars, taskVars, cacheVars, passVars
  <1>1. CASE Launch
    <2>1. PICK r \in Requests : request' = r /\ n_keep' = KeepOf(r)
      BY <1>1 DEF Launch
    <2>2. n_keep' \in Int
      <3>1. r.keep \in SUBSET Int
        BY RequestsAssumption DEF RequestType
      <3> QED BY <2>1, <3>1 DEF KeepOf
    <2>3. << >> \in Seq(Tokens)
      OBVIOUS
    <2> QED BY <1>1, <2>1, <2>2, <2>3 DEF Launch
  <1>2. CASE CancelTask
    BY <1>2 DEF CancelTask
  <1>3. CASE IdlePass
    BY <1>3 DEF IdlePass
  <1>4. CASE BusyPass
    BY <1>4 DEF BusyPass
  <1>5. CASE NoShift
    <2>1. n_past <= NCtx - 2
      BY <1>5 DEF NoShift, Full
    <2> QED BY <1>5, <2>1 DEF NoShift
  <1>6. CASE NothingSampled
    BY <1>6 DEF NothingSampled
  <1>7. CASE Sample
    BY <1>7 DEF Sample
  <1>8. CASE NoSample
    BY <1>8 DEF NoSample
  <1>9. CASE UNCHANGED vars
    BY <1>9 DEF vars
  <1> QED BY <1>1, <1>2, <1>3, <1>4, <1>5, <1>6, <1>7, <1>8, <1>9

LEMMA WindowShift ==
  ASSUME NSystem = 0, WindowInv, ShiftContext
  PROVE  WindowInv'
  <1> USE ContextAssumption
      DEF WindowInv, WindowType, PromptFits, LoadingInv, GeneratingInv, PassInv
  <1>1. pc = "shift" /\ Full
    BY DEF ShiftContext
  <1>2. /\ state = "PROCESSING" /\ command = "NONE" /\ n_past = NCtx - 1
        /\ Discarded \in 1 .. NCtx - 1 /\ FirstCells \in 0 .. NCtx - 3
        /\ n_past - Discarded \in 0 .. NCtx - 2
    BY <1>1, NoRoomNeeded
  <1>3. kv' \subseteq Cells
    <2> SUFFICES ASSUME NEW c \in kv
                 PROVE  /\ c \in Cells
                        /\ c.pos >= FirstCells + Discarded =>
                             [c EXCEPT !.pos = c.pos - Discarded] \in Cells
      BY DEF ShiftContext, ShiftedCells
    <2>1. c \in Cells
      OBVIOUS
    <2>2. PICK f \in 0 .. NCtx - 3, d \in 1 .. NCtx - 1 : f = FirstCells /\ d = Discarded
      BY <1>2
    <2>3. c.pos \in 0 .. NCtx - 1
      BY <2>1 DEF Cells
    <2>4. c.pos >= f + d => c.pos - d \in 0 .. NCtx - 1
      BY <2>2, <2>3
    <2> QED BY <2>1, <2>2, <2>4 DEF Cells
  <1>4. UNCHANGED <<state, command, request, n_keep, prompt_tokens, batch, sampled>>
          /\ n_past' = n_past - Discarded /\ pc' = "sampled"
    BY DEF ShiftContext, taskVars, passVars
  <1> QED BY <1>2, <1>3, <1>4

\* What PostponePrompt and LoadPrompt take for the prompt of the slot.
LEMMA NowLemma ==
  ASSUME WindowInv, pc = "prompt"
  PROVE  /\ command = "LOAD_PROMPT" /\ state = "IDLE" /\ request \in Requests
         /\ KeepNow \in 0 .. NCtx - 4
         /\ PromptNow \in Seq(Tokens) /\ Len(PromptNow) \in 1 .. NCtx - 1
         /\ PastNow \in 0 .. Len(PromptNow) - 1
  <1> USE ContextAssumption
      DEF WindowInv, WindowType, PromptFits, LoadingInv, GeneratingInv, PassInv
  <1>1. command = "LOAD_PROMPT" /\ state = "IDLE" /\ request \in Requests
    OBVIOUS
  <1>2. CASE prompt_tokens = <<>>
    <2>1. request.prompt \in Seq(Tokens) /\ request.prompt # <<>>
      BY <1>1, RequestsAssumption DEF RequestType
    <2>2. PICK k \in 0 .. NCtx - 4 : k = KeepNow
      BY <1>2, <2>1, ClampLemma DEF KeepNow
    <2>3. PromptNow \in Seq(Tokens) /\ Len(PromptNow) \in 1 .. NCtx - 1
      BY <1>2, <2>1, <2>2, TruncatedFits DEF PromptNow
    <2>4. PromptNow # <<>>
      BY <2>3
    <2>5. PastNow \in 0 .. Len(PromptNow) - 1
      BY <1>2, <2>3, <2>4, ReusedLemma DEF PastNow
    <2> QED BY <1>1, <2>2, <2>3, <2>5
  <1>3. CASE prompt_tokens # <<>>
    <2>1. /\ KeepNow = n_keep /\ PromptNow = prompt_tokens /\ PastNow = n_past
          /\ Len(prompt_tokens) \in Nat /\ Len(prompt_tokens) # 0
      BY <1>3 DEF KeepNow, PromptNow, PastNow
    <2>2. n_past < Len(prompt_tokens)
      BY <1>1, <1>3
    <2> QED BY <1>1, <1>3, <2>1, <2>2
  <1> QED BY <1>2, <1>3

LEMMA WindowPrompt ==
  ASSUME NSystem = 0, WindowInv, PostponePrompt \/ LoadPrompt
  PROVE  WindowInv'
  <1> USE ContextAssumption
      DEF WindowInv, WindowType, PromptFits, LoadingInv, GeneratingInv, PassInv
  <1>1. pc = "prompt" /\ pc' = "decode" /\ UNCHANGED <<request, sampled>>
    BY DEF PostponePrompt, LoadPrompt
  <1>2. PICK p \in Seq(Tokens), past \in Nat, k \in Int :
          /\ p = PromptNow /\ past = PastNow /\ k = KeepNow
          /\ Len(p) \in 1 .. NCtx - 1 /\ past < Len(p) /\ k \in 0 .. NCtx - 4
    BY <1>1, NowLemma
  <1>3. command = "LOAD_PROMPT" /\ state = "IDLE" /\ request \in Requests
    BY <1>1, NowLemma
  <1>4. CASE PostponePrompt
    <2>1. UNCHANGED <<state, command, kv, batch>>
      BY <1>4 DEF PostponePrompt, cacheVars, passVars
    <2>2. CASE UNCHANGED <<prompt_tokens, n_keep, n_past>>
      BY <1>1, <1>3, <2>1, <2>2
    <2>3. CASE prompt_tokens' = p /\ n_keep' = k /\ n_past' = past
      BY <1>1, <1>2, <1>3, <2>1, <2>3
    <2> QED BY <1>2, <1>4, <2>2, <2>3 DEF PostponePrompt
  <1>5. CASE LoadPrompt
    <2>0. /\ PromptNow \in Seq(Tokens) /\ Len(PromptNow) \in 1 .. NCtx - 1
          /\ PastNow \in Nat /\ PastNow < Len(PromptNow)
          /\ KeepNow \in 0 .. NCtx - 4
      BY <1>2
    <2>1. PICK m \in 0 .. NBatch :
           LET added == SubSeq(PromptNow, PastNow + 1, PastNow + m)
               done  == PastNow + m = Len(PromptNow)
           IN  /\ PastNow + m <= Len(PromptNow)
               /\ batch' = {Cell(NSystem + PastNow + i - 1, added[i]) : i \in 1 .. m}
               /\ kv' = Kept(PastNow) /\ n_past' = PastNow + m
               /\ prompt_tokens' = PromptNow /\ n_keep' = KeepNow
               /\ state'   = IF done THEN "PROCESSING" ELSE state
               /\ command' = IF done THEN "NONE" ELSE command
      BY <1>5 DEF LoadPrompt
    <2>2. m \in Nat /\ PastNow + m \in 0 .. NCtx - 1
      BY <2>0, <2>1, BatchAssumption
    <2>3. kv' \subseteq Cells
      BY <2>1 DEF Kept
    <2>4. batch' \subseteq Cells
      <3> SUFFICES ASSUME NEW i \in 1 .. m
                   PROVE  Cell(NSystem + PastNow + i - 1,
                               SubSeq(PromptNow, PastNow + 1, PastNow + m)[i]) \in Cells
        BY <2>1
      <3>1. NSystem + PastNow + i - 1 \in 0 .. NCtx - 1
        BY <2>0, <2>1, <2>2
      <3>2. SubSeq(PromptNow, PastNow + 1, PastNow + m)[i] \in Tokens
        <4>1. /\ SubSeq(PromptNow, PastNow + 1, PastNow + m)[i] = PromptNow[PastNow + i]
              /\ PastNow + i \in 1 .. Len(PromptNow)
          BY <2>0, <2>1, <2>2
        <4> QED BY <2>0, <4>1
      <3> QED BY <3>1, <3>2 DEF Cell, Cells
    <2>5. PromptFits'
      BY <2>0, <2>1
    <2>6. PromptNow # <<>>
      BY <2>0
    <2>7. LoadingInv' /\ GeneratingInv' /\ PassInv'
      <3>1. CASE PastNow + m = Len(PromptNow)
        BY <1>1, <1>3, <2>1, <2>6, <3>1
      <3>2. CASE PastNow + m # Len(PromptNow)
        <4>1. PastNow + m < Len(PromptNow)
          BY <2>0, <2>1, <2>2, <3>2
        <4>2. /\ prompt_tokens' = PromptNow /\ n_past' = PastNow + m
              /\ state' = "IDLE" /\ command' = "LOAD_PROMPT"
          BY <1>3, <2>1, <3>2
        <4> QED BY <1>1, <1>3, <4>1, <4>2
      <3> QED BY <3>1, <3>2
    <2>8. WindowType'
      <3>1. state' \in {"IDLE", "PROCESSING"} /\ command' \in {"NONE", "LOAD_PROMPT"}
        BY <1>3, <2>1
      <3>2. n_keep' \in Int /\ prompt_tokens' \in Seq(Tokens) /\ n_past' \in 0 .. NCtx - 1
        BY <2>0, <2>1, <2>2
      <3>3. pc' \in {"decode"} /\ sampled' \in Tokens
        BY <1>1
      <3> QED BY <2>3, <2>4, <3>1, <3>2, <3>3
    <2> QED BY <2>5, <2>7, <2>8
  <1> QED BY <1>4, <1>5

LEMMA WindowDecode ==
  ASSUME NSystem = 0, WindowInv, AddSampled \/ Decode \/ FailDecode
  PROVE  WindowInv'
  <1> USE ContextAssumption
      DEF WindowInv, WindowType, PromptFits, LoadingInv, GeneratingInv, PassInv,
          slotVars, taskVars, cacheVars, passVars
  <1>1. CASE AddSampled
    <2>1. n_past \in 0 .. NCtx - 2 /\ state = "PROCESSING" /\ command # "LOAD_PROMPT"
      BY <1>1 DEF AddSampled
    <2>2. batch' \subseteq Cells
      BY <1>1, <2>1 DEF AddSampled, Cell, Cells
    <2>3. n_past' \in 0 .. NCtx - 1
      BY <1>1, <2>1 DEF AddSampled
    <2> QED BY <1>1, <2>1, <2>2, <2>3 DEF AddSampled
  <1>2. CASE Decode
    BY <1>2 DEF Decode
  <1>3. CASE FailDecode
    <2>1. kv' \subseteq Cells
      BY <1>3 DEF FailDecode
    <2> QED BY <1>3, <2>1 DEF FailDecode
  <1> QED BY <1>1, <1>2, <1>3

LEMMA WindowNext ==
  ASSUME NSystem = 0
  PROVE  WindowInv /\ [Next]_vars => WindowInv'
  BY WindowControl, WindowShift, WindowPrompt, WindowDecode DEF Next

\* Without a system prompt every cell the slot occupies, or is about to, lies
\* below slot.n_ctx, whatever the prompts, n_keep and the failures.
THEOREM WindowFits ==
  ASSUME NSystem = 0
  PROVE  Spec => []ContextFits
  <1>1. WindowInv => ContextFits
    BY ContextAssumption DEF WindowInv, WindowType, ContextFits, Cells
  <1> QED BY <1>1, WindowInit, WindowNext, PTL DEF Spec

\* Without a system prompt a context shift never moves the cells of a slot that
\* is loading its prompt.
THEOREM ShiftSparesLoading ==
  ASSUME NSystem = 0
  PROVE  Spec => LoadingUnshifted
  <1>1. WindowInv /\ [Next]_vars =>
          [ShiftContext => command # "LOAD_PROMPT"]_vars
    <2> SUFFICES ASSUME WindowInv, ShiftContext
                 PROVE  command # "LOAD_PROMPT"
      OBVIOUS
    <2> QED BY NoRoomNeeded DEF ShiftContext
  <1> QED BY <1>1, WindowInit, WindowNext, PTL DEF Spec, LoadingUnshifted

-----------------------------------------------------------------------------
(***************************************************************************)
(* What the sequence holds.  The promise that cache_tokens describes it is *)
(* kept while every request asks for it (cache_prompt), no request comes   *)
(* before the first pass and no decode fails; SlotCache says what happens  *)
(* otherwise.                                                              *)
(***************************************************************************)
Promised == /\ NSystem = 0 /\ ~EarlyRequest /\ ~DecodeFails
            /\ \A r \in Requests : r.cache_prompt

CellsFor(toks) == {Cell(i - 1, toks[i]) : i \in DOMAIN toks}

\* The cells are exactly the cached tokens, those in the batch included, and
\* while the slot works for a task there is one for every token of the context.
ExactInv ==
  /\ cache_tokens \in Seq(Tokens)
  /\ CellsFor(cache_tokens) = IF pc = "decode" THEN kv \union batch ELSE kv
  /\ pc = "prompt" => batch = {}
  /\ state = "PROCESSING" => request \in Requests /\ n_past = Len(cache_tokens)
  /\ command = "LOAD_PROMPT" /\ prompt_tokens # <<>> => n_past <= Len(cache_tokens)
  /\ clean_kv_cache => /\ cache_tokens = <<>> /\ pc = "tasks"
                       /\ state = "IDLE" /\ command = "NONE"

CacheInv == WindowInv /\ ExactInv

\* A set of positions that holds with each all before it holds its cardinality.
LEMMA DownClosed ==
  ASSUME NEW n \in Nat, NEW C \in SUBSET (1 .. n),
         \A i \in C : \A j \in 1 .. i : j \in C
  PROVE  Cardinality(C) \in 0 .. n /\ \A i \in 1 .. Cardinality(C) : i \in C
  <1>1. IsFiniteSet(1 .. n) /\ Cardinality(1 .. n) = n
    <2>1. Cardinality(1 .. n) = IF 1 > n THEN 0 ELSE n - 1 + 1
      BY FS_Interval
    <2> QED BY <2>1, FS_Interval
  <1>2. IsFiniteSet(C) /\ Cardinality(C) <= n /\ Cardinality(C) \in Nat
    <2>1. C \subseteq 1 .. n
      OBVIOUS
    <2>2. IsFiniteSet(C) /\ Cardinality(C) <= Cardinality(1 .. n)
      BY ONLY <1>1, <2>1, FS_Subset
    <2>3. Cardinality(C) \in Nat
      BY ONLY <2>2, FS_CardinalityType
    <2> QED BY <1>1, <2>2, <2>3
  <1>3. ASSUME NEW i \in 1 .. Cardinality(C), i \notin C
        PROVE  FALSE
    <2>1. i \in 1 .. n /\ i - 1 \in Nat /\ i <= Cardinality(C)
      BY <1>2
    <2>2. C \subseteq 1 .. i - 1
      <3> SUFFICES ASSUME NEW j \in C, ~(j <= i - 1)
                   PROVE  FALSE
        OBVIOUS
      <3>1. j \in Nat /\ i \in 1 .. j
        BY <2>1
      <3> QED BY <1>3, <3>1
    <2>3. IsFiniteSet(1 .. i - 1) /\ Cardinality(1 .. i - 1) = i - 1
      <3>1. Cardinality(1 .. i - 1) = IF 1 > i - 1 THEN 0 ELSE i - 1 - 1 + 1
        BY <2>1, FS_Interval
      <3> QED BY <2>1, <3>1, FS_Interval
    <2>4. Cardinality(C) <= i - 1
      BY <2>2, <2>3, FS_Subset
    <2> QED BY <1>2, <2>1, <2>4
  <1> QED BY <1>2, <1>3

\* common_part returns the length of a common prefix.
LEMMA CommonPrefix ==
  ASSUME NEW a \in Seq(Tokens), NEW b \in Seq(Tokens)
  PROVE  /\ CommonPart(a, b) \in 0 .. Len(b) /\ CommonPart(a, b) <= Len(a)
         /\ \A i \in 1 .. CommonPart(a, b) : a[i] = b[i]
  <1> DEFINE C == {n \in 1 .. Len(b) : n <= Len(a) /\ \A i \in 1 .. n : a[i] = b[i]}
             c == Cardinality(C)
  <1>1. Len(a) \in Nat /\ Len(b) \in Nat
    OBVIOUS
  <1>2. \A n \in C : n \in 1 .. Len(b) /\ n <= Len(a) /\ \A i \in 1 .. n : a[i] = b[i]
    OBVIOUS
  <1>3. \A n \in C : \A j \in 1 .. n : j \in C
    <2> SUFFICES ASSUME NEW n \in C, NEW j \in 1 .. n
                 PROVE  j \in 1 .. Len(b) /\ j <= Len(a) /\ \A i \in 1 .. j : a[i] = b[i]
      OBVIOUS
    <2>1. n \in 1 .. Len(b) /\ n <= Len(a)
      BY <1>2
    <2>2. \A i \in 1 .. j : i \in 1 .. n
      BY <2>1
    <2> QED BY <1>1, <1>2, <2>1, <2>2
  <1>4. C \in SUBSET (1 .. Len(b))
    OBVIOUS
  <1>5. CommonPart(a, b) = c
    BY DEF CommonPart
  <1> HIDE DEF C
  <1>6. c \in 0 .. Len(b) /\ \A i \in 1 .. c : i \in C
    BY <1>1, <1>3, <1>4, DownClosed
  <1>7. c > 0 => c \in C
    BY <1>1, <1>6
  <1> HIDE DEF c
  <1>8. c > 0 => c <= Len(a) /\ \A i \in 1 .. c : a[i] = b[i]
    BY <1>2, <1>7
  <1>9. c = 0 => c <= Len(a) /\ \A i \in 1 .. c : a[i] = b[i]
    BY <1>1
  <1> QED BY <1>1, <1>5, <1>6, <1>8, <1>9

\* What a slot finds of its prompt in cache_tokens is a prefix of both.
LEMMA ReusedPrefix ==
  ASSUME cache_tokens \in Seq(Tokens), NEW p \in Seq(Tokens), p # <<>>
  PROVE  /\ Reused(p) \in 0 .. Len(p) - 1 /\ Reused(p) <= Len(cache_tokens)
         /\ \A i \in 1 .. Reused(p) : cache_tokens[i] = p[i]
  <1> DEFINE c == CommonPart(cache_tokens, p)
  <1>1. Len(p) \in Nat \ {0} /\ Len(cache_tokens) \in Nat
    OBVIOUS
  <1>2. /\ c \in 0 .. Len(p) /\ c <= Len(cache_tokens)
        /\ \A i \in 1 .. c : cache_tokens[i] = p[i]
    BY CommonPrefix
  <1>3. \/ Reused(p) = 0
        \/ Reused(p) = c /\ c # Len(p)
        \/ Reused(p) = c - 1 /\ c = Len(p)
    BY <1>1 DEF Reused
  <1> HIDE DEF c
  <1>4. /\ Reused(p) \in 0 .. Len(p) - 1 /\ Reused(p) <= Len(cache_tokens)
        /\ Reused(p) <= c
    BY <1>1, <1>2, <1>3
  <1>5. \A i \in 1 .. Reused(p) : i \in 1 .. c
    BY <1>2, <1>4
  <1> QED BY <1>2, <1>4, <1>5

\* The cells of a sequence: one for each token, at its position.
LEMMA CellsForOne ==
  ASSUME NEW toks \in Seq(Tokens)
  PROVE  /\ \A c : c \in CellsFor(toks) <=> \E i \in 1 .. Len(toks) : c = Cell(i - 1, toks[i])
         /\ \A c \in CellsFor(toks) :
              /\ c.pos \in 0 .. Len(toks) - 1 /\ c.tok = toks[c.pos + 1]
              /\ c = Cell(c.pos, toks[c.pos + 1])
         /\ {c.pos : c \in CellsFor(toks)} = 0 .. Len(toks) - 1
         /\ IsFiniteSet(CellsFor(toks)) /\ Cardinality(CellsFor(toks)) = Len(toks)
  <1> DEFINE f == [i \in 1 .. Len(toks) |-> Cell(i - 1, toks[i])]
  <1>1. Len(toks) \in Nat /\ DOMAIN toks = 1 .. Len(toks)
    OBVIOUS
  <1>2. \A c : c \in CellsFor(toks) <=> \E i \in 1 .. Len(toks) : c = Cell(i - 1, toks[i])
    BY <1>1 DEF CellsFor
  <1>3. ASSUME NEW c \in CellsFor(toks)
        PROVE  /\ c.pos \in 0 .. Len(toks) - 1 /\ c.tok = toks[c.pos + 1]
               /\ c = Cell(c.pos, toks[c.pos + 1])
    <2>1. PICK i \in 1 .. Len(toks) : c = Cell(i - 1, toks[i])
      BY <1>2
    <2>2. c.pos = i - 1 /\ c.tok = toks[i] /\ c.pos + 1 = i
      BY <2>1 DEF Cell
    <2>3. i - 1 \in 0 .. Len(toks) - 1
      BY <1>1
    <2> QED BY <2>1, <2>2, <2>3
  <1>4. {c.pos : c \in CellsFor(toks)} = 0 .. Len(toks) - 1
    <2>1. ASSUME NEW q \in 0 .. Len(toks) - 1
          PROVE  \E c \in CellsFor(toks) : c.pos = q
      <3>1. q + 1 \in 1 .. Len(toks) /\ (q + 1) - 1 = q
        BY <1>1
      <3>2. Cell(q, toks[q + 1]) \in CellsFor(toks)
        BY <1>2, <3>1
      <3> QED BY <3>2 DEF Cell
    <2> QED BY <1>3, <2>1
  <1>5. ExistsBijection(1 .. Len(toks), CellsFor(toks))
    <2>1. f \in [1 .. Len(toks) -> CellsFor(toks)]
      BY <1>2
    <2>2. \A c \in CellsFor(toks) : \E i \in 1 .. Len(toks) : f[i] = c
      BY <1>2
    <2>3. \A i, j \in 1 .. Len(toks) : f[i] = f[j] => i = j
      <3> SUFFICES ASSUME NEW i \in 1 .. Len(toks), NEW j \in 1 .. Len(toks), f[i] = f[j]
                   PROVE  i = j
        OBVIOUS
      <3>1. f[i].pos = i - 1 /\ f[j].pos = j - 1
        BY DEF Cell
      <3> HIDE DEF f
      <3> QED BY <1>1, <3>1
    <2> HIDE DEF f
    <2>4. f \in Injection(1 .. Len(toks), CellsFor(toks))
      BY <2>1, <2>3 DEF Injection, IsInjective
    <2>5. f \in Surjection(1 .. Len(toks), CellsFor(toks))
      BY <2>1, <2>2 DEF Surjection
    <2> QED BY <2>4, <2>5 DEF ExistsBijection, Bijection
  <1>6. IsFiniteSet(1 .. Len(toks)) /\ Cardinality(1 .. Len(toks)) = Len(toks)
    <2>1. Cardinality(1 .. Len(toks)) = IF 1 > Len(toks) THEN 0 ELSE Len(toks) - 1 + 1
      BY <1>1, FS_Interval
    <2> QED BY <1>1, <2>1, FS_Interval
  <1>7. IsFiniteSet(CellsFor(toks)) /\ Cardinality(CellsFor(toks)) = Len(toks)
    BY <1>5, <1>6, FS_Bijection
  <1> QED BY <1>2, <1>3, <1>4, <1>7

LEMMA ExactInit ==
  ASSUME Promised, Init
  PROVE  CacheInv
  <1>1. WindowInv
    BY WindowInit DEF Promised
  <1>2. kv = {} /\ CellsFor(<<>>) = {} /\ <<>> \in Seq(Tokens)
    BY DEF Init, Promised, CellsFor
  <1> QED BY <1>1, <1>2 DEF Init, CacheInv, ExactInv, WindowInv

\* The steps that leave the tokens and cells alone.
LEMMA ExactControl ==
  ASSUME Promised, CacheInv,
         \/ Launch \/ CancelTask \/ IdlePass \/ BusyPass \/ NoShift
         \/ NothingSampled \/ Sample \/ NoSample \/ UNCHANGED vars
  PROVE  ExactInv'
  <1> USE DEF CacheInv, ExactInv, WindowInv, slotVars, taskVars, cacheVars, passVars
  <1>1. CASE Launch
    BY <1>1 DEF Launch, Promised
  <1>2. CASE CancelTask
    BY <1>2 DEF CancelTask
  <1>3. CASE IdlePass
    <2>1. CellsFor(<<>>) = {}
      BY DEF CellsFor
    <2>2. CellsFor(cache_tokens) = kv'
      BY <1>3, <2>1 DEF IdlePass
    <2> QED BY <1>3, <2>2 DEF IdlePass
  <1>4. CASE BusyPass
    BY <1>4 DEF BusyPass
  <1>5. CASE NoShift
    BY <1>5 DEF NoShift
  <1>6. CASE NothingSampled
    BY <1>6 DEF NothingSampled
  <1>7. CASE Sample
    BY <1>7 DEF Sample
  <1>8. CASE NoSample
    BY <1>8 DEF NoSample
  <1>9. CASE UNCHANGED vars
    BY <1>9 DEF vars
  <1> QED BY <1>1, <1>2, <1>3, <1>4, <1>5, <1>6, <1>7, <1>8, <1>9

\* Half of the tokens and half of the cells are dropped: the same ones.
LEMMA ExactShift ==
  ASSUME Promised, CacheInv, ShiftContext
  PROVE  ExactInv'
  <1>1. pc = "shift" /\ Full /\ WindowInv /\ NSystem = 0
    BY DEF ShiftContext, CacheInv, Promised
  <1>2. /\ state = "PROCESSING" /\ command = "NONE" /\ n_past = NCtx - 1
        /\ FirstCells \in 0 .. NCtx - 3 /\ Discarded \in 1 .. NCtx - 1
        /\ FirstCells + Discarded < NCtx
    BY <1>1, NoRoomNeeded
  <1>3. /\ request.cache_prompt /\ n_past = Len(cache_tokens) /\ cache_tokens \in Seq(Tokens)
        /\ kv = CellsFor(cache_tokens) /\ ~clean_kv_cache
    BY <1>1, <1>2 DEF CacheInv, ExactInv, Promised
  <1>4. /\ kv' = ShiftedCells /\ cache_tokens' = ShiftedTokens
        /\ n_past' = n_past - Discarded /\ pc' = "sampled"
        /\ UNCHANGED <<state, command, request, prompt_tokens, clean_kv_cache>>
    BY <1>3 DEF ShiftContext, taskVars
  <1> DEFINE lo == FirstCells
             d == Discarded
             n == Len(cache_tokens)
             old == cache_tokens
             new == ShiftedTokens
  <1>5. /\ lo \in Nat /\ d \in Nat \ {0} /\ n \in Nat /\ lo + d <= n /\ n_past = n
        /\ n = NCtx - 1
    BY <1>2, <1>3, ContextAssumption
  <1>6. new = [i \in 1 .. n - d |-> IF i <= lo THEN old[i] ELSE old[i + d]]
    BY DEF ShiftedTokens
  <1>7. ShiftedCells = {IF c.pos >= lo + d /\ c.pos < n THEN [c EXCEPT !.pos = @ - d] ELSE c :
                          c \in {x \in kv : x.pos < lo \/ x.pos >= lo + d}}
    BY <1>1, <1>5, SystemAssumption DEF ShiftedCells
  <1>8. kv = CellsFor(old) /\ old \in Seq(Tokens) /\ \A i \in 1 .. n : old[i] \in Tokens
    BY <1>3
  <1> HIDE DEF lo, d, n, old, new
  <1>9. /\ new \in Seq(Tokens) /\ Len(new) = n - d
        /\ \A i \in 1 .. n - d : new[i] = IF i <= lo THEN old[i] ELSE old[i + d]
    <2>1. n - d \in Nat
      BY <1>5
    <2>2. \A i \in 1 .. n - d : i \in 1 .. n /\ (~(i <= lo) => i + d \in 1 .. n)
      BY <1>5
    <2>3. \A i \in 1 .. n - d : (IF i <= lo THEN old[i] ELSE old[i + d]) \in Tokens
      BY <1>8, <2>2
    <2> QED BY <1>6, <2>1, <2>3
  <1>10. \A c : c \in kv <=> \E i \in 1 .. n : c = Cell(i - 1, old[i])
    BY <1>8, CellsForOne DEF n, old
  <1>11. \A c : c \in CellsFor(new) <=> \E i \in 1 .. n - d : c = Cell(i - 1, new[i])
    BY <1>9, CellsForOne
  <1> DEFINE shifted(c) == IF c.pos >= lo + d /\ c.pos < n THEN [c EXCEPT !.pos = @ - d] ELSE c
  <1>12. \A i \in 1 .. n : /\ Cell(i - 1, old[i]).pos = i - 1
                           /\ i - 1 < lo => shifted(Cell(i - 1, old[i])) = Cell(i - 1, old[i])
                           /\ i - 1 >= lo + d =>
                                shifted(Cell(i - 1, old[i])) = Cell(i - d - 1, old[i])
    <2> SUFFICES ASSUME NEW i \in 1 .. n
                 PROVE  /\ Cell(i - 1, old[i]).pos = i - 1
                        /\ i - 1 < lo => shifted(Cell(i - 1, old[i])) = Cell(i - 1, old[i])
                        /\ i - 1 >= lo + d =>
                             shifted(Cell(i - 1, old[i])) = Cell(i - d - 1, old[i])
      OBVIOUS
    <2> DEFINE c == Cell(i - 1, old[i])
    <2>1. c.pos = i - 1 /\ c.tok = old[i] /\ c = [pos |-> c.pos, tok |-> c.tok]
      BY DEF Cell
    <2>2. i - 1 < lo => ~(i - 1 >= lo + d)
      BY <1>5
    <2>3. i - 1 < n /\ (i - 1) - d = i - d - 1
      BY <1>5
    <2>4. [c EXCEPT !.pos = @ - d] = Cell((i - 1) - d, old[i])
      BY DEF Cell
    <2> HIDE DEF c
    <2>5. i - 1 < lo => shifted(c) = c
      BY <2>1, <2>2
    <2>6. i - 1 >= lo + d => shifted(c) = Cell(i - d - 1, old[i])
      BY <2>1, <2>3, <2>4
    <2> QED BY <2>1, <2>5, <2>6 DEF c
  <1>13. ShiftedCells = {shifted(c) : c \in {x \in kv : x.pos < lo \/ x.pos >= lo + d}}
    BY <1>7
  <1> HIDE DEF shifted
  <1>14. ShiftedCells \subseteq CellsFor(new)
    <2> SUFFICES ASSUME NEW c \in kv, c.pos < lo \/ c.pos >= lo + d
                 PROVE  shifted(c) \in CellsFor(new)
      BY <1>13
    <2>1. PICK i \in 1 .. n : c = Cell(i - 1, old[i])
      BY <1>10
    <2>2. c.pos = i - 1
      BY <1>12, <2>1
    <2>3. CASE i - 1 < lo
      <3>1. i \in 1 .. n - d /\ i <= lo
        BY <1>5, <2>3
      <3>2. new[i] = old[i] /\ shifted(c) = Cell(i - 1, old[i])
        BY <1>9, <1>12, <2>1, <2>3, <3>1
      <3> QED BY <1>11, <3>1, <3>2
    <2>4. CASE i - 1 >= lo + d
      <3>1. PICK j \in 1 .. n - d : j = i - d /\ ~(j <= lo) /\ j + d = i /\ j - 1 = i - d - 1
        BY <1>5, <2>4
      <3>2. new[j] = old[i]
        BY <1>9, <3>1
      <3>3. shifted(c) = Cell(j - 1, new[j])
        BY <1>12, <2>1, <2>4, <3>1, <3>2
      <3> QED BY <1>11, <3>3
    <2> QED BY <2>2, <2>3, <2>4
  <1>15. CellsFor(new) \subseteq ShiftedCells
    <2> SUFFICES ASSUME NEW j \in 1 .. n - d
                 PROVE  Cell(j - 1, new[j]) \in ShiftedCells
      BY <1>11
    <2>1. CASE j <= lo
      <3>1. j \in 1 .. n /\ j - 1 < lo
        BY <1>5, <2>1
      <3>2. /\ Cell(j - 1, old[j]) \in kv /\ Cell(j - 1, old[j]).pos = j - 1
            /\ shifted(Cell(j - 1, old[j])) = Cell(j - 1, old[j])
        BY <1>10, <1>12, <3>1
      <3>3. new[j] = old[j]
        BY <1>9, <2>1
      <3> QED BY <1>13, <3>1, <3>2, <3>3
    <2>2. CASE ~(j <= lo)
      <3>1. PICK i \in 1 .. n : i = j + d /\ i - 1 >= lo + d /\ i - d - 1 = j - 1
        BY <1>5, <2>2
      <3>2. /\ Cell(i - 1, old[i]) \in kv /\ Cell(i - 1, old[i]).pos = i - 1
            /\ shifted(Cell(i - 1, old[i])) = Cell(j - 1, old[i])
        BY <1>10, <1>12, <3>1
      <3>3. new[j] = old[i]
        BY <1>9, <2>2, <3>1
      <3> QED BY <1>13, <3>1, <3>2, <3>3
    <2> QED BY <2>1, <2>2
  <1>16. CellsFor(cache_tokens') = kv' /\ Len(cache_tokens') = n_past' /\ cache_tokens' \in Seq(Tokens)
    BY <1>4, <1>5, <1>9, <1>14, <1>15 DEF new, d
  <1>17. request' \in Requests
    BY <1>2, <1>4 DEF CacheInv, ExactInv
  <1> QED BY <1>2, <1>3, <1>4, <1>16, <1>17 DEF ExactInv

\* What the slot takes for evaluated of its prompt is a prefix of cache_tokens.
LEMMA PastIsCached ==
  ASSUME Promised, CacheInv, pc = "prompt"
  PROVE  /\ request \in Requests /\ request.cache_prompt /\ state = "IDLE"
         /\ PromptNow \in Seq(Tokens) /\ PromptNow # <<>>
         /\ PastNow \in Nat /\ PastNow < Len(PromptNow)
         /\ PastNow <= Len(cache_tokens)
  <1>1. /\ command = "LOAD_PROMPT" /\ state = "IDLE" /\ request \in Requests
        /\ PromptNow \in Seq(Tokens) /\ Len(PromptNow) \in 1 .. NCtx - 1
        /\ PastNow \in 0 .. Len(PromptNow) - 1
    BY NowLemma DEF CacheInv
  <1>2. PromptNow # <<>>
    BY <1>1
  <1>3. cache_tokens \in Seq(Tokens)
    BY DEF CacheInv, ExactInv
  <1>4. PastNow <= Len(cache_tokens)
    <2>1. CASE prompt_tokens = <<>>
      BY <1>1, <1>2, <1>3, <2>1, ReusedPrefix DEF PastNow
    <2>2. CASE prompt_tokens # <<>>
      BY <1>1, <2>2 DEF PastNow, CacheInv, ExactInv
    <2> QED BY <2>1, <2>2
  <1>5. PastNow \in Nat /\ PastNow < Len(PromptNow)
    BY <1>1
  <1> QED BY <1>1, <1>2, <1>4, <1>5 DEF Promised

LEMMA ExactPostpone ==
  ASSUME Promised, CacheInv, PostponePrompt
  PROVE  ExactInv'
  <1> USE DEF CacheInv, ExactInv
  <1>1. /\ pc = "prompt" /\ pc' = "decode"
        /\ UNCHANGED <<state, command, request, cache_tokens, kv, batch, clean_kv_cache>>
    BY DEF PostponePrompt, cacheVars, passVars
  <1>2. /\ state = "IDLE" /\ PastNow <= Len(cache_tokens) /\ ~clean_kv_cache
    BY <1>1, PastIsCached
  <1>3. prompt_tokens' # <<>> /\ command' = "LOAD_PROMPT" => n_past' <= Len(cache_tokens)
    <2>1. CASE UNCHANGED <<prompt_tokens, n_past>>
      BY <1>1, <2>1
    <2>2. CASE n_past' = PastNow
      BY <1>2, <2>2
    <2> QED BY <2>1, <2>2 DEF PostponePrompt
  <1>4. kv' \cup batch' = CellsFor(cache_tokens')
    BY <1>1
  <1> QED BY <1>1, <1>2, <1>3, <1>4

\* resize keeps a prefix when there is enough.
LEMMA ResizedPrefix ==
  ASSUME NEW s \in Seq(Tokens), NEW n \in Nat, n <= Len(s)
  PROVE  /\ Resized(s, n) \in Seq(Tokens) /\ Len(Resized(s, n)) = n
         /\ \A i \in 1 .. n : Resized(s, n)[i] = s[i]
  <1>1. \A i \in 1 .. n : i <= Len(s) /\ s[i] \in Tokens
    OBVIOUS
  <1>2. Resized(s, n) = [i \in 1 .. n |-> s[i]]
    BY <1>1 DEF Resized
  <1> QED BY <1>1, <1>2

\* What a context keeps in front of position n, and what a puts there.
FirstOf(s, n)   == {c \in CellsFor(s) : c.pos < n}
CellsFrom(n, a) == {Cell(n + i - 1, a[i]) : i \in 1 .. Len(a)}

\* The cells of a context cut to its first n tokens and extended by m others.
LEMMA ExtendedCells ==
  ASSUME NEW s \in Seq(Tokens), NEW n \in Nat, n <= Len(s),
         NEW a \in Seq(Tokens)
  PROVE  /\ Resized(s, n) \o a \in Seq(Tokens)
         /\ Len(Resized(s, n) \o a) = n + Len(a)
         /\ CellsFor(Resized(s, n) \o a) = FirstOf(s, n) \cup CellsFrom(n, a)
  <1> DEFINE r == Resized(s, n)
             t == r \o a
             m == Len(a)
             old == FirstOf(s, n)
             new == CellsFrom(n, a)
  <1>1. /\ r \in Seq(Tokens) /\ Len(r) = n /\ \A i \in 1 .. n : r[i] = s[i]
    BY ResizedPrefix
  <1> HIDE DEF r
  <1>2. /\ t \in Seq(Tokens) /\ Len(t) = n + m /\ m \in Nat /\ Len(s) \in Nat
        /\ \A i \in 1 .. n : t[i] = s[i]
        /\ \A i \in 1 .. m : t[n + i] = a[i]
    <2>1. t \in Seq(Tokens) /\ Len(t) = Len(r) + m /\ m \in Nat /\ Len(s) \in Nat
      BY <1>1
    <2>2. \A i \in 1 .. n : t[i] = s[i]
      BY <1>1, <2>1
    <2>3. \A i \in 1 .. m : t[n + i] = a[i]
      BY <1>1, <2>1
    <2> QED BY <1>1, <2>1, <2>2, <2>3
  <1>3. new = {Cell(n + i - 1, a[i]) : i \in 1 .. m}
    BY DEF CellsFrom
  <1>4. old = {c \in CellsFor(s) : c.pos < n}
    BY DEF FirstOf
  <1> HIDE DEF t, m, old, new
  <1>5. \A c : c \in CellsFor(t) <=> \E i \in 1 .. n + m : c = Cell(i - 1, t[i])
    <2>1. \A c : c \in CellsFor(t) <=> \E i \in 1 .. Len(t) : c = Cell(i - 1, t[i])
      BY <1>2, CellsForOne
    <2> QED BY <1>2, <2>1
  <1>6. \A c : c \in CellsFor(s) <=> \E i \in 1 .. Len(s) : c = Cell(i - 1, s[i])
    BY CellsForOne
  <1>7. CellsFor(t) \subseteq old \cup new
    <2> SUFFICES ASSUME NEW i \in 1 .. n + m
                 PROVE  Cell(i - 1, t[i]) \in old \cup new
      BY <1>5
    <2>1. CASE i <= n
      <3>1. i \in 1 .. n /\ i \in 1 .. Len(s) /\ i - 1 < n
        BY <1>2, <2>1
      <3>2. Cell(i - 1, s[i]) \in CellsFor(s) /\ t[i] = s[i]
        BY <1>2, <1>6, <3>1
      <3>3. Cell(i - 1, s[i]).pos < n
        BY <3>1 DEF Cell
      <3> QED BY <1>4, <3>2, <3>3
    <2>2. CASE ~(i <= n)
      <3>1. PICK j \in 1 .. m : j = i - n /\ n + j = i /\ n + j - 1 = i - 1
        BY <1>2, <2>2
      <3>2. t[i] = a[j]
        BY <1>2, <3>1
      <3> QED BY <1>3, <3>1, <3>2
    <2> QED BY <2>1, <2>2
  <1>8. old \subseteq CellsFor(t)
    <2> SUFFICES ASSUME NEW c \in CellsFor(s), c.pos < n
                 PROVE  c \in CellsFor(t)
      BY <1>4
    <2>1. PICK i \in 1 .. Len(s) : c = Cell(i - 1, s[i])
      BY <1>6
    <2>2. c.pos = i - 1
      BY <2>1 DEF Cell
    <2>3. i \in 1 .. n /\ i \in 1 .. n + m
      BY <1>2, <2>2
    <2> QED BY <1>2, <1>5, <2>1, <2>3
  <1>9. new \subseteq CellsFor(t)
    <2> SUFFICES ASSUME NEW j \in 1 .. m
                 PROVE  Cell(n + j - 1, a[j]) \in CellsFor(t)
      BY <1>3
    <2>1. PICK i \in 1 .. n + m : i = n + j /\ i - 1 = n + j - 1
      BY <1>2
    <2>2. t[i] = a[j]
      BY <1>2, <2>1
    <2> QED BY <1>5, <2>1, <2>2
  <1>10. CellsFor(t) = old \cup new
    BY <1>7, <1>8, <1>9
  <1>11. /\ r \o a \in Seq(Tokens) /\ Len(r \o a) = n + Len(a)
         /\ CellsFor(r \o a) = old \cup new
    BY <1>2, <1>10 DEF t, m
  <1> QED BY <1>11 DEF r, old, new, m

\* The part of the prompt that goes into the batch extends what was kept.
LEMMA ExactLoad ==
  ASSUME Promised, CacheInv, LoadPrompt
  PROVE  ExactInv'
  <1>1. /\ pc = "prompt" /\ pc' = "decode" /\ NSystem = 0
        /\ UNCHANGED <<request, clean_kv_cache>>
    BY DEF LoadPrompt, Promised
  <1>2. PICK p \in Seq(Tokens), past \in Nat :
          /\ p = PromptNow /\ past = PastNow
          /\ past < Len(p) /\ past <= Len(cache_tokens)
    BY <1>1, PastIsCached
  <1>3. /\ request \in Requests /\ request.cache_prompt /\ state = "IDLE"
        /\ kv = CellsFor(cache_tokens) /\ cache_tokens \in Seq(Tokens) /\ ~clean_kv_cache
    BY <1>1, PastIsCached DEF CacheInv, ExactInv
  <1>4. PICK m \in 0 .. NBatch :
          LET added == SubSeq(p, past + 1, past + m)
              done  == past + m = Len(p)
          IN  /\ past + m <= Len(p)
              /\ batch' = {Cell(NSystem + past + i - 1, added[i]) : i \in 1 .. m}
              /\ kv' = Kept(past)
              /\ cache_tokens' = Resized(cache_tokens, past) \o added
              /\ n_past' = past + m
              /\ prompt_tokens' = p
              /\ state'   = IF done THEN "PROCESSING" ELSE state
    BY <1>2, <1>3 DEF LoadPrompt
  <1> DEFINE added == SubSeq(p, past + 1, past + m)
  <1>5. m \in Nat /\ added \in Seq(Tokens) /\ Len(added) = m
    <2>1. m \in Nat /\ past + m <= Len(p)
      BY <1>4, BatchAssumption
    <2> QED BY <1>2, <2>1
  <1>6. /\ batch' = {Cell(NSystem + past + i - 1, added[i]) : i \in 1 .. m}
        /\ kv' = Kept(past) /\ cache_tokens' = Resized(cache_tokens, past) \o added
        /\ n_past' = past + m
    BY <1>4
  <1> HIDE DEF added
  <1>7. /\ cache_tokens' \in Seq(Tokens) /\ Len(cache_tokens') = past + m
        /\ CellsFor(cache_tokens') = FirstOf(cache_tokens, past) \cup CellsFrom(past, added)
    <2> DEFINE s == cache_tokens
               t == Resized(s, past) \o added
    <2>1. s \in Seq(Tokens) /\ past <= Len(s)
      BY <1>2, <1>3
    <2>2. cache_tokens' = t
      BY <1>6
    <2> HIDE DEF s
    <2>3. CellsFor(t) = FirstOf(s, past) \cup CellsFrom(past, added)
      BY <1>5, <2>1, ExtendedCells
    <2>4. t \in Seq(Tokens) /\ Len(t) = past + m
      BY <1>5, <2>1, ExtendedCells
    <2> HIDE DEF t
    <2> QED BY <2>2, <2>3, <2>4 DEF s
  <1>8. CellsFor(cache_tokens') = kv' \cup batch'
    <2>1. \A i \in 1 .. m : NSystem + past + i - 1 = past + i - 1
      BY <1>1, <1>2
    <2>2. batch' = {Cell(past + i - 1, added[i]) : i \in 1 .. m}
      BY <1>6, <2>1
    <2>3. kv' = {c \in kv : c.pos < past}
      BY <1>1, <1>2, <1>6 DEF Kept
    <2>4. kv' = FirstOf(cache_tokens, past) /\ batch' = CellsFrom(past, added)
      BY <1>3, <1>5, <2>2, <2>3 DEF FirstOf, CellsFrom
    <2> QED BY <1>7, <2>4
  <1>9. request' \in Requests /\ ~clean_kv_cache'
    BY <1>1, <1>3
  <1>10. n_past' = Len(cache_tokens') /\ n_past' <= Len(cache_tokens')
    BY <1>2, <1>5, <1>6, <1>7
  <1> QED BY <1>1, <1>7, <1>8, <1>9, <1>10 DEF ExactInv

\* The sampled token takes the place behind the context, in all three.
LEMMA ExactSampled ==
  ASSUME Promised, CacheInv, AddSampled
  PROVE  ExactInv'
  <1>1. /\ pc = "sampled" /\ state # "IDLE" /\ pc' = "decode" /\ NSystem = 0
        /\ batch' = {Cell(NSystem + n_past, sampled)} /\ n_past' = n_past + 1
        /\ UNCHANGED <<state, command, request, prompt_tokens, kv, clean_kv_cache>>
    BY DEF AddSampled, Promised, taskVars
  <1>2. state = "PROCESSING" /\ sampled \in Tokens /\ command # "LOAD_PROMPT"
    BY <1>1 DEF CacheInv, WindowInv, WindowType, LoadingInv
  <1>3. /\ request \in Requests /\ n_past = Len(cache_tokens) /\ ~clean_kv_cache
        /\ cache_tokens \in Seq(Tokens) /\ kv = CellsFor(cache_tokens)
    BY <1>1, <1>2 DEF CacheInv, ExactInv
  <1>4. cache_tokens' = Append(cache_tokens, sampled)
    BY <1>3 DEF AddSampled, Promised
  <1> DEFINE s == cache_tokens
             n == Len(s)
             t == Append(s, sampled)
  <1>5. /\ s \in Seq(Tokens) /\ n \in Nat /\ t \in Seq(Tokens) /\ Len(t) = n + 1
        /\ t[n + 1] = sampled /\ \A i \in 1 .. n : t[i] = s[i]
    BY <1>2, <1>3
  <1>6. batch' = {Cell(n, sampled)} /\ n_past' = n + 1
    BY <1>1, <1>3, <1>5
  <1>7. kv = CellsFor(s) /\ cache_tokens' = t
    BY <1>3, <1>4
  <1> HIDE DEF s, n, t
  <1>8. \A c : c \in CellsFor(t) <=> \E i \in 1 .. n + 1 : c = Cell(i - 1, t[i])
    <2>1. \A c : c \in CellsFor(t) <=> \E i \in 1 .. Len(t) : c = Cell(i - 1, t[i])
      BY <1>5, CellsForOne
    <2> QED BY <1>5, <2>1
  <1>9. \A c : c \in CellsFor(s) <=> \E i \in 1 .. n : c = Cell(i - 1, s[i])
    BY <1>5, CellsForOne DEF n
  <1>10. CellsFor(t) = CellsFor(s) \cup {Cell(n, sampled)}
    <2>1. n + 1 \in 1 .. n + 1 /\ (n + 1) - 1 = n
      BY <1>5
    <2>2. Cell(n, sampled) \in CellsFor(t)
      BY <1>5, <1>8, <2>1
    <2>3. \A i \in 1 .. n + 1 : i \in 1 .. n \/ (i = n + 1 /\ i - 1 = n)
      BY <1>5
    <2>4. \A i \in 1 .. n : i \in 1 .. n + 1
      BY <1>5
    <2>5. CellsFor(s) \subseteq CellsFor(t)
      <3>1. \A i \in 1 .. n : Cell(i - 1, s[i]) = Cell(i - 1, t[i])
        BY <1>5
      <3> QED BY <1>8, <1>9, <2>4, <3>1
    <2>6. \A i \in 1 .. n + 1 : Cell(i - 1, t[i]) \in CellsFor(s) \cup {Cell(n, sampled)}
      BY <1>5, <1>9, <2>3
    <2> QED BY <1>8, <2>2, <2>5, <2>6
  <1>11. CellsFor(cache_tokens') = kv' \cup batch'
    BY <1>1, <1>6, <1>7, <1>10
  <1> QED BY <1>1, <1>2, <1>3, <1>5, <1>6, <1>7, <1>11 DEF ExactInv

LEMMA ExactDecode ==
  ASSUME Promised, CacheInv, Decode \/ FailDecode
  PROVE  ExactInv'
  <1>1. Decode
    BY DEF FailDecode, Promised
  <1> QED BY <1>1 DEF Decode, CacheInv, ExactInv, slotVars, taskVars, passVars

LEMMA ExactNext ==
  ASSUME Promised
  PROVE  CacheInv /\ [Next]_vars => CacheInv'
  <1> SUFFICES ASSUME CacheInv, [Next]_vars
               PROVE  WindowInv' /\ ExactInv'
    BY DEF CacheInv
  <1>1. WindowInv'
    BY WindowNext DEF CacheInv, Promised
  <1>2. ExactInv'
    BY ExactControl, ExactShift, ExactPostpone, ExactLoad, ExactSampled, ExactDecode
    DEF Next
  <1> QED BY <1>1, <1>2

\* Between the passes the sequence of the KV cache holds every token that
\* cache_tokens lists, at its position: what a prefix reuse, a truncation, a
\* context shift and a sampled token do to one they do to the other.
THEOREM CacheStaysCoherent ==
  ASSUME Promised
  PROVE  Spec => []CacheCoherent
  <1>1. CacheInv => CacheCoherent
    <2> SUFFICES ASSUME CacheInv, pc = "tasks", NEW i \in DOMAIN cache_tokens
                 PROVE  Cell(NSystem + i - 1, cache_tokens[i]) \in kv
      BY DEF CacheCoherent
    <2>1. kv = CellsFor(cache_tokens) /\ cache_tokens \in Seq(Tokens) /\ NSystem = 0
      BY DEF CacheInv, ExactInv, Promised
    <2>2. NSystem + i - 1 = i - 1
      BY <2>1
    <2> QED BY <2>1, <2>2 DEF CellsFor
  <1> QED BY <1>1, ExactInit, ExactNext, PTL DEF Spec

\* A token is sampled from a context with one cell at every position up to
\* n_past and none above, also after a shift and behind a reused prefix.
THEOREM ContextWithoutGaps ==
  ASSUME Promised
  PROVE  Spec => []GaplessContext
  <1>1. CacheInv => GaplessContext
    <2> SUFFICES ASSUME CacheInv, pc = "sample", state = "PROCESSING"
                 PROVE  /\ {c.pos : c \in kv} = 0 .. NSystem + n_past - 1
                        /\ Cardinality(kv) = NSystem + n_past
      BY DEF GaplessContext
    <2>1. /\ kv = CellsFor(cache_tokens) /\ cache_tokens \in Seq(Tokens)
          /\ n_past = Len(cache_tokens) /\ NSystem = 0
      BY DEF CacheInv, ExactInv, Promised
    <2>2. PICK n \in Nat : n = Len(cache_tokens) /\ n = NSystem + n_past
      BY <2>1
    <2>3. {c.pos : c \in kv} = 0 .. n - 1 /\ Cardinality(kv) = n
      BY <2>1, <2>2, CellsForOne
    <2> DEFINE P == {c.pos : c \in kv}
    <2>4. P = 0 .. n - 1
      BY <2>3
    <2> HIDE DEF P
    <2>5. P = 0 .. NSystem + n_past - 1
      <3>1. n_past \in Nat /\ NSystem \in Nat
        BY <2>1
      <3> QED BY <2>2, <2>4, <3>1
    <2> QED BY <2>2, <2>3, <2>5 DEF P
  <1> QED BY <1>1, ExactInit, ExactNext, PTL DEF Spec

\* The tokens of a new prompt that update_slots does not evaluate again are in
\* the KV cache, at their positions.
THEOREM ReuseIsSound ==
  ASSUME Promised
  PROVE  Spec => ReusedWereComputed
  <1>1. CacheInv /\ [Next]_vars =>
          [LoadPrompt /\ prompt_tokens = <<>> =>
             \A i \in 1 .. PastNow : Cell(NSystem + i - 1, PromptNow[i]) \in kv]_vars
    <2> SUFFICES ASSUME CacheInv, LoadPrompt, prompt_tokens = <<>>,
                        NEW i \in 1 .. PastNow
                 PROVE  Cell(NSystem + i - 1, PromptNow[i]) \in kv
      OBVIOUS
    <2>1. /\ kv = CellsFor(cache_tokens) /\ cache_tokens \in Seq(Tokens)
          /\ pc = "prompt" /\ NSystem = 0
      BY DEF LoadPrompt, CacheInv, ExactInv, Promised
    <2>2. /\ PromptNow \in Seq(Tokens) /\ PromptNow # <<>>
          /\ PastNow \in Nat /\ PastNow <= Len(cache_tokens)
      BY <2>1, PastIsCached
    <2>3. cache_tokens[i] = PromptNow[i]
      <3>1. PastNow = Reused(PromptNow)
        BY DEF PastNow
      <3> QED BY <2>1, <2>2, <3>1, ReusedPrefix
    <2>4. i \in DOMAIN cache_tokens /\ NSystem + i - 1 = i - 1
      BY <2>1, <2>2
    <2> QED BY <2>1, <2>3, <2>4 DEF CellsFor
  <1> QED BY <1>1, ExactInit, ExactNext, PTL DEF Spec, ReusedWereComputed

=============================================================================
