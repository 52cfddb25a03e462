------------------------------ MODULE Dispatch ------------------------------
(***************************************************************************)
(* How a COMPLETION task finds its slot and what the slot takes from it:   *)
(* process_single_task with get_slot_by_id and get_available_slot (by the  *)
(* similarity of prompts, else the least recently used one), deferral, and *)
(* launch_slot_with_task, which overwrites the parameters of the slot's    *)
(* last task one after the other and may give up half way.                 *)
(*                                                                         *)
(* All of it runs on the loop thread; Java threads only post.  A JSON      *)
(* field is the set of its values: {} when it is absent, null or of a type *)
(* json_value replaces by the default.  The scalar parameters that nothing *)
(* but sampling reads are one field, `scalar`.                             *)
(***************************************************************************)
EXTENDS Integers, SequencesExt

CONSTANTS
  Requests,       \* the JSON objects tasks may carry, see RequestType
  NSlots,         \* params.n_parallel
  Similarity,     \* slot_prompt_similarity, in percent
  Cap,            \* slot.n_predict, the server's own limit; -1: none
  GroupAttention, \* is ga_n # 1?
  NVocab,         \* llama_n_vocab(model)
  Eos,            \* llama_token_eos(model)
  ClockStep,      \* least advance of ggml_time_us from a release to a task
  MaxTasks        \* bound: tasks posted

Slots == 0 .. NSlots - 1
Vocabulary == 0 .. NVocab - 1

Optional(S) == {F \in SUBSET S : \A v, w \in F : v = w}    \* at most one value
\* An element of the array logit_bias: the tokens a number or a text stands for.
BiasType == [tokens : SUBSET Int, bias : {"number", "false", "other"}]
PromptType == [form : {"string", "array", "invalid"}, text : Seq({"a", "b"})]
\* An element of the array stop: a word, also the empty one, or an empty JSON value
\* (null, [] or {}).
EmptyJson == "null"
StopType  == {"", "END", EmptyJson}
RequestType ==
  [id_slot : Optional(Int), infill : BOOLEAN, prompt : Optional(PromptType),
   scalar : Optional({"asked"}), cache_prompt : Optional(BOOLEAN),
   n_predict : Optional(Int), max_tokens : Optional(Int), n_keep : Optional(Int),
   infix : Optional({"asked"}), penalty : Optional(SUBSET Int),
   ignore_eos : Optional(BOOLEAN), logit_bias : Seq(BiasType),
   stop : SUBSET StopType, samplers : Optional({"asked"}),
   grammar : Optional({"good", "broken"})]

ASSUME RequestsAssumption   == Requests \subseteq RequestType
ASSUME SlotsAssumption      == NSlots \in Nat \ {0}
ASSUME SimilarityAssumption == Similarity \in 0 .. 100
ASSUME CapAssumption        == Cap \in Int /\ GroupAttention \in BOOLEAN
ASSUME VocabularyAssumption == NVocab \in Nat \ {0} /\ Eos \in Vocabulary
ASSUME ClockAssumption      == ClockStep \in {0, 1}
ASSUME BoundAssumption      == MaxTasks \in Nat

VARIABLES
  queue_tasks, queue_tasks_deferred,  \* [id, request] records
  n_posted,                           \* ids given out
  pc,                                 \* pop: between tasks, or update_slots
  slots,                              \* see FreshSlot
  now                                 \* ggml_time_us, as far as it matters

vars == <<queue_tasks, queue_tasks_deferred, n_posted, pc, slots, now>>

NoPrompt == [form |-> "invalid", text |-> <<>>]     \* json null, at first
NoBias   == [t \in Vocabulary |-> "none"]
DefaultParams == [scalar |-> "default", cache_prompt |-> FALSE, n_predict |-> -1,
                  n_keep |-> 0, infix |-> "default", grammar |-> "none",
                  penalty |-> {}, penalize |-> FALSE, bias |-> NoBias,
                  antiprompt |-> {}, samplers |-> "default"]
FreshSlot == [busy |-> FALSE, task |-> {}, prompt |-> NoPrompt, t_last_used |-> -1,
              params |-> DefaultParams, ctx_sampling |-> FALSE]

Init ==
  /\ queue_tasks = <<>> /\ queue_tasks_deferred = <<>> /\ n_posted = 0
  /\ pc = "pop"
  /\ slots = [k \in Slots |-> FreshSlot]
  /\ now = 0

json_value(field, default) == IF field = {} THEN default ELSE CHOOSE v \in field : TRUE

-----------------------------------------------------------------------------
(***************************************************************************)
(* The choice of a slot.                                                   *)
(***************************************************************************)
Available(k) == ~slots[k].busy
FirstOf(S) == CHOOSE k \in S : \A j \in S : k <= j

\* common_part of two strings.
CommonPart(a, b) ==
  CHOOSE n \in 0 .. Len(a) :
    /\ n <= Len(b) /\ \A i \in 1 .. n : a[i] = b[i]
    /\ n < Len(a) /\ n < Len(b) => a[n + 1] # b[n + 1]

\* Free slots whose prompt shares more than the asked part of itself with p.
Similar(p) ==
  {k \in Slots :
     /\ Available(k) /\ slots[k].prompt.form = "string"
     /\ LET old == slots[k].prompt.text
            lcp == CommonPart(old, p)
        IN  lcp > 0 /\ 100 * lcp > Similarity * Len(old)}

FirstSimilar(p) == FirstOf(Similar(p))      \* mutant: the maximum is not kept
MostSimilar(p) ==
  FirstOf({k \in Similar(p) : \A j \in Similar(p) :
             CommonPart(slots[j].prompt.text, p) <= CommonPart(slots[k].prompt.text, p)})

\* Strictly older than now, and than the slots before it.
UnusedYet(t) == {k \in Slots : Available(k) /\ slots[k].t_last_used < t - 1}  \* mutant
UsedBefore(t) == {k \in Slots : Available(k) /\ slots[k].t_last_used < t}
LeastRecentlyUsed(t) ==
  FirstOf({k \in UsedBefore(t) : \A j \in UsedBefore(t) :
             slots[k].t_last_used <= slots[j].t_last_used})

\* The slots get_available_slot may return at time t: one, or none.
get_available_slot(p, t) ==
  IF Similarity # 0 /\ p # <<>> /\ Similar(p) # {} THEN {MostSimilar(p)}
  ELSE IF UsedBefore(t) # {} THEN {LeastRecentlyUsed(t)} ELSE {}

get_slot_by_id(id) == {k \in Slots : k = id}

\* Only a prompt that is a string is compared.
PromptText(r) == IF r.prompt # {} /\ json_value(r.prompt, NoPrompt).form = "string"
                 THEN json_value(r.prompt, NoPrompt).text ELSE <<>>

ChosenSlots(r, t) ==
  IF json_value(r.id_slot, -1) # -1
  THEN {k \in get_slot_by_id(json_value(r.id_slot, -1)) : Available(k)}
  ELSE get_available_slot(PromptText(r), t)

-----------------------------------------------------------------------------
(***************************************************************************)
(* launch_slot_with_task.                                                  *)
(***************************************************************************)
Capped(n) == IF Cap > 0 /\ n > Cap THEN Cap ELSE n

\* Up to the prompt: the scalars.  n_keep defaults to the slot's last one.
WithScalars(p, r) ==
  [p EXCEPT !.scalar = json_value(r.scalar, "default"),
            !.cache_prompt = json_value(r.cache_prompt, FALSE) /\ ~GroupAttention,
            !.n_predict = Capped(json_value(r.n_predict, json_value(r.max_tokens, -1))),
            !.n_keep = json_value(r.n_keep, p.n_keep),
            !.grammar = json_value(r.grammar, "none"),
            !.infix = json_value(r.infix, "default")]

PromptRefused(r) ==
  ~r.infill /\ (r.prompt = {} \/ json_value(r.prompt, NoPrompt).form = "invalid")

WithPrompt(s, r) == IF r.infill THEN s.prompt ELSE json_value(r.prompt, NoPrompt)

\* Entries of logit_bias in the order of the array; later ones win.
ApplyBias(bias, e) ==
  [t \in Vocabulary |-> IF t \in e.tokens /\ e.bias # "other"
                        THEN IF e.bias = "number" THEN "value" ELSE "-inf"
                        ELSE bias[t]]

BiasKept(p, r) == FoldLeft(ApplyBias, p.bias, r.logit_bias)  \* mutant: not cleared
BiasOf(p, r) ==
  FoldLeft(ApplyBias,
           [t \in Vocabulary |-> IF t = Eos /\ json_value(r.ignore_eos, FALSE)
                                 THEN "-inf" ELSE "none"],
           r.logit_bias)

UpToVocabulary(S) == S \cap 0 .. NVocab      \* mutant: off by one
InVocabulary(S)   == S \cap Vocabulary

\* word.empty() asks for an empty JSON value, which the text "" is not.
StopWords(r) == r.stop \ {EmptyJson}

\* After the prompt: the lists, each cleared and filled again.
WithLists(p, r) ==
  [p EXCEPT !.penalty = InVocabulary(json_value(r.penalty, {})),
            !.penalize = (r.penalty # {}),
            !.bias = BiasOf(p, r),
            !.antiprompt = StopWords(r),
            !.samplers = json_value(r.samplers, "default")]

\* The slot after its launch, and whether the task is on it.
Launched(s, task) ==
  LET r == task.request
      scalars == [s EXCEPT !.task = {task}, !.params = WithScalars(@, r)]
      lists   == [scalars EXCEPT !.prompt = WithPrompt(s, r),
                                 !.params = WithLists(@, r)]
      broken  == json_value(r.grammar, "none") = "broken"
  IN  IF PromptRefused(r) THEN scalars
      ELSE [lists EXCEPT !.ctx_sampling = ~broken, !.busy = ~broken]

-----------------------------------------------------------------------------
Post ==
  /\ n_posted < MaxTasks
  /\ \E r \in Requests :
       queue_tasks' = Append(queue_tasks, [id |-> n_posted, request |-> r])
  /\ n_posted' = n_posted + 1
  /\ UNCHANGED <<queue_tasks_deferred, pc, slots, now>>

Pop == pc = "pop" /\ queue_tasks # <<>>

\* The time of the choice: at least ClockStep after the last release.
Times == {now + ClockStep, now + 1}

Launch ==
  /\ Pop
  /\ \E t \in Times : \E k \in ChosenSlots(Head(queue_tasks).request, t) :
       /\ slots' = [slots EXCEPT ![k] = Launched(@, Head(queue_tasks))]
       /\ now' = t
  /\ queue_tasks' = Tail(queue_tasks)
  /\ UNCHANGED <<queue_tasks_deferred, n_posted, pc>>

Defer ==
  /\ Pop
  /\ \E t \in Times :
       ChosenSlots(Head(queue_tasks).request, t) = {} /\ now' = t
  /\ queue_tasks_deferred' = Append(queue_tasks_deferred, Head(queue_tasks))
  /\ queue_tasks' = Tail(queue_tasks)
  /\ UNCHANGED <<n_posted, pc, slots>>

BeginUpdate ==
  /\ pc = "pop" /\ queue_tasks = <<>>
  /\ pc' = "update"
  /\ UNCHANGED <<queue_tasks, queue_tasks_deferred, n_posted, slots, now>>

\* update_slots releases the slots that are done and notes the time; meanwhile
\* tasks may have come.  Each release brings the deferred tasks back.
ReleaseSlots ==
  /\ pc = "update"
  /\ \E done \in SUBSET {k \in Slots : slots[k].busy} :
       /\ slots' = [k \in Slots |-> IF k \in done
                      THEN [slots[k] EXCEPT !.busy = FALSE, !.t_last_used = now]
                      ELSE slots[k]]
       /\ queue_tasks' = IF done = {} THEN queue_tasks
                         ELSE queue_tasks \o queue_tasks_deferred
       /\ queue_tasks_deferred' = IF done = {} THEN queue_tasks_deferred ELSE <<>>
  /\ pc' = "pop"
  /\ UNCHANGED <<n_posted, now>>

Next == Post \/ Launch \/ Defer \/ BeginUpdate \/ ReleaseSlots

Spec == Init /\ [][Next]_vars

-----------------------------------------------------------------------------
\* The type invariant.
TypeOK ==
  /\ n_posted \in 0 .. MaxTasks /\ now \in Nat /\ pc \in {"pop", "update"}
  /\ \A q \in {queue_tasks, queue_tasks_deferred} : \A i \in DOMAIN q :
       q[i].id \in 0 .. n_posted - 1 /\ q[i].request \in Requests
  /\ \A k \in Slots :
       /\ slots[k].busy \in BOOLEAN /\ slots[k].t_last_used \in -1 .. now
       /\ slots[k].params.bias \in [Vocabulary -> {"none", "value", "-inf"}]
       /\ slots[k].params.penalty \subseteq Vocabulary

\* What the request of a task asks for, said without the slot: the last entry of
\* logit_bias that is well formed and names a token decides on it.
AskedBias(r, t) ==
  LET naming == {i \in DOMAIN r.logit_bias :
                   t \in r.logit_bias[i].tokens /\ r.logit_bias[i].bias # "other"}
  IN  IF naming # {}
      THEN LET last == CHOOSE i \in naming : \A j \in naming : j <= i
           IN  IF r.logit_bias[last].bias = "false" THEN "-inf" ELSE "value"
      ELSE IF r.ignore_eos = {TRUE} /\ t = Eos THEN "-inf" ELSE "none"

\* The tokens to predict: n_predict, without it max_tokens, without both -1, and
\* never more than the server allows.
PredictsAsAsked(n, r) ==
  \A asked \in IF r.n_predict # {} THEN r.n_predict
              ELSE IF r.max_tokens # {} THEN r.max_tokens ELSE {-1} :
     n = IF Cap > 0 /\ asked > Cap THEN Cap ELSE asked

\* A slot that works on a task has the parameters the task asks for and the
\* defaults for the others: nothing of the tasks before, those included whose
\* launch was given up half way with a part of their parameters in the slot.
\* It predicts no more than the server allows, reuses a prompt when that is asked
\* and there is no group attention, penalizes the asked tokens that exist, and
\* stops at every word of `stop`, the empty one too.  A task whose grammar does
\* not parse is never at work.  (n_keep is left out: line 995 takes the slot's last
\* value as its default.)
LaunchedAsAsked ==
  \A k \in Slots : slots[k].busy =>
     LET r == (CHOOSE task \in slots[k].task : TRUE).request
         p == slots[k].params
     IN  /\ p.scalar = (IF r.scalar = {} THEN "default" ELSE "asked")
         /\ p.infix  = (IF r.infix = {} THEN "default" ELSE "asked")
         /\ p.samplers = (IF r.samplers = {} THEN "default" ELSE "asked")
         /\ p.grammar = (IF r.grammar = {} THEN "none" ELSE "good")
         /\ p.cache_prompt <=> (r.cache_prompt = {TRUE} /\ ~GroupAttention)
         /\ PredictsAsAsked(p.n_predict, r)
         /\ p.antiprompt = {w \in r.stop : w # EmptyJson}
         /\ \A t \in Vocabulary : p.bias[t] = AskedBias(r, t)
         /\ p.penalize <=> r.penalty # {}
         /\ p.penalty = {t \in Vocabulary : \E asked \in r.penalty : t \in asked}
         /\ ~r.infill => {slots[k].prompt} = r.prompt
         /\ slots[k].ctx_sampling

Asks(i, id) == queue_tasks_deferred[i].request.id_slot = {id}

\* A task is deferred only behind a busy slot that it could take: its own, when
\* it names one, else any, and then there is none free.  That slot's release
\* brings it back; without one it would wait for ever.  It holds while the
\* clock advances between the release of a slot and the choice of the next
\* (ClockStep = 1), since a slot must be older than the present microsecond;
\* and not for a task that names a slot that does not exist.
DeferredBehindBusy ==
  \A i \in DOMAIN queue_tasks_deferred :
     LET id == json_value(queue_tasks_deferred[i].request.id_slot, -1) IN
     IF id = -1 THEN \A k \in Slots : slots[k].busy
     ELSE id \in Slots => slots[id].busy

\* No prompt is evaluated again for want of a better choice: a task that names no
\* slot goes to the free slot that shares the longest prefix with it, among
\* those that share more than the asked part of their own prompt, and when there
\* is none, or prompts are not compared (Similarity = 0), to the slot whose cache
\* was not used for the longest time.
BestSlotTaken ==
  [][\A k \in Slots : slots'[k].task # slots[k].task =>
       LET r == (CHOOSE task \in slots'[k].task : TRUE).request
           old(j) == slots[j].prompt.text
           shared(j) == IF slots[j].prompt.form # "string" THEN 0
                        ELSE CommonPart(old(j), PromptText(r))
           enough(j) == /\ Similarity # 0 /\ shared(j) > 0
                        /\ 100 * shared(j) > Similarity * Len(old(j))
       IN  r.id_slot # {} \/ \A j \in Slots : Available(j) =>
             IF enough(k) THEN enough(j) => shared(j) <= shared(k)
             ELSE ~enough(j) /\ slots[k].t_last_used <= slots[j].t_last_used
       ]_vars

=============================================================================
