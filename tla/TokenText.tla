----------------------------- MODULE TokenText -----------------------------
(***************************************************************************)
(* From sampled tokens to the text a Java thread receives: process_token   *)
(* adds the token's bytes to the slot's text, waits while it ends inside a *)
(* UTF-8 character, looks for stop words, streams what cannot become one   *)
(* and decides whether to go on.  One slot, which serves one request after *)
(* the other; a request may be cancelled while it generates.               *)
(*                                                                         *)
(* A text is a sequence of bytes and a byte stands for its class: "a", "b" *)
(* are characters of one byte, "L2", "L3", "L4" begin a character of that  *)
(* many bytes, "C" continues one.  Token probabilities are left out.       *)
(***************************************************************************)
EXTENDS Integers, SequencesExt

CONSTANTS
  Tokens,      \* what llama_sampling_sample may yield: [text, eog] records
  Requests,    \* what launch_slot_with_task leaves in the slot, see below
  NPredict,    \* params.n_predict, which is slot.n_predict too; -1: none
  NCtxTrain,   \* llama_n_ctx_train(model)
  SelfExtend   \* is slot.ga_n # 1?

Byte == {"a", "b", "L2", "L3", "L4", "C"}
Text == Seq(Byte)

ASSUME TokensAssumption   == \A t \in Tokens : t.text \in Text /\ t.eog \in BOOLEAN
ASSUME RequestsAssumption ==
  \A r \in Requests : /\ r.stream \in BOOLEAN /\ r.antiprompt \in Seq(Text)
                      /\ r.n_predict \in Int /\ r.n_prompt_tokens \in Nat
ASSUME LimitsAssumption   == NPredict \in Int /\ NCtxTrain \in Nat /\ SelfExtend \in BOOLEAN

VARIABLES
  phase,     \* state and command: "idle", "load", "processing", "release"
  slot,      \* the slot's members this component reads and writes; text_to_send
             \* is the member of the completion_token_output of the last token
  tokens,    \* the texts of the tokens sampled for the request, in order
  streamed,  \* the contents of the partial results sent for it, joined
  answer     \* the contents of the final result, once it is sent

vars == <<phase, slot, tokens, streamed, answer>>

AnyRequest == CHOOSE r \in Requests : TRUE
FreshSlot  == [params |-> AnyRequest, generated_text |-> <<>>, n_sent_text |-> 0,
               has_next_token |-> TRUE, stopped_word |-> FALSE, stopped_eos |-> FALSE,
               stopped_limit |-> FALSE, truncated |-> FALSE, stopping_word |-> <<>>,
               n_decoded |-> 0, text_to_send |-> <<>>]

Init ==
  /\ phase = "idle" /\ slot = FreshSlot
  /\ tokens = <<>> /\ streamed = <<>> /\ answer = {}

-----------------------------------------------------------------------------
(***************************************************************************)
(* Unfinished characters and stop words.                                   *)
(***************************************************************************)
BytesOf(lead) == CASE lead = "L2" -> 2 [] lead = "L3" -> 3 [] lead = "L4" -> 4
                   [] OTHER -> 0     \* one byte, or none that begins a character

\* The lead byte is looked for among the last four bytes.
IncompleteWithin(text, far) ==
  \E i \in 1 .. Len(text) :
     /\ i <= far
     /\ \A j \in Len(text) - i + 2 .. Len(text) : text[j] = "C"
     /\ i < BytesOf(text[Len(text) - i + 1])
IncompleteNearby(text) == IncompleteWithin(text, 2)      \* mutant
Incomplete(text) == IncompleteWithin(text, 4)

Positions(word, text) ==      \* offsets from 0, as in std::string
  {p \in 0 .. Len(text) - Len(word) : SubSeq(text, p + 1, p + Len(word)) = word}
LeastOf(S) == CHOOSE p \in S : \A q \in S : p <= q

\* find_stopping_strings(STOP_TYPE_FULL): where the word begins, near enough to
\* the end for the last token to have completed it.
FromPosShort(text, word, last_token_size) ==     \* mutant: the word forgotten
  IF Len(text) > last_token_size THEN Len(text) - last_token_size ELSE 0
FromPos(text, word, last_token_size) ==
  LET tmp == Len(word) + last_token_size
  IN  IF Len(text) > tmp THEN Len(text) - tmp ELSE 0
Found(word, text, last_token_size) ==
  {p \in Positions(word, text) : p >= FromPos(text, word, last_token_size)}
FullStops(words, text, last_token_size) ==
  UNION {Found(words[i], text, last_token_size) : i \in DOMAIN words}
\* Of the words found at p, the first of the request's list.
WordAt(words, text, last_token_size, p) ==
  words[LeastOf({i \in DOMAIN words : p \in Found(words[i], text, last_token_size)})]

\* find_partial_stop_string: does the text end with the beginning of the word?
\* (PartialOfTwo is a mutant: one byte is not enough.)
PartialOfTwo(word, text) == \E n \in 2 .. Len(word) : IsSuffix(SubSeq(word, 1, n), text)
PartialStop(word, text) == \E n \in 1 .. Len(word) : IsSuffix(SubSeq(word, 1, n), text)
MayBecomeStop(words, text) == \E i \in DOMAIN words : PartialStop(words[i], text)

Unsent(s) == SubSeq(s.generated_text, s.n_sent_text + 1, Len(s.generated_text))

-----------------------------------------------------------------------------
(***************************************************************************)
(* process_token.                                                          *)
(***************************************************************************)
AddToken(s, token) == [s EXCEPT !.generated_text = @ \o token.text,
                                !.has_next_token = TRUE, !.text_to_send = <<>>]

\* Everything from the stop word on is erased.  What precedes it is part of the
\* answer, but is not sent any more.
StopAtOffset(s, p) == SubSeq(s.generated_text, 1, p)     \* mutant: of the unsent
ErasedFrom(s, p) == SubSeq(s.generated_text, 1, s.n_sent_text + p)
StopAt(s, token, p) ==
  [s EXCEPT !.generated_text = ErasedFrom(s, p),
            !.stopped_word = TRUE, !.has_next_token = FALSE,
            !.stopping_word = WordAt(s.params.antiprompt, Unsent(s), Len(token.text), p)]

SendAll(s) == [s EXCEPT !.text_to_send = Unsent(s), !.n_sent_text = @ + Len(Unsent(s))]

Searched(s, token) ==
  LET stops == FullStops(s.params.antiprompt, Unsent(s), Len(token.text)) IN
  IF Incomplete(s.generated_text) THEN s
  ELSE IF stops # {} THEN StopAt(s, token, LeastOf(stops))
  ELSE IF MayBecomeStop(s.params.antiprompt, Unsent(s)) THEN s
  ELSE SendAll(s)

Limit(s) == IF s.params.n_predict # -1 THEN s.params.n_predict ELSE NPredict
HasBudgetForOneMore(s) == Limit(s) = -1 \/ Limit(s) - s.n_decoded >= 0   \* mutant
HasBudget(s) == Limit(s) = -1 \/ Limit(s) - s.n_decoded > 0

BeyondTraining(s) ==
  /\ s.params.n_predict < 1 /\ NPredict < 1 /\ ~SelfExtend
  /\ s.params.n_prompt_tokens + s.n_decoded >= NCtxTrain

\* The three limits, in the code's order; the last two need no next token.
Limited(s, token) ==
  LET spent == s.n_decoded > 0 /\ s.has_next_token /\ ~HasBudget(s)
      long  == BeyondTraining(s)
  IN  [s EXCEPT !.stopped_limit = @ \/ spent \/ long,
                !.stopped_eos   = @ \/ token.eog,
                !.truncated     = @ \/ long,
                !.has_next_token = @ /\ ~spent /\ ~token.eog /\ ~long]

ProcessToken(s, token) == Limited(Searched(AddToken(s, token), token), token)

-----------------------------------------------------------------------------
(***************************************************************************)
(* The life of a request in the slot.                                      *)
(***************************************************************************)
\* server_slot::reset keeps n_decoded and has_next_token.
\* (ResetText is a mutant: it forgets n_sent_text.)
ResetText(s) == [s EXCEPT !.generated_text = <<>>, !.stopping_word = <<>>,
                          !.truncated = FALSE, !.stopped_eos = FALSE,
                          !.stopped_word = FALSE, !.stopped_limit = FALSE]
Reset(s) == [s EXCEPT !.generated_text = <<>>, !.stopping_word = <<>>,
                      !.truncated = FALSE, !.stopped_eos = FALSE,
                      !.stopped_word = FALSE, !.stopped_limit = FALSE,
                      !.n_sent_text = 0]

Launch ==
  /\ phase = "idle"
  /\ \E r \in Requests : slot' = [Reset(slot) EXCEPT !.params = r]
  /\ phase' = "load"
  /\ tokens' = <<>> /\ streamed' = <<>> /\ answer' = {}

\* send_final_response: with streaming, the text is in the partial results only.
FinalContent(s) == IF s.params.stream THEN <<>> ELSE s.generated_text

\* An empty prompt is answered at once, with the n_decoded of the last request.
EmptyPrompt ==
  /\ phase = "load" /\ slot.params.n_prompt_tokens = 0
  /\ answer' = {FinalContent(slot)}
  /\ phase' = "release"
  /\ UNCHANGED <<slot, tokens, streamed>>

PromptDone ==
  /\ phase = "load" /\ slot.params.n_prompt_tokens > 0
  /\ slot' = [slot EXCEPT !.n_decoded = 0]
  /\ phase' = "processing"
  /\ UNCHANGED <<tokens, streamed, answer>>

\* A token is sampled and processed.  A partial result goes out unless the text
\* ends inside a character, with no content while nothing can be sent.
Sample ==
  /\ phase = "processing"
  /\ \E token \in Tokens :
       LET s == ProcessToken([slot EXCEPT !.n_decoded = @ + 1], token) IN
       /\ slot' = s
       /\ tokens' = Append(tokens, token.text)
       /\ streamed' = IF s.params.stream THEN streamed \o s.text_to_send ELSE streamed
       /\ phase' = IF s.has_next_token THEN "processing" ELSE "release"
       /\ answer' = IF s.has_next_token THEN {} ELSE {FinalContent(s)}

\* A CANCEL task: server_slot::release does nothing before the prompt is done.
Cancel ==
  /\ phase = "processing"
  /\ phase' = "release"
  /\ UNCHANGED <<slot, tokens, streamed, answer>>

Release ==
  /\ phase = "release"
  /\ phase' = "idle"
  /\ UNCHANGED <<slot, tokens, streamed, answer>>

Next == Launch \/ EmptyPrompt \/ PromptDone \/ Sample \/ Cancel \/ Release

Spec == Init /\ [][Next]_vars

-----------------------------------------------------------------------------
\* The type invariant.
TypeOK ==
  /\ phase \in {"idle", "load", "processing", "release"}
  /\ slot.params \in Requests /\ slot.generated_text \in Text
  /\ slot.n_sent_text \in 0 .. Len(slot.generated_text) /\ slot.n_decoded \in Nat
  /\ streamed \in Text /\ answer \subseteq Text

Working == phase = "processing" \/ answer # {}

\* The empty word is a stop word as any other to launch_slot_with_task, but every
\* text contains it: it ends the generation with the first token that leaves no
\* character unfinished.
WordsNotEmpty == \A i \in DOMAIN slot.params.antiprompt : slot.params.antiprompt[i] # <<>>

\* The partial results of a streaming request, joined, are a beginning of its
\* text: what was sent is never taken back when a stop word is erased, nothing
\* is sent twice, and no count survives from the request before.
StreamedIsPrefix ==
  Working /\ slot.params.stream =>
     Len(streamed) = slot.n_sent_text /\ IsPrefix(streamed, slot.generated_text)

\* No stop word of the request is in the text streamed or answered, however the
\* tokens split it, unless one of them is empty.
NoStopWordSent ==
  Working /\ WordsNotEmpty => \A i \in DOMAIN slot.params.antiprompt :
     Positions(slot.params.antiprompt[i], streamed) = {}
     /\ \A text \in answer : Positions(slot.params.antiprompt[i], text) = {}

\* Bytes a character begun in the text still lacks, read from left to right.
StillMissing(n, byte) ==
  IF byte # "C" THEN BytesOf(byte) - 1 ELSE IF n > 0 THEN n - 1 ELSE n
Missing(text) == FoldLeft(StillMissing, 0, text)

\* A Java thread that turns each partial result into a String never gets half a
\* character: the streamed text ends with whole ones.
WholeCharacters == Missing(streamed) <= 0

\* The text found token by token is the one the whole generation defines: all
\* that was sampled, cut before the first stop word in it, and generation went on
\* only while there was none.  (An empty stop word may cut inside a character.)
AnswerIsCompletion ==
  Working /\ WordsNotEmpty =>
    LET full  == FlattenSeq(tokens)
        stops == UNION {Positions(slot.params.antiprompt[i], full) :
                          i \in DOMAIN slot.params.antiprompt}
    IN  IF stops = {} THEN ~slot.stopped_word /\ slot.generated_text = full
        ELSE /\ slot.stopped_word /\ phase # "processing"
             /\ slot.generated_text = SubSeq(full, 1, LeastOf(stops))

\* No more tokens than asked for, or than the server grants to who does not
\* ask, or than the model was trained on when neither says; at least one, which
\* is sampled with the prompt.
BudgetKept ==
  LET asked == IF slot.params.n_predict # -1 THEN slot.params.n_predict ELSE NPredict
      bound == IF asked # -1 THEN asked ELSE NCtxTrain - slot.params.n_prompt_tokens
  IN  Working /\ slot.params.n_prompt_tokens > 0 /\ ~(asked = -1 /\ SelfExtend) =>
        slot.n_decoded <= bound \/ slot.n_decoded <= 1

=============================================================================
