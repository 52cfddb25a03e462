------------------------- MODULE SystemPromptProofs -------------------------
(***************************************************************************)
(* Proofs about SystemPrompt, for every value of its constants: its type   *)
(* correctness, and that every token is sampled behind the system prompt   *)
(* and all that its task evaluated, when the system prompt can be decoded. *)
(***************************************************************************)
EXTENDS SystemPrompt, FiniteSetTheorems, SequenceTheorems, TLAPS

Token  == {"a", "b", "bos"}
Cached == Token \union {""}

SlotRecord ==
  [state : {"IDLE", "PROCESSING"}, command : {"NONE", "LOAD_PROMPT", "RELEASE"},
   n_past : Nat, n_reused : Nat, prompt : Text, prompt_tokens : Seq(Token),
   generated : Seq(Token), cache_prompt : BOOLEAN,
   cache_tokens : Seq(Cached), i_batch : BOOLEAN]

\* A slot with a task that has not been told to stop.
Loads(s)     == s.state = "IDLE" /\ s.command = "LOAD_PROMPT"
Generates(s) == s.state = "PROCESSING" /\ s.command # "RELEASE"
Active(s)    == Loads(s) \/ Generates(s)

\* How far a slot is with its task: while it loads it is somewhere in the
\* prompt, and while it generates it has evaluated all tokens but the one it
\* sampled last.
Progress(s) ==
  /\ s.n_reused <= s.n_past
  /\ s.command = "RELEASE" => s.state = "PROCESSING"
  /\ s.command = "LOAD_PROMPT" => s.state = "IDLE"
  /\ s.i_batch => Generates(s)
  /\ Loads(s) => /\ s.prompt # <<>> /\ s.generated = <<>>
                 /\ s.n_past <= Len(s.prompt_tokens)
  /\ Generates(s) =>
       IF s.i_batch THEN s.n_past = Len(s.prompt_tokens) + Len(s.generated)
       ELSE /\ s.generated # <<>>
            /\ s.n_past + 1 = Len(s.prompt_tokens) + Len(s.generated)

CellSet == [pos : Nat, tok : Token, under : Seq(Token)]

SystemTyped ==
  /\ system_prompt \in Text
  /\ system_tokens \in Seq(Token)
  /\ system_tokens = <<>> \/ (Head(system_tokens) = "bos" /\ Tail(system_tokens) \in Text)
  /\ system_need_update \in BOOLEAN

\* The type invariant, strengthened by what the phases of a pass leave behind.
TypeInv ==
  /\ SystemTyped
  /\ slots \in [Slots -> SlotRecord] /\ kv \in [Slots -> SUBSET CellSet]
  /\ pc \in {"tasks", "release", "batch", "sample"} /\ launched \in 0 .. MaxTasks
  /\ \A k \in Slots : Progress(slots[k])
  /\ pc # "sample" => \A k \in Slots : ~slots[k].i_batch
  /\ pc \in {"batch", "sample"} => \A k \in Slots : slots[k].command # "RELEASE"

\* The cells that a slot must find in its sequence: the system prompt, and the
\* tokens it evaluated itself behind what it reused.
Base         == Len(system_tokens)
Context(s)   == s.prompt_tokens \o s.generated
OwnCells(context, m, n) == {Cell(Base + i - 1, context[i], system_tokens) : i \in m + 1 .. n}
Own(s)       == OwnCells(Context(s), s.n_reused, s.n_past)
Below(cells, n)      == {c \in cells : c.pos < Base + n}
Between(cells, m, n) == {c \in cells : Base + m <= c.pos /\ c.pos < Base + n}

\* The sequence of the slot s starts with the system prompt, and behind it are
\* the tokens that s evaluated itself, if it has a task.
Ready(cells, s) ==
  /\ Below(cells, 0) = SystemCells(system_tokens)
  /\ Active(s) => Between(cells, s.n_reused, s.n_past) = Own(s)

\* While an update is due no slot relies on its sequence.  Otherwise all are
\* ready for the system prompt of now, also those of idle slots and of half
\* loaded prompts.
CacheInv ==
  /\ pc # "tasks" => ~system_need_update
  /\ system_need_update => \A k \in Slots : Active(slots[k]) => slots[k].n_past = 0
  /\ ~system_need_update => /\ system_tokens = SystemTokens(system_prompt)
                            /\ \A k \in Slots : Ready(kv[k], slots[k])
  /\ pc = "sample" => \A k \in Slots : slots[k].i_batch =>
       \A c \in kv[k] : c.pos < Base + slots[k].n_past

-----------------------------------------------------------------------------
(***************************************************************************)
(* Sequences and cells.                                                    *)
(***************************************************************************)
LEMMA Concatenated ==
  ASSUME NEW S, NEW s \in Seq(S), NEW t \in Seq(S)
  PROVE  /\ s \o t \in Seq(S) /\ Len(s \o t) = Len(s) + Len(t)
         /\ \A i \in 1 .. Len(s) : (s \o t)[i] = s[i]
         /\ \A i \in 1 .. Len(s) + Len(t) : (s \o t)[i] \in S
  BY ConcatProperties, ElementOfSeq

LEMMA Appended ==
  ASSUME NEW S, NEW s \in Seq(S), NEW e \in S
  PROVE  /\ Append(s, e) \in Seq(S) /\ Append(s, e) # <<>>
         /\ Len(Append(s, e)) = Len(s) + 1
         /\ \A i \in 1 .. Len(s) : Append(s, e)[i] = s[i]
  <1>1. /\ Append(s, e) \in Seq(S) /\ Len(Append(s, e)) = Len(s) + 1 /\ Len(s) \in Nat
        /\ \A i \in 1 .. Len(s) : Append(s, e)[i] = s[i]
    OBVIOUS
  <1> QED BY <1>1

LEMMA TextIsToken == \A text \in Text : text \in Seq(Token)
  BY SeqMonotonic DEF Text, Token

LEMMA WithBosType ==
  ASSUME NEW text \in Text
  PROVE  /\ WithBos(text) \in Seq(Token) /\ WithBos(text) # <<>>
         /\ Head(WithBos(text)) = "bos" /\ Tail(WithBos(text)) = text
  <1> DEFINE w == WithBos(text)
  <1>1. text \in Seq(Token) /\ <<"bos">> \in Seq(Token)
    BY TextIsToken DEF Token
  <1>2. w \in Seq(Token) /\ Len(w) = 1 + Len(text) /\ Len(text) \in Nat
    BY <1>1, ConcatProperties DEF WithBos
  <1>3. w[1] = "bos" /\ \A i \in 1 .. Len(text) : w[i + 1] = text[i]
    <2>1. \A i \in 1 .. 1 + Len(text) : w[i] = IF i <= 1 THEN <<"bos">>[i] ELSE text[i - 1]
      BY <1>1, ConcatProperties DEF WithBos
    <2> QED BY <2>1, <1>2
  <1> HIDE DEF w
  <1>4. w # <<>>
    BY <1>2
  <1>5. /\ Tail(w) \in Seq(Token) /\ Len(Tail(w)) = Len(text)
        /\ \A i \in 1 .. Len(text) : Tail(w)[i] = text[i]
    BY <1>2, <1>3, <1>4, HeadTailProperties
  <1>6. Tail(w) = text
    BY <1>1, <1>5, SeqEqual
  <1>7. Head(w) = "bos"
    BY <1>2, <1>3, <1>4
  <1> QED BY <1>2, <1>4, <1>6, <1>7 DEF w

LEMMA SystemTokensType ==
  ASSUME NEW text \in Text
  PROVE  LET toks == SystemTokens(text)
         IN  /\ toks \in Seq(Token)
             /\ toks = <<>> \/ (Head(toks) = "bos" /\ Tail(toks) \in Text)
  <1>1. CASE text = <<>>
    BY <1>1 DEF SystemTokens
  <1>2. CASE text # <<>>
    BY <1>2, WithBosType DEF SystemTokens
  <1> QED BY <1>1, <1>2

\* What a prompt shares with the cached tokens is at most the prompt.
LEMMA CommonBound ==
  ASSUME NEW a, NEW b \in Seq(Token)
  PROVE  CommonPart(a, b) \in 0 .. Len(b)
  <1> DEFINE C == {n \in 1 .. Len(b) : n <= Len(a) /\ \A i \in 1 .. n : a[i] = b[i]}
  <1>1. Len(b) \in Nat
    OBVIOUS
  <1>2. IsFiniteSet(1 .. Len(b)) /\ Cardinality(1 .. Len(b)) = Len(b)
    <2>1. IsFiniteSet(1 .. Len(b))
            /\ Cardinality(1 .. Len(b)) = IF 1 > Len(b) THEN 0 ELSE Len(b) - 1 + 1
      BY <1>1, FS_Interval
    <2> QED BY <1>1, <2>1
  <1>3. C \subseteq 1 .. Len(b)
    OBVIOUS
  <1>4. IsFiniteSet(C) /\ Cardinality(C) <= Len(b)
    BY <1>2, <1>3, FS_Subset
  <1>5. Cardinality(C) \in Nat
    BY <1>4, FS_CardinalityType
  <1>6. CommonPart(a, b) = Cardinality(C)
    BY DEF CommonPart
  <1> HIDE DEF C
  <1> QED BY <1>1, <1>4, <1>5, <1>6

-----------------------------------------------------------------------------
(***************************************************************************)
(* What the steps do to a slot.                                            *)
(***************************************************************************)
LEMMA FreshOK == FreshSlot \in SlotRecord /\ Progress(FreshSlot)
                   /\ ~FreshSlot.i_batch /\ ~Active(FreshSlot)
  <1>1. <<>> \in Text /\ <<>> \in Seq(Token) /\ <<>> \in Seq(Cached)
    BY DEF Text
  <1>2. FreshSlot \in SlotRecord
    BY <1>1 DEF FreshSlot, SlotRecord
  <1> QED BY <1>2 DEF FreshSlot, Progress, Loads, Generates, Active

\* Release, as a cancellation and another system prompt ask for it.
LEMMA ReleasedOK ==
  ASSUME NEW s \in SlotRecord, Progress(s), ~s.i_batch
  PROVE  LET r == Released(s)
         IN  /\ r \in SlotRecord /\ Progress(r) /\ ~r.i_batch
             /\ Active(r) => r = s
             /\ r.n_past = s.n_past /\ r.n_reused = s.n_reused
             /\ s.state = "IDLE" => r = s
             /\ s.state = "PROCESSING" => ~Active(r)
  BY DEF Released, SlotRecord, Progress, Loads, Generates, Active

LEMMA RestartedOK ==
  ASSUME NEW s \in SlotRecord, Progress(s), ~s.i_batch
  PROVE  LET r == Restarted(s)
         IN  /\ r \in SlotRecord /\ Progress(r) /\ ~r.i_batch /\ r.n_past = 0
             /\ s.state = "IDLE" /\ s.command = "NONE" =>
                  r.state = "IDLE" /\ r.command = "NONE"
  <1> DEFINE q == Released(s)
             r == [q EXCEPT !.n_past = 0, !.n_reused = 0]
  <1>1. /\ q \in SlotRecord /\ Progress(q) /\ ~q.i_batch
        /\ s.state = "PROCESSING" => ~Active(q)
        /\ s.state = "IDLE" => q = s
    BY ReleasedOK
  <1>2. s.state \in {"IDLE", "PROCESSING"}
    BY DEF SlotRecord
  <1> HIDE DEF q
  <1>3. /\ r \in SlotRecord /\ r.state = q.state /\ r.command = q.command
        /\ r.n_past = 0 /\ r.n_reused = 0 /\ ~r.i_batch
        /\ r.prompt = q.prompt /\ r.prompt_tokens = q.prompt_tokens
        /\ r.generated = q.generated
    BY <1>1 DEF SlotRecord
  <1>4. Len(r.prompt_tokens) \in Nat
    BY <1>3, LenProperties DEF SlotRecord
  <1>5. ~Generates(q)
    BY <1>1, <1>2 DEF Generates, Active
  <1>6. r = Restarted(s)
    BY DEF Restarted, q
  <1> HIDE DEF r
  <1>7. Progress(r)
    <2>1. /\ q.command = "RELEASE" => q.state = "PROCESSING"
          /\ q.command = "LOAD_PROMPT" => q.state = "IDLE"
          /\ Loads(q) => q.prompt # <<>> /\ q.generated = <<>>
      BY <1>1 DEF Progress
    <2>2. ~Generates(r) /\ (Loads(r) => Loads(q))
      BY <1>3, <1>5 DEF Generates, Loads
    <2>3. Loads(r) => /\ r.prompt # <<>> /\ r.generated = <<>>
                      /\ r.n_past <= Len(r.prompt_tokens)
      BY <1>3, <1>4, <2>1, <2>2
    <2>4. r.n_reused <= r.n_past
      BY <1>3
    <2> QED BY <1>3, <2>1, <2>2, <2>3, <2>4 DEF Progress
  <1> QED BY <1>1, <1>3, <1>6, <1>7

LEMMA TakenOK ==
  ASSUME NEW s \in SlotRecord, Progress(s), ~s.i_batch,
         s.state = "IDLE", s.command = "NONE", NEW r \in Requests
  PROVE  LET t == Taken(s, r)
         IN  t \in SlotRecord /\ Progress(t) /\ ~t.i_batch /\ t.n_past = 0
  <1>1. /\ r.prompt \in Text \ {<<>>} /\ r.cache_prompt \in BOOLEAN
        /\ <<>> \in Seq(Token) /\ Len(<<>>) = 0
    BY RequestsAssumption
  <1>2. CASE ~r.valid
    <2> DEFINE t == [s EXCEPT !.n_past = 0, !.n_reused = 0]
    <2>1. /\ t \in SlotRecord /\ t.state = "IDLE" /\ t.command = "NONE" /\ ~t.i_batch
          /\ t.n_past = 0 /\ t.n_reused = 0
      BY DEF SlotRecord
    <2>2. Taken(s, r) = t
      BY <1>2 DEF Taken
    <2> HIDE DEF t
    <2>3. Progress(t)
      BY <2>1 DEF Progress, Loads, Generates
    <2> QED BY <2>1, <2>2, <2>3
  <1>3. CASE r.valid
    <2> DEFINE t == [s EXCEPT !.command = "LOAD_PROMPT", !.n_past = 0, !.n_reused = 0,
                       !.prompt = r.prompt, !.prompt_tokens = <<>>, !.generated = <<>>,
                       !.cache_prompt = r.cache_prompt]
    <2>1. /\ t \in SlotRecord /\ t.state = "IDLE" /\ t.command = "LOAD_PROMPT" /\ ~t.i_batch
          /\ t.n_past = 0 /\ t.n_reused = 0 /\ t.prompt # <<>>
          /\ t.prompt_tokens = <<>> /\ t.generated = <<>>
      BY <1>1 DEF SlotRecord
    <2>2. Taken(s, r) = t
      BY <1>3 DEF Taken
    <2> HIDE DEF t
    <2>3. Progress(t)
      BY <1>1, <2>1 DEF Progress, Loads, Generates
    <2> QED BY <2>1, <2>2, <2>3
  <1> QED BY <1>2, <1>3

LEMMA ReleaseOK ==
  ASSUME NEW s \in SlotRecord, Progress(s), ~s.i_batch
  PROVE  LET r == [s EXCEPT !.state = "IDLE", !.command = "NONE"]
         IN  r \in SlotRecord /\ Progress(r) /\ ~r.i_batch /\ ~Active(r)
  <1> DEFINE r == [s EXCEPT !.state = "IDLE", !.command = "NONE"]
  <1>1. /\ r \in SlotRecord /\ r.state = "IDLE" /\ r.command = "NONE" /\ ~r.i_batch
        /\ r.n_past = s.n_past /\ r.n_reused = s.n_reused
    BY DEF SlotRecord
  <1>2. s.n_reused <= s.n_past
    BY DEF Progress
  <1> HIDE DEF r
  <1>3. Progress(r) /\ ~Active(r)
    BY <1>1, <1>2 DEF Progress, Loads, Generates, Active
  <1> QED BY <1>1, <1>3 DEF r

LEMMA WithSampledOK ==
  ASSUME NEW s \in SlotRecord, Progress(s), ~s.i_batch, Generates(s)
  PROVE  LET r == WithSampled(s)
         IN  /\ r \in SlotRecord /\ Progress(r) /\ Generates(r) /\ r.i_batch
             /\ r.n_past = s.n_past + 1 /\ r.n_reused = s.n_reused
             /\ r.prompt_tokens = s.prompt_tokens /\ r.generated = s.generated
             /\ r.n_past = Len(s.prompt_tokens) + Len(s.generated)
  <1> DEFINE c == IF s.cache_prompt THEN Append(s.cache_tokens, Last(s.generated))
                  ELSE s.cache_tokens
             r == [s EXCEPT !.n_past = s.n_past + 1, !.i_batch = TRUE, !.cache_tokens = c]
  <1>1. /\ s.n_reused \in Nat /\ s.n_past \in Nat /\ s.n_reused <= s.n_past
        /\ s.generated # <<>> /\ s.generated \in Seq(Token)
        /\ s.n_past + 1 = Len(s.prompt_tokens) + Len(s.generated)
    BY DEF SlotRecord, Progress
  <1>2. Last(s.generated) \in Token
    BY <1>1 DEF Last
  <1>3. c \in Seq(Cached)
    <2>1. s.cache_tokens \in Seq(Cached)
      BY DEF SlotRecord
    <2>2. Append(s.cache_tokens, Last(s.generated)) \in Seq(Cached)
      BY <1>2, <2>1, Appended DEF Cached
    <2> QED BY <2>1, <2>2
  <1>4. WithSampled(s) = r
    BY DEF WithSampled
  <1> HIDE DEF c
  <1>5. /\ r \in SlotRecord /\ r.i_batch /\ r.state = s.state /\ r.command = s.command
        /\ r.n_past = s.n_past + 1 /\ r.n_reused = s.n_reused
        /\ r.prompt_tokens = s.prompt_tokens /\ r.generated = s.generated
    <2>1. s.n_past + 1 \in Nat
      BY <1>1
    <2> QED BY <1>3, <2>1 DEF SlotRecord
  <1> HIDE DEF r
  <1>6. Generates(r) /\ ~Loads(r) /\ r.command # "RELEASE" /\ r.command # "LOAD_PROMPT"
    BY <1>5 DEF Generates, Loads, Progress
  <1>7. r.n_past = Len(r.prompt_tokens) + Len(r.generated) /\ r.n_reused <= r.n_past
    <2>1. r.n_past = Len(r.prompt_tokens) + Len(r.generated)
      BY <1>1, <1>5
    <2>2. s.n_reused <= s.n_past + 1
      BY <1>1
    <2> QED BY <1>5, <2>1, <2>2
  <1>8. Progress(r)
    BY <1>5, <1>6, <1>7 DEF Progress
  <1> QED BY <1>1, <1>4, <1>5, <1>6, <1>8

LEMMA TokenizedOK ==
  ASSUME system_prompt \in Text,
         NEW s \in SlotRecord, Progress(s), ~s.i_batch, Loads(s)
  PROVE  LET t == Tokenized(s)
         IN  /\ t \in SlotRecord /\ Progress(t) /\ ~t.i_batch /\ Loads(t)
             /\ t = s \/ t.n_past = t.n_reused
  <1>1. CASE s.prompt_tokens # <<>>
    BY <1>1 DEF Tokenized
  <1>2. CASE s.prompt_tokens = <<>>
    <2> DEFINE toks   == IF system_prompt = <<>> THEN WithBos(s.prompt) ELSE s.prompt
               common == IF s.cache_prompt THEN CommonPart(s.cache_tokens, toks) ELSE 0
               reused == IF common = Len(toks) THEN common - 1 ELSE common
               t == [s EXCEPT !.prompt_tokens = toks, !.n_past = reused, !.n_reused = reused]
    <2>1. s.prompt \in Text /\ s.prompt # <<>> /\ s.generated = <<>>
      BY DEF Progress, SlotRecord
    <2>2. toks \in Seq(Token) /\ toks # <<>>
      BY <2>1, WithBosType, TextIsToken
    <2> HIDE DEF toks
    <2>3. Len(toks) \in Nat /\ Len(toks) > 0
      BY <2>2, EmptySeq
    <2>4. common \in 0 .. Len(toks)
      BY <2>2, <2>3, CommonBound
    <2> HIDE DEF common
    <2>5. reused \in Nat /\ reused <= Len(toks)
      BY <2>3, <2>4
    <2> HIDE DEF reused
    <2>6. /\ t \in SlotRecord /\ ~t.i_batch /\ t.state = s.state /\ t.command = s.command
          /\ t.n_past = reused /\ t.n_reused = reused /\ t.prompt_tokens = toks
          /\ t.prompt = s.prompt /\ t.generated = s.generated
      BY <2>2, <2>5 DEF SlotRecord
    <2>7. Tokenized(s) = t
      BY <1>2 DEF Tokenized, toks, common, reused
    <2> HIDE DEF t
    <2>8. Loads(t) /\ ~Generates(t) /\ t.command # "RELEASE" /\ t.state = "IDLE"
      BY <2>6 DEF Loads, Generates
    <2>9. Progress(t)
      BY <2>1, <2>5, <2>6, <2>8 DEF Progress
    <2> QED BY <2>6, <2>7, <2>8, <2>9
  <1> QED BY <1>1, <1>2

LEMMA ResizedType ==
  ASSUME NEW toks \in Seq(Cached), NEW n \in Nat
  PROVE  Resized(toks, n) \in Seq(Cached)
  <1> DEFINE e(i) == IF i <= Len(toks) THEN toks[i] ELSE ""
  <1>1. Len(toks) \in Nat /\ \A i \in 1 .. Len(toks) : toks[i] \in Cached
    OBVIOUS
  <1>2. \A i \in 1 .. n : e(i) \in Cached
    <2>1. ASSUME NEW i \in 1 .. n
          PROVE  e(i) \in Cached
      <3>1. CASE i <= Len(toks)
        BY <1>1, <3>1
      <3>2. CASE ~(i <= Len(toks))
        BY <3>2 DEF Cached
      <3> QED BY <3>1, <3>2
    <2> QED BY <2>1
  <1>3. Resized(toks, n) = [i \in 1 .. n |-> e(i)]
    BY DEF Resized
  <1> HIDE DEF e
  <1> QED BY <1>2, <1>3

LEMMA WithPromptOK ==
  ASSUME NEW t \in SlotRecord, Progress(t), ~t.i_batch, Loads(t),
         NEW m \in Nat, m > 0, t.n_past + m <= Len(t.prompt_tokens)
  PROVE  LET r == WithPrompt(t, m)
         IN  /\ r \in SlotRecord /\ Progress(r) /\ Active(r) /\ r.command # "RELEASE"
             /\ r.n_past = t.n_past + m /\ r.n_reused = t.n_reused
             /\ r.prompt_tokens = t.prompt_tokens /\ r.generated = t.generated
  <1> DEFINE done == t.n_past + m = Len(t.prompt_tokens)
             more == IF t.cache_prompt
                     THEN SubSeq(t.prompt_tokens, t.n_past + 1, t.n_past + m) ELSE <<>>
             cached == Resized(t.cache_tokens, t.n_past) \o more
             n == t.n_past + m
             in == IF done THEN TRUE ELSE FALSE
             state == IF done THEN "PROCESSING" ELSE t.state
             command == IF done THEN "NONE" ELSE t.command
             r == [t EXCEPT !.n_past = n, !.i_batch = in, !.cache_tokens = cached,
                            !.state = state, !.command = command]
  <1>1. /\ t.n_reused \in Nat /\ t.n_past \in Nat /\ t.n_reused <= t.n_past
        /\ t.prompt_tokens \in Seq(Token) /\ Len(t.prompt_tokens) \in Nat
        /\ t.prompt # <<>> /\ t.generated = <<>>
    BY LenProperties DEF SlotRecord, Progress
  <1>2. cached \in Seq(Cached)
    <2>1. Resized(t.cache_tokens, t.n_past) \in Seq(Cached)
      BY <1>1, ResizedType DEF SlotRecord
    <2>2. \A i \in t.n_past + 1 .. t.n_past + m : t.prompt_tokens[i] \in Cached
      <3>1. \A i \in t.n_past + 1 .. t.n_past + m : i \in 1 .. Len(t.prompt_tokens)
        BY <1>1
      <3>2. \A i \in 1 .. Len(t.prompt_tokens) : t.prompt_tokens[i] \in Token
        BY <1>1, ElementOfSeq
      <3> QED BY <3>1, <3>2 DEF Cached
    <2>3. t.n_past + 1 \in Int /\ t.n_past + m \in Int
      BY <1>1
    <2>4. SubSeq(t.prompt_tokens, t.n_past + 1, t.n_past + m) \in Seq(Cached)
      BY <2>2, <2>3, SubSeqProperties
    <2>5. more \in Seq(Cached)
      BY <2>4
    <2> HIDE DEF more
    <2> QED BY <2>1, <2>5, Concatenated
  <1>3. WithPrompt(t, m) = r
    BY DEF WithPrompt
  <1> HIDE DEF cached, more
  <1>4. n \in Nat /\ n >= t.n_past
    BY <1>1
  <1>5. in \in BOOLEAN /\ state \in {"IDLE", "PROCESSING"}
          /\ command \in {"NONE", "LOAD_PROMPT"}
    BY DEF Loads
  <1>6. /\ done => in /\ state = "PROCESSING" /\ command = "NONE"
        /\ ~done => ~in /\ state = "IDLE" /\ command = "LOAD_PROMPT"
    BY DEF Loads
  <1>7. n <= Len(t.prompt_tokens) /\ (done <=> n = Len(t.prompt_tokens))
    OBVIOUS
  <1> HIDE DEF n, in, state, command, done
  <1>8. /\ r \in SlotRecord /\ r.state = state /\ r.command = command
        /\ r.n_past = n /\ r.n_reused = t.n_reused /\ r.prompt = t.prompt
        /\ r.prompt_tokens = t.prompt_tokens /\ r.generated = t.generated
        /\ r.i_batch = in
    BY <1>1, <1>2, <1>4, <1>5 DEF SlotRecord
  <1> HIDE DEF r
  <1>9. r.n_reused <= r.n_past
    BY <1>1, <1>4, <1>8
  <1>10. Len(r.generated) = 0
    BY <1>1, <1>8
  <1>11. CASE done
    <2>1. /\ r.i_batch /\ r.state = "PROCESSING" /\ r.command = "NONE"
          /\ r.n_past = Len(r.prompt_tokens) + Len(r.generated)
      BY <1>1, <1>6, <1>7, <1>8, <1>10, <1>11
    <2>2. Generates(r) /\ ~Loads(r)
      BY <2>1 DEF Generates, Loads
    <2>3. Progress(r)
      BY <1>9, <2>1, <2>2 DEF Progress
    <2> QED BY <1>3, <1>8, <2>1, <2>2, <2>3 DEF Active, n
  <1>12. CASE ~done
    <2>1. /\ ~r.i_batch /\ r.state = "IDLE" /\ r.command = "LOAD_PROMPT"
          /\ r.prompt # <<>> /\ r.generated = <<>>
          /\ r.n_past <= Len(r.prompt_tokens)
      BY <1>1, <1>6, <1>7, <1>8, <1>12
    <2>2. Loads(r) /\ ~Generates(r)
      BY <2>1 DEF Generates, Loads
    <2>3. Progress(r)
      BY <1>9, <2>1, <2>2 DEF Progress
    <2> QED BY <1>3, <1>8, <2>1, <2>2, <2>3 DEF Active, n
  <1> QED BY <1>11, <1>12

LEMMA SampleOK ==
  ASSUME NEW s \in SlotRecord, Progress(s), s.i_batch, NEW command, command \in {"RELEASE", s.command}
  PROVE  LET r == [s EXCEPT !.generated = Append(@, "a"), !.i_batch = FALSE,
                            !.command = command]
         IN  /\ r \in SlotRecord /\ Progress(r) /\ ~r.i_batch
             /\ r.n_past = s.n_past /\ r.n_reused = s.n_reused
             /\ r.prompt_tokens = s.prompt_tokens /\ r.generated = Append(s.generated, "a")
  <1> DEFINE g == Append(s.generated, "a")
             r == [s EXCEPT !.generated = g, !.i_batch = FALSE, !.command = command]
  <1>1. /\ s.n_past \in Nat /\ s.n_reused <= s.n_past /\ s.generated \in Seq(Token)
        /\ s.n_past = Len(s.prompt_tokens) + Len(s.generated)
        /\ Generates(s) /\ Len(s.generated) \in Nat /\ Len(s.prompt_tokens) \in Nat
    BY LenProperties DEF SlotRecord, Progress
  <1>2. g \in Seq(Token) /\ g # <<>> /\ Len(g) = Len(s.generated) + 1
    BY <1>1, Appended DEF Token
  <1>3. command \in {"NONE", "LOAD_PROMPT", "RELEASE"} /\ command # "LOAD_PROMPT"
    BY <1>1 DEF SlotRecord, Progress, Generates
  <1> HIDE DEF g
  <1>4. /\ r \in SlotRecord /\ r.state = "PROCESSING" /\ r.command = command
        /\ r.n_past = s.n_past /\ r.n_reused = s.n_reused /\ ~r.i_batch
        /\ r.prompt_tokens = s.prompt_tokens /\ r.generated = g
    BY <1>1, <1>2, <1>3 DEF SlotRecord, Generates
  <1>5. r = [s EXCEPT !.generated = Append(@, "a"), !.i_batch = FALSE,
                      !.command = command]
    BY DEF g
  <1> HIDE DEF r
  <1>6. r.n_past + 1 = Len(r.prompt_tokens) + Len(r.generated)
    <2>1. s.n_past + 1 = Len(s.prompt_tokens) + (Len(s.generated) + 1)
      <3>1. \A p, a, b \in Nat : p = a + b => p + 1 = a + (b + 1)
        OBVIOUS
      <3> QED BY ONLY <1>1, <3>1
    <2>2. r.n_past + 1 = s.n_past + 1 /\ Len(r.generated) = Len(s.generated) + 1
      BY <1>2, <1>4
    <2> QED BY <1>4, <2>1, <2>2
  <1>7. Progress(r)
    BY <1>1, <1>2, <1>3, <1>4, <1>6 DEF Progress, Loads
  <1> QED BY <1>4, <1>5, <1>7 DEF g

\* A pass leaves a slot as it was, or puts tokens of its prompt or its sampled
\* token in the batch; t is the slot with its prompt tokenized.
LEMMA EvaluateSlot ==
  ASSUME TypeInv, Evaluate, NEW k \in Slots
  PROVE  \/ slots'[k] = slots[k] /\ kv'[k] = kv[k] /\ ~slots'[k].i_batch
         \/ \E t \in SlotRecord :
              /\ t = slots[k] \/ t.n_past = t.n_reused
              /\ Active(slots[k]) /\ t.n_reused <= t.n_past
              /\ slots'[k] \in SlotRecord /\ Progress(slots'[k])
              /\ Active(slots'[k]) /\ slots'[k].command # "RELEASE"
              /\ t.n_past < slots'[k].n_past /\ slots'[k].n_reused = t.n_reused
              /\ slots'[k].prompt_tokens = t.prompt_tokens
              /\ slots'[k].generated = t.generated
              /\ kv'[k] = CellsOf(kv[k], t.n_past, slots'[k])
  <1>1. PICK m \in [Slots -> 0 .. NBatch] :
          LET start(j) == IF Loading(j) /\ m[j] > 0 THEN Tokenized(slots[j]) ELSE slots[j]
              next(j)  == IF Generating(j) THEN WithSampled(slots[j])
                          ELSE IF m[j] > 0 THEN WithPrompt(start(j), m[j])
                          ELSE [slots[j] EXCEPT !.i_batch = FALSE]
          IN  /\ \A j \in Slots : m[j] > 0 =>
                   Loading(j) /\ start(j).n_past + m[j] <= Len(start(j).prompt_tokens)
              /\ slots' = [j \in Slots |-> next(j)]
              /\ kv' = [j \in Slots |-> IF next(j).n_past = start(j).n_past THEN kv[j]
                                        ELSE CellsOf(kv[j], start(j).n_past, next(j))]
    BY DEF Evaluate
  <1> DEFINE s == slots[k]
             start == IF Loading(k) /\ m[k] > 0 THEN Tokenized(s) ELSE s
             next == IF Generating(k) THEN WithSampled(s)
                     ELSE IF m[k] > 0 THEN WithPrompt(start, m[k])
                     ELSE [s EXCEPT !.i_batch = FALSE]
  <1>2. /\ m[k] > 0 => Loading(k) /\ start.n_past + m[k] <= Len(start.prompt_tokens)
        /\ slots'[k] = next
        /\ kv'[k] = IF next.n_past = start.n_past THEN kv[k] ELSE CellsOf(kv[k], start.n_past, next)
    BY <1>1
  <1>3. s \in SlotRecord /\ Progress(s) /\ ~s.i_batch /\ s.command # "RELEASE"
          /\ system_prompt \in Text
    BY DEF TypeInv, SystemTyped, Evaluate
  <1>4. m[k] \in Nat
    BY SlotsAssumption
  <1>5. CASE Generating(k)
    <2>1. Generates(s)
      BY <1>3, <1>5 DEF Generating, Generates
    <2>2. ~(m[k] > 0)
      BY <1>2, <1>5 DEF Generating, Loading
    <2>3. start = s /\ next = WithSampled(s)
      BY <1>5, <2>2
    <2>4. /\ next \in SlotRecord /\ Progress(next) /\ Generates(next)
          /\ next.n_past = s.n_past + 1 /\ next.n_reused = s.n_reused
          /\ next.prompt_tokens = s.prompt_tokens /\ next.generated = s.generated
      BY <1>3, <2>1, <2>3, WithSampledOK
    <2>5. s.n_past \in Nat /\ s.n_reused <= s.n_past
      BY <1>3 DEF SlotRecord, Progress
    <2> HIDE DEF start, next
    <2>6. s.n_past < next.n_past /\ next.n_past # s.n_past
      BY <2>4, <2>5
    <2>7. kv'[k] = CellsOf(kv[k], s.n_past, next)
      BY <1>2, <2>3, <2>6
    <2>8. Active(s) /\ Active(next) /\ next.command # "RELEASE"
      BY <2>1, <2>4 DEF Active, Generates
    <2> QED BY <1>2, <1>3, <2>4, <2>5, <2>6, <2>7, <2>8
  <1>6. CASE ~Generating(k) /\ m[k] > 0
    <2>1. Loading(k) /\ Loads(s) /\ start = Tokenized(s) /\ next = WithPrompt(start, m[k])
      BY <1>2, <1>6 DEF Loading, Loads
    <2> HIDE DEF next
    <2>2. /\ start \in SlotRecord /\ Progress(start) /\ ~start.i_batch /\ Loads(start)
          /\ start = s \/ start.n_past = start.n_reused
      BY <1>3, <2>1, TokenizedOK
    <2>3. start.n_past + m[k] <= Len(start.prompt_tokens)
      BY <1>2, <1>6
    <2> HIDE DEF start
    <2>4. /\ next \in SlotRecord /\ Progress(next) /\ Active(next) /\ next.command # "RELEASE"
          /\ next.n_past = start.n_past + m[k] /\ next.n_reused = start.n_reused
          /\ next.prompt_tokens = start.prompt_tokens /\ next.generated = start.generated
      BY <1>4, <1>6, <2>1, <2>2, <2>3, WithPromptOK
    <2>5. start.n_past \in Nat /\ start.n_reused <= start.n_past
      BY <2>2 DEF SlotRecord, Progress
    <2>6. start.n_past < next.n_past /\ next.n_past # start.n_past
      BY <1>4, <1>6, <2>4, <2>5
    <2>7. kv'[k] = CellsOf(kv[k], start.n_past, next)
      BY <1>2, <2>6
    <2>8. Active(s)
      BY <2>1 DEF Active
    <2> QED BY <1>2, <2>2, <2>4, <2>5, <2>6, <2>7, <2>8
  <1>7. CASE ~Generating(k) /\ ~(m[k] > 0)
    <2>1. start = s /\ next = [s EXCEPT !.i_batch = FALSE]
      BY <1>7
    <2>2. next = s
      BY <1>3, <2>1 DEF SlotRecord
    <2> HIDE DEF start, next
    <2> QED BY <1>2, <1>3, <2>1, <2>2
  <1> QED BY <1>5, <1>6, <1>7

LEMMA FilledContext ==
  ASSUME NEW s \in SlotRecord, Progress(s), Active(s)
  PROVE  Context(s) \in Seq(Token) /\ s.n_past <= Len(Context(s))
  <1>1. /\ s.prompt_tokens \in Seq(Token) /\ s.generated \in Seq(Token)
        /\ Len(s.prompt_tokens) \in Nat /\ Len(s.generated) \in Nat /\ s.n_past \in Nat
    BY LenProperties DEF SlotRecord
  <1>2. Context(s) \in Seq(Token)
          /\ Len(Context(s)) = Len(s.prompt_tokens) + Len(s.generated)
    BY <1>1, Concatenated DEF Context
  <1>3. s.n_past <= Len(s.prompt_tokens) + Len(s.generated)
    <2> DEFINE a == Len(s.prompt_tokens)
               b == Len(s.generated)
               n == s.n_past
    <2>1. n <= a \/ n = a + b \/ n + 1 = a + b
      BY DEF Progress, Active, Loads, Generates
    <2>2. a \in Nat /\ b \in Nat /\ n \in Nat
      BY <1>1
    <2> HIDE DEF a, b, n
    <2>3. n <= a + b
      BY <2>1, <2>2
    <2> QED BY <2>3 DEF a, b, n
  <1> QED BY <1>2, <1>3

LEMMA AdvancedCells ==
  ASSUME system_tokens \in Seq(Token), NEW cells \in SUBSET CellSet,
         NEW s \in SlotRecord, Progress(s), Active(s), NEW n \in Nat, n < s.n_past
  PROVE  CellsOf(cells, n, s) \in SUBSET CellSet
  <1> DEFINE fresh == OwnCells(Context(s), n, s.n_past)
  <1>1. Base \in Nat /\ s.n_past \in Nat
    BY LenProperties DEF Base, SlotRecord
  <1>2. Context(s) \in Seq(Token) /\ s.n_past <= Len(Context(s))
    BY FilledContext
  <1>3. \A i \in n + 1 .. s.n_past : i \in 1 .. Len(Context(s))
    BY <1>1, <1>2, LenProperties
  <1>4. \A i \in 1 .. Len(Context(s)) : Context(s)[i] \in Token
    BY <1>2, ElementOfSeq
  <1>5. \A i \in n + 1 .. s.n_past : Base + i - 1 \in Nat
    BY <1>1
  <1>6. fresh \in SUBSET CellSet
    BY <1>3, <1>4, <1>5 DEF OwnCells, Cell, CellSet
  <1>7. CellsOf(cells, n, s) = {c \in cells : c.pos < Base + n} \union fresh
    BY DEF CellsOf, Base, Context, OwnCells
  <1> QED BY <1>6, <1>7

-----------------------------------------------------------------------------
(***************************************************************************)
(* Type correctness.                                                       *)
(***************************************************************************)
LEMMA InitTyped == Init => TypeInv
  <1> SUFFICES ASSUME Init PROVE TypeInv
    OBVIOUS
  <1>1. SystemTyped
    BY SystemAssumption DEF Init, SystemTyped
  <1>2. slots \in [Slots -> SlotRecord] /\ kv \in [Slots -> SUBSET CellSet]
          /\ \A k \in Slots : Progress(slots[k]) /\ ~slots[k].i_batch
    BY FreshOK DEF Init
  <1> QED BY <1>1, <1>2, BoundsAssumption DEF Init, TypeInv

\* A task leaves slots that neither are in a batch nor break off their progress.
LEMMA LaunchedSlots ==
  ASSUME TypeInv, Launch
  PROVE  \E r \in Requests, k \in Slots :
           /\ slots' = [j \in Slots |-> slots'[j]]
           /\ \A j \in Slots : /\ slots'[j] \in SlotRecord /\ Progress(slots'[j])
                               /\ ~slots'[j].i_batch
           /\ slots'[k].n_past = 0
           /\ IF r.system = {} THEN \A j \in Slots \ {k} : slots'[j] = slots[j]
              ELSE \A j \in Slots : slots'[j].n_past = 0
           /\ system_prompt' = IF r.system = {} THEN system_prompt
                               ELSE CHOOSE s \in r.system : TRUE
           /\ system_need_update' = (system_need_update \/ r.system # {})
  <1>1. PICK k \in Slots, r \in Requests :
          /\ Available(k)
          /\ LET all == IF r.system = {} THEN slots
                        ELSE [j \in Slots |-> Restarted(slots[j])]
             IN  slots' = [all EXCEPT ![k] = Taken(@, r)]
          /\ system_prompt' = IF r.system = {} THEN system_prompt
                              ELSE CHOOSE s \in r.system : TRUE
          /\ system_need_update' = (system_need_update \/ r.system # {})
    BY DEF Launch
  <1>2. \A j \in Slots : slots[j] \in SlotRecord /\ Progress(slots[j]) /\ ~slots[j].i_batch
    BY DEF TypeInv, Launch
  <1> DEFINE all == IF r.system = {} THEN slots ELSE [j \in Slots |-> Restarted(slots[j])]
  <1>3. /\ all = [j \in Slots |-> all[j]]
        /\ \A j \in Slots : all[j] \in SlotRecord /\ Progress(all[j]) /\ ~all[j].i_batch
        /\ all[k].state = "IDLE" /\ all[k].command = "NONE"
        /\ IF r.system = {} THEN all = slots ELSE \A j \in Slots : all[j].n_past = 0
    <2>1. CASE r.system = {}
      BY <1>1, <1>2, <2>1 DEF TypeInv, Available
    <2>2. CASE r.system # {}
      <3>1. \A j \in Slots : all[j] = Restarted(slots[j])
        BY <2>2
      <3>2. \A j \in Slots : /\ all[j] \in SlotRecord /\ Progress(all[j]) /\ ~all[j].i_batch
                             /\ all[j].n_past = 0
        BY <1>2, <3>1, RestartedOK
      <3>3. all[k].state = "IDLE" /\ all[k].command = "NONE"
        BY <1>1, <1>2, <3>1, RestartedOK DEF Available
      <3> QED BY <2>2, <3>2, <3>3
    <2> QED BY <2>1, <2>2
  <1>4. slots' = [all EXCEPT ![k] = Taken(all[k], r)]
    BY <1>1
  <1> HIDE DEF all
  <1>5. /\ slots'[k] = Taken(all[k], r) /\ \A j \in Slots \ {k} : slots'[j] = all[j]
        /\ slots' = [j \in Slots |-> slots'[j]]
    BY <1>3, <1>4
  <1>6. slots'[k] \in SlotRecord /\ Progress(slots'[k]) /\ ~slots'[k].i_batch
          /\ slots'[k].n_past = 0
    BY <1>3, <1>5, TakenOK
  <1>7. \A j \in Slots : slots'[j] \in SlotRecord /\ Progress(slots'[j]) /\ ~slots'[j].i_batch
    BY <1>3, <1>5, <1>6
  <1>8. IF r.system = {} THEN \A j \in Slots \ {k} : slots'[j] = slots[j]
        ELSE \A j \in Slots : slots'[j].n_past = 0
    BY <1>3, <1>5, <1>6
  <1> QED BY <1>1, <1>5, <1>6, <1>7, <1>8

LEMMA SystemCellsType ==
  ASSUME NEW toks \in Seq(Token)
  PROVE  /\ SystemCells(toks) \in SUBSET CellSet
         /\ \A c \in SystemCells(toks) : c.pos < Len(toks)
  <1>1. Len(toks) \in Nat /\ DOMAIN toks = 1 .. Len(toks)
    BY LenProperties
  <1>2. \A i \in 1 .. Len(toks) : toks[i] \in Token /\ i - 1 \in Nat /\ i - 1 < Len(toks)
    BY <1>1, ElementOfSeq
  <1>3. <<>> \in Seq(Token)
    OBVIOUS
  <1>4. \A i \in 1 .. Len(toks) : Cell(i - 1, toks[i], <<>>) \in CellSet
                                    /\ Cell(i - 1, toks[i], <<>>).pos < Len(toks)
    BY <1>2, <1>3 DEF Cell, CellSet
  <1> QED BY <1>1, <1>4 DEF SystemCells

\* A sampled slot keeps its context, and has one more token to evaluate.
LEMMA SampledSlot ==
  ASSUME TypeInv, Sample, NEW k \in Slots
  PROVE  /\ slots'[k] \in SlotRecord /\ Progress(slots'[k]) /\ ~slots'[k].i_batch
         /\ Active(slots'[k]) => Active(slots[k])
         /\ slots'[k].n_past = slots[k].n_past /\ slots'[k].n_reused = slots[k].n_reused
         /\ slots'[k].prompt_tokens = slots[k].prompt_tokens
         /\ \/ slots'[k] = slots[k]
            \/ slots[k].i_batch /\ slots'[k].generated = Append(slots[k].generated, "a")
  <1>1. PICK last \in SUBSET {j \in Slots : slots[j].i_batch} :
          slots' = [j \in Slots |->
            IF ~slots[j].i_batch THEN slots[j] ELSE
            [slots[j] EXCEPT !.generated = Append(@, "a"), !.i_batch = FALSE,
                             !.command = IF j \in last THEN "RELEASE" ELSE @]]
    BY DEF Sample
  <1> DEFINE s == slots[k]
             command == IF k \in last THEN "RELEASE" ELSE s.command
             r == [s EXCEPT !.generated = Append(@, "a"), !.i_batch = FALSE,
                            !.command = command]
  <1>2. s \in SlotRecord /\ Progress(s)
    BY DEF TypeInv
  <1>3. CASE ~s.i_batch
    BY <1>1, <1>2, <1>3
  <1>4. CASE s.i_batch
    <2>1. /\ r \in SlotRecord /\ Progress(r) /\ ~r.i_batch
          /\ r.n_past = s.n_past /\ r.n_reused = s.n_reused
          /\ r.prompt_tokens = s.prompt_tokens /\ r.generated = Append(s.generated, "a")
      <3>1. command \in {"RELEASE", s.command}
        OBVIOUS
      <3> HIDE DEF command
      <3> QED BY <1>2, <1>4, <3>1, SampleOK
    <2>2. slots'[k] = r
      BY <1>1, <1>4
    <2> HIDE DEF r
    <2>3. Active(s)
      BY <1>2, <1>4 DEF Progress, Active
    <2> QED BY <1>4, <2>1, <2>2, <2>3
  <1> QED BY <1>3, <1>4

LEMMA NextTyped ==
  ASSUME TypeInv, [Next]_vars
  PROVE  TypeInv'
  <1> USE DEF TypeInv
  <1>1. CASE Launch
    <2>1. PICK r \in Requests, k \in Slots :
            /\ slots' = [j \in Slots |-> slots'[j]]
            /\ \A j \in Slots : /\ slots'[j] \in SlotRecord /\ Progress(slots'[j])
                                /\ ~slots'[j].i_batch
            /\ system_prompt' = IF r.system = {} THEN system_prompt
                                ELSE CHOOSE s \in r.system : TRUE
            /\ system_need_update' = (system_need_update \/ r.system # {})
      BY <1>1, LaunchedSlots
    <2>2. system_prompt' \in Text
      BY <2>1, RequestsAssumption DEF SystemTyped
    <2>3. SystemTyped'
      BY <1>1, <2>1, <2>2 DEF SystemTyped, Launch
    <2>4. launched' \in 0 .. MaxTasks
      BY <1>1, BoundsAssumption DEF Launch
    <2>5. slots' \in [Slots -> SlotRecord]
      BY <2>1
    <2> QED BY <1>1, <2>1, <2>3, <2>4, <2>5 DEF Launch
  <1>2. CASE Cancel
    <2>1. PICK k \in Slots : Generating(k) /\ slots' = [slots EXCEPT ![k] = Released(@)]
      BY <1>2 DEF Cancel
    <2>2. /\ Released(slots[k]) \in SlotRecord /\ Progress(Released(slots[k]))
          /\ ~Released(slots[k]).i_batch
      BY <1>2, ReleasedOK DEF Cancel
    <2> QED BY <1>2, <2>1, <2>2 DEF Cancel, systemVars, SystemTyped
  <1>3. CASE UpdateSystem
    <2>1. PICK decoded \in SystemDecodes :
            /\ kv' = CellsAfter(decoded) /\ system_need_update' = ~decoded
      BY <1>3 DEF UpdateSystem
    <2>2. SystemTokens(system_prompt) \in Seq(Token)
      BY SystemTokensType DEF SystemTyped
    <2>3. SystemCells(SystemTokens(system_prompt)) \in SUBSET CellSet
      BY <2>2, SystemCellsType
    <2>4. kv' \in [Slots -> SUBSET CellSet]
      BY <2>1, <2>3 DEF CellsAfter
    <2>5. SystemTyped'
      BY <1>3, <2>1, SystemTokensType DEF UpdateSystem, SystemTyped
    <2> QED BY <1>3, <2>4, <2>5 DEF UpdateSystem
  <1>4. CASE KeepSystem
    BY <1>4 DEF KeepSystem, systemVars, SystemTyped
  <1>5. CASE ReleaseSlots
    <2>1. \A k \in Slots :
            slots'[k] = IF slots[k].command = "RELEASE"
                        THEN [slots[k] EXCEPT !.state = "IDLE", !.command = "NONE"] ELSE slots[k]
      BY <1>5 DEF ReleaseSlots
    <2>2. ASSUME NEW k \in Slots
          PROVE  /\ slots'[k] \in SlotRecord /\ Progress(slots'[k]) /\ ~slots'[k].i_batch
                 /\ slots'[k].command # "RELEASE"
      <3>1. slots[k] \in SlotRecord /\ Progress(slots[k]) /\ ~slots[k].i_batch
        BY <1>5 DEF ReleaseSlots
      <3>2. CASE slots[k].command = "RELEASE"
        <4> DEFINE r == [slots[k] EXCEPT !.state = "IDLE", !.command = "NONE"]
        <4>1. r \in SlotRecord /\ Progress(r) /\ ~r.i_batch
          BY <3>1, ReleaseOK
        <4>2. r.command = "NONE"
          BY <3>1 DEF SlotRecord
        <4>3. slots'[k] = r
          BY <2>1, <3>2
        <4> HIDE DEF r
        <4> QED BY <4>1, <4>2, <4>3
      <3>3. CASE slots[k].command # "RELEASE"
        BY <2>1, <3>1, <3>3
      <3> QED BY <3>2, <3>3
    <2>3. slots' = [k \in Slots |-> slots'[k]]
      BY <1>5 DEF ReleaseSlots
    <2>4. slots' \in [Slots -> SlotRecord]
      BY <2>2, <2>3
    <2>5. kv' \in [Slots -> SUBSET CellSet]
      BY <1>5 DEF ReleaseSlots
    <2>6. pc' \in {"tasks", "batch"} /\ launched' = launched /\ SystemTyped'
      BY <1>5 DEF ReleaseSlots, systemVars, SystemTyped
    <2> QED BY <2>2, <2>4, <2>5, <2>6
  <1>6. CASE Evaluate
    <2>1. slots' = [k \in Slots |-> slots'[k]] /\ kv' = [k \in Slots |-> kv'[k]]
      BY <1>6 DEF Evaluate
    <2>2. ASSUME NEW k \in Slots
          PROVE  /\ slots'[k] \in SlotRecord /\ Progress(slots'[k]) /\ slots'[k].command # "RELEASE"
                 /\ kv'[k] \in SUBSET CellSet
      <3>1. CASE slots'[k] = slots[k] /\ kv'[k] = kv[k]
        BY <1>6, <3>1 DEF Evaluate
      <3>2. CASE ~(slots'[k] = slots[k] /\ kv'[k] = kv[k])
        <4>1. PICK t \in SlotRecord :
                /\ slots'[k] \in SlotRecord /\ Progress(slots'[k])
                /\ Active(slots'[k]) /\ slots'[k].command # "RELEASE"
                /\ t.n_past < slots'[k].n_past
                /\ kv'[k] = CellsOf(kv[k], t.n_past, slots'[k])
          BY <1>6, <3>2, EvaluateSlot
        <4>2. t.n_past \in Nat /\ kv[k] \in SUBSET CellSet /\ system_tokens \in Seq(Token)
          BY DEF SlotRecord, SystemTyped
        <4>3. CellsOf(kv[k], t.n_past, slots'[k]) \in SUBSET CellSet
          BY <4>1, <4>2, AdvancedCells
        <4> QED BY <4>1, <4>3
      <3> QED BY <3>1, <3>2
    <2>3. slots' \in [Slots -> SlotRecord] /\ kv' \in [Slots -> SUBSET CellSet]
      BY <2>1, <2>2
    <2>4. pc' = "sample" /\ launched' = launched /\ SystemTyped'
      BY <1>6 DEF Evaluate, systemVars, SystemTyped
    <2> QED BY <2>2, <2>3, <2>4
  <1>7. CASE Sample
    <2>1. slots' = [k \in Slots |-> slots'[k]]
      BY <1>7 DEF Sample
    <2>2. ASSUME NEW k \in Slots
          PROVE  slots'[k] \in SlotRecord /\ Progress(slots'[k]) /\ ~slots'[k].i_batch
      BY <1>7, <2>2, SampledSlot
    <2>3. slots' \in [Slots -> SlotRecord]
      BY <2>1, <2>2
    <2> QED BY <1>7, <2>2, <2>3 DEF Sample, systemVars, SystemTyped
  <1>8. CASE UNCHANGED vars
    BY <1>8 DEF vars, systemVars, SystemTyped
  <1> QED BY <1>1, <1>2, <1>3, <1>4, <1>5, <1>6, <1>7, <1>8 DEF Next

\* Type correctness, for any number of slots, requests, batch sizes and results
\* of decoding the system prompt: the states and commands of the slots fit each
\* other, and no slot has reused more of its context than it has.
THEOREM SystemTypeCorrect == Spec => []TypeOK
  <1>1. TypeInv => TypeOK
    <2> SUFFICES ASSUME TypeInv PROVE TypeOK
      OBVIOUS
    <2>1. ASSUME NEW k \in Slots
          PROVE  /\ slots[k].state \in {"IDLE", "PROCESSING"}
                 /\ slots[k].command \in {"NONE", "LOAD_PROMPT", "RELEASE"}
                 /\ slots[k].command = "RELEASE" => slots[k].state = "PROCESSING"
                 /\ slots[k].n_reused \in 0 .. slots[k].n_past
      <3>1. slots[k] \in SlotRecord /\ Progress(slots[k])
        BY DEF TypeInv
      <3>2. /\ slots[k].n_reused \in Nat /\ slots[k].n_past \in Nat
            /\ slots[k].n_reused <= slots[k].n_past
        BY <3>1 DEF SlotRecord, Progress
      <3> QED BY <3>1, <3>2 DEF SlotRecord, Progress
    <2> QED BY <2>1 DEF TypeInv, TypeOK, SystemTyped
  <1>2. TypeInv /\ [Next]_vars => TypeInv'
    BY NextTyped
  <1> QED BY <1>1, <1>2, InitTyped, PTL DEF Spec

-----------------------------------------------------------------------------
(***************************************************************************)
(* The context of the sampled tokens.                                      *)
(***************************************************************************)
\* Nothing is asked of a slot that has evaluated nothing but what it reuses.
LEMMA NothingOwn ==
  ASSUME system_tokens \in Seq(Token), NEW cells \in SUBSET CellSet,
         NEW s, s.n_past \in Nat, s.n_reused = s.n_past
  PROVE  /\ Between(cells, s.n_reused, s.n_past) = {}
         /\ \A context : OwnCells(context, s.n_reused, s.n_past) = {}
  <1>1. Base \in Nat
    BY LenProperties DEF Base
  <1>2. \A c \in cells : c.pos \in Nat
    BY DEF CellSet
  <1>3. \A c \in cells : ~(Base + s.n_reused <= c.pos /\ c.pos < Base + s.n_past)
    BY <1>1, <1>2
  <1>4. s.n_reused + 1 .. s.n_past = {}
    OBVIOUS
  <1> QED BY <1>3, <1>4 DEF Between, OwnCells

\* The step of a slot in a batch keeps its sequence ready.
LEMMA AdvancedReady ==
  ASSUME system_tokens \in Seq(Token), NEW cells \in SUBSET CellSet,
         NEW s \in SlotRecord, NEW t \in SlotRecord, NEW r \in SlotRecord,
         Active(s), Ready(cells, s), t = s \/ t.n_past = t.n_reused,
         t.n_reused <= t.n_past, t.n_past < r.n_past, r.n_reused = t.n_reused,
         r.prompt_tokens = t.prompt_tokens, r.generated = t.generated,
         Progress(r), Active(r)
  PROVE  LET new == CellsOf(cells, t.n_past, r)
         IN  Ready(new, r) /\ \A c \in new : c.pos < Base + r.n_past
  <1> DEFINE new == CellsOf(cells, t.n_past, r)
  <1>1. t.n_past \in Nat /\ t.n_reused \in Nat /\ r.n_past \in Nat /\ t.n_past <= r.n_past
    BY DEF SlotRecord
  <1>2. Context(r) \in Seq(Token) /\ r.n_past <= Len(Context(r)) /\ Context(t) = Context(r)
    BY FilledContext DEF Context
  <1>3. Between(cells, t.n_reused, t.n_past) =
          OwnCells(Context(r), t.n_reused, t.n_past)
    <2>1. CASE t = s
      BY <1>2, <2>1 DEF Ready, Own
    <2>2. CASE t.n_past = t.n_reused
      BY <1>1, <2>2, NothingOwn
    <2> QED BY <2>1, <2>2
  <1>4. new = Below(cells, t.n_past) \union OwnCells(Context(r), t.n_past, r.n_past)
    BY DEF CellsOf, Base, Context, Below, OwnCells
  <1> HIDE DEF new
  <1>5. /\ Below(new, 0) = Below(cells, 0)
        /\ Between(new, t.n_reused, r.n_past) =
             OwnCells(Context(r), t.n_reused, r.n_past)
        /\ \A c \in new : c.pos < Base + r.n_past
    <2> DEFINE context == Context(r)
               m == t.n_reused
               n == t.n_past
               p == r.n_past
    <2>1. /\ context \in Seq(Token) /\ m \in Nat /\ n \in Nat /\ p \in Nat
          /\ m <= n /\ n <= p /\ p <= Len(context)
      BY <1>1, <1>2
    <2>2. /\ new = Below(cells, n) \union OwnCells(context, n, p)
          /\ Between(cells, m, n) = OwnCells(context, m, n)
      BY <1>3, <1>4
    <2> HIDE DEF context, m, n, p
    <2>3. /\ Below(new, 0) = Below(cells, 0)
          /\ Between(new, m, p) = OwnCells(context, m, p)
          /\ \A c \in new : c.pos < Base + p
      <3> USE <2>1, <2>2
      <3> DEFINE at(i) == Cell(Base + i - 1, context[i], system_tokens)
                 old == {c \in cells : c.pos < Base + n}
                 fresh == OwnCells(context, n, p)
      <3>1. Base \in Nat /\ Len(context) \in Nat
        BY LenProperties DEF Base
      <3>2. \A i \in 1 .. Len(context) : context[i] \in Token
        BY ElementOfSeq
      <3>3. \A i \in 1 .. Len(context) : /\ at(i) \in CellSet /\ at(i).pos = Base + i - 1
        BY <3>1, <3>2 DEF Cell, CellSet
      <3>4. fresh = {at(i) : i \in n + 1 .. p} /\ new = old \union fresh
        BY DEF OwnCells, Below
      <3> HIDE DEF fresh
      <3>5. \A c \in cells : c \in CellSet /\ c.pos \in Nat
        BY DEF CellSet
      <3>6. \A c \in fresh : /\ c \in CellSet /\ c.pos \in Nat
                             /\ Base + n <= c.pos /\ c.pos < Base + p
        <4> SUFFICES ASSUME NEW i \in n + 1 .. p
                     PROVE  /\ at(i) \in CellSet /\ at(i).pos \in Nat
                            /\ Base + n <= at(i).pos /\ at(i).pos < Base + p
          BY <3>4
        <4>1. i \in 1 .. Len(context) /\ i \in Nat /\ n < i /\ i <= p
          BY <3>1
        <4>2. at(i) \in CellSet /\ at(i).pos = Base + i - 1
          BY <3>3, <4>1
        <4> HIDE DEF at
        <4> QED BY <3>1, <4>1, <4>2
      <3>7. OwnCells(context, m, p) = Between(cells, m, n) \union fresh
        <4>1. Between(cells, m, n) = {at(i) : i \in m + 1 .. n}
                /\ OwnCells(context, m, p) = {at(i) : i \in m + 1 .. p}
          BY DEF OwnCells
        <4>2. \A i : i \in m + 1 .. p <=> i \in m + 1 .. n \/ i \in n + 1 .. p
          OBVIOUS
        <4> HIDE DEF at
        <4> QED BY <3>4, <4>1, <4>2
      <3> DEFINE In(c, q) == Base + m <= c.pos /\ c.pos < Base + q
      <3>8. Below(new, 0) = Below(cells, 0)
        <4>1. \A c \in cells : c.pos < Base => c.pos < Base + n
          BY <3>1, <3>5
        <4>2. \A c \in fresh : ~(c.pos < Base)
          BY <3>1, <3>6
        <4>3. Base + 0 = Base
          BY <3>1
        <4> QED BY <3>4, <4>1, <4>2, <4>3 DEF Below
      <3>9. Between(new, m, p) = OwnCells(context, m, p)
        <4>1. \A c \in cells : In(c, n) <=> c \in old /\ In(c, p)
          BY <3>1, <3>5
        <4>2. \A c \in fresh : In(c, p)
          BY <3>1, <3>6
        <4>3. old \subseteq cells
          OBVIOUS
        <4> HIDE DEF old, In
        <4>4. {c \in new : In(c, p)} = {c \in cells : In(c, n)} \union fresh
          BY <3>4, <4>1, <4>2, <4>3
        <4> QED BY <3>7, <4>4 DEF Between, In
      <3>10. \A c \in new : c.pos < Base + p
        BY <3>1, <3>4, <3>5, <3>6
      <3> QED BY <3>8, <3>9, <3>10
    <2> QED BY <2>3 DEF context, m, p
  <1> QED BY <1>5 DEF Ready, Own, new

\* A slot that changed outside the batch, and relies on no more than before.
LEMMA StaysReady ==
  ASSUME system_tokens \in Seq(Token), NEW cells \in SUBSET CellSet,
         NEW s, NEW r \in SlotRecord, Progress(r), Ready(cells, s),
         Active(r) => r.n_past = 0 \/ r = s
  PROVE  Ready(cells, r)
  <1>1. ASSUME Active(r), r.n_past = 0
        PROVE  Between(cells, r.n_reused, r.n_past) = Own(r)
    <2>1. r.n_past \in Nat /\ r.n_reused = r.n_past
      BY <1>1 DEF SlotRecord, Progress
    <2> QED BY <2>1, NothingOwn DEF Own
  <1> QED BY <1>1 DEF Ready

\* A sampled token is not evaluated yet: the tokens up to n_past are the same.
LEMMA SampledReady ==
  ASSUME system_tokens \in Seq(Token), NEW cells \in SUBSET CellSet,
         NEW s \in SlotRecord, Progress(s), NEW r \in SlotRecord,
         Ready(cells, s), Active(r) => Active(s),
         r.n_past = s.n_past, r.n_reused = s.n_reused, r.prompt_tokens = s.prompt_tokens,
         r = s \/ r.generated = Append(s.generated, "a")
  PROVE  Ready(cells, r)
  <1>1. CASE r = s
    BY <1>1
  <1>2. CASE ~Active(r)
    BY <1>2 DEF Ready
  <1>3. CASE Active(r) /\ r.generated = Append(s.generated, "a")
    <2>1. /\ s.prompt_tokens \in Seq(Token) /\ s.generated \in Seq(Token)
          /\ <<"a">> \in Seq(Token) /\ "a" \in Token
          /\ s.n_reused \in Nat /\ s.n_past \in Nat
      BY DEF SlotRecord, Token
    <2>2. Context(s) \in Seq(Token) /\ s.n_past <= Len(Context(s)) /\ Len(Context(s)) \in Nat
      BY <1>3, FilledContext, LenProperties
    <2>3. Context(r) = Append(Context(s), "a")
      <3>1. \A u, v \in Seq(Token) : u \o Append(v, "a") = Append(u \o v, "a")
        OBVIOUS
      <3> QED BY <1>3, <2>1, <3>1 DEF Context
    <2>4. \A i \in 1 .. Len(Context(s)) : Context(r)[i] = Context(s)[i]
      BY <2>1, <2>2, <2>3, Appended
    <2>5. \A i \in s.n_reused + 1 .. s.n_past : Context(r)[i] = Context(s)[i]
      BY <2>1, <2>2, <2>4
    <2>6. Own(r) = Own(s)
      BY <2>5 DEF Own, OwnCells
    <2> QED BY <1>3, <2>6 DEF Ready
  <1> QED BY <1>1, <1>2, <1>3

LEMMA ReadyAgain ==
  ASSUME UNCHANGED system_tokens, NEW k, Ready(kv'[k], slots'[k])
  PROVE  Ready(kv[k], slots[k])'
  BY DEF Ready, Below, Between, Own, OwnCells, Base, Context, Active, Loads, Generates

LEMMA InitCached == Init => CacheInv
  <1> SUFFICES ASSUME Init PROVE CacheInv
    OBVIOUS
  <1>1. \A k \in Slots : ~Active(slots[k]) /\ ~slots[k].i_batch /\ kv[k] = {}
    BY FreshOK DEF Init
  <1>2. SystemCells(<<>>) = {}
    BY DEF SystemCells
  <1>3. \A k \in Slots : Ready(kv[k], slots[k])
    BY <1>1, <1>2 DEF Init, Ready, Below
  <1>4. ~system_need_update => system_tokens = SystemTokens(system_prompt)
    BY DEF Init, SystemTokens
  <1> QED BY <1>1, <1>3, <1>4 DEF Init, CacheInv

LEMMA NextCached ==
  ASSUME FALSE \notin SystemDecodes, TypeInv, CacheInv, [Next]_vars, TypeInv'
  PROVE  CacheInv'
  <1>0. /\ system_tokens \in Seq(Token) /\ system_prompt \in Text
        /\ system_need_update \in BOOLEAN
        /\ \A k \in Slots : /\ kv[k] \in SUBSET CellSet /\ slots[k] \in SlotRecord
                            /\ Progress(slots[k])
                            /\ slots'[k] \in SlotRecord /\ Progress(slots'[k])
    BY DEF TypeInv, SystemTyped
  <1>1. CASE Launch
    <2>1. PICK r \in Requests, k \in Slots :
            /\ \A j \in Slots : slots'[j] \in SlotRecord /\ Progress(slots'[j])
            /\ slots'[k].n_past = 0
            /\ IF r.system = {} THEN \A j \in Slots \ {k} : slots'[j] = slots[j]
               ELSE \A j \in Slots : slots'[j].n_past = 0
            /\ system_prompt' = IF r.system = {} THEN system_prompt
                                ELSE CHOOSE s \in r.system : TRUE
            /\ system_need_update' = (system_need_update \/ r.system # {})
      BY <1>1, LaunchedSlots
    <2>2. pc' = "tasks" /\ pc = "tasks" /\ kv' = kv /\ system_tokens' = system_tokens
      BY <1>1 DEF Launch
    <2>3. CASE r.system # {}
      <3>1. system_need_update'
        BY <2>1, <2>3
      <3>2. \A j \in Slots : slots'[j].n_past = 0
        BY <2>1, <2>3
      <3> QED BY <2>2, <3>1, <3>2 DEF CacheInv
    <2>4. CASE r.system = {}
      <3>1. system_need_update' = system_need_update /\ system_prompt' = system_prompt
        BY <1>0, <2>1, <2>4
      <3>2. \A j \in Slots : slots'[j] = slots[j] \/ slots'[j].n_past = 0
        BY <2>1, <2>4
      <3>3. ASSUME system_need_update
            PROVE  \A j \in Slots : Active(slots'[j]) => slots'[j].n_past = 0
        BY <3>2, <3>3 DEF CacheInv
      <3>4. ASSUME ~system_need_update, NEW j \in Slots
            PROVE  Ready(kv[j], slots[j])'
        <4>1. Ready(kv[j], slots[j])
          BY <3>4 DEF CacheInv
        <4>2. Ready(kv[j], slots'[j])
          BY <1>0, <3>2, <4>1, StaysReady
        <4>3. Ready(kv'[j], slots'[j])
          BY <2>2, <4>2
        <4> QED BY <2>2, <4>3, ReadyAgain
      <3> QED BY <2>2, <3>1, <3>3, <3>4 DEF CacheInv, Active, Loads, Generates
    <2> QED BY <2>3, <2>4
  <1>2. CASE Cancel
    <2>1. PICK k \in Slots : Generating(k) /\ slots' = [slots EXCEPT ![k] = Released(@)]
      BY <1>2 DEF Cancel
    <2>2. UNCHANGED <<system_prompt, system_need_update>> /\ system_tokens' = system_tokens
            /\ kv' = kv /\ pc = "tasks" /\ pc' = "tasks"
      BY <1>2 DEF Cancel, systemVars
    <2>3. ~slots[k].i_batch
      BY <2>2 DEF TypeInv
    <2>4. ~Active(Released(slots[k]))
      BY <1>0, <2>1, <2>3, ReleasedOK DEF Generating
    <2>5. \A j \in Slots : Active(slots'[j]) => slots'[j] = slots[j]
      BY <2>1, <2>4 DEF TypeInv
    <2>6. ASSUME ~system_need_update, NEW j \in Slots
          PROVE  Ready(kv[j], slots[j])'
      <3>1. Ready(kv[j], slots[j])
        BY <2>6 DEF CacheInv
      <3>2. Ready(kv[j], slots'[j])
        BY <1>0, <2>5, <3>1, StaysReady
      <3>3. Ready(kv'[j], slots'[j])
        BY <2>2, <3>2
      <3> QED BY <2>2, <3>3, ReadyAgain
    <2> QED BY <2>2, <2>5, <2>6 DEF CacheInv, Active, Loads, Generates
  <1>3. CASE UpdateSystem
    <2>1. /\ system_need_update /\ ~system_need_update' /\ slots' = slots
          /\ pc' = "release" /\ system_prompt' = system_prompt
          /\ system_tokens' = SystemTokens(system_prompt)
          /\ kv' = [k \in Slots |-> SystemCells(SystemTokens(system_prompt))]
      BY <1>3, SystemAssumption DEF UpdateSystem, CellsAfter
    <2>2. ASSUME NEW k \in Slots
          PROVE  Ready(kv[k], slots[k])'
      <3> DEFINE toks == system_tokens'
      <3>1. /\ toks \in Seq(Token) /\ kv'[k] = SystemCells(toks)
            /\ kv'[k] \in SUBSET CellSet
            /\ Len(toks) \in Nat /\ \A c \in kv'[k] : c.pos < Len(toks)
        BY <1>0, <2>1, SystemTokensType, SystemCellsType, LenProperties
      <3>2. Below(kv[k], 0)' = SystemCells(toks)
        <4>1. Len(toks) + 0 = Len(toks)
          BY <3>1
        <4> QED BY <3>1, <4>1 DEF Below, Base
      <3>3. ASSUME Active(slots[k])
            PROVE  Between(kv[k], slots[k].n_reused, slots[k].n_past)' = Own(slots[k])'
        <4>1. slots[k].n_past = 0 /\ slots[k].n_reused = 0
          <5>1. slots[k].n_past = 0
            BY <2>1, <3>3 DEF CacheInv
          <5>2. slots[k].n_reused \in Nat /\ slots[k].n_reused <= slots[k].n_past
            BY <1>0 DEF SlotRecord, Progress
          <5> QED BY <5>1, <5>2
        <4>2. \A c \in kv'[k] : ~(Len(toks) + 0 <= c.pos /\ c.pos < Len(toks) + 0)
          BY <3>1 DEF CellSet
        <4>3. Between(kv[k], slots[k].n_reused, slots[k].n_past)' = {}
          BY <2>1, <4>1, <4>2 DEF Between, Base
        <4>4. 0 + 1 .. 0 = {}
          OBVIOUS
        <4>5. Own(slots[k])' = {}
          BY <2>1, <4>1, <4>4 DEF Own, OwnCells
        <4> QED BY <4>3, <4>5
      <3> QED BY <2>1, <3>2, <3>3 DEF Ready, Active, Loads, Generates
    <2> QED BY <2>1, <2>2 DEF CacheInv
  <1>4. CASE KeepSystem
    <2>1. /\ ~system_need_update /\ UNCHANGED <<system_prompt, system_need_update, slots, kv>>
          /\ system_tokens' = system_tokens /\ pc' = "release"
      BY <1>4 DEF KeepSystem, systemVars
    <2>2. \A k \in Slots : Ready(kv[k], slots[k])'
      BY <2>1, ReadyAgain DEF CacheInv
    <2> QED BY <2>1, <2>2 DEF CacheInv
  <1>5. CASE ReleaseSlots
    <2>1. /\ UNCHANGED <<system_prompt, system_need_update>> /\ system_tokens' = system_tokens
          /\ pc = "release" /\ pc' \in {"tasks", "batch"}
          /\ \A k \in Slots :
               slots'[k] = IF slots[k].command = "RELEASE"
                           THEN [slots[k] EXCEPT !.state = "IDLE", !.command = "NONE"] ELSE slots[k]
      BY <1>5 DEF ReleaseSlots, systemVars
    <2>2. ~system_need_update /\ system_tokens = SystemTokens(system_prompt)
      BY <2>1 DEF CacheInv
    <2>3. \A k \in Slots : ~slots[k].i_batch
      BY <2>1 DEF TypeInv
    <2>4. ASSUME NEW k \in Slots
          PROVE  Active(slots'[k]) => slots'[k] = slots[k]
      BY <1>0, <2>1, <2>3, ReleaseOK
    <2>5. CASE kv' = kv
      <3>1. ASSUME NEW k \in Slots
            PROVE  Ready(kv[k], slots[k])'
        <4>1. Ready(kv[k], slots[k])
          BY <2>2 DEF CacheInv
        <4>2. Ready(kv[k], slots'[k])
          BY <1>0, <2>4, <4>1, StaysReady
        <4>3. Ready(kv'[k], slots'[k])
          BY <2>5, <4>2
        <4> QED BY <2>1, <4>3, ReadyAgain
      <3> QED BY <2>1, <2>2, <3>1 DEF CacheInv
    <2>6. CASE kv' # kv
      <3>1. /\ system_prompt = <<>> /\ kv' = [k \in Slots |-> {}]
            /\ \A k \in Slots : slots[k].command = "RELEASE" \/ Available(k)
        BY <1>5, <2>6 DEF ReleaseSlots
      <3>2. \A k \in Slots : ~Active(slots'[k])
        <4>1. \A k \in Slots : slots[k].command = "RELEASE" => ~Active(slots'[k])
          BY <1>0, <2>1, <2>3, ReleaseOK
        <4>2. \A k \in Slots : Available(k) => ~Active(slots[k])
          BY DEF Available, Active, Loads, Generates
        <4>3. \A k \in Slots : slots[k].command # "RELEASE" => slots'[k] = slots[k]
          BY <2>1
        <4> QED BY <3>1, <4>1, <4>2, <4>3
      <3>3. SystemCells(system_tokens) = {}
        BY <2>2, <3>1 DEF SystemTokens, SystemCells
      <3>4. ASSUME NEW k \in Slots
            PROVE  Ready(kv[k], slots[k])'
        <4>1. Ready(kv'[k], slots'[k])
          BY <3>1, <3>2, <3>3 DEF Ready, Below
        <4> QED BY <2>1, <4>1, ReadyAgain
      <3> QED BY <2>1, <2>2, <3>4 DEF CacheInv
    <2> QED BY <2>5, <2>6
  <1>6. CASE Evaluate
    <2>1. /\ UNCHANGED <<system_prompt, system_need_update>> /\ system_tokens' = system_tokens
          /\ pc = "batch" /\ pc' = "sample"
      BY <1>6 DEF Evaluate, systemVars
    <2>2. ~system_need_update /\ system_tokens = SystemTokens(system_prompt)
      BY <2>1 DEF CacheInv
    <2>3. ASSUME NEW k \in Slots
          PROVE  /\ Ready(kv'[k], slots'[k])
                 /\ slots'[k].i_batch => \A c \in kv'[k] : c.pos < Base + slots'[k].n_past
      <3>1. Ready(kv[k], slots[k])
        BY <2>2 DEF CacheInv
      <3>2. CASE slots'[k] = slots[k] /\ kv'[k] = kv[k] /\ ~slots'[k].i_batch
        BY <3>1, <3>2
      <3>3. CASE ~(slots'[k] = slots[k] /\ kv'[k] = kv[k] /\ ~slots'[k].i_batch)
        <4>1. PICK t \in SlotRecord :
                /\ t = slots[k] \/ t.n_past = t.n_reused
                /\ Active(slots[k]) /\ t.n_reused <= t.n_past
                /\ slots'[k] \in SlotRecord /\ Progress(slots'[k])
                /\ Active(slots'[k])
                /\ t.n_past < slots'[k].n_past /\ slots'[k].n_reused = t.n_reused
                /\ slots'[k].prompt_tokens = t.prompt_tokens
                /\ slots'[k].generated = t.generated
                /\ kv'[k] = CellsOf(kv[k], t.n_past, slots'[k])
          BY <1>6, <3>3, EvaluateSlot
        <4> QED BY <1>0, <3>1, <4>1, AdvancedReady
      <3> QED BY <3>2, <3>3
    <2>4. \A k \in Slots : Ready(kv[k], slots[k])'
      BY <2>1, <2>3, ReadyAgain
    <2>5. \A k \in Slots : slots'[k].i_batch =>
            \A c \in kv'[k] : c.pos < Base' + slots'[k].n_past
      BY <2>1, <2>3 DEF Base
    <2> QED BY <2>1, <2>2, <2>4, <2>5 DEF CacheInv
  <1>7. CASE Sample
    <2>1. /\ UNCHANGED <<system_prompt, system_need_update>> /\ system_tokens' = system_tokens
          /\ pc = "sample" /\ pc' = "tasks" /\ kv' = kv
      BY <1>7 DEF Sample, systemVars
    <2>2. ~system_need_update /\ system_tokens = SystemTokens(system_prompt)
      BY <2>1 DEF CacheInv
    <2>3. ASSUME NEW k \in Slots
          PROVE  Ready(kv[k], slots[k])'
      <3>1. Ready(kv[k], slots[k])
        BY <2>2 DEF CacheInv
      <3>2. /\ Active(slots'[k]) => Active(slots[k])
            /\ slots'[k].n_past = slots[k].n_past /\ slots'[k].n_reused = slots[k].n_reused
            /\ slots'[k].prompt_tokens = slots[k].prompt_tokens
            /\ \/ slots'[k] = slots[k]
               \/ slots'[k].generated = Append(slots[k].generated, "a")
        BY <1>7, SampledSlot
      <3>3. Ready(kv[k], slots'[k])
        BY <1>0, <3>1, <3>2, SampledReady
      <3>4. Ready(kv'[k], slots'[k])
        BY <2>1, <3>3
      <3> QED BY <2>1, <3>4, ReadyAgain
    <2> QED BY <2>1, <2>2, <2>3 DEF CacheInv
  <1>8. CASE UNCHANGED vars
    <2>1. /\ UNCHANGED <<system_prompt, system_need_update, slots, kv, pc>>
          /\ system_tokens' = system_tokens
      BY <1>8 DEF vars, systemVars
    <2>2. ~system_need_update => \A k \in Slots : Ready(kv[k], slots[k])'
      BY <2>1, ReadyAgain DEF CacheInv
    <2> QED BY <2>1, <2>2 DEF CacheInv, Base, Active, Loads, Generates
  <1> QED BY <1>1, <1>2, <1>3, <1>4, <1>5, <1>6, <1>7, <1>8 DEF Next

LEMMA OwnPartCached ==
  ASSUME TypeInv, CacheInv
  PROVE  OwnPartComplete
  <1> SUFFICES ASSUME pc = "sample", NEW k \in Slots, slots[k].i_batch
               PROVE  {c \in kv[k] : c.pos \notin ReusedPositions(slots[k])}
                        = SystemCells(SystemTokens(system_prompt)) \union OwnPart(slots[k])
    BY DEF OwnPartComplete
  <1> DEFINE s == slots[k]
             others == {c \in kv[k] : c.pos \notin ReusedPositions(s)}
  <1>1. /\ s \in SlotRecord /\ Progress(s) /\ kv[k] \in SUBSET CellSet
        /\ system_tokens \in Seq(Token)
    BY DEF TypeInv, SystemTyped
  <1>2. system_tokens = SystemTokens(system_prompt) /\ Ready(kv[k], s)
          /\ \A c \in kv[k] : c.pos < Base + s.n_past
    BY DEF CacheInv
  <1>3. Active(s)
    BY <1>1 DEF Progress, Active
  <1>4. Base \in Nat /\ s.n_reused \in Nat /\ s.n_past \in Nat /\ s.n_reused <= s.n_past
    BY <1>1, LenProperties DEF Base, SlotRecord, Progress
  <1>5. \A c \in kv[k] : c.pos \in Nat
    BY <1>1 DEF CellSet
  <1>6. Below(kv[k], 0) = SystemCells(system_tokens)
          /\ Between(kv[k], s.n_reused, s.n_past) = Own(s)
    BY <1>2, <1>3 DEF Ready
  <1>7. others = Below(kv[k], 0) \union Between(kv[k], s.n_reused, s.n_past)
    <2>1. ReusedPositions(s) = Base .. Base + s.n_reused - 1
      BY <1>2 DEF ReusedPositions, Base
    <2>2. \A c \in kv[k] : c.pos \notin ReusedPositions(s) <=>
            c.pos < Base + 0 \/ (Base + s.n_reused <= c.pos /\ c.pos < Base + s.n_past)
      BY <1>2, <1>4, <1>5, <2>1
    <2> QED BY <2>2 DEF Below, Between
  <1>8. OwnPart(s) = Own(s)
    BY <1>2 DEF OwnPart, Own, OwnCells, Context, Base
  <1> QED BY <1>2, <1>6, <1>7, <1>8

\* When the system prompt can be decoded, every token of every slot is sampled
\* behind the system prompt of now and all that its task evaluated itself, with
\* nothing stale between or behind them, for any number of slots, any system
\* prompts that come and go, and prompts of any length in batches of any size.
\* (Of the tokens a task reuses it says nothing; every batch is decoded.)
THEOREM OwnPartAlwaysComplete ==
  ASSUME FALSE \notin SystemDecodes
  PROVE  Spec => []OwnPartComplete
  <1>1. TypeInv /\ CacheInv /\ [Next]_vars => TypeInv' /\ CacheInv'
    BY NextTyped, NextCached
  <1>2. TypeInv /\ CacheInv => OwnPartComplete
    BY OwnPartCached
  <1> QED BY <1>1, <1>2, InitTyped, InitCached, PTL DEF Spec

=============================================================================
