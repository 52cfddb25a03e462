--------------------------- MODULE DispatchProofs ---------------------------
(***************************************************************************)
(* Proofs about Dispatch, for every number of slots, every request and     *)
(* every similarity: the types, that a slot has what its task asks for,    *)
(* that a deferred task waits for somebody, and that the best slot is      *)
(* taken.                                                                  *)
(*                                                                         *)
(* logit_bias is a fold over an array of any length.  What it computes is  *)
(* found by induction, for which least elements of sets of numbers do      *)
(* (LeastNat): nothing else is needed of the library.                      *)
(***************************************************************************)
EXTENDS Dispatch, WellFoundedInduction, TLAPS

(***************************************************************************)
(* Least elements, which give induction and the results of CHOOSE.         *)
(***************************************************************************)
LEMMA LeastNat ==
  ASSUME NEW S \in SUBSET Nat, S # {}
  PROVE  \E n \in S : \A m \in S : n <= m
  <1> DEFINE R == {ss \in Nat \X Nat : ss[1] < ss[2]}
  <1>1. IsWellFoundedOn(R, Nat)
    BY NatLessThanWellFounded DEF OpToRel
  <1>2. PICK n \in S : \A m \in S : <<m, n>> \notin R
    <2> HIDE DEF R
    <2> QED BY <1>1, WFMin
  <1>3. \A m \in S : ~(m < n)
    BY <1>2
  <1> QED BY <1>3

\* A set that holds 0 and with each number the next one holds all.
LEMMA NatInduct ==
  ASSUME NEW P, 0 \in P, \A n \in Nat : n \in P => n + 1 \in P
  PROVE  Nat \subseteq P
  <1> SUFFICES ASSUME Nat \ P # {}
               PROVE  FALSE
    OBVIOUS
  <1>1. PICK n \in Nat \ P : \A m \in Nat \ P : n <= m
    BY LeastNat
  <1>2. n - 1 \in Nat /\ n - 1 \in P
    BY <1>1
  <1> QED BY <1>1, <1>2

LEMMA LeastValue ==
  ASSUME NEW S, S # {}, NEW f, \A k \in S : f[k] \in Nat
  PROVE  \E k \in S : \A j \in S : f[k] <= f[j]
  <1> DEFINE V == {f[k] : k \in S}
  <1>1. V \in SUBSET Nat /\ V # {}
    OBVIOUS
  <1> HIDE DEF V
  <1>2. PICK n \in V : \A m \in V : n <= m
    BY <1>1, LeastNat
  <1> QED BY <1>2 DEF V

LEMMA FirstOfIs ==
  ASSUME NEW S \in SUBSET Slots, S # {}
  PROVE  FirstOf(S) \in S
  <1>1. S \in SUBSET Nat
    BY SlotsAssumption DEF Slots
  <1>2. \E k \in S : \A j \in S : k <= j
    BY <1>1, LeastNat
  <1> QED BY <1>2 DEF FirstOf

(***************************************************************************)
(* logit_bias: the fold over the array, entry by entry.                    *)
(***************************************************************************)
\* f maps each set of indices up to n to the bias that its entries leave.
Folds(f, base, seq, n) ==
  f = [s \in SUBSET (1 .. n) |->
         IF s = {} THEN base ELSE ApplyBias(f[s \ {Max(s)}], seq[Max(s)])]

LEMMA MaxIs ==
  ASSUME NEW n \in Nat, NEW s \in SUBSET (1 .. n + 1), n + 1 \in s
  PROVE  Max(s) = n + 1
  <1>1. \A x \in s : (\A y \in s : x >= y) <=> x = n + 1
    OBVIOUS
  <1> QED BY <1>1 DEF Max

LEMMA FoldsOneMore ==
  ASSUME NEW base, NEW seq, NEW n \in Nat, NEW f, Folds(f, base, seq, n)
  PROVE  \E g : Folds(g, base, seq, n + 1)
  <1> DEFINE up(s) == n + 1 \in s
             g == [s \in SUBSET (1 .. n + 1) |->
                     IF up(s) THEN ApplyBias(f[s \ {n + 1}], seq[n + 1]) ELSE f[s]]
             h == [s \in SUBSET (1 .. n + 1) |->
                     IF s = {} THEN base ELSE ApplyBias(g[s \ {Max(s)}], seq[Max(s)])]
  <1>1. ASSUME NEW s \in SUBSET (1 .. n + 1)
        PROVE  g[s] = h[s]
    <2>1. CASE up(s)
      <3>1. Max(s) = n + 1 /\ s # {}
        BY <2>1, MaxIs
      <3>2. s \ {n + 1} \in SUBSET (1 .. n + 1) /\ ~up(s \ {n + 1})
        OBVIOUS
      <3>3. g[s \ {n + 1}] = f[s \ {n + 1}]
        BY <3>2
      <3>4. h[s] = ApplyBias(f[s \ {n + 1}], seq[n + 1])
        BY <3>1, <3>3
      <3> QED BY <2>1, <3>4
    <2>2. CASE ~up(s)
      <3>1. s \in SUBSET (1 .. n)
        BY <2>2
      <3>2. s \ {Max(s)} \in SUBSET (1 .. n) /\ ~up(s \ {Max(s)})
        <4>1. \A x : s \ {x} \in SUBSET (1 .. n) /\ ~up(s \ {x})
          BY <2>2, <3>1
        <4> QED BY <4>1
      <3>3. SUBSET (1 .. n) \subseteq SUBSET (1 .. n + 1)
        OBVIOUS
      <3>4. g[s] = f[s] /\ g[s \ {Max(s)}] = f[s \ {Max(s)}]
        BY <2>2, <3>2, <3>3
      <3>5. f[s] = IF s = {} THEN base ELSE ApplyBias(f[s \ {Max(s)}], seq[Max(s)])
        BY <3>1 DEF Folds
      <3> QED BY <3>4, <3>5
    <2> QED BY <2>1, <2>2
  <1>2. g = h
    BY <1>1
  <1> QED BY <1>2 DEF Folds

LEMMA FoldsExist ==
  ASSUME NEW base, NEW seq, NEW n \in Nat
  PROVE  \E f : Folds(f, base, seq, n)
  <1> DEFINE P == {m \in Nat : \E f : Folds(f, base, seq, m)}
             f0 == [s \in SUBSET (1 .. 0) |-> base]
  <1>1. f0 = [s \in SUBSET (1 .. 0) |->
                IF s = {} THEN base ELSE ApplyBias(f0[s \ {Max(s)}], seq[Max(s)])]
    <2>1. \A s \in SUBSET (1 .. 0) : s = {}
      OBVIOUS
    <2> QED BY <2>1
  <1>2. 0 \in P
    BY <1>1 DEF Folds
  <1>3. \A m \in Nat : m \in P => m + 1 \in P
    BY FoldsOneMore
  <1>4. Nat \subseteq P
    <2> HIDE DEF P
    <2> QED BY <1>2, <1>3, NatInduct
  <1> QED BY <1>4

\* What the first n entries of the array leave of the bias that it starts from.
LEMMA BiasSteps ==
  ASSUME NEW base, NEW seq \in Seq(BiasType)
  PROVE  \E f : /\ f[{}] = base
                /\ \A n \in 0 .. Len(seq) - 1 :
                     f[1 .. n + 1] = ApplyBias(f[1 .. n], seq[n + 1])
                /\ FoldLeft(ApplyBias, base, seq) = f[1 .. Len(seq)]
  <1>1. PICK m \in Nat : m = Len(seq) /\ DOMAIN seq = 1 .. m
    OBVIOUS
  <1> DEFINE f == CHOOSE g : Folds(g, base, seq, m)
  <1>2. Folds(f, base, seq, m)
    BY FoldsExist
  <1>3. FoldLeft(ApplyBias, base, seq) = f[1 .. m]
    BY <1>1 DEF FoldLeft, MapThenFoldSet, Folds
  <1> HIDE DEF f
  <1>4. f[{}] = base
    BY <1>2 DEF Folds
  <1>5. ASSUME NEW n \in 0 .. m - 1
        PROVE  f[1 .. n + 1] = ApplyBias(f[1 .. n], seq[n + 1])
    <2>1. /\ 1 .. n + 1 \in SUBSET (1 .. m) /\ 1 .. n + 1 # {}
          /\ (1 .. n + 1) \ {n + 1} = 1 .. n
      <3>1. n \in Nat /\ n + 1 <= m
        OBVIOUS
      <3>2. 1 .. n + 1 \in SUBSET (1 .. m)
        BY <3>1
      <3>3. 1 .. n + 1 # {}
        <4>1. 1 \in 1 .. n + 1
          BY <3>1
        <4> QED BY <4>1
      <3>4. (1 .. n + 1) \ {n + 1} = 1 .. n
        BY <3>1
      <3> QED BY <3>2, <3>3, <3>4
    <2>2. Max(1 .. n + 1) = n + 1
      BY MaxIs
    <2> QED BY <1>2, <2>1, <2>2 DEF Folds
  <1> QED BY <1>1, <1>3, <1>4, <1>5

Names(e, t)  == t \in e.tokens /\ e.bias # "other"
BiasValue(e) == IF e.bias = "number" THEN "value" ELSE "-inf"
BiasTable    == [Vocabulary -> {"none", "value", "-inf"}]

\* The last of the first n entries that names t decides, else the start.
Decided(bias, base, seq, n, t) ==
  LET naming == {i \in 1 .. n : Names(seq[i], t)}
  IN  \/ naming = {} /\ bias[t] = base[t]
      \/ \E i \in naming : (\A j \in naming : j <= i) /\ bias[t] = BiasValue(seq[i])

LEMMA DecidedOneMore ==
  ASSUME NEW base, NEW seq \in Seq(BiasType), NEW n \in 0 .. Len(seq) - 1, NEW bias,
         NEW t \in Vocabulary, Decided(bias, base, seq, n, t)
  PROVE  Decided(ApplyBias(bias, seq[n + 1]), base, seq, n + 1, t)
  <1> DEFINE naming == {i \in 1 .. n : Names(seq[i], t)}
             more   == {i \in 1 .. n + 1 : Names(seq[i], t)}
             new    == ApplyBias(bias, seq[n + 1])
  <1>1. n \in Nat
    OBVIOUS
  <1>2. new[t] = IF Names(seq[n + 1], t) THEN BiasValue(seq[n + 1]) ELSE bias[t]
    BY DEF ApplyBias, Names, BiasValue
  <1>3. CASE Names(seq[n + 1], t)
    <2>1. n + 1 \in more /\ \A j \in more : j <= n + 1
      BY <1>1, <1>3
    <2>2. new[t] = BiasValue(seq[n + 1])
      BY <1>2, <1>3
    <2> QED BY <2>1, <2>2 DEF Decided
  <1>4. CASE ~Names(seq[n + 1], t)
    <2>1. more = naming
      BY <1>1, <1>4
    <2>2. new[t] = bias[t]
      BY <1>2, <1>4
    <2> QED BY <2>1, <2>2 DEF Decided
  <1> QED BY <1>3, <1>4

LEMMA BiasDecided ==
  ASSUME NEW base \in BiasTable, NEW seq \in Seq(BiasType)
  PROVE  LET bias == FoldLeft(ApplyBias, base, seq)
         IN  /\ bias \in BiasTable
             /\ \A t \in Vocabulary : Decided(bias, base, seq, Len(seq), t)
  <1>1. PICK f : /\ f[{}] = base
                 /\ \A n \in 0 .. Len(seq) - 1 :
                      f[1 .. n + 1] = ApplyBias(f[1 .. n], seq[n + 1])
                 /\ FoldLeft(ApplyBias, base, seq) = f[1 .. Len(seq)]
    BY BiasSteps
  <1>2. PICK m \in Nat : m = Len(seq)
    OBVIOUS
  <1> DEFINE P == {n \in Nat : n <= m =>
                     /\ f[1 .. n] \in BiasTable
                     /\ \A t \in Vocabulary : Decided(f[1 .. n], base, seq, n, t)}
  <1>3. 0 \in P
    <2>1. 1 .. 0 = {}
      OBVIOUS
    <2>2. \A t \in Vocabulary : Decided(base, base, seq, 0, t)
      BY <2>1 DEF Decided
    <2> QED BY <1>1, <2>1, <2>2
  <1>4. ASSUME NEW n \in Nat, n \in P
        PROVE  n + 1 \in P
    <2>1. CASE n + 1 <= m
      <3>1. n \in 0 .. Len(seq) - 1
        BY <1>2, <2>1
      <3>2. /\ f[1 .. n] \in BiasTable
            /\ \A t \in Vocabulary : Decided(f[1 .. n], base, seq, n, t)
        BY <1>4, <2>1
      <3>3. f[1 .. n + 1] = ApplyBias(f[1 .. n], seq[n + 1])
        BY <1>1, <3>1
      <3>4. f[1 .. n + 1] \in BiasTable
        BY <3>2, <3>3 DEF ApplyBias, BiasTable
      <3>5. \A t \in Vocabulary : Decided(f[1 .. n + 1], base, seq, n + 1, t)
        BY <3>1, <3>2, <3>3, DecidedOneMore
      <3> QED BY <3>4, <3>5
    <2>2. CASE ~(n + 1 <= m)
      BY <2>2
    <2> QED BY <2>1, <2>2
  <1>5. m \in P
    <2> HIDE DEF P
    <2> QED BY <1>3, <1>4, NatInduct
  <1> QED BY <1>1, <1>2, <1>5

\* A JSON field that is there has one value.
LEMMA ValueOf ==
  ASSUME NEW S, NEW F \in Optional(S), NEW d
  PROVE  \/ F = {} /\ json_value(F, d) = d
         \/ F = {json_value(F, d)} /\ json_value(F, d) \in S
  <1>1. CASE F = {}
    BY <1>1 DEF json_value
  <1>2. CASE F # {}
    <2>1. PICK v \in F : TRUE
      BY <1>2
    <2>2. F = {v} /\ v \in S
      BY <2>1 DEF Optional
    <2>3. json_value(F, d) = v
      BY <1>2, <2>2 DEF json_value
    <2> QED BY <2>2, <2>3
  <1> QED BY <1>1, <1>2

\* The fold of launch_slot_with_task makes the bias that the request asks for.
LEMMA BiasAsAsked ==
  ASSUME NEW p, NEW r \in RequestType
  PROVE  /\ BiasOf(p, r) \in BiasTable
         /\ \A t \in Vocabulary : BiasOf(p, r)[t] = AskedBias(r, t)
  <1> DEFINE base == [t \in Vocabulary |->
                        IF t = Eos /\ json_value(r.ignore_eos, FALSE)
                        THEN "-inf" ELSE "none"]
             seq  == r.logit_bias
  <1>1. seq \in Seq(BiasType) /\ base \in BiasTable
    BY DEF RequestType, BiasTable
  <1>2. BiasOf(p, r) = FoldLeft(ApplyBias, base, seq)
    BY DEF BiasOf
  <1>3. \A t \in Vocabulary : base[t] = IF r.ignore_eos = {TRUE} /\ t = Eos
                                        THEN "-inf" ELSE "none"
    <2>1. r.ignore_eos \in Optional(BOOLEAN)
      BY DEF RequestType
    <2>2. json_value(r.ignore_eos, FALSE) <=> r.ignore_eos = {TRUE}
      <3>1. CASE r.ignore_eos = {}
        BY <3>1 DEF json_value
      <3>2. CASE r.ignore_eos = {TRUE}
        BY <3>2 DEF json_value
      <3>3. CASE r.ignore_eos = {FALSE}
        BY <3>3 DEF json_value
      <3>4. r.ignore_eos = {} \/ r.ignore_eos = {TRUE} \/ r.ignore_eos = {FALSE}
        <4> DEFINE F == r.ignore_eos
        <4>1. CASE TRUE \in F
          BY <2>1, <4>1 DEF Optional
        <4>2. CASE TRUE \notin F
          BY <2>1, <4>2 DEF Optional
        <4> QED BY <4>1, <4>2
      <3> QED BY <3>1, <3>2, <3>3, <3>4
    <2> QED BY <2>2
  <1> HIDE DEF base
  <1>4. /\ BiasOf(p, r) \in BiasTable
        /\ \A t \in Vocabulary : Decided(BiasOf(p, r), base, seq, Len(seq), t)
    BY <1>1, <1>2, BiasDecided
  <1>5. ASSUME NEW t \in Vocabulary
        PROVE  BiasOf(p, r)[t] = AskedBias(r, t)
    <2> DEFINE naming == {i \in DOMAIN seq : t \in seq[i].tokens /\ seq[i].bias # "other"}
    <2>1. naming = {i \in 1 .. Len(seq) : Names(seq[i], t)}
      BY <1>1 DEF Names
    <2>2. CASE naming = {}
      BY <1>3, <1>4, <2>1, <2>2 DEF Decided, AskedBias
    <2>3. CASE naming # {}
      <3>1. PICK i \in naming : /\ \A j \in naming : j <= i
                                /\ BiasOf(p, r)[t] = BiasValue(seq[i])
        BY <1>4, <2>1, <2>3 DEF Decided
      <3>2. \A k \in naming : k \in Nat
        BY <1>1
      <3> DEFINE last == CHOOSE k \in naming : \A j \in naming : j <= k
      <3>3. last = i
        <4> HIDE DEF naming
        <4>1. \A k \in naming : (\A j \in naming : j <= k) => k = i
          BY <3>1, <3>2
        <4> QED BY <3>1, <4>1
      <3>4. AskedBias(r, t) = IF seq[last].bias = "false" THEN "-inf" ELSE "value"
        BY <2>3 DEF AskedBias
      <3>5. seq[i].bias \in {"number", "false"}
        <4>1. seq[i] \in BiasType /\ seq[i].bias # "other"
          BY <1>1
        <4> QED BY <4>1 DEF BiasType
      <3> HIDE DEF last
      <3> QED BY <3>1, <3>3, <3>4, <3>5 DEF BiasValue
    <2> QED BY <2>2, <2>3
  <1> QED BY <1>4, <1>5

(***************************************************************************)
(* A launched slot.                                                        *)
(***************************************************************************)
Asked      == {"default", "asked"}
ParamsType ==
  [scalar : Asked, cache_prompt : BOOLEAN, n_predict : Int, n_keep : Int,
   infix : Asked, grammar : {"none", "good", "broken"}, penalty : SUBSET Vocabulary,
   penalize : BOOLEAN, bias : BiasTable, antiprompt : SUBSET StopType,
   samplers : Asked]
TaskType == [id : Nat, request : Requests]
SlotType ==
  [busy : BOOLEAN, task : SUBSET TaskType, prompt : PromptType, t_last_used : Int,
   params : ParamsType, ctx_sampling : BOOLEAN]

\* LaunchedAsAsked, of one slot, with names for the task's request.
AsAsked(s, r) ==
  LET p == s.params
  IN  /\ p.scalar = (IF r.scalar = {} THEN "default" ELSE "asked")
      /\ p.infix  = (IF r.infix = {} THEN "default" ELSE "asked")
      /\ p.samplers = (IF r.samplers = {} THEN "default" ELSE "asked")
      /\ p.grammar = (IF r.grammar = {} THEN "none" ELSE "good")
      /\ p.cache_prompt <=> (r.cache_prompt = {TRUE} /\ ~GroupAttention)
      /\ PredictsAsAsked(p.n_predict, r)
      /\ p.antiprompt = {w \in r.stop : w # EmptyJson}
      /\ \A t \in Vocabulary : p.bias[t] = AskedBias(r, t)
      /\ p.penalize <=> r.penalty # {}
      /\ p.penalty = {t \in Vocabulary : \E asked \in r.penalty : t \in asked}
      /\ ~r.infill => {s.prompt} = r.prompt
      /\ s.ctx_sampling

LEMMA AskedValue ==
  ASSUME NEW F \in Optional({"asked"})
  PROVE  /\ json_value(F, "default") \in Asked
         /\ json_value(F, "default") = IF F = {} THEN "default" ELSE "asked"
  <1> DEFINE v == json_value(F, "default")
  <1>1. (F = {} /\ v = "default") \/ (F = {v} /\ v \in {"asked"})
    BY ValueOf
  <1> HIDE DEF v
  <1>2. v \in Asked /\ v = IF F = {} THEN "default" ELSE "asked"
    BY <1>1 DEF Asked
  <1> QED BY <1>2 DEF v

LEMMA BooleanValue ==
  ASSUME NEW F \in Optional(BOOLEAN)
  PROVE  json_value(F, FALSE) \in BOOLEAN /\ (json_value(F, FALSE) <=> F = {TRUE})
  <1>1. CASE F = {}
    BY <1>1 DEF json_value
  <1>2. CASE F = {TRUE}
    BY <1>2 DEF json_value
  <1>3. CASE F = {FALSE}
    BY <1>3 DEF json_value
  <1>4. F = {} \/ F = {TRUE} \/ F = {FALSE}
    <2>1. CASE TRUE \in F
      BY <2>1 DEF Optional
    <2>2. CASE TRUE \notin F
      BY <2>2 DEF Optional
    <2> QED BY <2>1, <2>2
  <1> QED BY <1>1, <1>2, <1>3, <1>4

LEMMA CappedIs ==
  ASSUME NEW n \in Int
  PROVE  Capped(n) \in Int /\ Capped(n) = IF Cap > 0 /\ n > Cap THEN Cap ELSE n
  BY CapAssumption DEF Capped

LEMMA ScalarsAsAsked ==
  ASSUME NEW p \in ParamsType, NEW r \in RequestType
  PROVE  LET q == WithScalars(p, r)
         IN  /\ q \in ParamsType
             /\ q.scalar = (IF r.scalar = {} THEN "default" ELSE "asked")
             /\ q.infix  = (IF r.infix = {} THEN "default" ELSE "asked")
             /\ q.grammar = json_value(r.grammar, "none")
             /\ q.cache_prompt <=> (r.cache_prompt = {TRUE} /\ ~GroupAttention)
             /\ PredictsAsAsked(q.n_predict, r)
  <1>1. /\ r.scalar \in Optional({"asked"}) /\ r.infix \in Optional({"asked"})
        /\ r.cache_prompt \in Optional(BOOLEAN) /\ r.n_predict \in Optional(Int)
        /\ r.max_tokens \in Optional(Int) /\ r.n_keep \in Optional(Int)
        /\ r.grammar \in Optional({"good", "broken"})
    BY DEF RequestType
  <1>2. /\ json_value(r.scalar, "default") \in Asked
        /\ json_value(r.scalar, "default") = IF r.scalar = {} THEN "default" ELSE "asked"
        /\ json_value(r.infix, "default") \in Asked
        /\ json_value(r.infix, "default") = IF r.infix = {} THEN "default" ELSE "asked"
    BY <1>1, AskedValue
  <1> DEFINE cache == json_value(r.cache_prompt, FALSE) /\ ~GroupAttention
             n     == json_value(r.n_predict, json_value(r.max_tokens, -1))
  <1>3. cache \in BOOLEAN /\ (cache <=> (r.cache_prompt = {TRUE} /\ ~GroupAttention))
    BY <1>1, BooleanValue
  <1>4. Capped(n) \in Int /\ PredictsAsAsked(Capped(n), r)
    <2> DEFINE m == json_value(r.max_tokens, -1)
    <2>1. (r.max_tokens = {} /\ m = -1) \/ (r.max_tokens = {m} /\ m \in Int)
      BY <1>1, ValueOf
    <2>2. (r.n_predict = {} /\ n = m) \/ (r.n_predict = {n} /\ n \in Int)
      BY <1>1, ValueOf
    <2> HIDE DEF m, n
    <2>3. n \in Int
      BY <2>1, <2>2
    <2>4. \A asked \in IF r.n_predict # {} THEN r.n_predict
                       ELSE IF r.max_tokens # {} THEN r.max_tokens ELSE {-1} :
             asked = n
      BY <2>1, <2>2
    <2> QED BY <2>3, <2>4, CappedIs DEF PredictsAsAsked
  <1>5. json_value(r.n_keep, p.n_keep) \in Int
    <2>1. p.n_keep \in Int
      BY DEF ParamsType
    <2> QED BY <1>1, <2>1, ValueOf
  <1>6. json_value(r.grammar, "none") \in {"none", "good", "broken"}
    <2> DEFINE v == json_value(r.grammar, "none")
    <2>1. v = "none" \/ v \in {"good", "broken"}
      BY <1>1, ValueOf
    <2> HIDE DEF v
    <2>2. v \in {"none", "good", "broken"}
      BY <2>1
    <2> QED BY <2>2 DEF v
  <1> HIDE DEF cache, n
  <1>7. WithScalars(p, r) = [p EXCEPT !.scalar = json_value(r.scalar, "default"),
            !.cache_prompt = cache, !.n_predict = Capped(n),
            !.n_keep = json_value(r.n_keep, p.n_keep),
            !.grammar = json_value(r.grammar, "none"),
            !.infix = json_value(r.infix, "default")]
    BY DEF WithScalars, cache, n
  <1>8. WithScalars(p, r) \in ParamsType
    BY <1>2, <1>3, <1>4, <1>5, <1>6, <1>7 DEF ParamsType
  <1>9. /\ WithScalars(p, r).scalar = json_value(r.scalar, "default")
        /\ WithScalars(p, r).infix = json_value(r.infix, "default")
        /\ WithScalars(p, r).cache_prompt = cache
        /\ WithScalars(p, r).n_predict = Capped(n)
        /\ WithScalars(p, r).grammar = json_value(r.grammar, "none")
    BY <1>7 DEF ParamsType
  <1> QED BY <1>2, <1>3, <1>4, <1>8, <1>9

LEMMA ListsAsAsked ==
  ASSUME NEW p \in ParamsType, NEW r \in RequestType
  PROVE  LET q == WithLists(p, r)
         IN  /\ q \in ParamsType
             /\ q.scalar = p.scalar /\ q.infix = p.infix
             /\ q.cache_prompt = p.cache_prompt /\ q.n_predict = p.n_predict
             /\ q.grammar = p.grammar
             /\ q.samplers = (IF r.samplers = {} THEN "default" ELSE "asked")
             /\ q.antiprompt = {w \in r.stop : w # EmptyJson}
             /\ \A t \in Vocabulary : q.bias[t] = AskedBias(r, t)
             /\ q.penalize <=> r.penalty # {}
             /\ q.penalty = {t \in Vocabulary : \E asked \in r.penalty : t \in asked}
  <1>1. r.samplers \in Optional({"asked"}) /\ r.stop \in SUBSET StopType
    BY DEF RequestType
  <1>2. /\ json_value(r.samplers, "default") \in Asked
        /\ json_value(r.samplers, "default") = IF r.samplers = {} THEN "default" ELSE "asked"
    BY <1>1, AskedValue
  <1>3. /\ BiasOf(p, r) \in BiasTable
        /\ \A t \in Vocabulary : BiasOf(p, r)[t] = AskedBias(r, t)
    BY BiasAsAsked
  <1> DEFINE penalty == InVocabulary(json_value(r.penalty, {}))
  <1>4. /\ penalty \in SUBSET Vocabulary
        /\ penalty = {t \in Vocabulary : \E asked \in r.penalty : t \in asked}
    <2> DEFINE v == json_value(r.penalty, {})
    <2>1. (r.penalty = {} /\ v = {}) \/ r.penalty = {v}
      <3>1. r.penalty \in Optional(SUBSET Int)
        BY DEF RequestType
      <3> QED BY <3>1, ValueOf
    <2>2. penalty = v \cap Vocabulary
      BY DEF InVocabulary
    <2> HIDE DEF v, penalty
    <2> QED BY <2>1, <2>2
  <1>5. StopWords(r) = {w \in r.stop : w # EmptyJson}
    BY DEF StopWords
  <1>6. StopWords(r) \in SUBSET StopType
    BY <1>1 DEF StopWords
  <1> DEFINE asked == r.penalty # {}
  <1>7. asked \in BOOLEAN
    OBVIOUS
  <1> HIDE DEF asked, penalty
  <1>8. WithLists(p, r) =
          [p EXCEPT !.penalty = penalty,
                    !.penalize = asked, !.bias = BiasOf(p, r),
                    !.antiprompt = StopWords(r),
                    !.samplers = json_value(r.samplers, "default")]
    BY DEF WithLists, asked, penalty
  <1>9. WithLists(p, r) \in ParamsType
    BY <1>2, <1>3, <1>4, <1>6, <1>7, <1>8 DEF ParamsType
  <1>10. /\ WithLists(p, r).penalize = asked
        /\ WithLists(p, r).scalar = p.scalar /\ WithLists(p, r).infix = p.infix
        /\ WithLists(p, r).cache_prompt = p.cache_prompt
        /\ WithLists(p, r).n_predict = p.n_predict
        /\ WithLists(p, r).samplers = json_value(r.samplers, "default")
        /\ WithLists(p, r).antiprompt = StopWords(r)
        /\ WithLists(p, r).grammar = p.grammar
        /\ WithLists(p, r).penalty = penalty
        /\ WithLists(p, r).bias = BiasOf(p, r)
    BY <1>7, <1>8 DEF ParamsType
  <1> QED BY <1>2, <1>3, <1>4, <1>5, <1>9, <1>10 DEF asked

LEMMA LaunchedIs ==
  ASSUME NEW s \in SlotType, s.busy = FALSE, NEW task \in TaskType
  PROVE  LET u == Launched(s, task)
         IN  /\ u \in SlotType /\ u.task = {task} /\ u.t_last_used = s.t_last_used
             /\ u.busy => AsAsked(u, task.request)
  <1> DEFINE r == task.request
             scalars == [s EXCEPT !.task = {task}, !.params = WithScalars(s.params, r)]
             q == WithLists(WithScalars(s.params, r), r)
             broken == json_value(r.grammar, "none") = "broken"
             lists == [s EXCEPT !.task = {task}, !.params = q, !.prompt = WithPrompt(s, r),
                                !.ctx_sampling = ~broken, !.busy = ~broken]
  <1>1. r \in RequestType
    BY RequestsAssumption DEF TaskType
  <1>2. /\ s.params \in ParamsType /\ s.prompt \in PromptType /\ s.t_last_used \in Int
        /\ s.ctx_sampling \in BOOLEAN
    BY DEF SlotType
  <1>3. /\ WithScalars(s.params, r) \in ParamsType
        /\ WithScalars(s.params, r).scalar = (IF r.scalar = {} THEN "default" ELSE "asked")
        /\ WithScalars(s.params, r).infix = (IF r.infix = {} THEN "default" ELSE "asked")
        /\ WithScalars(s.params, r).grammar = json_value(r.grammar, "none")
        /\ WithScalars(s.params, r).cache_prompt
             <=> (r.cache_prompt = {TRUE} /\ ~GroupAttention)
        /\ PredictsAsAsked(WithScalars(s.params, r).n_predict, r)
    BY <1>1, <1>2, ScalarsAsAsked
  <1>4. /\ q \in ParamsType
        /\ q.scalar = (IF r.scalar = {} THEN "default" ELSE "asked")
        /\ q.infix = (IF r.infix = {} THEN "default" ELSE "asked")
        /\ q.grammar = json_value(r.grammar, "none")
        /\ q.cache_prompt <=> (r.cache_prompt = {TRUE} /\ ~GroupAttention)
        /\ PredictsAsAsked(q.n_predict, r)
        /\ q.samplers = (IF r.samplers = {} THEN "default" ELSE "asked")
        /\ q.antiprompt = {w \in r.stop : w # EmptyJson}
        /\ \A t \in Vocabulary : q.bias[t] = AskedBias(r, t)
        /\ q.penalize <=> r.penalty # {}
        /\ q.penalty = {t \in Vocabulary : \E asked \in r.penalty : t \in asked}
    <2> DEFINE p == WithScalars(s.params, r)
    <2>1. /\ WithLists(p, r) \in ParamsType
          /\ WithLists(p, r).scalar = p.scalar /\ WithLists(p, r).infix = p.infix
          /\ WithLists(p, r).cache_prompt = p.cache_prompt
          /\ WithLists(p, r).n_predict = p.n_predict
          /\ WithLists(p, r).samplers = (IF r.samplers = {} THEN "default" ELSE "asked")
          /\ WithLists(p, r).grammar = p.grammar
          /\ WithLists(p, r).antiprompt = {w \in r.stop : w # EmptyJson}
          /\ \A t \in Vocabulary : WithLists(p, r).bias[t] = AskedBias(r, t)
          /\ WithLists(p, r).penalize <=> r.penalty # {}
          /\ WithLists(p, r).penalty
               = {t \in Vocabulary : \E asked \in r.penalty : t \in asked}
      <3>1. p \in ParamsType
        BY <1>3
      <3> HIDE DEF p
      <3> QED BY <1>1, <3>1, ListsAsAsked
    <2>2. q = WithLists(p, r)
      OBVIOUS
    <2> HIDE DEF q
    <2> QED BY <1>3, <2>1, <2>2
  <1>5. WithPrompt(s, r) \in PromptType
        /\ (~PromptRefused(r) /\ ~r.infill => {WithPrompt(s, r)} = r.prompt)
    <2> DEFINE v == json_value(r.prompt, NoPrompt)
    <2>1. r.prompt \in Optional(PromptType)
      BY <1>1 DEF RequestType
    <2>2. (r.prompt = {} /\ v = NoPrompt) \/ (r.prompt = {v} /\ v \in PromptType)
      BY <2>1, ValueOf
    <2>3. NoPrompt \in PromptType
      BY DEF NoPrompt, PromptType
    <2> HIDE DEF v
    <2>4. WithPrompt(s, r) = IF r.infill THEN s.prompt ELSE v
      BY DEF WithPrompt, v
    <2>5. ~PromptRefused(r) /\ ~r.infill => r.prompt # {}
      BY DEF PromptRefused
    <2> QED BY <1>2, <2>2, <2>3, <2>4, <2>5
  <1>6. broken \in BOOLEAN
    OBVIOUS
  <1>7. Launched(s, task) = IF PromptRefused(r) THEN scalars ELSE lists
    <2> DEFINE scalars1 == [s EXCEPT !.task = {task}, !.params = WithScalars(@, r)]
               lists1 == [scalars1 EXCEPT !.prompt = WithPrompt(s, r),
                                          !.params = WithLists(@, r)]
    <2>1. scalars1 = scalars
      OBVIOUS
    <2>2. scalars1.params = WithScalars(s.params, r)
      BY DEF SlotType
    <2>3. [lists1 EXCEPT !.ctx_sampling = ~broken, !.busy = ~broken] = lists
      <3> HIDE DEF broken
      <3> QED BY <1>6, <2>2 DEF SlotType
    <2>4. Launched(s, task) = IF PromptRefused(r) THEN scalars1
             ELSE [lists1 EXCEPT !.ctx_sampling = ~broken, !.busy = ~broken]
      BY DEF Launched
    <2> QED BY <2>1, <2>3, <2>4
  <1> HIDE DEF broken, q
  <1>8. /\ scalars \in SlotType /\ scalars.task = {task} /\ scalars.busy = FALSE
        /\ scalars.t_last_used = s.t_last_used
    BY <1>3 DEF SlotType
  <1>9. /\ lists \in SlotType /\ lists.task = {task} /\ lists.t_last_used = s.t_last_used
        /\ lists.busy = ~broken /\ lists.ctx_sampling = ~broken
        /\ lists.params = q /\ lists.prompt = WithPrompt(s, r)
    BY <1>4, <1>5, <1>6 DEF SlotType
  <1>10. ASSUME ~PromptRefused(r), lists.busy
         PROVE  AsAsked(lists, r)
    <2> DEFINE u == lists
    <2>1. /\ u.params = q /\ u.prompt = WithPrompt(s, r) /\ u.ctx_sampling
      BY <1>9, <1>10
    <2>2. q.grammar = IF r.grammar = {} THEN "none" ELSE "good"
      <3> DEFINE v == json_value(r.grammar, "none")
      <3>1. (r.grammar = {} /\ v = "none") \/ (r.grammar = {v} /\ v \in {"good", "broken"})
        <4>1. r.grammar \in Optional({"good", "broken"})
          BY <1>1 DEF RequestType
        <4> QED BY <4>1, ValueOf
      <3>2. v # "broken"
        BY <1>9, <1>10 DEF broken
      <3> HIDE DEF v
      <3>3. v = IF r.grammar = {} THEN "none" ELSE "good"
        BY <3>1, <3>2
      <3> QED BY <1>4, <3>3 DEF v
    <2> HIDE DEF u
    <2>3. AsAsked(u, r)
      BY <1>4, <1>5, <1>10, <2>1, <2>2 DEF AsAsked
    <2> QED BY <2>3 DEF u
  <1> HIDE DEF scalars, lists
  <1>11. CASE PromptRefused(r)
    <2>1. Launched(s, task) = scalars
      BY <1>7, <1>11
    <2> QED BY <1>8, <2>1
  <1>12. CASE ~PromptRefused(r)
    <2>1. Launched(s, task) = lists
      BY <1>7, <1>12
    <2> QED BY <1>9, <1>10, <1>12, <2>1
  <1> QED BY <1>11, <1>12

(***************************************************************************)
(* The inductive invariant.                                                *)
(***************************************************************************)
RequestOf(s) == (CHOOSE task \in s.task : TRUE).request

QueueOK(q) == q \in Seq(TaskType) /\ \A i \in DOMAIN q : q[i].id < n_posted

SlotOK(s, t) == /\ s \in SlotType /\ -1 <= s.t_last_used /\ s.t_last_used <= t
                /\ s.busy => AsAsked(s, RequestOf(s))

DispatchInv ==
  /\ n_posted \in 0 .. MaxTasks /\ now \in Nat /\ pc \in {"pop", "update"}
  /\ QueueOK(queue_tasks) /\ QueueOK(queue_tasks_deferred)
  /\ slots \in [Slots -> SlotType] /\ \A k \in Slots : SlotOK(slots[k], now)

LEMMA SlotLater ==
  ASSUME NEW t \in Nat, NEW u \in Nat, t <= u, NEW s, SlotOK(s, t)
  PROVE  SlotOK(s, u)
  BY DEF SlotOK, SlotType

LEMMA RequestIs ==
  ASSUME NEW s, NEW task, s.task = {task}
  PROVE  RequestOf(s) = task.request
  BY DEF RequestOf

LEMMA TimesLater == \A t \in Times : now \in Nat => t \in Nat /\ now <= t
  BY ClockAssumption DEF Times

LEMMA Popped ==
  ASSUME DispatchInv, Pop
  PROVE  /\ Head(queue_tasks) \in TaskType /\ Head(queue_tasks).id < n_posted
         /\ QueueOK(Tail(queue_tasks))
  <1>1. queue_tasks \in Seq(TaskType) /\ queue_tasks # <<>>
    BY DEF DispatchInv, QueueOK, Pop
  <1>2. \A i \in DOMAIN queue_tasks : queue_tasks[i].id < n_posted
    BY DEF DispatchInv, QueueOK
  <1>3. 1 \in DOMAIN queue_tasks /\ Head(queue_tasks) = queue_tasks[1]
    BY <1>1
  <1>4. Head(queue_tasks) \in TaskType /\ Head(queue_tasks).id < n_posted
    BY <1>1, <1>2, <1>3
  <1>5. Tail(queue_tasks) \in Seq(TaskType)
    BY <1>1
  <1>6. \A i \in DOMAIN Tail(queue_tasks) :
          i + 1 \in DOMAIN queue_tasks /\ Tail(queue_tasks)[i] = queue_tasks[i + 1]
    BY <1>1
  <1> QED BY <1>2, <1>4, <1>5, <1>6 DEF QueueOK

LEMMA AppendOK ==
  ASSUME n_posted \in Nat, NEW q, QueueOK(q), NEW task \in TaskType, task.id < n_posted
  PROVE  QueueOK(Append(q, task))
  BY DEF QueueOK

LEMMA ConcatOK ==
  ASSUME n_posted \in Nat, NEW q, QueueOK(q), NEW d, QueueOK(d)
  PROVE  QueueOK(q \o d)
  <1>1. q \in Seq(TaskType) /\ d \in Seq(TaskType)
    BY DEF QueueOK
  <1>2. ASSUME NEW i \in DOMAIN (q \o d)
        PROVE  \/ i \in DOMAIN q /\ (q \o d)[i] = q[i]
               \/ i - Len(q) \in DOMAIN d /\ (q \o d)[i] = d[i - Len(q)]
    BY <1>1
  <1>3. \A i \in DOMAIN (q \o d) : (q \o d)[i].id < n_posted
    BY <1>2 DEF QueueOK
  <1> QED BY <1>1, <1>3 DEF QueueOK

(***************************************************************************)
(* The choice of a slot.                                                   *)
(***************************************************************************)
Letters == Seq({"a", "b"})

LEMMA CommonPartIs ==
  ASSUME NEW a \in Letters, NEW b \in Letters
  PROVE  CommonPart(a, b) \in Nat /\ CommonPart(a, b) <= Len(a) /\ CommonPart(a, b) <= Len(b)
  <1> DEFINE common(n) == n <= Len(b) /\ \A i \in 1 .. n : a[i] = b[i]
             S == {n \in 0 .. Len(a) : common(n)}
             f == [n \in S |-> Len(a) - n]
  <1>1. PICK m \in Nat : m = Len(a)
    BY DEF Letters
  <1>2. Len(b) \in Nat
    BY DEF Letters
  <1>3. S # {}
    <2>1. 0 \in S
      BY <1>1, <1>2
    <2> QED BY <2>1
  <1>4. \A n \in S : f[n] \in Nat
    BY <1>1
  <1>5. PICK n \in S : \A j \in S : f[n] <= f[j]
    <2> HIDE DEF S, f
    <2> QED BY <1>3, <1>4, LeastValue
  <1>6. n \in 0 .. m /\ common(n) /\ \A j \in S : j <= n
    <2>1. \A j \in S : j \in 0 .. m /\ f[j] = m - j
      BY <1>1
    <2>2. common(n)
      BY <1>5
    <2> HIDE DEF S, f, common
    <2> QED BY <1>5, <2>1, <2>2
  <1>7. n < Len(a) /\ n < Len(b) => a[n + 1] # b[n + 1]
    <2> SUFFICES ASSUME n < m, n < Len(b), a[n + 1] = b[n + 1]
                 PROVE  FALSE
      BY <1>1
    <2>1. common(n + 1)
      BY <1>2, <1>6
    <2>2. n + 1 \in S
      BY <1>1, <1>6, <2>1
    <2> QED BY <1>6, <2>2
  <1>8. \E n1 \in 0 .. Len(a) :
           /\ n1 <= Len(b) /\ \A i \in 1 .. n1 : a[i] = b[i]
           /\ n1 < Len(a) /\ n1 < Len(b) => a[n1 + 1] # b[n1 + 1]
    BY <1>1, <1>6, <1>7
  <1>9. CommonPart(a, b) \in 0 .. Len(a) /\ CommonPart(a, b) <= Len(b)
    BY <1>8 DEF CommonPart
  <1> QED BY <1>1, <1>9

LEMMA PromptTextType ==
  ASSUME NEW r \in RequestType
  PROVE  PromptText(r) \in Letters
  <1> DEFINE v == json_value(r.prompt, NoPrompt)
  <1>1. r.prompt \in Optional(PromptType)
    BY DEF RequestType
  <1>2. r.prompt = {} \/ v \in PromptType
    BY <1>1, ValueOf
  <1> HIDE DEF v
  <1>3. PromptText(r) = IF r.prompt # {} /\ v.form = "string" THEN v.text ELSE <<>>
    BY DEF PromptText, v
  <1>4. v \in PromptType => v.text \in Letters
    BY DEF PromptType, Letters
  <1>5. <<>> \in Letters
    BY DEF Letters
  <1> QED BY <1>2, <1>3, <1>4, <1>5

LEMMA LeastUsed ==
  ASSUME DispatchInv, NEW t, UsedBefore(t) # {}
  PROVE  LET k == LeastRecentlyUsed(t)
         IN  /\ k \in UsedBefore(t)
             /\ \A j \in UsedBefore(t) : slots[k].t_last_used <= slots[j].t_last_used
  <1> DEFINE S == UsedBefore(t)
             f == [k \in S |-> slots[k].t_last_used + 1]
             B == {k \in S : \A j \in S : slots[k].t_last_used <= slots[j].t_last_used}
  <1>1. S \subseteq Slots
    BY DEF UsedBefore
  <1>2. \A k \in S : slots[k].t_last_used \in Int /\ f[k] \in Nat
    BY <1>1 DEF DispatchInv, SlotOK, SlotType
  <1>3. PICK k \in S : \A j \in S : f[k] <= f[j]
    <2> HIDE DEF S, f
    <2> QED BY <1>2, LeastValue DEF S
  <1>4. k \in B
    BY <1>2, <1>3
  <1>5. B \in SUBSET Slots /\ B # {}
    BY <1>1, <1>4
  <1>6. LeastRecentlyUsed(t) = FirstOf(B)
    BY DEF LeastRecentlyUsed
  <1>7. FirstOf(B) \in B
    <2> HIDE DEF B
    <2> QED BY <1>5, FirstOfIs
  <1> QED BY <1>6, <1>7

LEMMA MostShared ==
  ASSUME DispatchInv, NEW p \in Letters, Similar(p) # {}
  PROVE  LET k == MostSimilar(p)
         IN  /\ k \in Similar(p)
             /\ \A j \in Similar(p) : CommonPart(slots[j].prompt.text, p)
                                        <= CommonPart(slots[k].prompt.text, p)
  <1> DEFINE S == Similar(p)
             c(k) == CommonPart(slots[k].prompt.text, p)
             f == [k \in S |-> Len(p) - c(k)]
             B == {k \in S : \A j \in S : c(j) <= c(k)}
  <1>1. S \subseteq Slots
    BY DEF Similar
  <1>2. Len(p) \in Nat
    BY DEF Letters
  <1>3. ASSUME NEW k \in S
        PROVE  c(k) \in Nat /\ c(k) <= Len(p)
    <2>1. slots[k].prompt.text \in Letters
      BY <1>1 DEF DispatchInv, SlotType, PromptType, Letters
    <2> QED BY <2>1, CommonPartIs
  <1> HIDE DEF c
  <1>4. \A k \in S : f[k] \in Nat
    <2> HIDE DEF S
    <2> QED BY <1>2, <1>3
  <1>5. PICK k \in S : \A j \in S : f[k] <= f[j]
    <2> HIDE DEF S, f
    <2> QED BY <1>4, LeastValue DEF S
  <1>6. k \in B
    <2> HIDE DEF S
    <2> QED BY <1>2, <1>3, <1>5
  <1>7. B \in SUBSET Slots /\ B # {}
    <2> HIDE DEF S
    <2> QED BY <1>1, <1>6
  <1>8. MostSimilar(p) = FirstOf(B)
    BY DEF MostSimilar, c
  <1>9. FirstOf(B) \in B
    <2> HIDE DEF B
    <2> QED BY <1>7, FirstOfIs
  <1> QED BY <1>8, <1>9 DEF c

LEMMA ChosenAvailable ==
  ASSUME DispatchInv, NEW r \in RequestType, NEW t \in Times, NEW k \in ChosenSlots(r, t)
  PROVE  k \in Slots /\ Available(k)
  <1>1. CASE json_value(r.id_slot, -1) # -1
    BY <1>1 DEF ChosenSlots, get_slot_by_id
  <1>2. CASE json_value(r.id_slot, -1) = -1
    <2> DEFINE p == PromptText(r)
    <2>1. k \in get_available_slot(p, t)
      BY <1>2 DEF ChosenSlots
    <2> HIDE DEF p
    <2>2. p \in Letters
      BY PromptTextType DEF p
    <2>3. CASE Similarity # 0 /\ p # <<>> /\ Similar(p) # {}
      <3>1. k = MostSimilar(p)
        BY <2>1, <2>3 DEF get_available_slot
      <3>2. k \in Similar(p)
        BY <2>2, <2>3, <3>1, MostShared
      <3> QED BY <3>2 DEF Similar
    <2>4. CASE ~(Similarity # 0 /\ p # <<>> /\ Similar(p) # {})
      <3>1. UsedBefore(t) # {} /\ k = LeastRecentlyUsed(t)
        BY <2>1, <2>4 DEF get_available_slot
      <3>2. k \in UsedBefore(t)
        BY <3>1, LeastUsed
      <3> QED BY <3>2 DEF UsedBefore
    <2> QED BY <2>3, <2>4
  <1> QED BY <1>1, <1>2

LEMMA QueueIds ==
  ASSUME NEW q, QueueOK(q), NEW i \in DOMAIN q
  PROVE  q[i].id \in Nat /\ q[i].id < n_posted /\ q[i].request \in Requests
  <1>1. q \in Seq(TaskType) /\ q[i].id < n_posted
    BY DEF QueueOK
  <1>2. q[i] \in TaskType
    BY <1>1
  <1> QED BY <1>1, <1>2 DEF TaskType

LEMMA ReleasedIs ==
  ASSUME NEW s \in SlotType, NEW t \in Int, NEW busy \in BOOLEAN
  PROVE  LET u == [s EXCEPT !.busy = busy, !.t_last_used = t]
         IN  u \in SlotType /\ u.busy = busy /\ u.t_last_used = t /\ u.task = s.task
  BY DEF SlotType

LEMMA DispatchInit == Init => DispatchInv
  <1> SUFFICES ASSUME Init
               PROVE  DispatchInv
    OBVIOUS
  <1>1. FreshSlot \in SlotType /\ FreshSlot.busy = FALSE /\ FreshSlot.t_last_used = -1
    <2>1. DefaultParams \in ParamsType
      <3>1. NoBias \in BiasTable
        BY DEF NoBias, BiasTable
      <3> QED BY <3>1 DEF DefaultParams, ParamsType, Asked
    <2>2. NoPrompt \in PromptType
      BY DEF NoPrompt, PromptType
    <2> QED BY <2>1, <2>2 DEF FreshSlot, SlotType
  <1>2. \A k \in Slots : slots[k] = FreshSlot
    BY DEF Init
  <1>3. SlotOK(FreshSlot, 0)
    BY <1>1 DEF SlotOK
  <1>4. slots \in [Slots -> SlotType]
    BY <1>1 DEF Init
  <1>5. QueueOK(queue_tasks) /\ QueueOK(queue_tasks_deferred)
    BY DEF Init, QueueOK
  <1>6. n_posted \in 0 .. MaxTasks /\ now = 0 /\ pc = "pop"
    BY BoundAssumption DEF Init
  <1> QED BY <1>2, <1>3, <1>4, <1>5, <1>6 DEF DispatchInv

LEMMA DispatchNext == DispatchInv /\ [Next]_vars => DispatchInv'
  <1> SUFFICES ASSUME DispatchInv, [Next]_vars
               PROVE  DispatchInv'
    OBVIOUS
  <1> USE DEF DispatchInv
  <1>1. CASE Post
    <2>1. PICK r \in Requests : queue_tasks' = Append(queue_tasks, [id |-> n_posted, request |-> r])
      BY <1>1 DEF Post
    <2> DEFINE task == [id |-> n_posted, request |-> r]
    <2>2. n_posted' = n_posted + 1 /\ n_posted' \in 0 .. MaxTasks /\ n_posted \in Nat
      BY <1>1, BoundAssumption DEF Post
    <2>3. task \in TaskType /\ task.id = n_posted
      BY <2>2 DEF TaskType
    <2> HIDE DEF task
    <2>4. QueueOK(queue_tasks)' /\ QueueOK(queue_tasks_deferred)'
      <3>1. queue_tasks' = Append(queue_tasks, task) /\ queue_tasks_deferred' = queue_tasks_deferred
        BY <1>1, <2>1 DEF Post, task
      <3>2. queue_tasks \in Seq(TaskType) /\ \A i \in DOMAIN queue_tasks : queue_tasks[i].id < n_posted
        BY DEF QueueOK
      <3>3. \A i \in DOMAIN queue_tasks : queue_tasks[i].id < n_posted + 1
        <4>1. \A i \in DOMAIN queue_tasks : queue_tasks[i].id \in Nat
          BY QueueIds
        <4> QED BY <2>2, <3>2, <4>1
      <3>4. /\ Append(queue_tasks, task) \in Seq(TaskType)
            /\ \A i \in DOMAIN Append(queue_tasks, task) :
                 \/ i \in DOMAIN queue_tasks /\ Append(queue_tasks, task)[i] = queue_tasks[i]
                 \/ Append(queue_tasks, task)[i] = task
        BY <2>3, <3>2
      <3>5. QueueOK(queue_tasks)'
        BY <2>2, <2>3, <3>1, <3>3, <3>4 DEF QueueOK
      <3>6. QueueOK(queue_tasks_deferred)'
        <4>1. \A i \in DOMAIN queue_tasks_deferred : queue_tasks_deferred[i].id \in Nat
          BY QueueIds
        <4> QED BY <2>2, <3>1, <4>1 DEF QueueOK
      <3> QED BY <3>5, <3>6
    <2>5. UNCHANGED <<pc, slots, now>>
      BY <1>1 DEF Post
    <2> QED BY <2>2, <2>4, <2>5
  <1>2. CASE Launch
    <2>1. Pop /\ queue_tasks' = Tail(queue_tasks)
          /\ UNCHANGED <<queue_tasks_deferred, n_posted, pc>>
      BY <1>2 DEF Launch
    <2> DEFINE task == Head(queue_tasks)
    <2>2. PICK t \in Times : \E k \in ChosenSlots(task.request, t) :
            slots' = [slots EXCEPT ![k] = Launched(slots[k], task)] /\ now' = t
      BY <1>2 DEF Launch
    <2>3. PICK k \in ChosenSlots(task.request, t) :
            slots' = [slots EXCEPT ![k] = Launched(slots[k], task)] /\ now' = t
      BY <2>2
    <2>4. task \in TaskType /\ task.id < n_posted /\ QueueOK(Tail(queue_tasks))
      BY <2>1, Popped
    <2> HIDE DEF task
    <2>5. task.request \in RequestType
      BY <2>4, RequestsAssumption DEF TaskType
    <2>6. k \in Slots /\ slots[k].busy = FALSE
      <3>1. k \in Slots /\ Available(k)
        BY <2>5, ChosenAvailable
      <3>2. slots[k].busy \in BOOLEAN
        BY <3>1 DEF SlotType
      <3> QED BY <3>1, <3>2 DEF Available
    <2> DEFINE u == Launched(slots[k], task)
    <2>7. /\ u \in SlotType /\ u.task = {task} /\ u.t_last_used = slots[k].t_last_used
          /\ u.busy => AsAsked(u, task.request)
      BY <2>4, <2>6, LaunchedIs
    <2> HIDE DEF u
    <2>8. slots' = [slots EXCEPT ![k] = u]
      BY <2>3 DEF u
    <2>9. now' \in Nat /\ now <= now'
      BY <2>3, TimesLater
    <2>10. SlotOK(u, now)
      <3>1. RequestOf(u) = task.request
        BY <2>7, RequestIs
      <3> QED BY <2>6, <2>7, <3>1 DEF SlotOK
    <2>11. slots' \in [Slots -> SlotType]
      BY <2>6, <2>7, <2>8
    <2>12. \A j \in Slots : SlotOK(slots'[j], now)
      BY <2>6, <2>8, <2>10
    <2>13. \A j \in Slots : SlotOK(slots'[j], now')
      BY <2>9, <2>12, SlotLater
    <2>14. QueueOK(queue_tasks)' /\ QueueOK(queue_tasks_deferred)'
      BY <2>1, <2>4 DEF QueueOK
    <2> QED BY <2>1, <2>9, <2>11, <2>13, <2>14
  <1>3. CASE Defer
    <2>1. /\ Pop /\ queue_tasks' = Tail(queue_tasks)
          /\ queue_tasks_deferred' = Append(queue_tasks_deferred, Head(queue_tasks))
          /\ UNCHANGED <<n_posted, pc, slots>> /\ now' \in Times
      BY <1>3 DEF Defer
    <2>2. /\ Head(queue_tasks) \in TaskType /\ Head(queue_tasks).id < n_posted
          /\ QueueOK(Tail(queue_tasks))
      BY <2>1, Popped
    <2>3. n_posted \in Nat
      BY BoundAssumption
    <2>4. QueueOK(Append(queue_tasks_deferred, Head(queue_tasks)))
      BY <2>2, <2>3, AppendOK
    <2>5. QueueOK(queue_tasks)' /\ QueueOK(queue_tasks_deferred)'
      BY <2>1, <2>2, <2>4 DEF QueueOK
    <2>6. now' \in Nat /\ now <= now'
      BY <2>1, TimesLater
    <2>7. \A k \in Slots : SlotOK(slots'[k], now')
      BY <2>1, <2>6, SlotLater
    <2> QED BY <2>1, <2>5, <2>6, <2>7
  <1>4. CASE ReleaseSlots
    <2>1. PICK done \in SUBSET {k \in Slots : slots[k].busy} :
            /\ slots' = [k \in Slots |-> IF k \in done
                           THEN [slots[k] EXCEPT !.busy = FALSE, !.t_last_used = now]
                           ELSE slots[k]]
            /\ queue_tasks' = IF done = {} THEN queue_tasks
                              ELSE queue_tasks \o queue_tasks_deferred
            /\ queue_tasks_deferred' = IF done = {} THEN queue_tasks_deferred ELSE <<>>
      BY <1>4 DEF ReleaseSlots
    <2>2. pc' = "pop" /\ UNCHANGED <<n_posted, now>>
      BY <1>4 DEF ReleaseSlots
    <2>3. n_posted \in Nat
      BY BoundAssumption
    <2>4. QueueOK(queue_tasks \o queue_tasks_deferred) /\ QueueOK(<<>>)
      <3>1. QueueOK(<<>>)
        BY DEF QueueOK
      <3> QED BY <2>3, <3>1, ConcatOK
    <2>5. QueueOK(queue_tasks)' /\ QueueOK(queue_tasks_deferred)'
      BY <2>1, <2>2, <2>4 DEF QueueOK
    <2>6. ASSUME NEW k \in Slots
          PROVE  SlotOK(slots'[k], now) /\ slots'[k] \in SlotType
      <3> DEFINE s == [slots[k] EXCEPT !.busy = FALSE, !.t_last_used = now]
      <3>1. s \in SlotType /\ s.busy = FALSE /\ s.t_last_used = now
        <4>1. slots[k] \in SlotType /\ now \in Int /\ FALSE \in BOOLEAN
          OBVIOUS
        <4> QED BY <4>1, ReleasedIs
      <3> HIDE DEF s
      <3>2. SlotOK(s, now)
        BY <3>1 DEF SlotOK
      <3>3. slots'[k] = s \/ slots'[k] = slots[k]
        BY <2>1 DEF s
      <3> QED BY <3>1, <3>2, <3>3
    <2>7. slots' \in [Slots -> SlotType]
      BY <2>1, <2>6
    <2> QED BY <2>2, <2>5, <2>6, <2>7
  <1>5. CASE BeginUpdate \/ UNCHANGED vars
    <2>1. UNCHANGED <<queue_tasks, queue_tasks_deferred, n_posted, slots, now>>
      BY <1>5 DEF BeginUpdate, vars
    <2>2. pc' \in {"pop", "update"}
      BY <1>5 DEF BeginUpdate, vars
    <2> QED BY <2>1, <2>2 DEF QueueOK
  <1> QED BY <1>1, <1>2, <1>3, <1>4, <1>5 DEF Next

-----------------------------------------------------------------------------
\* The types; in particular every bias is of a token of the vocabulary, though
\* the request may name any number.
THEOREM DispatchTypes == Spec => []TypeOK
  <1>1. DispatchInv => TypeOK
    <2> SUFFICES ASSUME DispatchInv
                 PROVE  TypeOK
      OBVIOUS
    <2>1. n_posted \in Nat
      BY BoundAssumption DEF DispatchInv
    <2>2. ASSUME NEW q \in {queue_tasks, queue_tasks_deferred}, NEW i \in DOMAIN q
          PROVE  q[i].id \in 0 .. n_posted - 1 /\ q[i].request \in Requests
      <3>1. QueueOK(q)
        BY <2>2 DEF DispatchInv
      <3>2. q[i].id \in Nat /\ q[i].id < n_posted /\ q[i].request \in Requests
        BY <2>2, <3>1, QueueIds
      <3> QED BY <2>1, <3>2
    <2>3. ASSUME NEW k \in Slots
          PROVE  /\ slots[k].busy \in BOOLEAN /\ slots[k].t_last_used \in -1 .. now
                 /\ slots[k].params.bias \in [Vocabulary -> {"none", "value", "-inf"}]
                 /\ slots[k].params.penalty \subseteq Vocabulary
      <3>1. SlotOK(slots[k], now) /\ now \in Nat
        BY DEF DispatchInv
      <3>2. slots[k].params \in ParamsType /\ slots[k].busy \in BOOLEAN
        BY <3>1 DEF SlotOK, SlotType
      <3>3. slots[k].t_last_used \in -1 .. now
        BY <3>1 DEF SlotOK, SlotType
      <3>4. /\ slots[k].params.bias \in BiasTable
            /\ slots[k].params.penalty \subseteq Vocabulary
        BY <3>2 DEF ParamsType
      <3> QED BY <3>2, <3>3, <3>4 DEF BiasTable
    <2> QED BY <2>2, <2>3 DEF TypeOK, DispatchInv
  <1> QED BY <1>1, DispatchInit, DispatchNext, PTL DEF Spec

\* A slot at work has what its own task asks for, whatever tasks it served and
\* whatever launches it gave up before.
THEOREM AlwaysLaunchedAsAsked == Spec => []LaunchedAsAsked
  <1>1. DispatchInv => LaunchedAsAsked
    <2> SUFFICES ASSUME DispatchInv, NEW k \in Slots, slots[k].busy
                 PROVE  AsAsked(slots[k], RequestOf(slots[k]))
      BY DEF LaunchedAsAsked, AsAsked, RequestOf
    <2> QED BY DEF DispatchInv, SlotOK
  <1> QED BY <1>1, DispatchInit, DispatchNext, PTL DEF Spec

(***************************************************************************)
(* Deferred tasks.                                                         *)
(***************************************************************************)
\* Whom a task of request r waits for: every slot, or the one it names.
BehindBusy(of, r) ==
  LET id == json_value(r.id_slot, -1)
  IN  IF id = -1 THEN \A k \in Slots : of[k].busy
      ELSE id \in Slots => of[id].busy

Waiting(q, of) == \A i \in DOMAIN q : BehindBusy(of, q[i].request)

LEMMA NoneChosen ==
  ASSUME DispatchInv, ClockStep = 1, NEW r \in RequestType, NEW t \in Times,
         ChosenSlots(r, t) = {}
  PROVE  BehindBusy(slots, r)
  <1> DEFINE id == json_value(r.id_slot, -1)
  <1>1. CASE id = -1
    <2>1. get_available_slot(PromptText(r), t) = {}
      BY <1>1 DEF ChosenSlots
    <2>2. UsedBefore(t) = {}
      BY <2>1 DEF get_available_slot
    <2>3. ASSUME NEW k \in Slots
          PROVE  slots[k].busy
      <3>1. slots[k].t_last_used \in Int /\ slots[k].t_last_used <= now /\ now \in Nat
        BY DEF DispatchInv, SlotOK, SlotType
      <3>2. slots[k].t_last_used < t
        BY <3>1, ClockAssumption DEF Times
      <3> QED BY <2>2, <3>2 DEF UsedBefore, Available
    <2> QED BY <1>1, <2>3 DEF BehindBusy
  <1>2. CASE id # -1
    <2>1. {k \in get_slot_by_id(id) : Available(k)} = {}
      BY <1>2 DEF ChosenSlots
    <2> QED BY <1>2, <2>1 DEF BehindBusy, get_slot_by_id, Available
  <1> QED BY <1>1, <1>2

\* No task waits in vain: while one is deferred, a slot that it could take is
\* busy, whose release brings it back, if the clock advances between a release and
\* the next choice.
THEOREM NeverDeferredInVain ==
  ASSUME ClockStep = 1
  PROVE  Spec => []DeferredBehindBusy
  <1>1. DeferredBehindBusy <=> Waiting(queue_tasks_deferred, slots)
    BY DEF DeferredBehindBusy, Waiting, BehindBusy
  <1>2. Init => DeferredBehindBusy
    BY DEF Init, DeferredBehindBusy
  <1>3. DispatchInv /\ DeferredBehindBusy /\ [Next]_vars => DeferredBehindBusy'
    <2> SUFFICES ASSUME DispatchInv, DeferredBehindBusy, [Next]_vars
                 PROVE  DeferredBehindBusy'
      OBVIOUS
    <2>1. SUFFICES Waiting(queue_tasks_deferred', slots')
      BY DEF DeferredBehindBusy, Waiting, BehindBusy
    <2> DEFINE StillBusy == \A r : BehindBusy(slots, r) => BehindBusy(slots', r)
    <2>2. CASE Launch
      <3>1. Pop /\ UNCHANGED queue_tasks_deferred
        BY <2>2 DEF Launch
      <3> DEFINE task == Head(queue_tasks)
      <3>2. PICK t \in Times : \E k \in ChosenSlots(task.request, t) :
              slots' = [slots EXCEPT ![k] = Launched(slots[k], task)]
        BY <2>2 DEF Launch
      <3>3. PICK k \in ChosenSlots(task.request, t) :
              slots' = [slots EXCEPT ![k] = Launched(slots[k], task)]
        BY <3>2
      <3>4. task.request \in RequestType
        BY <3>1, Popped, RequestsAssumption DEF TaskType
      <3>5. k \in Slots /\ ~slots[k].busy
        BY <3>4, ChosenAvailable DEF Available
      <3>6. \A j \in Slots : slots[j].busy => slots'[j].busy
        BY <3>3, <3>5 DEF DispatchInv
      <3>7. StillBusy
        BY <3>6 DEF BehindBusy
      <3> QED BY <1>1, <3>1, <3>7 DEF Waiting
    <2>3. CASE Defer
      <3>1. /\ Pop /\ UNCHANGED slots
            /\ queue_tasks_deferred' = Append(queue_tasks_deferred, Head(queue_tasks))
        BY <2>3 DEF Defer
      <3>2. PICK t \in Times : ChosenSlots(Head(queue_tasks).request, t) = {}
        BY <2>3 DEF Defer
      <3>3. Head(queue_tasks).request \in RequestType
        BY <3>1, Popped, RequestsAssumption DEF TaskType
      <3>4. BehindBusy(slots, Head(queue_tasks).request)
        BY <3>2, <3>3, NoneChosen
      <3>5. StillBusy
        BY <3>1 DEF BehindBusy
      <3> DEFINE d == queue_tasks_deferred
      <3>6. d \in Seq(TaskType)
        BY DEF DispatchInv, QueueOK
      <3>7. \A i \in DOMAIN d' : \/ i \in DOMAIN d /\ d'[i] = d[i]
                                 \/ d'[i] = Head(queue_tasks)
        BY <3>1, <3>6
      <3> QED BY <1>1, <3>4, <3>5, <3>7 DEF Waiting
    <2>4. CASE ReleaseSlots
      <3>1. PICK done \in SUBSET {k \in Slots : slots[k].busy} :
              /\ slots' = [k \in Slots |-> IF k \in done
                             THEN [slots[k] EXCEPT !.busy = FALSE, !.t_last_used = now]
                             ELSE slots[k]]
              /\ queue_tasks_deferred' = IF done = {} THEN queue_tasks_deferred ELSE <<>>
        BY <2>4 DEF ReleaseSlots
      <3>2. CASE done = {}
        <4>1. \A k \in Slots : slots'[k] = slots[k]
          BY <3>1, <3>2
        <4>2. StillBusy
          BY <4>1 DEF BehindBusy
        <4> QED BY <1>1, <3>1, <3>2, <4>2 DEF Waiting
      <3>3. CASE done # {}
        <4>1. queue_tasks_deferred' = <<>>
          BY <3>1, <3>3
        <4> QED BY <4>1 DEF Waiting
      <3> QED BY <3>2, <3>3
    <2>5. CASE Post \/ BeginUpdate \/ UNCHANGED vars
      <3>1. UNCHANGED <<slots, queue_tasks_deferred>>
        BY <2>5 DEF Post, BeginUpdate, vars
      <3>2. StillBusy
        BY <3>1 DEF BehindBusy
      <3> QED BY <1>1, <3>1, <3>2 DEF Waiting
    <2> QED BY <2>2, <2>3, <2>4, <2>5 DEF Next
  <1> QED BY <1>2, <1>3, DispatchInit, DispatchNext, PTL DEF Spec

(***************************************************************************)
(* The best slot.                                                          *)
(***************************************************************************)
Shared(k, p) == IF slots[k].prompt.form # "string" THEN 0
                ELSE CommonPart(slots[k].prompt.text, p)
Enough(k, p) == /\ Similarity # 0 /\ Shared(k, p) > 0
                /\ 100 * Shared(k, p) > Similarity * Len(slots[k].prompt.text)

LEMMA SimilarIs ==
  ASSUME DispatchInv, NEW p \in Letters, Similarity # 0, NEW k \in Slots, Available(k)
  PROVE  k \in Similar(p) <=> Enough(k, p)
  BY DEF Similar, Enough, Shared

LEMMA BestChosen ==
  ASSUME DispatchInv, NEW r \in RequestType, r.id_slot = {}, NEW t \in Times,
         NEW k \in ChosenSlots(r, t), NEW j \in Slots, Available(j)
  PROVE  LET p == PromptText(r)
         IN  IF Enough(k, p) THEN Enough(j, p) => Shared(j, p) <= Shared(k, p)
             ELSE ~Enough(j, p) /\ slots[k].t_last_used <= slots[j].t_last_used
  <1> DEFINE p == PromptText(r)
  <1>1. k \in Slots /\ Available(k)
    BY ChosenAvailable
  <1>2. p \in Letters
    BY PromptTextType
  <1>3. k \in get_available_slot(p, t)
    BY DEF ChosenSlots, json_value
  <1> HIDE DEF p
  <1>4. CASE Similarity # 0 /\ p # <<>> /\ Similar(p) # {}
    <2>1. k = MostSimilar(p)
      BY <1>3, <1>4 DEF get_available_slot
    <2>2. /\ k \in Similar(p)
          /\ \A i \in Similar(p) : CommonPart(slots[i].prompt.text, p)
                                     <= CommonPart(slots[k].prompt.text, p)
      BY <1>2, <1>4, <2>1, MostShared
    <2>3. Enough(k, p) /\ (Enough(j, p) => j \in Similar(p))
      BY <1>1, <1>2, <1>4, <2>2, SimilarIs
    <2>4. \A i \in Similar(p) : Shared(i, p) = CommonPart(slots[i].prompt.text, p)
      BY DEF Similar, Shared
    <2> QED BY <2>2, <2>3, <2>4 DEF p
  <1>5. CASE ~(Similarity # 0 /\ p # <<>> /\ Similar(p) # {})
    <2>1. UsedBefore(t) # {} /\ k = LeastRecentlyUsed(t)
      BY <1>3, <1>5 DEF get_available_slot
    <2>2. ASSUME NEW i \in Slots, Available(i)
          PROVE  ~Enough(i, p)
      <3>1. CASE Similarity = 0
        BY <3>1 DEF Enough
      <3>2. CASE p = <<>>
        <4>1. slots[i].prompt.text \in Letters
          BY DEF DispatchInv, SlotType, PromptType, Letters
        <4>2. CommonPart(slots[i].prompt.text, p) \in Nat
              /\ CommonPart(slots[i].prompt.text, p) <= Len(p)
          BY <1>2, <4>1, CommonPartIs
        <4>3. Shared(i, p) = 0
          BY <3>2, <4>2 DEF Shared
        <4> QED BY <4>3 DEF Enough
      <3>3. CASE Similarity # 0 /\ Similar(p) = {}
        BY <1>2, <2>2, <3>3, SimilarIs
      <3> QED BY <1>5, <3>1, <3>2, <3>3
    <2>3. /\ k \in UsedBefore(t)
          /\ \A i \in UsedBefore(t) : slots[k].t_last_used <= slots[i].t_last_used
      BY <2>1, LeastUsed
    <2>4. slots[k].t_last_used \in Int /\ slots[j].t_last_used \in Int /\ t \in Int
      BY <1>1, TimesLater DEF DispatchInv, SlotType
    <2>5. slots[k].t_last_used <= slots[j].t_last_used
      <3>1. CASE slots[j].t_last_used < t
        BY <2>3, <3>1 DEF UsedBefore
      <3>2. CASE ~(slots[j].t_last_used < t)
        BY <2>3, <2>4, <3>2 DEF UsedBefore
      <3> QED BY <3>1, <3>2
    <2> QED BY <1>1, <2>2, <2>5 DEF p
  <1> QED BY <1>4, <1>5

\* A task that names no slot is launched on the free slot whose prompt saves it
\* most work, and when none saves enough on the one unused for the longest time.
THEOREM AlwaysBestSlotTaken == Spec => BestSlotTaken
  <1>1. ASSUME DispatchInv, Next, NEW k \in Slots, slots'[k].task # slots[k].task
        PROVE  LET r == RequestOf(slots'[k])
                   p == PromptText(r)
               IN  r.id_slot # {} \/ \A j \in Slots : Available(j) =>
                     IF Enough(k, p) THEN Enough(j, p) => Shared(j, p) <= Shared(k, p)
                     ELSE ~Enough(j, p) /\ slots[k].t_last_used <= slots[j].t_last_used
    <2>1. CASE Launch
      <3>1. Pop
        BY <2>1 DEF Launch
      <3> DEFINE task == Head(queue_tasks)
                 r == task.request
      <3>2. PICK t \in Times : \E i \in ChosenSlots(r, t) :
              slots' = [slots EXCEPT ![i] = Launched(slots[i], task)]
        BY <2>1 DEF Launch
      <3>3. PICK i \in ChosenSlots(r, t) :
              slots' = [slots EXCEPT ![i] = Launched(slots[i], task)]
        BY <3>2
      <3>4. task \in TaskType
        BY <1>1, <3>1, Popped
      <3>5. r \in RequestType
        BY <3>4, RequestsAssumption DEF TaskType
      <3> HIDE DEF task
      <3>6. i = k
        BY <1>1, <3>3 DEF DispatchInv
      <3>7. slots[k] \in SlotType /\ slots[k].busy = FALSE
        <4>1. Available(k)
          BY <1>1, <3>5, <3>6, ChosenAvailable
        <4>2. slots[k] \in SlotType
          BY <1>1 DEF DispatchInv
        <4>3. slots[k].busy \in BOOLEAN
          BY <4>2 DEF SlotType
        <4> QED BY <4>1, <4>2, <4>3 DEF Available
      <3>8. slots'[k] = Launched(slots[k], task)
        BY <1>1, <3>3, <3>6 DEF DispatchInv
      <3>9. RequestOf(slots'[k]) = r
        <4>1. Launched(slots[k], task).task = {task}
          BY <3>4, <3>7, LaunchedIs
        <4> QED BY <3>8, <4>1, RequestIs
      <3>10. CASE r.id_slot = {}
        <4>1. \A j \in Slots : Available(j) =>
                LET p == PromptText(r)
                IN  IF Enough(k, p) THEN Enough(j, p) => Shared(j, p) <= Shared(k, p)
                    ELSE ~Enough(j, p) /\ slots[k].t_last_used <= slots[j].t_last_used
          BY <1>1, <3>3, <3>5, <3>6, <3>10, BestChosen
        <4> QED BY <3>9, <4>1
      <3>11. CASE r.id_slot # {}
        BY <3>9, <3>11
      <3> QED BY <3>10, <3>11
    <2>2. CASE Post \/ Defer \/ BeginUpdate
      BY <1>1, <2>2 DEF Post, Defer, BeginUpdate
    <2>3. CASE ReleaseSlots
      <3>1. PICK done \in SUBSET {i \in Slots : slots[i].busy} :
              slots' = [i \in Slots |-> IF i \in done
                          THEN [slots[i] EXCEPT !.busy = FALSE, !.t_last_used = now]
                          ELSE slots[i]]
        BY <2>3 DEF ReleaseSlots
      <3>2. slots'[k].task = slots[k].task
        <4>1. CASE k \in done
          <5>1. slots[k] \in SlotType /\ now \in Int /\ FALSE \in BOOLEAN
            BY <1>1 DEF DispatchInv
          <5>2. [slots[k] EXCEPT !.busy = FALSE, !.t_last_used = now].task = slots[k].task
            BY <5>1, ReleasedIs
          <5> QED BY <1>1, <3>1, <4>1, <5>2
        <4>2. CASE k \notin done
          BY <1>1, <3>1, <4>2
        <4> QED BY <4>1, <4>2
      <3> QED BY <1>1, <3>2
    <2> QED BY <1>1, <2>1, <2>2, <2>3 DEF Next
  <1>2. DispatchInv /\ [Next]_vars =>
          [\A k \in Slots : slots'[k].task # slots[k].task =>
             LET r == (CHOOSE task \in slots'[k].task : TRUE).request
                 old(j) == slots[j].prompt.text
                 shared(j) == IF slots[j].prompt.form # "string" THEN 0
                              ELSE CommonPart(old(j), PromptText(r))
                 enough(j) == /\ Similarity # 0 /\ shared(j) > 0
                              /\ 100 * shared(j) > Similarity * Len(old(j))
             IN  r.id_slot # {} \/ \A j \in Slots : Available(j) =>
                   IF enough(k) THEN enough(j) => shared(j) <= shared(k)
                   ELSE ~enough(j) /\ slots[k].t_last_used <= slots[j].t_last_used]_vars
    BY <1>1 DEF RequestOf, Enough, Shared
  <1> QED BY <1>2, DispatchInit, DispatchNext, PTL DEF Spec, BestSlotTaken

=============================================================================
