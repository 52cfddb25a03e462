-------------------------- MODULE TokenTextProofs --------------------------
(***************************************************************************)
(* Proofs about TokenText, for every vocabulary, list of stop words and    *)
(* limits: the types, that what was streamed is a beginning of the text,   *)
(* the token budget and whole characters; and while no token joins the end *)
(* of a character with an unfinished one (Unmixed), that no stop word is   *)
(* sent and that the answer is what was sampled before the first of them.  *)
(***************************************************************************)
EXTENDS TokenText, WellFoundedInduction, TLAPS

(***************************************************************************)
(* Least numbers, which give induction: what a fold computes is found by   *)
(* it (WholeCharacters, AnswerIsCompletion).                               *)
(***************************************************************************)
LEMMA LeastNat ==
  ASSUME NEW S \in SUBSET Nat, S # {}
  PROVE  \E n \in S : \A m \in S : n <= m
  <1> DEFINE R == {ss \in Nat \X Nat : ss[1] < ss[2]}
  <1>1. IsWellFoundedOn(R, Nat)
    BY NatLessThanWellFounded DEF OpToRel
  <1>2. PICK n \in S : \A m \in S : <<m, n>> \notin R
    <2> HIDE DEF R
    <2> QED BY <1>1, WFMin
  <1>3. \A m \in S : ~(m < n)
    BY <1>2
  <1> QED BY <1>3

\* A set that holds 0 and with each number the next one holds all.
LEMMA NatInduct ==
  ASSUME NEW P, 0 \in P, \A n \in Nat : n \in P => n + 1 \in P
  PROVE  Nat \subseteq P
  <1> SUFFICES ASSUME Nat \ P # {}
               PROVE  FALSE
    OBVIOUS
  <1>1. PICK n \in Nat \ P : \A m \in Nat \ P : n <= m
    BY LeastNat
  <1>2. n - 1 \in Nat /\ n - 1 \in P
    BY <1>1
  <1> QED BY <1>1, <1>2

(***************************************************************************)
(* Texts by their indices.                                                 *)
(***************************************************************************)
\* The word begins at offset p of the text.
At(w, x, p) == p + Len(w) <= Len(x) /\ \A i \in 1 .. Len(w) : x[p + i] = w[i]

\* The first m bytes of the text end with the first n of the word.
EndsAt(w, x, m, n) == n <= m /\ \A i \in 1 .. n : x[m - n + i] = w[i]

LEMMA PositionsAre ==
  ASSUME NEW w \in Text, NEW x \in Text
  PROVE  \A p : p \in Positions(w, x) <=> p \in 0 .. Len(x) /\ At(w, x, p)
  <1>1. Len(w) \in Nat /\ Len(x) \in Nat
    BY DEF Text
  <1>2. ASSUME NEW p \in 0 .. Len(x) - Len(w)
        PROVE  SubSeq(x, p + 1, p + Len(w)) = w <=> \A i \in 1 .. Len(w) : x[p + i] = w[i]
    <2> DEFINE y == SubSeq(x, p + 1, p + Len(w))
    <2>1. p \in Nat /\ p + Len(w) <= Len(x)
      BY <1>1
    <2>2. y \in Text /\ Len(y) = Len(w) /\ \A i \in 1 .. Len(w) : y[i] = x[p + i]
      BY <1>1, <2>1 DEF Text
    <2> HIDE DEF y
    <2>3. y = w <=> \A i \in 1 .. Len(w) : y[i] = w[i]
      BY <1>1, <2>2, SMTT(20) DEF Text
    <2> QED BY <2>2, <2>3 DEF y
  <1>3. \A p : p \in 0 .. Len(x) - Len(w) <=> p \in 0 .. Len(x) /\ p + Len(w) <= Len(x)
    BY <1>1
  <1> QED BY <1>2, <1>3 DEF Positions, At

LEMMA SuffixIs ==
  ASSUME NEW y \in Text, NEW x \in Text
  PROVE  IsSuffix(y, x) <=> EndsAt(y, x, Len(x), Len(y))
  <1> DEFINE n == Len(y)  m == Len(x)
             ry == Reverse(y)  rx == Reverse(x)
  <1>1. n \in Nat /\ m \in Nat
    BY DEF Text
  <1>2. ry = [i \in 1 .. n |-> y[(n - i) + 1]] /\ rx = [i \in 1 .. m |-> x[(m - i) + 1]]
    BY DEF Reverse
  <1>3. /\ ry \in Text /\ Len(ry) = n /\ \A i \in 1 .. n : ry[i] = y[(n - i) + 1]
        /\ rx \in Text /\ Len(rx) = m /\ \A i \in 1 .. m : rx[i] = x[(m - i) + 1]
    <2>1. \A i \in 1 .. n : (n - i) + 1 \in 1 .. n
      BY <1>1
    <2>2. \A i \in 1 .. m : (m - i) + 1 \in 1 .. m
      BY <1>1
    <2> QED BY <1>1, <1>2, <2>1, <2>2 DEF Text
  <1> HIDE DEF ry, rx
  <1>4. CASE ~(n <= m)
    BY <1>3, <1>4 DEF IsSuffix, IsPrefix, EndsAt, ry, rx
  <1>5. CASE n <= m
    <2>1. IsSuffix(y, x) <=> SubSeq(ry, 1, n) = SubSeq(rx, 1, n)
      BY <1>3, <1>5 DEF IsSuffix, IsPrefix, ry, rx
    <2>2. /\ Len(SubSeq(ry, 1, n)) = n /\ Len(SubSeq(rx, 1, n)) = n
          /\ SubSeq(ry, 1, n) \in Text /\ SubSeq(rx, 1, n) \in Text
          /\ \A i \in 1 .. n : SubSeq(ry, 1, n)[i] = ry[i] /\ SubSeq(rx, 1, n)[i] = rx[i]
      BY <1>1, <1>3, <1>5 DEF Text
    <2>3. IsSuffix(y, x) <=> \A i \in 1 .. n : ry[i] = rx[i]
      BY <2>1, <2>2 DEF Text
    <2>4. \A i \in 1 .. n : i \in 1 .. m /\ (n - i) + 1 \in 1 .. n /\ m - n + ((n - i) + 1) = (m - i) + 1
      BY <1>1, <1>5
    <2>5. \A i \in 1 .. n : (ry[i] = rx[i]) <=> (y[(n - i) + 1] = x[m - n + ((n - i) + 1)])
      BY <1>3, <2>4
    <2>6. \A j \in 1 .. n : (n - j) + 1 \in 1 .. n /\ (n - ((n - j) + 1)) + 1 = j
      BY <1>1
    <2>7. (\A i \in 1 .. n : ry[i] = rx[i]) <=> \A j \in 1 .. n : y[j] = x[m - n + j]
      BY <2>4, <2>5, <2>6
    <2> QED BY <1>5, <2>3, <2>7 DEF EndsAt
  <1> QED BY <1>4, <1>5

\* The least of some numbers.
LEMMA LeastLemma ==
  ASSUME NEW S \in SUBSET Nat, S # {}
  PROVE  LeastOf(S) \in S /\ \A q \in S : LeastOf(S) <= q
  BY LeastNat DEF LeastOf

\* The byte at i begins a character that the text does not finish.
EndsInside(x, i) == /\ \A j \in i + 1 .. Len(x) : x[j] = "C"
                    /\ Len(x) - i + 1 < BytesOf(x[i])

\* Four bytes are enough to look at.
LEMMA IncompleteIs ==
  ASSUME NEW x \in Text
  PROVE  Incomplete(x) <=> \E i \in 1 .. Len(x) : EndsInside(x, i)
  <1> DEFINE n == Len(x)
  <1>1. n \in Nat /\ \A i \in 1 .. n : BytesOf(x[i]) \in 0 .. 4
    BY DEF Text, BytesOf
  <1>2. Incomplete(x) <=> \E i \in 1 .. n :
          /\ i <= 4 /\ \A j \in n - i + 2 .. n : x[j] = "C"
          /\ i < BytesOf(x[n - i + 1])
    BY DEF Incomplete, IncompleteWithin
  <1>3. \A i \in 1 .. n : EndsInside(x, i) <=>
          (\A j \in i + 1 .. n : x[j] = "C") /\ n - i + 1 < BytesOf(x[i])
    BY DEF EndsInside
  <1> HIDE DEF n
  <1>4. ASSUME NEW i \in 1 .. n, i <= 4, \A j \in n - i + 2 .. n : x[j] = "C",
               i < BytesOf(x[n - i + 1])
        PROVE  \E k \in 1 .. n : EndsInside(x, k)
    <2>1. PICK k \in 1 .. n : k = n - i + 1 /\ k + 1 = n - i + 2 /\ n - k + 1 = i
      BY <1>1
    <2> QED BY <1>3, <1>4, <2>1
  <1>5. ASSUME NEW k \in 1 .. n, EndsInside(x, k)
        PROVE  \E i \in 1 .. n : /\ i <= 4 /\ \A j \in n - i + 2 .. n : x[j] = "C"
                                 /\ i < BytesOf(x[n - i + 1])
    <2>1. PICK i \in 1 .. n : i = n - k + 1 /\ k + 1 = n - i + 2 /\ n - i + 1 = k
      BY <1>1
    <2>2. i < BytesOf(x[k]) /\ \A j \in k + 1 .. n : x[j] = "C"
      BY <1>3, <1>5, <2>1
    <2>3. i <= 4
      BY <1>1, <2>1, <2>2
    <2> QED BY <2>1, <2>2, <2>3
  <1>6. (\E k \in 1 .. n : EndsInside(x, k)) => Incomplete(x)
    BY <1>2, <1>5
  <1>7. Incomplete(x) => \E k \in 1 .. n : EndsInside(x, k)
    BY <1>2, <1>4
  <1> QED BY <1>6, <1>7 DEF n

(***************************************************************************)
(* Missing: the fold over the bytes, byte by byte.                         *)
(***************************************************************************)
\* f maps each set of indices up to n to what its bytes leave missing.
Folds(f, x, n) ==
  f = [s \in SUBSET (1 .. n) |->
         IF s = {} THEN 0 ELSE StillMissing(f[s \ {Max(s)}], x[Max(s)])]

LEMMA MaxIs ==
  ASSUME NEW n \in Nat, NEW s \in SUBSET (1 .. n + 1), n + 1 \in s
  PROVE  Max(s) = n + 1
  <1>1. \A x \in s : (\A y \in s : x >= y) <=> x = n + 1
    OBVIOUS
  <1> QED BY <1>1 DEF Max

LEMMA FoldsOneMore ==
  ASSUME NEW x, NEW n \in Nat, NEW f, Folds(f, x, n)
  PROVE  \E g : Folds(g, x, n + 1)
  <1> DEFINE up(s) == n + 1 \in s
             g == [s \in SUBSET (1 .. n + 1) |->
                     IF up(s) THEN StillMissing(f[s \ {n + 1}], x[n + 1]) ELSE f[s]]
             h == [s \in SUBSET (1 .. n + 1) |->
                     IF s = {} THEN 0 ELSE StillMissing(g[s \ {Max(s)}], x[Max(s)])]
  <1>1. ASSUME NEW s \in SUBSET (1 .. n + 1)
        PROVE  g[s] = h[s]
    <2>1. CASE up(s)
      <3>1. Max(s) = n + 1 /\ s # {}
        BY <2>1, MaxIs
      <3>2. s \ {n + 1} \in SUBSET (1 .. n + 1) /\ ~up(s \ {n + 1})
        OBVIOUS
      <3>3. g[s \ {n + 1}] = f[s \ {n + 1}]
        BY <3>2
      <3>4. h[s] = StillMissing(f[s \ {n + 1}], x[n + 1])
        BY <3>1, <3>3
      <3> QED BY <2>1, <3>4
    <2>2. CASE ~up(s)
      <3>1. s \in SUBSET (1 .. n)
        BY <2>2
      <3>2. s \ {Max(s)} \in SUBSET (1 .. n) /\ ~up(s \ {Max(s)})
        <4>1. \A y : s \ {y} \in SUBSET (1 .. n) /\ ~up(s \ {y})
          BY <2>2, <3>1
        <4> QED BY <4>1
      <3>3. SUBSET (1 .. n) \subseteq SUBSET (1 .. n + 1)
        OBVIOUS
      <3>4. g[s] = f[s] /\ g[s \ {Max(s)}] = f[s \ {Max(s)}]
        BY <2>2, <3>2, <3>3
      <3>5. f[s] = IF s = {} THEN 0 ELSE StillMissing(f[s \ {Max(s)}], x[Max(s)])
        BY <3>1 DEF Folds
      <3> QED BY <3>4, <3>5
    <2> QED BY <2>1, <2>2
  <1>2. g = h
    BY <1>1
  <1> QED BY <1>2 DEF Folds

LEMMA FoldsExist ==
  ASSUME NEW x, NEW n \in Nat
  PROVE  \E f : Folds(f, x, n)
  <1> DEFINE P == {m \in Nat : \E f : Folds(f, x, m)}
             f0 == [s \in SUBSET (1 .. 0) |-> 0]
  <1>1. f0 = [s \in SUBSET (1 .. 0) |->
                IF s = {} THEN 0 ELSE StillMissing(f0[s \ {Max(s)}], x[Max(s)])]
    <2>1. \A s \in SUBSET (1 .. 0) : s = {}
      OBVIOUS
    <2> QED BY <2>1
  <1>2. 0 \in P
    BY <1>1 DEF Folds
  <1>3. \A m \in Nat : m \in P => m + 1 \in P
    BY FoldsOneMore
  <1>4. Nat \subseteq P
    <2> HIDE DEF P
    <2> QED BY <1>2, <1>3, NatInduct
  <1> QED BY <1>4

\* What the first n bytes leave missing, n by n.
LEMMA MissingSteps ==
  ASSUME NEW x \in Text
  PROVE  \E f : /\ f[{}] = 0
                /\ \A n \in 0 .. Len(x) - 1 : f[1 .. n + 1] = StillMissing(f[1 .. n], x[n + 1])
                /\ Missing(x) = f[1 .. Len(x)]
  <1>1. PICK m \in Nat : m = Len(x) /\ DOMAIN x = 1 .. m
    BY DEF Text
  <1> DEFINE f == CHOOSE g : Folds(g, x, m)
  <1>2. Folds(f, x, m)
    BY FoldsExist
  <1>3. Missing(x) = f[1 .. m]
    BY <1>1 DEF Missing, FoldLeft, MapThenFoldSet, Folds
  <1> HIDE DEF f
  <1>4. f[{}] = 0
    BY <1>2 DEF Folds
  <1>5. ASSUME NEW n \in 0 .. m - 1
        PROVE  f[1 .. n + 1] = StillMissing(f[1 .. n], x[n + 1])
    <2>1. n \in Nat /\ n + 1 <= m
      OBVIOUS
    <2>2. 1 .. n + 1 \in SUBSET (1 .. m)
      BY <2>1
    <2>3. 1 \in 1 .. n + 1
      BY <2>1
    <2>4. (1 .. n + 1) \ {n + 1} = 1 .. n
      BY <2>1
    <2>5. Max(1 .. n + 1) = n + 1
      BY <2>1, MaxIs
    <2> QED BY <1>2, <2>2, <2>3, <2>4, <2>5 DEF Folds
  <1> QED BY <1>1, <1>3, <1>4, <1>5

\* v bytes are missing after the first n: of a character that began among them.
Begun(x, n, v) ==
  /\ v \in Int
  /\ v > 0 => \E i \in 1 .. n : /\ \A j \in i + 1 .. n : x[j] = "C"
                                /\ v = BytesOf(x[i]) - 1 - (n - i)

LEMMA BegunOneMore ==
  ASSUME NEW x \in Text, NEW n \in 0 .. Len(x) - 1, NEW v, Begun(x, n, v)
  PROVE  Begun(x, n + 1, StillMissing(v, x[n + 1]))
  <1>1. n \in Nat /\ n + 1 \in 1 .. Len(x) /\ v \in Int
    BY DEF Text, Begun
  <1>2. \A i \in 1 .. Len(x) : BytesOf(x[i]) \in 0 .. 4
    BY DEF Text, BytesOf
  <1>3. CASE x[n + 1] # "C"
    <2>1. StillMissing(v, x[n + 1]) = BytesOf(x[n + 1]) - 1
      BY <1>3 DEF StillMissing
    <2>2. \A j \in (n + 1) + 1 .. n + 1 : x[j] = "C"
      BY <1>1
    <2> QED BY <1>1, <1>2, <2>1, <2>2 DEF Begun
  <1>4. CASE x[n + 1] = "C" /\ ~(v > 0)
    BY <1>1, <1>4 DEF Begun, StillMissing
  <1>5. CASE x[n + 1] = "C" /\ v > 0
    <2>1. PICK i \in 1 .. n : /\ \A j \in i + 1 .. n : x[j] = "C"
                              /\ v = BytesOf(x[i]) - 1 - (n - i)
      BY <1>5 DEF Begun
    <2>2. StillMissing(v, x[n + 1]) = v - 1
      BY <1>5 DEF StillMissing
    <2>3. i \in 1 .. n + 1 /\ i \in Nat /\ BytesOf(x[i]) \in Int
      BY <1>1, <1>2
    <2>4. \A j \in i + 1 .. n + 1 : x[j] = "C"
      BY <1>1, <1>5, <2>1, <2>3
    <2>5. v - 1 = BytesOf(x[i]) - 1 - ((n + 1) - i) /\ v - 1 \in Int
      <3>1. PICK c \in Int : c = BytesOf(x[i])
        BY <2>3
      <3>2. v = c - 1 - (n - i)
        BY <2>1, <3>1
      <3>3. \A k, m, b \in Int : b - 1 - (m - k) - 1 = b - 1 - ((m + 1) - k)
        OBVIOUS
      <3>4. n \in Int /\ i \in Int
        BY <1>1, <2>3
      <3>5. v - 1 = c - 1 - ((n + 1) - i)
        BY <3>2, <3>3, <3>4
      <3> QED BY <1>1, <3>1, <3>5
    <2> QED BY <2>2, <2>3, <2>4, <2>5 DEF Begun
  <1> QED BY <1>3, <1>4, <1>5

\* Bytes are missing only where the text ends inside a character.
LEMMA MissingIs ==
  ASSUME NEW x \in Text, ~Incomplete(x)
  PROVE  Missing(x) <= 0
  <1>1. Len(x) \in Nat
    BY DEF Text
  <1>2. PICK f : /\ f[{}] = 0
                 /\ \A n \in 0 .. Len(x) - 1 :
                      f[1 .. n + 1] = StillMissing(f[1 .. n], x[n + 1])
                 /\ Missing(x) = f[1 .. Len(x)]
    BY MissingSteps
  <1> DEFINE P == {n \in Nat : n <= Len(x) => Begun(x, n, f[1 .. n])}
  <1>3. 0 \in P
    <2>1. 1 .. 0 = {}
      OBVIOUS
    <2> QED BY <1>2, <2>1 DEF Begun
  <1>4. ASSUME NEW n \in Nat, n \in P
        PROVE  n + 1 \in P
    <2> SUFFICES ASSUME n + 1 <= Len(x)
                 PROVE  Begun(x, n + 1, f[1 .. n + 1])
      OBVIOUS
    <2>1. n \in 0 .. Len(x) - 1 /\ Begun(x, n, f[1 .. n])
      BY <1>1, <1>4
    <2>2. Begun(x, n + 1, StillMissing(f[1 .. n], x[n + 1]))
      BY <2>1, BegunOneMore
    <2> QED BY <1>2, <2>1, <2>2
  <1>5. Nat \subseteq P
    <2> HIDE DEF P
    <2> QED BY <1>3, <1>4, NatInduct
  <1>6. Begun(x, Len(x), Missing(x))
    BY <1>1, <1>2, <1>5
  <1>7. SUFFICES ASSUME Missing(x) > 0 PROVE FALSE
    BY <1>6 DEF Begun
  <1>8. PICK i \in 1 .. Len(x) : /\ \A j \in i + 1 .. Len(x) : x[j] = "C"
                                 /\ Missing(x) = BytesOf(x[i]) - 1 - (Len(x) - i)
    BY <1>6, <1>7 DEF Begun
  <1>9. BytesOf(x[i]) \in Int
    BY DEF Text, BytesOf
  <1>10. EndsInside(x, i)
    BY <1>1, <1>7, <1>8, <1>9 DEF EndsInside
  <1> QED BY <1>10, IncompleteIs

(***************************************************************************)
(* FlattenSeq: all that was sampled, token by token.                       *)
(***************************************************************************)
\* f[i] is the first i texts, joined.
Joins(f, toks, n) ==
  f = [i \in 1 .. n |-> IF i = 1 THEN toks[i] ELSE f[i - 1] \o toks[i]]

LEMMA JoinsOneMore ==
  ASSUME NEW toks, NEW n \in Nat, NEW f, Joins(f, toks, n)
  PROVE  \E g : Joins(g, toks, n + 1)
  <1> DEFINE new(i) == IF i \in 1 .. n THEN f[i]
                       ELSE IF i = 1 THEN toks[i] ELSE f[i - 1] \o toks[i]
             g == [i \in 1 .. n + 1 |-> new(i)]
             old(i) == IF i = 1 THEN toks[i] ELSE g[i - 1] \o toks[i]
  <1>1. ASSUME NEW i \in 1 .. n + 1
        PROVE  new(i) = old(i)
    <2>1. CASE i = 1
      <3>1. i \in 1 .. n => f[i] = toks[i]
        BY <2>1 DEF Joins
      <3> QED BY <2>1, <3>1
    <2>2. CASE i # 1
      <3>1. i - 1 \in 1 .. n /\ i - 1 \in 1 .. n + 1
        BY <2>2
      <3>2. g[i - 1] = f[i - 1]
        BY <3>1
      <3>3. i \in 1 .. n => f[i] = f[i - 1] \o toks[i]
        BY <2>2 DEF Joins
      <3> QED BY <2>2, <3>2, <3>3, Zenon
    <2> QED BY <2>1, <2>2
  <1>2. g = [i \in 1 .. n + 1 |-> old(i)]
    <2> HIDE DEF new, old
    <2> QED BY <1>1, Zenon
  <1> QED BY <1>2 DEF Joins

LEMMA JoinsExist ==
  ASSUME NEW toks, NEW n \in Nat
  PROVE  \E f : Joins(f, toks, n)
  <1> DEFINE P == {m \in Nat : \E f : Joins(f, toks, m)}
             f0 == [i \in 1 .. 0 |-> toks]
  <1>1. f0 = [i \in 1 .. 0 |-> IF i = 1 THEN toks[i] ELSE f0[i - 1] \o toks[i]]
    OBVIOUS
  <1>2. 0 \in P
    BY <1>1 DEF Joins
  <1>3. \A m \in Nat : m \in P => m + 1 \in P
    BY JoinsOneMore
  <1>4. Nat \subseteq P
    <2> HIDE DEF P
    <2> QED BY <1>2, <1>3, NatInduct
  <1> QED BY <1>4

\* Joined texts are texts, and what follows a sequence does not change them.
LEMMA JoinsAgree ==
  ASSUME NEW toks \in Seq(Text), NEW n \in 0 .. Len(toks), NEW f, Joins(f, toks, n),
         NEW more, NEW m \in Nat, n <= m, NEW g, Joins(g, more, m),
         \A i \in 1 .. n : more[i] = toks[i]
  PROVE  \A i \in 1 .. n : f[i] \in Text /\ g[i] = f[i]
  <1> DEFINE P == {i \in Nat : i \in 1 .. n => f[i] \in Text /\ g[i] = f[i]}
  <1>1. 0 \in P
    OBVIOUS
  <1>2. ASSUME NEW i \in Nat, i \in P
        PROVE  i + 1 \in P
    <2> SUFFICES ASSUME i + 1 \in 1 .. n
                 PROVE  f[i + 1] \in Text /\ g[i + 1] = f[i + 1]
      OBVIOUS
    <2>1. n \in Nat /\ i + 1 \in 1 .. m /\ i + 1 \in 1 .. Len(toks) /\ Len(toks) \in Nat
      OBVIOUS
    <2>2. toks[i + 1] \in Text /\ more[i + 1] = toks[i + 1]
      BY <2>1
    <2>3. CASE i = 0
      <3>1. i + 1 = 1
        BY <2>3
      <3> QED BY <2>1, <2>2, <3>1 DEF Joins
    <2>4. CASE i # 0
      <3>1. i \in 1 .. n /\ i + 1 # 1 /\ (i + 1) - 1 = i
        BY <2>1, <2>4
      <3>2. f[i] \in Text /\ g[i] = f[i]
        BY <1>2, <3>1
      <3>3. f[i + 1] = f[i] \o toks[i + 1] /\ g[i + 1] = g[i] \o more[i + 1]
        <4>1. /\ f[i + 1] = IF i + 1 = 1 THEN toks[i + 1] ELSE f[(i + 1) - 1] \o toks[i + 1]
              /\ g[i + 1] = IF i + 1 = 1 THEN more[i + 1] ELSE g[(i + 1) - 1] \o more[i + 1]
          BY <2>1, Zenon DEF Joins
        <4> QED BY <3>1, <4>1, Zenon
      <3> QED BY <2>2, <3>2, <3>3 DEF Text
    <2> QED BY <2>3, <2>4
  <1>3. Nat \subseteq P
    <2> HIDE DEF P
    <2> QED BY <1>1, <1>2, NatInduct
  <1> QED BY <1>3

LEMMA FlattenIs ==
  ASSUME NEW toks \in Seq(Text), toks # <<>>
  PROVE  \E f : Joins(f, toks, Len(toks)) /\ FlattenSeq(toks) = f[Len(toks)]
  <1>1. PICK n \in Nat : n = Len(toks) /\ n # 0
    OBVIOUS
  <1> DEFINE f == CHOOSE g : Joins(g, toks, n)
  <1>2. Joins(f, toks, n)
    BY JoinsExist
  <1>3. FlattenSeq(toks) = f[n]
    BY <1>1 DEF FlattenSeq, Joins
  <1> QED BY <1>1, <1>2, <1>3

LEMMA FlattenEmpty == FlattenSeq(<<>>) = <<>> /\ <<>> \in Text
  BY DEF FlattenSeq, Text

\* A token more adds its text.
LEMMA FlattenAppend ==
  ASSUME NEW toks \in Seq(Text), NEW t \in Text
  PROVE  /\ FlattenSeq(toks) \in Text
         /\ FlattenSeq(Append(toks, t)) = FlattenSeq(toks) \o t
  <1> DEFINE more == Append(toks, t)
  <1>1. PICK n \in Nat : n = Len(toks)
    OBVIOUS
  <1>2. /\ more \in Seq(Text) /\ Len(more) = n + 1 /\ more # <<>> /\ more[n + 1] = t
        /\ \A i \in 1 .. n : more[i] = toks[i]
    BY <1>1
  <1> HIDE DEF more
  <1>3. PICK g : Joins(g, more, n + 1) /\ FlattenSeq(more) = g[n + 1]
    BY <1>2, FlattenIs
  <1>4. CASE toks = <<>>
    <2>1. n = 0
      BY <1>1, <1>4
    <2>2. 1 \in 1 .. 1
      OBVIOUS
    <2>3. g[1] = t
      BY <1>2, <1>3, <2>1, <2>2 DEF Joins
    <2>4. <<>> \o t = t
      BY DEF Text
    <2>5. FlattenSeq(more) = t
      BY <1>3, <2>1, <2>3
    <2> QED BY <1>4, <2>4, <2>5, FlattenEmpty DEF more
  <1>5. CASE toks # <<>>
    <2>1. n \in 1 .. n /\ n + 1 \in 1 .. n + 1 /\ n + 1 # 1 /\ (n + 1) - 1 = n
      BY <1>1, <1>5
    <2>2. PICK f : Joins(f, toks, n) /\ FlattenSeq(toks) = f[n]
      BY <1>1, <1>5, FlattenIs
    <2>3. f[n] \in Text /\ g[n] = f[n]
      <3>1. n \in 0 .. Len(toks) /\ n + 1 \in Nat /\ n <= n + 1
        BY <1>1
      <3> QED BY <1>2, <1>3, <2>1, <2>2, <3>1, JoinsAgree
    <2>4. g[n + 1] = g[n] \o t
      BY <1>2, <1>3, <2>1 DEF Joins
    <2> QED BY <1>3, <2>2, <2>3, <2>4 DEF more
  <1> QED BY <1>4, <1>5

(***************************************************************************)
(* The parts of process_token.                                             *)
(***************************************************************************)
SlotRecord ==
  [params : Requests, generated_text : Text, n_sent_text : Nat,
   has_next_token : BOOLEAN, stopped_word : BOOLEAN, stopped_eos : BOOLEAN,
   stopped_limit : BOOLEAN, truncated : BOOLEAN, stopping_word : Text,
   n_decoded : Nat, text_to_send : Text]

Sound(s) == s \in SlotRecord /\ s.n_sent_text <= Len(s.generated_text)

Words(s) == s.params.antiprompt
Stops(s, token) == FullStops(Words(s), Unsent(s), Len(token.text))

LEMMA TypesOf ==
  ASSUME NEW s, Sound(s)
  PROVE  /\ s.params \in Requests /\ s.generated_text \in Text
         /\ Len(s.generated_text) \in Nat /\ s.n_sent_text \in Nat
         /\ s.n_sent_text <= Len(s.generated_text) /\ s.n_decoded \in Nat
  BY DEF Sound, SlotRecord, Text

LEMMA WordsAre ==
  ASSUME NEW s, Sound(s)
  PROVE  /\ Words(s) \in Seq(Text)
         /\ \A i \in DOMAIN Words(s) : Words(s)[i] \in Text
  <1>1. s.params \in Requests
    BY DEF Sound, SlotRecord
  <1>2. Words(s) \in Seq(Text)
    BY <1>1, RequestsAssumption DEF Words
  <1>3. \A i \in DOMAIN Words(s) : Words(s)[i] \in Text
    BY <1>2
  <1> QED BY <1>2, <1>3

LEMMA UnsentIs ==
  ASSUME NEW s, Sound(s)
  PROVE  /\ Unsent(s) \in Text
         /\ Len(Unsent(s)) = Len(s.generated_text) - s.n_sent_text
         /\ \A i \in 1 .. Len(Unsent(s)) :
              Unsent(s)[i] = s.generated_text[s.n_sent_text + i]
  <1>1. /\ s.generated_text \in Text /\ s.n_sent_text \in Nat
        /\ s.n_sent_text <= Len(s.generated_text)
    BY DEF Sound, SlotRecord
  <1> DEFINE G == s.generated_text
             n == s.n_sent_text
  <1>2. Unsent(s) = SubSeq(G, n + 1, Len(G))
    BY DEF Unsent
  <1>3. G \in Seq(Byte) /\ n \in Nat /\ n <= Len(G) /\ Len(G) \in Nat
    BY <1>1 DEF Text
  <1> HIDE DEF G, n
  <1>4. /\ SubSeq(G, n + 1, Len(G)) \in Seq(Byte)
        /\ Len(SubSeq(G, n + 1, Len(G))) = Len(G) - n
        /\ \A i \in 1 .. Len(G) - n : SubSeq(G, n + 1, Len(G))[i] = G[n + i]
    BY <1>3
  <1> QED BY <1>2, <1>4 DEF Text, G, n

\* What find_stopping_strings finds, in the terms of the whole text.
LEMMA StopsAre ==
  ASSUME NEW s, Sound(s), NEW token \in Tokens
  PROVE  /\ Stops(s, token) \subseteq 0 .. Len(Unsent(s))
         /\ \A p \in Stops(s, token) : s.n_sent_text + p \in 0 .. Len(s.generated_text)
         /\ \A i \in DOMAIN Words(s) : \A p \in Positions(Words(s)[i], Unsent(s)) :
              p + Len(Words(s)[i]) > Len(Unsent(s)) - Len(token.text) =>
                p \in Stops(s, token)
  <1> DEFINE u == Unsent(s)
             z == Len(token.text)
  <1>1. /\ s.n_sent_text \in Nat /\ s.n_sent_text <= Len(s.generated_text)
        /\ Len(s.generated_text) \in Nat
    BY DEF Sound, SlotRecord, Text
  <1>2. u \in Text /\ Len(u) = Len(s.generated_text) - s.n_sent_text
    BY UnsentIs
  <1>3. z \in Nat /\ Len(u) \in Nat
    BY <1>2, TokensAssumption DEF Text
  <1>4. Stops(s, token) = UNION {Found(Words(s)[i], u, z) : i \in DOMAIN Words(s)}
    BY DEF Stops, FullStops
  <1> HIDE DEF u, z
  <1>5. \A i \in DOMAIN Words(s) : \A p \in Found(Words(s)[i], u, z) : p \in 0 .. Len(u)
    BY <1>2, WordsAre, PositionsAre DEF Found
  <1>6. ASSUME NEW i \in DOMAIN Words(s), NEW p \in Positions(Words(s)[i], u),
               p + Len(Words(s)[i]) > Len(u) - z
        PROVE  p \in Found(Words(s)[i], u, z)
    <2>1. p \in 0 .. Len(u) /\ Len(Words(s)[i]) \in Nat
      BY <1>2, WordsAre, PositionsAre DEF Text
    <2>2. p >= FromPos(u, Words(s)[i], z)
      BY <1>3, <1>6, <2>1 DEF FromPos
    <2> QED BY <1>6, <2>2 DEF Found
  <1>7. Stops(s, token) \subseteq 0 .. Len(u)
    BY <1>4, <1>5
  <1>8. \A p \in Stops(s, token) : s.n_sent_text + p \in 0 .. Len(s.generated_text)
    BY <1>1, <1>2, <1>7
  <1> QED BY <1>4, <1>6, <1>7, <1>8 DEF u, z

\* The least stop is one, and erasing from there leaves a text.
LEMMA StopAtIs ==
  ASSUME NEW s, Sound(s), NEW token \in Tokens, Stops(s, token) # {}
  PROVE  LET p  == LeastOf(Stops(s, token))
             s1 == StopAt(s, token, p)
         IN  /\ p \in Stops(s, token) /\ \A q \in Stops(s, token) : p <= q
             /\ Sound(s1) /\ s1.params = s.params /\ s1.n_decoded = s.n_decoded
             /\ s1.n_sent_text = s.n_sent_text /\ s1.text_to_send = s.text_to_send
             /\ Len(s1.generated_text) = s.n_sent_text + p
             /\ \A i \in 1 .. s.n_sent_text + p :
                  s1.generated_text[i] = s.generated_text[i]
  <1> DEFINE S == Stops(s, token)
             p == LeastOf(S)
             u == Unsent(s)
             w == WordAt(Words(s), u, Len(token.text), p)
  <1>1. p \in S /\ \A q \in S : p <= q
    <2>1. S \subseteq 0 .. Len(u) /\ Len(u) \in Nat
      BY StopsAre, UnsentIs DEF Text
    <2> QED BY <2>1, LeastLemma
  <1>2. w \in Text
    <2> DEFINE I == {i \in DOMAIN Words(s) : p \in Found(Words(s)[i], u, Len(token.text))}
    <2>1. I # {}
      BY <1>1 DEF Stops, FullStops
    <2>2. DOMAIN Words(s) = 1 .. Len(Words(s)) /\ Len(Words(s)) \in Nat
      BY WordsAre
    <2>3. I \in SUBSET (0 .. Len(Words(s)))
      BY <2>2
    <2> HIDE DEF I
    <2>4. LeastOf(I) \in I
      BY <2>1, <2>2, <2>3, LeastLemma
    <2>5. LeastOf(I) \in DOMAIN Words(s)
      BY <2>4 DEF I
    <2> QED BY <2>5, WordsAre DEF WordAt, I
  <1>3. /\ s \in SlotRecord /\ s.generated_text \in Text /\ s.n_sent_text \in Nat
        /\ s.n_sent_text + p \in 0 .. Len(s.generated_text) /\ p \in Nat
    <2>1. s \in SlotRecord /\ s.generated_text \in Text /\ s.n_sent_text \in Nat
      BY DEF Sound, SlotRecord
    <2>2. S \subseteq 0 .. Len(u) /\ \A q \in S : s.n_sent_text + q \in 0 .. Len(s.generated_text)
      BY StopsAre
    <2> QED BY <1>1, <2>1, <2>2
  <1>4. StopAt(s, token, p) =
          [s EXCEPT !.generated_text = ErasedFrom(s, p), !.stopped_word = TRUE,
                    !.has_next_token = FALSE, !.stopping_word = w]
    BY DEF StopAt, Words
  <1> HIDE DEF S, p, u, w
  <1> DEFINE g == ErasedFrom(s, p)
  <1>5. /\ g \in Text /\ Len(g) = s.n_sent_text + p
        /\ \A i \in 1 .. s.n_sent_text + p : g[i] = s.generated_text[i]
    <2>1. g = SubSeq(s.generated_text, 1, s.n_sent_text + p)
      BY DEF ErasedFrom
    <2>2. PICK m \in Nat : m = s.n_sent_text + p /\ m <= Len(s.generated_text)
      BY <1>3
    <2> QED BY <1>3, <2>1, <2>2 DEF Text
  <1> HIDE DEF g
  <1> DEFINE s1 == StopAt(s, token, p)
  <1>6. /\ s1 \in SlotRecord /\ s1.generated_text = g /\ s1.n_sent_text = s.n_sent_text
        /\ s1.params = s.params /\ s1.n_decoded = s.n_decoded
        /\ s1.text_to_send = s.text_to_send
    BY <1>2, <1>3, <1>4, <1>5 DEF SlotRecord, g
  <1> HIDE DEF s1
  <1>7. Sound(s1)
    BY <1>3, <1>5, <1>6 DEF Sound
  <1> QED BY <1>1, <1>5, <1>6, <1>7 DEF s1, p, S

LEMMA AddTokenIs ==
  ASSUME NEW s, Sound(s), NEW token \in Tokens
  PROVE  LET s1 == AddToken(s, token)
         IN  /\ Sound(s1) /\ s1.params = s.params /\ s1.n_decoded = s.n_decoded
             /\ s1.n_sent_text = s.n_sent_text /\ s1.text_to_send = <<>>
             /\ Len(s1.generated_text) = Len(s.generated_text) + Len(token.text)
             /\ \A i \in 1 .. Len(s.generated_text) :
                  s1.generated_text[i] = s.generated_text[i]
             /\ \A i \in 1 .. Len(token.text) :
                  s1.generated_text[Len(s.generated_text) + i] = token.text[i]
  <1> DEFINE G == s.generated_text
             g == G \o token.text
             s1 == AddToken(s, token)
  <1>1. /\ s \in SlotRecord /\ G \in Text /\ s.n_sent_text \in Nat /\ token.text \in Text
        /\ s.n_sent_text <= Len(G) /\ Len(G) \in Nat /\ Len(token.text) \in Nat
    BY TokensAssumption DEF Sound, SlotRecord, Text
  <1>2. /\ g \in Text /\ Len(g) = Len(G) + Len(token.text)
        /\ \A i \in 1 .. Len(G) : g[i] = G[i]
        /\ \A i \in 1 .. Len(token.text) : g[Len(G) + i] = token.text[i]
    <2>1. G \in Seq(Byte) /\ token.text \in Seq(Byte)
      BY <1>1 DEF Text
    <2> HIDE DEF G
    <2> QED BY <1>1, <2>1 DEF Text
  <1>3. s1 = [s EXCEPT !.generated_text = g, !.has_next_token = TRUE, !.text_to_send = <<>>]
    BY DEF AddToken
  <1>4. <<>> \in Text
    BY DEF Text
  <1> HIDE DEF G, g, s1
  <1>5. /\ s1 \in SlotRecord /\ s1.generated_text = g /\ s1.n_sent_text = s.n_sent_text
        /\ s1.params = s.params /\ s1.n_decoded = s.n_decoded /\ s1.text_to_send = <<>>
    BY <1>1, <1>2, <1>3, <1>4 DEF SlotRecord
  <1>6. Sound(s1)
    <2>1. s.n_sent_text <= Len(G) + Len(token.text)
      BY <1>1
    <2>2. s1.n_sent_text <= Len(s1.generated_text)
      BY <1>2, <1>5, <2>1
    <2> QED BY <1>5, <2>2 DEF Sound
  <1> QED BY <1>2, <1>5, <1>6 DEF s1, G

LEMMA SendAllIs ==
  ASSUME NEW s, Sound(s)
  PROVE  LET s1 == SendAll(s)
         IN  /\ Sound(s1) /\ s1.params = s.params /\ s1.n_decoded = s.n_decoded
             /\ s1.generated_text = s.generated_text
             /\ s1.n_sent_text = Len(s.generated_text)
             /\ s1.text_to_send = Unsent(s)
  <1> DEFINE s1 == SendAll(s)
             u == Unsent(s)
  <1>1. /\ s \in SlotRecord /\ s.n_sent_text \in Nat /\ s.n_sent_text <= Len(s.generated_text)
        /\ Len(s.generated_text) \in Nat
    BY DEF Sound, SlotRecord, Text
  <1>2. u \in Text /\ Len(u) = Len(s.generated_text) - s.n_sent_text
    BY UnsentIs
  <1>3. s.n_sent_text + Len(u) = Len(s.generated_text)
    BY <1>1, <1>2
  <1>4. s1 = [s EXCEPT !.text_to_send = u, !.n_sent_text = s.n_sent_text + Len(u)]
    BY DEF SendAll
  <1> HIDE DEF u, s1
  <1>5. s1 = [s EXCEPT !.text_to_send = u, !.n_sent_text = Len(s.generated_text)]
    BY <1>3, <1>4
  <1>6. /\ s1 \in SlotRecord /\ s1.generated_text = s.generated_text
        /\ s1.n_sent_text = Len(s.generated_text)
        /\ s1.params = s.params /\ s1.n_decoded = s.n_decoded /\ s1.text_to_send = u
    BY <1>1, <1>2, <1>5 DEF SlotRecord
  <1>7. Sound(s1)
    BY <1>1, <1>6 DEF Sound
  <1> QED BY <1>6, <1>7 DEF s1, u

\* The flags are all that the limits change.
LEMMA LimitedIs ==
  ASSUME NEW s, Sound(s), NEW token \in Tokens
  PROVE  LET s1    == Limited(s, token)
             spent == s.n_decoded > 0 /\ s.has_next_token /\ ~HasBudget(s)
         IN  /\ Sound(s1) /\ s1.params = s.params /\ s1.n_decoded = s.n_decoded
             /\ s1.generated_text = s.generated_text
             /\ s1.n_sent_text = s.n_sent_text /\ s1.text_to_send = s.text_to_send
             /\ s1.has_next_token =>
                  s.has_next_token /\ ~spent /\ ~BeyondTraining(s)
  <1> DEFINE spent == s.n_decoded > 0 /\ s.has_next_token /\ ~HasBudget(s)
             long  == BeyondTraining(s)
             limit == s.stopped_limit \/ spent \/ long
             eos   == s.stopped_eos \/ token.eog
             cut   == s.truncated \/ long
             more  == s.has_next_token /\ ~spent /\ ~token.eog /\ ~long
             s1    == Limited(s, token)
  <1>1. s \in SlotRecord /\ s.n_sent_text <= Len(s.generated_text)
    BY DEF Sound
  <1>2. limit \in BOOLEAN /\ eos \in BOOLEAN /\ cut \in BOOLEAN /\ more \in BOOLEAN
    OBVIOUS
  <1>3. s1 = [s EXCEPT !.stopped_limit = limit, !.stopped_eos = eos,
                       !.truncated = cut, !.has_next_token = more]
    BY DEF Limited
  <1>4. more => s.has_next_token /\ ~spent /\ ~BeyondTraining(s)
    OBVIOUS
  <1> HIDE DEF spent, long, limit, eos, cut, more, s1
  <1>5. /\ s1 \in SlotRecord /\ s1.params = s.params /\ s1.n_decoded = s.n_decoded
        /\ s1.generated_text = s.generated_text
        /\ s1.n_sent_text = s.n_sent_text /\ s1.text_to_send = s.text_to_send
        /\ s1.has_next_token = more
    <2>1. s1 \in SlotRecord
      BY <1>1, <1>2, <1>3, ZenonT(40) DEF SlotRecord
    <2>2. s1.params = s.params /\ s1.n_decoded = s.n_decoded /\ s1.has_next_token = more
      BY <1>1, <1>2, <1>3, Zenon DEF SlotRecord
    <2>3. /\ s1.generated_text = s.generated_text
          /\ s1.n_sent_text = s.n_sent_text /\ s1.text_to_send = s.text_to_send
      BY <1>1, <1>2, <1>3, Zenon DEF SlotRecord
    <2> QED BY <2>1, <2>2, <2>3
  <1>6. Sound(s1)
    BY <1>1, <1>5 DEF Sound
  <1> QED BY <1>4, <1>5, <1>6 DEF s1, spent

\* The four outcomes of the search.
LEMMA SearchedIs ==
  ASSUME NEW s, Sound(s), NEW token \in Tokens
  PROVE  \/ /\ Incomplete(s.generated_text)
            /\ Searched(s, token) = s
         \/ /\ ~Incomplete(s.generated_text) /\ Stops(s, token) # {}
            /\ Searched(s, token) = StopAt(s, token, LeastOf(Stops(s, token)))
         \/ /\ Stops(s, token) = {}
            /\ Searched(s, token) = s
         \/ /\ ~Incomplete(s.generated_text) /\ Stops(s, token) = {}
            /\ ~MayBecomeStop(Words(s), Unsent(s))
            /\ Searched(s, token) = SendAll(s)
  BY DEF Searched, Stops, Words

(***************************************************************************)
(* No stop word is in the text, nor the beginning of one at the end of     *)
(* what was sent.                                                          *)
(***************************************************************************)
\* A token that ends inside a character has nothing in front of it, and a stop
\* word consists of whole characters.
Unmixed ==
  /\ \A t \in Tokens : \A i \in 2 .. Len(t.text) : ~EndsInside(t.text, i)
  /\ \A r \in Requests : \A k \in DOMAIN r.antiprompt :
       LET w == r.antiprompt[k]
       IN  (w # <<>> => w[1] # "C") /\ \A i \in 1 .. Len(w) : ~EndsInside(w, i)

NoStopIn(s) ==
  \A k \in DOMAIN Words(s) : \A p \in 0 .. Len(s.generated_text) :
    ~At(Words(s)[k], s.generated_text, p)

NoBeginningSent(s) ==
  \A k \in DOMAIN Words(s) : \A n \in 1 .. Len(Words(s)[k]) :
    ~EndsAt(Words(s)[k], s.generated_text, s.n_sent_text, n)

\* Every text contains the empty word.
Proper(s) == \A k \in DOMAIN Words(s) : Words(s)[k] # <<>>

Clean(s) == Proper(s) /\ NoStopIn(s) /\ NoBeginningSent(s)

\* What depends on the bytes that were sent only.
LEMMA SentBytesOnly ==
  ASSUME NEW s, Sound(s), NEW s1, Sound(s1), NoBeginningSent(s),
         s1.params = s.params, s1.n_sent_text = s.n_sent_text,
         \A i \in 1 .. s.n_sent_text : s1.generated_text[i] = s.generated_text[i]
  PROVE  NoBeginningSent(s1)
  <1> SUFFICES ASSUME NEW k \in DOMAIN Words(s), NEW n \in 1 .. Len(Words(s)[k]),
                      EndsAt(Words(s)[k], s1.generated_text, s.n_sent_text, n)
               PROVE  EndsAt(Words(s)[k], s.generated_text, s.n_sent_text, n)
    BY DEF NoBeginningSent, Words
  <1> DEFINE m == s.n_sent_text
  <1>1. m \in Nat /\ Len(Words(s)[k]) \in Nat
    BY WordsAre DEF Sound, SlotRecord, Text
  <1>2. n <= m /\ \A i \in 1 .. n : s1.generated_text[m - n + i] = Words(s)[k][i]
    BY DEF EndsAt
  <1>3. \A i \in 1 .. m : s1.generated_text[i] = s.generated_text[i]
    OBVIOUS
  <1> HIDE DEF m
  <1>4. \A i \in 1 .. n : m - n + i \in 1 .. m
    BY <1>1, <1>2
  <1> QED BY <1>2, <1>3, <1>4 DEF EndsAt, m

\* A stop word that appears with a token ends in the token and begins in what
\* was not sent yet.
LEMMA NewStopIs ==
  ASSUME NEW s, Sound(s), NEW token \in Tokens, Clean(s),
         NEW k \in DOMAIN Words(s),
         NEW p \in 0 .. Len(AddToken(s, token).generated_text),
         At(Words(s)[k], AddToken(s, token).generated_text, p)
  PROVE  /\ p >= s.n_sent_text
         /\ p + Len(Words(s)[k]) > Len(s.generated_text)
  <1> DEFINE w == Words(s)[k]
             G == s.generated_text
             g == AddToken(s, token).generated_text
             m == s.n_sent_text
  <1>1. /\ m \in Nat /\ Len(G) \in Nat /\ m <= Len(G)
        /\ \A i \in 1 .. Len(G) : g[i] = G[i]
    BY AddTokenIs, TypesOf
  <1>2. Len(w) \in Nat \ {0} /\ p \in Nat
    <2>1. w \in Text /\ w # <<>>
      BY WordsAre DEF Clean, Proper
    <2>2. Len(g) \in Nat
      BY AddTokenIs DEF Sound, SlotRecord, Text
    <2> QED BY <2>1, <2>2 DEF Text
  <1>3. p + Len(w) <= Len(g) /\ \A i \in 1 .. Len(w) : g[p + i] = w[i]
    BY DEF At
  <1>4. /\ \A q \in 0 .. Len(G) : ~At(w, G, q)
        /\ \A n \in 1 .. Len(w) : ~EndsAt(w, G, m, n)
    BY DEF Clean, NoStopIn, NoBeginningSent
  <1> HIDE DEF w, G, g, m
  <1>5. p + Len(w) > Len(G)
    <2> SUFFICES ASSUME p + Len(w) <= Len(G)
                 PROVE  FALSE
      BY <1>1, <1>2
    <2>1. p \in 0 .. Len(G) /\ \A i \in 1 .. Len(w) : p + i \in 1 .. Len(G)
      BY <1>1, <1>2
    <2>2. At(w, G, p)
      BY <1>1, <1>3, <2>1 DEF At
    <2> QED BY <1>4, <2>1, <2>2
  <1>6. p >= m
    <2> SUFFICES ASSUME p < m
                 PROVE  FALSE
      BY <1>1, <1>2
    <2>1. PICK n \in 1 .. Len(w) : n = m - p /\ n <= m /\ m - n = p
      BY <1>1, <1>2, <1>5
    <2>2. \A i \in 1 .. n : i \in 1 .. Len(w) /\ p + i \in 1 .. Len(G)
      BY <1>1, <1>2, <2>1
    <2>3. \A i \in 1 .. n : G[p + i] = w[i]
      BY <1>1, <1>3, <2>2
    <2>4. EndsAt(w, G, m, n)
      BY <2>1, <2>3 DEF EndsAt
    <2> QED BY <1>4, <2>4
  <1> QED BY <1>5, <1>6 DEF w, G, m

\* It is found, then.
LEMMA NewStopFound ==
  ASSUME NEW s, Sound(s), NEW token \in Tokens, Clean(s),
         NEW k \in DOMAIN Words(s),
         NEW p \in 0 .. Len(AddToken(s, token).generated_text),
         At(Words(s)[k], AddToken(s, token).generated_text, p)
  PROVE  \E q \in Stops(AddToken(s, token), token) : p = s.n_sent_text + q
  <1> DEFINE s1 == AddToken(s, token)
             w == Words(s)[k]
             g == s1.generated_text
             m == s.n_sent_text
             u == Unsent(s1)
  <1>1. p >= m /\ p + Len(w) > Len(s.generated_text)
    BY NewStopIs
  <1>2. /\ Sound(s1) /\ s1.params = s.params /\ s1.n_sent_text = m
        /\ Len(g) = Len(s.generated_text) + Len(token.text)
    BY AddTokenIs
  <1>3. Words(s1) = Words(s)
    BY <1>2 DEF Words
  <1>4. /\ w \in Text /\ Len(w) \in Nat /\ m \in Nat
        /\ Len(s.generated_text) \in Nat /\ Len(token.text) \in Nat
    <2>1. w \in Text /\ Len(token.text) \in Nat
      BY WordsAre, TokensAssumption DEF Text
    <2>2. Len(w) \in Nat
      BY <2>1 DEF Text
    <2> QED BY <2>1, <2>2, TypesOf
  <1>5. p + Len(w) <= Len(g) /\ p \in Nat /\ \A i \in 1 .. Len(w) : g[p + i] = w[i]
    BY DEF At
  <1>6. /\ u \in Text /\ Len(u) = Len(g) - m /\ Len(u) \in Nat
        /\ \A i \in 1 .. Len(u) : u[i] = g[m + i]
    <2>1. Unsent(s1) \in Text /\ Len(Unsent(s1)) = Len(s1.generated_text) - s1.n_sent_text
      BY <1>2, UnsentIs
    <2>2. \A i \in 1 .. Len(Unsent(s1)) :
            Unsent(s1)[i] = s1.generated_text[s1.n_sent_text + i]
      BY <1>2, UnsentIs
    <2>3. Len(Unsent(s1)) \in Nat
      BY <2>1 DEF Text
    <2> QED BY <1>2, <2>1, <2>2, <2>3
  <1>7. \A q \in Positions(w, u) : q + Len(w) > Len(u) - Len(token.text) => q \in Stops(s1, token)
    BY <1>2, <1>3, StopsAre
  <1> HIDE DEF s1, w, g, m, u
  <1>8. PICK q \in 0 .. Len(u) : q = p - m /\ p = m + q /\ q + Len(w) <= Len(u)
                                  /\ q + Len(w) > Len(u) - Len(token.text)
    <2>1. PICK a \in Nat, b \in Nat, c \in Nat, h \in Nat :
            a = Len(s.generated_text) /\ b = Len(token.text) /\ c = Len(w) /\ h = Len(u)
      BY <1>4, <1>6
    <2>2. p >= m /\ p + c > a
      BY <1>1, <2>1
    <2>3. p + c <= a + b /\ h = (a + b) - m
      BY <1>2, <1>5, <1>6, <2>1
    <2>4. p \in Nat /\ m \in Nat
      BY <1>4, <1>5
    <2>5. PICK q \in Nat : p = m + q
      BY <2>2, <2>4
    <2>6. q \in 0 .. h /\ q = p - m /\ q + c <= h /\ q + c > h - b
      BY <2>2, <2>3, <2>4, <2>5
    <2> QED BY <2>1, <2>5, <2>6
  <1>9. \A i \in 1 .. Len(w) : q + i \in 1 .. Len(u) /\ m + (q + i) = p + i
    BY <1>4, <1>6, <1>8
  <1>10. At(w, u, q)
    BY <1>5, <1>6, <1>8, <1>9 DEF At
  <1>11. q \in Positions(w, u)
    BY <1>4, <1>6, <1>10, PositionsAre
  <1> QED BY <1>7, <1>8, <1>11 DEF s1, m

\* While a character is unfinished, no stop word ends in the last token.
LEMMA NoneBehindUnfinished ==
  ASSUME Unmixed, NEW s, Sound(s), NEW token \in Tokens, Clean(s),
         Incomplete(AddToken(s, token).generated_text)
  PROVE  NoStopIn(AddToken(s, token))
  <1> DEFINE s1 == AddToken(s, token)
             G == s.generated_text
             g == s1.generated_text
             t == token.text
  <1>1. /\ Sound(s1) /\ Words(s1) = Words(s)
        /\ g \in Text /\ Len(g) = Len(G) + Len(t) /\ Len(G) \in Nat /\ Len(t) \in Nat
        /\ \A i \in 1 .. Len(t) : g[Len(G) + i] = t[i]
    <2>1. Sound(s1) /\ s1.params = s.params
      BY AddTokenIs
    <2>2. Len(t) \in Nat
      BY TokensAssumption DEF Text
    <2> QED BY <2>1, <2>2, AddTokenIs, TypesOf DEF Words
  <1>2. SUFFICES ASSUME NEW k \in DOMAIN Words(s), NEW p \in 0 .. Len(g),
                        At(Words(s)[k], g, p)
                 PROVE  FALSE
    BY <1>1 DEF NoStopIn
  <1> DEFINE w == Words(s)[k]
  <1>3. p + Len(w) > Len(G)
    BY <1>2, NewStopIs
  <1>4. p + Len(w) <= Len(g) /\ \A i \in 1 .. Len(w) : g[p + i] = w[i]
    BY <1>2 DEF At
  <1>5. PICK l \in 1 .. Len(g) : EndsInside(g, l)
    BY <1>1, IncompleteIs
  <1>6. (\A j \in l + 1 .. Len(g) : g[j] = "C") /\ Len(g) - l + 1 < BytesOf(g[l])
    BY <1>5 DEF EndsInside
  <1>7. Len(w) \in Nat \ {0} /\ p \in Nat
    <2>1. w \in Text /\ w # <<>>
      BY WordsAre DEF Clean, Proper
    <2> QED BY <1>1, <2>1 DEF Text
  <1>8. /\ w[1] # "C" /\ \A i \in 1 .. Len(w) : ~EndsInside(w, i)
        /\ \A i \in 2 .. Len(t) : ~EndsInside(t, i)
    <2>1. s.params \in Requests
      BY DEF Sound, SlotRecord
    <2> QED BY <1>2, <2>1 DEF Unmixed, Clean, Proper, Words
  <1>9. BytesOf(g[l]) \in Nat
    BY DEF BytesOf
  <1> HIDE DEF s1, G, g, t, w
  <1>10. CASE p + Len(w) < l
    <2>1. PICK j \in 2 .. Len(t) : l = Len(G) + j
      <3>1. l - Len(G) \in 2 .. Len(t)
        BY <1>1, <1>3, <1>7, <1>10
      <3>2. l = Len(G) + (l - Len(G))
        BY <1>1
      <3> QED BY <3>1, <3>2
    <2>2. g[l] = t[j] /\ Len(t) - j + 1 = Len(g) - l + 1
      BY <1>1, <2>1
    <2>3. \A i \in j + 1 .. Len(t) : Len(G) + i \in l + 1 .. Len(g) /\ i \in 1 .. Len(t)
      BY <1>1, <2>1
    <2>4. EndsInside(t, j)
      BY <1>1, <1>6, <2>2, <2>3 DEF EndsInside
    <2> QED BY <1>8, <2>4
  <1>11. CASE p + Len(w) >= l /\ p + 1 <= l
    <2>1. PICK j \in 1 .. Len(w) : l = p + j
      BY <1>7, <1>11
    <2>2. g[l] = w[j] /\ Len(w) - j + 1 <= Len(g) - l + 1
      <3>1. Len(g) \in Nat
        BY <1>1
      <3>2. p + Len(w) <= Len(g)
        BY <1>4
      <3>3. Len(w) - j <= Len(g) - (p + j)
        BY <1>7, <3>1, <3>2
      <3>4. Len(w) - j + 1 <= Len(g) - l + 1
        BY <1>7, <2>1, <3>1, <3>3
      <3> QED BY <1>4, <2>1, <3>4
    <2>3. \A i \in j + 1 .. Len(w) : p + i \in l + 1 .. Len(g) /\ i \in 1 .. Len(w)
      BY <1>1, <1>4, <1>7, <2>1
    <2>4. \A i \in j + 1 .. Len(w) : w[i] = "C"
      BY <1>4, <1>6, <2>3
    <2>5. Len(w) - j + 1 < BytesOf(w[j])
      BY <1>1, <1>6, <1>7, <1>9, <2>1, <2>2
    <2>6. EndsInside(w, j)
      BY <2>4, <2>5 DEF EndsInside
    <2> QED BY <1>8, <2>6
  <1>12. CASE p + 1 > l
    <2>1. p + 1 \in l + 1 .. Len(g) /\ 1 \in 1 .. Len(w)
      BY <1>1, <1>4, <1>7, <1>12
    <2> QED BY <1>4, <1>6, <1>8, <2>1
  <1> QED BY <1>1, <1>7, <1>10, <1>11, <1>12

\* The text ends with the first n bytes of the word.
PartialStopOf(w, x, n) == IsSuffix(SubSeq(w, 1, n), x)

LEMMA CleanSearched ==
  ASSUME Unmixed, NEW s, Sound(s), NEW token \in Tokens, Clean(s)
  PROVE  Clean(Searched(AddToken(s, token), token))
  <1> DEFINE s1 == AddToken(s, token)
             s2 == Searched(s1, token)
             g == s1.generated_text
             m == s.n_sent_text
  <1>1. /\ Sound(s1) /\ s1.params = s.params /\ s1.n_sent_text = m
        /\ m \in Nat /\ m <= Len(s.generated_text) /\ Len(s.generated_text) \in Nat
        /\ \A i \in 1 .. Len(s.generated_text) : g[i] = s.generated_text[i]
    BY AddTokenIs, TypesOf
  <1>2. Words(s1) = Words(s) /\ g \in Text /\ Len(g) \in Nat /\ m <= Len(g)
    BY <1>1, TypesOf DEF Words
  <1>3. NoBeginningSent(s1)
    <2>1. \A i \in 1 .. m : g[i] = s.generated_text[i]
      BY <1>1
    <2> QED BY <1>1, <2>1, SentBytesOnly DEF Clean
  <1>4. \A k \in DOMAIN Words(s) : \A p \in 0 .. Len(g) :
          At(Words(s)[k], g, p) => \E q \in Stops(s1, token) : p = m + q
    BY NewStopFound
  <1>5. Stops(s1, token) = {} => NoStopIn(s1)
    BY <1>2, <1>4 DEF NoStopIn
  <1>6. Incomplete(g) => NoStopIn(s1)
    BY NoneBehindUnfinished
  <1> SUFFICES Clean(s2)
    OBVIOUS
  <1> HIDE DEF s1, s2, g, m
  <1>p. ASSUME NEW t, Words(t) = Words(s)
        PROVE  Proper(t)
    BY <1>p DEF Clean, Proper
  <1>7. CASE s2 = s1 /\ (Incomplete(g) \/ Stops(s1, token) = {})
    BY <1>2, <1>3, <1>5, <1>6, <1>7, <1>p DEF Clean
  <1>8. CASE Stops(s1, token) # {} /\ s2 = StopAt(s1, token, LeastOf(Stops(s1, token)))
    <2> DEFINE p == LeastOf(Stops(s1, token))
    <2>1. /\ p \in Stops(s1, token) /\ \A q \in Stops(s1, token) : p <= q
          /\ Sound(s2) /\ s2.params = s1.params /\ s2.n_sent_text = m
          /\ Len(s2.generated_text) = m + p
          /\ \A i \in 1 .. m + p : s2.generated_text[i] = g[i]
      BY <1>1, <1>8, StopAtIs DEF g
    <2>2. \A q \in Stops(s1, token) : q \in Nat
      BY <1>1, StopsAre
    <2>3. m + p <= Len(g) /\ p \in Nat
      BY <1>1, <2>1, <2>2, StopsAre DEF g
    <2>4. Words(s2) = Words(s)
      BY <1>2, <2>1 DEF Words
    <2> HIDE DEF p
    <2>5. NoBeginningSent(s2)
      <3>1. \A i \in 1 .. m : s2.generated_text[i] = g[i]
        BY <1>1, <2>1, <2>3
      <3> QED BY <1>1, <1>3, <2>1, <3>1, SentBytesOnly DEF g
    <2>6. NoStopIn(s2)
      <3> SUFFICES ASSUME NEW k \in DOMAIN Words(s), NEW r \in 0 .. m + p,
                          At(Words(s)[k], s2.generated_text, r)
                   PROVE  FALSE
        BY <2>1, <2>4 DEF NoStopIn
      <3> DEFINE w == Words(s)[k]
      <3>1. Len(w) \in Nat \ {0}
        <4>1. w \in Text /\ w # <<>>
          BY WordsAre DEF Clean, Proper
        <4> QED BY <4>1 DEF Text
      <3>2. r + Len(w) <= m + p /\ \A i \in 1 .. Len(w) : s2.generated_text[r + i] = w[i]
        BY <2>1 DEF At
      <3> HIDE DEF w
      <3>3. r \in 0 .. Len(g) /\ r \in Nat /\ r + Len(w) <= Len(g)
        BY <1>1, <1>2, <2>3, <3>1, <3>2
      <3>4. \A i \in 1 .. Len(w) : r + i \in 1 .. m + p
        BY <1>1, <2>3, <3>1, <3>2, <3>3
      <3>5. At(w, g, r)
        BY <2>1, <3>2, <3>3, <3>4 DEF At
      <3>6. PICK q \in Stops(s1, token) : r = m + q
        BY <1>4, <3>3, <3>5 DEF w
      <3>7. q \in Nat /\ p <= q
        BY <2>1, <2>2
      <3> QED BY <1>1, <2>3, <3>1, <3>2, <3>6, <3>7
    <2> QED BY <1>p, <2>4, <2>5, <2>6 DEF Clean
  <1>9. CASE /\ Stops(s1, token) = {} /\ ~MayBecomeStop(Words(s1), Unsent(s1))
             /\ s2 = SendAll(s1)
    <2>1. /\ Sound(s2) /\ s2.params = s1.params /\ s2.generated_text = g
          /\ s2.n_sent_text = Len(g)
      BY <1>1, <1>9, SendAllIs DEF g
    <2>2. Words(s2) = Words(s)
      BY <1>2, <2>1 DEF Words
    <2>3. NoStopIn(s2)
      BY <1>2, <1>5, <1>9, <2>1, <2>2 DEF NoStopIn, g
    <2>4. NoBeginningSent(s2)
      <3> SUFFICES ASSUME NEW k \in DOMAIN Words(s), NEW n \in 1 .. Len(Words(s)[k]),
                          EndsAt(Words(s)[k], g, Len(g), n)
                   PROVE  FALSE
        BY <2>1, <2>2 DEF NoBeginningSent
      <3> DEFINE w == Words(s)[k]
                 u == Unsent(s1)
      <3>1. w \in Text /\ Len(w) \in Nat
        BY WordsAre DEF Text
      <3>2. n \in Nat \ {0} /\ n <= Len(w) /\ n <= Len(g)
              /\ \A i \in 1 .. n : g[Len(g) - n + i] = w[i]
        BY <3>1 DEF EndsAt
      <3>3. /\ u \in Text /\ Len(u) = Len(g) - m /\ Len(u) \in Nat
            /\ \A i \in 1 .. Len(u) : u[i] = g[m + i]
        <4>1. /\ u \in Text /\ Len(u) = Len(s1.generated_text) - s1.n_sent_text
              /\ \A i \in 1 .. Len(u) : u[i] = s1.generated_text[s1.n_sent_text + i]
          BY <1>1, UnsentIs
        <4>2. Len(u) \in Nat
          BY <4>1 DEF Text
        <4> QED BY <1>1, <4>1, <4>2 DEF g
      <3>4. \A j \in 1 .. Len(w) : ~PartialStopOf(w, u, j)
        BY <1>2, <1>9 DEF MayBecomeStop, PartialStop, PartialStopOf
      <3>5. ~EndsAt(w, g, m, n - Len(u)) \/ n - Len(u) \notin 1 .. Len(w)
        BY <1>1, <1>2, <1>3 DEF NoBeginningSent, g
      <3> HIDE DEF w, u
      <3>6. CASE n <= Len(u)
        <4> DEFINE y == SubSeq(w, 1, n)
        <4>1. y \in Text /\ Len(y) = n /\ \A i \in 1 .. n : y[i] = w[i]
          BY <3>1, <3>2 DEF Text
        <4>2. \A i \in 1 .. n : Len(u) - n + i \in 1 .. Len(u)
                                  /\ m + (Len(u) - n + i) = Len(g) - n + i
          BY <1>1, <1>2, <3>2, <3>3, <3>6
        <4>3. PartialStopOf(w, u, n) <=> IsSuffix(y, u)
          BY DEF PartialStopOf
        <4> HIDE DEF y
        <4>4. \A i \in 1 .. n : u[Len(u) - n + i] = y[i]
          <5> SUFFICES ASSUME NEW i \in 1 .. n
                       PROVE  u[Len(u) - n + i] = y[i]
            OBVIOUS
          <5>1. u[Len(u) - n + i] = g[m + (Len(u) - n + i)]
            BY <3>3, <4>2
          <5>2. g[Len(g) - n + i] = y[i]
            BY <3>2, <4>1
          <5> QED BY <4>2, <5>1, <5>2
        <4>5. IsSuffix(y, u)
          BY <3>3, <3>6, <4>1, <4>4, SuffixIs DEF EndsAt
        <4> QED BY <3>1, <3>2, <3>4, <4>3, <4>5
      <3>7. CASE ~(n <= Len(u))
        <4>1. PICK h \in Nat : h = Len(u)
          BY <3>3
        <4>2. PICK j \in 1 .. Len(w) : n = h + j
          <5>1. n - h \in 1 .. Len(w) /\ n = h + (n - h)
            BY <3>1, <3>2, <3>7, <4>1
          <5> QED BY <5>1
        <4>3. Len(g) = m + h /\ j <= m /\ j = n - Len(u)
          BY <1>1, <1>2, <3>2, <3>3, <4>1, <4>2
        <4>4. \A i \in 1 .. j : i \in 1 .. n /\ Len(g) - n + i = m - j + i
          BY <1>1, <3>2, <4>2, <4>3
        <4>5. \A i \in 1 .. j : g[m - j + i] = w[i]
          BY <3>2, <4>4
        <4>6. EndsAt(w, g, m, j)
          BY <4>3, <4>5 DEF EndsAt
        <4> QED BY <3>5, <4>3, <4>6
      <3> QED BY <3>6, <3>7
    <2> QED BY <1>p, <2>2, <2>3, <2>4 DEF Clean
  <1>10. \/ s2 = s1 /\ (Incomplete(g) \/ Stops(s1, token) = {})
         \/ Stops(s1, token) # {} /\ s2 = StopAt(s1, token, LeastOf(Stops(s1, token)))
         \/ /\ Stops(s1, token) = {} /\ ~MayBecomeStop(Words(s1), Unsent(s1))
            /\ s2 = SendAll(s1)
    BY <1>1, SearchedIs DEF s2, g
  <1> QED BY <1>7, <1>8, <1>9, <1>10

(***************************************************************************)
(* What was streamed, and the budget.                                      *)
(***************************************************************************)
\* The streamed text is the sent part of the slot's text, in whole characters.
Streamed(s, x) ==
  IF s.params.stream
  THEN /\ Len(x) = s.n_sent_text /\ \A i \in 1 .. Len(x) : x[i] = s.generated_text[i]
       /\ ~Incomplete(x)
  ELSE x = <<>>

\* Generation goes on only within the limits.
MayGoOn(s) == s.n_decoded > 0 => HasBudget(s) /\ ~BeyondTraining(s)

LEMMA SearchedStream ==
  ASSUME NEW s, Sound(s), NEW token \in Tokens, NEW x \in Text, Streamed(s, x)
  PROVE  LET s2 == Searched(AddToken(s, token), token)
             y  == IF s2.params.stream THEN x \o s2.text_to_send ELSE x
         IN  /\ Sound(s2) /\ s2.params = s.params /\ s2.n_decoded = s.n_decoded
             /\ y \in Text /\ Streamed(s2, y)
  <1> DEFINE s1 == AddToken(s, token)
             s2 == Searched(s1, token)
             g == s1.generated_text
             m == s.n_sent_text
             y == IF s2.params.stream THEN x \o s2.text_to_send ELSE x
  <1>1. /\ Sound(s1) /\ s1.params = s.params /\ s1.n_sent_text = m
        /\ s1.n_decoded = s.n_decoded /\ s1.text_to_send = <<>>
        /\ m \in Nat /\ m <= Len(s.generated_text) /\ Len(s.generated_text) \in Nat
        /\ \A i \in 1 .. Len(s.generated_text) : g[i] = s.generated_text[i]
    BY AddTokenIs, TypesOf
  <1>2. g \in Text /\ Len(g) \in Nat /\ m <= Len(g) /\ x \o <<>> = x
    BY <1>1, TypesOf DEF Text
  <1>3. s.params.stream => /\ Len(x) = m /\ \A i \in 1 .. m : x[i] = g[i]
                           /\ ~Incomplete(x)
    BY <1>1 DEF Streamed
  <1>4. ~s.params.stream => x = <<>>
    BY DEF Streamed
  <1> SUFFICES /\ Sound(s2) /\ s2.params = s.params /\ s2.n_decoded = s.n_decoded
               /\ y \in Text /\ Streamed(s2, y)
    OBVIOUS
  <1> HIDE DEF s1, s2, g, m
  <1>5. CASE s2 = s1
    <2>1. y = x
      BY <1>1, <1>2, <1>5
    <2>2. Streamed(s1, x)
      BY <1>1, <1>3, <1>4 DEF Streamed, g
    <2> QED BY <1>1, <1>5, <2>1, <2>2
  <1>6. CASE Stops(s1, token) # {} /\ s2 = StopAt(s1, token, LeastOf(Stops(s1, token)))
    <2> DEFINE p == LeastOf(Stops(s1, token))
    <2>1. /\ p \in Stops(s1, token)
          /\ Sound(s2) /\ s2.params = s1.params /\ s2.n_sent_text = m
          /\ s2.n_decoded = s1.n_decoded /\ s2.text_to_send = <<>>
          /\ \A i \in 1 .. m + p : s2.generated_text[i] = g[i]
      BY <1>1, <1>6, StopAtIs DEF g
    <2>2. p \in Nat
      BY <1>1, <2>1, StopsAre
    <2> HIDE DEF p
    <2>3. \A i \in 1 .. m : s2.generated_text[i] = g[i]
      BY <1>1, <2>1, <2>2
    <2>4. y = x
      BY <1>2, <2>1
    <2>5. Streamed(s2, x)
      BY <1>1, <1>3, <1>4, <2>1, <2>3 DEF Streamed
    <2> QED BY <1>1, <2>1, <2>4, <2>5
  <1>7. CASE ~Incomplete(g) /\ s2 = SendAll(s1)
    <2> DEFINE u == Unsent(s1)
    <2>1. /\ Sound(s2) /\ s2.params = s.params /\ s2.n_decoded = s.n_decoded
          /\ s2.generated_text = g /\ s2.n_sent_text = Len(g) /\ s2.text_to_send = u
      BY <1>1, <1>7, SendAllIs DEF g
    <2>2. u \in Text /\ Len(u) = Len(g) - m /\ \A i \in 1 .. Len(u) : u[i] = g[m + i]
      BY <1>1, UnsentIs DEF g
    <2> HIDE DEF u
    <2>3. CASE s.params.stream
      <3> DEFINE z == x \o u
      <3>1. y = z
        BY <2>1, <2>3
      <3>2. /\ z \in Text /\ Len(z) = m + Len(u) /\ Len(u) \in Nat
            /\ \A i \in 1 .. m : z[i] = x[i]
            /\ \A i \in 1 .. Len(u) : z[m + i] = u[i]
        <4>1. Len(x) = m /\ x \in Seq(Byte) /\ u \in Seq(Byte) /\ Len(u) \in Nat
          BY <1>3, <2>2, <2>3 DEF Text
        <4>2. z \in Text /\ Len(z) = m + Len(u)
          BY <4>1 DEF Text
        <4>3. \A i \in 1 .. m : z[i] = x[i]
          BY <4>1, <1>1
        <4>4. \A i \in 1 .. Len(u) : z[m + i] = u[i]
          BY <4>1, <1>1
        <4> QED BY <4>1, <4>2, <4>3, <4>4
      <3> HIDE DEF z
      <3>3. Len(z) = Len(g)
        BY <1>1, <1>2, <2>2, <3>2
      <3>4. \A i \in 1 .. Len(g) : z[i] = g[i]
        <4> SUFFICES ASSUME NEW i \in 1 .. Len(g)
                     PROVE  z[i] = g[i]
          OBVIOUS
        <4>1. CASE i <= m
          <5>1. i \in 1 .. m
            BY <1>1, <4>1
          <5> QED BY <1>3, <2>3, <3>2, <5>1
        <4>2. CASE ~(i <= m)
          <5>1. PICK j \in 1 .. Len(u) : i = m + j
            <6>1. i - m \in 1 .. Len(u) /\ i = m + (i - m)
              BY <1>1, <1>2, <2>2, <4>2
            <6> QED BY <6>1
          <5> QED BY <2>2, <3>2, <5>1
        <4> QED BY <4>1, <4>2
      <3>5. z = g
        BY <1>2, <3>2, <3>3, <3>4 DEF Text
      <3> QED BY <1>2, <1>7, <2>1, <2>3, <3>1, <3>5 DEF Streamed
    <2>4. CASE ~s.params.stream
      BY <1>4, <2>1, <2>4 DEF Streamed
    <2> QED BY <2>3, <2>4
  <1> QED BY <1>1, <1>5, <1>6, <1>7, SearchedIs DEF s2, g

\* process_token, as a whole.
LEMMA Processed ==
  ASSUME NEW s, Sound(s), NEW token \in Tokens, NEW x \in Text, Streamed(s, x)
  PROVE  LET s3 == ProcessToken(s, token)
             y  == IF s3.params.stream THEN x \o s3.text_to_send ELSE x
         IN  /\ Sound(s3) /\ s3.params = s.params /\ s3.n_decoded = s.n_decoded
             /\ y \in Text /\ Streamed(s3, y)
             /\ s3.has_next_token => MayGoOn(s3)
             /\ Unmixed /\ Clean(s) => Clean(s3)
  <1> DEFINE s2 == Searched(AddToken(s, token), token)
             s3 == ProcessToken(s, token)
             y  == IF s3.params.stream THEN x \o s3.text_to_send ELSE x
             y2 == IF s2.params.stream THEN x \o s2.text_to_send ELSE x
  <1>1. /\ Sound(s2) /\ s2.params = s.params /\ s2.n_decoded = s.n_decoded
        /\ y2 \in Text /\ Streamed(s2, y2)
    BY SearchedStream
  <1>2. Unmixed /\ Clean(s) => Clean(s2)
    BY CleanSearched
  <1>3. s3 = Limited(s2, token)
    BY DEF ProcessToken
  <1> SUFFICES /\ Sound(s3) /\ s3.params = s.params /\ s3.n_decoded = s.n_decoded
               /\ y \in Text /\ Streamed(s3, y)
               /\ s3.has_next_token => MayGoOn(s3)
               /\ Unmixed /\ Clean(s) => Clean(s3)
    OBVIOUS
  <1> HIDE DEF s2, s3
  <1>4. /\ Sound(s3) /\ s3.params = s2.params /\ s3.n_decoded = s2.n_decoded
        /\ s3.generated_text = s2.generated_text
        /\ s3.n_sent_text = s2.n_sent_text /\ s3.text_to_send = s2.text_to_send
        /\ s3.has_next_token =>
             /\ s2.has_next_token
             /\ ~(s2.n_decoded > 0 /\ s2.has_next_token /\ ~HasBudget(s2))
             /\ ~BeyondTraining(s2)
    BY <1>1, <1>3, LimitedIs
  <1>5. y \in Text /\ Streamed(s3, y)
    BY <1>1, <1>4 DEF Streamed
  <1>6. s3.has_next_token => MayGoOn(s3)
    BY <1>4 DEF MayGoOn, HasBudget, Limit, BeyondTraining
  <1>7. Clean(s2) => Clean(s3)
    BY <1>4 DEF Clean, Proper, NoStopIn, NoBeginningSent, Words
  <1> QED BY <1>1, <1>2, <1>4, <1>5, <1>6, <1>7

(***************************************************************************)
(* The inductive invariant.                                                *)
(***************************************************************************)
Budget(s) ==
  LET asked == IF s.params.n_predict # -1 THEN s.params.n_predict ELSE NPredict
      bound == IF asked # -1 THEN asked ELSE NCtxTrain - s.params.n_prompt_tokens
  IN  s.params.n_prompt_tokens > 0 /\ ~(asked = -1 /\ SelfExtend) =>
        s.n_decoded <= bound \/ s.n_decoded <= 1

TextInv ==
  /\ phase \in {"idle", "load", "processing", "release"}
  /\ Sound(slot) /\ streamed \in Text /\ Streamed(slot, streamed)
  /\ answer \subseteq {FinalContent(slot)}
  /\ phase \in {"load", "processing"} => answer = {}
  /\ phase = "processing" => MayGoOn(slot)
  /\ Working => Budget(slot)

CleanInv == TextInv /\ (Proper(slot) => Clean(slot))

\* A token more, where one more was allowed.
LEMMA BudgetLemma ==
  ASSUME NEW s, Sound(s), MayGoOn(s), NEW t, t.params = s.params,
         t.n_decoded = s.n_decoded + 1
  PROVE  Budget(t)
  <1>1. /\ s.n_decoded \in Nat /\ s.params.n_predict \in Int
        /\ s.params.n_prompt_tokens \in Nat /\ NPredict \in Int /\ NCtxTrain \in Nat
    BY TypesOf, RequestsAssumption, LimitsAssumption
  <1>2. PICK n \in Nat, a \in Int, q \in Nat :
          n = s.n_decoded /\ a = s.params.n_predict /\ q = s.params.n_prompt_tokens
    BY <1>1
  <1>3. CASE n = 0
    BY <1>2, <1>3 DEF Budget
  <1>4. CASE n > 0 /\ a # -1
    <2>1. a - n > 0
      BY <1>2, <1>4 DEF MayGoOn, HasBudget, Limit
    <2> QED BY <1>2, <1>4, <2>1 DEF Budget
  <1>5. CASE n > 0 /\ a = -1 /\ NPredict # -1
    <2>1. NPredict - n > 0
      BY <1>1, <1>2, <1>5 DEF MayGoOn, HasBudget, Limit
    <2> QED BY <1>1, <1>2, <1>5, <2>1 DEF Budget
  <1>6. CASE n > 0 /\ a = -1 /\ NPredict = -1
    <2>1. SelfExtend \/ ~(q + n >= NCtxTrain)
      BY <1>2, <1>6, LimitsAssumption DEF MayGoOn, BeyondTraining
    <2> QED BY <1>1, <1>2, <1>6, <2>1 DEF Budget
  <1> QED BY <1>2, <1>3, <1>4, <1>5, <1>6

\* A slot whose text is empty.
LEMMA EmptyIs ==
  ASSUME NEW s, s \in SlotRecord, s.generated_text = <<>>, s.n_sent_text = 0
  PROVE  Sound(s) /\ Streamed(s, <<>>) /\ (Proper(s) => Clean(s))
  <1>1. Len(<<>>) = 0 /\ <<>> \in Text
    BY DEF Text
  <1>2. Sound(s)
    BY <1>1 DEF Sound
  <1>3. Streamed(s, <<>>)
    BY <1>1, IncompleteIs DEF Streamed
  <1>4. ASSUME Proper(s), NEW k \in DOMAIN Words(s)
        PROVE  Len(Words(s)[k]) \in Nat \ {0}
    <2>1. Words(s)[k] \in Text /\ Words(s)[k] # <<>>
      BY <1>2, <1>4, WordsAre DEF Proper
    <2> QED BY <2>1 DEF Text
  <1>5. Proper(s) => Clean(s)
    BY <1>1, <1>4 DEF Clean, NoStopIn, NoBeginningSent, At, EndsAt
  <1> QED BY <1>2, <1>3, <1>5

LEMMA TextInit ==
  ASSUME Requests # {}, Init
  PROVE  CleanInv
  <1>1. AnyRequest \in Requests /\ <<>> \in Text
    BY DEF AnyRequest, Text
  <1>2. /\ slot \in SlotRecord /\ slot.generated_text = <<>> /\ slot.n_sent_text = 0
    BY <1>1 DEF Init, FreshSlot, SlotRecord
  <1>3. Sound(slot) /\ Streamed(slot, <<>>) /\ (Proper(slot) => Clean(slot))
    BY <1>2, EmptyIs
  <1>4. phase = "idle" /\ streamed = <<>> /\ answer = {}
    BY DEF Init
  <1> QED BY <1>1, <1>3, <1>4 DEF CleanInv, TextInv, Working

LEMMA TextLaunch ==
  ASSUME TextInv, Launch
  PROVE  CleanInv'
  <1>1. PICK r \in Requests : slot' = [Reset(slot) EXCEPT !.params = r]
    BY DEF Launch
  <1>2. <<>> \in Text /\ slot \in SlotRecord
    BY DEF Text, TextInv, Sound
  <1>3. /\ slot' \in SlotRecord /\ slot'.generated_text = <<>> /\ slot'.n_sent_text = 0
    BY <1>1, <1>2 DEF Reset, SlotRecord
  <1>4. Sound(slot') /\ Streamed(slot', <<>>) /\ (Proper(slot') => Clean(slot'))
    BY <1>3, EmptyIs
  <1>5. phase' = "load" /\ streamed' = <<>> /\ answer' = {}
    BY DEF Launch
  <1> QED BY <1>2, <1>4, <1>5 DEF CleanInv, TextInv, Working

\* A slot that differs in n_decoded only.
LEMMA CountedIs ==
  ASSUME NEW s, Sound(s), NEW n \in Nat
  PROVE  LET c == [s EXCEPT !.n_decoded = n]
         IN  /\ Sound(c) /\ c.params = s.params /\ c.n_decoded = n
             /\ FinalContent(c) = FinalContent(s)
             /\ \A x : Streamed(s, x) => Streamed(c, x)
             /\ Clean(s) => Clean(c)
  <1> DEFINE c == [s EXCEPT !.n_decoded = n]
  <1>1. /\ c \in SlotRecord /\ c.params = s.params /\ c.n_decoded = n
        /\ c.generated_text = s.generated_text /\ c.n_sent_text = s.n_sent_text
    BY DEF Sound, SlotRecord
  <1>2. Sound(c)
    BY <1>1 DEF Sound
  <1> HIDE DEF c
  <1> QED
    BY <1>1, <1>2
    DEF c, FinalContent, Streamed, Clean, Proper, NoStopIn, NoBeginningSent, Words

LEMMA TextSample ==
  ASSUME TextInv, Sample
  PROVE  TextInv' /\ (Unmixed /\ Clean(slot) => Clean(slot'))
         /\ slot'.params = slot.params
  <1> DEFINE c == [slot EXCEPT !.n_decoded = slot.n_decoded + 1]
  <1>1. PICK token \in Tokens :
          /\ slot' = ProcessToken(c, token)
          /\ streamed' = IF slot'.params.stream THEN streamed \o slot'.text_to_send
                                                ELSE streamed
          /\ phase' = IF slot'.has_next_token THEN "processing" ELSE "release"
          /\ answer' = IF slot'.has_next_token THEN {} ELSE {FinalContent(slot')}
    BY DEF Sample
  <1>2. /\ phase = "processing" /\ Sound(slot) /\ streamed \in Text
        /\ Streamed(slot, streamed) /\ MayGoOn(slot) /\ slot.n_decoded \in Nat
    BY TypesOf DEF Sample, TextInv
  <1>3. /\ Sound(c) /\ c.params = slot.params /\ c.n_decoded = slot.n_decoded + 1
        /\ Streamed(c, streamed) /\ (Clean(slot) => Clean(c))
    <2>1. slot.n_decoded + 1 \in Nat
      BY <1>2
    <2> QED BY <1>2, <2>1, CountedIs
  <1> HIDE DEF c
  <1>4. /\ Sound(slot') /\ slot'.params = c.params /\ slot'.n_decoded = c.n_decoded
        /\ streamed' \in Text /\ Streamed(slot', streamed')
        /\ slot'.has_next_token => MayGoOn(slot')
        /\ Unmixed /\ Clean(c) => Clean(slot')
    BY <1>1, <1>2, <1>3, Processed
  <1>5. Budget(slot')
    BY <1>2, <1>3, <1>4, BudgetLemma
  <1>6. /\ phase' \in {"processing", "release"} /\ answer' \subseteq {FinalContent(slot')}
        /\ phase' = "processing" => answer' = {} /\ MayGoOn(slot')
    BY <1>1, <1>4
  <1>7. TextInv'
    BY <1>4, <1>5, <1>6 DEF TextInv
  <1> QED BY <1>3, <1>4, <1>7

\* The steps that leave the text alone.
LEMMA TextOther ==
  ASSUME TextInv, EmptyPrompt \/ PromptDone \/ Cancel \/ Release \/ UNCHANGED vars
  PROVE  TextInv' /\ (Clean(slot) => Clean(slot'))
         /\ slot'.params = slot.params
  <1> USE DEF TextInv
  <1>1. CASE EmptyPrompt
    <2>1. /\ phase' = "release" /\ answer' = {FinalContent(slot)}
          /\ slot.params.n_prompt_tokens = 0 /\ UNCHANGED <<slot, streamed>>
      BY <1>1 DEF EmptyPrompt
    <2>2. Budget(slot)
      BY <2>1 DEF Budget
    <2> QED BY <2>1, <2>2
  <1>2. CASE PromptDone
    <2>1. /\ slot' = [slot EXCEPT !.n_decoded = 0] /\ phase = "load"
          /\ phase' = "processing" /\ UNCHANGED <<streamed, answer>>
      BY <1>2 DEF PromptDone
    <2>2. /\ Sound(slot') /\ slot'.n_decoded = 0 /\ Streamed(slot', streamed)
          /\ slot'.params = slot.params
          /\ Clean(slot) => Clean(slot')
      BY <2>1, CountedIs
    <2>3. Budget(slot') /\ MayGoOn(slot')
      BY <2>2 DEF Budget, MayGoOn
    <2> QED BY <2>1, <2>2, <2>3
  <1>3. CASE Cancel
    BY <1>3 DEF Cancel, Working
  <1>4. CASE Release
    BY <1>4 DEF Release, Working
  <1>5. CASE UNCHANGED vars
    BY <1>5 DEF vars, Working
  <1> QED BY <1>1, <1>2, <1>3, <1>4, <1>5

LEMMA TextNext == TextInv /\ [Next]_vars => TextInv'
  BY TextLaunch, TextSample, TextOther DEF Next, CleanInv

LEMMA CleanNext ==
  ASSUME Unmixed
  PROVE  CleanInv /\ [Next]_vars => CleanInv'
  <1> SUFFICES ASSUME TextInv, Proper(slot) => Clean(slot), [Next]_vars
               PROVE  CleanInv'
    BY DEF CleanInv
  <1> DEFINE SameParams == slot'.params = slot.params
  <1>0. SameParams => (Proper(slot') <=> Proper(slot))
    BY DEF Proper, Words
  <1>1. CASE Launch
    BY <1>1, TextLaunch
  <1>2. CASE Sample
    BY <1>0, <1>2, TextSample DEF CleanInv
  <1>3. CASE EmptyPrompt \/ PromptDone \/ Cancel \/ Release \/ UNCHANGED vars
    BY <1>0, <1>3, TextOther DEF CleanInv
  <1> QED BY <1>1, <1>2, <1>3 DEF Next

LEMMA PrefixIs ==
  ASSUME NEW x \in Text, NEW g \in Text, Len(x) <= Len(g),
         \A i \in 1 .. Len(x) : x[i] = g[i]
  PROVE  IsPrefix(x, g)
  <1>1. Len(x) \in Nat /\ Len(g) \in Nat
    BY DEF Text
  <1> DEFINE a == SubSeq(x, 1, Len(x))
             b == SubSeq(g, 1, Len(x))
  <1>2. /\ a \in Text /\ b \in Text /\ Len(a) = Len(x) /\ Len(b) = Len(x)
        /\ \A i \in 1 .. Len(x) : a[i] = x[i] /\ b[i] = g[i]
    BY <1>1 DEF Text
  <1> HIDE DEF a, b
  <1>3. a = b
    BY <1>1, <1>2 DEF Text
  <1> QED BY <1>3 DEF IsPrefix, a, b

(***************************************************************************)
(* The answer and the whole generation.                                    *)
(***************************************************************************)
AllStops(s, x) == UNION {Positions(Words(s)[i], x) : i \in DOMAIN Words(s)}

\* The slot's text is all that was sampled, or all before the first stop word.
Completed(s, full) ==
  IF s.stopped_word
  THEN /\ AllStops(s, full) # {}
       /\ s.generated_text = SubSeq(full, 1, LeastOf(AllStops(s, full)))
  ELSE s.generated_text = full

CompletionInv ==
  /\ CleanInv /\ tokens \in Seq(Text)
  /\ Proper(slot) => /\ Completed(slot, FlattenSeq(tokens))
                     /\ phase \in {"load", "processing"} => ~slot.stopped_word

\* The members that the parts of process_token set or leave alone.
LEMMA AddedIs ==
  ASSUME NEW s, Sound(s), NEW token \in Tokens
  PROVE  /\ AddToken(s, token).generated_text = s.generated_text \o token.text
         /\ AddToken(s, token).stopped_word = s.stopped_word
  BY DEF AddToken, Sound, SlotRecord

LEMMA StoppedIs ==
  ASSUME NEW s, Sound(s), NEW token, NEW p
  PROVE  /\ StopAt(s, token, p).generated_text = ErasedFrom(s, p)
         /\ StopAt(s, token, p).stopped_word = TRUE
         /\ StopAt(s, token, p).has_next_token = FALSE
  BY DEF StopAt, Sound, SlotRecord

LEMMA SameWord ==
  ASSUME NEW s, Sound(s), NEW token
  PROVE  /\ SendAll(s).stopped_word = s.stopped_word
         /\ Limited(s, token).stopped_word = s.stopped_word
  BY DEF SendAll, Limited, Sound, SlotRecord

\* After a token more, the search finds the stop words of the whole text.
LEMMA AllStopsFound ==
  ASSUME NEW s, Sound(s), NEW token \in Tokens, Clean(s)
  PROVE  LET s1 == AddToken(s, token)
         IN  AllStops(s, s1.generated_text) = {s.n_sent_text + q : q \in Stops(s1, token)}
  <1> DEFINE s1 == AddToken(s, token)
             g == s1.generated_text
             m == s.n_sent_text
             u == Unsent(s1)
  <1>1. /\ Sound(s1) /\ Words(s1) = Words(s) /\ s1.n_sent_text = m /\ m \in Nat
        /\ g \in Text /\ Len(g) \in Nat /\ m <= Len(g)
    <2>1. Sound(s1) /\ s1.params = s.params /\ s1.n_sent_text = m
      BY AddTokenIs
    <2> QED BY <2>1, TypesOf DEF Words
  <1>2. u \in Text /\ Len(u) = Len(g) - m /\ \A i \in 1 .. Len(u) : u[i] = g[m + i]
    BY <1>1, UnsentIs
  <1>3. ASSUME NEW k \in DOMAIN Words(s), NEW p \in Positions(Words(s)[k], g)
        PROVE  \E q \in Stops(s1, token) : p = m + q
    <2>1. p \in 0 .. Len(g) /\ At(Words(s)[k], g, p)
      BY <1>1, WordsAre, PositionsAre
    <2> QED BY <2>1, NewStopFound
  <1>4. ASSUME NEW q \in Stops(s1, token)
        PROVE  m + q \in AllStops(s, g)
    <2>1. PICK k \in DOMAIN Words(s) : q \in Positions(Words(s)[k], u)
      BY <1>1 DEF Stops, FullStops, Found
    <2> DEFINE w == Words(s)[k]
    <2>2. w \in Text /\ Len(w) \in Nat
      BY WordsAre DEF Text
    <2>3. q \in 0 .. Len(u) /\ At(w, u, q)
      BY <1>2, <2>1, <2>2, PositionsAre
    <2> HIDE DEF w
    <2>4. q + Len(w) <= Len(u) /\ \A i \in 1 .. Len(w) : u[q + i] = w[i]
      BY <2>3 DEF At
    <2> HIDE DEF u, g, m
    <2>5. ASSUME NEW i \in 1 .. Len(w)
          PROVE  g[(m + q) + i] = w[i]
      <3>1. q + i \in 1 .. Len(u) /\ m + (q + i) = (m + q) + i
        BY <1>1, <1>2, <2>2, <2>3, <2>4
      <3> QED BY <1>2, <2>4, <3>1
    <2>6. m + q \in 0 .. Len(g) /\ (m + q) + Len(w) <= Len(g)
      BY <1>1, <1>2, <2>2, <2>3, <2>4
    <2>7. m + q \in Positions(w, g)
      BY <1>1, <2>2, <2>5, <2>6, PositionsAre DEF At
    <2> QED BY <2>7 DEF AllStops, w
  <1> HIDE DEF g, m, s1
  <1>5. AllStops(s, g) = {m + q : q \in Stops(s1, token)}
    BY <1>3, <1>4 DEF AllStops
  <1> QED BY <1>5 DEF g, m, s1

LEMMA CompletedStep ==
  ASSUME NEW s, Sound(s), NEW token \in Tokens, Clean(s), ~s.stopped_word
  PROVE  LET s3 == ProcessToken(s, token)
         IN  /\ Completed(s3, s.generated_text \o token.text)
             /\ s3.has_next_token => ~s3.stopped_word
  <1> DEFINE s1 == AddToken(s, token)
             s2 == Searched(s1, token)
             s3 == ProcessToken(s, token)
             g  == s1.generated_text
             S  == Stops(s1, token)
             m  == s.n_sent_text
  <1>1. /\ Sound(s1) /\ Words(s1) = Words(s) /\ s1.n_sent_text = m /\ s1.params = s.params
        /\ g = s.generated_text \o token.text /\ ~s1.stopped_word
    <2>1. Sound(s1) /\ s1.n_sent_text = m /\ s1.params = s.params
      BY AddTokenIs
    <2>2. g = s.generated_text \o token.text /\ s1.stopped_word = s.stopped_word
      BY AddedIs
    <2> QED BY <2>1, <2>2, Zenon DEF Words
  <1>2. AllStops(s, g) = {m + q : q \in S}
    BY AllStopsFound
  <1>3. /\ Sound(s2) /\ Words(s2) = Words(s) /\ Completed(s2, g)
        /\ s2.has_next_token => ~s2.stopped_word
    <2>1. CASE s2 = s1
      BY <1>1, <2>1 DEF Completed
    <2>2. CASE s2 = SendAll(s1)
      <3>1. Sound(s2) /\ s2.params = s1.params /\ s2.generated_text = g
        BY <1>1, <2>2, SendAllIs
      <3>2. s2.stopped_word = s1.stopped_word
        BY <1>1, <2>2, SameWord
      <3> HIDE DEF s1, s2
      <3> QED BY <1>1, <3>1, <3>2, Zenon DEF Completed, Words
    <2>3. CASE S # {} /\ s2 = StopAt(s1, token, LeastOf(S))
      <3> DEFINE p == LeastOf(S)
                 A == {m + q : q \in S}
      <3>1. /\ p \in S /\ \A q \in S : p <= q
            /\ Sound(s2) /\ s2.params = s1.params
        BY <1>1, <2>3, StopAtIs
      <3>2. s2.stopped_word /\ ~s2.has_next_token /\ s2.generated_text = SubSeq(g, 1, m + p)
        <4> HIDE DEF p, S, s1, s2
        <4>1. Sound(s1) /\ s2 = StopAt(s1, token, p)
          BY <1>1, <2>3 DEF p
        <4>2. /\ s2.stopped_word /\ ~s2.has_next_token
              /\ s2.generated_text = ErasedFrom(s1, p)
          BY <4>1, StoppedIs
        <4> QED BY <1>1, <4>2, Zenon DEF ErasedFrom
      <3>3. S \subseteq Nat /\ m \in Nat
        <4>1. S \subseteq 0 .. Len(Unsent(s1)) /\ Len(Unsent(s1)) \in Nat
          BY <1>1, StopsAre, UnsentIs DEF Text
        <4> QED BY <4>1, TypesOf
      <3> HIDE DEF S, m, p, s1, s2
      <3>4. A \in SUBSET Nat /\ m + p \in A /\ \A a \in A : m + p <= a
        BY <3>1, <3>3
      <3> HIDE DEF A
      <3>5. LeastOf(A) = m + p
        <4>1. LeastOf(A) \in A /\ \A a \in A : LeastOf(A) <= a
          BY <3>4, LeastLemma
        <4>2. LeastOf(A) <= m + p /\ m + p <= LeastOf(A) /\ LeastOf(A) \in Nat /\ m + p \in Nat
          BY <3>4, <4>1
        <4> QED BY <4>2
      <3>6. AllStops(s2, g) = A
        BY <1>1, <1>2, <3>1 DEF AllStops, Words, A
      <3> QED BY <1>1, <3>1, <3>2, <3>4, <3>5, <3>6 DEF Completed, Words
    <2> QED BY <1>1, <2>1, <2>2, <2>3, SearchedIs
  <1>4. s3 = Limited(s2, token)
    BY DEF ProcessToken
  <1> HIDE DEF s1, s2, s3, g
  <1>5. /\ s3.generated_text = s2.generated_text /\ s3.stopped_word = s2.stopped_word
        /\ s3.params = s2.params
        /\ s3.has_next_token => s2.has_next_token
    <2>1. s3.stopped_word = s2.stopped_word
      BY <1>3, <1>4, SameWord
    <2>2. /\ s3.generated_text = s2.generated_text /\ s3.params = s2.params
          /\ s3.has_next_token => s2.has_next_token
      BY <1>3, <1>4, LimitedIs
    <2> QED BY <2>1, <2>2
  <1>6. Completed(s3, g)
    BY <1>3, <1>5, Zenon DEF Completed, AllStops, Words
  <1>7. s3.has_next_token => ~s3.stopped_word
    BY <1>3, <1>5, Zenon
  <1> QED BY <1>1, <1>6, <1>7, Zenon DEF s3

LEMMA CompletionInit ==
  ASSUME Requests # {}, Init
  PROVE  CompletionInv
  <1>1. slot.generated_text = <<>> /\ ~slot.stopped_word /\ tokens = <<>>
    BY DEF Init, FreshSlot
  <1> QED BY <1>1, TextInit, FlattenEmpty DEF CompletionInv, Completed

LEMMA CompletionNext ==
  ASSUME Unmixed
  PROVE  CompletionInv /\ [Next]_vars => CompletionInv'
  <1> SUFFICES ASSUME CompletionInv, [Next]_vars
               PROVE  /\ tokens' \in Seq(Text)
                      /\ Proper(slot') =>
                           /\ Completed(slot', FlattenSeq(tokens'))
                           /\ phase' \in {"load", "processing"} => ~slot'.stopped_word
    BY CleanNext DEF CompletionInv
  <1>1. Sound(slot) /\ (Proper(slot) => Clean(slot))
    BY DEF CompletionInv, CleanInv, TextInv
  <1>2. CASE Launch
    <2>1. /\ slot'.generated_text = <<>> /\ ~slot'.stopped_word /\ tokens' = <<>>
      BY <1>1, <1>2 DEF Launch, Reset, Sound, SlotRecord
    <2> QED BY <2>1, FlattenEmpty DEF Completed
  <1>3. CASE Sample
    <2> DEFINE c == [slot EXCEPT !.n_decoded = slot.n_decoded + 1]
    <2>1. PICK token \in Tokens :
            /\ slot' = ProcessToken(c, token) /\ tokens' = Append(tokens, token.text)
            /\ phase' = IF slot'.has_next_token THEN "processing" ELSE "release"
      BY <1>3 DEF Sample
    <2>2. /\ Sound(c) /\ (Clean(slot) => Clean(c))
          /\ c.generated_text = slot.generated_text
          /\ c.stopped_word = slot.stopped_word
      <3>1. slot.n_decoded + 1 \in Nat
        BY <1>1, TypesOf
      <3>2. Sound(c) /\ (Clean(slot) => Clean(c))
        BY <1>1, <3>1, CountedIs
      <3>3. /\ c.generated_text = slot.generated_text /\ c.stopped_word = slot.stopped_word
        BY <1>1 DEF Sound, SlotRecord
      <3> QED BY <3>2, <3>3
    <2> HIDE DEF c
    <2>3. tokens \in Seq(Text) /\ token.text \in Text /\ tokens' \in Seq(Text)
      BY <2>1, TokensAssumption DEF CompletionInv
    <2>4. ASSUME Proper(slot')
          PROVE  /\ Completed(slot', FlattenSeq(tokens'))
                 /\ phase' \in {"load", "processing"} => ~slot'.stopped_word
      <3>1. Proper(slot)
        <4>1. slot'.params = slot.params
          BY <1>3, TextSample DEF CompletionInv, CleanInv
        <4> QED BY <2>4, <4>1 DEF Proper, Words
      <3>2. ~slot.stopped_word /\ slot.generated_text = FlattenSeq(tokens)
        BY <1>3, <3>1 DEF Sample, CompletionInv, Completed
      <3>3. FlattenSeq(tokens') = slot.generated_text \o token.text
        BY <2>1, <2>3, <3>2, FlattenAppend
      <3>4. /\ Completed(slot', slot.generated_text \o token.text)
            /\ slot'.has_next_token => ~slot'.stopped_word
        BY <1>1, <2>1, <2>2, <3>1, <3>2, CompletedStep
      <3> QED BY <2>1, <3>3, <3>4
    <2> QED BY <2>3, <2>4
  <1>4. CASE PromptDone
    <2>1. /\ slot' = [slot EXCEPT !.n_decoded = 0] /\ tokens' = tokens /\ phase = "load"
      BY <1>4 DEF PromptDone
    <2>2. /\ slot'.generated_text = slot.generated_text
          /\ slot'.stopped_word = slot.stopped_word /\ slot'.params = slot.params
      BY <1>1, <2>1 DEF Sound, SlotRecord
    <2> QED BY <2>1, <2>2 DEF CompletionInv, Completed, AllStops, Proper, Words
  <1>5. CASE EmptyPrompt \/ Cancel \/ Release \/ UNCHANGED vars
    BY <1>5 DEF EmptyPrompt, Cancel, Release, vars, CompletionInv
  <1> QED BY <1>2, <1>3, <1>4, <1>5 DEF Next

\* The types, and no count of sent bytes beyond the text.
THEOREM TextTypes ==
  ASSUME Requests # {}
  PROVE  Spec => []TypeOK
  <1>1. TextInv => TypeOK
    <2> SUFFICES ASSUME TextInv
                 PROVE  TypeOK
      OBVIOUS
    <2>1. /\ slot.params \in Requests /\ slot.generated_text \in Text
          /\ slot.n_sent_text \in 0 .. Len(slot.generated_text) /\ slot.n_decoded \in Nat
      BY TypesOf DEF TextInv
    <2>2. <<>> \in Text
      BY DEF Text
    <2>3. FinalContent(slot) \in Text
      BY <2>1, <2>2 DEF FinalContent
    <2> QED BY <2>1, <2>3 DEF TextInv, TypeOK
  <1> QED BY <1>1, TextInit, TextNext, PTL DEF Spec, CleanInv

\* The partial results, joined, are a beginning of the text: nothing is sent
\* twice and nothing that was sent is erased by a stop word.
THEOREM StreamIsPrefix ==
  ASSUME Requests # {}
  PROVE  Spec => []StreamedIsPrefix
  <1>1. TextInv => StreamedIsPrefix
    <2> SUFFICES ASSUME TextInv, slot.params.stream
                 PROVE  Len(streamed) = slot.n_sent_text
                        /\ IsPrefix(streamed, slot.generated_text)
      BY DEF StreamedIsPrefix
    <2>1. /\ streamed \in Text /\ Len(streamed) = slot.n_sent_text
          /\ \A i \in 1 .. Len(streamed) : streamed[i] = slot.generated_text[i]
      BY DEF TextInv, Streamed
    <2>2. slot.generated_text \in Text /\ slot.n_sent_text <= Len(slot.generated_text)
      BY TypesOf DEF TextInv
    <2> QED BY <2>1, <2>2, PrefixIs
  <1> QED BY <1>1, TextInit, TextNext, PTL DEF Spec, CleanInv

\* The limits hold for every request, whatever n_decoded the one before left.
THEOREM BudgetAlwaysKept ==
  ASSUME Requests # {}
  PROVE  Spec => []BudgetKept
  <1>1. TextInv => BudgetKept
    BY DEF TextInv, BudgetKept, Budget
  <1> QED BY <1>1, TextInit, TextNext, PTL DEF Spec, CleanInv

\* A Java thread that turns each partial result into a String never gets half a
\* character, though process_token looks at the last four bytes only and a stop
\* word may be erased at any byte.
THEOREM StreamEndsWhole ==
  ASSUME Requests # {}
  PROVE  Spec => []WholeCharacters
  <1>1. TextInv => WholeCharacters
    <2> SUFFICES ASSUME TextInv
                 PROVE  Missing(streamed) <= 0
      BY DEF WholeCharacters
    <2>1. streamed \in Text
      BY DEF TextInv
    <2>2. ~Incomplete(streamed)
      <3>1. CASE slot.params.stream
        BY <3>1 DEF TextInv, Streamed
      <3>2. CASE ~slot.params.stream
        <4>1. streamed = <<>> /\ Len(<<>>) = 0
          BY <3>2 DEF TextInv, Streamed
        <4> QED BY <2>1, <4>1, IncompleteIs
      <3> QED BY <3>1, <3>2
    <2> QED BY <2>1, <2>2, MissingIs
  <1> QED BY <1>1, TextInit, TextNext, PTL DEF Spec, CleanInv

\* No stop word is streamed or answered, however the tokens split it, unless the
\* request has an empty one, and while no token joins the end of a character with
\* an unfinished one: the search looks back far enough, and what may become a stop
\* word is held back.
THEOREM StopWordsHeldBack ==
  ASSUME Requests # {}, Unmixed
  PROVE  Spec => []NoStopWordSent
  <1>1. CleanInv => NoStopWordSent
    <2> SUFFICES ASSUME CleanInv, Proper(slot), NEW k \in DOMAIN Words(slot)
                 PROVE  /\ Positions(Words(slot)[k], streamed) = {}
                        /\ \A text \in answer : Positions(Words(slot)[k], text) = {}
      BY DEF NoStopWordSent, WordsNotEmpty, Proper, Words
    <2> DEFINE w == Words(slot)[k]
               G == slot.generated_text
    <2>1. /\ Sound(slot) /\ streamed \in Text /\ Streamed(slot, streamed)
          /\ answer \subseteq {FinalContent(slot)} /\ Clean(slot)
      BY DEF CleanInv, TextInv
    <2>2. G \in Text /\ Len(G) \in Nat /\ slot.n_sent_text <= Len(G)
      BY <2>1, TypesOf
    <2>3. w \in Text /\ Len(w) \in Nat \ {0}
      <3>1. w \in Text /\ w # <<>>
        BY <2>1, WordsAre DEF Proper
      <3> QED BY <3>1 DEF Text
    <2>4. \A p \in 0 .. Len(G) : ~At(w, G, p)
      BY <2>1 DEF Clean, NoStopIn
    <2> SUFFICES Positions(w, streamed) = {} /\ \A text \in answer : Positions(w, text) = {}
      OBVIOUS
    <2> HIDE DEF w
    <2>5. Positions(w, G) = {}
      BY <2>2, <2>3, <2>4, PositionsAre
    <2>6. <<>> \in Text /\ Positions(w, <<>>) = {}
      <3>1. <<>> \in Text /\ Len(<<>>) = 0
        BY DEF Text
      <3>2. \A p \in 0 .. 0 : ~At(w, <<>>, p)
        BY <2>3, <3>1 DEF At
      <3> QED BY <2>3, <3>1, <3>2, PositionsAre
    <2>7. Positions(w, streamed) = {}
      <3>1. CASE slot.params.stream
        <4>1. /\ Len(streamed) \in Nat /\ Len(streamed) <= Len(G)
              /\ \A i \in 1 .. Len(streamed) : streamed[i] = G[i]
          BY <2>1, <2>2, <3>1 DEF Streamed, Text
        <4>2. ASSUME NEW p \in 0 .. Len(streamed), At(w, streamed, p)
              PROVE  At(w, G, p) /\ p \in 0 .. Len(G)
          <5>1. p + Len(w) <= Len(streamed) /\ \A i \in 1 .. Len(w) : streamed[p + i] = w[i]
            BY <4>2 DEF At
          <5> HIDE DEF G
          <5>2. \A i \in 1 .. Len(w) : p + i \in 1 .. Len(streamed)
            BY <2>3, <4>1, <5>1
          <5>3. p + Len(w) <= Len(G) /\ p \in 0 .. Len(G)
            BY <2>2, <2>3, <4>1, <5>1
          <5> QED BY <4>1, <5>1, <5>2, <5>3 DEF At
        <4> QED BY <2>1, <2>3, <2>4, <4>2, PositionsAre
      <3>2. CASE ~slot.params.stream
        BY <2>1, <2>6, <3>2 DEF Streamed
      <3> QED BY <3>1, <3>2
    <2>8. Positions(w, FinalContent(slot)) = {}
      BY <2>5, <2>6 DEF FinalContent
    <2> QED BY <2>1, <2>7, <2>8
  <1> QED BY <1>1, TextInit, CleanNext, PTL DEF Spec

\* The text found token by token is the whole generation cut before its first
\* stop word, and generation stops with the token that completes one; under
\* Unmixed, as the theorem before.
THEOREM AnswerIsWhole ==
  ASSUME Requests # {}, Unmixed
  PROVE  Spec => []AnswerIsCompletion
  <1>1. CompletionInv => AnswerIsCompletion
    <2> SUFFICES ASSUME CompletionInv, Proper(slot)
                 PROVE  AnswerIsCompletion
      BY DEF AnswerIsCompletion, WordsNotEmpty, Proper, Words
    <2> DEFINE full == FlattenSeq(tokens)
               stops == AllStops(slot, full)
    <2>1. /\ Sound(slot) /\ Clean(slot) /\ Completed(slot, full)
          /\ slot.stopped_word => phase # "processing"
      BY DEF CompletionInv, CleanInv, TextInv
    <2>2. stops = UNION {Positions(slot.params.antiprompt[i], full) :
                           i \in DOMAIN slot.params.antiprompt}
      BY DEF AllStops, Words
    <2>3. CASE ~slot.stopped_word
      <3>1. slot.generated_text = full
        BY <2>1, <2>3 DEF Completed
      <3>2. full \in Text /\ \A k \in DOMAIN Words(slot) :
              \A p \in 0 .. Len(full) : ~At(Words(slot)[k], full, p)
        BY <2>1, <3>1, TypesOf DEF Clean, NoStopIn
      <3> HIDE DEF full
      <3>3. \A k \in DOMAIN Words(slot) : Positions(Words(slot)[k], full) = {}
        BY <2>1, <3>2, WordsAre, PositionsAre
      <3>4. stops = {}
        BY <3>3 DEF AllStops
      <3> QED BY <2>2, <2>3, <3>1, <3>4 DEF AnswerIsCompletion, full
    <2>4. CASE slot.stopped_word
      <3>1. stops # {} /\ slot.generated_text = SubSeq(full, 1, LeastOf(stops))
        BY <2>1, <2>4 DEF Completed
      <3> HIDE DEF stops
      <3> QED BY <2>1, <2>2, <2>4, <3>1 DEF AnswerIsCompletion
    <2> QED BY <2>3, <2>4
  <1> QED BY <1>1, CompletionInit, CompletionNext, PTL DEF Spec

=============================================================================
