-------------------------- MODULE LlamaServerService --------------------------
(***************************************************************************)
(* The server implements the service its Java API promises (Service), and  *)
(* answers a task once (AnsweredOnce), for every number of threads, slots  *)
(* and requests, until a batch fails for good.                             *)
(*                                                                         *)
(* A task that is not answered is in one place: the queue, the deferred    *)
(* queue or a slot that works on it.  Every step of the loop thread moves  *)
(* tasks between places, makes one vanish with its last result, or sends a *)
(* partial result from the place of its task.                              *)
(***************************************************************************)
EXTENDS LlamaServerBatch

InQueue(i)    == <<"queue", i>>
InDeferred(i) == <<"deferred", i>>
OnSlot(k)     == <<"slot", k>>

Places ==
  {InQueue(i) : i \in {j \in DOMAIN queue_tasks : queue_tasks[j].type = "COMPLETION"}}
    \cup {InDeferred(i) : i \in DOMAIN queue_tasks_deferred}
    \cup {OnSlot(k) : k \in {m \in Slots : Working(slots[m])}}

TaskAt(p) == CASE p[1] = "queue"    -> queue_tasks[p[2]].id
               [] p[1] = "deferred" -> queue_tasks_deferred[p[2]].id
               [] p[1] = "slot"     -> slots[p[2]].id_task

StreamAt(p) == CASE p[1] = "queue"    -> queue_tasks[p[2]].request.kind = "generate"
                 [] p[1] = "deferred" -> queue_tasks_deferred[p[2]].request.kind = "generate"
                 [] p[1] = "slot"     -> slots[p[2]].stream

OnePlace == \A p, q \in Places : TaskAt(p) = TaskAt(q) => p = q

PlacesIssued  == \A p \in Places : TaskAt(p) \in TaskIds
ResultsIssued == \A i \in DOMAIN queue_results : queue_results[i].id \in TaskIds

\* Ids are not shared, and nothing is known of a task that is not posted yet.
OwnIds == \A c, d \in Clients :
            jpc[c] # "idle" /\ jpc[d] # "idle" /\ task_id[c] = task_id[d] => c = d

NotPosted == \A c \in Clients : jpc[c] \in {"add", "post"} =>
               \A t \in {task_id[c]} :
                 /\ ~Pending(t)
                 /\ \A i \in DOMAIN queue_results : queue_results[i].id # t

\* AnsweredOnce, with a name for the id.
Once == \A i, j \in DOMAIN queue_results :
          Terminal(queue_results[i]) =>
            \A t \in {queue_results[i].id} :
               ~Pending(t) /\ (queue_results[j].id = t => j <= i)

\* The slot knows whether the caller streams, and only then sends partials.
RequestKept == \A c \in Clients : InCall(c) =>
                 \A p \in Places : TaskAt(p) = task_id[c] =>
                                     (StreamAt(p) <=> request[c].kind = "generate")
PartialsAsked == \A c \in Clients : InCall(c) /\ OwnPartials(c) # {} =>
                                      request[c].kind = "generate"

FinishGenerates == pc = "finish" => cur \in Generating

ServiceInv == /\ OnePlace /\ PlacesIssued /\ ResultsIssued /\ OwnIds /\ NotPosted
              /\ RequestKept /\ PartialsAsked /\ Once

AllInv == IndexInv /\ LogitsInv /\ FinishGenerates /\ ServiceInv

(***************************************************************************)
(* Places.                                                                 *)
(***************************************************************************)
PlaceCases ==
  /\ \A i : /\ InQueue(i) \in Places <=> /\ i \in DOMAIN queue_tasks
                                          /\ queue_tasks[i].type = "COMPLETION"
           /\ TaskAt(InQueue(i)) = queue_tasks[i].id
           /\ StreamAt(InQueue(i)) = (queue_tasks[i].request.kind = "generate")
  /\ \A i : /\ InDeferred(i) \in Places <=> i \in DOMAIN queue_tasks_deferred
           /\ TaskAt(InDeferred(i)) = queue_tasks_deferred[i].id
           /\ StreamAt(InDeferred(i)) = (queue_tasks_deferred[i].request.kind = "generate")
  /\ \A k : /\ OnSlot(k) \in Places <=> k \in Slots /\ Working(slots[k])
           /\ TaskAt(OnSlot(k)) = slots[k].id_task
           /\ StreamAt(OnSlot(k)) = slots[k].stream
  /\ \A p \in Places : \E i : p = InQueue(i) \/ p = InDeferred(i) \/ p = OnSlot(i)

LEMMA PlaceNames ==
  \A i, j : /\ InQueue(i) = InQueue(j) => i = j
            /\ InDeferred(i) = InDeferred(j) => i = j
            /\ OnSlot(i) = OnSlot(j) => i = j
            /\ InQueue(i) # InDeferred(j) /\ InQueue(i) # OnSlot(j)
            /\ InDeferred(i) # OnSlot(j)
            /\ InQueue(i)[1] = "queue" /\ InDeferred(i)[1] # "queue" /\ OnSlot(i)[1] # "queue"
            /\ InQueue(i)[2] = i
  BY DEF InQueue, InDeferred, OnSlot

LEMMA PlaceFacts == PlaceCases
  BY DEF InQueue, InDeferred, OnSlot, PlaceCases, Places, TaskAt, StreamAt

LEMMA PlaceFactsNext == PlaceCases'
  BY PlaceFacts, PTL

LEMMA OnceIsAnsweredOnce == AnsweredOnce <=> Once
  BY DEF AnsweredOnce, Once

LEMMA PendingPlace == \A t : Pending(t) <=> \E p \in Places : TaskAt(p) = t
  <1> TAKE t
  <1>1. Pending(t) => \E p \in Places : TaskAt(p) = t
    BY PlaceFacts DEF PlaceCases, Pending, Queued, Deferred, InSlot
  <1>2. ASSUME NEW p \in Places, TaskAt(p) = t
        PROVE  Pending(t)
    <2>1. PICK i : p = InQueue(i) \/ p = InDeferred(i) \/ p = OnSlot(i)
      BY PlaceFacts DEF PlaceCases
    <2> QED BY <1>2, <2>1, PlaceFacts DEF PlaceCases, Pending, Queued, Deferred, InSlot
  <1> QED BY <1>1, <1>2

LEMMA PendingPlaceNext == \A t : Pending(t)' <=> \E p \in Places' : TaskAt(p)' = t
  <1>1. (\A t : Pending(t) <=> \E p \in Places : TaskAt(p) = t)'
    BY PendingPlace, PTL
  <1> QED BY <1>1

\* A step moves tasks when each place it fills is filled from one of its own.
From(p, q) == /\ q \in Places /\ TaskAt(p)' = TaskAt(q)
              /\ StreamAt(p)' <=> StreamAt(q)

Moves(h) == /\ h \in [Places' -> Places]
            /\ \A p \in Places' : From(p, h[p])
            /\ \A p, q \in Places' : h[p] = h[q] => p = q

(***************************************************************************)
(* Results.                                                                *)
(***************************************************************************)
PartialsOf(s, t) == {i \in DOMAIN s : s[i].id = t /\ ~Terminal(s[i])}

LEMMA PartialsFinite ==
  ASSUME NEW s \in Seq(ResultType), NEW t
  PROVE  IsFiniteSet(PartialsOf(s, t)) /\ Cardinality(PartialsOf(s, t)) \in Nat
  <1>1. PartialsOf(s, t) \in SUBSET (1 .. Len(s)) /\ Len(s) \in Nat
    BY DEF PartialsOf
  <1>2. IsFiniteSet(1 .. Len(s))
    BY <1>1, FS_Interval
  <1> QED BY <1>1, <1>2, FS_Subset, FS_CardinalityType

LEMMA PartialsAppend ==
  ASSUME NEW s \in Seq(ResultType), NEW e \in ResultType, NEW t
  PROVE  /\ ~(e.id = t /\ ~Terminal(e)) =>
              PartialsOf(Append(s, e), t) = PartialsOf(s, t)
         /\ e.id = t /\ ~Terminal(e) =>
              /\ PartialsOf(Append(s, e), t) # {}
              /\ Cardinality(PartialsOf(Append(s, e), t))
                   = Cardinality(PartialsOf(s, t)) + 1
  <1> DEFINE a == Append(s, e)
             n == Len(s) + 1
  <1>1. /\ DOMAIN a = DOMAIN s \cup {n} /\ n \notin DOMAIN s /\ a[n] = e
        /\ \A i \in DOMAIN s : a[i] = s[i]
    OBVIOUS
  <1> HIDE DEF a, n
  <1>2. ~(e.id = t /\ ~Terminal(e)) => PartialsOf(a, t) = PartialsOf(s, t)
    BY <1>1 DEF PartialsOf
  <1>3. ASSUME e.id = t, ~Terminal(e)
        PROVE  /\ PartialsOf(a, t) # {}
               /\ Cardinality(PartialsOf(a, t)) = Cardinality(PartialsOf(s, t)) + 1
    <2>1. PartialsOf(a, t) = PartialsOf(s, t) \cup {n} /\ n \notin PartialsOf(s, t)
      BY <1>1, <1>3 DEF PartialsOf
    <2>2. IsFiniteSet(PartialsOf(s, t))
      BY PartialsFinite
    <2> QED BY <2>1, <2>2, FS_AddElement
  <1> QED BY <1>2, <1>3 DEF a

LEMMA RemoveAtIndexed ==
  ASSUME NEW S, NEW s \in Seq(S), NEW i \in DOMAIN s
  PROVE  /\ RemoveAt(s, i) \in Seq(S)
         /\ Len(RemoveAt(s, i)) = Len(s) - 1
         /\ DOMAIN RemoveAt(s, i) = 1 .. Len(s) - 1
         /\ \A j \in 1 .. Len(s) - 1 :
              RemoveAt(s, i)[j] = s[IF j < i THEN j ELSE j + 1]
  <1> DEFINE a == SubSeq(s, 1, i - 1)
             b == SubSeq(s, i + 1, Len(s))
  <1>1. a \in Seq(S) /\ Len(a) = i - 1 /\ \A j \in 1 .. i - 1 : a[j] = s[j]
    OBVIOUS
  <1>2. b \in Seq(S) /\ Len(b) = Len(s) - i /\ \A j \in 1 .. Len(s) - i : b[j] = s[i + j]
    OBVIOUS
  <1>3. i \in 1 .. Len(s) /\ Len(s) \in Nat
    OBVIOUS
  <1>4. RemoveAt(s, i) = a \o b
    BY DEF RemoveAt
  <1> HIDE DEF a, b
  <1>5. a \o b \in Seq(S) /\ Len(a \o b) = Len(s) - 1
    BY <1>1, <1>2, <1>3
  <1>6. ASSUME NEW j \in 1 .. Len(s) - 1
        PROVE  (a \o b)[j] = s[IF j < i THEN j ELSE j + 1]
    <2>1. CASE j < i
      BY <1>1, <1>2, <1>3, <2>1
    <2>2. CASE ~(j < i)
      <3>1. j - (i - 1) \in 1 .. Len(s) - i
        BY <1>3, <2>2
      <3>2. (a \o b)[j] = b[j - (i - 1)]
        <4>1. \A m \in DOMAIN b : (a \o b)[Len(a) + m] = b[m]
          BY SMTT(20), <1>1, <1>2, ConcatLemma
        <4>2. j - (i - 1) \in DOMAIN b /\ Len(a) + (j - (i - 1)) = j
          BY <1>1, <1>2, <1>3, <3>1
        <4> QED BY <4>1, <4>2
      <3>3. b[j - (i - 1)] = s[i + (j - (i - 1))] /\ i + (j - (i - 1)) = j + 1
        BY SMTT(20), <1>2, <1>3, <3>1
      <3> QED BY <2>2, <3>2, <3>3
    <2> QED BY <2>1, <2>2
  <1> QED BY <1>3, <1>4, <1>5, <1>6

LEMMA PartialsRemove ==
  ASSUME NEW s \in Seq(ResultType), NEW i \in DOMAIN s, NEW t
  PROVE  /\ PartialsOf(RemoveAt(s, i), t) # {} => PartialsOf(s, t) # {}
         /\ i \notin PartialsOf(s, t) =>
              Cardinality(PartialsOf(RemoveAt(s, i), t)) = Cardinality(PartialsOf(s, t))
         /\ i \in PartialsOf(s, t) =>
              Cardinality(PartialsOf(RemoveAt(s, i), t)) = Cardinality(PartialsOf(s, t)) - 1
  <1> DEFINE r == RemoveAt(s, i)
             P == PartialsOf(s, t)
             Q == PartialsOf(r, t)
             f == [j \in Q |-> IF j < i THEN j ELSE j + 1]
  <1>1. /\ DOMAIN r = 1 .. Len(s) - 1 /\ i \in 1 .. Len(s) /\ Len(s) \in Nat
        /\ r \in Seq(ResultType)
        /\ \A j \in 1 .. Len(s) - 1 : r[j] = s[IF j < i THEN j ELSE j + 1]
    BY RemoveAtIndexed
  <1> HIDE DEF r
  <1>2. f \in [Q -> P \ {i}]
    BY SMTT(20), <1>1 DEF PartialsOf
  <1>3. \A j, k \in Q : f[j] = f[k] => j = k
    BY <1>1 DEF PartialsOf
  <1>4. \A m \in P \ {i} : \E j \in Q : f[j] = m
    <2> TAKE m \in P \ {i}
    <2>1. m \in 1 .. Len(s) /\ m # i /\ s[m].id = t /\ ~Terminal(s[m])
      BY DEF PartialsOf
    <2>2. CASE m < i
      <3>1. m \in Q
        BY <1>1, <2>1, <2>2 DEF PartialsOf
      <3> QED BY <2>2, <3>1
    <2>3. CASE m > i
      <3>1. m - 1 \in 1 .. Len(s) - 1 /\ ~(m - 1 < i) /\ (m - 1) + 1 = m
        BY <1>1, <2>1, <2>3
      <3>2. r[m - 1] = s[m]
        BY <1>1, <3>1
      <3>3. m - 1 \in Q
        BY <1>1, <2>1, <3>1, <3>2 DEF PartialsOf
      <3> QED BY <3>1, <3>3
    <2> QED BY <1>1, <2>1, <2>2, <2>3
  <1>5. ExistsBijection(Q, P \ {i})
    <2>1. DOMAIN f = Q
      OBVIOUS
    <2> HIDE DEF f
    <2>2. f \in Injection(Q, P \ {i}) /\ f \in Surjection(Q, P \ {i})
      BY <1>2, <1>3, <1>4, <2>1 DEF Injection, IsInjective, Surjection
    <2> QED BY <2>2 DEF ExistsBijection, Bijection
  <1>6. IsFiniteSet(P) /\ IsFiniteSet(Q) /\ Cardinality(P) \in Nat
    BY <1>1, PartialsFinite
  <1>7. Cardinality(P \ {i}) = Cardinality(Q)
    BY <1>5, <1>6, FS_Bijection
  <1>8. Cardinality(P \ {i}) = IF i \in P THEN Cardinality(P) - 1 ELSE Cardinality(P)
    BY <1>6, FS_RemoveElement
  <1>9. Q # {} => P # {}
    BY <1>2
  <1> QED BY <1>7, <1>8, <1>9 DEF r

(***************************************************************************)
(* A step of the loop thread.                                              *)
(***************************************************************************)
View == <<Phase, Kind, Partials, Closed>>

LEMMA PlacesTurn ==
  ASSUME ServiceInv, UNCHANGED <<next_id, jpc, task_id, request>>, NEW h, Moves(h)
  PROVE  /\ OnePlace' /\ PlacesIssued' /\ OwnIds' /\ RequestKept'
         /\ \A t : Pending(t)' => Pending(t)
  <1>1. \A p \in Places' : /\ h[p] \in Places /\ TaskAt(p)' = TaskAt(h[p])
                           /\ StreamAt(p)' <=> StreamAt(h[p])
    BY DEF Moves, From
  <1>2. OnePlace'
    BY <1>1 DEF Moves, From, ServiceInv, OnePlace
  <1>3. TaskIds' = TaskIds
    BY DEF TaskIds
  <1>4. PlacesIssued'
    BY <1>1, <1>3 DEF ServiceInv, PlacesIssued
  <1>5. OwnIds'
    BY DEF ServiceInv, OwnIds
  <1>6. RequestKept'
    BY <1>1 DEF ServiceInv, RequestKept, InCall
  <1>7. \A t : Pending(t)' => Pending(t)
    BY <1>1, PendingPlace, PendingPlaceNext
  <1> QED BY <1>2, <1>4, <1>5, <1>6, <1>7

\* A step that moves tasks and sends nothing is no step of the service.
LEMMA SilentTurn ==
  ASSUME ServiceInv, UNCHANGED <<next_id, jpc, task_id, request, queue_results>>,
         NEW h, Moves(h)
  PROVE  ServiceInv' /\ UNCHANGED View
  <1>1. /\ OnePlace' /\ PlacesIssued' /\ OwnIds' /\ RequestKept'
        /\ \A t : Pending(t)' => Pending(t)
    BY PlacesTurn
  <1>2. TaskIds' = TaskIds
    BY DEF TaskIds
  <1>3. \A c \in Clients : OwnPartials(c)' = OwnPartials(c)
    BY DEF OwnPartials
  <1>4. ResultsIssued' /\ NotPosted' /\ PartialsAsked' /\ Once'
    BY <1>1, <1>2, <1>3
    DEF ServiceInv, ResultsIssued, NotPosted, PartialsAsked, Once, InCall
  <1>5. UNCHANGED View
    BY <1>3 DEF View, Phase, Kind, Partials, Closed, InCall, Answered
  <1> QED BY <1>1, <1>4, <1>5 DEF ServiceInv

\* What a result that is kept changes for the thread it is for.
LEMMA SentView ==
  ASSUME queue_results \in Seq(ResultType), NEW res \in ResultType,
         queue_results' = Append(queue_results, res),
         UNCHANGED <<jpc, task_id, request>>, NEW c \in Clients
  PROVE  /\ res.id # task_id[c] \/ Terminal(res) => OwnPartials(c)' = OwnPartials(c)
         /\ res.id = task_id[c] /\ ~Terminal(res) =>
              Cardinality(OwnPartials(c))' = Cardinality(OwnPartials(c)) + 1
         /\ Answered(task_id[c])' <=>
              Answered(task_id[c]) \/ (res.id = task_id[c] /\ Terminal(res))
  <1>1. /\ OwnPartials(c) = PartialsOf(queue_results, task_id[c])
        /\ OwnPartials(c)' = PartialsOf(Append(queue_results, res), task_id[c])
    BY DEF OwnPartials, PartialsOf
  <1>2. /\ DOMAIN queue_results' = DOMAIN queue_results \cup {Len(queue_results) + 1}
        /\ \A i \in DOMAIN queue_results : queue_results'[i] = queue_results[i]
        /\ queue_results'[Len(queue_results) + 1] = res
    OBVIOUS
  <1>3. Answered(task_id[c])' <=>
              Answered(task_id[c]) \/ (res.id = task_id[c] /\ Terminal(res))
    BY <1>2 DEF Answered
  <1> QED BY <1>1, <1>3, PartialsAppend

\* A step that sends a result from the place of its task delivers it to the
\* thread that waits for it, if there is one.
LEMMA SendTurn ==
  ASSUME TypeInv, ServiceInv, UNCHANGED <<next_id, jpc, task_id, request>>,
         NEW h, Moves(h), NEW res \in ResultType, Send(res),
         NEW p \in Places, TaskAt(p) = res.id,
         Terminal(res) => \A q \in Places' : h[q] # p,
         Terminal(res) \/ StreamAt(p)
  PROVE  ServiceInv' /\ [CompletionService!Next]_View
  <1>1. queue_results \in Seq(ResultType)
    BY DEF TypeInv, TypeOK
  <1>2. CASE res.id \notin waiting_task_ids
    <2>1. UNCHANGED queue_results
      BY <1>2 DEF Send
    <2> QED BY <2>1, SilentTurn
  <1>3. CASE res.id \in waiting_task_ids
    <2> DEFINE n == Len(queue_results) + 1
    <2>1. queue_results' = Append(queue_results, res)
      BY <1>3 DEF Send
    <2>2. /\ DOMAIN queue_results' = DOMAIN queue_results \cup {n}
          /\ \A i \in DOMAIN queue_results : i < n /\ queue_results'[i] = queue_results[i]
          /\ queue_results'[n] = res /\ n \in Nat /\ DOMAIN queue_results \subseteq Nat
      BY <1>1, <2>1
    <2> HIDE DEF n
    <2>3. /\ OnePlace' /\ PlacesIssued' /\ OwnIds' /\ RequestKept'
          /\ \A t : Pending(t)' => Pending(t)
      BY PlacesTurn
    <2>4. TaskIds' = TaskIds
      BY DEF TaskIds
    <2>5. Pending(res.id)
      BY PendingPlace
    <2>6. ResultsIssued'
      BY <2>2, <2>4 DEF ServiceInv, PlacesIssued, ResultsIssued
    <2>7. NotPosted'
      BY <2>2, <2>3, <2>5 DEF ServiceInv, NotPosted
    <2>8. \A c \in Clients : InCall(c) /\ task_id[c] = res.id =>
             ~Answered(res.id) /\ (~Terminal(res) => request[c].kind = "generate")
      BY <2>5 DEF ServiceInv, Once, Answered, RequestKept
    <2>9. PartialsAsked'
      BY <1>1, <2>1, <2>8, SentView DEF ServiceInv, PartialsAsked, InCall
    <2>10. Terminal(res) => ~Pending(res.id)'
      <3> SUFFICES ASSUME Terminal(res), NEW q \in Places', TaskAt(q)' = res.id
                   PROVE  FALSE
        BY PendingPlaceNext
      <3>1. h[q] \in Places /\ TaskAt(h[q]) = res.id
        BY DEF Moves, From
      <3> QED BY <3>1 DEF ServiceInv, OnePlace
    <2>11. Once'
      <3> SUFFICES ASSUME NEW i \in DOMAIN queue_results', NEW j \in DOMAIN queue_results',
                          NEW t, Terminal(queue_results'[i]), queue_results'[i].id = t
                   PROVE  ~Pending(t)' /\ (queue_results'[j].id = t => j <= i)
        BY DEF Once
      <3>1. CASE i = n
        BY <2>2, <2>10, <3>1
      <3>2. CASE i \in DOMAIN queue_results
        <4>1. queue_results[i].id = t /\ Terminal(queue_results[i])
          BY <2>2, <3>2
        <4>2. /\ ~Pending(t)
              /\ \A m \in DOMAIN queue_results : queue_results[m].id = t => m <= i
          BY <3>2, <4>1 DEF ServiceInv, Once
        <4>3. t # res.id
          BY <2>5, <4>2
        <4> QED BY <2>2, <2>3, <3>2, <4>2, <4>3
      <3> QED BY <2>2, <3>1, <3>2
    <2>12. ServiceInv'
      BY <2>3, <2>6, <2>7, <2>9, <2>11 DEF ServiceInv
    <2>13. \A c \in Clients : /\ InCall(c)' <=> InCall(c)
                              /\ jpc'[c] = jpc[c] /\ request'[c] = request[c]
      BY DEF InCall
    <2>14. UNCHANGED <<Phase, Kind>>
      BY DEF Phase, Kind, InCall
    <2>15. CASE \A c \in Clients : InCall(c) => task_id[c] # res.id
      <3>1. \A c \in Clients : InCall(c) =>
               OwnPartials(c)' = OwnPartials(c) /\ (Answered(task_id[c])' <=> Answered(task_id[c]))
        BY <1>1, <2>1, <2>15, SentView
      <3>2. UNCHANGED <<Partials, Closed>>
        BY <2>13, <3>1 DEF Partials, Closed
      <3> QED BY <2>12, <2>14, <3>2 DEF View
    <2>16. CASE \E c \in Clients : InCall(c) /\ task_id[c] = res.id
      <3>1. PICK c \in Clients : InCall(c) /\ task_id[c] = res.id
        BY <2>16
      <3>2. \A d \in Clients : InCall(d) /\ d # c => task_id[d] # res.id
        BY <3>1 DEF ServiceInv, OwnIds, InCall
      <3>3. \A d \in Clients : InCall(d) /\ d # c =>
               OwnPartials(d)' = OwnPartials(d) /\ (Answered(task_id[d])' <=> Answered(task_id[d]))
        BY <1>1, <2>1, <3>2, SentView
      <3>4. Phase[c] # "idle" /\ Closed[c] = FALSE /\ Kind[c] = request[c].kind
        BY <2>8, <3>1 DEF Phase, Closed, Kind, InCall
      <3>5. CASE Terminal(res)
        <4>1. OwnPartials(c)' = OwnPartials(c) /\ Answered(task_id[c])'
          BY <1>1, <2>1, <3>1, <3>5, SentView
        <4>2. UNCHANGED Partials
          BY <2>13, <3>3, <4>1 DEF Partials
        <4>3. Closed' = [Closed EXCEPT ![c] = TRUE]
          BY <2>13, <3>1, <3>3, <4>1 DEF Closed
        <4>4. CompletionService!DeliverLast(c)
          BY <2>14, <3>4, <4>2, <4>3 DEF CompletionService!DeliverLast
        <4> QED BY <2>12, <4>4 DEF CompletionService!Next
      <3>6. CASE ~Terminal(res)
        <4>1. /\ Cardinality(OwnPartials(c))' = Cardinality(OwnPartials(c)) + 1
              /\ Answered(task_id[c])' <=> Answered(task_id[c])
          BY <1>1, <2>1, <3>1, <3>6, SentView
        <4>2. UNCHANGED Closed
          BY <2>13, <3>3, <4>1 DEF Closed
        <4>3. Partials' = [Partials EXCEPT ![c] = @ + 1]
          BY <2>13, <3>1, <3>3, <4>1 DEF Partials
        <4>4. Kind[c] = "generate"
          BY <2>8, <3>1, <3>4, <3>6
        <4>5. CompletionService!DeliverPartial(c)
          BY <2>14, <3>4, <4>2, <4>3, <4>4 DEF CompletionService!DeliverPartial
        <4> QED BY <2>12, <4>5 DEF CompletionService!Next
      <3> QED BY <3>5, <3>6
    <2> QED BY <2>15, <2>16
  <1> QED BY <1>2, <1>3

(***************************************************************************)
(* Where the tasks go.                                                     *)
(***************************************************************************)
LEMMA MoveRule ==
  ASSUME NEW h, h = [p \in Places' |-> h[p]],
         \A p \in Places' : From(p, h[p]),
         \A p, q \in Places' : h[p] = h[q] => p = q
  PROVE  Moves(h)
  BY DEF Moves, From

SlotStays(k) == Working(slots'[k]) =>
                  /\ Working(slots[k]) /\ slots'[k].id_task = slots[k].id_task
                  /\ slots'[k].stream <=> slots[k].stream

\* A slot that stays keeps its place, and so does a deferred task.
LEMMA SamePlaces ==
  /\ \A k \in Slots : SlotStays(k) /\ OnSlot(k) \in Places' => From(OnSlot(k), OnSlot(k))
  /\ UNCHANGED queue_tasks_deferred =>
       \A i : InDeferred(i) \in Places' => From(InDeferred(i), InDeferred(i))
  <1>1. ASSUME NEW k \in Slots, SlotStays(k), OnSlot(k) \in Places'
        PROVE  From(OnSlot(k), OnSlot(k))
    BY <1>1, PlaceFacts, PlaceFactsNext DEF PlaceCases, SlotStays, From
  <1>2. ASSUME UNCHANGED queue_tasks_deferred, NEW i, InDeferred(i) \in Places'
        PROVE  From(InDeferred(i), InDeferred(i))
    BY <1>2, PlaceFacts, PlaceFactsNext DEF PlaceCases, From
  <1> QED BY <1>1, <1>2

LEMMA PlacesSlots ==
  /\ \A k : OnSlot(k) \in Places' => k \in Slots
  /\ \A p \in Places' : \E i : p = InQueue(i) \/ p = InDeferred(i) \/ p = OnSlot(i)
  BY PlaceFactsNext DEF PlaceCases

\* A queued task that is at another position after the step, or was deferred.
LEMMA QueueFrom ==
  ASSUME NEW i, InQueue(i) \in Places', NEW j
  PROVE  /\ i \in DOMAIN queue_tasks'
         /\ j \in DOMAIN queue_tasks /\ queue_tasks'[i] = queue_tasks[j] =>
              From(InQueue(i), InQueue(j))
         /\ j \in DOMAIN queue_tasks_deferred /\ queue_tasks'[i] = queue_tasks_deferred[j] =>
              From(InQueue(i), InDeferred(j))
  BY PlaceFacts, PlaceFactsNext DEF PlaceCases, From

\* Tasks stay where they are, or vanish.
Stay == [p \in Places' |-> p]

LEMMA Stays ==
  ASSUME \A k \in Slots : SlotStays(k), UNCHANGED queue_tasks_deferred,
         \A i \in DOMAIN queue_tasks' : queue_tasks'[i].type = "COMPLETION" =>
            i \in DOMAIN queue_tasks /\ queue_tasks'[i] = queue_tasks[i]
  PROVE  Moves(Stay)
  <1>1. \A i : InQueue(i) \in Places' =>
                 i \in DOMAIN queue_tasks' /\ queue_tasks'[i].type = "COMPLETION"
    BY PlaceFactsNext DEF PlaceCases
  <1>2. \A i : InQueue(i) \in Places' => From(InQueue(i), InQueue(i))
    BY <1>1, QueueFrom
  <1>3. \A p \in Places' : From(p, p)
    BY <1>2, SamePlaces, PlacesSlots
  <1> QED BY <1>3, MoveRule DEF Stay

\* The rest of the queue moves up when its head is popped; the head goes to the
\* place filled, if one is.
Popped(new) == [p \in Places' |->
                  IF p = new THEN InQueue(1)
                  ELSE IF p[1] = "queue" THEN InQueue(p[2] + 1) ELSE p]

LEMMA PopMoves ==
  ASSUME queue_tasks \in Seq(TaskType), queue_tasks # <<>>,
         queue_tasks' = Tail(queue_tasks), NEW new,
         \A i : new # InQueue(i),
         new \in Places' => From(new, InQueue(1)),
         \A i : InDeferred(i) \in Places' \ {new} => From(InDeferred(i), InDeferred(i)),
         \A k : OnSlot(k) \in Places' \ {new} => From(OnSlot(k), OnSlot(k))
  PROVE  Moves(Popped(new))
  <1> DEFINE h == Popped(new)
  <1>1. \A i : InQueue(i) \in Places' =>
               /\ i \in Nat \ {0} /\ h[InQueue(i)] = InQueue(i + 1)
               /\ From(InQueue(i), InQueue(i + 1))
    <2> TAKE i
    <2> HAVE InQueue(i) \in Places'
    <2>1. i \in DOMAIN queue_tasks'
      BY QueueFrom
    <2>2. i \in Nat \ {0} /\ i + 1 \in DOMAIN queue_tasks /\ queue_tasks'[i] = queue_tasks[i + 1]
      BY <2>1, TailLemma
    <2>3. h[InQueue(i)] = InQueue(i + 1)
      BY PlaceNames DEF Popped
    <2> QED BY <2>2, <2>3, QueueFrom
  <1>2. \A p \in Places' : (\E i : p = InDeferred(i) \/ p = OnSlot(i)) /\ p # new =>
           h[p] = p /\ From(p, p)
    BY PlaceNames DEF Popped
  <1>3. new \in Places' => h[new] = InQueue(1)
    BY DEF Popped
  <1>4. h = [p \in Places' |-> h[p]]
    BY DEF Popped
  <1> HIDE DEF h
  <1>5. \A p \in Places' : From(p, h[p])
    BY <1>1, <1>2, <1>3, PlacesSlots
  <1>6. ASSUME NEW p \in Places', NEW q \in Places', h[p] = h[q]
        PROVE  p = q
    <2>1. ASSUME NEW i, NEW j, p = InQueue(i), q = InQueue(j)
          PROVE  p = q
      <3>1. i + 1 = j + 1 /\ i \in Nat /\ j \in Nat
        BY <1>1, <1>6, <2>1, PlaceNames
      <3> QED BY <2>1, <3>1
    <2>2. ASSUME NEW r \in Places', NEW i, r = InQueue(i),
                 NEW t \in Places', \A j : t # InQueue(j)
          PROVE  h[r] # h[t]
      <3>1. h[r] = InQueue(i + 1) /\ i + 1 # 1
        BY <1>1, <2>2
      <3>2. h[t] = InQueue(1) \/ h[t] = t
        BY <1>2, <1>3, <2>2, PlacesSlots
      <3> QED BY <2>2, <3>1, <3>2, PlaceNames
    <2>3. ASSUME \A j : p # InQueue(j), \A j : q # InQueue(j)
          PROVE  p = q
      <3>1. /\ p # new => h[p] = p
            /\ q # new => h[q] = q
        BY <1>2, <2>3, PlacesSlots
      <3> QED BY <1>3, <1>6, <2>3, <3>1
    <2> QED BY <1>6, <2>1, <2>2, <2>3
  <1> QED BY <1>4, <1>5, <1>6, MoveRule DEF h

\* When a slot becomes idle the deferred tasks follow the queued ones.
Returned == [p \in Places' |->
               IF p[1] = "queue" /\ p[2] > Len(queue_tasks)
               THEN InDeferred(p[2] - Len(queue_tasks)) ELSE p]

LEMMA ReturnMoves ==
  ASSUME queue_tasks \in Seq(TaskType), queue_tasks_deferred \in Seq(CompletionTask),
         queue_tasks' = queue_tasks \o queue_tasks_deferred,
         queue_tasks_deferred' = <<>>, \A k \in Slots : SlotStays(k)
  PROVE  Moves(Returned)
  <1> DEFINE h == Returned
             n == Len(queue_tasks)
  <1>1. n \in Nat /\ DOMAIN queue_tasks = 1 .. n
    OBVIOUS
  <1>2. queue_tasks_deferred \in Seq(TaskType)
    <2>1. CompletionTask \subseteq TaskType
      BY DEF TaskType
    <2> QED BY <2>1, SeqMonotone
  <1>3. \A i : InQueue(i) \in Places' =>
          IF i > n THEN h[InQueue(i)] = InDeferred(i - n) ELSE h[InQueue(i)] = InQueue(i)
    BY PlaceNames DEF Returned
  <1>4. \A k : OnSlot(k) \in Places' => h[OnSlot(k)] = OnSlot(k)
    BY PlaceNames DEF Returned
  <1>5. \A i : InDeferred(i) \notin Places'
    <2>1. DOMAIN queue_tasks_deferred' = {}
      OBVIOUS
    <2> QED BY <2>1, PlaceFactsNext DEF PlaceCases
  <1>6. h = [p \in Places' |-> h[p]]
    BY DEF Returned
  <1> HIDE DEF h, n
  <1>7. \A i : InQueue(i) \in Places' => i \in Nat /\ From(InQueue(i), h[InQueue(i)])
    <2> TAKE i
    <2> HAVE InQueue(i) \in Places'
    <2>1. i \in DOMAIN queue_tasks'
      BY QueueFrom
    <2>2. \/ i \in DOMAIN queue_tasks /\ queue_tasks'[i] = queue_tasks[i]
          \/ /\ i - n \in DOMAIN queue_tasks_deferred
             /\ queue_tasks'[i] = queue_tasks_deferred[i - n]
      BY <1>2, <2>1, ConcatLemma DEF n
    <2>3. i \in Nat
      BY <1>2, <2>1, ConcatLemma
    <2>4. CASE i \in DOMAIN queue_tasks /\ queue_tasks'[i] = queue_tasks[i]
      <3>1. ~(i > n)
        BY <1>1, <2>4
      <3> QED BY <1>3, <2>3, <2>4, <3>1, QueueFrom
    <2>5. CASE /\ i - n \in DOMAIN queue_tasks_deferred
               /\ queue_tasks'[i] = queue_tasks_deferred[i - n]
      <3>1. i - n >= 1
        BY <2>5
      <3>2. i > n
        BY <1>1, <2>3, <3>1
      <3> QED BY <1>3, <2>3, <2>5, <3>2, QueueFrom
    <2> QED BY <2>2, <2>4, <2>5
  <1>8. \A k : OnSlot(k) \in Places' => From(OnSlot(k), h[OnSlot(k)])
    BY <1>4, SamePlaces, PlacesSlots
  <1>9. \A p \in Places' : From(p, h[p])
    BY <1>5, <1>7, <1>8, PlacesSlots
  <1>10. ASSUME NEW p \in Places', NEW q \in Places', h[p] = h[q]
        PROVE  p = q
    <2>1. ASSUME NEW i, NEW j, p = InQueue(i), q = InQueue(j)
          PROVE  p = q
      <3>1. i \in Nat /\ j \in Nat
        BY <1>7, <2>1
      <3>2. CASE i > n /\ j > n
        <4>0. InDeferred(i - n) = InDeferred(j - n)
          BY <1>3, <1>10, <2>1, <3>2
        <4>1. i - n = j - n
          BY <4>0 DEF InDeferred
        <4>2. i = j
          BY <1>1, <3>1, <4>1
        <4> QED BY <2>1, <4>2
      <3>3. CASE ~(i > n /\ j > n)
        BY SMTT(30), <1>3, <1>10, <2>1, <3>3, PlaceNames
      <3> QED BY <3>2, <3>3
    <2>2. ASSUME NEW i, NEW j, InQueue(i) \in Places', OnSlot(j) \in Places'
          PROVE  h[InQueue(i)] # h[OnSlot(j)]
      <3>1. h[InQueue(i)] = InDeferred(i - n) \/ h[InQueue(i)] = InQueue(i)
        BY <1>3, <2>2
      <3>2. h[OnSlot(j)] = OnSlot(j)
        BY <1>4, <2>2
      <3>3. InDeferred(i - n) # OnSlot(j) /\ InQueue(i) # OnSlot(j)
        BY DEF InDeferred, InQueue, OnSlot
      <3> QED BY <3>1, <3>2, <3>3
    <2>3. ASSUME NEW i, NEW j, p = OnSlot(i), q = OnSlot(j)
          PROVE  p = q
      BY <1>4, <1>10, <2>3
    <2> QED BY <1>5, <1>10, <2>1, <2>2, <2>3, PlacesSlots
  <1> QED BY <1>6, <1>9, <1>10, MoveRule DEF h

(***************************************************************************)
(* The steps of the loop thread, until a batch fails for good.             *)
(***************************************************************************)
LEMMA StreamKept ==
  ASSUME NEW s \in SlotRecord
  PROVE  /\ \A task : /\ Linked(s, task).state = s.state
                      /\ Linked(s, task).command = s.command
                      /\ Linked(s, task).id_task = task.id
                      /\ Linked(s, task).stream = (task.request.kind = "generate")
         /\ \A task, r : LET t == Launched(Linked(s, task), r) IN
              /\ t.state = s.state /\ t.command = "LOAD_PROMPT"
              /\ t.id_task = task.id /\ t.stream = (task.request.kind = "generate")
         /\ \A more : Sampled(s, more).stream = s.stream
         /\ \A t \in Tokenized(s) : t.stream = s.stream
         /\ \A m : LoadedPrompt(s, m).stream = s.stream
  <1>1. \A more : Sampled(s, more).stream = s.stream
    BY DEF SlotRecord, Sampled
  <1>2. \A t \in Tokenized(s) : t.stream = s.stream
    BY DEF SlotRecord, Tokenized
  <1>3. \A m : LoadedPrompt(s, m).stream = s.stream
    BY DEF SlotRecord, LoadedPrompt
  <1> QED BY <1>1, <1>2, <1>3 DEF SlotRecord, Linked, Launched

\* A step of which nothing is to be seen outside.
LEMMA QuietTurn ==
  ASSUME ServiceInv, LoopStep, UNCHANGED <<queue_results, queue_tasks_deferred>>,
         \A k \in Slots : SlotStays(k),
         \A i \in DOMAIN queue_tasks' : queue_tasks'[i].type = "COMPLETION" =>
            i \in DOMAIN queue_tasks /\ queue_tasks'[i] = queue_tasks[i]
  PROVE  ServiceInv' /\ [CompletionService!Next]_View
  <1>1. Moves(Stay)
    BY Stays
  <1> QED BY <1>1, LoopClients, SilentTurn

LEMMA SlotsStayPut ==
  ASSUME UNCHANGED slots
  PROVE  \A k \in Slots : SlotStays(k)
  BY DEF SlotStays

\* The task at the head of the queue.
LEMMA HeadPlace ==
  ASSUME TypeInv, Pop, Head(queue_tasks).type = "COMPLETION"
  PROVE  /\ Head(queue_tasks) \in CompletionTask
         /\ queue_tasks # <<>> /\ Head(queue_tasks) = queue_tasks[1]
         /\ InQueue(1) \in Places /\ TaskAt(InQueue(1)) = Head(queue_tasks).id
         /\ StreamAt(InQueue(1)) = (Head(queue_tasks).request.kind = "generate")
  <1>1. /\ queue_tasks # <<>> /\ Head(queue_tasks) = queue_tasks[1]
        /\ 1 \in DOMAIN queue_tasks /\ Head(queue_tasks) \in TaskType
    BY TailLemma DEF TypeInv, TypeOK, Pop
  <1>2. Head(queue_tasks) \in CompletionTask
    BY <1>1 DEF TaskType, CompletionTask
  <1> QED BY <1>1, <1>2, PlaceFacts DEF PlaceCases

LEMMA PopVacates ==
  ASSUME queue_tasks \in Seq(TaskType), queue_tasks # <<>>,
         queue_tasks' = Tail(queue_tasks), NEW k, OnSlot(k) \notin Places'
  PROVE  \A q \in Places' : Popped(OnSlot(k))[q] # InQueue(1)
  <1> SUFFICES ASSUME NEW q \in Places'
               PROVE  Popped(OnSlot(k))[q] # InQueue(1)
    OBVIOUS
  <1>1. ASSUME NEW i, q = InQueue(i)
        PROVE  Popped(OnSlot(k))[q] # InQueue(1)
    <2>1. i \in Nat \ {0}
      BY <1>1, QueueFrom, TailLemma
    <2>2. Popped(OnSlot(k))[q] = InQueue(i + 1)
      BY <1>1, PlaceNames DEF Popped
    <2>3. i + 1 # 1
      BY <2>1
    <2> QED BY <2>2, <2>3 DEF InQueue
  <1>2. ASSUME \A i : q # InQueue(i)
        PROVE  Popped(OnSlot(k))[q] # InQueue(1)
    BY <1>2, PlacesSlots, PlaceNames DEF Popped
  <1> QED BY <1>1, <1>2

LEMMA TurnLaunch ==
  ASSUME TypeInv, ServiceInv, LaunchTask
  PROVE  ServiceInv' /\ [CompletionService!Next]_View
  <1> DEFINE task == Head(queue_tasks)
  <1>1. /\ Pop /\ task.type = "COMPLETION" /\ queue_tasks' = Tail(queue_tasks)
        /\ UNCHANGED queue_tasks_deferred
    BY DEF LaunchTask
  <1>2. /\ queue_tasks \in Seq(TaskType) /\ slots \in [Slots -> SlotRecord]
        /\ UNCHANGED <<next_id, jpc, task_id, request>>
    BY LoopClients DEF TypeInv, TypeOK, LoopStep, ProcessTask
  <1>3. /\ task \in CompletionTask /\ queue_tasks # <<>>
        /\ InQueue(1) \in Places /\ TaskAt(InQueue(1)) = task.id
        /\ StreamAt(InQueue(1)) = (task.request.kind = "generate")
    BY <1>1, HeadPlace
  <1>4. PICK k \in Slots :
          LET s == Linked(slots[k], task) IN
          /\ Available(slots[k])
          /\ \/ slots' = [slots EXCEPT ![k] = s] /\ Send(ErrorFor(task.id))
             \/ slots' = [slots EXCEPT ![k] = Launched(s, task.request)]
                /\ UNCHANGED queue_results
    BY DEF LaunchTask, FreeFor
  <1> HIDE DEF task
  <1>5. slots[k] \in SlotRecord /\ slots[k].state = "IDLE" /\ slots[k].command = "NONE"
    BY <1>2, <1>4 DEF Available
  <1>6. \A m \in Slots : m # k => SlotStays(m)
    BY <1>2, <1>4 DEF SlotStays
  <1>7. ASSUME OnSlot(k) \in Places' => From(OnSlot(k), InQueue(1))
        PROVE  Moves(Popped(OnSlot(k)))
    <2>1. \A m : OnSlot(m) \in Places' \ {OnSlot(k)} => From(OnSlot(m), OnSlot(m))
      BY <1>6, PlacesSlots, SamePlaces
    <2>2. \A i : InDeferred(i) \in Places' \ {OnSlot(k)} => From(InDeferred(i), InDeferred(i))
      BY <1>1, SamePlaces
    <2>3. \A i : OnSlot(k) # InQueue(i)
      BY PlaceNames
    <2> QED BY <1>1, <1>2, <1>3, <1>7, <2>1, <2>2, <2>3, PopMoves
  <1>8. CASE slots' = [slots EXCEPT ![k] = Linked(slots[k], task)] /\ Send(ErrorFor(task.id))
    <2>1. slots'[k].state = "IDLE" /\ slots'[k].command = "NONE"
      BY <1>2, <1>5, <1>8, StreamKept
    <2>2. OnSlot(k) \notin Places'
      BY <2>1, PlaceFactsNext DEF PlaceCases, Working, Loading
    <2>3. Moves(Popped(OnSlot(k)))
      BY <1>7, <2>2
    <2>4. \A q \in Places' : Popped(OnSlot(k))[q] # InQueue(1)
      BY <1>1, <1>2, <1>3, <2>2, PopVacates
    <2>5. /\ ErrorFor(task.id) \in ResultType /\ ErrorFor(task.id).id = task.id
          /\ Terminal(ErrorFor(task.id))
      <3>1. task.id \in Int
        BY <1>3 DEF CompletionTask
      <3> QED BY <3>1, ResultsAreTyped DEF ErrorFor, Terminal
    <2> QED BY <1>2, <1>3, <1>8, <2>3, <2>4, <2>5, SendTurn
  <1>9. CASE /\ slots' = [slots EXCEPT ![k] = Launched(Linked(slots[k], task), task.request)]
             /\ UNCHANGED queue_results
    <2>1. /\ slots'[k].id_task = task.id
          /\ slots'[k].stream = (task.request.kind = "generate")
      BY <1>2, <1>5, <1>9, StreamKept
    <2>2. From(OnSlot(k), InQueue(1))
      BY <1>3, <2>1, PlaceFactsNext DEF PlaceCases, From
    <2>3. Moves(Popped(OnSlot(k)))
      BY <1>7, <2>2
    <2> QED BY <1>2, <1>9, <2>3, SilentTurn
  <1> QED BY <1>4, <1>8, <1>9

LEMMA TurnDefer ==
  ASSUME TypeInv, ServiceInv, DeferTask
  PROVE  ServiceInv' /\ [CompletionService!Next]_View
  <1> DEFINE task == Head(queue_tasks)
             new  == InDeferred(Len(queue_tasks_deferred) + 1)
  <1>1. /\ Pop /\ task.type = "COMPLETION" /\ queue_tasks' = Tail(queue_tasks)
        /\ queue_tasks_deferred' = Append(queue_tasks_deferred, task)
        /\ UNCHANGED <<slots, queue_results>>
    BY DEF DeferTask, resultVars, loopVars
  <1>2. /\ queue_tasks \in Seq(TaskType) /\ queue_tasks_deferred \in Seq(CompletionTask)
        /\ UNCHANGED <<next_id, jpc, task_id, request>>
    BY LoopClients DEF TypeInv, TypeOK, LoopStep, ProcessTask
  <1>3. /\ task \in CompletionTask /\ queue_tasks # <<>>
        /\ InQueue(1) \in Places /\ TaskAt(InQueue(1)) = task.id
        /\ StreamAt(InQueue(1)) = (task.request.kind = "generate")
    BY <1>1, HeadPlace
  <1> HIDE DEF task
  <1>4. /\ queue_tasks_deferred'[Len(queue_tasks_deferred) + 1] = task
        /\ \A i \in DOMAIN queue_tasks_deferred' : i # Len(queue_tasks_deferred) + 1 =>
              /\ i \in DOMAIN queue_tasks_deferred
              /\ queue_tasks_deferred'[i] = queue_tasks_deferred[i]
    BY <1>1, <1>2, <1>3
  <1>5. From(new, InQueue(1))
    <2>1. \A i : queue_tasks_deferred'[i] = task => From(InDeferred(i), InQueue(1))
      BY <1>3, PlaceFactsNext DEF PlaceCases, From
    <2> QED BY <1>4, <2>1
  <1>6. \A i : InDeferred(i) \in Places' \ {new} => From(InDeferred(i), InDeferred(i))
    BY <1>4, PlaceFacts, PlaceFactsNext DEF PlaceCases, From
  <1>7. \A m : OnSlot(m) \in Places' \ {new} => From(OnSlot(m), OnSlot(m))
    BY <1>1, SlotsStayPut, SamePlaces, PlacesSlots
  <1>8. \A i : new # InQueue(i)
    BY DEF InDeferred, InQueue
  <1> HIDE DEF new
  <1>9. Moves(Popped(new))
    BY <1>1, <1>2, <1>3, <1>5, <1>6, <1>7, <1>8, PopMoves
  <1> QED BY <1>1, <1>2, <1>9, SilentTurn

LEMMA TurnDrop ==
  ASSUME TypeInv, ServiceInv, CancelTask \/ SkipNextResponse
  PROVE  ServiceInv' /\ [CompletionService!Next]_View
  <1>1. /\ Pop /\ queue_tasks' = Tail(queue_tasks)
        /\ UNCHANGED <<queue_tasks_deferred, queue_results>>
    BY DEF CancelTask, SkipNextResponse, resultVars
  <1>2. /\ queue_tasks \in Seq(TaskType) /\ queue_tasks # <<>>
        /\ slots \in [Slots -> SlotRecord] /\ UNCHANGED <<next_id, jpc, task_id, request>>
    BY <1>1, LoopClients DEF TypeInv, TypeOK, LoopStep, ProcessTask, Pop
  <1>3. \A k \in Slots : SlotStays(k)
    <2>1. \A k \in Slots : slots'[k] = Released(slots[k]) \/ slots'[k] = slots[k]
      BY DEF CancelTask, SkipNextResponse, loopVars
    <2>2. \A s \in SlotRecord : Working(Released(s)) => Released(s) = s
      BY DEF Working, Loading, Released, SlotRecord
    <2> QED BY <1>2, <2>1, <2>2 DEF SlotStays
  <1>4. OnSlot(-1) \notin Places'
    <2>1. -1 \notin Slots
      BY SlotsAssumption DEF Slots
    <2> QED BY <2>1, PlacesSlots
  <1>5. \A i : OnSlot(-1) # InQueue(i)
    BY DEF OnSlot, InQueue
  <1>6. \A i : InDeferred(i) \in Places' => From(InDeferred(i), InDeferred(i))
    BY <1>1, SamePlaces
  <1>7. \A m : OnSlot(m) \in Places' => From(OnSlot(m), OnSlot(m))
    BY <1>3, SamePlaces, PlacesSlots
  <1>8. Moves(Popped(OnSlot(-1)))
    <2> DEFINE new == OnSlot(-1)
    <2>1. new \notin Places' /\ \A i : new # InQueue(i)
      BY <1>4, <1>5
    <2> HIDE DEF new
    <2>2. Moves(Popped(new))
      BY <1>1, <1>2, <1>6, <1>7, <2>1, PopMoves
    <2> QED BY <2>2 DEF new
  <1> QED BY <1>1, <1>2, <1>8, SilentTurn

LEMMA TurnControl ==
  ASSUME TypeInv, ServiceInv,
         BeginUpdate \/ AllIdle \/ PostNextResponse \/ NothingToLoad \/ EndDecode
           \/ Decode \/ NextChunk \/ WaitForTask \/ ClockAdvances
  PROVE  ServiceInv' /\ [CompletionService!Next]_View
  <1>1. UNCHANGED <<queue_results, queue_tasks_deferred, slots>> /\ LoopStep
    BY DEF BeginUpdate, AllIdle, PostNextResponse, NothingToLoad, EndDecode, Decode,
       NextChunk, WaitForTask, ClockAdvances, queueVars, resultVars, LoopStep,
       BatchPrompts, DecodeBatch
  <1>2. UNCHANGED queue_tasks \/ Post(NextResponse)
    BY DEF BeginUpdate, AllIdle, PostNextResponse, NothingToLoad, EndDecode, Decode,
       NextChunk, WaitForTask, ClockAdvances, queueVars
  <1>3. \A i \in DOMAIN queue_tasks' : queue_tasks'[i].type = "COMPLETION" =>
            i \in DOMAIN queue_tasks /\ queue_tasks'[i] = queue_tasks[i]
    <2>1. CASE Post(NextResponse)
      <3>1. NextResponse \in TaskType /\ NextResponse.type # "COMPLETION"
        BY DEF NextResponse, TaskType
      <3> HIDE DEF NextResponse
      <3>2. queue_tasks \in Seq(TaskType)
        BY DEF TypeInv, TypeOK
      <3> QED BY <2>1, <3>1, <3>2, PostKeeps
    <2> QED BY <1>2, <2>1
  <1> QED BY <1>1, <1>3, SlotsStayPut, QuietTurn

LEMMA TurnSlots ==
  ASSUME IndexInv, ServiceInv, AddSampledTokens \/ PostponePrompt \/ LoadPrompt
  PROVE  ServiceInv' /\ [CompletionService!Next]_View
  <1>1. UNCHANGED <<queue_results, queue_tasks_deferred, queue_tasks>> /\ LoopStep
    BY DEF AddSampledTokens, PostponePrompt, LoadPrompt, queueVars, resultVars,
       LoopStep, BatchPrompts
  <1>2. TypeInv /\ slots \in [Slots -> SlotRecord]
    BY DEF IndexInv, BatchInv, TypeInv, TypeOK
  <1>3. ASSUME NEW k \in Slots, NEW s, slots' = [slots EXCEPT ![k] = s],
               Working(slots[k]), s.id_task = slots[k].id_task,
               s.stream = slots[k].stream
        PROVE  \A m \in Slots : SlotStays(m)
    BY <1>2, <1>3 DEF SlotStays
  <1>4. CASE AddSampledTokens
    <2>1. \A s \in SlotRecord : \A n : LET r == [s EXCEPT !.i_batch = n, !.n_past = @ + 1] IN
            SameTask(r, s) /\ r.stream = s.stream
      BY DEF SlotRecord, SameTask
    <2>2. \A k \in Slots : SameTask(slots'[k], slots[k]) /\ slots'[k].stream = slots[k].stream
      <3> TAKE k \in Slots
      <3> DEFINE r(n) == [slots[k] EXCEPT !.i_batch = n, !.n_past = @ + 1]
      <3>1. slots'[k] = slots[k] \/ \E n : slots'[k] = r(n)
        BY <1>4 DEF AddSampledTokens
      <3>2. \A n : SameTask(r(n), slots[k]) /\ r(n).stream = slots[k].stream
        BY <1>2, <2>1
      <3> HIDE DEF r
      <3> QED BY <3>1, <3>2 DEF SameTask
    <2>3. \A k \in Slots : SlotStays(k)
      BY <2>2 DEF SlotStays, SameTask, Working, Loading
    <2> QED BY <1>1, <2>3, QuietTurn
  <1>5. CASE PostponePrompt
    <2>1. cur \in Slots /\ MayLoad(slots[cur])
      BY <1>2, <1>5 DEF PostponePrompt, TypeInv, TypeOK
    <2>2. PICK s \in Tokenized(slots[cur]) : slots' = [slots EXCEPT ![cur] = s]
      BY <1>5 DEF PostponePrompt
    <2>3. SameTask(s, slots[cur]) /\ s.stream = slots[cur].stream
      BY <1>2, <2>1, <2>2, TokenizedType, StreamKept DEF TypeInv, PromptLeft, MayLoad
    <2>4. \A m \in Slots : SlotStays(m)
      BY <1>3, <2>1, <2>2, <2>3 DEF SameTask, MayLoad, Working
    <2> QED BY <1>1, <2>4, QuietTurn
  <1>6. CASE LoadPrompt
    <2>1. cur \in Slots /\ MayLoad(slots[cur])
      BY <1>2, <1>6 DEF LoadPrompt, TypeInv, TypeOK
    <2>2. PICK s \in Tokenized(slots[cur]) :
            slots' = [slots EXCEPT ![cur] = LoadedPrompt(s, Taken(s))]
      BY <1>6 DEF LoadPrompt
    <2>3. /\ s \in SlotRecord /\ s.n_past < s.n_prompt
          /\ SameTask(s, slots[cur]) /\ s.stream = slots[cur].stream
      BY <1>2, <2>1, <2>2, TokenizedType, StreamKept DEF TypeInv, PromptLeft, MayLoad
    <2>4. Loading(s)
      BY <2>1, <2>3 DEF MayLoad, Loading, SameTask
    <2>5. Taken(s) \in Nat /\ s.n_past + Taken(s) <= s.n_prompt
      BY <1>2, <2>3, TakenType DEF TypeInv
    <2> DEFINE r == LoadedPrompt(s, Taken(s))
    <2>6. r.id_task = s.id_task
      BY <1>2, <2>3, <2>4, <2>5, LoadedType DEF TypeInv
    <2>7. r.stream = s.stream
      BY <2>3, StreamKept
    <2>8. slots' = [slots EXCEPT ![cur] = r]
      BY <2>2
    <2> HIDE DEF r
    <2>9. \A m \in Slots : SlotStays(m)
      BY <1>3, <2>1, <2>3, <2>6, <2>7, <2>8 DEF SameTask, MayLoad, Working
    <2> QED BY <1>1, <2>9, QuietTurn
  <1> QED BY <1>4, <1>5, <1>6

LEMMA TurnRelease ==
  ASSUME TypeInv, ServiceInv, ReleaseSlots
  PROVE  ServiceInv' /\ [CompletionService!Next]_View
  <1>1. /\ queue_tasks \in Seq(TaskType) /\ queue_tasks_deferred \in Seq(CompletionTask)
        /\ UNCHANGED <<next_id, jpc, task_id, request, queue_results>> /\ LoopStep
    BY LoopClients DEF TypeInv, TypeOK, LoopStep, ReleaseSlots, resultVars
  <1>2. \A k \in Slots : SlotStays(k)
    <2>1. \A k \in Slots : slots[k] \in SlotRecord
      BY DEF TypeInv, TypeOK
    <2>2. \A s \in SlotRecord :
            ~Working([s EXCEPT !.state = "IDLE", !.command = "NONE"])
      BY DEF SlotRecord, Working, Loading
    <2>3. \A k \in Slots : \/ slots'[k] = slots[k]
                           \/ slots'[k] = [slots[k] EXCEPT !.state = "IDLE", !.command = "NONE"]
      BY DEF ReleaseSlots
    <2> TAKE k \in Slots
    <2>4. ~Working([slots[k] EXCEPT !.state = "IDLE", !.command = "NONE"])
      BY <2>1, <2>2
    <2> QED BY <2>3, <2>4 DEF SlotStays
  <1>3. CASE UNCHANGED <<queue_tasks, queue_tasks_deferred>>
    BY <1>1, <1>2, <1>3, QuietTurn
  <1>4. CASE NotifySlotChanged
    <2>1. Moves(Returned)
      BY <1>1, <1>2, <1>4, ReturnMoves DEF NotifySlotChanged
    <2> QED BY <1>1, <2>1, SilentTurn
  <1> QED BY <1>3, <1>4 DEF ReleaseSlots

\* The slot that answers was at work, so that its place is given up.
LEMMA TurnAnswer ==
  ASSUME IndexInv, LogitsInv, FinishGenerates, ServiceInv, AnswerStep, pc # "fail"
  PROVE  ServiceInv' /\ [CompletionService!Next]_View
  <1>1. /\ TypeInv /\ slots \in [Slots -> SlotRecord]
        /\ UNCHANGED <<next_id, jpc, task_id, request>>
        /\ UNCHANGED <<queue_tasks, queue_tasks_deferred>>
    BY LoopClients DEF IndexInv, BatchInv, TypeInv, TypeOK, AnswerStep, LoopStep,
       BatchPrompts, DecodeBatch, EmptyPrompt, TooLargeToEmbed, FailSlot, SendEmbedding,
       FinishSlot, queueVars
  <1>2. PICK k \in Slots, s \in SlotRecord, res \in ResultType :
          /\ slots' = [slots EXCEPT ![k] = s]
          /\ s.state = "PROCESSING" /\ s.command = "RELEASE"
          /\ res.id = slots[k].id_task /\ Terminal(res) /\ Send(res)
          /\ \/ FailSlot \/ Loading(slots[k]) \/ FirstHit(k)
             \/ pc = "finish" /\ k = cur
    BY <1>1, AnswerLemma
  <1>3. Working(slots[k])
    <2>1. CASE FirstHit(k)
      <3>1. Held(k)
        <4>1. slots[k].i_batch \in i_chunk .. ChunkEnd - 1
          BY <2>1 DEF FirstHit, Hits
        <4> QED BY <4>1, ChunkEndType DEF Held, IndexInv, BatchInv, TypeInv
      <3> QED BY <3>1 DEF LogitsInv, NoneStale, Generating, Working
    <2>2. CASE pc = "finish" /\ k = cur
      BY <2>2 DEF FinishGenerates, Generating, Working
    <2> QED BY <1>2, <2>1, <2>2 DEF FailSlot, Working
  <1>4. \A m \in Slots : SlotStays(m)
    BY <1>1, <1>2 DEF SlotStays, Working, Loading
  <1>5. Moves(Stay)
    BY <1>1, <1>4, Stays
  <1>6. OnSlot(k) \in Places /\ TaskAt(OnSlot(k)) = res.id /\ OnSlot(k) \notin Places'
    BY <1>1, <1>2, <1>3, PlaceFacts, PlaceFactsNext DEF PlaceCases, Working, Loading
  <1>7. \A q \in Places' : Stay[q] # OnSlot(k)
    BY <1>6 DEF Stay
  <1> DEFINE p == OnSlot(k)
  <1>8. p \in Places /\ TaskAt(p) = res.id /\ \A q \in Places' : Stay[q] # p
    BY <1>6, <1>7
  <1> HIDE DEF p
  <1> QED BY <1>1, <1>2, <1>5, <1>8, SendTurn

LEMMA TurnSample ==
  ASSUME IndexInv, LogitsInv, ServiceInv, SampleToken
  PROVE  ServiceInv' /\ [CompletionService!Next]_View
  <1>1. /\ TypeInv /\ slots \in [Slots -> SlotRecord] /\ LoopStep
        /\ UNCHANGED <<next_id, jpc, task_id, request>>
        /\ UNCHANGED <<queue_tasks, queue_tasks_deferred>>
    BY LoopClients DEF IndexInv, BatchInv, TypeInv, TypeOK, LoopStep, DecodeBatch,
       SampleToken, queueVars
  <1>2. PICK k \in Slots, sent \in BOOLEAN, more \in BOOLEAN :
          /\ FirstHit(k) /\ (sent => slots[k].stream)
          /\ IF sent THEN Send(Partial(slots[k].id_task)) ELSE UNCHANGED queue_results
          /\ slots' = [slots EXCEPT ![k] = Sampled(slots[k], more)]
    BY DEF SampleToken
  <1>3. Working(slots[k])
    <2>1. slots[k].i_batch \in i_chunk .. ChunkEnd - 1
      BY <1>2 DEF FirstHit, Hits
    <2>2. Held(k)
      BY <2>1, ChunkEndType DEF Held, IndexInv, BatchInv, TypeInv
    <2> QED BY <2>2 DEF LogitsInv, NoneStale, Generating, Working
  <1>4. \A m \in Slots : SlotStays(m)
    <2>1. SameTask(Sampled(slots[k], more), slots[k])
            /\ Sampled(slots[k], more).stream = slots[k].stream
      BY <1>1, SampledType, StreamKept
    <2> QED BY <1>1, <1>2, <1>3, <2>1 DEF SlotStays, SameTask
  <1>5. Moves(Stay)
    BY <1>1, <1>4, Stays
  <1>6. CASE ~sent
    <2>1. UNCHANGED queue_results
      BY <1>2, <1>6
    <2> QED BY <1>1, <1>5, <2>1, SilentTurn
  <1>7. CASE sent
    <2> DEFINE p == OnSlot(k)
               res == Partial(slots[k].id_task)
    <2>1. p \in Places /\ TaskAt(p) = slots[k].id_task /\ (StreamAt(p) <=> slots[k].stream)
      BY <1>3, PlaceFacts DEF PlaceCases
    <2>2. /\ res \in ResultType /\ res.id = slots[k].id_task /\ ~Terminal(res)
          /\ Send(res) /\ slots[k].stream
      <3>1. slots[k].id_task \in Int
        BY <1>1 DEF SlotRecord
      <3> QED BY <1>2, <1>7, <3>1, ResultsAreTyped DEF Partial, Terminal
    <2> HIDE DEF p, res
    <2> QED BY <1>1, <1>5, <2>1, <2>2, SendTurn
  <1> QED BY <1>6, <1>7

LEMMA LoopTurn ==
  ASSUME IndexInv, LogitsInv, FinishGenerates, ServiceInv, pc # "fail", LoopStep
  PROVE  ServiceInv' /\ [CompletionService!Next]_View
  <1>1. TypeInv
    BY DEF IndexInv, BatchInv
  <1> QED BY <1>1, TurnLaunch, TurnDefer, TurnDrop, TurnControl, TurnSlots, TurnRelease,
             TurnAnswer, TurnSample
          DEF LoopStep, ProcessTask, BatchPrompts, DecodeBatch, AnswerStep

(***************************************************************************)
(* The steps of a Java thread.                                             *)
(***************************************************************************)
LEMMA ClientPlaces ==
  ASSUME TypeInv, NEW c \in Clients,
         GetNewId(c) \/ AddWaiting(c) \/ CallNext(c) \/ Recv(c) \/ RemoveWaiting(c)
           \/ PostCancel(c)
  PROVE  /\ \A p \in Places' : From(p, p)
         /\ \A t : Pending(t)' => Pending(t)
  <1>1. UNCHANGED <<queue_tasks_deferred, slots>>
    BY DEF GetNewId, AddWaiting, CallNext, Recv, RemoveWaiting, PostCancel, queueVars, loopVars
  <1>2. \A i \in DOMAIN queue_tasks' : queue_tasks'[i].type = "COMPLETION" =>
            i \in DOMAIN queue_tasks /\ queue_tasks'[i] = queue_tasks[i]
    <2>1. CASE PostCancel(c)
      <3>1. Cancel(task_id[c]) \in TaskType
        BY <2>1 DEF PostCancel, TypeInv, IssuedIds, TaskIds, TypeOK, Cancel, TaskType
      <3>2. PICK task \in TaskType : Post(task) /\ task.type # "COMPLETION"
        BY <2>1, <3>1 DEF PostCancel, Cancel
      <3>3. queue_tasks \in Seq(TaskType)
        BY DEF TypeInv, TypeOK
      <3> QED BY <3>2, <3>3, PostKeeps
    <2>2. CASE ~PostCancel(c)
      <3>1. UNCHANGED queue_tasks
        BY <2>2 DEF GetNewId, AddWaiting, CallNext, Recv, RemoveWaiting, queueVars
      <3> QED BY <3>1
    <2> QED BY <2>1, <2>2
  <1>3. Moves(Stay)
    BY <1>1, <1>2, SlotsStayPut, Stays
  <1>4. \A p \in Places' : From(p, p)
    BY <1>3 DEF Moves, Stay
  <1> QED BY <1>4, PendingPlace, PendingPlaceNext DEF From

\* Going on from one line of the native call to the next, with nothing
\* received.
LEMMA ClientGoes ==
  ASSUME TypeInv, ServiceInv, NEW c \in Clients, NEW to,
         \A p \in Places' : From(p, p), \A t : Pending(t)' => Pending(t),
         UNCHANGED <<next_id, queue_results, task_id, request>>,
         jpc' = [jpc EXCEPT ![c] = to], jpc[c] # "idle",
         to \in {"add", "post"} => jpc[c] \in {"add", "post"},
         to \in {"iter", "recv"} => InCall(c)
  PROVE  /\ ServiceInv'
         /\ \A d \in Clients : OwnPartials(d)' = OwnPartials(d)
         /\ \A d \in Clients : Answered(task_id[d])' <=> Answered(task_id[d])
  <1>1. /\ jpc \in [Clients -> ClientPcs] /\ jpc'[c] = to
        /\ \A d \in Clients : d # c => jpc'[d] = jpc[d]
    BY DEF TypeInv, TypeOK
  <1>2. TaskIds' = TaskIds
    BY DEF TaskIds
  <1>3. OnePlace' /\ PlacesIssued' /\ ResultsIssued'
    BY <1>2 DEF ServiceInv, OnePlace, PlacesIssued, ResultsIssued, From
  <1>4. OwnIds'
    BY <1>1 DEF ServiceInv, OwnIds
  <1>5. NotPosted'
    BY <1>1 DEF ServiceInv, NotPosted
  <1>6. \A d \in Clients : InCall(d)' => InCall(d)
    BY <1>1 DEF InCall
  <1>7. RequestKept'
    BY <1>6 DEF ServiceInv, RequestKept, From
  <1>8. \A d \in Clients : OwnPartials(d)' = OwnPartials(d)
    BY DEF OwnPartials
  <1>9. PartialsAsked'
    BY <1>6, <1>8 DEF ServiceInv, PartialsAsked
  <1>10. Once'
    BY DEF ServiceInv, Once
  <1>11. \A d \in Clients : Answered(task_id[d])' <=> Answered(task_id[d])
    BY DEF Answered
  <1> QED BY <1>3, <1>4, <1>5, <1>7, <1>8, <1>9, <1>10, <1>11 DEF ServiceInv

LEMMA TurnGetNewId ==
  ASSUME TypeInv, ServiceInv, NEW c \in Clients, GetNewId(c)
  PROVE  ServiceInv' /\ [CompletionService!Next]_View
  <1>1. PICK r \in Requests :
          /\ request' = [request EXCEPT ![c] = r] /\ jpc[c] = "idle"
          /\ jpc' = [jpc EXCEPT ![c] = "add"]
          /\ task_id' = [task_id EXCEPT ![c] = next_id] /\ next_id' = next_id + 1
          /\ UNCHANGED queue_results
    BY DEF GetNewId, Go, resultVars
  <1>2. /\ jpc \in [Clients -> ClientPcs] /\ task_id \in [Clients -> Int]
        /\ request \in [Clients -> RequestType] /\ next_id \in Nat
        /\ \A d \in Clients : jpc[d] # "idle" => task_id[d] \in TaskIds
    BY DEF TypeInv, TypeOK, IssuedIds
  <1>3. /\ jpc'[c] = "add" /\ task_id'[c] = next_id /\ request'[c] = r
        /\ \A d \in Clients : d # c => /\ jpc'[d] = jpc[d] /\ task_id'[d] = task_id[d]
                                       /\ request'[d] = request[d]
    BY <1>1, <1>2
  <1>4. TaskIds \subseteq TaskIds' /\ next_id \notin TaskIds
    BY <1>1, <1>2 DEF TaskIds
  <1>5. (\A p \in Places' : From(p, p)) /\ \A t : Pending(t)' => Pending(t)
    BY ClientPlaces
  <1>6. OnePlace' /\ PlacesIssued' /\ ResultsIssued'
    BY <1>1, <1>4, <1>5 DEF ServiceInv, OnePlace, PlacesIssued, ResultsIssued, From
  <1>7. OwnIds'
    BY <1>2, <1>3, <1>4 DEF ServiceInv, OwnIds
  <1>8. /\ ~Pending(next_id)
        /\ \A i \in DOMAIN queue_results : queue_results[i].id # next_id
    BY <1>4, PendingPlace DEF ServiceInv, PlacesIssued, ResultsIssued
  <1>9. NotPosted'
    <2> SUFFICES ASSUME NEW d \in Clients, jpc'[d] \in {"add", "post"},
                        NEW t, t = task_id'[d]
                 PROVE  /\ ~Pending(t)'
                        /\ \A i \in DOMAIN queue_results' : queue_results'[i].id # t
      BY DEF NotPosted
    <2>1. CASE d = c
      BY <1>1, <1>3, <1>5, <1>8, <2>1
    <2>2. CASE d # c
      BY <1>1, <1>3, <1>5, <2>2 DEF ServiceInv, NotPosted
    <2> QED BY <2>1, <2>2
  <1>10. \A d \in Clients : /\ InCall(d)' <=> InCall(d)
                            /\ InCall(d) => d # c
    BY <1>1, <1>3 DEF InCall
  <1>11. RequestKept'
    BY <1>3, <1>5, <1>10 DEF ServiceInv, RequestKept, From
  <1>12. \A d \in Clients : InCall(d) =>
           /\ OwnPartials(d)' = OwnPartials(d)
           /\ Answered(task_id[d])' <=> Answered(task_id[d])
    BY <1>1, <1>3, <1>10 DEF OwnPartials, Answered
  <1>13. PartialsAsked'
    BY <1>3, <1>10, <1>12 DEF ServiceInv, PartialsAsked
  <1>14. Once'
    BY <1>1, <1>5 DEF ServiceInv, Once
  <1>15. Phase[c] = "idle" /\ r.kind \in Kinds
    BY <1>1, RequestAssumption DEF Phase, InCall, RequestType
  <1>16. UNCHANGED <<Phase, Partials, Closed>>
    BY <1>3, <1>10, <1>12 DEF Phase, Partials, Closed
  <1>17. Kind' = [Kind EXCEPT ![c] = r.kind]
    BY <1>3 DEF Kind
  <1>18. CompletionService!Prepare(c)
    BY <1>15, <1>16, <1>17 DEF CompletionService!Prepare
  <1> QED
    BY <1>6, <1>7, <1>9, <1>11, <1>13, <1>14, <1>18 DEF ServiceInv, CompletionService!Next

\* Waiting, giving up waiting, calling next() and cancelling.
LEMMA TurnGo ==
  ASSUME TypeInv, ServiceInv, NEW c \in Clients,
         AddWaiting(c) \/ RemoveWaiting(c) \/ CallNext(c) \/ PostCancel(c)
  PROVE  ServiceInv' /\ [CompletionService!Next]_View
  <1>1. PICK to : /\ jpc' = [jpc EXCEPT ![c] = to]
                  /\ \/ AddWaiting(c) /\ jpc[c] = "add" /\ to = "post"
                     \/ RemoveWaiting(c) /\ jpc[c] = "remove" /\ to = "idle"
                     \/ CallNext(c) /\ jpc[c] = "iter" /\ to = "recv"
                     \/ PostCancel(c) /\ jpc[c] = "iter" /\ to = "remove"
    BY DEF AddWaiting, RemoveWaiting, CallNext, PostCancel, Go
  <1>2. UNCHANGED <<next_id, queue_results, task_id, request>>
    BY DEF AddWaiting, RemoveWaiting, CallNext, PostCancel, queueVars, resultVars
  <1>3. (\A p \in Places' : From(p, p)) /\ \A t : Pending(t)' => Pending(t)
    BY ClientPlaces
  <1>4. /\ jpc \in [Clients -> ClientPcs] /\ jpc'[c] = to
        /\ \A d \in Clients : d # c => jpc'[d] = jpc[d]
    BY <1>1 DEF TypeInv, TypeOK
  <1>5. /\ ServiceInv'
        /\ \A d \in Clients : OwnPartials(d)' = OwnPartials(d)
        /\ \A d \in Clients : Answered(task_id[d])' <=> Answered(task_id[d])
    <2>1. /\ jpc[c] # "idle"
          /\ to \in {"add", "post"} => jpc[c] \in {"add", "post"}
          /\ to \in {"iter", "recv"} => InCall(c)
      BY <1>1 DEF InCall
    <2> QED BY <1>1, <1>2, <1>3, <2>1, ClientGoes
  <1>6. UNCHANGED Kind /\ \A d \in Clients : d # c => (InCall(d)' <=> InCall(d))
    BY <1>2, <1>4 DEF Kind, InCall
  <1>7. CASE to \in {"post", "idle"}
    <2>1. \A d \in Clients : InCall(d)' <=> InCall(d)
      BY <1>1, <1>4, <1>6, <1>7 DEF InCall
    <2>2. UNCHANGED <<Phase, Partials, Closed>>
      BY <1>1, <1>4, <1>5, <1>7, <2>1 DEF Phase, Partials, Closed, InCall
    <2> QED BY <1>5, <1>6, <2>2 DEF View
  <1>8. CASE to = "recv"
    <2>1. \A d \in Clients : InCall(d)' <=> InCall(d)
      BY <1>1, <1>4, <1>6, <1>8 DEF InCall
    <2>2. UNCHANGED <<Partials, Closed>>
      BY <1>5, <2>1 DEF Partials, Closed
    <2>3. Phase[c] = "iter" /\ Phase' = [Phase EXCEPT ![c] = "recv"]
      BY <1>1, <1>4, <1>8, <2>1 DEF Phase, InCall
    <2>4. CompletionService!CallNext(c)
      BY <1>6, <2>2, <2>3 DEF CompletionService!CallNext
    <2> QED BY <1>5, <2>4 DEF CompletionService!Next
  <1>9. CASE to = "remove"
    <2>1. InCall(c) /\ ~InCall(c)' /\ jpc[c] = "iter"
      BY <1>1, <1>4, <1>9 DEF InCall
    <2>2. Phase[c] = "iter" /\ Phase' = [Phase EXCEPT ![c] = "idle"]
      BY <1>4, <1>6, <2>1 DEF Phase
    <2>3. Partials' = [Partials EXCEPT ![c] = 0]
      BY <1>5, <1>6, <2>1 DEF Partials
    <2>4. Closed' = [Closed EXCEPT ![c] = FALSE]
      BY <1>5, <1>6, <2>1 DEF Closed
    <2>5. CompletionService!Abandon(c)
      BY <1>6, <2>2, <2>3, <2>4 DEF CompletionService!Abandon
    <2> QED BY <1>5, <2>5 DEF CompletionService!Next
  <1> QED BY <1>1, <1>7, <1>8, <1>9

\* The new task takes a place of its own.
LEMMA TurnPost ==
  ASSUME TypeInv, ServiceInv, NEW c \in Clients, PostCompletion(c)
  PROVE  ServiceInv' /\ [CompletionService!Next]_View
  <1> DEFINE to  == IF request[c].kind = "generate" THEN "iter" ELSE "recv"
             id  == task_id[c]
  <1>0. PICK n, new : n = Len(queue_tasks) + 1 /\ new = InQueue(n)
    OBVIOUS
  <1>1. /\ jpc[c] = "post" /\ jpc' = [jpc EXCEPT ![c] = to]
        /\ queue_tasks' = Append(queue_tasks, Completion(id, request[c]))
        /\ UNCHANGED <<next_id, queue_tasks_deferred, queue_results, slots, task_id, request>>
    BY DEF PostCompletion, Post, Go, resultVars, loopVars
  <1>2. /\ jpc \in [Clients -> ClientPcs] /\ jpc'[c] = to /\ to \in {"iter", "recv"}
        /\ \A d \in Clients : d # c => jpc'[d] = jpc[d]
        /\ queue_tasks \in Seq(TaskType) /\ id \in TaskIds
    BY <1>1 DEF TypeInv, TypeOK, IssuedIds
  <1>3. Completion(id, request[c]) \in TaskType
    BY <1>1, ClientTasks DEF TypeInv
  <1>4. /\ queue_tasks'[n] = Completion(id, request[c])
        /\ \A i \in DOMAIN queue_tasks' : i # n =>
              i \in DOMAIN queue_tasks /\ queue_tasks'[i] = queue_tasks[i]
    BY <1>0, <1>1, <1>2, <1>3
  <1>5. TaskAt(new)' = id /\ (StreamAt(new)' <=> request[c].kind = "generate")
    <2>1. /\ queue_tasks'[n].id = id
          /\ queue_tasks'[n].request.kind = "generate" <=> request[c].kind = "generate"
      BY <1>4 DEF Completion
    <2>2. /\ TaskAt(InQueue(n))' = queue_tasks'[n].id
          /\ StreamAt(InQueue(n))' <=> queue_tasks'[n].request.kind = "generate"
      BY PlaceFactsNext DEF PlaceCases
    <2> QED BY <1>0, <2>1, <2>2
  <1>6. \A p \in Places' : p = new \/ From(p, p)
    <2>1. \A i : InQueue(i) \in Places' => InQueue(i) = new \/ From(InQueue(i), InQueue(i))
      <3> TAKE i
      <3> HAVE InQueue(i) \in Places'
      <3>1. CASE i = n
        BY <1>0, <3>1
      <3>2. CASE i # n
        BY <1>4, <3>2, QueueFrom
      <3> QED BY <3>1, <3>2
    <2>2. \A m : OnSlot(m) \in Places' => From(OnSlot(m), OnSlot(m))
      BY <1>1, SlotsStayPut, SamePlaces, PlacesSlots
    <2>3. \A i : InDeferred(i) \in Places' => From(InDeferred(i), InDeferred(i))
      BY <1>1, SamePlaces
    <2> QED BY <2>1, <2>2, <2>3, PlacesSlots
  <1>7. /\ ~Pending(id) /\ id \in TaskIds
        /\ \A i \in DOMAIN queue_results : queue_results[i].id # id
    BY <1>1, <1>2 DEF ServiceInv, NotPosted
  <1> HIDE DEF to, id
  <1>8. \A p \in Places : TaskAt(p) # id
    BY <1>7, PendingPlace
  <1>9. \A t : Pending(t)' => t = id \/ Pending(t)
    BY <1>5, <1>6, PendingPlace, PendingPlaceNext DEF From
  <1>10. TaskIds' = TaskIds
    BY <1>1 DEF TaskIds
  <1>11. OnePlace'
    BY <1>5, <1>6, <1>8 DEF ServiceInv, OnePlace, From
  <1>12. PlacesIssued' /\ ResultsIssued'
    BY <1>1, <1>5, <1>6, <1>7, <1>10 DEF ServiceInv, PlacesIssued, ResultsIssued, From
  <1>13. \A d \in Clients : d # c /\ jpc[d] # "idle" => task_id[d] # id
    BY <1>1 DEF ServiceInv, OwnIds, id
  <1>14. OwnIds'
    BY <1>1, <1>2, <1>13 DEF ServiceInv, OwnIds, id
  <1>15. NotPosted'
    <2> SUFFICES ASSUME NEW d \in Clients, jpc'[d] \in {"add", "post"},
                        NEW t, t = task_id'[d]
                 PROVE  /\ ~Pending(t)'
                        /\ \A i \in DOMAIN queue_results' : queue_results'[i].id # t
      BY DEF NotPosted
    <2>1. d # c /\ jpc[d] \in {"add", "post"} /\ t = task_id[d]
      BY <1>1, <1>2
    <2> QED BY <1>1, <1>9, <1>13, <2>1 DEF ServiceInv, NotPosted
  <1>16. /\ InCall(c)' /\ ~InCall(c)
         /\ \A d \in Clients : d # c => (InCall(d)' <=> InCall(d))
    BY <1>1, <1>2 DEF InCall
  <1>17. RequestKept'
    <2> SUFFICES ASSUME NEW d \in Clients, InCall(d)', NEW p \in Places',
                        TaskAt(p)' = task_id'[d]
                 PROVE  StreamAt(p)' <=> request'[d].kind = "generate"
      BY DEF RequestKept
    <2>1. CASE d = c
      BY <1>1, <1>5, <1>6, <1>8, <2>1 DEF From, id
    <2>2. CASE d # c
      <3>1. jpc[d] # "idle" /\ InCall(d)
        BY <1>16, <2>2 DEF InCall
      <3>2. p # new
        BY <1>1, <1>5, <1>13, <2>2, <3>1
      <3> QED BY <1>1, <1>6, <3>1, <3>2 DEF From, ServiceInv, RequestKept
    <2> QED BY <2>1, <2>2
  <1>18. \A d \in Clients : /\ OwnPartials(d)' = OwnPartials(d)
                            /\ Answered(task_id[d])' <=> Answered(task_id[d])
    BY <1>1 DEF OwnPartials, Answered
  <1>19. OwnPartials(c) = {} /\ ~Answered(task_id[c])
    BY <1>7 DEF OwnPartials, Answered, id
  <1>20. PartialsAsked'
    BY <1>1, <1>16, <1>18, <1>19 DEF ServiceInv, PartialsAsked
  <1>21. Once'
    BY <1>1, <1>7, <1>9 DEF ServiceInv, Once
  <1>22. UNCHANGED <<Kind, Partials, Closed>>
    <2>1. UNCHANGED Kind
      BY <1>1 DEF Kind
    <2>2. UNCHANGED Partials
      <3>1. Cardinality(OwnPartials(c)') = 0
        BY <1>18, <1>19, FS_EmptySet
      <3> QED BY <1>16, <1>18, <3>1 DEF Partials
    <2>3. UNCHANGED Closed
      BY <1>16, <1>18, <1>19 DEF Closed
    <2> QED BY <2>1, <2>2, <2>3
  <1>23. /\ Phase[c] = "idle"
         /\ Phase' = [Phase EXCEPT ![c] = IF Kind[c] = "generate" THEN "iter" ELSE "recv"]
    BY <1>2, <1>16 DEF Phase, Kind, to
  <1>24. CompletionService!Ask(c)
    BY <1>22, <1>23 DEF CompletionService!Ask
  <1> QED
    BY <1>11, <1>12, <1>14, <1>15, <1>17, <1>20, <1>21, <1>24
    DEF ServiceInv, CompletionService!Next

LEMMA AnsweredRemove ==
  ASSUME NEW i \in DOMAIN queue_results, queue_results \in Seq(ResultType),
         queue_results' = RemoveAt(queue_results, i), NEW t
  PROVE  /\ Answered(t)' => Answered(t)
         /\ ~(queue_results[i].id = t /\ Terminal(queue_results[i])) =>
              (Answered(t) => Answered(t)')
  <1>1. /\ DOMAIN queue_results' = 1 .. Len(queue_results) - 1
        /\ i \in 1 .. Len(queue_results) /\ Len(queue_results) \in Nat
        /\ DOMAIN queue_results = 1 .. Len(queue_results)
        /\ \A j \in 1 .. Len(queue_results) - 1 :
              queue_results'[j] = queue_results[IF j < i THEN j ELSE j + 1]
    BY RemoveAtIndexed
  <1>2. \A j \in DOMAIN queue_results' : \E m \in DOMAIN queue_results :
          queue_results'[j] = queue_results[m]
    BY <1>1
  <1>3. \A j \in DOMAIN queue_results : j # i =>
          \E m \in DOMAIN queue_results' : queue_results'[m] = queue_results[j]
    BY RemoveAtLemma
  <1> QED BY <1>2, <1>3 DEF Answered

\* Receiving: the last result is taken when no other is left.
LEMMA TurnRecv ==
  ASSUME TypeInv, ServiceInv, NEW c \in Clients, Recv(c)
  PROVE  ServiceInv' /\ [CompletionService!Next]_View
  <1>1. PICK i \in DOMAIN queue_results :
          /\ queue_results[i].id = task_id[c]
          /\ \A j \in 1 .. i - 1 : queue_results[j].id # task_id[c]
          /\ queue_results' = RemoveAt(queue_results, i)
          /\ jpc' = [jpc EXCEPT ![c] =
                       IF Terminal(queue_results[i]) \/ request[c].kind = "embed" THEN "remove"
                       ELSE IF request[c].kind = "generate" THEN "iter" ELSE "idle"]
    BY DEF Recv, Go
  <1> DEFINE res == queue_results[i]
             id  == task_id[c]
             n   == Len(queue_results)
  <1>2. /\ jpc[c] = "recv" /\ UNCHANGED <<next_id, task_id, request>>
        /\ queue_results \in Seq(ResultType) /\ jpc \in [Clients -> ClientPcs]
    BY DEF Recv, queueVars, TypeInv, TypeOK
  <1>3. /\ DOMAIN queue_results' = 1 .. n - 1 /\ i \in 1 .. n /\ n \in Nat
        /\ DOMAIN queue_results = 1 .. n
        /\ \A j \in 1 .. n - 1 : queue_results'[j] = queue_results[IF j < i THEN j ELSE j + 1]
    BY <1>1, <1>2, RemoveAtIndexed
  <1>4. (\A p \in Places' : From(p, p)) /\ \A t : Pending(t)' => Pending(t)
    BY ClientPlaces
  <1>5. InCall(c) /\ (~Terminal(res) => request[c].kind = "generate")
    <2>1. InCall(c)
      BY <1>2 DEF InCall
    <2>2. ~Terminal(res) => i \in OwnPartials(c)
      BY <1>1 DEF OwnPartials
    <2> QED BY <2>1, <2>2 DEF ServiceInv, PartialsAsked
  <1>6. /\ jpc'[c] = IF Terminal(res) THEN "remove" ELSE "iter"
        /\ \A d \in Clients : d # c => jpc'[d] = jpc[d]
    BY <1>1, <1>2, <1>5
  <1>7. TaskIds' = TaskIds
    BY <1>2 DEF TaskIds
  <1>8. \A j \in DOMAIN queue_results' : \E m \in DOMAIN queue_results :
          queue_results'[j] = queue_results[m]
    BY <1>3
  <1>9. OnePlace' /\ PlacesIssued' /\ ResultsIssued'
    BY <1>4, <1>7, <1>8 DEF ServiceInv, OnePlace, PlacesIssued, ResultsIssued, From
  <1>10. OwnIds'
    BY <1>2, <1>6 DEF ServiceInv, OwnIds
  <1>11. NotPosted'
    <2> SUFFICES ASSUME NEW d \in Clients, jpc'[d] \in {"add", "post"},
                        NEW t, t = task_id'[d]
                 PROVE  /\ ~Pending(t)'
                        /\ \A j \in DOMAIN queue_results' : queue_results'[j].id # t
      BY DEF NotPosted
    <2>1. jpc[d] \in {"add", "post"} /\ t = task_id[d]
      BY <1>2, <1>6
    <2> QED BY <1>4, <1>8, <2>1 DEF ServiceInv, NotPosted
  <1>12. \A d \in Clients : InCall(d)' => InCall(d)
    BY <1>2, <1>5, <1>6 DEF InCall
  <1>13. RequestKept'
    BY <1>2, <1>4, <1>12 DEF ServiceInv, RequestKept, From
  <1>14. \A d \in Clients : /\ OwnPartials(d) = PartialsOf(queue_results, task_id[d])
                            /\ OwnPartials(d)' = PartialsOf(RemoveAt(queue_results, i), task_id[d])
    BY <1>1, <1>2 DEF OwnPartials, PartialsOf
  <1>15. \A d \in Clients :
           /\ OwnPartials(d)' # {} => OwnPartials(d) # {}
           /\ i \notin OwnPartials(d) =>
                Cardinality(OwnPartials(d)') = Cardinality(OwnPartials(d))
           /\ i \in OwnPartials(d) =>
                Cardinality(OwnPartials(d)') = Cardinality(OwnPartials(d)) - 1
    BY <1>2, <1>14, PartialsRemove
  <1>16. PartialsAsked'
    BY <1>2, <1>12, <1>15 DEF ServiceInv, PartialsAsked
  <1>17. Once'
    <2> SUFFICES ASSUME NEW a \in DOMAIN queue_results', NEW b \in DOMAIN queue_results',
                        NEW t, Terminal(queue_results'[a]), queue_results'[a].id = t
                 PROVE  ~Pending(t)' /\ (queue_results'[b].id = t => b <= a)
      BY DEF Once
    <2> DEFINE up(j) == IF j < i THEN j ELSE j + 1
    <2>1. /\ up(a) \in DOMAIN queue_results /\ queue_results'[a] = queue_results[up(a)]
          /\ up(b) \in DOMAIN queue_results /\ queue_results'[b] = queue_results[up(b)]
          /\ up(b) <= up(a) => b <= a
      BY <1>3
    <2> HIDE DEF up
    <2> QED BY <1>4, <2>1 DEF ServiceInv, Once
  <1>18. ServiceInv'
    BY <1>9, <1>10, <1>11, <1>13, <1>16, <1>17 DEF ServiceInv
  <1>19. \A d \in Clients : d # c /\ InCall(d) => task_id[d] # id
    BY <1>5 DEF ServiceInv, OwnIds, InCall
  <1>20. \A d \in Clients : d # c /\ InCall(d) =>
           /\ Cardinality(OwnPartials(d)') = Cardinality(OwnPartials(d))
           /\ Answered(task_id[d])' <=> Answered(task_id[d])
    <2> SUFFICES ASSUME NEW d \in Clients, d # c, InCall(d)
                 PROVE  /\ Cardinality(OwnPartials(d)') = Cardinality(OwnPartials(d))
                        /\ Answered(task_id[d])' <=> Answered(task_id[d])
      OBVIOUS
    <2>1. task_id[d] # id
      BY <1>19
    <2>2. i \notin OwnPartials(d)
      BY <1>1, <2>1 DEF OwnPartials
    <2>3. PICK t : t = task_id[d]
      OBVIOUS
    <2>4. Answered(t)' <=> Answered(t)
      BY <1>1, <1>2, <2>1, <2>3, AnsweredRemove
    <2>5. /\ Answered(task_id[d])' <=> Answered(t)'
          /\ Answered(task_id[d]) <=> Answered(t)
      BY <1>2, <2>3 DEF Answered
    <2> QED BY <1>15, <2>2, <2>4, <2>5
  <1>21. \A d \in Clients : d # c => (InCall(d)' <=> InCall(d))
    BY <1>6 DEF InCall
  <1>22. UNCHANGED Kind /\ Phase[c] = "recv"
    BY <1>2 DEF Kind, Phase, InCall
  <1>23. CASE Terminal(res)
    <2>1. ~InCall(c)' /\ Answered(task_id[c])
      BY <1>1, <1>6, <1>23 DEF InCall, Answered
    <2>2. OwnPartials(c) = {}
      <3>1. \A j \in DOMAIN queue_results : queue_results[j].id = id => j <= i
        BY <1>1, <1>23 DEF ServiceInv, Once
      <3>2. \A j \in OwnPartials(c) : j \in 1 .. n /\ j = i
        BY <1>1, <1>3, <3>1 DEF OwnPartials
      <3> QED BY <1>23, <3>2 DEF OwnPartials
    <2>3. Partials[c] = 0 /\ UNCHANGED Partials
      BY <1>20, <1>21, <2>1, <2>2, FS_EmptySet DEF Partials
    <2>4. Closed[c] /\ Closed' = [Closed EXCEPT ![c] = FALSE]
      BY <1>5, <1>20, <1>21, <2>1 DEF Closed
    <2>5. Phase' = [Phase EXCEPT ![c] = "idle"]
      BY <1>6, <1>21, <2>1 DEF Phase
    <2>6. CompletionService!ReturnLast(c)
      BY <1>22, <2>3, <2>4, <2>5 DEF CompletionService!ReturnLast
    <2> QED BY <1>18, <2>6 DEF CompletionService!Next
  <1>24. CASE ~Terminal(res)
    <2>1. InCall(c)' /\ jpc'[c] = "iter"
      BY <1>6, <1>24 DEF InCall
    <2>2. i \in OwnPartials(c)
      BY <1>1, <1>24 DEF OwnPartials
    <2>3. Cardinality(OwnPartials(c)) \in Nat \ {0}
      <3>1. IsFiniteSet(OwnPartials(c)) /\ Cardinality(OwnPartials(c)) \in Nat
        BY <1>2, <1>14, PartialsFinite
      <3> QED BY <2>2, <3>1, FS_EmptySet
    <2>4. Partials[c] > 0 /\ Partials' = [Partials EXCEPT ![c] = @ - 1]
      <3>1. Cardinality(OwnPartials(c)') = Cardinality(OwnPartials(c)) - 1
        BY <1>15, <2>2
      <3>2. /\ Partials[c] = Cardinality(OwnPartials(c))
            /\ Partials' = [Partials EXCEPT ![c] = Cardinality(OwnPartials(c)')]
        BY <1>5, <1>20, <1>21, <2>1 DEF Partials
      <3> QED BY <2>3, <3>1, <3>2
    <2>5. UNCHANGED Closed
      <3>1. PICK t : t = task_id[c]
        OBVIOUS
      <3>2. Answered(t)' <=> Answered(t)
        BY <1>1, <1>2, <1>24, AnsweredRemove
      <3>3. /\ Answered(task_id[c])' <=> Answered(t)'
            /\ Answered(task_id[c]) <=> Answered(t)
        BY <1>2, <3>1 DEF Answered
      <3> QED BY <1>5, <1>20, <1>21, <2>1, <3>2, <3>3 DEF Closed
    <2>6. Phase' = [Phase EXCEPT ![c] = "iter"]
      BY <1>6, <1>21, <2>1 DEF Phase
    <2>7. CompletionService!ReturnPartial(c)
      BY <1>22, <2>4, <2>5, <2>6 DEF CompletionService!ReturnPartial
    <2> QED BY <1>18, <2>7 DEF CompletionService!Next
  <1> QED BY <1>23, <1>24

(***************************************************************************)
(* The whole.                                                              *)
(***************************************************************************)
LEMMA FinishNext ==
  ASSUME IndexInv, LogitsInv, FinishGenerates, [Next]_vars
  PROVE  FinishGenerates'
  <1>1. CASE SampleToken
    <2>1. PICK k \in Slots, more \in BOOLEAN :
            /\ FirstHit(k)
            /\ slots' = [slots EXCEPT ![k] = Sampled(slots[k], more)]
            /\ pc' = IF more THEN "sample" ELSE "finish"
            /\ cur' = IF more THEN k + 1 ELSE k
      BY <1>1 DEF SampleToken
    <2>2. slots \in [Slots -> SlotRecord]
      BY DEF IndexInv, BatchInv, TypeInv, TypeOK
    <2>3. slots[k].i_batch \in i_chunk .. ChunkEnd - 1
      BY <2>1 DEF FirstHit, Hits
    <2>4. Held(k)
      BY <2>3, ChunkEndType DEF Held, IndexInv, BatchInv, TypeInv
    <2>5. k \in Generating
      BY <2>4 DEF LogitsInv, NoneStale
    <2>6. SameTask(Sampled(slots[k], more), slots[k])
      BY <2>2, SampledType
    <2>7. k \in Generating'
      BY <2>1, <2>2, <2>5, <2>6 DEF Generating, SameTask
    <2> QED BY <2>1, <2>7 DEF FinishGenerates
  <1>2. CASE LoopStep /\ ~SampleToken
    <2>1. pc' # "finish"
      BY <1>2 DEF LoopStep, ProcessTask, LaunchTask, DeferTask, CancelTask,
         SkipNextResponse, Pop, BeginUpdate, ReleaseSlots, AllIdle, PostNextResponse,
         AddSampledTokens, BatchPrompts, NothingToLoad, EmptyPrompt, TooLargeToEmbed,
         PostponePrompt, LoadPrompt, EndOfPromptBody, ContinuePrompts, DecodeBatch,
         EndDecode, Decode, FailSlot, SendEmbedding, FirstHit, FinishSlot, NextChunk,
         WaitForTask, ClockAdvances, loopVars
    <2> QED BY <2>1 DEF FinishGenerates
  <1>3. CASE UNCHANGED vars \/ \E c \in Clients : ClientNext(c)
    <2>1. UNCHANGED <<slots, pc, cur>>
      BY <1>3, ClientsOutside
    <2> QED BY <2>1 DEF FinishGenerates, Generating
  <1> QED BY <1>1, <1>2, <1>3 DEF Next

LEMMA ServiceInit ==
  ASSUME Init
  PROVE  AllInv /\ CompletionService!Init
  <1>1. IndexInv /\ LogitsInv /\ FinishGenerates
    BY IndexInit DEF Init, FinishGenerates
  <1>2. \A k \in Slots : ~Working(slots[k])
    BY DEF Init, FreshSlot, Working, Loading
  <1>3. Places = {}
    BY <1>2, PlaceFacts DEF PlaceCases, Init
  <1>4. \A t : ~Pending(t)
    BY <1>3, PendingPlace
  <1>5. \A c \in Clients : jpc[c] = "idle" /\ ~InCall(c)
    BY DEF Init, InCall
  <1>6. DOMAIN queue_results = {}
    BY DEF Init
  <1>7. OnePlace /\ PlacesIssued /\ ResultsIssued
    BY <1>3, <1>6 DEF OnePlace, PlacesIssued, ResultsIssued
  <1>8. OwnIds /\ NotPosted /\ RequestKept /\ PartialsAsked /\ Once
    BY <1>5, <1>6 DEF OwnIds, NotPosted, RequestKept, PartialsAsked, Once
  <1>9. CompletionService!Init
    <2>1. Kind \in [Clients -> Kinds]
      BY DEF Init, NoRequest, Kind, Kinds
    <2> QED BY <1>5, <2>1 DEF CompletionService!Init, Phase, Partials, Closed
  <1> QED BY <1>1, <1>7, <1>8, <1>9 DEF AllInv, ServiceInv

LEMMA ServiceNext ==
  ASSUME AllInv, pc # "fail", [Next]_vars
  PROVE  AllInv' /\ [CompletionService!Next]_View
  <1> USE DEF AllInv
  <1>1. TypeInv
    BY DEF IndexInv, BatchInv
  <1>2. IndexInv' /\ LogitsInv' /\ FinishGenerates'
    BY IndexNext, FinishNext DEF LogitsKept
  <1>3. ServiceInv' /\ [CompletionService!Next]_View
    <2>1. CASE LoopStep
      BY <2>1, LoopTurn
    <2>2. ASSUME NEW c \in Clients, ClientNext(c)
          PROVE  ServiceInv' /\ [CompletionService!Next]_View
      BY <1>1, <2>2, TurnGetNewId, TurnGo, TurnPost, TurnRecv DEF ClientNext, ClientStep
    <2>3. CASE UNCHANGED vars
      <3>1. UNCHANGED <<next_id, jpc, task_id, request, queue_results, queue_tasks,
                        queue_tasks_deferred, slots>>
        BY <2>3 DEF vars, queueVars, resultVars, loopVars, clientVars
      <3>2. Moves(Stay)
        BY <3>1, SlotsStayPut, Stays
      <3> QED BY <3>1, <3>2, SilentTurn
    <2> QED BY <2>1, <2>2, <2>3 DEF Next
  <1> QED BY <1>2, <1>3

\* Until a batch fails for good (the error then goes to the last task of every
\* slot, answered or not), a task is answered once and last: when its terminal
\* result is queued it is in no queue and on no slot, and nothing of it follows.
THEOREM OneAnswer == Spec /\ [](pc # "fail") => []AnsweredOnce
  <1>1. Init => AllInv
    BY ServiceInit
  <1>2. AllInv /\ pc # "fail" /\ [Next]_vars => AllInv'
    BY ServiceNext
  <1>3. AllInv => AnsweredOnce
    BY OnceIsAnsweredOnce DEF AllInv, ServiceInv
  <1> QED BY <1>1, <1>2, <1>3, PTL DEF Spec

\* Until then the server implements the service its Java API promises: every
\* step of a Java thread or of the loop thread is a step of the service for one
\* thread, or nothing that a thread can see.
THEOREM ServiceImplemented == Spec /\ [](pc # "fail") => Service
  <1>1. Init => AllInv /\ CompletionService!Init
    BY ServiceInit
  <1>2. AllInv /\ pc # "fail" /\ [Next]_vars =>
          AllInv' /\ [CompletionService!Next]_CompletionService!vars
    BY ServiceNext DEF View, CompletionService!vars
  <1> QED BY <1>1, <1>2, PTL DEF Spec, Service, CompletionService!Spec

=============================================================================
