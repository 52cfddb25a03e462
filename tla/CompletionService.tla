-------------------------- MODULE CompletionService --------------------------
(***************************************************************************)
(* What the Java API promises the threads that use it, with no server in   *)
(* sight: LlamaModel.complete and embed return the one result of their     *)
(* request; LlamaIterator.next returns the results of its request in the   *)
(* order they were made, the last of them marked, until it is cancelled.   *)
(* LlamaServer implements this (Service in that module).                   *)
(***************************************************************************)
EXTENDS Naturals

CONSTANTS Clients, Kinds

VARIABLES
  phase,     \* "idle", "recv" in a call that waits, "iter" between two next()
  kind,      \* the kind of each thread's request
  partials,  \* results made for its request, not yet returned, before the last
  closed     \* whether the last result is made and not yet returned

vars == <<phase, kind, partials, closed>>

Init ==
  /\ phase = [c \in Clients |-> "idle"]
  /\ kind \in [Clients -> Kinds]
  /\ partials = [c \in Clients |-> 0]
  /\ closed = [c \in Clients |-> FALSE]

Prepare(c) ==
  /\ phase[c] = "idle"
  /\ \E k \in Kinds : kind' = [kind EXCEPT ![c] = k]
  /\ UNCHANGED <<phase, partials, closed>>

Ask(c) ==
  /\ phase[c] = "idle"
  /\ phase' = [phase EXCEPT ![c] = IF kind[c] = "generate" THEN "iter" ELSE "recv"]
  /\ UNCHANGED <<kind, partials, closed>>

CallNext(c) ==
  /\ phase[c] = "iter"
  /\ phase' = [phase EXCEPT ![c] = "recv"]
  /\ UNCHANGED <<kind, partials, closed>>

\* Only who streams gets results before the last one, and nobody gets any
\* after it.
DeliverPartial(c) ==
  /\ phase[c] # "idle" /\ ~closed[c] /\ kind[c] = "generate"
  /\ partials' = [partials EXCEPT ![c] = @ + 1]
  /\ UNCHANGED <<phase, kind, closed>>

DeliverLast(c) ==
  /\ phase[c] # "idle" /\ ~closed[c]
  /\ closed' = [closed EXCEPT ![c] = TRUE]
  /\ UNCHANGED <<phase, kind, partials>>

\* The last result is returned when all those before it are.
ReturnPartial(c) ==
  /\ phase[c] = "recv" /\ partials[c] > 0
  /\ phase' = [phase EXCEPT ![c] = "iter"]
  /\ partials' = [partials EXCEPT ![c] = @ - 1]
  /\ UNCHANGED <<kind, closed>>

ReturnLast(c) ==
  /\ phase[c] = "recv" /\ partials[c] = 0 /\ closed[c]
  /\ phase' = [phase EXCEPT ![c] = "idle"]
  /\ closed' = [closed EXCEPT ![c] = FALSE]
  /\ UNCHANGED <<kind, partials>>

Abandon(c) ==
  /\ phase[c] = "iter"
  /\ phase' = [phase EXCEPT ![c] = "idle"]
  /\ partials' = [partials EXCEPT ![c] = 0]
  /\ closed' = [closed EXCEPT ![c] = FALSE]
  /\ UNCHANGED kind

Next == \E c \in Clients :
          \/ Prepare(c) \/ Ask(c) \/ CallNext(c) \/ DeliverPartial(c)
          \/ DeliverLast(c) \/ ReturnPartial(c) \/ ReturnLast(c) \/ Abandon(c)

Spec == Init /\ [][Next]_vars

=============================================================================
