--------------------------- MODULE MCLlamaServer ---------------------------
(* Model-checking values of LlamaServer's constants. *)
EXTENDS LlamaServer

Ask(k, n)  == [kind |-> k, len |-> n, bad |-> FALSE, id_slot |-> AnySlot]
Reject(k)  == [Ask(k, 1) EXCEPT !.bad = TRUE]
AskOf(k, n, slot) == [Ask(k, n) EXCEPT !.id_slot = slot]

\* One request of each fate: streamed over two batches, answered at once,
\* embedded in a batch with room left or none, rejected at launch, empty, too
\* large to embed, waiting for a slot of its own, for one that does not exist.
MCRequests == {Ask("generate", 3), Ask("complete", 1), Ask("embed", 1),
               Reject("complete"), Ask("complete", 0), Ask("embed", 3),
               AskOf("embed", 2, 0), AskOf("complete", 1, NSlots)}
\* The second may have to wait for the slot of the first, or of its like.
MCAnswered == {Ask("generate", 2), AskOf("embed", 2, 0)}
MCStreams == {Ask("generate", 1), Ask("generate", 3)}

MCDecodes    == {0}
MCAllResults == {-1, 0, 1}

ClientSymmetry == Permutations(Clients)
=============================================================================
