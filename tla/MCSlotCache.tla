---------------------------- MODULE MCSlotCache ----------------------------
(* Model-checking values of SlotCache's constants. *)
EXTENDS SlotCache

Ask(p, cache, keep) == [prompt |-> p, cache_prompt |-> cache, keep |-> keep]

\* Two prompts with a common prefix, one of them over two batches, and one
\* that does not fit the context of 6 tokens.
Prompts == {<<1, 2>>, <<1, 2, 1, 1>>, <<1, 2, 1, 2, 2, 1, 2, 1>>}

MCTokens == 0 .. 2
MCCached == {Ask(p, TRUE, {1}) : p \in Prompts}
MCMixed  == {Ask(p, cache, keep) :
               p \in Prompts, cache \in BOOLEAN, keep \in {{}, {-1}, {1}}}
MCOne    == {Ask(<<1, 2>>, TRUE, {0})}
=============================================================================
