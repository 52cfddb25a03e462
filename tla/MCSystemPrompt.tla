--------------------------- MODULE MCSystemPrompt ---------------------------
(* Model-checking values of SystemPrompt's constants. *)
EXTENDS SystemPrompt

Ask(prompt, system, cache) ==
  [prompt |-> prompt, system |-> system, cache_prompt |-> cache, valid |-> TRUE]

\* No change, a change, the end of a system prompt, and one that is refused.
MCRequests ==
  {Ask(<<"a", "b", "b">>, {}, FALSE), Ask(<<"a", "b", "a">>, {}, TRUE),
   Ask(<<"b">>, {<<"b", "a">>}, FALSE), Ask(<<"a", "b">>, {<<>>}, TRUE),
   [Ask(<<"a">>, {<<"a">>}, FALSE) EXCEPT !.valid = FALSE]}

\* One that asks for reuse, and one that changes the system prompt.
MCReusing == {Ask(<<"a", "b", "a">>, {}, TRUE), Ask(<<"b">>, {<<"b", "a">>}, FALSE)}
MCAtStart == <<"a">>
=============================================================================
