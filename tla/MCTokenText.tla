---------------------------- MODULE MCTokenText ----------------------------
(* Model-checking values of TokenText's constants. *)
EXTENDS TokenText

Token(text) == [text |-> text, eog |-> FALSE]
EndOfText == [text |-> <<>>, eog |-> TRUE]

\* Pieces of stop words, characters whole and in pieces, none of them mixed.
MCTokens == {Token(<<"a">>), Token(<<"b">>), Token(<<"b", "a">>),
             Token(<<"L2", "C">>), Token(<<"L4">>), Token(<<"C", "C">>),
             Token(<<"C">>), EndOfText}

\* One more, the end of one character and the beginning of the next.
MCMixedTokens == MCTokens \union {Token(<<"b", "L2">>)}

Unlimited == -1
Ask(stream, words, n) ==
  [stream |-> stream, antiprompt |-> words, n_predict |-> n, n_prompt_tokens |-> 2]
Words == << <<"a", "b">>, <<"b", "b", "a">>, <<"L2", "C", "a">> >>
MCRequests == {Ask(TRUE, Words, 5), Ask(FALSE, Words, -1), Ask(TRUE, <<>>, -1),
               Ask(FALSE, <<>>, 0), Ask(FALSE, << <<"a">>, <<>> >>, 5),
               [Ask(TRUE, Words, 5) EXCEPT !.n_prompt_tokens = 0]}
=============================================================================
