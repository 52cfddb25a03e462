----------------------------- MODULE MCDispatch -----------------------------
(* Model-checking values of Dispatch's constants. *)
EXTENDS Dispatch

Plain == [id_slot |-> {}, infill |-> FALSE,
          prompt |-> {[form |-> "string", text |-> <<"a", "b">>]},
          scalar |-> {}, cache_prompt |-> {}, n_predict |-> {}, max_tokens |-> {},
          n_keep |-> {}, infix |-> {}, penalty |-> {}, ignore_eos |-> {},
          logit_bias |-> <<>>, stop |-> {}, samplers |-> {}, grammar |-> {}]
Text(p) == {[form |-> "string", text |-> p]}

\* Everything set, everything left to its default, a different prompt, an infill
\* request, a prompt of tokens, the two launches that are given up, a slot that
\* is asked for, one that does not exist.
MCRequests ==
  {[Plain EXCEPT !.scalar = {"asked"}, !.cache_prompt = {TRUE}, !.n_predict = {9},
                 !.n_keep = {2}, !.infix = {"asked"}, !.penalty = {{-1, 0, 2}},
                 !.ignore_eos = {TRUE}, !.stop = {"", "END", EmptyJson}, !.samplers = {"asked"},
                 !.grammar = {"good"}, !.prompt = Text(<<"a", "a", "b">>),
                 !.logit_bias = <<[tokens |-> {1}, bias |-> "number"],
                                  [tokens |-> {0, 1}, bias |-> "false"],
                                  [tokens |-> {0}, bias |-> "other"],
                                  [tokens |-> {7}, bias |-> "number"]>>],
   Plain,
   [Plain EXCEPT !.prompt = Text(<<"a">>), !.max_tokens = {2}],
   [Plain EXCEPT !.infill = TRUE, !.infix = {"asked"}],
   [Plain EXCEPT !.grammar = {"broken"}, !.stop = {"END"}, !.ignore_eos = {TRUE},
                 !.prompt = Text(<<"b">>)],
   [Plain EXCEPT !.prompt = {}, !.scalar = {"asked"}, !.n_predict = {1}],
   [Plain EXCEPT !.id_slot = {1}],
   [Plain EXCEPT !.id_slot = {5}, !.prompt = {[form |-> "array", text |-> <<"a">>]}]}
=============================================================================
