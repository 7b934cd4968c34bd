----------------------------- MODULE MCFilters ------------------------------
(* Inputs for the model checking of Filters: what is read in one piece, in *)
(* two and in three, with every end that the piece can have; numbers whose *)
(* groups are nothing, and what is no number; NULs.                        *)
EXTENDS Filters

Long == <<0, 0, 0, 0, 0, 0, 0, 0, 0, 0, 0, 0, 0, 0, 6>>

Words ==
  { <<5>>, <<1, 2>>, <<0>>, <<Minus, 3>>, <<Plus, 2>>, <<Letter>>, <<>>,
    <<0, 0, 0, 9>>, <<1, 0, Letter, 0>>, Long }
Wider(program) ==
  CASE program = "collatz" -> { <<3, 3>>, <<1, 0, 0>> }
    [] program = "fib"     -> { <<4, 0>> }
    [] program = "isprime" -> { <<1, 0, 0, 9>>, <<1, 3>>, <<9>>, <<3>> }
    [] OTHER               -> {}
Nuls == { <<0, NUL, 6>>, <<NUL, 4>> }

Inputting(program, input, arguments) == [program |-> program, stdin |-> input, args |-> arguments]
MCRuns ==
  UNION { LET words == Words \cup Wider(p) IN
          { Inputting(p, f \o <<NL>> \o s \o e, <<>>) :
              f \in words \cup Nuls, s \in words, e \in { <<>>, <<NL>> } }
          \cup { Inputting(p, <<>>, <<f, s>>) : f \in Wider(p) \cup { <<Letter>>, <<5>> }, s \in words } :
            p \in {"collatz", "fact", "fib", "isprime"} }
=============================================================================
