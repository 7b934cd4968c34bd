------------------------------ MODULE Filters -------------------------------
(***************************************************************************)
(* The programs collatz, fact, fib and isprime: main, the loop over the    *)
(* arguments or the lines of the standard input, and the callback for each *)
(* of them, which ends in the handler if libzahl fails.                    *)
(*                                                                         *)
(* Numbers are integers, which ZahlIntegers, ZahlProducts and              *)
(* ZahlNumberTheory justify; what zptest answers is what it may answer by  *)
(* ZahlNumberTheory.                                                       *)
(***************************************************************************)
EXTENDS LineInput, SequencesExt

CONSTANTS
  Runs,       \* bound: records of a program, its arguments and its standard input
  ResultCap,  \* characters of the result buffer at first        (4096)
  Spare       \* characters a result buffer gets beyond those needed   (512)

Character == Digit \cup {NL, Letter, Minus, Plus, NUL}
ASSUME RunsAssumption ==
  \A r \in Runs : /\ r.program \in {"collatz", "fact", "fib", "isprime"}
                 /\ r.stdin \in Seq(Character)
                 /\ r.args \in Seq(Seq(Character))
ASSUME ResultAssumption == ResultCap \in Nat /\ Spare \in Nat /\ ResultCap >= 2 /\ Spare >= 1

VARIABLES
  run,     \* the program, its arguments and its whole input
  args,    \* the arguments that are left
  seen,    \* the strings the callback was called with
  op,      \* the numbers op1, op2 and op3, which mean nothing between callbacks
  result,  \* the buffer for text: cap, and the room that was allocated (0: null)
  text,    \* the locals of zstr and the buffer's cells
  out,     \* what was printed: digits, or the verdict of isprime
  status   \* the exit status, Unset while the program runs

vars == <<at, stdin, line, read, run, args, seen, op, result, text, out, status>>
progVars == <<run, args, seen, op, result, text, out, status>>

Program == run.program
NoNumbers == <<0, 0, 0>>
NoText    == [b |-> <<>>]

Null(cap)   == [cap |-> cap, room |-> 0]
Room(cap)   == [cap |-> cap, room |-> cap]

Goto(place) == at' = place
Exit(code)  == at' = "exit" /\ status' = code

(* The handler, or a checked allocation: exit(1).                          *)
Failure == Exit(1) /\ UNCHANGED <<lineVars, run, args, seen, op, result, text, out>>

(* The callback returns.                                                   *)
Back == /\ Goto(IF run.args = <<>> THEN "read" ELSE "args")
        /\ op' = NoNumbers

-----------------------------------------------------------------------------
(* main up to cliterate: collatz checks the allocation of the buffer,      *)
(* isprime has none.                                                       *)
Start ==
  /\ at = "main"
  /\ \/ /\ result' \in IF Program = "isprime" THEN {Null(0)}
                       ELSE IF Program = "collatz" THEN {Room(ResultCap)}
                       ELSE {Room(ResultCap), Null(ResultCap)}
        /\ Goto(IF run.args = <<>> THEN "line" ELSE "args")
        /\ UNCHANGED <<lineVars, run, args, seen, op, text, out, status>>
     \/ Failure

NextArgument ==
  /\ at = "args" /\ args # <<>>
  /\ seen' = Append(seen, Head(args))
  /\ args' = Tail(args)
  /\ Goto("parse")
  /\ UNCHANGED <<lineVars, run, op, result, text, out, status>>

NextLine ==
  /\ at = "callback"
  /\ seen' = Append(seen, Delivered)
  /\ Goto("parse")
  /\ UNCHANGED <<lineVars, run, args, op, result, text, out, status>>

(* The end of the arguments or the lines, and of main.                     *)
Finish ==
  /\ at = "end" \/ (at = "args" /\ args = <<>>)
  /\ Exit(0)
  /\ line' = <<>>
  /\ UNCHANGED <<stdin, read, run, args, seen, op, result, text, out>>

-----------------------------------------------------------------------------
(* The callback: what is no number, or too small, gets a message and no    *)
(* answer.                                                                 *)
Verdicts(n) == IF n \in {2, 3} THEN {2}
               ELSE IF n < 2 \/ n % 2 = 0 THEN {0}
               ELSE IF \A k \in 2 .. n - 1 : n % k # 0 THEN {1} ELSE {0, 1}

Parse ==
  /\ at = "parse"
  /\ LET str == Last(seen)
         n   == zsets(str)
     IN  \/ /\ ~ IsNumber(str) \/ (Program # "isprime" /\ n < 1)
            /\ Back /\ UNCHANGED out
         \/ /\ IsNumber(str) /\ Program = "isprime"
            /\ \E v \in Verdicts(n) : out' = Append(out, <<v>>)
            /\ Back
         \/ /\ IsNumber(str) /\ Program # "isprime" /\ n >= 1
            /\ op' = <<n, 1, 1>>
            /\ Goto("compute") /\ UNCHANGED out
  /\ UNCHANGED <<lineVars, run, args, seen, result, text, status>>

ParseFails == at = "parse" /\ IsNumber(Last(seen)) /\ Failure

(* The loops.  collatz prints every number of its sequence but the last.   *)
Compute ==
  /\ at = "compute"
  /\ \/ /\ Program = "fact" /\ op[1] # 1
        /\ op' = <<op[1] - 1, op[2] * op[1], op[3]>>
        /\ UNCHANGED <<at, out>>
     \/ /\ Program = "fib" /\ op[1] > 2
        /\ op' = <<op[1] - 1, op[2] + op[3], op[2]>>
        /\ UNCHANGED <<at, out>>
     \/ /\ \/ Program = "fact" /\ op[1] = 1
           \/ Program = "fib" /\ op[1] <= 2
           \/ Program = "collatz" /\ op[1] # 1
        /\ Goto("print") /\ UNCHANGED <<op, out>>
     \/ /\ Program = "collatz" /\ op[1] = 1
        /\ out' = Append(out, <<1>>) /\ Back
  /\ UNCHANGED <<lineVars, run, args, seen, result, text, status>>

ComputeFails == at = "compute" /\ Failure

Printed == IF Program = "collatz" THEN op[1] ELSE op[2]

(* The buffer is made large enough for the text and the NUL after it.      *)
GrowUnrecorded ==  \* mutant: the new capacity is not recorded
  /\ at = "print"
  /\ LET resultsize == ZstrLength(Printed)
     IN  result' = IF resultsize + 1 > result.cap
                   THEN [result EXCEPT !.room = resultsize + Spare + 2] ELSE result
  /\ Goto("show")
  /\ UNCHANGED <<lineVars, run, args, seen, op, text, out, status>>
GrowResult ==
  /\ at = "print"
  /\ LET resultsize == ZstrLength(Printed)
     IN  \/ /\ result' = IF resultsize + 1 > result.cap THEN Room(resultsize + Spare) ELSE result
            /\ Goto("show")
            /\ UNCHANGED <<lineVars, run, args, seen, op, text, out, status>>
         \/ Failure

(* zstr, which allocates a buffer one character larger if there is none;    *)
(* each of its divisions may fail.                                         *)
Zstr ==
  /\ at = "show"
  /\ \/ /\ text' = ZstrBegin(Printed, result.cap)
        /\ result' = IF result.room = 0 THEN [result EXCEPT !.room = result.cap + 1] ELSE result
        /\ Goto("groups")
        /\ UNCHANGED <<lineVars, run, args, seen, op, out, status>>
     \/ Failure

NextGroup ==
  /\ at = "groups"
  /\ \/ /\ IF ZstrLastGroup(text) THEN text' = ZstrEnd(text) /\ Goto("shown")
                                  ELSE text' = ZstrGroup(text) /\ UNCHANGED at
        /\ UNCHANGED <<lineVars, run, args, seen, op, result, out, status>>
     \/ Failure

(* printf; then the callback ends, or the sequence goes on.                *)
Collatz(n) == IF n % 2 = 0 THEN n \div 2 ELSE 3 * n + 1

PrintText ==
  /\ at = "shown"
  /\ out' = Append(out, CString(text.b, 0))
  /\ text' = NoText
  /\ IF Program = "collatz" THEN op' = <<Collatz(op[1]), 1, 1>> /\ Goto("compute") ELSE Back
  /\ UNCHANGED <<lineVars, run, args, seen, result, status>>

PrintFails == at = "shown" /\ Program = "collatz" /\ Failure

-----------------------------------------------------------------------------
Init ==
  /\ run \in Runs
  /\ stdin = run.stdin /\ args = run.args
  /\ at = "main" /\ line = <<>> /\ read = AtRest
  /\ seen = <<>> /\ op = NoNumbers /\ result = Null(0)
  /\ text = NoText /\ out = <<>> /\ status = Unset

Callback == Parse \/ ParseFails \/ Compute \/ ComputeFails \/ GrowResult \/ Zstr \/ NextGroup \/ PrintText \/ PrintFails

Next ==
  \/ Start \/ NextArgument \/ NextLine \/ Finish
  \/ Callback
  \/ ReadLines /\ UNCHANGED progVars

(* A program goes on by itself, and its input is there.                    *)
Spec == Init /\ [][Next]_vars /\ WF_vars(Next)

-----------------------------------------------------------------------------
(* Each program is at one place of its loop, has a line when it needs one, *)
(* and a buffer for text as large as it thinks, or one character larger if *)
(* zstr allocated it.                                                      *)
TypeOK ==
  /\ at \in { "main", "line", "args", "read", "fgets", "inspect", "grow", "callback", "parse",
              "compute", "print", "show", "groups", "shown", "end", "exit", "crashed" }
  /\ read.pos \in Nat /\ read.len \in Nat /\ read.res \in 0 .. read.len
  /\ (at \in {"fgets", "inspect", "grow", "callback"} => line # <<>>)
  /\ result.room \in {0, result.cap, result.cap + 1}
  /\ Len(op) = 3 /\ \A i \in 1 .. 3 : op[i] \in Int
  /\ status \in {Unset, 0, 1} /\ (status = Unset <=> at # "exit")

(* The lines of an input, the last one with or without its end.            *)
LineEnds(s) ==
  { i \in DOMAIN s : s[i] = NL } \cup IF s = <<>> \/ Last(s) = NL THEN {} ELSE {Len(s) + 1}
EndsUpTo(s, n) == { e \in LineEnds(s) : e <= n }
LineEnd(s, k)  == CHOOSE e \in LineEnds(s) : Cardinality(EndsUpTo(s, e)) = k
LineStart(s, k) == IF k = 1 THEN 1 ELSE LineEnd(s, k - 1) + 1
Lines(s) ==
  [k \in 1 .. Cardinality(LineEnds(s)) |-> SubSeq(s, LineStart(s, k), LineEnd(s, k) - 1)]
Inputs == IF run.args # <<>> THEN run.args ELSE Lines(run.stdin)

(* The end of them is reported.                                            *)
InputsEnded == (at = "end" /\ line # <<>>) \/ (at = "args" /\ args = <<>>)

(* Every argument or line reaches the callback once, whole and in order,   *)
(* however many pieces it was read in, if there is no NUL in the input;    *)
(* and the end of the input is reported only when all of them have, unless *)
(* the buffer for the line could not grow, which nalread reports alike.    *)
LinesInOrder ==
  Contains(run.stdin, NUL) \/
  /\ IsPrefix(seen, Inputs)
  /\ InputsEnded => seen = Inputs

(* The decimal digits of a number.                                         *)
Decimal(n) ==
  LET digits[m \in Nat] == IF m < 10 THEN <<m>> ELSE Append(digits[m \div 10], m % 10)
  IN  digits[n]

(* From the start on, the programs can rely on reallocarray: whatever the  *)
(* count and the size, up to the pairs where the shortcut by the square    *)
(* root stops to hold, they get as much room as they asked for, or none.   *)
ProductChecked == at = "main" => \A nmemb, size \in 0 .. SizeMax : Checked(nmemb, size)

(* What zstr leaves, after all the overlapping groups and moves, is the    *)
(* number and nothing else; and beyond the buffer it writes no more than   *)
(* the one character that its caller is told not to count as room, for a   *)
(* number of more than one group.                                          *)
TextRight ==
  at = "shown" =>
    /\ CString(text.b, 0) = Decimal(Printed)
    /\ { i \in DOMAIN text.b : i >= result.room /\ text.b[i] # Unset } =
         IF result.room = result.cap /\ Printed >= GroupBase THEN {result.cap} ELSE {}

(* What the programs promise: n!, the n-th Fibonacci number, and the       *)
(* numbers from n to 1 that follow each other.                             *)
Factorial == [n \in 1 .. 12 |-> ProductSet(1 .. n)]
Fibonacci(n) ==
  FoldLeft(LAMBDA two, i : << two[2], two[1] + two[2] >>, <<1, 1>>, [i \in 1 .. n - 1 |-> i])[1]
Sequence(n) ==
  LET from[k \in 0 .. 40] == IF k = 0 THEN n ELSE Collatz(from[k - 1])
  IN  [i \in 1 .. 1 + Min({ k \in 0 .. 40 : from[k] = 1 }) |-> Decimal(from[i - 1])]

(* The number a string stands for, digit by digit.                         *)
Value(str) ==
  LET n == Len(Unsigned(str))
      v[k \in 0 .. n] == IF k = 0 THEN 0 ELSE v[k - 1] * 10 + Unsigned(str)[k]
  IN  IF str[1] = Minus THEN - v[n] ELSE v[n]

Answers(str) ==
  IF ~ IsNumber(str) \/ Value(str) < 1 THEN <<>>
  ELSE CASE Program = "fact"    -> << Decimal(Factorial[Value(str)]) >>
         [] Program = "fib"     -> << Decimal(Fibonacci(Value(str))) >>
         [] Program = "collatz" -> Sequence(Value(str))

Prime(n) == n > 1 /\ \A k \in 2 .. n - 1 : n % k # 0
Sound(verdict, n) == IF Prime(n) THEN verdict # <<0>> ELSE verdict # <<2>>

(* Every number gets its answer, the right one and in its turn, whatever   *)
(* came before it, and what is no number gets none; a failure leaves out   *)
(* what comes after it.                                                    *)
AnswersRight ==
  LET rest == at \in {"read", "args", "end"}
  IN  IF Program = "isprime"
      THEN LET numbers == SelectSeq(seen, IsNumber)
           IN  /\ Len(out) <= Len(numbers) /\ (rest => Len(out) = Len(numbers))
               /\ \A i \in DOMAIN out : Sound(out[i], Value(numbers[i]))
      ELSE LET answers == FlattenSeq([i \in DOMAIN seen |-> Answers(seen[i])])
           IN  IsPrefix(out, answers) /\ (rest => out = answers)

(* A program comes to its end, however long its lines are, and whatever    *)
(* fails; collatz, for the numbers tried.                                  *)
ProgramEnds == <>(at \in {"exit", "crashed"})
=============================================================================
