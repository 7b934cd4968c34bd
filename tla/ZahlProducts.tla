---------------------------- MODULE ZahlProducts ----------------------------
(***************************************************************************)
(* zmul and zsqr: the recursions of zmul_ll and zsqr_ll, call by call, on  *)
(* the stack of temporary numbers, where any of the allocations on the way *)
(* may fail and the long jump then cuts off every activation.              *)
(*                                                                         *)
(* A number is its value; how limbs are added and shifted is the subject   *)
(* of ZahlIntegers, and where they are stored that of ZahlMemory.  What is *)
(* kept of the limbs is where a number is split, that zsqr_ll works on     *)
(* parts of its operand without copying them, and how many of them a       *)
(* number has, which decides what zsub_impl makes of a difference.         *)
(***************************************************************************)
EXTENDS ZahlValues, Sequences, SequencesExt

CONSTANTS
  Reg,          \* the numbers of the program
  Parameters,   \* bound: the numbers a, b and c that zmul or zsqr is called with
  Operand,      \* bound: the values of b and c
  Other,        \* the value of the numbers that are neither
  BitsPerChar   \* bits of a limb                                (64)

ASSUME BitsAssumption    == BitsPerChar \in Nat /\ BitsPerChar >= 2
ASSUME OperandAssumption == Operand \subseteq Int /\ Other \in Int
ASSUME ParameterAssumption == Parameters \subseteq Reg \X Reg \X Reg

(* The locals of zmul_ll and zsqr_ll; a number of the program is not one.  *)
Locals == {"b_high", "b_low", "c_high", "c_low", "high", "low", "z0", "z1"}
ASSUME RegAssumption == \A n \in Reg : n \notin Nat \X Locals

VARIABLES
  val,        \* the values of the program's numbers and of the activations' locals
  used,       \* how many limbs they have, zeros above the value included
  calls,      \* the activations, the innermost last
  tempStack,  \* libzahl_temp_stack
  status,     \* "run", "unwind" in libzahl_failure, "jumped" or "returned"
  asked,      \* what the program called, and the values it had then
  loan        \* history: whether a limb that is 1, and not the last, has lent

vars == <<val, used, calls, tempStack, status, asked, loan>>

-----------------------------------------------------------------------------
(* A number, or the bits of one from a position on: all, or so many.       *)
All         == -1
Whole(n)    == [of |-> n, from |-> 0, bits |-> All]
High(p, n)  == [p EXCEPT !.from = @ + n, !.bits = IF @ = All THEN @ ELSE @ - n]
Low(p, n)   == [p EXCEPT !.bits = n]
Read(p) ==
  LET up == Abs(val[p.of]) \div 2 ^ p.from
  IN  IF p.from = 0 /\ p.bits = All THEN val[p.of]
      ELSE IF p.bits = All THEN up ELSE up % 2 ^ p.bits

Limbs(v) == (Bits(v) + BitsPerChar - 1) \div BitsPerChar

(* f, with v at n whether it was defined there or not.                     *)
Having(f, n, v) == [x \in DOMAIN f \cup {n} |-> IF x = n THEN v ELSE f[x]]

Depth    == Len(calls)
Frame    == calls[Depth]
Local(n) == <<Depth, n>>

(* What a name stands for in the innermost activation.                     *)
Part(name) == IF name \in DOMAIN Frame.parts THEN Frame.parts[name] ELSE Whole(Local(name))
Target(name) == Part(name).of

Activation(plan, parts) ==
  [plan |-> plan, parts |-> parts, pc |-> 0, delim |-> 0, signs |-> <<>>,
   height |-> Len(tempStack)]

-----------------------------------------------------------------------------
(* The bodies, once the easy cases are dealt with, as sequences of steps.  *)
(* A shift is by a multiple of the delimiter and a constant.               *)

ZmulSteps ==
  << <<"abs", "b">>, <<"abs", "c">>, <<"mul", "a", "b", "c">>,
     <<"restore", "c">>, <<"restore", "b">>, <<"sign">> >>

(* Mutants: the temporaries freed in the order they were initialised in,   *)
(* one of them not freed.                                                  *)
FreedInOrder == << <<"free", "b_high">>, <<"free", "b_low">>, <<"free", "c_high">>, <<"free", "c_low">> >>
OneForgotten == << <<"free", "c_low">>, <<"free", "c_high">>, <<"free", "b_low">> >>

FreeTemps == << <<"free", "c_low">>, <<"free", "c_high">>, <<"free", "b_low">>, <<"free", "b_high">> >>

ZmulLlSteps ==
  << <<"init", "b_high">>, <<"init", "b_low">>, <<"init", "c_high">>, <<"init", "c_low">>,
     <<"split", "b_high", "b_low", "b">>, <<"split", "c_high", "c_low", "c">>,
     <<"mul", "a", "b_low", "c_low">>,
     <<"add", "b_low", "b_high">>, <<"add", "c_low", "c_high">>,
     <<"mul", "b_low", "b_low", "c_low">>,
     <<"mul", "c_low", "b_high", "c_high">>,
     <<"sub", "b_low", "a">>, <<"sub", "b_low", "c_low">>,
     <<"shift", "b_low", 1, 0>>, <<"shift", "c_low", 2, 0>>,
     <<"add", "a", "b_low">>, <<"add", "a", "c_low">> >> \o FreeTemps

ZsqrSteps == << <<"sqr", "a", "b">>, <<"positive">> >>

(* zsqr_ll when the low part is zero, and when it is not.                  *)
HighOnlySteps == << <<"sqr", "a", "high">>, <<"shift", "a", 2, 0>> >>

HighSquaredFirst ==  \* mutant: the square of the high part is stored early
  << <<"init", "z0">>, <<"init", "z1">>,
     <<"sqr", "z0", "low">>, <<"sqr", "a", "high">>,
     <<"mul", "z1", "low", "high">>, <<"shift", "z1", 1, 1>>, <<"shift", "a", 2, 0>>,
     <<"add", "a", "z1">>, <<"add", "a", "z0">>,
     <<"free", "z1">>, <<"free", "z0">> >>

BothPartsSteps ==
  << <<"init", "z0">>, <<"init", "z1">>,
     <<"sqr", "z0", "low">>, <<"mul", "z1", "low", "high">>, <<"shift", "z1", 1, 1>>,
     <<"sqr", "a", "high">>, <<"shift", "a", 2, 0>>,
     <<"add", "a", "z1">>, <<"add", "a", "z0">>,
     <<"free", "z1">>, <<"free", "z0">> >>

Steps(plan) == CASE plan = "zmul"       -> ZmulSteps
                 [] plan = "zmul_ll"    -> ZmulLlSteps
                 [] plan = "zsqr"       -> ZsqrSteps
                 [] plan = "high_only"  -> HighOnlySteps
                 [] plan = "both_parts" -> BothPartsSteps
                 [] OTHER               -> <<>>

Running   == status = "run" /\ calls # <<>>
Entering  == Running /\ Frame.pc = 0
Finished  == Running /\ Frame.pc > Len(Steps(Frame.plan))
At(kind)  == /\ Running /\ Frame.pc > 0 /\ ~ Finished
             /\ Steps(Frame.plan)[Frame.pc][1] = kind
Arg(i)    == Steps(Frame.plan)[Frame.pc][i + 1]

(* The rest of an action: on to the next step, out of the function, or to  *)
(* libzahl_failure.  The locals of an activation end with it.              *)
Proceed == /\ calls' = [calls EXCEPT ![Depth].pc = @ + 1]
           /\ UNCHANGED <<status, asked>>
Return == /\ calls' = Front(calls)
          /\ status' = IF Depth = 1 THEN "returned" ELSE status
          /\ UNCHANGED <<tempStack, asked, loan>>
Fail == /\ status' = "unwind"
        /\ UNCHANGED <<val, used, calls, tempStack, asked, loan>>

Outlive == { n \in DOMAIN val : n \in Reg \/ n[1] < Depth }
Keeping(f, S) == [n \in S |-> f[n]]

Call(plan, parts) ==
  calls' = Append([calls EXCEPT ![Depth].pc = @ + 1], Activation(plan, parts))

-----------------------------------------------------------------------------
(* zmul_ll: nothing, one limb, or Karatsuba's three products.              *)
EnterZmulLl ==
  /\ Entering /\ Frame.plan = "zmul_ll"
  /\ LET b == Read(Part("b"))
         c == Read(Part("c"))
         small == Bits(b) + Bits(c) <= BitsPerChar
         longer == IF Bits(b) > Bits(c) THEN Bits(b) ELSE Bits(c)
     IN  \/ /\ b = 0 \/ c = 0
            /\ val' = [val EXCEPT ![Target("a")] = 0]
            /\ Return /\ UNCHANGED used
         \/ /\ b # 0 /\ c # 0 /\ small
            /\ \/ /\ val' = [val EXCEPT ![Target("a")] = Abs(b) * Abs(c)]
                  /\ used' = [used EXCEPT ![Target("a")] = 1]
                  /\ Return
               \/ Fail
         \/ /\ b # 0 /\ c # 0 /\ ~ small
            /\ calls' = [calls EXCEPT ![Depth].pc = 1, ![Depth].delim = longer \div 2]
            /\ UNCHANGED <<val, used, tempStack, status, asked, loan>>

(* zsqr_ll: half a limb is squared at once.  An operand of less than two   *)
(* limbs is split into copies; of a longer one the parts are the limbs     *)
(* below and above a limb boundary, where they are.                        *)
Plan(low) == IF low = 0 THEN "high_only" ELSE "both_parts"

EnterZsqrLl ==
  /\ Entering /\ Frame.plan = "zsqr_ll"
  /\ LET b     == Abs(Read(Part("b")))
         half  == Bits(b) \div 2
         delim == half - (half % BitsPerChar)
         low   == Low(Part("b"), delim)
     IN  \/ /\ Bits(b) <= BitsPerChar \div 2
            /\ \/ /\ val' = [val EXCEPT ![Target("a")] = b * b]
                  /\ used' = [used EXCEPT ![Target("a")] = 1]
                  /\ Return
               \/ Fail
         \/ /\ Bits(b) > BitsPerChar \div 2 /\ half < BitsPerChar
            /\ val' = Having(Having(val, Local("low"), b % 2 ^ half), Local("high"), b \div 2 ^ half)
            /\ used' = Having(Having(used, Local("low"), 1), Local("high"), Limbs(b \div 2 ^ half))
            /\ calls' = [calls EXCEPT ![Depth].pc = 1, ![Depth].delim = half,
                                      ![Depth].plan = Plan(b % 2 ^ half)]
            /\ UNCHANGED <<tempStack, status, asked, loan>>
         \/ /\ Bits(b) > BitsPerChar \div 2 /\ half >= BitsPerChar
            /\ calls' = [calls EXCEPT ![Depth].pc = 1, ![Depth].delim = delim,
                                      ![Depth].plan = Plan(Read(low)),
                                      ![Depth].parts = Having(Having(@, "low", low),
                                                              "high", High(Part("b"), delim))]
            /\ UNCHANGED <<val, used, tempStack, status, asked, loan>>

(* zmul and zsqr, and zsqr of nothing.                                     *)
EnterZmul ==
  /\ Entering
  /\ Frame.plan = "zmul" \/ (Frame.plan = "zsqr" /\ Read(Part("b")) # 0)
  /\ Proceed /\ UNCHANGED <<val, used, tempStack, loan>>

SquareNothing ==
  /\ Entering /\ Frame.plan = "zsqr" /\ Read(Part("b")) = 0
  /\ val' = [val EXCEPT ![Target("a")] = 0]
  /\ Return /\ UNCHANGED used

-----------------------------------------------------------------------------
(* The steps.                                                              *)

Multiply == /\ At("mul")
            /\ Call("zmul_ll", [a |-> Part(Arg(1)), b |-> Part(Arg(2)), c |-> Part(Arg(3))])
            /\ UNCHANGED <<val, used, tempStack, status, asked, loan>>
Square   == /\ At("sqr")
            /\ Call("zsqr_ll", [a |-> Part(Arg(1)), b |-> Part(Arg(2))])
            /\ UNCHANGED <<val, used, tempStack, status, asked, loan>>

(* zinit_temp, zfree_temp: the stack is popped whatever was freed.         *)
InitTemp == /\ At("init")
            /\ \/ /\ tempStack' = Append(tempStack, Local(Arg(1)))
                  /\ val' = Having(val, Local(Arg(1)), 0)
                  /\ used' = Having(used, Local(Arg(1)), 0)
                  /\ Proceed /\ UNCHANGED loan
               \/ Fail
FreeTemp == /\ At("free")
            /\ tempStack' = Front(tempStack)
            /\ Proceed /\ UNCHANGED <<val, used, loan>>

(* A step that stores v, in n limbs, in the number a name stands for; it   *)
(* may have to make room for it.  Signs change without the limbs.          *)
Store(name, v, n) == /\ val' = [val EXCEPT ![Target(name)] = v]
                     /\ used' = [used EXCEPT ![Target(name)] = n]
                     /\ Proceed /\ UNCHANGED <<tempStack, loan>>
Resign(name, v)   == Store(name, v, used[Target(name)])

Split == /\ At("split")
         /\ LET v == Read(Part(Arg(3)))
                high == Abs(v) \div 2 ^ Frame.delim
                low  == Abs(v) % 2 ^ Frame.delim
            IN  \/ /\ val' = [val EXCEPT ![Target(Arg(1))] = Sign(v) * high,
                                         ![Target(Arg(2))] = Sign(v) * low]
                   /\ used' = [used EXCEPT ![Target(Arg(1))] = Limbs(high),
                                           ![Target(Arg(2))] = Limbs(low)]
                   /\ Proceed /\ UNCHANGED <<tempStack, loan>>
                \/ v # 0 /\ Fail

(* v in so many limbs, or in one more if it does not fit.                  *)
Carried(v, n) == IF Abs(v) >= Weight(n, BitsPerChar) THEN n + 1 ELSE n

Shift == /\ At("shift")
         /\ LET v  == Read(Part(Arg(1)))
                n  == used[Target(Arg(1))]
                by == Arg(2) * Frame.delim + Arg(3)
            IN  \/ Store(Arg(1), v * 2 ^ by,
                         IF v = 0 THEN n ELSE Carried(v * 2 ^ by, n + by \div BitsPerChar))
                \/ v # 0 /\ Fail

(* zadd_unsigned_assign: magnitudes, except where the second operand is    *)
(* zero.                                                                   *)
Add == /\ At("add")
       /\ LET a == Read(Part(Arg(1)))
              b == Read(Part(Arg(2)))
              n == used[Target(Arg(1))]
              m == used[Target(Arg(2))]
          IN  \/ b = 0 /\ Store(Arg(1), a, n)
              \/ b # 0 /\ a = 0 /\ Store(Arg(1), Abs(b), m)
              \/ b # 0 /\ a # 0 /\ Store(Arg(1), Abs(a) + Abs(b),
                                        Carried(Abs(a) + Abs(b), IF n > m THEN n ELSE m))
              \/ b # 0 /\ Fail

(* The n limbs of v once zcmpmag has compared it with a number of m.       *)
Compared(v, n, m) == IF n <= m THEN n ELSE IF Limbs(v) > m THEN Limbs(v) ELSE m

(* zsub_nonnegative_assign: magnitudes, and the limbs taken from each      *)
(* other.  Where a limb that is 1 lends to those below it, the last limb   *)
(* goes: rightly if that is the limb.  A difference that should not be     *)
(* negative can be so after a wrong one; it then borrows from whatever     *)
(* lies above the number.  (If it leaves only limbs that are 0, the code   *)
(* keeps the sign; 0 has none here.)                                       *)
Subtract ==
  /\ At("sub")
  /\ LET p  == Target(Arg(1))
         q  == Target(Arg(2))
         a  == Abs(Read(Part(Arg(1))))
         b  == Abs(Read(Part(Arg(2))))
         na == Compared(a, used[p], used[q])
         nb == Compared(b, used[q], used[p])
         lenders == LendersOfOne(a, b, nb, na, BitsPerChar)
         Leave(v, n) == /\ val' = [val EXCEPT ![p] = Sign(val[p]) * v]
                        /\ used' = [used EXCEPT ![p] = n, ![q] = nb]
                        /\ Proceed /\ UNCHANGED tempStack
     IN  \/ /\ b = 0 \/ a = 0
            /\ Resign(Arg(1), a)
         \/ /\ b # 0 /\ a >= b /\ lenders \subseteq {na - 1}
            /\ Leave(a - b, IF lenders = {} THEN na ELSE na - 1)
            /\ UNCHANGED loan
         \/ /\ b # 0 /\ a >= b
            /\ \E i \in lenders \ {na - 1} : Leave(LentByInner(a, b, i, na, BitsPerChar), na - 1)
            /\ loan' = TRUE
         \/ /\ a # 0 /\ a < b
            /\ \E n \in {na - 1, na} \cap Nat : Leave((a - b) % Weight(n, BitsPerChar), n)
            /\ UNCHANGED loan

(* zmul takes the signs of its operands away and gives them back.          *)
TakeSign == /\ At("abs")
            /\ LET v == Read(Part(Arg(1)))
               IN  /\ val' = [val EXCEPT ![Target(Arg(1))] = Abs(v)]
                   /\ calls' = [calls EXCEPT ![Depth].pc = @ + 1,
                                             ![Depth].signs = Having(@, Arg(1), Sign(v))]
            /\ UNCHANGED <<used, tempStack, status, asked, loan>>
GiveSign == At("restore") /\ Resign(Arg(1), Frame.signs[Arg(1)] * Abs(Read(Part(Arg(1)))))
SetSign  == /\ At("sign")
            /\ Resign("a", Abs(Read(Part("a"))) * Sign(Read(Part("b"))) * Sign(Read(Part("c"))))
SetPositive == At("positive") /\ Resign("a", Abs(Read(Part("a"))))

LeaveFunction == /\ Finished
                 /\ val' = Keeping(val, Outlive)
                 /\ used' = Keeping(used, Outlive)
                 /\ Return

(* libzahl_failure                                                         *)
UnwindAllButFirst ==  \* mutant: the loop ends one number early
           /\ status = "unwind" /\ Len(tempStack) > 1
           /\ tempStack' = Front(tempStack)
           /\ UNCHANGED <<val, used, calls, status, asked, loan>>
LongjmpAtOnce ==      \* mutant: the temporaries are not freed
           /\ status = "unwind"
           /\ calls' = <<>>
           /\ val' = Keeping(val, Reg)
           /\ used' = Keeping(used, Reg)
           /\ status' = "jumped"
           /\ UNCHANGED <<tempStack, asked, loan>>
Unwind  == /\ status = "unwind" /\ tempStack # <<>>
           /\ tempStack' = Front(tempStack)
           /\ UNCHANGED <<val, used, calls, status, asked, loan>>
Longjmp == /\ status = "unwind" /\ tempStack = <<>>
           /\ calls' = <<>>
           /\ val' = Keeping(val, Reg)
           /\ used' = Keeping(used, Reg)
           /\ status' = "jumped"
           /\ UNCHANGED <<tempStack, asked, loan>>

-----------------------------------------------------------------------------
(* The program calls zmul or zsqr once; zsqr takes b twice.                *)
Init ==
  /\ tempStack = <<>> /\ status = "run" /\ loan = FALSE
  /\ \E fn \in {"zmul", "zsqr"}, p \in Parameters, v \in [Reg -> Operand \cup {Other}] :
       /\ fn = "zsqr" => p[2] = p[3]
       /\ \A n \in Reg : v[n] \in IF n \in {p[2], p[3]} THEN Operand ELSE {Other}
       /\ val = v /\ used = [n \in Reg |-> Limbs(v[n])]
       /\ asked = [fn |-> fn, a |-> p[1], b |-> p[2], c |-> p[3], was |-> v]
       /\ calls = << [plan |-> fn, pc |-> 0, delim |-> 0, signs |-> <<>>, height |-> 0,
                      parts |-> [a |-> Whole(p[1]), b |-> Whole(p[2]), c |-> Whole(p[3])]] >>

Next ==
  \/ EnterZmul \/ SquareNothing \/ EnterZmulLl \/ EnterZsqrLl
  \/ Multiply \/ Square \/ InitTemp \/ FreeTemp
  \/ Split \/ Shift \/ Add \/ Subtract
  \/ TakeSign \/ GiveSign \/ SetSign \/ SetPositive
  \/ LeaveFunction
  \/ Unwind \/ Longjmp

(* A function that has been called goes on by itself.                      *)
Spec == Init /\ [][Next]_vars /\ WF_vars(Next)

-----------------------------------------------------------------------------
(* Values are integers, locals those of the activations there are, and an  *)
(* activation works on the program's numbers or on locals that exist.      *)
TypeOK ==
  /\ Reg \subseteq DOMAIN val /\ \A n \in DOMAIN val : val[n] \in Int
  /\ \A n \in DOMAIN val \ Reg : n[1] \in 1 .. Depth
  /\ used \in [DOMAIN val -> Nat] /\ loan \in BOOLEAN
  /\ tempStack \in Seq(DOMAIN val)
  /\ status \in {"run", "unwind", "jumped", "returned"}
  /\ \A i \in 1 .. Depth : \A name \in DOMAIN calls[i].parts :
       calls[i].parts[name].of \in DOMAIN val

(* zmul and zsqr leave the product in their first parameter and every      *)
(* other number of the program as it was, sign included, whichever of the  *)
(* parameters are the same: though zsqr_ll still reads parts of a number   *)
(* that it is about to overwrite, and zmul changes signs on the way.  The  *)
(* exception is zmul when one of its differences drops a limb because an   *)
(* inner limb that is 1 lends (zsub.c:21).                                 *)
ProductRight ==
  status = "returned" /\ ~ loan =>
    val = [asked.was EXCEPT ![asked.a] = asked.was[asked.b] * asked.was[asked.c]]

(* What the comment above zinit_temp demands: each number is freed when it *)
(* is the last one that was registered, and a function returns with the    *)
(* stack it was called with.                                               *)
StackOrder ==
  /\ At("free") => tempStack # <<>> /\ Last(tempStack) = Local(Arg(1))
  /\ Finished => Len(tempStack) = Frame.height
  /\ status = "returned" => tempStack = <<>>

(* When control is back in main after a failure, every temporary has been  *)
(* freed while its activation still existed, and of the program's numbers  *)
(* the destination is lost and the operands of zmul may have become        *)
(* positive, but no other value has changed.                               *)
FailureCostsSigns ==
  /\ \A i \in 1 .. Len(tempStack) : tempStack[i][1] <= Depth
  /\ status = "jumped" =>
       /\ tempStack = <<>>
       /\ \A n \in Reg \ {asked.a} :
            \/ val[n] = asked.was[n]
            \/ asked.fn = "zmul" /\ n \in {asked.b, asked.c} /\ val[n] = Abs(asked.was[n])

(* The recursions end: every call returns or fails.                        *)
CallEnds == <>(status \in {"returned", "jumped"})
=============================================================================
