------------------------- MODULE ZahlProductsProofs -------------------------
(* The stack of temporary numbers in zmul and zsqr, for numbers of any     *)
(* size and recursions of any depth: StackOrder and FailureCostsSigns are  *)
(* invariants of the specification.                                        *)
(*                                                                         *)
(* Both are about what an activation has on the stack at a step of its     *)
(* body, and the activations that wait below it.  Stacked says so: the     *)
(* stack is the activations' temporaries, one activation's above the       *)
(* other's, and how many one has follows from the step it is at.           *)
EXTENDS ZahlProducts, SequenceTheorems, TLAPS

-----------------------------------------------------------------------------
(* The temporaries of a body in the order of their initialisation, and how *)
(* many of them are there before a step.                                   *)
Temps(plan) == CASE plan = "zmul_ll"    -> <<"b_high", "b_low", "c_high", "c_low">>
                 [] plan = "both_parts" -> <<"z0", "z1">>
                 [] OTHER               -> <<>>

Held(plan, pc) ==
  IF pc = 0 THEN 0
  ELSE IF plan = "zmul_ll" THEN
    (IF pc <= 5 THEN pc - 1 ELSE IF pc <= 18 THEN 4 ELSE 22 - pc)
  ELSE IF plan = "both_parts" THEN
    (IF pc <= 3 THEN pc - 1 ELSE IF pc <= 10 THEN 2 ELSE 12 - pc)
  ELSE 0

Count(f) == Held(f.plan, f.pc)
Top(f)   == f.height + Count(f)

-----------------------------------------------------------------------------
(* The inductive invariant.                                                *)

Plans   == {"zmul", "zmul_ll", "zsqr", "zsqr_ll", "high_only", "both_parts"}
Fields  == {"plan", "parts", "pc", "delim", "signs", "height"}

Sequence(s) == s \in Seq({ s[i] : i \in 1 .. Len(s) })

Activated(f) ==
  /\ Fields \subseteq DOMAIN f
  /\ f.plan \in Plans /\ f.pc \in Nat /\ f.height \in Nat
  /\ f.pc <= Len(Steps(f.plan)) + 1
  /\ f.plan = "zsqr_ll" => f.pc = 0
  /\ f.plan \in {"high_only", "both_parts"} => f.pc > 0

Shape ==
  /\ Sequence(calls) /\ \A i \in 1 .. Depth : Activated(calls[i])
  /\ tempStack \in Seq(Nat \X Locals)
  /\ status \in {"run", "unwind", "jumped", "returned"}

(* Where the temporaries of each activation are.                           *)
Stacked ==
  /\ \A i \in 1 .. Depth :
       /\ calls[i].height = IF i = 1 THEN 0 ELSE Top(calls[i - 1])
       /\ \A k \in 1 .. Count(calls[i]) :
            tempStack[calls[i].height + k] = <<i, Temps(calls[i].plan)[k]>>
       /\ \A j \in 1 .. calls[i].height : tempStack[j][1] < i
  /\ \A i, j \in 1 .. Depth : i < j => Top(calls[i]) <= calls[j].height
  /\ Depth > 0 => Len(tempStack) = Top(Frame)

StackInv ==
  /\ Shape
  /\ status = "run" => Stacked
  /\ \A j \in 1 .. Len(tempStack) : tempStack[j][1] <= Depth
  /\ status \in {"returned", "jumped"} => tempStack = <<>>

(* Whom the activations work for: the outermost one for the program, the   *)
(* others for what that stores its product in, or for a local.             *)
Temporaries == {"b_high", "b_low", "c_high", "c_low", "z0", "z1"}

Serves(f, i) ==
  /\ {"a", "b"} \subseteq DOMAIN f.parts
  /\ f.plan \in {"zmul", "zmul_ll"} => "c" \in DOMAIN f.parts
  /\ Temporaries \cap DOMAIN f.parts = {}
  /\ f.parts.a.of = asked.a \/ f.parts.a.of \notin Reg
  /\ f.plan \in {"zmul", "zsqr"} => i = 1

Outermost(f) ==
  /\ f.plan \in {"zmul", "zsqr"} /\ f.plan = asked.fn
  /\ f.parts = [a |-> Whole(asked.a), b |-> Whole(asked.b), c |-> Whole(asked.c)]

(* The signs zmul has noted, unless its operand is overwritten anyhow.     *)
SignsOf(n) == { Sign(asked.was[n]), Sign(Abs(asked.was[n])) }
Noted(f) ==
  f.plan = "zmul" =>
    /\ f.pc > 1 => "b" \in DOMAIN f.signs /\ (asked.b # asked.a => f.signs["b"] \in SignsOf(asked.b))
    /\ f.pc > 2 => "c" \in DOMAIN f.signs /\ (asked.c # asked.a => f.signs["c"] \in SignsOf(asked.c))

Spared(n) == \/ val[n] = asked.was[n]
             \/ asked.fn = "zmul" /\ n \in {asked.b, asked.c} /\ val[n] = Abs(asked.was[n])

Asked == /\ asked.a \in Reg /\ asked.b \in Reg /\ asked.c \in Reg
         /\ \A n \in Reg : asked.was[n] \in Int
Kept  == Reg \subseteq DOMAIN val /\ \A n \in Reg \ {asked.a} : Spared(n)
Served == /\ \A i \in 1 .. Depth : Serves(calls[i], i)
          /\ Depth > 0 => Outermost(calls[1]) /\ Noted(calls[1])

ValueInv == Asked /\ Kept /\ Served

-----------------------------------------------------------------------------
(* The bodies, step by step.                                               *)

(* zmul_ll initialises four temporaries and ends by freeing them.          *)
LEMMA ZmulLlBody ==
  /\ Len(ZmulLlSteps) = 21
  /\ \A i \in 1 .. 21 :
       /\ ZmulLlSteps[i][1] =
            CASE i \in 1 .. 4          -> "init"
              [] i \in 5 .. 6          -> "split"
              [] i \in {7, 10, 11}     -> "mul"
              [] i \in {8, 9, 16, 17}  -> "add"
              [] i \in {12, 13}        -> "sub"
              [] i \in {14, 15}        -> "shift"
              [] i \in 18 .. 21        -> "free"
       /\ ZmulLlSteps[i][2] =
            CASE i \in {1, 5, 21}                  -> "b_high"
              [] i \in {2, 8, 10, 12, 13, 14, 20}  -> "b_low"
              [] i \in {3, 6, 19}                  -> "c_high"
              [] i \in {4, 9, 11, 15, 18}          -> "c_low"
              [] OTHER                             -> "a"
       /\ i \in 5 .. 6 => ZmulLlSteps[i][3] \in {"b_low", "c_low"}
<1>1. Len(ZmulLlSteps) = 21
  BY DEF ZmulLlSteps, FreeTemps
<1>2. \A i \in 1 .. 21 : ZmulLlSteps[i][1] =
        CASE i \in 1 .. 4          -> "init"
          [] i \in 5 .. 6          -> "split"
          [] i \in {7, 10, 11}     -> "mul"
          [] i \in {8, 9, 16, 17}  -> "add"
          [] i \in {12, 13}        -> "sub"
          [] i \in {14, 15}        -> "shift"
          [] i \in 18 .. 21        -> "free"
  BY DEF ZmulLlSteps, FreeTemps
<1>3. \A i \in 1 .. 21 : ZmulLlSteps[i][2] =
        CASE i \in {1, 5, 21}                  -> "b_high"
          [] i \in {2, 8, 10, 12, 13, 14, 20}  -> "b_low"
          [] i \in {3, 6, 19}                  -> "c_high"
          [] i \in {4, 9, 11, 15, 18}          -> "c_low"
          [] OTHER                             -> "a"
  BY DEF ZmulLlSteps, FreeTemps
<1>4. \A i \in 5 .. 6 : ZmulLlSteps[i][3] \in {"b_low", "c_low"}
  BY DEF ZmulLlSteps, FreeTemps
<1> QED BY <1>1, <1>2, <1>3, <1>4

(* zsqr_ll initialises two temporaries and ends by freeing them.           *)
LEMMA BothPartsBody ==
  /\ Len(BothPartsSteps) = 11
  /\ \A i \in 1 .. 11 :
       /\ BothPartsSteps[i][1] =
            CASE i \in 1 .. 2    -> "init"
              [] i \in {3, 6}    -> "sqr"
              [] i = 4           -> "mul"
              [] i \in {5, 7}    -> "shift"
              [] i \in {8, 9}    -> "add"
              [] i \in 10 .. 11  -> "free"
       /\ BothPartsSteps[i][2] =
            CASE i \in {1, 3, 11}     -> "z0"
              [] i \in {2, 4, 5, 10}  -> "z1"
              [] OTHER                -> "a"
<1>1. Len(BothPartsSteps) = 11
  BY DEF BothPartsSteps
<1>2. \A i \in 1 .. 11 : BothPartsSteps[i][1] =
        CASE i \in 1 .. 2    -> "init"
          [] i \in {3, 6}    -> "sqr"
          [] i = 4           -> "mul"
          [] i \in {5, 7}    -> "shift"
          [] i \in {8, 9}    -> "add"
          [] i \in 10 .. 11  -> "free"
  BY DEF BothPartsSteps
<1>3. \A i \in 1 .. 11 : BothPartsSteps[i][2] =
        CASE i \in {1, 3, 11}     -> "z0"
          [] i \in {2, 4, 5, 10}  -> "z1"
          [] OTHER                -> "a"
  BY DEF BothPartsSteps
<1> QED BY <1>1, <1>2, <1>3

(* The bodies without temporaries.                                         *)
LEMMA OtherBodies ==
  /\ Len(ZmulSteps) = 6 /\ Len(ZsqrSteps) = 2 /\ Len(HighOnlySteps) = 2
  /\ \A i \in 1 .. 6 :
       /\ ZmulSteps[i][1] = CASE i \in {1, 2} -> "abs"
                              [] i = 3        -> "mul"
                              [] i \in {4, 5} -> "restore"
                              [] i = 6        -> "sign"
       /\ i \in {1, 5} => ZmulSteps[i][2] = "b"
       /\ i \in {2, 4} => ZmulSteps[i][2] = "c"
       /\ i = 3 => ZmulSteps[i][2] = "a"
  /\ \A i \in 1 .. 2 : ZsqrSteps[i][1] = IF i = 1 THEN "sqr" ELSE "positive"
  /\ ZsqrSteps[1][2] = "a"
  /\ \A i \in 1 .. 2 : /\ HighOnlySteps[i][1] = IF i = 1 THEN "sqr" ELSE "shift"
                       /\ HighOnlySteps[i][2] = "a"
BY DEF ZmulSteps, ZsqrSteps, HighOnlySteps

(* How long a body is.                                                     *)
LEMMA Lengths ==
  ASSUME NEW plan \in Plans
  PROVE  /\ plan = "zmul" => Steps(plan) = ZmulSteps /\ Len(Steps(plan)) = 6
         /\ plan = "zmul_ll" => Steps(plan) = ZmulLlSteps /\ Len(Steps(plan)) = 21
         /\ plan = "zsqr" => Steps(plan) = ZsqrSteps /\ Len(Steps(plan)) = 2
         /\ plan = "zsqr_ll" => Len(Steps(plan)) = 0
         /\ plan = "high_only" => Steps(plan) = HighOnlySteps /\ Len(Steps(plan)) = 2
         /\ plan = "both_parts" => Steps(plan) = BothPartsSteps /\ Len(Steps(plan)) = 11
BY ZmulLlBody, BothPartsBody, OtherBodies DEF Steps

(* How many temporaries there are.                                         *)
LEMMA ZmulLlHolds ==
  ASSUME NEW plan \in Plans, plan = "zmul_ll", NEW i \in Nat
  PROVE  /\ i = 0 => Held(plan, i) = 0
         /\ i \in 1 .. 5 => Held(plan, i) = i - 1
         /\ i \in 5 .. 18 => Held(plan, i) = 4
         /\ i \in 18 .. 22 => Held(plan, i) = 22 - i
<1>1. Held(plan, i) = IF i = 0 THEN 0
                      ELSE IF i <= 5 THEN i - 1 ELSE IF i <= 18 THEN 4 ELSE 22 - i
  BY DEF Held
<1> QED BY <1>1

(* What zsqr_ll holds follows from its body likewise.                      *)
LEMMA BothPartsHolds ==
  ASSUME NEW plan \in Plans, plan = "both_parts", NEW i \in Nat
  PROVE  /\ i = 0 => Held(plan, i) = 0
         /\ i \in 1 .. 3 => Held(plan, i) = i - 1
         /\ i \in 3 .. 10 => Held(plan, i) = 2
         /\ i \in 10 .. 12 => Held(plan, i) = 12 - i
<1>1. /\ i = 0 => Held(plan, i) = 0
      /\ i # 0 /\ i <= 3 => Held(plan, i) = i - 1
      /\ i # 0 /\ ~ (i <= 3) /\ i <= 10 => Held(plan, i) = 2
      /\ i # 0 /\ ~ (i <= 3) /\ ~ (i <= 10) => Held(plan, i) = 12 - i
  BY Zenon DEF Held
<1>2. /\ i \in 1 .. 3 => Held(plan, i) = i - 1
      /\ i \in 3 .. 10 => Held(plan, i) = 2
      /\ i \in 10 .. 12 => Held(plan, i) = 12 - i
  BY <1>1
<1> QED BY <1>1, <1>2

(* The other bodies hold nothing.                                          *)
LEMMA OtherHolds ==
  ASSUME NEW plan \in Plans, plan # "zmul_ll", plan # "both_parts", NEW i \in Nat
  PROVE  Held(plan, i) = 0
BY DEF Held

(* Before a body and after it, nothing is on the stack.                    *)
LEMMA NothingHeld ==
  ASSUME NEW plan \in Plans
  PROVE  /\ Len(Steps(plan)) \in Nat
         /\ Held(plan, 0) = 0 /\ Held(plan, 1) = 0
         /\ Held(plan, Len(Steps(plan)) + 1) = 0
         /\ \A i \in Nat : i <= Len(Steps(plan)) + 1 => Held(plan, i) \in Nat
<1>1. CASE plan = "zmul_ll"
  <2>1. Len(Steps(plan)) = 21
    BY <1>1, Lengths
  <2>2. ASSUME NEW i \in Nat, i <= 22
        PROVE  Held(plan, i) \in Nat
    <3>1. i = 0 \/ i \in 1 .. 5 \/ i \in 5 .. 18 \/ i \in 18 .. 22
      BY <2>2
    <3>2. /\ i = 0 => Held(plan, i) = 0
          /\ i \in 1 .. 5 => Held(plan, i) = i - 1
          /\ i \in 5 .. 18 => Held(plan, i) = 4
          /\ i \in 18 .. 22 => Held(plan, i) = 22 - i
      BY <1>1, ZmulLlHolds
    <3> QED BY <2>2, <3>1, <3>2
  <2>3. 0 \in Nat /\ 1 \in Nat /\ 22 \in Nat /\ 1 \in 1 .. 5 /\ 22 \in 18 .. 22
    OBVIOUS
  <2>4. Held(plan, 0) = 0 /\ Held(plan, 1) = 1 - 1 /\ Held(plan, 22) = 22 - 22
    BY <1>1, <2>3, ZmulLlHolds, Zenon
  <2> QED BY <2>1, <2>2, <2>4
<1>2. CASE plan = "both_parts"
  <2>1. Len(Steps(plan)) = 11
    BY <1>2, Lengths
  <2>2. ASSUME NEW i \in Nat, i <= 12
        PROVE  Held(plan, i) \in Nat
    <3>1. i = 0 \/ i \in 1 .. 3 \/ i \in 3 .. 10 \/ i \in 10 .. 12
      BY <2>2
    <3>2. /\ i = 0 => Held(plan, i) = 0
          /\ i \in 1 .. 3 => Held(plan, i) = i - 1
          /\ i \in 3 .. 10 => Held(plan, i) = 2
          /\ i \in 10 .. 12 => Held(plan, i) = 12 - i
      BY <1>2, BothPartsHolds
    <3> QED BY <2>2, <3>1, <3>2
  <2>3. 0 \in Nat /\ 1 \in Nat /\ 12 \in Nat /\ 1 \in 1 .. 3 /\ 12 \in 10 .. 12
    OBVIOUS
  <2>4. Held(plan, 0) = 0 /\ Held(plan, 1) = 1 - 1 /\ Held(plan, 12) = 12 - 12
    BY <1>2, <2>3, BothPartsHolds, Zenon
  <2> QED BY <2>1, <2>2, <2>4
<1>3. CASE plan # "zmul_ll" /\ plan # "both_parts"
  <2>1. Len(Steps(plan)) \in {6, 2, 0}
    BY <1>3, Lengths DEF Plans
  <2>2. \A i \in Nat : Held(plan, i) = 0
    BY <1>3, OtherHolds
  <2> QED BY <2>1, <2>2
<1> QED BY <1>1, <1>2, <1>3

(* The bodies of the other plans leave the stack alone.                    *)
LEMMA NoTemps ==
  ASSUME NEW plan \in Plans, plan # "zmul_ll", plan # "both_parts",
         NEW i \in 1 .. Len(Steps(plan))
  PROVE  Steps(plan)[i][1] \notin {"init", "free"}
<1>1. CASE plan = "zmul"
  <2>1. Steps(plan) = ZmulSteps /\ i \in 1 .. 6
    BY <1>1, Lengths
  <2> QED BY <2>1, OtherBodies
<1>2. CASE plan = "zsqr"
  <2>1. Steps(plan) = ZsqrSteps /\ i \in 1 .. 2
    BY <1>2, Lengths
  <2>2. ZsqrSteps[1][1] = "sqr" /\ ZsqrSteps[2][1] = "positive"
    BY DEF ZsqrSteps
  <2> QED BY <2>1, <2>2
<1>3. CASE plan = "zsqr_ll"
  <2>1. i \in 1 .. 0
    BY <1>3, Lengths
  <2> QED BY <2>1
<1>4. CASE plan = "high_only"
  <2>1. Steps(plan) = HighOnlySteps /\ i \in 1 .. 2
    BY <1>4, Lengths
  <2>2. HighOnlySteps[1][1] = "sqr" /\ HighOnlySteps[2][1] = "shift"
    BY DEF HighOnlySteps
  <2> QED BY <2>1, <2>2
<1> QED BY <1>1, <1>2, <1>3, <1>4 DEF Plans

(* A temporary that is initialised is the next one.                        *)
LEMMA NextTemp ==
  ASSUME NEW plan \in Plans, NEW i \in 1 .. Len(Steps(plan)), Steps(plan)[i][1] = "init"
  PROVE  /\ Held(plan, i + 1) = Held(plan, i) + 1
         /\ Steps(plan)[i][2] = Temps(plan)[Held(plan, i) + 1]
         /\ Steps(plan)[i][2] \in Locals
<1>1. CASE plan = "zmul_ll"
  <2>1. i \in 1 .. 21 /\ Steps(plan) = ZmulLlSteps
    BY <1>1, Lengths
  <2>2. i \in 1 .. 4
    BY <2>1, ZmulLlBody
  <2>3. i \in Nat /\ i + 1 \in Nat /\ i \in 1 .. 5 /\ i + 1 \in 1 .. 5
    BY <2>2
  <2>4. Held(plan, i) = i - 1 /\ Held(plan, i + 1) = (i + 1) - 1
    BY <1>1, <2>3, ZmulLlHolds, Zenon
  <2>5. Temps(plan) = <<"b_high", "b_low", "c_high", "c_low">>
    BY <1>1 DEF Temps
  <2>6. Steps(plan)[i][2] = Temps(plan)[i]
    BY <2>1, <2>2, <2>5, ZmulLlBody
  <2>7. Temps(plan)[i] \in Locals
    BY <2>2, <2>5 DEF Locals
  <2>8. i - 1 + 1 = i /\ (i + 1) - 1 = i - 1 + 1
    BY <2>3
  <2> QED BY <2>4, <2>6, <2>7, <2>8
<1>2. CASE plan = "both_parts"
  <2>1. i \in 1 .. 11 /\ Steps(plan) = BothPartsSteps
    BY <1>2, Lengths
  <2>2. i \in 1 .. 2
    BY <2>1, BothPartsBody
  <2>3. i \in Nat /\ i + 1 \in Nat /\ i \in 1 .. 3 /\ i + 1 \in 1 .. 3
    BY <2>2
  <2>4. Held(plan, i) = i - 1 /\ Held(plan, i + 1) = (i + 1) - 1
    BY <1>2, <2>3, BothPartsHolds, Zenon
  <2>5. Temps(plan) = <<"z0", "z1">>
    BY <1>2 DEF Temps
  <2>6. Steps(plan)[i][2] = Temps(plan)[i]
    BY <2>1, <2>2, <2>5, BothPartsBody
  <2>7. Temps(plan)[i] \in Locals
    BY <2>2, <2>5 DEF Locals
  <2>8. i - 1 + 1 = i /\ (i + 1) - 1 = i - 1 + 1
    BY <2>3
  <2> QED BY <2>4, <2>6, <2>7, <2>8
<1> QED BY <1>1, <1>2, NoTemps

(* A temporary that is freed is the last one.                              *)
LEMMA LastTemp ==
  ASSUME NEW plan \in Plans, NEW i \in 1 .. Len(Steps(plan)), Steps(plan)[i][1] = "free"
  PROVE  /\ Held(plan, i) > 0 /\ Held(plan, i + 1) = Held(plan, i) - 1
         /\ Steps(plan)[i][2] = Temps(plan)[Held(plan, i)]
<1>1. CASE plan = "zmul_ll"
  <2>1. i \in 1 .. 21 /\ Steps(plan) = ZmulLlSteps
    BY <1>1, Lengths
  <2>2. i \in 18 .. 21
    BY <2>1, ZmulLlBody
  <2>3. i \in Nat /\ i + 1 \in Nat /\ i \in 18 .. 22 /\ i + 1 \in 18 .. 22
    BY <2>2
  <2>4. Held(plan, i) = 22 - i /\ Held(plan, i + 1) = 22 - (i + 1)
    BY <1>1, <2>3, ZmulLlHolds, Zenon
  <2>5. Temps(plan) = <<"b_high", "b_low", "c_high", "c_low">>
    BY <1>1 DEF Temps
  <2>6. Steps(plan)[i][2] = Temps(plan)[22 - i]
    BY <2>1, <2>2, <2>5, ZmulLlBody
  <2>7. 22 - i > 0 /\ 22 - (i + 1) = 22 - i - 1
    BY <2>2
  <2> QED BY <2>4, <2>6, <2>7
<1>2. CASE plan = "both_parts"
  <2>1. i \in 1 .. 11 /\ Steps(plan) = BothPartsSteps
    BY <1>2, Lengths
  <2>2. i \in 10 .. 11
    BY <2>1, BothPartsBody
  <2>3. i \in Nat /\ i + 1 \in Nat /\ i \in 10 .. 12 /\ i + 1 \in 10 .. 12
    BY <2>2
  <2>4. Held(plan, i) = 12 - i /\ Held(plan, i + 1) = 12 - (i + 1)
    BY <1>2, <2>3, BothPartsHolds, Zenon
  <2>5. Temps(plan) = <<"z0", "z1">>
    BY <1>2 DEF Temps
  <2>6. Steps(plan)[i][2] = Temps(plan)[12 - i]
    BY <2>1, <2>2, <2>5, BothPartsBody
  <2>7. 12 - i > 0 /\ 12 - (i + 1) = 12 - i - 1
    BY <2>2
  <2> QED BY <2>4, <2>6, <2>7
<1> QED BY <1>1, <1>2, NoTemps

(* The other steps leave the temporaries where they are.                   *)
LEMMA SameTemps ==
  ASSUME NEW plan \in Plans, NEW i \in 1 .. Len(Steps(plan)),
         Steps(plan)[i][1] \notin {"init", "free"}
  PROVE  Held(plan, i + 1) = Held(plan, i)
<1>1. CASE plan = "zmul_ll"
  <2>1. i \in 1 .. 21 /\ Steps(plan) = ZmulLlSteps
    BY <1>1, Lengths
  <2>2. i \in 5 .. 17
    BY <2>1, ZmulLlBody
  <2>3. i \in Nat /\ i + 1 \in Nat /\ i \in 5 .. 18 /\ i + 1 \in 5 .. 18
    BY <2>2
  <2> QED BY <1>1, <2>3, ZmulLlHolds, Zenon
<1>2. CASE plan = "both_parts"
  <2>1. i \in 1 .. 11 /\ Steps(plan) = BothPartsSteps
    BY <1>2, Lengths
  <2>2. i \in 3 .. 9
    BY <2>1, BothPartsBody
  <2>3. i \in Nat /\ i + 1 \in Nat /\ i \in 3 .. 10 /\ i + 1 \in 3 .. 10
    BY <2>2
  <2> QED BY <1>2, <2>3, BothPartsHolds, Zenon
<1>3. CASE plan # "zmul_ll" /\ plan # "both_parts"
  <2>1. Len(Steps(plan)) \in Nat
    BY NothingHeld
  <2>2. i \in Nat /\ i + 1 \in Nat
    BY <2>1
  <2> QED BY <1>3, <2>2, OtherHolds, Zenon
<1> QED BY <1>1, <1>2, <1>3

-----------------------------------------------------------------------------
(* What the operations on the sequences make of them.                      *)
LEMMA OwnRange ==
  ASSUME NEW S, NEW s \in Seq(S)
  PROVE  Sequence(s)
<1> DEFINE T == { s[i] : i \in 1 .. Len(s) }
<1>1. Len(s) \in Nat /\ s \in [1 .. Len(s) -> S]
  BY LenProperties
<1>2. s \in [1 .. Len(s) -> T]
  BY <1>1
<1>3. s \in Seq(T)
  BY <1>1, <1>2, SeqDef
<1> QED BY <1>3 DEF Sequence

Replaced(s, n, e) == [s EXCEPT ![n] = e]

(* A sequence of activations, with one of them replaced.                   *)
LEMMA Updated ==
  ASSUME NEW s, Sequence(s), NEW n \in 1 .. Len(s), NEW e
  PROVE  /\ Sequence(Replaced(s, n, e)) /\ Len(Replaced(s, n, e)) = Len(s)
         /\ Replaced(s, n, e)[n] = e
         /\ \A i \in 1 .. Len(s) : i # n => Replaced(s, n, e)[i] = s[i]
<1> DEFINE S == { s[i] : i \in 1 .. Len(s) } \cup {e}
           t == [s EXCEPT ![n] = e]
<1>1. s \in Seq(S)
  BY SeqMonotonic DEF Sequence
<1>2. t \in Seq(S) /\ Len(t) = Len(s)
  BY <1>1
<1>3. t[n] = e /\ \A i \in 1 .. Len(s) : i # n => t[i] = s[i]
  BY <1>1
<1>4. Sequence(t)
  BY <1>2, OwnRange
<1> QED BY <1>2, <1>3, <1>4 DEF Replaced

(* With one more.                                                          *)
LEMMA Longer ==
  ASSUME NEW s, Sequence(s), NEW e
  PROVE  /\ Sequence(Append(s, e)) /\ Len(Append(s, e)) = Len(s) + 1
         /\ \A i \in 1 .. Len(s) : Append(s, e)[i] = s[i]
         /\ Append(s, e)[Len(s) + 1] = e
<1> DEFINE S == { s[i] : i \in 1 .. Len(s) } \cup {e}
           t == Append(s, e)
<1>1. s \in Seq(S)
  BY SeqMonotonic DEF Sequence
<1>2. t \in Seq(S) /\ Len(t) = Len(s) + 1
  BY <1>1
<1>3. (\A i \in 1 .. Len(s) : t[i] = s[i]) /\ t[Len(s) + 1] = e
  BY <1>1
<1>4. Sequence(t)
  BY <1>2, OwnRange
<1> QED BY <1>2, <1>3, <1>4

(* Without the last.                                                       *)
LEMMA Shorter ==
  ASSUME NEW s, Sequence(s), s # <<>>, NEW t, t = Front(s)
  PROVE  /\ Sequence(t) /\ Len(t) = Len(s) - 1
         /\ \A i \in 1 .. Len(s) - 1 : t[i] = s[i]
<1> DEFINE S == { s[i] : i \in 1 .. Len(s) }
<1>1. s \in Seq(S) /\ Len(s) \in Nat /\ Len(s) # 0
  BY EmptySeq DEF Sequence
<1>2. 1 \in Int /\ Len(s) - 1 \in Int /\ \A i \in 1 .. Len(s) - 1 : s[i] \in S
  BY <1>1
<1>3. /\ t \in Seq(S)
      /\ Len(t) = IF 1 <= Len(s) - 1 THEN (Len(s) - 1) - 1 + 1 ELSE 0
      /\ \A i \in 1 .. (Len(s) - 1) - 1 + 1 : t[i] = s[1 + i - 1]
  BY <1>2, SubSeqProperties DEF Front
<1>4. Len(t) = Len(s) - 1
  <2> DEFINE n == Len(s)
             m == Len(t)
  <2>1. n \in Nat /\ n # 0 /\ m = IF 1 <= n - 1 THEN (n - 1) - 1 + 1 ELSE 0
    BY <1>1, <1>3
  <2> HIDE DEF n, m
  <2>2. m = n - 1
    BY <2>1
  <2> QED BY <2>2 DEF n, m
<1>5. \A i \in 1 .. Len(s) - 1 : t[i] = s[i]
  BY <1>1, <1>3
<1> QED BY <1>3, <1>4, <1>5, OwnRange

(* The same of a sequence over a known set.                                *)
LEMMA FrontIsShorter ==
  ASSUME NEW S, NEW s \in Seq(S), Len(s) > 0
  PROVE  /\ Front(s) \in Seq(S) /\ Len(Front(s)) = Len(s) - 1
         /\ \A i \in 1 .. Len(s) - 1 : Front(s)[i] = s[i]
<1>1. Len(s) \in Nat
  BY LenProperties
<1>2. 1 \in Int /\ Len(s) - 1 \in Int /\ \A i \in 1 .. Len(s) - 1 : s[i] \in S
  BY <1>1
<1>3. Front(s) \in Seq(S)
  BY <1>2, SubSeqProperties DEF Front
<1>4. s # <<>>
  OBVIOUS
<1>5. /\ Len(Front(s)) = Len(s) - 1
      /\ \A i \in 1 .. Len(s) - 1 : Front(s)[i] = s[i]
  BY <1>4, OwnRange, Shorter
<1> QED BY <1>3, <1>5

-----------------------------------------------------------------------------
(* The innermost activation.                                               *)
LEMMA Innermost ==
  ASSUME StackInv, Running
  PROVE  /\ Depth \in Nat /\ Depth > 0 /\ Depth \in 1 .. Depth
         /\ Sequence(calls) /\ calls # <<>>
         /\ Activated(Frame) /\ Stacked
         /\ Count(Frame) \in Nat /\ Frame.height \in Nat
         /\ Len(tempStack) \in Nat /\ Len(tempStack) = Frame.height + Count(Frame)
<1>1. Sequence(calls) /\ calls # <<>> /\ Stacked /\ tempStack \in Seq(Nat \X Locals)
  BY DEF StackInv, Shape, Running
<1>2. Len(calls) \in Nat /\ Len(calls) # 0 /\ Len(tempStack) \in Nat
  BY <1>1, EmptySeq DEF Sequence
<1>3. Depth \in Nat /\ Depth > 0 /\ Depth \in 1 .. Depth
  BY <1>2 DEF Depth
<1>4. Activated(Frame)
  BY <1>3 DEF StackInv, Shape, Frame
<1>5. Count(Frame) \in Nat /\ Frame.height \in Nat
  BY <1>4, NothingHeld DEF Activated, Count
<1>6. Len(tempStack) = Frame.height + Count(Frame)
  BY <1>1, <1>3 DEF Stacked, Top
<1> QED BY <1>1, <1>2, <1>3, <1>4, <1>5, <1>6

(* Each activation has a number of temporaries.                            *)
LEMMA Counts ==
  ASSUME StackInv
  PROVE  /\ Depth \in Nat
         /\ \A i \in 1 .. Depth : Count(calls[i]) \in Nat /\ calls[i].height \in Nat
<1>1. Depth \in Nat
  BY DEF StackInv, Shape, Sequence, Depth
<1>2. ASSUME NEW i \in 1 .. Depth
      PROVE  Count(calls[i]) \in Nat /\ calls[i].height \in Nat
  <2>1. Activated(calls[i])
    BY DEF StackInv, Shape
  <2> QED BY <2>1, NothingHeld DEF Activated, Count
<1> QED BY <1>1, <1>2

(* The innermost activation is replaced.                                   *)
LEMMA InnermostReplaced ==
  ASSUME StackInv, Running, NEW g, calls' = [calls EXCEPT ![Depth] = g]
  PROVE  /\ Sequence(calls') /\ Len(calls') = Depth /\ Depth' = Depth
         /\ calls'[Depth] = g /\ Frame' = g
         /\ \A i \in 1 .. Depth : i # Depth => calls'[i] = calls[i]
<1>1. Depth \in Nat /\ Depth \in 1 .. Depth /\ Sequence(calls)
  BY Innermost
<1>2. calls' = Replaced(calls, Depth, g)
  BY DEF Replaced
<1>3. Depth \in 1 .. Len(calls)
  BY <1>1 DEF Depth
<1>4. /\ Sequence(Replaced(calls, Depth, g)) /\ Len(Replaced(calls, Depth, g)) = Len(calls)
      /\ Replaced(calls, Depth, g)[Depth] = g
      /\ \A i \in 1 .. Len(calls) : i # Depth => Replaced(calls, Depth, g)[i] = calls[i]
  BY <1>1, <1>3, Updated
<1>5. /\ Sequence(calls') /\ Len(calls') = Depth /\ calls'[Depth] = g
      /\ \A i \in 1 .. Depth : i # Depth => calls'[i] = calls[i]
  BY <1>2, <1>4 DEF Depth
<1>6. Depth' = Depth /\ Frame' = calls'[Depth]
  BY <1>5 DEF Depth, Frame
<1> QED BY <1>5, <1>6

(* The innermost activation goes on, and all that it does on the stack is  *)
(* above its height.                                                       *)
LEMMA GoesOn ==
  ASSUME StackInv, Running, NEW g, Activated(g), g.height = Frame.height,
         calls' = [calls EXCEPT ![Depth] = g],
         tempStack' \in Seq(Nat \X Locals), Len(tempStack') = Top(g),
         \A j \in 1 .. Frame.height : tempStack'[j] = tempStack[j],
         \A k \in 1 .. Count(g) : tempStack'[g.height + k] = <<Depth, Temps(g.plan)[k]>>,
         status' = status
  PROVE  StackInv'
<1>1. /\ Depth \in Nat /\ Depth > 0 /\ Depth \in 1 .. Depth /\ Stacked
      /\ Frame.height \in Nat /\ status = "run"
  BY Innermost DEF Running
<1>2. Count(g) \in Nat /\ Top(g) \in Nat /\ g.height <= Top(g)
  <2>1. Count(g) \in Nat
    BY NothingHeld DEF Activated, Count
  <2> QED BY <2>1, <1>1 DEF Top
<1>3. /\ Sequence(calls') /\ Len(calls') = Depth /\ Depth' = Depth
      /\ calls'[Depth] = g /\ Frame' = g
      /\ \A i \in 1 .. Depth : i # Depth => calls'[i] = calls[i]
  BY InnermostReplaced
<1>4. \A i \in 1 .. Depth : Activated(calls'[i]) /\ calls'[i].height = calls[i].height
  <2> SUFFICES ASSUME NEW i \in 1 .. Depth
               PROVE  Activated(calls'[i]) /\ calls'[i].height = calls[i].height
    OBVIOUS
  <2>1. CASE i = Depth
    BY <2>1, <1>3 DEF Frame
  <2>2. CASE i # Depth
    BY <2>2, <1>3 DEF StackInv, Shape
  <2> QED BY <2>1, <2>2
<1>5. Shape'
  BY <1>3, <1>4 DEF StackInv, Shape
<1>6. ASSUME NEW i \in 1 .. Depth
      PROVE  /\ calls'[i].height = IF i = 1 THEN 0 ELSE Top(calls'[i - 1])
             /\ \A k \in 1 .. Count(calls'[i]) :
                  tempStack'[calls'[i].height + k] = <<i, Temps(calls'[i].plan)[k]>>
             /\ \A j \in 1 .. calls'[i].height : tempStack'[j][1] < i
  <2>1. calls[i].height = IF i = 1 THEN 0 ELSE Top(calls[i - 1])
    BY <1>1 DEF Stacked
  <2>2. i # 1 => i - 1 \in 1 .. Depth /\ i - 1 # Depth
    BY <1>1
  <2>3. calls'[i].height = IF i = 1 THEN 0 ELSE Top(calls'[i - 1])
    BY <2>1, <2>2, <1>3, <1>4
  <2>4. calls[i].height \in Nat /\ Count(calls[i]) \in Nat
    BY Counts
  <2>5. i # Depth => calls[i].height + Count(calls[i]) <= Frame.height
    BY <1>1 DEF Stacked, Top, Frame
  <2>6. calls[i].height <= Frame.height
    BY <2>4, <2>5, <1>1 DEF Frame
  <2>7. ASSUME NEW k \in 1 .. Count(calls'[i])
        PROVE  tempStack'[calls'[i].height + k] = <<i, Temps(calls'[i].plan)[k]>>
    <3>1. CASE i = Depth
      BY <3>1, <1>3
    <3>2. CASE i # Depth
      <4>1. k \in 1 .. Count(calls[i]) /\ calls'[i] = calls[i]
        BY <3>2, <1>3
      <4>2. tempStack[calls[i].height + k] = <<i, Temps(calls[i].plan)[k]>>
        BY <1>1, <4>1 DEF Stacked
      <4>3. calls[i].height + k \in 1 .. Frame.height
        BY <4>1, <2>4, <2>5, <3>2, <1>1
      <4> QED BY <4>1, <4>2, <4>3
    <3> QED BY <3>1, <3>2
  <2>8. ASSUME NEW j \in 1 .. calls'[i].height
        PROVE  tempStack'[j][1] < i
    <3>1. j \in 1 .. calls[i].height
      BY <1>4
    <3>2. tempStack[j][1] < i
      BY <3>1, <1>1 DEF Stacked
    <3>3. j \in 1 .. Frame.height
      BY <3>1, <2>4, <2>6, <1>1
    <3> QED BY <3>2, <3>3
  <2> QED BY <2>3, <2>7, <2>8
<1>7. ASSUME NEW i \in 1 .. Depth, NEW j \in 1 .. Depth, i < j
      PROVE  Top(calls'[i]) <= calls'[j].height
  <2>1. i # Depth
    BY <1>1, <1>7
  <2>2. Top(calls[i]) <= calls[j].height
    BY <1>1, <1>7 DEF Stacked
  <2> QED BY <2>1, <2>2, <1>3, <1>4
<1>8. Stacked'
  BY <1>1, <1>3, <1>6, <1>7 DEF Stacked
<1>9. ASSUME NEW j \in 1 .. Len(tempStack')
      PROVE  tempStack'[j][1] <= Depth
  <2>1. j \in 1 .. g.height + Count(g)
    BY DEF Top
  <2>2. CASE j <= g.height
    <3>1. j \in 1 .. calls'[Depth].height
      BY <2>1, <2>2, <1>1, <1>3
    <3>2. tempStack'[j][1] < Depth
      BY <3>1, <1>1, <1>6
    <3>3. tempStack'[j][1] \in Nat
      BY ElementOfSeq
    <3> QED BY <3>2, <3>3, <1>1
  <2>3. CASE ~ (j <= g.height)
    <3>1. j - g.height \in 1 .. Count(g) /\ g.height + (j - g.height) = j
      BY <2>1, <2>3, <1>1, <1>2
    <3>2. tempStack'[j] = <<Depth, Temps(g.plan)[j - g.height]>>
      BY <3>1
    <3> QED BY <3>2, <1>1
  <2> QED BY <2>2, <2>3
<1> QED BY <1>1, <1>3, <1>5, <1>8, <1>9 DEF StackInv

(* It goes on without touching a temporary, initialises the next one, or   *)
(* frees the last one.                                                     *)
LEMMA StaysPut ==
  ASSUME StackInv, Running, NEW g, Activated(g), g.height = Frame.height,
         Count(g) = Count(Frame), Count(Frame) = 0 \/ g.plan = Frame.plan,
         calls' = [calls EXCEPT ![Depth] = g],
         tempStack' = tempStack, status' = status
  PROVE  StackInv'
<1>1. /\ Depth \in 1 .. Depth /\ Stacked /\ Depth > 0
      /\ Len(tempStack) = Frame.height + Count(Frame)
  BY Innermost
<1>2. tempStack' \in Seq(Nat \X Locals)
  BY DEF StackInv, Shape
<1>3. Len(tempStack') = Top(g)
  BY <1>1 DEF Top
<1>4. ASSUME NEW k \in 1 .. Count(g)
      PROVE  tempStack'[g.height + k] = <<Depth, Temps(g.plan)[k]>>
  <2>1. k \in 1 .. Count(Frame) /\ Count(Frame) # 0
    BY <1>4
  <2>2. tempStack[Frame.height + k] = <<Depth, Temps(Frame.plan)[k]>>
    BY <1>1, <2>1 DEF Stacked, Frame
  <2> QED BY <2>1, <2>2
<1> QED BY <1>2, <1>3, <1>4, GoesOn

(* zinit_temp: one more temporary on top of the stack.                     *)
LEMMA Pushes ==
  ASSUME StackInv, Running, NEW g, Activated(g), g.height = Frame.height,
         Count(g) = Count(Frame) + 1, g.plan = Frame.plan,
         calls' = [calls EXCEPT ![Depth] = g],
         NEW name \in Locals, name = Temps(g.plan)[Count(g)],
         tempStack' = Append(tempStack, <<Depth, name>>), status' = status
  PROVE  StackInv'
<1>1. /\ Depth \in Nat /\ Depth \in 1 .. Depth /\ Stacked
      /\ Len(tempStack) = Frame.height + Count(Frame)
      /\ Frame.height \in Nat /\ Count(Frame) \in Nat
  BY Innermost
<1>2. tempStack \in Seq(Nat \X Locals) /\ <<Depth, name>> \in Nat \X Locals
  BY <1>1 DEF StackInv, Shape
<1>3. /\ tempStack' \in Seq(Nat \X Locals) /\ Len(tempStack') = Len(tempStack) + 1
      /\ \A j \in 1 .. Len(tempStack) : tempStack'[j] = tempStack[j]
      /\ tempStack'[Len(tempStack) + 1] = <<Depth, name>>
  BY <1>2
<1>4. Len(tempStack') = Top(g)
  BY <1>1, <1>3 DEF Top
<1>5. \A j \in 1 .. Frame.height : tempStack'[j] = tempStack[j]
  BY <1>1, <1>3
<1>6. ASSUME NEW k \in 1 .. Count(g)
      PROVE  tempStack'[g.height + k] = <<Depth, Temps(g.plan)[k]>>
  <2>1. CASE k = Count(g)
    <3>1. g.height + k = Len(tempStack) + 1
      BY <2>1, <1>1
    <3> QED BY <3>1, <2>1, <1>3
  <2>2. CASE k # Count(g)
    <3>1. k \in 1 .. Count(Frame)
      BY <2>2, <1>1
    <3>2. Frame.height + k \in 1 .. Len(tempStack)
      BY <3>1, <1>1
    <3>3. tempStack[Frame.height + k] = <<Depth, Temps(Frame.plan)[k]>>
      BY <1>1, <3>1 DEF Stacked, Frame
    <3> QED BY <3>2, <3>3, <1>3
  <2> QED BY <2>1, <2>2
<1> QED BY <1>3, <1>4, <1>5, <1>6, GoesOn

(* zfree_temp: the topmost temporary is gone.                              *)
LEMMA Pops ==
  ASSUME StackInv, Running, NEW g, Activated(g), g.height = Frame.height,
         Count(Frame) > 0, Count(g) = Count(Frame) - 1, g.plan = Frame.plan,
         calls' = [calls EXCEPT ![Depth] = g],
         tempStack' = Front(tempStack), status' = status
  PROVE  StackInv'
<1>1. /\ Depth \in Nat /\ Depth \in 1 .. Depth /\ Stacked
      /\ Len(tempStack) = Frame.height + Count(Frame)
      /\ Frame.height \in Nat /\ Count(Frame) \in Nat
  BY Innermost
<1>2. tempStack \in Seq(Nat \X Locals) /\ Len(tempStack) > 0
  BY <1>1 DEF StackInv, Shape
<1>3. /\ tempStack' \in Seq(Nat \X Locals) /\ Len(tempStack') = Len(tempStack) - 1
      /\ \A j \in 1 .. Len(tempStack) - 1 : tempStack'[j] = tempStack[j]
  BY <1>2, FrontIsShorter
<1>4. Len(tempStack') = Top(g)
  BY <1>1, <1>3 DEF Top
<1>5. \A j \in 1 .. Frame.height : tempStack'[j] = tempStack[j]
  <2>1. \A j \in 1 .. Frame.height : j \in 1 .. Len(tempStack) - 1
    BY <1>1
  <2> QED BY <2>1, <1>3
<1>6. ASSUME NEW k \in 1 .. Count(g)
      PROVE  tempStack'[g.height + k] = <<Depth, Temps(g.plan)[k]>>
  <2>1. k \in 1 .. Count(Frame) /\ Frame.height + k \in 1 .. Len(tempStack) - 1
    BY <1>1
  <2>2. tempStack[Frame.height + k] = <<Depth, Temps(Frame.plan)[k]>>
    BY <1>1, <2>1 DEF Stacked, Frame
  <2> QED BY <2>1, <2>2, <1>3
<1> QED BY <1>3, <1>4, <1>5, <1>6, GoesOn

(* A call: the new activation is above the stack as it is.                 *)
LEMMA CallsAnother ==
  ASSUME StackInv, Running, NEW g, Activated(g), g.height = Frame.height,
         Count(g) = Count(Frame), g.plan = Frame.plan,
         NEW h, Activated(h), h.height = Len(tempStack), h.pc = 0,
         calls' = Append([calls EXCEPT ![Depth] = g], h),
         tempStack' = tempStack, status' = status
  PROVE  StackInv' /\ Depth' = Depth + 1 /\ calls'[Depth + 1] = h /\ calls'[Depth] = g
         /\ \A i \in 1 .. Depth : i # Depth => calls'[i] = calls[i]
<1>1. /\ Depth \in Nat /\ Depth > 0 /\ Depth \in 1 .. Depth /\ Stacked /\ Sequence(calls)
      /\ Len(tempStack) = Frame.height + Count(Frame) /\ Len(tempStack) \in Nat
      /\ Frame.height \in Nat /\ Count(Frame) \in Nat /\ status = "run"
  BY Innermost DEF Running
<1> DEFINE c == Replaced(calls, Depth, g)
<1>2. /\ Sequence(c) /\ Len(c) = Depth /\ c[Depth] = g
      /\ \A i \in 1 .. Depth : i # Depth => c[i] = calls[i]
  <2>1. Depth \in 1 .. Len(calls)
    BY <1>1 DEF Depth
  <2>2. /\ Sequence(c) /\ Len(c) = Len(calls) /\ c[Depth] = g
        /\ \A i \in 1 .. Len(calls) : i # Depth => c[i] = calls[i]
    BY <1>1, <2>1, Updated
  <2> QED BY <2>2 DEF Depth
<1>3. calls' = Append(c, h)
  BY DEF Replaced
<1> HIDE DEF c
<1>4. /\ Sequence(calls') /\ Len(calls') = Depth + 1 /\ calls'[Depth + 1] = h
      /\ \A i \in 1 .. Depth : calls'[i] = c[i]
  <2>1. /\ Sequence(Append(c, h)) /\ Len(Append(c, h)) = Len(c) + 1
        /\ Append(c, h)[Len(c) + 1] = h
        /\ \A i \in 1 .. Len(c) : Append(c, h)[i] = c[i]
    BY <1>2, Longer
  <2>2. Len(c) = Depth
    BY <1>2
  <2> QED BY <2>1, <2>2, <1>3
<1>5. Depth' = Depth + 1 /\ Frame' = h
  BY <1>4 DEF Depth, Frame
<1>6. /\ calls'[Depth] = g
      /\ \A i \in 1 .. Depth : i # Depth => calls'[i] = calls[i]
  BY <1>1, <1>2, <1>4
<1>7. \A i \in 1 .. Depth : /\ Activated(calls'[i]) /\ calls'[i].height = calls[i].height
                            /\ Count(calls'[i]) = Count(calls[i])
                            /\ calls'[i].plan = calls[i].plan
  <2> SUFFICES ASSUME NEW i \in 1 .. Depth
               PROVE  /\ Activated(calls'[i]) /\ calls'[i].height = calls[i].height
                      /\ Count(calls'[i]) = Count(calls[i])
                      /\ calls'[i].plan = calls[i].plan
    OBVIOUS
  <2>1. CASE i = Depth
    BY <2>1, <1>6 DEF Frame
  <2>2. CASE i # Depth
    BY <2>2, <1>6 DEF StackInv, Shape
  <2> QED BY <2>1, <2>2
<1>8. \A i \in 1 .. Depth : Top(calls'[i]) = Top(calls[i])
  BY <1>7 DEF Top
<1>9. Count(h) = 0
  BY NothingHeld DEF Activated, Count
<1>10. Shape'
  <2>1. \A i \in 1 .. Depth + 1 : Activated(calls'[i])
    BY <1>1, <1>4, <1>7
  <2> QED BY <2>1, <1>4, <1>5 DEF StackInv, Shape
<1>11. Top(calls[Depth]) = Len(tempStack)
  BY <1>1 DEF Top, Frame
<1>12. ASSUME NEW i \in 1 .. Depth + 1
       PROVE  /\ calls'[i].height = IF i = 1 THEN 0 ELSE Top(calls'[i - 1])
              /\ \A k \in 1 .. Count(calls'[i]) :
                   tempStack'[calls'[i].height + k] = <<i, Temps(calls'[i].plan)[k]>>
              /\ \A j \in 1 .. calls'[i].height : tempStack'[j][1] < i
  <2>1. CASE i = Depth + 1
    <3>1. calls'[i] = h /\ i # 1 /\ i - 1 = Depth
      BY <2>1, <1>1, <1>4
    <3>2. calls'[i].height = Top(calls'[i - 1])
      BY <3>1, <1>1, <1>8, <1>11
    <3>3. ASSUME NEW j \in 1 .. calls'[i].height
          PROVE  tempStack'[j][1] < i
      <4>1. j \in 1 .. Len(tempStack)
        BY <3>1
      <4>2. tempStack[j][1] <= Depth
        BY <4>1 DEF StackInv
      <4>3. tempStack[j][1] \in Nat
        BY <4>1, ElementOfSeq DEF StackInv, Shape
      <4> QED BY <4>2, <4>3, <2>1, <1>1
    <3>4. Count(calls'[i]) = 0
      BY <3>1, <1>9
    <3>5. 1 .. 0 = {}
      OBVIOUS
    <3>6. 1 .. Count(calls'[i]) = {}
      BY <3>4, <3>5, Zenon
    <3> QED BY <3>1, <3>2, <3>3, <3>6
  <2>2. CASE i # Depth + 1
    <3>1. i \in 1 .. Depth
      BY <2>2, <1>1
    <3>2. i # 1 => i - 1 \in 1 .. Depth
      BY <3>1, <1>1
    <3>3. calls[i].height = IF i = 1 THEN 0 ELSE Top(calls[i - 1])
      BY <3>1, <1>1 DEF Stacked
    <3>4. calls'[i].height = IF i = 1 THEN 0 ELSE Top(calls'[i - 1])
      BY <3>1, <3>2, <3>3, <1>7, <1>8
    <3>5. \A k \in 1 .. Count(calls[i]) :
            tempStack[calls[i].height + k] = <<i, Temps(calls[i].plan)[k]>>
      BY <3>1, <1>1 DEF Stacked
    <3>6. \A j \in 1 .. calls[i].height : tempStack[j][1] < i
      BY <3>1, <1>1 DEF Stacked
    <3>7. /\ calls'[i].height = calls[i].height /\ Count(calls'[i]) = Count(calls[i])
          /\ calls'[i].plan = calls[i].plan /\ tempStack' = tempStack
      BY <3>1, <1>7
    <3>8. \A k \in 1 .. Count(calls'[i]) :
            tempStack'[calls'[i].height + k] = <<i, Temps(calls'[i].plan)[k]>>
      BY <3>5, <3>7
    <3>9. \A j \in 1 .. calls'[i].height : tempStack'[j][1] < i
      BY <3>6, <3>7
    <3> QED BY <3>4, <3>8, <3>9
  <2> QED BY <2>1, <2>2
<1>13. ASSUME NEW i \in 1 .. Depth + 1, NEW j \in 1 .. Depth + 1, i < j
       PROVE  Top(calls'[i]) <= calls'[j].height
  <2>1. i \in 1 .. Depth
    BY <1>1, <1>13
  <2>2. calls[i].height \in Nat /\ Count(calls[i]) \in Nat
    BY <2>1, Counts
  <2>3. CASE j = Depth + 1
    <3>1. Top(calls[i]) <= Len(tempStack)
      <4>1. CASE i = Depth
        BY <4>1, <1>1, <1>11
      <4>2. CASE i # Depth
        <5>1. Top(calls[i]) <= Frame.height
          BY <4>2, <2>1, <1>1 DEF Stacked, Frame
        <5> QED BY <5>1, <2>2, <1>1 DEF Top
      <4> QED BY <4>1, <4>2
    <3> QED BY <3>1, <2>1, <2>3, <1>4, <1>8
  <2>4. CASE j # Depth + 1
    <3>1. j \in 1 .. Depth
      BY <2>4, <1>1
    <3>2. Top(calls[i]) <= calls[j].height
      BY <2>1, <3>1, <1>1, <1>13 DEF Stacked
    <3> QED BY <2>1, <3>1, <3>2, <1>7, <1>8
  <2> QED BY <2>3, <2>4
<1>14. Len(tempStack') = Top(Frame')
  BY <1>1, <1>5, <1>9 DEF Top
<1>15. Stacked'
  <2>1. Depth' = Depth + 1
    BY <1>5
  <2>2. \A i, j \in 1 .. Depth + 1 : i < j => Top(calls'[i]) <= calls'[j].height
    BY <1>13
  <2> QED BY <2>1, <2>2, <1>12, <1>14 DEF Stacked
<1>16. \A j \in 1 .. Len(tempStack') : tempStack'[j][1] <= Depth + 1
  <2> SUFFICES ASSUME NEW j \in 1 .. Len(tempStack)
               PROVE  tempStack[j][1] <= Depth + 1
    OBVIOUS
  <2>1. tempStack[j][1] <= Depth
    BY DEF StackInv
  <2>2. tempStack[j][1] \in Nat
    BY ElementOfSeq DEF StackInv, Shape
  <2> QED BY <2>1, <2>2, <1>1
<1> QED BY <1>1, <1>5, <1>4, <1>6, <1>10, <1>15, <1>16 DEF StackInv

(* An activation that has no temporaries ends.                             *)
LEMMA Ends ==
  ASSUME StackInv, Running, Count(Frame) = 0, Return
  PROVE  /\ StackInv' /\ Depth' = Depth - 1
         /\ \A i \in 1 .. Depth - 1 : calls'[i] = calls[i]
<1>1. /\ Depth \in Nat /\ Depth > 0 /\ Depth \in 1 .. Depth /\ Stacked /\ Sequence(calls)
      /\ Len(tempStack) = Frame.height + Count(Frame) /\ Len(tempStack) \in Nat
      /\ Frame.height \in Nat /\ Count(Frame) \in Nat /\ status = "run" /\ calls # <<>>
  BY Innermost DEF Running
<1>2. /\ Sequence(calls') /\ Len(calls') = Depth - 1
      /\ \A i \in 1 .. Depth - 1 : calls'[i] = calls[i]
  BY <1>1, Shorter DEF Return, Depth
<1>3. tempStack' = tempStack /\ status' = IF Depth = 1 THEN "returned" ELSE "run"
  BY <1>1 DEF Return
<1>4. Depth' = Depth - 1
  BY <1>2 DEF Depth
<1>5. \A i \in 1 .. Depth - 1 : i \in 1 .. Depth
  BY <1>1
<1>6. Shape'
  <2>1. \A i \in 1 .. Depth - 1 : Activated(calls'[i])
    BY <1>2, <1>5 DEF StackInv, Shape
  <2> QED BY <2>1, <1>2, <1>3, <1>4 DEF StackInv, Shape
<1>7. Stacked'
  <2>1. ASSUME NEW i \in 1 .. Depth - 1
        PROVE  /\ calls'[i].height = IF i = 1 THEN 0 ELSE Top(calls'[i - 1])
               /\ \A k \in 1 .. Count(calls'[i]) :
                    tempStack'[calls'[i].height + k] = <<i, Temps(calls'[i].plan)[k]>>
               /\ \A j \in 1 .. calls'[i].height : tempStack'[j][1] < i
    <3>1. i # 1 => i - 1 \in 1 .. Depth - 1
      BY <1>1
    <3>2. calls[i].height = IF i = 1 THEN 0 ELSE Top(calls[i - 1])
      BY <1>1, <1>5 DEF Stacked
    <3>3. calls'[i].height = IF i = 1 THEN 0 ELSE Top(calls'[i - 1])
      BY <3>1, <3>2, <1>2
    <3>4. \A k \in 1 .. Count(calls[i]) :
            tempStack[calls[i].height + k] = <<i, Temps(calls[i].plan)[k]>>
      BY <1>1, <1>5 DEF Stacked
    <3>5. \A j \in 1 .. calls[i].height : tempStack[j][1] < i
      BY <1>1, <1>5 DEF Stacked
    <3> QED BY <3>3, <3>4, <3>5, <1>2, <1>3
  <2>2. ASSUME NEW i \in 1 .. Depth - 1, NEW j \in 1 .. Depth - 1, i < j
        PROVE  Top(calls'[i]) <= calls'[j].height
    <3>1. Top(calls[i]) <= calls[j].height
      BY <1>1, <1>5, <2>2 DEF Stacked
    <3> QED BY <3>1, <1>2
  <2>3. Depth - 1 > 0 => Len(tempStack') = Top(calls'[Depth - 1])
    <3> SUFFICES ASSUME Depth - 1 > 0
                 PROVE  Len(tempStack') = Top(calls'[Depth - 1])
      OBVIOUS
    <3>1. Depth # 1 /\ Depth - 1 \in 1 .. Depth - 1
      BY <1>1
    <3>2. Frame.height = Top(calls[Depth - 1])
      BY <3>1, <1>1 DEF Stacked, Frame
    <3>3. Len(tempStack) = Frame.height
      BY <1>1
    <3> QED BY <3>1, <3>2, <3>3, <1>2, <1>3
  <2>4. Frame' = calls'[Depth - 1]
    BY <1>4 DEF Frame
  <2> QED BY <2>1, <2>2, <2>3, <2>4, <1>4 DEF Stacked
<1>8. ASSUME NEW j \in 1 .. Len(tempStack)
      PROVE  tempStack[j][1] <= Depth - 1
  <2>1. j \in 1 .. Frame.height
    BY <1>1
  <2>2. tempStack[j][1] < Depth
    BY <2>1, <1>1 DEF Stacked, Frame
  <2>3. tempStack[j][1] \in Nat
    BY ElementOfSeq DEF StackInv, Shape
  <2> QED BY <2>2, <2>3, <1>1
<1>9. Depth = 1 => tempStack = <<>>
  <2> SUFFICES ASSUME Depth = 1
               PROVE  tempStack = <<>>
    OBVIOUS
  <2>1. Frame.height = 0
    BY <1>1 DEF Stacked, Frame
  <2>2. Len(tempStack) = 0
    BY <2>1, <1>1
  <2> QED BY <2>2, EmptySeq DEF StackInv, Shape
<1>10. status' \in {"returned", "jumped"} => tempStack' = <<>>
  BY <1>3, <1>9
<1> QED BY <1>2, <1>3, <1>4, <1>6, <1>7, <1>8, <1>10 DEF StackInv

(* A failure leaves everything as it is for libzahl_failure.               *)
LEMMA GivesUp ==
  ASSUME StackInv, Running, status' = "unwind", UNCHANGED <<calls, tempStack>>
  PROVE  StackInv'
<1>1. Shape' /\ Depth' = Depth
  BY DEF StackInv, Shape, Depth
<1> QED BY <1>1 DEF StackInv

-----------------------------------------------------------------------------
(* What an activation becomes.                                             *)

(* The next step of the same body.                                         *)
Onward(f) == [f EXCEPT !.pc = @ + 1]

(* The next step belongs to the same activation.                           *)
LEMMA OneOn ==
  ASSUME NEW f, Activated(f), f.pc <= Len(Steps(f.plan)), f.plan # "zsqr_ll"
  PROVE  LET g == Onward(f)
         IN  /\ Activated(g) /\ g.height = f.height /\ g.plan = f.plan /\ g.pc = f.pc + 1
             /\ DOMAIN g = DOMAIN f /\ g.parts = f.parts /\ g.signs = f.signs
<1> DEFINE g == Onward(f)
<1>1. /\ DOMAIN g = DOMAIN f /\ g.pc = f.pc + 1 /\ g.plan = f.plan
      /\ g.parts = f.parts /\ g.height = f.height /\ g.signs = f.signs
  BY DEF Onward, Activated, Fields
<1>2. f.pc \in Nat /\ f.plan \in Plans
  BY DEF Activated
<1>3. Len(Steps(f.plan)) \in Nat
  BY <1>2, NothingHeld
<1>4. g.pc \in Nat /\ g.pc <= Len(Steps(f.plan)) + 1 /\ g.pc > 0
  BY <1>1, <1>2, <1>3
<1> HIDE DEF g
<1>5. Activated(g)
  BY <1>1, <1>4 DEF Activated
<1> QED BY <1>1, <1>5 DEF g

(* At a step of a body.                                                    *)
LEMMA AtStep ==
  ASSUME StackInv, NEW kind, At(kind)
  PROVE  /\ Running /\ Frame.plan \in Plans /\ Frame.plan # "zsqr_ll"
         /\ Frame.pc \in 1 .. Len(Steps(Frame.plan)) /\ Frame.pc <= Len(Steps(Frame.plan))
         /\ Steps(Frame.plan)[Frame.pc][1] = kind
         /\ Arg(1) = Steps(Frame.plan)[Frame.pc][2]
         /\ Arg(2) = Steps(Frame.plan)[Frame.pc][3]
<1>1. Running /\ Frame.pc > 0 /\ ~ Finished /\ Steps(Frame.plan)[Frame.pc][1] = kind
  BY DEF At
<1>2. Activated(Frame)
  BY <1>1, Innermost
<1>3. /\ Frame.plan \in Plans /\ Frame.pc \in Nat
      /\ Frame.plan = "zsqr_ll" => Frame.pc = 0
  BY <1>2 DEF Activated
<1>4. ~ (Frame.pc > Len(Steps(Frame.plan))) /\ Len(Steps(Frame.plan)) \in Nat
  BY <1>1, <1>3, NothingHeld DEF Finished
<1>5. Frame.pc \in 1 .. Len(Steps(Frame.plan)) /\ Frame.pc <= Len(Steps(Frame.plan))
  BY <1>1, <1>3, <1>4
<1>6. Frame.plan # "zsqr_ll"
  BY <1>1, <1>3
<1> QED BY <1>1, <1>3, <1>5, <1>6 DEF Arg

(* A step that is neither zinit_temp nor zfree_temp.                       *)
LEMMA PlainStep ==
  ASSUME StackInv, NEW kind, At(kind), kind \notin {"init", "free"}
  PROVE  /\ Activated(Onward(Frame)) /\ Onward(Frame).height = Frame.height
         /\ Onward(Frame).plan = Frame.plan /\ Count(Onward(Frame)) = Count(Frame)
<1>1. /\ Running /\ Frame.plan \in Plans /\ Frame.plan # "zsqr_ll"
      /\ Frame.pc \in 1 .. Len(Steps(Frame.plan)) /\ Frame.pc <= Len(Steps(Frame.plan))
      /\ Steps(Frame.plan)[Frame.pc][1] = kind
  BY AtStep
<1>2. Activated(Frame)
  BY <1>1, Innermost
<1>3. /\ Activated(Onward(Frame)) /\ Onward(Frame).height = Frame.height
      /\ Onward(Frame).plan = Frame.plan /\ Onward(Frame).pc = Frame.pc + 1
  BY <1>1, <1>2, OneOn
<1>4. Held(Frame.plan, Frame.pc + 1) = Held(Frame.plan, Frame.pc)
  BY <1>1, SameTemps
<1> QED BY <1>3, <1>4 DEF Count

(* Such a step preserves the invariant when it goes on to the next.        *)
LEMMA StepOn ==
  ASSUME StackInv, NEW kind, At(kind), kind \notin {"init", "free"}, Proceed,
         tempStack' = tempStack
  PROVE  StackInv'
<1>1. Running
  BY DEF At
<1>2. calls' = [calls EXCEPT ![Depth] = Onward(Frame)]
  BY DEF Proceed, Onward, Frame
<1>3. status' = status
  BY DEF Proceed
<1> QED BY <1>1, <1>2, <1>3, PlainStep, StaysPut

(* The beginning and the end of a body, where nothing is held.             *)
LEMMA AtEntry ==
  ASSUME StackInv, Entering
  PROVE  Running /\ Activated(Frame) /\ Frame.pc = 0 /\ Count(Frame) = 0
<1>1. Running /\ Frame.pc = 0
  BY DEF Entering
<1>2. Activated(Frame)
  BY <1>1, Innermost
<1>3. Held(Frame.plan, 0) = 0
  BY <1>2, NothingHeld DEF Activated
<1> QED BY <1>1, <1>2, <1>3 DEF Count

(* At its end an activation holds nothing.                                 *)
LEMMA AtEnd ==
  ASSUME StackInv, Finished
  PROVE  Running /\ Count(Frame) = 0
<1>1. Running /\ Frame.pc > Len(Steps(Frame.plan))
  BY DEF Finished
<1>2. /\ Frame.plan \in Plans /\ Frame.pc \in Nat
      /\ Frame.pc <= Len(Steps(Frame.plan)) + 1
  BY <1>1, Innermost DEF Activated
<1>3. Len(Steps(Frame.plan)) \in Nat /\ Held(Frame.plan, Len(Steps(Frame.plan)) + 1) = 0
  BY <1>2, NothingHeld
<1>4. Frame.pc = Len(Steps(Frame.plan)) + 1
  BY <1>1, <1>2, <1>3
<1> QED BY <1>1, <1>3, <1>4 DEF Count

(* An activation that enters its body.                                     *)
LEMMA EntersBody ==
  ASSUME StackInv, Entering, NEW g, DOMAIN g = DOMAIN Frame,
         g.height = Frame.height, g.pc = 1,
         g.plan \in Plans, g.plan # "zsqr_ll",
         calls' = [calls EXCEPT ![Depth] = g], tempStack' = tempStack, status' = status
  PROVE  StackInv'
<1>1. Running /\ Activated(Frame) /\ Count(Frame) = 0
  BY AtEntry
<1>2. Len(Steps(g.plan)) \in Nat /\ Held(g.plan, 1) = 0
  BY NothingHeld
<1>3. g.pc \in Nat /\ g.pc <= Len(Steps(g.plan)) + 1 /\ g.pc > 0
  BY <1>2
<1>4. Activated(g)
  BY <1>1, <1>3 DEF Activated
<1>5. Count(g) = 0
  BY <1>2 DEF Count
<1> QED BY <1>1, <1>4, <1>5, StaysPut

(* zmul and zsqr touch no temporary before their first call.               *)
LEMMA EnterZmulStack ==
  ASSUME StackInv, EnterZmul
  PROVE  StackInv'
<1>1. Entering /\ Frame.plan \in {"zmul", "zsqr"} /\ Proceed /\ tempStack' = tempStack
  BY DEF EnterZmul
<1>2. Activated(Frame) /\ Frame.pc = 0
  BY <1>1, AtEntry
<1>3. calls' = [calls EXCEPT ![Depth] = Onward(Frame)] /\ status' = status
  BY <1>1 DEF Proceed, Onward, Frame
<1>4. Frame.plan # "zsqr_ll" /\ Frame.plan \in Plans
  BY <1>1 DEF Plans
<1>5. Len(Steps(Frame.plan)) \in Nat
  BY <1>4, NothingHeld
<1>6. Frame.pc <= Len(Steps(Frame.plan)) /\ Frame.pc + 1 = 1
  BY <1>2, <1>5
<1>7. /\ Onward(Frame).height = Frame.height /\ Onward(Frame).plan = Frame.plan
      /\ Onward(Frame).pc = 1 /\ DOMAIN Onward(Frame) = DOMAIN Frame
  BY <1>2, <1>4, <1>6, OneOn
<1> QED BY <1>1, <1>3, <1>4, <1>7, EntersBody

(* zmul_ll returns, fails or enters its body with the stack as it was.     *)
LEMMA EnterZmulLlStack ==
  ASSUME StackInv, EnterZmulLl
  PROVE  StackInv'
<1>1. Entering /\ Frame.plan = "zmul_ll"
  BY DEF EnterZmulLl
<1>2. Running /\ Activated(Frame) /\ Count(Frame) = 0
  BY <1>1, AtEntry
<1>3. CASE Return
  BY <1>2, <1>3, Ends
<1>4. CASE Fail
  BY <1>2, <1>4, GivesUp DEF Fail
<1>5. ASSUME NEW delim, calls' = [calls EXCEPT ![Depth].pc = 1, ![Depth].delim = delim],
             tempStack' = tempStack, status' = status
      PROVE  StackInv'
  <2> DEFINE g == [Frame EXCEPT !.pc = 1, !.delim = delim]
  <2>1. calls' = [calls EXCEPT ![Depth] = g]
    BY <1>5 DEF Frame
  <2>2. /\ DOMAIN g = DOMAIN Frame /\ g.height = Frame.height /\ g.pc = 1
        /\ g.plan = Frame.plan
    BY <1>2 DEF Activated, Fields
  <2>3. g.plan \in Plans /\ g.plan # "zsqr_ll"
    BY <1>1, <2>2 DEF Plans
  <2> HIDE DEF g
  <2> QED BY <1>1, <1>5, <2>1, <2>2, <2>3, EntersBody
<1> QED BY <1>3, <1>4, <1>5 DEF EnterZmulLl

(* So does zsqr_ll, whichever body it enters.                              *)
LEMMA EnterZsqrLlStack ==
  ASSUME StackInv, EnterZsqrLl
  PROVE  StackInv'
<1>1. Entering /\ Frame.plan = "zsqr_ll"
  BY DEF EnterZsqrLl
<1>2. Running /\ Activated(Frame) /\ Count(Frame) = 0
  BY <1>1, AtEntry
<1>3. CASE Return
  BY <1>2, <1>3, Ends
<1>4. CASE Fail
  BY <1>2, <1>4, GivesUp DEF Fail
<1>5. ASSUME NEW delim, NEW plan \in {"high_only", "both_parts"},
             calls' = [calls EXCEPT ![Depth].pc = 1, ![Depth].delim = delim,
                                    ![Depth].plan = plan],
             tempStack' = tempStack, status' = status
      PROVE  StackInv'
  <2> DEFINE g == [Frame EXCEPT !.pc = 1, !.delim = delim, !.plan = plan]
  <2>1. calls' = [calls EXCEPT ![Depth] = g]
    BY <1>5 DEF Frame
  <2>2. /\ DOMAIN g = DOMAIN Frame /\ g.height = Frame.height /\ g.pc = 1
        /\ g.plan = plan
    BY <1>2 DEF Activated, Fields
  <2>3. g.plan \in Plans /\ g.plan # "zsqr_ll"
    BY <1>5, <2>2 DEF Plans
  <2> HIDE DEF g
  <2> QED BY <1>1, <1>5, <2>1, <2>2, <2>3, EntersBody
<1>6. ASSUME NEW delim, NEW plan \in {"high_only", "both_parts"}, NEW parts,
             calls' = [calls EXCEPT ![Depth].pc = 1, ![Depth].delim = delim,
                                    ![Depth].plan = plan, ![Depth].parts = parts],
             tempStack' = tempStack, status' = status
      PROVE  StackInv'
  <2> DEFINE g == [Frame EXCEPT !.pc = 1, !.delim = delim, !.plan = plan, !.parts = parts]
  <2>1. calls' = [calls EXCEPT ![Depth] = g]
    BY <1>6 DEF Frame
  <2>2. /\ DOMAIN g = DOMAIN Frame /\ g.height = Frame.height /\ g.pc = 1
        /\ g.plan = plan
    BY <1>2 DEF Activated, Fields
  <2>3. g.plan \in Plans /\ g.plan # "zsqr_ll"
    BY <1>6, <2>2 DEF Plans
  <2> HIDE DEF g
  <2> QED BY <1>1, <1>6, <2>1, <2>2, <2>3, EntersBody
<1>7. \A low : Plan(low) \in {"high_only", "both_parts"}
  BY DEF Plan
<1> DEFINE b     == Abs(Read(Part("b")))
           half  == Bits(b) \div 2
           delim == half - (half % BitsPerChar)
           low   == Low(Part("b"), delim)
           parts == Having(Having(Frame.parts, "low", low), "high", High(Part("b"), delim))
<1>8. \/ Return
      \/ Fail
      \/ /\ calls' = [calls EXCEPT ![Depth].pc = 1, ![Depth].delim = half,
                                   ![Depth].plan = Plan(b % 2 ^ half)]
         /\ UNCHANGED <<tempStack, status>>
      \/ /\ calls' = [calls EXCEPT ![Depth].pc = 1, ![Depth].delim = delim,
                                   ![Depth].plan = Plan(Read(low)), ![Depth].parts = parts]
         /\ UNCHANGED <<tempStack, status>>
  BY DEF EnterZsqrLl, Frame
<1> HIDE DEF b, half, delim, low, parts
<1> QED BY <1>3, <1>4, <1>5, <1>6, <1>7, <1>8

(* A call of zmul_ll or zsqr_ll.                                           *)
LEMMA CallStack ==
  ASSUME StackInv, NEW kind \in {"mul", "sqr"}, At(kind),
         NEW plan \in {"zmul_ll", "zsqr_ll"}, NEW parts, Call(plan, parts),
         UNCHANGED <<tempStack, status>>
  PROVE  /\ StackInv' /\ Depth' = Depth + 1
         /\ calls'[Depth + 1] = Activation(plan, parts) /\ calls'[Depth] = Onward(Frame)
         /\ \A i \in 1 .. Depth : i # Depth => calls'[i] = calls[i]
<1> DEFINE g == Onward(Frame)
           h == Activation(plan, parts)
<1>1. Running /\ kind \notin {"init", "free"}
  BY DEF At
<1>2. Len(tempStack) \in Nat /\ Sequence(calls) /\ Depth \in Nat
  BY <1>1, Innermost
<1>3. /\ Activated(g) /\ g.height = Frame.height /\ g.plan = Frame.plan
      /\ Count(g) = Count(Frame)
  BY <1>1, PlainStep
<1>4. calls' = Append([calls EXCEPT ![Depth] = g], h)
  BY DEF Call, Onward, Frame
<1>5. /\ DOMAIN h = Fields /\ h.plan = plan /\ h.pc = 0 /\ h.height = Len(tempStack)
  BY DEF Activation, Fields
<1>6. plan \in Plans
  BY DEF Plans
<1>7. Len(Steps(plan)) \in Nat
  BY <1>6, NothingHeld
<1>8. plan \notin {"high_only", "both_parts"}
  OBVIOUS
<1> HIDE DEF g, h
<1>9. h.pc \in Nat /\ h.pc <= Len(Steps(plan)) + 1
  BY <1>5, <1>7
<1>10. Activated(h)
  BY <1>2, <1>5, <1>6, <1>8, <1>9 DEF Activated
<1>11. tempStack' = tempStack /\ status' = status
  OBVIOUS
<1> QED BY <1>1, <1>3, <1>4, <1>5, <1>10, <1>11, CallsAnother DEF g, h

(* zinit_temp registers the temporary that the body counts next.           *)
LEMMA InitTempStack ==
  ASSUME StackInv, InitTemp
  PROVE  StackInv'
<1>1. At("init")
  BY DEF InitTemp
<1>2. /\ Running /\ Frame.plan \in Plans /\ Frame.plan # "zsqr_ll"
      /\ Frame.pc \in 1 .. Len(Steps(Frame.plan)) /\ Frame.pc <= Len(Steps(Frame.plan))
      /\ Steps(Frame.plan)[Frame.pc][1] = "init"
      /\ Arg(1) = Steps(Frame.plan)[Frame.pc][2]
  BY <1>1, AtStep
<1>3. CASE Fail
  BY <1>2, <1>3, GivesUp DEF Fail
<1>4. CASE tempStack' = Append(tempStack, Local(Arg(1))) /\ Proceed
  <2> DEFINE g == Onward(Frame)
  <2>1. Activated(Frame)
    BY <1>2, Innermost
  <2>2. /\ Activated(g) /\ g.height = Frame.height /\ g.plan = Frame.plan
        /\ g.pc = Frame.pc + 1
    BY <1>2, <2>1, OneOn
  <2>3. /\ Held(Frame.plan, Frame.pc + 1) = Held(Frame.plan, Frame.pc) + 1
        /\ Arg(1) = Temps(Frame.plan)[Held(Frame.plan, Frame.pc) + 1] /\ Arg(1) \in Locals
    BY <1>2, NextTemp
  <2>4. calls' = [calls EXCEPT ![Depth] = g] /\ status' = status
    BY <1>4 DEF Proceed, Onward, Frame
  <2> HIDE DEF g
  <2>5. Count(g) = Count(Frame) + 1 /\ Arg(1) = Temps(g.plan)[Count(g)]
    BY <2>2, <2>3 DEF Count
  <2>6. tempStack' = Append(tempStack, <<Depth, Arg(1)>>)
    BY <1>4 DEF Local
  <2> QED BY <1>2, <2>2, <2>3, <2>4, <2>5, <2>6, Pushes
<1> QED BY <1>3, <1>4 DEF InitTemp

(* zfree_temp takes off the one that the body counts last.                 *)
LEMMA FreeTempStack ==
  ASSUME StackInv, FreeTemp
  PROVE  StackInv'
<1>1. At("free") /\ tempStack' = Front(tempStack) /\ Proceed
  BY DEF FreeTemp
<1>2. /\ Running /\ Frame.plan \in Plans /\ Frame.plan # "zsqr_ll"
      /\ Frame.pc \in 1 .. Len(Steps(Frame.plan)) /\ Frame.pc <= Len(Steps(Frame.plan))
      /\ Steps(Frame.plan)[Frame.pc][1] = "free"
  BY <1>1, AtStep
<1> DEFINE g == Onward(Frame)
<1>3. Activated(Frame)
  BY <1>2, Innermost
<1>4. /\ Activated(g) /\ g.height = Frame.height /\ g.plan = Frame.plan
      /\ g.pc = Frame.pc + 1
  BY <1>2, <1>3, OneOn
<1>5. /\ Held(Frame.plan, Frame.pc) > 0
      /\ Held(Frame.plan, Frame.pc + 1) = Held(Frame.plan, Frame.pc) - 1
  BY <1>2, LastTemp
<1>6. calls' = [calls EXCEPT ![Depth] = g] /\ status' = status
  BY <1>1 DEF Proceed, Onward, Frame
<1> HIDE DEF g
<1>7. Count(Frame) > 0 /\ Count(g) = Count(Frame) - 1
  BY <1>4, <1>5 DEF Count
<1> QED BY <1>1, <1>2, <1>4, <1>6, <1>7, Pops

(* zmul notes a sign.                                                      *)
LEMMA TakeSignStack ==
  ASSUME StackInv, TakeSign
  PROVE  StackInv'
<1>1. At("abs") /\ Running
  BY DEF TakeSign, At
<1> DEFINE signs == Having(Frame.signs, Arg(1), Sign(Read(Part(Arg(1)))))
           g == [Frame EXCEPT !.pc = @ + 1, !.signs = signs]
<1>2. calls' = [calls EXCEPT ![Depth] = g] /\ tempStack' = tempStack /\ status' = status
  BY DEF TakeSign, Frame
<1>3. Activated(Frame)
  BY <1>1, Innermost
<1> HIDE DEF signs
<1>4. /\ Activated(Onward(Frame)) /\ Onward(Frame).height = Frame.height
      /\ Onward(Frame).plan = Frame.plan /\ Count(Onward(Frame)) = Count(Frame)
  BY <1>1, PlainStep
<1>5. /\ DOMAIN g = DOMAIN Onward(Frame) /\ g.plan = Onward(Frame).plan
      /\ g.pc = Onward(Frame).pc /\ g.height = Onward(Frame).height
  BY <1>3 DEF Onward, Activated, Fields
<1> HIDE DEF g
<1>6. Activated(g) /\ Count(g) = Count(Frame)
  BY <1>4, <1>5 DEF Activated, Count
<1> QED BY <1>1, <1>2, <1>4, <1>5, <1>6, StaysPut

(* libzahl_failure frees what is on the stack and jumps when it is empty.  *)
LEMMA UnwindStack ==
  ASSUME StackInv, Unwind
  PROVE  StackInv'
<1>1. /\ status = "unwind" /\ status' = status /\ tempStack # <<>>
      /\ tempStack' = Front(tempStack) /\ calls' = calls
  BY DEF Unwind
<1>2. tempStack \in Seq(Nat \X Locals) /\ Len(tempStack) > 0
  BY <1>1, EmptySeq DEF StackInv, Shape
<1>3. /\ tempStack' \in Seq(Nat \X Locals) /\ Len(tempStack') = Len(tempStack) - 1
      /\ \A j \in 1 .. Len(tempStack) - 1 : tempStack'[j] = tempStack[j]
  BY <1>1, <1>2, FrontIsShorter
<1>4. \A j \in 1 .. Len(tempStack') : tempStack'[j][1] <= Depth
  <2>1. \A j \in 1 .. Len(tempStack') : j \in 1 .. Len(tempStack) /\ j \in 1 .. Len(tempStack) - 1
    BY <1>2, <1>3
  <2> QED BY <2>1, <1>3 DEF StackInv
<1>5. Shape' /\ Depth' = Depth
  BY <1>1, <1>3 DEF StackInv, Shape, Depth
<1> QED BY <1>1, <1>4, <1>5 DEF StackInv

(* After the jump there is neither a stack nor an activation.              *)
LEMMA LongjmpStack ==
  ASSUME StackInv, Longjmp
  PROVE  StackInv'
<1>1. tempStack' = <<>> /\ calls' = <<>> /\ status' = "jumped"
  BY DEF Longjmp
<1>2. Len(calls') = 0 /\ Sequence(calls') /\ Len(tempStack') = 0
      /\ tempStack' \in Seq(Nat \X Locals)
  BY <1>1, EmptySeq DEF Sequence
<1>3. Depth' = 0
  BY <1>2 DEF Depth
<1> QED BY <1>1, <1>2, <1>3 DEF StackInv, Shape

-----------------------------------------------------------------------------
(* The outermost activation begins with an empty stack.                    *)
LEMMA InitStack ==
  ASSUME Init
  PROVE  StackInv
<1>1. PICK fn \in {"zmul", "zsqr"}, p \in Parameters :
        calls = << [plan |-> fn, pc |-> 0, delim |-> 0, signs |-> <<>>, height |-> 0,
                    parts |-> [a |-> Whole(p[1]), b |-> Whole(p[2]), c |-> Whole(p[3])]] >>
  BY DEF Init
<1> DEFINE f == [plan |-> fn, pc |-> 0, delim |-> 0, signs |-> <<>>, height |-> 0,
                 parts |-> [a |-> Whole(p[1]), b |-> Whole(p[2]), c |-> Whole(p[3])]]
<1>2. tempStack = <<>> /\ status = "run"
  BY DEF Init
<1>3. DOMAIN f = Fields /\ f.plan = fn /\ f.pc = 0 /\ f.height = 0
  BY DEF Fields
<1>4. calls = <<f>>
  BY <1>1
<1> HIDE DEF f
<1>5. fn \in Plans /\ fn \notin {"high_only", "both_parts"}
  BY DEF Plans
<1>6. Len(Steps(fn)) \in Nat /\ Held(fn, 0) = 0
  BY <1>5, NothingHeld
<1>7. f.pc \in Nat /\ f.height \in Nat /\ f.pc <= Len(Steps(fn)) + 1
  BY <1>3, <1>6
<1>8. Activated(f) /\ Count(f) = 0
  BY <1>3, <1>5, <1>6, <1>7 DEF Activated, Count
<1>9. Depth = 1 /\ calls[1] = f /\ Frame = f
  BY <1>4 DEF Depth, Frame
<1>10. Sequence(calls)
  <2>1. calls \in Seq({f})
    BY <1>4
  <2> QED BY <2>1, OwnRange
<1>11. Len(tempStack) = 0 /\ tempStack \in Seq(Nat \X Locals)
  BY <1>2, EmptySeq
<1>12. Shape
  BY <1>2, <1>8, <1>9, <1>10, <1>11 DEF Shape
<1>13. \A i \in 1 .. Depth : i = 1 /\ calls[i] = f
  BY <1>9
<1>14. Stacked
  <2>1. \A i \in 1 .. Depth :
          /\ calls[i].height = IF i = 1 THEN 0 ELSE Top(calls[i - 1])
          /\ \A k \in 1 .. Count(calls[i]) :
               tempStack[calls[i].height + k] = <<i, Temps(calls[i].plan)[k]>>
          /\ \A j \in 1 .. calls[i].height : tempStack[j][1] < i
    <3>1. 1 .. 0 = {}
      OBVIOUS
    <3>2. 1 .. Count(f) = {} /\ 1 .. f.height = {}
      BY <3>1, <1>3, <1>8
    <3> QED BY <3>2, <1>3, <1>13
  <2>2. \A i, j \in 1 .. Depth : ~ (i < j)
    BY <1>9
  <2>3. Len(tempStack) = Top(Frame)
    BY <1>3, <1>8, <1>9, <1>11 DEF Top
  <2> QED BY <2>1, <2>2, <2>3 DEF Stacked
<1> QED BY <1>2, <1>11, <1>12, <1>14 DEF StackInv

(* Every step keeps the stack in the order of the activations.             *)
LEMMA NextStack ==
  ASSUME StackInv, [Next]_vars
  PROVE  StackInv'
<1>1. CASE EnterZmul
  BY <1>1, EnterZmulStack
<1>2. CASE SquareNothing
  BY <1>2, AtEntry, Ends DEF SquareNothing
<1>3. CASE EnterZmulLl
  BY <1>3, EnterZmulLlStack
<1>4. CASE EnterZsqrLl
  BY <1>4, EnterZsqrLlStack
<1>5. CASE Multiply
  BY <1>5, CallStack DEF Multiply
<1>6. CASE Square
  BY <1>6, CallStack DEF Square
<1>7. CASE InitTemp
  BY <1>7, InitTempStack
<1>8. CASE FreeTemp
  BY <1>8, FreeTempStack
<1>9. ASSUME NEW kind \in {"split", "shift", "add", "sub", "restore", "sign", "positive"},
             At(kind), Fail \/ (Proceed /\ tempStack' = tempStack)
      PROVE  StackInv'
  <2>1. kind \notin {"init", "free"} /\ Running
    BY <1>9 DEF At
  <2>2. CASE Fail
    BY <2>1, <2>2, GivesUp DEF Fail
  <2>3. CASE Proceed /\ tempStack' = tempStack
    BY <1>9, <2>1, <2>3, StepOn
  <2> QED BY <1>9, <2>2, <2>3
<1>10. CASE Split
  BY <1>9, <1>10 DEF Split
<1>11. CASE Shift
  BY <1>9, <1>11 DEF Shift, Store
<1>12. CASE Add
  BY <1>9, <1>12 DEF Add, Store
<1>13. CASE Subtract
  BY <1>9, <1>13 DEF Subtract, Resign, Store
<1>14. CASE TakeSign
  BY <1>14, TakeSignStack
<1>15. CASE GiveSign
  BY <1>9, <1>15 DEF GiveSign, Resign, Store
<1>16. CASE SetSign
  BY <1>9, <1>16 DEF SetSign, Resign, Store
<1>17. CASE SetPositive
  BY <1>9, <1>17 DEF SetPositive, Resign, Store
<1>18. CASE LeaveFunction
  BY <1>18, AtEnd, Ends DEF LeaveFunction
<1>19. CASE Unwind
  BY <1>19, UnwindStack
<1>20. CASE Longjmp
  BY <1>20, LongjmpStack
<1>21. CASE UNCHANGED vars
  BY <1>21 DEF vars, StackInv, Shape, Stacked, Depth, Frame
<1> QED BY <1>1, <1>2, <1>3, <1>4, <1>5, <1>6, <1>7, <1>8, <1>10, <1>11, <1>12, <1>13,
           <1>14, <1>15, <1>16, <1>17, <1>18, <1>19, <1>20, <1>21 DEF Next

(* What that order says about the steps that free, and about returns.      *)
LEMMA InOrder ==
  ASSUME StackInv
  PROVE  StackOrder
<1>1. ASSUME At("free")
      PROVE  tempStack # <<>> /\ Last(tempStack) = Local(Arg(1))
  <2>1. /\ Running /\ Frame.plan \in Plans /\ Frame.plan # "zsqr_ll"
        /\ Frame.pc \in 1 .. Len(Steps(Frame.plan)) /\ Frame.pc <= Len(Steps(Frame.plan))
        /\ Steps(Frame.plan)[Frame.pc][1] = "free"
        /\ Arg(1) = Steps(Frame.plan)[Frame.pc][2]
    BY <1>1, AtStep
  <2>2. /\ Held(Frame.plan, Frame.pc) > 0
        /\ Arg(1) = Temps(Frame.plan)[Held(Frame.plan, Frame.pc)]
    BY <2>1, LastTemp
  <2>3. /\ Depth \in 1 .. Depth /\ Stacked /\ Frame.height \in Nat /\ Count(Frame) \in Nat
        /\ Len(tempStack) = Frame.height + Count(Frame)
    BY <2>1, Innermost
  <2>4. Count(Frame) > 0 /\ Arg(1) = Temps(Frame.plan)[Count(Frame)]
    BY <2>2 DEF Count
  <2>5. Count(Frame) \in 1 .. Count(Frame) /\ Len(tempStack) # 0
    BY <2>3, <2>4
  <2>6. tempStack[Frame.height + Count(Frame)] = <<Depth, Temps(Frame.plan)[Count(Frame)]>>
    BY <2>3, <2>5 DEF Stacked, Frame
  <2>7. tempStack # <<>>
    BY <2>5, EmptySeq
  <2> QED BY <2>3, <2>4, <2>6, <2>7 DEF Last, Local
<1>2. ASSUME Finished
      PROVE  Len(tempStack) = Frame.height
  <2>1. Running /\ Count(Frame) = 0
    BY <1>2, AtEnd
  <2>2. Len(tempStack) = Frame.height + Count(Frame) /\ Frame.height \in Nat
    BY <2>1, Innermost
  <2> QED BY <2>1, <2>2
<1>3. status = "returned" => tempStack = <<>>
  BY DEF StackInv
<1> QED BY <1>1, <1>2, <1>3 DEF StackOrder

(* zmul and zsqr free each temporary when it is the last one registered,   *)
(* every activation returns with the stack it was called with, and the     *)
(* whole call with an empty one: for operands of any size, and so for      *)
(* recursions of any depth, any width of a limb and any failure.           *)
THEOREM StackAlwaysInOrder == Spec => []StackOrder
<1>1. Init => StackInv
  BY InitStack
<1>2. StackInv /\ [Next]_vars => StackInv'
  BY NextStack
<1>3. StackInv => StackOrder
  BY InOrder
<1> QED BY <1>1, <1>2, <1>3, PTL DEF Spec

-----------------------------------------------------------------------------
(* The values of the program's numbers.                                    *)

(* Whatever a step that stores a result names is the destination of the    *)
(* whole call, or a local.                                                 *)
LEMMA Aims ==
  ASSUME StackInv, Served, Running, NEW name \in {"a"} \cup Temporaries
  PROVE  Target(name) = asked.a \/ Target(name) \notin Reg
<1>1. Depth \in Nat /\ Depth \in 1 .. Depth
  BY Innermost
<1>2. Serves(Frame, Depth)
  BY <1>1 DEF Served, Frame
<1>3. CASE name = "a"
  <2>1. "a" \in DOMAIN Frame.parts
    BY <1>2 DEF Serves
  <2>2. Part(name) = Frame.parts["a"]
    BY <1>3, <2>1 DEF Part
  <2> QED BY <2>2, <1>2 DEF Target, Serves
<1>4. CASE name \in Temporaries
  <2>1. name \notin DOMAIN Frame.parts
    BY <1>2, <1>4 DEF Serves
  <2>2. Target(name) = Local(name)
    BY <2>1 DEF Target, Part, Whole
  <2>3. name \in Locals
    BY <1>4 DEF Temporaries, Locals
  <2>4. Local(name) \in Nat \X Locals
    BY <1>1, <2>3 DEF Local
  <2> QED BY <2>2, <2>4, RegAssumption
<1> QED BY <1>3, <1>4

(* What the steps that store a result name.                                *)
LEMMA ResultNames ==
  ASSUME NEW plan \in Plans, NEW i \in 1 .. Len(Steps(plan)),
         Steps(plan)[i][1] \in {"split", "shift", "add", "sub", "mul", "sqr"}
  PROVE  /\ Steps(plan)[i][2] \in {"a"} \cup Temporaries
         /\ Steps(plan)[i][1] = "split" => Steps(plan)[i][3] \in {"a"} \cup Temporaries
<1>1. CASE plan = "zmul_ll"
  <2>1. i \in 1 .. 21 /\ Steps(plan) = ZmulLlSteps
    BY <1>1, Lengths
  <2>2. ZmulLlSteps[i][2] \in {"a"} \cup Temporaries
    BY <2>1, ZmulLlBody DEF Temporaries
  <2>3. ASSUME ZmulLlSteps[i][1] = "split"
        PROVE  ZmulLlSteps[i][3] \in {"a"} \cup Temporaries
    <3>1. i \in 5 .. 6
      BY <2>1, <2>3, ZmulLlBody
    <3> QED BY <2>1, <3>1, ZmulLlBody DEF Temporaries
  <2> QED BY <2>1, <2>2, <2>3
<1>2. CASE plan = "both_parts"
  <2>1. i \in 1 .. 11 /\ Steps(plan) = BothPartsSteps
    BY <1>2, Lengths
  <2>2. BothPartsSteps[i][2] \in {"a"} \cup Temporaries
    BY <2>1, BothPartsBody DEF Temporaries
  <2>3. BothPartsSteps[i][1] # "split"
    BY <2>1, BothPartsBody
  <2> QED BY <2>1, <2>2, <2>3
<1>3. CASE plan = "zmul"
  <2>1. i \in 1 .. 6 /\ Steps(plan) = ZmulSteps
    BY <1>3, Lengths
  <2>2. i = 3
    BY <2>1, OtherBodies
  <2> QED BY <2>1, <2>2, OtherBodies
<1>4. CASE plan = "zsqr"
  <2>1. i \in 1 .. 2 /\ Steps(plan) = ZsqrSteps
    BY <1>4, Lengths
  <2>2. ZsqrSteps[1][1] = "sqr" /\ ZsqrSteps[2][1] = "positive"
    BY DEF ZsqrSteps
  <2>3. i = 1
    BY <2>1, <2>2
  <2> QED BY <2>1, <2>2, <2>3, OtherBodies
<1>5. CASE plan = "zsqr_ll"
  <2>1. i \in 1 .. 0
    BY <1>5, Lengths
  <2> QED BY <2>1
<1>6. CASE plan = "high_only"
  <2>1. i \in 1 .. 2 /\ Steps(plan) = HighOnlySteps
    BY <1>6, Lengths
  <2>2. HighOnlySteps[1][1] = "sqr" /\ HighOnlySteps[2][1] = "shift"
    BY DEF HighOnlySteps
  <2> QED BY <2>1, <2>2, OtherBodies
<1> QED BY <1>1, <1>2, <1>3, <1>4, <1>5, <1>6 DEF Plans

(* The steps that deal with signs are those of zmul.                       *)
LEMMA SignSteps ==
  ASSUME NEW plan \in Plans, NEW i \in 1 .. Len(Steps(plan))
  PROVE  /\ Steps(plan)[i][1] \in {"abs", "restore"} => plan = "zmul"
         /\ plan = "zmul" /\ Steps(plan)[i][1] = "abs" =>
              \/ (i = 1 /\ Steps(plan)[i][2] = "b")
              \/ (i = 2 /\ Steps(plan)[i][2] = "c")
         /\ plan = "zmul" /\ Steps(plan)[i][1] = "restore" =>
              i > 2 /\ Steps(plan)[i][2] \in {"b", "c"}
         /\ plan = "zmul" /\ Steps(plan)[i][1] # "abs" => i > 2
<1>1. CASE plan = "zmul_ll"
  <2>1. i \in 1 .. 21 /\ Steps(plan) = ZmulLlSteps
    BY <1>1, Lengths
  <2>2. ZmulLlSteps[i][1] \notin {"abs", "restore"}
    BY <2>1, ZmulLlBody
  <2> QED BY <1>1, <2>1, <2>2
<1>2. CASE plan = "both_parts"
  <2>1. i \in 1 .. 11 /\ Steps(plan) = BothPartsSteps
    BY <1>2, Lengths
  <2>2. BothPartsSteps[i][1] \notin {"abs", "restore"}
    BY <2>1, BothPartsBody
  <2> QED BY <1>2, <2>1, <2>2
<1>3. CASE plan = "zmul"
  <2>1. i \in 1 .. 6 /\ Steps(plan) = ZmulSteps
    BY <1>3, Lengths
  <2>2. i \in {1, 2} => ZmulSteps[i][1] = "abs"
    BY OtherBodies
  <2>3. i = 3 => ZmulSteps[i][1] = "mul"
    BY OtherBodies
  <2>4. i \in {4, 5} => ZmulSteps[i][1] = "restore" /\ ZmulSteps[i][2] \in {"b", "c"}
    BY OtherBodies
  <2>5. i = 6 => ZmulSteps[i][1] = "sign"
    BY OtherBodies
  <2>6. (i = 1 => ZmulSteps[i][2] = "b") /\ (i = 2 => ZmulSteps[i][2] = "c")
    BY OtherBodies
  <2> QED BY <1>3, <2>1, <2>2, <2>3, <2>4, <2>5, <2>6
<1>4. CASE plan = "zsqr"
  <2>1. i \in 1 .. 2 /\ Steps(plan) = ZsqrSteps
    BY <1>4, Lengths
  <2>2. ZsqrSteps[1][1] = "sqr" /\ ZsqrSteps[2][1] = "positive"
    BY DEF ZsqrSteps
  <2> QED BY <1>4, <2>1, <2>2
<1>5. CASE plan = "zsqr_ll"
  <2>1. i \in 1 .. 0
    BY <1>5, Lengths
  <2> QED BY <2>1
<1>6. CASE plan = "high_only"
  <2>1. i \in 1 .. 2 /\ Steps(plan) = HighOnlySteps
    BY <1>6, Lengths
  <2>2. HighOnlySteps[1][1] = "sqr" /\ HighOnlySteps[2][1] = "shift"
    BY DEF HighOnlySteps
  <2> QED BY <1>6, <2>1, <2>2
<1> QED BY <1>1, <1>2, <1>3, <1>4, <1>5, <1>6 DEF Plans

(* Taking a sign away, and giving one back that was noted.                 *)
LEMMA Signs ==
  ASSUME NEW v \in Int, NEW w \in {v, Abs(v)}
  PROVE  /\ w \in Int /\ Abs(v) \in Int /\ Abs(w) = Abs(v)
         /\ Sign(w) \in {Sign(v), Sign(Abs(v))}
         /\ \A s \in {Sign(v), Sign(Abs(v))} : s * Abs(w) \in {v, Abs(v)}
<1>1. CASE v < 0
  <2>1. Abs(v) = -v /\ Abs(-v) = -v /\ Sign(v) = -1 /\ Sign(-v) = 1
    BY <1>1 DEF Abs, Sign
  <2>2. (-1) * (-v) = v /\ 1 * (-v) = -v /\ -v \in Int
    OBVIOUS
  <2> QED BY <2>1, <2>2
<1>2. CASE v = 0
  <2>1. Abs(v) = 0 /\ Sign(v) = 0
    BY <1>2 DEF Abs, Sign
  <2> QED BY <1>2, <2>1
<1>3. CASE v > 0
  <2>1. Abs(v) = v /\ Sign(v) = 1 /\ 1 * v = v
    BY <1>3 DEF Abs, Sign
  <2> QED BY <2>1
<1> QED BY <1>1, <1>2, <1>3

(* A step that changes no number of the program but the destination.       *)
LEMMA OthersKept ==
  ASSUME Kept, asked' = asked, Reg \subseteq DOMAIN val',
         \A n \in Reg : n # asked.a => val'[n] = val[n]
  PROVE  Kept'
BY DEF Kept, Spared

(* A step that stores in the destination or in a local.                    *)
LEMMA StoreKeeps ==
  ASSUME Kept, asked' = asked, NEW t, t = asked.a \/ t \notin Reg, NEW v,
         val' = [val EXCEPT ![t] = v]
  PROVE  Kept'
<1>1. Reg \subseteq DOMAIN val
  BY DEF Kept
<1>2. DOMAIN val' = DOMAIN val /\ \A n \in DOMAIN val : n # t => val'[n] = val[n]
  OBVIOUS
<1> QED BY <1>1, <1>2, OthersKept

(* A step that gives a local its first value.                              *)
LEMMA NewLocalKeeps ==
  ASSUME NEW f, Reg \subseteq DOMAIN f, NEW d \in Nat, NEW name \in Locals, NEW v
  PROVE  /\ Reg \subseteq DOMAIN Having(f, <<d, name>>, v)
         /\ \A n \in Reg : Having(f, <<d, name>>, v)[n] = f[n]
<1>1. \A n \in Reg : n # <<d, name>>
  BY RegAssumption
<1> QED BY <1>1 DEF Having

(* A step after which some locals are gone.                                *)
LEMMA KeepingKeeps ==
  ASSUME Kept, asked' = asked, NEW S, Reg \subseteq S, val' = Keeping(val, S)
  PROVE  Kept'
<1>1. DOMAIN val' = S /\ \A n \in S : val'[n] = val[n]
  BY DEF Keeping
<1> QED BY <1>1, OthersKept

(* The activations, when the innermost one goes on.                        *)
LEMMA ServesOn ==
  ASSUME StackInv, Served, Running, asked' = asked, NEW g,
         calls' = [calls EXCEPT ![Depth] = g], Serves(g, Depth),
         Depth = 1 => Outermost(g) /\ Noted(g)
  PROVE  Served'
<1>1. Depth \in Nat /\ Depth > 0 /\ Depth \in 1 .. Depth
  BY Innermost
<1>2. /\ Depth' = Depth /\ calls'[Depth] = g
      /\ \A i \in 1 .. Depth : i # Depth => calls'[i] = calls[i]
  BY InnermostReplaced
<1>3. \A i \in 1 .. Depth : Serves(calls'[i], i)
  BY <1>2 DEF Served
<1>4. Outermost(calls'[1]) /\ Noted(calls'[1])
  <2>1. CASE Depth = 1
    BY <2>1, <1>2
  <2>2. CASE Depth # 1
    <3>1. 1 \in 1 .. Depth
      BY <1>1
    <3>2. calls'[1] = calls[1]
      BY <2>2, <3>1, <1>2
    <3> QED BY <3>2, <1>1 DEF Served
  <2> QED BY <2>1, <2>2
<1>5. \A f, i : Serves(f, i)' <=> Serves(f, i)
  BY DEF Serves
<1>6. \A f : Outermost(f)' <=> Outermost(f)
  BY DEF Outermost, Whole
<1>7. \A f : Noted(f)' <=> Noted(f)
  BY DEF Noted, SignsOf
<1> QED BY <1>2, <1>3, <1>4, <1>5, <1>6, <1>7 DEF Served

(* The next step of a body, where no sign is noted.                        *)
LEMMA OnwardServes ==
  ASSUME StackInv, Served, NEW kind, At(kind), kind # "abs"
  PROVE  /\ Serves(Onward(Frame), Depth)
         /\ Depth = 1 => Outermost(Onward(Frame)) /\ Noted(Onward(Frame))
<1>1. /\ Running /\ Frame.plan \in Plans /\ Frame.plan # "zsqr_ll"
      /\ Frame.pc \in 1 .. Len(Steps(Frame.plan)) /\ Frame.pc <= Len(Steps(Frame.plan))
      /\ Steps(Frame.plan)[Frame.pc][1] = kind
  BY AtStep
<1>2. Depth \in Nat /\ Depth > 0 /\ Depth \in 1 .. Depth /\ Activated(Frame)
  BY <1>1, Innermost
<1>3. /\ Onward(Frame).plan = Frame.plan /\ Onward(Frame).pc = Frame.pc + 1
      /\ Onward(Frame).parts = Frame.parts /\ Onward(Frame).signs = Frame.signs
  BY <1>1, <1>2, OneOn
<1>4. Serves(Frame, Depth)
  BY <1>2 DEF Served, Frame
<1>5. Serves(Onward(Frame), Depth)
  BY <1>3, <1>4 DEF Serves
<1>6. ASSUME Depth = 1
      PROVE  Outermost(Onward(Frame)) /\ Noted(Onward(Frame))
  <2>1. Outermost(Frame) /\ Noted(Frame)
    BY <1>2, <1>6 DEF Served, Frame
  <2>2. Outermost(Onward(Frame))
    BY <1>3, <2>1 DEF Outermost
  <2>3. Frame.plan = "zmul" => Frame.pc > 2
    BY <1>1, SignSteps
  <2>4. Frame.plan = "zmul" => Frame.pc > 1
    BY <1>1, <2>3
  <2>5. Noted(Onward(Frame))
    BY <1>3, <2>1, <2>3, <2>4 DEF Noted
  <2> QED BY <2>2, <2>5
<1> QED BY <1>5, <1>6

(* The activations, when the innermost one is at its next step.            *)
LEMMA ProceedServes ==
  ASSUME StackInv, Served, NEW kind, At(kind), kind # "abs", Proceed
  PROVE  Served'
<1>1. Running
  BY DEF At
<1>2. calls' = [calls EXCEPT ![Depth] = Onward(Frame)] /\ asked' = asked
  BY DEF Proceed, Onward, Frame
<1> QED BY <1>1, <1>2, OnwardServes, ServesOn

(* A step that fails changes neither values nor activations.               *)
LEMMA FailValues ==
  ASSUME ValueInv, Fail
  PROVE  ValueInv'
<1>1. UNCHANGED <<val, calls, asked>>
  BY DEF Fail
<1> QED BY <1>1 DEF ValueInv, Asked, Kept, Spared, Served, Serves, Outermost, Noted, SignsOf,
                    Whole, Depth

(* A step that stores a value, in however many limbs.                      *)
Puts(name, v) == /\ val' = [val EXCEPT ![Target(name)] = v]
                 /\ Proceed /\ UNCHANGED tempStack

LEMMA StorePuts ==
  ASSUME NEW name, NEW v, NEW n, Store(name, v, n)
  PROVE  Puts(name, v)
BY DEF Store, Puts

LEMMA ResignPuts ==
  ASSUME NEW name, NEW v, Resign(name, v)
  PROVE  Puts(name, v)
BY StorePuts DEF Resign

LEMMA StoreValues ==
  ASSUME StackInv, ValueInv, NEW kind, At(kind), kind # "abs",
         NEW name \in {"a"} \cup Temporaries, NEW v, Puts(name, v)
  PROVE  ValueInv'
<1>1. val' = [val EXCEPT ![Target(name)] = v] /\ Proceed /\ asked' = asked
  BY DEF Puts, Proceed
<1>2. Running
  BY DEF At
<1>3. Target(name) = asked.a \/ Target(name) \notin Reg
  BY <1>2, Aims DEF ValueInv
<1>4. Kept'
  BY <1>1, <1>3, StoreKeeps DEF ValueInv
<1>5. Served'
  BY <1>1, ProceedServes DEF ValueInv
<1> QED BY <1>1, <1>4, <1>5 DEF ValueInv, Asked

(* What the step names at each of the kinds.                               *)
LEMMA Named ==
  ASSUME StackInv, NEW kind \in {"split", "shift", "add", "sub", "mul", "sqr"}, At(kind)
  PROVE  /\ Arg(1) \in {"a"} \cup Temporaries
         /\ kind = "split" => Arg(2) \in {"a"} \cup Temporaries
<1>1. /\ Running /\ Frame.plan \in Plans /\ Frame.plan # "zsqr_ll"
      /\ Frame.pc \in 1 .. Len(Steps(Frame.plan)) /\ Frame.pc <= Len(Steps(Frame.plan))
      /\ Steps(Frame.plan)[Frame.pc][1] = kind
      /\ Arg(1) = Steps(Frame.plan)[Frame.pc][2]
      /\ Arg(2) = Steps(Frame.plan)[Frame.pc][3]
  BY AtStep
<1>2. Steps(Frame.plan)[Frame.pc][1] \in {"split", "shift", "add", "sub", "mul", "sqr"}
  BY <1>1
<1> QED BY <1>1, <1>2, ResultNames

(* A split stores in two of the temporaries.                               *)
LEMMA SplitValues ==
  ASSUME StackInv, ValueInv, Split
  PROVE  ValueInv'
<1>1. At("split") /\ Running
  BY DEF Split, At
<1>2. CASE Fail
  BY <1>2, FailValues
<1>3. ASSUME NEW v, NEW w, Proceed,
             val' = [val EXCEPT ![Target(Arg(1))] = v, ![Target(Arg(2))] = w]
      PROVE  ValueInv'
  <2>1. Arg(1) \in {"a"} \cup Temporaries /\ Arg(2) \in {"a"} \cup Temporaries
    BY <1>1, Named
  <2>2. /\ Target(Arg(1)) = asked.a \/ Target(Arg(1)) \notin Reg
        /\ Target(Arg(2)) = asked.a \/ Target(Arg(2)) \notin Reg
    BY <1>1, <2>1, Aims DEF ValueInv
  <2>3. /\ DOMAIN val' = DOMAIN val
        /\ \A n \in DOMAIN val : n # Target(Arg(1)) /\ n # Target(Arg(2)) => val'[n] = val[n]
    BY <1>3
  <2>4. Reg \subseteq DOMAIN val
    BY DEF ValueInv, Kept
  <2>5. asked' = asked
    BY <1>3 DEF Proceed
  <2>6. Kept'
    BY <2>2, <2>3, <2>4, <2>5, OthersKept DEF ValueInv
  <2>7. Served'
    BY <1>1, <1>3, ProceedServes DEF ValueInv
  <2> QED BY <2>5, <2>6, <2>7 DEF ValueInv, Asked
<1> QED BY <1>2, <1>3 DEF Split

(* zinit_temp makes a new local.                                           *)
LEMMA InitTempValues ==
  ASSUME StackInv, ValueInv, InitTemp
  PROVE  ValueInv'
<1>1. At("init") /\ Running
  BY DEF InitTemp, At
<1>2. CASE Fail
  BY <1>2, FailValues
<1>3. CASE val' = Having(val, Local(Arg(1)), 0) /\ Proceed
  <2>1. /\ Frame.plan \in Plans /\ Frame.pc \in 1 .. Len(Steps(Frame.plan))
        /\ Steps(Frame.plan)[Frame.pc][1] = "init"
        /\ Arg(1) = Steps(Frame.plan)[Frame.pc][2]
    BY <1>1, AtStep
  <2>2. Arg(1) \in Locals
    BY <2>1, NextTemp
  <2>3. Depth \in Nat
    BY <1>1, Innermost
  <2>4. Reg \subseteq DOMAIN val
    BY DEF ValueInv, Kept
  <2>5. Reg \subseteq DOMAIN val' /\ \A n \in Reg : val'[n] = val[n]
    BY <1>3, <2>2, <2>3, <2>4, NewLocalKeeps DEF Local
  <2>6. asked' = asked
    BY <1>3 DEF Proceed
  <2>7. Kept'
    BY <2>5, <2>6, OthersKept DEF ValueInv
  <2>8. Served'
    BY <1>1, <1>3, ProceedServes DEF ValueInv
  <2> QED BY <2>6, <2>7, <2>8 DEF ValueInv, Asked
<1> QED BY <1>2, <1>3 DEF InitTemp

(* zfree_temp changes no value.                                            *)
LEMMA FreeTempValues ==
  ASSUME StackInv, ValueInv, FreeTemp
  PROVE  ValueInv'
<1>1. At("free") /\ Proceed /\ val' = val /\ asked' = asked
  BY DEF FreeTemp, Proceed
<1>2. Served'
  BY <1>1, ProceedServes DEF ValueInv
<1> QED BY <1>1, <1>2 DEF ValueInv, Asked, Kept, Spared

(* zmul's operand b or c as the outermost activation sees it: a number of  *)
(* the program, with or without its sign.                                  *)
LEMMA OperandSpared ==
  ASSUME StackInv, ValueInv, Running, Frame.plan = "zmul", NEW x \in {"b", "c"}
  PROVE  /\ Depth = 1 /\ Outermost(Frame) /\ Noted(Frame) /\ asked.fn = "zmul"
         /\ Target(x) = asked[x] /\ Read(Part(x)) = val[asked[x]] /\ asked[x] \in Reg
         /\ asked[x] # asked.a =>
              /\ val[asked[x]] \in { asked.was[asked[x]], Abs(asked.was[asked[x]]) }
              /\ asked.was[asked[x]] \in Int
<1>1. Depth \in Nat /\ Depth > 0 /\ Depth \in 1 .. Depth
  BY Innermost
<1>2. Serves(Frame, Depth)
  BY <1>1 DEF ValueInv, Served, Frame
<1>3. Depth = 1
  BY <1>2 DEF Serves
<1>4. Outermost(Frame) /\ Noted(Frame)
  BY <1>1, <1>3 DEF ValueInv, Served, Frame
<1>5. Frame.parts = [a |-> Whole(asked.a), b |-> Whole(asked.b), c |-> Whole(asked.c)]
  BY <1>4 DEF Outermost
<1>6. Part(x) = Whole(asked[x])
  BY <1>5 DEF Part
<1>7. Target(x) = asked[x] /\ Read(Part(x)) = val[asked[x]]
  BY <1>6 DEF Target, Read, Whole
<1>8. asked[x] \in Reg /\ asked.fn = "zmul"
  BY <1>4 DEF ValueInv, Asked, Outermost
<1>9. asked[x] # asked.a =>
        /\ val[asked[x]] \in { asked.was[asked[x]], Abs(asked.was[asked[x]]) }
        /\ asked.was[asked[x]] \in Int
  BY <1>8 DEF ValueInv, Asked, Kept, Spared
<1> QED BY <1>3, <1>4, <1>7, <1>8, <1>9

(* A step that gives an operand its value or the value without a sign.     *)
LEMMA OperandKept ==
  ASSUME ValueInv, asked.fn = "zmul", asked' = asked, NEW x \in {"b", "c"}, NEW v,
         val' = [val EXCEPT ![asked[x]] = v], asked[x] \in Reg,
         asked[x] # asked.a => v \in { asked.was[asked[x]], Abs(asked.was[asked[x]]) }
  PROVE  Kept'
<1>1. Reg \subseteq DOMAIN val /\ \A n \in Reg \ {asked.a} : Spared(n)
  BY DEF ValueInv, Kept
<1>2. /\ DOMAIN val' = DOMAIN val /\ val'[asked[x]] = v
      /\ \A n \in DOMAIN val : n # asked[x] => val'[n] = val[n]
  BY <1>1
<1>3. ASSUME NEW n \in Reg \ {asked.a}
      PROVE  Spared(n)'
  <2>1. CASE n = asked[x]
    <3>1. asked[x] \in {asked.b, asked.c}
      OBVIOUS
    <3> QED BY <2>1, <3>1, <1>2, <1>3 DEF Spared
  <2>2. CASE n # asked[x]
    <3>1. val'[n] = val[n] /\ Spared(n)
      BY <2>2, <1>1, <1>2
    <3> QED BY <3>1 DEF Spared
  <2> QED BY <2>1, <2>2
<1> QED BY <1>1, <1>2, <1>3 DEF Kept

(* zmul takes the sign of an operand away and notes it.                    *)
LEMMA TakeSignValues ==
  ASSUME StackInv, ValueInv, TakeSign
  PROVE  ValueInv'
<1>1. At("abs") /\ Running
  BY DEF TakeSign, At
<1>2. /\ Frame.plan \in Plans /\ Frame.pc \in 1 .. Len(Steps(Frame.plan))
      /\ Steps(Frame.plan)[Frame.pc][1] = "abs"
      /\ Arg(1) = Steps(Frame.plan)[Frame.pc][2]
      /\ Frame.plan # "zsqr_ll" /\ Frame.pc <= Len(Steps(Frame.plan))
  BY <1>1, AtStep
<1>3. Frame.plan = "zmul"
  BY <1>2, SignSteps
<1>4. \/ Frame.pc = 1 /\ Arg(1) = "b"
      \/ Frame.pc = 2 /\ Arg(1) = "c"
  BY <1>2, <1>3, SignSteps
<1> DEFINE x == Arg(1)
           n == asked[x]
           v == val[n]
           g == [Frame EXCEPT !.pc = @ + 1, !.signs = Having(@, x, Sign(v))]
<1>5. x \in {"b", "c"}
  BY <1>4
<1>6. /\ Depth = 1 /\ Outermost(Frame) /\ Noted(Frame) /\ asked.fn = "zmul"
      /\ Target(x) = n /\ Read(Part(x)) = v /\ n \in Reg
      /\ n # asked.a => v \in { asked.was[n], Abs(asked.was[n]) } /\ asked.was[n] \in Int
  BY <1>1, <1>3, <1>5, OperandSpared
<1>7. /\ val' = [val EXCEPT ![n] = Abs(v)] /\ asked' = asked
      /\ calls' = [calls EXCEPT ![Depth] = g]
  BY <1>6 DEF TakeSign, Frame
<1>8. n # asked.a => /\ Abs(v) \in { asked.was[n], Abs(asked.was[n]) }
                     /\ Sign(v) \in SignsOf(n)
  <2> SUFFICES ASSUME n # asked.a
               PROVE  Abs(v) = Abs(asked.was[n]) /\ Sign(v) \in SignsOf(n)
    OBVIOUS
  <2>1. v \in { asked.was[n], Abs(asked.was[n]) } /\ asked.was[n] \in Int
    BY <1>6
  <2> QED BY <2>1, Signs DEF SignsOf
<1>9. Kept'
  BY <1>5, <1>6, <1>7, <1>8, OperandKept
<1>10. Activated(Frame) /\ Frame.pc \in Nat
  BY <1>1, Innermost DEF Activated
<1>11. /\ g.plan = Frame.plan /\ g.pc = Frame.pc + 1 /\ g.parts = Frame.parts
       /\ g.signs = Having(Frame.signs, x, Sign(v))
  BY <1>10 DEF Activated, Fields
<1>12. Serves(Frame, Depth)
  BY <1>6 DEF ValueInv, Served, Frame
<1> HIDE DEF g
<1>13. Serves(g, Depth)
  BY <1>11, <1>12 DEF Serves
<1>14. Outermost(g)
  BY <1>6, <1>11 DEF Outermost
<1>15. /\ DOMAIN g.signs = DOMAIN Frame.signs \cup {x} /\ g.signs[x] = Sign(v)
       /\ \A y \in DOMAIN Frame.signs : y # x => g.signs[y] = Frame.signs[y]
  BY <1>11 DEF Having
<1>16. Noted(g)
  <2>1. CASE Frame.pc = 1 /\ x = "b"
    <3>1. g.pc = 2 /\ ~ (g.pc > 2) /\ n = asked.b
      BY <2>1, <1>11
    <3> QED BY <2>1, <3>1, <1>8, <1>15 DEF Noted
  <2>2. CASE Frame.pc = 2 /\ x = "c"
    <3>1. n = asked.c /\ x # "b" /\ Frame.pc > 1
      BY <2>2
    <3>2. /\ "b" \in DOMAIN Frame.signs
          /\ asked.b # asked.a => Frame.signs["b"] \in SignsOf(asked.b)
      BY <3>1, <1>3, <1>6 DEF Noted
    <3>3. g.signs["b"] = Frame.signs["b"] /\ "b" \in DOMAIN g.signs /\ "c" \in DOMAIN g.signs
      BY <2>2, <3>1, <3>2, <1>15
    <3>4. asked.c # asked.a => g.signs["c"] \in SignsOf(asked.c)
      BY <2>2, <3>1, <1>8, <1>15
    <3> QED BY <3>2, <3>3, <3>4 DEF Noted
  <2> QED BY <1>4, <2>1, <2>2
<1>17. Served'
  BY <1>1, <1>7, <1>13, <1>14, <1>16, ServesOn DEF ValueInv
<1> QED BY <1>7, <1>9, <1>17 DEF ValueInv, Asked

(* zmul gives an operand the sign that was noted.                          *)
LEMMA GiveSignValues ==
  ASSUME StackInv, ValueInv, GiveSign
  PROVE  ValueInv'
<1>1. At("restore") /\ Running
  BY DEF GiveSign, At
<1>2. /\ Frame.plan \in Plans /\ Frame.pc \in 1 .. Len(Steps(Frame.plan))
      /\ Steps(Frame.plan)[Frame.pc][1] = "restore"
      /\ Arg(1) = Steps(Frame.plan)[Frame.pc][2]
  BY <1>1, AtStep
<1>3. Frame.plan = "zmul"
  BY <1>2, SignSteps
<1> DEFINE x == Arg(1)
           n == asked[x]
           v == val[n]
<1>4. x \in {"b", "c"} /\ Frame.pc > 2
  BY <1>2, <1>3, SignSteps
<1>5. /\ Depth = 1 /\ Outermost(Frame) /\ Noted(Frame) /\ asked.fn = "zmul"
      /\ Target(x) = n /\ Read(Part(x)) = v /\ n \in Reg
      /\ n # asked.a => v \in { asked.was[n], Abs(asked.was[n]) } /\ asked.was[n] \in Int
  BY <1>1, <1>3, <1>4, OperandSpared
<1>6. val' = [val EXCEPT ![n] = Frame.signs[x] * Abs(v)] /\ Proceed /\ asked' = asked
  BY <1>5 DEF GiveSign, Resign, Store, Proceed
<1>7. n # asked.a => Frame.signs[x] * Abs(v) \in { asked.was[n], Abs(asked.was[n]) }
  <2> SUFFICES ASSUME n # asked.a
               PROVE  Frame.signs[x] * Abs(v) \in { asked.was[n], Abs(asked.was[n]) }
    OBVIOUS
  <2>1. v \in { asked.was[n], Abs(asked.was[n]) } /\ asked.was[n] \in Int
    BY <1>5
  <2>2. Frame.pc > 1
    BY <1>2, <1>4
  <2>3. Frame.signs[x] \in SignsOf(n)
    BY <1>3, <1>4, <1>5, <2>2 DEF Noted
  <2>4. \A s \in {Sign(asked.was[n]), Sign(Abs(asked.was[n]))} :
          s * Abs(v) \in { asked.was[n], Abs(asked.was[n]) }
    BY <2>1, Signs
  <2> QED BY <2>3, <2>4 DEF SignsOf
<1>8. Kept'
  BY <1>4, <1>5, <1>6, <1>7, OperandKept
<1>9. Served'
  BY <1>1, <1>6, ProceedServes DEF ValueInv
<1> QED BY <1>6, <1>8, <1>9 DEF ValueInv, Asked

(* A shift stores in what it shifts.                                       *)
LEMMA ShiftValues ==
  ASSUME StackInv, ValueInv, Shift
  PROVE  ValueInv'
<1>1. At("shift")
  BY DEF Shift
<1>2. Arg(1) \in {"a"} \cup Temporaries
  BY <1>1, Named
<1>3. CASE Fail
  BY <1>3, FailValues
<1>4. ASSUME NEW v, Puts(Arg(1), v)
      PROVE  ValueInv'
  BY <1>1, <1>2, <1>4, StoreValues
<1> QED BY <1>3, <1>4, StorePuts DEF Shift

(* An addition stores in its first operand.                                *)
LEMMA AddValues ==
  ASSUME StackInv, ValueInv, Add
  PROVE  ValueInv'
<1>1. At("add")
  BY DEF Add
<1>2. Arg(1) \in {"a"} \cup Temporaries
  BY <1>1, Named
<1>3. CASE Fail
  BY <1>3, FailValues
<1>4. ASSUME NEW v, Puts(Arg(1), v)
      PROVE  ValueInv'
  BY <1>1, <1>2, <1>4, StoreValues
<1> QED BY <1>3, <1>4, StorePuts DEF Add

(* A subtraction stores in its first operand.                              *)
LEMMA SubtractValues ==
  ASSUME StackInv, ValueInv, Subtract
  PROVE  ValueInv'
<1>1. At("sub")
  BY DEF Subtract
<1>2. Arg(1) \in {"a"} \cup Temporaries
  BY <1>1, Named
<1>3. ASSUME NEW v, Puts(Arg(1), v)
      PROVE  ValueInv'
  BY <1>1, <1>2, <1>3, StoreValues
<1> QED BY <1>3, ResignPuts DEF Subtract, Puts

(* zmul gives the product its sign.                                        *)
LEMMA SetSignValues ==
  ASSUME StackInv, ValueInv, SetSign
  PROVE  ValueInv'
<1>1. ASSUME NEW v, At("sign"), Puts("a", v)
      PROVE  ValueInv'
  BY <1>1, StoreValues
<1> QED BY <1>1, ResignPuts DEF SetSign

(* zsqr makes its result positive.                                         *)
LEMMA SetPositiveValues ==
  ASSUME StackInv, ValueInv, SetPositive
  PROVE  ValueInv'
<1>1. ASSUME NEW v, At("positive"), Puts("a", v)
      PROVE  ValueInv'
  BY <1>1, StoreValues
<1> QED BY <1>1, ResignPuts DEF SetPositive

(* A call works for the destination of its caller, or for one of its       *)
(* temporaries.                                                            *)
LEMMA CallValues ==
  ASSUME StackInv, ValueInv, NEW kind \in {"mul", "sqr"}, At(kind),
         NEW plan \in {"zmul_ll", "zsqr_ll"}, NEW parts, Call(plan, parts),
         UNCHANGED <<val, tempStack, status, asked>>,
         {"a", "b"} \subseteq DOMAIN parts, plan = "zmul_ll" => "c" \in DOMAIN parts,
         Temporaries \cap DOMAIN parts = {}, parts.a = Part(Arg(1))
  PROVE  ValueInv'
<1> DEFINE h == Activation(plan, parts)
           g == Onward(Frame)
<1>1. /\ Depth' = Depth + 1 /\ calls'[Depth + 1] = h /\ calls'[Depth] = g
      /\ \A i \in 1 .. Depth : i # Depth => calls'[i] = calls[i]
  BY CallStack
<1>2. Running /\ kind # "abs"
  BY DEF At
<1>3. Depth \in Nat /\ Depth > 0 /\ 1 \in 1 .. Depth /\ Depth \in 1 .. Depth
  BY <1>2, Innermost
<1>4. h.plan = plan /\ h.parts = parts
  BY DEF Activation
<1>5. parts.a.of = asked.a \/ parts.a.of \notin Reg
  <2>1. Arg(1) \in {"a"} \cup Temporaries
    BY Named
  <2>2. Target(Arg(1)) = asked.a \/ Target(Arg(1)) \notin Reg
    BY <1>2, <2>1, Aims DEF ValueInv
  <2> QED BY <2>2 DEF Target
<1>6. Serves(g, Depth) /\ (Depth = 1 => Outermost(g) /\ Noted(g))
  BY <1>2, OnwardServes DEF ValueInv
<1> HIDE DEF g, h
<1>7. Serves(h, Depth + 1)
  BY <1>4, <1>5 DEF Serves
<1>8. \A i \in 1 .. Depth + 1 : i \in 1 .. Depth \/ i = Depth + 1
  BY <1>3
<1>9. \A i \in 1 .. Depth : Serves(calls'[i], i)
  BY <1>1, <1>6 DEF ValueInv, Served
<1>10. \A i \in 1 .. Depth + 1 : Serves(calls'[i], i)
  BY <1>1, <1>7, <1>8, <1>9
<1>11. Outermost(calls'[1]) /\ Noted(calls'[1])
  BY <1>1, <1>3, <1>6 DEF ValueInv, Served
<1>12. \A f, i : Serves(f, i)' <=> Serves(f, i)
  BY DEF Serves
<1>13. \A f : (Outermost(f)' <=> Outermost(f)) /\ (Noted(f)' <=> Noted(f))
  BY DEF Outermost, Whole, Noted, SignsOf
<1>14. Served'
  BY <1>1, <1>10, <1>11, <1>12, <1>13 DEF Served
<1> QED BY <1>14 DEF ValueInv, Asked, Kept, Spared

(* A call of zmul_ll.                                                      *)
LEMMA MultiplyValues ==
  ASSUME StackInv, ValueInv, Multiply
  PROVE  ValueInv'
<1> DEFINE parts == [a |-> Part(Arg(1)), b |-> Part(Arg(2)), c |-> Part(Arg(3))]
<1>1. /\ At("mul") /\ Call("zmul_ll", parts) /\ UNCHANGED <<val, tempStack, status, asked>>
  BY DEF Multiply
<1>2. DOMAIN parts = {"a", "b", "c"} /\ parts.a = Part(Arg(1))
  OBVIOUS
<1>3. Temporaries \cap {"a", "b", "c"} = {}
  BY DEF Temporaries
<1> HIDE DEF parts
<1>4. /\ {"a", "b"} \subseteq DOMAIN parts /\ "c" \in DOMAIN parts
      /\ Temporaries \cap DOMAIN parts = {}
  BY <1>2, <1>3
<1> QED BY <1>1, <1>2, <1>4, CallValues

(* A call of zsqr_ll.                                                      *)
LEMMA SquareValues ==
  ASSUME StackInv, ValueInv, Square
  PROVE  ValueInv'
<1> DEFINE parts == [a |-> Part(Arg(1)), b |-> Part(Arg(2))]
<1>1. /\ At("sqr") /\ Call("zsqr_ll", parts) /\ UNCHANGED <<val, tempStack, status, asked>>
  BY DEF Square
<1>2. DOMAIN parts = {"a", "b"} /\ parts.a = Part(Arg(1))
  OBVIOUS
<1>3. Temporaries \cap {"a", "b"} = {}
  BY DEF Temporaries
<1> HIDE DEF parts
<1>4. /\ {"a", "b"} \subseteq DOMAIN parts /\ Temporaries \cap DOMAIN parts = {}
  BY <1>2, <1>3
<1> QED BY <1>1, <1>2, <1>4, CallValues

(* The activations that are left when the innermost one returns.           *)
LEMMA ReturnServes ==
  ASSUME StackInv, Served, Running, Count(Frame) = 0, Return
  PROVE  Served' /\ asked' = asked
<1>1. /\ Depth' = Depth - 1 /\ asked' = asked
      /\ \A i \in 1 .. Depth - 1 : calls'[i] = calls[i]
  BY Ends DEF Return
<1>2. Depth \in Nat /\ Depth > 0
  BY Innermost
<1>3. /\ \A i \in 1 .. Depth - 1 : i \in 1 .. Depth
      /\ Depth - 1 > 0 => 1 \in 1 .. Depth - 1
  BY <1>2
<1>4. \A i \in 1 .. Depth - 1 : Serves(calls'[i], i)
  BY <1>1, <1>3 DEF Served
<1>5. Depth - 1 > 0 => Outermost(calls'[1]) /\ Noted(calls'[1])
  BY <1>1, <1>2, <1>3 DEF Served
<1>6. \A f, i : Serves(f, i)' <=> Serves(f, i)
  BY <1>1 DEF Serves
<1>7. \A f : (Outermost(f)' <=> Outermost(f)) /\ (Noted(f)' <=> Noted(f))
  BY <1>1 DEF Outermost, Whole, Noted, SignsOf
<1> QED BY <1>1, <1>4, <1>5, <1>6, <1>7 DEF Served

(* A function that returns at once with a result.                          *)
LEMMA ResultValues ==
  ASSUME StackInv, ValueInv, Entering, Return, NEW v,
         val' = [val EXCEPT ![Target("a")] = v]
  PROVE  ValueInv'
<1>1. Running /\ Count(Frame) = 0
  BY AtEntry
<1>2. Served' /\ asked' = asked
  BY <1>1, ReturnServes DEF ValueInv
<1>3. Target("a") = asked.a \/ Target("a") \notin Reg
  BY <1>1, Aims DEF ValueInv
<1>4. Kept'
  BY <1>2, <1>3, StoreKeeps DEF ValueInv
<1> QED BY <1>2, <1>4 DEF ValueInv, Asked

(* The square of zero is stored at once.                                   *)
LEMMA SquareNothingValues ==
  ASSUME StackInv, ValueInv, SquareNothing
  PROVE  ValueInv'
BY ResultValues DEF SquareNothing

(* The locals of an activation end with it.                                *)
LEMMA LeaveFunctionValues ==
  ASSUME StackInv, ValueInv, LeaveFunction
  PROVE  ValueInv'
<1>1. Finished /\ val' = Keeping(val, Outlive) /\ Return
  BY DEF LeaveFunction
<1>2. Running /\ Count(Frame) = 0
  BY <1>1, AtEnd
<1>3. Served' /\ asked' = asked
  BY <1>1, <1>2, ReturnServes DEF ValueInv
<1>4. Reg \subseteq Outlive
  BY DEF ValueInv, Kept, Outlive
<1>5. Kept'
  BY <1>1, <1>3, <1>4, KeepingKeeps DEF ValueInv
<1> QED BY <1>3, <1>5 DEF ValueInv, Asked

(* An activation that enters its body, with no sign noted yet.             *)
LEMMA EntersServes ==
  ASSUME StackInv, ValueInv, Entering, NEW g, Serves(g, Depth), g.pc = 1,
         Depth = 1 => Outermost(g), asked' = asked,
         calls' = [calls EXCEPT ![Depth] = g]
  PROVE  Served'
<1>1. Running
  BY AtEntry
<1>2. ~ (g.pc > 1) /\ ~ (g.pc > 2)
  OBVIOUS
<1>3. Noted(g)
  BY <1>2 DEF Noted
<1> QED BY <1>1, <1>3, ServesOn DEF ValueInv

(* Whom the activation works for that enters its body.                     *)
LEMMA EnteringServes ==
  ASSUME StackInv, ValueInv, Entering
  PROVE  /\ Serves(Frame, Depth) /\ Depth \in Nat /\ Depth > 0
         /\ Depth = 1 => Outermost(Frame)
         /\ Frame.plan \notin {"zmul", "zsqr"} => Depth # 1
<1>1. Running
  BY AtEntry
<1>2. Depth \in Nat /\ Depth > 0 /\ Depth \in 1 .. Depth
  BY <1>1, Innermost
<1>3. Serves(Frame, Depth) /\ (Depth = 1 => Outermost(Frame))
  BY <1>2 DEF ValueInv, Served, Frame
<1> QED BY <1>2, <1>3 DEF Outermost

(* zmul and zsqr change nothing before their first step.                   *)
LEMMA EnterZmulValues ==
  ASSUME StackInv, ValueInv, EnterZmul
  PROVE  ValueInv'
<1>1. /\ Entering /\ Frame.plan \in {"zmul", "zsqr"}
      /\ Proceed /\ val' = val /\ asked' = asked
  BY DEF EnterZmul, Proceed
<1>2. Activated(Frame) /\ Frame.pc = 0
  BY <1>1, AtEntry
<1>3. calls' = [calls EXCEPT ![Depth] = Onward(Frame)]
  BY <1>1 DEF Proceed, Onward, Frame
<1>4. Frame.plan # "zsqr_ll" /\ Frame.plan \in Plans
  BY <1>1 DEF Plans
<1>5. Len(Steps(Frame.plan)) \in Nat
  BY <1>4, NothingHeld
<1>6. Frame.pc <= Len(Steps(Frame.plan)) /\ Frame.pc + 1 = 1
  BY <1>2, <1>5
<1>7. /\ Onward(Frame).plan = Frame.plan /\ Onward(Frame).pc = 1
      /\ Onward(Frame).parts = Frame.parts
  BY <1>2, <1>4, <1>6, OneOn
<1>8. Serves(Frame, Depth) /\ (Depth = 1 => Outermost(Frame))
  BY <1>1, EnteringServes
<1>9. Serves(Onward(Frame), Depth)
  BY <1>7, <1>8 DEF Serves
<1>10. Depth = 1 => Outermost(Onward(Frame))
  BY <1>7, <1>8 DEF Outermost
<1>11. Served'
  BY <1>1, <1>3, <1>7, <1>9, <1>10, EntersServes
<1> QED BY <1>1, <1>11 DEF ValueInv, Asked, Kept, Spared

(* zmul_ll stores a product at once or enters its body.                    *)
LEMMA EnterZmulLlValues ==
  ASSUME StackInv, ValueInv, EnterZmulLl
  PROVE  ValueInv'
<1>1. Entering /\ Frame.plan = "zmul_ll"
  BY DEF EnterZmulLl
<1>2. ASSUME NEW v, val' = [val EXCEPT ![Target("a")] = v], Return
      PROVE  ValueInv'
  BY <1>1, <1>2, ResultValues
<1>3. CASE Fail
  BY <1>3, FailValues
<1>4. ASSUME NEW delim, calls' = [calls EXCEPT ![Depth].pc = 1, ![Depth].delim = delim],
             UNCHANGED <<val, asked>>
      PROVE  ValueInv'
  <2> DEFINE g == [Frame EXCEPT !.pc = 1, !.delim = delim]
  <2>1. calls' = [calls EXCEPT ![Depth] = g]
    BY <1>4 DEF Frame
  <2>2. Activated(Frame)
    BY <1>1, AtEntry
  <2>3. g.pc = 1 /\ g.plan = Frame.plan /\ g.parts = Frame.parts
    BY <2>2 DEF Activated, Fields
  <2>4. Serves(Frame, Depth) /\ Depth # 1
    BY <1>1, EnteringServes
  <2> HIDE DEF g
  <2>5. Serves(g, Depth)
    BY <2>3, <2>4 DEF Serves
  <2>6. Served'
    BY <1>1, <1>4, <2>1, <2>3, <2>4, <2>5, EntersServes
  <2> QED BY <1>4, <2>6 DEF ValueInv, Asked, Kept, Spared
<1> QED BY <1>2, <1>3, <1>4 DEF EnterZmulLl

(* zsqr_ll enters one of its two bodies.                                   *)
LEMMA ChoosesBody ==
  ASSUME StackInv, ValueInv, Entering, Frame.plan = "zsqr_ll", asked' = asked,
         NEW g, calls' = [calls EXCEPT ![Depth] = g],
         g.pc = 1, g.plan \in {"high_only", "both_parts"},
         DOMAIN g.parts \subseteq DOMAIN Frame.parts \cup {"low", "high"},
         DOMAIN Frame.parts \subseteq DOMAIN g.parts,
         "a" \in DOMAIN Frame.parts => g.parts["a"] = Frame.parts["a"]
  PROVE  Served'
<1>1. Serves(Frame, Depth) /\ Depth # 1
  BY EnteringServes
<1>2. Temporaries \cap {"low", "high"} = {}
  BY DEF Temporaries
<1>3. Temporaries \cap DOMAIN g.parts = {}
  BY <1>1, <1>2 DEF Serves
<1>4. g.parts["a"].of = asked.a \/ g.parts["a"].of \notin Reg
  BY <1>1 DEF Serves
<1>5. {"a", "b"} \subseteq DOMAIN g.parts
  BY <1>1 DEF Serves
<1>6. Serves(g, Depth)
  BY <1>3, <1>4, <1>5 DEF Serves
<1> QED BY <1>1, <1>6, EntersServes

(* zsqr_ll stores a square at once or splits its operand.                  *)
LEMMA EnterZsqrLlValues ==
  ASSUME StackInv, ValueInv, EnterZsqrLl
  PROVE  ValueInv'
<1>1. Entering /\ Frame.plan = "zsqr_ll"
  BY DEF EnterZsqrLl
<1>2. Activated(Frame) /\ Depth \in Nat
  BY <1>1, AtEntry, EnteringServes
<1>3. ASSUME NEW v, val' = [val EXCEPT ![Target("a")] = v], Return
      PROVE  ValueInv'
  BY <1>1, <1>3, ResultValues
<1>4. CASE Fail
  BY <1>4, FailValues
<1>5. ASSUME NEW delim, NEW plan \in {"high_only", "both_parts"}, NEW v, NEW w,
             val' = Having(Having(val, Local("low"), v), Local("high"), w),
             calls' = [calls EXCEPT ![Depth].pc = 1, ![Depth].delim = delim,
                                    ![Depth].plan = plan],
             asked' = asked
      PROVE  ValueInv'
  <2> DEFINE g == [Frame EXCEPT !.pc = 1, !.delim = delim, !.plan = plan]
  <2>1. calls' = [calls EXCEPT ![Depth] = g]
    BY <1>5 DEF Frame
  <2>2. g.pc = 1 /\ g.plan = plan /\ g.parts = Frame.parts
    BY <1>2 DEF Activated, Fields
  <2> HIDE DEF g
  <2>3. Served'
    BY <1>1, <1>5, <2>1, <2>2, ChoosesBody
  <2>4. Reg \subseteq DOMAIN val
    BY DEF ValueInv, Kept
  <2>5. "low" \in Locals /\ "high" \in Locals
    BY DEF Locals
  <2> DEFINE f == Having(val, Local("low"), v)
  <2>6. Reg \subseteq DOMAIN f /\ \A n \in Reg : f[n] = val[n]
    BY <1>2, <2>4, <2>5, NewLocalKeeps DEF Local
  <2>7. val' = Having(f, Local("high"), w)
    BY <1>5
  <2> HIDE DEF f
  <2>8. Reg \subseteq DOMAIN val' /\ \A n \in Reg : val'[n] = f[n]
    BY <1>2, <2>5, <2>6, <2>7, NewLocalKeeps DEF Local
  <2>9. Kept'
    BY <1>5, <2>6, <2>8, OthersKept DEF ValueInv
  <2> QED BY <1>5, <2>3, <2>9 DEF ValueInv, Asked
<1>6. ASSUME NEW delim, NEW plan \in {"high_only", "both_parts"}, NEW p, NEW q,
             calls' = [calls EXCEPT ![Depth].pc = 1, ![Depth].delim = delim,
                                    ![Depth].plan = plan,
                                    ![Depth].parts = Having(Having(@, "low", p), "high", q)],
             UNCHANGED <<val, asked>>
      PROVE  ValueInv'
  <2> DEFINE parts == Having(Having(Frame.parts, "low", p), "high", q)
             g == [Frame EXCEPT !.pc = 1, !.delim = delim, !.plan = plan, !.parts = parts]
  <2>1. calls' = [calls EXCEPT ![Depth] = g]
    BY <1>6 DEF Frame
  <2>2. /\ DOMAIN parts = DOMAIN Frame.parts \cup {"low", "high"}
        /\ "a" \in DOMAIN Frame.parts => parts["a"] = Frame.parts["a"]
    BY DEF Having
  <2> HIDE DEF parts
  <2>3. g.pc = 1 /\ g.plan = plan /\ g.parts = parts
    BY <1>2 DEF Activated, Fields
  <2> HIDE DEF g
  <2>4. Served'
    BY <1>1, <1>6, <2>1, <2>2, <2>3, ChoosesBody
  <2> QED BY <1>6, <2>4 DEF ValueInv, Asked, Kept, Spared
<1>7. \A low : Plan(low) \in {"high_only", "both_parts"}
  BY DEF Plan
<1> DEFINE b     == Abs(Read(Part("b")))
           half  == Bits(b) \div 2
           delim == half - (half % BitsPerChar)
           low   == Low(Part("b"), delim)
<1>8. \/ val' = [val EXCEPT ![Target("a")] = b * b] /\ Return
      \/ Fail
      \/ /\ val' = Having(Having(val, Local("low"), b % 2 ^ half), Local("high"), b \div 2 ^ half)
         /\ calls' = [calls EXCEPT ![Depth].pc = 1, ![Depth].delim = half,
                                   ![Depth].plan = Plan(b % 2 ^ half)]
         /\ asked' = asked
      \/ /\ calls' = [calls EXCEPT ![Depth].pc = 1, ![Depth].delim = delim,
                                   ![Depth].plan = Plan(Read(low)),
                                   ![Depth].parts = Having(Having(@, "low", low),
                                                           "high", High(Part("b"), delim))]
         /\ UNCHANGED <<val, asked>>
  BY DEF EnterZsqrLl
<1> HIDE DEF b, half, delim, low
<1>9. CASE /\ val' = Having(Having(val, Local("low"), b % 2 ^ half), Local("high"), b \div 2 ^ half)
           /\ calls' = [calls EXCEPT ![Depth].pc = 1, ![Depth].delim = half,
                                     ![Depth].plan = Plan(b % 2 ^ half)]
           /\ asked' = asked
  BY <1>5, <1>7, <1>9
<1>10. CASE /\ calls' = [calls EXCEPT ![Depth].pc = 1, ![Depth].delim = delim,
                                      ![Depth].plan = Plan(Read(low)),
                                      ![Depth].parts = Having(Having(@, "low", low),
                                                              "high", High(Part("b"), delim))]
            /\ UNCHANGED <<val, asked>>
  BY <1>6, <1>7, <1>10
<1>11. CASE val' = [val EXCEPT ![Target("a")] = b * b] /\ Return
  BY <1>3, <1>11
<1> QED BY <1>4, <1>8, <1>9, <1>10, <1>11

(* libzahl_failure frees temporaries and looks at no value.                *)
LEMMA UnwindValues ==
  ASSUME ValueInv, Unwind
  PROVE  ValueInv'
<1>1. UNCHANGED <<val, calls, asked>>
  BY DEF Unwind
<1> QED BY <1>1 DEF ValueInv, Asked, Kept, Spared, Served, Serves, Outermost, Noted, SignsOf,
                    Whole, Depth

(* The jump leaves the numbers of the program alone.                       *)
LEMMA LongjmpValues ==
  ASSUME ValueInv, Longjmp
  PROVE  ValueInv'
<1>1. calls' = <<>> /\ val' = Keeping(val, Reg) /\ asked' = asked
  BY DEF Longjmp
<1>2. Depth' = 0 /\ 1 .. 0 = {}
  BY <1>1 DEF Depth
<1>3. Served'
  BY <1>2 DEF Served
<1>4. Kept'
  BY <1>1, KeepingKeeps DEF ValueInv
<1> QED BY <1>1, <1>3, <1>4 DEF ValueInv, Asked

-----------------------------------------------------------------------------
(* At first every number has the value it had at the call.                 *)
LEMMA InitValues ==
  ASSUME Init
  PROVE  ValueInv
<1>1. PICK fn \in {"zmul", "zsqr"}, p \in Parameters, v \in [Reg -> Operand \cup {Other}] :
        /\ val = v
        /\ asked = [fn |-> fn, a |-> p[1], b |-> p[2], c |-> p[3], was |-> v]
        /\ calls = << [plan |-> fn, pc |-> 0, delim |-> 0, signs |-> <<>>, height |-> 0,
                       parts |-> [a |-> Whole(p[1]), b |-> Whole(p[2]), c |-> Whole(p[3])]] >>
  BY DEF Init
<1> DEFINE f == [plan |-> fn, pc |-> 0, delim |-> 0, signs |-> <<>>, height |-> 0,
                 parts |-> [a |-> Whole(p[1]), b |-> Whole(p[2]), c |-> Whole(p[3])]]
<1>2. /\ asked.fn = fn /\ asked.a = p[1] /\ asked.b = p[2] /\ asked.c = p[3]
      /\ asked.was = v /\ val = v
  BY <1>1
<1>3. p[1] \in Reg /\ p[2] \in Reg /\ p[3] \in Reg
  BY ParameterAssumption
<1>4. \A n \in Reg : v[n] \in Int
  BY OperandAssumption
<1>5. Asked
  BY <1>2, <1>3, <1>4 DEF Asked
<1>6. Kept
  BY <1>2 DEF Kept, Spared
<1>7. /\ f.plan = fn /\ f.pc = 0
      /\ f.parts = [a |-> Whole(p[1]), b |-> Whole(p[2]), c |-> Whole(p[3])]
  OBVIOUS
<1>8. Depth = 1 /\ calls[1] = f
  BY <1>1 DEF Depth
<1> HIDE DEF f
<1>9. DOMAIN f.parts = {"a", "b", "c"} /\ f.parts["a"].of = p[1]
  BY <1>7 DEF Whole
<1>10. Temporaries \cap {"a", "b", "c"} = {}
  BY DEF Temporaries
<1>11. Serves(f, 1)
  BY <1>2, <1>9, <1>10 DEF Serves
<1>12. Outermost(f)
  BY <1>2, <1>7 DEF Outermost
<1>13. Noted(f)
  <2>1. ~ (f.pc > 1) /\ ~ (f.pc > 2)
    BY <1>7
  <2> QED BY <2>1 DEF Noted
<1>14. \A i \in 1 .. Depth : i = 1
  BY <1>8
<1> QED BY <1>5, <1>6, <1>8, <1>11, <1>12, <1>13, <1>14 DEF ValueInv, Served

(* Every step keeps what the activations work for, and the other numbers.  *)
LEMMA NextValues ==
  ASSUME StackInv, ValueInv, [Next]_vars
  PROVE  ValueInv'
<1>1. CASE UNCHANGED vars
  BY <1>1 DEF vars, ValueInv, Asked, Kept, Spared, Served, Serves, Outermost, Noted, SignsOf,
              Whole, Depth
<1> QED BY <1>1, EnterZmulValues, SquareNothingValues, EnterZmulLlValues, EnterZsqrLlValues,
           MultiplyValues, SquareValues, InitTempValues, FreeTempValues, SplitValues,
           ShiftValues, AddValues, SubtractValues, TakeSignValues, GiveSignValues,
           SetSignValues, SetPositiveValues, LeaveFunctionValues, UnwindValues,
           LongjmpValues DEF Next

(* What that means when control is back in main.                           *)
LEMMA OnlySigns ==
  ASSUME StackInv, ValueInv
  PROVE  FailureCostsSigns
<1>1. \A j \in 1 .. Len(tempStack) : tempStack[j][1] <= Depth
  BY DEF StackInv
<1>2. status = "jumped" => tempStack = <<>>
  BY DEF StackInv
<1>3. \A n \in Reg \ {asked.a} :
        \/ val[n] = asked.was[n]
        \/ asked.fn = "zmul" /\ n \in {asked.b, asked.c} /\ val[n] = Abs(asked.was[n])
  BY DEF ValueInv, Kept, Spared
<1> QED BY <1>1, <1>2, <1>3 DEF FailureCostsSigns

(* Whichever allocation of zmul or zsqr fails, however deep in its         *)
(* recursions: the temporaries are freed while their activations are       *)
(* there, and when main has control again only the destination is lost,    *)
(* and of zmul's operands nothing but a sign.                              *)
THEOREM FailureOnlyCostsSigns == Spec => []FailureCostsSigns
<1>1. Init => StackInv /\ ValueInv
  BY InitStack, InitValues
<1>2. StackInv /\ ValueInv /\ [Next]_vars => StackInv' /\ ValueInv'
  BY NextStack, NextValues
<1>3. StackInv /\ ValueInv => FailureCostsSigns
  BY OnlySigns
<1> QED BY <1>1, <1>2, <1>3, PTL DEF Spec
=============================================================================
