-------------------------- MODULE ZahlNumberTheory --------------------------
(***************************************************************************)
(* Division, powers, the greatest common divisor, the primality test and   *)
(* random numbers: the functions of libzahl that are loops over others.    *)
(* The program calls one of them, which proceeds loop by loop and returns  *)
(* or fails, in any allocation or with an error of its own.                *)
(*                                                                         *)
(* A number is its value.  The functions work on numbers libzahl dedicates *)
(* to them, which hold whatever the previous function left there; of one   *)
(* of these, the limbs themselves matter, and of two where their pointers  *)
(* are.  Of the differences those that may lose a limb (zsub.c:21) do so;  *)
(* products are taken to be right, which those of numbers of several limbs *)
(* are as long as zmul loses none (ProductRight of ZahlProducts).          *)
(***************************************************************************)
EXTENDS ZahlValues, Sequences

CONSTANTS
  Reg,          \* the numbers of the program
  Null,         \* the null pointer, as zptest's witness
  Calls,        \* bound: the calls, with the values of Reg at the call
  LaterCalls,   \* bound: those made after others as well
  BitsPerChar,  \* bits of a limb                                (64)
  Leftover,     \* what a dedicated number holds before a call
  JunkLimb      \* bound: what a limb nobody has written is

(* What a function of libzahl takes: numbers, zptest's witness may be none. *)
Parameters(fn) ==
  CASE fn \in {"zdivmod", "zmodmul", "zmodsqr", "zmodpow"} -> {"a", "b", "c", "d"}
    [] fn \in {"zdiv", "zmod", "zpow", "zgcd"}             -> {"a", "b", "c"}
    [] fn = "zmodpowu"                                     -> {"a", "b", "d"}
    [] OTHER                                               -> {"a", "b"}
Functions == { "zdivmod", "zdiv", "zmod", "zmodmul", "zmodsqr", "zpow", "zmodpow",
               "zpowu", "zmodpowu", "zgcd", "zrand", "zptest" }

(* The numbers libzahl dedicates to these functions.                       *)
Dedicated == { "div", "mod", "modmul", "ta", "tb", "pow_b", "pow_d", "u", "v",
               "x", "a", "d", "n1", "n4" }

(* A call has a value for each number of the program.  Quotient and         *)
(* remainder are two numbers (zdivmod.3); any others may be the same.       *)
ASSUME CallAssumption ==
  /\ LaterCalls \subseteq Calls
  /\ \A c \in Calls :
       /\ c.fn \in Functions
       /\ c.val \in [Reg -> Int]
       /\ c.arg \in [Parameters(c.fn) -> Reg \cup {Null}]
       /\ \A p \in DOMAIN c.arg : c.arg[p] = Null => c.fn = "zptest" /\ p = "a"
       /\ c.fn = "zdivmod" => c.arg.a # c.arg.b
       /\ c.fn = "zmodsqr" => c.arg.b = c.arg.c
       /\ c.fn \in {"zpowu", "zmodpowu"} => c.c \in Nat
       /\ c.fn = "zptest" => c.t \in Nat
ASSUME NumberAssumption == /\ Reg \cap Dedicated = {} /\ Null \notin Reg \cup Dedicated
                           /\ Leftover \in Int
ASSUME LimbAssumption == /\ BitsPerChar \in Nat /\ BitsPerChar >= 1
                         /\ JunkLimb \subseteq 0 .. 2 ^ BitsPerChar - 1 /\ JunkLimb # {}

VARIABLES
  call,     \* the call, as the program made it
  at,       \* the function or loop about to proceed, "idle", "returned" or "failed"
  arg,      \* the numbers the function's parameters are
  loc,      \* its other variables
  num,      \* the values of the numbers, dedicated ones included
  result,   \* what zptest returned, or the error
  block,    \* the limbs that have been written in the block of libzahl_tmp_pow_c
  ptr,      \* where the pointers of the dedicated numbers u and v of zgcd point
  fds       \* open file descriptors of zrand

vars == <<call, at, arg, loc, num, result, block, ptr, fds>>

P(name) == num[arg[name]]

(* A function of one argument, and one that takes precedence over another.  *)
(* The provers do not know the module TLC, which has them too.             *)
d :> e == [x \in {d} |-> e]
f @@ g == [x \in DOMAIN f \cup DOMAIN g |-> IF x \in DOMAIN f THEN f[x] ELSE g[x]]

Min2(m, n) == IF m < n THEN m ELSE n

Limbs(v) == (Bits(v) + BitsPerChar - 1) \div BitsPerChar

(* zsub_impl(a, b) for a > b > 0 without limbs above them that are 0 (where *)
(* an operand came with such limbs, they only keep others from lending).   *)
(* A limb that is 1, and not the last, lends in at most one place.         *)
InnerLenders(a, b) == LendersOfOne(a, b, Limbs(b), Limbs(a), BitsPerChar) \ {Limbs(a) - 1}
Differences(a, b) ==
  IF InnerLenders(a, b) = {} THEN {a - b}
  ELSE { LentByInner(a, b, i, Limbs(a), BitsPerChar) : i \in InnerLenders(a, b) }

Originals == [u |-> <<"u", 0>>, v |-> <<"v", 0>>]

(* How a step ends: in a failure, at the next step, or outside.            *)
Fail(error) == /\ at' = "failed" /\ result' = error
               /\ UNCHANGED <<call, arg, loc, num, block, ptr, fds>>
NoMemory    == Fail("ENOMEM")
(* A number that was to be written is worth nothing then.                  *)
FailHaving(n, error) == /\ at' = "failed" /\ result' = error
                        /\ num' = n :> Leftover @@ num
                        /\ UNCHANGED <<call, arg, loc, block, ptr, fds>>
NoRoomFor(n) == FailHaving(n, "ENOMEM")
Goto(place) == at' = place /\ UNCHANGED <<call, result, block, ptr, fds>>
Return      == Goto("returned") /\ UNCHANGED <<arg, loc>>
SetNum(f)   == num' = f @@ num
SetLoc(f)   == loc' = f @@ loc

-----------------------------------------------------------------------------
(* Division: zdivmod(a, b, c, d) and the functions that end in it.         *)

DivideBy(a, b, c, d) == arg' = [a |-> a, b |-> b, c |-> c, d |-> d]

RemainderInDividend ==  \* mutant: zdiv stores the remainder in the dividend
  /\ at \in {"zdiv", "zmod"}
  /\ IF at = "zdiv" THEN DivideBy(arg.a, arg.b, arg.b, arg.c)
                    ELSE DivideBy("mod", arg.a, arg.b, arg.c)
  /\ Goto("zdivmod") /\ UNCHANGED <<loc, num>>
ZdivZmod ==
  /\ at \in {"zdiv", "zmod"}
  /\ IF at = "zdiv" THEN DivideBy(arg.a, "div", arg.b, arg.c)
                    ELSE DivideBy("mod", arg.a, arg.b, arg.c)
  /\ Goto("zdivmod") /\ UNCHANGED <<loc, num>>

(* zmodmul(a, b, c, d) and zmodsqr, which takes b twice: the product is    *)
(* stored in a, so the modulus is copied if that is a.  A failure in zmul  *)
(* may leave its operands without their signs.                             *)
ModulusCopied(f) == IF arg.a = arg.d THEN "modmul" :> P("d") @@ f ELSE f

ModMultiply ==
  /\ at \in {"zmodmul", "zmodsqr"}
  /\ \/ /\ SetNum(ModulusCopied(arg.a :> P("b") * P("c")))
        /\ DivideBy("mod", arg.a, arg.a, IF arg.a = arg.d THEN "modmul" ELSE arg.d)
        /\ Goto("zdivmod") /\ UNCHANGED loc
     \/ \E positive \in SUBSET {arg.b, arg.c}, lost \in SUBSET {arg.a} :
          /\ at = "zmodsqr" => positive = {}
          /\ SetNum([n \in lost |-> Leftover] @@ [n \in positive |-> Abs(num[n])])
          /\ at' = "failed" /\ result' = "ENOMEM"
          /\ UNCHANGED <<call, arg, loc, block, ptr, fds>>

DivideByZero ==
  /\ at = "zdivmod" /\ P("d") = 0
  /\ Fail(IF P("c") = 0 THEN "0_DIV_0" ELSE "DIV_0")

DivideSmall ==
  /\ at = "zdivmod" /\ P("d") # 0 /\ Abs(P("c")) <= Abs(P("d"))
  /\ \/ /\ IF Abs(P("c")) = Abs(P("d"))
           THEN SetNum(arg.a :> Sign(P("c")) * Sign(P("d")) @@ arg.b :> 0)
           ELSE SetNum(arg.a :> 0 @@ arg.b :> P("c"))
        /\ Return
     \/ Abs(P("c")) = Abs(P("d")) /\ NoRoomFor(arg.a)
     \/ 0 < Abs(P("c")) /\ Abs(P("c")) < Abs(P("d")) /\ arg.b # arg.c /\ NoRoomFor(arg.b)

(* Long division, from the highest bit of the quotient down.  For a long   *)
(* quotient the divisor is first shifted to every position in a limb, and  *)
(* then by whole limbs only; those positions that no bit is left for are   *)
(* not shifted any more.                                                   *)
DivideLong ==
  /\ at = "zdivmod" /\ P("d") # 0 /\ Abs(P("c")) > Abs(P("d"))
  /\ \/ LET by   == Bits(P("c")) - Bits(P("d"))
            over == Abs(P("d")) * 2 ^ by > Abs(P("c"))
            bit  == IF over THEN by - 1 ELSE by
            td   == Abs(P("d")) * 2 ^ bit
            few  == bit <= BitsPerChar
        IN  /\ SetNum("ta" :> 0 @@ "tb" :> Abs(P("c")))
            /\ SetLoc([bit |-> bit, few |-> few, i |-> 1,
                       tds |-> IF few THEN <<td>>
                               ELSE [i \in 1 .. BitsPerChar |-> ShiftDown(td, i - 1)],
                       sign |-> Sign(P("c")) * Sign(P("d")), c_sign |-> Sign(P("c"))])
            /\ Goto("quotient") /\ UNCHANGED arg
     \/ NoMemory

ShiftedAsFarAsBit(tds, bit) ==  \* mutant: the lowest position is left out
  [i \in DOMAIN tds |-> IF i <= Min2(bit, BitsPerChar - 1)
                        THEN ShiftDown(tds[i], BitsPerChar) ELSE tds[i]]
Shifted(tds, bit) ==
  [i \in DOMAIN tds |-> IF i <= Min2(bit, BitsPerChar - 1) + 1
                        THEN ShiftDown(tds[i], BitsPerChar) ELSE tds[i]]

QuotientBit ==
  /\ at = "quotient"
  /\ LET td   == loc.tds[loc.i]
         fits == td <= num["tb"]
         tb   == IF fits THEN num["tb"] - td ELSE num["tb"]
         ta   == IF fits THEN SetBit(num["ta"], loc.bit) ELSE num["ta"]
         last == loc.bit = 0 \/ tb = 0
         bit  == loc.bit - 1
     IN  \/ /\ last
            /\ SetNum(arg.a :> loc.sign * ta @@ arg.b :> loc.c_sign * tb)
            /\ Return
         \/ /\ ~ last
            /\ SetNum("ta" :> ta @@ "tb" :> tb)
            /\ SetLoc("bit" :> bit @@
                      IF loc.few THEN "tds" :> << ShiftDown(td, 1) >>
                      ELSE IF loc.i < BitsPerChar THEN "i" :> loc.i + 1
                      ELSE "i" :> 1 @@ "tds" :> Shifted(loc.tds, bit))
            /\ Goto("quotient") /\ UNCHANGED arg
         \/ fits /\ NoMemory

-----------------------------------------------------------------------------
(* Powers: zpow(a, b, c), zmodpow(a, b, c, d), and zpowu and zmodpowu with *)
(* an exponent that is no number of libzahl.                               *)

AtPower  == at \in {"zpow", "zmodpow", "zpowu", "zmodpowu"}
Modular  == "d" \in DOMAIN arg
ByNumber == "c" \in DOMAIN arg
Exponent == IF ByNumber THEN P("c") ELSE call.c

(* zptest is the one function that goes on after a power.                  *)
PowerReturns == Goto(IF call.fn = "zptest" THEN "tested" ELSE "returned")
                /\ UNCHANGED <<arg, loc>>

PowerError == IF Exponent = 0 /\ P("b") = 0 THEN "0_POW_0"
              ELSE IF (Exponent < 0 /\ P("b") = 0) \/ (Modular /\ P("d") = 0) THEN "DIV_0"
              ELSE "none"

PowerFails == AtPower /\ PowerError # "none" /\ Fail(PowerError)

PowerOfNothing ==
  /\ AtPower /\ PowerError = "none"
  /\ Exponent <= 0 \/ P("b") = 0
  /\ \/ /\ SetNum(arg.a :> IF Exponent = 0 THEN 1 ELSE 0)
        /\ PowerReturns
     \/ Exponent = 0 /\ NoRoomFor(arg.a)

Times(b, c) == IF Modular THEN Rem(b * c, num["pow_d"]) ELSE Abs(b) * Abs(c)

LimbsOf(v) == [i \in 1 .. Limbs(v) |->
                 ShiftDown(v, (i - 1) * BitsPerChar) % 2 ^ BitsPerChar]
(* A block after limbs have been stored at its beginning.                  *)
Overwritten(old, new) ==
  [i \in DOMAIN old \cup DOMAIN new |-> IF i \in DOMAIN new THEN new[i] ELSE old[i]]

ModulusRead == "pow_d" :> IF Modular THEN P("d") ELSE num["pow_d"]
Reduced     == IF Modular THEN Rem(P("b"), P("d")) ELSE Abs(P("b"))

PreparePower ==
  /\ AtPower /\ PowerError = "none" /\ Exponent > 0 /\ P("b") # 0
  /\ \/ /\ SetLoc([i |-> 0, n |-> Bits(Exponent) \div BitsPerChar, x |-> Exponent,
                   neg |-> ~ Modular /\ P("b") < 0 /\ Exponent % 2 = 1])
        /\ SetNum(arg.a :> (IF ByNumber \/ Exponent % 2 = 0 THEN 1 ELSE Reduced)
                  @@ "pow_b" :> Reduced @@ ModulusRead)
        /\ block' = IF ByNumber THEN Overwritten(block, LimbsOf(Exponent)) ELSE block
        /\ at' = IF ByNumber THEN "limb" ELSE "exponent"
        /\ UNCHANGED <<call, arg, result, ptr, fds>>
     \/ NoMemory \/ NoRoomFor(arg.a)

(* The exponent limb by limb: all bits of those that are full, then what   *)
(* is above them, also when that is no limb of the exponent any more.      *)
NextLimb ==
  /\ at = "limb"
  /\ \E limb \in IF loc.i + 1 \in DOMAIN block THEN { block[loc.i + 1] } ELSE JunkLimb :
       SetLoc([x |-> limb, j |-> IF loc.i < loc.n THEN BitsPerChar ELSE 0])
  /\ Goto("bit") /\ UNCHANGED <<arg, num>>

BitsLeft == IF loc.i < loc.n THEN loc.j > 0 ELSE loc.x > 0

(* Mutant: the last squaring of a limb is thought to be superfluous.       *)
SquareUnlessLast ==
  /\ at = "bit" /\ BitsLeft
  /\ SetNum(arg.a :> (IF loc.x % 2 = 1 THEN Times(P("a"), num["pow_b"]) ELSE P("a"))
            @@ "pow_b" :> IF loc.j = 1 THEN num["pow_b"] ELSE Times(num["pow_b"], num["pow_b"]))
  /\ SetLoc([x |-> loc.x \div 2, j |-> loc.j - 1])
  /\ Goto("bit") /\ UNCHANGED arg

MultiplyAndSquare ==
  /\ at = "bit" /\ BitsLeft
  /\ \/ /\ SetNum(arg.a :> (IF loc.x % 2 = 1 THEN Times(P("a"), num["pow_b"]) ELSE P("a"))
                  @@ "pow_b" :> Times(num["pow_b"], num["pow_b"]))
        /\ SetLoc([x |-> loc.x \div 2, j |-> loc.j - 1])
        /\ Goto("bit") /\ UNCHANGED arg
     \/ NoMemory \/ NoRoomFor(arg.a)

LimbDone ==
  /\ at = "bit" /\ ~ BitsLeft /\ loc.i < loc.n
  /\ SetLoc([i |-> loc.i + 1])
  /\ Goto("limb") /\ UNCHANGED <<arg, num>>

(* zpowu and zmodpowu: the exponent is shifted before it is looked at.     *)
SquareAndMultiply ==
  /\ at = "exponent" /\ loc.x > 1
  /\ \/ LET rest == loc.x \div 2
            b    == Times(num["pow_b"], num["pow_b"])
        IN  /\ SetNum("pow_b" :> b @@ arg.a :> IF rest % 2 = 1 THEN Times(P("a"), b) ELSE P("a"))
            /\ SetLoc([x |-> rest])
            /\ Goto("exponent") /\ UNCHANGED arg
     \/ NoMemory \/ NoRoomFor(arg.a)

PowerDone ==
  /\ \/ at = "bit" /\ ~ BitsLeft /\ loc.i >= loc.n
     \/ at = "exponent" /\ loc.x <= 1
  /\ SetNum(arg.a :> IF loc.neg THEN - P("a") ELSE P("a"))
  /\ PowerReturns

-----------------------------------------------------------------------------
(* zgcd(a, b, c), binary, on two dedicated numbers whose pointers move up  *)
(* into their blocks and are exchanged.                                    *)

GcdOfNothing ==
  /\ at = "zgcd" /\ (P("b") = 0 \/ P("c") = 0)
  /\ \/ SetNum(arg.a :> IF P("b") = 0 THEN P("c") ELSE P("b")) /\ Return
     \/ NoRoomFor(arg.a)

ZerosOfFirst(b, c) == Lsb(b)  \* mutant
CommonZeros(b, c)  == Min2(Lsb(b), Lsb(c))

PrepareGcd ==
  /\ at = "zgcd" /\ P("b") # 0 /\ P("c") # 0
  /\ \/ /\ SetNum("u" :> ShiftDown(Abs(P("b")), Lsb(P("b")))
                  @@ "v" :> ShiftDown(Abs(P("c")), Lsb(P("c"))))
        /\ SetLoc([shifts |-> CommonZeros(P("b"), P("c")),
                   neg |-> P("b") < 0 /\ P("c") < 0, loan |-> FALSE])
        /\ Goto("gcd") /\ UNCHANGED arg
     \/ NoMemory

(* The smaller one is subtracted and the zeros below are shifted out; as   *)
(* history, whether a limb that is 1, and not the last, has lent.          *)
SubtractUnsorted ==  \* mutant: the greater one is not sought
  /\ at = "gcd" /\ num["u"] # num["v"]
  /\ LET rest == Abs(num["v"] - num["u"])
     IN  SetNum("v" :> ShiftDown(rest, Lsb(rest)))
  /\ UNCHANGED <<call, at, arg, loc, result, block, ptr, fds>>

SubtractAndShift ==
  /\ at = "gcd" /\ num["u"] # num["v"]
  /\ LET swap == num["u"] > num["v"]
         u    == IF swap THEN "v" ELSE "u"
         v    == IF swap THEN "u" ELSE "v"
     IN  /\ \E rest \in Differences(num[v], num[u]) :
              /\ SetNum("u" :> num[u] @@ "v" :> ShiftDown(rest, Lsb(rest)))
              /\ ptr' = [u |-> ptr[u],
                         v |-> <<ptr[v][1], ptr[v][2] + (Lsb(rest) \div BitsPerChar)>>]
         /\ SetLoc("loan" :> (loc.loan \/ InnerLenders(num[v], num[u]) # {}))
  /\ UNCHANGED <<call, at, arg, result, block, fds>>

RestoreUnlessSwapped ==  \* mutant: only what advanced is restored
  ptr' = [u |-> <<ptr["u"][1], 0>>, v |-> <<ptr["v"][1], 0>>]
Restore == ptr' = Originals

GcdDone ==
  /\ at = "gcd" /\ num["u"] = num["v"]
  /\ \/ /\ SetNum(arg.a :> (IF loc.neg THEN -1 ELSE 1) * num["u"] * 2 ^ loc.shifts)
        /\ Restore
        /\ at' = "returned" /\ UNCHANGED <<call, arg, loc, result, block, fds>>
     \/ NoRoomFor(arg.a)

-----------------------------------------------------------------------------
(* zrand(a, device, distribution, b).  The top limb is masked to the bits  *)
(* that a number of that length has in it, none if it is full.             *)

Drawable(bits) ==
  LET chars == (bits + BitsPerChar - 1) \div BitsPerChar
  IN  0 .. 2 ^ ((chars - 1) * BitsPerChar + (bits % BitsPerChar)) - 1

KnownDevice == call.dev \in {"file", "libc"}

PrepareRandom ==
  /\ at = "zrand"
  /\ \/ ~ KnownDevice /\ Fail("EINVAL")
     \/ /\ KnownDevice /\ P("b") = 0
        /\ SetNum(arg.a :> 0) /\ Return
     \/ call.dev = "file" /\ P("b") # 0 /\ Fail("open")
     \/ /\ KnownDevice /\ P("b") # 0
        /\ fds' = IF call.dev = "file" THEN fds + 1 ELSE fds
        /\ IF call.dist \notin {"UNIFORM", "QUASIUNIFORM", "MODUNIFORM"}
           THEN at' = "failed" /\ result' = "EINVAL" /\ UNCHANGED loc
           ELSE IF P("b") < 0
           THEN at' = "failed" /\ result' = "NEGATIVE" /\ UNCHANGED loc
           ELSE at' = "draw" /\ SetLoc([bits |-> Bits(P("b"))]) /\ UNCHANGED result
        /\ UNCHANGED <<call, arg, num, block, ptr>>

(* Bits are drawn, again if they make a number beyond the bound; the bound *)
(* may be the number they were drawn into.                                 *)
OutOfRange(r) == r > (IF arg.a = arg.b THEN r ELSE P("b"))
Retry(r) == call.dist = "UNIFORM" /\ OutOfRange(r)

DrawAgain == /\ at = "draw"
             /\ \E r \in Drawable(loc.bits) : Retry(r) /\ SetNum(arg.a :> r)
             /\ Goto("draw") /\ UNCHANGED <<arg, loc>>

DrawOnce ==  \* mutant: what is out of range is accepted too
  /\ at = "draw"
  /\ \E r \in Drawable(loc.bits) : SetNum(arg.a :> r)
  /\ Goto("drawn") /\ UNCHANGED <<arg, loc>>
DrawInRange == /\ at = "draw"
               /\ \E r \in Drawable(loc.bits) : ~ Retry(r) /\ SetNum(arg.a :> r)
               /\ Goto("drawn") /\ UNCHANGED <<arg, loc>>

DrawFails == /\ at = "draw"
             /\ \/ NoRoomFor(arg.a)
                \/ call.dev = "file" /\ FailHaving(arg.a, "read")

RandomLeftOpen ==  \* mutant: the device is not closed
  /\ at = "drawn" /\ Return /\ UNCHANGED num

RandomDone ==
  /\ at = "drawn"
  /\ \/ LET r     == P("a")
            scale == IF arg.a = arg.b THEN r + 1 ELSE P("b")
        IN  /\ SetNum(arg.a :> CASE call.dist = "UNIFORM" -> r
                                 [] call.dist = "QUASIUNIFORM" -> ShiftDown((r + 1) * scale, loc.bits)
                                 [] OTHER -> IF OutOfRange(r) THEN r - P("b") ELSE r)
            /\ fds' = IF call.dev = "file" THEN fds - 1 ELSE fds
            /\ at' = "returned" /\ UNCHANGED <<call, arg, loc, result, block, ptr>>
     \/ call.dist # "UNIFORM" /\ NoRoomFor(arg.a)

-----------------------------------------------------------------------------
(* zptest(a, b, tries): Miller-Rabin.                                      *)

Witness == call.arg.a
Questioned == num[call.arg.b]
Witnessed(w) == IF Witness = Null THEN UNCHANGED num ELSE SetNum(Witness :> w)

Answer(verdict) == /\ at' = "returned" /\ result' = verdict
                   /\ UNCHANGED <<call, arg, loc, block, ptr, fds>>

TestSmallOrEven ==
  /\ at = "zptest" /\ (Questioned <= 3 \/ Questioned % 2 = 0)
  /\ \/ IF Questioned \in {2, 3} THEN Answer("PRIME") /\ UNCHANGED num
        ELSE Answer("NONPRIME") /\ Witnessed(IF Questioned <= 3 THEN Questioned ELSE 2)
     \/ Witness # Null /\ Questioned \notin {2, 3} /\ NoRoomFor(Witness)

PrepareTest ==
  /\ at = "zptest" /\ Questioned > 3 /\ Questioned % 2 = 1
  /\ \/ LET r == Lsb(Questioned - 1)
        IN  /\ \E n4 \in Differences(Questioned, 4) :
                 SetNum("n1" :> Questioned - 1 @@ "n4" :> n4
                        @@ "d" :> ShiftDown(Questioned - 1, r))
            /\ SetLoc([t |-> call.t, r |-> r])
            /\ Goto("round") /\ UNCHANGED arg
     \/ NoMemory

(* A round: some base between 2 and n - 2, and a power of it.              *)
Round ==
  /\ at = "round"
  /\ \/ loc.t = 0 /\ Answer("PROBABLY_PRIME") /\ UNCHANGED num
     \/ /\ loc.t > 0
        /\ \E r \in Drawable(Bits(num["n4"])) :
             r <= num["n4"] /\ SetNum("a" :> r + 2)
        /\ SetLoc([t |-> loc.t - 1])
        /\ arg' = [a |-> "x", b |-> "a", c |-> "d", d |-> call.arg.b]
        /\ Goto("zmodpow")
     \/ loc.t > 0 /\ NoMemory

TestedForOneOnly ==  \* mutant: the other square root of 1 goes on to be squared
  /\ at = "tested"
  /\ SetLoc([i |-> 1])
  /\ Goto(IF num["x"] = 1 THEN "round" ELSE "square")
  /\ UNCHANGED <<arg, num>>
Tested ==
  /\ at = "tested"
  /\ SetLoc([i |-> 1])
  /\ Goto(IF num["x"] \in {1, num["n1"]} THEN "round" ELSE "square")
  /\ UNCHANGED <<arg, num>>

Composite == Answer("NONPRIME") /\ Witnessed(num["a"])

(* The loop over i, with the power squared again.                          *)
TestSquare ==
  /\ at = "square"
  /\ LET next == Rem(num["x"] * num["x"], Questioned)
     IN  \/ loc.i = loc.r /\ Composite
         \/ loc.i < loc.r /\ next = 1 /\ Composite
         \/ /\ loc.i < loc.r /\ next # 1
            /\ SetNum("x" :> next) /\ SetLoc([i |-> loc.i + 1])
            /\ Goto(IF next = num["n1"] THEN "round" ELSE "square") /\ UNCHANGED arg
         \/ loc.i < loc.r /\ NoMemory

-----------------------------------------------------------------------------
(* The program calls a function, and when that has returned another one.   *)

Before == [n \in Dedicated \cup Reg |-> Leftover]

Init == /\ call = [fn |-> "none"] /\ at = "idle" /\ arg = <<>> /\ loc = <<>>
        /\ num = Before /\ result = "none"
        /\ block = <<>> /\ ptr = Originals /\ fds = 0

Ask == /\ at = "idle"
       /\ \E c \in IF block = <<>> THEN Calls ELSE LaterCalls :
            /\ call' = c /\ at' = c.fn /\ arg' = c.arg
            /\ num' = c.val @@ num
       /\ UNCHANGED <<loc, result, block, ptr, fds>>

Resume == /\ at = "returned"
          /\ call' = [fn |-> "none"] /\ at' = "idle" /\ arg' = <<>> /\ loc' = <<>>
          /\ num' = Before /\ result' = "none"
          /\ UNCHANGED <<block, ptr, fds>>

Dividing == ZdivZmod \/ ModMultiply \/ DivideByZero \/ DivideSmall \/ DivideLong \/ QuotientBit
Raising  == \/ PowerFails \/ PowerOfNothing \/ PreparePower \/ NextLimb
            \/ MultiplyAndSquare \/ LimbDone \/ SquareAndMultiply \/ PowerDone
Gcd      == GcdOfNothing \/ PrepareGcd \/ SubtractAndShift \/ GcdDone
Drawing  == PrepareRandom \/ DrawAgain \/ DrawInRange \/ DrawFails \/ RandomDone
Testing  == TestSmallOrEven \/ PrepareTest \/ Round \/ Tested \/ TestSquare

Function == Dividing \/ Raising \/ Gcd \/ Drawing \/ Testing
Next     == Ask \/ Resume \/ Function

(* A function proceeds by itself, and bits that make a number in the range *)
(* are drawn some time.                                                    *)
Spec == /\ Init /\ [][Next]_vars
        /\ WF_vars(Function) /\ SF_vars(DrawInRange)

-----------------------------------------------------------------------------
Returned(fns) == at = "returned" /\ call.fn \in fns
Was(name) == call.val[call.arg[name]]
Is(name)  == num[call.arg[name]]

Labels == { "idle", "returned", "failed", "zdiv", "zmod", "zdivmod", "zmodmul", "zmodsqr",
            "quotient", "zpow", "zmodpow", "zpowu", "zmodpowu", "limb", "bit", "exponent",
            "zgcd", "gcd", "zrand", "draw", "drawn", "zptest", "round", "tested", "square" }

(* Values are integers, parameters are numbers, limbs are limbs, and the   *)
(* pointers of zgcd point into one block each.                             *)
TypeOK ==
  /\ at \in Labels
  /\ DOMAIN num = Reg \cup Dedicated /\ \A n \in DOMAIN num : num[n] \in Int
  /\ \A name \in DOMAIN arg : arg[name] \in DOMAIN num \cup {Null}
  /\ \A i \in DOMAIN block : block[i] \in 0 .. 2 ^ BitsPerChar - 1
  /\ { ptr["u"][1], ptr["v"][1] } = {"u", "v"}
  /\ \A p \in DOMAIN ptr : ptr[p][2] \in Nat
  /\ fds \in {0, 1}

(* zdivmod.3 and zmod.3: the dividend is the divisor taken as often as the *)
(* quotient says and a remainder that is smaller and has the dividend's    *)
(* sign; the modular products are that remainder.  This for every aliasing *)
(* the manual allows, and for both ways the quotient is developed.         *)
Divided(q, r, c, d) ==
  /\ d # 0 /\ c = q * d + r
  /\ Abs(r) < Abs(d) /\ Sign(r) \in {0, Sign(c)}

DivisionRight ==
  /\ Returned({"zdivmod"}) => Divided(Is("a"), Is("b"), Was("c"), Was("d"))
  /\ Returned({"zdiv"}) => Divided(Is("a"), Was("b") - Is("a") * Was("c"), Was("b"), Was("c"))
  /\ Returned({"zmod"}) =>
       \E q \in - Abs(Was("b")) .. Abs(Was("b")) : Divided(q, Is("a"), Was("b"), Was("c"))
  /\ Returned({"zmodmul", "zmodsqr"}) =>
       LET product == Was("b") * Was("c")
       IN  \E q \in - Abs(product) .. Abs(product) : Divided(q, Is("a"), product, Was("d"))

(* zpow.3 and zmodpow.3: the power, of a negative exponent cut off to an   *)
(* integer, and what it leaves modulo a number.  This for the exponents    *)
(* the loop over limbs is right for: of one that fills its last limb, the  *)
(* limb above is read as well, which an earlier and longer exponent may    *)
(* have left there.  And not for two answers given without a loop: 0 for a *)
(* negative exponent of 1 or -1, and 1 for exponent 0 modulo 1 or -1.      *)
Power(b, n) == LET p[i \in 0 .. n] == IF i = 0 THEN 1 ELSE b * p[i - 1] IN p[n]
PowerMod(b, n, d) ==
  LET p[i \in 0 .. n] == IF i = 0 THEN Rem(1, d) ELSE Rem(Rem(b, d) * p[i - 1], d) IN p[n]

FillsLimb(n) == n > 0 /\ Bits(n) % BitsPerChar = 0
AskedExponent == IF "c" \in DOMAIN call.arg THEN Was("c") ELSE call.c
WholeExponent == "c" \in DOMAIN call.arg /\ FillsLimb(Was("c"))

HastyAnswer == \/ AskedExponent < 0 /\ Abs(Was("b")) = 1
               \/ "d" \in DOMAIN call.arg /\ AskedExponent = 0 /\ Abs(Was("d")) = 1

PowersRight ==
  Returned({"zpow", "zpowu", "zmodpow", "zmodpowu"}) /\ ~ WholeExponent /\ ~ HastyAnswer =>
    Is("a") = IF AskedExponent < 0 THEN 0
              ELSE IF "d" \in DOMAIN call.arg THEN PowerMod(Was("b"), AskedExponent, Was("d"))
              ELSE Power(Was("b"), AskedExponent)

(* zgcd.3: what zgcd stores divides both numbers, nothing greater does,    *)
(* and it is negative only if neither of them is positive.  Not so if an   *)
(* inner limb that is 1 has lent, and the difference lost its last limb.   *)
Divides(k, n) == Abs(n) % k = 0
Loan == "loan" \in DOMAIN loc /\ loc.loan
GcdRight ==
  Returned({"zgcd"}) /\ ~ Loan =>
    LET g == Is("a") b == Was("b") c == Was("c")
    IN  IF b = 0 /\ c = 0 THEN g = 0
        ELSE /\ g # 0 /\ Divides(Abs(g), b) /\ Divides(Abs(g), c)
             /\ \A k \in Abs(g) + 1 .. Abs(b) + Abs(c) : ~ (Divides(k, b) /\ Divides(k, c))
             /\ g < 0 <=> b <= 0 /\ c <= 0

(* When the program has control without an error, the pointers of the two  *)
(* numbers zgcd works on are what malloc returned, each in its own number, *)
(* and no descriptor of zrand is open.                                     *)
PointersRestored == at \in {"idle", "returned"} => ptr = Originals /\ fds = 0

(* zptest.3: what is certainly nonprime is not prime, with a witness that  *)
(* shows it; what is certainly prime is.  Not so if the odd part of n - 1  *)
(* fills its last limb: see PowersRight.                                   *)
Prime(n) == n > 1 /\ \A k \in 2 .. n - 1 : n % k # 0
OddPart(n) == ShiftDown(n, Lsb(n))
Shows(w, n) ==
  \/ n % 2 = 0 /\ w = 2
  \/ LET d == OddPart(n - 1)
     IN  /\ w \in 2 .. n - 2
         /\ PowerMod(w, d, n) # 1
         /\ \A i \in 0 .. Lsb(n - 1) - 1 : PowerMod(w, d * 2 ^ i, n) # n - 1

PrimalityRight ==
  Returned({"zptest"}) /\ ~ (Was("b") > 3 /\ FillsLimb(OddPart(Was("b") - 1))) =>
    /\ result = "PRIME" => Prime(Was("b"))
    /\ result = "NONPRIME" =>
         /\ ~ Prime(Was("b"))
         /\ call.arg.a # Null =>
              IF Was("b") < 2 THEN Is("a") = Was("b") ELSE Shows(Is("a"), Was("b"))

(* zrand.3: the number is between 0 and the bound, and while bits are      *)
(* drawn every number of that range may still come.  The first is not so   *)
(* when the number is its own bound, the second not when the bound fills   *)
(* its last limb.                                                          *)
RandomRight ==
  /\ Returned({"zrand"}) /\ call.arg.a # call.arg.b => Is("a") \in 0 .. Was("b")
  /\ at = "draw" /\ ~ FillsLimb(Was("b")) => 0 .. Was("b") \subseteq Drawable(loc.bits)

(* No function changes a number of the program but those it stores its     *)
(* results in and, if zmul fails in a product modulo a number, the signs   *)
(* of operands.  A division that fails has not changed its destinations    *)
(* either, though it develops the quotient step by step, nor has one by    *)
(* zero, unless there was nothing to divide and a number had to be set.    *)
Destinations == { call.arg[p] : p \in IF call.fn = "zdivmod" THEN {"a", "b"} ELSE {"a"} }
Dividend == IF call.fn = "zdivmod" THEN Was("c") ELSE Was("b")
Divisor  == IF call.fn = "zdivmod" THEN Was("d") ELSE Was("c")
AllOrNothing == /\ call.fn \in {"zdivmod", "zdiv", "zmod"}
                /\ result # "ENOMEM" \/ Abs(Dividend) > Abs(Divisor)

OthersUntouched ==
  at \in {"returned", "failed"} =>
    \A n \in Reg :
      \/ num[n] = call.val[n]
      \/ n \in Destinations /\ (at = "failed" => ~ AllOrNothing)
      \/ /\ at = "failed" /\ call.fn = "zmodmul"
         /\ n \in {call.arg.b, call.arg.c} /\ num[n] = Abs(call.val[n])

(* Every call returns or fails: the loops of the division, the powers and  *)
(* the greatest common divisor end, and zrand if it draws well some time.  *)
CallEnds == (at # "idle") ~> (at \in {"returned", "failed"})
=============================================================================
