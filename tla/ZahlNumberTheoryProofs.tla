----------------------- MODULE ZahlNumberTheoryProofs -----------------------
(* What the loops of libzahl do, for numbers of any size: quotients,       *)
(* powers, greatest common divisors and the answers of the primality test  *)
(* are right but for the exceptions their properties name, a random number *)
(* is in its range, no function changes what is not its own, and the       *)
(* pointers of zgcd are restored.  The products are taken to be exact.     *)
EXTENDS ZahlNumberTheory, PowersOfTwo

-----------------------------------------------------------------------------
(* Values.                                                                 *)

(* Shifting down is a division.                                            *)
LEMMA Shifting ==
  ASSUME NEW v \in Int, NEW k \in Nat
  PROVE  /\ ShiftDown(v, k) \in Int
         /\ v >= 0 => ShiftDown(v, k) = v \div 2 ^ k /\ ShiftDown(v, k) \in Nat
<1>1. 2 ^ k \in Nat \ {0}
  BY Positive
<1>2. Abs(v) \div 2 ^ k \in Nat
  BY <1>1, Magnitude, DivMod
<1>3. ShiftDown(v, k) \in Int
  BY <1>2, Magnitude, SignTimes DEF ShiftDown
<1>4. CASE v > 0
  <2>1. Sign(v) = 1 /\ Abs(v) = v
    BY <1>4 DEF Sign, Abs
  <2>. QED
    BY <1>2, <2>1 DEF ShiftDown
<1>5. CASE v = 0
  <2>1. Sign(v) = 0 /\ Abs(v) = v
    BY <1>5 DEF Sign, Abs
  <2>2. (0 * 2 ^ k + 0) \div 2 ^ k = 0
    BY <1>1, DivUnique
  <2>3. 0 * 2 ^ k + 0 = 0
    BY <1>1
  <2>. QED
    BY <1>2, <2>1, <2>2, <2>3, <1>5 DEF ShiftDown
<1>. QED
  BY <1>3, <1>4, <1>5

(* The remainder of a division that cuts off.                              *)
LEMMA Remainder ==
  ASSUME NEW c \in Int, NEW d \in Int \ {0}
  PROVE  Rem(c, d) \in Int
<1>1. Abs(c) \in Nat /\ Abs(d) \in Nat \ {0} /\ Sign(c) \in {-1, 0, 1}
  BY Magnitude
<1>2. Abs(c) % Abs(d) \in Int
  BY <1>1, DivMod
<1>. QED
  BY <1>1, <1>2, SignTimes DEF Rem

(* A number that is not 0 has a lowest bit.                                *)
LEMMA LowestBit ==
  ASSUME NEW v \in Int \ {0}
  PROVE  /\ Lsb(v) \in Nat
         /\ Abs(v) % 2 ^ Lsb(v) = 0 /\ (Abs(v) \div 2 ^ Lsb(v)) % 2 = 1
<1>. DEFINE m == Abs(v)
            T == { k \in Nat : m % 2 ^ (k + 1) # 0 }
            Lowest(k) == m % 2 ^ k = 0 /\ (m \div 2 ^ k) % 2 = 1
<1>1. m \in Nat \ {0}
  BY Magnitude
<1>2. \A k \in Nat : 2 ^ k \in Nat \ {0}
  BY Positive
<1>3. m \in T
  <2>1. m < 2 ^ (m + 1) /\ 2 ^ (m + 1) \in Nat \ {0}
    BY <1>1, <1>2, Exceeds, Doubling
  <2>2. (0 * 2 ^ (m + 1) + m) % 2 ^ (m + 1) = m
    BY <1>1, <2>1, DivUnique
  <2>3. 0 * 2 ^ (m + 1) + m = m
    BY <1>1, <2>1
  <2>. QED
    BY <1>1, <2>2, <2>3
<1>. HIDE DEF m
<1>4. PICK k \in T : \A j \in T : k <= j
  BY <1>3, Least
<1>5. k \in 0 .. m
  BY <1>1, <1>3, <1>4
<1>6. m % 2 ^ k = 0
  <2>1. CASE k = 0
    <3>1. 2 ^ k = 1
      BY <2>1
    <3>. QED
      BY <1>1, <3>1
  <2>2. CASE k # 0
    <3>1. k - 1 \in Nat /\ k - 1 \notin T /\ (k - 1) + 1 = k
      BY <1>4, <1>5, <2>2
    <3>. QED
      BY <3>1
  <2>. QED
    BY <2>1, <2>2
<1>7. (m \div 2 ^ k) % 2 = 1
  <2>. DEFINE q == m \div 2 ^ k
  <2>1. q \in Nat /\ m = 2 ^ k * q + (m % 2 ^ k) /\ 2 ^ k \in Nat \ {0}
    <3>1. 2 ^ k \in Nat \ {0} /\ m \in Int /\ m >= 0
      BY <1>1, <1>2, <1>5
    <3>. QED
      BY ONLY <3>1, DivMod
  <2>. HIDE DEF q
  <2>2. SUFFICES ASSUME q % 2 # 1 PROVE FALSE
    BY DEF q
  <2>3. PICK h \in Nat : q = 2 * h
    <3>1. q \div 2 \in Nat /\ q = 2 * (q \div 2) + (q % 2) /\ q % 2 \in 0 .. 1
      BY ONLY <2>1
    <3>2. q % 2 = 0
      BY <2>2, <3>1
    <3>. QED
      BY <3>1, <3>2
  <2>4. m = h * 2 ^ (k + 1) + 0
    <3>1. 2 ^ (k + 1) = 2 * 2 ^ k
      BY <1>5, Doubling
    <3>2. m = 2 ^ k * (2 * h)
      BY <1>1, <1>6, <2>1, <2>3
    <3>. QED
      BY <2>1, <2>3, <3>1, <3>2
  <2>5. 2 ^ (k + 1) \in Nat \ {0}
    BY <1>2, <1>5
  <2>6. m % 2 ^ (k + 1) = 0
    BY <2>3, <2>4, <2>5, DivUnique
  <2>. QED
    BY <1>4, <2>6
<1>8. Lowest(k)
  BY <1>6, <1>7
<1>9. Lsb(v) = CHOOSE i \in 0 .. m : Lowest(i)
  BY DEF Lsb, m
<1>. HIDE DEF Lowest
<1>10. Lsb(v) \in 0 .. m /\ Lowest(Lsb(v))
  BY <1>5, <1>8, <1>9
<1>. QED
  BY <1>1, <1>10 DEF Lowest, m

LEMMA LsbOf ==
  ASSUME NEW v \in Int \ {0}
  PROVE  Lsb(v) \in Nat
  BY LowestBit

(* Shifted down to its lowest bit a number is odd.                         *)
LEMMA OddAndPower ==
  ASSUME NEW v \in Int \ {0}
  PROVE  LET w == ShiftDown(Abs(v), Lsb(v))
         IN  w \in Nat /\ w % 2 = 1 /\ Abs(v) = w * 2 ^ Lsb(v)
<1>. DEFINE p == 2 ^ Lsb(v)
            m == Abs(v)
<1>1. Lsb(v) \in Nat /\ p \in Nat \ {0} /\ m \in Nat
  BY LowestBit, Positive, Magnitude
<1>2. ShiftDown(m, Lsb(v)) = m \div p /\ m \div p \in Nat
  <2>1. m \in Int /\ m >= 0
    BY <1>1
  <2>. QED
    BY ONLY <1>1, <2>1, Shifting
<1>3. m % p = 0 /\ (m \div p) % 2 = 1
  BY LowestBit
<1>. HIDE DEF p, m
<1>4. m = p * (m \div p) + (m % p) /\ m \div p \in Int
  BY <1>1, DivMod
<1>5. m = (m \div p) * p
  BY <1>1, <1>3, <1>4
<1>. QED
  BY <1>2, <1>3, <1>5 DEF p, m

(* A number has as many limbs as it needs.                                 *)
LEMMA LimbsNeeded ==
  ASSUME NEW v \in Nat \ {0}
  PROVE  /\ Limbs(v) \in Nat \ {0}
         /\ Weight(Limbs(v) - 1, BitsPerChar) <= v /\ v < Weight(Limbs(v), BitsPerChar)
<1>. DEFINE W == BitsPerChar
            k == Bits(v)
            n == Limbs(v)
<1>1. W \in Nat \ {0} /\ k \in Nat \ {0} /\ 2 ^ (k - 1) <= v /\ v < 2 ^ k
  BY LimbAssumption, BitsOf, Magnitude
<1>2. n = (k + W - 1) \div W
  BY DEF Limbs
<1>. HIDE DEF W, k, n
<1>3. n \in Nat /\ k <= W * n /\ W * n < k + W
  <2>1. k + W - 1 \in Nat
    BY <1>1
  <2>. DEFINE j == k + W - 1
              r == j % W
  <2>2. n \in Nat /\ r \in 0 .. W - 1 /\ j = W * n + r
    <3>1. n = j \div W /\ j \in Nat
      BY <1>2, <2>1
    <3>. HIDE DEF j
    <3>. QED
      BY <1>1, <3>1, DivModNat
  <2>. HIDE DEF r
  <2>. QED
    BY <1>1, <2>2
<1>4. n # 0
  BY <1>1, <1>3
<1>. DEFINE high == W * n
            low  == W * (n - 1)
<1>5. high \in Nat /\ low \in Nat /\ k <= high /\ low <= k - 1 /\ k - 1 \in Nat
  BY <1>1, <1>3, <1>4
<1>. HIDE DEF high, low
<1>6. 2 ^ k <= 2 ^ high /\ 2 ^ low <= 2 ^ (k - 1)
  BY <1>1, <1>5, Monotone
<1>7. 2 ^ k \in Nat /\ 2 ^ high \in Nat /\ 2 ^ low \in Nat /\ 2 ^ (k - 1) \in Nat
  BY <1>1, <1>5, Positive
<1>8. 2 ^ low <= v /\ v < 2 ^ high
  BY <1>1, <1>6, <1>7
<1>. QED
  BY <1>3, <1>4, <1>8 DEF Weight, W, n, high, low

(* What a subtraction of positive numbers leaves is positive and no more   *)
(* than the difference, which it is if no inner limb that is 1 lends.      *)
LEMMA DifferencesOf ==
  ASSUME NEW a \in Nat, NEW b \in Nat \ {0}, b < a
  PROVE  /\ \A d \in Differences(a, b) : d \in Nat \ {0} /\ d <= a - b
         /\ InnerLenders(a, b) = {} => Differences(a, b) = {a - b}
<1>. DEFINE W == BitsPerChar
            m == Limbs(a) - 1
            n == Limbs(b)
<1>1. /\ m \in Nat /\ n \in Nat /\ W \in Nat
      /\ Weight(m, W) <= a /\ b < Weight(n, W) /\ Limbs(a) = m + 1
  <2>1. a \in Nat \ {0}
    OBVIOUS
  <2>. QED
    BY <2>1, LimbsNeeded, LimbAssumption
<1>2. CASE InnerLenders(a, b) = {}
  BY <1>2 DEF Differences
<1>3. ASSUME InnerLenders(a, b) # {}, NEW d \in Differences(a, b)
      PROVE  d \in Nat \ {0} /\ d <= a - b
  <2>1. PICK i \in InnerLenders(a, b) : d = LentByInner(a, b, i, Limbs(a), W)
    BY <1>3 DEF Differences
  <2>2. i \in n .. m - 1
    BY <1>1, <2>1 DEF InnerLenders, LendersOfOne
  <2>. DEFINE p == Weight(m, W)
              q == Weight(i, W)
              o == Weight(n, W)
              r == a % p
  <2>. HIDE DEF W, m, n
  <2>3. d = r - b + q
    BY <1>1, <2>1 DEF LentByInner
  <2>4. p \in Nat \ {0} /\ q \in Nat \ {0} /\ o \in Nat \ {0} /\ o <= q /\ q <= p
    <3>. DEFINE j == W * m
                k == W * i
                l == W * n
    <3>1. j \in Nat /\ k \in Nat /\ l \in Nat /\ l <= k /\ k <= j
      BY <1>1, <2>2
    <3>. HIDE DEF j, k, l
    <3>2. 2 ^ j \in Nat \ {0} /\ 2 ^ k \in Nat \ {0} /\ 2 ^ l \in Nat \ {0}
          /\ 2 ^ l <= 2 ^ k /\ 2 ^ k <= 2 ^ j
      BY <3>1, Positive, Monotone
    <3>. QED
      BY <3>2 DEF Weight, j, k, l
  <2>5. p <= a /\ b < o
    BY <1>1
  <2>. HIDE DEF p, q, o
  <2>6. r \in Nat /\ r <= a - p
    <3>1. a \div p \in Nat /\ r \in 0 .. p - 1 /\ a = p * (a \div p) + r
      BY <2>4, DivModNat
    <3>. DEFINE t == a \div p
    <3>. HIDE DEF r, t
    <3>2. t # 0
      <4>1. t = 0 => p * t = 0
        BY <2>4
      <4>. QED
        BY <2>4, <2>5, <3>1, <4>1 DEF t
    <3>3. p * t >= p
      BY <2>4, <3>1, <3>2 DEF t
    <3>. QED
      BY <2>4, <3>1, <3>3 DEF t
  <2>. HIDE DEF r
  <2>. QED
    BY <2>3, <2>4, <2>5, <2>6
<1>. QED
  BY <1>2, <1>3 DEF Differences

-----------------------------------------------------------------------------
(* The invariant: where a function is and what it was called for.          *)

Names     == Reg \cup Dedicated
Divisions == {"zdivmod", "zdiv", "zmod", "zmodmul", "zmodsqr"}
DivisionPlaces == {"zdivmod", "quotient"}
TestPlaces  == {"round", "tested", "square"}
LimbPlaces  == {"limb", "bit"}
Outside   == {"idle", "returned", "failed"}

(* What zdivmod is called with, by itself or by another function, and what *)
(* zptest calls zmodpow with.                                              *)
Fourth == IF call.arg.a = call.arg.d THEN "modmul" ELSE call.arg.d
DivisionArg ==
  CASE call.fn = "zdivmod" -> call.arg
    [] call.fn = "zdiv" -> [a |-> call.arg.a, b |-> "div", c |-> call.arg.b, d |-> call.arg.c]
    [] call.fn = "zmod" -> [a |-> "mod", b |-> call.arg.a, c |-> call.arg.b, d |-> call.arg.c]
    [] OTHER            -> [a |-> "mod", b |-> call.arg.a, c |-> call.arg.a, d |-> Fourth]
TestArg == [a |-> "x", b |-> "a", c |-> "d", d |-> call.arg.b]

(* A place belongs to the functions that come to it.                       *)
Caller ==
  /\ at \in Functions \ {"zdivmod", "zmodpow"} => call.fn = at
  /\ at \in DivisionPlaces         => call.fn \in Divisions
  /\ at = "zmodpow"           => call.fn \in {"zmodpow", "zptest"}
  /\ at \in LimbPlaces          => call.fn \in {"zpow", "zmodpow", "zptest"}
  /\ at = "exponent"          => call.fn \in {"zpowu", "zmodpowu"}
  /\ at = "gcd"               => call.fn = "zgcd"
  /\ at \in {"draw", "drawn"} => call.fn = "zrand"
  /\ at \in TestPlaces          => call.fn = "zptest"

Arguments ==
  /\ at \in DivisionPlaces => arg = DivisionArg
  /\ at \in LimbPlaces \cup {"zmodpow"} /\ call.fn = "zptest" => arg = TestArg
  /\ at \notin Outside \cup DivisionPlaces /\ call.fn # "zptest" => arg = call.arg

Pointers ==
  /\ at \notin {"gcd", "failed"} => ptr = Originals
  /\ ptr \in [{"u", "v"} -> {"u", "v"} \X Nat]
  /\ ptr["u"][1] # ptr["v"][1]
  /\ at \notin {"draw", "drawn", "failed"} => fds = 0
  /\ at \in {"draw", "drawn"} => fds = IF call.dev = "file" THEN 1 ELSE 0
  /\ fds \in {0, 1}

Control == /\ at \in Labels
           /\ at # "idle" => call \in Calls /\ Caller /\ Arguments
           /\ \A p \in DOMAIN arg : arg[p] \in Names \cup {Null}

(* What a call has for parameters.                                         *)
LEMMA CallIs ==
  ASSUME NEW c \in Calls
  PROVE  /\ c.fn \in Functions /\ c.val \in [Reg -> Int]
         /\ DOMAIN c.arg = Parameters(c.fn)
         /\ \A p \in Parameters(c.fn) : c.arg[p] \in Reg \/ (c.fn = "zptest" /\ p = "a" /\ c.arg[p] = Null)
  BY CallAssumption

(* The numbers a power is made of, for the program or for zptest.          *)
LEMMA PowerParameters ==
  ASSUME Control, AtPower \/ at \in LimbPlaces \cup {"exponent"}
  PROVE  /\ call \in Calls
         /\ ByNumber <=> at \in LimbPlaces \cup {"zpow", "zmodpow"}
         /\ arg.b \in Names /\ (ByNumber => arg.c \in Names) /\ (Modular => arg.d \in Names)
         /\ \/ call.fn = "zptest" /\ arg.a = "x"
            \/ call.fn # "zptest" /\ arg.a = call.arg.a /\ arg.a \in Reg
<1>1. call \in Calls /\ Caller /\ Arguments
  BY DEF Control, AtPower, LimbPlaces
<1>2. CASE call.fn = "zptest"
  <2>1. arg = TestArg /\ at \in LimbPlaces \cup {"zmodpow"}
    BY <1>1, <1>2 DEF Caller, Arguments, AtPower, LimbPlaces, Functions
  <2>2. call.arg.b \in Reg
    BY <1>1, <1>2, CallIs DEF Parameters
  <2>. QED
    BY <1>1, <1>2, <2>1, <2>2 DEF TestArg, ByNumber, Modular, Names, Dedicated
<1>3. CASE call.fn # "zptest"
  <2>1. arg = call.arg
    BY <1>1, <1>3 DEF Arguments, AtPower, LimbPlaces, Outside, DivisionPlaces
  <2>2. /\ call.fn \in {"zpow", "zmodpow", "zpowu", "zmodpowu"}
        /\ call.fn \in {"zpow", "zmodpow"} <=> at \in LimbPlaces \cup {"zpow", "zmodpow"}
    BY <1>1, <1>3 DEF Caller, AtPower, LimbPlaces, Functions
  <2>3. /\ DOMAIN call.arg = Parameters(call.fn)
        /\ \A p \in Parameters(call.fn) : call.arg[p] \in Reg
    BY <1>1, <1>3, CallIs
  <2>. QED
    BY <1>1, <1>3, <2>1, <2>2, <2>3 DEF Parameters, ByNumber, Modular, Names
<1>. QED
  BY <1>2, <1>3

(* A function that ends, or stays where it is.                             *)
LEMMA ControlKept ==
  ASSUME Control, at # "idle", UNCHANGED <<call, arg>>, at' = at \/ at' \in {"returned", "failed"}
  PROVE  Control'
<1>. USE DEF Control
<1>1. call' \in Calls /\ at' \in Labels /\ \A p \in DOMAIN arg' : arg'[p] \in Names \cup {Null}
  BY DEF Labels, Names
<1>2. Caller'
  BY DEF Caller, DivisionPlaces, LimbPlaces, TestPlaces, Functions
<1>3. Arguments'
  BY DEF Arguments, DivisionPlaces, LimbPlaces, Outside, DivisionArg, TestArg, Fourth
<1>. QED
  BY <1>1, <1>2, <1>3

(* A function that goes on somewhere else with the same parameters.        *)
LEMMA ControlMoved ==
  ASSUME Control, UNCHANGED <<call, arg>>,
         NEW from \in Labels \ Outside, NEW to \in Labels \ Outside, at = from, at' = to,
         \/ << from, to >> \in
           { <<"zdivmod", "quotient">>, <<"zpow", "limb">>, <<"zmodpow", "limb">>,
             <<"zpowu", "exponent">>, <<"zmodpowu", "exponent">>, <<"limb", "bit">>,
             <<"bit", "limb">>, <<"zgcd", "gcd">>, <<"zrand", "draw">>, <<"draw", "drawn">>,
             <<"zptest", "round">>, <<"tested", "round">>, <<"tested", "square">>,
             <<"square", "round">> }
         \/ to = "tested" /\ from \in LimbPlaces \cup {"zmodpow"} /\ call.fn = "zptest"
  PROVE  Control'
<1>. USE DEF Control
<1>1. call' \in Calls /\ at' \in Labels /\ \A p \in DOMAIN arg' : arg'[p] \in Names \cup {Null}
  BY DEF Names, Outside
<1>2. Caller'
  BY DEF Caller, DivisionPlaces, LimbPlaces, TestPlaces, Functions, Outside
<1>3. Arguments'
  BY DEF Arguments, Caller, DivisionPlaces, LimbPlaces, TestPlaces, Outside, DivisionArg, TestArg, Fourth, Functions
<1>. QED
  BY <1>1, <1>2, <1>3

(* Every step goes where it may go, with the parameters of that place.     *)
LEMMA ControlStep == Control /\ [Next]_vars => Control'
<1>. SUFFICES ASSUME Control, [Next]_vars PROVE Control'
  OBVIOUS
<1>. USE DEF Control, Goto, Return, Fail, NoMemory, NoRoomFor, FailHaving
<1>1. CASE Ask
  <2>1. PICK c \in Calls : call' = c /\ at' = c.fn /\ arg' = c.arg
    BY <1>1, CallAssumption DEF Ask
  <2>2. c.fn \in Functions
    BY CallIs
  <2>3. Arguments' /\ Caller'
    BY <2>1, <2>2 DEF Arguments, Caller, DivisionPlaces, LimbPlaces, Outside, Functions, Divisions, TestPlaces, DivisionArg
  <2>4. \A p \in DOMAIN arg' : arg'[p] \in Names \cup {Null}
    BY <2>1, CallIs DEF Names
  <2>. QED
    BY <2>1, <2>2, <2>3, <2>4 DEF Labels, Functions
<1>2. CASE Resume
  BY <1>2 DEF Resume, Labels
<1>3. CASE Dividing
  <2>1. CASE ZdivZmod
    <3>1. call.fn = at /\ call \in Calls
      BY <2>1 DEF ZdivZmod, Caller, Functions
    <3>2. arg = call.arg
      BY <2>1, <3>1 DEF ZdivZmod, Arguments, Outside, DivisionPlaces
    <3>3. arg' = DivisionArg' /\ at' = "zdivmod" /\ call' = call
      BY <2>1, <3>1, <3>2 DEF ZdivZmod, DivideBy, DivisionArg
    <3>4. call.arg.a \in Reg /\ call.arg.b \in Reg /\ call.arg.c \in Reg
      BY <2>1, <3>1, CallIs DEF Parameters, ZdivZmod
    <3>5. \A p \in DOMAIN arg' : arg'[p] \in Names \cup {Null}
      BY <2>1, <3>1, <3>2, <3>4 DEF ZdivZmod, DivideBy, Names, Dedicated
    <3>6. Caller' /\ Arguments'
      BY <2>1, <3>1, <3>3 DEF ZdivZmod, Caller, Arguments, DivisionPlaces, LimbPlaces, Outside, TestPlaces, Functions, Divisions
    <3>. QED
      BY <3>1, <3>3, <3>5, <3>6 DEF Labels
  <2>2. CASE ModMultiply
    <3>1. call.fn = at /\ call \in Calls
      BY <2>2 DEF ModMultiply, Caller, Functions
    <3>2. arg = call.arg
      BY <2>2, <3>1 DEF ModMultiply, Arguments, Outside, DivisionPlaces
    <3>3. CASE at' = "failed"
      BY <2>2, <3>3, ControlKept DEF ModMultiply
    <3>4. CASE at' # "failed"
      <4>1. arg' = DivisionArg' /\ at' = "zdivmod" /\ call' = call
        BY <2>2, <3>1, <3>2, <3>4 DEF ModMultiply, DivideBy, DivisionArg, Fourth
      <4>2. call.arg.a \in Reg /\ call.arg.d \in Reg
        BY <2>2, <3>1, CallIs DEF Parameters, ModMultiply
      <4>3. arg' = [a |-> "mod", b |-> call.arg.a, c |-> call.arg.a, d |-> Fourth]
        BY <2>2, <3>2, <3>4 DEF ModMultiply, DivideBy, Fourth
      <4>4. \A p \in DOMAIN arg' : arg'[p] \in Names \cup {Null}
        BY <4>2, <4>3 DEF Names, Dedicated, Fourth
      <4>5. Caller' /\ Arguments'
        BY <2>2, <3>1, <4>1 DEF ModMultiply, Caller, Arguments, DivisionPlaces, LimbPlaces, Outside, TestPlaces, Functions, Divisions
      <4>. QED
        BY <3>1, <4>1, <4>4, <4>5 DEF Labels
    <3>. QED
      BY <3>3, <3>4
  <2>3. CASE DivideByZero \/ DivideSmall
    BY <2>3, ControlKept DEF DivideByZero, DivideSmall
  <2>4. CASE DivideLong
    BY <2>4, ControlKept, ControlMoved DEF DivideLong, Labels, Outside
  <2>5. CASE QuotientBit
    BY <2>5, ControlKept DEF QuotientBit
  <2>. QED
    BY <1>3, <2>1, <2>2, <2>3, <2>4, <2>5 DEF Dividing
<1>4. CASE Raising
  <2>. USE DEF AtPower, PowerReturns, Labels, Outside
  <2>1. CASE PowerFails
    BY <2>1, ControlKept DEF PowerFails
  <2>2. CASE PowerOfNothing
    BY <2>2, ControlKept, ControlMoved DEF PowerOfNothing, LimbPlaces, Caller, Functions
  <2>3. CASE PreparePower
    <3>1. CASE at' = "failed"
      BY <2>3, <3>1, ControlKept DEF PreparePower
    <3>2. CASE at' # "failed"
      <4>1. AtPower /\ UNCHANGED <<call, arg>> /\ at' = IF ByNumber THEN "limb" ELSE "exponent"
        BY <2>3, <3>2 DEF PreparePower
      <4>2. ByNumber <=> at \in {"zpow", "zmodpow"}
        BY <4>1, PowerParameters DEF LimbPlaces
      <4>. QED
        BY <4>1, <4>2, ControlMoved
    <3>. QED
      BY <3>1, <3>2
  <2>4. CASE NextLimb
    BY <2>4, ControlMoved DEF NextLimb
  <2>5. CASE MultiplyAndSquare
    BY <2>5, ControlKept DEF MultiplyAndSquare
  <2>6. CASE LimbDone
    BY <2>6, ControlMoved DEF LimbDone
  <2>7. CASE SquareAndMultiply
    BY <2>7, ControlKept DEF SquareAndMultiply
  <2>8. CASE PowerDone
    BY <2>8, ControlKept, ControlMoved DEF PowerDone, LimbPlaces, Caller
  <2>. QED
    BY <1>4, <2>1, <2>2, <2>3, <2>4, <2>5, <2>6, <2>7, <2>8 DEF Raising
<1>5. CASE Gcd
  BY <1>5, ControlKept, ControlMoved
     DEF Gcd, GcdOfNothing, PrepareGcd, SubtractAndShift, GcdDone, Labels, Outside
<1>6. CASE Drawing
  BY <1>6, ControlKept, ControlMoved
     DEF Drawing, PrepareRandom, DrawAgain, DrawInRange, DrawFails, RandomDone, Labels, Outside
<1>7. CASE Testing
  <2>1. CASE Round /\ at' = "zmodpow"
    <3>1. at = "round" /\ call' = call /\ arg' = TestArg
      BY <2>1 DEF Round, Answer, TestArg
    <3>2. call \in Calls /\ call.fn = "zptest"
      BY <3>1 DEF Caller, TestPlaces
    <3>3. call.arg.b \in Reg
      BY <3>2, CallIs DEF Parameters
    <3>4. \A p \in DOMAIN arg' : arg'[p] \in Names \cup {Null}
      BY <3>1, <3>3 DEF TestArg, Names, Dedicated
    <3>5. Caller' /\ Arguments'
      BY <2>1, <3>1, <3>2 DEF Caller, Arguments, TestArg, DivisionPlaces, LimbPlaces, TestPlaces, Outside, Functions
    <3>. QED
      BY <2>1, <3>1, <3>2, <3>4, <3>5 DEF Labels
  <2>. QED
    BY <1>7, <2>1, ControlKept, ControlMoved
       DEF Testing, TestSmallOrEven, PrepareTest, Round, Tested, TestSquare, Answer, Composite, Labels, Outside
<1>8. CASE UNCHANGED vars
  BY <1>8 DEF vars, Caller, Arguments, DivisionArg, TestArg, Fourth
<1>. QED
  BY <1>1, <1>2, <1>3, <1>4, <1>5, <1>6, <1>7, <1>8 DEF Next, Function

-----------------------------------------------------------------------------
(* The invariant: values.                                                  *)
InTest == at \in TestPlaces \cup LimbPlaces \cup {"zmodpow"} /\ call.fn = "zptest"

GcdLocals == {"shifts", "neg", "loan"}

Values ==
  /\ num \in [Names -> Int]
  /\ \A i \in DOMAIN block : block[i] \in 0 .. 2 ^ BitsPerChar - 1
  /\ at \in LimbPlaces \cup {"exponent"} /\ "d" \in DOMAIN arg => num["pow_d"] # 0
  /\ at = "gcd" => /\ GcdLocals \subseteq DOMAIN loc /\ loc.shifts \in Nat
                    /\ num["u"] \in Nat \ {0} /\ num["v"] \in Nat \ {0}
  /\ at \in {"draw", "drawn"} => Was("b") > 0 /\ loc.bits = Bits(Was("b"))
  /\ InTest => Was("b") > 3

(* While a function works it has stored in its destination at most.        *)
Stored == /\ call.fn # "zptest"
          /\ \/ at \in DivisionPlaces /\ call.fn \in {"zmodmul", "zmodsqr"}
             \/ at \in LimbPlaces \cup {"exponent", "draw", "drawn"}
Unstored ==
  /\ at \notin Outside => \A n \in Reg : num[n] = call.val[n] \/ (Stored /\ n = call.arg.a)
  /\ OthersUntouched

(* A step that stores in some numbers at most.                             *)
Writes(D) == num' \in [Names -> Int] /\ \A n \in Names \ D : num'[n] = num[n]

(* Storing in one number.                                                  *)
LEMMA StoreOne ==
  ASSUME num \in [Names -> Int], NEW m \in Names, NEW v \in Int, num' = m :> v @@ num
  PROVE  num'[m] = v /\ Writes({m})
  BY DEF @@, :>, Writes

(* Storing in any numbers: those hold what was stored, the others what     *)
(* they held.                                                              *)
LEMMA StoreSome ==
  ASSUME num \in [Names -> Int], NEW f, DOMAIN f \subseteq Names, \A n \in DOMAIN f : f[n] \in Int,
         num' = f @@ num
  PROVE  (\A n \in DOMAIN f : num'[n] = f[n]) /\ Writes(DOMAIN f)
<1>1. DOMAIN num = Names
  OBVIOUS
<1>2. /\ DOMAIN num' = Names
      /\ \A n \in DOMAIN f : num'[n] = f[n]
      /\ \A n \in Names \ DOMAIN f : num'[n] = num[n]
  BY <1>1 DEF @@
<1>3. num' = [n \in Names |-> num'[n]]
  BY <1>2 DEF @@
<1>4. \A n \in Names : num'[n] \in Int
  BY <1>2
<1>. QED
  BY <1>2, <1>3, <1>4 DEF Writes

(* Storing in two numbers.                                                 *)
LEMMA StoreTwo ==
  ASSUME num \in [Names -> Int], NEW m \in Names, NEW v \in Int, NEW n \in Names, NEW w \in Int,
         m # n, num' = (m :> v @@ n :> w) @@ num
  PROVE  num'[m] = v /\ num'[n] = w /\ Writes({m, n})
<1>. DEFINE f == m :> v @@ n :> w
<1>1. DOMAIN f = {m, n} /\ f[m] = v /\ f[n] = w
  BY DEF @@, :>
<1>2. num' = f @@ num
  OBVIOUS
<1>. HIDE DEF f
<1>. QED
  BY <1>1, <1>2, StoreSome

(* Storing in three numbers.                                               *)
LEMMA StoreThree ==
  ASSUME num \in [Names -> Int], NEW m \in Names, NEW v \in Int, NEW n \in Names, NEW w \in Int,
         NEW l \in Names, NEW u \in Int,
         m # n, m # l, n # l, num' = (m :> v @@ n :> w @@ l :> u) @@ num
  PROVE  num'[m] = v /\ num'[n] = w /\ num'[l] = u /\ Writes({m, n, l})
<1>. DEFINE f == m :> v @@ n :> w @@ l :> u
<1>1. DOMAIN f = {m, n, l} /\ f[m] = v /\ f[n] = w /\ f[l] = u
  BY DEF @@, :>
<1>2. num' = f @@ num
  OBVIOUS
<1>. HIDE DEF f
<1>. QED
  BY <1>1, <1>2, StoreSome

(* Storing in none.                                                        *)
LEMMA StoreNone == num \in [Names -> Int] /\ UNCHANGED num => Writes({})
  BY DEF Writes

(* The numbers of a division, whoever asked for it.                        *)
LEMMA DivisionParameters ==
  ASSUME Control, at \in DivisionPlaces
  PROVE  /\ call \in Calls /\ call.fn \in Divisions /\ arg = DivisionArg
         /\ \A p \in {"a", "b", "c", "d"} : arg[p] \in Names \ {"ta", "tb"}
         /\ arg.a # arg.b
         /\ arg.a \in Reg => arg.a \in Destinations
         /\ arg.b \in Reg => arg.b \in Destinations
<1>1. call \in Calls /\ call.fn \in Divisions /\ arg = DivisionArg
  BY DEF Control, Caller, Arguments, DivisionPlaces
<1>2. \A p \in Parameters(call.fn) : call.arg[p] \in Reg
  BY <1>1, CallIs DEF Divisions
<1>3. Reg \subseteq Names \ {"ta", "tb"}
  BY NumberAssumption DEF Names, Dedicated
<1>4. {"div", "mod", "modmul"} \subseteq Names \ (Reg \cup {"ta", "tb"})
  BY NumberAssumption DEF Names, Dedicated
<1>5. CASE call.fn = "zdivmod"
  <2>1. arg = call.arg /\ call.arg.a # call.arg.b
    BY <1>1, <1>5, CallAssumption DEF DivisionArg
  <2>2. \A p \in {"a", "b", "c", "d"} : call.arg[p] \in Reg
    BY <1>2, <1>5 DEF Parameters
  <2>3. Destinations = { call.arg.a, call.arg.b }
    BY <1>5 DEF Destinations
  <2>. QED
    BY <1>1, <1>3, <2>1, <2>2, <2>3
<1>6. CASE call.fn \in {"zdiv", "zmod"}
  <2>1. \A p \in {"a", "b", "c"} : call.arg[p] \in Reg
    BY <1>2, <1>6 DEF Parameters
  <2>2. Destinations = { call.arg.a }
    BY <1>6 DEF Destinations
  <2>. QED
    BY <1>1, <1>3, <1>4, <1>6, <2>1, <2>2 DEF DivisionArg
<1>7. CASE call.fn \in {"zmodmul", "zmodsqr"}
  <2>1. \A p \in {"a", "b", "c", "d"} : call.arg[p] \in Reg
    BY <1>2, <1>7 DEF Parameters
  <2>2. Destinations = { call.arg.a }
    BY <1>7 DEF Destinations
  <2>3. arg = [a |-> "mod", b |-> call.arg.a, c |-> call.arg.a, d |-> Fourth]
    BY <1>1, <1>7 DEF DivisionArg
  <2>4. Fourth \in Names \ {"ta", "tb"}
    BY <1>3, <1>4, <2>1 DEF Fourth
  <2>. QED
    BY <1>1, <1>3, <1>4, <2>1, <2>2, <2>3, <2>4
<1>. QED
  BY <1>1, <1>5, <1>6, <1>7 DEF Divisions

(* A function that has just been called has its parameters from the        *)
(* program.                                                                *)
LEMMA Called ==
  ASSUME Control, at \in Functions, at \notin {"zdivmod", "zmodpow", "zptest"}
  PROVE  /\ call \in Calls /\ call.fn = at /\ arg = call.arg
         /\ \A p \in Parameters(at) : arg[p] \in Reg /\ arg[p] \in Names
<1>1. call \in Calls /\ Caller /\ Arguments
  BY DEF Control, Functions
<1>2. call.fn = at
  BY <1>1 DEF Caller
<1>3. arg = call.arg
  BY <1>1, <1>2 DEF Arguments, Outside, DivisionPlaces, Functions
<1>4. \A p \in Parameters(at) : arg[p] \in Reg
  BY <1>1, <1>2, <1>3, CallIs
<1>. QED
  BY <1>1, <1>2, <1>3, <1>4 DEF Names

(* What a failure leaves of the number that was to be written.             *)
LEMMA FailingWrites ==
  ASSUME num \in [Names -> Int], NEW m \in Names, NEW e, FailHaving(m, e)
  PROVE  Writes({m})
  BY StoreOne, NumberAssumption DEF FailHaving

(* The product of zmodmul, or what its failure leaves.                     *)
LEMMA ModMultiplyWrites ==
  ASSUME Control, Values, ModMultiply
  PROVE  \/ /\ at' = "zdivmod" /\ Writes({arg.a, "modmul"})
            /\ num'[arg.a] = P("b") * P("c")
            /\ arg.a = arg.d => num'["modmul"] = P("d")
         \/ /\ at' = "failed" /\ Writes({arg.a, arg.b, arg.c})
            /\ \A n \in Names \ {arg.a} : num'[n] # num[n] => at = "zmodmul" /\ num'[n] = Abs(num[n])
<1>. DEFINE product == P("b") * P("c")
<1>0. num \in [Names -> Int]
  BY DEF Values
<1>1. /\ arg.a \in Reg /\ arg.a \in Names /\ arg.b \in Names /\ arg.c \in Names /\ arg.d \in Names
      /\ at \in {"zmodmul", "zmodsqr"}
  BY Called DEF ModMultiply, Functions, Parameters
<1>2. product \in Int /\ P("d") \in Int
  BY <1>0, <1>1 DEF P
<1>3. "modmul" \in Names /\ "modmul" # arg.a
  BY <1>1, NumberAssumption DEF Names, Dedicated
<1>. DEFINE modulus == P("d")
<1>. HIDE DEF product, modulus
<1>4. CASE at' # "failed"
  <2>1. at' = "zdivmod" /\ num' = ModulusCopied(arg.a :> product) @@ num
    BY <1>4 DEF ModMultiply, Goto, SetNum, product
  <2>2. CASE arg.a = arg.d
    <3>1. num' = ("modmul" :> modulus @@ arg.a :> product) @@ num
      BY <2>1, <2>2 DEF ModulusCopied, modulus
    <3>2. modulus \in Int
      BY <1>2 DEF modulus
    <3>3. num'["modmul"] = modulus /\ num'[arg.a] = product /\ Writes({"modmul", arg.a})
      BY <1>0, <1>1, <1>2, <1>3, <3>1, <3>2, StoreTwo
    <3>. QED
      BY <2>1, <3>3 DEF product, modulus
  <2>3. CASE arg.a # arg.d
    <3>1. num' = arg.a :> product @@ num
      BY <2>1, <2>3 DEF ModulusCopied
    <3>2. num'[arg.a] = product /\ Writes({arg.a})
      BY <1>0, <1>1, <1>2, <3>1, StoreOne
    <3>. QED
      BY <2>1, <2>3, <3>2 DEF Writes, product
  <2>. QED
    BY <2>2, <2>3
<1>5. CASE at' = "failed"
  <2>1. PICK positive \in SUBSET {arg.b, arg.c}, lost \in SUBSET {arg.a} :
          /\ at = "zmodsqr" => positive = {}
          /\ num' = ([n \in lost |-> Leftover] @@ [n \in positive |-> Abs(num[n])]) @@ num
    BY <1>5 DEF ModMultiply, Goto, SetNum
  <2>. DEFINE f == [n \in lost |-> Leftover] @@ [n \in positive |-> Abs(num[n])]
  <2>2. /\ DOMAIN f = lost \cup positive
        /\ \A n \in lost : f[n] = Leftover
        /\ \A n \in positive \ lost : f[n] = Abs(num[n])
    BY DEF @@
  <2>3. num' = f @@ num
    BY <2>1
  <2>. HIDE DEF f
  <2>4. DOMAIN f \subseteq Names /\ \A n \in DOMAIN f : f[n] \in Int
    BY <1>0, <1>1, <2>2, Magnitude, NumberAssumption
  <2>5. (\A n \in DOMAIN f : num'[n] = f[n]) /\ Writes(DOMAIN f)
    BY <1>0, <2>3, <2>4, StoreSome
  <2>. QED
    BY <1>1, <1>5, <2>1, <2>2, <2>5 DEF Writes
<1>. QED
  BY <1>4, <1>5

(* What a division stores, at once, before the loop and in it.             *)
LEMMA DivideSmallWrites ==
  ASSUME Control, Values, DivideSmall
  PROVE  /\ P("d") # 0 /\ Abs(P("c")) <= Abs(P("d"))
         /\ \/ /\ at' = "returned" /\ Writes({arg.a, arg.b})
               /\ IF Abs(P("c")) = Abs(P("d"))
                  THEN num'[arg.a] = Sign(P("c")) * Sign(P("d")) /\ num'[arg.b] = 0
                  ELSE num'[arg.a] = 0 /\ num'[arg.b] = P("c")
            \/ at' = "failed" /\ result' = "ENOMEM" /\ Writes({arg.a, arg.b})
<1>. DEFINE a == arg.a
            b == arg.b
            c == P("c")
            d == P("d")
            s == Sign(c) * Sign(d)
<1>0. num \in [Names -> Int]
  BY DEF Values
<1>1. /\ a \in Names /\ b \in Names /\ a # b
      /\ c \in Int /\ d \in Int
  BY <1>0, DivisionParameters DEF DivideSmall, DivisionPlaces, P
<1>2. d # 0 /\ Abs(c) <= Abs(d)
  BY DEF DivideSmall, a, b, c, d, s
<1>3. s \in Int
  BY <1>1, Magnitude
<1>. SUFFICES \/ /\ at' = "returned" /\ Writes({a, b})
                 /\ IF Abs(c) = Abs(d) THEN num'[a] = s /\ num'[b] = 0
                    ELSE num'[a] = 0 /\ num'[b] = c
              \/ at' = "failed" /\ result' = "ENOMEM" /\ Writes({a, b})
  BY <1>2
<1>. HIDE DEF a, b, c, d, s
<1>4. CASE NoRoomFor(a) \/ NoRoomFor(b)
  <2>1. at' = "failed" /\ result' = "ENOMEM"
    BY <1>4 DEF NoRoomFor, FailHaving
  <2>2. Writes({a}) \/ Writes({b})
    BY <1>0, <1>1, <1>4, FailingWrites DEF NoRoomFor
  <2>. QED
    BY <1>2, <2>1, <2>2 DEF Writes
<1>5. CASE Abs(c) = Abs(d) /\ SetNum(a :> s @@ b :> 0) /\ Return
  <2>1. num' = (a :> s @@ b :> 0) @@ num /\ at' = "returned"
    BY <1>5 DEF SetNum, Return, Goto
  <2>2. num'[a] = s /\ num'[b] = 0 /\ Writes({a, b})
    BY <1>0, <1>1, <1>3, <2>1, StoreTwo
  <2>. QED
    BY <1>2, <1>5, <2>1, <2>2
<1>6. CASE Abs(c) # Abs(d) /\ SetNum(a :> 0 @@ b :> c) /\ Return
  <2>1. num' = (a :> 0 @@ b :> c) @@ num /\ at' = "returned"
    BY <1>6 DEF SetNum, Return, Goto
  <2>2. num'[a] = 0 /\ num'[b] = c /\ Writes({a, b})
    BY <1>0, <1>1, <2>1, StoreTwo
  <2>. QED
    BY <1>2, <1>6, <2>1, <2>2
<1>. QED
  BY <1>4, <1>5, <1>6 DEF DivideSmall, a, b, c, d, s

(* A long division begins in two numbers of libzahl, or fails and writes   *)
(* nothing.                                                                *)
LEMMA DivideLongWrites ==
  ASSUME Control, Values, DivideLong
  PROVE  /\ P("d") # 0 /\ Abs(P("c")) > Abs(P("d"))
         /\ \/ /\ at' = "quotient" /\ UNCHANGED arg /\ Writes({"ta", "tb"})
               /\ num'["ta"] = 0 /\ num'["tb"] = Abs(P("c"))
            \/ at' = "failed" /\ Writes({}) /\ UNCHANGED num
<1>. DEFINE m == Abs(P("c"))
<1>0. num \in [Names -> Int]
  BY DEF Values
<1>1. m \in Int
  BY <1>0, DivisionParameters, Magnitude DEF DivideLong, DivisionPlaces, P
<1>2. P("d") # 0 /\ Abs(P("c")) > Abs(P("d"))
  BY DEF DivideLong
<1>3. CASE NoMemory
  BY <1>0, <1>2, <1>3, StoreNone DEF NoMemory, Fail
<1>4. CASE SetNum("ta" :> 0 @@ "tb" :> m) /\ Goto("quotient") /\ UNCHANGED arg
  <2>1. num' = ("ta" :> 0 @@ "tb" :> m) @@ num
    BY <1>4 DEF SetNum
  <2>2. "ta" \in Names /\ "tb" \in Names /\ "ta" # "tb"
    BY DEF Names, Dedicated
  <2>. HIDE DEF m
  <2>3. num'["ta"] = 0 /\ num'["tb"] = m /\ Writes({"ta", "tb"})
    BY <1>0, <1>1, <2>1, <2>2, StoreTwo
  <2>. QED
    BY <1>2, <1>4, <2>3 DEF Goto, m
<1>. QED
  BY <1>3, <1>4 DEF DivideLong

-----------------------------------------------------------------------------
(* The invariant: division.                                                *)

Numerator   == CASE call.fn = "zdivmod"                -> Was("c")
                 [] call.fn \in {"zmodmul", "zmodsqr"} -> Was("b") * Was("c")
                 [] OTHER                              -> Was("b")
Denominator == IF call.fn \in {"zdiv", "zmod"} THEN Was("c") ELSE Was("d")

(* The divisor shifted to the bit of the quotient that is next, and those   *)
(* of the shifted divisors that are still to be used.                      *)
Shifts ==
  LET D == Abs(Denominator)
  IN  IF loc.few THEN loc.i = 1 /\ loc.tds = << D * 2 ^ loc.bit >>
      ELSE /\ DOMAIN loc.tds = 1 .. BitsPerChar
           /\ \A j \in 1 .. BitsPerChar :
                loc.bit + loc.i - j >= 0 => loc.tds[j] = D * 2 ^ (loc.bit + loc.i - j)

(* The bits above are right: what they leave of the dividend is less than   *)
(* the divisor at the lowest of them.                                      *)
Developed(ta, tb, bit) ==
  /\ ta \in Nat /\ tb \in Nat
  /\ Abs(Numerator) = ta * Abs(Denominator) + tb
  /\ tb < Abs(Denominator) * 2 ^ bit
  /\ \E m \in 0 .. ta : ta = m * 2 ^ bit

Division ==
  /\ at \in DivisionPlaces => P("c") = Numerator /\ P("d") = Denominator
  /\ at = "quotient" =>
       /\ Denominator # 0
       /\ {"bit", "few", "i", "tds", "sign", "c_sign"} \subseteq DOMAIN loc
       /\ loc.sign = Sign(Numerator) * Sign(Denominator) /\ loc.c_sign = Sign(Numerator)
       /\ loc.bit \in Nat /\ loc.i \in 1 .. BitsPerChar /\ loc.few \in BOOLEAN
       /\ Shifts
       /\ Developed(num["ta"], num["tb"], loc.bit + 1)
  /\ at = "returned" /\ call.fn \in Divisions =>
       /\ Divided(num[DivisionArg.a], num[DivisionArg.b], Numerator, Denominator)
       /\ Abs(num[DivisionArg.a]) <= Abs(Numerator)

(* Random numbers.                                                         *)
Drawn ==
  /\ at = "drawn" =>
       /\ num[arg.a] \in 0 .. 2 ^ loc.bits - 1
       /\ call.dist = "UNIFORM" /\ arg.a # arg.b => num[arg.a] <= Was("b")
  /\ RandomRight

(* The next bit of the quotient.                                           *)
LEMMA NextBit ==
  ASSUME Denominator \in Int \ {0}, Numerator \in Int, NEW ta, NEW tb, NEW bit \in Nat,
         Developed(ta, tb, bit + 1)
  PROVE  LET td == Abs(Denominator) * 2 ^ bit
         IN  /\ td \in Nat
             /\ td <= tb => Developed(SetBit(ta, bit), tb - td, bit)
             /\ ~ (td <= tb) => Developed(ta, tb, bit)
<1>. DEFINE D == Abs(Denominator)
            C == Abs(Numerator)
            p == 2 ^ bit
            td == D * p
<1>1. D \in Nat \ {0} /\ C \in Nat
  BY Magnitude
<1>2. p \in Nat \ {0} /\ 2 ^ (bit + 1) = 2 * p
  BY Positive, Doubling
<1>3. PICK m \in 0 .. ta : ta = m * (2 * p)
  BY <1>2 DEF Developed
<1>4. ta \in Nat /\ tb \in Nat /\ C = ta * D + tb /\ tb < D * (2 * p)
  BY <1>2 DEF Developed
<1>. HIDE DEF D, C, p
<1>5. td \in Nat /\ D * (2 * p) = td + td
  BY <1>1, <1>2
<1>6. m \in Nat /\ ta = (2 * m) * p + 0
  BY <1>2, <1>3, <1>4
<1>7. SetBit(ta, bit) = ta + p
  <2>1. ta \div p = 2 * m
    BY <1>2, <1>6, DivUnique
  <2>2. (2 * m) % 2 = 0
    BY <1>6
  <2>. QED
    BY <2>1, <2>2 DEF SetBit, p
<1>8. ASSUME td <= tb PROVE Developed(ta + p, tb - td, bit)
  <2>1. (ta + p) * D = ta * D + td
    BY <1>1, <1>2, <1>4
  <2>2. ta * D \in Nat
    BY <1>1, <1>4
  <2>3. tb - td \in Nat /\ tb - td < td /\ C = (ta + p) * D + (tb - td)
    BY <1>1, <1>4, <1>5, <1>8, <2>1, <2>2
  <2>4. ta + p = (2 * m + 1) * p /\ ta + p \in Nat
    BY <1>2, <1>4, <1>6
  <2>5. 2 * m + 1 \in 0 .. ta + p
    <3>1. 2 * m + 1 <= (2 * m + 1) * p
      BY <1>2, <1>6
    <3>. QED
      BY <1>6, <2>4, <3>1
  <2>. QED
    BY <2>3, <2>4, <2>5 DEF Developed, C, D, p
<1>9. ASSUME ~ (td <= tb) PROVE Developed(ta, tb, bit)
  <2>1. tb < td
    BY <1>4, <1>5, <1>9
  <2>2. 2 * m \in 0 .. ta /\ ta = (2 * m) * p
    <3>1. 2 * m <= (2 * m) * p
      BY <1>2, <1>6
    <3>. QED
      BY <1>2, <1>4, <1>6, <3>1
  <2>. QED
    BY <1>4, <2>1, <2>2 DEF Developed, C, D, p
<1>. QED
  BY <1>5, <1>7, <1>8, <1>9 DEF D, p

(* A multiple of a power of two, shifted.                                  *)
LEMMA ShiftMultiple ==
  ASSUME NEW D \in Nat, NEW e \in Nat, NEW k \in 0 .. e
  PROVE  ShiftDown(D * 2 ^ e, k) = D * 2 ^ (e - k)
<1>1. e - k \in Nat /\ k \in Nat /\ (e - k) + k = e
  OBVIOUS
<1>2. 2 ^ e = 2 ^ (e - k) * 2 ^ k
  BY <1>1, PowerOfSum
<1>3. 2 ^ k \in Nat \ {0} /\ 2 ^ (e - k) \in Nat
  BY <1>1, Positive
<1>. DEFINE q == D * 2 ^ (e - k)
<1>4. q \in Nat /\ D * 2 ^ e = q * 2 ^ k + 0
  BY <1>2, <1>3
<1>5. D * 2 ^ e \in Int /\ D * 2 ^ e >= 0
  BY <1>3, <1>4
<1>. HIDE DEF q
<1>6. (q * 2 ^ k + 0) \div 2 ^ k = q
  BY <1>3, <1>4, DivUnique
<1>7. ShiftDown(D * 2 ^ e, k) = (D * 2 ^ e) \div 2 ^ k
  BY <1>1, <1>5, Shifting
<1>. QED
  BY <1>4, <1>6, <1>7 DEF q

(* The divisor at the next bit, and the shifted divisors for the one after. *)
LEMMA NextShifts ==
  ASSUME Denominator \in Int \ {0}, Shifts, loc.bit \in Nat, loc.i \in 1 .. BitsPerChar,
         loc.few \in BOOLEAN
  PROVE  /\ loc.tds[loc.i] = Abs(Denominator) * 2 ^ loc.bit
         /\ /\ loc.bit # 0 /\ UNCHANGED call
            /\ loc'.bit = loc.bit - 1 /\ loc'.few = loc.few
            /\ IF loc.few THEN loc'.i = 1 /\ loc'.tds = << ShiftDown(loc.tds[loc.i], 1) >>
               ELSE IF loc.i < BitsPerChar THEN loc'.i = loc.i + 1 /\ loc'.tds = loc.tds
               ELSE loc'.i = 1 /\ loc'.tds = Shifted(loc.tds, loc.bit - 1)
            => Shifts' /\ loc'.i \in 1 .. BitsPerChar
<1>. DEFINE D == Abs(Denominator)
            bit == loc.bit
            i == loc.i
<1>1. D \in Nat /\ bit \in Nat /\ BitsPerChar \in Nat \ {0} /\ i \in 1 .. BitsPerChar
  BY Magnitude, LimbAssumption
<1>2. loc.tds[i] = D * 2 ^ bit
  <2>1. CASE loc.few
    BY <2>1 DEF Shifts
  <2>2. CASE ~ loc.few
    <3>1. bit + i - i = bit /\ bit + i - i >= 0
      BY <1>1
    <3>2. loc.tds[i] = D * 2 ^ (bit + i - i)
      BY <1>1, <2>2, <3>1 DEF Shifts
    <3>. QED
      BY <3>1, <3>2
  <2>. QED
    BY <2>1, <2>2
<1>. SUFFICES ASSUME bit # 0, UNCHANGED call, loc'.bit = bit - 1, loc'.few = loc.few,
                     IF loc.few THEN loc'.i = 1 /\ loc'.tds = << ShiftDown(loc.tds[i], 1) >>
                     ELSE IF i < BitsPerChar THEN loc'.i = i + 1 /\ loc'.tds = loc.tds
                     ELSE loc'.i = 1 /\ loc'.tds = Shifted(loc.tds, bit - 1)
              PROVE  Shifts' /\ loc'.i \in 1 .. BitsPerChar
  BY <1>2
<1>3. Abs(Denominator)' = D
  BY DEF Denominator, Was
<1>4. CASE loc.few
  <2>1. ShiftDown(D * 2 ^ bit, 1) = D * 2 ^ (bit - 1)
    BY <1>1, ShiftMultiple
  <2>2. loc'.i = 1 /\ loc'.tds = << D * 2 ^ (bit - 1) >> /\ loc'.few /\ loc'.bit = bit - 1
    BY <1>2, <1>4, <2>1
  <2>. QED
    BY <1>1, <1>3, <2>2 DEF Shifts
<1>5. CASE ~ loc.few /\ i < BitsPerChar
  <2>1. loc'.bit + loc'.i = bit + i
    BY <1>1, <1>5
  <2>2. loc'.i \in 1 .. BitsPerChar /\ loc'.tds = loc.tds /\ ~ loc'.few
    BY <1>1, <1>5
  <2>3. DOMAIN loc.tds = 1 .. BitsPerChar
    BY <1>5 DEF Shifts
  <2>4. \A j \in 1 .. BitsPerChar : bit + i - j >= 0 => loc.tds[j] = D * 2 ^ (bit + i - j)
    BY <1>5 DEF Shifts
  <2>5. \A j \in 1 .. BitsPerChar :
          loc'.bit + loc'.i - j >= 0 => loc'.tds[j] = D * 2 ^ (loc'.bit + loc'.i - j)
    <3>. SUFFICES ASSUME NEW j \in 1 .. BitsPerChar, loc'.bit + loc'.i - j >= 0
                  PROVE  loc'.tds[j] = D * 2 ^ (loc'.bit + loc'.i - j)
      OBVIOUS
    <3>1. loc'.bit + loc'.i - j = bit + i - j
      BY <2>1
    <3>2. loc.tds[j] = D * 2 ^ (bit + i - j)
      BY <2>4, <3>1
    <3>. QED
      BY <2>2, <3>1, <3>2
  <2>. HIDE DEF D, bit, i
  <2>. QED
    BY <1>3, <2>2, <2>3, <2>5 DEF Shifts
<1>6. CASE ~ loc.few /\ ~ (i < BitsPerChar)
  <2>1. i = BitsPerChar /\ loc'.i = 1 /\ loc'.tds = Shifted(loc.tds, bit - 1)
    BY <1>1, <1>6
  <2>2. DOMAIN loc.tds = 1 .. BitsPerChar
    BY <1>6 DEF Shifts
  <2>3. ASSUME NEW j \in 1 .. BitsPerChar, bit - 1 + 1 - j >= 0
        PROVE  loc'.tds[j] = D * 2 ^ (bit - 1 + 1 - j)
    <3>. DEFINE e == bit + BitsPerChar - j
    <3>1. loc.tds[j] = D * 2 ^ e
      BY <1>1, <1>6, <2>1, <2>3 DEF Shifts
    <3>2. e \in Nat /\ BitsPerChar \in 0 .. e /\ e - BitsPerChar = bit - 1 + 1 - j
      BY <1>1, <2>3
    <3>3. j <= Min2(bit - 1, BitsPerChar - 1) + 1
      BY <1>1, <2>3 DEF Min2
    <3>4. loc'.tds[j] = ShiftDown(loc.tds[j], BitsPerChar)
      BY <2>1, <2>2, <3>3 DEF Shifted
    <3>. HIDE DEF e
    <3>5. ShiftDown(D * 2 ^ e, BitsPerChar) = D * 2 ^ (e - BitsPerChar)
      BY <1>1, <3>2, ShiftMultiple
    <3>. QED
      BY <3>1, <3>2, <3>4, <3>5
  <2>4. DOMAIN loc'.tds = 1 .. BitsPerChar
    BY <2>1, <2>2 DEF Shifted
  <2>. QED
    BY <1>1, <1>3, <1>6, <2>1, <2>3, <2>4 DEF Shifts
<1>. QED
  BY <1>4, <1>5, <1>6

(* What is divided are integers.                                           *)
LEMMA Divisible ==
  ASSUME call \in Calls, call.fn \in Divisions
  PROVE  Numerator \in Int /\ Denominator \in Int
<1>1. \A p \in Parameters(call.fn) : call.val[call.arg[p]] \in Int
  BY CallIs DEF Divisions
<1>2. CASE call.fn \in {"zdivmod", "zmodmul", "zmodsqr"}
  <2>1. \A p \in {"a", "b", "c", "d"} : Was(p) \in Int
    BY <1>1, <1>2 DEF Parameters, Was
  <2>. QED
    BY <1>2, <2>1 DEF Numerator, Denominator
<1>3. CASE call.fn \in {"zdiv", "zmod"}
  <2>1. \A p \in {"a", "b", "c"} : Was(p) \in Int
    BY <1>1, <1>3 DEF Parameters, Was
  <2>. QED
    BY <1>3, <2>1 DEF Numerator, Denominator
<1>. QED
  BY <1>2, <1>3 DEF Divisions

(* One bit of the quotient: the last one, another one, or a failure.       *)
LEMMA QuotientBitWrites ==
  ASSUME Control, Values, Division, QuotientBit
  PROVE  \E ta, tb \in Nat :
           /\ Developed(ta, tb, loc.bit)
           /\ \/ /\ at' = "returned" /\ (loc.bit = 0 \/ tb = 0)
                 /\ Writes({arg.a, arg.b})
                 /\ num'[arg.a] = loc.sign * ta /\ num'[arg.b] = loc.c_sign * tb
              \/ /\ at' = "quotient" /\ UNCHANGED arg /\ Writes({"ta", "tb"})
                 /\ num'["ta"] = ta /\ num'["tb"] = tb
                 /\ loc.bit # 0 /\ loc'.bit = loc.bit - 1
                 /\ {"bit", "few", "i", "tds", "sign", "c_sign"} \subseteq DOMAIN loc'
                 /\ loc'.sign = loc.sign /\ loc'.c_sign = loc.c_sign /\ loc'.few = loc.few
                 /\ loc'.i \in 1 .. BitsPerChar /\ Shifts'
              \/ at' = "failed" /\ UNCHANGED num
<1>0. num \in [Names -> Int]
  BY DEF Values
<1>1. /\ at = "quotient" /\ call \in Calls /\ call.fn \in Divisions
      /\ arg.a \in Names /\ arg.b \in Names /\ arg.a # arg.b
  BY DivisionParameters DEF QuotientBit, DivisionPlaces
<1>2. Numerator \in Int /\ Denominator \in Int \ {0}
  BY <1>1, Divisible DEF Division
<1>3. /\ loc.bit \in Nat /\ loc.i \in 1 .. BitsPerChar /\ loc.few \in BOOLEAN /\ Shifts
      /\ {"bit", "few", "i", "tds", "sign", "c_sign"} \subseteq DOMAIN loc
      /\ Developed(num["ta"], num["tb"], loc.bit + 1)
      /\ loc.sign \in {-1, 0, 1} /\ loc.c_sign \in {-1, 0, 1}
  <2>1. Sign(Numerator) \in {-1, 0, 1} /\ Sign(Denominator) \in {-1, 0, 1}
    BY <1>2, Magnitude
  <2>. QED
    BY <1>1, <2>1 DEF Division
<1>. DEFINE td   == loc.tds[loc.i]
            fits == td <= num["tb"]
            tb   == IF fits THEN num["tb"] - td ELSE num["tb"]
            ta   == IF fits THEN SetBit(num["ta"], loc.bit) ELSE num["ta"]
            last == loc.bit = 0 \/ tb = 0
            bit  == loc.bit - 1
<1>4. td = Abs(Denominator) * 2 ^ loc.bit
  BY <1>2, <1>3, NextShifts
<1>5. Developed(ta, tb, loc.bit)
  BY <1>2, <1>3, <1>4, NextBit
<1>6. ta \in Nat /\ tb \in Nat
  BY <1>5 DEF Developed
<1>7. /\ \/ /\ last
            /\ SetNum(arg.a :> loc.sign * ta @@ arg.b :> loc.c_sign * tb)
            /\ Return
         \/ /\ ~ last
            /\ SetNum("ta" :> ta @@ "tb" :> tb)
            /\ SetLoc("bit" :> bit @@
                      IF loc.few THEN "tds" :> << ShiftDown(td, 1) >>
                      ELSE IF loc.i < BitsPerChar THEN "i" :> loc.i + 1
                      ELSE "i" :> 1 @@ "tds" :> Shifted(loc.tds, bit))
            /\ Goto("quotient") /\ UNCHANGED arg
         \/ fits /\ NoMemory
  BY DEF QuotientBit
<1>. HIDE DEF ta, tb
<1>8. CASE last /\ SetNum(arg.a :> loc.sign * ta @@ arg.b :> loc.c_sign * tb) /\ Return
  <2>. DEFINE a == arg.a
              b == arg.b
              q == loc.sign * ta
              r == loc.c_sign * tb
  <2>1. q \in Int /\ r \in Int
    BY <1>3, <1>6
  <2>2. num' = (a :> q @@ b :> r) @@ num
    BY <1>8 DEF SetNum
  <2>3. a \in Names /\ b \in Names /\ a # b
    BY <1>1
  <2>. HIDE DEF a, b, q, r
  <2>4. num'[a] = q /\ num'[b] = r /\ Writes({a, b})
    BY <1>0, <2>1, <2>2, <2>3, StoreTwo
  <2>5. at' = "returned" /\ (loc.bit = 0 \/ tb = 0)
    BY <1>8 DEF Return, Goto
  <2>. QED
    BY <1>5, <1>6, <2>4, <2>5 DEF a, b, q, r
<1>9. CASE /\ ~ last
           /\ SetNum("ta" :> ta @@ "tb" :> tb)
           /\ SetLoc("bit" :> bit @@
                     IF loc.few THEN "tds" :> << ShiftDown(td, 1) >>
                     ELSE IF loc.i < BitsPerChar THEN "i" :> loc.i + 1
                     ELSE "i" :> 1 @@ "tds" :> Shifted(loc.tds, bit))
           /\ Goto("quotient") /\ UNCHANGED arg
  <2>1. num' = ("ta" :> ta @@ "tb" :> tb) @@ num
    BY <1>9 DEF SetNum
  <2>2. "ta" \in Names /\ "tb" \in Names /\ "ta" # "tb"
    BY DEF Names, Dedicated
  <2>3. num'["ta"] = ta /\ num'["tb"] = tb /\ Writes({"ta", "tb"})
    BY <1>0, <1>6, <2>1, <2>2, StoreTwo
  <2>4. loc.bit # 0 /\ at' = "quotient" /\ UNCHANGED <<arg, call>>
    BY <1>9 DEF Goto
  <2>5. /\ {"bit", "few", "i", "tds", "sign", "c_sign"} \subseteq DOMAIN loc'
        /\ loc'.bit = bit /\ loc'.sign = loc.sign /\ loc'.c_sign = loc.c_sign /\ loc'.few = loc.few
        /\ IF loc.few THEN loc'.i = loc.i /\ loc'.tds = << ShiftDown(td, 1) >>
           ELSE IF loc.i < BitsPerChar THEN loc'.i = loc.i + 1 /\ loc'.tds = loc.tds
           ELSE loc'.i = 1 /\ loc'.tds = Shifted(loc.tds, bit)
    <3>. HIDE DEF td, bit
    <3>1. CASE loc.few
      BY <1>3, <1>9, <3>1 DEF SetLoc, @@, :>
    <3>2. CASE ~ loc.few /\ loc.i < BitsPerChar
      BY <1>3, <1>9, <3>2 DEF SetLoc, @@, :>
    <3>3. CASE ~ loc.few /\ ~ (loc.i < BitsPerChar)
      BY <1>3, <1>9, <3>3 DEF SetLoc, @@, :>
    <3>. QED
      BY <1>3, <3>1, <3>2, <3>3
  <2>6. loc.few => loc.i = 1
    BY <1>3 DEF Shifts
  <2>7. Shifts' /\ loc'.i \in 1 .. BitsPerChar
    BY <1>2, <1>3, <2>4, <2>5, <2>6, NextShifts
  <2>. QED
    BY <1>5, <1>6, <2>3, <2>4, <2>5, <2>7
<1>10. CASE NoMemory
  BY <1>5, <1>6, <1>10 DEF NoMemory, Fail
<1>. QED
  BY <1>7, <1>8, <1>9, <1>10

(* A power is written to its destination and to the numbers libzahl has    *)
(* for the base and the modulus.                                           *)
LEMMA PowerDestination ==
  ASSUME Control, AtPower \/ at \in LimbPlaces \cup {"exponent"}
  PROVE  arg.a \in Names \ {"pow_b", "pow_d"} /\ "pow_b" \in Names /\ "pow_d" \in Names
  BY PowerParameters, NumberAssumption DEF Names, Dedicated

(* A product, taken modulo a number or not, is an integer: while powers    *)
(* are computed the modulus is not 0.                                      *)
LEMMA ProductsInt ==
  ASSUME Values, Control, at \in LimbPlaces \cup {"exponent"}, NEW b \in Int, NEW c \in Int
  PROVE  Times(b, c) \in Int
<1>1. CASE Modular
  <2>1. num["pow_d"] \in Int \ {0}
    BY <1>1 DEF Values, Modular, Names, Dedicated
  <2>. QED
    BY <1>1, <2>1, Remainder DEF Times
<1>2. CASE ~ Modular
  <2>1. Abs(b) \in Nat /\ Abs(c) \in Nat
    BY Magnitude
  <2>. QED
    BY <1>2, <2>1 DEF Times
<1>. QED
  BY <1>1, <1>2

(* A power of 0 or with an exponent of 0 or less is stored at once.        *)
LEMMA PowerOfNothingWrites ==
  ASSUME Control, Values, PowerOfNothing
  PROVE  Writes({arg.a})
<1>1. num \in [Names -> Int] /\ arg.a \in Names
  BY PowerDestination DEF Values, PowerOfNothing
<1>2. CASE NoRoomFor(arg.a)
  BY <1>1, <1>2, FailingWrites DEF NoRoomFor
<1>3. CASE SetNum(arg.a :> IF Exponent = 0 THEN 1 ELSE 0)
  <2>. DEFINE v == IF Exponent = 0 THEN 1 ELSE 0
              a == arg.a
  <2>1. v \in Int /\ num' = a :> v @@ num /\ a \in Names
    BY <1>1, <1>3 DEF SetNum
  <2>. HIDE DEF v, a
  <2>2. Writes({a})
    BY <1>1, <2>1, StoreOne
  <2>. QED
    BY <2>2 DEF a
<1>. QED
  BY <1>2, <1>3 DEF PowerOfNothing

(* The limbs of a number are limbs, and so are those of a block they are   *)
(* stored in.                                                              *)
LEMMA LimbsAreLimbs ==
  ASSUME NEW v \in Int, Values
  PROVE  \A i \in DOMAIN Overwritten(block, LimbsOf(v)) :
           Overwritten(block, LimbsOf(v))[i] \in 0 .. 2 ^ BitsPerChar - 1
<1>. DEFINE new == LimbsOf(v)
<1>1. BitsPerChar \in Nat \ {0} /\ 2 ^ BitsPerChar \in Nat \ {0}
  BY LimbAssumption, Positive
<1>2. ASSUME NEW i \in DOMAIN new PROVE new[i] \in 0 .. 2 ^ BitsPerChar - 1
  <2>1. i \in Nat \ {0} /\ new[i] = ShiftDown(v, (i - 1) * BitsPerChar) % 2 ^ BitsPerChar
    BY <1>2 DEF LimbsOf
  <2>2. (i - 1) * BitsPerChar \in Nat
    BY <1>1, <2>1
  <2>3. ShiftDown(v, (i - 1) * BitsPerChar) \in Int
    BY <2>2, Shifting
  <2>. QED
    BY <1>1, <2>1, <2>3, DivMod
<1>3. \A i \in DOMAIN block : block[i] \in 0 .. 2 ^ BitsPerChar - 1
  BY DEF Values
<1>. HIDE DEF new
<1>4. \A i \in DOMAIN Overwritten(block, new) : Overwritten(block, new)[i] \in 0 .. 2 ^ BitsPerChar - 1
  BY <1>2, <1>3 DEF Overwritten
<1>. QED
  BY <1>4 DEF new

(* A power begins with its destination, the base and the modulus, which    *)
(* is not 0, and with the limbs of the exponent.                           *)
LEMMA PreparePowerWrites ==
  ASSUME Control, Values, PreparePower
  PROVE  /\ Writes({arg.a, "pow_b", "pow_d"})
         /\ at' # "failed" => (Modular => num'["pow_d"] # 0)
         /\ \A i \in DOMAIN block' : block'[i] \in 0 .. 2 ^ BitsPerChar - 1
<1>1. /\ num \in [Names -> Int] /\ arg.a \in Names \ {"pow_b", "pow_d"}
      /\ "pow_b" \in Names /\ "pow_d" \in Names /\ AtPower
  BY PowerDestination DEF Values, PreparePower
<1>2. /\ arg.b \in Names /\ (ByNumber => arg.c \in Names) /\ (Modular => arg.d \in Names)
      /\ call \in Calls
  BY <1>1, PowerParameters
<1>3. \A i \in DOMAIN block : block[i] \in 0 .. 2 ^ BitsPerChar - 1
  BY DEF Values
<1>4. CASE NoMemory
  BY <1>1, <1>3, <1>4, StoreNone DEF NoMemory, Fail, Writes
<1>5. CASE NoRoomFor(arg.a)
  <2>1. Writes({arg.a})
    BY <1>1, <1>5, FailingWrites DEF NoRoomFor
  <2>. QED
    BY <1>3, <1>5, <2>1 DEF NoRoomFor, FailHaving, Writes
<1>6. CASE /\ SetNum(arg.a :> (IF ByNumber \/ Exponent % 2 = 0 THEN 1 ELSE Reduced)
                     @@ "pow_b" :> Reduced @@ ModulusRead)
           /\ block' = IF ByNumber THEN Overwritten(block, LimbsOf(Exponent)) ELSE block
  <2>. DEFINE a == arg.a
              v == IF ByNumber \/ Exponent % 2 = 0 THEN 1 ELSE Reduced
              w == Reduced
              m == IF Modular THEN P("d") ELSE num["pow_d"]
  <2>1. Modular => P("d") \in Int \ {0}
    BY <1>1, <1>2 DEF PreparePower, PowerError, P
  <2>2. w \in Int
    BY <1>1, <1>2, <2>1, Remainder, Magnitude DEF Reduced, P
  <2>3. v \in Int /\ m \in Int
    BY <1>1, <2>1, <2>2
  <2>4. num' = (a :> v @@ "pow_b" :> w @@ "pow_d" :> m) @@ num
    BY <1>6 DEF SetNum, ModulusRead
  <2>5. a \in Names /\ a # "pow_b" /\ a # "pow_d"
    BY <1>1
  <2>. HIDE DEF a, v, w, m
  <2>6. num'["pow_d"] = m /\ Writes({a, "pow_b", "pow_d"})
    BY <1>1, <2>2, <2>3, <2>4, <2>5, StoreThree
  <2>7. ByNumber => Exponent \in Int
    BY <1>1, <1>2 DEF Exponent, P
  <2>8. \A i \in DOMAIN block' : block'[i] \in 0 .. 2 ^ BitsPerChar - 1
    BY <1>3, <1>6, <2>7, LimbsAreLimbs
  <2>. QED
    BY <2>1, <2>6, <2>8 DEF a, m
<1>. QED
  BY <1>4, <1>5, <1>6 DEF PreparePower

(* A bit of the exponent changes the destination and the square.           *)
LEMMA SquaringWrites ==
  ASSUME Control, Values, MultiplyAndSquare \/ SquareAndMultiply
  PROVE  Writes({arg.a, "pow_b"})
<1>1. /\ num \in [Names -> Int] /\ arg.a \in Names \ {"pow_b", "pow_d"}
      /\ "pow_b" \in Names /\ at \in LimbPlaces \cup {"exponent"}
  BY PowerDestination DEF Values, MultiplyAndSquare, SquareAndMultiply, LimbPlaces
<1>2. P("a") \in Int /\ num["pow_b"] \in Int
  BY <1>1 DEF P
<1>3. CASE NoMemory
  BY <1>1, <1>3, StoreNone DEF NoMemory, Fail, Writes
<1>4. CASE NoRoomFor(arg.a)
  <2>1. Writes({arg.a})
    BY <1>1, <1>4, FailingWrites DEF NoRoomFor
  <2>. QED
    BY <2>1 DEF Writes
<1>. DEFINE a == arg.a
            b == num["pow_b"]
            square == Times(b, b)
            multiplied == IF loc.x % 2 = 1 THEN Times(P("a"), b) ELSE P("a")
            rest == loc.x \div 2
            squared == IF rest % 2 = 1 THEN Times(P("a"), square) ELSE P("a")
<1>5. square \in Int /\ multiplied \in Int /\ a \in Names /\ a # "pow_b"
  BY <1>1, <1>2, ProductsInt
<1>6. squared \in Int
  BY <1>1, <1>2, <1>5, ProductsInt
<1>7. CASE SetNum(a :> multiplied @@ "pow_b" :> square)
  <2>1. num' = (a :> multiplied @@ "pow_b" :> square) @@ num
    BY <1>7 DEF SetNum
  <2>. HIDE DEF a, multiplied, square
  <2>2. Writes({a, "pow_b"})
    BY <1>1, <1>5, <2>1, StoreTwo
  <2>. QED
    BY <2>2 DEF a
<1>8. CASE SetNum("pow_b" :> square @@ a :> squared)
  <2>1. num' = ("pow_b" :> square @@ a :> squared) @@ num
    BY <1>8 DEF SetNum
  <2>. HIDE DEF a, squared, square
  <2>2. Writes({"pow_b", a})
    BY <1>1, <1>5, <1>6, <2>1, StoreTwo
  <2>. QED
    BY <2>2 DEF a, Writes
<1>. QED
  BY <1>3, <1>4, <1>7, <1>8 DEF MultiplyAndSquare, SquareAndMultiply

(* At the end of a power its sign is stored.                               *)
LEMMA PowerDoneWrites ==
  ASSUME Control, Values, PowerDone
  PROVE  Writes({arg.a})
<1>1. num \in [Names -> Int] /\ arg.a \in Names
  BY PowerDestination DEF Values, PowerDone, LimbPlaces
<1>. DEFINE v == IF loc.neg THEN - P("a") ELSE P("a")
            a == arg.a
<1>2. v \in Int /\ num' = a :> v @@ num /\ a \in Names
  BY <1>1 DEF SetNum, P, PowerDone
<1>. HIDE DEF v, a
<1>3. Writes({a})
  BY <1>1, <1>2, StoreOne
<1>. QED
  BY <1>3 DEF a

(* All that powers write.                                                  *)
LEMMA RaisingWrites ==
  ASSUME Control, Values, Raising
  PROVE  Writes({arg.a, "pow_b", "pow_d"})
<1>1. CASE PowerFails \/ NextLimb \/ LimbDone
  <2>1. UNCHANGED num /\ num \in [Names -> Int]
    BY <1>1 DEF PowerFails, NextLimb, LimbDone, Fail, Values
  <2>. QED
    BY <2>1, StoreNone DEF Writes
<1>2. CASE PowerOfNothing
  BY <1>2, PowerOfNothingWrites DEF Writes
<1>3. CASE PreparePower
  BY <1>3, PreparePowerWrites
<1>4. CASE MultiplyAndSquare \/ SquareAndMultiply
  BY <1>4, SquaringWrites DEF Writes
<1>5. CASE PowerDone
  BY <1>5, PowerDoneWrites DEF Writes
<1>. QED
  BY <1>1, <1>2, <1>3, <1>4, <1>5 DEF Raising

(* The parameters of zgcd and of zrand stay those of the program.          *)
LEMMA OwnParameters ==
  ASSUME Control, at \in {"zgcd", "gcd", "zrand", "draw", "drawn"}
  PROVE  /\ call \in Calls /\ arg = call.arg
         /\ call.fn = IF at \in {"zgcd", "gcd"} THEN "zgcd" ELSE "zrand"
         /\ arg.a \in Reg /\ arg.b \in Reg /\ (call.fn = "zgcd" => arg.c \in Reg)
         /\ Reg \subseteq Names
<1>1. call \in Calls /\ Caller /\ Arguments
  BY DEF Control
<1>2. call.fn = IF at \in {"zgcd", "gcd"} THEN "zgcd" ELSE "zrand"
  BY <1>1 DEF Caller, Functions
<1>3. arg = call.arg
  BY <1>1, <1>2 DEF Arguments, Outside, DivisionPlaces
<1>. QED
  BY <1>1, <1>2, <1>3, CallIs DEF Parameters, Names

(* Shifted down to its lowest bit a number is positive.                    *)
LEMMA OddPositive ==
  ASSUME NEW v \in Int \ {0}
  PROVE  ShiftDown(Abs(v), Lsb(v)) \in Nat \ {0}
<1>. DEFINE w == ShiftDown(Abs(v), Lsb(v))
<1>1. w \in Nat /\ w % 2 = 1
  BY OddAndPower
<1>. HIDE DEF w
<1>2. w # 0
  BY <1>1
<1>. QED
  BY <1>1, <1>2 DEF w

(* A subtraction in zgcd keeps what was shifted out and the sign.          *)
LEMMA ShiftsKept ==
  ASSUME Values, SubtractAndShift
  PROVE  LET swap == num["u"] > num["v"]
             u    == IF swap THEN "v" ELSE "u"
             v    == IF swap THEN "u" ELSE "v"
         IN  /\ GcdLocals \subseteq DOMAIN loc'
             /\ loc'.shifts = loc.shifts /\ loc'.neg = loc.neg
             /\ loc'.loan = (loc.loan \/ InnerLenders(num[v], num[u]) # {})
<1>. DEFINE swap == num["u"] > num["v"]
            u    == IF swap THEN "v" ELSE "u"
            v    == IF swap THEN "u" ELSE "v"
            loan == loc.loan \/ InnerLenders(num[v], num[u]) # {}
            f    == "loan" :> loan
<1>1. loc' = f @@ loc /\ GcdLocals \subseteq DOMAIN loc
  BY DEF SubtractAndShift, SetLoc, Values
<1>. HIDE DEF loan
<1>2. DOMAIN f = {"loan"} /\ f["loan"] = loan
  BY DEF :>
<1>. HIDE DEF f
<1>. QED
  BY <1>1, <1>2 DEF @@, GcdLocals, loan

(* The greatest common divisor is developed in two numbers of libzahl.     *)
LEMMA GcdWrites ==
  ASSUME Control, Values, Gcd
  PROVE  /\ Writes({arg.a, "u", "v"})
         /\ at' = "gcd" => /\ GcdLocals \subseteq DOMAIN loc' /\ loc'.shifts \in Nat
                           /\ Writes({"u", "v"})
                           /\ num'["u"] \in Nat \ {0} /\ num'["v"] \in Nat \ {0}
<1>0. num \in [Names -> Int] /\ at \in {"zgcd", "gcd"}
  BY DEF Values, Gcd, GcdOfNothing, PrepareGcd, SubtractAndShift, GcdDone
<1>1. arg.a \in Names /\ arg.b \in Names /\ arg.c \in Names
  BY <1>0, OwnParameters
<1>2. "u" \in Names /\ "v" \in Names
  BY DEF Names, Dedicated
<1>3. CASE NoRoomFor(arg.a)
  <2>1. Writes({arg.a})
    BY <1>0, <1>1, <1>3, FailingWrites DEF NoRoomFor
  <2>. QED
    BY <1>3, <2>1 DEF NoRoomFor, FailHaving, Writes
<1>4. CASE NoMemory
  BY <1>0, <1>4, StoreNone DEF NoMemory, Fail, Writes
<1>5. CASE GcdOfNothing /\ ~ NoRoomFor(arg.a)
  <2>. DEFINE a == arg.a
              w == IF P("b") = 0 THEN P("c") ELSE P("b")
  <2>1. w \in Int /\ a \in Names
    BY <1>0, <1>1 DEF P
  <2>2. num' = a :> w @@ num /\ at' = "returned"
    BY <1>5 DEF GcdOfNothing, SetNum, Return, Goto
  <2>. HIDE DEF w, a
  <2>3. Writes({a})
    BY <1>0, <2>1, <2>2, StoreOne
  <2>. QED
    BY <2>2, <2>3 DEF a, Writes
<1>6. CASE PrepareGcd /\ ~ NoMemory
  <2>. DEFINE u == ShiftDown(Abs(P("b")), Lsb(P("b")))
              v == ShiftDown(Abs(P("c")), Lsb(P("c")))
  <2>1. P("b") \in Int \ {0} /\ P("c") \in Int \ {0}
    BY <1>0, <1>1, <1>6 DEF P, PrepareGcd
  <2>2. Lsb(P("b")) \in Nat /\ Lsb(P("c")) \in Nat
    BY <2>1, LsbOf
  <2>3. u \in Nat \ {0} /\ v \in Nat \ {0}
    BY <2>1, OddPositive
  <2>4. num' = ("u" :> u @@ "v" :> v) @@ num
    BY <1>6 DEF PrepareGcd, SetNum
  <2>. HIDE DEF u, v
  <2>5. Writes({"u", "v"}) /\ num'["u"] = u /\ num'["v"] = v
    <3>1. num \in [Names -> Int] /\ "u" \in Names /\ "v" \in Names /\ u \in Int /\ v \in Int
      BY <1>0, <1>2, <2>3
    <3>. QED
      BY ONLY <2>4, <3>1, StoreTwo
  <2>6. loc'.shifts = CommonZeros(P("b"), P("c")) /\ GcdLocals \subseteq DOMAIN loc'
    BY <1>6 DEF PrepareGcd, SetLoc, @@, GcdLocals
  <2>. QED
    BY <2>2, <2>3, <2>5, <2>6 DEF Writes, CommonZeros, Min2
<1>7. CASE SubtractAndShift
  <2>. DEFINE swap == num["u"] > num["v"]
              u    == IF swap THEN "v" ELSE "u"
              v    == IF swap THEN "u" ELSE "v"
              i    == num[u]
              j    == num[v]
  <2>1. i \in Nat \ {0} /\ j \in Nat /\ i < j
    BY <1>7 DEF SubtractAndShift, Values
  <2>2. PICK rest \in Differences(j, i) :
          num' = ("u" :> i @@ "v" :> ShiftDown(rest, Lsb(rest))) @@ num
    BY <1>7 DEF SubtractAndShift, SetNum
  <2>. DEFINE shifted == ShiftDown(rest, Lsb(rest))
  <2>. HIDE DEF u, v, i, j
  <2>3. rest \in Nat \ {0}
    BY <2>1, <2>2, DifferencesOf
  <2>4. shifted \in Nat \ {0}
    BY <2>3, OddPositive, Magnitude
  <2>. HIDE DEF shifted
  <2>5. Writes({"u", "v"}) /\ num'["u"] = i /\ num'["v"] = shifted
    <3>1. num' = ("u" :> i @@ "v" :> shifted) @@ num
      BY <2>2 DEF shifted
    <3>2. num \in [Names -> Int] /\ "u" \in Names /\ "v" \in Names /\ i \in Int /\ shifted \in Int
      BY <1>0, <1>2, <2>1, <2>4
    <3>. QED
      BY ONLY <3>1, <3>2, StoreTwo
  <2>6. at = "gcd" /\ loc'.shifts = loc.shifts /\ GcdLocals \subseteq DOMAIN loc'
    BY <1>7, ShiftsKept DEF SubtractAndShift
  <2>7. loc'.shifts \in Nat
    BY <2>6 DEF Values
  <2>. QED
    BY <2>1, <2>4, <2>5, <2>6, <2>7 DEF Writes
<1>8. CASE GcdDone /\ ~ NoRoomFor(arg.a)
  <2>. DEFINE a == arg.a
              s == IF loc.neg THEN -1 ELSE 1
              p == 2 ^ loc.shifts
              w == s * num["u"] * p
  <2>1. p \in Int
    BY <1>8, Positive DEF Values, GcdDone
  <2>2. w \in Int /\ a \in Names
    BY <1>0, <1>1, <1>2, <2>1
  <2>3. num' = a :> w @@ num /\ at' = "returned"
    BY <1>8 DEF GcdDone, SetNum
  <2>. HIDE DEF w, a
  <2>4. Writes({a})
    BY <1>0, <2>2, <2>3, StoreOne
  <2>. QED
    BY <2>3, <2>4 DEF a, Writes
<1>. QED
  BY <1>3, <1>4, <1>5, <1>6, <1>7, <1>8 DEF Gcd, GcdOfNothing, PrepareGcd, GcdDone

(* What zrand stores.                                                      *)
LEMMA DrawingWrites ==
  ASSUME Control, Values, Drawing
  PROVE  /\ Writes({arg.a})
         /\ at' = "draw" => /\ loc'.bits = IF at = "zrand" THEN Bits(P("b")) ELSE loc.bits
                            /\ at = "zrand" => P("b") > 0 /\ UNCHANGED num
<1>0. num \in [Names -> Int] /\ at \in {"zrand", "draw", "drawn"}
  BY DEF Values, Drawing, PrepareRandom, DrawAgain, DrawInRange, DrawFails, RandomDone
<1>1. arg.a \in Names /\ arg.b \in Names /\ P("b") \in Int /\ P("a") \in Int
  BY <1>0, OwnParameters DEF P
<1>2. ASSUME NEW e, FailHaving(arg.a, e) PROVE Writes({arg.a}) /\ at' = "failed"
  BY <1>0, <1>1, <1>2, FailingWrites DEF FailHaving
<1>3. ASSUME NEW v \in Int, SetNum(arg.a :> v) PROVE Writes({arg.a})
  BY <1>0, <1>1, <1>3, StoreOne DEF SetNum
<1>4. ASSUME UNCHANGED num PROVE Writes({arg.a})
  BY <1>0, <1>4, StoreNone DEF Writes
<1>5. CASE PrepareRandom
  <2>1. CASE P("b") = 0 /\ SetNum(arg.a :> 0) /\ Return
    BY <1>3, <2>1 DEF Return, Goto
  <2>2. CASE \E e \in {"EINVAL", "open"} : Fail(e)
    BY <1>4, <2>2 DEF Fail
  <2>3. CASE at' = "failed" /\ UNCHANGED num
    BY <1>4, <2>3
  <2>4. CASE at' = "draw" /\ P("b") # 0 /\ ~ (P("b") < 0) /\ SetLoc([bits |-> Bits(P("b"))]) /\ UNCHANGED num
    <3>1. loc'.bits = Bits(P("b"))
      BY <2>4 DEF SetLoc, @@
    <3>. QED
      BY <1>1, <1>4, <1>5, <2>4, <3>1 DEF PrepareRandom
  <2>. QED
    BY <1>5, <2>1, <2>2, <2>3, <2>4 DEF PrepareRandom
<1>6. CASE DrawAgain \/ DrawInRange
  <2>1. PICK r \in Drawable(loc.bits) : SetNum(arg.a :> r)
    BY <1>6 DEF DrawAgain, DrawInRange
  <2>2. r \in Int
    BY DEF Drawable
  <2>3. at = "draw" /\ UNCHANGED loc
    BY <1>6 DEF DrawAgain, DrawInRange
  <2>. QED
    BY <1>3, <2>1, <2>2, <2>3
<1>7. CASE DrawFails
  BY <1>2, <1>7 DEF DrawFails, NoRoomFor
<1>8. CASE RandomDone
  <2>1. CASE NoRoomFor(arg.a)
    BY <1>2, <2>1 DEF NoRoomFor
  <2>2. CASE ~ NoRoomFor(arg.a)
    <3>. DEFINE r     == P("a")
                scale == IF arg.a = arg.b THEN r + 1 ELSE P("b")
                scaled == ShiftDown((r + 1) * scale, loc.bits)
                v == CASE call.dist = "UNIFORM" -> r
                       [] call.dist = "QUASIUNIFORM" -> scaled
                       [] OTHER -> IF OutOfRange(r) THEN r - P("b") ELSE r
    <3>1. at = "drawn" /\ at' = "returned" /\ SetNum(arg.a :> v)
      BY <1>8, <2>2 DEF RandomDone
    <3>2. loc.bits \in Nat
      <4>1. Was("b") \in Int /\ loc.bits = Bits(Was("b"))
        <5>1. call \in Calls /\ call.fn = "zrand" /\ call.arg.b \in Reg
          BY <3>1, OwnParameters
        <5>. QED
          BY <3>1, <5>1, CallIs DEF Values, Was
      <4>. QED
        BY <4>1, BitsOf
    <3>3. (r + 1) * scale \in Int
      BY <1>1
    <3>4. scaled \in Int
      BY <3>2, <3>3, Shifting
    <3>. HIDE DEF scaled
    <3>5. v \in Int
      BY <1>1, <3>4
    <3>. HIDE DEF v
    <3>6. Writes({arg.a})
      BY <1>3, <3>1, <3>5
    <3>. QED
      BY <3>1, <3>6
  <2>. QED
    BY <2>1, <2>2
<1>. QED
  BY <1>5, <1>6, <1>7, <1>8 DEF Drawing

(* What is left of an odd number greater than 3 when 4 is taken away.      *)
LEMMA FourTaken ==
  ASSUME NEW q \in Int, q > 3, q % 2 = 1, NEW n \in Differences(q, 4)
  PROVE  n \in Nat \ {0} /\ n <= q - 4
<1>1. q \in Nat /\ 4 < q
  <2>1. q # 4
    OBVIOUS
  <2>. QED
    BY <2>1
<1>. QED
  BY <1>1, DifferencesOf

(* zptest works with numbers of libzahl, and stores a witness at the end.  *)
LEMMA TestingWrites ==
  ASSUME Control, Values, Unstored, Testing
  PROVE  /\ call \in Calls /\ call.fn = "zptest"
         /\ at' \notin Outside => Writes({"n1", "n4", "d", "a", "x"})
         /\ at' \in Outside => IF call.arg.a = Null THEN Writes({})
                               ELSE call.arg.a \in Reg /\ Writes({call.arg.a})
         /\ at' \in TestPlaces \cup {"zmodpow"} => Was("b") > 3 \/ (at = "zptest" /\ Questioned > 3)
<1>0. num \in [Names -> Int] /\ at \in TestPlaces \cup {"zptest"}
  BY DEF Values, Testing, TestSmallOrEven, PrepareTest, Round, Tested, TestSquare, TestPlaces
<1>1. call \in Calls /\ call.fn = "zptest"
  BY <1>0 DEF Control, Caller, TestPlaces, Functions
<1>2. /\ call.arg.b \in Reg /\ call.arg.a \in Reg \cup {Null} /\ Reg \subseteq Names
      /\ Was("b") \in Int
  BY <1>1, CallIs DEF Parameters, Names, Was
<1>3. Questioned = Was("b")
  BY <1>0, <1>1, <1>2 DEF Questioned, Unstored, Stored, Was, Outside, TestPlaces
<1>4. {"n1", "n4", "d", "a", "x"} \subseteq Names
  BY DEF Names, Dedicated
<1>5. at # "zptest" => Was("b") > 3
  BY <1>0, <1>1 DEF Values, InTest
<1>6. ASSUME NEW w \in Int, Witnessed(w)
      PROVE  IF call.arg.a = Null THEN Writes({})
             ELSE call.arg.a \in Reg /\ Writes({call.arg.a})
  <2>1. CASE call.arg.a = Null
    BY <1>0, <1>6, <2>1, StoreNone DEF Witnessed, Witness
  <2>2. CASE call.arg.a # Null
    <3>1. num' = call.arg.a :> w @@ num /\ call.arg.a \in Names
      BY <1>2, <1>6, <2>2 DEF Witnessed, Witness, SetNum
    <3>. QED
      BY <1>0, <1>2, <2>2, <3>1, StoreOne
  <2>. QED
    BY <2>1, <2>2
<1>7. ASSUME UNCHANGED num
      PROVE  /\ Writes({"n1", "n4", "d", "a", "x"})
             /\ IF call.arg.a = Null THEN Writes({})
                ELSE call.arg.a \in Reg /\ Writes({call.arg.a})
  BY <1>0, <1>2, <1>7, StoreNone DEF Writes
<1>8. CASE NoMemory
  BY <1>1, <1>7, <1>8 DEF NoMemory, Fail, Outside, TestPlaces
<1>9. CASE TestSmallOrEven
  <2>1. at' \in {"returned", "failed"}
    BY <1>9 DEF TestSmallOrEven, Answer, NoRoomFor, FailHaving
  <2>2. CASE Witness # Null /\ NoRoomFor(Witness)
    <3>1. call.arg.a \in Names /\ call.arg.a # Null /\ FailHaving(call.arg.a, "ENOMEM")
      BY <1>2, <2>2 DEF Witness, NoRoomFor
    <3>. QED
      BY <1>0, <1>1, <1>2, <2>1, <3>1, FailingWrites DEF Outside, TestPlaces
  <2>3. CASE UNCHANGED num
    BY <1>1, <1>7, <2>1, <2>3 DEF Outside, TestPlaces
  <2>4. CASE Witnessed(IF Questioned <= 3 THEN Questioned ELSE 2)
    <3>. DEFINE w == IF Questioned <= 3 THEN Questioned ELSE 2
    <3>1. w \in Int
      BY <1>2, <1>3
    <3>. HIDE DEF w
    <3>. QED
      BY <1>1, <1>6, <2>1, <2>4, <3>1 DEF Outside, TestPlaces, w
  <2>. QED
    BY <1>9, <2>2, <2>3, <2>4 DEF TestSmallOrEven
<1>10. CASE PrepareTest /\ ~ NoMemory
  <2>. DEFINE q == Questioned
              w == ShiftDown(q - 1, Lsb(q - 1))
              m == q - 1
  <2>1. q > 3 /\ q \in Int /\ q % 2 = 1 /\ at' = "round" /\ at = "zptest"
    BY <1>2, <1>3, <1>10 DEF PrepareTest, Goto
  <2>2. w \in Int /\ m \in Int
    BY <2>1, LsbOf, Shifting
  <2>3. PICK n \in Differences(q, 4) : num' = ("n1" :> m @@ "n4" :> n @@ "d" :> w) @@ num
    BY <1>10 DEF PrepareTest, SetNum
  <2>5. n \in Int
    BY <2>1, <2>3, FourTaken
  <2>. HIDE DEF w, m
  <2>4. Writes({"n1", "n4", "d"})
    BY <1>0, <1>4, <2>2, <2>3, <2>5, StoreThree
  <2>. QED
    BY <1>1, <2>1, <2>4 DEF Writes, Outside
<1>11. CASE Round /\ ~ NoMemory
  <2>1. CASE Answer("PROBABLY_PRIME") /\ UNCHANGED num
    BY <1>1, <1>7, <2>1 DEF Answer, Outside, TestPlaces
  <2>2. CASE \E r \in Drawable(Bits(num["n4"])) : SetNum("a" :> r + 2) /\ Goto("zmodpow")
    <3>1. PICK r \in Drawable(Bits(num["n4"])) : num' = "a" :> r + 2 @@ num
      BY <2>2 DEF SetNum
    <3>2. r + 2 \in Int
      BY DEF Drawable
    <3>3. Writes({"a"})
      BY <1>0, <1>4, <3>1, <3>2, StoreOne
    <3>. QED
      BY <1>1, <1>5, <1>11, <2>2, <3>3 DEF Writes, Goto, Outside, Round
  <2>. QED
    BY <1>11, <2>1, <2>2 DEF Round
<1>12. CASE Tested
  BY <1>1, <1>5, <1>7, <1>12 DEF Tested, Goto, Outside
<1>13. CASE TestSquare /\ ~ NoMemory
  <2>. DEFINE next == Rem(num["x"] * num["x"], Questioned)
  <2>1. next \in Int
    BY <1>0, <1>2, <1>3, <1>4, <1>5, <1>13, Remainder DEF TestSquare
  <2>2. CASE Composite
    BY <1>0, <1>1, <1>4, <1>6, <2>2 DEF Composite, Answer, Outside, TestPlaces
  <2>3. CASE SetNum("x" :> next) /\ at' \in {"round", "square"}
    <3>1. num' = "x" :> next @@ num
      BY <2>3 DEF SetNum
    <3>. HIDE DEF next
    <3>2. Writes({"x"})
      BY <1>0, <1>4, <2>1, <3>1, StoreOne
    <3>. QED
      BY <1>1, <1>5, <1>13, <2>3, <3>2 DEF Writes, Outside, TestSquare
  <2>. QED
    BY <1>13, <2>2, <2>3 DEF TestSquare, Goto
<1>. QED
  BY <1>8, <1>9, <1>10, <1>11, <1>12, <1>13 DEF Testing

-----------------------------------------------------------------------------
(* What a function leaves alone.                                           *)

(* A function that goes on has stored in its destination at most.          *)
LEMMA GoesOn ==
  ASSUME Unstored, UNCHANGED call, at \notin Outside, at' \notin Outside, Stored => Stored',
         \A n \in Reg : num'[n] = num[n] \/ (Stored' /\ n = call.arg.a)
  PROVE  Unstored'
<1>1. OthersUntouched'
  BY DEF OthersUntouched, Outside
<1>2. \A n \in Reg : num'[n] = call'.val[n] \/ (Stored' /\ n = call'.arg.a)
  BY DEF Unstored
<1>. QED
  BY <1>1, <1>2 DEF Unstored

(* A function that returns has stored in its destinations at most.         *)
LEMMA GoesBack ==
  ASSUME Unstored, UNCHANGED call, at \notin Outside, at' = "returned",
         \A n \in Reg \ Destinations : num'[n] = num[n]
  PROVE  Unstored'
<1>1. call.arg.a \in Destinations
  BY DEF Destinations
<1>2. Destinations' = Destinations
  BY DEF Destinations
<1>3. \A n \in Reg : num'[n] = call.val[n] \/ n \in Destinations
  BY <1>1 DEF Unstored
<1>4. OthersUntouched'
  BY <1>2, <1>3 DEF OthersUntouched
<1>. QED
  BY <1>4 DEF Unstored, Outside

(* A function that fails has stored in its destinations at most, and a     *)
(* division in none unless there was little to divide.                     *)
LEMMA FailsThere ==
  ASSUME Control, Unstored, UNCHANGED call, at \notin Outside, at' = "failed",
         \A n \in Reg \ Destinations : num'[n] = num[n],
         call.fn \in {"zdivmod", "zdiv", "zmod"} =>
           \/ \A n \in Reg : num'[n] = num[n]
           \/ result' = "ENOMEM" /\ ~ (Abs(Dividend) > Abs(Divisor))
  PROVE  Unstored'
<1>1. call.arg.a \in Destinations
  BY DEF Destinations
<1>2. Destinations' = Destinations /\ Dividend' = Dividend /\ Divisor' = Divisor
  BY DEF Destinations, Dividend, Divisor, Was
<1>3. \A n \in Reg : num'[n] = call.val[n] \/ n \in Destinations
  BY <1>1 DEF Unstored
<1>4. AllOrNothing' => \A n \in Reg : num'[n] = call.val[n]
  <2>. SUFFICES ASSUME AllOrNothing' PROVE \A n \in Reg : num'[n] = call.val[n]
    OBVIOUS
  <2>1. call.fn \in {"zdivmod", "zdiv", "zmod"}
    BY DEF AllOrNothing
  <2>2. result' # "ENOMEM" \/ Abs(Dividend) > Abs(Divisor)
    BY <1>2 DEF AllOrNothing
  <2>3. \A n \in Reg : num'[n] = num[n]
    BY <2>1, <2>2
  <2>4. ~ Stored
    BY <2>1 DEF Control, Caller, Stored, LimbPlaces, Outside
  <2>. QED
    BY <2>3, <2>4 DEF Unstored
<1>5. OthersUntouched'
  BY <1>2, <1>3, <1>4 DEF OthersUntouched
<1>. QED
  BY <1>5 DEF Unstored, Outside

(* Divisions leave alone what is not theirs.                               *)
LEMMA UnstoredDividing ==
  ASSUME Control, Values, Unstored, Division, Dividing
  PROVE  Unstored'
<1>0. UNCHANGED call /\ at \notin Outside /\ Reg \subseteq Names
  BY DEF Dividing, ZdivZmod, ModMultiply, DivideByZero, DivideSmall, DivideLong, QuotientBit,
         Goto, Return, Fail, NoMemory, NoRoomFor, FailHaving, Outside, Names
<1>1. CASE ZdivZmod
  <2>1. at' = "zdivmod" /\ UNCHANGED num
    BY <1>1 DEF ZdivZmod, Goto
  <2>2. ~ Stored
    BY <1>1 DEF ZdivZmod, Stored, DivisionPlaces, LimbPlaces
  <2>. QED
    BY <1>0, <2>1, <2>2, GoesOn DEF Outside
<1>2. CASE ModMultiply
  <2>1. at \in {"zmodmul", "zmodsqr"}
    BY <1>2 DEF ModMultiply
  <2>2. /\ call.fn = at /\ arg = call.arg /\ call.arg.a \in Reg
        /\ call.arg.b \in Reg /\ call.arg.c \in Reg
        /\ call \in Calls
    BY <2>1, Called DEF Functions, Parameters
  <2>3. Destinations = { call.arg.a }
    BY <2>1, <2>2 DEF Destinations
  <2>4. ~ Stored
    BY <2>1 DEF Stored, DivisionPlaces, LimbPlaces
  <2>5. CASE at' = "zdivmod" /\ Writes({arg.a, "modmul"})
    <3>1. "modmul" \notin Reg
      BY NumberAssumption DEF Dedicated
    <3>2. Stored'
      BY <1>0, <2>1, <2>2, <2>5 DEF Stored, DivisionPlaces
    <3>. QED
      BY <1>0, <2>2, <2>5, <3>1, <3>2, GoesOn DEF Writes, Outside
  <2>6. CASE /\ at' = "failed" /\ Writes({arg.a, arg.b, arg.c})
             /\ \A n \in Names \ {arg.a} : num'[n] # num[n] => at = "zmodmul" /\ num'[n] = Abs(num[n])
    <3>1. \A n \in Reg : num[n] = call.val[n]
      BY <1>0, <2>4 DEF Unstored
    <3>2. ~ AllOrNothing'
      BY <1>0, <2>1, <2>2 DEF AllOrNothing
    <3>3. Destinations' = Destinations
      BY <1>0 DEF Destinations
    <3>4. OthersUntouched'
      <4>. SUFFICES ASSUME NEW n \in Reg, n # call.arg.a, num'[n] # call.val[n]
                    PROVE  /\ call.fn = "zmodmul" /\ n \in {call.arg.b, call.arg.c}
                           /\ num'[n] = Abs(call.val[n])
        BY <1>0, <2>3, <2>6, <3>2, <3>3 DEF OthersUntouched
      <4>. QED
        BY <1>0, <2>2, <2>6, <3>1 DEF Writes
    <3>. QED
      BY <2>6, <3>4 DEF Unstored, Outside
  <2>. QED
    BY <1>2, <2>5, <2>6, ModMultiplyWrites
<1>3. CASE at \in DivisionPlaces
  <2>1. /\ \A p \in {"a", "b", "c", "d"} : arg[p] \in Names \ {"ta", "tb"}
        /\ arg.a \in Reg => arg.a \in Destinations
        /\ arg.b \in Reg => arg.b \in Destinations
    BY <1>3, DivisionParameters
  <2>2. "ta" \notin Reg /\ "tb" \notin Reg
    BY NumberAssumption DEF Dedicated
  <2>3. CASE at' = "failed" /\ UNCHANGED num
    BY <1>0, <2>3, FailsThere
  <2>4. CASE at' = "returned" /\ Writes({arg.a, arg.b})
    <3>1. \A n \in Reg \ Destinations : num'[n] = num[n]
      BY <1>0, <2>1, <2>4 DEF Writes
    <3>. QED
      BY <1>0, <2>4, <3>1, GoesBack
  <2>5. CASE at' = "quotient" /\ Writes({"ta", "tb"})
    <3>1. Stored => Stored'
      BY <1>0, <1>3, <2>5 DEF Stored, DivisionPlaces, LimbPlaces
    <3>2. \A n \in Reg : num'[n] = num[n]
      BY <1>0, <2>2, <2>5 DEF Writes
    <3>. QED
      BY <1>0, <2>5, <3>1, <3>2, GoesOn DEF Outside
  <2>6. CASE at' = "failed" /\ DivideSmall
    <3>1. /\ Abs(P("c")) <= Abs(P("d")) /\ result' = "ENOMEM" /\ Writes({arg.a, arg.b})
      BY <2>6, DivideSmallWrites
    <3>2. \A n \in Reg \ Destinations : num'[n] = num[n]
      BY <1>0, <2>1, <3>1 DEF Writes
    <3>3. P("c") = Numerator /\ P("d") = Denominator
      BY <1>3 DEF Division
    <3>4. call.fn \in {"zdivmod", "zdiv", "zmod"} => Dividend = Numerator /\ Divisor = Denominator
      BY DEF Dividend, Divisor, Numerator, Denominator
    <3>5. P("c") \in Int /\ P("d") \in Int
      BY <2>1 DEF Values, P
    <3>6. Abs(P("c")) \in Nat /\ Abs(P("d")) \in Nat
      BY <3>5, Magnitude
    <3>7. call.fn \in {"zdivmod", "zdiv", "zmod"} => ~ (Abs(Dividend) > Abs(Divisor))
      BY <3>1, <3>3, <3>4, <3>6
    <3>. QED
      BY <1>0, <2>6, <3>1, <3>2, <3>7, FailsThere
  <2>7. CASE DivideByZero
    BY <2>3, <2>7 DEF DivideByZero, Fail
  <2>8. CASE DivideSmall
    BY <2>4, <2>6, <2>8, DivideSmallWrites
  <2>9. CASE DivideLong
    BY <2>3, <2>5, <2>9, DivideLongWrites
  <2>10. CASE QuotientBit
    BY <2>3, <2>4, <2>5, <2>10, QuotientBitWrites
  <2>. QED
    BY <1>1, <1>2, <2>7, <2>8, <2>9, <2>10 DEF Dividing
<1>. QED
  BY <1>1, <1>2, <1>3
     DEF Dividing, DivideByZero, DivideSmall, DivideLong, QuotientBit, DivisionPlaces

(* Powers leave alone what is not theirs.                                  *)
LEMMA UnstoredRaising ==
  ASSUME Control, Values, Unstored, Raising
  PROVE  Unstored'
<1>1. /\ UNCHANGED call /\ (AtPower \/ at \in LimbPlaces \cup {"exponent"})
      /\ \/ at' \in LimbPlaces \cup {"exponent", "returned", "failed"}
         \/ at' = "tested" /\ call.fn = "zptest"
  BY DEF Raising, PowerFails, PowerOfNothing, PreparePower, NextLimb, MultiplyAndSquare, LimbDone,
         SquareAndMultiply, PowerDone, PowerReturns, Goto, Fail, NoMemory, NoRoomFor, FailHaving, LimbPlaces
<1>2. Writes({arg.a, "pow_b", "pow_d"})
  BY RaisingWrites
<1>3. /\ call \in Calls
      /\ \/ call.fn = "zptest" /\ arg.a = "x"
         \/ call.fn # "zptest" /\ arg.a = call.arg.a /\ arg.a \in Reg
  BY <1>1, PowerParameters
<1>4. {"x", "pow_b", "pow_d"} \cap Reg = {} /\ Reg \subseteq Names
  BY NumberAssumption DEF Dedicated, Names
<1>5. \A n \in Reg : num'[n] = num[n] \/ (call.fn # "zptest" /\ n = call.arg.a)
  BY <1>2, <1>3, <1>4 DEF Writes
<1>6. at \notin Outside
  BY <1>1 DEF AtPower, LimbPlaces, Outside
<1>7. call.fn \notin Divisions
  BY <1>1 DEF Control, Caller, AtPower, LimbPlaces, Functions, Divisions
<1>8. call.arg.a \in Destinations
  BY DEF Destinations
<1>9. CASE at' = "returned"
  BY <1>1, <1>5, <1>6, <1>8, <1>9, GoesBack
<1>10. CASE at' = "failed"
  BY <1>1, <1>5, <1>6, <1>7, <1>8, <1>10, FailsThere DEF Divisions
<1>11. CASE at' \notin {"returned", "failed"}
  <2>1. at' \notin Outside
    BY <1>1, <1>11 DEF LimbPlaces, Outside
  <2>2. call.fn # "zptest" => Stored'
    BY <1>1, <1>11 DEF Stored
  <2>3. Stored => call.fn # "zptest"
    BY DEF Stored
  <2>. QED
    BY <1>1, <1>5, <1>6, <2>1, <2>2, <2>3, GoesOn
<1>. QED
  BY <1>9, <1>10, <1>11

(* zgcd leaves alone what is not its own.                                  *)
LEMMA UnstoredGcd ==
  ASSUME Control, Values, Unstored, Gcd
  PROVE  Unstored'
<1>1. UNCHANGED call /\ at \in {"zgcd", "gcd"} /\ at' \in {"gcd", "returned", "failed"}
  BY DEF Gcd, GcdOfNothing, PrepareGcd, SubtractAndShift, GcdDone, Return, Goto, NoMemory, Fail,
         NoRoomFor, FailHaving
<1>2. call \in Calls /\ call.fn = "zgcd" /\ arg.a = call.arg.a /\ Reg \subseteq Names
  BY <1>1, OwnParameters
<1>3. {"u", "v"} \cap Reg = {} /\ call.arg.a \in Destinations
  BY NumberAssumption DEF Dedicated, Destinations
<1>4. \A n \in Reg \ Destinations : num'[n] = num[n]
  BY <1>2, <1>3, GcdWrites DEF Writes
<1>5. CASE at' = "gcd"
  <2>1. \A n \in Reg : num'[n] = num[n]
    BY <1>2, <1>3, <1>5, GcdWrites DEF Writes
  <2>2. ~ Stored
    BY <1>1, <1>2 DEF Stored, DivisionPlaces, LimbPlaces
  <2>. QED
    BY <1>1, <1>5, <2>1, <2>2, GoesOn DEF Outside
<1>6. CASE at' = "returned"
  BY <1>1, <1>4, <1>6, GoesBack DEF Outside
<1>7. CASE at' = "failed"
  BY <1>1, <1>2, <1>4, <1>7, FailsThere DEF Outside
<1>. QED
  BY <1>1, <1>5, <1>6, <1>7

(* zrand leaves alone what is not its own.                                 *)
LEMMA UnstoredDrawing ==
  ASSUME Control, Values, Unstored, Drawing
  PROVE  Unstored'
<1>1. /\ UNCHANGED call /\ at \in {"zrand", "draw", "drawn"}
      /\ at' \in {"draw", "drawn", "returned", "failed"}
  BY DEF Drawing, PrepareRandom, DrawAgain, DrawInRange, DrawFails, RandomDone, Return, Goto, Fail,
         NoRoomFor, FailHaving
<1>2. call \in Calls /\ call.fn = "zrand" /\ arg.a = call.arg.a /\ Reg \subseteq Names
  BY <1>1, OwnParameters
<1>3. call.arg.a \in Destinations
  BY DEF Destinations
<1>4. \A n \in Reg : num'[n] = num[n] \/ n = call.arg.a
  BY <1>2, DrawingWrites DEF Writes
<1>5. CASE at' \in {"draw", "drawn"}
  <2>1. Stored'
    BY <1>1, <1>2, <1>5 DEF Stored
  <2>. QED
    BY <1>1, <1>4, <1>5, <2>1, GoesOn DEF Outside
<1>6. CASE at' = "returned"
  BY <1>1, <1>3, <1>4, <1>6, GoesBack DEF Outside
<1>7. CASE at' = "failed"
  BY <1>1, <1>2, <1>3, <1>4, <1>7, FailsThere DEF Outside
<1>. QED
  BY <1>1, <1>5, <1>6, <1>7

(* zptest leaves alone what is not its own, with a witness or without.     *)
LEMMA UnstoredTesting ==
  ASSUME Control, Values, Unstored, Testing
  PROVE  Unstored'
<1>1. /\ UNCHANGED call /\ at \in TestPlaces \cup {"zptest"}
      /\ at' \in TestPlaces \cup {"zmodpow", "returned", "failed"}
  BY DEF Testing, TestSmallOrEven, PrepareTest, Round, Tested, TestSquare, Composite, Answer, Goto,
         NoMemory, Fail, NoRoomFor, FailHaving, TestPlaces
<1>2. call \in Calls /\ call.fn = "zptest"
  BY TestingWrites
<1>3. call.arg.a \in Destinations /\ {"n1", "n4", "d", "a", "x"} \cap Reg = {} /\ Reg \subseteq Names
  BY NumberAssumption DEF Destinations, Dedicated, Names
<1>4. CASE at' \notin Outside
  <2>1. \A n \in Reg : num'[n] = num[n]
    BY <1>3, <1>4, TestingWrites DEF Writes
  <2>2. ~ Stored
    BY <1>2 DEF Stored
  <2>. QED
    BY <1>1, <1>4, <2>1, <2>2, GoesOn DEF Outside, TestPlaces
<1>5. CASE at' \in Outside
  <2>1. \A n \in Reg \ Destinations : num'[n] = num[n]
    BY <1>3, <1>5, TestingWrites DEF Writes
  <2>2. at \notin Outside
    BY <1>1 DEF Outside, TestPlaces
  <2>3. CASE at' = "returned"
    BY <1>1, <2>1, <2>2, <2>3, GoesBack
  <2>4. CASE at' = "failed"
    BY <1>1, <1>2, <2>1, <2>2, <2>4, FailsThere
  <2>. QED
    BY <1>1, <1>5, <2>3, <2>4 DEF Outside, TestPlaces
<1>. QED
  BY <1>4, <1>5

(* Every step leaves alone what is not the function's.                     *)
LEMMA UnstoredStep ==
  ASSUME Control, Values, Unstored, Division, [Next]_vars
  PROVE  Unstored'
<1>1. CASE Ask
  <2>1. PICK c \in Calls : call' = c /\ at' = c.fn /\ num' = c.val @@ num
    BY <1>1, CallAssumption DEF Ask
  <2>2. c.fn \in Functions /\ c.val \in [Reg -> Int]
    BY CallIs
  <2>3. \A n \in Reg : num'[n] = c.val[n]
    BY <2>1, <2>2 DEF @@
  <2>4. at' \notin {"returned", "failed"}
    BY <2>1, <2>2 DEF Functions
  <2>. QED
    BY <2>1, <2>3, <2>4 DEF Unstored, OthersUntouched
<1>2. CASE Resume
  BY <1>2 DEF Resume, Unstored, OthersUntouched, Outside
<1>3. CASE Function
  BY <1>3, UnstoredDividing, UnstoredRaising, UnstoredGcd, UnstoredDrawing, UnstoredTesting DEF Function
<1>4. CASE UNCHANGED vars
  BY <1>4 DEF vars, Unstored, OthersUntouched, Stored, Destinations, AllOrNothing, Dividend, Divisor, Was
<1>. QED
  BY <1>1, <1>2, <1>3, <1>4 DEF Next

-----------------------------------------------------------------------------
(* Values stay in their types, and pointers where they belong.             *)

(* Where divisions go, and what they keep.                                 *)
LEMMA DividingGoes ==
  ASSUME Dividing
  PROVE  UNCHANGED <<call, block, ptr, fds>> /\ at' \in DivisionPlaces \cup {"returned", "failed"}
  BY DEF Dividing, ZdivZmod, ModMultiply, DivideByZero, DivideSmall, DivideLong, QuotientBit,
         Goto, Return, Fail, NoMemory, NoRoomFor, FailHaving, DivisionPlaces

(* Powers, which keep their parameters too, and the block unless they      *)
(* begin.                                                                  *)
LEMMA RaisingGoes ==
  ASSUME Raising
  PROVE  /\ UNCHANGED <<call, arg, ptr, fds>> /\ (PreparePower \/ UNCHANGED block)
         /\ \/ at' \in LimbPlaces \cup {"exponent", "returned", "failed"}
            \/ at' = "tested" /\ call.fn = "zptest"
         /\ AtPower \/ at \in LimbPlaces \cup {"exponent"}
  BY DEF Raising, PowerFails, PowerOfNothing, PreparePower, NextLimb, MultiplyAndSquare, LimbDone,
         SquareAndMultiply, PowerDone, PowerReturns, Goto, Fail, NoMemory, NoRoomFor, FailHaving, LimbPlaces

(* zgcd.                                                                   *)
LEMMA GcdGoes ==
  ASSUME Gcd
  PROVE  UNCHANGED <<call, block, fds>> /\ at \in {"zgcd", "gcd"} /\ at' \in {"gcd", "returned", "failed"}
  BY DEF Gcd, GcdOfNothing, PrepareGcd, SubtractAndShift, GcdDone, Return, Goto, NoMemory, Fail,
         NoRoomFor, FailHaving

(* zrand.                                                                  *)
LEMMA DrawingGoes ==
  ASSUME Drawing
  PROVE  /\ UNCHANGED <<call, block, ptr>> /\ at \in {"zrand", "draw", "drawn"}
         /\ at' \in {"draw", "drawn", "returned", "failed"}
  BY DEF Drawing, PrepareRandom, DrawAgain, DrawInRange, DrawFails, RandomDone, Return, Goto, Fail,
         NoRoomFor, FailHaving

(* zptest, which calls zmodpow.                                            *)
LEMMA TestingGoes ==
  ASSUME Testing
  PROVE  /\ UNCHANGED <<call, block, ptr, fds>> /\ at \in TestPlaces \cup {"zptest"}
         /\ at' \in TestPlaces \cup {"zmodpow", "returned", "failed"}
  BY DEF Testing, TestSmallOrEven, PrepareTest, Round, Tested, TestSquare, Composite, Answer, Goto,
         NoMemory, Fail, NoRoomFor, FailHaving, TestPlaces

(* Numbers are integers after every step.                                  *)
LEMMA NumbersStep ==
  ASSUME Control, Values, Unstored, Division, [Next]_vars
  PROVE  num' \in [Names -> Int]
<1>0. num \in [Names -> Int]
  BY DEF Values
<1>1. CASE Ask
  <2>1. PICK c \in Calls : num' = c.val @@ num
    BY <1>1, CallAssumption DEF Ask
  <2>. DEFINE f == c.val
  <2>2. f \in [Reg -> Int] /\ Reg \subseteq Names
    BY CallIs DEF Names
  <2>3. DOMAIN f \subseteq Names /\ (\A n \in DOMAIN f : f[n] \in Int) /\ num' = f @@ num
    BY <2>1, <2>2
  <2>. HIDE DEF f
  <2>. QED
    BY <1>0, <2>3, StoreSome DEF Writes
<1>2. CASE Resume
  BY <1>2, NumberAssumption DEF Resume, Before, Names
<1>3. CASE Dividing
  <2>1. CASE UNCHANGED num
    BY <1>0, <2>1
  <2>2. CASE ModMultiply
    BY <2>2, ModMultiplyWrites DEF Writes
  <2>3. CASE DivideSmall
    BY <2>3, DivideSmallWrites DEF Writes
  <2>4. CASE DivideLong
    BY <2>4, DivideLongWrites DEF Writes
  <2>5. CASE QuotientBit
    BY <1>0, <2>5, QuotientBitWrites DEF Writes
  <2>. QED
    BY <1>3, <2>1, <2>2, <2>3, <2>4, <2>5 DEF Dividing, ZdivZmod, DivideByZero, Fail
<1>4. CASE Raising
  <2>1. CASE UNCHANGED num
    BY <1>0, <2>1
  <2>. QED
    BY <1>4, <2>1, PowerOfNothingWrites, PreparePowerWrites, SquaringWrites, PowerDoneWrites
       DEF Raising, Writes, PowerFails, NextLimb, LimbDone, Fail
<1>5. CASE Gcd \/ Drawing
  BY <1>5, GcdWrites, DrawingWrites DEF Writes
<1>6. CASE Testing
  BY <1>6, TestingWrites DEF Writes
<1>7. CASE UNCHANGED vars
  BY <1>0, <1>7 DEF vars
<1>. QED
  BY <1>1, <1>2, <1>3, <1>4, <1>5, <1>6, <1>7 DEF Next, Function

(* Every step keeps values in their types, the modulus of a power from     *)
(* being 0, and the bound of zrand positive.                               *)
LEMMA ValuesStep ==
  ASSUME Control, Values, Unstored, Division, [Next]_vars
  PROVE  Values'
<1>1. num' \in [Names -> Int]
  BY NumbersStep
<1>2. \A i \in DOMAIN block' : block'[i] \in 0 .. 2 ^ BitsPerChar - 1
  <2>1. CASE UNCHANGED block
    BY <2>1 DEF Values
  <2>2. CASE PreparePower
    BY <2>2, PreparePowerWrites
  <2>. QED
    BY <2>1, <2>2, DividingGoes, RaisingGoes, GcdGoes, DrawingGoes, TestingGoes
       DEF Next, Function, Ask, Resume, vars
<1>3. CASE Ask
  <2>1. PICK c \in Calls : call' = c /\ at' = c.fn /\ arg' = c.arg
    BY <1>3, CallAssumption DEF Ask
  <2>2. c.fn \in Functions
    BY CallIs
  <2>3. ~ InTest'
    BY <2>1, <2>2 DEF InTest, TestPlaces, LimbPlaces, Functions
  <2>. QED
    BY <1>1, <1>2, <2>1, <2>2, <2>3 DEF Values, LimbPlaces, Functions
<1>4. CASE Resume
  BY <1>1, <1>2, <1>4 DEF Values, Resume, LimbPlaces, InTest, TestPlaces
<1>5. CASE Dividing
  BY <1>1, <1>2, <1>5, DividingGoes DEF Values, LimbPlaces, InTest, TestPlaces, DivisionPlaces
<1>6. CASE Raising
  <2>1. at' \in LimbPlaces \cup {"exponent"} /\ "d" \in DOMAIN arg' => num'["pow_d"] # 0
    <3>. SUFFICES ASSUME at' \in LimbPlaces \cup {"exponent"}, Modular PROVE num'["pow_d"] # 0
      BY <1>6, RaisingGoes DEF Modular
    <3>1. CASE PreparePower
      BY <3>1, PreparePowerWrites DEF LimbPlaces
    <3>2. CASE MultiplyAndSquare \/ SquareAndMultiply
      <4>1. arg.a # "pow_d" /\ "pow_d" \in Names /\ num["pow_d"] # 0
        BY <3>2, PowerDestination DEF Values, Modular, LimbPlaces, MultiplyAndSquare, SquareAndMultiply
      <4>. QED
        BY <3>2, <4>1, SquaringWrites DEF Writes
    <3>3. CASE NextLimb \/ LimbDone
      BY <3>3 DEF Values, Modular, LimbPlaces, NextLimb, LimbDone
    <3>. QED
      BY <1>6, <3>1, <3>2, <3>3
         DEF Raising, PowerFails, PowerOfNothing, PowerDone, PowerReturns, Goto, Fail, NoRoomFor, FailHaving, LimbPlaces
  <2>2. InTest' => Was("b")' > 3
    <3>. SUFFICES ASSUME InTest' PROVE Was("b") > 3
      BY <1>6, RaisingGoes DEF Was
    <3>1. call.fn = "zptest"
      BY <1>6, RaisingGoes DEF InTest
    <3>2. at \in LimbPlaces \cup {"zmodpow"}
      BY <1>6, <3>1, RaisingGoes DEF Control, Caller, AtPower, LimbPlaces, Functions
    <3>. QED
      BY <3>1, <3>2 DEF Values, InTest
  <2>3. at' \notin {"gcd", "draw", "drawn"}
    BY <1>6, RaisingGoes DEF LimbPlaces
  <2>. QED
    BY <1>1, <1>2, <2>1, <2>2, <2>3 DEF Values
<1>7. CASE Gcd
  BY <1>1, <1>2, <1>7, GcdGoes, GcdWrites DEF Values, LimbPlaces, InTest, TestPlaces
<1>8. CASE Drawing
  <2>1. at' \notin TestPlaces \cup LimbPlaces \cup {"exponent", "gcd", "zmodpow"} /\ ~ InTest'
    BY <1>8, DrawingGoes DEF TestPlaces, LimbPlaces, InTest
  <2>2. Was("b")' = Was("b")
    BY <1>8, DrawingGoes DEF Was
  <2>3. CASE at = "zrand" /\ at' = "draw"
    <3>1. loc'.bits = Bits(P("b")) /\ P("b") > 0
      BY <1>8, <2>3, DrawingWrites
    <3>2. arg = call.arg /\ arg.b \in Reg /\ call.fn = "zrand"
      BY <2>3, OwnParameters
    <3>3. P("b") = Was("b")
      BY <2>3, <3>2 DEF P, Was, Unstored, Stored, Outside, DivisionPlaces, LimbPlaces
    <3>. QED
      BY <1>1, <1>2, <2>1, <2>2, <2>3, <3>1, <3>3 DEF Values
  <2>4. CASE at = "draw" /\ at' \in {"draw", "drawn"}
    <3>1. UNCHANGED loc
      BY <1>8, <2>4 DEF Drawing, PrepareRandom, DrawAgain, DrawInRange, DrawFails, RandomDone, NoRoomFor, FailHaving
    <3>. QED
      BY <1>1, <1>2, <2>1, <2>2, <2>4, <3>1 DEF Values
  <2>5. CASE at' \notin {"draw", "drawn"}
    BY <1>1, <1>2, <2>1, <2>5 DEF Values
  <2>. QED
    BY <1>8, <2>3, <2>4, <2>5
       DEF Drawing, PrepareRandom, DrawAgain, DrawInRange, DrawFails, RandomDone, Return, Goto, Fail, NoRoomFor, FailHaving
<1>9. CASE Testing
  <2>1. call.fn = "zptest" /\ call \in Calls
    BY <1>9, TestingWrites
  <2>2. at' \in TestPlaces \cup {"zmodpow"} => Was("b") > 3
    <3>1. Questioned = Was("b")
      <4>1. call.arg.b \in Reg
        BY <2>1, CallIs DEF Parameters
      <4>. QED
        BY <1>9, <2>1, <4>1, TestingGoes DEF Questioned, Was, Unstored, Stored, Outside, TestPlaces
    <3>. QED
      BY <1>9, <3>1, TestingWrites
  <2>3. Was("b")' = Was("b")
    BY <1>9, TestingGoes DEF Was
  <2>4. at' \notin LimbPlaces \cup {"exponent", "gcd", "draw", "drawn"}
    BY <1>9, TestingGoes DEF TestPlaces, LimbPlaces
  <2>. QED
    BY <1>1, <1>2, <2>2, <2>3, <2>4 DEF Values, InTest
<1>10. CASE UNCHANGED vars
  BY <1>1, <1>2, <1>10 DEF vars, Values, InTest, Was
<1>. QED
  BY <1>3, <1>4, <1>5, <1>6, <1>7, <1>8, <1>9, <1>10 DEF Next, Function

(* The pointers of zgcd move in zgcd only, and the device is open only     *)
(* while zrand draws.                                                      *)
LEMMA PointersStep ==
  ASSUME Control, Values, Unstored, Pointers, [Next]_vars
  PROVE  Pointers'
<1>1. Originals \in [{"u", "v"} -> {"u", "v"} \X Nat] /\ Originals["u"][1] # Originals["v"][1]
  BY DEF Originals
<1>2. CASE Ask
  <2>1. at = "idle" /\ UNCHANGED <<ptr, fds>> /\ at' \in Functions
    BY <1>2, CallAssumption DEF Ask
  <2>. QED
    BY <2>1 DEF Pointers, Functions
<1>3. CASE Resume
  BY <1>3 DEF Resume, Pointers
<1>4. CASE Dividing \/ Raising \/ Testing
  <2>1. UNCHANGED <<ptr, fds>> /\ at' \notin {"gcd", "draw", "drawn"}
    BY <1>4, DividingGoes, RaisingGoes, TestingGoes DEF DivisionPlaces, LimbPlaces, TestPlaces
  <2>2. at \notin {"gcd", "draw", "drawn", "failed"}
    BY <1>4, RaisingGoes, TestingGoes
       DEF Dividing, ZdivZmod, ModMultiply, DivideByZero, DivideSmall, DivideLong, QuotientBit,
           AtPower, LimbPlaces, TestPlaces
  <2>. QED
    BY <2>1, <2>2 DEF Pointers
<1>5. CASE Gcd
  <2>1. UNCHANGED fds /\ at \in {"zgcd", "gcd"} /\ at' \in {"gcd", "returned", "failed"}
    BY <1>5, GcdGoes
  <2>2. CASE UNCHANGED ptr /\ (at = "zgcd" \/ at' = "failed")
    BY <2>1, <2>2 DEF Pointers
  <2>3. CASE at' = "returned" /\ Restore
    BY <1>1, <2>1, <2>3 DEF Pointers, Restore
  <2>4. CASE SubtractAndShift
    <3>. DEFINE swap == num["u"] > num["v"]
                u    == IF swap THEN "v" ELSE "u"
                v    == IF swap THEN "u" ELSE "v"
                i    == num[u]
                j    == num[v]
    <3>0. i \in Nat \ {0} /\ j \in Nat /\ i < j /\ at = "gcd" /\ at' = "gcd"
      BY <2>4 DEF SubtractAndShift, Values
    <3>p. PICK rest \in Differences(j, i) :
            ptr' = [u |-> ptr[u], v |-> <<ptr[v][1], ptr[v][2] + (Lsb(rest) \div BitsPerChar)>>]
      BY <2>4 DEF SubtractAndShift
    <3>. HIDE DEF i, j
    <3>1. rest \in Int \ {0}
      <4>1. \A d \in Differences(j, i) : d \in Nat \ {0}
        BY ONLY <3>0, DifferencesOf
      <4>. QED
        BY ONLY <3>p, <4>1
    <3>. DEFINE moved == ptr[v][2] + (Lsb(rest) \div BitsPerChar)
    <3>2. Lsb(rest) \div BitsPerChar \in Nat
      <4>1. Lsb(rest) \in Int /\ Lsb(rest) >= 0 /\ BitsPerChar \in Nat \ {0}
        BY <3>1, LsbOf, LimbAssumption
      <4>. QED
        BY <4>1, DivMod
    <3>3. /\ ptr \in [{"u", "v"} -> {"u", "v"} \X Nat] /\ ptr["u"][1] # ptr["v"][1]
          /\ u \in {"u", "v"} /\ v \in {"u", "v"} /\ u # v
      BY DEF Pointers
    <3>4. moved \in Nat /\ ptr[v][1] \in {"u", "v"} /\ ptr[u] \in {"u", "v"} \X Nat
      BY <3>2, <3>3
    <3>5. ptr' = [u |-> ptr[u], v |-> <<ptr[v][1], moved>>] /\ at' = "gcd" /\ at = "gcd"
      BY <3>0, <3>p
    <3>. HIDE DEF u, v, moved
    <3>6. ptr' \in [{"u", "v"} -> {"u", "v"} \X Nat] /\ ptr'["u"][1] # ptr'["v"][1]
      BY <3>3, <3>4, <3>5
    <3>. QED
      BY <2>1, <3>5, <3>6 DEF Pointers
  <2>. QED
    BY <1>5, <2>2, <2>3, <2>4
       DEF Gcd, GcdOfNothing, PrepareGcd, GcdDone, Return, Goto, NoMemory, Fail, NoRoomFor, FailHaving
<1>6. CASE Drawing
  <2>1. UNCHANGED <<call, ptr>> /\ ptr = Originals
    BY <1>6, DrawingGoes DEF Pointers
  <2>2. CASE at = "zrand" /\ at' \in {"draw", "failed"} /\ fds' = IF call.dev = "file" THEN fds + 1 ELSE fds
    BY <1>1, <2>1, <2>2 DEF Pointers
  <2>3. CASE at = "drawn" /\ at' = "returned" /\ fds' = IF call.dev = "file" THEN fds - 1 ELSE fds
    BY <1>1, <2>1, <2>3 DEF Pointers
  <2>4. CASE at = "zrand" /\ at' \in {"returned", "failed"} /\ UNCHANGED fds
    BY <1>1, <2>1, <2>4 DEF Pointers
  <2>5. CASE at \in {"draw", "drawn"} /\ at' \in {"draw", "drawn", "failed"} /\ UNCHANGED fds
    BY <1>1, <2>1, <2>5 DEF Pointers
  <2>. QED
    BY <1>6, <2>2, <2>3, <2>4, <2>5
       DEF Drawing, PrepareRandom, DrawAgain, DrawInRange, DrawFails, RandomDone, Return, Goto, Fail,
           NoRoomFor, FailHaving
<1>7. CASE UNCHANGED vars
  BY <1>7 DEF vars, Pointers
<1>. QED
  BY <1>2, <1>3, <1>4, <1>5, <1>6, <1>7 DEF Next, Function

-----------------------------------------------------------------------------
(* The division is right.                                                  *)

(* Two magnitudes whose difference is a whole number of divisors, with the *)
(* signs of the dividend and of the product.                               *)
LEMMA SignsOfDivision ==
  ASSUME NEW c \in Int, NEW d \in Int \ {0}, NEW ta \in Nat, NEW tb \in Nat,
         Abs(c) = ta * Abs(d) + tb, tb < Abs(d)
  PROVE  /\ Divided(Sign(c) * Sign(d) * ta, Sign(c) * tb, c, d)
         /\ Abs(Sign(c) * Sign(d) * ta) <= Abs(c)
<1>. DEFINE D == Abs(d)
            C == Abs(c)
            q == Sign(c) * Sign(d) * ta
            r == Sign(c) * tb
<1>1. D \in Nat \ {0} /\ C \in Nat /\ ta * D \in Nat
  BY Magnitude
<1>2. ta <= ta * D
  BY <1>1
<1>3. C = ta * D + tb /\ tb < D
  OBVIOUS
<1>4. ta <= C /\ tb <= C
  BY <1>1, <1>2, <1>3
<1>5. CASE c = 0
  <2>1. Sign(c) = 0 /\ Abs(0) = 0 /\ Sign(0) = 0
    BY <1>5 DEF Sign, Abs
  <2>2. Sign(d) * ta \in Int /\ Sign(d) \in {-1, 1}
    BY Magnitude
  <2>3. q = 0 /\ r = 0
    BY <2>1, <2>2
  <2>. QED
    BY <1>1, <1>5, <2>1, <2>3 DEF Divided
<1>6. CASE c # 0
  <2>1. (c > 0 /\ Sign(c) = 1 /\ C = c) \/ (c < 0 /\ Sign(c) = -1 /\ C = - c)
    BY <1>6 DEF Sign, Abs
  <2>2. (d > 0 /\ Sign(d) = 1 /\ D = d) \/ (d < 0 /\ Sign(d) = -1 /\ D = - d)
    BY DEF Sign, Abs
  <2>. HIDE DEF C, D
  <2>3. c = q * d + r
    <3>1. CASE c > 0 /\ d > 0
      BY <1>3, <2>1, <2>2, <3>1
    <3>2. CASE c > 0 /\ d < 0
      <4>1. q = - ta /\ r = tb /\ d = - D
        BY <2>1, <2>2, <3>2
      <4>2. (- ta) * (- D) = ta * D
        BY <1>1
      <4>. QED
        BY <1>3, <2>1, <3>2, <4>1, <4>2
    <3>3. CASE c < 0 /\ d > 0
      <4>1. q = - ta /\ r = - tb /\ d = D
        BY <2>1, <2>2, <3>3
      <4>2. (- ta) * D = - (ta * D)
        BY <1>1
      <4>. QED
        BY <1>1, <1>3, <2>1, <3>3, <4>1, <4>2
    <3>4. CASE c < 0 /\ d < 0
      <4>1. q = ta /\ r = - tb /\ d = - D
        BY <2>1, <2>2, <3>4
      <4>2. ta * (- D) = - (ta * D) /\ c = - C
        BY <1>1, <2>1, <3>4
      <4>. HIDE DEF q, r
      <4>3. q * d = - (ta * D)
        BY <4>1, <4>2
      <4>. QED
        BY <1>1, <1>3, <4>1, <4>2, <4>3
    <3>. QED
      BY <2>1, <2>2, <3>1, <3>2, <3>3, <3>4
  <2>4. (q = ta \/ q = - ta) /\ ((r = tb /\ c > 0) \/ (r = - tb /\ c < 0))
    BY <2>1, <2>2
  <2>. HIDE DEF q, r
  <2>5. Abs(q) = ta /\ Abs(r) = tb
    BY <2>4 DEF Abs
  <2>6. Sign(r) \in {0, Sign(c)}
    BY <2>4 DEF Sign
  <2>. QED
    BY <1>3, <1>4, <2>3, <2>5, <2>6 DEF Divided, C, D, q, r
<1>. QED
  BY <1>5, <1>6

(* A dividend no greater than the divisor.                                 *)
LEMMA SmallDivision ==
  ASSUME NEW c \in Int, NEW d \in Int \ {0}
  PROVE  /\ Abs(c) = Abs(d) => /\ Divided(Sign(c) * Sign(d), 0, c, d)
                               /\ Abs(Sign(c) * Sign(d)) <= Abs(c)
         /\ Abs(c) < Abs(d) => Divided(0, c, c, d) /\ Abs(0) <= Abs(c)
<1>1. Sign(c) \in {-1, 0, 1} /\ Sign(d) \in {-1, 0, 1} /\ Abs(c) \in Nat /\ Abs(d) \in Nat
  BY Magnitude
<1>2. ASSUME Abs(c) = Abs(d)
      PROVE  Divided(Sign(c) * Sign(d), 0, c, d) /\ Abs(Sign(c) * Sign(d)) <= Abs(c)
  <2>1. Abs(c) = 1 * Abs(d) + 0 /\ 0 < Abs(d)
    <3>1. Abs(d) \in Nat \ {0}
      BY Magnitude
    <3>. QED
      BY <1>2, <3>1
  <2>2. Sign(c) * Sign(d) * 1 = Sign(c) * Sign(d) /\ Sign(c) * 0 = 0
    BY <1>1
  <2>3. /\ Divided(Sign(c) * Sign(d) * 1, Sign(c) * 0, c, d)
        /\ Abs(Sign(c) * Sign(d) * 1) <= Abs(c)
    BY <2>1, SignsOfDivision
  <2>. QED
    BY <2>2, <2>3
<1>3. ASSUME Abs(c) < Abs(d)
      PROVE  Divided(0, c, c, d) /\ Abs(0) <= Abs(c)
  BY <1>1, <1>3 DEF Divided, Abs, Sign
<1>. QED
  BY <1>2, <1>3

(* The highest bit of the quotient of a greater number.                    *)
LEMMA HighestBit ==
  ASSUME NEW c \in Int, NEW d \in Int \ {0}, Abs(c) > Abs(d)
  PROVE  LET by  == Bits(c) - Bits(d)
             bit == IF Abs(d) * 2 ^ by > Abs(c) THEN by - 1 ELSE by
         IN  bit \in Nat /\ Abs(c) < Abs(d) * 2 ^ (bit + 1)
<1>. DEFINE D == Abs(d)
            C == Abs(c)
            m == Bits(c)
            n == Bits(d)
            by == m - n
            over == D * 2 ^ by > C
            bit == IF over THEN by - 1 ELSE by
<1>1. D \in Nat \ {0} /\ C \in Nat /\ C > D
  BY Magnitude
<1>2. m \in Nat /\ n \in Nat /\ m >= 1 /\ n >= 1 /\ C < 2 ^ m /\ 2 ^ (n - 1) <= D
  BY BitsOf
<1>. HIDE DEF D, C, m, n
<1>3. by \in Nat
  <2>. SUFFICES ASSUME m < n PROVE FALSE
    BY <1>2
  <2>1. m <= n - 1 /\ n - 1 \in Nat
    BY <1>2
  <2>2. 2 ^ m <= 2 ^ (n - 1) /\ 2 ^ m \in Nat /\ 2 ^ (n - 1) \in Nat
    BY <1>2, <2>1, Monotone, Positive
  <2>. QED
    BY <1>1, <1>2, <2>2
<1>4. 2 ^ by \in Nat /\ 2 ^ (by + 1) = 2 * 2 ^ by
  BY <1>3, Positive, Doubling
<1>5. CASE over
  <2>1. by # 0
    <3>. SUFFICES ASSUME by = 0 PROVE FALSE
      OBVIOUS
    <3>. HIDE DEF by
    <3>1. 2 ^ by = 1
      OBVIOUS
    <3>. QED
      BY <1>1, <1>5, <3>1
  <2>2. bit = by - 1 /\ bit + 1 = by
    BY <1>3, <1>5
  <2>. QED
    BY <1>1, <1>3, <1>4, <1>5, <2>1, <2>2 DEF D, C, m, n
<1>6. CASE ~ over
  <2>1. (n - 1) + (by + 1) = m /\ n - 1 \in Nat /\ by + 1 \in Nat
    BY <1>2, <1>3
  <2>2. 2 ^ m = 2 ^ (n - 1) * 2 ^ (by + 1)
    BY <2>1, PowerOfSum
  <2>3. 2 ^ (n - 1) \in Nat /\ 2 ^ (by + 1) \in Nat
    BY <2>1, Positive
  <2>. HIDE DEF by
  <2>4. 2 ^ (n - 1) * 2 ^ (by + 1) <= D * 2 ^ (by + 1)
    BY <1>1, <1>2, <2>3
  <2>5. C < D * 2 ^ (by + 1)
    BY <1>1, <1>2, <2>2, <2>3, <2>4
  <2>. QED
    BY <1>3, <1>6, <2>5 DEF D, C, m, n, by
<1>. QED
  BY <1>5, <1>6

(* zdivmod is reached with the dividend and the divisor of the call.       *)
LEMMA DivisionCalled ==
  ASSUME Control, Values, Unstored, ZdivZmod \/ ModMultiply, at' = "zdivmod"
  PROVE  P("c")' = Numerator /\ P("d")' = Denominator
<1>1. at \in {"zdiv", "zmod", "zmodmul", "zmodsqr"}
  BY DEF ZdivZmod, ModMultiply
<1>2. /\ call \in Calls /\ call.fn = at /\ arg = call.arg
      /\ \A p \in Parameters(at) : arg[p] \in Reg /\ arg[p] \in Names
  BY <1>1, Called DEF Functions
<1>3. \A n \in Reg : num[n] = call.val[n]
  BY <1>1 DEF Unstored, Stored, DivisionPlaces, LimbPlaces, Outside
<1>4. \A p \in Parameters(at) : P(p) = Was(p)
  BY <1>2, <1>3 DEF P, Was
<1>5. CASE ZdivZmod
  <2>1. UNCHANGED num /\ arg'.c = arg.b /\ arg'.d = arg.c /\ at \in {"zdiv", "zmod"}
    BY <1>5 DEF ZdivZmod, DivideBy
  <2>2. P("b") = Was("b") /\ P("c") = Was("c")
    BY <1>4, <2>1 DEF Parameters
  <2>. QED
    BY <1>2, <2>1, <2>2 DEF P, Numerator, Denominator
<1>6. CASE ModMultiply
  <2>1. /\ arg'.c = arg.a /\ arg'.d = (IF arg.a = arg.d THEN "modmul" ELSE arg.d)
        /\ at \in {"zmodmul", "zmodsqr"}
    BY <1>6 DEF ModMultiply, DivideBy
  <2>2. /\ Writes({arg.a, "modmul"}) /\ num'[arg.a] = P("b") * P("c")
        /\ arg.a = arg.d => num'["modmul"] = P("d")
    BY <1>6, ModMultiplyWrites
  <2>3. /\ P("b") = Was("b") /\ P("c") = Was("c") /\ P("d") = Was("d")
        /\ arg.d \in Reg /\ arg.d \in Names
    BY <1>2, <1>4, <2>1 DEF Parameters
  <2>4. arg.a # arg.d => num'[arg.d] = P("d")
    <3>1. "modmul" \notin Reg
      BY NumberAssumption DEF Dedicated
    <3>. QED
      BY <2>2, <2>3, <3>1 DEF Writes, P
  <2>5. P("c")' = P("b") * P("c") /\ P("d")' = P("d")
    BY <2>1, <2>2, <2>4 DEF P
  <2>. QED
    BY <1>2, <2>1, <2>3, <2>5 DEF Numerator, Denominator
<1>. QED
  BY <1>5, <1>6

(* The loop begins with nothing of the quotient developed.                 *)
LEMMA DivisionBegins ==
  ASSUME Control, Values, Division, DivideLong
  PROVE  Division'
<1>. DEFINE c == P("c")
            d == P("d")
            by   == Bits(c) - Bits(d)
            over == Abs(d) * 2 ^ by > Abs(c)
            bit  == IF over THEN by - 1 ELSE by
            td   == Abs(d) * 2 ^ bit
            few  == bit <= BitsPerChar
            tds  == IF few THEN <<td>> ELSE [i \in 1 .. BitsPerChar |-> ShiftDown(td, i - 1)]
<1>1. CASE at' = "failed"
  BY <1>1 DEF Division, DivisionPlaces
<1>2. CASE at' # "failed"
  <2>1. /\ at' = "quotient" /\ UNCHANGED <<call, arg>> /\ Writes({"ta", "tb"})
        /\ num'["ta"] = 0 /\ num'["tb"] = Abs(c) /\ d # 0 /\ Abs(c) > Abs(d)
    BY <1>2, DivideLongWrites DEF DivideLong, Goto, NoMemory, Fail
  <2>2. /\ at = "zdivmod" /\ call \in Calls /\ call.fn \in Divisions
        /\ c = Numerator /\ d = Denominator
        /\ arg.c \in Names \ {"ta", "tb"} /\ arg.d \in Names \ {"ta", "tb"}
    BY DivisionParameters DEF DivideLong, DivisionPlaces, Division
  <2>3. c \in Int /\ d \in Int \ {0} /\ Abs(d) \in Nat /\ BitsPerChar \in Nat \ {0}
    BY <2>1, <2>2, Divisible, Magnitude, LimbAssumption
  <2>4. bit \in Nat /\ Abs(c) < Abs(d) * 2 ^ (bit + 1)
    BY <2>1, <2>3, HighestBit
  <2>5. SetLoc([bit |-> bit, few |-> few, i |-> 1, tds |-> tds,
                sign |-> Sign(c) * Sign(d), c_sign |-> Sign(c)])
    BY <1>2 DEF DivideLong, NoMemory, Fail
  <2>. HIDE DEF bit, few, tds
  <2>6. /\ {"bit", "few", "i", "tds", "sign", "c_sign"} \subseteq DOMAIN loc'
        /\ loc'.bit = bit /\ loc'.few = few /\ loc'.i = 1 /\ loc'.tds = tds
        /\ loc'.sign = Sign(c) * Sign(d) /\ loc'.c_sign = Sign(c)
    BY <2>5 DEF SetLoc, @@
  <2>7. Numerator' = c /\ Denominator' = d
    BY <2>1, <2>2 DEF Numerator, Denominator, Was
  <2>8. few \in BOOLEAN
    BY DEF few
  <2>9. Shifts'
    <3>1. CASE few
      BY <2>6, <2>7, <3>1 DEF Shifts, tds
    <3>2. CASE ~ few
      <4>1. DOMAIN tds = 1 .. BitsPerChar
        BY <3>2 DEF tds
      <4>2. ASSUME NEW j \in 1 .. BitsPerChar, bit + 1 - j >= 0
            PROVE  tds[j] = Abs(d) * 2 ^ (bit + 1 - j)
        <5>1. j - 1 \in 0 .. bit /\ bit - (j - 1) = bit + 1 - j
          BY <2>4, <4>2
        <5>2. tds[j] = ShiftDown(Abs(d) * 2 ^ bit, j - 1)
          BY <3>2 DEF tds
        <5>. QED
          BY <2>3, <2>4, <5>1, <5>2, ShiftMultiple
      <4>. HIDE DEF d
      <4>. QED
        BY <2>6, <2>7, <3>2, <4>1, <4>2 DEF Shifts
    <3>. QED
      BY <3>1, <3>2
  <2>10. Developed(num["ta"], num["tb"], loc.bit + 1)'
    <3>1. 2 ^ (bit + 1) \in Nat
      BY <2>4, Positive
    <3>2. 0 * 2 ^ (bit + 1) = 0 /\ 0 * Abs(d) = 0
      BY <2>3, <3>1
    <3>3. Abs(c) \in Nat
      BY <2>3, Magnitude
    <3>. HIDE DEF c, d
    <3>. QED
      BY <2>1, <2>3, <2>4, <2>6, <2>7, <3>1, <3>2, <3>3 DEF Developed
  <2>11. P("c")' = Numerator' /\ P("d")' = Denominator'
    BY <2>1, <2>2, <2>7 DEF P, Writes
  <2>. QED
    BY <2>1, <2>3, <2>4, <2>6, <2>7, <2>8, <2>9, <2>10, <2>11 DEF Division
<1>. QED
  BY <1>1, <1>2

(* The loop develops the quotient from the highest bit down.               *)
LEMMA DivisionProceeds ==
  ASSUME Control, Values, Division, QuotientBit
  PROVE  Division'
<1>. DEFINE D == Abs(Denominator)
<1>1. /\ at = "quotient" /\ call \in Calls /\ call.fn \in Divisions /\ arg = DivisionArg
      /\ arg.c \in Names \ {"ta", "tb"} /\ arg.d \in Names \ {"ta", "tb"}
      /\ UNCHANGED call
  BY DivisionParameters DEF QuotientBit, DivisionPlaces, Return, Goto, NoMemory, Fail
<1>2. Numerator \in Int /\ Denominator \in Int \ {0} /\ D \in Nat \ {0}
  BY <1>1, Divisible, Magnitude DEF Division
<1>3. Numerator' = Numerator /\ Denominator' = Denominator /\ DivisionArg' = DivisionArg
  BY <1>1 DEF Numerator, Denominator, Was, DivisionArg, Fourth
<1>4. /\ loc.bit \in Nat /\ loc.sign = Sign(Numerator) * Sign(Denominator)
      /\ loc.c_sign = Sign(Numerator) /\ loc.few \in BOOLEAN
      /\ P("c") = Numerator /\ P("d") = Denominator
  BY <1>1 DEF Division, DivisionPlaces
<1>5. PICK ta \in Nat, tb \in Nat :
        /\ Developed(ta, tb, loc.bit)
        /\ \/ /\ at' = "returned" /\ (loc.bit = 0 \/ tb = 0)
              /\ Writes({arg.a, arg.b})
              /\ num'[arg.a] = loc.sign * ta /\ num'[arg.b] = loc.c_sign * tb
           \/ /\ at' = "quotient" /\ UNCHANGED arg /\ Writes({"ta", "tb"})
              /\ num'["ta"] = ta /\ num'["tb"] = tb
              /\ loc.bit # 0 /\ loc'.bit = loc.bit - 1
              /\ {"bit", "few", "i", "tds", "sign", "c_sign"} \subseteq DOMAIN loc'
              /\ loc'.sign = loc.sign /\ loc'.c_sign = loc.c_sign /\ loc'.few = loc.few
              /\ loc'.i \in 1 .. BitsPerChar /\ Shifts'
           \/ at' = "failed" /\ UNCHANGED num
  BY QuotientBitWrites
<1>6. CASE at' = "failed"
  BY <1>6 DEF Division, DivisionPlaces
<1>7. CASE at' = "returned"
  <2>1. tb < D
    <3>1. CASE loc.bit = 0
      <4>1. 2 ^ loc.bit = 1
        BY <3>1
      <4>. QED
        BY <1>2, <1>5, <4>1 DEF Developed
    <3>2. CASE tb = 0
      BY <1>2, <3>2
    <3>. QED
      BY <1>5, <1>7, <3>1, <3>2
  <2>2. Abs(Numerator) = ta * D + tb
    BY <1>5 DEF Developed
  <2>. DEFINE q == Sign(Numerator) * Sign(Denominator) * ta
              r == Sign(Numerator) * tb
  <2>3. Divided(q, r, Numerator, Denominator) /\ Abs(q) <= Abs(Numerator)
    BY <1>2, <1>5, <2>1, <2>2, SignsOfDivision
  <2>4. num'[DivisionArg.a] = q /\ num'[DivisionArg.b] = r
    BY <1>1, <1>4, <1>5, <1>7
  <2>. HIDE DEF q, r
  <2>. QED
    BY <1>3, <1>7, <2>3, <2>4 DEF Division, DivisionPlaces
<1>8. CASE at' = "quotient"
  <2>1. /\ UNCHANGED arg /\ Writes({"ta", "tb"})
        /\ num'["ta"] = ta /\ num'["tb"] = tb
        /\ loc'.bit \in Nat /\ loc'.bit + 1 = loc.bit
        /\ {"bit", "few", "i", "tds", "sign", "c_sign"} \subseteq DOMAIN loc'
        /\ loc'.sign = loc.sign /\ loc'.c_sign = loc.c_sign /\ loc'.few = loc.few
        /\ loc'.i \in 1 .. BitsPerChar /\ Shifts'
    BY <1>4, <1>5, <1>8
  <2>2. Developed(num["ta"], num["tb"], loc.bit + 1)'
    <3>1. Developed(ta, tb, loc'.bit + 1)
      BY <1>5, <2>1
    <3>. QED
      BY <1>3, <2>1, <3>1 DEF Developed
  <2>3. P("c")' = Numerator' /\ P("d")' = Denominator'
    BY <1>1, <1>3, <1>4, <2>1 DEF P, Writes
  <2>4. loc'.sign = Sign(Numerator') * Sign(Denominator') /\ loc'.c_sign = Sign(Numerator')
    BY <1>3, <1>4, <2>1
  <2>. QED
    BY <1>2, <1>3, <1>4, <1>8, <2>1, <2>2, <2>3, <2>4 DEF Division
<1>. QED
  BY <1>5, <1>6, <1>7, <1>8

(* Every step keeps what is known of the division.                         *)
LEMMA DivisionStep ==
  ASSUME Control, Values, Unstored, Division, [Next]_vars
  PROVE  Division'
<1>1. ASSUME at' \notin DivisionPlaces, at' = "returned" => call'.fn \notin Divisions
      PROVE  Division'
  BY <1>1 DEF Division, DivisionPlaces
<1>2. ASSUME at' = "zdivmod", P("c")' = Numerator', P("d")' = Denominator'
      PROVE  Division'
  BY <1>2 DEF Division
<1>3. CASE Ask
  <2>1. PICK c \in Calls : call' = c /\ at' = c.fn /\ arg' = c.arg /\ num' = c.val @@ num
    BY <1>3, CallAssumption DEF Ask
  <2>2. /\ c.fn \in Functions /\ c.val \in [Reg -> Int]
        /\ \A p \in Parameters(c.fn) : c.fn = "zdivmod" => c.arg[p] \in Reg
    BY CallIs
  <2>3. CASE c.fn = "zdivmod"
    <3>1. c.arg.c \in Reg /\ c.arg.d \in Reg
      BY <2>2, <2>3 DEF Parameters
    <3>2. num'[c.arg.c] = c.val[c.arg.c] /\ num'[c.arg.d] = c.val[c.arg.d]
      BY <2>1, <2>2, <3>1 DEF @@
    <3>. QED
      BY <1>2, <2>1, <2>3, <3>2 DEF P, Numerator, Denominator, Was
  <2>4. CASE c.fn # "zdivmod"
    BY <1>1, <2>1, <2>2, <2>4 DEF Functions, DivisionPlaces
  <2>. QED
    BY <2>3, <2>4
<1>4. CASE Resume
  BY <1>1, <1>4 DEF Resume, DivisionPlaces
<1>5. CASE Dividing
  <2>1. UNCHANGED call
    BY <1>5, DividingGoes
  <2>2. Numerator' = Numerator /\ Denominator' = Denominator /\ DivisionArg' = DivisionArg
    BY <2>1 DEF Numerator, Denominator, Was, DivisionArg, Fourth
  <2>3. CASE at' = "failed"
    BY <1>1, <2>3 DEF DivisionPlaces
  <2>4. CASE (ZdivZmod \/ ModMultiply) /\ at' = "zdivmod"
    BY <1>2, <2>2, <2>4, DivisionCalled
  <2>5. CASE DivideSmall /\ at' # "failed"
    <3>1. /\ at = "zdivmod" /\ call \in Calls /\ call.fn \in Divisions /\ arg = DivisionArg
          /\ arg.a # arg.b
      BY <2>5, DivisionParameters DEF DivideSmall, DivisionPlaces
    <3>2. P("c") = Numerator /\ P("d") = Denominator
      BY <3>1 DEF Division, DivisionPlaces
    <3>3. /\ P("d") # 0 /\ Abs(P("c")) <= Abs(P("d")) /\ at' = "returned"
          /\ IF Abs(P("c")) = Abs(P("d"))
             THEN num'[arg.a] = Sign(P("c")) * Sign(P("d")) /\ num'[arg.b] = 0
             ELSE num'[arg.a] = 0 /\ num'[arg.b] = P("c")
      BY <2>5, DivideSmallWrites
    <3>4. Numerator \in Int /\ Denominator \in Int \ {0}
      BY <3>1, <3>2, <3>3, Divisible
    <3>5. Abs(Numerator) \in Nat /\ Abs(Denominator) \in Nat
      BY <3>4, Magnitude
    <3>6. /\ Divided(num'[arg.a], num'[arg.b], Numerator, Denominator)
          /\ Abs(num'[arg.a]) <= Abs(Numerator)
      BY <3>2, <3>3, <3>4, <3>5, SmallDivision
    <3>. QED
      BY <2>2, <3>1, <3>3, <3>6 DEF Division, DivisionPlaces
  <2>6. CASE DivideLong
    BY <2>6, DivisionBegins
  <2>7. CASE QuotientBit
    BY <2>7, DivisionProceeds
  <2>. QED
    BY <1>5, <2>3, <2>4, <2>5, <2>6, <2>7 DEF Dividing, ZdivZmod, ModMultiply, Goto, DivideByZero, Fail
<1>6. CASE Raising
  <2>1. UNCHANGED call /\ at' \notin DivisionPlaces
    BY <1>6, RaisingGoes DEF DivisionPlaces, LimbPlaces
  <2>2. call.fn \notin Divisions
    BY <1>6, RaisingGoes DEF Control, Caller, AtPower, LimbPlaces, Functions, Divisions
  <2>. QED
    BY <1>1, <2>1, <2>2
<1>7. CASE Gcd \/ Drawing \/ Testing
  <2>1. UNCHANGED call /\ at' \notin DivisionPlaces
    BY <1>7, GcdGoes, DrawingGoes, TestingGoes DEF DivisionPlaces, TestPlaces
  <2>2. call.fn \in {"zgcd", "zrand", "zptest"}
    BY <1>7, GcdGoes, DrawingGoes, TestingGoes DEF Control, Caller, TestPlaces, Functions
  <2>. QED
    BY <1>1, <2>1, <2>2 DEF Divisions
<1>8. CASE UNCHANGED vars
  BY <1>8 DEF vars, Division, Numerator, Denominator, Was, P, Shifts, Developed, DivisionArg, Fourth
<1>. QED
  BY <1>3, <1>4, <1>5, <1>6, <1>7, <1>8 DEF Next, Function

-----------------------------------------------------------------------------
(* Random numbers are in their range.                                      *)

(* What the mask of the top limb leaves: all the bits of the bound, unless *)
(* they fill that limb.                                                    *)
LEMMA DrawableNumbers ==
  ASSUME NEW bits \in Nat \ {0}
  PROVE  \E e \in Nat : /\ e <= bits /\ Drawable(bits) = 0 .. 2 ^ e - 1
                        /\ bits % BitsPerChar # 0 => e = bits
<1>. DEFINE B == BitsPerChar
            q == bits \div B
            r == bits % B
            chars == (bits + B - 1) \div B
            e == (chars - 1) * B + (bits % B)
<1>1. B \in Nat \ {0}
  BY LimbAssumption
<1>. HIDE DEF B
<1>2. q \in Nat /\ r \in 0 .. B - 1 /\ bits = B * q + r
  <2>1. bits \in Int /\ bits >= 0
    OBVIOUS
  <2>. QED
    BY <1>1, <2>1, DivMod
<1>3. CASE r = 0
  <2>. DEFINE top == B - 1
  <2>1. bits + B - 1 = q * B + top /\ top \in 0 .. B - 1 /\ q \in Int
    BY <1>1, <1>2, <1>3
  <2>2. (q * B + top) \div B = q
    <3>. HIDE DEF q, top
    <3>. QED
      BY <1>1, <2>1, DivUnique
  <2>3. chars = q
    BY <2>1, <2>2
  <2>4. q >= 1
    <3>. SUFFICES ASSUME q = 0 PROVE FALSE
      BY <1>2
    <3>. QED
      BY <1>1, <1>2, <1>3
  <2>5. (q - 1) * B = B * q - B /\ (q - 1) * B >= 0
    BY <1>1, <1>2, <2>4
  <2>6. e \in 0 .. bits
    BY <1>1, <1>2, <1>3, <2>3, <2>5
  <2>7. bits % BitsPerChar = 0 /\ Drawable(bits) = 0 .. 2 ^ e - 1
    BY <1>3 DEF Drawable, B
  <2>. HIDE DEF e
  <2>. QED
    BY <2>6, <2>7
<1>4. CASE r # 0
  <2>1. bits + B - 1 = (q + 1) * B + (r - 1) /\ r - 1 \in 0 .. B - 1 /\ q + 1 \in Int
    BY <1>1, <1>2, <1>4
  <2>2. ((q + 1) * B + (r - 1)) \div B = q + 1
    BY <1>1, <2>1, DivUnique
  <2>3. chars = q + 1
    BY <2>1, <2>2
  <2>4. e = bits
    BY <1>1, <1>2, <2>3
  <2>5. Drawable(bits) = 0 .. 2 ^ bits - 1
    BY <2>4 DEF Drawable, B
  <2>. QED
    BY <2>5
<1>. QED
  BY <1>3, <1>4

(* What is drawn, brought into the range.                                  *)
LEMMA BroughtIntoRange ==
  ASSUME NEW b \in Nat \ {0}, NEW r \in 0 .. 2 ^ Bits(b) - 1
  PROVE  /\ ShiftDown((r + 1) * b, Bits(b)) \in 0 .. b
         /\ r > b => r - b \in 0 .. b
<1>. DEFINE n == Bits(b)
            p == 2 ^ n
            a == (r + 1) * b
<1>1. n \in Nat /\ n >= 1 /\ 2 ^ (n - 1) <= b /\ b < p
  BY BitsOf DEF Abs
<1>2. p \in Nat \ {0} /\ p = 2 * 2 ^ (n - 1) /\ 2 ^ (n - 1) \in Nat
  BY <1>1, Positive, Doubling
<1>. HIDE DEF n, p
<1>3. r \in Nat /\ r + 1 <= p
  BY <1>2 DEF p, n
<1>4. a \in Nat /\ a <= p * b
  BY <1>2, <1>3
<1>. HIDE DEF a
<1>5. ShiftDown(a, n) = a \div p
  BY <1>1, <1>4, Shifting DEF p
<1>6. a \div p \in Nat /\ a % p \in 0 .. p - 1 /\ a = p * (a \div p) + (a % p)
  <2>1. a \in Int /\ a >= 0
    BY <1>4
  <2>. QED
    BY <1>2, <2>1, DivMod
<1>7. a \div p <= b
  <2>. DEFINE q == a \div p
  <2>. HIDE DEF q
  <2>1. q \in Nat /\ p * q <= p * b
    BY <1>2, <1>4, <1>6 DEF q
  <2>2. ~ (q >= b + 1)
    <3>. SUFFICES ASSUME q >= b + 1 PROVE FALSE
      OBVIOUS
    <3>1. p * q >= p * (b + 1)
      BY <1>2, <2>1
    <3>2. p * (b + 1) = p * b + p
      BY <1>2
    <3>. QED
      BY <1>2, <2>1, <3>1, <3>2
  <2>. QED
    BY <2>1, <2>2 DEF q
<1>8. ASSUME r > b PROVE r - b \in 0 .. b
  BY <1>1, <1>2, <1>3, <1>8
<1>. QED
  BY <1>5, <1>6, <1>7, <1>8 DEF a, n

(* Every number that may be drawn can be represented in the bits of the    *)
(* bound, and unless the bound fills its last limb, all up to the bound    *)
(* may be.                                                                 *)
LEMMA DrawnBits ==
  ASSUME NEW b \in Nat \ {0}
  PROVE  /\ \A r \in Drawable(Bits(b)) : r \in 0 .. 2 ^ Bits(b) - 1
         /\ ~ FillsLimb(b) => 0 .. b \subseteq Drawable(Bits(b))
<1>. DEFINE Below(n) == 0 .. 2 ^ n - 1
            Open(n)  == n % BitsPerChar # 0
<1>1. ASSUME NEW n \in Nat, b < 2 ^ n, NEW e \in Nat, e <= n,
             Drawable(n) = Below(e), Open(n) => e = n
      PROVE  Drawable(n) \subseteq Below(n) /\ (Open(n) => 0 .. b \subseteq Drawable(n))
  <2>1. 2 ^ e <= 2 ^ n /\ 2 ^ e \in Nat /\ 2 ^ n \in Nat
    BY <1>1, Monotone, Positive
  <2>2. Below(e) \subseteq Below(n)
    BY <2>1
  <2>3. 0 .. b \subseteq Below(n)
    BY <1>1, <2>1
  <2>. HIDE DEF Below, Open
  <2>. QED
    BY <1>1, <2>2, <2>3
<1>2. Bits(b) \in Nat /\ Bits(b) \in Nat \ {0} /\ b < 2 ^ Bits(b)
  BY BitsOf DEF Abs
<1>3. \E e \in Nat : /\ e <= Bits(b) /\ Drawable(Bits(b)) = Below(e)
                     /\ Open(Bits(b)) => e = Bits(b)
  BY <1>2, DrawableNumbers
<1>4. ~ FillsLimb(b) => Open(Bits(b))
  <2>1. b > 0
    OBVIOUS
  <2>. QED
    BY <2>1, Zenon DEF FillsLimb
<1>. HIDE DEF Below, Open
<1>5. /\ Drawable(Bits(b)) \subseteq Below(Bits(b))
      /\ Open(Bits(b)) => 0 .. b \subseteq Drawable(Bits(b))
  BY <1>1, <1>2, <1>3
<1>6. \A r \in Drawable(Bits(b)) : r \in Below(Bits(b))
  BY <1>5
<1>. QED
  BY <1>4, <1>5, <1>6, Zenon DEF Below

(* The bound of zrand, while it draws.                                     *)
LEMMA Bound ==
  ASSUME Control, Values, at \in {"draw", "drawn"}
  PROVE  Was("b") \in Nat \ {0} /\ loc.bits = Bits(Was("b"))
<1>1. call \in Calls /\ call.fn = "zrand" /\ call.arg.b \in Reg
  BY OwnParameters
<1>2. Was("b") \in Int
  BY <1>1, CallIs DEF Was
<1>. QED
  BY <1>2 DEF Values

(* Every step keeps what is known of random numbers.                       *)
LEMMA DrawnStep ==
  ASSUME Control, Values, Unstored, Drawn, [Next]_vars, Values'
  PROVE  Drawn'
<1>1. ASSUME at' \notin {"draw", "drawn"}, at' = "returned" => call'.fn # "zrand"
      PROVE  Drawn'
  BY <1>1 DEF Drawn, RandomRight, Returned, Is
<1>2. CASE Ask
  <2>1. PICK c \in Calls : at' = c.fn
    BY <1>2, CallAssumption DEF Ask
  <2>2. c.fn \in Functions
    BY CallIs
  <2>. QED
    BY <1>1, <2>1, <2>2 DEF Functions
<1>3. CASE Resume
  BY <1>1, <1>3 DEF Resume
<1>4. CASE Dividing \/ Raising \/ Gcd \/ Testing
  <2>1. UNCHANGED call /\ at' \notin {"draw", "drawn"}
    BY <1>4, DividingGoes, RaisingGoes, GcdGoes, TestingGoes DEF DivisionPlaces, LimbPlaces, TestPlaces
  <2>2. call.fn # "zrand"
    <3>1. CASE Dividing
      BY <3>1 DEF Dividing, ZdivZmod, ModMultiply, DivideByZero, DivideSmall, DivideLong, QuotientBit,
                  Control, Caller, DivisionPlaces, Divisions, Functions
    <3>2. CASE Raising \/ Gcd \/ Testing
      BY <3>2, RaisingGoes, GcdGoes, TestingGoes
         DEF Control, Caller, AtPower, LimbPlaces, TestPlaces, Functions
    <3>. QED
      BY <1>4, <3>1, <3>2
  <2>. QED
    BY <1>1, <2>1, <2>2
<1>5. CASE Drawing
  <2>1. UNCHANGED call /\ at \in {"zrand", "draw", "drawn"} /\ at' \in {"draw", "drawn", "returned", "failed"}
    BY <1>5, DrawingGoes
  <2>2. /\ call \in Calls /\ arg = call.arg /\ call.fn = "zrand"
        /\ arg.a \in Reg /\ arg.b \in Reg /\ Reg \subseteq Names
    BY <2>1, OwnParameters
  <2>3. num \in [Names -> Int] /\ Was("b")' = Was("b") /\ Was("b") \in Int
    BY <2>1, <2>2, CallIs DEF Values, Was
  <2>4. arg.a # arg.b \/ at = "zrand" => P("b") = Was("b")
    BY <2>1, <2>2 DEF Unstored, Stored, P, Was, Outside, DivisionPlaces, LimbPlaces
  <2>5. ASSUME NEW v \in Int, num' = arg.a :> v @@ num
        PROVE  num'[arg.a] = v
    <3>. DEFINE a == arg.a
    <3>1. a \in Names /\ num' = a :> v @@ num
      BY <2>2, <2>5
    <3>. HIDE DEF a
    <3>2. num'[a] = v
      BY <2>3, <3>1, StoreOne
    <3>. QED
      BY <3>2 DEF a
  <2>6. CASE at' = "failed"
    BY <1>1, <2>6
  <2>7. CASE at' = "draw"
    <3>1. Was("b") \in Nat \ {0} /\ loc'.bits = Bits(Was("b"))
      BY <2>3, <2>7 DEF Values
    <3>2. ~ FillsLimb(Was("b")) => 0 .. Was("b") \subseteq Drawable(loc'.bits)
      BY <3>1, DrawnBits
    <3>3. ~ FillsLimb(Was("b"))' => (0 .. Was("b") \subseteq Drawable(loc.bits))'
      BY <2>3, <3>2 DEF FillsLimb, Drawable
    <3>. QED
      BY <2>7, <3>3 DEF Drawn, RandomRight, Returned, Is
  <2>8. CASE at' = "drawn"
    <3>1. DrawInRange
      BY <1>5, <2>8 DEF Drawing, PrepareRandom, DrawAgain, DrawFails, RandomDone, Return, Goto,
                        Fail, NoRoomFor, FailHaving
    <3>2. PICK r \in Drawable(loc.bits) : ~ Retry(r) /\ num' = arg.a :> r @@ num
      BY <3>1 DEF DrawInRange, SetNum
    <3>3. UNCHANGED <<arg, loc>> /\ at = "draw"
      BY <3>1 DEF DrawInRange
    <3>4. Was("b") \in Nat \ {0} /\ loc.bits = Bits(Was("b"))
      BY <3>3, Bound
    <3>5. r \in 0 .. 2 ^ loc.bits - 1
      BY <3>2, <3>4, DrawnBits
    <3>6. num'[arg.a] = r
      BY <2>5, <3>2, <3>5
    <3>7. call.dist = "UNIFORM" /\ arg.a # arg.b => ~ (r > Was("b"))
      BY <2>4, <3>2 DEF Retry, OutOfRange
    <3>8. call.dist = "UNIFORM" /\ arg.a # arg.b => r <= Was("b")
      BY <3>4, <3>5, <3>7
    <3>. QED
      BY <2>1, <2>3, <2>8, <3>3, <3>5, <3>6, <3>8 DEF Drawn, RandomRight, Returned, Is
  <2>9. CASE at' = "returned"
    <3>. SUFFICES ASSUME arg.a # arg.b PROVE num'[arg.a] \in 0 .. Was("b")
      BY <2>1, <2>2, <2>3, <2>9 DEF Drawn, RandomRight, Returned, Is
    <3>1. CASE PrepareRandom
      <4>1. P("b") = 0 /\ num' = arg.a :> 0 @@ num /\ at = "zrand"
        BY <2>9, <3>1 DEF PrepareRandom, SetNum, Fail
      <4>2. num'[arg.a] = 0
        BY <2>5, <4>1
      <4>. QED
        BY <2>4, <4>1, <4>2
    <3>2. CASE RandomDone
      <4>. DEFINE r == P("a")
                  b == P("b")
                  scale == IF arg.a = arg.b THEN r + 1 ELSE b
                  v == CASE call.dist = "UNIFORM" -> r
                         [] call.dist = "QUASIUNIFORM" -> ShiftDown((r + 1) * scale, loc.bits)
                         [] OTHER -> IF OutOfRange(r) THEN r - b ELSE r
      <4>1. at = "drawn" /\ num' = arg.a :> v @@ num
        BY <2>9, <3>2 DEF RandomDone, SetNum, NoRoomFor, FailHaving
      <4>2. b = Was("b") /\ b \in Nat \ {0} /\ loc.bits = Bits(b)
        BY <2>4, <4>1, Bound
      <4>3. r \in 0 .. 2 ^ Bits(b) - 1 /\ (call.dist = "UNIFORM" => r <= b)
        BY <4>1, <4>2 DEF Drawn, P
      <4>4. OutOfRange(r) <=> r > b
        BY DEF OutOfRange
      <4>5. scale = b
        OBVIOUS
      <4>. HIDE DEF r, b, scale
      <4>6. ShiftDown((r + 1) * scale, loc.bits) \in 0 .. b /\ (r > b => r - b \in 0 .. b)
        BY <4>2, <4>3, <4>5, BroughtIntoRange
      <4>7. ~ (r > b) => r \in 0 .. b
        BY <4>2, <4>3
      <4>8. v \in 0 .. b
        <5>1. CASE call.dist = "UNIFORM"
          BY <4>2, <4>3, <5>1
        <5>2. CASE call.dist # "UNIFORM" /\ call.dist = "QUASIUNIFORM"
          BY <4>6, <5>2
        <5>3. CASE call.dist # "UNIFORM" /\ call.dist # "QUASIUNIFORM"
          BY <4>4, <4>6, <4>7, <5>3
        <5>. QED
          BY <5>1, <5>2, <5>3
      <4>. HIDE DEF v
      <4>9. num'[arg.a] = v
        BY <2>5, <4>1, <4>2, <4>8
      <4>. QED
        BY <4>2, <4>8, <4>9
    <3>. QED
      BY <1>5, <2>9, <3>1, <3>2 DEF Drawing, DrawAgain, DrawInRange, DrawFails, Goto, NoRoomFor, FailHaving
  <2>. QED
    BY <2>1, <2>6, <2>7, <2>8, <2>9
<1>6. CASE UNCHANGED vars
  BY <1>6 DEF vars, Drawn, RandomRight, Returned, Is, Was, FillsLimb, Drawable
<1>. QED
  BY <1>2, <1>3, <1>4, <1>5, <1>6 DEF Next, Function

-----------------------------------------------------------------------------
(* The greatest common divisor is right.                                   *)

(* A number that goes into another.                                        *)
GoesInto(k, n) == \E t \in Nat : n = k * t

(* The same numbers go into both of two pairs.                             *)
SameDivisors(m, n, i, j) ==
  \A k \in Nat \ {0} : GoesInto(k, m) /\ GoesInto(k, n) <=> GoesInto(k, i) /\ GoesInto(k, j)

(* It goes in without a remainder.                                         *)
LEMMA GoesIntoDivides ==
  ASSUME NEW n \in Int, NEW k \in Nat \ {0}
  PROVE  Divides(k, n) <=> GoesInto(k, Abs(n))
<1>. DEFINE m == Abs(n)
<1>1. m \in Nat
  BY Magnitude
<1>2. Divides(k, n) <=> m % k = 0
  BY DEF Divides
<1>. HIDE DEF m
<1>3. m \div k \in Nat /\ m = k * (m \div k) + (m % k) /\ m % k \in 0 .. k - 1
  <2>1. m \in Int /\ m >= 0
    BY <1>1
  <2>. QED
    BY ONLY <2>1, k \in Nat \ {0}, DivMod
<1>4. m % k = 0 => GoesInto(k, m)
  BY <1>1, <1>3 DEF GoesInto
<1>5. ASSUME NEW t \in Nat, m = k * t PROVE m % k = 0
  <2>1. (t * k + 0) % k = 0
    BY DivUnique
  <2>2. t * k + 0 = m
    BY <1>5
  <2>. QED
    BY <2>1, <2>2
<1>. QED
  BY <1>2, <1>4, <1>5 DEF GoesInto, m

(* What goes into a number goes into its multiples, into sums and into     *)
(* differences.                                                            *)
LEMMA IntoMultiple ==
  ASSUME NEW k \in Nat, NEW n \in Nat, NEW i \in Nat, GoesInto(k, n)
  PROVE  GoesInto(k, n * i)
<1>1. PICK t \in Nat : n = k * t
  BY DEF GoesInto
<1>2. n * i = k * (t * i) /\ t * i \in Nat
  BY <1>1
<1>. QED
  BY <1>2 DEF GoesInto

LEMMA IntoSum ==
  ASSUME NEW k \in Nat, NEW m \in Nat, NEW n \in Nat, GoesInto(k, m), GoesInto(k, n)
  PROVE  GoesInto(k, m + n)
<1>1. PICK s \in Nat, t \in Nat : m = k * s /\ n = k * t
  BY DEF GoesInto
<1>2. m + n = k * (s + t) /\ s + t \in Nat
  BY <1>1
<1>. QED
  BY <1>2 DEF GoesInto

LEMMA IntoDifference ==
  ASSUME NEW k \in Nat \ {0}, NEW m \in Nat, NEW n \in Nat, m <= n, GoesInto(k, m), GoesInto(k, n)
  PROVE  GoesInto(k, n - m)
<1>1. PICK s \in Nat, t \in Nat : m = k * s /\ n = k * t
  BY DEF GoesInto
<1>2. n - m = k * (t - s)
  BY <1>1
<1>3. ~ (t - s <= -1)
  <2>1. t - s <= -1 => k * (t - s) <= - k
    OBVIOUS
  <2>. QED
    BY <1>2, <2>1
<1>4. t - s \in Nat
  BY <1>3
<1>. QED
  BY <1>2, <1>4 DEF GoesInto

(* What goes into a number that is not 0 is not greater.                   *)
LEMMA IntoAtMost ==
  ASSUME NEW k \in Nat, NEW n \in Nat \ {0}, GoesInto(k, n)
  PROVE  k <= n
<1>1. PICK t \in Nat : n = k * t
  BY DEF GoesInto
<1>2. t # 0
  BY <1>1
<1>3. k * t >= k
  BY <1>2
<1>. QED
  BY <1>1, <1>3

(* An odd number that goes into a double goes into the half.               *)
LEMMA OddIntoDouble ==
  ASSUME NEW o \in Nat, o % 2 = 1, NEW n \in Nat, GoesInto(o, 2 * n)
  PROVE  GoesInto(o, n)
<1>1. PICK t \in Nat : 2 * n = o * t
  BY DEF GoesInto
<1>. DEFINE h == o \div 2
            i == t \div 2
<1>2. o = 2 * h + 1 /\ h \in Nat
  OBVIOUS
<1>3. t = 2 * i + (t % 2) /\ i \in Nat /\ t % 2 \in {0, 1}
  OBVIOUS
<1>. HIDE DEF h, i
<1>4. t % 2 = 0
  <2>. SUFFICES ASSUME t % 2 = 1 PROVE FALSE
    BY <1>3
  <2>1. t = 2 * i + 1
    BY <1>3
  <2>2. (2 * h + 1) * (2 * i + 1) = 2 * (2 * (h * i) + h + i) + 1
    BY <1>2, <1>3
  <2>. DEFINE j == 2 * (h * i) + h + i
  <2>3. j \in Nat /\ o * t = 2 * j + 1
    BY <1>2, <1>3, <2>1, <2>2
  <2>. HIDE DEF j
  <2>4. 2 * n = 2 * j + 1
    BY <1>1, <2>3
  <2>. QED
    BY <2>3, <2>4
<1>5. t = 2 * i
  BY <1>3, <1>4
<1>6. 2 * n = 2 * (o * i)
  BY <1>1, <1>3, <1>5
<1>. DEFINE j == o * i
<1>7. j \in Nat
  BY <1>3
<1>8. 2 * n = 2 * j
  BY <1>6
<1>. HIDE DEF j
<1>9. n = j
  BY <1>7, <1>8
<1>. QED
  BY <1>3, <1>9 DEF GoesInto, j

(* If it goes into a number that has been shifted up, then into the number. *)
LEMMA OddIntoShifted ==
  ASSUME NEW o \in Nat, o % 2 = 1, NEW n \in Nat, NEW l \in Nat, GoesInto(o, n * 2 ^ l)
  PROVE  GoesInto(o, n)
<1>. DEFINE T == { i \in Nat : GoesInto(o, n * 2 ^ i) }
<1>1. l \in T
  OBVIOUS
<1>2. PICK i \in T : \A j \in T : i <= j
  BY <1>1, Least
<1>3. CASE i = 0
  <2>1. 2 ^ 0 = 1
    OBVIOUS
  <2>2. n * 2 ^ i = n
    BY <1>3, <2>1
  <2>. QED
    BY <1>2, <2>2
<1>4. CASE i # 0
  <2>. DEFINE j == i - 1
              p == 2 ^ j
  <2>1. j \in Nat /\ i = j + 1 /\ j \notin T
    BY <1>2, <1>4
  <2>2. 2 ^ (j + 1) = 2 * p /\ p \in Nat
    BY <2>1, Doubling, Positive
  <2>3. GoesInto(o, n * 2 ^ (j + 1))
    BY <1>2, <2>1
  <2>4. ~ GoesInto(o, n * p)
    BY <2>1
  <2>. HIDE DEF p, T
  <2>5. n * (2 * p) = 2 * (n * p) /\ n * p \in Nat
    BY <2>2
  <2>6. GoesInto(o, 2 * (n * p))
    BY <2>2, <2>3, <2>5
  <2>. QED
    BY <2>4, <2>5, <2>6, OddIntoDouble
<1>. QED
  BY <1>3, <1>4

(* What goes into an odd number shifted up, and into another shifted up by *)
(* more, goes into that shifted up by as much only.                        *)
LEMMA CommonOfShifted ==
  ASSUME NEW u \in Nat, u % 2 = 1, NEW v \in Nat, NEW s \in Nat, NEW l \in Nat, NEW k \in Nat \ {0},
         GoesInto(k, u * 2 ^ s), GoesInto(k, v * 2 ^ (s + l))
  PROVE  GoesInto(k, v * 2 ^ s)
<1>. DEFINE e == Lsb(k)
            o == ShiftDown(Abs(k), e)
            p == 2 ^ e
            q == 2 ^ s
<1>1. e \in Nat /\ o \in Nat /\ o % 2 = 1 /\ k = o * p
  BY OddAndPower, LsbOf, Magnitude
<1>2. p \in Nat \ {0} /\ q \in Nat \ {0}
  BY <1>1, Positive
<1>. HIDE DEF e, o
<1>3. e <= s
  <2>. SUFFICES ASSUME ~ (e <= s) PROVE FALSE
    OBVIOUS
  <2>. DEFINE f == e - (s + 1)
              r == 2 ^ f
  <2>1. f \in Nat /\ e = (s + 1) + f
    BY <1>1
  <2>2. r \in Nat /\ 2 ^ ((s + 1) + f) = 2 ^ (s + 1) * r /\ 2 ^ (s + 1) = 2 * q
    <3>1. s + 1 \in Nat
      OBVIOUS
    <3>2. 2 ^ ((s + 1) + f) = 2 ^ (s + 1) * 2 ^ f
      BY <2>1, <3>1, PowerOfSum, Zenon
    <3>3. 2 ^ (s + 1) = 2 * 2 ^ s
      BY Doubling
    <3>. QED
      BY <2>1, <3>2, <3>3, Positive
  <2>3. p = 2 * q * r
    BY <2>1, <2>2
  <2>4. PICK t \in Nat : u * q = k * t
    BY DEF GoesInto
  <2>. HIDE DEF p, q, r, f
  <2>5. k * t = q * (2 * (o * r * t)) /\ o * r * t \in Nat
    BY <1>1, <1>2, <2>2, <2>3
  <2>. DEFINE x == o * r * t
  <2>6. q * u = q * (2 * x) /\ x \in Nat
    BY <1>2, <2>4, <2>5
  <2>. HIDE DEF x
  <2>7. u = 2 * x
    <3>1. q * (u - 2 * x) = 0
      BY <1>2, <2>6
    <3>2. u - 2 * x >= 1 => q * (u - 2 * x) >= 1
      BY <1>2, <2>6
    <3>3. u - 2 * x <= -1 => q * (u - 2 * x) <= -1
      BY <1>2, <2>6
    <3>. QED
      BY <2>6, <3>1, <3>2, <3>3
  <2>. QED
    BY <2>6, <2>7
<1>. DEFINE r == 2 ^ (s - e)
<1>4. s - e \in Nat /\ e + (s - e) = s
  BY <1>1, <1>3
<1>5. r \in Nat /\ q = p * r
  <2>1. r \in Nat
    BY <1>4, Positive
  <2>2. 2 ^ (e + (s - e)) = p * r
    BY <1>1, <1>4, PowerOfSum
  <2>. QED
    BY <1>4, <2>1, <2>2
<1>6. GoesInto(o, v * 2 ^ (s + l))
  <2>1. PICK t \in Nat : v * 2 ^ (s + l) = k * t
    BY DEF GoesInto
  <2>2. k * t = o * (p * t) /\ p * t \in Nat
    BY <1>1, <1>2
  <2>. QED
    BY <2>1, <2>2 DEF GoesInto
<1>7. GoesInto(o, v)
  <2>1. s + l \in Nat
    OBVIOUS
  <2>. QED
    BY <1>1, <1>6, <2>1, OddIntoShifted
<1>8. PICK t \in Nat : v = o * t
  BY <1>7 DEF GoesInto
<1>. HIDE DEF p, q, r
<1>9. v * q = k * (t * r) /\ t * r \in Nat
  BY <1>1, <1>2, <1>5, <1>8
<1>. QED
  BY <1>9 DEF GoesInto, q

(* So the zeros below an odd number need not be in the other.              *)
LEMMA SameOfShifted ==
  ASSUME NEW u \in Nat, u % 2 = 1, NEW v \in Nat, NEW s \in Nat, NEW l \in Nat
  PROVE  SameDivisors(u * 2 ^ s, v * 2 ^ (s + l), u * 2 ^ s, v * 2 ^ s)
<1>. SUFFICES ASSUME NEW k \in Nat \ {0}, GoesInto(k, u * 2 ^ s)
              PROVE  GoesInto(k, v * 2 ^ (s + l)) <=> GoesInto(k, v * 2 ^ s)
  BY DEF SameDivisors
<1>. DEFINE p == 2 ^ s
            q == 2 ^ l
<1>1. 2 ^ (s + l) = p * q /\ p \in Nat /\ q \in Nat
  BY Positive, PowerOfSum
<1>2. ASSUME GoesInto(k, v * p) PROVE GoesInto(k, v * 2 ^ (s + l))
  <2>. HIDE DEF p, q
  <2>1. v * p \in Nat /\ v * (p * q) = (v * p) * q
    BY <1>1
  <2>2. GoesInto(k, (v * p) * q)
    BY <1>1, <1>2, <2>1, IntoMultiple
  <2>. QED
    BY <1>1, <2>1, <2>2
<1>. QED
  BY <1>2, CommonOfShifted

(* Without the zeros they do not have in common, the magnitudes have the   *)
(* divisors in common that they had.                                       *)
LEMMA GcdBegins ==
  ASSUME NEW b \in Int \ {0}, NEW c \in Int \ {0}
  PROVE  LET u == ShiftDown(Abs(b), Lsb(b))
             v == ShiftDown(Abs(c), Lsb(c))
             s == CommonZeros(b, c)
         IN  /\ u \in Nat /\ u % 2 = 1 /\ v \in Nat /\ v % 2 = 1 /\ s \in Nat
             /\ SameDivisors(Abs(b), Abs(c), u * 2 ^ s, v * 2 ^ s)
<1>. DEFINE u == ShiftDown(Abs(b), Lsb(b))
            v == ShiftDown(Abs(c), Lsb(c))
            s == CommonZeros(b, c)
            m == Lsb(b)
            n == Lsb(c)
<1>1. /\ u \in Nat /\ u % 2 = 1 /\ Abs(b) = u * 2 ^ m /\ m \in Nat
      /\ v \in Nat /\ v % 2 = 1 /\ Abs(c) = v * 2 ^ n /\ n \in Nat
  BY OddAndPower, LsbOf
<1>2. s = IF m < n THEN m ELSE n
  BY DEF CommonZeros, Min2
<1>. HIDE DEF u, v, s, m, n
<1>3. CASE m < n
  <2>1. n - m \in Nat /\ n = m + (n - m) /\ s = m
    BY <1>1, <1>2, <1>3
  <2>2. SameDivisors(u * 2 ^ m, v * 2 ^ (m + (n - m)), u * 2 ^ m, v * 2 ^ m)
    BY <1>1, <2>1, SameOfShifted
  <2>. QED
    BY <1>1, <2>1, <2>2 DEF u, v, s
<1>4. CASE ~ (m < n)
  <2>1. m - n \in Nat /\ m = n + (m - n) /\ s = n
    BY <1>1, <1>2, <1>4
  <2>2. SameDivisors(v * 2 ^ n, u * 2 ^ (n + (m - n)), v * 2 ^ n, u * 2 ^ n)
    BY <1>1, <2>1, SameOfShifted
  <2>3. SameDivisors(u * 2 ^ m, v * 2 ^ n, u * 2 ^ n, v * 2 ^ n)
    BY <2>1, <2>2, Zenon DEF SameDivisors
  <2>. QED
    BY <1>1, <2>1, <2>3 DEF u, v, s
<1>. QED
  BY <1>3, <1>4

(* Nor do they lose any when the smaller one is subtracted and the zeros   *)
(* below are shifted out.                                                  *)
LEMMA GcdReduces ==
  ASSUME NEW u \in Nat, u % 2 = 1, NEW v \in Nat, v % 2 = 1, u < v, NEW s \in Nat
  PROVE  LET w == ShiftDown(v - u, Lsb(v - u))
         IN  /\ w \in Nat /\ w % 2 = 1
             /\ SameDivisors(u * 2 ^ s, v * 2 ^ s, u * 2 ^ s, w * 2 ^ s)
<1>. DEFINE rest == v - u
            l == Lsb(rest)
            w == ShiftDown(rest, l)
            p == 2 ^ s
            q == 2 ^ l
<1>1. rest \in Nat \ {0} /\ v = u + rest
  OBVIOUS
<1>2. w \in Nat /\ w % 2 = 1 /\ rest = w * q /\ l \in Nat
  BY <1>1, OddAndPower, LsbOf, Magnitude
<1>3. p \in Nat /\ q \in Nat /\ 2 ^ (s + l) = p * q
  BY <1>2, Positive, PowerOfSum
<1>. HIDE DEF rest, l, w, p, q
<1>4. rest * p = w * 2 ^ (s + l) /\ v * p = u * p + rest * p
  BY <1>1, <1>2, <1>3
<1>5. u * p \in Nat /\ v * p \in Nat /\ rest * p \in Nat /\ u * p <= v * p /\ rest * p = v * p - u * p
  BY <1>1, <1>3, <1>4
<1>. DEFINE i == u * p
            j == v * p
            h == rest * p
<1>6. ASSUME NEW k \in Nat \ {0}, GoesInto(k, i), GoesInto(k, j) PROVE GoesInto(k, h)
  <2>. HIDE DEF i, j, h
  <2>1. i \in Nat /\ j \in Nat /\ i <= j /\ h = j - i
    BY <1>5 DEF i, j, h
  <2>. QED
    BY <1>6, <2>1, IntoDifference
<1>7. ASSUME NEW k \in Nat \ {0}, GoesInto(k, i), GoesInto(k, h) PROVE GoesInto(k, j)
  <2>. HIDE DEF i, j, h
  <2>1. i \in Nat /\ h \in Nat /\ j = i + h
    BY <1>4, <1>5 DEF i, j, h
  <2>. QED
    BY <1>7, <2>1, IntoSum
<1>8. SameDivisors(u * p, w * 2 ^ (s + l), u * p, w * p)
  BY <1>2, SameOfShifted DEF p
<1>9. SameDivisors(i, h, i, w * p)
  BY <1>4, <1>8
<1>. HIDE DEF i, j, h
<1>10. SameDivisors(i, j, i, w * p)
  BY <1>6, <1>7, <1>9, Zenon DEF SameDivisors
<1>. QED
  BY <1>2, <1>10 DEF i, j, w, l, rest, p

(* When both are the same, that is the greatest divisor.                   *)
LEMMA GcdFound ==
  ASSUME NEW b \in Int \ {0}, NEW c \in Int \ {0}, NEW u \in Nat, u % 2 = 1, NEW s \in Nat,
         SameDivisors(Abs(b), Abs(c), u * 2 ^ s, u * 2 ^ s),
         NEW sign \in {-1, 1}
  PROVE  LET g == sign * u * 2 ^ s
         IN  /\ g \in Int \ {0} /\ (g < 0 <=> sign = -1)
             /\ Divides(Abs(g), b) /\ Divides(Abs(g), c)
             /\ \A k \in Abs(g) + 1 .. Abs(b) + Abs(c) : ~ (Divides(k, b) /\ Divides(k, c))
<1>. DEFINE p == 2 ^ s
            g == sign * u * p
            n == u * p
<1>1. p \in Nat \ {0} /\ u \in Nat \ {0}
  BY Positive
<1>. HIDE DEF p
<1>2. n \in Nat \ {0}
  BY <1>1
<1>3. g = sign * n
  BY <1>1
<1>. HIDE DEF g, n
<1>4. g \in Int \ {0} /\ (g < 0 <=> sign = -1) /\ Abs(g) = n
  BY <1>2, <1>3 DEF Abs
<1>5. GoesInto(n, n)
  <2>1. n = n * 1
    BY <1>2
  <2>. QED
    BY <2>1 DEF GoesInto
<1>6. SameDivisors(Abs(b), Abs(c), n, n)
  BY DEF n, p
<1>7. Divides(n, b) /\ Divides(n, c)
  BY <1>2, <1>5, <1>6, GoesIntoDivides DEF SameDivisors
<1>8. ASSUME NEW k \in n + 1 .. Abs(b) + Abs(c), Divides(k, b), Divides(k, c) PROVE FALSE
  <2>1. k \in Nat \ {0} /\ k > n
    BY <1>2, <1>8, Magnitude
  <2>2. GoesInto(k, Abs(b)) /\ GoesInto(k, Abs(c))
    BY <1>8, <2>1, GoesIntoDivides
  <2>3. GoesInto(k, n)
    BY <1>6, <2>1, <2>2 DEF SameDivisors
  <2>4. k <= n
    BY <1>2, <2>1, <2>3, IntoAtMost
  <2>. QED
    BY <1>2, <2>1, <2>4
<1>. QED
  BY <1>4, <1>7, <1>8 DEF g, p

(* The invariant: zgcd.  Its two numbers are odd and have, with the zeros  *)
(* that were in common, the divisors in common that its operands have, as  *)
(* long as no inner limb has lent.                                         *)
CommonDivisors ==
  /\ at = "gcd" =>
       /\ Was("b") # 0 /\ Was("c") # 0
       /\ loc.shifts \in Nat /\ (loc.neg <=> Was("b") < 0 /\ Was("c") < 0)
       /\ num["u"] \in Nat /\ num["u"] % 2 = 1 /\ num["v"] \in Nat /\ num["v"] % 2 = 1
       /\ ~ loc.loan => SameDivisors(Abs(Was("b")), Abs(Was("c")),
                                     num["u"] * 2 ^ loc.shifts, num["v"] * 2 ^ loc.shifts)
  /\ GcdRight

(* zgcd works on the operands it was called with.                          *)
LEMMA GcdOperands ==
  ASSUME Control, Values, Unstored, Gcd
  PROVE  /\ num \in [Names -> Int] /\ call \in Calls /\ arg = call.arg /\ call.fn = "zgcd"
         /\ arg.a \in Names
         /\ Was("b") \in Int /\ Was("c") \in Int
         /\ P("b") = Was("b") /\ P("c") = Was("c")
         /\ UNCHANGED call /\ Was("b")' = Was("b") /\ Was("c")' = Was("c")
         /\ "u" \in Names /\ "v" \in Names
<1>1. at \in {"zgcd", "gcd"} /\ UNCHANGED call
  BY GcdGoes
<1>2. /\ call \in Calls /\ arg = call.arg /\ call.fn = "zgcd"
      /\ arg.a \in Reg /\ arg.b \in Reg /\ arg.c \in Reg /\ Reg \subseteq Names
  BY <1>1, OwnParameters
<1>3. \A n \in Reg : num[n] = call.val[n] /\ call.val[n] \in Int
  BY <1>1, <1>2, CallIs DEF Unstored, Stored, Outside, DivisionPlaces, LimbPlaces
<1>. QED
  BY <1>1, <1>2, <1>3 DEF Values, P, Was, Names, Dedicated

(* What zgcd stores when one of them is 0.                                 *)
LEMMA GcdOfNothingRight ==
  ASSUME Control, Values, Unstored, GcdOfNothing, at' = "returned"
  PROVE  GcdRight'
<1>. DEFINE a == arg.a
            b == Was("b")
            c == Was("c")
            g == IF P("b") = 0 THEN P("c") ELSE P("b")
<1>1. /\ num \in [Names -> Int] /\ a \in Names /\ b \in Int /\ c \in Int
      /\ P("b") = b /\ P("c") = c /\ b' = b /\ c' = c /\ arg = call.arg /\ UNCHANGED call
  BY GcdOperands DEF Gcd
<1>2. num' = a :> g @@ num /\ (b = 0 \/ c = 0)
  BY <1>1 DEF GcdOfNothing, SetNum, NoRoomFor, FailHaving
<1>3. Is("a")' = num'[a]
  BY <1>1 DEF Is
<1>4. g = IF b = 0 THEN c ELSE b
  BY <1>1
<1>. HIDE DEF a, b, c, g
<1>5. num'[a] = g
  BY <1>1, <1>2, <1>4, StoreOne
<1>6. CASE b = 0 /\ c = 0
  BY <1>1, <1>3, <1>4, <1>5, <1>6 DEF GcdRight, b, c
<1>7. CASE ~ (b = 0 /\ c = 0)
  <2>1. g \in Int \ {0} /\ Abs(g) \in Nat \ {0} /\ Abs(0) = 0
    BY <1>1, <1>2, <1>4, <1>7, Magnitude DEF Abs
  <2>2. Divides(Abs(g), g) /\ Divides(Abs(g), 0)
    <3>1. Abs(g) = Abs(g) * 1 /\ Abs(0) = Abs(g) * 0
      BY <2>1
    <3>2. GoesInto(Abs(g), Abs(g)) /\ GoesInto(Abs(g), Abs(0))
      BY <3>1 DEF GoesInto
    <3>. QED
      BY <2>1, <3>2, GoesIntoDivides
  <2>3. Divides(Abs(g), b) /\ Divides(Abs(g), c)
    BY <1>2, <1>4, <2>2
  <2>4. Abs(b) + Abs(c) = Abs(g)
    BY <1>2, <1>4, <2>1, <1>7
  <2>5. Abs(g) + 1 .. Abs(b) + Abs(c) = {}
    BY <2>1, <2>4
  <2>6. g < 0 <=> b <= 0 /\ c <= 0
    BY <1>1, <1>2, <1>4, <1>7
  <2>7. /\ g # 0 /\ Divides(Abs(g), b) /\ Divides(Abs(g), c)
        /\ \A k \in Abs(g) + 1 .. Abs(b) + Abs(c) : ~ (Divides(k, b) /\ Divides(k, c))
        /\ g < 0 <=> b <= 0 /\ c <= 0
        => GcdRight'
    BY <1>1, <1>3, <1>5, <1>7 DEF GcdRight, b, c
  <2>. QED
    BY <2>1, <2>3, <2>5, <2>6, <2>7
<1>. QED
  BY <1>6, <1>7

(* The two numbers are prepared.                                           *)
LEMMA GcdPrepared ==
  ASSUME Control, Values, Unstored, PrepareGcd, at' # "failed"
  PROVE  CommonDivisors'
<1>. DEFINE b == Was("b")
            c == Was("c")
            u == ShiftDown(Abs(b), Lsb(b))
            v == ShiftDown(Abs(c), Lsb(c))
            s == CommonZeros(b, c)
<1>1. /\ num \in [Names -> Int] /\ "u" \in Names /\ "v" \in Names /\ b \in Int /\ c \in Int
      /\ P("b") = b /\ P("c") = c /\ b' = b /\ c' = c
  BY GcdOperands DEF Gcd
<1>2. /\ b # 0 /\ c # 0 /\ at' = "gcd"
      /\ num' = ("u" :> u @@ "v" :> v) @@ num
      /\ loc' = [shifts |-> s, neg |-> b < 0 /\ c < 0, loan |-> FALSE] @@ loc
  BY <1>1 DEF PrepareGcd, SetNum, SetLoc, Goto, NoMemory, Fail
<1>3. loc'.shifts = s /\ (loc'.neg <=> b < 0 /\ c < 0)
  BY <1>2 DEF @@
<1>4. /\ u \in Nat /\ u % 2 = 1 /\ v \in Nat /\ v % 2 = 1 /\ s \in Nat
      /\ SameDivisors(Abs(b), Abs(c), u * 2 ^ s, v * 2 ^ s)
  BY <1>1, <1>2, GcdBegins
<1>. HIDE DEF u, v, s
<1>5. num'["u"] = u /\ num'["v"] = v
  <2>1. num \in [Names -> Int] /\ "u" \in Names /\ "v" \in Names /\ u \in Int /\ v \in Int
    BY <1>1, <1>4
  <2>2. num' = ("u" :> u @@ "v" :> v) @@ num
    BY <1>2
  <2>. QED
    BY ONLY <2>1, <2>2, StoreTwo
<1>6. GcdRight'
  BY <1>2 DEF GcdRight, Returned
<1>. QED
  BY <1>1, <1>2, <1>3, <1>4, <1>5, <1>6 DEF CommonDivisors

(* The difference takes the place of the greater one.                      *)
LEMMA GcdSubtracted ==
  ASSUME Control, Values, Unstored, CommonDivisors, SubtractAndShift
  PROVE  CommonDivisors'
<1>. DEFINE b == Was("b")
            c == Was("c")
            s == loc.shifts
            swap == num["u"] > num["v"]
            nu   == IF swap THEN "v" ELSE "u"
            nv   == IF swap THEN "u" ELSE "v"
            i == num[nu]
            j == num[nv]
<1>1. /\ num \in [Names -> Int] /\ "u" \in Names /\ "v" \in Names /\ b' = b /\ c' = c
  BY GcdOperands DEF Gcd
<1>2. at = "gcd" /\ at' = "gcd" /\ num["u"] # num["v"]
  BY DEF SubtractAndShift
<1>3. PICK rest \in Differences(j, i) : num' = ("u" :> i @@ "v" :> ShiftDown(rest, Lsb(rest))) @@ num
  BY DEF SubtractAndShift, SetNum
<1>. DEFINE w == ShiftDown(rest, Lsb(rest))
<1>4. /\ b # 0 /\ c # 0 /\ s \in Nat /\ (loc.neg <=> b < 0 /\ c < 0)
      /\ num["u"] \in Nat /\ num["u"] % 2 = 1 /\ num["v"] \in Nat /\ num["v"] % 2 = 1
      /\ ~ loc.loan => SameDivisors(Abs(b), Abs(c), num["u"] * 2 ^ s, num["v"] * 2 ^ s)
  BY <1>2 DEF CommonDivisors
<1>5. i \in Nat \ {0} /\ i % 2 = 1 /\ j \in Nat /\ j % 2 = 1 /\ i < j
  BY <1>2, <1>4 DEF Values
<1>6. ~ loc.loan => SameDivisors(Abs(b), Abs(c), i * 2 ^ s, j * 2 ^ s)
  <2>1. CASE swap
    BY <1>4, <2>1, Zenon DEF SameDivisors
  <2>2. CASE ~ swap
    BY <1>4, <2>2, Zenon
  <2>. QED
    BY <2>1, <2>2
<1>l. /\ loc'.shifts = s /\ loc'.neg = loc.neg
      /\ loc'.loan = (loc.loan \/ InnerLenders(j, i) # {})
  BY ShiftsKept
<1>. HIDE DEF b, c, s, i, j
<1>r. rest \in Nat \ {0} /\ (InnerLenders(j, i) = {} => rest = j - i)
  BY <1>3, <1>5, DifferencesOf
<1>7. /\ w \in Nat /\ w % 2 = 1
      /\ ~ loc'.loan => SameDivisors(i * 2 ^ s, j * 2 ^ s, i * 2 ^ s, w * 2 ^ s)
  <2>1. w \in Nat /\ w % 2 = 1
    BY <1>r, OddAndPower, Magnitude
  <2>2. rest = j - i => SameDivisors(i * 2 ^ s, j * 2 ^ s, i * 2 ^ s, w * 2 ^ s)
    BY <1>4, <1>5, GcdReduces
  <2>. QED
    BY <1>l, <1>r, <2>1, <2>2
<1>. HIDE DEF w
<1>8. ~ loc'.loan => SameDivisors(Abs(b), Abs(c), i * 2 ^ s, w * 2 ^ s)
  <2>1. ~ loc'.loan => ~ loc.loan
    BY <1>l
  <2>. QED
    BY <1>6, <1>7, <2>1, Zenon DEF SameDivisors
<1>9. num'["u"] = i /\ num'["v"] = w
  <2>1. num \in [Names -> Int] /\ "u" \in Names /\ "v" \in Names /\ i \in Int /\ w \in Int
    BY <1>1, <1>5, <1>7
  <2>2. num' = ("u" :> i @@ "v" :> w) @@ num
    BY <1>3 DEF w
  <2>. QED
    BY ONLY <2>1, <2>2, StoreTwo
<1>10. GcdRight'
  BY <1>2 DEF GcdRight, Returned
<1>11. loc'.neg <=> b < 0 /\ c < 0
  BY <1>4, <1>l
<1>. QED
  BY <1>1, <1>2, <1>4, <1>5, <1>l, <1>7, <1>8, <1>9, <1>10, <1>11 DEF CommonDivisors, b, c

(* Both are the same: what is stored is the greatest common divisor.       *)
LEMMA GcdStored ==
  ASSUME Control, Values, Unstored, CommonDivisors, GcdDone, at' = "returned"
  PROVE  GcdRight'
<1>. DEFINE a == arg.a
            b == Was("b")
            c == Was("c")
            u == num["u"]
            s == loc.shifts
            sign == IF loc.neg THEN -1 ELSE 1
            g == sign * u * 2 ^ s
<1>1. /\ num \in [Names -> Int] /\ a \in Names /\ b \in Int /\ c \in Int
      /\ b' = b /\ c' = c /\ arg = call.arg /\ UNCHANGED call
  BY GcdOperands DEF Gcd
<1>2. num' = a :> g @@ num /\ at = "gcd" /\ num["v"] = u
  BY DEF GcdDone, SetNum, NoRoomFor, FailHaving
<1>l. "loan" \in DOMAIN loc /\ UNCHANGED loc
  BY <1>2 DEF Values, GcdLocals, GcdDone, NoRoomFor, FailHaving
<1>o. SUFFICES ASSUME ~ loc.loan PROVE GcdRight'
  BY <1>l DEF GcdRight, Loan
<1>3. /\ b # 0 /\ c # 0 /\ s \in Nat /\ (loc.neg <=> b < 0 /\ c < 0)
      /\ u \in Nat /\ u % 2 = 1
      /\ SameDivisors(Abs(b), Abs(c), u * 2 ^ s, u * 2 ^ s)
  BY <1>2, <1>o DEF CommonDivisors
<1>4. sign \in {-1, 1} /\ (sign = -1 <=> b < 0 /\ c < 0)
  BY <1>3
<1>5. Is("a")' = num'[a]
  BY <1>1 DEF Is
<1>. HIDE DEF a, b, c, u, s, sign
<1>6. /\ g \in Int \ {0} /\ (g < 0 <=> sign = -1)
      /\ Divides(Abs(g), b) /\ Divides(Abs(g), c)
      /\ \A k \in Abs(g) + 1 .. Abs(b) + Abs(c) : ~ (Divides(k, b) /\ Divides(k, c))
  BY <1>1, <1>3, <1>4, GcdFound
<1>. HIDE DEF g
<1>7. num'[a] = g
  BY <1>1, <1>2, <1>6, StoreOne
<1>8. g < 0 <=> b <= 0 /\ c <= 0
  BY <1>1, <1>3, <1>4, <1>6
<1>9. /\ g # 0 /\ Divides(Abs(g), b) /\ Divides(Abs(g), c)
      /\ \A k \in Abs(g) + 1 .. Abs(b) + Abs(c) : ~ (Divides(k, b) /\ Divides(k, c))
      /\ g < 0 <=> b <= 0 /\ c <= 0
      => GcdRight'
  BY <1>1, <1>3, <1>5, <1>7 DEF GcdRight, b, c
<1>. QED
  BY <1>6, <1>8, <1>9

(* Every step keeps what is known of zgcd.                                 *)
LEMMA CommonDivisorsStep ==
  ASSUME Control, Values, Unstored, CommonDivisors, [Next]_vars
  PROVE  CommonDivisors'
<1>1. ASSUME at' # "gcd", at' = "returned" => call'.fn # "zgcd"
      PROVE  CommonDivisors'
  BY <1>1 DEF CommonDivisors, GcdRight, Returned
<1>2. CASE Ask
  <2>1. PICK c \in Calls : at' = c.fn
    BY <1>2, CallAssumption DEF Ask
  <2>2. c.fn \in Functions
    BY CallIs
  <2>. QED
    BY <1>1, <2>1, <2>2 DEF Functions
<1>3. CASE Resume
  BY <1>1, <1>3 DEF Resume
<1>4. CASE Dividing \/ Raising \/ Drawing \/ Testing
  <2>1. UNCHANGED call /\ at' # "gcd"
    BY <1>4, DividingGoes, RaisingGoes, DrawingGoes, TestingGoes DEF DivisionPlaces, LimbPlaces, TestPlaces
  <2>2. call.fn # "zgcd"
    <3>1. CASE Dividing
      BY <3>1 DEF Dividing, ZdivZmod, ModMultiply, DivideByZero, DivideSmall, DivideLong, QuotientBit,
                  Control, Caller, DivisionPlaces, Divisions, Functions
    <3>2. CASE Raising \/ Drawing \/ Testing
      BY <3>2, RaisingGoes, DrawingGoes, TestingGoes
         DEF Control, Caller, AtPower, LimbPlaces, TestPlaces, Functions
    <3>. QED
      BY <1>4, <3>1, <3>2
  <2>. QED
    BY <1>1, <2>1, <2>2
<1>5. CASE Gcd
  <2>1. at' \in {"gcd", "returned", "failed"}
    BY <1>5, GcdGoes
  <2>2. CASE at' = "failed"
    BY <1>1, <2>2
  <2>3. CASE at' = "returned"
    <3>1. GcdOfNothing \/ GcdDone
      BY <1>5, <2>3 DEF Gcd, PrepareGcd, SubtractAndShift, Goto, NoMemory, Fail
    <3>2. GcdRight'
      BY <2>3, <3>1, GcdOfNothingRight, GcdStored
    <3>. QED
      BY <2>3, <3>2 DEF CommonDivisors
  <2>4. CASE at' = "gcd"
    <3>1. PrepareGcd \/ SubtractAndShift
      BY <1>5, <2>4 DEF Gcd, GcdOfNothing, GcdDone, Return, Goto, NoRoomFor, FailHaving
    <3>. QED
      BY <2>4, <3>1, GcdPrepared, GcdSubtracted
  <2>. QED
    BY <2>1, <2>2, <2>3, <2>4
<1>6. CASE UNCHANGED vars
  BY <1>6 DEF vars, CommonDivisors, GcdRight, Loan, Returned, Is, Was
<1>. QED
  BY <1>2, <1>3, <1>4, <1>5, <1>6 DEF Next, Function

-----------------------------------------------------------------------------
(* Powers are right.                                                       *)

(* What multiplying by b again and again makes of x, each time modulo d if *)
(* that is not 0.                                                          *)
Raised(x, b, d, n, p) ==
  /\ p \in [0 .. n -> Int] /\ p[0] = x
  /\ \A i \in 1 .. n : p[i] = IF d = 0 THEN b * p[i - 1] ELSE Rem(b * p[i - 1], d)

LEMMA RaisedExists ==
  ASSUME NEW x \in Int, NEW b \in Int, NEW d \in Int, NEW n \in Nat
  PROVE  \E p : Raised(x, b, d, n, p)
<1>. DEFINE g == [q \in (1 .. n) \X Int |-> IF d = 0 THEN b * q[2] ELSE Rem(b * q[2], d)]
<1>1. g \in [(1 .. n) \X Int -> Int]
  <2>1. \A y \in Int : d # 0 => Rem(b * y, d) \in Int
    BY Remainder
  <2>. QED
    BY <2>1
<1>2. \A i \in 1 .. n, y \in Int : g[<<i, y>>] = IF d = 0 THEN b * y ELSE Rem(b * y, d)
  OBVIOUS
<1>. HIDE DEF g
<1>3. PICK p : Iterates(Int, x, n, g, p)
  BY <1>1, Iterated, Zenon
<1>4. \A i \in 1 .. n : p[i - 1] \in Int
  BY <1>3 DEF Iterates
<1>. QED
  BY <1>2, <1>3, <1>4 DEF Raised, Iterates

LEMMA RaisedAgree ==
  ASSUME NEW x, NEW b, NEW d, NEW m \in Nat, NEW n \in Nat, NEW p, NEW q,
         Raised(x, b, d, m, p), Raised(x, b, d, n, q), m <= n
  PROVE  p[m] = q[m]
<1>. DEFINE T == { i \in 0 .. m : p[i] = q[i] }
<1>1. 0 \in T
  BY DEF Raised
<1>2. ASSUME NEW i \in 0 .. m - 1, i \in T PROVE i + 1 \in T
  <2>1. i + 1 \in 1 .. m /\ i + 1 \in 1 .. n /\ (i + 1) - 1 = i
    OBVIOUS
  <2>2. /\ p[i + 1] = IF d = 0 THEN b * p[i] ELSE Rem(b * p[i], d)
        /\ q[i + 1] = IF d = 0 THEN b * q[i] ELSE Rem(b * q[i], d)
    BY <2>1 DEF Raised
  <2>. QED
    BY <1>2, <2>1, <2>2
<1>3. m \in T
  <2>. HIDE DEF T
  <2>. QED
    BY <1>1, <1>2, Induct
<1>. QED
  BY <1>3

(* So its last member is a function of n.                                  *)
Last(x, b, d, n) == (CHOOSE p : Raised(x, b, d, n, p))[n]

LEMMA LastIs ==
  ASSUME NEW x \in Int, NEW b \in Int, NEW d \in Int
  PROVE  /\ Last(x, b, d, 0) = x
         /\ \A n \in Nat : /\ Last(x, b, d, n) \in Int
                           /\ Last(x, b, d, n + 1) = IF d = 0 THEN b * Last(x, b, d, n)
                                                     ELSE Rem(b * Last(x, b, d, n), d)
<1>. DEFINE u(m) == CHOOSE p : Raised(x, b, d, m, p)
<1>1. \A m \in Nat : Raised(x, b, d, m, u(m)) /\ Last(x, b, d, m) = u(m)[m]
  BY RaisedExists DEF Last
<1>. HIDE DEF u
<1>2. Last(x, b, d, 0) = x
  BY <1>1 DEF Raised
<1>3. ASSUME NEW n \in Nat
      PROVE  /\ Last(x, b, d, n) \in Int
             /\ Last(x, b, d, n + 1) = IF d = 0 THEN b * Last(x, b, d, n)
                                       ELSE Rem(b * Last(x, b, d, n), d)
  <2>1. n \in 0 .. n /\ n + 1 \in 1 .. n + 1 /\ n + 1 \in Nat /\ (n + 1) - 1 = n /\ n <= n + 1
    OBVIOUS
  <2>2. Raised(x, b, d, n, u(n)) /\ Raised(x, b, d, n + 1, u(n + 1))
    BY <1>1, <2>1
  <2>3. u(n + 1)[n] = u(n)[n]
    BY <2>1, <2>2, RaisedAgree
  <2>4. u(n)[n] \in Int
    BY <2>1, <2>2 DEF Raised
  <2>5. u(n + 1)[n + 1] = IF d = 0 THEN b * u(n + 1)[n] ELSE Rem(b * u(n + 1)[n], d)
    BY <2>1, <2>2 DEF Raised
  <2>. QED
    BY <1>1, <2>1, <2>3, <2>4, <2>5
<1>. QED
  BY <1>2, <1>3

(* The powers of the specification are such members.                       *)
LEMMA PowerIsLast ==
  ASSUME NEW b \in Int, NEW n \in Nat
  PROVE  Power(b, n) = Last(1, b, 0, n)
<1>. DEFINE Goes(p) == p = [i \in 0 .. n |-> IF i = 0 THEN 1 ELSE b * p[i - 1]]
            u == CHOOSE p : Goes(p)
            w == CHOOSE p : Raised(1, b, 0, n, p)
<1>1. Power(b, n) = u[n]
  BY DEF Power
<1>2. Raised(1, b, 0, n, w)
  BY RaisedExists
<1>. HIDE DEF w
<1>3. Goes(w)
  <2>1. w = [i \in 0 .. n |-> w[i]]
    BY <1>2 DEF Raised
  <2>2. ASSUME NEW i \in 0 .. n PROVE w[i] = IF i = 0 THEN 1 ELSE b * w[i - 1]
    BY <1>2 DEF Raised
  <2>. QED
    BY <2>1, <2>2
<1>4. Goes(u)
  BY <1>3
<1>. HIDE DEF u
<1>5. Raised(1, b, 0, n, u)
  <2>1. u[0] = 1 /\ \A i \in 1 .. n : u[i] = b * u[i - 1]
    BY <1>4
  <2>. DEFINE T == { i \in 0 .. n : u[i] \in Int }
  <2>2. 0 \in T
    BY <2>1
  <2>3. ASSUME NEW i \in 0 .. n - 1, i \in T PROVE i + 1 \in T
    <3>1. i + 1 \in 1 .. n /\ i + 1 \in 0 .. n /\ (i + 1) - 1 = i
      OBVIOUS
    <3>2. u[i + 1] = b * u[i] /\ u[i] \in Int
      BY <2>1, <2>3, <3>1
    <3>. QED
      BY <3>1, <3>2
  <2>4. ASSUME NEW i \in 0 .. n PROVE i \in T
    <3>1. \A j \in 0 .. i - 1 : j \in T => j + 1 \in T
      <4>. HIDE DEF T
      <4>. QED
        BY <2>3
    <3>. HIDE DEF T
    <3>. QED
      BY <2>2, <3>1, Induct
  <2>5. u \in [0 .. n -> Int]
    BY <1>4, <2>4
  <2>. QED
    BY <2>1, <2>5 DEF Raised
<1>6. u[n] = w[n]
  BY <1>2, <1>5, RaisedAgree
<1>. QED
  BY <1>1, <1>6 DEF Last, w

(* Powers are integers, and each is the base times the one before.         *)
LEMMA PowerIs ==
  ASSUME NEW b \in Int
  PROVE  /\ Power(b, 0) = 1
         /\ \A n \in Nat : Power(b, n) \in Int /\ Power(b, n + 1) = b * Power(b, n)
<1>1. \A n \in Nat : Power(b, n) = Last(1, b, 0, n)
  BY PowerIsLast
<1>2. /\ Last(1, b, 0, 0) = 1
      /\ \A n \in Nat : Last(1, b, 0, n) \in Int /\ Last(1, b, 0, n + 1) = b * Last(1, b, 0, n)
  BY LastIs
<1>3. \A n \in Nat : n + 1 \in Nat
  OBVIOUS
<1>. QED
  BY <1>1, <1>2, <1>3

(* A remainder is what Divided says of it, and nothing else is.            *)
LEMMA RemIs ==
  ASSUME NEW c \in Int, NEW d \in Int \ {0}
  PROVE  \E q \in Int : Divided(q, Rem(c, d), c, d)
<1>. DEFINE C == Abs(c)
            D == Abs(d)
            ta == C \div D
            tb == C % D
<1>1. C \in Int /\ C >= 0 /\ D \in Nat \ {0} /\ Sign(c) \in {-1, 0, 1} /\ Sign(d) \in {-1, 0, 1}
  BY Magnitude
<1>2. C = D * ta + tb /\ ta \in Nat /\ tb \in 0 .. D - 1
  <2>. HIDE DEF C, D
  <2>. QED
    BY ONLY <1>1, DivMod
<1>. HIDE DEF ta, tb
<1>3. C = ta * D + tb /\ tb < D /\ tb \in Nat
  BY <1>1, <1>2
<1>4. Divided(Sign(c) * Sign(d) * ta, Sign(c) * tb, c, d)
  BY <1>2, <1>3, SignsOfDivision
<1>5. Sign(c) * Sign(d) * ta \in Int
  BY <1>1, <1>2
<1>. QED
  BY <1>4, <1>5 DEF Rem, tb

LEMMA RemUnique ==
  ASSUME NEW c \in Int, NEW d \in Int \ {0}, NEW q \in Int, NEW r \in Int, Divided(q, r, c, d)
  PROVE  Rem(c, d) = r
<1>. DEFINE D == Abs(d)
            e == IF d < 0 THEN - q ELSE q
<1>1. D \in Nat \ {0} /\ e \in Int
  BY Magnitude
<1>2. e * D = q * d
  <2>1. CASE d < 0
    <3>1. D = - d /\ e = - q
      BY <2>1 DEF Abs
    <3>. QED
      BY <3>1
  <2>2. CASE ~ (d < 0)
    BY <2>2 DEF Abs
  <2>. QED
    BY <2>1, <2>2
<1>3. c = e * D + r /\ Abs(r) < D /\ Sign(r) \in {0, Sign(c)}
  BY <1>2 DEF Divided
<1>. HIDE DEF D, e
<1>4. CASE c >= 0
  <2>1. r \in 0 .. D - 1
    BY <1>1, <1>3, <1>4 DEF Abs, Sign
  <2>2. c % D = r
    BY <1>1, <1>3, <2>1, DivUnique
  <2>3. CASE c = 0
    <3>1. r = 0 /\ Sign(c) = 0 /\ Abs(c) = 0
      BY <1>3, <2>3 DEF Sign, Abs
    <3>2. Rem(c, d) = 0 * (0 % D)
      BY <3>1 DEF Rem, D
    <3>3. 0 % D \in Int
      BY <1>1
    <3>. QED
      BY <3>1, <3>2, <3>3
  <2>4. CASE c # 0
    <3>1. Sign(c) = 1 /\ Abs(c) = c
      BY <1>4, <2>4 DEF Sign, Abs
    <3>. QED
      BY <2>1, <2>2, <3>1 DEF Rem, D
  <2>. QED
    BY <2>3, <2>4
<1>5. CASE c < 0
  <2>1. - r \in 0 .. D - 1
    BY <1>1, <1>3, <1>5 DEF Abs, Sign
  <2>2. - c = (- e) * D + (- r) /\ - e \in Int
    BY <1>1, <1>3
  <2>. DEFINE f == - e
              t == - r
  <2>5. f \in Int /\ t \in 0 .. D - 1 /\ - c = f * D + t
    BY <2>1, <2>2
  <2>. HIDE DEF f, t
  <2>6. (f * D + t) % D = t
    BY <1>1, <2>5, DivUnique
  <2>3. (- c) % D = - r
    BY <2>5, <2>6 DEF t
  <2>4. Sign(c) = -1 /\ Abs(c) = - c
    BY <1>5 DEF Sign, Abs
  <2>. QED
    BY <2>1, <2>3, <2>4 DEF Rem, D
<1>. QED
  BY <1>4, <1>5

(* The sign of a product.                                                  *)
LEMMA SignOfProduct ==
  ASSUME NEW x \in Int, NEW y \in Int
  PROVE  Sign(x * y) = Sign(x) * Sign(y)
<1>1. x = 0 \/ y = 0 => x * y = 0
  OBVIOUS
<1>2. x > 0 /\ y > 0 => x * y > 0
  OBVIOUS
<1>3. x > 0 /\ y < 0 => x * y < 0
  OBVIOUS
<1>4. x < 0 /\ y > 0 => x * y < 0
  OBVIOUS
<1>5. x < 0 /\ y < 0 => x * y > 0
  OBVIOUS
<1>. DEFINE z == x * y
<1>6. z \in Int
  OBVIOUS
<1>. HIDE DEF z
<1>7. Sign(z) = Sign(x) * Sign(y)
  BY <1>1, <1>2, <1>3, <1>4, <1>5, <1>6 DEF Sign, z
<1>. QED
  BY <1>7 DEF z

(* A factor may be reduced before the product is.                          *)
LEMMA RemOfProduct ==
  ASSUME NEW x \in Int, NEW y \in Int, NEW d \in Int \ {0}
  PROVE  Rem(Rem(x, d) * y, d) = Rem(x * y, d)
<1>. DEFINE r == Rem(x, d)
            s == Rem(r * y, d)
<1>1. r \in Int /\ r * y \in Int /\ x * y \in Int
  BY Remainder
<1>2. s \in Int
  BY <1>1, Remainder
<1>3. PICK p \in Int : Divided(p, r, x, d)
  BY RemIs
<1>4. PICK q \in Int : Divided(q, s, r * y, d)
  BY <1>1, RemIs
<1>. HIDE DEF r, s
<1>5. x = p * d + r /\ r * y = q * d + s /\ Sign(r) \in {0, Sign(x)} /\ Sign(s) \in {0, Sign(r * y)}
  BY <1>3, <1>4 DEF Divided
<1>6. x * y = (p * y + q) * d + s
  BY <1>1, <1>2, <1>5
<1>7. Sign(s) \in {0, Sign(x * y)}
  <2>1. Sign(x * y) = Sign(x) * Sign(y) /\ Sign(r * y) = Sign(r) * Sign(y)
    BY <1>1, SignOfProduct
  <2>2. Sign(x) \in {-1, 0, 1} /\ Sign(y) \in {-1, 0, 1}
    BY Magnitude
  <2>. QED
    BY <1>5, <2>1, <2>2
<1>8. Divided(p * y + q, s, x * y, d) /\ p * y + q \in Int
  BY <1>4, <1>6, <1>7 DEF Divided
<1>9. Rem(x * y, d) = s
  BY <1>1, <1>2, <1>8, RemUnique
<1>. QED
  BY <1>9 DEF r, s

(* What powers are taken modulo, or nothing if that is 0.                  *)
Modulo(v, d) == IF d = 0 THEN v ELSE Rem(v, d)

LEMMA ModuloOfProduct ==
  ASSUME NEW x \in Int, NEW y \in Int, NEW d \in Int
  PROVE  /\ Modulo(x, d) \in Int
         /\ Modulo(Modulo(x, d) * y, d) = Modulo(x * y, d)
         /\ Modulo(x * Modulo(y, d), d) = Modulo(x * y, d)
         /\ Modulo(Modulo(x, d), d) = Modulo(x, d)
<1>1. \A i, j \in Int : Modulo(i, d) \in Int /\ Modulo(Modulo(i, d) * j, d) = Modulo(i * j, d)
  BY Remainder, RemOfProduct DEF Modulo
<1>2. x * Modulo(y, d) = Modulo(y, d) * x /\ x * y = y * x
  BY <1>1
<1>3. Modulo(x * Modulo(y, d), d) = Modulo(x * y, d)
  BY <1>1, <1>2
<1>4. Modulo(x, d) * 1 = Modulo(x, d) /\ x * 1 = x
  BY <1>1
<1>5. Modulo(Modulo(x, d), d) = Modulo(x, d)
  BY <1>1, <1>4
<1>. QED
  BY <1>1, <1>3, <1>5

(* A power modulo a number is the remainder of the power.                  *)
LEMMA PowerModIsLast ==
  ASSUME NEW b \in Int, NEW d \in Int \ {0}, NEW n \in Nat
  PROVE  PowerMod(b, n, d) = Last(Rem(1, d), Rem(b, d), d, n)
<1>. DEFINE x == Rem(1, d)
            c == Rem(b, d)
            Goes(p) == p = [i \in 0 .. n |-> IF i = 0 THEN x ELSE Rem(c * p[i - 1], d)]
            u == CHOOSE p : Goes(p)
            w == CHOOSE p : Raised(x, c, d, n, p)
<1>1. PowerMod(b, n, d) = u[n]
  BY DEF PowerMod
<1>0. x \in Int /\ c \in Int
  BY Remainder
<1>. HIDE DEF x, c
<1>2. Raised(x, c, d, n, w)
  BY <1>0, RaisedExists
<1>. HIDE DEF w
<1>3. Goes(w)
  <2>1. w = [i \in 0 .. n |-> w[i]]
    BY <1>2 DEF Raised
  <2>2. ASSUME NEW i \in 0 .. n PROVE w[i] = IF i = 0 THEN x ELSE Rem(c * w[i - 1], d)
    BY <1>2 DEF Raised
  <2>. QED
    BY <2>1, <2>2
<1>4. Goes(u)
  BY <1>3
<1>. HIDE DEF u
<1>5. Raised(x, c, d, n, u)
  <2>1. u[0] = x /\ \A i \in 1 .. n : u[i] = Rem(c * u[i - 1], d)
    BY <1>4
  <2>. DEFINE T == { i \in 0 .. n : u[i] \in Int }
  <2>2. 0 \in T
    BY <1>0, <2>1
  <2>3. ASSUME NEW i \in 0 .. n - 1, i \in T PROVE i + 1 \in T
    <3>1. i + 1 \in 1 .. n /\ i + 1 \in 0 .. n /\ (i + 1) - 1 = i
      OBVIOUS
    <3>2. u[i + 1] = Rem(c * u[i], d) /\ u[i] \in Int
      BY <2>1, <2>3, <3>1
    <3>3. c * u[i] \in Int
      BY <1>0, <3>2
    <3>. QED
      BY <3>1, <3>2, <3>3, Remainder
  <2>4. ASSUME NEW i \in 0 .. n PROVE i \in T
    <3>1. \A j \in 0 .. i - 1 : j \in T => j + 1 \in T
      <4>. HIDE DEF T
      <4>. QED
        BY <2>3
    <3>. HIDE DEF T
    <3>. QED
      BY <2>2, <3>1, Induct
  <2>5. u \in [0 .. n -> Int]
    BY <1>4, <2>4
  <2>. QED
    BY <2>1, <2>5 DEF Raised
<1>6. u[n] = w[n]
  BY <1>2, <1>5, RaisedAgree
<1>. QED
  BY <1>1, <1>6 DEF Last, w, x, c

LEMMA PowerModIs ==
  ASSUME NEW b \in Int, NEW d \in Int \ {0}, NEW n \in Nat
  PROVE  PowerMod(b, n, d) = Rem(Power(b, n), d)
<1>. DEFINE x == Rem(1, d)
            c == Rem(b, d)
            v(m) == Last(x, c, d, m)
            T == { m \in Nat : v(m) = Rem(Power(b, m), d) }
<1>1. x \in Int /\ c \in Int
  BY Remainder
<1>2. v(0) = x /\ \A m \in Nat : v(m) \in Int /\ v(m + 1) = Rem(c * v(m), d)
  <2>. HIDE DEF x, c
  <2>. QED
    BY <1>1, LastIs
<1>3. Power(b, 0) = 1 /\ \A m \in Nat : Power(b, m) \in Int /\ Power(b, m + 1) = b * Power(b, m)
  BY PowerIs
<1>4. 0 \in T
  BY <1>2, <1>3
<1>5. ASSUME NEW m \in 0 .. n - 1, m \in T PROVE m + 1 \in T
  <2>. DEFINE y == Power(b, m)
  <2>1. m \in Nat /\ m + 1 \in Nat /\ v(m) = Rem(y, d) /\ y \in Int
    BY <1>3, <1>5
  <2>2. v(m + 1) = Rem(c * Rem(y, d), d)
    BY <1>2, <2>1
  <2>3. Power(b, m + 1) = b * y
    BY <1>3, <2>1
  <2>. HIDE DEF y, v
  <2>4. Rem(y, d) \in Int
    BY <2>1, Remainder
  <2>5. Rem(c * Rem(y, d), d) = Rem(b * Rem(y, d), d)
    BY <2>4, RemOfProduct
  <2>6. b * Rem(y, d) = Rem(y, d) * b /\ b * y = y * b
    BY <2>1, <2>4
  <2>7. Rem(Rem(y, d) * b, d) = Rem(y * b, d)
    BY <2>1, RemOfProduct
  <2>8. v(m + 1) = Rem(Power(b, m + 1), d)
    BY <2>2, <2>3, <2>5, <2>6, <2>7
  <2>. QED
    BY <2>1, <2>8
<1>6. n \in T
  <2>. HIDE DEF T
  <2>. QED
    BY <1>4, <1>5, Induct
<1>7. v(n) = Rem(Power(b, n), d)
  BY <1>6
<1>. QED
  BY <1>7, PowerModIsLast

(* The power of a square has twice the exponent.                           *)
LEMMA PowerOfSquare ==
  ASSUME NEW b \in Int, NEW n \in Nat
  PROVE  Power(b * b, n) = Power(b, 2 * n)
<1>. DEFINE c == b * b
            T == { i \in Nat : Power(c, i) = Power(b, 2 * i) }
<1>1. Power(b, 0) = 1 /\ \A m \in Nat : Power(b, m) \in Int /\ Power(b, m + 1) = b * Power(b, m)
  BY PowerIs
<1>2. c \in Int
  OBVIOUS
<1>. HIDE DEF c
<1>3. Power(c, 0) = 1 /\ \A m \in Nat : Power(c, m) \in Int /\ Power(c, m + 1) = c * Power(c, m)
  BY <1>2, PowerIs
<1>4. 0 \in T
  BY <1>1, <1>3
<1>5. ASSUME NEW i \in 0 .. n - 1, i \in T PROVE i + 1 \in T
  <2>. DEFINE y == Power(b, 2 * i)
  <2>1. i \in Nat /\ i + 1 \in Nat /\ 2 * i \in Nat /\ 2 * i + 1 \in Nat /\ (2 * i + 1) + 1 = 2 * (i + 1)
    OBVIOUS
  <2>2. y \in Int /\ Power(b, 2 * i + 1) = b * y
    BY <1>1, <2>1
  <2>3. Power(b, (2 * i + 1) + 1) = b * Power(b, 2 * i + 1)
    BY <1>1, <2>1
  <2>4. Power(c, i + 1) = c * y
    BY <1>3, <1>5, <2>1
  <2>. HIDE DEF y
  <2>5. b * (b * y) = c * y
    BY <2>2 DEF c
  <2>. QED
    BY <2>1, <2>2, <2>3, <2>4, <2>5
<1>6. n \in T
  <2>. HIDE DEF T
  <2>. QED
    BY <1>4, <1>5, Induct
<1>. QED
  BY <1>6 DEF c

(* The base of a power may be reduced.                                     *)
LEMMA ModuloOfPower ==
  ASSUME NEW y \in Int, NEW d \in Int, NEW n \in Nat, NEW x \in Int
  PROVE  Modulo(x * Power(Modulo(y, d), n), d) = Modulo(x * Power(y, n), d)
<1>. DEFINE r == Modulo(y, d)
            T == { i \in Nat : \A z \in Int : Modulo(z * Power(r, i), d) = Modulo(z * Power(y, i), d) }
<1>1. r \in Int
  BY ModuloOfProduct
<1>2. Power(y, 0) = 1 /\ \A m \in Nat : Power(y, m) \in Int /\ Power(y, m + 1) = y * Power(y, m)
  BY PowerIs
<1>. HIDE DEF r
<1>3. Power(r, 0) = 1 /\ \A m \in Nat : Power(r, m) \in Int /\ Power(r, m + 1) = r * Power(r, m)
  BY <1>1, PowerIs
<1>4. 0 \in T
  BY <1>2, <1>3
<1>5. ASSUME NEW i \in 0 .. n - 1, i \in T PROVE i + 1 \in T
  <2>. DEFINE p == Power(y, i)
              q == Power(r, i)
  <2>1. i \in Nat /\ i + 1 \in Nat
    OBVIOUS
  <2>2. p \in Int /\ q \in Int /\ Power(y, i + 1) = y * p /\ Power(r, i + 1) = r * q
    BY <1>2, <1>3, <2>1
  <2>3. \A z \in Int : Modulo(z * q, d) = Modulo(z * p, d)
    BY <1>5
  <2>. HIDE DEF p, q, T
  <2>4. ASSUME NEW z \in Int PROVE Modulo(z * (r * q), d) = Modulo(z * (y * p), d)
    <3>1. z * r \in Int /\ z * p \in Int /\ y * (z * p) \in Int
      BY <1>1, <2>2
    <3>2. z * (r * q) = (z * r) * q
      BY <1>1, <2>2
    <3>3. Modulo((z * r) * q, d) = Modulo((z * r) * p, d)
      BY <2>3, <3>1
    <3>4. (z * r) * p = r * (z * p)
      BY <1>1, <2>2
    <3>5. Modulo(r * (z * p), d) = Modulo(y * (z * p), d)
      BY <3>1, ModuloOfProduct DEF r
    <3>6. y * (z * p) = z * (y * p)
      BY <2>2
    <3>. QED
      BY <3>2, <3>3, <3>4, <3>5, <3>6
  <2>5. \A z \in Int : Modulo(z * Power(r, i + 1), d) = Modulo(z * Power(y, i + 1), d)
    BY <2>2, <2>4
  <2>. QED
    BY <2>1, <2>5 DEF T
<1>6. n \in T
  <2>. HIDE DEF T
  <2>. QED
    BY <1>4, <1>5, Induct
<1>. QED
  BY <1>6 DEF r

(* A bit of the exponent: the base is squared, having been a factor if the *)
(* bit was set.                                                            *)
Multiplied(a, b, n, d) == IF n % 2 = 1 THEN Modulo(a * b, d) ELSE a

LEMMA SquareStep ==
  ASSUME NEW a \in Int, NEW b \in Int, NEW d \in Int, NEW n \in Nat
  PROVE  /\ Multiplied(a, b, n, d) \in Int /\ Modulo(b * b, d) \in Int
         /\ Modulo(Multiplied(a, b, n, d) * Power(Modulo(b * b, d), n \div 2), d)
            = Modulo(a * Power(b, n), d)
<1>. DEFINE a1 == Multiplied(a, b, n, d)
            b1 == Modulo(b * b, d)
            h == n \div 2
            y == Power(b, 2 * h)
<1>0. a1 = IF n % 2 = 1 THEN Modulo(a * b, d) ELSE a
  BY DEF Multiplied
<1>1. h \in Nat /\ n = 2 * h + (n % 2) /\ n % 2 \in {0, 1} /\ 2 * h \in Nat
  OBVIOUS
<1>2. a * b \in Int /\ b * b \in Int
  OBVIOUS
<1>3. a1 \in Int /\ b1 \in Int
  BY <1>0, <1>2, ModuloOfProduct
<1>. HIDE DEF h, a1
<1>4. Modulo(a1 * Power(b1, h), d) = Modulo(a1 * Power(b * b, h), d)
  BY <1>1, <1>2, <1>3, ModuloOfPower
<1>5. Power(b * b, h) = y
  BY <1>1, PowerOfSquare
<1>6. y \in Int /\ Power(b, 2 * h + 1) = b * y
  BY <1>1, PowerIs
<1>7. CASE n % 2 = 0
  <2>1. a1 = a /\ n = 2 * h
    BY <1>0, <1>1, <1>7
  <2>. QED
    BY <1>3, <1>4, <1>5, <2>1 DEF h, a1
<1>8. CASE n % 2 = 1
  <2>1. a1 = Modulo(a * b, d) /\ n = 2 * h + 1
    BY <1>0, <1>1, <1>8
  <2>. HIDE DEF y
  <2>2. Modulo(Modulo(a * b, d) * y, d) = Modulo((a * b) * y, d)
    BY <1>2, <1>6, ModuloOfProduct
  <2>3. (a * b) * y = a * (b * y)
    BY <1>6
  <2>4. Power(b, n) = b * y
    BY <1>6, <2>1
  <2>5. Modulo(a1 * y, d) = Modulo(a * Power(b, n), d)
    BY <2>1, <2>2, <2>3, <2>4
  <2>. QED
    BY <1>3, <1>4, <1>5, <2>5 DEF h, a1
<1>. QED
  BY <1>1, <1>7, <1>8

(* Powers of what is not negative are not negative.                        *)
LEMMA PowerNatural ==
  ASSUME NEW b \in Nat, NEW n \in Nat
  PROVE  Power(b, n) \in Nat
<1>. DEFINE T == { i \in Nat : Power(b, i) \in Nat }
<1>1. Power(b, 0) = 1 /\ \A m \in Nat : Power(b, m) \in Int /\ Power(b, m + 1) = b * Power(b, m)
  BY PowerIs
<1>2. 0 \in T
  BY <1>1
<1>3. ASSUME NEW i \in 0 .. n - 1, i \in T PROVE i + 1 \in T
  <2>. DEFINE y == Power(b, i)
  <2>1. i + 1 \in Nat /\ Power(b, i + 1) = b * y /\ y \in Nat
    BY <1>1, <1>3
  <2>. HIDE DEF y
  <2>2. b * y \in Nat
    BY <2>1
  <2>. QED
    BY <2>1, <2>2
<1>4. n \in T
  <2>. HIDE DEF T
  <2>. QED
    BY <1>2, <1>3, Induct
<1>. QED
  BY <1>4

(* A power is negative if the base is and the exponent is odd.             *)
LEMMA PowerOfMagnitude ==
  ASSUME NEW b \in Int, NEW n \in Nat
  PROVE  Power(b, n) = IF b < 0 /\ n % 2 = 1 THEN - Power(Abs(b), n) ELSE Power(Abs(b), n)
<1>1. CASE ~ (b < 0)
  <2>1. Abs(b) = b
    BY <1>1 DEF Abs
  <2>. QED
    BY <1>1, <2>1
<1>2. CASE b < 0
  <2>. DEFINE c == Abs(b)
              T == { i \in Nat : Power(b, i) = IF i % 2 = 1 THEN - Power(c, i) ELSE Power(c, i) }
  <2>1. c \in Int /\ b = - c
    BY <1>2 DEF Abs
  <2>2. Power(b, 0) = 1 /\ \A m \in Nat : Power(b, m) \in Int /\ Power(b, m + 1) = b * Power(b, m)
    BY PowerIs
  <2>. HIDE DEF c
  <2>3. Power(c, 0) = 1 /\ \A m \in Nat : Power(c, m) \in Int /\ Power(c, m + 1) = c * Power(c, m)
    BY <2>1, PowerIs
  <2>4. 0 \in T
    BY <2>2, <2>3
  <2>5. ASSUME NEW i \in 0 .. n - 1, i \in T PROVE i + 1 \in T
    <3>. DEFINE y == Power(c, i)
                z == Power(b, i)
    <3>1. i \in Nat /\ i + 1 \in Nat /\ Power(b, i + 1) = b * z /\ Power(c, i + 1) = c * y
          /\ y \in Int /\ z \in Int
      BY <2>2, <2>3, <2>5
    <3>2. z = IF i % 2 = 1 THEN - y ELSE y
      BY <2>5
    <3>3. (i + 1) % 2 = 1 <=> i % 2 # 1
      BY <3>1
    <3>. HIDE DEF y, z
    <3>4. b * y = - (c * y) /\ b * (- y) = c * y
      BY <2>1, <3>1
    <3>5. Power(b, i + 1) = IF (i + 1) % 2 = 1 THEN - Power(c, i + 1) ELSE Power(c, i + 1)
      BY <3>1, <3>2, <3>3, <3>4
    <3>. QED
      BY <3>1, <3>5
  <2>6. n \in T
    <3>. HIDE DEF T
    <3>. QED
      BY <2>4, <2>5, Induct
  <2>. QED
    BY <1>2, <2>6 DEF c
<1>. QED
  BY <1>1, <1>2

(* Powers of 0.                                                            *)
LEMMA PowerOfZero ==
  ASSUME NEW n \in Nat \ {0}
  PROVE  Power(0, n) = 0
<1>1. n - 1 \in Nat /\ (n - 1) + 1 = n
  OBVIOUS
<1>2. Power(0, (n - 1) + 1) = 0 * Power(0, n - 1) /\ Power(0, n - 1) \in Int
  BY <1>1, PowerIs
<1>. QED
  BY <1>1, <1>2

(* A limb of a number, and what is above it.                               *)
LEMMA LimbAndRest ==
  ASSUME NEW e \in Nat, NEW i \in Nat, NEW w \in Nat
  PROVE  LET q == e \div 2 ^ (i * w)
         IN  /\ q \in Nat /\ q % 2 ^ w \in 0 .. 2 ^ w - 1
             /\ e \div 2 ^ ((i + 1) * w) \in Nat
             /\ q = (q % 2 ^ w) + 2 ^ w * (e \div 2 ^ ((i + 1) * w))
<1>. DEFINE k == i * w
            p == 2 ^ k
            s == 2 ^ w
            q == e \div p
            r == q \div s
<1>1. k \in Nat /\ (i + 1) * w = k + w
  OBVIOUS
<1>2. p \in Nat \ {0} /\ s \in Nat \ {0} /\ 2 ^ (k + w) = p * s
  <2>. HIDE DEF k
  <2>1. p \in Nat \ {0} /\ s \in Nat \ {0}
    BY <1>1, Positive
  <2>2. 2 ^ (k + w) = p * s
    BY <1>1, PowerOfSum
  <2>. QED
    BY <2>1, <2>2
<1>. HIDE DEF k, p, s
<1>3. q \in Nat /\ e = p * q + (e % p) /\ e % p \in 0 .. p - 1
  BY <1>2, DivModNat
<1>. HIDE DEF q
<1>4. r \in Nat /\ q = s * r + (q % s) /\ q % s \in 0 .. s - 1
  BY <1>2, <1>3, DivModNat
<1>. HIDE DEF r
<1>5. e \div (p * s) = r
  <2>. DEFINE t == p * s
              m == p * (q % s) + (e % p)
  <2>1. t \in Nat \ {0}
    BY <1>2
  <2>2. m \in Nat /\ m < t
    <3>. DEFINE u == q % s
                v == s - 1 - u
    <3>1. u \in Nat /\ v \in Nat /\ s = u + v + 1
      BY <1>2, <1>4
    <3>. HIDE DEF u, v
    <3>2. p * s = p * u + p * v + p /\ p * u \in Nat /\ p * v \in Nat
      BY <1>2, <3>1
    <3>3. m = p * u + (e % p)
      BY DEF u
    <3>. QED
      BY <1>2, <1>3, <3>2, <3>3
  <2>3. e = r * t + m
    <3>1. e = p * (s * r + (q % s)) + (e % p)
      BY <1>3, <1>4
    <3>2. p * (s * r + (q % s)) = r * (p * s) + p * (q % s)
      BY <1>2, <1>4
    <3>. QED
      BY <1>2, <1>3, <1>4, <3>1, <3>2
  <2>. HIDE DEF t, m
  <2>4. m \in 0 .. t - 1
    BY <2>1, <2>2
  <2>5. (r * t + m) \div t = r
    BY <1>4, <2>1, <2>4, DivUnique
  <2>. QED
    BY <2>3, <2>5 DEF t
<1>6. e \div 2 ^ ((i + 1) * w) = r
  BY <1>1, <1>2, <1>5
<1>7. q = (q % s) + s * r
  BY <1>2, <1>3, <1>4
<1>. QED
  BY <1>3, <1>4, <1>6, <1>7 DEF q, s, p, k

(* The limbs of an exponent: the last one has the highest bit and is not   *)
(* full.                                                                   *)
LEMMA LimbsOfExponent ==
  ASSUME NEW e \in Nat \ {0}, ~ FillsLimb(e)
  PROVE  LET n == Bits(e) \div BitsPerChar
         IN  /\ n \in Nat
             /\ DOMAIN LimbsOf(e) = 1 .. n + 1
             /\ \A k \in 0 .. n :
                  LimbsOf(e)[k + 1] = (e \div 2 ^ (k * BitsPerChar)) % 2 ^ BitsPerChar
             /\ e \div 2 ^ (n * BitsPerChar) \in 0 .. 2 ^ BitsPerChar - 1
<1>. DEFINE W == BitsPerChar
            b == Bits(e)
            n == b \div W
            r == b % W
            chars == (b + W - 1) \div W
<1>1. W \in Nat \ {0} /\ b \in Nat \ {0} /\ e < 2 ^ b
  BY LimbAssumption, BitsOf, Magnitude
<1>2. r # 0
  BY DEF FillsLimb
<1>3. n \in Nat /\ b = W * n + r /\ r \in 0 .. W - 1
  <2>. HIDE DEF W, b
  <2>. QED
    BY <1>1, DivModNat
<1>4. chars = n + 1
  <2>. HIDE DEF n, r
  <2>1. r - 1 \in 0 .. W - 1 /\ n + 1 \in Int
    BY <1>1, <1>2, <1>3
  <2>2. b + W - 1 = (n + 1) * W + (r - 1)
    BY <1>1, <1>3
  <2>. DEFINE q == n + 1
              s == r - 1
  <2>. HIDE DEF q, s, W
  <2>3. (q * W + s) \div W = q
    BY <1>1, <2>1, DivUnique DEF q, s
  <2>. QED
    BY <2>2, <2>3 DEF q, s, W
<1>5. DOMAIN LimbsOf(e) = 1 .. n + 1
  BY <1>4 DEF LimbsOf, Limbs
<1>6. ASSUME NEW k \in 0 .. n
      PROVE  LimbsOf(e)[k + 1] = (e \div 2 ^ (k * W)) % 2 ^ W
  <2>1. k + 1 \in 1 .. n + 1 /\ (k + 1) - 1 = k
    BY <1>3
  <2>2. LimbsOf(e)[k + 1] = ShiftDown(e, k * W) % 2 ^ W
    <3>1. k + 1 \in 1 .. chars
      BY <1>4, <2>1
    <3>2. LimbsOf(e)[k + 1] = ShiftDown(e, ((k + 1) - 1) * W) % 2 ^ W
      BY <3>1 DEF LimbsOf, Limbs
    <3>. QED
      BY <2>1, <3>2
  <2>3. k * W \in Nat
    BY <1>1, <1>3
  <2>4. ShiftDown(e, k * W) = e \div 2 ^ (k * W)
    BY <2>3, Shifting
  <2>. QED
    BY <2>2, <2>4
<1>7. e \div 2 ^ (n * W) \in 0 .. 2 ^ W - 1
  <2>. DEFINE k == n * W
              p == 2 ^ k
              s == 2 ^ W
              q == e \div p
  <2>1. k \in Nat /\ b <= k + W
    <3>. HIDE DEF W, b, n, r
    <3>. QED
      BY <1>1, <1>3
  <2>2. p \in Nat \ {0} /\ s \in Nat \ {0} /\ 2 ^ (k + W) = p * s /\ 2 ^ b <= 2 ^ (k + W)
    <3>1. k + W \in Nat /\ b \in Nat /\ W \in Nat /\ k \in Nat
      BY <1>1, <2>1
    <3>2. 2 ^ b <= 2 ^ (k + W)
      BY <2>1, <3>1, Monotone
    <3>. QED
      BY <3>1, <3>2, Positive, PowerOfSum
  <2>3. 2 ^ b \in Nat
    BY <1>1, Positive
  <2>. HIDE DEF p, s
  <2>4. q \in Nat /\ e = p * q + (e % p) /\ e % p \in 0 .. p - 1
    BY <2>2, DivModNat
  <2>5. p * q < p * s
    BY <1>1, <2>2, <2>3, <2>4
  <2>6. ~ (q >= s)
    <3>1. q >= s => p * q >= p * s
      BY <2>2, <2>4
    <3>. QED
      BY <2>2, <2>4, <2>5, <3>1
  <2>. QED
    BY <2>2, <2>4, <2>6 DEF p, s
<1>. QED
  BY <1>3, <1>5, <1>6, <1>7

(* One bit less of a limb.                                                 *)
LEMMA BitAndRest ==
  ASSUME NEW x \in Nat, NEW j \in Nat \ {0}, x < 2 ^ j, NEW q \in Nat
  PROVE  LET r == x + 2 ^ j * q
         IN  /\ r \in Nat /\ r % 2 = x % 2
             /\ r \div 2 = x \div 2 + 2 ^ (j - 1) * q
             /\ x \div 2 \in Nat /\ x \div 2 < 2 ^ (j - 1)
<1>. DEFINE p == 2 ^ (j - 1)
            h == x \div 2
            m == h + p * q
            b == x % 2
<1>1. p \in Nat /\ 2 ^ j = 2 * p
  <2>1. j - 1 \in Nat /\ (j - 1) + 1 = j
    OBVIOUS
  <2>2. 2 ^ ((j - 1) + 1) = 2 * 2 ^ (j - 1) /\ 2 ^ (j - 1) \in Nat
    BY <2>1, Positive, Doubling
  <2>. QED
    BY <2>1, <2>2
<1>2. h \in Nat /\ x = 2 * h + b /\ b \in 0 .. 1
  OBVIOUS
<1>. HIDE DEF p, h, b
<1>3. m \in Nat /\ x + 2 ^ j * q = m * 2 + b
  BY <1>1, <1>2
<1>4. (m * 2 + b) \div 2 = m /\ (m * 2 + b) % 2 = b
  <2>. HIDE DEF m
  <2>1. b \in 0 .. 2 - 1 /\ 2 \in Nat \ {0} /\ m \in Int
    BY <1>2, <1>3
  <2>. QED
    BY <2>1, DivUnique
<1>5. h < p
  BY <1>1, <1>2
<1>6. x + 2 ^ j * q \in Nat
  BY <1>1
<1>. QED
  BY <1>2, <1>3, <1>4, <1>5, <1>6 DEF p, h, b

(* How far a power is: a times b to the rest of the exponent is what the   *)
(* power is going to be, and a has been reduced when nothing is left.      *)
Progress(a, b, rest, goal, d) ==
  /\ Modulo(a * Power(b, rest), d) = goal
  /\ rest > 0 \/ Modulo(a, d) = a
  /\ d = 0 => a >= 0 /\ b >= 0

(* The lowest bit of the rest is done with.                                *)
LEMMA ProgressOfBit ==
  ASSUME NEW a \in Int, NEW b \in Int, NEW d \in Int, NEW rest \in Nat, NEW goal,
         Progress(a, b, rest, goal, d)
  PROVE  /\ Multiplied(a, b, rest, d) \in Int /\ Modulo(b * b, d) \in Int
         /\ Progress(Multiplied(a, b, rest, d), Modulo(b * b, d), rest \div 2, goal, d)
<1>. DEFINE a1 == Multiplied(a, b, rest, d)
            b1 == Modulo(b * b, d)
<1>0. a1 = IF rest % 2 = 1 THEN Modulo(a * b, d) ELSE a
  BY DEF Multiplied
<1>1. a1 \in Int /\ b1 \in Int /\ Modulo(a1 * Power(b1, rest \div 2), d) = goal
  <2>1. Modulo(a * Power(b, rest), d) = goal
    BY DEF Progress
  <2>. QED
    BY <2>1, SquareStep
<1>. HIDE DEF a1
<1>2. rest \div 2 > 0 \/ Modulo(a1, d) = a1
  <2>1. CASE rest % 2 = 1
    <3>1. a * b \in Int
      OBVIOUS
    <3>2. Modulo(Modulo(a * b, d), d) = Modulo(a * b, d)
      BY <3>1, ModuloOfProduct
    <3>. QED
      BY <1>0, <2>1, <3>2
  <2>2. CASE rest % 2 # 1
    <3>1. a1 = a
      BY <1>0, <2>2
    <3>2. rest > 0 \/ Modulo(a, d) = a
      BY DEF Progress
    <3>. QED
      BY <2>2, <3>1, <3>2
  <2>. QED
    BY <2>1, <2>2
<1>3. d = 0 => a1 >= 0 /\ b1 >= 0
  <2>. SUFFICES ASSUME d = 0 PROVE a1 >= 0 /\ b1 >= 0
    OBVIOUS
  <2>1. a >= 0 /\ b >= 0
    BY DEF Progress
  <2>2. a * b >= 0 /\ b * b >= 0
    BY <2>1
  <2>. QED
    BY <1>0, <2>1, <2>2 DEF Modulo
<1>. QED
  BY <1>1, <1>2, <1>3 DEF Progress, a1

(* The same for an exponent that is shifted first: its lowest bit is done  *)
(* with before.                                                            *)
LEMMA ProgressOfShift ==
  ASSUME NEW a \in Int, NEW b \in Int, NEW d \in Int, NEW rest \in Nat \ {0}, NEW goal,
         Progress(a, b, 2 * rest, goal, d)
  PROVE  LET c == Modulo(b * b, d)
         IN  /\ Multiplied(a, c, rest, d) \in Int /\ c \in Int
             /\ Progress(Multiplied(a, c, rest, d), c, 2 * (rest \div 2), goal, d)
<1>. DEFINE b1 == Modulo(b * b, d)
            a1 == Multiplied(a, b1, rest, d)
            h == rest \div 2
            n == 2 * rest
            y == Power(b1, 2 * h)
<1>0. a1 = IF rest % 2 = 1 THEN Modulo(a * b1, d) ELSE a
  BY DEF Multiplied
<1>1. n \in Nat \ {0} /\ n % 2 # 1 /\ n \div 2 = rest
  OBVIOUS
<1>2. h \in Nat /\ rest = 2 * h + (rest % 2) /\ rest % 2 \in {0, 1} /\ 2 * h \in Nat
  OBVIOUS
<1>. HIDE DEF h, n, a1
<1>3. b1 \in Int /\ Progress(a, b1, rest, goal, d)
  <2>1. Progress(a, b, n, goal, d)
    BY DEF n
  <2>2. a = Multiplied(a, b, n, d)
    BY <1>1 DEF Multiplied
  <2>3. b1 \in Int /\ Progress(Multiplied(a, b, n, d), b1, n \div 2, goal, d)
    BY <1>1, <2>1, ProgressOfBit
  <2>. QED
    BY <1>1, <2>2, <2>3
<1>. HIDE DEF b1
<1>4. a * b1 \in Int /\ y \in Int /\ Power(b1, 2 * h + 1) = b1 * y
  <2>1. y \in Int /\ Power(b1, 2 * h + 1) = b1 * y
    BY <1>2, <1>3, PowerIs
  <2>. QED
    BY <1>3, <2>1
<1>5. CASE rest % 2 = 0
  <2>1. a1 = a /\ rest = 2 * h
    BY <1>0, <1>2, <1>5
  <2>. QED
    BY <1>3, <2>1 DEF h, a1, b1
<1>6. CASE rest % 2 = 1
  <2>1. a1 = Modulo(a * b1, d) /\ rest = 2 * h + 1
    BY <1>0, <1>2, <1>6
  <2>. HIDE DEF y
  <2>2. a1 \in Int /\ Modulo(a1, d) = a1 /\ Modulo(a1 * y, d) = Modulo((a * b1) * y, d)
    <3>. DEFINE c == a * b1
    <3>1. c \in Int /\ y \in Int /\ a1 = Modulo(c, d)
      BY <1>4, <2>1
    <3>. HIDE DEF c
    <3>2. Modulo(Modulo(c, d), d) = Modulo(c, d) /\ Modulo(c, d) \in Int
      BY <3>1, ModuloOfProduct
    <3>3. Modulo(Modulo(c, d) * y, d) = Modulo(c * y, d)
      BY <3>1, ModuloOfProduct
    <3>. QED
      BY <3>1, <3>2, <3>3 DEF c
  <2>3. (a * b1) * y = a * (b1 * y)
    BY <1>3, <1>4
  <2>4. Modulo(a1 * y, d) = goal
    BY <1>3, <1>4, <2>1, <2>2, <2>3 DEF Progress
  <2>5. d = 0 => a1 >= 0 /\ b1 >= 0
    <3>. SUFFICES ASSUME d = 0 PROVE a1 >= 0 /\ b1 >= 0
      OBVIOUS
    <3>1. a >= 0 /\ b1 >= 0
      BY <1>3 DEF Progress
    <3>2. a * b1 >= 0
      BY <1>3, <3>1
    <3>. QED
      BY <2>1, <3>1, <3>2 DEF Modulo
  <2>. QED
    BY <1>3, <2>2, <2>4, <2>5 DEF Progress, y, h, a1, b1
<1>. QED
  BY <1>2, <1>5, <1>6

(* At first all of the exponent is left, or all but its lowest bit.        *)
LEMMA ProgressBegins ==
  ASSUME NEW b \in Int, NEW d \in Int, NEW n \in Nat \ {0}, d = 0 => b >= 0
  PROVE  LET r == Modulo(b, d)
             goal == Modulo(Power(b, n), d)
         IN  /\ r \in Int
             /\ Progress(1, r, n, goal, d)
             /\ Progress(IF n % 2 = 0 THEN 1 ELSE r, r, 2 * (n \div 2), goal, d)
<1>. DEFINE r == Modulo(b, d)
            goal == Modulo(Power(b, n), d)
            h == n \div 2
            y == Power(r, 2 * h)
<1>1. r \in Int /\ Modulo(r, d) = r
  BY ModuloOfProduct
<1>2. d = 0 => r >= 0
  BY DEF Modulo
<1>3. h \in Nat /\ n = 2 * h + (n % 2) /\ n % 2 \in {0, 1} /\ 2 * h \in Nat
  OBVIOUS
<1>4. Power(b, n) \in Int
  BY PowerIs
<1>5. Modulo(1 * Power(r, n), d) = goal
  <2>1. Modulo(1 * Power(r, n), d) = Modulo(1 * Power(b, n), d)
    BY ModuloOfPower
  <2>2. 1 * Power(b, n) = Power(b, n)
    BY <1>4
  <2>. QED
    BY <2>1, <2>2
<1>. HIDE DEF goal, h
<1>6. Progress(1, r, n, goal, d)
  BY <1>2, <1>5 DEF Progress
<1>. HIDE DEF r
<1>7. CASE n % 2 = 0
  <2>1. n = 2 * h
    BY <1>3, <1>7
  <2>. QED
    BY <1>1, <1>6, <1>7, <2>1 DEF r, goal, h
<1>8. CASE n % 2 = 1
  <2>1. n = 2 * h + 1
    BY <1>3, <1>8
  <2>2. y \in Int /\ Power(r, 2 * h + 1) = r * y
    BY <1>1, <1>3, PowerIs
  <2>. HIDE DEF y
  <2>3. 1 * (r * y) = r * y
    BY <1>1, <2>2
  <2>4. Modulo(r * y, d) = goal
    BY <1>5, <2>1, <2>2, <2>3
  <2>5. Progress(r, r, 2 * h, goal, d)
    BY <1>1, <1>2, <2>4 DEF Progress, y
  <2>. QED
    BY <1>1, <1>6, <1>8, <2>5 DEF r, goal, h
<1>. QED
  BY <1>3, <1>7, <1>8

(* Nothing is left.                                                        *)
LEMMA ProgressDone ==
  ASSUME NEW a \in Int, NEW b \in Int, NEW d \in Int, NEW goal, Progress(a, b, 0, goal, d)
  PROVE  a = goal
<1>1. Power(b, 0) = 1
  BY PowerIs
<1>2. a * Power(b, 0) = a
  BY <1>1
<1>. QED
  BY <1>2 DEF Progress

-----------------------------------------------------------------------------
(* The invariant: powers.                                                  *)

PowerPlaces == LimbPlaces \cup {"exponent"}

(* What is raised, to which exponent and modulo what, by the program or by *)
(* zptest; modulo 0 if it is no modular power.                             *)
Base    == IF call.fn = "zptest" THEN num["a"] ELSE Was("b")
Asked   == IF call.fn = "zptest" THEN num["d"] ELSE AskedExponent
Modulus == IF ~ Modular THEN 0 ELSE IF call.fn = "zptest" THEN Was("b") ELSE Was("d")
RaisedBase == IF Modular THEN Base ELSE Abs(Base)
Goal    == Modulo(Power(RaisedBase, Asked), Modulus)
Outcome == IF Asked < 0 THEN 0 ELSE IF Asked = 0 THEN 1 ELSE Modulo(Power(Base, Asked), Modulus)

(* The loop over limbs is not right for an exponent that fills its last.   *)
WholeLimbs == ByNumber /\ FillsLimb(Asked)

(* The part of the exponent that the loops have not come to yet.           *)
Above(i) == Asked \div 2 ^ (i * BitsPerChar)
Rest == CASE at = "limb"     -> Above(loc.i)
          [] at = "exponent" -> 2 * (loc.x \div 2)
          [] OTHER -> IF loc.i < loc.n THEN loc.x + 2 ^ loc.j * Above(loc.i + 1) ELSE loc.x

Counting ==
  /\ {"i", "n", "x", "neg"} \subseteq DOMAIN loc
  /\ loc.i \in Nat /\ loc.x \in Nat
  /\ at = "exponent" => loc.x >= 1
  /\ at \in LimbPlaces =>
       /\ loc.n = Bits(Asked) \div BitsPerChar /\ loc.i <= loc.n
       /\ \A k \in 0 .. loc.n : k + 1 \in DOMAIN block /\ block[k + 1] = Above(k) % 2 ^ BitsPerChar
  /\ at = "bit" => "j" \in DOMAIN loc /\ loc.j \in Int
  /\ at = "bit" /\ loc.i < loc.n => loc.j \in Nat /\ loc.x < 2 ^ loc.j

Multiplying ==
  /\ Asked \in Nat \ {0}
  /\ Modular => num["pow_d"] = Modulus
  /\ loc.neg <=> ~ Modular /\ Base < 0 /\ Asked % 2 = 1
  /\ Counting
  /\ Progress(num[arg.a], num["pow_b"], Rest, Goal, Modulus)

PowerSoFar ==
  /\ at \in PowerPlaces /\ ~ WholeLimbs => Multiplying
  /\ at = "tested" /\ num["d"] \in Nat \ {0} /\ ~ FillsLimb(num["d"]) =>
       num["x"] = PowerMod(num["a"], num["d"], Was("b"))
  /\ PowersRight

(* A power works on the operands it was called with.                       *)
LEMMA PowerOperands ==
  ASSUME Control, Values, Unstored, AtPower \/ at \in PowerPlaces
  PROVE  /\ num \in [Names -> Int] /\ call \in Calls
         /\ arg.a \in Names \ {"pow_b", "pow_d"} /\ "pow_b" \in Names /\ "pow_d" \in Names
         /\ Base \in Int /\ Asked \in Int /\ Modulus \in Int
         /\ AtPower => P("b") = Base /\ Exponent = Asked /\ (Modular => P("d") = Modulus)
         /\ call.fn = "zptest" => arg = TestArg /\ Modular /\ ByNumber
         /\ call.fn # "zptest" => arg = call.arg /\ call.fn \in {"zpow", "zmodpow", "zpowu", "zmodpowu"}
         /\ ByNumber <=> at \in LimbPlaces \cup {"zpow", "zmodpow"}
<1>1. call \in Calls /\ Caller /\ Arguments /\ num \in [Names -> Int]
  BY DEF Control, AtPower, PowerPlaces, LimbPlaces, Values
<1>2. /\ arg.a \in Names \ {"pow_b", "pow_d"} /\ "pow_b" \in Names /\ "pow_d" \in Names
      /\ ByNumber <=> at \in LimbPlaces \cup {"zpow", "zmodpow"}
  BY PowerDestination, PowerParameters DEF PowerPlaces
<1>3. "a" \in Names /\ "d" \in Names /\ Reg \subseteq Names
  BY DEF Names, Dedicated
<1>4. CASE call.fn = "zptest"
  <2>1. arg = TestArg /\ at \in LimbPlaces \cup {"zmodpow"}
    BY <1>1, <1>4 DEF Caller, Arguments, AtPower, LimbPlaces, PowerPlaces, Functions
  <2>2. call.arg.b \in Reg /\ call.val \in [Reg -> Int]
    BY <1>1, <1>4, CallIs DEF Parameters
  <2>3. Modular /\ ByNumber
    BY <2>1 DEF TestArg, Modular, ByNumber
  <2>4. num[call.arg.b] = call.val[call.arg.b]
    BY <1>4, <2>1, <2>2 DEF Unstored, Stored, Outside, LimbPlaces
  <2>5. Base \in Int /\ Asked \in Int /\ Modulus \in Int
    BY <1>1, <1>3, <1>4, <2>2, <2>3 DEF Base, Asked, Modulus, Was
  <2>6. P("b") = Base /\ Exponent = Asked /\ P("d") = Modulus
    BY <1>4, <2>1, <2>3, <2>4 DEF P, Base, Asked, Modulus, Was, TestArg, Exponent
  <2>. QED
    BY <1>1, <1>2, <1>4, <2>1, <2>3, <2>5, <2>6
<1>5. CASE call.fn # "zptest"
  <2>1. arg = call.arg
    BY <1>1, <1>5 DEF Arguments, AtPower, LimbPlaces, Outside, DivisionPlaces, PowerPlaces
  <2>2. call.fn \in {"zpow", "zmodpow", "zpowu", "zmodpowu"}
    BY <1>1, <1>5 DEF Caller, AtPower, LimbPlaces, PowerPlaces, Functions
  <2>3. /\ DOMAIN call.arg = Parameters(call.fn) /\ call.val \in [Reg -> Int]
        /\ \A p \in Parameters(call.fn) : call.arg[p] \in Reg
        /\ call.fn \in {"zpowu", "zmodpowu"} => call.c \in Nat
    BY <1>1, <1>5, CallIs, CallAssumption
  <2>4. /\ ByNumber => "c" \in Parameters(call.fn)
        /\ Modular => "d" \in Parameters(call.fn)
        /\ "b" \in Parameters(call.fn)
        /\ ~ ByNumber => call.fn \in {"zpowu", "zmodpowu"}
    BY <2>1, <2>2, <2>3 DEF Parameters, ByNumber, Modular
  <2>5. Base = Was("b") /\ Asked = (IF ByNumber THEN Was("c") ELSE call.c)
        /\ Modulus = (IF Modular THEN Was("d") ELSE 0)
    BY <1>5, <2>1 DEF Base, Asked, Modulus, AskedExponent, ByNumber
  <2>6. Base \in Int /\ Asked \in Int /\ Modulus \in Int
    BY <2>3, <2>4, <2>5 DEF Was
  <2>7. AtPower => \A p \in Parameters(call.fn) : P(p) = Was(p)
    BY <2>1, <2>3 DEF Unstored, Stored, Outside, LimbPlaces, DivisionPlaces, AtPower, P, Was
  <2>8. AtPower => P("b") = Base /\ Exponent = Asked /\ (Modular => P("d") = Modulus)
    BY <2>4, <2>5, <2>7 DEF Exponent
  <2>. QED
    BY <1>1, <1>2, <1>5, <2>1, <2>2, <2>6, <2>8
<1>. QED
  BY <1>4, <1>5

(* A product that a power takes, modulo a number or not.                   *)
LEMMA TimesIs ==
  ASSUME Control, Values, Unstored, at \in PowerPlaces, NEW x \in Int, NEW y \in Int,
         Modular => num["pow_d"] = Modulus, Modulus = 0 => x >= 0 /\ y >= 0
  PROVE  Times(x, y) = Modulo(x * y, Modulus)
<1>1. CASE Modular
  <2>1. Modulus # 0
    BY <1>1 DEF Values, Modular, PowerPlaces
  <2>. QED
    BY <1>1, <2>1 DEF Times, Modulo
<1>2. CASE ~ Modular
  <2>1. Modulus = 0
    BY <1>2 DEF Modulus
  <2>2. Abs(x) = x /\ Abs(y) = y
    BY <2>1 DEF Abs
  <2>. QED
    BY <1>2, <2>1, <2>2 DEF Times, Modulo
<1>. QED
  BY <1>1, <1>2

(* A step of a power does not change what it is of.                        *)
LEMMA PowerOfTheSame ==
  ASSUME Control, Values, Unstored, Raising
  PROVE  /\ Base' = Base /\ Asked' = Asked /\ Modulus' = Modulus /\ RaisedBase' = RaisedBase
         /\ Goal' = Goal /\ Outcome' = Outcome
         /\ Modular' = Modular /\ ByNumber' = ByNumber /\ WholeLimbs' = WholeLimbs
         /\ \A i : Above(i)' = Above(i)
<1>1. /\ UNCHANGED <<call, arg>> /\ (AtPower \/ at \in PowerPlaces)
  BY RaisingGoes DEF PowerPlaces
<1>2. call.fn = "zptest" => arg.a = "x"
  BY <1>1, PowerOperands DEF TestArg
<1>3. call.fn = "zptest" => num'["a"] = num["a"] /\ num'["d"] = num["d"]
  BY <1>2, RaisingWrites DEF Writes, Names, Dedicated
<1>4. Modular' = Modular /\ ByNumber' = ByNumber
  BY <1>1 DEF Modular, ByNumber
<1>5. Base' = Base /\ Asked' = Asked /\ Modulus' = Modulus
  BY <1>1, <1>3, <1>4 DEF Base, Asked, Modulus, AskedExponent, Was
<1>6. RaisedBase' = RaisedBase
  BY <1>4, <1>5 DEF RaisedBase
<1>. QED
  BY <1>4, <1>5, <1>6 DEF Goal, Outcome, WholeLimbs, Above

(* The whole exponent is left.                                             *)
LEMMA AllLeft ==
  ASSUME NEW e \in Nat
  PROVE  e \div 2 ^ (0 * BitsPerChar) = e
<1>1. BitsPerChar \in Nat
  BY LimbAssumption
<1>2. 0 * BitsPerChar = 0
  BY <1>1
<1>3. 2 ^ 0 = 1
  OBVIOUS
<1>4. 2 ^ (0 * BitsPerChar) = 2 ^ 0
  BY <1>2, Zenon
<1>5. e \div 1 = e
  OBVIOUS
<1>6. 2 ^ (0 * BitsPerChar) = 1
  BY <1>3, <1>4, Zenon
<1>. DEFINE p == 2 ^ (0 * BitsPerChar)
<1>7. p = 1
  BY <1>6
<1>. HIDE DEF p
<1>8. e \div p = e
  BY <1>5, <1>7
<1>. QED
  BY <1>8 DEF p

(* A power is begun.                                                       *)
LEMMA PowerBegun ==
  ASSUME Control, Values, Unstored, PreparePower, at' # "failed", ~ WholeLimbs
  PROVE  Multiplying'
<1>. DEFINE a == arg.a
            E == Asked
            v == IF ByNumber \/ E % 2 = 0 THEN 1 ELSE Reduced
            m == IF Modular THEN P("d") ELSE num["pow_d"]
<1>1. Raising /\ AtPower
  BY DEF Raising, PreparePower
<1>2. /\ num \in [Names -> Int] /\ a \in Names \ {"pow_b", "pow_d"} /\ "pow_b" \in Names /\ "pow_d" \in Names
      /\ Base \in Int /\ E \in Int /\ Modulus \in Int
      /\ P("b") = Base /\ Exponent = E /\ (Modular => P("d") = Modulus)
      /\ ByNumber <=> at \in {"zpow", "zmodpow"}
  BY <1>1, PowerOperands DEF AtPower, LimbPlaces
<1>3. /\ E \in Nat \ {0} /\ (Modular => Modulus # 0)
  BY <1>2 DEF PreparePower, PowerError
<1>4. /\ loc' = [i |-> 0, n |-> Bits(E) \div BitsPerChar, x |-> E,
                 neg |-> ~ Modular /\ Base < 0 /\ E % 2 = 1] @@ loc
      /\ num' = (a :> v @@ "pow_b" :> Reduced @@ "pow_d" :> m) @@ num
      /\ block' = IF ByNumber THEN Overwritten(block, LimbsOf(E)) ELSE block
      /\ at' = IF ByNumber THEN "limb" ELSE "exponent"
      /\ arg' = arg
  BY <1>2 DEF PreparePower, NoMemory, NoRoomFor, Fail, FailHaving, SetLoc, SetNum, ModulusRead
<1>5. /\ {"i", "n", "x", "neg"} \subseteq DOMAIN loc'
      /\ loc'.i = 0 /\ loc'.n = Bits(E) \div BitsPerChar /\ loc'.x = E
      /\ loc'.neg = (~ Modular /\ Base < 0 /\ E % 2 = 1)
  BY <1>4 DEF @@
<1>6. RaisedBase \in Int /\ (Modulus = 0 => RaisedBase >= 0) /\ Reduced = Modulo(RaisedBase, Modulus)
  <2>1. CASE Modular
    BY <1>2, <1>3, <2>1 DEF RaisedBase, Reduced, Modulo
  <2>2. CASE ~ Modular
    <3>1. RaisedBase = Abs(Base) /\ Modulus = 0 /\ Reduced = Abs(Base)
      BY <1>2, <2>2 DEF RaisedBase, Reduced, Modulus
    <3>. QED
      BY <1>2, <3>1, Magnitude DEF Modulo
  <2>. QED
    BY <2>1, <2>2
<1>7. /\ Reduced \in Int
      /\ Progress(1, Reduced, E, Goal, Modulus)
      /\ Progress(IF E % 2 = 0 THEN 1 ELSE Reduced, Reduced, 2 * (E \div 2), Goal, Modulus)
  <2>. DEFINE b == RaisedBase
              n == E
              k == Modulus
  <2>1. b \in Int /\ k \in Int /\ n \in Nat \ {0} /\ (k = 0 => b >= 0)
    BY <1>2, <1>3, <1>6
  <2>. HIDE DEF b, n, k
  <2>2. /\ Modulo(b, k) \in Int
        /\ Progress(1, Modulo(b, k), n, Modulo(Power(b, n), k), k)
        /\ Progress(IF n % 2 = 0 THEN 1 ELSE Modulo(b, k), Modulo(b, k), 2 * (n \div 2),
                    Modulo(Power(b, n), k), k)
    BY <2>1, ProgressBegins
  <2>. QED
    BY <1>6, <2>2 DEF b, n, k, Goal
<1>8. num'[a] = v /\ num'["pow_b"] = Reduced /\ num'["pow_d"] = m
  <2>1. v \in Int /\ m \in Int
    BY <1>2, <1>7
  <2>2. a \in Names /\ a # "pow_b" /\ a # "pow_d"
    BY <1>2
  <2>3. num' = (a :> v @@ "pow_b" :> Reduced @@ "pow_d" :> m) @@ num
    BY <1>4
  <2>. DEFINE w == Reduced
  <2>4. num \in [Names -> Int] /\ "pow_b" \in Names /\ "pow_d" \in Names /\ w \in Int
        /\ "pow_b" # "pow_d"
    BY <1>2, <1>7
  <2>5. num' = (a :> v @@ "pow_b" :> w @@ "pow_d" :> m) @@ num
    BY <2>3
  <2>. HIDE DEF a, v, m, w
  <2>6. /\ num'[a] = v /\ num'["pow_b"] = w /\ num'["pow_d"] = m
        /\ Writes({a, "pow_b", "pow_d"})
    BY <2>1, <2>2, <2>4, <2>5, StoreThree
  <2>. QED
    BY <2>6 DEF w
<1>9. /\ Base' = Base /\ Asked' = E /\ Modulus' = Modulus /\ Goal' = Goal
      /\ Modular' = Modular /\ \A i : Above(i)' = Above(i)
  BY <1>1, PowerOfTheSame
<1>10. Bits(E) \div BitsPerChar \in Nat
  <2>1. Bits(E) \in Nat /\ BitsPerChar \in Nat \ {0}
    BY <1>3, BitsOf, Magnitude, LimbAssumption
  <2>. HIDE DEF E
  <2>. QED
    BY <2>1, DivModNat
<1>11. ByNumber => \A k \in 0 .. loc'.n : k + 1 \in DOMAIN block'
                                         /\ block'[k + 1] = Above(k) % 2 ^ BitsPerChar
  <2>. SUFFICES ASSUME ByNumber
                PROVE  \A k \in 0 .. loc'.n : k + 1 \in DOMAIN block'
                                             /\ block'[k + 1] = Above(k) % 2 ^ BitsPerChar
    OBVIOUS
  <2>1. ~ FillsLimb(E)
    BY DEF WholeLimbs
  <2>2. /\ DOMAIN LimbsOf(E) = 1 .. loc'.n + 1
        /\ \A k \in 0 .. loc'.n :
             LimbsOf(E)[k + 1] = (E \div 2 ^ (k * BitsPerChar)) % 2 ^ BitsPerChar
    <3>. DEFINE e == E
    <3>1. e \in Nat \ {0} /\ ~ FillsLimb(e)
      BY <1>3, <2>1
    <3>. HIDE DEF e
    <3>2. /\ DOMAIN LimbsOf(e) = 1 .. (Bits(e) \div BitsPerChar) + 1
          /\ \A k \in 0 .. Bits(e) \div BitsPerChar :
             LimbsOf(e)[k + 1] = (e \div 2 ^ (k * BitsPerChar)) % 2 ^ BitsPerChar
      BY <3>1, LimbsOfExponent
    <3>. QED
      BY <1>5, <3>2 DEF e
  <2>3. block' = Overwritten(block, LimbsOf(E))
    BY <1>4
  <2>4. ASSUME NEW k \in 0 .. loc'.n PROVE k + 1 \in DOMAIN LimbsOf(E)
    BY <1>5, <1>10, <2>2
  <2>. HIDE DEF E
  <2>5. \A k \in DOMAIN LimbsOf(E) : k \in DOMAIN block' /\ block'[k] = LimbsOf(E)[k]
    BY <2>3 DEF Overwritten
  <2>. QED
    BY <2>2, <2>4, <2>5 DEF Above, E
<1>12. Counting'
  <2>1. loc'.i = 0 /\ loc'.x \in Nat /\ loc'.x >= 1 /\ 0 <= loc'.n
    BY <1>3, <1>5, <1>10
  <2>2. at' \in LimbPlaces => ByNumber
    BY <1>4 DEF LimbPlaces
  <2>3. at' # "bit"
    BY <1>4
  <2>. QED
    BY <1>5, <1>9, <1>11, <2>1, <2>2, <2>3 DEF Counting
<1>13. Progress(num'[a], num'["pow_b"], Rest', Goal, Modulus)
  <2>1. CASE ByNumber
    <3>1. v = 1 /\ at' = "limb"
      BY <1>4, <2>1
    <3>2. Above(0) = E
      BY <1>3, AllLeft DEF Above
    <3>3. Rest' = E
      BY <1>5, <1>9, <3>1, <3>2 DEF Rest
    <3>. QED
      BY <1>7, <1>8, <3>1, <3>3
  <2>2. CASE ~ ByNumber
    <3>1. v = (IF E % 2 = 0 THEN 1 ELSE Reduced) /\ at' = "exponent"
      BY <1>4, <2>2
    <3>2. Rest' = 2 * (E \div 2)
      BY <1>5, <3>1 DEF Rest
    <3>. QED
      BY <1>7, <1>8, <3>1, <3>2
  <2>. QED
    BY <2>1, <2>2
<1>14. Modular' => num'["pow_d"] = Modulus'
  BY <1>2, <1>8, <1>9
<1>. QED
  BY <1>3, <1>4, <1>5, <1>9, <1>12, <1>13, <1>14 DEF Multiplying

(* Everything a step of a loop needs to know of the power.                 *)
LEMMA PowerOnTheWay ==
  ASSUME Control, Values, Unstored, Raising, Multiplying, at \in PowerPlaces
  PROVE  /\ num \in [Names -> Int] /\ arg.a \in Names /\ "pow_b" \in Names /\ arg.a # "pow_b"
         /\ arg.a # "pow_d" /\ "pow_d" \in Names /\ arg' = arg
         /\ Modulus \in Int /\ Asked \in Nat \ {0} /\ (Modular => num["pow_d"] = Modulus /\ Modulus # 0)
         /\ Counting /\ Progress(num[arg.a], num["pow_b"], Rest, Goal, Modulus)
         /\ at \in LimbPlaces => ByNumber
         /\ Base' = Base /\ Asked' = Asked /\ Modulus' = Modulus /\ Goal' = Goal
         /\ Modular' = Modular /\ ByNumber' = ByNumber /\ WholeLimbs' = WholeLimbs
         /\ \A i : Above(i)' = Above(i)
         /\ BitsPerChar \in Nat \ {0}
         /\ \A i \in Nat : Above(i) \in Nat
<1>1. Modular => num["pow_d"] = Modulus /\ Modulus # 0
  BY DEF Multiplying, Values, Modular, PowerPlaces
<1>2. BitsPerChar \in Nat \ {0}
  BY LimbAssumption
<1>3. Asked \in Nat
  BY DEF Multiplying
<1>4. ASSUME NEW i \in Nat PROVE Above(i) \in Nat
  <2>. DEFINE k == i * BitsPerChar
              p == 2 ^ k
              e == Asked
  <2>1. k \in Nat
    BY <1>2
  <2>2. p \in Nat \ {0} /\ e \in Nat
    <3>. HIDE DEF k
    <3>. QED
      BY <1>3, <2>1, Positive
  <2>. HIDE DEF p, e
  <2>3. e \div p \in Nat
    BY <2>2, DivModNat
  <2>. QED
    BY <2>3 DEF Above, e, p
<1>5. arg' = arg
  BY RaisingGoes
<1>. QED
  BY <1>1, <1>2, <1>4, <1>5, PowerOperands, PowerOfTheSame DEF Multiplying

(* A step that only counts.                                                *)
LEMMA PowerCounted ==
  ASSUME Control, Values, Unstored, Raising, Multiplying, at \in PowerPlaces,
         UNCHANGED num, Counting', loc'.neg = loc.neg, Rest' = Rest
  PROVE  Multiplying'
<1>1. /\ Asked \in Nat \ {0} /\ arg' = arg /\ (Modular => num["pow_d"] = Modulus)
      /\ Progress(num[arg.a], num["pow_b"], Rest, Goal, Modulus)
      /\ Base' = Base /\ Asked' = Asked /\ Modulus' = Modulus /\ Goal' = Goal
      /\ Modular' = Modular
  BY PowerOnTheWay
<1>2. loc.neg <=> ~ Modular /\ Base < 0 /\ Asked % 2 = 1
  BY DEF Multiplying
<1>. QED
  BY <1>1, <1>2 DEF Multiplying

(* The next limb of the exponent is the part of it that counts now.        *)
LEMMA LimbTaken ==
  ASSUME Control, Values, Unstored, Multiplying, ~ WholeLimbs, NextLimb
  PROVE  Multiplying'
<1>. DEFINE i == loc.i
            n == loc.n
            E == Asked
<1>1. Raising /\ at = "limb" /\ at \in PowerPlaces /\ at' = "bit" /\ UNCHANGED <<num, block>>
  BY DEF Raising, NextLimb, Goto, PowerPlaces, LimbPlaces
<1>2. /\ ByNumber /\ Counting /\ E \in Nat \ {0} /\ BitsPerChar \in Nat \ {0}
      /\ Asked' = E
      /\ (\A k : Above(k)' = Above(k)) /\ (\A k \in Nat : Above(k) \in Nat)
  BY <1>1, PowerOnTheWay DEF LimbPlaces
<1>3. /\ {"i", "n", "x", "neg"} \subseteq DOMAIN loc
      /\ i \in Nat /\ n = Bits(E) \div BitsPerChar /\ i <= n
      /\ \A k \in 0 .. n : k + 1 \in DOMAIN block /\ block[k + 1] = Above(k) % 2 ^ BitsPerChar
  BY <1>1, <1>2 DEF Counting, LimbPlaces
<1>4. n \in Nat
  <2>1. Bits(E) \in Nat
    BY <1>2, BitsOf, Magnitude
  <2>. HIDE DEF E
  <2>. QED
    BY <1>2, <1>3, <2>1, DivModNat
<1>. DEFINE limb == Above(i) % 2 ^ BitsPerChar
            j == IF i < n THEN BitsPerChar ELSE 0
<1>5. i + 1 \in DOMAIN block /\ block[i + 1] = limb
  BY <1>3, <1>4
<1>6. loc' = [x |-> limb, j |-> j] @@ loc
  BY <1>5 DEF NextLimb, SetLoc
<1>7. /\ {"i", "n", "x", "neg", "j"} \subseteq DOMAIN loc'
      /\ loc'.i = i /\ loc'.n = n /\ loc'.neg = loc.neg /\ loc'.x = limb /\ loc'.j = j
  BY <1>3, <1>6 DEF @@
<1>8. /\ limb \in 0 .. 2 ^ BitsPerChar - 1
      /\ Above(i) = limb + 2 ^ BitsPerChar * Above(i + 1)
  <2>. DEFINE e == Asked
              w == BitsPerChar
              k == i
  <2>1. e \in Nat /\ w \in Nat /\ k \in Nat
    BY <1>2, <1>3
  <2>. HIDE DEF e, w, k
  <2>2. LET q == e \div 2 ^ (k * w)
        IN  /\ q % 2 ^ w \in 0 .. 2 ^ w - 1
            /\ q = (q % 2 ^ w) + 2 ^ w * (e \div 2 ^ ((k + 1) * w))
    BY <2>1, LimbAndRest
  <2>. QED
    BY <2>2 DEF Above, e, w, k
<1>9. i = n => Above(i) = limb
  <2>. SUFFICES ASSUME i = n PROVE Above(i) = limb
    OBVIOUS
  <2>1. Above(n) \in 0 .. 2 ^ BitsPerChar - 1
    <3>. DEFINE e == E
    <3>1. e \in Nat \ {0} /\ ~ FillsLimb(e)
      BY <1>2 DEF WholeLimbs
    <3>. HIDE DEF e
    <3>2. e \div 2 ^ ((Bits(e) \div BitsPerChar) * BitsPerChar) \in 0 .. 2 ^ BitsPerChar - 1
      BY <3>1, LimbsOfExponent
    <3>. QED
      BY <1>3, <3>2 DEF Above, e
  <2>. DEFINE p == 2 ^ BitsPerChar
              m == Above(n)
  <2>2. p \in Nat \ {0}
    BY <1>2, Positive
  <2>3. m \in 0 .. p - 1
    BY <2>1
  <2>. HIDE DEF p, m
  <2>4. m % p = m
    BY <2>2, <2>3
  <2>. QED
    BY <2>4 DEF p, m
<1>. HIDE DEF i, n, limb, j
<1>10. 2 ^ BitsPerChar \in Nat
  BY <1>2, Positive
<1>11. Rest' = Rest
  <2>1. Rest = Above(i)
    BY <1>1 DEF Rest, i
  <2>2. Rest' = IF loc'.i < loc'.n THEN loc'.x + 2 ^ loc'.j * Above(loc'.i + 1) ELSE loc'.x
    BY <1>1, <1>2 DEF Rest
  <2>3. CASE i < n
    <3>1. Rest' = limb + 2 ^ BitsPerChar * Above(i + 1)
      BY <1>7, <2>2, <2>3 DEF j
    <3>. QED
      BY <1>8, <2>1, <3>1
  <2>4. CASE ~ (i < n)
    <3>1. i = n
      BY <1>3, <1>4, <2>4
    <3>. QED
      BY <1>7, <1>9, <2>1, <2>2, <2>4, <3>1
  <2>. QED
    BY <2>3, <2>4
<1>12. Counting'
  <2>1. loc'.i \in Nat /\ loc'.x \in Nat /\ loc'.i <= loc'.n
    BY <1>3, <1>7, <1>8, <1>10
  <2>2. \A k \in 0 .. loc'.n : k + 1 \in DOMAIN block' /\ block'[k + 1] = Above(k)' % 2 ^ BitsPerChar
    BY <1>1, <1>2, <1>3, <1>7
  <2>3. loc'.j \in Int /\ (loc'.i < loc'.n => loc'.j = BitsPerChar /\ loc'.j \in Nat)
    BY <1>2, <1>7 DEF j
  <2>4. loc'.x < 2 ^ BitsPerChar
    BY <1>7, <1>8, <1>10
  <2>5. loc'.i < loc'.n => loc'.j \in Nat /\ loc'.x < 2 ^ loc'.j
    BY <2>3, <2>4
  <2>6. loc'.n = Bits(Asked') \div BitsPerChar
    BY <1>2, <1>3, <1>7
  <2>. QED
    BY <1>1, <1>7, <2>1, <2>2, <2>3, <2>5, <2>6 DEF Counting
<1>. QED
  BY <1>1, <1>7, <1>11, <1>12, PowerCounted

(* No bit is left of a limb.                                               *)
LEMMA LimbLeft ==
  ASSUME Control, Values, Unstored, Multiplying, LimbDone
  PROVE  Multiplying'
<1>. DEFINE i == loc.i
            n == loc.n
<1>1. /\ Raising /\ at = "bit" /\ at \in PowerPlaces /\ at' = "limb" /\ UNCHANGED <<num, block>>
      /\ i < n /\ ~ (loc.j > 0)
      /\ loc' = [i |-> i + 1] @@ loc
  BY DEF Raising, LimbDone, Goto, PowerPlaces, LimbPlaces, BitsLeft, SetLoc
<1>2. /\ Counting /\ Asked' = Asked
      /\ (\A k : Above(k)' = Above(k)) /\ (\A k \in Nat : Above(k) \in Nat)
  BY <1>1, PowerOnTheWay
<1>3. /\ {"i", "n", "x", "neg"} \subseteq DOMAIN loc
      /\ i \in Nat /\ n = Bits(Asked) \div BitsPerChar
      /\ \A k \in 0 .. n : k + 1 \in DOMAIN block /\ block[k + 1] = Above(k) % 2 ^ BitsPerChar
      /\ loc.j \in Nat /\ loc.x \in Nat /\ loc.x < 2 ^ loc.j
  BY <1>1, <1>2 DEF Counting, LimbPlaces
<1>4. /\ {"i", "n", "x", "neg"} \subseteq DOMAIN loc'
      /\ loc'.i = i + 1 /\ loc'.n = n /\ loc'.neg = loc.neg /\ loc'.x = loc.x
  BY <1>1, <1>3 DEF @@
<1>5. loc.j = 0 /\ 2 ^ loc.j = 1
  <2>1. 2 ^ 0 = 1
    OBVIOUS
  <2>2. loc.j = 0
    BY <1>1, <1>3
  <2>. QED
    BY <2>1, <2>2, Zenon
<1>6. loc.x = 0
  <2>. DEFINE p == 2 ^ loc.j
  <2>1. p = 1 /\ loc.x < p /\ loc.x \in Nat
    BY <1>3, <1>5
  <2>. HIDE DEF p
  <2>. QED
    BY <2>1
<1>7. Rest' = Rest
  <2>1. Rest = loc.x + 2 ^ loc.j * Above(i + 1)
    BY <1>1 DEF Rest
  <2>. DEFINE q == Above(i + 1)
              p == 2 ^ loc.j
  <2>2. p = 1 /\ q \in Nat /\ Rest = 0 + p * q
    BY <1>2, <1>3, <1>5, <1>6, <2>1
  <2>3. Rest' = q
    BY <1>1, <1>2, <1>4 DEF Rest
  <2>. HIDE DEF p, q
  <2>. QED
    BY <2>2, <2>3
<1>8. Counting'
  <2>. HIDE DEF i, n
  <2>0. i < n
    BY <1>1 DEF i, n
  <2>1. loc'.i \in Nat /\ loc'.x \in Nat
    BY <1>3, <1>4
  <2>4. loc'.i <= loc'.n
    <3>1. n \in Int
      BY <1>3, LimbAssumption, PowerOperands, <1>1, BitsOf, Magnitude DEF Multiplying
    <3>. QED
      BY <1>3, <1>4, <2>0, <3>1
  <2>2. \A k \in 0 .. loc'.n : k + 1 \in DOMAIN block' /\ block'[k + 1] = Above(k)' % 2 ^ BitsPerChar
    BY <1>1, <1>2, <1>3, <1>4
  <2>3. loc'.n = Bits(Asked') \div BitsPerChar
    BY <1>2, <1>3, <1>4
  <2>. QED
    BY <1>1, <1>4, <2>1, <2>2, <2>3, <2>4 DEF Counting
<1>. QED
  BY <1>1, <1>4, <1>7, <1>8, PowerCounted

(* A product of the destination, or of a square, in the terms of Progress. *)
LEMMA Multiplications ==
  ASSUME Control, Values, Unstored, Raising, Multiplying, at \in PowerPlaces
  PROVE  LET a == num[arg.a]
             b == num["pow_b"]
             c == Modulo(b * b, Modulus)
         IN  /\ a \in Int /\ b \in Int /\ c \in Int
             /\ Times(b, b) = c
             /\ Times(a, b) = Modulo(a * b, Modulus)
             /\ Times(a, c) = Modulo(a * c, Modulus)
<1>. DEFINE a == num[arg.a]
            b == num["pow_b"]
            c == Modulo(b * b, Modulus)
<1>1. /\ a \in Int /\ b \in Int /\ Modulus \in Int /\ (Modular => num["pow_d"] = Modulus)
      /\ Modulus = 0 => a >= 0 /\ b >= 0
  BY PowerOnTheWay DEF Progress
<1>. HIDE DEF a, b
<1>2. b * b \in Int
  BY <1>1
<1>3. c \in Int
  BY <1>1, <1>2, ModuloOfProduct
<1>4. Modulus = 0 => c >= 0
  <2>. SUFFICES ASSUME Modulus = 0 PROVE c >= 0
    OBVIOUS
  <2>1. b >= 0 /\ b * b >= 0
    BY <1>1
  <2>. QED
    BY <2>1 DEF Modulo
<1>5. Times(b, b) = c /\ Times(a, b) = Modulo(a * b, Modulus)
  BY <1>1, TimesIs
<1>. HIDE DEF c
<1>6. Times(a, c) = Modulo(a * c, Modulus)
  BY <1>1, <1>3, <1>4, TimesIs
<1>. QED
  BY <1>1, <1>3, <1>5, <1>6 DEF a, b, c

(* A bit of a limb.                                                        *)
LEMMA BitTaken ==
  ASSUME Control, Values, Unstored, Multiplying, MultiplyAndSquare, at' # "failed"
  PROVE  Multiplying'
<1>. DEFINE a == arg.a
            i == loc.i
            n == loc.n
            x == loc.x
            j == loc.j
            na == num[a]
            nb == num["pow_b"]
            sq == Modulo(nb * nb, Modulus)
            mu == Multiplied(na, nb, Rest, Modulus)
<1>1. /\ Raising /\ at = "bit" /\ at \in PowerPlaces /\ at' = "bit" /\ UNCHANGED <<block, arg>>
      /\ IF i < n THEN j > 0 ELSE x > 0
      /\ num' = (a :> (IF x % 2 = 1 THEN Times(na, nb) ELSE na) @@ "pow_b" :> Times(nb, nb)) @@ num
      /\ loc' = [x |-> x \div 2, j |-> j - 1] @@ loc
  BY DEF Raising, MultiplyAndSquare, Goto, PowerPlaces, LimbPlaces, BitsLeft, SetNum, SetLoc,
         NoMemory, NoRoomFor, Fail, FailHaving, P
<1>2. /\ num \in [Names -> Int] /\ a \in Names /\ "pow_b" \in Names /\ a # "pow_b" /\ a # "pow_d"
      /\ "pow_d" \in Names /\ Modulus \in Int /\ (Modular => num["pow_d"] = Modulus)
      /\ Counting /\ Progress(na, nb, Rest, Goal, Modulus)
      /\ Base' = Base /\ Asked' = Asked /\ Modulus' = Modulus /\ Goal' = Goal /\ Modular' = Modular
      /\ (\A k : Above(k)' = Above(k)) /\ (\A k \in Nat : Above(k) \in Nat)
  BY <1>1, PowerOnTheWay
<1>3. na \in Int /\ nb \in Int /\ Times(nb, nb) = sq /\ Times(na, nb) = Modulo(na * nb, Modulus)
  BY <1>1, Multiplications
<1>4. /\ {"i", "n", "x", "neg", "j"} \subseteq DOMAIN loc
      /\ i \in Nat /\ x \in Nat /\ j \in Int /\ n = Bits(Asked) \div BitsPerChar /\ i <= n
      /\ \A k \in 0 .. n : k + 1 \in DOMAIN block /\ block[k + 1] = Above(k) % 2 ^ BitsPerChar
      /\ i < n => j \in Nat \ {0} /\ x < 2 ^ j
  BY <1>1, <1>2 DEF Counting, LimbPlaces
<1>5. /\ {"i", "n", "x", "neg", "j"} \subseteq DOMAIN loc'
      /\ loc'.i = i /\ loc'.n = n /\ loc'.neg = loc.neg /\ loc'.x = x \div 2 /\ loc'.j = j - 1
  BY <1>1, <1>4 DEF @@
<1>6. /\ Rest \in Nat /\ Rest % 2 = x % 2
      /\ Rest' = Rest \div 2
      /\ x \div 2 \in Nat
      /\ i < n => x \div 2 < 2 ^ (j - 1)
  <2>1. CASE i < n
    <3>. DEFINE q == Above(i + 1)
    <3>1. Rest = x + 2 ^ j * q
      BY <1>1, <2>1 DEF Rest
    <3>2. Rest' = x \div 2 + 2 ^ (j - 1) * q
      BY <1>1, <1>2, <1>5, <2>1 DEF Rest
    <3>3. q \in Nat /\ x \in Nat /\ j \in Nat \ {0} /\ x < 2 ^ j
      BY <1>2, <1>4, <2>1
    <3>. HIDE DEF x, q, j
    <3>4. LET r == x + 2 ^ j * q
          IN  /\ r \in Nat /\ r % 2 = x % 2
              /\ r \div 2 = x \div 2 + 2 ^ (j - 1) * q
              /\ x \div 2 \in Nat /\ x \div 2 < 2 ^ (j - 1)
      BY <3>3, BitAndRest
    <3>. QED
      BY <3>1, <3>2, <3>4
  <2>2. CASE ~ (i < n)
    <3>1. Rest = x
      BY <1>1, <2>2 DEF Rest
    <3>2. Rest' = x \div 2
      BY <1>1, <1>5, <2>2 DEF Rest
    <3>3. x \in Nat
      BY <1>4
    <3>. HIDE DEF x
    <3>4. x \div 2 \in Nat
      BY <3>3
    <3>. QED
      BY <2>2, <3>1, <3>2, <3>3, <3>4
  <2>. QED
    BY <2>1, <2>2
<1>7. mu = IF x % 2 = 1 THEN Times(na, nb) ELSE na
  BY <1>3, <1>6 DEF Multiplied
<1>8. mu \in Int /\ sq \in Int /\ Progress(mu, sq, Rest', Goal, Modulus)
  <2>. DEFINE r == Rest
              d == Modulus
              g == Goal
  <2>1. na \in Int /\ nb \in Int /\ d \in Int /\ r \in Nat /\ Progress(na, nb, r, g, d)
    BY <1>2, <1>3, <1>6
  <2>. HIDE DEF na, nb, r, d, g
  <2>2. /\ Multiplied(na, nb, r, d) \in Int /\ Modulo(nb * nb, d) \in Int
        /\ Progress(Multiplied(na, nb, r, d), Modulo(nb * nb, d), r \div 2, g, d)
    BY <2>1, ProgressOfBit
  <2>. QED
    BY <1>6, <2>2 DEF r, d, g
<1>9. num' = (a :> mu @@ "pow_b" :> sq) @@ num
  BY <1>1, <1>3, <1>7
<1>. HIDE DEF a, i, n, x, j, na, nb, sq, mu
<1>10. num'[a] = mu /\ num'["pow_b"] = sq /\ Writes({a, "pow_b"})
  BY <1>2, <1>8, <1>9, StoreTwo
<1>11. Modular' => num'["pow_d"] = Modulus'
  BY <1>2, <1>10 DEF Writes
<1>12. Counting'
  <2>1. loc'.i \in Nat /\ loc'.x \in Nat /\ loc'.j \in Int /\ loc'.i <= loc'.n
    BY <1>4, <1>5, <1>6
  <2>2. \A k \in 0 .. loc'.n : k + 1 \in DOMAIN block' /\ block'[k + 1] = Above(k)' % 2 ^ BitsPerChar
    BY <1>1, <1>2, <1>4, <1>5
  <2>3. loc'.i < loc'.n => loc'.j \in Nat /\ loc'.x < 2 ^ loc'.j
    BY <1>4, <1>5, <1>6
  <2>4. loc'.n = Bits(Asked') \div BitsPerChar
    BY <1>2, <1>4, <1>5
  <2>. QED
    BY <1>1, <1>5, <2>1, <2>2, <2>3, <2>4 DEF Counting
<1>13. /\ Asked \in Nat \ {0}
       /\ loc.neg <=> ~ Modular /\ Base < 0 /\ Asked % 2 = 1
  BY DEF Multiplying
<1>14. Progress(num'[arg'.a], num'["pow_b"], Rest', Goal', Modulus')
  BY <1>1, <1>2, <1>8, <1>10 DEF a
<1>. QED
  BY <1>2, <1>5, <1>11, <1>12, <1>13, <1>14 DEF Multiplying

(* A bit of an exponent that is shifted first.                             *)
LEMMA BitShifted ==
  ASSUME Control, Values, Unstored, Multiplying, SquareAndMultiply, at' # "failed"
  PROVE  Multiplying'
<1>. DEFINE a == arg.a
            h == loc.x \div 2
            na == num[a]
            nb == num["pow_b"]
            sq == Modulo(nb * nb, Modulus)
            mu == Multiplied(na, sq, h, Modulus)
<1>1. /\ Raising /\ at = "exponent" /\ at \in PowerPlaces /\ at' = "exponent" /\ UNCHANGED arg
      /\ loc.x > 1
      /\ num' = ("pow_b" :> Times(nb, nb) @@
                 a :> IF h % 2 = 1 THEN Times(na, Times(nb, nb)) ELSE na) @@ num
      /\ loc' = [x |-> h] @@ loc
  BY DEF Raising, SquareAndMultiply, Goto, PowerPlaces, LimbPlaces, SetNum, SetLoc,
         NoMemory, NoRoomFor, Fail, FailHaving, P
<1>2. /\ num \in [Names -> Int] /\ a \in Names /\ "pow_b" \in Names /\ a # "pow_b" /\ a # "pow_d"
      /\ "pow_d" \in Names /\ Modulus \in Int /\ (Modular => num["pow_d"] = Modulus)
      /\ Counting /\ Progress(na, nb, Rest, Goal, Modulus)
      /\ Base' = Base /\ Asked' = Asked /\ Modulus' = Modulus /\ Goal' = Goal /\ Modular' = Modular
  BY <1>1, PowerOnTheWay
<1>3. na \in Int /\ nb \in Int /\ Times(nb, nb) = sq /\ Times(na, sq) = Modulo(na * sq, Modulus)
  BY <1>1, Multiplications
<1>4. {"i", "n", "x", "neg"} \subseteq DOMAIN loc /\ loc.i \in Nat /\ loc.x \in Nat
  BY <1>1, <1>2 DEF Counting
<1>5. /\ {"i", "n", "x", "neg"} \subseteq DOMAIN loc'
      /\ loc'.i = loc.i /\ loc'.n = loc.n /\ loc'.neg = loc.neg /\ loc'.x = h
  BY <1>1, <1>4 DEF @@
<1>6. h \in Nat \ {0}
  <2>. DEFINE x == loc.x
  <2>1. x \in Nat /\ x > 1
    BY <1>1, <1>4
  <2>. HIDE DEF x
  <2>2. x \div 2 \in Nat \ {0}
    BY <2>1
  <2>. QED
    BY <2>2 DEF x
<1>7. Rest = 2 * h /\ Rest' = 2 * (h \div 2)
  BY <1>1, <1>5 DEF Rest
<1>8. mu = IF h % 2 = 1 THEN Times(na, Times(nb, nb)) ELSE na
  BY <1>3 DEF Multiplied
<1>9. mu \in Int /\ sq \in Int /\ Progress(mu, sq, Rest', Goal, Modulus)
  <2>. DEFINE d == Modulus
              g == Goal
  <2>1. na \in Int /\ nb \in Int /\ d \in Int /\ h \in Nat \ {0} /\ Progress(na, nb, 2 * h, g, d)
    BY <1>2, <1>3, <1>6, <1>7
  <2>. HIDE DEF na, nb, h, d, g
  <2>2. LET c == Modulo(nb * nb, d)
        IN  /\ Multiplied(na, c, h, d) \in Int /\ c \in Int
            /\ Progress(Multiplied(na, c, h, d), c, 2 * (h \div 2), g, d)
    BY <2>1, ProgressOfShift
  <2>. QED
    BY <1>7, <2>2 DEF d, g
<1>10. num' = ("pow_b" :> sq @@ a :> mu) @@ num
  BY <1>1, <1>3, <1>8
<1>. HIDE DEF a, h, na, nb, sq, mu
<1>11. num'[a] = mu /\ num'["pow_b"] = sq /\ Writes({"pow_b", a})
  BY <1>2, <1>9, <1>10, StoreTwo
<1>12. Modular' => num'["pow_d"] = Modulus'
  BY <1>2, <1>11 DEF Writes
<1>13. Counting'
  <2>1. loc'.i \in Nat /\ loc'.x \in Nat /\ loc'.x >= 1
    BY <1>4, <1>5, <1>6
  <2>. QED
    BY <1>1, <1>5, <2>1 DEF Counting, LimbPlaces
<1>14. /\ Asked \in Nat \ {0}
       /\ loc.neg <=> ~ Modular /\ Base < 0 /\ Asked % 2 = 1
  BY DEF Multiplying
<1>15. Progress(num'[arg'.a], num'["pow_b"], Rest', Goal', Modulus')
  BY <1>1, <1>2, <1>9, <1>11 DEF a
<1>. QED
  BY <1>2, <1>5, <1>12, <1>13, <1>14, <1>15 DEF Multiplying

(* What a power stores at last is what it is to store.                     *)
LEMMA PowerFound ==
  ASSUME Control, Values, Unstored, Multiplying, PowerDone
  PROVE  num'[arg.a] = Outcome
<1>. DEFINE a == arg.a
            na == num[a]
            v == IF loc.neg THEN - na ELSE na
<1>1. /\ Raising /\ at \in PowerPlaces
      /\ \/ at = "bit" /\ ~ BitsLeft /\ loc.i >= loc.n
         \/ at = "exponent" /\ loc.x <= 1
      /\ num' = a :> v @@ num
  BY DEF Raising, PowerDone, PowerPlaces, LimbPlaces, SetNum, P
<1>2. /\ num \in [Names -> Int] /\ a \in Names /\ Modulus \in Int /\ Asked \in Nat \ {0}
      /\ Counting /\ Progress(na, num["pow_b"], Rest, Goal, Modulus)
      /\ "pow_b" \in Names
  BY <1>1, PowerOnTheWay
<1>3. na \in Int /\ num["pow_b"] \in Int
  BY <1>2
<1>4. Rest = 0
  <2>1. CASE at = "bit"
    <3>1. ~ (loc.i < loc.n) /\ loc.x \in Nat
      <4>1. loc.i \in Nat /\ loc.x \in Nat /\ loc.i <= loc.n /\ loc.n = Bits(Asked) \div BitsPerChar
        BY <1>2, <2>1 DEF Counting, LimbPlaces
      <4>2. Bits(Asked) \in Nat /\ BitsPerChar \in Nat \ {0}
        BY <1>2, BitsOf, Magnitude, LimbAssumption
      <4>3. loc.n \in Int
        BY <4>1, <4>2
      <4>. QED
        BY <1>1, <2>1, <4>1, <4>3
    <3>2. ~ (loc.x > 0)
      BY <1>1, <2>1, <3>1 DEF BitsLeft
    <3>3. Rest = loc.x
      BY <2>1, <3>1 DEF Rest
    <3>. QED
      BY <3>1, <3>2, <3>3
  <2>2. CASE at = "exponent"
    <3>1. loc.x \in Nat /\ loc.x >= 1 /\ loc.x <= 1
      BY <1>1, <1>2, <2>2 DEF Counting
    <3>2. loc.x = 1
      BY <3>1
    <3>3. Rest = 2 * (1 \div 2)
      BY <2>2, <3>2 DEF Rest
    <3>. QED
      BY <3>3
  <2>. QED
    BY <1>1, <2>1, <2>2
<1>5. na = Goal
  <2>. DEFINE b == num["pow_b"]
              d == Modulus
              g == Goal
  <2>1. na \in Int /\ b \in Int /\ d \in Int /\ Progress(na, b, 0, g, d)
    BY <1>2, <1>3, <1>4
  <2>. HIDE DEF na, b, d, g
  <2>2. na = g
    BY <2>1, ProgressDone
  <2>. QED
    BY <2>2 DEF g
<1>6. v \in Int
  BY <1>3
<1>7. num'[a] = v
  <2>. HIDE DEF a, v
  <2>. QED
    BY <1>1, <1>2, <1>6, StoreOne
<1>8. Outcome = Modulo(Power(Base, Asked), Modulus)
  BY <1>2 DEF Outcome
<1>9. loc.neg <=> ~ Modular /\ Base < 0 /\ Asked % 2 = 1
  BY DEF Multiplying
<1>10. v = Outcome
  <2>1. CASE Modular
    BY <1>5, <1>8, <1>9, <2>1 DEF Goal, RaisedBase
  <2>2. CASE ~ Modular
    <3>1. Modulus = 0
      BY <2>2 DEF Modulus
    <3>2. na = Power(Abs(Base), Asked)
      BY <1>5, <2>2, <3>1 DEF Goal, RaisedBase, Modulo
    <3>3. Outcome = Power(Base, Asked)
      BY <1>8, <3>1 DEF Modulo
    <3>4. Base \in Int
      BY <1>1, PowerOperands
    <3>5. Power(Base, Asked) = IF Base < 0 /\ Asked % 2 = 1 THEN - Power(Abs(Base), Asked)
                               ELSE Power(Abs(Base), Asked)
      BY <1>2, <3>4, PowerOfMagnitude
    <3>. QED
      BY <1>9, <2>2, <3>2, <3>3, <3>5
  <2>. QED
    BY <2>1, <2>2
<1>. QED
  BY <1>7, <1>10

(* So is what it stores at once.                                           *)
LEMMA NothingFound ==
  ASSUME Control, Values, Unstored, PowerOfNothing, at' # "failed"
  PROVE  num'[arg.a] = Outcome /\ (Modular => Modulus # 0)
<1>. DEFINE a == arg.a
            v == IF Asked = 0 THEN 1 ELSE 0
<1>1. /\ num \in [Names -> Int] /\ a \in Names /\ Base \in Int /\ Asked \in Int /\ Modulus \in Int
      /\ P("b") = Base /\ Exponent = Asked /\ (Modular => P("d") = Modulus)
  BY PowerOperands DEF PowerOfNothing
<1>2. /\ num' = a :> v @@ num /\ (Asked <= 0 \/ Base = 0)
      /\ Modular => Modulus # 0
  BY <1>1 DEF PowerOfNothing, PowerError, NoRoomFor, FailHaving, SetNum
<1>3. num'[a] = v
  <2>1. v \in Int
    OBVIOUS
  <2>. HIDE DEF a, v
  <2>. QED
    BY <1>1, <1>2, <2>1, StoreOne
<1>4. CASE Asked <= 0
  BY <1>1, <1>2, <1>3, <1>4 DEF Outcome
<1>5. CASE Asked > 0
  <2>1. Base = 0 /\ Asked \in Nat \ {0}
    BY <1>1, <1>2, <1>5
  <2>2. Power(Base, Asked) = 0
    BY <2>1, PowerOfZero
  <2>3. Outcome = Modulo(0, Modulus)
    BY <1>1, <1>5, <2>2 DEF Outcome
  <2>4. Modulus # 0 => Rem(0, Modulus) = 0
    <3>. DEFINE d == Modulus
    <3>1. d \in Int
      BY <1>1
    <3>. HIDE DEF d
    <3>2. d # 0 => Divided(0, 0, 0, d)
      BY <3>1 DEF Divided, Abs, Sign
    <3>3. d # 0 => Rem(0, d) = 0
      BY <3>1, <3>2, RemUnique
    <3>. QED
      BY <3>3 DEF d
  <2>. QED
    BY <1>2, <1>3, <2>1, <2>3, <2>4 DEF Modulo
<1>. QED
  BY <1>1, <1>2, <1>4, <1>5

(* A power returns to the program or, if zptest has called it, there.      *)
LEMMA PowerReturnsWhere ==
  ASSUME Raising
  PROVE  /\ at' = "tested" => call.fn = "zptest"
         /\ at' = "returned" => call.fn # "zptest"
  BY DEF Raising, PowerFails, PowerOfNothing, PreparePower, NextLimb, MultiplyAndSquare, LimbDone,
         SquareAndMultiply, PowerDone, PowerReturns, Goto, Fail, NoMemory, NoRoomFor, FailHaving

(* Modulo a number that is not 1 or -1 no factors are 1.                   *)
LEMMA NothingRaised ==
  ASSUME NEW b \in Int, NEW d \in Int \ {0}, Abs(d) # 1
  PROVE  PowerMod(b, 0, d) = 1
<1>1. PowerMod(b, 0, d) = Rem(Power(b, 0), d) /\ Power(b, 0) = 1
  <2>1. 0 \in Nat
    OBVIOUS
  <2>. QED
    BY <2>1, PowerModIs, PowerIs
<1>2. Abs(d) \in Nat /\ Abs(d) > 1
  BY DEF Abs
<1>3. Divided(0, 1, 1, d)
  <2>1. Abs(1) = 1 /\ 1 = 0 * d + 1 /\ d # 0
    BY DEF Abs
  <2>. QED
    BY <1>2, <2>1 DEF Divided
<1>4. Rem(1, d) = 1
  BY <1>3, RemUnique
<1>. QED
  BY <1>1, <1>4

(* A power that has found what it is to store has returned the right one,  *)
(* to the program or to zptest.                                            *)
LEMMA PowerReturned ==
  ASSUME Control, Values, Unstored, Raising, at' \in {"returned", "tested"},
         ~ WholeLimbs => num'[arg.a] = Outcome, Modular => Modulus # 0 \/ WholeLimbs
  PROVE  PowerSoFar'
<1>1. /\ UNCHANGED <<call, arg>> /\ (AtPower \/ at \in PowerPlaces)
      /\ at' = "tested" => call.fn = "zptest"
      /\ at' = "returned" => call.fn # "zptest"
  BY RaisingGoes, PowerReturnsWhere DEF PowerPlaces
<1>2. /\ Base \in Int /\ Asked \in Int /\ Modulus \in Int
      /\ call.fn = "zptest" => arg = TestArg /\ Modular /\ ByNumber
      /\ call.fn # "zptest" => arg = call.arg /\ call.fn \in {"zpow", "zmodpow", "zpowu", "zmodpowu"}
      /\ call \in Calls
  BY <1>1, PowerOperands
<1>3. at' \notin PowerPlaces
  BY DEF PowerPlaces, LimbPlaces
<1>4. Base' = Base /\ Asked' = Asked /\ Modulus' = Modulus /\ WholeLimbs' = WholeLimbs
  BY PowerOfTheSame
<1>5. CASE at' = "tested"
  <2>1. call.fn = "zptest" /\ arg = TestArg /\ Modular /\ ByNumber
    BY <1>1, <1>2, <1>5
  <2>2. Base' = num'["a"] /\ Asked' = num'["d"] /\ Modulus' = Was("b")
    BY <1>1, <2>1 DEF Base, Asked, Modulus, Was, Modular
  <2>3. SUFFICES ASSUME num'["d"] \in Nat \ {0}, ~ FillsLimb(num'["d"])
                 PROVE  num'["x"] = PowerMod(num'["a"], num'["d"], Was("b"))
    BY <1>1, <1>3, <1>5 DEF PowerSoFar, PowersRight, Returned, Was
  <2>4. ~ WholeLimbs /\ Asked \in Nat \ {0}
    BY <1>4, <2>2, <2>3 DEF WholeLimbs
  <2>5. num'["x"] = Outcome
    BY <2>1, <2>4 DEF TestArg
  <2>6. Outcome = Rem(Power(Base, Asked), Modulus)
    BY <2>1, <2>4 DEF Outcome, Modulo
  <2>7. PowerMod(Base, Asked, Modulus) = Rem(Power(Base, Asked), Modulus)
    BY <1>2, <2>1, <2>4, PowerModIs
  <2>. QED
    BY <1>4, <2>2, <2>5, <2>6, <2>7
<1>6. CASE at' = "returned"
  <2>1. call.fn # "zptest" /\ arg = call.arg /\ call.fn \in {"zpow", "zmodpow", "zpowu", "zmodpowu"}
    BY <1>1, <1>2, <1>6
  <2>2. DOMAIN call.arg = Parameters(call.fn)
    BY <1>2, CallIs
  <2>3. /\ Modular <=> call.fn \in {"zmodpow", "zmodpowu"}
        /\ ByNumber <=> "c" \in DOMAIN call.arg
    BY <2>1, <2>2 DEF Modular, ByNumber, Parameters
  <2>4. Base = Was("b") /\ Asked = AskedExponent /\ (Modular => Modulus = Was("d"))
        /\ (~ Modular => Modulus = 0)
    BY <2>1, <2>3 DEF Base, Asked, Modulus
  <2>5. WholeLimbs <=> WholeExponent
    BY <2>3, <2>4 DEF WholeLimbs, WholeExponent, AskedExponent
  <2>6. /\ Was("b")' = Was("b") /\ Was("d")' = Was("d") /\ AskedExponent' = AskedExponent
        /\ WholeExponent' = WholeExponent
        /\ Is("a")' = num'[arg.a]
    BY <1>1, <2>1 DEF Was, AskedExponent, WholeExponent, Is
  <2>7. ASSUME call.fn \in {"zpow", "zpowu"}, ~ WholeExponent
        PROVE  Is("a")' = IF AskedExponent < 0 THEN 0 ELSE Power(Was("b"), AskedExponent)
    <3>1. Is("a")' = Outcome /\ Modulus = 0
      BY <2>1, <2>3, <2>4, <2>5, <2>6, <2>7
    <3>2. Power(Base, 0) = 1
      BY <1>2, PowerIs
    <3>3. Outcome = IF Asked < 0 THEN 0 ELSE Power(Base, Asked)
      BY <1>2, <3>1, <3>2 DEF Outcome, Modulo
    <3>. QED
      BY <2>4, <3>1, <3>3
  <2>8. ASSUME call.fn \in {"zmodpow", "zmodpowu"}, ~ WholeExponent, ~ HastyAnswer
        PROVE  Is("a")' = IF AskedExponent < 0 THEN 0
                          ELSE PowerMod(Was("b"), AskedExponent, Was("d"))
    <3>1. Is("a")' = Outcome /\ Modulus # 0 /\ Modulus = Was("d")
      BY <2>3, <2>4, <2>5, <2>6, <2>8
    <3>2. Asked > 0 => PowerMod(Base, Asked, Modulus) = Rem(Power(Base, Asked), Modulus)
      BY <1>2, <3>1, PowerModIs
    <3>3. Asked = 0 => PowerMod(Base, Asked, Modulus) = 1
      <4>1. SUFFICES ASSUME Asked = 0 PROVE PowerMod(Base, 0, Modulus) = 1
        OBVIOUS
      <4>2. Abs(Modulus) # 1
        BY <2>2, <2>4, <2>8, <3>1, <4>1 DEF HastyAnswer, Parameters
      <4>3. Modulus \in Int \ {0}
        BY <1>2, <3>1
      <4>. QED
        BY <1>2, <4>2, <4>3, NothingRaised
    <3>4. Outcome = IF Asked < 0 THEN 0 ELSE PowerMod(Base, Asked, Modulus)
      BY <1>2, <3>1, <3>2, <3>3 DEF Outcome, Modulo
    <3>. QED
      BY <1>2, <2>4, <3>1, <3>4
  <2>9. PowersRight'
    <3>1. "d" \in DOMAIN call.arg <=> call.fn \in {"zmodpow", "zmodpowu"}
      BY <2>1, <2>2 DEF Parameters
    <3>2. HastyAnswer' = HastyAnswer
      BY <1>1, <2>6 DEF HastyAnswer
    <3>. QED
      BY <1>1, <2>1, <2>6, <2>7, <2>8, <3>1, <3>2 DEF PowersRight, Returned
  <2>. QED
    BY <1>3, <1>6, <2>9 DEF PowerSoFar
<1>. QED
  BY <1>5, <1>6

(* Every step keeps what is known of powers.                               *)
LEMMA PowerSoFarStep ==
  ASSUME Control, Values, Unstored, PowerSoFar, [Next]_vars
  PROVE  PowerSoFar'
<1>1. ASSUME at' \notin PowerPlaces \cup {"tested"},
             at' = "returned" => call'.fn \notin {"zpow", "zmodpow", "zpowu", "zmodpowu"}
      PROVE  PowerSoFar'
  BY <1>1 DEF PowerSoFar, PowersRight, Returned
<1>2. CASE Ask
  <2>1. PICK c \in Calls : at' = c.fn
    BY <1>2, CallAssumption DEF Ask
  <2>2. c.fn \in Functions
    BY CallIs
  <2>. QED
    BY <1>1, <2>1, <2>2 DEF Functions, PowerPlaces, LimbPlaces
<1>3. CASE Resume
  BY <1>1, <1>3 DEF Resume, PowerPlaces, LimbPlaces
<1>4. CASE Dividing \/ Gcd \/ Drawing \/ Testing
  <2>1. UNCHANGED call /\ at' \notin PowerPlaces
    BY <1>4, DividingGoes, GcdGoes, DrawingGoes, TestingGoes
       DEF DivisionPlaces, LimbPlaces, TestPlaces, PowerPlaces
  <2>2. at' # "tested"
    <3>1. CASE Testing
      BY <3>1 DEF Testing, TestSmallOrEven, PrepareTest, Round, Tested, TestSquare, Composite, Answer,
                  Goto, NoMemory, Fail, NoRoomFor, FailHaving
    <3>2. CASE Dividing \/ Gcd \/ Drawing
      BY <3>2, DividingGoes, GcdGoes, DrawingGoes DEF DivisionPlaces
    <3>. QED
      BY <1>4, <3>1, <3>2
  <2>3. call.fn \notin {"zpow", "zmodpow", "zpowu", "zmodpowu"}
    <3>1. CASE Dividing
      BY <3>1 DEF Dividing, ZdivZmod, ModMultiply, DivideByZero, DivideSmall, DivideLong, QuotientBit,
                  Control, Caller, DivisionPlaces, Divisions, Functions
    <3>2. CASE Gcd \/ Drawing \/ Testing
      BY <3>2, GcdGoes, DrawingGoes, TestingGoes DEF Control, Caller, TestPlaces, Functions
    <3>. QED
      BY <1>4, <3>1, <3>2
  <2>. QED
    BY <1>1, <2>1, <2>2, <2>3
<1>5. CASE Raising
  <2>1. WholeLimbs' = WholeLimbs /\ Modular' = Modular
    BY <1>5, PowerOfTheSame
  <2>2. ASSUME at' \in PowerPlaces, ~ WholeLimbs => Multiplying' PROVE PowerSoFar'
    <3>1. at' # "tested" /\ at' # "returned"
      BY <2>2 DEF PowerPlaces, LimbPlaces
    <3>. QED
      BY <2>1, <2>2, <3>1 DEF PowerSoFar, PowersRight, Returned
  <2>3. CASE at' = "failed"
    BY <1>1, <2>3 DEF PowerPlaces, LimbPlaces
  <2>4. at \in PowerPlaces /\ ~ WholeLimbs => Multiplying
    BY DEF PowerSoFar
  <2>5. CASE PowerFails
    BY <2>3, <2>5 DEF PowerFails, Fail
  <2>6. CASE PowerOfNothing /\ at' # "failed"
    <3>1. at' \in {"returned", "tested"}
      BY <2>6 DEF PowerOfNothing, PowerReturns, Goto, NoRoomFor, FailHaving
    <3>. QED
      BY <1>5, <2>6, <3>1, NothingFound, PowerReturned
  <2>7. CASE PreparePower /\ at' # "failed"
    <3>1. at' \in PowerPlaces
      BY <2>7 DEF PreparePower, NoMemory, NoRoomFor, Fail, FailHaving, PowerPlaces, LimbPlaces
    <3>. QED
      BY <2>2, <2>7, <3>1, PowerBegun
  <2>8. CASE NextLimb
    <3>1. at \in PowerPlaces /\ at' \in PowerPlaces
      BY <2>8 DEF NextLimb, Goto, PowerPlaces, LimbPlaces
    <3>. QED
      BY <2>2, <2>4, <2>8, <3>1, LimbTaken
  <2>9. CASE MultiplyAndSquare /\ at' # "failed"
    <3>1. at \in PowerPlaces /\ at' \in PowerPlaces
      BY <2>9 DEF MultiplyAndSquare, Goto, NoMemory, NoRoomFor, Fail, FailHaving, PowerPlaces, LimbPlaces
    <3>. QED
      BY <2>2, <2>4, <2>9, <3>1, BitTaken
  <2>10. CASE LimbDone
    <3>1. at \in PowerPlaces /\ at' \in PowerPlaces
      BY <2>10 DEF LimbDone, Goto, PowerPlaces, LimbPlaces
    <3>. QED
      BY <2>2, <2>4, <2>10, <3>1, LimbLeft
  <2>11. CASE SquareAndMultiply /\ at' # "failed"
    <3>1. at \in PowerPlaces /\ at' \in PowerPlaces
      BY <2>11 DEF SquareAndMultiply, Goto, NoMemory, NoRoomFor, Fail, FailHaving, PowerPlaces, LimbPlaces
    <3>. QED
      BY <2>2, <2>4, <2>11, <3>1, BitShifted
  <2>12. CASE PowerDone
    <3>1. at \in PowerPlaces /\ at' \in {"returned", "tested"}
      BY <2>12 DEF PowerDone, PowerReturns, Goto, PowerPlaces, LimbPlaces
    <3>2. Modular => Modulus # 0 \/ WholeLimbs
      <4>1. Modular /\ ~ WholeLimbs => num["pow_d"] = Modulus
        BY <2>4, <3>1 DEF Multiplying
      <4>2. Modular => num["pow_d"] # 0
        BY <3>1 DEF Values, Modular, PowerPlaces
      <4>. QED
        BY <4>1, <4>2
    <3>. QED
      BY <1>5, <2>4, <2>12, <3>1, <3>2, PowerFound, PowerReturned
  <2>. QED
    BY <1>5, <2>3, <2>5, <2>6, <2>7, <2>8, <2>9, <2>10, <2>11, <2>12 DEF Raising
<1>6. CASE UNCHANGED vars
  <2>1. /\ Base' = Base /\ Asked' = Asked /\ Modulus' = Modulus
        /\ Modular' = Modular /\ ByNumber' = ByNumber /\ Was("b")' = Was("b") /\ Was("d")' = Was("d")
        /\ AskedExponent' = AskedExponent /\ WholeExponent' = WholeExponent /\ Is("a")' = Is("a")
    BY <1>6 DEF vars, Base, Asked, Modulus, Modular, ByNumber, Was, AskedExponent, WholeExponent, Is
  <2>2. RaisedBase' = RaisedBase /\ \A i : Above(i)' = Above(i)
    BY <2>1 DEF RaisedBase, Above
  <2>3. Goal' = Goal /\ WholeLimbs' = WholeLimbs
    BY <2>1, <2>2 DEF Goal, WholeLimbs
  <2>4. Rest' = Rest /\ Counting' = Counting
    BY <1>6, <2>1, <2>2 DEF vars, Rest, Counting
  <2>5. Multiplying' = Multiplying
    BY <1>6, <2>1, <2>3, <2>4 DEF vars, Multiplying
  <2>6. PowersRight' = PowersRight
    BY <1>6, <2>1 DEF vars, PowersRight, HastyAnswer, Returned
  <2>. QED
    BY <1>6, <2>1, <2>3, <2>5, <2>6 DEF vars, PowerSoFar
<1>. QED
  BY <1>2, <1>3, <1>4, <1>5, <1>6 DEF Next, Function

-----------------------------------------------------------------------------
(* Numbers modulo a prime.                                                 *)

(* Of what is not negative the remainder is that of the division.          *)
LEMMA RemNatural ==
  ASSUME NEW c \in Nat, NEW d \in Nat \ {0}
  PROVE  Rem(c, d) = c % d /\ c % d \in 0 .. d - 1 /\ c % d \in Nat
<1>1. c % d \in 0 .. d - 1 /\ c \div d \in Nat /\ c = d * (c \div d) + (c % d)
  BY DivModNat
<1>2. Abs(d) = d /\ Abs(c) = c
  BY DEF Abs
<1>3. Rem(c, d) = Sign(c) * (c % d)
  BY <1>2 DEF Rem
<1>4. CASE c = 0
  <2>1. Sign(c) = 0
    BY <1>4 DEF Sign
  <2>2. (0 * d + 0) % d = 0
    BY DivUnique
  <2>3. 0 * d + 0 = 0
    OBVIOUS
  <2>4. c % d = 0
    BY <1>4, <2>2, <2>3
  <2>. QED
    BY <1>1, <1>3, <2>1, <2>4
<1>5. CASE c # 0
  <2>1. Sign(c) = 1
    BY <1>5 DEF Sign
  <2>. DEFINE m == c % d
  <2>2. m \in Nat /\ Rem(c, d) = 1 * m
    BY <1>1, <1>3, <2>1
  <2>. HIDE DEF m
  <2>3. Rem(c, d) = m
    BY <2>2
  <2>. QED
    BY <1>1, <2>2, <2>3 DEF m
<1>. QED
  BY <1>4, <1>5

(* A factor may be taken modulo a number before the product is.            *)
LEMMA FactorModulo ==
  ASSUME NEW x \in Nat, NEW y \in Nat, NEW d \in Nat \ {0}
  PROVE  ((x % d) * y) % d = (x * y) % d
<1>. DEFINE r == x % d
<1>1. Rem(x, d) = r /\ r \in Nat
  BY RemNatural
<1>2. r * y \in Nat /\ x * y \in Nat
  BY <1>1
<1>. HIDE DEF r
<1>3. Rem(r * y, d) = (r * y) % d /\ Rem(x * y, d) = (x * y) % d
  BY <1>2, RemNatural
<1>4. Rem(Rem(x, d) * y, d) = Rem(x * y, d)
  BY RemOfProduct
<1>. QED
  BY <1>1, <1>3, <1>4 DEF r

(* Numbers with the same remainder.                                        *)
Congruent(x, y, d) == x % d = y % d

(* They keep it when they are multiplied.                                  *)
LEMMA EqualProducts ==
  ASSUME NEW x \in Nat, NEW y \in Nat, NEW z \in Nat, NEW d \in Nat \ {0}, Congruent(x, y, d)
  PROVE  Congruent(x * z, y * z, d)
<1>1. ((x % d) * z) % d = (x * z) % d /\ ((y % d) * z) % d = (y * z) % d
  BY FactorModulo
<1>. QED
  BY <1>1 DEF Congruent

(* Modulo more than 1 the remainder of 1 is 1.                             *)
LEMMA OneRemains ==
  ASSUME NEW d \in Nat, d > 1
  PROVE  1 % d = 1
<1>1. (0 * d + 1) % d = 1
  <2>1. d \in Nat \ {0} /\ 1 \in 0 .. d - 1 /\ 0 \in Int
    OBVIOUS
  <2>. QED
    BY <2>1, DivUnique
<1>2. 0 * d + 1 = 1
  OBVIOUS
<1>. QED
  BY <1>1, <1>2

(* Remainders are equal if the divisor goes into the difference.           *)
LEMMA EqualRemainders ==
  ASSUME NEW x \in Nat, NEW y \in Nat, NEW h \in Nat, NEW d \in Nat \ {0}, y = x + h
  PROVE  Congruent(x, y, d) <=> GoesInto(d, h)
<1>. DEFINE p == x \div d
            q == y \div d
            r == x % d
            s == y % d
<1>1. p \in Nat /\ q \in Nat /\ r \in 0 .. d - 1 /\ s \in 0 .. d - 1 /\ x = d * p + r /\ y = d * q + s
  BY DivModNat
<1>2. ASSUME r = s PROVE GoesInto(d, h)
  <2>. HIDE DEF p, q, r, s
  <2>1. GoesInto(d, d * p) /\ GoesInto(d, d * q)
    BY <1>1 DEF GoesInto
  <2>2. d * p \in Nat /\ d * q \in Nat /\ d * p <= d * q /\ h = d * q - d * p
    BY <1>1, <1>2
  <2>. QED
    BY <2>1, <2>2, IntoDifference
<1>3. ASSUME NEW t \in Nat, h = d * t PROVE r = s
  <2>. HIDE DEF p, q, r, s
  <2>1. y = (p + t) * d + r /\ p + t \in Int
    BY <1>1, <1>3
  <2>2. ((p + t) * d + r) % d = r
    BY <1>1, <2>1, DivUnique
  <2>. QED
    BY <2>1, <2>2 DEF s
<1>. QED
  BY <1>2, <1>3 DEF GoesInto, Congruent

(* A number goes into another if there is no remainder.                    *)
LEMMA NoRemainder ==
  ASSUME NEW n \in Nat, NEW k \in Nat \ {0}
  PROVE  GoesInto(k, n) <=> n % k = 0
<1>1. Abs(n) = n
  BY DEF Abs
<1>2. Divides(k, n) <=> n % k = 0
  BY <1>1 DEF Divides
<1>. QED
  BY <1>1, <1>2, GoesIntoDivides

(* A prime that goes into a product goes into a factor.                    *)
LEMMA PrimeFactor ==
  ASSUME NEW p \in Nat, Prime(p), NEW x \in Nat, NEW y \in Nat, GoesInto(p, x * y)
  PROVE  GoesInto(p, x) \/ GoesInto(p, y)
<1>1. p > 1 /\ \A k \in 2 .. p - 1 : p % k # 0
  BY DEF Prime
<1>2. CASE x = 0
  <2>1. x = p * 0
    BY <1>2
  <2>. QED
    BY <2>1 DEF GoesInto
<1>3. CASE x # 0
  <2>. DEFINE T == { t \in Nat \ {0} : GoesInto(p, t * y) }
  <2>1. x \in T
    BY <1>3
  <2>2. p \in T
    <3>1. p * y = p * y /\ p \in Nat \ {0}
      BY <1>1
    <3>. QED
      BY <3>1 DEF GoesInto
  <2>3. PICK m \in T : \A t \in T : m <= t
    BY <2>1, Least
  <2>4. m \in Nat \ {0} /\ GoesInto(p, m * y)
    BY <2>3
  <2>5. ASSUME NEW t \in T PROVE GoesInto(m, t)
    <3>. DEFINE q == t \div m
                r == t % m
    <3>1. t \in Nat /\ GoesInto(p, t * y)
      BY <2>5
    <3>2. q \in Nat /\ r \in 0 .. m - 1 /\ t = m * q + r
      BY <2>4, <3>1, DivModNat
    <3>. HIDE DEF q, r
    <3>3. GoesInto(p, (m * y) * q)
      <4>1. m * y \in Nat
        BY <2>4
      <4>. QED
        BY <2>4, <3>2, <4>1, IntoMultiple
    <3>4. GoesInto(p, r * y)
      <4>1. /\ (m * y) * q \in Nat /\ t * y \in Nat
            /\ t * y = (m * y) * q + r * y /\ r * y \in Nat
        BY <2>4, <3>1, <3>2
      <4>2. (m * y) * q <= t * y /\ t * y - (m * y) * q = r * y
        BY <4>1
      <4>3. p \in Nat \ {0}
        BY <1>1
      <4>. QED
        BY <3>1, <3>3, <4>1, <4>2, <4>3, IntoDifference
    <3>5. r = 0
      <4>1. r # 0 => r \in T
        BY <3>2, <3>4
      <4>2. ~ (m <= r)
        BY <2>4, <3>2
      <4>. QED
        BY <2>3, <4>1, <4>2
    <3>6. t = m * q
      BY <2>4, <3>2, <3>5
    <3>. QED
      BY <3>2, <3>6 DEF GoesInto
  <2>. HIDE DEF T
  <2>6. GoesInto(m, p) /\ GoesInto(m, x)
    BY <2>1, <2>2, <2>5
  <2>7. m <= p
    BY <1>1, <2>4, <2>6, IntoAtMost
  <2>8. p % m = 0
    BY <2>4, <2>6, NoRemainder
  <2>9. m = 1 \/ m = p
    <3>1. ~ (m \in 2 .. p - 1)
      BY <1>1, <2>8
    <3>. QED
      BY <2>4, <2>7, <3>1
  <2>10. CASE m = 1
    <3>1. m * y = y
      BY <2>10
    <3>. QED
      BY <2>4, <3>1
  <2>. QED
    BY <2>6, <2>9, <2>10
<1>. QED
  BY <1>2, <1>3

(* What a prime does not go into can be cancelled.                         *)
LEMMA Cancelled ==
  ASSUME NEW p \in Nat, Prime(p), NEW x \in Nat, NEW y \in Nat, NEW z \in Nat,
         ~ GoesInto(p, z), Congruent(x * z, y * z, p)
  PROVE  Congruent(x, y, p)
<1>1. p \in Nat \ {0}
  BY DEF Prime
<1>2. ASSUME NEW i \in Nat, NEW j \in Nat, i <= j, Congruent(i * z, j * z, p)
      PROVE  Congruent(i, j, p)
  <2>. DEFINE h == j - i
  <2>1. h \in Nat /\ j = i + h
    BY <1>2
  <2>2. i * z \in Nat /\ j * z \in Nat /\ h * z \in Nat /\ j * z = i * z + h * z
    <3>. HIDE DEF h
    <3>. QED
      BY <2>1
  <2>. HIDE DEF h
  <2>3. GoesInto(p, h * z)
    <3>. DEFINE k == i * z
                l == j * z
                m == h * z
    <3>1. k \in Nat /\ l \in Nat /\ m \in Nat /\ l = k + m /\ Congruent(k, l, p)
      BY <1>2, <2>2
    <3>. HIDE DEF k, l, m
    <3>2. GoesInto(p, m)
      BY <1>1, <3>1, EqualRemainders
    <3>. QED
      BY <3>2 DEF m
  <2>4. GoesInto(p, h)
    BY <2>1, <2>3, PrimeFactor
  <2>. QED
    BY <1>1, <2>1, <2>4, EqualRemainders
<1>3. CASE x <= y
  BY <1>2, <1>3
<1>4. CASE y <= x
  <2>1. Congruent(y * z, x * z, p)
    BY DEF Congruent
  <2>2. Congruent(y, x, p)
    BY <1>2, <1>4, <2>1
  <2>. QED
    BY <2>2 DEF Congruent
<1>. QED
  BY <1>3, <1>4

(* Modulo a prime 1 has two square roots.                                  *)
LEMMA SquareRoots ==
  ASSUME NEW p \in Nat, Prime(p), NEW x \in 0 .. p - 1, (x * x) % p = 1
  PROVE  x = 1 \/ x = p - 1
<1>1. p \in Nat \ {0} /\ p > 1
  BY DEF Prime
<1>2. x # 0
  <2>1. GoesInto(p, 0)
    BY 0 = p * 0 DEF GoesInto
  <2>2. 0 % p = 0
    BY <1>1, <2>1, NoRemainder
  <2>. QED
    BY <2>2
<1>. DEFINE h == x - 1
            s == x + 1
<1>3. h \in Nat /\ s \in Nat \ {0} /\ x * x = 1 + h * s /\ h * s \in Nat /\ x * x \in Nat
  BY <1>1, <1>2
<1>4. 1 % p = 1
  BY <1>1, OneRemains
<1>5. GoesInto(p, h * s)
  <2>. DEFINE m == h * s
              y == x * x
  <2>1. m \in Nat /\ y \in Nat /\ y = 1 + m /\ Congruent(1, y, p) /\ 1 \in Nat
    BY <1>3, <1>4 DEF Congruent
  <2>. HIDE DEF m, y
  <2>2. GoesInto(p, m)
    BY <1>1, <2>1, EqualRemainders
  <2>. QED
    BY <2>2 DEF m
<1>6. GoesInto(p, h) \/ GoesInto(p, s)
  BY <1>3, <1>5, PrimeFactor
<1>7. ASSUME GoesInto(p, h) PROVE x = 1
  <2>1. h # 0 => p <= h
    BY <1>3, <1>7, IntoAtMost
  <2>. QED
    BY <1>1, <1>3, <2>1
<1>8. ASSUME GoesInto(p, s) PROVE x = p - 1
  <2>1. p <= s
    BY <1>3, <1>8, IntoAtMost
  <2>. QED
    BY <1>1, <2>1
<1>. QED
  BY <1>6, <1>7, <1>8

(* The power of a sum of exponents is the product of the powers.           *)
LEMMA PowerAdds ==
  ASSUME NEW b \in Int, NEW m \in Nat, NEW n \in Nat
  PROVE  Power(b, m + n) = Power(b, m) * Power(b, n)
<1>. DEFINE T == { i \in Nat : Power(b, m + i) = Power(b, m) * Power(b, i) }
<1>1. Power(b, 0) = 1 /\ \A i \in Nat : Power(b, i) \in Int /\ Power(b, i + 1) = b * Power(b, i)
  BY PowerIs
<1>2. 0 \in T
  <2>1. m + 0 = m /\ Power(b, m) * 1 = Power(b, m)
    BY <1>1
  <2>. QED
    BY <1>1, <2>1
<1>3. ASSUME NEW i \in 0 .. n - 1, i \in T PROVE i + 1 \in T
  <2>. DEFINE u == Power(b, m)
              v == Power(b, i)
  <2>1. i \in Nat /\ i + 1 \in Nat /\ m + i \in Nat /\ m + (i + 1) = (m + i) + 1
    OBVIOUS
  <2>2. u \in Int /\ v \in Int /\ Power(b, i + 1) = b * v /\ Power(b, m + i) = u * v
    BY <1>1, <1>3, <2>1
  <2>3. Power(b, (m + i) + 1) = b * (u * v)
    BY <1>1, <2>1, <2>2
  <2>. HIDE DEF u, v
  <2>4. b * (u * v) = u * (b * v)
    BY <2>2
  <2>5. Power(b, m + (i + 1)) = u * Power(b, i + 1)
    BY <2>1, <2>2, <2>3, <2>4
  <2>. QED
    BY <2>1, <2>5 DEF u
<1>4. n \in T
  <2>. HIDE DEF T
  <2>. QED
    BY <1>2, <1>3, Induct
<1>. QED
  BY <1>4

(* A prime goes into no power of a number it does not go into.             *)
LEMMA PrimeNotIntoPower ==
  ASSUME NEW p \in Nat, Prime(p), NEW a \in Nat, ~ GoesInto(p, a), NEW n \in Nat
  PROVE  ~ GoesInto(p, Power(a, n)) /\ Power(a, n) \in Nat
<1>. DEFINE T == { i \in Nat : ~ GoesInto(p, Power(a, i)) }
<1>1. Power(a, 0) = 1 /\ \A i \in Nat : Power(a, i + 1) = a * Power(a, i)
  <2>1. a \in Int
    OBVIOUS
  <2>. QED
    BY <2>1, PowerIs
<1>2. 0 \in T
  <2>1. p > 1
    BY DEF Prime
  <2>2. GoesInto(p, 1) => p <= 1
    BY IntoAtMost
  <2>. QED
    BY <1>1, <2>1, <2>2
<1>3. ASSUME NEW i \in 0 .. n - 1, i \in T PROVE i + 1 \in T
  <2>. DEFINE u == Power(a, i)
  <2>1. i \in Nat /\ i + 1 \in Nat /\ u \in Nat /\ Power(a, i + 1) = a * u /\ ~ GoesInto(p, u)
    BY <1>1, <1>3, PowerNatural
  <2>. HIDE DEF u
  <2>2. ~ GoesInto(p, a * u)
    BY <2>1, PrimeFactor
  <2>. QED
    BY <2>1, <2>2
<1>4. n \in T
  <2>. HIDE DEF T
  <2>. QED
    BY <1>2, <1>3, Induct
<1>. QED
  BY <1>4, PowerNatural

(* Two powers with the same remainder differ by one that is 1.             *)
LEMMA PowersMeet ==
  ASSUME NEW p \in Nat, Prime(p), NEW a \in Nat, ~ GoesInto(p, a), NEW x \in Nat, ~ GoesInto(p, x),
         NEW i \in Nat, NEW j \in Nat, i < j,
         Congruent(Power(a, i) * x, Power(a, j) * x, p)
  PROVE  Power(a, j - i) % p = 1
<1>. DEFINE u == Power(a, i)
            v == Power(a, j - i)
            w == u * x
<1>1. j - i \in Nat /\ i + (j - i) = j
  OBVIOUS
<1>2. /\ u \in Nat /\ v \in Nat /\ ~ GoesInto(p, u) /\ Power(a, j) = u * v
  <2>1. Power(a, i + (j - i)) = u * v
    BY <1>1, PowerAdds
  <2>. QED
    BY <1>1, <2>1, PrimeNotIntoPower
<1>. HIDE DEF u, v
<1>3. w \in Nat /\ ~ GoesInto(p, w)
  <2>1. w \in Nat
    BY <1>2
  <2>. QED
    BY <1>2, <2>1, PrimeFactor
<1>4. 1 * w = u * x /\ v * w = (u * v) * x
  BY <1>2
<1>5. Congruent(1 * w, v * w, p)
  BY <1>2, <1>4 DEF u
<1>. HIDE DEF w
<1>6. Congruent(1, v, p)
  <2>1. 1 \in Nat /\ v \in Nat /\ w \in Nat /\ ~ GoesInto(p, w)
    BY <1>2, <1>3
  <2>. QED
    BY <1>5, <2>1, Cancelled
<1>7. 1 % p = 1
  <2>1. p > 1
    BY DEF Prime
  <2>. QED
    BY <2>1, OneRemains
<1>. QED
  BY <1>6, <1>7 DEF v, Congruent

(* The least exponent that makes a power 1.                                *)
IsOrder(k, a, p) ==
  /\ k \in Nat \ {0} /\ Power(a, k) % p = 1
  /\ \A j \in Nat \ {0} : Power(a, j) % p = 1 => k <= j

LEMMA OrderExists ==
  ASSUME NEW p \in Nat, Prime(p), NEW a \in Nat, ~ GoesInto(p, a)
  PROVE  \E k : IsOrder(k, a, p)
<1>. DEFINE S == 0 .. p - 1
            R == 1 .. p - 1
            f == [i \in S |-> (Power(a, i) * 1) % p]
            T == { j \in Nat \ {0} : Power(a, j) % p = 1 }
<1>1. p \in Nat \ {0} /\ p > 1
  BY DEF Prime
<1>2. IsFiniteSet(S) /\ IsFiniteSet(R) /\ Cardinality(R) < Cardinality(S)
  BY <1>1, FS_Interval
<1>3. f \in [S -> R]
  <2>1. ASSUME NEW i \in S PROVE (Power(a, i) * 1) % p \in R
    <3>. DEFINE u == Power(a, i)
    <3>1. u \in Nat /\ ~ GoesInto(p, u)
      BY PrimeNotIntoPower
    <3>. HIDE DEF u
    <3>2. u * 1 = u /\ u % p \in 0 .. p - 1 /\ u % p # 0
      BY <1>1, <3>1, RemNatural, NoRemainder
    <3>. QED
      BY <3>2 DEF u
  <2>. QED
    BY <2>1
<1>4. PICK x \in S, y \in S : x # y /\ f[x] = f[y]
  <2>. HIDE DEF f, S, R
  <2>. QED
    BY <1>2, <1>3, FS_PigeonHole
<1>5. \E i, j \in S : i < j /\ (Power(a, i) * 1) % p = (Power(a, j) * 1) % p
  <2>1. CASE x < y
    BY <1>4, <2>1
  <2>2. CASE y < x
    BY <1>4, <2>2
  <2>. QED
    BY <1>4, <2>1, <2>2
<1>6. PICK i \in S, j \in S : i < j /\ (Power(a, i) * 1) % p = (Power(a, j) * 1) % p
  BY <1>5
<1>7. ~ GoesInto(p, 1)
  <2>1. GoesInto(p, 1) => p <= 1
    BY IntoAtMost
  <2>. QED
    BY <1>1, <2>1
<1>8. Power(a, j - i) % p = 1
  <2>1. i \in Nat /\ j \in Nat /\ 1 \in Nat
    OBVIOUS
  <2>. QED
    BY <1>6, <1>7, <2>1, PowersMeet DEF Congruent
<1>9. j - i \in T
  BY <1>6, <1>8
<1>10. PICK k \in T : \A m \in T : k <= m
  <2>1. T \in SUBSET Nat /\ T # {}
    BY <1>9
  <2>. HIDE DEF T
  <2>. QED
    BY <2>1, Least
<1>. QED
  BY <1>10 DEF IsOrder

(* A set that has with a number also a times that, modulo p.               *)
Closed(S, a, p) == \A x \in S : (a * x) % p \in S

(* What a number becomes when it is multiplied by a again and again.       *)
Turned(a, x, p, i) == (Power(a, i) * x) % p
Turns(a, x, p, k) == { Turned(a, x, p, i) : i \in 0 .. k - 1 }

(* One multiplication more.                                                *)
LEMMA TurnedOnce ==
  ASSUME NEW p \in Nat \ {0}, NEW a \in Nat, NEW x \in Nat, NEW i \in Nat
  PROVE  /\ Turned(a, x, p, i) \in Nat
         /\ Turned(a, x, p, i + 1) = (a * Turned(a, x, p, i)) % p
<1>. DEFINE u == Power(a, i)
            z == u * x
            r == z % p
<1>1. u \in Nat /\ Power(a, i + 1) = a * u
  BY PowerIs, PowerNatural
<1>. HIDE DEF u
<1>2. z \in Nat /\ (a * u) * x = z * a
  BY <1>1
<1>. HIDE DEF z
<1>3. r \in Nat /\ (r * a) % p = (z * a) % p
  BY <1>2, RemNatural, FactorModulo
<1>. HIDE DEF r
<1>4. r * a = a * r
  BY <1>3
<1>5. Turned(a, x, p, i) = r
  BY DEF Turned, r, z, u
<1>6. Turned(a, x, p, i + 1) = (z * a) % p
  BY <1>1, <1>2 DEF Turned
<1>. QED
  BY <1>3, <1>4, <1>5, <1>6

(* Where p is prime, as many multiplications as the order says lead back,  *)
(* fewer to other numbers, all of them in each closed set that has the     *)
(* first; and those it has besides are a closed set again.                 *)
LEMMA TurnsRemoved ==
  ASSUME NEW p \in Nat, Prime(p), NEW a \in Nat, ~ GoesInto(p, a), NEW k, IsOrder(k, a, p),
         NEW S \in SUBSET (1 .. p - 1), Closed(S, a, p), NEW x \in S
  PROVE  /\ Turns(a, x, p, k) \in SUBSET S /\ Cardinality(Turns(a, x, p, k)) = k
         /\ Closed(S \ Turns(a, x, p, k), a, p)
<1>. DEFINE e(i) == Turned(a, x, p, i)
            I == 0 .. k - 1
            O == Turns(a, x, p, k)
<1>1. /\ p \in Nat \ {0} /\ k \in Nat \ {0} /\ Power(a, k) % p = 1
      /\ x \in Nat /\ x \in 1 .. p - 1
  BY DEF Prime, IsOrder
<1>2. /\ \A i \in Nat : e(i) \in Nat /\ e(i + 1) = (a * e(i)) % p
  BY <1>1, TurnedOnce
<1>3. x % p = x
  <2>1. (0 * p + x) % p = x /\ 0 * p + x = x
    <3>1. x \in 0 .. p - 1 /\ 0 \in Int
      BY <1>1
    <3>2. (0 * p + x) % p = x
      BY <1>1, <3>1, DivUnique
    <3>. QED
      BY <1>1, <3>2
  <2>. QED
    BY <2>1
<1>4. e(0) = x
  <2>1. Power(a, 0) = 1 /\ 1 * x = x
    BY <1>1, PowerIs
  <2>. QED
    BY <1>3, <2>1 DEF Turned
<1>5. e(k) = x
  <2>. DEFINE u == Power(a, k)
  <2>1. u \in Nat /\ u % p = 1
    BY <1>1, PowerNatural
  <2>. HIDE DEF u
  <2>2. ((u % p) * x) % p = (u * x) % p
    BY <1>1, <2>1, FactorModulo
  <2>3. 1 * x = x
    BY <1>1
  <2>4. (u * x) % p = x
    BY <1>3, <2>1, <2>2, <2>3
  <2>. QED
    BY <2>4 DEF Turned, u
<1>. HIDE DEF e
<1>6. ASSUME NEW n \in Nat PROVE e(n) \in S
  <2>. DEFINE T == { i \in Nat : e(i) \in S }
  <2>1. 0 \in T
    BY <1>4
  <2>2. ASSUME NEW i \in 0 .. n - 1, i \in T PROVE i + 1 \in T
    BY <1>2, <2>2 DEF Closed
  <2>. HIDE DEF T
  <2>3. n \in T
    BY <2>1, <2>2, Induct
  <2>. QED
    BY <2>3 DEF T
<1>7. O \in SUBSET S
  BY <1>1, <1>6 DEF Turns, e
<1>8. ~ GoesInto(p, x)
  <2>1. GoesInto(p, x) => p <= x
    BY <1>1, IntoAtMost
  <2>. QED
    BY <1>1, <2>1
<1>9. ASSUME NEW i \in I, NEW j \in I, i < j PROVE e(i) # e(j)
  <2>1. i \in Nat /\ j \in Nat /\ j - i \in Nat \ {0} /\ ~ (k <= j - i)
    BY <1>1, <1>9
  <2>2. e(i) = e(j) => Congruent(Power(a, i) * x, Power(a, j) * x, p)
    BY DEF e, Turned, Congruent
  <2>3. e(i) = e(j) => Power(a, j - i) % p = 1
    BY <1>1, <1>8, <1>9, <2>1, <2>2, PowersMeet
  <2>. QED
    BY <2>1, <2>3 DEF IsOrder
<1>10. Cardinality(O) = k
  <2>. DEFINE f == [i \in I |-> e(i)]
  <2>1. ASSUME NEW i \in I, NEW j \in I, f[i] = f[j] PROVE i = j
    <3>1. ~ (i < j) /\ ~ (j < i)
      BY <1>9, <2>1
    <3>. QED
      BY <1>1, <3>1
  <2>2. f \in Bijection(I, O)
    <3>1. f \in [I -> O] /\ \A t \in O : \E i \in I : f[i] = t
      BY DEF Turns, e
    <3>. QED
      BY <2>1, <3>1 DEF Bijection, Injection, Surjection, IsInjective
  <2>3. IsFiniteSet(I) /\ Cardinality(I) = k
    <3>1. 0 \in Int /\ k - 1 \in Int /\ ~ (0 > k - 1) /\ (k - 1) - 0 + 1 = k
      BY <1>1
    <3>. QED
      BY <3>1, FS_Interval
  <2>. QED
    BY <2>2, <2>3, FS_Bijection DEF ExistsBijection
<1>11. ASSUME NEW y \in S \ O PROVE (a * y) % p \in S \ O
  <2>1. (a * y) % p \in S /\ y \in 1 .. p - 1 /\ y \in Nat
    BY DEF Closed
  <2>2. ASSUME NEW i \in I, (a * y) % p = e(i) PROVE FALSE
    <3>1. PICK j \in I : e(i) = (a * e(j)) % p
      <4>1. CASE i = 0
        <5>1. k - 1 \in I /\ k - 1 \in Nat /\ (k - 1) + 1 = k
          BY <1>1
        <5>. QED
          BY <1>2, <1>4, <1>5, <4>1, <5>1
      <4>2. CASE i # 0
        <5>1. i - 1 \in I /\ i - 1 \in Nat /\ (i - 1) + 1 = i
          BY <1>1, <4>2
        <5>. QED
          BY <1>2, <5>1
      <4>. QED
        BY <4>1, <4>2
    <3>2. e(j) \in Nat /\ e(j) \in O /\ e(j) \in 1 .. p - 1
      <4>1. e(j) \in O
        BY DEF Turns, e
      <4>2. e(j) \in 1 .. p - 1
        BY <1>7, <4>1, Zenon
      <4>3. e(j) \in Nat
        BY <1>1, <1>2
      <4>. QED
        BY <4>1, <4>2, <4>3
    <3>. DEFINE z == e(j)
    <3>3. z \in Nat /\ z \in O /\ z \in 1 .. p - 1 /\ (a * y) % p = (a * z) % p
      BY <2>2, <3>1, <3>2
    <3>. HIDE DEF z
    <3>4. a * y = y * a /\ a * z = z * a
      BY <2>1, <3>3
    <3>5. Congruent(y * a, z * a, p)
      BY <3>3, <3>4 DEF Congruent
    <3>6. Congruent(y, z, p)
      BY <2>1, <3>3, <3>5, Cancelled
    <3>7. ASSUME NEW n \in 1 .. p - 1 PROVE n % p = n
      <4>1. n \in 0 .. p - 1 /\ 0 \in Int /\ 0 * p + n = n
        BY <1>1
      <4>2. (0 * p + n) % p = n
        BY <1>1, <4>1, DivUnique
      <4>. QED
        BY <4>1, <4>2
    <3>8. y = z
      BY <2>1, <3>3, <3>6, <3>7 DEF Congruent
    <3>. QED
      BY <3>3, <3>8
  <2>. QED
    BY <2>1, <2>2 DEF Turns, e
<1>. QED
  BY <1>7, <1>10, <1>11 DEF Closed

(* So the order goes into the number of elements of a closed set.          *)
LEMMA OrderIntoClosed ==
  ASSUME NEW p \in Nat, Prime(p), NEW a \in Nat, ~ GoesInto(p, a), NEW k, IsOrder(k, a, p),
         NEW A \in SUBSET (1 .. p - 1), Closed(A, a, p)
  PROVE  GoesInto(k, Cardinality(A))
<1>. DEFINE Family == { S \in SUBSET (1 .. p - 1) : Closed(S, a, p) }
            T == { m \in Nat : \A S \in Family : Cardinality(S) <= m => GoesInto(k, Cardinality(S)) }
<1>1. k \in Nat \ {0} /\ p \in Nat
  BY DEF IsOrder
<1>2. \A S \in Family : IsFiniteSet(S) /\ Cardinality(S) \in Nat
  <2>1. IsFiniteSet(1 .. p - 1)
    BY <1>1, FS_Interval
  <2>. QED
    BY <2>1, FS_Subset, FS_CardinalityType
<1>3. GoesInto(k, 0)
  BY <1>1, 0 = k * 0 DEF GoesInto
<1>4. 0 \in T
  BY <1>2, <1>3
<1>5. ASSUME NEW m \in Nat, m \in T PROVE m + 1 \in T
  <2>. SUFFICES ASSUME NEW S \in Family, Cardinality(S) <= m + 1
                PROVE  GoesInto(k, Cardinality(S))
    OBVIOUS
  <2>1. CASE S = {}
    BY <1>3, <2>1, FS_EmptySet
  <2>2. CASE S # {}
    <3>1. PICK x \in S : TRUE
      BY <2>2
    <3>. DEFINE O == Turns(a, x, p, k)
                c == Cardinality(S)
                r == Cardinality(S \ O)
    <3>2. O \in SUBSET S /\ Cardinality(O) = k /\ Closed(S \ O, a, p)
      BY TurnsRemoved
    <3>3. S \ O \in Family
      BY <3>2
    <3>4. r = c - k /\ S \cap O = O
      <4>1. S \cap O = O
        BY <3>2
      <4>2. r = c - Cardinality(S \cap O)
        BY <1>2, FS_Difference
      <4>. QED
        BY <3>2, <4>1, <4>2
    <3>5. r \in Nat /\ c \in Nat /\ c <= m + 1
      BY <1>2, <3>3
    <3>6. r <= m
      <4>. HIDE DEF r, c
      <4>. QED
        BY <1>1, <3>4, <3>5
    <3>7. GoesInto(k, r)
      BY <1>5, <3>3, <3>6
    <3>8. GoesInto(k, k)
      BY <1>1, k = k * 1 DEF GoesInto
    <3>9. c = r + k
      <4>. HIDE DEF r, c
      <4>. QED
        BY <1>1, <3>4, <3>5
    <3>10. GoesInto(k, c)
      <4>. HIDE DEF r, c
      <4>1. GoesInto(k, r + k)
        BY <1>1, <3>5, <3>7, <3>8, IntoSum
      <4>. QED
        BY <3>9, <4>1
    <3>. QED
      BY <3>10
  <2>. QED
    BY <2>1, <2>2
<1>. DEFINE n == Cardinality(A)
<1>6. n \in Nat
  BY <1>2
<1>7. n \in T
  <2>. HIDE DEF T, n
  <2>. QED
    BY <1>4, <1>5, <1>6, Induct
<1>. QED
  BY <1>6, <1>7

(* Fermat: the power with exponent p - 1 is 1.                             *)
LEMMA Fermat ==
  ASSUME NEW p \in Nat, Prime(p), NEW a \in Nat, ~ GoesInto(p, a)
  PROVE  Power(a, p - 1) % p = 1
<1>. DEFINE A == 1 .. p - 1
<1>1. p \in Nat \ {0} /\ p > 1 /\ p - 1 \in Nat
  BY DEF Prime
<1>2. PICK k : IsOrder(k, a, p)
  BY OrderExists
<1>3. k \in Nat \ {0} /\ Power(a, k) % p = 1
  BY <1>2 DEF IsOrder
<1>4. Closed(A, a, p)
  <2>1. ASSUME NEW x \in A PROVE (a * x) % p \in A
    <3>1. GoesInto(p, x) => p <= x
      BY <1>1, IntoAtMost
    <3>. DEFINE m == a * x
    <3>2. m \in Nat /\ x \in Nat
      OBVIOUS
    <3>3. ~ GoesInto(p, m)
      BY <1>1, <3>1, <3>2, PrimeFactor
    <3>. HIDE DEF m
    <3>4. m % p \in 0 .. p - 1 /\ m % p # 0
      BY <1>1, <3>2, <3>3, RemNatural, NoRemainder
    <3>5. m % p \in A
      BY <3>4
    <3>. QED
      BY <3>5 DEF m
  <2>. QED
    BY <2>1 DEF Closed
<1>5. Cardinality(A) = p - 1
  BY <1>1, FS_Interval
<1>6. GoesInto(k, p - 1)
  BY <1>2, <1>4, <1>5, OrderIntoClosed
<1>7. PICK t \in Nat : p - 1 = k * t
  BY <1>6 DEF GoesInto
<1>. DEFINE T == { i \in Nat : Power(a, k * i) % p = 1 }
<1>8. 0 \in T
  <2>1. k * 0 = 0 /\ Power(a, 0) = 1 /\ 1 % p = 1
    BY <1>1, <1>3, PowerIs, OneRemains
  <2>. QED
    BY <2>1
<1>9. ASSUME NEW i \in 0 .. t - 1, i \in T PROVE i + 1 \in T
  <2>. DEFINE u == Power(a, k * i)
              v == Power(a, k)
  <2>1. i \in Nat /\ k * i \in Nat /\ k * (i + 1) = k * i + k
    BY <1>3
  <2>2. u \in Nat /\ v \in Nat /\ Power(a, k * i + k) = u * v /\ u % p = 1 /\ v % p = 1
    BY <1>3, <1>9, <2>1, PowerNatural, PowerAdds
  <2>. HIDE DEF u, v
  <2>3. ((u % p) * v) % p = (u * v) % p
    BY <1>1, <2>2, FactorModulo
  <2>4. 1 * v = v
    BY <2>2
  <2>5. Power(a, k * (i + 1)) % p = 1
    BY <2>1, <2>2, <2>3, <2>4
  <2>. QED
    BY <2>1, <2>5
<1>10. t \in T
  <2>. HIDE DEF T
  <2>. QED
    BY <1>8, <1>9, Induct
<1>. QED
  BY <1>7, <1>10

-----------------------------------------------------------------------------
(* The invariant: the primality test.                                      *)

(* A power modulo a number, and its square.                                *)
LEMMA PowerModNatural ==
  ASSUME NEW a \in Nat, NEW e \in Nat, NEW n \in Nat \ {0}
  PROVE  /\ PowerMod(a, e, n) = Power(a, e) % n /\ PowerMod(a, e, n) \in 0 .. n - 1
         /\ (PowerMod(a, e, n) * PowerMod(a, e, n)) % n = PowerMod(a, e * 2, n)
         /\ Rem(PowerMod(a, e, n) * PowerMod(a, e, n), n) = PowerMod(a, e * 2, n)
<1>. DEFINE u == Power(a, e)
            x == u % n
<1>1. u \in Nat /\ Power(a, e * 2) = u * u
  <2>1. Power(a, e + e) = u * u /\ e + e = e * 2
    BY PowerAdds
  <2>. QED
    BY <2>1, PowerNatural
<1>2. \A m \in Nat : PowerMod(a, m, n) = Power(a, m) % n
  BY PowerModIs, PowerNatural, RemNatural
<1>3. x \in 0 .. n - 1
  <2>. HIDE DEF u
  <2>. QED
    BY <1>1, RemNatural
<1>4. (x * x) % n = (u * u) % n
  <2>. HIDE DEF u
  <2>1. (x * u) % n = (u * u) % n
    BY <1>1, FactorModulo
  <2>2. (x * x) % n = (u * x) % n
    <3>1. x \in Nat
      BY <1>3
    <3>. QED
      BY <1>1, <3>1, FactorModulo
  <2>. HIDE DEF x
  <2>3. x * u = u * x
    BY <1>1, <1>3
  <2>. QED
    BY <2>1, <2>2, <2>3
<1>5. Rem(x * x, n) = (x * x) % n
  <2>. HIDE DEF x
  <2>1. x * x \in Nat
    BY <1>3
  <2>. QED
    BY <2>1, RemNatural
<1>6. PowerMod(a, e, n) = x /\ PowerMod(a, e * 2, n) = (u * u) % n
  BY <1>1, <1>2
<1>. QED
  BY <1>3, <1>4, <1>5, <1>6

(* Once a power is 1, squaring it does not change it any more.             *)
LEMMA RemainsOne ==
  ASSUME NEW a \in Nat, NEW e \in Nat, NEW n \in Nat, n > 1, PowerMod(a, e, n) = 1, NEW k \in Nat
  PROVE  PowerMod(a, e * 2 ^ k, n) = 1
<1>. DEFINE T == { i \in Nat : PowerMod(a, e * 2 ^ i, n) = 1 }
<1>1. 0 \in T
  <2>1. 2 ^ 0 = 1 /\ e * 1 = e
    OBVIOUS
  <2>. QED
    BY <2>1
<1>2. ASSUME NEW i \in 0 .. k - 1, i \in T PROVE i + 1 \in T
  <2>. DEFINE s == 2 ^ i
              m == e * s
  <2>1. s \in Nat /\ 2 ^ (i + 1) = 2 * s /\ i + 1 \in Nat
    BY Positive, Doubling
  <2>. HIDE DEF s
  <2>2. m \in Nat /\ e * (2 * s) = m * 2
    BY <2>1
  <2>3. PowerMod(a, m, n) = 1
    BY <1>2 DEF s
  <2>. HIDE DEF m
  <2>4. (1 * 1) % n = PowerMod(a, m * 2, n)
    BY <2>2, <2>3, PowerModNatural
  <2>5. 1 % n = 1
    BY OneRemains
  <2>. QED
    BY <2>1, <2>2, <2>4, <2>5
<1>3. k \in T
  <2>. HIDE DEF T
  <2>. QED
    BY <1>1, <1>2, Induct
<1>. QED
  BY <1>3

(* Of a prime, what is squared last on the way to the exponent n - 1 is    *)
(* a square root of 1, so 1 or n - 1.                                      *)
LEMMA LastRoot ==
  ASSUME NEW n \in Nat, n > 3, NEW a \in 2 .. n - 2, NEW d \in Nat, NEW r \in Nat \ {0},
         n - 1 = d * 2 ^ r,
         PowerMod(a, d * 2 ^ (r - 1), n) \notin {1, n - 1}
  PROVE  ~ Prime(n)
<1>. SUFFICES ASSUME Prime(n) PROVE FALSE
  OBVIOUS
<1>. DEFINE s == 2 ^ (r - 1)
            e == d * s
            x == PowerMod(a, e, n)
<1>1. s \in Nat /\ 2 ^ r = 2 * s
  <2>1. r - 1 \in Nat /\ (r - 1) + 1 = r
    OBVIOUS
  <2>. QED
    BY <2>1, Positive, Doubling
<1>. HIDE DEF s
<1>2. e \in Nat /\ n - 1 = e * 2
  BY <1>1
<1>. HIDE DEF e
<1>3. ~ GoesInto(n, a) /\ a \in Nat
  <2>1. a \in Nat \ {0} /\ ~ (n <= a)
    OBVIOUS
  <2>. QED
    BY <2>1, IntoAtMost
<1>4. x \in 0 .. n - 1 /\ (x * x) % n = PowerMod(a, n - 1, n)
  <2>1. n \in Nat \ {0} /\ a \in Nat /\ e \in Nat
    BY <1>2
  <2>2. x \in 0 .. n - 1 /\ (x * x) % n = PowerMod(a, e * 2, n)
    BY ONLY <2>1, PowerModNatural
  <2>. QED
    BY <1>2, <2>2
<1>5. PowerMod(a, n - 1, n) = Power(a, n - 1) % n /\ Power(a, n - 1) % n = 1
  <2>. DEFINE f == n - 1
  <2>1. n \in Nat \ {0} /\ f \in Nat
    OBVIOUS
  <2>2. Power(a, f) % n = 1
    BY <1>3, Fermat
  <2>. HIDE DEF f
  <2>3. PowerMod(a, f, n) = Power(a, f) % n
    BY <1>3, <2>1, PowerModNatural
  <2>. QED
    BY <2>2, <2>3 DEF f
<1>6. x = 1 \/ x = n - 1
  <2>. HIDE DEF x
  <2>. QED
    BY <1>4, <1>5, SquareRoots
<1>. QED
  BY <1>6 DEF x, e, s

(* What zptest has prepared, and what it knows while it squares: n - 1 was *)
(* not among the powers so far, and the last one is not 1.                 *)
Prepared(n) ==
  /\ n % 2 = 1 /\ num["n1"] = n - 1 /\ num["n4"] \in 1 .. n - 4
  /\ num["d"] = OddPart(n - 1)
  /\ "r" \in DOMAIN loc /\ loc.r = Lsb(n - 1)

NoneYet(a, d, n) ==
  /\ num["x"] = PowerMod(a, d * 2 ^ (loc.i - 1), n) /\ num["x"] # 1
  /\ PowerMod(a, d, n) # 1
  /\ \A k \in 0 .. loc.i - 1 : PowerMod(a, d * 2 ^ k, n) # n - 1

TestSoFar ==
  /\ InTest => Prepared(Was("b"))
  /\ InTest /\ at # "round" => num["a"] \in 2 .. Was("b") - 2
  /\ at = "square" => "i" \in DOMAIN loc /\ loc.i \in 1 .. loc.r
  /\ at = "square" /\ ~ FillsLimb(num["d"]) => NoneYet(num["a"], num["d"], Was("b"))
  /\ PrimalityRight

(* The odd part of n - 1, and how often it is doubled.                     *)
LEMMA OddPartOf ==
  ASSUME NEW n \in Nat, n > 3, n % 2 = 1
  PROVE  /\ OddPart(n - 1) \in Nat \ {0} /\ Lsb(n - 1) \in Nat \ {0}
         /\ n - 1 = OddPart(n - 1) * 2 ^ Lsb(n - 1)
<1>. DEFINE m == n - 1
            r == Lsb(m)
            w == ShiftDown(m, r)
<1>1. m \in Int \ {0} /\ m \in Nat /\ Abs(m) = m
  BY DEF Abs
<1>2. r \in Nat /\ w \in Nat /\ w % 2 = 1 /\ m = w * 2 ^ r
  <2>. HIDE DEF m
  <2>. QED
    BY <1>1, OddAndPower, LsbOf
<1>3. w # 0
  <2>. HIDE DEF w, r
  <2>1. 2 ^ r \in Nat
    BY <1>2, Positive
  <2>. QED
    BY <1>1, <1>2, <2>1
<1>4. r # 0
  <2>. SUFFICES ASSUME r = 0 PROVE FALSE
    OBVIOUS
  <2>1. m = w
    <3>. HIDE DEF w, r
    <3>. QED
      BY <1>2
  <2>2. m % 2 = 1
    BY <1>2, <2>1
  <2>. QED
    BY <2>2
<1>. QED
  BY <1>2, <1>3, <1>4 DEF OddPart

(* Powers leave alone what zptest has prepared.                            *)
LEMMA RaisingKeepsLoop ==
  ASSUME Raising, "r" \in DOMAIN loc
  PROVE  "r" \in DOMAIN loc' /\ loc'.r = loc.r
<1>1. ASSUME NEW f, "r" \notin DOMAIN f, SetLoc(f) PROVE "r" \in DOMAIN loc' /\ loc'.r = loc.r
  BY <1>1 DEF SetLoc, @@
<1>2. CASE UNCHANGED loc
  BY <1>2
<1>3. CASE \E u, v, w, x : SetLoc([i |-> u, n |-> v, x |-> w, neg |-> x])
  <2>1. PICK u, v, w, x : SetLoc([i |-> u, n |-> v, x |-> w, neg |-> x])
    BY <1>3
  <2>2. "r" \notin DOMAIN [i |-> u, n |-> v, x |-> w, neg |-> x]
    OBVIOUS
  <2>. QED
    BY <1>1, <2>1, <2>2
<1>4. CASE \E u, v : SetLoc([x |-> u, j |-> v])
  <2>1. PICK u, v : SetLoc([x |-> u, j |-> v])
    BY <1>4
  <2>2. "r" \notin DOMAIN [x |-> u, j |-> v]
    OBVIOUS
  <2>. QED
    BY <1>1, <2>1, <2>2
<1>5. CASE \E u : SetLoc([i |-> u]) \/ SetLoc([x |-> u])
  <2>1. PICK u : SetLoc([i |-> u]) \/ SetLoc([x |-> u])
    BY <1>5
  <2>2. "r" \notin DOMAIN [i |-> u] /\ "r" \notin DOMAIN [x |-> u]
    OBVIOUS
  <2>. QED
    BY <1>1, <2>1, <2>2
<1>6. CASE PowerFails \/ PowerOfNothing \/ PowerDone
  BY <1>2, <1>6 DEF PowerFails, PowerOfNothing, PowerDone, PowerReturns, Fail, NoRoomFor, FailHaving
<1>7. CASE PreparePower
  BY <1>2, <1>3, <1>7 DEF PreparePower, NoMemory, Fail, NoRoomFor, FailHaving
<1>8. CASE NextLimb \/ MultiplyAndSquare
  BY <1>2, <1>4, <1>8 DEF NextLimb, MultiplyAndSquare, NoMemory, Fail, NoRoomFor, FailHaving
<1>9. CASE LimbDone \/ SquareAndMultiply
  BY <1>2, <1>5, <1>9 DEF LimbDone, SquareAndMultiply, NoMemory, Fail, NoRoomFor, FailHaving
<1>. QED
  BY <1>6, <1>7, <1>8, <1>9 DEF Raising

(* What is asked, and zptest's own numbers.                                *)
LEMMA TestOperands ==
  ASSUME Control, Values, Unstored, Testing
  PROVE  /\ call \in Calls /\ call.fn = "zptest" /\ num \in [Names -> Int]
         /\ Questioned = Was("b") /\ Was("b") \in Int /\ Was("b")' = Was("b") /\ UNCHANGED call
         /\ {"n1", "n4", "d", "a", "x"} \subseteq Names /\ {"n1", "n4", "d", "a", "x"} \cap Reg = {}
         /\ call.arg.a \in Reg \cup {Null} /\ Null \notin Reg /\ Reg \subseteq Names
<1>1. UNCHANGED call /\ at \in TestPlaces \cup {"zptest"} /\ call \in Calls /\ call.fn = "zptest"
  BY TestingGoes, TestingWrites
<1>2. /\ call.arg.b \in Reg /\ call.arg.a \in Reg \cup {Null} /\ Reg \subseteq Names
      /\ Was("b") \in Int
  BY <1>1, CallIs DEF Parameters, Names, Was
<1>3. Questioned = Was("b")
  BY <1>1, <1>2 DEF Questioned, Unstored, Stored, Was, Outside, TestPlaces
<1>. QED
  BY <1>1, <1>2, <1>3, NumberAssumption DEF Values, Names, Dedicated, Was

(* The small numbers and the even ones.                                    *)
LEMMA SmallOrEvenTested ==
  ASSUME Control, Values, Unstored, TestSmallOrEven
  PROVE  at' \in {"returned", "failed"} /\ PrimalityRight'
<1>. DEFINE n == Was("b")
<1>1. Testing
  BY DEF Testing
<1>2. at' \in {"returned", "failed"}
  BY DEF TestSmallOrEven, Answer, NoRoomFor, FailHaving
<1>3. /\ call.fn = "zptest" /\ num \in [Names -> Int] /\ Questioned = n /\ n \in Int /\ n' = n
      /\ UNCHANGED call /\ call.arg.a \in Reg \cup {Null} /\ Null \notin Reg /\ Reg \subseteq Names
  BY <1>1, TestOperands
<1>. HIDE DEF n
<1>4. Prime(2) /\ Prime(3)
  <2>1. \A k \in 2 .. 3 - 1 : 3 % k # 0
    OBVIOUS
  <2>. QED
    BY <2>1 DEF Prime
<1>5. n <= 3 /\ n \notin {2, 3} => n < 2 /\ ~ Prime(n)
  BY <1>3 DEF Prime
<1>6. n > 3 /\ n % 2 = 0 => ~ Prime(n)
  BY <1>3 DEF Prime
<1>7. CASE at' = "failed"
  BY <1>2, <1>7 DEF PrimalityRight, Returned
<1>8. CASE n \in {2, 3} /\ at' = "returned"
  <2>1. result' = "PRIME"
    BY <1>3, <1>8 DEF TestSmallOrEven, Answer, NoRoomFor, FailHaving
  <2>2. Prime(n)
    BY <1>4, <1>8
  <2>. QED
    BY <1>2, <1>3, <2>1, <2>2 DEF PrimalityRight, n
<1>9. CASE n \notin {2, 3} /\ at' = "returned"
  <2>. DEFINE w == IF n <= 3 THEN n ELSE 2
  <2>1. result' = "NONPRIME" /\ Witnessed(w) /\ (n <= 3 \/ n % 2 = 0)
    BY <1>3, <1>9 DEF TestSmallOrEven, Answer, NoRoomFor, FailHaving
  <2>2. ~ Prime(n) /\ w \in Int
    BY <1>3, <1>5, <1>6, <1>9, <2>1
  <2>3. call.arg.a # Null => Is("a")' = w
    <3>. SUFFICES ASSUME call.arg.a # Null PROVE num'[call.arg.a] = w
      BY <1>3 DEF Is
    <3>1. num' = call.arg.a :> w @@ num /\ call.arg.a \in Names
      BY <1>3, <2>1 DEF Witnessed, Witness, SetNum
    <3>. HIDE DEF w
    <3>. QED
      BY <1>3, <2>2, <3>1, StoreOne
  <2>4. IF n < 2 THEN w = n ELSE Shows(w, n)
    BY <1>3, <1>9, <2>1 DEF Shows
  <2>5. n' = n /\ call'.arg.a = call.arg.a
    BY <1>3
  <2>. HIDE DEF w
  <2>6. call'.arg.a # Null => IF n' < 2 THEN Is("a")' = n' ELSE Shows(Is("a")', n')
    BY <2>3, <2>4, <2>5
  <2>. QED
    BY <1>2, <2>1, <2>2, <2>5, <2>6 DEF PrimalityRight, n
<1>. QED
  BY <1>2, <1>7, <1>8, <1>9

(* zptest begins.                                                          *)
LEMMA TestPrepared ==
  ASSUME Control, Values, Unstored, PrepareTest, at' # "failed"
  PROVE  Prepared(Was("b"))' /\ at' = "round"
<1>. DEFINE n == Was("b")
            m == n - 1
            r == Lsb(m)
            w == ShiftDown(m, r)
<1>1. Testing
  BY DEF Testing
<1>2. /\ num \in [Names -> Int] /\ Questioned = n /\ n \in Int /\ n' = n
      /\ {"n1", "n4", "d"} \subseteq Names
  BY <1>1, TestOperands
<1>3. /\ n > 3 /\ n % 2 = 1 /\ at' = "round"
      /\ \E l \in Differences(n, 4) : num' = ("n1" :> m @@ "n4" :> l @@ "d" :> w) @@ num
      /\ loc' = [t |-> call.t, r |-> r] @@ loc
  BY <1>2 DEF PrepareTest, SetNum, SetLoc, Goto, NoMemory, Fail
<1>d. PICK l \in Differences(n, 4) : num' = ("n1" :> m @@ "n4" :> l @@ "d" :> w) @@ num
  BY <1>3
<1>l. l \in 1 .. n - 4
  <2>1. l \in Nat \ {0} /\ l <= n - 4
    BY <1>2, <1>3, <1>d, FourTaken
  <2>. HIDE DEF n
  <2>. QED
    BY <1>2, <2>1
<1>4. m \in Int /\ w \in Int /\ w = OddPart(m)
  <2>1. m \in Int \ {0}
    BY <1>2, <1>3
  <2>. HIDE DEF m
  <2>2. r \in Nat /\ w \in Int
    BY <2>1, LsbOf, Shifting
  <2>. QED
    BY <2>1, <2>2 DEF OddPart
<1>5. "r" \in DOMAIN loc' /\ loc'.r = r
  <2>. DEFINE f == [t |-> call.t, r |-> r]
  <2>1. "r" \in DOMAIN f /\ f["r"] = r /\ loc' = f @@ loc
    BY <1>3
  <2>. HIDE DEF f, r
  <2>. QED
    BY <2>1 DEF @@
<1>6. num'["n1"] = m /\ num'["n4"] = l /\ num'["d"] = w
  <2>. HIDE DEF m, w, r, n
  <2>1. num' = ("n1" :> m @@ "n4" :> l @@ "d" :> w) @@ num
    BY <1>d
  <2>2. num \in [Names -> Int] /\ "n1" \in Names /\ "n4" \in Names /\ "d" \in Names
    BY <1>2
  <2>3. m \in Int /\ l \in Int /\ w \in Int
    BY <1>4, <1>l
  <2>4. num'["n1"] = m /\ num'["n4"] = l /\ num'["d"] = w /\ Writes({"n1", "n4", "d"})
    BY <2>1, <2>2, <2>3, StoreThree
  <2>. QED
    BY <2>4
<1>. QED
  BY <1>2, <1>3, <1>l, <1>4, <1>5, <1>6 DEF Prepared, n

(* What is left alone stays prepared.                                      *)
LEMMA PreparedKept ==
  ASSUME Prepared(Was("b")), Was("b")' = Was("b"), "r" \in DOMAIN loc', loc'.r = loc.r,
         num'["n1"] = num["n1"], num'["n4"] = num["n4"], num'["d"] = num["d"]
  PROVE  Prepared(Was("b"))'
  BY DEF Prepared

(* A step of a loop sets some of its variables.                            *)
LEMMA LoopStep ==
  ASSUME NEW f, SetLoc(f), "r" \notin DOMAIN f, "r" \in DOMAIN loc
  PROVE  /\ "r" \in DOMAIN loc' /\ loc'.r = loc.r
         /\ \A v \in DOMAIN f : v \in DOMAIN loc' /\ loc'[v] = f[v]
  BY DEF SetLoc, @@

(* What zptest knows inside of its rounds.                                 *)
LEMMA TestKnown ==
  ASSUME Control, Values, Unstored, TestSoFar, Testing, at # "zptest"
  PROVE  LET n == Was("b")
             d == num["d"]
         IN  /\ InTest /\ Prepared(n) /\ n \in Nat /\ n > 3
             /\ d \in Nat \ {0} /\ loc.r \in Nat \ {0} /\ n - 1 = d * 2 ^ loc.r
             /\ d = OddPart(n - 1) /\ loc.r = Lsb(n - 1) /\ num["n1"] = n - 1 /\ num["n4"] \in 1 .. n - 4
             /\ "r" \in DOMAIN loc
             /\ at # "round" => num["a"] \in 2 .. n - 2
<1>1. call.fn = "zptest" /\ Was("b") \in Int /\ at \in TestPlaces
  BY TestOperands, TestingGoes
<1>2. InTest
  BY <1>1 DEF InTest
<1>3. Prepared(Was("b")) /\ Was("b") > 3 /\ (at # "round" => num["a"] \in 2 .. Was("b") - 2)
  BY <1>2 DEF TestSoFar, Values
<1>4. Was("b") \in Nat /\ Was("b") % 2 = 1
  BY <1>1, <1>3 DEF Prepared
<1>. QED
  BY <1>2, <1>3, <1>4, OddPartOf DEF Prepared

(* A round begins with some base, or there are no rounds left.             *)
LEMMA RoundBegun ==
  ASSUME Control, Values, Unstored, TestSoFar, Round
  PROVE  TestSoFar'
<1>1. Testing /\ at = "round"
  BY DEF Testing, Round
<1>2. /\ call.fn = "zptest" /\ num \in [Names -> Int] /\ Was("b")' = Was("b") /\ UNCHANGED call
      /\ {"n1", "n4", "d", "a"} \subseteq Names
  BY <1>1, TestOperands
<1>3. /\ Prepared(Was("b")) /\ Was("b") \in Nat /\ Was("b") > 3 /\ num["n4"] \in 1 .. Was("b") - 4
      /\ "r" \in DOMAIN loc
  BY <1>1, TestKnown
<1>4. CASE at' = "failed"
  BY <1>4 DEF TestSoFar, InTest, TestPlaces, LimbPlaces, PrimalityRight, Returned
<1>5. CASE Answer("PROBABLY_PRIME")
  BY <1>5 DEF Answer, TestSoFar, InTest, TestPlaces, LimbPlaces, PrimalityRight, Returned
<1>6. CASE at' = "zmodpow"
  <2>1. PICK c \in Drawable(Bits(num["n4"])) : c <= num["n4"] /\ num' = "a" :> c + 2 @@ num
    BY <1>6 DEF Round, SetNum, Answer, NoMemory, Fail
  <2>2. c + 2 \in Int /\ c + 2 \in 2 .. Was("b") - 2
    BY <1>3, <2>1 DEF Drawable
  <2>3. num'["a"] = c + 2 /\ Writes({"a"})
    BY <1>2, <2>1, <2>2, StoreOne
  <2>4. "r" \in DOMAIN loc' /\ loc'.r = loc.r
    <3>. DEFINE f == [t |-> loc.t - 1]
    <3>1. SetLoc(f) /\ "r" \notin DOMAIN f
      BY <1>6 DEF Round, Answer, NoMemory, Fail
    <3>. HIDE DEF f
    <3>. QED
      BY <1>3, <3>1, LoopStep
  <2>5. num'["n1"] = num["n1"] /\ num'["n4"] = num["n4"] /\ num'["d"] = num["d"]
    BY <1>2, <2>3 DEF Writes
  <2>6. Prepared(Was("b"))'
    BY <1>2, <1>3, <2>4, <2>5, PreparedKept
  <2>. QED
    BY <1>2, <1>6, <2>2, <2>3, <2>6 DEF TestSoFar, PrimalityRight, Returned
<1>. QED
  BY <1>4, <1>5, <1>6 DEF Round, Goto, NoMemory, Fail

(* The power of the base says nothing, or it is squared.                   *)
LEMMA PowerLookedAt ==
  ASSUME Control, Values, Unstored, PowerSoFar, TestSoFar, Tested
  PROVE  TestSoFar'
<1>. DEFINE n == Was("b")
            a == num["a"]
            d == num["d"]
<1>1. Testing /\ at = "tested"
  BY DEF Testing, Tested
<1>2. /\ call.fn = "zptest" /\ n' = n /\ UNCHANGED <<call, num>>
  BY <1>1, TestOperands DEF Tested
<1>3. /\ Prepared(n) /\ n \in Nat /\ n > 3 /\ num["n1"] = n - 1 /\ "r" \in DOMAIN loc
      /\ a \in 2 .. n - 2 /\ d \in Nat \ {0} /\ loc.r \in Nat \ {0}
  BY <1>1, TestKnown
<1>4. /\ "r" \in DOMAIN loc' /\ loc'.r = loc.r /\ "i" \in DOMAIN loc' /\ loc'.i = 1
  <2>. DEFINE f == [i |-> 1]
  <2>1. SetLoc(f) /\ "r" \notin DOMAIN f /\ "i" \in DOMAIN f /\ f["i"] = 1
    BY DEF Tested
  <2>. HIDE DEF f
  <2>. QED
    BY <1>3, <2>1, LoopStep
<1>5. Prepared(n)'
  BY <1>2, <1>3, <1>4, PreparedKept
<1>6. at' \in {"round", "square"} /\ (at' = "square" => num["x"] \notin {1, n - 1})
  BY <1>3 DEF Tested, Goto
<1>7. at' = "square" => loc'.i \in 1 .. loc'.r
  BY <1>3, <1>4
<1>8. ASSUME at' = "square", ~ FillsLimb(d) PROVE NoneYet(a, d, n)'
  <2>1. num["x"] = PowerMod(a, d, n)
    BY <1>1, <1>3, <1>8 DEF PowerSoFar
  <2>2. 2 ^ 0 = 1 /\ d * 1 = d /\ 1 - 1 = 0 /\ \A k \in 0 .. 1 - 1 : k = 0
    BY <1>3
  <2>3. \A k \in 0 .. loc'.i - 1 : d * 2 ^ k = d
    BY <1>4, <2>2
  <2>4. d * 2 ^ (loc'.i - 1) = d
    BY <1>4, <2>2
  <2>5. num["x"] # 1 /\ num["x"] # n - 1
    BY <1>6, <1>8
  <2>. HIDE DEF a, d, n
  <2>6. /\ num'["x"] = PowerMod(a, d * 2 ^ (loc'.i - 1), n) /\ num'["x"] # 1
        /\ PowerMod(a, d, n) # 1
        /\ \A k \in 0 .. loc'.i - 1 : PowerMod(a, d * 2 ^ k, n) # n - 1
    BY <1>2, <2>1, <2>3, <2>4, <2>5
  <2>. QED
    BY <1>2, <2>6 DEF NoneYet, a, d, n
<1>9. PrimalityRight'
  BY <1>6 DEF PrimalityRight, Returned
<1>. QED
  BY <1>2, <1>3, <1>4, <1>5, <1>6, <1>7, <1>8, <1>9 DEF TestSoFar

(* The exponent doubles.                                                   *)
LEMMA NextExponent ==
  ASSUME NEW d \in Nat, NEW i \in Nat \ {0}
  PROVE  d * 2 ^ (i - 1) \in Nat /\ d * 2 ^ i = (d * 2 ^ (i - 1)) * 2
<1>. DEFINE s == 2 ^ (i - 1)
<1>1. s \in Nat /\ 2 ^ i = 2 * s
  <2>1. i - 1 \in Nat /\ (i - 1) + 1 = i
    OBVIOUS
  <2>. QED
    BY <2>1, Positive, Doubling
<1>. HIDE DEF s
<1>2. d * s \in Nat /\ d * (2 * s) = (d * s) * 2
  BY <1>1
<1>. QED
  BY <1>1, <1>2 DEF s

(* A power that has been squared until the loop is at i, and its square.   *)
SquaredUntil(i, x, a, d, n) == x = PowerMod(a, d * 2 ^ (i - 1), n)

LEMMA SquaresOn ==
  ASSUME NEW a \in Nat, NEW d \in Nat, NEW n \in Nat \ {0}, NEW i \in Nat \ {0}, NEW x,
         SquaredUntil(i, x, a, d, n)
  PROVE  x \in 0 .. n - 1 /\ Rem(x * x, n) = PowerMod(a, d * 2 ^ i, n) /\ (x * x) % n = Rem(x * x, n)
<1>. DEFINE e == d * 2 ^ (i - 1)
<1>1. e \in Nat /\ d * 2 ^ i = e * 2
  BY NextExponent, Zenon
<1>2. x = PowerMod(a, e, n)
  BY DEF SquaredUntil
<1>. HIDE DEF e
<1>3. x \in 0 .. n - 1 /\ Rem(x * x, n) = PowerMod(a, e * 2, n) /\ (x * x) % n = PowerMod(a, e * 2, n)
  BY <1>1, <1>2, PowerModNatural
<1>. QED
  BY <1>1, <1>3

(* If the number was prime a square of the power that is 1 would be that   *)
(* of 1 or of n - 1, and all squares after it are 1; if there has been     *)
(* neither until the last, the number is not prime.                        *)
LEMMA Compositeness ==
  ASSUME NEW n \in Nat, n > 3, NEW a \in 2 .. n - 2, NEW d \in Nat, NEW r \in Nat \ {0},
         n - 1 = d * 2 ^ r, NEW i \in 1 .. r, NEW x,
         SquaredUntil(i, x, a, d, n), x # 1,
         \A k \in 0 .. i - 1 : PowerMod(a, d * 2 ^ k, n) # n - 1,
         i = r \/ Rem(x * x, n) = 1
  PROVE  ~ Prime(n) /\ \A k \in 0 .. r - 1 : PowerMod(a, d * 2 ^ k, n) # n - 1
<1>1. n \in Nat \ {0} /\ a \in Nat /\ i \in Nat \ {0} /\ i - 1 \in 0 .. i - 1
  OBVIOUS
<1>2. x \in 0 .. n - 1 /\ Rem(x * x, n) = PowerMod(a, d * 2 ^ i, n) /\ (x * x) % n = Rem(x * x, n)
  BY <1>1, SquaresOn
<1>3. x # n - 1
  BY <1>1 DEF SquaredUntil
<1>4. CASE i = r
  <2>1. ~ Prime(n)
    BY <1>3, <1>4, LastRoot DEF SquaredUntil
  <2>. QED
    BY <1>4, <2>1
<1>5. CASE Rem(x * x, n) = 1
  <2>1. ~ Prime(n)
    BY <1>2, <1>3, <1>5, SquareRoots
  <2>2. ASSUME NEW k \in 0 .. r - 1, k >= i PROVE PowerMod(a, d * 2 ^ k, n) # n - 1
    <3>. DEFINE s == 2 ^ i
                t == 2 ^ (k - i)
                e == d * s
    <3>1. s \in Nat /\ t \in Nat /\ 2 ^ k = s * t
      <4>1. k - i \in Nat /\ i + (k - i) = k /\ i \in Nat
        BY <2>2
      <4>2. 2 ^ (i + (k - i)) = s * t
        BY <4>1, PowerOfSum
      <4>. QED
        BY <4>1, <4>2, Positive
    <3>2. PowerMod(a, e, n) = 1
      BY <1>2, <1>5
    <3>3. k - i \in Nat
      BY <2>2
    <3>. HIDE DEF s
    <3>4. e \in Nat
      BY <3>1
    <3>5. d * (s * t) = e * t
      <4>. HIDE DEF t
      <4>. QED
        BY <3>1
    <3>. HIDE DEF e
    <3>6. PowerMod(a, e * t, n) = 1
      BY <1>1, <3>2, <3>3, <3>4, RemainsOne
    <3>7. PowerMod(a, d * 2 ^ k, n) = 1
      BY <3>1, <3>5, <3>6
    <3>. QED
      BY <3>7
  <2>3. ASSUME NEW k \in 0 .. r - 1, ~ (k >= i) PROVE PowerMod(a, d * 2 ^ k, n) # n - 1
    <3>1. k \in 0 .. i - 1
      BY <2>3
    <3>. QED
      BY <3>1
  <2>. QED
    BY <2>1, <2>2, <2>3
<1>. QED
  BY <1>4, <1>5

(* zptest squares, and finds out or goes on.                               *)
LEMMA Squared ==
  ASSUME Control, Values, Unstored, TestSoFar, TestSquare
  PROVE  TestSoFar'
<1>. DEFINE n == Was("b")
            a == num["a"]
            d == num["d"]
            x == num["x"]
            i == loc.i
            r == loc.r
            next == Rem(x * x, n)
<1>1. Testing /\ at = "square"
  BY DEF Testing, TestSquare
<1>2. /\ call.fn = "zptest" /\ n' = n /\ UNCHANGED call /\ num \in [Names -> Int] /\ Questioned = n
      /\ {"n1", "n4", "d", "a", "x"} \subseteq Names
      /\ call.arg.a \in Reg \cup {Null} /\ Null \notin Reg /\ Reg \subseteq Names
  BY <1>1, TestOperands
<1>3. /\ Prepared(n) /\ n \in Nat /\ n > 3 /\ num["n1"] = n - 1 /\ "r" \in DOMAIN loc
      /\ a \in 2 .. n - 2 /\ d \in Nat \ {0} /\ r \in Nat \ {0} /\ n - 1 = d * 2 ^ r
      /\ d = OddPart(n - 1) /\ r = Lsb(n - 1)
  BY <1>1, TestKnown
<1>4. i \in 1 .. r
  BY <1>1 DEF TestSoFar
<1>5. ASSUME ~ FillsLimb(d)
      PROVE  /\ x = PowerMod(a, d * 2 ^ (i - 1), n) /\ x # 1 /\ PowerMod(a, d, n) # 1
             /\ \A k \in 0 .. i - 1 : PowerMod(a, d * 2 ^ k, n) # n - 1
  BY <1>1, <1>5 DEF TestSoFar, NoneYet
<1>6. x \in Int /\ a \in Int /\ next \in Int
  <2>1. x \in Int /\ a \in Int /\ x * x \in Int
    BY <1>2
  <2>2. n \in Int \ {0}
    BY <1>3
  <2>. HIDE DEF n, x
  <2>. QED
    BY <2>1, <2>2, Remainder
<1>7. CASE at' = "failed"
  BY <1>7 DEF TestSoFar, InTest, TestPlaces, LimbPlaces, PrimalityRight, Returned
<1>8. CASE Composite
  <2>1. at' = "returned" /\ result' = "NONPRIME" /\ Witnessed(a)
    BY <1>8 DEF Composite, Answer
  <2>2. i = r \/ next = 1
    BY <1>2, <1>8 DEF TestSquare, Composite, Answer, Goto, NoMemory, Fail
  <2>3. call.arg.a # Null => Is("a")' = a
    <3>. SUFFICES ASSUME call.arg.a # Null PROVE num'[call.arg.a] = a
      BY <1>2 DEF Is
    <3>1. num' = call.arg.a :> a @@ num /\ call.arg.a \in Names
      BY <1>2, <2>1 DEF Witnessed, Witness, SetNum
    <3>. HIDE DEF a
    <3>. QED
      BY <1>2, <1>6, <3>1, StoreOne
  <2>4. ASSUME ~ FillsLimb(d) PROVE ~ Prime(n) /\ Shows(a, n)
    <3>1. ~ Prime(n) /\ \A k \in 0 .. r - 1 : PowerMod(a, d * 2 ^ k, n) # n - 1
      <4>1. d \in Nat /\ (i = r \/ Rem(x * x, n) = 1)
        BY <1>3, <2>2
      <4>2. /\ SquaredUntil(i, x, a, d, n) /\ x # 1
            /\ \A k \in 0 .. i - 1 : PowerMod(a, d * 2 ^ k, n) # n - 1
        BY <1>5, <2>4 DEF SquaredUntil
      <4>. HIDE DEF n, a, d, x, i, r
      <4>. QED
        BY <1>3, <1>4, <4>1, <4>2, Compositeness
    <3>2. PowerMod(a, d, n) # 1
      BY <1>5, <2>4
    <3>. HIDE DEF n, a, d, r
    <3>. QED
      BY <1>3, <3>1, <3>2 DEF Shows
  <2>5. PrimalityRight'
    <3>. HIDE DEF a
    <3>. QED
      BY <1>2, <1>3, <2>1, <2>3, <2>4 DEF PrimalityRight
  <2>. QED
    BY <2>1, <2>5 DEF TestSoFar, InTest, TestPlaces, LimbPlaces
<1>9. CASE at' \in {"round", "square"}
  <2>1. /\ i < r /\ next # 1 /\ num' = "x" :> next @@ num /\ SetLoc([i |-> i + 1])
        /\ at' = "square" => next # n - 1
    BY <1>2, <1>3, <1>9 DEF TestSquare, Composite, Answer, Goto, NoMemory, Fail, SetNum
  <2>2. num'["x"] = next /\ Writes({"x"})
    <3>. HIDE DEF next
    <3>. QED
      BY <1>2, <1>6, <2>1, StoreOne
  <2>3. num'["n1"] = num["n1"] /\ num'["n4"] = num["n4"] /\ num'["d"] = num["d"] /\ num'["a"] = num["a"]
    BY <1>2, <2>2 DEF Writes
  <2>4. "r" \in DOMAIN loc' /\ loc'.r = r /\ "i" \in DOMAIN loc' /\ loc'.i = i + 1
    <3>. DEFINE f == [i |-> loc.i + 1]
    <3>1. SetLoc(f) /\ "r" \notin DOMAIN f /\ "i" \in DOMAIN f /\ f["i"] = loc.i + 1
      BY <2>1
    <3>. HIDE DEF f
    <3>. QED
      BY <1>3, <3>1, LoopStep
  <2>5. Prepared(n)'
    BY <1>2, <1>3, <2>3, <2>4, PreparedKept
  <2>6. loc'.i \in 1 .. loc'.r
    BY <1>3, <1>4, <2>1, <2>4
  <2>7. ASSUME at' = "square", ~ FillsLimb(d) PROVE NoneYet(a, d, n)'
    <3>1. next = PowerMod(a, d * 2 ^ i, n)
      <4>1. n \in Nat \ {0} /\ a \in Nat /\ i \in Nat \ {0} /\ d \in Nat
        BY <1>3, <1>4
      <4>2. SquaredUntil(i, x, a, d, n)
        BY <1>5, <2>7 DEF SquaredUntil
      <4>. HIDE DEF n, a, d, x, i
      <4>. QED
        BY <4>1, <4>2, SquaresOn DEF next
    <3>2. loc'.i - 1 = i /\ \A k \in 0 .. loc'.i - 1 : k \in 0 .. i - 1 \/ k = i
      BY <1>3, <1>4, <2>4
    <3>3. next # 1 /\ next # n - 1
      BY <2>1, <2>7
    <3>4. PowerMod(a, d, n) # 1 /\ \A k \in 0 .. i - 1 : PowerMod(a, d * 2 ^ k, n) # n - 1
      BY <1>5, <2>7
    <3>. HIDE DEF n, a, d, i, next
    <3>5. \A k \in 0 .. loc'.i - 1 : PowerMod(a, d * 2 ^ k, n) # n - 1
      BY <3>1, <3>2, <3>3, <3>4
    <3>6. num'["x"] = PowerMod(a, d * 2 ^ (loc'.i - 1), n) /\ num'["x"] # 1
      BY <2>2, <3>1, <3>2, <3>3
    <3>. QED
      BY <1>2, <2>3, <3>4, <3>5, <3>6 DEF NoneYet, n, a, d
  <2>8. PrimalityRight'
    BY <1>9 DEF PrimalityRight, Returned
  <2>. QED
    BY <1>2, <1>3, <1>9, <2>3, <2>4, <2>5, <2>6, <2>7, <2>8 DEF TestSoFar
<1>. QED
  BY <1>7, <1>8, <1>9 DEF TestSquare, Goto, NoMemory, Fail

(* Every step keeps what zptest knows.                                     *)
LEMMA TestSoFarStep ==
  ASSUME Control, Values, Unstored, PowerSoFar, TestSoFar, [Next]_vars
  PROVE  TestSoFar'
<1>1. ASSUME at' \notin TestPlaces \cup LimbPlaces \cup {"zmodpow"} \/ call'.fn # "zptest",
             at' # "square", at' # "returned" \/ call'.fn # "zptest"
      PROVE  TestSoFar'
  BY <1>1 DEF TestSoFar, InTest, PrimalityRight, Returned
<1>2. CASE Ask
  <2>1. PICK c \in Calls : call' = c /\ at' = c.fn
    BY <1>2, CallAssumption DEF Ask
  <2>2. c.fn \in Functions
    BY CallIs
  <2>. QED
    BY <1>1, <2>1, <2>2 DEF Functions, TestPlaces, LimbPlaces
<1>3. CASE Resume
  BY <1>1, <1>3 DEF Resume, TestPlaces, LimbPlaces
<1>4. CASE Dividing \/ Gcd \/ Drawing
  <2>1. UNCHANGED call /\ at' \notin TestPlaces \cup LimbPlaces \cup {"zmodpow"}
    BY <1>4, DividingGoes, GcdGoes, DrawingGoes DEF DivisionPlaces, LimbPlaces, TestPlaces
  <2>2. call.fn # "zptest"
    <3>1. CASE Dividing
      BY <3>1 DEF Dividing, ZdivZmod, ModMultiply, DivideByZero, DivideSmall, DivideLong, QuotientBit,
                  Control, Caller, DivisionPlaces, Divisions, Functions
    <3>2. CASE Gcd \/ Drawing
      BY <3>2, GcdGoes, DrawingGoes DEF Control, Caller, Functions
    <3>. QED
      BY <1>4, <3>1, <3>2
  <2>. QED
    BY <1>1, <2>1, <2>2 DEF TestPlaces
<1>5. CASE Raising
  <2>1. /\ UNCHANGED call
        /\ at' \in LimbPlaces \cup {"exponent", "returned", "failed"} \/ (at' = "tested" /\ call.fn = "zptest")
        /\ AtPower \/ at \in LimbPlaces \cup {"exponent"}
    BY <1>5, RaisingGoes
  <2>2. CASE call.fn # "zptest"
    BY <1>1, <2>1, <2>2 DEF LimbPlaces
  <2>3. CASE call.fn = "zptest"
    <3>1. at \in LimbPlaces \cup {"zmodpow"} /\ arg = TestArg
      BY <2>1, <2>3 DEF Control, Caller, Arguments, AtPower, LimbPlaces, Functions
    <3>2. InTest /\ at # "round"
      BY <2>3, <3>1 DEF InTest, LimbPlaces
    <3>3. Prepared(Was("b")) /\ num["a"] \in 2 .. Was("b") - 2
      BY <3>2 DEF TestSoFar
    <3>4. at' # "returned" /\ at' # "square" /\ at' # "round"
      <4>1. at' # "returned"
        BY <1>5, <2>3 DEF Raising, PowerFails, PowerOfNothing, PreparePower, NextLimb, MultiplyAndSquare, LimbDone,
           SquareAndMultiply, PowerDone, PowerReturns, Goto, Fail, NoMemory, NoRoomFor, FailHaving
      <4>. QED
        BY <2>1, <4>1 DEF LimbPlaces
    <3>5. /\ num'["n1"] = num["n1"] /\ num'["n4"] = num["n4"] /\ num'["d"] = num["d"]
          /\ num'["a"] = num["a"]
      <4>1. Writes({"x", "pow_b", "pow_d"})
        BY <1>5, <3>1, RaisingWrites DEF TestArg
      <4>. QED
        BY <4>1 DEF Writes, Names, Dedicated
    <3>6. "r" \in DOMAIN loc' /\ loc'.r = loc.r
      BY <1>5, <3>3, RaisingKeepsLoop DEF Prepared
    <3>7. Was("b")' = Was("b")
      BY <2>1 DEF Was
    <3>8. Prepared(Was("b"))'
      BY <3>3, <3>5, <3>6, <3>7, PreparedKept
    <3>. QED
      BY <3>3, <3>4, <3>5, <3>7, <3>8 DEF TestSoFar, PrimalityRight, Returned
  <2>. QED
    BY <2>2, <2>3
<1>6. CASE Testing
  <2>1. CASE TestSmallOrEven
    <3>1. at' \in {"returned", "failed"} /\ PrimalityRight'
      BY <2>1, SmallOrEvenTested
    <3>. QED
      BY <3>1 DEF TestSoFar, InTest, TestPlaces, LimbPlaces
  <2>2. CASE PrepareTest /\ at' # "failed"
    BY <2>2, TestPrepared DEF TestSoFar, PrimalityRight, Returned
  <2>3. CASE PrepareTest /\ at' = "failed"
    BY <1>1, <2>3 DEF TestPlaces, LimbPlaces
  <2>. QED
    BY <1>6, <2>1, <2>2, <2>3, RoundBegun, PowerLookedAt, Squared DEF Testing
<1>7. CASE UNCHANGED vars
  <2>1. /\ Was("b")' = Was("b") /\ InTest' = InTest /\ Prepared(Was("b"))' = Prepared(Was("b"))
        /\ NoneYet(num["a"], num["d"], Was("b"))' = NoneYet(num["a"], num["d"], Was("b"))
    BY <1>7 DEF vars, Was, InTest, Prepared, NoneYet
  <2>2. PrimalityRight' = PrimalityRight
    BY <1>7 DEF vars, PrimalityRight, Returned, Was, Is
  <2>. QED
    BY <1>7, <2>1, <2>2 DEF vars, TestSoFar
<1>. QED
  BY <1>2, <1>3, <1>4, <1>5, <1>6, <1>7 DEF Next, Function

-----------------------------------------------------------------------------
(* What holds of every behaviour.                                          *)

Inv == Control /\ Pointers /\ Values /\ Unstored /\ Division /\ Drawn /\ CommonDivisors
       /\ PowerSoFar /\ TestSoFar

(* Before the first call nothing is stored, open or moved.                 *)
LEMMA InvInit == Init => Inv
<1>. SUFFICES ASSUME Init PROVE Inv
  OBVIOUS
<1>1. at = "idle" /\ arg = <<>> /\ block = <<>> /\ ptr = Originals /\ fds = 0 /\ num = Before
  BY DEF Init
<1>2. Control
  BY <1>1 DEF Control, Labels
<1>3. Pointers
  BY <1>1 DEF Pointers, Originals
<1>4. Values
  BY <1>1, NumberAssumption DEF Values, Before, Names, InTest, TestPlaces, LimbPlaces
<1>5. Unstored /\ Division /\ Drawn /\ CommonDivisors /\ PowerSoFar /\ TestSoFar
  BY <1>1 DEF Unstored, OthersUntouched, Outside, Division, DivisionPlaces, Drawn, RandomRight, Returned,
              CommonDivisors, GcdRight, PowerSoFar, PowerPlaces, LimbPlaces, PowersRight,
              TestSoFar, InTest, TestPlaces, PrimalityRight
<1>. QED
  BY <1>2, <1>3, <1>4, <1>5 DEF Inv

(* The invariant holds in every state.                                     *)
LEMMA InvAlways == Spec => []Inv
<1>1. Inv /\ [Next]_vars => Inv'
  BY ControlStep, PointersStep, ValuesStep, UnstoredStep, DivisionStep, DrawnStep,
     CommonDivisorsStep, PowerSoFarStep, TestSoFarStep DEF Inv
<1>. QED
  BY <1>1, InvInit, PTL DEF Spec

(* Values are integers, parameters are numbers, limbs are limbs and the    *)
(* pointers of zgcd point into one block each, whatever is called.         *)
THEOREM TypesAlwaysRight == Spec => []TypeOK
<1>1. Inv => TypeOK
  <2>. SUFFICES ASSUME Inv PROVE TypeOK
    OBVIOUS
  <2>1. DOMAIN num = Names /\ \A n \in DOMAIN num : num[n] \in Int
    BY DEF Inv, Values
  <2>2. /\ DOMAIN ptr = {"u", "v"} /\ \A p \in DOMAIN ptr : ptr[p][2] \in Nat
        /\ { ptr["u"][1], ptr["v"][1] } = {"u", "v"}
    BY DEF Inv, Pointers
  <2>. QED
    BY <2>1, <2>2 DEF Inv, Control, Values, Pointers, TypeOK, Names
<1>. QED
  BY <1>1, InvAlways, PTL

(* Whenever the program has control without an error, zgcd has put its     *)
(* pointers back and zrand has closed its device.                          *)
THEOREM PointersAlwaysRestored == Spec => []PointersRestored
<1>1. Inv => PointersRestored
  BY DEF Inv, Pointers, PointersRestored
<1>. QED
  BY <1>1, InvAlways, PTL

(* No function changes a number that is not its own, and a division that   *)
(* fails changes none but when it had nothing to divide.                   *)
THEOREM OthersAlwaysUntouched == Spec => []OthersUntouched
<1>1. Inv => OthersUntouched
  BY DEF Inv, Unstored
<1>. QED
  BY <1>1, InvAlways, PTL

(* Quotients and remainders are right for dividends and divisors of any    *)
(* size and sign, any width of a limb, and destinations that are operands. *)
THEOREM DivisionAlwaysRight == Spec => []DivisionRight
<1>1. Inv => DivisionRight
  <2>. SUFFICES ASSUME Inv, at = "returned", call.fn \in Divisions PROVE DivisionRight
    BY DEF DivisionRight, Returned, Divisions
  <2>1. call \in Calls /\ num \in [Names -> Int]
    BY DEF Inv, Control, Values
  <2>2. /\ Divided(num[DivisionArg.a], num[DivisionArg.b], Numerator, Denominator)
        /\ Abs(num[DivisionArg.a]) <= Abs(Numerator)
    BY DEF Inv, Division
  <2>3. Numerator \in Int /\ Denominator \in Int
    BY <2>1, Divisible
  <2>4. "div" \in Names /\ "mod" \in Names /\ call.arg.a \in Names
    BY <2>1, CallIs DEF Names, Dedicated, Parameters, Divisions
  <2>5. ASSUME NEW q \in Int, NEW n \in Int, Abs(q) <= Abs(n) PROVE q \in - Abs(n) .. Abs(n)
    BY <2>5 DEF Abs
  <2>6. CASE call.fn = "zdivmod"
    BY <2>2, <2>6 DEF DivisionRight, Returned, DivisionArg, Numerator, Denominator, Is
  <2>7. CASE call.fn = "zdiv"
    <3>1. Divided(Is("a"), num["div"], Was("b"), Was("c"))
      BY <2>2, <2>7 DEF DivisionArg, Numerator, Denominator, Is
    <3>2. Was("b") \in Int /\ Was("c") \in Int /\ Is("a") \in Int /\ num["div"] \in Int
      BY <2>1, <2>3, <2>4, <2>7 DEF Numerator, Denominator, Is
    <3>3. num["div"] = Was("b") - Is("a") * Was("c")
      BY <3>1, <3>2 DEF Divided
    <3>. QED
      BY <2>7, <3>1, <3>3 DEF DivisionRight, Returned
  <2>8. CASE call.fn = "zmod"
    <3>1. Divided(num["mod"], Is("a"), Was("b"), Was("c")) /\ Abs(num["mod"]) <= Abs(Was("b"))
      BY <2>2, <2>8 DEF DivisionArg, Numerator, Denominator, Is
    <3>2. Was("b") \in Int /\ num["mod"] \in Int
      BY <2>1, <2>3, <2>4, <2>8 DEF Numerator
    <3>3. num["mod"] \in - Abs(Was("b")) .. Abs(Was("b"))
      BY <2>5, <3>1, <3>2
    <3>. QED
      BY <2>8, <3>1, <3>3 DEF DivisionRight, Returned
  <2>9. CASE call.fn \in {"zmodmul", "zmodsqr"}
    <3>. DEFINE product == Was("b") * Was("c")
    <3>1. Divided(num["mod"], Is("a"), product, Was("d")) /\ Abs(num["mod"]) <= Abs(product)
      BY <2>2, <2>9 DEF DivisionArg, Numerator, Denominator, Is
    <3>2. product \in Int /\ num["mod"] \in Int
      BY <2>1, <2>3, <2>4, <2>9 DEF Numerator
    <3>3. num["mod"] \in - Abs(product) .. Abs(product)
      BY <2>5, <3>1, <3>2
    <3>. QED
      BY <2>9, <3>1, <3>3 DEF DivisionRight, Returned
  <2>. QED
    BY <2>6, <2>7, <2>8, <2>9 DEF Divisions
<1>. QED
  BY <1>1, InvAlways, PTL

(* A random number is between 0 and its bound, for bounds of any size and  *)
(* each distribution, unless it is drawn into its own bound; and all of    *)
(* them may come unless the bound fills its last limb.                     *)
THEOREM RandomAlwaysRight == Spec => []RandomRight
<1>1. Inv => RandomRight
  BY DEF Inv, Drawn
<1>. QED
  BY <1>1, InvAlways, PTL

(* What zgcd stores is the greatest number that divides both operands, for *)
(* operands of any size and sign and whichever of them it stores it in; it *)
(* is negative only if neither operand is positive.  The exception: in one *)
(* of its subtractions an inner limb that is 1 has lent (zsub.c:20-22).    *)
THEOREM GcdAlwaysRight == Spec => []GcdRight
<1>1. Inv => GcdRight
  BY DEF Inv, CommonDivisors
<1>. QED
  BY <1>1, InvAlways, PTL

(* What zpow, zpowu, zmodpow and zmodpowu store is the power, or what is   *)
(* left of it modulo a number, for bases, moduli and exponents of any size *)
(* and sign, any width of a limb, and destinations that are operands.  The *)
(* exceptions: an exponent of zpow or zmodpow that fills its last limb, a  *)
(* negative exponent of 1 or -1, and the exponent 0 modulo 1 or -1.        *)
THEOREM PowersAlwaysRight == Spec => []PowersRight
<1>1. Inv => PowersRight
  BY DEF Inv, PowerSoFar
<1>. QED
  BY <1>1, InvAlways, PTL

(* What zptest says is certainly prime is, and what it says is certainly   *)
(* not is not, with a witness that shows it, for numbers of any size, any  *)
(* bases drawn and any width of a limb; unless the odd part of the number  *)
(* less 1 fills its last limb.                                             *)
THEOREM PrimalityAlwaysRight == Spec => []PrimalityRight
<1>1. Inv => PrimalityRight
  BY DEF Inv, TestSoFar
<1>. QED
  BY <1>1, InvAlways, PTL
=============================================================================
