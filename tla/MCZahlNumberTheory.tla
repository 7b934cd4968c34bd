------------------------- MODULE MCZahlNumberTheory -------------------------
(* The calls for the model checking of ZahlNumberTheory, for limbs of three *)
(* bits.  x and y are the operands that matter most, z is a third one, and  *)
(* w is none.                                                               *)
EXTENDS ZahlNumberTheory

CONSTANTS x, y, z, w

MCReg == {x, y, z, w}

Calling(fn, args, xs, ys, zs) ==
  { [fn |-> fn, arg |-> g, val |-> (x :> p @@ y :> q @@ z :> r @@ w :> 7)] :
      g \in args, p \in xs, q \in ys, r \in zs }

(* Quotients of up to ten bits, so of up to four limbs.                    *)
Dividends == {0, 5, -13, 100, -700}
Divisors  == {0, 1, 3, -5, 13}

Dividing4 == Calling("zdivmod",
                     { g \in [{"a", "b", "c", "d"} -> {x, y, w}] :
                         g["a"] # g["b"] /\ g["c"] = x /\ w # g["d"] },
                     Dividends, Divisors, {2})
Dividing3 == UNION { Calling(fn, { [a |-> a, b |-> x, c |-> y] : a \in {x, y, w} },
                             Dividends, Divisors, {2}) : fn \in {"zdiv", "zmod"} }
ModularProducts ==
  Calling("zmodmul", { [a |-> a, b |-> x, c |-> c, d |-> z] : a \in {x, z, w}, c \in {x, y} },
          {-5, 12}, {0, 7}, {0, 5, -9})
  \cup Calling("zmodsqr", { [a |-> a, b |-> x, c |-> x, d |-> z] : a \in {x, z, w} },
               {-5, 12}, {2}, {0, 5, -9})

(* Exponents of one limb, of one that is full, and of two.                  *)
Powers ==
  Calling("zpow", { [a |-> a, b |-> x, c |-> c] : a \in {x, y, w}, c \in {x, y} },
          {-2, 0, 3}, {-1, 0, 1, 3, 5, 8, 10}, {2})
  \cup Calling("zmodpow", { [a |-> a, b |-> x, c |-> y, d |-> z] : a \in {x, y, z, w} },
               {-4, 0, 3}, {-1, 0, 2, 6, 9, 15}, {0, 1, 7})
UnsignedPowers ==
  { [fn |-> f.fn, arg |-> f.arg, val |-> f.val, c |-> c] :
      f \in Calling("zpowu", { [a |-> a, b |-> x] : a \in {x, w} }, {-2, 0, 3}, {2}, {2})
            \cup Calling("zmodpowu", { [a |-> a, b |-> x, d |-> z] : a \in {x, z, w} },
                         {-4, 0, 3}, {2}, {0, 7}),
      c \in {0, 1, 2, 5, 10} }

Gcds == Calling("zgcd", { [a |-> a, b |-> x, c |-> c] : a \in {x, y, w}, c \in {x, y} },
                {-36, 0, 5, 1, 24}, {-40, 0, 27, 64}, {2})
        \cup Calling("zgcd", { [a |-> a, b |-> x, c |-> y] : a \in {x, w} }, {201, -402}, {3}, {2})

(* Bounds of a part of a limb, of a full one, and of more.                  *)
Randoms ==
  { [fn |-> "zrand", arg |-> f.arg, val |-> f.val, dev |-> dev, dist |-> dist] :
      f \in Calling("zrand", { [a |-> a, b |-> x] : a \in {x, w} }, {-3, 0, 2, 3, 6, 9}, {2}, {2}),
      dev \in {"file", "libc", "none"}, dist \in {"UNIFORM", "QUASIUNIFORM", "MODUNIFORM", "none"} }

Tests ==
  { [fn |-> "zptest", arg |-> f.arg, val |-> f.val, t |-> t] :
      f \in Calling("zptest", { [a |-> a, b |-> x] : a \in {x, w, Null} },
                    {-1, 1, 2, 4, 5, 9, 11, 13, 17, 19, 25, 33, 37, 49, 73}, {2}, {2}),
      t \in 0 .. 2 }

MCCalls == Dividing4 \cup Dividing3 \cup ModularProducts \cup Powers
           \cup UnsignedPowers \cup Gcds \cup Randoms \cup Tests
(* Those that read the block of libzahl_tmp_pow_c.                          *)
MCLaterCalls == { c \in Powers \cup Tests : c.arg["a"] = w /\ c.val[z] \in {2, 7} }
=============================================================================
