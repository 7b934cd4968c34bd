---------------------------- MODULE LeylandProofs ----------------------------
(* leyland prints the numbers it promises for every limit and every bound: *)
(* proofs about Leyland.                                                   *)
EXTENDS Leyland, TLAPS

USE DEF NoLimit

Base == Nat \ {0, 1}

-----------------------------------------------------------------------------
(* The queue and the counters, whatever the powers are.                    *)

Values == { pbw(x, y) : x, y \in Nat }
Elements == [width : Nat, val : Values]

Types ==
  /\ queue \in Seq(Elements)
  /\ low \in Base /\ high \in Base /\ height \in Nat
  /\ lim \in Nat /\ nflag \in Nat
  /\ out \in Seq([val : Values, x : Nat, y : Nat])
  /\ pc \in Pc

(* One element for each base from low to high, with the number that belongs *)
(* to its width; of these bases one was printed last.                      *)
Shape ==
  /\ pc \in {"print", "update", "append"} =>
       /\ Len(queue) = high - low + 1
       /\ \A k \in 1 .. Len(queue) : queue[k].val = pbw(low + k - 1, queue[k].width)
  /\ pc \in {"print", "update"} => low <= high
  /\ pc = "update" => height \in low .. high

(* The lines are counted when the queue is ready for the next one.         *)
Counted ==
  /\ pc = "print" => lim = Len(out) + 1 /\ (nflag # 0 => lim <= nflag + 1)
  /\ pc \in {"update", "append"} => lim = Len(out) /\ (nflag # 0 => lim <= nflag)
  /\ pc = "done" => Len(out) = nflag

Ready == Types /\ Shape /\ Counted

(* The element of a base is of the type of the elements.                   *)
LEMMA ElementType ==
  ASSUME NEW x \in Nat, NEW y \in Nat
  PROVE  /\ Element(x, y) \in Elements
         /\ Element(x, y).width = y
         /\ Element(x, y).val = pbw(x, y)
  BY DEF Element, Elements, Values

(* What the statements after a line do to the queue: they remove its head, *)
(* or give the element that was printed its next width.                    *)
LEMMA UpdateCases ==
  ASSUME Types, Shape, Update
  PROVE  LET k == height - low + 1 IN
         \/ /\ height = low /\ queue[1].width >= low
            /\ low' = low + 1 /\ queue' = Tail(queue)
         \/ /\ ~ (height = low /\ queue[1].width >= low)
            /\ low' = low
            /\ queue' = [queue EXCEPT ![k] = Element(height, queue[k].width + 1)]
<1>. DEFINE finished == queue[1].width >= low /\ low = height
            rest     == IF finished THEN Tail(queue) ELSE queue
            first    == IF finished THEN low + 1 ELSE low
            m        == height - first + 1
<1>1. /\ low' = first
      /\ queue' = IF rest # <<>> /\ height >= first
                  THEN [rest EXCEPT ![m] = Element(height, rest[m].width + 1)]
                  ELSE rest
      /\ pc = "update"
  BY DEF Update
<1>2. /\ low \in Nat /\ height \in low .. high /\ height \in Nat
      /\ Len(queue) = high - low + 1 /\ high \in Nat
      /\ queue \in Seq(Elements)
  BY <1>1 DEF Types, Shape, Base
<1>3. queue # <<>>
  BY <1>2
<1>4. CASE finished
  BY <1>1, <1>2, <1>4
<1>5. CASE ~ finished
  BY <1>1, <1>2, <1>3, <1>5
<1>. QED
  BY <1>4, <1>5

(* The first queue.                                                        *)
LEMMA InitReady == Init => Ready
<1>. SUFFICES ASSUME Init PROVE Ready
  OBVIOUS
<1>1. /\ queue = << Element(2, 2) >> /\ low = 2 /\ high = 2 /\ height = 0
      /\ lim = 1 /\ nflag \in 0 .. MaxLines /\ out = <<>> /\ pc = "print"
  BY DEF Init
<1>2. /\ Element(2, 2) \in Elements /\ Element(2, 2).val = pbw(2, 2)
      /\ Element(2, 2).width = 2
  BY ElementType
<1>3. /\ queue \in Seq(Elements) /\ Len(queue) = 1
      /\ \A k \in 1 .. Len(queue) : k = 1 /\ queue[k] = Element(2, 2)
  BY <1>1, <1>2
<1>4. Types
  BY <1>1, <1>3, BoundAssumption DEF Types, Base, Pc
<1>5. Shape
  BY <1>1, <1>2, <1>3 DEF Shape
<1>6. Counted
  BY <1>1 DEF Counted
<1>. QED
  BY <1>4, <1>5, <1>6 DEF Ready

(* A line is printed from an element of the queue.                         *)
LEMMA PrintReady == Ready /\ PrintLine => Ready'
<1>. SUFFICES ASSUME Ready, PrintLine PROVE Ready'
  OBVIOUS
<1>1. /\ pc = "print" /\ pc' = "update" /\ (nflag # 0 => lim <= nflag)
      /\ UNCHANGED <<queue, low, high, lim, nflag>>
  BY DEF PrintLine, Wanted
<1>2. PICK k \in 1 .. Len(queue) :
        /\ height' = low + k - 1
        /\ out' = Append(out, [val |-> queue[k].val, x |-> height', y |-> queue[k].width])
  BY DEF PrintLine
<1>3. /\ queue[k] \in Elements /\ Len(queue) = high - low + 1
      /\ low \in Nat /\ high \in Nat /\ k \in Nat
  BY <1>1, <1>2 DEF Ready, Types, Shape, Base
<1>4. height' \in Nat /\ height' \in low .. high
  BY <1>2, <1>3
<1>5. [val |-> queue[k].val, x |-> height', y |-> queue[k].width]
         \in [val : Values, x : Nat, y : Nat]
  BY <1>3, <1>4 DEF Elements
<1>6. /\ out' \in Seq([val : Values, x : Nat, y : Nat])
      /\ Len(out') = Len(out) + 1
  BY <1>2, <1>5 DEF Ready, Types
<1>7. Types'
  BY <1>1, <1>4, <1>6 DEF Ready, Types, Pc
<1>8. Shape'
  BY <1>1, <1>4 DEF Ready, Shape
<1>9. Counted'
  BY <1>1, <1>6 DEF Ready, Counted
<1>. QED
  BY <1>7, <1>8, <1>9 DEF Ready

(* The element printed is replaced by the next one of its base, or goes    *)
(* with its base.                                                          *)
LEMMA UpdateReady == Ready /\ Update => Ready'
<1>. SUFFICES ASSUME Ready, Update PROVE Ready'
  OBVIOUS
<1>1. /\ pc = "update" /\ pc' = "append"
      /\ UNCHANGED <<high, height, lim, nflag, out>>
  BY DEF Update
<1>2. /\ queue \in Seq(Elements) /\ Len(queue) = high - low + 1
      /\ \A k \in 1 .. Len(queue) : queue[k].val = pbw(low + k - 1, queue[k].width)
      /\ low \in Base /\ low \in Nat /\ high \in Nat
      /\ height \in low .. high /\ height \in Nat
  BY <1>1 DEF Ready, Types, Shape, Base
<1>. DEFINE m == height - low + 1
<1>3. m \in 1 .. Len(queue)
  BY <1>2
<1>4. CASE low' = low + 1 /\ queue' = Tail(queue)
  <2>1. /\ queue' \in Seq(Elements) /\ Len(queue') = high - low
        /\ \A k \in 1 .. high - low : queue'[k] = queue[k + 1]
    BY <1>2, <1>3, <1>4
  <2>2. \A k \in 1 .. high - low : k + 1 \in 1 .. Len(queue) /\ low + (k + 1) - 1 = low' + k - 1
    BY <1>2, <1>4
  <2>3. low' \in Base
    BY <1>2, <1>4 DEF Base
  <2>4. \A k \in 1 .. high - low : queue'[k].val = pbw(low' + k - 1, queue'[k].width)
    BY <1>2, <2>1, <2>2
  <2>5. Len(queue') = high - low' + 1
    BY <1>2, <1>4, <2>1
  <2>. QED
    BY <1>1, <2>1, <2>3, <2>4, <2>5 DEF Ready, Types, Shape, Counted, Pc
<1>5. CASE low' = low /\ queue' = [queue EXCEPT ![m] = Element(height, queue[m].width + 1)]
  <2>1. queue[m].width + 1 \in Nat
    <3>1. queue[m] \in Elements
      BY <1>2, <1>3
    <3>. QED
      BY <3>1 DEF Elements
  <2>2. /\ Element(height, queue[m].width + 1) \in Elements
        /\ Element(height, queue[m].width + 1).width = queue[m].width + 1
        /\ Element(height, queue[m].width + 1).val = pbw(height, queue[m].width + 1)
    BY <1>2, <2>1, ElementType
  <2>3. /\ queue' \in Seq(Elements) /\ Len(queue') = Len(queue)
        /\ queue'[m] = Element(height, queue[m].width + 1)
        /\ \A k \in 1 .. Len(queue) : k # m => queue'[k] = queue[k]
    BY <1>2, <1>3, <1>5, <2>2
  <2>4. height = low + m - 1
    BY <1>2
  <2>5. queue'[m].val = pbw(low + m - 1, queue'[m].width)
    BY <2>2, <2>3, <2>4
  <2>. HIDE DEF m
  <2>6. \A k \in 1 .. Len(queue) : queue'[k].val = pbw(low + k - 1, queue'[k].width)
    BY <1>2, <2>3, <2>5
  <2>. QED
    BY <1>1, <1>2, <1>5, <2>3, <2>6 DEF Ready, Types, Shape, Counted, Pc
<1>. QED
  BY <1>4, <1>5, UpdateCases DEF Ready

(* The next base, if it is due, enters with its first number.              *)
LEMMA AppendCases ==
  ASSUME Ready, AppendBase
  PROVE  /\ pc = "append" /\ pc' = "print" /\ lim' = lim + 1
         /\ UNCHANGED <<low, height, nflag, out>>
         /\ high' \in Base /\ low <= high'
         /\ queue' \in Seq(Elements) /\ Len(queue') = high' - low + 1
         /\ \/ /\ high' = high + 1
               /\ queue'[Len(queue')] = Element(high + 1, 2)
               /\ \A k \in 1 .. Len(queue) : queue'[k] = queue[k]
            \/ /\ high' = high /\ queue' = queue
               /\ queue # <<>> /\ queue[Len(queue)].width <= 2
<1>1. /\ pc = "append" /\ pc' = "print" /\ lim' = lim + 1
      /\ UNCHANGED <<low, height, nflag, out>>
  BY DEF AppendBase
<1>2. /\ queue \in Seq(Elements) /\ Len(queue) = high - low + 1
      /\ low \in Nat /\ high \in Base /\ high \in Nat
  BY <1>1 DEF Ready, Types, Shape, Base
<1>3. high + 1 \in Base /\ high + 1 \in Nat
  BY <1>2 DEF Base
<1>4. CASE high' = high + 1 /\ queue' = Append(queue, Element(high', 2))
  <2>1. Element(high + 1, 2) \in Elements
    BY <1>3, ElementType
  <2>. QED
    BY <1>1, <1>2, <1>3, <1>4, <2>1
<1>5. CASE queue # <<>> /\ queue[Len(queue)].width <= 2 /\ UNCHANGED <<queue, high>>
  BY <1>1, <1>2, <1>5
<1>. QED
  BY <1>4, <1>5 DEF AppendBase

(* A new base comes after the last, with a candidate of its own.           *)
LEMMA AppendReady == Ready /\ AppendBase => Ready'
<1>. SUFFICES ASSUME Ready, AppendBase PROVE Ready'
  OBVIOUS
<1>1. /\ pc = "append" /\ pc' = "print" /\ lim' = lim + 1
      /\ UNCHANGED <<low, height, nflag, out>>
      /\ high' \in Base /\ low <= high'
      /\ queue' \in Seq(Elements) /\ Len(queue') = high' - low + 1
  BY AppendCases
<1>2. /\ Len(queue) = high - low + 1 /\ low \in Nat /\ high \in Nat
      /\ \A k \in 1 .. Len(queue) : queue[k].val = pbw(low + k - 1, queue[k].width)
  BY <1>1 DEF Ready, Types, Shape, Base
<1>3. \A k \in 1 .. Len(queue') : queue'[k].val = pbw(low + k - 1, queue'[k].width)
  <2>1. CASE /\ high' = high + 1
             /\ queue'[Len(queue')] = Element(high + 1, 2)
             /\ \A k \in 1 .. Len(queue) : queue'[k] = queue[k]
    <3>1. \A k \in 1 .. Len(queue') : k = Len(queue') \/ k \in 1 .. Len(queue)
      BY <1>1, <1>2, <2>1
    <3>2. high + 1 = low + Len(queue') - 1
      BY <1>1, <1>2, <2>1
    <3>3. /\ Element(high + 1, 2).val = pbw(high + 1, 2)
          /\ Element(high + 1, 2).width = 2
      BY <1>2, ElementType
    <3>. QED
      BY <1>2, <2>1, <3>1, <3>2, <3>3
  <2>2. CASE queue' = queue
    BY <1>2, <2>2
  <2>. QED
    BY <2>1, <2>2, AppendCases
<1>4. Types'
  BY <1>1 DEF Ready, Types, Pc
<1>5. Shape'
  BY <1>1, <1>3 DEF Shape
<1>6. Counted'
  BY <1>1 DEF Ready, Counted, Types
<1>. QED
  BY <1>4, <1>5, <1>6 DEF Ready

(* Every part of the loop leaves the queue one candidate per base from low *)
(* to high.                                                                *)
LEMMA NextReady == Ready /\ [Next]_vars => Ready'
<1>. SUFFICES ASSUME Ready, [Next]_vars PROVE Ready'
  OBVIOUS
<1>1. CASE Finish
  <2>1. /\ pc = "print" /\ nflag # 0 /\ ~ (lim <= nflag)
        /\ queue' = <<>> /\ pc' = "done"
        /\ UNCHANGED <<low, high, height, lim, nflag, out>>
    BY <1>1 DEF Finish, Wanted
  <2>2. Len(out) = nflag
    BY <2>1 DEF Ready, Counted, Types
  <2>. QED
    BY <2>1, <2>2 DEF Ready, Types, Shape, Counted, Pc
<1>2. CASE Fail
  BY <1>2 DEF Ready, Types, Shape, Counted, Fail, Pc
<1>3. CASE UNCHANGED vars
  BY <1>3 DEF Ready, Types, Shape, Counted, vars
<1>. QED
  BY <1>1, <1>2, <1>3, PrintReady, UpdateReady, AppendReady DEF Next

(* The queue and the counters are in order in every execution.             *)
LEMMA ReadyAlways == Spec => []Ready
  BY InitReady, NextReady, PTL DEF Spec

(* With -l N the program that ends has printed N lines: the invariant      *)
(* LimitKept, for every N and whatever the numbers are.                    *)
THEOREM LimitAlwaysKept == Spec => []LimitKept
<1>1. Ready => LimitKept
  BY DEF Ready, Counted, LimitKept
<1>. QED
  BY <1>1, ReadyAlways, PTL

-----------------------------------------------------------------------------
(* The frontier, for powers that grow as those of integers do.             *)

PowersGrow ==
  \A i, j, k, l \in Base :
    /\ Power(i, j) \in Nat \ {0}
    /\ i <= k /\ j <= l => Power(i, j) <= Power(k, l)
    /\ i <= k /\ j <= l /\ (i # k \/ j # l) => Power(i, j) < Power(k, l)

(* A larger base or width has a larger sum.                                *)
LEMMA SumsGrow ==
  ASSUME PowersGrow, NEW x \in Base, NEW y \in Base, NEW z \in Base, NEW w \in Base,
         x <= z, y <= w
  PROVE  /\ pbw(x, y) \in Nat /\ pbw(z, w) \in Nat
         /\ pbw(x, y) <= pbw(z, w)
         /\ x # z \/ y # w => pbw(x, y) < pbw(z, w)
<1>1. /\ Power(x, y) \in Nat /\ Power(y, x) \in Nat
      /\ Power(z, w) \in Nat /\ Power(w, z) \in Nat
      /\ Power(x, y) <= Power(z, w) /\ Power(y, x) <= Power(w, z)
      /\ x # z \/ y # w => Power(x, y) < Power(z, w)
  BY DEF PowersGrow
<1>. QED
  BY <1>1 DEF pbw

(* What has been printed: everything below the queue, and the element that *)
(* was printed last as long as the queue has not been updated.             *)
Below(x, y)   == x < low \/ (x <= high /\ y < queue[x - low + 1].width)
Current(x, y) == pc = "update" /\ x = height /\ y = queue[height - low + 1].width

Widths == \A k \in 1 .. Len(queue) : queue[k].width \in 2 .. low + k - 1
Lines  == \A x, y \in Base : y <= x =>
            (Printed(x, y) <=> Below(x, y) \/ Current(x, y))
Exact ==
  /\ pc \in {"print", "update", "append"} => Widths /\ Lines
  /\ pc = "print" => queue[Len(queue)].width = 2
  /\ pc = "update" => Smallest(height - low + 1)

(* At first nothing is printed, and what is to be is in the queue or above *)
(* it.                                                                     *)
LEMMA InitExact == Init => Exact
<1>. SUFFICES ASSUME Init PROVE Exact
  OBVIOUS
<1>1. /\ queue = << Element(2, 2) >> /\ low = 2 /\ high = 2
      /\ out = <<>> /\ pc = "print"
  BY DEF Init
<1>2. Len(queue) = 1 /\ queue[1] = Element(2, 2) /\ Element(2, 2).width = 2
  BY <1>1, ElementType
<1>3. Widths
  BY <1>1, <1>2 DEF Widths
<1>4. \A x, y : ~ Printed(x, y)
  BY <1>1 DEF Printed
<1>5. \A x, y \in Base : y <= x => ~ Below(x, y) /\ ~ Current(x, y)
  <2>. SUFFICES ASSUME NEW x \in Base, NEW y \in Base, y <= x
                PROVE  ~ Below(x, y) /\ ~ Current(x, y)
    OBVIOUS
  <2>1. x \in Nat /\ y \in Nat /\ x >= 2 /\ y >= 2
    BY DEF Base
  <2>2. CASE x = 2
    BY <1>1, <1>2, <2>1, <2>2 DEF Below, Current
  <2>3. CASE x > 2
    BY <1>1, <2>1, <2>3 DEF Below, Current
  <2>. QED
    BY <2>1, <2>2, <2>3
<1>. QED
  BY <1>1, <1>2, <1>3, <1>4, <1>5 DEF Exact, Lines

(* A new line adds a pair to those printed.                                *)
LEMMA PrintedAppend ==
  ASSUME NEW S, out \in Seq(S), NEW e, e \in S, out' = Append(out, e)
  PROVE  \A x, y : (Printed(x, y))' <=> (Printed(x, y) \/ (e.x = x /\ e.y = y))
<1>. SUFFICES ASSUME NEW x, NEW y
              PROVE  (Printed(x, y))' <=> (Printed(x, y) \/ (e.x = x /\ e.y = y))
  OBVIOUS
<1>. DEFINE n == Len(out)
<1>1. /\ n \in Nat /\ Len(out') = n + 1 /\ out'[n + 1] = e
      /\ \A k \in 1 .. n : out'[k] = out[k]
  OBVIOUS
<1>2. \A k : k \in 1 .. n + 1 <=> k \in 1 .. n \/ k = n + 1
  BY <1>1
<1>. HIDE DEF n
<1>3. Printed(x, y) <=> \E k \in 1 .. n : out[k].x = x /\ out[k].y = y
  BY DEF Printed, n
<1>4. (Printed(x, y))' <=> \E k \in 1 .. n + 1 : out'[k].x = x /\ out'[k].y = y
  BY <1>1 DEF Printed
<1>. QED
  BY <1>1, <1>2, <1>3, <1>4

(* Printing the least candidate keeps the account of what was printed.     *)
LEMMA PrintExact == Ready /\ Exact /\ PrintLine => Exact'
<1>. SUFFICES ASSUME Ready, Exact, PrintLine PROVE Exact'
  OBVIOUS
<1>1. /\ pc = "print" /\ pc' = "update"
      /\ queue' = queue /\ low' = low /\ high' = high
  BY DEF PrintLine
<1>2. PICK k \in 1 .. Len(queue) :
        /\ Smallest(k)
        /\ height' = low + k - 1
        /\ out' = Append(out, [val |-> queue[k].val, x |-> height', y |-> queue[k].width])
  BY DEF PrintLine
<1>. DEFINE e == [val |-> queue[k].val, x |-> height', y |-> queue[k].width]
<1>3. /\ queue[k] \in Elements /\ low \in Nat /\ k \in Nat
      /\ out \in Seq([val : Values, x : Nat, y : Nat])
  BY <1>1, <1>2 DEF Ready, Types, Base
<1>4. e \in [val : Values, x : Nat, y : Nat] /\ e.x = height' /\ e.y = queue[k].width
  BY <1>2, <1>3 DEF Elements
<1>5. \A x, y : (Printed(x, y))' <=> (Printed(x, y) \/ (e.x = x /\ e.y = y))
  <2>1. out' = Append(out, e)
    BY <1>2
  <2>. HIDE DEF e
  <2>. QED
    BY <1>3, <1>4, <2>1, PrintedAppend
<1>6. height' - low + 1 = k
  BY <1>2, <1>3
<1>7. \A x, y : (Below(x, y))' <=> Below(x, y)
  BY <1>1 DEF Below
<1>8. \A x, y : ~ Current(x, y) /\ ((Current(x, y))' <=> (e.x = x /\ e.y = y))
  BY <1>1, <1>4, <1>6 DEF Current
<1>9. Widths /\ Lines
  BY <1>1 DEF Exact
<1>10. Widths'
  BY <1>1, <1>9 DEF Widths
<1>. HIDE DEF e
<1>11. Lines'
  BY <1>5, <1>7, <1>8, <1>9 DEF Lines
<1>12. (Smallest(height - low + 1))'
  BY <1>1, <1>2, <1>6 DEF Smallest
<1>. QED
  BY <1>1, <1>10, <1>11, <1>12 DEF Exact

(* The element that was printed still has a larger width to go to, unless  *)
(* it is the head: a number with itself as width is larger than any number *)
(* of a smaller base.                                                      *)
LEMMA RoomForWidth ==
  ASSUME PowersGrow, Ready, Exact, pc = "update",
         ~ (height = low /\ queue[1].width >= low)
  PROVE  queue[height - low + 1].width < height
<1>. DEFINE m == height - low + 1
            w == queue[m].width
<1>1. /\ low \in Base /\ low \in Nat /\ high \in Nat /\ height \in low .. high
      /\ height \in Nat /\ Len(queue) = high - low + 1
      /\ \A k \in 1 .. Len(queue) : /\ queue[k].val = pbw(low + k - 1, queue[k].width)
                                    /\ queue[k].width \in 2 .. low + k - 1
  BY DEF Ready, Types, Shape, Exact, Widths, Base
<1>2. m \in 1 .. Len(queue) /\ 1 \in 1 .. Len(queue) /\ low + m - 1 = height
  BY <1>1
<1>3. w \in 2 .. height /\ queue[m].val = pbw(height, w)
  BY <1>1, <1>2
<1>4. queue[1].width \in 2 .. low /\ queue[1].val = pbw(low, queue[1].width)
  BY <1>1, <1>2
<1>5. queue[m].val <= queue[1].val
  BY <1>2 DEF Exact, Smallest
<1>. SUFFICES ASSUME w = height PROVE FALSE
  BY <1>1, <1>3
<1>6. CASE height = low
  <2>1. m = 1
    BY <1>1, <1>6
  <2>2. queue[1].width = low
    BY <1>6, <2>1
  <2>. QED
    BY <1>1, <1>6, <2>2
<1>7. CASE height # low
  <2>1. /\ height \in Base /\ queue[1].width \in Base
        /\ low <= height /\ queue[1].width <= height
    BY <1>1, <1>4 DEF Base
  <2>2. /\ pbw(low, queue[1].width) < pbw(height, height)
        /\ pbw(low, queue[1].width) \in Nat /\ pbw(height, height) \in Nat
    BY <1>1, <1>7, <2>1, SumsGrow
  <2>. HIDE DEF m
  <2>3. /\ queue[m].val = pbw(height, height)
        /\ queue[1].val = pbw(low, queue[1].width)
    BY <1>3, <1>4
  <2>. QED
    BY <1>5, <2>2, <2>3
<1>. QED
  BY <1>6, <1>7

(* The printed candidate is replaced by the next of its base, or its base  *)
(* is done.                                                                *)
LEMMA UpdateExact ==
  ASSUME PowersGrow, Ready, Exact, Update
  PROVE  Exact'
<1>. DEFINE m == height - low + 1
            w == queue[m].width
<1>1. /\ pc = "update" /\ pc' = "append"
      /\ high' = high /\ out' = out
  BY DEF Update
<1>2. /\ queue \in Seq(Elements) /\ Len(queue) = high - low + 1
      /\ low \in Nat /\ high \in Nat /\ height \in Nat
      /\ height \in low .. high /\ low >= 2
  BY <1>1 DEF Ready, Types, Shape, Base
<1>3. Widths /\ Lines
  BY <1>1 DEF Exact
<1>4. m \in 1 .. Len(queue) /\ low + m - 1 = height
  BY <1>2
<1>5. \A x, y : (Printed(x, y))' <=> Printed(x, y)
  BY <1>1 DEF Printed
<1>6. \A x, y : ~ (Current(x, y))'
  BY <1>1 DEF Current
<1>7. \A x, y : Current(x, y) <=> (x = height /\ y = w)
  BY <1>1 DEF Current
<1>8. CASE height = low /\ queue[1].width >= low /\ low' = low + 1 /\ queue' = Tail(queue)
  <2>1. /\ m = 1 /\ w = low
    BY <1>2, <1>3, <1>4, <1>8 DEF Widths
  <2>2. /\ Len(queue') = high - low
        /\ \A k \in 1 .. high - low : queue'[k] = queue[k + 1] /\ k + 1 \in 1 .. Len(queue)
    BY <1>2, <1>4, <1>8
  <2>3. Widths'
    BY <1>2, <1>3, <1>8, <2>2 DEF Widths
  <2>4. \A x, y \in Base : y <= x =>
          ((Below(x, y))' <=> Below(x, y) \/ Current(x, y))
    <3>. SUFFICES ASSUME NEW x \in Base, NEW y \in Base, y <= x
                  PROVE  (Below(x, y))' <=> Below(x, y) \/ Current(x, y)
      OBVIOUS
    <3>1. x \in Nat /\ y \in Nat
      BY DEF Base
    <3>2. CASE x < low
      BY <1>2, <1>8, <3>1, <3>2 DEF Below
    <3>3. CASE x = low
      BY <1>2, <1>7, <1>8, <2>1, <3>1, <3>3 DEF Below
    <3>4. CASE x > low /\ x <= high
      <4>1. x - low \in 1 .. high - low /\ x - (low + 1) + 1 = x - low
        BY <1>2, <3>1, <3>4
      <4>2. queue'[x - low] = queue[x - low + 1]
        BY <2>2, <4>1
      <4>3. (Below(x, y))' <=>
              x < low + 1 \/ (x <= high /\ y < queue'[x - (low + 1) + 1].width)
        BY <1>1, <1>8 DEF Below
      <4>4. (Below(x, y))' <=> y < queue[x - low + 1].width
        BY <1>2, <3>1, <3>4, <4>1, <4>2, <4>3
      <4>5. Below(x, y) <=> y < queue[x - low + 1].width
        BY <1>2, <3>1, <3>4 DEF Below
      <4>6. ~ Current(x, y)
        BY <1>7, <1>8, <3>4, <1>2, <3>1
      <4>. QED
        BY <4>4, <4>5, <4>6
    <3>5. CASE x > high
      BY <1>1, <1>2, <1>7, <1>8, <3>1, <3>5 DEF Below
    <3>. QED
      BY <1>2, <3>1, <3>2, <3>3, <3>4, <3>5
  <2>. HIDE DEF m, w
  <2>5. \A x, y \in Base : y <= x => (Printed(x, y) <=> Below(x, y) \/ Current(x, y))
    BY <1>3 DEF Lines
  <2>6. \A x, y \in Base : y <= x =>
          ((Printed(x, y))' <=> (Below(x, y))' \/ (Current(x, y))')
    BY <1>5, <1>6, <2>4, <2>5
  <2>7. Lines'
    BY <2>6 DEF Lines, Base
  <2>. QED
    BY <1>1, <2>3, <2>7 DEF Exact
<1>9. CASE /\ ~ (height = low /\ queue[1].width >= low)
           /\ low' = low
           /\ queue' = [queue EXCEPT ![m] = Element(height, queue[m].width + 1)]
  <2>1. w < height /\ w \in 2 .. height
    BY <1>1, <1>3, <1>4, <1>9, RoomForWidth DEF Widths
  <2>2. Element(height, w + 1).width = w + 1 /\ Element(height, w + 1) \in Elements
    <3>1. height \in Nat /\ w \in 2 .. height
      BY <1>2, <2>1
    <3>. HIDE DEF m, w
    <3>2. w + 1 \in Nat
      BY <3>1
    <3>. QED
      BY <3>1, <3>2, ElementType
  <2>3. /\ Len(queue') = Len(queue)
        /\ queue'[m].width = w + 1
        /\ \A k \in 1 .. Len(queue) : k # m => queue'[k] = queue[k]
    BY <1>2, <1>4, <1>9, <2>2
  <2>. HIDE DEF w
  <2>4. Widths'
    <3>. SUFFICES ASSUME NEW k \in 1 .. Len(queue)
                  PROVE  queue'[k].width \in 2 .. low + k - 1
      BY <1>9, <2>3 DEF Widths
    <3>1. CASE k = m
      BY <1>2, <1>4, <2>1, <2>3, <3>1
    <3>2. CASE k # m
      BY <1>3, <2>3, <3>2 DEF Widths
    <3>. QED
      BY <3>1, <3>2
  <2>5. \A x, y \in Base : y <= x =>
          ((Below(x, y))' <=> Below(x, y) \/ Current(x, y))
    <3>. SUFFICES ASSUME NEW x \in Base, NEW y \in Base, y <= x
                  PROVE  (Below(x, y))' <=> Below(x, y) \/ Current(x, y)
      OBVIOUS
    <3>1. x \in Nat /\ y \in Nat
      BY DEF Base
    <3>2. CASE x = height
      <4>1. (Below(x, y))' <=> y < w + 1
        BY <1>1, <1>2, <1>9, <2>3, <3>1, <3>2 DEF Below
      <4>2. Below(x, y) <=> y < w
        BY <1>2, <3>1, <3>2 DEF Below, w
      <4>3. Current(x, y) <=> y = w
        BY <1>7, <3>2
      <4>. QED
        BY <2>1, <3>1, <4>1, <4>2, <4>3
    <3>3. CASE x # height /\ x \in low .. high
      <4>1. x - low + 1 \in 1 .. Len(queue) /\ x - low + 1 # m
        BY <1>2, <3>1, <3>3
      <4>2. queue'[x - low + 1] = queue[x - low + 1]
        BY <2>3, <4>1
      <4>. QED
        BY <1>1, <1>7, <1>9, <3>3, <4>2 DEF Below
    <3>4. CASE x # height /\ x \notin low .. high
      BY <1>1, <1>2, <1>7, <1>9, <3>1, <3>4 DEF Below
    <3>. QED
      BY <3>2, <3>3, <3>4
  <2>6. Lines'
    BY <1>3, <1>5, <1>6, <2>5 DEF Lines
  <2>. QED
    BY <1>1, <2>4, <2>6 DEF Exact
<1>. QED
  BY <1>8, <1>9, UpdateCases DEF Ready

(* A new base is taken from above the queue to its end.                    *)
LEMMA AppendExact == Ready /\ Exact /\ AppendBase => Exact'
<1>. SUFFICES ASSUME Ready, Exact, AppendBase PROVE Exact'
  OBVIOUS
<1>1. /\ pc = "append" /\ pc' = "print"
      /\ UNCHANGED <<low, out>>
      /\ low <= high' /\ Len(queue') = high' - low + 1
  BY AppendCases
<1>2. /\ Len(queue) = high - low + 1 /\ low \in Nat /\ high \in Nat /\ low >= 2
  BY <1>1 DEF Ready, Types, Shape, Base
<1>3. Widths /\ Lines
  BY <1>1 DEF Exact
<1>4. \A x, y : (Printed(x, y))' <=> Printed(x, y)
  BY <1>1 DEF Printed
<1>5. \A x, y : ~ Current(x, y) /\ ~ (Current(x, y))'
  BY <1>1 DEF Current
<1>6. CASE /\ high' = high + 1
           /\ queue'[Len(queue')] = Element(high + 1, 2)
           /\ \A k \in 1 .. Len(queue) : queue'[k] = queue[k]
  <2>1. Len(queue') = Len(queue) + 1 /\ low + Len(queue') - 1 = high + 1
    BY <1>1, <1>2, <1>6
  <2>2. queue'[Len(queue')].width = 2
    BY <1>2, <1>6, ElementType
  <2>3. Widths'
    <3>. SUFFICES ASSUME NEW k \in 1 .. Len(queue')
                  PROVE  queue'[k].width \in 2 .. low + k - 1
      BY <1>1 DEF Widths
    <3>1. CASE k = Len(queue')
      BY <1>2, <2>1, <2>2, <3>1
    <3>2. CASE k # Len(queue')
      <4>1. k \in 1 .. Len(queue)
        BY <1>2, <2>1, <3>2
      <4>. QED
        BY <1>3, <1>6, <4>1 DEF Widths
    <3>. QED
      BY <3>1, <3>2
  <2>4. \A x, y \in Base : y <= x => ((Below(x, y))' <=> Below(x, y))
    <3>. SUFFICES ASSUME NEW x \in Base, NEW y \in Base
                  PROVE  (Below(x, y))' <=> Below(x, y)
      OBVIOUS
    <3>1. x \in Nat /\ y \in Nat /\ y >= 2
      BY DEF Base
    <3>2. CASE x \in low .. high
      <4>1. x - low + 1 \in 1 .. Len(queue)
        BY <1>2, <3>1, <3>2
      <4>2. queue'[x - low + 1] = queue[x - low + 1]
        BY <1>6, <4>1
      <4>. QED
        BY <1>1, <1>2, <1>6, <3>1, <3>2, <4>2 DEF Below
    <3>3. CASE x = high + 1
      <4>1. x - low + 1 = Len(queue')
        BY <1>1, <1>2, <1>6, <3>3
      <4>. QED
        BY <1>1, <1>2, <1>6, <2>2, <3>1, <3>3, <4>1 DEF Below
    <3>4. CASE x < low \/ x > high + 1
      BY <1>1, <1>2, <1>6, <3>1, <3>4 DEF Below
    <3>. QED
      BY <1>2, <3>1, <3>2, <3>3, <3>4
  <2>. QED
    BY <1>1, <1>3, <1>4, <1>5, <2>2, <2>3, <2>4 DEF Exact, Lines
<1>7. CASE high' = high /\ queue' = queue /\ queue # <<>> /\ queue[Len(queue)].width <= 2
  <2>1. Len(queue) \in 1 .. Len(queue)
    BY <1>1, <1>2, <1>7
  <2>2. queue[Len(queue)].width = 2
    BY <1>2, <1>3, <1>7, <2>1 DEF Widths
  <2>3. Widths' /\ \A x, y : (Below(x, y))' <=> Below(x, y)
    BY <1>1, <1>3, <1>7 DEF Widths, Below
  <2>. QED
    BY <1>1, <1>3, <1>4, <1>5, <1>7, <2>2, <2>3 DEF Exact, Lines
<1>. QED
  BY <1>6, <1>7, AppendCases

(* Every step keeps the queue the frontier of what was printed.            *)
LEMMA NextExact ==
  ASSUME PowersGrow, Ready, Exact, [Next]_vars
  PROVE  Exact'
<1>1. CASE Finish
  BY <1>1 DEF Finish, Exact
<1>2. CASE Fail
  BY <1>2 DEF Fail, Exact
<1>3. CASE UNCHANGED vars
  BY <1>3 DEF vars, Exact, Widths, Lines, Below, Current, Printed, Smallest
<1>. QED
  BY <1>1, <1>2, <1>3, PrintExact, UpdateExact, AppendExact DEF Next

(* The account of what was printed, what waits and what is above holds     *)
(* throughout.                                                             *)
LEMMA ExactAlways ==
  ASSUME PowersGrow
  PROVE  Spec => [](Ready /\ Exact)
<1>1. Ready /\ Exact /\ [Next]_vars => (Ready /\ Exact)'
  BY NextReady, NextExact
<1>2. Init => Ready /\ Exact
  BY InitReady, InitExact
<1>. QED
  BY <1>1, <1>2, PTL DEF Spec

(* Between two lines the queue is the frontier of what was printed: the    *)
(* invariant Frontier.  It needs that powers grow: a base leaves the queue *)
(* only from its head, and a base whose widths were used up elsewhere in   *)
(* the queue would go on with a width that is larger than itself.          *)
THEOREM FrontierAlways ==
  ASSUME PowersGrow
  PROVE  Spec => []Frontier
<1>1. Ready /\ Exact => Frontier
  <2>. SUFFICES ASSUME Ready, Exact, pc = "print" PROVE Frontier
    BY DEF Frontier
  <2>1. /\ Len(queue) = high - low + 1 /\ low <= high
        /\ low \in Nat /\ high \in Nat
        /\ \A k \in 1 .. Len(queue) : queue[k].val = pbw(low + k - 1, queue[k].width)
    BY DEF Ready, Types, Shape, Base
  <2>2. Widths /\ Lines
    BY DEF Exact
  <2>3. \A x \in 2 .. high + 1 : \A y \in 2 .. x : x \in Base /\ y \in Base /\ y <= x
    BY <2>1 DEF Base
  <2>4. \A x \in 2 .. high + 1 : \A y \in 2 .. x : Printed(x, y) <=> Below(x, y)
    BY <2>2, <2>3 DEF Lines, Current
  <2>5. Len(queue) >= 1
    BY <2>1
  <2>. QED
    BY <2>1, <2>2, <2>4, <2>5 DEF Frontier, Widths, Below
<1>. QED
  BY <1>1, ExactAlways, PTL

-----------------------------------------------------------------------------
(* leyland implements its specification: it prints all Leyland numbers in  *)
(* ascending order.                                                        *)

(* No two Leyland numbers considered are equal.                            *)
SumsDiffer ==
  \A x, y, z, w \in Base :
    y <= x /\ x <= MaxBase /\ w <= z /\ z <= MaxBase /\ pbw(x, y) = pbw(z, w)
      => x = z /\ y = w

(* Each line enters one base at most.                                      *)
Bounded ==
  /\ pc = "print" => high <= Len(out) + 2
  /\ pc \in {"update", "append"} => high <= Len(out) + 1

(* What was printed is not larger than the last line, and all the rest is. *)
Ascending ==
  /\ Sorted!Last \in Nat
  /\ \A x, y \in Base : y <= x /\ Printed(x, y) => pbw(x, y) <= Sorted!Last
  /\ \A x, y \in Base : y <= x /\ x <= MaxBase /\ ~ Printed(x, y) => Sorted!Last < pbw(x, y)

(* The queue begins with its candidates in ascending order.                *)
LEMMA InitAscending == PowersGrow /\ Init => Bounded /\ Ascending
<1>. SUFFICES ASSUME PowersGrow, Init PROVE Bounded /\ Ascending
  OBVIOUS
<1>1. high = 2 /\ out = <<>> /\ pc = "print"
  BY DEF Init
<1>2. Bounded
  BY <1>1 DEF Bounded
<1>3. Sorted!Last = 0 /\ \A x, y : ~ Printed(x, y)
  BY <1>1 DEF Sorted!Last, Printed
<1>4. \A x, y \in Base : pbw(x, y) > 0
  BY DEF PowersGrow, pbw
<1>. QED
  BY <1>2, <1>3, <1>4 DEF Ascending

(* The line that is printed is the smallest number that has not been       *)
(* printed: of a base in the queue by the frontier, and of a base above    *)
(* because the last element of the queue is the first number of its base.  *)
LEMMA SmallestIsNext ==
  ASSUME PowersGrow, Ready, Exact, pc = "print",
         NEW k \in 1 .. Len(queue), Smallest(k),
         NEW x \in Base, NEW y \in Base, y <= x, ~ Printed(x, y)
  PROVE  /\ queue[k].val \in Nat /\ pbw(x, y) \in Nat
         /\ queue[k].val <= pbw(x, y)
         /\ x > high => queue[k].val < pbw(x, y)
<1>. DEFINE n == Len(queue)
            j == x - low + 1
<1>1. /\ low \in Nat /\ high \in Nat /\ low >= 2 /\ low <= high
      /\ n = high - low + 1
      /\ \A i \in 1 .. n : /\ queue[i].val = pbw(low + i - 1, queue[i].width)
                           /\ queue[i].width \in 2 .. low + i - 1
      /\ queue[n].width = 2
  BY DEF Ready, Types, Shape, Exact, Widths, Base
<1>2. \A i \in 1 .. n : /\ low + i - 1 \in Base /\ queue[i].width \in Base
                        /\ queue[i].val \in Nat
                        /\ queue[k].val <= queue[i].val
  <2>. SUFFICES ASSUME NEW i \in 1 .. n
                PROVE  /\ low + i - 1 \in Base /\ queue[i].width \in Base
                       /\ queue[i].val \in Nat
                       /\ queue[k].val <= queue[i].val
    OBVIOUS
  <2>. DEFINE b == low + i - 1
              w == queue[i].width
  <2>1. queue[i].val = pbw(b, w) /\ w \in 2 .. b
    BY <1>1
  <2>2. b \in Nat /\ b >= 2
    BY <1>1
  <2>. HIDE DEF b, w
  <2>3. b \in Base /\ w \in Base
    BY <2>1, <2>2 DEF Base
  <2>4. pbw(b, w) \in Nat
    BY <2>3, SumsGrow DEF Base
  <2>5. queue[k].val <= queue[i].val
    BY DEF Smallest
  <2>. QED
    BY <2>1, <2>3, <2>4, <2>5 DEF b, w
<1>3. ~ Below(x, y)
  BY DEF Exact, Lines
<1>4. x \in Nat /\ y \in Nat /\ x >= 2 /\ y >= 2
  BY DEF Base
<1>5. pbw(x, y) \in Nat
  BY <1>4, SumsGrow
<1>6. CASE x <= high
  <2>1. j \in 1 .. n /\ low + j - 1 = x
    BY <1>1, <1>3, <1>4, <1>6 DEF Below
  <2>2. ~ (y < queue[j].width)
    BY <1>3, <1>6 DEF Below
  <2>3. queue[j].val = pbw(x, queue[j].width) /\ queue[j].width \in Base
    BY <1>1, <1>2, <2>1
  <2>4. pbw(x, queue[j].width) <= pbw(x, y)
    <3>. HIDE DEF j
    <3>1. queue[j].width <= y /\ x <= x
      BY <1>4, <2>2, <2>3 DEF Base
    <3>. QED
      BY <2>3, <3>1, SumsGrow
  <2>5. queue[k].val <= queue[j].val /\ queue[k].val \in Nat
    BY <1>2, <2>1
  <2>6. queue[j].val \in Nat
    BY <1>2, <2>1
  <2>. HIDE DEF j, n
  <2>7. queue[k].val <= pbw(x, y)
    BY <1>5, <2>3, <2>4, <2>5, <2>6
  <2>. QED
    BY <1>1, <1>4, <1>5, <1>6, <2>5, <2>7
<1>7. CASE x > high
  <2>1. n \in 1 .. n /\ low + n - 1 = high
    BY <1>1
  <2>2. queue[n].val = pbw(high, 2) /\ high \in Base /\ 2 \in Base
    BY <1>1, <1>2, <2>1
  <2>3. pbw(high, 2) < pbw(x, y)
    BY <1>1, <1>4, <1>7, <2>2, SumsGrow
  <2>4. queue[k].val <= queue[n].val /\ queue[k].val \in Nat /\ queue[n].val \in Nat
    BY <1>2, <2>1
  <2>. HIDE DEF n
  <2>. QED
    BY <1>5, <2>2, <2>3, <2>4
<1>. QED
  BY <1>1, <1>4, <1>6, <1>7

(* What a line is.                                                         *)
LEMMA LinePrinted ==
  ASSUME PowersGrow, MaxLines < MaxBase, Ready, Exact, Bounded, Ascending, PrintLine
  PROVE  \E x, y \in Base :
           /\ y <= x /\ x <= MaxBase
           /\ out' = Append(out, [val |-> pbw(x, y), x |-> x, y |-> y])
           /\ pbw(x, y) \in Nat
           /\ \A z, w : (Printed(z, w))' <=> (Printed(z, w) \/ (z = x /\ w = y))
           /\ ~ Printed(x, y)
           /\ \A z, w \in Base : w <= z /\ ~ Printed(z, w) => pbw(x, y) <= pbw(z, w)
<1>1. pc = "print" /\ Len(out) < MaxLines
  BY DEF PrintLine
<1>2. PICK k \in 1 .. Len(queue) :
        /\ Smallest(k)
        /\ height' = low + k - 1
        /\ out' = Append(out, [val |-> queue[k].val, x |-> height', y |-> queue[k].width])
  BY DEF PrintLine
<1>. DEFINE x == low + k - 1
            y == queue[k].width
<1>3. /\ low \in Nat /\ high \in Nat /\ low >= 2 /\ k \in Nat
      /\ Len(queue) = high - low + 1
      /\ queue[k].val = pbw(x, y) /\ y \in 2 .. x
      /\ out \in Seq([val : Values, x : Nat, y : Nat])
  BY <1>1, <1>2 DEF Ready, Types, Shape, Exact, Widths, Base
<1>4. x \in Base /\ y \in Base /\ y <= x /\ x \in low .. high /\ x - low + 1 = k
  <2>1. k \in 1 .. high - low + 1
    BY <1>2, <1>3
  <2>2. x \in Nat /\ x >= 2 /\ x \in low .. high /\ x - low + 1 = k
    BY <1>3, <2>1
  <2>3. y \in 2 .. x
    BY <1>3
  <2>. HIDE DEF x, y
  <2>4. y \in Nat /\ y >= 2 /\ y <= x
    BY <2>2, <2>3
  <2>. QED
    BY <2>2, <2>4 DEF Base
<1>5. high <= MaxBase
  <2>1. high <= Len(out) + 2 /\ Len(out) \in Nat
    BY <1>1, <1>3 DEF Bounded
  <2>. QED
    BY <1>1, <1>3, <2>1, BoundAssumption
<1>6. ~ Printed(x, y)
  <2>1. ~ Below(x, y)
    BY <1>3, <1>4 DEF Below
  <2>2. Lines /\ ~ Current(x, y)
    BY <1>1 DEF Exact, Current
  <2>. QED
    BY <1>4, <2>1, <2>2 DEF Lines
<1>. HIDE DEF x, y
<1>7. x = height' /\ y = queue[k].width
  BY <1>2 DEF x, y
<1>8. \A z, w \in Base : w <= z /\ ~ Printed(z, w) => pbw(x, y) <= pbw(z, w)
  BY <1>1, <1>2, <1>3, SmallestIsNext
<1>9. pbw(x, y) \in Nat
  BY <1>4, SumsGrow DEF Base
<1>10. x <= MaxBase
  BY <1>3, <1>4, <1>5, BoundAssumption
<1>. DEFINE e == [val |-> pbw(x, y), x |-> x, y |-> y]
<1>11. out' = Append(out, e)
  BY <1>2, <1>3, <1>7
<1>12. e \in [val : Values, x : Nat, y : Nat] /\ e.x = x /\ e.y = y
  <2>1. x \in Nat /\ y \in Nat
    BY <1>4 DEF Base
  <2>2. pbw(x, y) \in Values
    BY <2>1 DEF Values
  <2>. QED
    BY <2>1, <2>2
<1>13. \A z, w : (Printed(z, w))' <=> (Printed(z, w) \/ (z = x /\ w = y))
  <2>. HIDE DEF e
  <2>1. \A z, w : (Printed(z, w))' <=> (Printed(z, w) \/ (e.x = z /\ e.y = w))
    BY <1>3, <1>11, <1>12, PrintedAppend
  <2>. QED
    BY <1>12, <2>1
<1>. QED
  BY <1>4, <1>6, <1>8, <1>9, <1>10, <1>11, <1>13

(* Printing a line is a step of the specification and keeps the order.     *)
LEMMA PrintAscending ==
  ASSUME PowersGrow, SumsDiffer, MaxLines < MaxBase,
         Ready, Exact, Bounded, Ascending, PrintLine
  PROVE  Sorted!Next /\ Ascending'
<1>1. PICK x \in Base, y \in Base :
        /\ y <= x /\ x <= MaxBase
        /\ out' = Append(out, [val |-> pbw(x, y), x |-> x, y |-> y])
        /\ pbw(x, y) \in Nat
        /\ \A z, w : (Printed(z, w))' <=> (Printed(z, w) \/ (z = x /\ w = y))
        /\ ~ Printed(x, y)
        /\ \A z, w \in Base : w <= z /\ ~ Printed(z, w) => pbw(x, y) <= pbw(z, w)
  BY LinePrinted
<1>2. Sorted!Last \in Nat /\ Sorted!Last < pbw(x, y)
  BY <1>1 DEF Ascending
<1>3. (Sorted!Last)' = pbw(x, y)
  <2>. DEFINE e == [val |-> pbw(x, y), x |-> x, y |-> y]
  <2>1. out \in Seq([val : Values, x : Nat, y : Nat]) /\ out' = Append(out, e) /\ e.val = pbw(x, y)
    BY <1>1 DEF Ready, Types
  <2>. HIDE DEF e
  <2>2. out' # <<>> /\ out'[Len(out')] = e
    BY <2>1
  <2>. QED
    BY <2>1, <2>2 DEF Sorted!Last
<1>4. \A p \in Sorted!Pair : /\ p[1] \in Base /\ p[2] \in Base /\ p[2] <= p[1] /\ p[1] <= MaxBase
                             /\ Sorted!Leyland(p) = pbw(p[1], p[2])
  BY BoundAssumption DEF Sorted!Pair, Sorted!Leyland, pbw, Base
<1>5. ~ \E q \in Sorted!Pair : Sorted!Last < Sorted!Leyland(q) /\ Sorted!Leyland(q) < pbw(x, y)
  <2>. SUFFICES ASSUME NEW q \in Sorted!Pair,
                       Sorted!Last < Sorted!Leyland(q), Sorted!Leyland(q) < pbw(x, y)
                PROVE  FALSE
    OBVIOUS
  <2>. DEFINE z == q[1]
              w == q[2]
  <2>1. z \in Base /\ w \in Base /\ w <= z /\ Sorted!Leyland(q) = pbw(z, w)
    BY <1>4
  <2>. HIDE DEF z, w
  <2>2. pbw(z, w) \in Nat
    BY <2>1, SumsGrow DEF Base
  <2>3. CASE Printed(z, w)
    BY <1>2, <2>1, <2>2, <2>3 DEF Ascending
  <2>4. CASE ~ Printed(z, w)
    BY <1>1, <2>1, <2>2, <2>4
  <2>. QED
    BY <2>3, <2>4
<1>6. Sorted!Next
  <2>. DEFINE p == <<x, y>>
  <2>1. p \in Sorted!Pair /\ p[1] = x /\ p[2] = y
    BY <1>1, BoundAssumption DEF Sorted!Pair, Base
  <2>2. Sorted!Leyland(p) = pbw(x, y)
    BY <1>4, <2>1
  <2>. HIDE DEF p
  <2>3. /\ out' = Append(out, [val |-> Sorted!Leyland(p), x |-> p[1], y |-> p[2]])
        /\ Sorted!Last < Sorted!Leyland(p)
        /\ ~ \E q \in Sorted!Pair : Sorted!Last < Sorted!Leyland(q) /\ Sorted!Leyland(q) < Sorted!Leyland(p)
    BY <1>1, <1>2, <1>5, <2>1, <2>2
  <2>. QED
    BY <2>1, <2>3 DEF Sorted!Next
<1>7. \A z, w \in Base : w <= z /\ (Printed(z, w))' => pbw(z, w) <= pbw(x, y)
  <2>. SUFFICES ASSUME NEW z \in Base, NEW w \in Base, w <= z, Printed(z, w)
                PROVE  pbw(z, w) <= pbw(x, y)
    BY <1>1
  <2>1. pbw(z, w) \in Nat
    BY SumsGrow DEF Base
  <2>. QED
    BY <1>1, <1>2, <2>1 DEF Ascending
<1>8. \A z, w \in Base : w <= z /\ z <= MaxBase /\ ~ (Printed(z, w))' => pbw(x, y) < pbw(z, w)
  <2>. SUFFICES ASSUME NEW z \in Base, NEW w \in Base, w <= z, z <= MaxBase,
                       ~ Printed(z, w), ~ (z = x /\ w = y)
                PROVE  pbw(x, y) < pbw(z, w)
    BY <1>1
  <2>1. pbw(z, w) \in Nat /\ pbw(x, y) <= pbw(z, w)
    BY <1>1, SumsGrow DEF Base
  <2>2. pbw(x, y) # pbw(z, w)
    BY <1>1 DEF SumsDiffer
  <2>. QED
    BY <1>1, <2>1, <2>2
<1>9. Ascending'
  BY <1>1, <1>3, <1>7, <1>8 DEF Ascending, pbw
<1>. QED
  BY <1>6, <1>9

(* Of the rest of the steps none prints.                                   *)
LEMMA OtherSteps ==
  ASSUME Update \/ AppendBase \/ Finish \/ Fail \/ UNCHANGED vars
  PROVE  out' = out
  BY DEF Update, AppendBase, Finish, Fail, vars

(* Every part of the loop stays within the bases it may use.               *)
LEMMA NextBounded == Ready /\ Bounded /\ [Next]_vars => Bounded'
<1>. SUFFICES ASSUME Ready, Bounded, [Next]_vars PROVE Bounded'
  OBVIOUS
<1>1. high \in Nat /\ Len(out) \in Nat
  BY DEF Ready, Types, Base
<1>2. CASE PrintLine
  <2>1. /\ pc = "print" /\ pc' = "update" /\ high' = high
        /\ \E e : out' = Append(out, e)
    BY <1>2 DEF PrintLine
  <2>2. (Ready)'
    BY <1>2, PrintReady
  <2>3. Len(out') = lim' /\ lim = Len(out) + 1 /\ lim' = lim
    BY <1>2, <2>1, <2>2 DEF Ready, Counted, PrintLine
  <2>. QED
    BY <1>1, <2>1, <2>3 DEF Bounded
<1>3. CASE Update
  BY <1>1, <1>3 DEF Update, Bounded
<1>4. CASE AppendBase
  <2>1. /\ pc = "append" /\ pc' = "print" /\ out' = out
        /\ high' = high + 1 \/ high' = high
    BY <1>4 DEF AppendBase
  <2>. QED
    BY <1>1, <2>1 DEF Bounded
<1>5. CASE Finish \/ Fail
  BY <1>5 DEF Finish, Fail, Bounded
<1>6. CASE UNCHANGED vars
  BY <1>6 DEF vars, Bounded
<1>. QED
  BY <1>2, <1>3, <1>4, <1>5, <1>6 DEF Next

(* leyland implements LeylandNumbers: the lines come in ascending order    *)
(* and none is left out, as far as the largest base considered is out of   *)
(* reach within the lines considered.                                      *)
THEOREM Implements ==
  ASSUME PowersGrow, SumsDiffer, MaxLines < MaxBase
  PROVE  Spec => Enumerates
<1>. DEFINE Inv == Ready /\ Exact /\ Bounded /\ Ascending
<1>1. Init => Inv
  BY InitReady, InitExact, InitAscending
<1>2. Inv /\ [Next]_vars => Inv' /\ [Sorted!Next]_out
  <2>. SUFFICES ASSUME Inv, [Next]_vars PROVE Inv' /\ [Sorted!Next]_out
    OBVIOUS
  <2>1. Ready' /\ Exact' /\ Bounded'
    BY NextReady, NextExact, NextBounded
  <2>2. CASE PrintLine
    BY <2>1, <2>2, PrintAscending
  <2>3. CASE out' = out
    <3>1. (Sorted!Last)' = Sorted!Last /\ \A x, y : (Printed(x, y))' <=> Printed(x, y)
      BY <2>3 DEF Sorted!Last, Printed
    <3>2. Ascending'
      BY <3>1 DEF Ascending, pbw
    <3>. QED
      BY <2>1, <2>3, <3>2
  <2>. QED
    BY <2>2, <2>3, OtherSteps DEF Next
<1>3. Init => Sorted!Init
  BY DEF Init, Sorted!Init
<1>. HIDE DEF Inv
<1>. QED
  BY <1>1, <1>2, <1>3, PTL DEF Spec, Enumerates, Sorted!Spec
=============================================================================
