------------------------------ MODULE Leyland ------------------------------
(***************************************************************************)
(* The program leyland: a queue with one element for each base from low to *)
(* high, the next number of that base that has not been printed.  The base *)
(* of an element is not stored: it is low plus the position.               *)
(*                                                                         *)
(* An allocation that fails, in the program (ecalloc) or in libzahl (the   *)
(* long jump), ends the program.                                           *)
(***************************************************************************)
EXTENDS Integers, Sequences

CONSTANTS
  Power(_, _),   \* zpow
  MaxBase,       \* largest base considered by the abstract specification
  MaxLines       \* lines after which the model of an unlimited run stops

ASSUME BoundAssumption == MaxBase \in Nat /\ MaxLines \in Nat

NoLimit == 0     \* the value of nflag without -l

VARIABLES
  queue,   \* head: elements [width, val]
  low,     \* the base of the first element
  high,    \* the base of the last element
  height,  \* the base of the number printed last
  lim,     \* the number of the next line
  nflag,   \* the argument of -l
  out,     \* the lines printed
  pc

vars == <<queue, low, high, height, lim, nflag, out, pc>>

Pc == { "print", "update", "append", "done", "failed" }

pbw(i, j) == Power(i, j) + Power(j, i)

Element(base, width) == [width |-> width, val |-> pbw(base, width)]

(* The element the scan of the queue ends with: of several smallest ones   *)
(* the comparison with <= keeps the last.                                  *)
Smallest(k) ==
  /\ \A j \in 1 .. Len(queue) : queue[k].val <= queue[j].val
  /\ \A j \in k + 1 .. Len(queue) : queue[k].val # queue[j].val

Init ==
  /\ queue = << Element(2, 2) >>
  /\ low = 2 /\ high = 2
  /\ height = 0
  /\ lim = 1
  /\ nflag \in NoLimit .. MaxLines
  /\ out = <<>>
  /\ pc = "print"

WantedOneMore == nflag = NoLimit \/ lim <= nflag + 1  \* mutant
Wanted == nflag = NoLimit \/ lim <= nflag

(* The scan of the queue, the conversion to text and the output.           *)
PrintLine ==
  /\ pc = "print" /\ Wanted
  /\ Len(out) < MaxLines
  /\ \E k \in 1 .. Len(queue) :
       /\ Smallest(k)
       /\ height' = low + k - 1
       /\ out' = Append(out, [val |-> queue[k].val, x |-> height',
                              y |-> queue[k].width])
  /\ pc' = "update"
  /\ UNCHANGED <<queue, low, high, lim, nflag>>

(* The first element is finished when its width is its base and it has     *)
(* just been printed; any other one that was printed gets the next width.  *)
UpdateAnyHead ==  \* mutant: low==height is not tested
  LET finished == queue[1].width >= low
      rest     == IF finished THEN Tail(queue) ELSE queue
      first    == IF finished THEN low + 1 ELSE low
      k        == height - first + 1
  IN
  /\ pc = "update"
  /\ low' = first
  /\ queue' = IF rest # <<>> /\ height >= first
              THEN [rest EXCEPT ![k] = Element(height, @.width + 1)]
              ELSE rest
  /\ pc' = "append"
  /\ UNCHANGED <<high, height, lim, nflag, out>>

Update ==
  LET finished == queue[1].width >= low /\ low = height
      rest     == IF finished THEN Tail(queue) ELSE queue
      first    == IF finished THEN low + 1 ELSE low
      k        == height - first + 1
  IN
  /\ pc = "update"
  /\ low' = first
  /\ queue' = IF rest # <<>> /\ height >= first
              THEN [rest EXCEPT ![k] = Element(height, @.width + 1)]
              ELSE rest
  /\ pc' = "append"
  /\ UNCHANGED <<high, height, lim, nflag, out>>

(* The next base enters the queue once the last one is past its first      *)
(* number.                                                                 *)
AppendBaseLate ==  \* mutant: one number of the last base later
  /\ pc = "append"
  /\ \/ /\ queue # <<>> => queue[Len(queue)].width > 3
        /\ high' = high + 1
        /\ queue' = Append(queue, Element(high', 2))
     \/ /\ queue # <<>> /\ queue[Len(queue)].width <= 3
        /\ UNCHANGED <<queue, high>>
  /\ lim' = lim + 1
  /\ pc' = "print"
  /\ UNCHANGED <<low, height, nflag, out>>

AppendBase ==
  /\ pc = "append"
  /\ \/ /\ queue # <<>> => queue[Len(queue)].width > 2
        /\ high' = high + 1
        /\ queue' = Append(queue, Element(high', 2))
     \/ /\ queue # <<>> /\ queue[Len(queue)].width <= 2
        /\ UNCHANGED <<queue, high>>
  /\ lim' = lim + 1
  /\ pc' = "print"
  /\ UNCHANGED <<low, height, nflag, out>>

Finish ==
  /\ pc = "print" /\ ~ Wanted
  /\ queue' = <<>>
  /\ pc' = "done"
  /\ UNCHANGED <<low, high, height, lim, nflag, out>>

(* An allocation of this pass fails: exit, or the jump back to main, which  *)
(* exits.  What the interrupted statement left behind is not used again.   *)
Fail ==
  /\ \/ pc = "print" /\ Wanted
     \/ pc = "update"
     \/ pc = "append"
  /\ pc' = "failed"
  /\ UNCHANGED <<queue, low, high, height, lim, nflag, out>>

Next == PrintLine \/ Update \/ AppendBase \/ Finish \/ Fail

Spec == Init /\ [][Next]_vars

-----------------------------------------------------------------------------
(* Properties                                                              *)

Printed(x, y) == \E k \in 1 .. Len(out) : out[k].x = x /\ out[k].y = y

(* Between two lines the queue is the frontier of what was printed: of the *)
(* bases below low everything, of a base in the queue everything below its *)
(* width, of the bases above high nothing.  The base of an element is      *)
(* known only by its position, its value was computed some lines ago and   *)
(* the element is removed and appended by two other tests.                 *)
Frontier ==
  pc = "print" =>
    /\ Len(queue) = high - low + 1 /\ Len(queue) >= 1
    /\ \A k \in 1 .. Len(queue) :
         /\ queue[k].width \in 2 .. low + k - 1
         /\ queue[k].val = pbw(low + k - 1, queue[k].width)
    /\ \A x \in 2 .. high + 1 : \A y \in 2 .. x :
         Printed(x, y) <=>
           x < low \/ (x <= high /\ y < queue[x - low + 1].width)

(* leyland.1: the program prints the Leyland numbers in ascending order,   *)
(* all of them, although it keeps one candidate of each base and adds a    *)
(* base only when the one before it has moved on.                          *)
Sorted == INSTANCE LeylandNumbers
Enumerates == Sorted!Spec

(* leyland.1: with -l N it prints the N first Leyland numbers.             *)
LimitKept == pc = "done" => Len(out) = nflag
=============================================================================
