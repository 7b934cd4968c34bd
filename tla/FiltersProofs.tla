--------------------------- MODULE FiltersProofs ---------------------------
(* The lines that the filters read, of whatever length and with whatever    *)
(* buffer: proofs about LineInput, as Filters composes it with the programs. *)
(* Then the product check, the numbers that zsets makes of the lines, and   *)
(* the texts that zstr makes of numbers, of whatever length.                *)
EXTENDS Filters, PowersOfTwo, SequenceTheorems

-----------------------------------------------------------------------------
(* The buffer for a line and what nalread knows of it.                      *)

(* Min is the least element of a set that has elements.                     *)
LEMMA MinIs ==
  ASSUME NEW S \in SUBSET Nat, S # {}
  PROVE  Min(S) \in S /\ \A y \in S : Min(S) <= y
<1>1. \E x \in S : \A y \in S : x <= y
  BY Least
<1>2. Min(S) = CHOOSE x \in S : \A y \in S : x <= y
  BY DEF Min
<1>. QED
  BY <1>1, <1>2

Buffers ==
  /\ run \in Runs /\ stdin \in Seq(Character) /\ line \in Seq(Int)
  /\ read \in [pos : Nat, len : Nat, res : Nat] /\ read.res <= read.len
  /\ line = <<>> \/ Len(line) >= 5
  /\ at \in {"fgets", "inspect", "grow", "callback"} => line # <<>>
  /\ at = "fgets" => read.len >= 2 /\ read.pos + read.len <= Len(line)
  /\ at \in {"inspect", "grow"} => read.pos + read.res <= Len(line)

(* No program has a buffer for lines when it begins.                       *)
LEMMA InitBuffers == Init => Buffers
  BY RunsAssumption DEF Init, Buffers, AtRest

(* A piece is at least a character and leaves room for a NUL; strnlen finds *)
(* its length, or less.                                                     *)
LEMMA PieceSize ==
  ASSUME stdin \in Seq(Character), stdin # <<>>, read.len \in Nat, read.len >= 2
  PROVE  /\ PieceLength \in 1 .. read.len - 1 /\ PieceLength \in 1 .. Len(stdin)
         /\ \A i \in 1 .. PieceLength - 1 : stdin[i] # NL
         /\ \/ PieceLength = read.len - 1
            \/ PieceLength = Len(stdin)
            \/ stdin[PieceLength] = NL
<1>. DEFINE S == { read.len - 1, Len(stdin) } \cup { i \in DOMAIN stdin : stdin[i] = NL }
<1>1. S \in SUBSET Nat /\ S # {} /\ \A i \in S : i >= 1
  OBVIOUS
<1>2. PieceLength = Min(S)
  BY DEF PieceLength
<1>3. Min(S) \in S /\ \A i \in S : Min(S) <= i
  BY <1>1, MinIs
<1>4. DOMAIN stdin = 1 .. Len(stdin) /\ Len(stdin) \in Nat /\ Len(stdin) >= 1
  OBVIOUS
<1>5. /\ Min(S) \in Nat /\ Min(S) >= 1 /\ Min(S) <= read.len - 1 /\ Min(S) <= Len(stdin)
      /\ \/ Min(S) = read.len - 1
         \/ Min(S) = Len(stdin)
         \/ stdin[Min(S)] = NL
  BY <1>1, <1>3
<1>6. ASSUME NEW i \in 1 .. Min(S) - 1 PROVE stdin[i] # NL
  <2>1. i \in DOMAIN stdin /\ ~ (Min(S) <= i)
    BY <1>4, <1>5
  <2>. QED
    BY <1>3, <2>1
<1>. HIDE DEF S
<1>. QED
  BY <1>2, <1>4, <1>5, <1>6

(* strnlen finds the first NUL, or none.                                    *)
FirstNul(cells, pos, n, k) ==
  /\ k \in 0 .. n
  /\ \A i \in 0 .. k - 1 : cells[pos + i + 1] # NUL
  /\ k = n \/ cells[pos + k + 1] = NUL

(* strnlen finds the first NUL, if there is one in so many characters.     *)
LEMMA StrnlenIs ==
  ASSUME NEW cells, NEW pos \in Nat, NEW n \in Nat
  PROVE  FirstNul(cells, pos, n, Strnlen(cells, pos, n))
<1>. DEFINE S == {n} \cup { i \in 0 .. n - 1 : cells[pos + i + 1] = NUL }
<1>1. S \in SUBSET Nat /\ n \in S /\ \A i \in S : i <= n
  OBVIOUS
<1>2. Strnlen(cells, pos, n) = Min(S)
  BY DEF Strnlen
<1>3. Min(S) \in S /\ \A i \in S : Min(S) <= i
  BY <1>1, MinIs
<1>4. Min(S) \in 0 .. n
  BY <1>1, <1>3
<1>5. Min(S) = n \/ cells[pos + Min(S) + 1] = NUL
  BY <1>3
<1>6. ASSUME NEW i \in 0 .. Min(S) - 1 PROVE cells[pos + i + 1] # NUL
  <2>1. i \in 0 .. n - 1 /\ ~ (Min(S) <= i)
    BY <1>4
  <2>. QED
    BY <1>3, <2>1
<1>. HIDE DEF S
<1>7. FirstNul(cells, pos, n, Min(S))
  BY <1>4, <1>5, <1>6 DEF FirstNul
<1>. QED
  BY <1>2, <1>7

(* A cell of the buffer can hold every character.                          *)
LEMMA CharacterInt == Character \subseteq Int
  BY DEF Character, Digit, NL, Letter, Minus, Plus, NUL

(* What is left of a sequence after a piece.                                *)
LEMMA Remainder ==
  ASSUME NEW S, NEW s \in Seq(S), NEW n \in 1 .. Len(s)
  PROVE  LET t == SubSeq(s, n + 1, Len(s)) IN
         /\ t \in Seq(S) /\ Len(t) = Len(s) - n
         /\ \A i \in 1 .. Len(t) : t[i] = s[n + i]
<1>. DEFINE t == SubSeq(s, n + 1, Len(s))
<1>1. Len(s) \in Nat /\ Len(t) = Len(s) - n /\ t \in Seq(S)
  OBVIOUS
<1>2. \A i \in 1 .. Len(t) : t[i] = s[n + 1 + i - 1]
  BY <1>1
<1>3. \A i \in 1 .. Len(t) : n + 1 + i - 1 = n + i
  BY <1>1
<1>. QED
  BY <1>1, <1>2, <1>3

(* fgets stores a piece of the stream and a NUL, and the rest is left.      *)
Piece == PieceLength
Fetched ==
  /\ Piece \in 1 .. Len(stdin) /\ read.pos + Piece + 1 <= Len(line)
  /\ line' \in Seq(Int) /\ Len(line') = Len(line)
  /\ \A i \in 1 .. Len(line) :
       line'[i] = IF i \in read.pos + 1 .. read.pos + Piece THEN stdin[i - read.pos]
                  ELSE IF i = read.pos + Piece + 1 THEN NUL ELSE line[i]
  /\ stdin' \in Seq(Character) /\ Len(stdin') = Len(stdin) - Piece
  /\ \A i \in 1 .. Len(stdin') : stdin'[i] = stdin[Piece + i]
  /\ read' \in [pos : Nat, len : Nat, res : Nat]
  /\ read'.pos = read.pos /\ read'.len = read.len
  /\ read'.res = Strnlen(line', read.pos, read.len)
  /\ read'.res <= read.len

(* fgets moves the next piece of the input into the buffer, with a NUL     *)
(* after it.                                                               *)
LEMMA FgetsFetches ==
  ASSUME Buffers, Fgets, stdin # <<>>
  PROVE  Fetched
<1>. DEFINE pos == read.pos
            n == Piece
            cells == Append(SubSeq(stdin, 1, n), NUL)
<1>1. /\ stdin \in Seq(Character) /\ line \in Seq(Int) /\ at = "fgets"
      /\ read \in [pos : Nat, len : Nat, res : Nat]
      /\ read.len >= 2 /\ read.pos + read.len <= Len(line)
  BY DEF Buffers, Fgets
<1>2. n \in 1 .. read.len - 1 /\ n \in 1 .. Len(stdin)
  BY <1>1, PieceSize DEF Piece
<1>3. /\ line' = Stored(line, pos + 1, cells)
      /\ read' = [read EXCEPT !.res = Strnlen(line', pos, read.len)]
      /\ stdin' = SubSeq(stdin, n + 1, Len(stdin))
  BY DEF Fgets, Piece
<1>4. /\ Len(cells) = n + 1 /\ cells[n + 1] = NUL
      /\ \A i \in 1 .. n : cells[i] = stdin[i]
  BY <1>1, <1>2
<1>5. \A i \in 1 .. n : stdin[i] \in Int
  <2>1. \A i \in 1 .. n : stdin[i] \in Character
    <3>1. \A i \in 1 .. n : i \in 1 .. Len(stdin)
      BY <1>2
    <3>. QED
      BY <1>1, <3>1
  <2>. QED
    BY <2>1, CharacterInt
<1>. HIDE DEF cells
<1>6. /\ pos \in Nat /\ n \in Nat /\ n >= 1 /\ pos + n + 1 <= Len(line) /\ Len(line) \in Nat
      /\ DOMAIN line = 1 .. Len(line)
  <2>1. pos \in Nat /\ read.len \in Nat
    BY <1>1
  <2>2. Len(line) \in Nat /\ DOMAIN line = 1 .. Len(line) /\ pos + read.len <= Len(line)
    BY <1>1
  <2>3. n \in 1 .. read.len - 1
    BY <1>2
  <2>. HIDE DEF pos, n
  <2>. QED
    BY <2>1, <2>2, <2>3
<1>7. line' = [i \in 1 .. Len(line) |->
                 IF i \in pos + 1 .. pos + 1 + Len(cells) - 1 THEN cells[i - (pos + 1) + 1]
                 ELSE line[i]]
  BY <1>3, <1>6 DEF Stored
<1>8. ASSUME NEW i \in 1 .. Len(line)
      PROVE  /\ line'[i] \in Int
             /\ line'[i] = IF i \in pos + 1 .. pos + n THEN stdin[i - pos]
                           ELSE IF i = pos + n + 1 THEN NUL ELSE line[i]
  <2>. HIDE DEF pos, n
  <2>1. line'[i] = IF i \in pos + 1 .. pos + n + 1 THEN cells[i - pos] ELSE line[i]
    <3>1. pos + 1 + Len(cells) - 1 = pos + n + 1 /\ i - (pos + 1) + 1 = i - pos
      BY <1>4, <1>6
    <3>. QED
      BY <1>7, <3>1
  <2>2. CASE i \in pos + 1 .. pos + n
    <3>1. i - pos \in 1 .. n /\ i \in pos + 1 .. pos + n + 1
      BY <1>6, <2>2
    <3>. QED
      BY <1>4, <1>5, <2>1, <2>2, <3>1
  <2>3. CASE i = pos + n + 1
    <3>1. i - pos = n + 1 /\ i \in pos + 1 .. pos + n + 1 /\ i \notin pos + 1 .. pos + n
      BY <1>6, <2>3
    <3>. QED
      BY <1>4, <2>1, <2>3, <3>1 DEF NUL
  <2>4. CASE i \notin pos + 1 .. pos + n /\ i # pos + n + 1
    <3>1. i \notin pos + 1 .. pos + n + 1
      BY <1>6, <2>4
    <3>. QED
      BY <1>1, <2>1, <2>4, <3>1
  <2>. QED
    BY <2>2, <2>3, <2>4
<1>9. line' \in Seq(Int) /\ Len(line') = Len(line)
  BY <1>6, <1>7, <1>8
<1>10. /\ stdin' \in Seq(Character) /\ Len(stdin') = Len(stdin) - n
       /\ \A i \in 1 .. Len(stdin') : stdin'[i] = stdin[n + i]
  BY <1>1, <1>2, <1>3, Remainder
<1>11. Strnlen(line', pos, read.len) \in 0 .. read.len
  BY <1>1, StrnlenIs DEF FirstNul
<1>12. /\ read' \in [pos : Nat, len : Nat, res : Nat]
       /\ read'.pos = pos /\ read'.len = read.len
       /\ read'.res = Strnlen(line', pos, read.len) /\ read'.res <= read.len
  <2>. DEFINE r == Strnlen(line', pos, read.len)
  <2>1. r \in Nat /\ r <= read.len
    BY <1>1, <1>11
  <2>2. read' = [read EXCEPT !.res = r]
    BY <1>3
  <2>. HIDE DEF r
  <2>3. /\ read' \in [pos : Nat, len : Nat, res : Nat]
        /\ read'.pos = pos /\ read'.len = read.len /\ read'.res = r
    BY <1>1, <2>1, <2>2
  <2>. QED
    BY <2>1, <2>3 DEF r
<1>. QED
  BY <1>2, <1>6, <1>8, <1>9, <1>10, <1>12 DEF Fetched

(* The buffer grows and keeps what it has.                                  *)
Grown ==
  /\ line' \in Seq(Int) /\ Len(line') = 2 * Len(line)
  /\ \A i \in 1 .. Len(line) : line'[i] = line[i]
  /\ read' \in [pos : Nat, len : Nat, res : Nat]
  /\ read'.pos = read.pos + read.res /\ read'.len = 2 * Len(line) - read'.pos
  /\ read'.res = read.res

(* The buffer doubles and keeps what was read, or is lost and ends the     *)
(* input.                                                                  *)
LEMMA GrowLineGrows ==
  ASSUME Buffers, GrowLine
  PROVE  /\ stdin' = stdin
         /\ \/ at' = "fgets" /\ Grown
            \/ at' = "end" /\ line' = <<>> /\ read' = read
<1>1. /\ line \in Seq(Int) /\ at = "grow" /\ Len(line) \in Nat /\ Len(line) >= 5
      /\ read \in [pos : Nat, len : Nat, res : Nat] /\ read.pos + read.res <= Len(line)
  BY DEF Buffers, GrowLine
<1>2. CASE /\ stdin' = stdin /\ at' = "fgets"
           /\ line' = Sized(2 * Len(line), line)
           /\ read' = [read EXCEPT !.pos = read.pos + read.res,
                                   !.len = 2 * Len(line) - (read.pos + read.res)]
  <2>1. /\ line' = [i \in 1 .. 2 * Len(line) |-> IF i <= Len(line) THEN line[i] ELSE Unset]
        /\ Unset \in Int
    BY <1>2 DEF Sized, Unset
  <2>2. line' \in Seq(Int) /\ Len(line') = 2 * Len(line)
    BY <1>1, <2>1
  <2>3. \A i \in 1 .. Len(line) : line'[i] = line[i]
    BY <1>1, <2>1
  <2>4. /\ read.pos + read.res \in Nat /\ 2 * Len(line) - (read.pos + read.res) \in Nat
    BY <1>1
  <2>5. /\ read' \in [pos : Nat, len : Nat, res : Nat]
        /\ read'.pos = read.pos + read.res /\ read'.len = 2 * Len(line) - (read.pos + read.res)
        /\ read'.res = read.res
    BY <1>1, <1>2, <2>4
  <2>. QED
    BY <1>2, <2>2, <2>3, <2>5 DEF Grown
<1>. QED
  BY <1>2 DEF GrowLine

(* The steps of the reading.                                                *)
LEMMA ReadBuffers ==
  ASSUME Buffers, ReadLines, UNCHANGED progVars
  PROVE  Buffers'
<1>1. run' = run
  BY DEF progVars
<1>2. CASE AllocateLine
  <2>1. line' \in Seq(Int) /\ (line' = <<>> \/ Len(line') >= 5)
    <3>1. [i \in 1 .. Bufsiz |-> NUL] \in Seq(Int) /\ Len([i \in 1 .. Bufsiz |-> NUL]) = Bufsiz
      BY BufsizAssumption DEF NUL
    <3>. DEFINE cells == [i \in 1 .. Bufsiz |-> NUL]
    <3>2. line' = cells \/ line' = <<>>
      BY <1>2 DEF AllocateLine
    <3>. HIDE DEF cells
    <3>3. cells \in Seq(Int) /\ Len(cells) >= 5
      BY <3>1, BufsizAssumption DEF cells
    <3>4. CASE line' = cells
      BY <3>3, <3>4
    <3>5. CASE line' = <<>>
      BY <3>5
    <3>. QED
      BY <3>2, <3>4, <3>5
  <2>. QED
    BY <1>1, <1>2, <2>1 DEF AllocateLine, Buffers
<1>3. CASE Nalread
  <2>1. CASE line = <<>>
    BY <1>1, <1>3, <2>1 DEF Nalread, Buffers
  <2>2. CASE line # <<>>
    <3>1. /\ read' = [pos |-> 0, len |-> (Len(line) - 1) \div 2, res |-> 0] /\ at' = "fgets"
          /\ UNCHANGED <<stdin, line>> /\ Len(line) \in Nat /\ Len(line) >= 5
      BY <1>3, <2>2 DEF Nalread, Buffers
    <3>. DEFINE n == (Len(line) - 1) \div 2
    <3>2. n \in Nat /\ n >= 2 /\ n <= Len(line)
      BY <3>1
    <3>. HIDE DEF n
    <3>3. /\ read' \in [pos : Nat, len : Nat, res : Nat]
          /\ read'.pos = 0 /\ read'.len = n /\ read'.res = 0
      BY <3>1, <3>2 DEF n
    <3>. QED
      BY <1>1, <2>2, <3>1, <3>2, <3>3 DEF Buffers
  <2>. QED
    BY <2>1, <2>2
<1>4. CASE Fgets
  <2>1. CASE stdin = <<>>
    BY <1>1, <1>4, <2>1 DEF Fgets, lineVars, Returned, Buffers
  <2>2. CASE stdin # <<>>
    <3>1. Fetched /\ at' = "inspect" /\ at = "fgets"
      BY <1>4, <2>2, FgetsFetches DEF Fgets
    <3>2. /\ read.pos + read.len <= Len(line) /\ read.pos \in Nat /\ read.len \in Nat
          /\ Len(line) \in Nat
      BY <3>1 DEF Buffers
    <3>3. /\ read'.pos = read.pos /\ read'.res <= read.len /\ read'.res \in Nat
          /\ Len(line') = Len(line) /\ line' # <<>> /\ Len(line') >= 5
      BY <3>1 DEF Buffers, Fetched
    <3>4. read'.pos + read'.res <= Len(line')
      BY <3>2, <3>3
    <3>. QED
      BY <1>1, <3>1, <3>3, <3>4 DEF Buffers, Fetched
  <2>. QED
    BY <2>1, <2>2
<1>5. CASE Inspect
  <2>1. at = "inspect" /\ UNCHANGED lineVars /\ at' \in {"callback", "end", "grow"}
    BY <1>5 DEF Inspect, Returned
  <2>. QED
    BY <1>1, <2>1 DEF lineVars, Buffers
<1>6. CASE GrowLine
  <2>1. /\ stdin' = stdin /\ at = "grow"
        /\ \/ at' = "fgets" /\ Grown
           \/ at' = "end" /\ line' = <<>> /\ read' = read
    BY <1>6, GrowLineGrows DEF GrowLine
  <2>2. CASE at' = "fgets" /\ Grown
    <3>1. /\ Len(line) \in Nat /\ Len(line) >= 5 /\ read.res \in Nat /\ read.pos \in Nat
          /\ read.pos + read.res <= Len(line)
      BY <2>1 DEF Buffers
    <3>2. /\ read'.pos = read.pos + read.res /\ read'.len = 2 * Len(line) - read'.pos
          /\ read'.res = read.res /\ Len(line') = 2 * Len(line) /\ line' \in Seq(Int)
      BY <2>2 DEF Grown
    <3>3. /\ read'.len >= 2 /\ read'.pos + read'.len <= Len(line')
          /\ read'.res <= read'.len /\ Len(line') >= 5
      <4>. DEFINE L == Len(line)
                  q == read.pos + read.res
      <4>1. L \in Nat /\ L >= 5 /\ q \in Nat /\ q <= L /\ read.res <= q /\ read.res \in Nat
        BY <3>1
      <4>2. /\ read'.pos = q /\ read'.len = 2 * L - q /\ read'.res = read.res
            /\ Len(line') = 2 * L
        BY <3>2
      <4>. HIDE DEF L, q
      <4>. QED
        BY <4>1, <4>2
    <3>4. line' # <<>>
      BY <3>2, <3>3
    <3>. QED
      BY <1>1, <2>1, <2>2, <3>3, <3>4 DEF Buffers, Grown
  <2>3. CASE at' = "end" /\ line' = <<>> /\ read' = read
    BY <1>1, <2>1, <2>3 DEF Buffers
  <2>. QED
    BY <2>1, <2>2, <2>3
<1>. QED
  BY <1>2, <1>3, <1>4, <1>5, <1>6 DEF ReadLines

(* The callbacks leave the buffer alone, and come back to "read".           *)
LEMMA CallbackKeeps ==
  ASSUME Callback
  PROVE  /\ UNCHANGED <<lineVars, run, args, seen>>
         /\ at \in {"parse", "compute", "print", "show", "groups", "shown"}
         /\ \/ at' \in {"parse", "compute", "print", "show", "groups", "shown", "exit"}
            \/ at' = IF run.args = <<>> THEN "read" ELSE "args"
<1>1. CASE Parse
  BY <1>1 DEF Parse, Back, Goto
<1>2. CASE ParseFails
  BY <1>2 DEF ParseFails, Failure, Exit
<1>3. CASE Compute
  BY <1>3 DEF Compute, Back, Goto
<1>4. CASE ComputeFails
  BY <1>4 DEF ComputeFails, Failure, Exit
<1>5. CASE GrowResult
  BY <1>5 DEF GrowResult, Failure, Exit, Goto
<1>6. CASE Zstr
  BY <1>6 DEF Zstr, Failure, Exit, Goto
<1>7. CASE NextGroup
  BY <1>7 DEF NextGroup, Failure, Exit, Goto
<1>8. CASE PrintText
  BY <1>8 DEF PrintText, Back, Goto
<1>9. CASE PrintFails
  BY <1>9 DEF PrintFails, Failure, Exit
<1>. QED
  BY <1>1, <1>2, <1>3, <1>4, <1>5, <1>6, <1>7, <1>8, <1>9 DEF Callback

(* Every step of a program leaves the buffer and the read position         *)
(* consistent.                                                             *)
LEMMA NextBuffers ==
  ASSUME Buffers, [Next]_vars
  PROVE  Buffers'
<1>1. CASE Start
  BY <1>1 DEF Start, Failure, Exit, Goto, lineVars, Buffers
<1>2. CASE NextArgument
  BY <1>2 DEF NextArgument, Goto, lineVars, Buffers
<1>3. CASE NextLine
  BY <1>3 DEF NextLine, Goto, lineVars, Buffers
<1>4. CASE Finish
  BY <1>4 DEF Finish, Exit, Buffers
<1>5. CASE Callback
  <2>1. /\ at' \notin {"fgets", "inspect", "grow", "callback"}
        /\ UNCHANGED <<stdin, line, read, run>>
    BY <1>5, CallbackKeeps DEF lineVars
  <2>. QED
    BY <2>1 DEF Buffers
<1>6. CASE ReadLines /\ UNCHANGED progVars
  BY <1>6, ReadBuffers
<1>7. CASE UNCHANGED vars
  BY <1>7 DEF vars, Buffers
<1>. QED
  BY <1>1, <1>2, <1>3, <1>4, <1>5, <1>6, <1>7 DEF Next

(* What the buffer for a line is at each place of nalread, for lines of    *)
(* any length and a buffer of any size.                                    *)
THEOREM Buffered == Spec => []Buffers
<1>. QED
  BY InitBuffers, NextBuffers, PTL DEF Spec

(* However long a line is, and however often the buffer doubled, fgets is    *)
(* never told of more room than there is behind what was read before, and   *)
(* always of some.                                                          *)
THEOREM WithinLineAlways == Spec => []WithinLine
<1>1. Buffers => WithinLine
  BY DEF Buffers, WithinLine
<1>. QED
  BY <1>1, Buffered, PTL

-----------------------------------------------------------------------------
(* The lines of an input: their ends, and how many there are up to a place. *)
Total(s)         == Cardinality(LineEnds(s))
CountTo(s, n)    == Cardinality(EndsUpTo(s, n))
LineBegins(s, p) == p = 0 \/ s[p] = NL   \* a line begins behind p characters

(* A line ends at a character, or behind the last one.                      *)
LEMMA EndsAre ==
  ASSUME NEW s \in Seq(Character)
  PROVE  /\ Len(s) \in Nat
         /\ \A e \in LineEnds(s) : e \in 1 .. Len(s) + 1
         /\ \A e \in 1 .. Len(s) : e \in LineEnds(s) <=> s[e] = NL
         /\ Len(s) + 1 \in LineEnds(s) <=> ~ LineBegins(s, Len(s))
<1>. DEFINE ends == { i \in DOMAIN s : s[i] = NL }
            rest == IF s = <<>> \/ Last(s) = NL THEN {} ELSE {Len(s) + 1}
<1>1. LineEnds(s) = ends \cup rest
  BY DEF LineEnds
<1>2. Len(s) \in Nat /\ DOMAIN s = 1 .. Len(s) /\ (s = <<>> <=> Len(s) = 0)
  OBVIOUS
<1>3. \A e : e \in ends <=> e \in 1 .. Len(s) /\ s[e] = NL
  BY <1>2
<1>4. \A e : e \in rest <=> e = Len(s) + 1 /\ ~ LineBegins(s, Len(s))
  BY <1>2 DEF Last, LineBegins
<1>. HIDE DEF ends, rest
<1>5. \A e \in LineEnds(s) : e \in 1 .. Len(s) + 1
  BY <1>1, <1>2, <1>3, <1>4
<1>6. \A e \in 1 .. Len(s) : e \in LineEnds(s) <=> s[e] = NL
  BY <1>1, <1>2, <1>3, <1>4
<1>7. Len(s) + 1 \in LineEnds(s) <=> ~ LineBegins(s, Len(s))
  BY <1>1, <1>2, <1>3, <1>4
<1>. QED
  BY <1>2, <1>5, <1>6, <1>7

(* They can be counted.                                                     *)
LEMMA EndsFinite ==
  ASSUME NEW s \in Seq(Character), NEW n \in Int
  PROVE  /\ IsFiniteSet(LineEnds(s)) /\ IsFiniteSet(EndsUpTo(s, n))
         /\ CountTo(s, n) \in Nat /\ Total(s) \in Nat /\ CountTo(s, n) <= Total(s)
<1>1. IsFiniteSet(1 .. Len(s) + 1) /\ LineEnds(s) \in SUBSET (1 .. Len(s) + 1)
  BY EndsAre, FS_Interval
<1>2. IsFiniteSet(LineEnds(s)) /\ EndsUpTo(s, n) \in SUBSET LineEnds(s)
  BY <1>1, FS_Subset DEF EndsUpTo
<1>3. IsFiniteSet(EndsUpTo(s, n)) /\ Cardinality(EndsUpTo(s, n)) <= Cardinality(LineEnds(s))
  BY <1>2, FS_Subset
<1>. QED
  BY <1>2, <1>3, FS_CardinalityType DEF CountTo, Total

(* An input has a number of lines.                                         *)
LEMMA TotalIs ==
  ASSUME NEW s \in Seq(Character)
  PROVE  Total(s) \in Nat
<1>1. 0 \in Int
  OBVIOUS
<1>. QED
  BY <1>1, EndsFinite

(* No end is before the begin of a text, none behind all its ends.          *)
LEMMA CountExtremes ==
  ASSUME NEW s \in Seq(Character)
  PROVE  /\ CountTo(s, 0) = 0 /\ CountTo(s, Len(s) + 1) = Total(s)
         /\ LineBegins(s, Len(s)) => CountTo(s, Len(s)) = Total(s)
<1>1. EndsUpTo(s, 0) = {}
  BY EndsAre DEF EndsUpTo
<1>2. EndsUpTo(s, Len(s) + 1) = LineEnds(s)
  BY EndsAre DEF EndsUpTo
<1>3. ASSUME LineBegins(s, Len(s)) PROVE EndsUpTo(s, Len(s)) = LineEnds(s)
  <2>1. Len(s) + 1 \notin LineEnds(s)
    BY <1>3, EndsAre
  <2>2. \A e \in LineEnds(s) : e \in 1 .. Len(s) + 1 /\ e # Len(s) + 1 /\ Len(s) \in Nat
    BY <2>1, EndsAre
  <2>3. \A e \in LineEnds(s) : e <= Len(s)
    BY <2>2
  <2>. QED
    BY <2>3 DEF EndsUpTo
<1>. QED
  BY <1>1, <1>2, <1>3, FS_EmptySet DEF CountTo, Total

(* The next end is one more.                                                *)
LEMMA CountNext ==
  ASSUME NEW s \in Seq(Character), NEW p \in Nat, NEW e \in LineEnds(s), p < e,
         \A i \in LineEnds(s) : ~ (p < i /\ i < e)
  PROVE  CountTo(s, e) = CountTo(s, p) + 1
<1>1. \A i \in LineEnds(s) : i \in Int
  BY EndsAre
<1>2. EndsUpTo(s, e) = EndsUpTo(s, p) \cup {e} /\ e \notin EndsUpTo(s, p)
  <2>1. \A i \in LineEnds(s) : i <= e <=> i <= p \/ i = e
    BY <1>1
  <2>. QED
    BY <1>1, <2>1 DEF EndsUpTo
<1>3. p \in Int
  OBVIOUS
<1>4. IsFiniteSet(EndsUpTo(s, p))
  BY <1>3, EndsFinite
<1>5. Cardinality(EndsUpTo(s, p) \cup {e}) = Cardinality(EndsUpTo(s, p)) + 1
  BY <1>2, <1>4, FS_AddElement
<1>. QED
  BY <1>2, <1>5 DEF CountTo

(* Every end has a number of its own.                                       *)
LEMMA EndHasNumber ==
  ASSUME NEW s \in Seq(Character), NEW e \in LineEnds(s)
  PROVE  LineEnd(s, CountTo(s, e)) = e
<1>. DEFINE Same(d) == d \in LineEnds(s) /\ Cardinality(EndsUpTo(s, d)) = CountTo(s, e)
<1>1. Same(e)
  BY DEF CountTo
<1>2. ASSUME NEW d, Same(d) PROVE d = e
  <2>1. d \in Int /\ e \in Int /\ d \in LineEnds(s) /\ LineEnds(s) \subseteq Int
    BY <1>2, EndsAre
  <2>2. IsFiniteSet(EndsUpTo(s, d)) /\ IsFiniteSet(EndsUpTo(s, e))
    BY <2>1, EndsFinite
  <2>3. Cardinality(EndsUpTo(s, d)) = Cardinality(EndsUpTo(s, e))
    BY <1>2 DEF CountTo
  <2>4. CASE d < e
    <3>1. EndsUpTo(s, d) \in SUBSET EndsUpTo(s, e)
      BY <2>1, <2>4 DEF EndsUpTo
    <3>2. EndsUpTo(s, e) = EndsUpTo(s, d)
      BY <2>2, <2>3, <3>1, FS_Subset
    <3>3. e \in EndsUpTo(s, e) /\ e \notin EndsUpTo(s, d)
      BY <2>1, <2>4 DEF EndsUpTo
    <3>. QED
      BY <3>2, <3>3
  <2>5. CASE e < d
    <3>1. EndsUpTo(s, e) \in SUBSET EndsUpTo(s, d)
      BY <2>1, <2>5 DEF EndsUpTo
    <3>2. EndsUpTo(s, d) = EndsUpTo(s, e)
      BY <2>2, <2>3, <3>1, FS_Subset
    <3>3. d \in EndsUpTo(s, d) /\ d \notin EndsUpTo(s, e)
      BY <2>1, <2>5 DEF EndsUpTo
    <3>. QED
      BY <3>2, <3>3
  <2>. QED
    BY <2>1, <2>4, <2>5
<1>3. LineEnd(s, CountTo(s, e)) = CHOOSE d : Same(d)
  BY DEF LineEnd
<1>. HIDE DEF Same
<1>4. Same(CHOOSE d : Same(d))
  BY <1>1
<1>. QED
  BY <1>2, <1>3, <1>4

(* The line behind p characters is the one with the next number, and is all *)
(* that is before its end.                                                  *)
LEMMA NextLineIs ==
  ASSUME NEW s \in Seq(Character), NEW p \in Nat, NEW e \in LineEnds(s), p < e, p <= Len(s),
         LineBegins(s, p), \A i \in LineEnds(s) : ~ (p < i /\ i < e)
  PROVE  /\ CountTo(s, e) = CountTo(s, p) + 1
         /\ CountTo(s, p) + 1 <= Len(Lines(s))
         /\ Lines(s)[CountTo(s, p) + 1] = SubSeq(s, p + 1, e - 1)
<1>. DEFINE k == CountTo(s, p) + 1
            N == Total(s)
<1>1. CountTo(s, e) = k /\ CountTo(s, p) \in Nat /\ N \in Nat /\ k <= N
  <2>1. e \in Int /\ p \in Int
    BY EndsAre
  <2>2. CountTo(s, p) \in Nat /\ N \in Nat /\ CountTo(s, e) <= N
    BY <2>1, EndsFinite
  <2>3. CountTo(s, e) = CountTo(s, p) + 1
    BY CountNext
  <2>. QED
    BY <2>2, <2>3
<1>2. LineEnd(s, k) = e
  BY <1>1, EndHasNumber
<1>3. LineStart(s, k) = p + 1
  <2>1. CASE p = 0
    <3>1. k = 1
      BY <1>1, <2>1, CountExtremes
    <3>. QED
      BY <2>1, <3>1 DEF LineStart
  <2>2. CASE p # 0
    <3>1. p \in LineEnds(s)
      <4>1. p \in 1 .. Len(s) /\ s[p] = NL
        BY <2>2, EndsAre DEF LineBegins
      <4>. QED
        BY <4>1, EndsAre
    <3>2. p \in EndsUpTo(s, p)
      BY <3>1 DEF EndsUpTo
    <3>3. CountTo(s, p) # 0
      BY <3>2, EndsFinite, FS_EmptySet DEF CountTo
    <3>4. k # 1 /\ k - 1 = CountTo(s, p)
      BY <1>1, <3>3
    <3>. HIDE DEF k
    <3>5. LineStart(s, k) = LineEnd(s, CountTo(s, p)) + 1
      BY <3>4 DEF LineStart
    <3>. QED
      BY <3>1, <3>5, EndHasNumber
  <2>. QED
    BY <2>1, <2>2
<1>. HIDE DEF k
<1>4. Lines(s) = [j \in 1 .. N |-> SubSeq(s, LineStart(s, j), LineEnd(s, j) - 1)]
  BY DEF Lines, Total
<1>5. Len(Lines(s)) = N
  BY <1>1, <1>4
<1>6. k \in 1 .. N
  BY <1>1 DEF k
<1>7. Lines(s)[k] = SubSeq(s, LineStart(s, k), LineEnd(s, k) - 1)
  BY <1>4, <1>6
<1>. QED
  BY <1>1, <1>2, <1>3, <1>5, <1>7 DEF k

(* How far the reading has come, and where it can be between two lines.     *)
Consumed == Len(run.stdin) - Len(stdin)
BetweenLines ==
  \/ LineBegins(run.stdin, Consumed) /\ Len(seen) = CountTo(run.stdin, Consumed)
  \/ stdin = <<>> /\ Len(seen) = Total(run.stdin)

(* So many characters of the next line are in the buffer, with a NUL behind *)
(* them; only the last of them may be its end.                              *)
Got(m) ==
  /\ m \in 1 .. Consumed /\ m < Len(line) /\ line[m + 1] = NUL
  /\ \A i \in 1 .. m : line[i] = run.stdin[Consumed - m + i]
  /\ \A i \in 1 .. m - 1 : line[i] # NL
  /\ LineBegins(run.stdin, Consumed - m) /\ Len(seen) = CountTo(run.stdin, Consumed - m)

(* The callback was given the inputs one after the other; the stream is what *)
(* is left of the input; the arguments are those that are left.             *)
Fed ==
  /\ Len(seen) <= Len(Inputs) /\ \A j \in 1 .. Len(seen) : seen[j] = Inputs[j]
  /\ Len(stdin) <= Len(run.stdin)
  /\ \A i \in 1 .. Len(stdin) : stdin[i] = run.stdin[Consumed + i]

Arguments ==
  /\ Len(run.args) = Len(seen) + Len(args)
  /\ \A i \in 1 .. Len(args) : args[i] = run.args[Len(seen) + i]
  /\ at \in {"main", "args", "parse", "compute", "print", "show", "groups", "shown", "exit"}

Reading ==
  /\ at # "args"
  /\ at \in {"main", "line", "read", "parse", "compute", "print", "show", "groups", "shown"}
       => BetweenLines
  /\ at = "fgets" => \/ read.pos = 0 /\ read.res = 0 /\ BetweenLines
                     \/ Got(read.pos) /\ line[read.pos] # NL
  /\ at = "inspect" => Got(read.pos + read.res)
  /\ at = "grow" => Got(read.pos + read.res) /\ line[read.pos + read.res] # NL
  /\ at = "callback" => \E m \in 1 .. Len(line) : Got(m) /\ (line[m] = NL \/ stdin = <<>>)
  /\ at = "end" /\ line # <<>> => Len(seen) = Total(run.stdin)

InOrder ==
  /\ args \in Seq(Seq(Character)) /\ seen \in Seq(Seq(Character))
  /\ Fed
  /\ IF run.args # <<>> THEN Arguments ELSE Reading

(* What the callback is to be called with, and how often.                  *)
LEMMA InputsAre ==
  ASSUME run \in Runs
  PROVE  /\ run.stdin \in Seq(Character) /\ run.args \in Seq(Seq(Character))
         /\ run.args # <<>> => Inputs = run.args
         /\ run.args = <<>> => Inputs = Lines(run.stdin) /\ Len(Inputs) = Total(run.stdin)
<1>1. run.stdin \in Seq(Character) /\ run.args \in Seq(Seq(Character))
  BY RunsAssumption
<1>2. Total(run.stdin) \in Nat
  BY <1>1, TotalIs
<1>3. Len(Lines(run.stdin)) = Total(run.stdin)
  BY <1>2 DEF Lines, Total
<1>. QED
  BY <1>1, <1>3 DEF Inputs

(* Up to the first NUL there is a C string.                                 *)
LEMMA CStringIs ==
  ASSUME NEW cells \in Seq(Int), NEW m \in Nat, m < Len(cells), cells[m + 1] = NUL,
         \A i \in 1 .. m : cells[i] # NUL
  PROVE  CString(cells, 1) = [i \in 1 .. m |-> cells[i]]
<1>. DEFINE ends == { i \in DOMAIN cells : i >= 1 /\ cells[i] = NUL }
<1>1. ends \in SUBSET Nat /\ m + 1 \in ends /\ \A i \in ends : m + 1 <= i
  OBVIOUS
<1>2. Min(ends) \in ends /\ \A y \in ends : Min(ends) <= y
  BY <1>1, MinIs
<1>3. Min(ends) - 1 = m
  <2>1. Min(ends) \in Nat /\ Min(ends) <= m + 1 /\ m + 1 <= Min(ends)
    BY <1>1, <1>2
  <2>. HIDE DEF ends
  <2>. QED
    BY <2>1
<1>4. CString(cells, 1) = [i \in 1 .. Min(ends) - 1 |-> cells[1 + i - 1]]
  BY DEF CString
<1>. HIDE DEF ends
<1>5. \A i \in 1 .. m : 1 + i - 1 = i
  OBVIOUS
<1>. QED
  BY <1>3, <1>4, <1>5

(* Pieces of two sequences are the same if their elements are.              *)
Agree(t, s, p, n) ==
  n <= Len(t) /\ p + n <= Len(s) /\ \A i \in 1 .. n : t[i] = s[p + i]
SamePiece(t, s, p, n) == SubSeq(t, 1, n) = SubSeq(s, p + 1, p + n)

(* Two sequences that agree on so many characters have the same piece      *)
(* there.                                                                  *)
LEMMA Piecewise ==
  ASSUME NEW S, NEW T, NEW t \in Seq(S), NEW s \in Seq(T), NEW p \in Nat, NEW n \in Nat,
         Agree(t, s, p, n)
  PROVE  SamePiece(t, s, p, n)
<1>. DEFINE a == SubSeq(t, 1, n)
            b == SubSeq(s, p + 1, p + n)
<1>1. a \in Seq(S) /\ Len(a) = n /\ \A i \in 1 .. n : a[i] = t[i]
  BY DEF Agree
<1>2. b \in Seq(T) /\ Len(b) = n
  BY DEF Agree
<1>3. \A i \in 1 .. n : b[i] = s[p + i]
  <2>. TAKE i \in 1 .. n
  <2>1. b[i] = s[p + 1 + i - 1] /\ p + 1 + i - 1 = p + i
    BY DEF Agree
  <2>. QED
    BY <2>1
<1>. HIDE DEF a, b
<1>4. a = b
  BY <1>1, <1>2, <1>3, SeqEqual DEF Agree
<1>. QED
  BY <1>4 DEF a, b, SamePiece

(* No character is a NUL, and the reading follows the input.                *)
Plain == run \in Runs /\ ~ Contains(run.stdin, NUL)

(* The inputs that the theorem about lines is about.                       *)
LEMMA PlainHasNoNul ==
  ASSUME Plain
  PROVE  \A i \in 1 .. Len(run.stdin) : run.stdin[i] # NUL
  BY DEF Plain, Contains

(* When all of a line is in the buffer, or all that is left, the callback   *)
(* is given the next line.                                                  *)
LEMMA DeliversNext ==
  ASSUME Plain, Buffers, Fed, run.args = <<>>, NEW m \in Nat, Got(m), line[m] = NL \/ stdin = <<>>
  PROVE  /\ Len(seen) + 1 <= Len(Inputs) /\ Delivered = Inputs[Len(seen) + 1]
         /\ Delivered \in Seq(Character)
         /\ \/ LineBegins(run.stdin, Consumed) /\ Len(seen) + 1 = CountTo(run.stdin, Consumed)
            \/ stdin = <<>> /\ Len(seen) + 1 = Total(run.stdin)
<1>. DEFINE s == run.stdin
            c == Consumed
            p == c - m
            e == IF line[m] = NL THEN c ELSE c + 1
            n == e - 1 - p
<1>1. /\ s \in Seq(Character) /\ stdin \in Seq(Character) /\ line \in Seq(Int)
      /\ Len(s) \in Nat /\ Len(stdin) \in Nat /\ Len(line) \in Nat
      /\ Inputs = Lines(s) /\ Len(Inputs) = Total(s)
  BY InputsAre DEF Plain, Buffers
<1>2. /\ c \in 0 .. Len(s) /\ (stdin = <<>> => c = Len(s))
  BY <1>1 DEF Consumed, Fed
<1>3. /\ m \in 1 .. c /\ m < Len(line) /\ line[m + 1] = NUL
      /\ \A i \in 1 .. m : line[i] = s[p + i]
      /\ \A i \in 1 .. m - 1 : line[i] # NL
      /\ LineBegins(s, p) /\ Len(seen) = CountTo(s, p)
  BY DEF Got
<1>. HIDE DEF s, c
<1>4. /\ p \in Nat /\ p < c /\ p + m = c /\ p <= Len(s) /\ c \in Nat /\ c <= Len(s)
      /\ m \in Nat /\ m >= 1
  <2>1. Len(s) \in Nat /\ c \in 0 .. Len(s) /\ m \in 1 .. c /\ p = c - m
    BY <1>1, <1>2, <1>3
  <2>. HIDE DEF p
  <2>. QED
    BY <2>1
<1>. HIDE DEF p
<1>5. \A i \in 1 .. m : line[i] # NUL
  <2>1. \A i \in 1 .. m : p + i \in 1 .. Len(s)
    BY <1>1, <1>4
  <2>. QED
    BY <1>3, <2>1, PlainHasNoNul DEF s
<1>6. CString(line, 1) = [i \in 1 .. m |-> line[i]]
  BY <1>1, <1>3, <1>5, CStringIs
<1>7. e \in LineEnds(s) /\ p < e /\ n \in 0 .. m /\ (e = c \/ (e = Len(s) + 1 /\ c = Len(s)))
  <2>1. CASE line[m] = NL
    <3>1. s[c] = NL /\ c \in 1 .. Len(s)
      <4>1. m \in 1 .. m /\ line[m] = s[p + m]
        BY <1>3, <1>4
      <4>. QED
        BY <1>4, <2>1, <4>1
    <3>2. c \in LineEnds(s) /\ e = c
      BY <1>1, <2>1, <3>1, EndsAre
    <3>. QED
      BY <1>4, <3>2
  <2>2. CASE line[m] # NL
    <3>1. c = Len(s) /\ s[c] # NL /\ c # 0
      <4>1. c = Len(s)
        BY <1>2, <2>2
      <4>2. m \in 1 .. m /\ line[m] = s[p + m]
        BY <1>3, <1>4
      <4>. QED
        BY <1>4, <2>2, <4>1, <4>2
    <3>2. ~ LineBegins(s, Len(s))
      BY <3>1 DEF LineBegins
    <3>3. Len(s) + 1 \in LineEnds(s) /\ e = Len(s) + 1
      BY <1>1, <2>2, <3>1, <3>2, EndsAre
    <3>. QED
      BY <1>1, <1>4, <3>1, <3>3
  <2>. QED
    BY <2>1, <2>2
<1>8. \A i \in LineEnds(s) : ~ (p < i /\ i < e)
  <2>. SUFFICES ASSUME NEW i \in LineEnds(s), p < i, i < e PROVE FALSE
    OBVIOUS
  <2>1. i \in 1 .. Len(s)
    BY <1>1, <1>2, <1>7, EndsAre
  <2>2. s[i] = NL
    BY <1>1, <2>1, EndsAre
  <2>. DEFINE j == i - p
  <2>3. i <= c
    BY <1>1, <1>4, <1>7, <2>1
  <2>4. j \in 1 .. m /\ p + j = i
    BY <1>4, <2>1, <2>3
  <2>. HIDE DEF j
  <2>5. line[j] = NL
    BY <1>3, <2>2, <2>4
  <2>6. j = m
    BY <1>3, <1>4, <2>4, <2>5
  <2>7. line[m] = NL /\ i = c
    BY <1>4, <2>4, <2>5, <2>6
  <2>. QED
    BY <1>4, <2>7
<1>9. /\ CountTo(s, e) = CountTo(s, p) + 1 /\ CountTo(s, p) + 1 <= Len(Lines(s))
      /\ Lines(s)[CountTo(s, p) + 1] = SubSeq(s, p + 1, e - 1)
  <2>. HIDE DEF p, e
  <2>. QED
    BY <1>1, <1>3, <1>4, <1>7, <1>8, NextLineIs
<1>10. Delivered = SubSeq(s, p + 1, e - 1)
  <2>. DEFINE t == [i \in 1 .. m |-> line[i]]
              S == {Len(t)} \cup { i - 1 : i \in { j \in DOMAIN t : t[j] = NL } }
  <2>1. t \in Seq(Int) /\ Len(t) = m /\ DOMAIN t = 1 .. m /\ \A i \in 1 .. m : t[i] = line[i]
    <3>1. \A i \in 1 .. m : line[i] \in Int
      <4>1. \A i \in 1 .. m : i \in 1 .. Len(line)
        BY <1>1, <1>3, <1>4
      <4>. QED
        BY <1>1, <4>1
    <3>. QED
      BY <1>4, <3>1
  <2>2. S \in SUBSET Nat /\ S # {}
    <3>1. \A j \in DOMAIN t : j - 1 \in Nat
      BY <1>4, <2>1
    <3>. QED
      BY <1>4, <2>1, <3>1
  <2>3. n \in S /\ \A i \in S : n <= i
    <3>1. CASE line[m] = NL
      <4>1. n = m - 1
        BY <1>4, <3>1
      <4>2. \A j \in 1 .. m : t[j] = NL => j = m
        BY <1>3, <2>1
      <4>3. m \in { j \in DOMAIN t : t[j] = NL }
        BY <1>3, <2>1, <3>1
      <4>4. m - 1 \in S
        BY <4>3
      <4>5. \A i \in S : i = m \/ i = m - 1
        BY <2>1, <4>2
      <4>. HIDE DEF n, S
      <4>. QED
        BY <4>1, <4>4, <4>5
    <3>2. CASE line[m] # NL
      <4>1. n = m
        BY <1>4, <3>2
      <4>2. \A j \in 1 .. m : t[j] # NL
        BY <1>3, <2>1, <3>2
      <4>3. S = {m}
        BY <2>1, <4>2
      <4>. HIDE DEF n, S
      <4>. QED
        BY <1>3, <4>1, <4>3
    <3>. QED
      BY <3>1, <3>2
  <2>4. Min(S) = n
    <3>1. Min(S) \in S /\ \A y \in S : Min(S) <= y
      BY <2>2, MinIs
    <3>2. Min(S) \in Nat /\ n \in Nat
      BY <2>2, <2>3, <3>1
    <3>. HIDE DEF S, n
    <3>. QED
      BY <2>3, <3>1, <3>2
  <2>5. Delivered = SubSeq(t, 1, n)
    BY <1>6, <2>4 DEF Delivered
  <2>0. n \in 0 .. m
    BY <1>7
  <2>6. \A i \in 1 .. n : t[i] = s[p + i]
    <3>. HIDE DEF t, n
    <3>1. \A i \in 1 .. n : i \in 1 .. m
      BY <1>4, <2>0
    <3>. QED
      BY <1>3, <2>1, <3>1
  <2>7. e - 1 = p + n
    BY <1>4, <1>7
  <2>. HIDE DEF t, n, e, p
  <2>8. n \in Nat /\ n <= m /\ p + n <= Len(s)
    BY <1>4, <2>0
  <2>9. SubSeq(t, 1, n) = SubSeq(s, p + 1, p + n)
    <3>1. t \in Seq(Int) /\ s \in Seq(Character) /\ p \in Nat /\ n \in Nat
      BY <1>1, <1>4, <2>1, <2>8
    <3>2. Agree(t, s, p, n)
      BY <2>1, <2>6, <2>8 DEF Agree
    <3>3. SamePiece(t, s, p, n)
      BY <3>1, <3>2, Piecewise
    <3>. QED
      BY <3>3 DEF SamePiece
  <2>. QED
    BY <2>5, <2>7, <2>9
<1>11. SubSeq(s, p + 1, e - 1) \in Seq(Character)
  <2>1. p + 1 \in 1 .. Len(s) + 1 /\ e - 1 \in Nat /\ e - 1 <= Len(s)
    <3>1. e \in Nat /\ e >= 1 /\ e <= Len(s) + 1
      BY <1>1, <1>4, <1>7
    <3>. QED
      BY <1>1, <1>4, <3>1
  <2>. HIDE DEF p, e
  <2>. QED
    BY <1>1, <2>1
<1>12. \/ LineBegins(s, c) /\ Len(seen) + 1 = CountTo(s, c)
       \/ stdin = <<>> /\ Len(seen) + 1 = Total(s)
  <2>1. CASE line[m] = NL
    <3>1. e = c /\ s[c] = NL
      BY <1>2, <1>3, <1>4, <2>1
    <3>. HIDE DEF e
    <3>. QED
      BY <1>3, <1>9, <3>1 DEF LineBegins
  <2>2. CASE line[m] # NL
    <3>1. e = Len(s) + 1 /\ stdin = <<>>
      BY <1>2, <2>2
    <3>. HIDE DEF e
    <3>. QED
      BY <1>1, <1>3, <1>9, <3>1, CountExtremes
  <2>. QED
    BY <2>1, <2>2
<1>13. Len(seen) = CountTo(s, p) /\ Inputs = Lines(s)
  BY <1>1, <1>3
<1>. HIDE DEF p, e
<1>. QED
  BY <1>9, <1>10, <1>11, <1>12, <1>13 DEF s, c

(* A piece that fgets reads belongs to the line that is being read.         *)
LEMMA FgetsGets ==
  ASSUME Plain, Buffers, Fed, Reading, Fgets, stdin # <<>>, run' = run, seen' = seen
  PROVE  Fed' /\ (Got(read.pos + read.res))'
<1>. DEFINE s == run.stdin
            c == Consumed
            pos == read.pos
            n == Piece
            k == read'.res
            p == c - pos
<1>1. /\ s \in Seq(Character) /\ stdin \in Seq(Character) /\ line \in Seq(Int)
      /\ Len(s) \in Nat /\ Len(stdin) \in Nat /\ Len(line) \in Nat
      /\ read \in [pos : Nat, len : Nat, res : Nat] /\ at = "fgets" /\ read.len >= 2
  <2>1. s \in Seq(Character)
    BY InputsAre DEF Plain
  <2>2. /\ stdin \in Seq(Character) /\ line \in Seq(Int) /\ at = "fgets" /\ read.len >= 2
        /\ read \in [pos : Nat, len : Nat, res : Nat]
    BY DEF Buffers, Fgets
  <2>. HIDE DEF s
  <2>. QED
    BY <2>1, <2>2
<1>2. Fetched
  BY FgetsFetches
<1>3. n \in 1 .. read.len - 1 /\ n \in 1 .. Len(stdin) /\ \A i \in 1 .. n - 1 : stdin[i] # NL
  BY <1>1, PieceSize DEF Piece
<1>4. /\ c \in Nat /\ c + Len(stdin) = Len(s)
      /\ \A i \in 1 .. Len(stdin) : stdin[i] = s[c + i]
  BY <1>1 DEF Fed, Consumed
<1>5. \/ pos = 0 /\ LineBegins(s, c) /\ Len(seen) = CountTo(s, c)
      \/ Got(pos) /\ line[pos] # NL
  BY <1>1 DEF Reading, BetweenLines
<1>6. /\ pos \in 0 .. c /\ LineBegins(s, p) /\ Len(seen) = CountTo(s, p)
      /\ \A i \in 1 .. pos : line[i] = s[p + i] /\ line[i] # NL
  <2>1. CASE pos = 0 /\ LineBegins(s, c) /\ Len(seen) = CountTo(s, c)
    <3>1. p = c
      BY <1>4, <2>1
    <3>. HIDE DEF p
    <3>. QED
      BY <1>4, <2>1, <3>1
  <2>2. CASE Got(pos) /\ line[pos] # NL
    <3>1. /\ pos \in 1 .. c /\ LineBegins(s, p) /\ Len(seen) = CountTo(s, p)
          /\ \A i \in 1 .. pos : line[i] = s[p + i]
          /\ \A i \in 1 .. pos - 1 : line[i] # NL
      BY <2>2 DEF Got
    <3>. HIDE DEF p, pos, c
    <3>2. \A i \in 1 .. pos : i \in 1 .. pos - 1 \/ i = pos
      BY <1>4, <3>1
    <3>3. pos \in 0 .. c
      BY <3>1
    <3>. QED
      BY <2>2, <3>1, <3>2, <3>3
  <2>. QED
    BY <1>5, <2>1, <2>2
<1>7. /\ pos \in Nat /\ n \in Nat /\ n >= 1 /\ p \in Nat /\ p + pos = c /\ c + n <= Len(s)
      /\ read.len \in Nat /\ n < read.len
      /\ pos + n + 1 <= Len(line) /\ Len(line') = Len(line) /\ n <= Len(stdin)
      /\ Len(line) \in Nat /\ Len(stdin) \in Nat /\ c \in Nat
      /\ Len(stdin') = Len(stdin) - n
  <2>1. /\ pos + n + 1 <= Len(line) /\ Len(line') = Len(line)
        /\ Len(stdin') = Len(stdin) - n
    BY <1>2 DEF Fetched
  <2>2. pos \in Nat /\ read.len \in Nat
    BY <1>1
  <2>3. pos <= c /\ c \in Nat /\ c + Len(stdin) = Len(s)
    BY <1>4, <1>6
  <2>4. n \in 1 .. read.len - 1 /\ n \in 1 .. Len(stdin)
    BY <1>3
  <2>. HIDE DEF s, c, pos, n
  <2>5. n \in Nat /\ n >= 1 /\ n < read.len /\ n <= Len(stdin)
    BY <1>1, <2>2, <2>4
  <2>6. c + n <= Len(s)
    BY <1>1, <2>3, <2>5
  <2>7. p \in Nat /\ p + pos = c
    BY <2>2, <2>3
  <2>. QED
    BY <1>1, <2>1, <2>2, <2>3, <2>5, <2>6, <2>7
<1>8. /\ \A i \in 1 .. Len(line) :
           line'[i] = IF i \in pos + 1 .. pos + n THEN stdin[i - pos]
                      ELSE IF i = pos + n + 1 THEN NUL ELSE line[i]
      /\ stdin' \in Seq(Character) /\ Len(stdin') = Len(stdin) - n
      /\ \A i \in 1 .. Len(stdin') : stdin'[i] = stdin[n + i]
      /\ read'.pos = pos /\ k = Strnlen(line', pos, read.len)
  BY <1>2 DEF Fetched
<1>. HIDE DEF s, c, pos, n, k, p
<1>9. \A i \in 1 .. pos : line'[i] = line[i]
  <2>1. \A i \in 1 .. pos : /\ i \in 1 .. Len(line) /\ i \notin pos + 1 .. pos + n
                            /\ i # pos + n + 1
    BY <1>7
  <2>. QED
    BY <1>8, <2>1
<1>10. \A i \in 1 .. n : line'[pos + i] = s[c + i] /\ line'[pos + i] = stdin[i]
  <2>1. \A i \in 1 .. n : /\ pos + i \in 1 .. Len(line) /\ pos + i \in pos + 1 .. pos + n
                          /\ (pos + i) - pos = i /\ i \in 1 .. Len(stdin)
    BY <1>7
  <2>2. \A i \in 1 .. n : line'[pos + i] = stdin[(pos + i) - pos]
    BY <1>8, <2>1
  <2>. QED
    BY <1>4, <2>1, <2>2
<1>11. line'[pos + n + 1] = NUL
  <2>1. pos + n + 1 \in 1 .. Len(line) /\ pos + n + 1 \notin pos + 1 .. pos + n
    BY <1>7
  <2>. QED
    BY <1>8, <2>1
<1>12. k = n
  <2>1. /\ k \in 0 .. read.len /\ (k = read.len \/ line'[pos + k + 1] = NUL)
        /\ \A i \in 0 .. k - 1 : line'[pos + i + 1] # NUL
    <3>1. k = Strnlen(line', pos, read.len)
      BY <1>8
    <3>2. FirstNul(line', pos, read.len, Strnlen(line', pos, read.len))
      BY <1>7, StrnlenIs
    <3>3. FirstNul(line', pos, read.len, k)
      BY <3>1, <3>2
    <3>. QED
      BY <3>3 DEF FirstNul
  <2>2. ~ (n < k)
    <3>. SUFFICES ASSUME n < k PROVE FALSE
      OBVIOUS
    <3>1. n \in 0 .. k - 1
      BY <1>7, <2>1
    <3>. QED
      BY <1>11, <2>1, <3>1
  <2>3. ~ (k < n)
    <3>. SUFFICES ASSUME k < n PROVE FALSE
      OBVIOUS
    <3>1. k + 1 \in 1 .. n /\ pos + (k + 1) = pos + k + 1 /\ c + (k + 1) \in 1 .. Len(s)
      BY <1>1, <1>4, <1>7, <2>1
    <3>2. k # read.len
      BY <1>7, <2>1
    <3>3. line'[pos + k + 1] = s[c + (k + 1)]
      BY <1>10, <3>1
    <3>. QED
      BY <2>1, <3>1, <3>2, <3>3, PlainHasNoNul DEF s
  <2>. QED
    BY <1>7, <2>1, <2>2, <2>3
<1>13. Consumed' = c + n
  BY <1>1, <1>4, <1>7, <1>8 DEF Consumed, s, c
<1>14. Fed'
  <2>1. Inputs' = Inputs
    BY DEF Inputs
  <2>0. c + Len(stdin) = Len(s)
    BY <1>4
  <2>2. Len(stdin') <= Len(run'.stdin)
    BY <1>7, <2>0 DEF s
  <2>3. ASSUME NEW i \in 1 .. Len(stdin') PROVE stdin'[i] = run'.stdin[Consumed' + i]
    <3>1. n + i \in 1 .. Len(stdin) /\ c + (n + i) = (c + n) + i
      BY <1>1, <1>3, <1>4, <1>7, <1>8
    <3>2. stdin'[i] = stdin[n + i] /\ stdin[n + i] = s[c + (n + i)]
      BY <1>4, <1>8, <3>1
    <3>. QED
      BY <1>13, <3>1, <3>2 DEF s
  <2>. QED
    BY <2>1, <2>2, <2>3 DEF Fed
<1>15. (Got(read.pos + read.res))'
  <2>. DEFINE m == pos + n
  <2>1. read'.pos + read'.res = m
    BY <1>8, <1>12 DEF k
  <2>2. m \in Nat /\ m \in 1 .. c + n /\ m < Len(line') /\ line'[m + 1] = NUL /\ (c + n) - m = p
    <3>1. m \in Nat /\ m \in 1 .. c + n /\ m < Len(line') /\ (c + n) - m = p
      BY <1>7
    <3>. QED
      BY <1>11, <3>1
  <2>3. ASSUME NEW i \in 1 .. m
        PROVE  line'[i] = s[p + i] /\ (i # m => line'[i] # NL)
    <3>1. CASE i <= pos
      <4>1. i \in 1 .. pos
        BY <1>7, <3>1
      <4>. QED
        BY <1>6, <1>9, <4>1
    <3>2. CASE ~ (i <= pos)
      <4>. DEFINE j == i - pos
      <4>1. j \in 1 .. n /\ pos + j = i /\ c + j = p + i /\ (i # m => j \in 1 .. n - 1)
        BY <1>7, <3>2
      <4>. HIDE DEF j
      <4>. QED
        BY <1>3, <1>10, <4>1
    <3>. QED
      BY <3>1, <3>2
  <2>4. \A i \in 1 .. m - 1 : i \in 1 .. m /\ i # m
    BY <1>7
  <2>5. \A i \in 1 .. m : line'[i] = s[p + i]
    BY <2>3
  <2>6. \A i \in 1 .. m - 1 : line'[i] # NL
    BY <2>3, <2>4
  <2>7. Consumed' - m = p /\ m \in 1 .. Consumed'
    BY <1>13, <2>2
  <2>8. run'.stdin = s /\ seen' = seen /\ LineBegins(s, p) /\ Len(seen) = CountTo(s, p)
    BY <1>6 DEF s
  <2>. HIDE DEF m
  <2>. QED
    BY <2>1, <2>2, <2>5, <2>6, <2>7, <2>8 DEF Got
<1>. QED
  BY <1>14, <1>15

(* Nothing is delivered while the stream and the run stay as they are.      *)
LEMMA Kept ==
  ASSUME UNCHANGED <<run, stdin, seen>>
  PROVE  /\ Fed => Fed'
         /\ BetweenLines => BetweenLines'
         /\ Consumed' = Consumed /\ Inputs' = Inputs
  BY DEF Fed, BetweenLines, Consumed, Inputs

(* At first nothing was read and nothing delivered.                        *)
LEMMA InitInOrder == Init /\ Plain => InOrder
<1>. SUFFICES ASSUME Init, Plain PROVE InOrder
  OBVIOUS
<1>1. /\ run.stdin \in Seq(Character) /\ run.args \in Seq(Seq(Character))
      /\ stdin = run.stdin /\ args = run.args /\ seen = <<>> /\ at = "main"
  BY InputsAre DEF Init, Plain
<1>2. Len(seen) = 0 /\ seen \in Seq(Seq(Character)) /\ Consumed = 0
  BY <1>1 DEF Consumed
<1>3. Len(Inputs) \in Nat
  <2>1. Total(run.stdin) \in Nat
    BY <1>1, TotalIs
  <2>. QED
    BY <1>1, <2>1, InputsAre DEF Plain
<1>4. Fed
  BY <1>1, <1>2, <1>3 DEF Fed
<1>5. BetweenLines
  BY <1>1, <1>2, CountExtremes DEF BetweenLines, LineBegins
<1>6. Arguments
  BY <1>1, <1>2 DEF Arguments
<1>7. Reading
  BY <1>1, <1>5 DEF Reading
<1>. QED
  BY <1>1, <1>2, <1>4, <1>6, <1>7 DEF InOrder

(* An argument, or a line, is given to the callback.                        *)
LEMMA ArgumentInOrder ==
  ASSUME Plain, InOrder, NextArgument
  PROVE  InOrder'
<1>1. run.args # <<>> /\ Arguments /\ Fed /\ Inputs = run.args
  BY InputsAre DEF InOrder, Reading, NextArgument, Plain
<1>2. /\ args \in Seq(Seq(Character)) /\ args # <<>> /\ seen \in Seq(Seq(Character))
      /\ seen' = Append(seen, Head(args)) /\ args' = Tail(args) /\ at' = "parse"
      /\ UNCHANGED <<stdin, run>>
  BY DEF InOrder, NextArgument, lineVars, Goto
<1>3. /\ Head(args) = args[1] /\ args[1] \in Seq(Character)
      /\ Len(args) \in Nat /\ Len(args) >= 1 /\ Len(seen) \in Nat
  BY <1>2
<1>4. /\ args' \in Seq(Seq(Character)) /\ Len(args') = Len(args) - 1
      /\ \A i \in 1 .. Len(args') : args'[i] = args[i + 1]
  BY <1>2
<1>5. /\ seen' \in Seq(Seq(Character)) /\ Len(seen') = Len(seen) + 1
      /\ seen'[Len(seen) + 1] = args[1] /\ \A j \in 1 .. Len(seen) : seen'[j] = seen[j]
  BY <1>2, <1>3
<1>6. Len(run.args) = Len(seen) + Len(args) /\ \A i \in 1 .. Len(args) : args[i] = run.args[Len(seen) + i]
  BY <1>1 DEF Arguments
<1>7. Arguments'
  <2>1. ASSUME NEW i \in 1 .. Len(args') PROVE args'[i] = run.args[Len(seen') + i]
    <3>1. i + 1 \in 1 .. Len(args) /\ Len(seen) + (i + 1) = Len(seen') + i
      BY <1>3, <1>4, <1>5
    <3>. QED
      BY <1>4, <1>6, <3>1
  <2>. QED
    BY <1>2, <1>3, <1>4, <1>5, <1>6, <2>1 DEF Arguments
<1>8. Fed'
  <2>1. Inputs' = run.args /\ Consumed' = Consumed
    BY <1>1, <1>2 DEF Inputs, Consumed
  <2>2. Len(seen') <= Len(run.args)
    BY <1>3, <1>5, <1>6
  <2>3. ASSUME NEW j \in 1 .. Len(seen') PROVE seen'[j] = run.args[j]
    <3>1. CASE j = Len(seen) + 1
      <4>1. 1 \in 1 .. Len(args)
        BY <1>3
      <4>. QED
        BY <1>5, <1>6, <3>1, <4>1
    <3>2. CASE j # Len(seen) + 1
      <4>1. j \in 1 .. Len(seen)
        BY <1>3, <1>5, <3>2
      <4>. QED
        BY <1>1, <1>5, <4>1 DEF Fed
    <3>. QED
      BY <3>1, <3>2
  <2>. QED
    BY <1>1, <1>2, <2>1, <2>2, <2>3 DEF Fed
<1>. QED
  BY <1>1, <1>2, <1>4, <1>5, <1>7, <1>8 DEF InOrder

(* The callback is given the line that is next.                            *)
LEMMA LineInOrder ==
  ASSUME Plain, Buffers, InOrder, NextLine
  PROVE  InOrder'
<1>1. run.args = <<>> /\ Reading /\ Fed
  BY DEF InOrder, Arguments, NextLine
<1>2. /\ at = "callback" /\ at' = "parse" /\ seen' = Append(seen, Delivered)
      /\ UNCHANGED <<stdin, line, read, run, args>>
  BY DEF NextLine, lineVars, Goto
<1>3. PICK m \in 1 .. Len(line) : Got(m) /\ (line[m] = NL \/ stdin = <<>>)
  BY <1>1, <1>2 DEF Reading
<1>4. m \in Nat
  OBVIOUS
<1>5. /\ Len(seen) + 1 <= Len(Inputs) /\ Delivered = Inputs[Len(seen) + 1]
      /\ Delivered \in Seq(Character)
      /\ \/ LineBegins(run.stdin, Consumed) /\ Len(seen) + 1 = CountTo(run.stdin, Consumed)
         \/ stdin = <<>> /\ Len(seen) + 1 = Total(run.stdin)
  BY <1>1, <1>3, <1>4, DeliversNext
<1>6. /\ seen \in Seq(Seq(Character)) /\ args \in Seq(Seq(Character)) /\ Len(seen) \in Nat
      /\ seen' \in Seq(Seq(Character)) /\ Len(seen') = Len(seen) + 1
      /\ seen'[Len(seen) + 1] = Delivered /\ \A j \in 1 .. Len(seen) : seen'[j] = seen[j]
  BY <1>2, <1>5 DEF InOrder
<1>7. Inputs' = Inputs /\ Consumed' = Consumed
  BY <1>2 DEF Inputs, Consumed
<1>8. Fed'
  <2>1. ASSUME NEW j \in 1 .. Len(seen') PROVE seen'[j] = Inputs[j]
    <3>1. CASE j = Len(seen) + 1
      BY <1>5, <1>6, <3>1
    <3>2. CASE j # Len(seen) + 1
      <4>1. j \in 1 .. Len(seen)
        BY <1>6, <3>2
      <4>. QED
        BY <1>1, <1>6, <4>1 DEF Fed
    <3>. QED
      BY <3>1, <3>2
  <2>2. Len(seen') <= Len(Inputs)
    BY <1>5, <1>6
  <2>. QED
    BY <1>1, <1>2, <1>7, <2>1, <2>2 DEF Fed
<1>9. BetweenLines'
  BY <1>2, <1>5, <1>6, <1>7 DEF BetweenLines
<1>10. Reading'
  BY <1>2, <1>9 DEF Reading
<1>. QED
  BY <1>1, <1>2, <1>6, <1>8, <1>10 DEF InOrder

(* The reading goes on.                                                     *)
LEMMA ReadInOrder ==
  ASSUME Plain, Buffers, InOrder, ReadLines, UNCHANGED progVars
  PROVE  InOrder'
<1>1. UNCHANGED <<run, args, seen>>
  BY DEF progVars
<1>2. run.args = <<>> /\ Reading /\ Fed
  BY DEF InOrder, Arguments, ReadLines, AllocateLine, Nalread, Fgets, Inspect, GrowLine
<1>3. SUFFICES Fed' /\ Reading'
  BY <1>1, <1>2 DEF InOrder
<1>4. CASE AllocateLine
  <2>1. at = "line" /\ at' = "read" /\ UNCHANGED stdin
    BY <1>4 DEF AllocateLine
  <2>2. Fed' /\ BetweenLines'
    BY <1>1, <1>2, <2>1, Kept DEF Reading
  <2>. QED
    BY <2>1, <2>2 DEF Reading
<1>5. CASE Nalread
  <2>1. /\ at = "read" /\ UNCHANGED stdin
        /\ at' = "crashed" \/ (at' = "fgets" /\ read'.pos = 0 /\ read'.res = 0)
    BY <1>5 DEF Nalread
  <2>2. Fed' /\ BetweenLines'
    BY <1>1, <1>2, <2>1, Kept DEF Reading
  <2>. QED
    BY <2>1, <2>2 DEF Reading
<1>6. CASE Fgets /\ stdin = <<>>
  <2>1. /\ at = "fgets" /\ UNCHANGED <<stdin, line, read>>
        /\ at' = IF read.pos + read.res > 0 THEN "callback" ELSE "end"
    BY <1>6 DEF Fgets, Returned, lineVars
  <2>2. /\ read.pos \in Nat /\ read.res \in Nat /\ line # <<>>
    BY <2>1 DEF Buffers
  <2>3. Fed' /\ (BetweenLines => BetweenLines') /\ Consumed' = Consumed
    BY <1>1, <1>2, <2>1, Kept
  <2>4. CASE read.pos = 0 /\ read.res = 0 /\ BetweenLines
    <3>1. at' = "end"
      BY <2>1, <2>4
    <3>2. Len(seen) = Total(run.stdin)
      <4>1. run.stdin \in Seq(Character)
        BY InputsAre DEF Plain
      <4>2. Consumed = Len(run.stdin)
        BY <1>6, <4>1 DEF Consumed
      <4>. QED
        BY <2>4, <4>1, <4>2, CountExtremes DEF BetweenLines
    <3>. QED
      BY <1>1, <2>3, <3>1, <3>2 DEF Reading
  <2>5. CASE Got(read.pos) /\ line[read.pos] # NL
    <3>1. read.pos \in 1 .. Len(line) /\ at' = "callback"
      <4>1. read.pos >= 1 /\ read.pos < Len(line)
        BY <2>2, <2>5 DEF Got
      <4>2. Len(line) \in Nat
        BY DEF Buffers
      <4>. QED
        BY <2>1, <2>2, <4>1, <4>2
    <3>2. \A m : Got(m) => Got(m)'
      BY <1>1, <2>1, <2>3 DEF Got
    <3>3. \E m \in 1 .. Len(line') : Got(m)' /\ stdin' = <<>>
      BY <1>6, <2>1, <2>5, <3>1, <3>2
    <3>. QED
      BY <2>3, <3>1, <3>3 DEF Reading
  <2>. QED
    BY <1>2, <2>1, <2>4, <2>5 DEF Reading
<1>7. CASE Fgets /\ stdin # <<>>
  <2>1. at' = "inspect" /\ Fed' /\ (Got(read.pos + read.res))'
    BY <1>1, <1>2, <1>7, FgetsGets DEF Fgets
  <2>. QED
    BY <2>1 DEF Reading
<1>8. CASE Inspect
  <2>. DEFINE m == read.pos + read.res
  <2>1. at = "inspect" /\ UNCHANGED <<stdin, line, read>>
    BY <1>8 DEF Inspect, lineVars
  <2>2. Got(m)
    BY <1>2, <2>1 DEF Reading
  <2>3. m \in Nat /\ m > 0 /\ m \in 1 .. Len(line)
    <3>1. m \in Nat /\ Len(line) \in Nat
      BY DEF Buffers
    <3>2. m >= 1 /\ m < Len(line)
      BY <2>2, <3>1 DEF Got
    <3>. QED
      BY <3>1, <3>2
  <2>4. LineEnded = { line[m] = NL }
    <3>1. {m} \ {0} = {m} /\ m # 0
      BY <2>3
    <3>2. LineEnded = { line[i] = NL : i \in {m} \ {0} } \cup {}
      BY <3>1 DEF LineEnded
    <3>. QED
      BY <3>1, <3>2
  <2>5. at' = IF line[m] = NL THEN "callback" ELSE "grow"
    BY <1>8, <2>3, <2>4 DEF Inspect, Returned
  <2>6. Fed' /\ Consumed' = Consumed
    BY <1>1, <1>2, <2>1, Kept
  <2>7. (Got(read.pos + read.res))'
    BY <1>1, <2>1, <2>2, <2>6 DEF Got
  <2>8. line[m] = NL => \E i \in 1 .. Len(line') : Got(i)' /\ line'[i] = NL
    <3>1. \A i : Got(i) => Got(i)'
      BY <1>1, <2>1, <2>6 DEF Got
    <3>. QED
      BY <2>1, <2>2, <2>3, <3>1
  <2>9. CASE line[m] = NL
    BY <2>5, <2>6, <2>8, <2>9 DEF Reading
  <2>10. CASE line[m] # NL
    <3>1. line'[read'.pos + read'.res] # NL
      BY <2>1, <2>10
    <3>. QED
      BY <2>5, <2>6, <2>7, <2>10, <3>1 DEF Reading
  <2>. QED
    BY <2>9, <2>10
<1>9. CASE GrowLine
  <2>1. /\ stdin' = stdin /\ at = "grow"
        /\ \/ at' = "fgets" /\ Grown
           \/ at' = "end" /\ line' = <<>>
    BY <1>9, GrowLineGrows DEF GrowLine
  <2>2. Fed' /\ Consumed' = Consumed
    BY <1>1, <1>2, <2>1, Kept
  <2>3. CASE at' = "end" /\ line' = <<>>
    BY <2>2, <2>3 DEF Reading
  <2>4. CASE at' = "fgets" /\ Grown
    <3>. DEFINE m == read.pos + read.res
    <3>1. Got(m) /\ line[m] # NL
      BY <1>2, <2>1 DEF Reading
    <3>2. m \in Nat /\ Len(line) \in Nat
      BY DEF Buffers
    <3>3. /\ m \in 1 .. Consumed /\ m < Len(line) /\ line[m + 1] = NUL
          /\ \A i \in 1 .. m : line[i] = run.stdin[Consumed - m + i]
          /\ \A i \in 1 .. m - 1 : line[i] # NL
          /\ LineBegins(run.stdin, Consumed - m) /\ Len(seen) = CountTo(run.stdin, Consumed - m)
      BY <3>1 DEF Got
    <3>4. /\ Len(line') = 2 * Len(line) /\ \A i \in 1 .. Len(line) : line'[i] = line[i]
          /\ read'.pos = m
      BY <2>4 DEF Grown
    <3>. HIDE DEF m
    <3>5. \A i \in 1 .. m + 1 : i \in 1 .. Len(line)
      BY <3>2, <3>3
    <3>6. m >= 1 /\ m < Len(line') /\ m + 1 \in 1 .. m + 1
      <4>1. m >= 1 /\ m < Len(line) /\ Len(line') = 2 * Len(line)
        BY <3>2, <3>3, <3>4
      <4>. QED
        BY <3>2, <4>1
    <3>7. /\ line'[m + 1] = NUL /\ \A i \in 1 .. m : line'[i] = line[i]
          /\ line'[m] # NL
      <4>1. \A i \in 1 .. m : i \in 1 .. m + 1
        BY <3>2
      <4>2. m \in 1 .. m
        BY <3>2, <3>6
      <4>. QED
        BY <3>1, <3>3, <3>4, <3>5, <3>6, <4>1, <4>2
    <3>8. \A i \in 1 .. m - 1 : i \in 1 .. m
      BY <3>2
    <3>9. \A i \in 1 .. m - 1 : line'[i] # NL
      BY <3>3, <3>7, <3>8
    <3>10. \A i \in 1 .. m : line'[i] = run.stdin[Consumed - m + i]
      BY <3>3, <3>7
    <3>11. (Got(read.pos))'
      BY <1>1, <2>2, <3>3, <3>4, <3>6, <3>7, <3>9, <3>10 DEF Got
    <3>. QED
      BY <2>2, <2>4, <3>4, <3>7, <3>11 DEF Reading
  <2>. QED
    BY <2>1, <2>3, <2>4
<1>. QED
  BY <1>4, <1>5, <1>6, <1>7, <1>8, <1>9 DEF ReadLines

(* Every step of a program leaves the lines in order.                      *)
LEMMA NextInOrder ==
  ASSUME Plain, Buffers, InOrder, [Next]_vars
  PROVE  InOrder'
<1>1. CASE NextArgument
  BY <1>1, ArgumentInOrder
<1>2. CASE NextLine
  BY <1>2, LineInOrder
<1>3. CASE ReadLines /\ UNCHANGED progVars
  BY <1>3, ReadInOrder
<1>4. ASSUME UNCHANGED <<stdin, run, args, seen>> PROVE /\ Fed' /\ (BetweenLines => BetweenLines')
                                                        /\ Consumed' = Consumed
  BY <1>4, Kept DEF InOrder
<1>5. CASE Start
  <2>1. /\ UNCHANGED <<stdin, run, args, seen>> /\ at = "main"
        /\ at' \in {"exit", IF run.args = <<>> THEN "line" ELSE "args"}
    BY <1>5 DEF Start, Failure, Exit, Goto, lineVars
  <2>. QED
    BY <1>4, <2>1 DEF InOrder, Arguments, Reading
<1>6. CASE Finish
  <2>1. UNCHANGED <<stdin, run, args, seen>> /\ at' = "exit"
    BY <1>6 DEF Finish, Exit
  <2>. QED
    BY <1>4, <2>1 DEF InOrder, Arguments, Reading
<1>7. CASE Callback
  <2>1. /\ UNCHANGED <<stdin, run, args, seen>>
        /\ at \in {"parse", "compute", "print", "show", "groups", "shown"}
        /\ \/ at' \in {"parse", "compute", "print", "show", "groups", "shown", "exit"}
           \/ at' = IF run.args = <<>> THEN "read" ELSE "args"
    BY <1>7, CallbackKeeps DEF lineVars
  <2>. QED
    BY <1>4, <2>1 DEF InOrder, Arguments, Reading
<1>8. CASE UNCHANGED vars
  <2>1. UNCHANGED <<stdin, run, args, seen, at, line, read>>
    BY <1>8 DEF vars
  <2>2. \A m : Got(m) => Got(m)'
    BY <1>4, <2>1 DEF Got
  <2>. QED
    BY <1>4, <2>1, <2>2 DEF InOrder, Arguments, Reading
<1>. QED
  BY <1>1, <1>2, <1>3, <1>5, <1>6, <1>7, <1>8 DEF Next

(* A run's input stays the same, so that it has a NUL from the start or never. *)
LEMMA PlainStays ==
  ASSUME [Next]_vars
  PROVE  run' = run
<1>1. CASE Callback
  BY <1>1, CallbackKeeps
<1>. QED
  BY <1>1 DEF Next, vars, progVars, Start, NextArgument, NextLine, Finish, Failure

Orderly == Buffers /\ (Plain => InOrder)

(* The lines of the input, however long and in however many pieces they are *)
(* read, and the arguments reach the callback whole, once and in their      *)
(* order, and all of them before the end is reported.                       *)
THEOREM LinesAlwaysInOrder == Spec => []LinesInOrder
<1>1. Init => Orderly
  BY InitBuffers, InitInOrder DEF Orderly
<1>2. Orderly /\ [Next]_vars => Orderly'
  <2>. SUFFICES ASSUME Orderly, [Next]_vars PROVE Orderly'
    OBVIOUS
  <2>1. Buffers'
    BY NextBuffers DEF Orderly
  <2>2. ASSUME Plain' PROVE InOrder'
    <3>1. Plain
      BY <2>2, PlainStays DEF Plain
    <3>. QED
      BY <3>1, NextInOrder DEF Orderly
  <2>. QED
    BY <2>1, <2>2 DEF Orderly
<1>3. Orderly => LinesInOrder
  <2>. SUFFICES ASSUME Orderly, ~ Contains(run.stdin, NUL) PROVE LinesInOrder
    BY DEF LinesInOrder
  <2>1. Buffers /\ InOrder /\ Plain
    BY DEF Orderly, Buffers, Plain
  <2>2. /\ Len(seen) <= Len(Inputs) /\ \A j \in 1 .. Len(seen) : seen[j] = Inputs[j]
        /\ seen \in Seq(Seq(Character)) /\ Len(seen) \in Nat
    BY <2>1 DEF InOrder, Fed
  <2>. DEFINE T == { Inputs[k] : k \in 1 .. Len(Inputs) }
  <2>3. Inputs \in Seq(T) /\ Len(Inputs) \in Nat
    <3>1. Len(Inputs) \in Nat /\ Inputs = [k \in 1 .. Len(Inputs) |-> Inputs[k]]
      <4>1. CASE run.args # <<>>
        <5>1. Inputs \in Seq(Seq(Character))
          BY <2>1, <4>1, InputsAre DEF Plain
        <5>. QED
          BY <5>1
      <4>2. CASE run.args = <<>>
        <5>1. Inputs = Lines(run.stdin) /\ Len(Inputs) = Total(run.stdin) /\ Total(run.stdin) \in Nat
          BY <2>1, <4>2, InputsAre, TotalIs DEF Plain
        <5>. QED
          BY <5>1 DEF Lines, Total
      <4>. QED
        BY <4>1, <4>2
    <3>. QED
      BY <3>1
  <2>. HIDE DEF T
  <2>4. IsPrefix(seen, Inputs)
    <3>0. Agree(seen, Inputs, 0, Len(seen))
      BY <2>2, <2>3 DEF Agree
    <3>1. SubSeq(seen, 1, Len(seen)) = SubSeq(Inputs, 0 + 1, 0 + Len(seen))
      BY <2>2, <2>3, <3>0, Piecewise DEF SamePiece
    <3>2. 0 + 1 = 1 /\ 0 + Len(seen) = Len(seen)
      BY <2>2
    <3>. QED
      BY <2>2, <3>1, <3>2 DEF IsPrefix
  <2>5. CASE InputsEnded
    <3>1. Len(seen) = Len(Inputs)
      <4>1. CASE run.args = <<>>
        BY <2>1, <2>5, <4>1, InputsAre DEF InputsEnded, InOrder, Reading, Plain
      <4>2. CASE run.args # <<>>
        <5>1. Arguments /\ Inputs = run.args /\ at = "args" /\ args = <<>>
          BY <2>1, <2>5, <4>2, InputsAre DEF InputsEnded, InOrder, Arguments, Plain
        <5>. QED
          BY <2>2, <5>1 DEF Arguments
      <4>. QED
        BY <4>1, <4>2
    <3>2. \A j \in 1 .. Len(seen) : seen[j] = Inputs[j]
      BY <2>2
    <3>3. seen \in [1 .. Len(seen) -> Seq(Character)] /\ Inputs \in [1 .. Len(seen) -> T]
      BY <2>2, <2>3, <3>1
    <3>4. seen = Inputs
      BY <3>2, <3>3
    <3>. QED
      BY <2>4, <3>4 DEF LinesInOrder
  <2>6. CASE ~ InputsEnded
    BY <2>4, <2>6 DEF LinesInOrder
  <2>. QED
    BY <2>5, <2>6
<1>. QED
  BY <1>1, <1>2, <1>3, PTL DEF Spec

-----------------------------------------------------------------------------
(* reallocarray.                                                            *)

(* Below the square root of what a size can count nothing wraps; above it,  *)
(* the division tells.                                                      *)
LEMMA ProductsChecked ==
  ASSUME NEW nmemb \in 0 .. SizeMax, NEW size \in 0 .. SizeMax
  PROVE  Checked(nmemb, size)
<1>. DEFINE M == MUL_NO_OVERFLOW
            top == SizeMax + 1
            product == size * nmemb
<1>1. M \in Nat /\ M >= 1 /\ top = M * M
  <2>. DEFINE half == WordBits \div 2
  <2>1. half \in Nat /\ WordBits = half + half
    BY WordAssumption
  <2>2. M = 2 ^ half /\ top = 2 ^ WordBits - 1 + 1 /\ 2 ^ WordBits \in Nat
    BY <2>1, WordAssumption, Positive DEF MUL_NO_OVERFLOW, SizeMax
  <2>3. 2 ^ (half + half) = 2 ^ half * 2 ^ half /\ 2 ^ half \in Nat /\ 2 ^ half >= 1
    BY <2>1, PowerOfSum, Positive
  <2>. HIDE DEF half, M
  <2>. QED
    BY <2>1, <2>2, <2>3
<1>2. SizeMax = top - 1 /\ top \in Nat /\ nmemb \in Nat /\ size \in Nat
      /\ nmemb < top /\ size < top
  <2>1. 2 ^ WordBits \in Nat
    BY WordAssumption, Positive
  <2>. QED
    BY <2>1 DEF SizeMax
<1>3. product \in Nat /\ product = nmemb * size
  BY <1>2
<1>. HIDE DEF M, top, product
<1>4. ASSUME product < top PROVE Bytes(nmemb, size) = nmemb * size
  <2>1. Bytes(nmemb, size) = product % top
    BY DEF Bytes, product, top
  <2>. QED
    BY <1>2, <1>3, <1>4, <2>1
<1>5. ASSUME nmemb > 0 PROVE SizeMax \div nmemb < size <=> product >= top
  <2>. DEFINE q == SizeMax \div nmemb
              r == SizeMax % nmemb
  <2>1. /\ q \in Nat /\ r \in Nat /\ r < nmemb
        /\ SizeMax = nmemb * q + r
    BY <1>2, <1>5
  <2>. HIDE DEF q, r
  <2>2. ASSUME q < size PROVE product >= top
    <3>1. PICK d \in Nat : size = q + 1 + d
      <4>1. size - q - 1 \in Nat /\ size = q + 1 + (size - q - 1)
        BY <1>2, <2>1, <2>2
      <4>. QED
        BY <4>1
    <3>2. nmemb * size = nmemb * q + nmemb + nmemb * d /\ nmemb * d \in Nat /\ nmemb * q \in Nat
      BY <1>2, <2>1, <3>1
    <3>. DEFINE u == nmemb * q
                w == nmemb * d
    <3>3. product = u + nmemb + w /\ w \in Nat /\ u \in Nat /\ top - 1 = u + r
      BY <1>2, <1>3, <2>1, <3>2
    <3>. HIDE DEF u, w
    <3>. QED
      BY <1>2, <2>1, <3>3
  <2>3. ASSUME ~ (q < size) PROVE product < top
    <3>1. PICK d \in Nat : q = size + d
      <4>1. q - size \in Nat /\ q = size + (q - size)
        BY <1>2, <2>1, <2>3
      <4>. QED
        BY <4>1
    <3>2. nmemb * q = nmemb * size + nmemb * d /\ nmemb * d \in Nat
      BY <1>2, <2>1, <3>1
    <3>. DEFINE w == nmemb * d
    <3>3. top - 1 = product + w + r /\ w \in Nat
      BY <1>2, <1>3, <2>1, <3>2
    <3>. HIDE DEF w
    <3>. QED
      BY <1>2, <1>3, <2>1, <3>3
  <2>4. product >= top <=> ~ (product < top)
    BY <1>2, <1>3
  <2>. QED
    BY <2>2, <2>3, <2>4 DEF q
<1>6. ASSUME nmemb < M, size < M PROVE product < top
  <2>1. PICK d \in Nat : M = nmemb + 1 + d
    <3>1. M - nmemb - 1 \in Nat /\ M = nmemb + 1 + (M - nmemb - 1)
      BY <1>1, <1>2, <1>6
    <3>. QED
      BY <3>1
  <2>2. M * M = nmemb * M + M + d * M /\ nmemb * M \in Nat /\ d * M \in Nat
    BY <1>1, <1>2, <2>1
  <2>3. PICK e \in Nat : M = size + e
    <3>1. M - size \in Nat /\ M = size + (M - size)
      BY <1>1, <1>2, <1>6
    <3>. QED
      BY <3>1
  <2>4. nmemb * M = nmemb * size + nmemb * e /\ nmemb * e \in Nat
    BY <1>2, <2>3
  <2>. DEFINE u == nmemb * e
              w == d * M
  <2>5. top = product + u + M + w /\ u \in Nat /\ w \in Nat
    BY <1>1, <1>3, <2>2, <2>4
  <2>. HIDE DEF u, w
  <2>. QED
    BY <1>1, <1>3, <2>5
<1>7. CASE Refused(nmemb, size)
  <2>1. product >= top
    BY <1>5, <1>7 DEF Refused
  <2>. QED
    BY <1>2, <1>3, <1>7, <2>1 DEF Checked
<1>8. CASE ~ Refused(nmemb, size)
  <2>1. CASE nmemb = 0
    <3>1. product < top
      BY <1>1, <1>2, <1>3, <2>1
    <3>. QED
      BY <1>4, <1>8, <3>1 DEF Checked
  <2>2. CASE nmemb # 0 /\ nmemb < M /\ size < M
    BY <1>4, <1>6, <1>8, <2>2 DEF Checked
  <2>3. CASE nmemb # 0 /\ ~ (nmemb < M /\ size < M)
    <3>1. nmemb > 0 /\ (nmemb >= M \/ size >= M)
      BY <1>1, <1>2, <2>3
    <3>2. ~ (SizeMax \div nmemb < size)
      BY <1>8, <3>1 DEF Refused, M
    <3>3. product < top
      BY <1>2, <1>3, <1>5, <3>1, <3>2
    <3>. QED
      BY <1>4, <1>8, <3>3 DEF Checked
  <2>. QED
    BY <2>1, <2>2, <2>3
<1>. QED
  BY <1>7, <1>8

(* For every width of a size, every count and every size, reallocarray      *)
(* refuses what would wrap and nothing else.                                *)
THEOREM ProductAlwaysChecked == Spec => []ProductChecked
<1>1. ProductChecked
  BY ProductsChecked DEF ProductChecked
<1>. QED
  BY <1>1, PTL

-----------------------------------------------------------------------------
(* Powers of ten, and the digits of a number.                               *)

(* There is one function that the recursion of Ten defines.                 *)
TenFrom(n, p) == p = [k \in 0 .. n |-> IF k = 0 THEN 1 ELSE 10 * p[k - 1]]

LEMMA TenExists ==
  ASSUME NEW n \in Nat
  PROVE  \E p : TenFrom(n, p) /\ p \in [0 .. n -> Nat]
<1>. DEFINE g == [a \in (1 .. n) \X Nat |-> 10 * a[2]]
<1>1. g \in [(1 .. n) \X Nat -> Nat] /\ 1 \in Nat
  OBVIOUS
<1>2. PICK p : Iterates(Nat, 1, n, g, p)
  <2>. HIDE DEF g
  <2>. QED
    BY ONLY <1>1, Iterated, n \in Nat
<1>3. p \in [0 .. n -> Nat] /\ p[0] = 1 /\ \A i \in 1 .. n : p[i] = g[<<i, p[i - 1]>>]
  BY <1>2 DEF Iterates
<1>4. ASSUME NEW i \in 1 .. n PROVE p[i] = 10 * p[i - 1]
  <2>1. p[i - 1] \in Nat
    <3>1. i - 1 \in 0 .. n
      OBVIOUS
    <3>. QED
      BY <1>3, <3>1
  <2>2. g[<<i, p[i - 1]>>] = 10 * p[i - 1]
    BY <2>1
  <2>. QED
    BY <1>3, <2>2
<1>. HIDE DEF g
<1>5. \A i \in 0 .. n : p[i] = IF i = 0 THEN 1 ELSE 10 * p[i - 1]
  BY <1>3, <1>4
<1>. QED
  BY <1>3, <1>5 DEF TenFrom

LEMMA TenOf ==
  ASSUME NEW n \in Nat
  PROVE  \E p : TenFrom(n, p) /\ p \in [0 .. n -> Nat] /\ Ten(n) = p[n]
<1>. DEFINE p == CHOOSE p : TenFrom(n, p)
<1>1. Ten(n) = p[n]
  BY DEF Ten, TenFrom
<1>2. TenFrom(n, p)
  BY TenExists
<1>. HIDE DEF p
<1>3. \A k \in 0 .. n : p[k] = IF k = 0 THEN 1 ELSE 10 * p[k - 1]
  BY <1>2 DEF TenFrom
<1>. DEFINE T == { k \in 0 .. n : p[k] \in Nat }
<1>4. 0 \in T
  BY <1>3
<1>5. ASSUME NEW i \in 0 .. n - 1, i \in T PROVE i + 1 \in T
  <2>1. i + 1 \in 0 .. n /\ i + 1 # 0 /\ i + 1 - 1 = i
    OBVIOUS
  <2>2. p[i + 1] = 10 * p[i]
    BY <1>3, <2>1
  <2>. QED
    BY <1>5, <2>1, <2>2
<1>6. ASSUME NEW k \in 0 .. n PROVE p[k] \in Nat
  <2>1. k \in Nat /\ \A i \in 0 .. k - 1 : i \in 0 .. n - 1
    OBVIOUS
  <2>. HIDE DEF T
  <2>2. k \in T
    BY <1>4, <1>5, <2>1, Induct
  <2>. QED
    BY <2>2 DEF T
<1>7. p \in [0 .. n -> Nat]
  BY <1>2, <1>6 DEF TenFrom
<1>. QED
  BY <1>1, <1>2, <1>7

LEMMA SameTens ==
  ASSUME NEW m \in Nat, NEW n \in Nat, NEW p, NEW q, m <= n, TenFrom(m, p), TenFrom(n, q)
  PROVE  p[m] = q[m]
<1>. DEFINE T == { k \in 0 .. m : p[k] = q[k] }
<1>1. /\ \A k \in 0 .. m : p[k] = IF k = 0 THEN 1 ELSE 10 * p[k - 1]
      /\ \A k \in 0 .. n : q[k] = IF k = 0 THEN 1 ELSE 10 * q[k - 1]
  BY DEF TenFrom
<1>2. 0 \in T
  BY <1>1
<1>3. ASSUME NEW i \in 0 .. m - 1, i \in T PROVE i + 1 \in T
  <2>1. i + 1 \in 0 .. m /\ i + 1 \in 0 .. n /\ i + 1 # 0 /\ i + 1 - 1 = i
    OBVIOUS
  <2>2. p[i + 1] = 10 * p[i] /\ q[i + 1] = 10 * q[i]
    BY <1>1, <2>1
  <2>. QED
    BY <1>3, <2>1, <2>2
<1>4. m \in T
  <2>. HIDE DEF T
  <2>. QED
    BY <1>2, <1>3, Induct
<1>. QED
  BY <1>4

(* The powers of ten.                                                       *)
LEMMA Tens ==
  /\ Ten(0) = 1
  /\ \A n \in Nat : Ten(n) \in Nat /\ Ten(n) >= 1 /\ Ten(n + 1) = 10 * Ten(n)
<1>1. Ten(0) = 1
  BY TenOf DEF TenFrom
<1>2. ASSUME NEW n \in Nat PROVE Ten(n) \in Nat /\ Ten(n + 1) = 10 * Ten(n)
  <2>1. PICK p : TenFrom(n, p) /\ p \in [0 .. n -> Nat] /\ Ten(n) = p[n]
    BY TenOf
  <2>2. PICK q : TenFrom(n + 1, q) /\ q \in [0 .. n + 1 -> Nat] /\ Ten(n + 1) = q[n + 1]
    <3>1. n + 1 \in Nat
      OBVIOUS
    <3>. QED
      BY <3>1, TenOf
  <2>3. p[n] = q[n]
    BY <2>1, <2>2, SameTens
  <2>4. q[n + 1] = 10 * q[n]
    <3>1. n + 1 \in 0 .. n + 1 /\ n + 1 # 0 /\ n + 1 - 1 = n
      OBVIOUS
    <3>. QED
      BY <2>2, <3>1 DEF TenFrom
  <2>. QED
    BY <2>1, <2>2, <2>3, <2>4
<1>. DEFINE T == { n \in Nat : Ten(n) >= 1 }
<1>3. ASSUME NEW n \in Nat PROVE Ten(n) >= 1
  <2>1. 0 \in T
    BY <1>1
  <2>2. ASSUME NEW i \in 0 .. n - 1, i \in T PROVE i + 1 \in T
    BY <1>2, <2>2
  <2>. HIDE DEF T
  <2>3. n \in T
    BY <2>1, <2>2, Induct
  <2>. QED
    BY <2>3 DEF T
<1>. QED
  BY <1>1, <1>2, <1>3

(* The power of a sum is a product.                                         *)
LEMMA TenOfSum ==
  ASSUME NEW m \in Nat, NEW n \in Nat
  PROVE  Ten(m + n) = Ten(m) * Ten(n)
<1>. DEFINE T == { k \in Nat : Ten(m + k) = Ten(m) * Ten(k) }
<1>1. 0 \in T
  <2>1. Ten(m) * 1 = Ten(m) /\ m + 0 = m
    BY Tens
  <2>. QED
    BY <2>1, Tens
<1>2. ASSUME NEW i \in 0 .. n - 1, i \in T PROVE i + 1 \in T
  <2>. DEFINE a == Ten(m)
              b == Ten(i)
  <2>1. i \in Nat /\ m + i \in Nat /\ m + (i + 1) = (m + i) + 1
    OBVIOUS
  <2>2. a \in Nat /\ b \in Nat /\ Ten(i + 1) = 10 * b /\ Ten((m + i) + 1) = 10 * Ten(m + i)
    BY <2>1, Tens
  <2>3. Ten(m + i) = a * b
    BY <1>2
  <2>. HIDE DEF a, b
  <2>4. 10 * (a * b) = a * (10 * b)
    BY <2>2
  <2>5. Ten(m + (i + 1)) = a * Ten(i + 1)
    BY <2>1, <2>2, <2>3, <2>4
  <2>. QED
    BY <2>1, <2>5 DEF a
<1>. HIDE DEF T
<1>3. n \in T
  BY <1>1, <1>2, Induct
<1>. QED
  BY <1>3 DEF T

(* A higher power is at least ten times as great, and greater than its       *)
(* exponent.                                                                *)
LEMMA TenGrows ==
  ASSUME NEW m \in Nat, NEW n \in Nat, m < n
  PROVE  10 * Ten(m) <= Ten(n)
<1>1. PICK k \in Nat : n = (m + 1) + k
  <2>1. n - m - 1 \in Nat /\ n = (m + 1) + (n - m - 1)
    OBVIOUS
  <2>. QED
    BY <2>1
<1>2. Ten(n) = Ten(m + 1) * Ten(k) /\ Ten(m + 1) = 10 * Ten(m) /\ m + 1 \in Nat
  <2>1. m + 1 \in Nat
    OBVIOUS
  <2>2. Ten((m + 1) + k) = Ten(m + 1) * Ten(k)
    BY <2>1, TenOfSum
  <2>. QED
    BY <1>1, <2>1, <2>2, Tens
<1>. DEFINE a == Ten(m + 1)
            b == Ten(k)
<1>3. a \in Nat /\ b \in Nat /\ b >= 1
  BY <1>2, Tens
<1>. HIDE DEF a, b
<1>4. a * b >= a
  BY <1>3
<1>. QED
  BY <1>2, <1>4 DEF a, b

LEMMA TenExceeds == \A n \in Nat : n < Ten(n)
<1>. SUFFICES ASSUME NEW n \in Nat PROVE n < Ten(n)
  OBVIOUS
<1>. DEFINE T == { k \in Nat : k < Ten(k) }
<1>1. 0 \in T
  BY Tens
<1>2. ASSUME NEW i \in 0 .. n - 1, i \in T PROVE i + 1 \in T
  BY <1>2, Tens
<1>. HIDE DEF T
<1>3. n \in T
  BY <1>1, <1>2, Induct
<1>. QED
  BY <1>3 DEF T

(* A quotient of a quotient is one of the product.                          *)
IsProduct(c, a, b) == c = a * b

LEMMA Quotients ==
  ASSUME NEW n \in Nat, NEW a \in Nat \ {0}, NEW b \in Nat \ {0}, NEW c, IsProduct(c, a, b)
  PROVE  (n \div a) \div b = n \div c /\ c \in Nat \ {0}
<1>. DEFINE q == n \div a
            r == n % a
            s == q \div b
            t == q % b
<1>1. q \in Nat /\ r \in 0 .. a - 1 /\ n = a * q + r
  BY DivModNat
<1>2. s \in Nat /\ t \in 0 .. b - 1 /\ q = b * s + t
  <2>. HIDE DEF q
  <2>. QED
    BY <1>1, DivModNat
<1>. HIDE DEF q, r, s, t
<1>3. a * t + r \in 0 .. a * b - 1
  <2>1. a * t <= a * (b - 1)
    BY <1>2
  <2>2. a * (b - 1) = a * b - a /\ a * b \in Int /\ a * t \in Nat
    BY <1>2
  <2>. QED
    BY <1>1, <2>1, <2>2
<1>4. n = s * (a * b) + (a * t + r)
  <2>1. a * (b * s + t) = s * (a * b) + a * t
    BY <1>2
  <2>. QED
    BY <1>1, <1>2, <2>1
<1>5. c \in Nat \ {0} /\ n = s * c + (a * t + r)
  BY <1>4 DEF IsProduct
<1>. DEFINE u == a * t + r
<1>6. (s * c + u) \div c = s
  <2>1. s \in Int /\ c \in Nat \ {0} /\ u \in 0 .. c - 1
    BY <1>2, <1>3, <1>5 DEF IsProduct
  <2>. HIDE DEF u
  <2>. QED
    BY <2>1, DivUnique
<1>. QED
  BY <1>5, <1>6 DEF s, q

(* A digit of the rest of a division by a power is one of the number.       *)
LEMMA DigitOfRest ==
  ASSUME NEW n \in Nat, NEW g \in Nat, NEW i \in 0 .. g - 1
  PROVE  ((n % Ten(g)) \div Ten(i)) % 10 = (n \div Ten(i)) % 10
<1>. DEFINE c == Ten(i)
            d == Ten(g - i - 1)
            q == n \div Ten(g)
            r == n % Ten(g)
            s == r \div c
            t == r % c
<1>1. c \in Nat \ {0} /\ d \in Nat \ {0} /\ Ten(g) \in Nat \ {0} /\ Ten(g) = 10 * (c * d)
  <2>1. i \in Nat /\ g - i - 1 \in Nat /\ g = (i + (g - i - 1)) + 1 /\ i + (g - i - 1) \in Nat
    OBVIOUS
  <2>2. Ten(i + (g - i - 1)) = c * d
    BY <2>1, TenOfSum
  <2>. QED
    BY <2>1, <2>2, Tens
<1>2. q \in Nat /\ r \in Nat /\ n = Ten(g) * q + r
  <2>. DEFINE p == Ten(g)
  <2>1. p \in Nat \ {0}
    BY <1>1
  <2>. HIDE DEF p
  <2>2. n \div p \in Nat /\ n % p \in 0 .. p - 1 /\ n = p * (n \div p) + (n % p)
    BY <2>1, DivModNat
  <2>. QED
    BY <2>1, <2>2 DEF p
<1>3. s \in Nat /\ t \in 0 .. c - 1 /\ r = c * s + t
  <2>. HIDE DEF r, c
  <2>. QED
    BY <1>1, <1>2, DivModNat
<1>. HIDE DEF c, d, q, r, s, t
<1>4. n = (10 * (d * q) + s) * c + t
  <2>1. (10 * (c * d)) * q + (c * s + t) = (10 * (d * q) + s) * c + t
    BY <1>1, <1>2, <1>3
  <2>. QED
    BY <1>1, <1>2, <1>3, <2>1
<1>. DEFINE w == 10 * (d * q) + s
<1>5. d * q \in Nat /\ w \in Nat
  BY <1>1, <1>2, <1>3
<1>6. n \div c = w
  <2>1. n = w * c + t /\ w \in Int
    BY <1>4, <1>5
  <2>. HIDE DEF w
  <2>2. (w * c + t) \div c = w
    BY <1>1, <1>3, <2>1, DivUnique
  <2>. QED
    BY <2>1, <2>2
<1>7. (10 * (d * q) + s) % 10 = s % 10
  <2>. DEFINE e == d * q
  <2>1. e \in Nat
    BY <1>5
  <2>. HIDE DEF e
  <2>2. (10 * e + s) % 10 = s % 10
    BY <1>3, <2>1
  <2>. QED
    BY <2>2 DEF e
<1>. QED
  BY <1>6, <1>7 DEF c, r, s

(* What a quotient is at least.                                             *)
LEMMA QuotientAtLeast ==
  ASSUME NEW n \in Nat, NEW a \in Nat \ {0}, NEW b \in Nat
  PROVE  a * b <= n <=> b <= n \div a
<1>. DEFINE q == n \div a
            r == n % a
<1>1. q \in Nat /\ r \in 0 .. a - 1 /\ n = a * q + r
  BY DivModNat
<1>. HIDE DEF q, r
<1>2. b <= q => a * b <= a * q
  BY <1>1
<1>3. b >= q + 1 => a * b >= a * (q + 1)
  BY <1>1
<1>4. a * (q + 1) = a * q + a
  BY <1>1
<1>5. a * b \in Int /\ a * q \in Int
  BY <1>1
<1>6. b <= q \/ b >= q + 1
  BY <1>1
<1>7. b <= q <=> a * b <= n
  BY <1>1, <1>2, <1>3, <1>4, <1>5, <1>6
<1>. QED
  BY <1>7 DEF q

(* A number that is not 0 has so many decimal digits.                       *)
HasDigits(n, d) == d \in Nat /\ d >= 1 /\ Ten(d - 1) <= n /\ n < Ten(d)

LEMMA DigitsExist ==
  ASSUME NEW n \in Nat \ {0}
  PROVE  \E d : HasDigits(n, d)
<1>. DEFINE T == { k \in Nat : n < Ten(k) }
<1>1. n \in T
  BY TenExceeds
<1>2. PICK d \in T : \A k \in T : d <= k
  <2>. HIDE DEF T
  <2>1. T \in SUBSET Nat
    BY DEF T
  <2>. QED
    BY <1>1, <2>1, Least
<1>3. d # 0
  BY <1>2, Tens
<1>4. d - 1 \in Nat /\ d - 1 \notin T
  BY <1>2, <1>3
<1>5. Ten(d - 1) \in Nat /\ ~ (n < Ten(d - 1))
  BY <1>4, Tens
<1>. QED
  BY <1>2, <1>4, <1>5 DEF HasDigits

LEMMA DigitsUnique ==
  ASSUME NEW n \in Nat, NEW d, NEW e, HasDigits(n, d), HasDigits(n, e)
  PROVE  d = e
<1>1. ASSUME NEW a, NEW b, HasDigits(n, a), HasDigits(n, b), a < b PROVE FALSE
  <2>1. a \in Nat /\ b - 1 \in Nat /\ a <= b - 1 /\ n < Ten(a) /\ Ten(b - 1) <= n
    BY <1>1 DEF HasDigits
  <2>2. Ten(a) \in Nat /\ Ten(b - 1) \in Nat
    BY <2>1, Tens
  <2>3. CASE a < b - 1
    <3>1. 10 * Ten(a) <= Ten(b - 1)
      BY <2>1, <2>3, TenGrows
    <3>. QED
      BY <2>1, <2>2, <3>1
  <2>4. CASE a = b - 1
    BY <2>1, <2>2, <2>4
  <2>. QED
    BY <2>1, <2>3, <2>4
<1>2. ~ (d < e) /\ ~ (e < d)
  BY <1>1
<1>. QED
  BY <1>2 DEF HasDigits

(* Fewer than all of the digits can be cut off.                             *)
LEMMA DigitsOfQuotient ==
  ASSUME NEW n \in Nat, NEW d, HasDigits(n, d), NEW t \in Nat, Ten(t) <= n
  PROVE  t < d /\ n \div Ten(t) \in Nat \ {0} /\ HasDigits(n \div Ten(t), d - t)
<1>. DEFINE a == Ten(t)
            q == n \div a
<1>1. a \in Nat \ {0} /\ d \in Nat /\ d >= 1 /\ Ten(d - 1) <= n /\ n < Ten(d)
  BY Tens DEF HasDigits
<1>2. Ten(d) \in Nat /\ Ten(d - 1) \in Nat
  <2>1. d - 1 \in Nat
    BY <1>1
  <2>. QED
    BY <1>1, <2>1, Tens
<1>3. t < d
  <2>1. CASE d < t
    <3>1. 10 * Ten(d) <= a
      BY <1>1, <2>1, TenGrows
    <3>. QED
      BY <1>1, <1>2, <3>1
  <2>2. CASE d = t
    BY <1>1, <1>2, <2>2
  <2>. QED
    BY <1>1, <2>1, <2>2
<1>. DEFINE e == d - t
<1>4. e \in Nat /\ e >= 1 /\ e - 1 \in Nat /\ t + e = d /\ t + (e - 1) = d - 1
  BY <1>1, <1>3
<1>5. Ten(d) = a * Ten(e) /\ Ten(d - 1) = a * Ten(e - 1) /\ Ten(e) \in Nat /\ Ten(e - 1) \in Nat
  <2>. HIDE DEF e
  <2>1. Ten(t + e) = Ten(t) * Ten(e) /\ Ten(t + (e - 1)) = Ten(t) * Ten(e - 1)
    BY <1>4, TenOfSum
  <2>2. Ten(e) \in Nat /\ Ten(e - 1) \in Nat
    BY <1>4, Tens
  <2>. QED
    BY <1>4, <2>1, <2>2
<1>6. q \in Nat
  <2>. HIDE DEF a
  <2>. QED
    BY <1>1, DivModNat
<1>. HIDE DEF a, e
<1>7. Ten(e - 1) <= q
  BY <1>1, <1>5, QuotientAtLeast
<1>8. ~ (Ten(e) <= q)
  <2>1. ~ (a * Ten(e) <= n)
    BY <1>1, <1>2, <1>5
  <2>. QED
    BY <1>1, <1>5, <2>1, QuotientAtLeast
<1>9. Ten(e - 1) >= 1
  BY <1>4, Tens
<1>10. q >= 1 /\ q < Ten(e)
  BY <1>5, <1>6, <1>7, <1>8, <1>9
<1>. QED
  BY <1>3, <1>4, <1>6, <1>7, <1>10 DEF HasDigits, a, e

(* The digits themselves, and what the reference makes of a number.         *)
Digits(n, d) == [i \in 1 .. d |-> (n \div Ten(d - i)) % 10]

DecimalFrom(f) == f = [m \in Nat |-> IF m < 10 THEN <<m>> ELSE Append(f[m \div 10], m % 10)]

LEMMA OneDigit ==
  ASSUME NEW n \in 1 .. 9
  PROVE  HasDigits(n, 1) /\ Digits(n, 1) = <<n>>
<1>1. Ten(0) = 1 /\ Ten(1) = 10
  <2>1. 0 \in Nat /\ 0 + 1 = 1
    OBVIOUS
  <2>. QED
    BY <2>1, Tens
<1>2. HasDigits(n, 1)
  <2>1. 1 - 1 = 0
    OBVIOUS
  <2>. QED
    BY <1>1, <2>1 DEF HasDigits
<1>3. (n \div 1) % 10 = n
  OBVIOUS
<1>4. ASSUME NEW i \in 1 .. 1 PROVE (n \div Ten(1 - i)) % 10 = <<n>>[i]
  <2>1. i = 1 /\ 1 - i = 0
    OBVIOUS
  <2>. QED
    BY <1>1, <1>3, <2>1
<1>5. Digits(n, 1) = [i \in 1 .. 1 |-> <<n>>[i]]
  BY <1>4 DEF Digits
<1>6. <<n>> = [i \in 1 .. 1 |-> <<n>>[i]]
  OBVIOUS
<1>. QED
  BY <1>2, <1>5, <1>6

LEMMA OneDigitMore ==
  ASSUME NEW n \in Nat, n >= 10, NEW d, HasDigits(n, d)
  PROVE  /\ HasDigits(n \div 10, d - 1) /\ n \div 10 \in Nat \ {0} /\ n \div 10 < n
         /\ Digits(n, d) = Append(Digits(n \div 10, d - 1), n % 10)
<1>1. Ten(0) = 1 /\ Ten(1) = 10
  <2>1. 0 \in Nat /\ 0 + 1 = 1
    OBVIOUS
  <2>. QED
    BY <2>1, Tens
<1>. DEFINE q == n \div 10
<1>2. HasDigits(q, d - 1) /\ q \in Nat \ {0}
  BY <1>1, DigitsOfQuotient
<1>3. q < n
  OBVIOUS
<1>4. d - 1 \in Nat /\ d \in Nat /\ d >= 2
  BY <1>2 DEF HasDigits
<1>5. ASSUME NEW i \in 1 .. d - 1 PROVE q \div Ten((d - 1) - i) = n \div Ten(d - i)
  <2>1. PICK k \in Nat : (d - 1) - i = k /\ d - i = k + 1
    <3>1. (d - 1) - i \in Nat /\ d - i = (d - 1) - i + 1
      BY <1>4
    <3>. QED
      BY <3>1
  <2>. DEFINE p == Ten(k)
  <2>2. p \in Nat \ {0} /\ Ten(k + 1) = 10 * p
    BY Tens
  <2>. HIDE DEF p
  <2>3. (n \div 10) \div p = n \div Ten(k + 1)
    <3>1. 10 \in Nat \ {0} /\ IsProduct(Ten(k + 1), 10, p)
      BY <2>2 DEF IsProduct
    <3>. QED
      BY <2>2, <3>1, Quotients
  <2>. QED
    BY <2>1, <2>2, <2>3 DEF p
<1>6. (n \div Ten(d - d)) % 10 = n % 10
  <2>1. d - d = 0 /\ n \div 1 = n
    BY <1>4
  <2>. QED
    BY <1>1, <2>1
<1>. HIDE DEF q
<1>. DEFINE s == Digits(q, d - 1)
            u == Append(s, n % 10)
<1>7. Len(s) = d - 1 /\ s \in Seq(Int)
  <2>1. ASSUME NEW i \in 1 .. d - 1 PROVE (q \div Ten((d - 1) - i)) % 10 \in Int
    <3>1. q \div Ten((d - 1) - i) \in Int
      <4>1. (d - 1) - i \in Nat
        BY <1>4
      <4>. DEFINE p == Ten((d - 1) - i)
      <4>2. p \in Nat \ {0}
        BY <4>1, Tens
      <4>. HIDE DEF p
      <4>3. q \div p \in Nat
        BY <1>2, <4>2, DivModNat
      <4>. QED
        BY <4>3 DEF p
    <3>. QED
      BY <3>1
  <2>. QED
    BY <1>4, <2>1 DEF Digits
<1>8. u = [i \in 1 .. d |-> u[i]]
  BY <1>4, <1>7
<1>9. ASSUME NEW i \in 1 .. d PROVE u[i] = (n \div Ten(d - i)) % 10
  <2>1. CASE i = d
    <3>1. u[i] = n % 10
      BY <1>4, <1>7, <2>1
    <3>. QED
      BY <1>6, <2>1, <3>1
  <2>2. CASE i # d
    <3>1. i \in 1 .. d - 1
      BY <1>4, <2>2
    <3>2. u[i] = s[i]
      BY <1>4, <1>7, <3>1
    <3>3. s[i] = (q \div Ten((d - 1) - i)) % 10
      BY <3>1 DEF Digits
    <3>. QED
      BY <1>5, <3>1, <3>2, <3>3
  <2>. QED
    BY <2>1, <2>2
<1>. HIDE DEF u
<1>10. Digits(n, d) = u
  BY <1>8, <1>9 DEF Digits
<1>. QED
  BY <1>2, <1>3, <1>10 DEF u, q

LEMMA DecimalExists == \E f : DecimalFrom(f)
<1>. DEFINE D(m) == CHOOSE d : HasDigits(m, d)
            f == [m \in Nat |-> IF m = 0 THEN <<0>> ELSE Digits(m, D(m))]
<1>1. ASSUME NEW m \in Nat \ {0} PROVE HasDigits(m, D(m))
  BY DigitsExist
<1>. HIDE DEF D
<1>2. ASSUME NEW m \in Nat PROVE f[m] = IF m < 10 THEN <<m>> ELSE Append(f[m \div 10], m % 10)
  <2>1. CASE m = 0
    BY <2>1
  <2>2. CASE m \in 1 .. 9
    <3>1. D(m) = 1
      BY <1>1, <2>2, OneDigit, DigitsUnique
    <3>. QED
      BY <2>2, <3>1, OneDigit
  <2>3. CASE m >= 10
    <3>. DEFINE q == m \div 10
    <3>1. /\ HasDigits(q, D(m) - 1) /\ q \in Nat \ {0}
          /\ Digits(m, D(m)) = Append(Digits(q, D(m) - 1), m % 10)
      <4>1. PICK d : d = D(m)
        OBVIOUS
      <4>2. HasDigits(m, d)
        BY <1>1, <2>3, <4>1
      <4>. QED
        BY <2>3, <4>1, <4>2, OneDigitMore
    <3>. HIDE DEF q
    <3>2. D(q) = D(m) - 1
      BY <1>1, <3>1, DigitsUnique
    <3>3. f[m] = Digits(m, D(m)) /\ f[q] = Digits(q, D(q))
      BY <2>3, <3>1
    <3>. HIDE DEF f
    <3>4. f[m] = Append(f[q], m % 10) /\ ~ (m < 10)
      BY <2>3, <3>1, <3>2, <3>3
    <3>. QED
      BY <3>4 DEF q
  <2>. QED
    BY <2>1, <2>2, <2>3
<1>3. f = [m \in Nat |-> f[m]]
  OBVIOUS
<1>. HIDE DEF f
<1>. QED
  BY <1>2, <1>3 DEF DecimalFrom

LEMMA DecimalIs ==
  ASSUME NEW n \in Nat \ {0}, NEW d, HasDigits(n, d)
  PROVE  Decimal(n) = Digits(n, d)
<1>. DEFINE f == CHOOSE f : DecimalFrom(f)
<1>1. Decimal(n) = f[n]
  BY DEF Decimal, DecimalFrom
<1>2. DecimalFrom(f)
  BY DecimalExists
<1>. HIDE DEF f
<1>3. \A m \in Nat : f[m] = IF m < 10 THEN <<m>> ELSE Append(f[m \div 10], m % 10)
  BY <1>2 DEF DecimalFrom
<1>. DEFINE Odd == { m \in Nat \ {0} : \E e : HasDigits(m, e) /\ f[m] # Digits(m, e) }
<1>4. SUFFICES ASSUME Odd # {} PROVE FALSE
  BY <1>1
<1>5. PICK m \in Odd : \A y \in Odd : m <= y
  <2>1. Odd \in SUBSET Nat
    OBVIOUS
  <2>. HIDE DEF Odd
  <2>. QED
    BY <1>4, <2>1, Least
<1>6. PICK e : HasDigits(m, e) /\ f[m] # Digits(m, e)
  BY <1>5
<1>7. m \in Nat \ {0}
  BY <1>5
<1>8. CASE m < 10
  <2>1. m \in 1 .. 9
    BY <1>7, <1>8
  <2>2. HasDigits(m, 1) /\ Digits(m, 1) = <<m>>
    BY <2>1, OneDigit
  <2>3. e = 1
    BY <1>6, <1>7, <2>2, DigitsUnique
  <2>. QED
    BY <1>3, <1>6, <1>7, <1>8, <2>2, <2>3
<1>9. CASE ~ (m < 10)
  <2>. DEFINE q == m \div 10
  <2>1. /\ HasDigits(q, e - 1) /\ q \in Nat \ {0} /\ q < m
        /\ Digits(m, e) = Append(Digits(q, e - 1), m % 10)
    BY <1>6, <1>7, <1>9, OneDigitMore
  <2>2. f[m] = Append(f[q], m % 10)
    BY <1>3, <1>7, <1>9
  <2>. HIDE DEF q
  <2>3. q \notin Odd
    BY <1>5, <1>7, <2>1
  <2>4. f[q] = Digits(q, e - 1)
    BY <2>1, <2>3
  <2>. QED
    BY <1>6, <2>1, <2>2, <2>4
<1>. QED
  BY <1>8, <1>9

-----------------------------------------------------------------------------
(* What zstr_length and the conversion of a group make of a number.         *)

(* zstr_length's loop stops with a power that divides the number.           *)
SquareExceeds(num, k) == num \div Ten(2 ^ k) < Ten(2 ^ k)
SquaringsFrom(num, f) == f = [k \in Nat |-> IF SquareExceeds(num, k) THEN k ELSE f[k + 1]]

(* The exponent of which the loop squares the power is a number.            *)
LEMMA SquaredPower ==
  ASSUME NEW k \in Nat
  PROVE  /\ 2 ^ k \in Nat /\ 2 ^ k > k /\ 2 ^ k >= 1
         /\ Ten(2 ^ k) \in Nat \ {0} /\ Ten(2 ^ k) > k
         /\ Ten(2 ^ (k + 1)) = Ten(2 ^ k) * Ten(2 ^ k)
<1>1. 2 ^ k \in Nat /\ 2 ^ k > k /\ 2 ^ k >= 1
  BY Positive, Exceeds
<1>. DEFINE e == 2 ^ k
<1>2. Ten(e) \in Nat \ {0} /\ Ten(e) > e
  <2>. HIDE DEF e
  <2>1. e \in Nat
    BY <1>1 DEF e
  <2>. QED
    BY <2>1, Tens, TenExceeds
<1>3. Ten(e + e) = Ten(e) * Ten(e)
  <2>. HIDE DEF e
  <2>1. e \in Nat
    BY <1>1 DEF e
  <2>. QED
    BY <2>1, TenOfSum
<1>4. 2 ^ (k + 1) = e + e
  BY <1>1, Doubling
<1>. QED
  BY <1>1, <1>2, <1>3, <1>4

LEMMA SquaringsExist ==
  ASSUME NEW num \in Nat
  PROVE  \E f : SquaringsFrom(num, f)
<1>. DEFINE First(k, i) == /\ i \in Nat /\ i >= k /\ SquareExceeds(num, i)
                           /\ \A j \in k .. i - 1 : ~ SquareExceeds(num, j)
            f == [k \in Nat |-> CHOOSE i : First(k, i)]
<1>1. ASSUME NEW k \in Nat PROVE \E i : First(k, i)
  <2>. DEFINE T == { i \in Nat : i >= k /\ SquareExceeds(num, i) }
              m == num + k
              p == Ten(2 ^ m)
  <2>1. m \in Nat /\ m >= k /\ p \in Nat \ {0} /\ p > num
    <3>1. m \in Nat /\ m >= k /\ m >= num
      OBVIOUS
    <3>. HIDE DEF m
    <3>2. Ten(2 ^ m) \in Nat \ {0} /\ Ten(2 ^ m) > m
      BY <3>1, SquaredPower
    <3>. QED
      BY <3>1, <3>2
  <2>. HIDE DEF m, p
  <2>2. num \div p < p
    <3>1. num \div p \in Nat /\ num \div p <= num
      BY <2>1, DivModNat
    <3>. QED
      BY <2>1, <3>1
  <2>3. m \in T
    BY <2>1, <2>2 DEF SquareExceeds, p
  <2>4. PICK i \in T : \A y \in T : i <= y
    <3>1. T \in SUBSET Nat
      OBVIOUS
    <3>. HIDE DEF T
    <3>. QED
      BY <2>3, <3>1, Least
  <2>5. ASSUME NEW j \in k .. i - 1 PROVE ~ SquareExceeds(num, j)
    <3>1. j \in Nat /\ j >= k /\ ~ (i <= j)
      BY <2>4
    <3>. QED
      BY <2>4, <3>1
  <2>. QED
    BY <2>4, <2>5
<1>2. ASSUME NEW k \in Nat, NEW i, NEW j, First(k, i), First(k, j) PROVE i = j
  <2>1. ~ (i < j) /\ ~ (j < i)
    BY <1>2
  <2>. QED
    BY <1>2, <2>1
<1>3. ASSUME NEW k \in Nat PROVE f[k] = IF SquareExceeds(num, k) THEN k ELSE f[k + 1]
  <2>1. First(k, f[k]) /\ First(k + 1, f[k + 1])
    <3>1. k + 1 \in Nat /\ f[k] = (CHOOSE i : First(k, i)) /\ f[k + 1] = (CHOOSE i : First(k + 1, i))
      OBVIOUS
    <3>. HIDE DEF First, f
    <3>2. First(k, CHOOSE i : First(k, i)) /\ First(k + 1, CHOOSE i : First(k + 1, i))
      BY <1>1, <3>1
    <3>. QED
      BY <3>1, <3>2
  <2>. HIDE DEF f
  <2>2. CASE SquareExceeds(num, k)
    <3>1. First(k, k)
      BY <2>2
    <3>. HIDE DEF First
    <3>. QED
      BY <1>2, <2>1, <2>2, <3>1
  <2>3. CASE ~ SquareExceeds(num, k)
    <3>1. First(k, f[k + 1])
      BY <2>1, <2>3
    <3>. HIDE DEF First
    <3>. QED
      BY <1>2, <2>1, <2>3, <3>1
  <2>. QED
    BY <2>2, <2>3
<1>4. f = [k \in Nat |-> f[k]]
  OBVIOUS
<1>. HIDE DEF f
<1>. QED
  BY <1>3, <1>4 DEF SquaringsFrom

LEMMA SquaringsIs ==
  ASSUME NEW num \in Nat, num >= 10
  PROVE  Squarings(num) \in Nat /\ Ten(2 ^ Squarings(num)) <= num
<1>. DEFINE f == CHOOSE f : SquaringsFrom(num, f)
<1>1. Squarings(num) = f[0]
  BY DEF Squarings, SquaringsFrom, SquareExceeds
<1>2. SquaringsFrom(num, f)
  BY SquaringsExist
<1>. HIDE DEF f
<1>3. \A k \in Nat : f[k] = IF SquareExceeds(num, k) THEN k ELSE f[k + 1]
  BY <1>2 DEF SquaringsFrom
<1>. DEFINE Right(k) == f[k] \in Nat /\ Ten(2 ^ f[k]) <= num
            Odd == { y \in 0 .. num : Ten(2 ^ (num - y)) <= num /\ ~ Right(num - y) }
<1>4. Ten(2 ^ 0) <= num
  <2>1. 2 ^ 0 = 1 /\ 0 + 1 = 1
    OBVIOUS
  <2>2. Ten(1) = 10
    BY <2>1, Tens
  <2>. QED
    BY <2>1, <2>2
<1>5. SUFFICES ASSUME Odd # {} PROVE FALSE
  <2>1. num \in 0 .. num /\ num - num = 0
    OBVIOUS
  <2>2. num \notin Odd
    <3>. HIDE DEF Odd
    <3>. QED
      BY <1>5
  <2>3. Right(0)
    BY <1>4, <2>1, <2>2
  <2>. QED
    BY <1>1, <2>3
<1>6. PICK y \in Odd : \A z \in Odd : y <= z
  <2>1. Odd \in SUBSET Nat
    OBVIOUS
  <2>. HIDE DEF Odd
  <2>. QED
    BY <1>5, <2>1, Least
<1>. DEFINE k == num - y
<1>7. k \in Nat /\ Ten(2 ^ k) <= num /\ ~ Right(k) /\ y = num - k /\ y \in 0 .. num
  BY <1>6
<1>. HIDE DEF k
<1>8. ~ SquareExceeds(num, k)
  BY <1>3, <1>7
<1>9. f[k] = f[k + 1] /\ k + 1 \in Nat
  BY <1>3, <1>7, <1>8
<1>. DEFINE p == Ten(2 ^ k)
            s == Ten(2 ^ (k + 1))
<1>10. p \in Nat \ {0} /\ s = p * p /\ s > k + 1 /\ s \in Nat
  BY <1>7, <1>9, SquaredPower
<1>11. s <= num
  <2>1. p <= num \div p
    <3>1. ~ (num \div p < p)
      BY <1>8 DEF SquareExceeds
    <3>. HIDE DEF p, s
    <3>2. num \div p \in Nat
      BY <1>10, DivModNat
    <3>. QED
      BY <1>10, <3>1, <3>2
  <2>. HIDE DEF p, s
  <2>. QED
    BY <1>10, <2>1, QuotientAtLeast
<1>12. k + 1 <= num
  <2>. HIDE DEF p, s
  <2>. QED
    BY <1>9, <1>10, <1>11
<1>13. y - 1 \in 0 .. num /\ num - (y - 1) = k + 1 /\ y - 1 < y
  BY <1>7, <1>9, <1>12
<1>14. y - 1 \notin Odd
  <2>. HIDE DEF Odd
  <2>. QED
    BY <1>6, <1>7, <1>13
<1>15. Right(k + 1)
  BY <1>11, <1>13, <1>14
<1>. QED
  BY <1>7, <1>9, <1>15

(* The loop of zstr_length counts the digits.                               *)
SizeFrom(f) ==
  f = [num \in Nat |->
        IF num = 0 THEN 1
        ELSE IF num < 10 THEN f[0]
        ELSE 2 ^ Squarings(num) + f[num \div Ten(2 ^ Squarings(num))]]

LEMMA DigitsSplit ==
  ASSUME NEW n \in Nat, n >= 10, NEW d, HasDigits(n, d), NEW t, t = 2 ^ Squarings(n)
  PROVE  /\ t \in Nat /\ HasDigits(n \div Ten(t), d - t) /\ d \in Nat
         /\ n \div Ten(t) \in Nat \ {0} /\ n \div Ten(t) < n
<1>1. t \in Nat /\ t >= 1 /\ Ten(t) <= n
  BY SquaringsIs, SquaredPower
<1>2. HasDigits(n \div Ten(t), d - t) /\ n \div Ten(t) \in Nat \ {0}
  BY <1>1, DigitsOfQuotient
<1>3. Ten(t) \in Nat /\ Ten(t) >= 2
  BY <1>1, TenExceeds, Tens
<1>. DEFINE a == Ten(t)
<1>4. n \div a < n
  <2>. HIDE DEF a
  <2>1. a \in Nat \ {0} /\ a >= 2
    BY <1>3 DEF a
  <2>. DEFINE q == n \div a
              r == n % a
  <2>2. q \in Nat /\ r \in 0 .. a - 1 /\ n = a * q + r
    BY <2>1, DivModNat
  <2>. HIDE DEF q, r
  <2>3. a * q >= 2 * q
    BY <2>1, <2>2
  <2>4. q < n
    BY <2>1, <2>2, <2>3
  <2>. QED
    BY <2>4 DEF q
<1>. QED
  BY <1>1, <1>2, <1>4 DEF HasDigits

LEMMA SizeExists == \E f : SizeFrom(f)
<1>. DEFINE D(m) == CHOOSE d : HasDigits(m, d)
            f == [m \in Nat |-> IF m = 0 THEN 1 ELSE D(m)]
            Next10(m) == m \div Ten(2 ^ Squarings(m))
<1>1. ASSUME NEW m \in Nat \ {0} PROVE HasDigits(m, D(m))
  BY DigitsExist
<1>. HIDE DEF D
<1>2. ASSUME NEW m \in Nat
      PROVE  f[m] = IF m = 0 THEN 1 ELSE IF m < 10 THEN f[0]
                    ELSE 2 ^ Squarings(m) + f[Next10(m)]
  <2>1. CASE m = 0
    BY <2>1
  <2>2. CASE m \in 1 .. 9
    <3>1. D(m) = 1
      BY <1>1, <2>2, OneDigit, DigitsUnique
    <3>. QED
      BY <2>2, <3>1
  <2>3. CASE m >= 10
    <3>. DEFINE t == 2 ^ Squarings(m)
                q == m \div Ten(t)
    <3>1. PICK d : d = D(m) /\ HasDigits(m, d)
      BY <1>1, <2>3
    <3>2. t \in Nat /\ HasDigits(q, d - t) /\ d \in Nat /\ q \in Nat \ {0}
      BY <2>3, <3>1, DigitsSplit
    <3>. HIDE DEF q
    <3>3. D(q) = d - t
      BY <1>1, <3>2, DigitsUnique
    <3>4. f[m] = d /\ f[q] = d - t
      BY <2>3, <3>1, <3>2, <3>3
    <3>. HIDE DEF t, f
    <3>5. f[m] = t + f[q] /\ ~ (m < 10) /\ m # 0
      BY <2>3, <3>2, <3>4
    <3>. QED
      BY <3>5 DEF q, t
  <2>. QED
    BY <2>1, <2>2, <2>3
<1>3. f = [m \in Nat |-> f[m]]
  OBVIOUS
<1>. HIDE DEF f
<1>. QED
  BY <1>2, <1>3 DEF SizeFrom

LEMMA ZstrLengthIs ==
  ASSUME NEW n \in Nat \ {0}
  PROVE  HasDigits(n, ZstrLength(n))
<1>. DEFINE f == CHOOSE f : SizeFrom(f)
<1>1. ZstrLength(n) = f[n]
  BY DEF ZstrLength, SizeFrom
<1>2. SizeFrom(f)
  BY SizeExists
<1>. HIDE DEF f
<1>3. \A m \in Nat : f[m] = IF m = 0 THEN 1 ELSE IF m < 10 THEN f[0]
                            ELSE 2 ^ Squarings(m) + f[m \div Ten(2 ^ Squarings(m))]
  BY <1>2 DEF SizeFrom
<1>. DEFINE Odd == { m \in Nat \ {0} : ~ HasDigits(m, f[m]) }
<1>4. SUFFICES ASSUME Odd # {} PROVE FALSE
  BY <1>1
<1>5. PICK m \in Odd : \A y \in Odd : m <= y
  <2>1. Odd \in SUBSET Nat
    OBVIOUS
  <2>. HIDE DEF Odd
  <2>. QED
    BY <1>4, <2>1, Least
<1>6. m \in Nat \ {0} /\ ~ HasDigits(m, f[m])
  BY <1>5
<1>7. CASE m < 10
  <2>1. f[m] = 1 /\ m \in 1 .. 9
    BY <1>3, <1>6, <1>7
  <2>. QED
    BY <1>6, <2>1, OneDigit
<1>8. CASE ~ (m < 10)
  <2>. DEFINE t == 2 ^ Squarings(m)
              q == m \div Ten(t)
  <2>1. PICK d : HasDigits(m, d)
    BY <1>6, DigitsExist
  <2>2. t \in Nat /\ HasDigits(q, d - t) /\ d \in Nat /\ q \in Nat \ {0} /\ q < m
    BY <1>6, <1>8, <2>1, DigitsSplit
  <2>3. f[m] = t + f[q]
    BY <1>3, <1>6, <1>8
  <2>. HIDE DEF q, t
  <2>4. q \notin Odd
    BY <1>5, <1>6, <2>2
  <2>5. f[q] = d - t
    BY <2>2, <2>4, DigitsUnique
  <2>6. f[m] = d
    BY <2>2, <2>3, <2>5
  <2>. QED
    BY <1>6, <2>1, <2>6
<1>. QED
  BY <1>7, <1>8

(* sprintint_min leaves the digits of a group that is not 0.                *)
LEMMA MinimalGroup ==
  ASSUME NEW v \in Nat \ {0}, NEW d, HasDigits(v, d), v < Ten(GroupDigits)
  PROVE  sprintint_min(v) = Digits(v, d) /\ d \in 1 .. GroupDigits
<1>. DEFINE G == GroupDigits
            all == sprintint_fix(v)
            S == { i \in 1 .. G : all[i] # 0 }
            first == G - d + 1
<1>1. G \in Nat /\ G >= 1 /\ d \in Nat /\ d >= 1 /\ v < Ten(G) /\ Ten(d - 1) <= v /\ v < Ten(d)
  BY GroupAssumption DEF HasDigits
<1>2. d <= G
  <2>1. Ten(d - 1) \in Nat /\ Ten(G) \in Nat /\ d - 1 \in Nat
    BY <1>1, Tens
  <2>2. G < d - 1 => 10 * Ten(G) <= Ten(d - 1)
    BY <1>1, <2>1, TenGrows
  <2>3. G # d - 1
    BY <1>1, <2>1
  <2>. QED
    BY <1>1, <2>1, <2>2, <2>3
<1>3. \A i \in 1 .. G : all[i] = (v \div Ten(G - i)) % 10
  BY DEF sprintint_fix
<1>4. ASSUME NEW i \in 1 .. G - d PROVE all[i] = 0
  <2>. DEFINE a == Ten(G - i)
  <2>1. G - i \in Nat /\ d <= G - i /\ i \in 1 .. G
    BY <1>1, <1>2
  <2>2. a \in Nat \ {0} /\ Ten(d) \in Nat
    BY <1>1, <2>1, Tens
  <2>3. v < a
    <3>1. d < G - i => 10 * Ten(d) <= Ten(G - i)
      BY <1>1, <2>1, TenGrows
    <3>. QED
      BY <1>1, <2>1, <2>2, <3>1
  <2>4. v \div a = 0
    <3>. HIDE DEF a
    <3>1. v \in 0 .. a - 1 /\ 0 * a + v = v
      BY <2>2, <2>3
    <3>. QED
      BY <2>2, <3>1, DivUnique
  <2>. QED
    BY <1>3, <2>1, <2>4
<1>5. all[first] # 0 /\ first \in 1 .. G
  <2>1. first \in 1 .. G /\ G - first = d - 1 /\ d - 1 \in Nat
    BY <1>1, <1>2
  <2>2. v \div Ten(d - 1) \in 1 .. 9
    <3>1. HasDigits(v \div Ten(d - 1), d - (d - 1)) /\ v \div Ten(d - 1) \in Nat \ {0}
      BY <1>1, <2>1, DigitsOfQuotient
    <3>2. d - (d - 1) = 1 /\ Ten(1) = 10
      <4>1. 0 \in Nat /\ 0 + 1 = 1
        OBVIOUS
      <4>. QED
        BY <1>1, <4>1, Tens
    <3>. QED
      BY <3>1, <3>2 DEF HasDigits
  <2>3. (v \div Ten(d - 1)) % 10 # 0
    <3>. DEFINE w == v \div Ten(d - 1)
    <3>. HIDE DEF w
    <3>1. w \in 1 .. 9
      BY <2>2 DEF w
    <3>2. w % 10 # 0
      BY <3>1
    <3>. QED
      BY <3>2 DEF w
  <2>4. all[first] = (v \div Ten(G - first)) % 10
    BY <1>3, <2>1
  <2>. QED
    BY <2>1, <2>3, <2>4
<1>6. Min(S) = first
  <2>1. first \in S /\ S \in SUBSET Nat
    BY <1>5
  <2>2. \A i \in S : first <= i
    <3>1. ASSUME NEW i \in S, ~ (first <= i) PROVE FALSE
      <4>1. i \in 1 .. G - d
        BY <1>1, <1>2, <3>1
      <4>. QED
        BY <1>4, <3>1, <4>1
    <3>. QED
      BY <3>1
  <2>. HIDE DEF S, first
  <2>3. Min(S) \in S /\ Min(S) <= first
    BY <2>1, MinIs
  <2>4. first <= Min(S) /\ first \in Nat /\ Min(S) \in Nat
    BY <2>1, <2>2, <2>3
  <2>. QED
    BY <2>3, <2>4
<1>7. sprintint_min(v) = SubSeq(all, first, G)
  BY <1>6 DEF sprintint_min
<1>8. SubSeq(all, first, G) = [i \in 1 .. d |-> all[i + first - 1]]
  <2>1. all \in Seq(Int) /\ Len(all) = G
    <3>1. ASSUME NEW i \in 1 .. G PROVE (v \div Ten(G - i)) % 10 \in Int
      <4>. DEFINE a == Ten(G - i)
      <4>1. a \in Nat \ {0}
        BY <1>1, Tens
      <4>. HIDE DEF a
      <4>2. v \div a \in Nat
        BY <4>1, DivModNat
      <4>3. (v \div a) % 10 \in Int
        BY <4>2
      <4>. QED
        BY <4>3 DEF a
    <3>. QED
      BY <1>1, <3>1 DEF sprintint_fix
  <2>2. G - first + 1 = d
    BY <1>1
  <2>. HIDE DEF all, first
  <2>3. SubSeq(all, first, G) = [i \in 1 .. (G - first + 1) |-> all[first + i - 1]]
    BY <1>1, <1>5, <2>1
  <2>. QED
    BY <1>5, <2>2, <2>3
<1>9. ASSUME NEW i \in 1 .. d PROVE all[i + first - 1] = (v \div Ten(d - i)) % 10
  <2>1. i + first - 1 \in 1 .. G /\ G - (i + first - 1) = d - i
    BY <1>1, <1>2
  <2>2. all[i + first - 1] = (v \div Ten(G - (i + first - 1))) % 10
    BY <1>3, <2>1
  <2>. QED
    BY <2>1, <2>2
<1>. HIDE DEF all, first
<1>. QED
  BY <1>1, <1>2, <1>7, <1>8, <1>9 DEF Digits

-----------------------------------------------------------------------------
(* What the programs compute with are numbers.                             *)

(* The elements of a sequence of digits, or of a string.                   *)
LEMMA Elements ==
  ASSUME NEW s \in Seq(Int), NEW i \in Nat, NEW n \in Nat, n <= i, i <= Len(s)
  PROVE  \A k \in 1 .. n : s[i - n + k] \in Int
<1>1. \A k \in 1 .. n : i - n + k \in 1 .. Len(s)
  OBVIOUS
<1>. QED
  BY <1>1

(* temp of zsets, for each number of digits: there is a function that the  *)
(* recursion defines.                                                      *)
TempFrom(s, j, n, t) == t = [k \in 0 .. n |-> IF k = 0 THEN 0 ELSE t[k - 1] * 10 + s[j + k]]

LEMMA TempExists ==
  ASSUME NEW s, NEW j, NEW n \in Nat
  PROVE  \E t : TempFrom(s, j, n, t)
<1>. DEFINE None == { m \in Nat : ~ \E t : TempFrom(s, j, m, t) }
<1>1. SUFFICES ASSUME None # {} PROVE FALSE
  OBVIOUS
<1>2. PICK m \in None : \A y \in None : m <= y
  BY <1>1, Least
<1>3. CASE m = 0
  <2>1. TempFrom(s, j, 0, [k \in 0 .. 0 |-> 0])
    BY DEF TempFrom
  <2>. QED
    BY <1>2, <1>3, <2>1
<1>4. CASE m # 0
  <2>1. m - 1 \in Nat /\ m - 1 \notin None
    BY <1>2, <1>4
  <2>2. PICK t : TempFrom(s, j, m - 1, t)
    BY <2>1
  <2>. DEFINE u == [k \in 0 .. m |-> IF k = m THEN t[m - 1] * 10 + s[j + m] ELSE t[k]]
  <2>3. \A k \in 0 .. m - 1 : t[k] = IF k = 0 THEN 0 ELSE t[k - 1] * 10 + s[j + k]
    BY <2>2 DEF TempFrom
  <2>4. ASSUME NEW k \in 0 .. m
        PROVE  u[k] = IF k = 0 THEN 0 ELSE u[k - 1] * 10 + s[j + k]
    <3>1. CASE k = m
      <4>1. u[k] = t[m - 1] * 10 + s[j + m] /\ k - 1 \in 0 .. m /\ k - 1 # m /\ k # 0
        BY <3>1, <1>4
      <4>2. u[k - 1] = t[m - 1]
        BY <4>1, <3>1
      <4>. QED
        BY <3>1, <4>1, <4>2
    <3>2. CASE k # m /\ k # 0
      <4>1. k \in 0 .. m - 1 /\ k - 1 \in 0 .. m /\ k - 1 # m
        BY <3>2
      <4>2. u[k] = t[k] /\ u[k - 1] = t[k - 1]
        BY <4>1, <3>2
      <4>. QED
        BY <3>2, <4>1, <4>2, <2>3
    <3>3. CASE k # m /\ k = 0
      BY <3>3, <2>3, <1>4
    <3>. QED
      BY <3>1, <3>2, <3>3
  <2>5. TempFrom(s, j, m, u)
    <3>1. u = [k \in 0 .. m |-> u[k]]
      OBVIOUS
    <3>. HIDE DEF u
    <3>. QED
      BY <3>1, <2>4 DEF TempFrom
  <2>. QED
    BY <1>2, <2>5
<1>. QED
  BY <1>3, <1>4

(* A group of digits is a number.                                          *)
LEMMA GroupInt ==
  ASSUME NEW s \in Seq(Int), NEW i \in Nat, NEW n \in Nat, n <= i, i <= Len(s)
  PROVE  Group(s, i, n) \in Int
<1>. DEFINE t == CHOOSE t : TempFrom(s, i - n, n, t)
<1>1. Group(s, i, n) = t[n]
  BY DEF Group, TempFrom
<1>2. TempFrom(s, i - n, n, t)
  BY TempExists
<1>. HIDE DEF t
<1>3. \A k \in 0 .. n : t[k] = IF k = 0 THEN 0 ELSE t[k - 1] * 10 + s[i - n + k]
  BY <1>2 DEF TempFrom
<1>. DEFINE Odd == { k \in 0 .. n : t[k] \notin Int }
<1>4. SUFFICES ASSUME Odd # {} PROVE FALSE
  BY <1>1
<1>5. PICK k \in Odd : \A y \in Odd : k <= y
  <2>1. Odd \in SUBSET Nat
    OBVIOUS
  <2>. HIDE DEF Odd
  <2>. QED
    BY <1>4, <2>1, Least
<1>6. k # 0
  BY <1>3, <1>5
<1>7. k - 1 \in 0 .. n /\ k - 1 \notin Odd /\ k \in 1 .. n
  BY <1>5, <1>6
<1>8. t[k - 1] \in Int /\ s[i - n + k] \in Int
  BY <1>7, Elements
<1>9. t[k] = t[k - 1] * 10 + s[i - n + k]
  BY <1>3, <1>6, <1>7
<1>. QED
  BY <1>5, <1>8, <1>9

(* a of zsets, likewise.                                                   *)
ByGroups(s, n, a) ==
  a = [i \in 0 .. n |-> IF i < GroupDigits THEN Group(s, i, i)
                        ELSE a[i - GroupDigits] * GroupBase + Group(s, i, GroupDigits)]

LEMMA ByGroupsExists ==
  ASSUME NEW s, NEW n \in Nat
  PROVE  \E a : ByGroups(s, n, a)
<1>. DEFINE None == { m \in Nat : ~ \E a : ByGroups(s, m, a) }
            G(i) == Group(s, i, i)
            H(i) == Group(s, i, GroupDigits)
<1>1. SUFFICES ASSUME None # {} PROVE FALSE
  OBVIOUS
<1>2. PICK m \in None : \A y \in None : m <= y
  BY <1>1, Least
<1>3. GroupDigits \in Nat /\ GroupDigits >= 1
  BY GroupAssumption
<1>4. CASE m = 0
  <2>. DEFINE a == [i \in 0 .. 0 |-> G(0)]
  <2>1. ByGroups(s, 0, a)
    BY <1>3 DEF ByGroups
  <2>. QED
    BY <1>2, <1>4, <2>1
<1>5. CASE m # 0
  <2>1. m - 1 \in Nat /\ m - 1 \notin None
    BY <1>2, <1>5
  <2>2. PICK a : ByGroups(s, m - 1, a)
    BY <2>1
  <2>. DEFINE New == IF m < GroupDigits THEN G(m)
                     ELSE a[m - GroupDigits] * GroupBase + H(m)
              u == [i \in 0 .. m |-> IF i = m THEN New ELSE a[i]]
  <2>3. \A i \in 0 .. m - 1 : a[i] = IF i < GroupDigits THEN G(i)
                                     ELSE a[i - GroupDigits] * GroupBase + H(i)
    BY <2>2 DEF ByGroups
  <2>. HIDE DEF G, H
  <2>4. ASSUME NEW i \in 0 .. m
        PROVE  u[i] = IF i < GroupDigits THEN G(i)
                      ELSE u[i - GroupDigits] * GroupBase + H(i)
    <3>1. i < GroupDigits \/ (i - GroupDigits \in 0 .. m /\ i - GroupDigits # m)
      BY <1>3
    <3>2. i < GroupDigits \/ u[i - GroupDigits] = a[i - GroupDigits]
      BY <3>1
    <3>3. CASE i = m
      BY <3>2, <3>3
    <3>4. CASE i # m
      <4>1. i \in 0 .. m - 1 /\ u[i] = a[i]
        BY <3>4
      <4>. QED
        BY <4>1, <3>2, <2>3
    <3>. QED
      BY <3>3, <3>4
  <2>5. ByGroups(s, m, u)
    <3>1. u = [i \in 0 .. m |-> u[i]]
      OBVIOUS
    <3>. HIDE DEF u
    <3>. QED
      BY <3>1, <2>4 DEF ByGroups, G, H
  <2>. QED
    BY <1>2, <2>5
<1>. QED
  BY <1>4, <1>5

(* Groups of digits put together are a number.                             *)
LEMMA GroupsInt ==
  ASSUME NEW s \in Seq(Int)
  PROVE  Groups(s) \in Int
<1>. DEFINE L == Len(s)
            a == CHOOSE a : ByGroups(s, L, a)
<1>1. Groups(s) = a[L]
  BY DEF Groups, ByGroups
<1>2. L \in Nat
  OBVIOUS
<1>3. ByGroups(s, L, a)
  BY <1>2, ByGroupsExists
<1>. HIDE DEF a
<1>4. \A i \in 0 .. L : a[i] = IF i < GroupDigits THEN Group(s, i, i)
                               ELSE a[i - GroupDigits] * GroupBase + Group(s, i, GroupDigits)
  BY <1>3 DEF ByGroups
<1>5. GroupDigits \in Nat /\ GroupDigits >= 1 /\ GroupBase \in Int
  BY GroupAssumption, Tens DEF GroupBase
<1>. DEFINE Odd == { i \in 0 .. L : a[i] \notin Int }
<1>6. SUFFICES ASSUME Odd # {} PROVE FALSE
  BY <1>1, <1>2
<1>7. PICK i \in Odd : \A y \in Odd : i <= y
  <2>1. Odd \in SUBSET Nat
    BY <1>2
  <2>. HIDE DEF Odd
  <2>. QED
    BY <1>6, <2>1, Least
<1>8. i \in Nat /\ i <= L /\ a[i] \notin Int
  BY <1>2, <1>7
<1>9. CASE i < GroupDigits
  <2>1. Group(s, i, i) \in Int
    BY <1>8, GroupInt
  <2>. QED
    BY <1>4, <1>7, <1>8, <1>9, <2>1
<1>10. CASE ~ (i < GroupDigits)
  <2>1. i - GroupDigits \in 0 .. L /\ i - GroupDigits \notin Odd /\ GroupDigits <= i
    BY <1>2, <1>5, <1>7, <1>8, <1>10
  <2>2. a[i - GroupDigits] \in Int /\ Group(s, i, GroupDigits) \in Int
    BY <1>5, <1>8, <2>1, GroupInt
  <2>3. a[i] = a[i - GroupDigits] * GroupBase + Group(s, i, GroupDigits)
    BY <1>4, <1>7, <1>10
  <2>. QED
    BY <1>5, <1>8, <2>2, <2>3
<1>. QED
  BY <1>9, <1>10

(* zsets returns a number.                                                 *)
LEMMA ZsetsInt ==
  ASSUME NEW str \in Seq(Int)
  PROVE  zsets(str) \in Int
<1>1. Unsigned(str) \in Seq(Int)
  BY DEF Unsigned, Signed
<1>2. Groups(Unsigned(str)) \in Int
  BY <1>1, GroupsInt
<1>. QED
  BY <1>2 DEF zsets

(* What zsets puts together group by group is the number that the digits    *)
(* stand for one by one.                                                    *)
LEMMA TempIs ==
  ASSUME NEW s \in Seq(Int), NEW j \in Nat, NEW n \in Nat, j + n <= Len(s), NEW t, TempFrom(s, j, n, t)
  PROVE  /\ t[0] = 0
         /\ \A k \in 0 .. n : t[k] \in Int
         /\ \A k \in 0 .. n - 1 : t[k + 1] = t[k] * 10 + s[j + k + 1] /\ s[j + k + 1] \in Int
<1>1. \A k \in 0 .. n : t[k] = IF k = 0 THEN 0 ELSE t[k - 1] * 10 + s[j + k]
  BY DEF TempFrom
<1>2. t[0] = 0
  BY <1>1
<1>3. ASSUME NEW k \in 0 .. n - 1 PROVE t[k + 1] = t[k] * 10 + s[j + k + 1] /\ s[j + k + 1] \in Int
  <2>1. k + 1 \in 0 .. n /\ k + 1 # 0 /\ k + 1 - 1 = k /\ j + (k + 1) = j + k + 1
    OBVIOUS
  <2>2. j + k + 1 \in 1 .. Len(s)
    OBVIOUS
  <2>3. t[k + 1] = t[k] * 10 + s[j + k + 1]
    BY <1>1, <2>1
  <2>. QED
    BY <2>2, <2>3
<1>. DEFINE T == { k \in 0 .. n : t[k] \in Int }
<1>4. ASSUME NEW k \in 0 .. n PROVE t[k] \in Int
  <2>1. 0 \in T
    BY <1>2
  <2>2. ASSUME NEW i \in 0 .. k - 1, i \in T PROVE i + 1 \in T
    <3>1. i \in 0 .. n - 1 /\ i + 1 \in 0 .. n
      OBVIOUS
    <3>2. t[i + 1] = t[i] * 10 + s[j + i + 1] /\ s[j + i + 1] \in Int
      BY <1>3, <3>1
    <3>. QED
      BY <2>2, <3>1, <3>2
  <2>. HIDE DEF T
  <2>3. k \in T
    BY <2>1, <2>2, Induct
  <2>. QED
    BY <2>3 DEF T
<1>. QED
  BY <1>2, <1>3, <1>4

LEMMA GroupShifts ==
  ASSUME NEW s \in Seq(Int), NEW j \in Nat, NEW n \in Nat, j + n <= Len(s),
         NEW v, TempFrom(s, 0, Len(s), v)
  PROVE  v[j + n] = v[j] * Ten(n) + Group(s, j + n, n) /\ v[j] \in Int
<1>. DEFINE t == CHOOSE t : TempFrom(s, j, n, t)
<1>1. Group(s, j + n, n) = t[n]
  <2>1. (j + n) - n = j
    OBVIOUS
  <2>. QED
    BY <2>1 DEF Group, TempFrom
<1>2. TempFrom(s, j, n, t)
  BY TempExists
<1>. HIDE DEF t
<1>3. /\ t[0] = 0
      /\ \A k \in 0 .. n : t[k] \in Int
      /\ \A k \in 0 .. n - 1 : t[k + 1] = t[k] * 10 + s[j + k + 1] /\ s[j + k + 1] \in Int
  BY <1>2, TempIs
<1>4. /\ \A k \in 0 .. Len(s) : v[k] \in Int
      /\ \A k \in 0 .. Len(s) - 1 : v[k + 1] = v[k] * 10 + s[0 + k + 1]
  <2>1. Len(s) \in Nat /\ 0 + Len(s) <= Len(s) /\ 0 \in Nat
    OBVIOUS
  <2>. QED
    BY <2>1, TempIs
<1>5. v[j] \in Int
  <2>1. j \in 0 .. Len(s)
    OBVIOUS
  <2>. QED
    BY <1>4, <2>1
<1>. DEFINE T == { k \in 0 .. n : v[j + k] = v[j] * Ten(k) + t[k] }
<1>6. 0 \in T
  <2>1. v[j] * 1 + 0 = v[j] /\ j + 0 = j /\ 0 \in 0 .. n
    BY <1>5
  <2>2. Ten(0) = 1 /\ t[0] = 0
    BY <1>3, Tens
  <2>. QED
    BY <2>1, <2>2
<1>7. ASSUME NEW k \in 0 .. n - 1, k \in T PROVE k + 1 \in T
  <2>. DEFINE x == v[j]
              p == Ten(k)
              y == t[k]
              c == s[j + k + 1]
  <2>1. x \in Int /\ y \in Int /\ c \in Int /\ t[k + 1] = y * 10 + c /\ v[j + k] = x * p + y
    BY <1>3, <1>5, <1>7
  <2>2. p \in Nat /\ Ten(k + 1) = 10 * p
    <3>1. k \in Nat
      OBVIOUS
    <3>. QED
      BY <3>1, Tens
  <2>3. v[j + (k + 1)] = v[j + k] * 10 + c
    <3>1. j + k \in 0 .. Len(s) - 1 /\ j + (k + 1) = (j + k) + 1 /\ 0 + (j + k) + 1 = j + k + 1
      OBVIOUS
    <3>. QED
      BY <1>4, <3>1
  <2>. HIDE DEF x, p, y, c
  <2>4. (x * p + y) * 10 + c = x * (10 * p) + (y * 10 + c)
    BY <2>1, <2>2
  <2>5. v[j + (k + 1)] = x * Ten(k + 1) + t[k + 1]
    BY <2>1, <2>2, <2>3, <2>4
  <2>. QED
    BY <2>5 DEF x
<1>8. n \in T
  <2>. HIDE DEF T
  <2>. QED
    BY <1>6, <1>7, Induct
<1>. QED
  BY <1>1, <1>5, <1>8

LEMMA GroupsAre ==
  ASSUME NEW s \in Seq(Int), NEW v, TempFrom(s, 0, Len(s), v)
  PROVE  Groups(s) = v[Len(s)]
<1>. DEFINE L == Len(s)
            a == CHOOSE a : ByGroups(s, L, a)
<1>1. Groups(s) = a[L]
  BY DEF Groups, ByGroups
<1>2. L \in Nat
  OBVIOUS
<1>3. ByGroups(s, L, a)
  BY <1>2, ByGroupsExists
<1>. HIDE DEF a
<1>4. \A i \in 0 .. L : a[i] = IF i < GroupDigits THEN Group(s, i, i)
                               ELSE a[i - GroupDigits] * GroupBase + Group(s, i, GroupDigits)
  BY <1>3 DEF ByGroups
<1>5. GroupDigits \in Nat /\ GroupDigits >= 1 /\ GroupBase = Ten(GroupDigits)
  BY GroupAssumption DEF GroupBase
<1>. DEFINE Odd == { i \in 0 .. L : a[i] # v[i] }
<1>6. SUFFICES ASSUME Odd # {} PROVE FALSE
  BY <1>1, <1>2
<1>7. PICK i \in Odd : \A y \in Odd : i <= y
  <2>1. Odd \in SUBSET Nat
    BY <1>2
  <2>. HIDE DEF Odd
  <2>. QED
    BY <1>6, <2>1, Least
<1>8. i \in Nat /\ i <= L /\ a[i] # v[i]
  BY <1>2, <1>7
<1>9. CASE i < GroupDigits
  <2>1. v[0 + i] = v[0] * Ten(i) + Group(s, 0 + i, i)
    BY <1>8, GroupShifts
  <2>2. v[0] = 0 /\ Ten(i) \in Nat /\ 0 + i = i
    BY <1>8, Tens DEF TempFrom
  <2>3. Group(s, i, i) \in Int
    BY <1>8, GroupInt
  <2>4. v[i] = Group(s, i, i)
    BY <2>1, <2>2, <2>3
  <2>. QED
    BY <1>4, <1>7, <1>8, <1>9, <2>4
<1>10. CASE ~ (i < GroupDigits)
  <2>. DEFINE j == i - GroupDigits
  <2>1. j \in 0 .. L /\ j \notin Odd /\ j \in Nat /\ j + GroupDigits = i
    BY <1>2, <1>5, <1>7, <1>8, <1>10
  <2>2. a[j] = v[j]
    BY <2>1
  <2>3. a[i] = a[j] * GroupBase + Group(s, i, GroupDigits)
    BY <1>4, <1>7, <1>10
  <2>. HIDE DEF j
  <2>4. v[j + GroupDigits] = v[j] * Ten(GroupDigits) + Group(s, j + GroupDigits, GroupDigits)
    <3>1. j + GroupDigits <= Len(s)
      BY <1>8, <2>1
    <3>. QED
      BY <1>5, <2>1, <3>1, GroupShifts
  <2>. QED
    BY <1>5, <1>8, <2>1, <2>2, <2>3, <2>4
<1>. QED
  BY <1>9, <1>10

(* For groups of any length: zsets returns the number that the digits of a  *)
(* string of any length stand for, and what isprime, fact, fib and collatz  *)
(* are asked for is what AnswersRight takes as the question.                *)
THEOREM NumbersReadRight ==
  ASSUME NEW str \in Seq(Int), str # <<>>
  PROVE  zsets(str) = Value(str)
<1>. DEFINE s == Unsigned(str)
            v == CHOOSE v : TempFrom(s, 0, Len(s), v)
<1>1. s \in Seq(Int) /\ Len(s) \in Nat
  BY DEF Unsigned, Signed
<1>2. Value(str) = IF str[1] = Minus THEN - v[Len(s)] ELSE v[Len(s)]
  <2>1. ASSUME NEW k \in 0 .. Len(s) PROVE 0 + k = k
    BY <1>1
  <2>2. \A u : (u = [k \in 0 .. Len(s) |-> IF k = 0 THEN 0 ELSE u[k - 1] * 10 + s[k]])
               <=> TempFrom(s, 0, Len(s), u)
    BY <2>1 DEF TempFrom
  <2>3. (CHOOSE u : u = [k \in 0 .. Len(s) |-> IF k = 0 THEN 0 ELSE u[k - 1] * 10 + s[k]]) = v
    BY <2>2
  <2>4. Value(str) = LET u == CHOOSE u : u = [k \in 0 .. Len(s) |-> IF k = 0 THEN 0 ELSE u[k - 1] * 10 + s[k]]
                     IN  IF str[1] = Minus THEN - u[Len(s)] ELSE u[Len(s)]
    BY DEF Value
  <2>. HIDE DEF v, s
  <2>. QED
    BY <2>3, <2>4
<1>3. TempFrom(s, 0, Len(s), v)
  BY <1>1, TempExists
<1>. HIDE DEF v, s
<1>4. Groups(s) = v[Len(s)]
  BY <1>1, <1>3, GroupsAre
<1>. QED
  BY <1>2, <1>4 DEF zsets, Signed, s

(* What a callback gets is a string, since there is a NUL in the buffer.   *)
LEMMA DeliversString ==
  ASSUME line \in Seq(Int), \E i \in DOMAIN line : line[i] = NUL
  PROVE  Delivered \in Seq(Int)
<1>. DEFINE Ends == { i \in DOMAIN line : i >= 1 /\ line[i] = NUL }
            n    == Min(Ends) - 1
            s    == CString(line, 1)
            Cuts == {Len(s)} \cup { i - 1 : i \in { j \in DOMAIN s : s[j] = NL } }
<1>1. Ends \in SUBSET Nat /\ Ends # {} /\ \A i \in Ends : i \in 1 .. Len(line)
  OBVIOUS
<1>2. Min(Ends) \in 1 .. Len(line)
  BY <1>1, MinIs
<1>3. s = [i \in 1 .. n |-> line[1 + i - 1]]
  BY DEF CString
<1>4. n \in Nat /\ n < Len(line)
  BY <1>2
<1>. HIDE DEF n, s
<1>5. \A i \in 1 .. n : line[1 + i - 1] \in Int
  BY <1>4
<1>6. s \in Seq(Int) /\ Len(s) = n /\ DOMAIN s = 1 .. n
  BY <1>3, <1>4, <1>5
<1>7. Cuts \in SUBSET Nat /\ Cuts # {} /\ \A i \in Cuts : i <= n
  BY <1>4, <1>6
<1>8. Delivered = SubSeq(s, 1, Min(Cuts))
  BY DEF Delivered, s
<1>. HIDE DEF Cuts
<1>9. Min(Cuts) \in 0 .. n
  <2>1. Min(Cuts) \in Cuts
    BY <1>7, MinIs
  <2>. DEFINE m == Min(Cuts)
  <2>. HIDE DEF m
  <2>2. m \in Nat /\ m <= n
    BY <1>7, <2>1 DEF m
  <2>3. m \in 0 .. n
    BY <1>4, <2>2
  <2>. QED
    BY <2>3 DEF m
<1>. QED
  BY <1>6, <1>8, <1>9

(* What callbacks get are strings, and there is a NUL in the buffer.       *)
Strings ==
  /\ seen \in Seq(Seq(Int)) /\ args \in Seq(Seq(Int)) /\ line \in Seq(Int)
  /\ at = "parse" => seen # <<>>
  /\ line # <<>> => \E i \in DOMAIN line : line[i] = NUL

(* The numbers, the buffer for text and the exit status are what they      *)
(* are said to be.                                                         *)
Numbers ==
  /\ op \in Int \X Int \X Int
  /\ result.room \in {0, result.cap, result.cap + 1}
  /\ result = [cap |-> result.cap, room |-> result.room]
  /\ status \in {Unset, 0, 1} /\ (status = Unset <=> at # "exit")

Places == { "main", "line", "args", "read", "fgets", "inspect", "grow", "callback", "parse",
            "compute", "print", "show", "groups", "shown", "end", "exit", "crashed" }

Typed == Buffers /\ Strings /\ Numbers /\ at \in Places

(* Sequences of characters are sequences of integers, and a sequence that  *)
(* gets another element is one of such elements.                           *)
LEMMA WiderSeq ==
  ASSUME NEW S, NEW T, S \subseteq T
  PROVE  Seq(S) \subseteq Seq(T)
<1>. SUFFICES ASSUME NEW s \in Seq(S) PROVE s \in Seq(T)
  OBVIOUS
<1>1. s = [i \in 1 .. Len(s) |-> s[i]] /\ Len(s) \in Nat
  OBVIOUS
<1>2. \A i \in 1 .. Len(s) : s[i] \in T
  OBVIOUS
<1>. QED
  BY <1>1, <1>2

LEMMA OneMore ==
  ASSUME NEW S, NEW s \in Seq(S), NEW x \in S
  PROVE  Append(s, x) \in Seq(S) /\ Append(s, x) # <<>>
<1>. DEFINE t == Append(s, x)
<1>1. t \in Seq(S) /\ Len(t) = Len(s) + 1 /\ Len(s) \in Nat
  OBVIOUS
<1>2. Len(<<>>) = 0
  OBVIOUS
<1>. HIDE DEF t
<1>3. t # <<>>
  BY <1>1, <1>2
<1>. QED
  BY <1>1, <1>3 DEF t

(* The arguments of every run are strings.                                 *)
LEMMA InitTyped == Init => Typed
<1>. SUFFICES ASSUME Init PROVE Typed
  OBVIOUS
<1>1. Seq(Seq(Character)) \subseteq Seq(Seq(Int))
  BY CharacterInt, WiderSeq
<1>2. run.args \in Seq(Seq(Int))
  <2>1. run.args \in Seq(Seq(Character))
    BY RunsAssumption DEF Init
  <2>. QED
    BY <1>1, <2>1
<1>. QED
  BY <1>2, InitBuffers DEF Init, Typed, Strings, Numbers, Places, NoNumbers, Null, Unset

(* nalread leaves a NUL in the buffer wherever it stops.                   *)
LEMMA ReadTyped ==
  ASSUME Typed, ReadLines, UNCHANGED progVars
  PROVE  Typed'
<1>1. Buffers'
  BY ReadBuffers DEF Typed
<1>2. line' \in Seq(Int)
  BY <1>1 DEF Buffers
<1>3. /\ at' \in Places /\ at' # "parse" /\ at' # "exit" /\ at # "exit"
  BY DEF ReadLines, AllocateLine, Nalread, Fgets, Inspect, GrowLine, Returned, Places
<1>4. ASSUME line' # <<>> PROVE \E i \in DOMAIN line' : line'[i] = NUL
  <2>1. CASE AllocateLine
    <3>1. Bufsiz \in Nat /\ Bufsiz >= 5
      BY BufsizAssumption
    <3>2. line' = [i \in 1 .. Bufsiz |-> NUL]
      BY <1>4, <2>1 DEF AllocateLine
    <3>3. 1 \in DOMAIN line' /\ line'[1] = NUL
      BY <3>1, <3>2
    <3>. QED
      BY <3>3
  <2>2. CASE Nalread
    BY <1>4, <2>2 DEF Nalread, Typed, Strings
  <2>3. CASE Fgets /\ stdin # <<>>
    <3>1. Fetched
      BY <2>3, FgetsFetches DEF Typed
    <3>2. read.pos \in Nat
      BY DEF Typed, Buffers
    <3>3. Piece \in Nat /\ Piece >= 1
      BY <3>1 DEF Fetched, Typed, Buffers
    <3>. DEFINE e == read.pos + Piece + 1
    <3>4. e \in 1 .. Len(line) /\ e \notin read.pos + 1 .. read.pos + Piece
      <4>1. e <= Len(line) /\ Len(line) \in Nat
        BY <3>1 DEF Fetched, Typed, Buffers
      <4>. QED
        BY <3>2, <3>3, <4>1
    <3>5. line'[e] = NUL
      BY <3>1, <3>4 DEF Fetched
    <3>6. e \in DOMAIN line'
      BY <3>1, <3>4 DEF Fetched
    <3>. QED
      BY <3>5, <3>6
  <2>4. CASE Fgets /\ stdin = <<>>
    BY <1>4, <2>4 DEF Fgets, lineVars, Typed, Strings
  <2>5. CASE Inspect
    BY <1>4, <2>5 DEF Inspect, lineVars, Typed, Strings
  <2>6. CASE GrowLine
    <3>1. line' = Sized(2 * Len(line), line) /\ at = "grow"
      BY <1>4, <2>6 DEF GrowLine
    <3>2. line # <<>> /\ line \in Seq(Int)
      BY <3>1 DEF Typed, Buffers
    <3>3. PICK i \in DOMAIN line : line[i] = NUL
      BY <3>2 DEF Typed, Strings
    <3>4. i \in 1 .. Len(line) /\ i \in 1 .. 2 * Len(line) /\ i <= Len(line)
      BY <3>2
    <3>5. i \in DOMAIN line' /\ line'[i] = NUL
      BY <3>1, <3>3, <3>4 DEF Sized
    <3>. QED
      BY <3>5
  <2>. QED
    BY <2>1, <2>2, <2>3, <2>4, <2>5, <2>6 DEF ReadLines
<1>. QED
  BY <1>1, <1>2, <1>3, <1>4 DEF Typed, Strings, Numbers, progVars

(* The callbacks compute with numbers.                                     *)
LEMMA CallbackNumbers ==
  ASSUME Typed, Callback
  PROVE  Numbers'
<1>1. /\ op[1] \in Int /\ op[2] \in Int /\ op[3] \in Int
  BY DEF Typed, Numbers
<1>2. status = Unset /\ Unset \notin {0, 1}
  BY CallbackKeeps DEF Typed, Numbers, Unset
<1>3. CASE Parse
  <2>1. seen \in Seq(Seq(Int)) /\ seen # <<>>
    BY <1>3 DEF Parse, Typed, Strings
  <2>2. Last(seen) \in Seq(Int)
    BY <2>1 DEF Last
  <2>3. zsets(Last(seen)) \in Int
    BY <2>2, ZsetsInt
  <2>4. op' \in {op, NoNumbers, <<zsets(Last(seen)), 1, 1>>} /\ UNCHANGED <<result, status>>
    BY <1>3 DEF Parse, Back
  <2>5. at' # "exit"
    BY <1>3 DEF Parse, Back, Goto
  <2>. QED
    BY <1>2, <2>3, <2>4, <2>5 DEF Typed, Numbers, NoNumbers
<1>4. CASE ParseFails
  BY <1>2, <1>4 DEF ParseFails, Failure, Exit, Typed, Numbers
<1>5. CASE Compute
  <2>1. /\ op' \in {op, NoNumbers, <<op[1] - 1, op[2] * op[1], op[3]>>, <<op[1] - 1, op[2] + op[3], op[2]>>}
        /\ UNCHANGED <<result, status>>
    BY <1>5 DEF Compute, Back, Goto
  <2>2. at' # "exit"
    BY <1>5 DEF Compute, Back, Goto
  <2>3. op[1] - 1 \in Int /\ op[2] * op[1] \in Int /\ op[2] + op[3] \in Int
    BY <1>1
  <2>4. op' \in Int \X Int \X Int
    BY <1>1, <2>1, <2>3 DEF Typed, Numbers, NoNumbers
  <2>. QED
    BY <1>2, <2>1, <2>2, <2>4 DEF Typed, Numbers
<1>6. CASE ComputeFails
  BY <1>2, <1>6 DEF ComputeFails, Failure, Exit, Typed, Numbers
<1>7. CASE GrowResult
  <2>1. CASE Failure
    BY <1>2, <2>1 DEF Failure, Exit, Typed, Numbers
  <2>2. CASE ~ Failure
    <3>1. /\ result' \in {result, Room(ZstrLength(Printed) + Spare)}
          /\ UNCHANGED <<op, status>> /\ at' = "show"
      BY <1>7, <2>2 DEF GrowResult, Goto
    <3>. QED
      BY <1>2, <3>1 DEF Typed, Numbers, Room
  <2>. QED
    BY <2>1, <2>2
<1>8. CASE Zstr
  <2>1. CASE Failure
    BY <1>2, <2>1 DEF Failure, Exit, Typed, Numbers
  <2>2. CASE ~ Failure
    <3>1. /\ result' \in {result, [result EXCEPT !.room = result.cap + 1]}
          /\ UNCHANGED <<op, status>> /\ at' = "groups"
      BY <1>8, <2>2 DEF Zstr, Goto
    <3>. QED
      BY <1>2, <3>1 DEF Typed, Numbers
  <2>. QED
    BY <2>1, <2>2
<1>9. CASE NextGroup
  BY <1>2, <1>9 DEF NextGroup, Failure, Exit, Goto, Typed, Numbers
<1>10. CASE PrintText
  <2>1. Collatz(op[1]) \in Int
    BY <1>1 DEF Collatz
  <2>2. /\ op' \in {NoNumbers, <<Collatz(op[1]), 1, 1>>}
        /\ UNCHANGED <<result, status>> /\ at' # "exit"
    BY <1>10 DEF PrintText, Back, Goto
  <2>. QED
    BY <1>2, <2>1, <2>2 DEF Typed, Numbers, NoNumbers
<1>11. CASE PrintFails
  BY <1>2, <1>11 DEF PrintFails, Failure, Exit, Typed, Numbers
<1>. QED
  BY <1>3, <1>4, <1>5, <1>6, <1>7, <1>8, <1>9, <1>10, <1>11 DEF Callback

(* The steps of the callbacks, and those between them.                     *)
LEMMA NextTyped ==
  ASSUME Typed, [Next]_vars
  PROVE  Typed'
<1>1. Buffers'
  BY NextBuffers DEF Typed
<1>2. CASE Start
  BY <1>1, <1>2 DEF Start, Failure, Exit, Goto, lineVars, Null, Room, Unset,
                    Typed, Strings, Numbers, Places
<1>3. CASE NextArgument
  <2>1. Head(args) \in Seq(Int) /\ Tail(args) \in Seq(Seq(Int))
    BY <1>3 DEF NextArgument, Typed, Strings
  <2>2. seen' \in Seq(Seq(Int)) /\ seen' # <<>>
    <3>1. seen \in Seq(Seq(Int)) /\ seen' = Append(seen, Head(args))
      BY <1>3 DEF NextArgument, Typed, Strings
    <3>. QED
      BY <2>1, <3>1, OneMore
  <2>. QED
    BY <1>1, <1>3, <2>1, <2>2 DEF NextArgument, Goto, lineVars, Typed, Strings, Numbers, Places
<1>4. CASE NextLine
  <2>1. line # <<>>
    BY <1>4 DEF NextLine, Typed, Buffers
  <2>2. Delivered \in Seq(Int)
    BY <2>1, DeliversString DEF Typed, Strings
  <2>3. seen' \in Seq(Seq(Int)) /\ seen' # <<>>
    <3>1. seen \in Seq(Seq(Int)) /\ seen' = Append(seen, Delivered)
      BY <1>4 DEF NextLine, Typed, Strings
    <3>. QED
      BY <2>2, <3>1, OneMore
  <2>. QED
    BY <1>1, <1>4, <2>3 DEF NextLine, Goto, lineVars, Typed, Strings, Numbers, Places
<1>5. CASE Finish
  BY <1>1, <1>5 DEF Finish, Exit, Unset, Typed, Strings, Numbers, Places
<1>6. CASE Callback
  <2>1. UNCHANGED <<line, args, seen>> /\ at' \in Places /\ (at' = "parse" => at = "parse" \/ seen # <<>>)
    <3>1. UNCHANGED <<lineVars, run, args, seen>> /\ at' \in Places
      BY <1>6, CallbackKeeps DEF Places
    <3>2. at' # "parse"
      BY <1>6 DEF Callback, Parse, ParseFails, Compute, ComputeFails, GrowResult, Zstr, NextGroup,
                  PrintText, PrintFails, Failure, Exit, Back, Goto
    <3>. QED
      BY <3>1, <3>2 DEF lineVars
  <2>2. Numbers'
    BY <1>6, CallbackNumbers
  <2>. QED
    BY <1>1, <2>1, <2>2 DEF Typed, Strings
<1>7. CASE ReadLines /\ UNCHANGED progVars
  BY <1>7, ReadTyped
<1>8. CASE UNCHANGED vars
  BY <1>1, <1>8 DEF vars, Typed, Strings, Numbers
<1>. QED
  BY <1>2, <1>3, <1>4, <1>5, <1>6, <1>7, <1>8 DEF Next

(* Whatever the arguments and lines are: nalread is where it should be, and *)
(* has a line when it needs one; the programs compute with numbers; and the *)
(* buffer for text is as large as its capacity says or, if zstr allocated   *)
(* it, one character larger, until the program ends with a status.          *)
THEOREM TypesAlwaysRight == Spec => []TypeOK
<1>1. Typed => TypeOK
  BY DEF Typed, Buffers, Strings, Numbers, Places, TypeOK
<1>. QED
  BY <1>1, InitTyped, NextTyped, PTL DEF Spec
-----------------------------------------------------------------------------
(* The text of a number, group by group.                                    *)

(* What of n is in the buffer after some groups: the last tot digits and a  *)
(* NUL, in the cells up to the capacity; and of these digits the first is   *)
(* saved.  At least a digit of n is not there yet.                          *)
TextBuilt(n, cap, s) ==
  /\ s = [num |-> s.num, b |-> s.b, n |-> s.n, last |-> s.last, tot |-> s.tot,
          overridden |-> s.overridden]
  /\ s.tot \in Nat /\ Ten(s.tot) <= n /\ s.num = n \div Ten(s.tot)
  /\ s.tot = 0 \/ s.tot >= GroupDigits
  /\ s.last = cap - s.tot /\ s.n = Below(s.last)
  /\ s.b = [i \in 0 .. cap + GroupDigits |-> s.b[i]]
  /\ \A i \in 0 .. s.tot - 1 : s.b[cap - 1 - i] = (n \div Ten(i)) % 10
  /\ s.b[cap] = IF s.tot = 0 THEN Unset ELSE NUL
  /\ \A i \in 0 .. cap + GroupDigits : i < s.last \/ i > cap => s.b[i] = Unset
  /\ s.overridden = IF s.tot = 0 THEN NUL ELSE s.b[s.last]

LEMMA TextBegun ==
  ASSUME NEW n \in Nat \ {0}, NEW cap \in Nat
  PROVE  TextBuilt(n, cap, ZstrBegin(n, cap))
<1>. DEFINE s == ZstrBegin(n, cap)
            b == [i \in 0 .. cap + GroupDigits |-> Unset]
<1>1. s = [num |-> n, b |-> b, n |-> Below(cap), last |-> cap, tot |-> 0, overridden |-> NUL]
  BY DEF ZstrBegin
<1>2. GroupDigits \in Nat
  BY GroupAssumption
<1>3. \A i \in 0 .. cap + GroupDigits : b[i] = Unset
  OBVIOUS
<1>4. b = [i \in 0 .. cap + GroupDigits |-> b[i]] /\ cap \in 0 .. cap + GroupDigits
  BY <1>2
<1>5. Ten(0) = 1 /\ n \div 1 = n
  BY Tens
<1>6. 0 .. 0 - 1 = {} /\ cap - 0 = cap
  OBVIOUS
<1>. HIDE DEF s, b
<1>. QED
  BY <1>1, <1>3, <1>4, <1>5, <1>6 DEF TextBuilt, s

(* Cells, after a sequence was stored.                                      *)
Cells(b, m) == b = [i \in 0 .. m |-> b[i]]
HasStored(c, m, b, from, s, k) ==
  /\ Cells(c, m)
  /\ \A i \in 0 .. m : i < from \/ i >= from + k => c[i] = b[i]
  /\ \A j \in 1 .. k, i \in 0 .. m : i = from + j - 1 => c[i] = s[j]

LEMMA StoredAt ==
  ASSUME NEW c, NEW m, NEW b, NEW from, NEW s, NEW k, HasStored(c, m, b, from, s, k),
         NEW j \in 1 .. k, NEW i \in 0 .. m, i = from + j - 1
  PROVE  c[i] = s[j]
BY DEF HasStored

LEMMA StoredCells ==
  ASSUME NEW m \in Nat, NEW b, Cells(b, m), NEW from \in Nat, NEW s, NEW k \in Nat, Len(s) = k
  PROVE  HasStored(Stored(b, from, s), m, b, from, s, k)
<1>. DEFINE c == Stored(b, from, s)
<1>1. DOMAIN b = 0 .. m
  <2>. DEFINE B == [i \in 0 .. m |-> b[i]]
  <2>1. DOMAIN B = 0 .. m /\ b = B
    BY DEF Cells
  <2>. HIDE DEF B
  <2>. QED
    BY <2>1
<1>2. c = [i \in 0 .. m |-> IF i \in from .. from + k - 1 THEN s[i - from + 1] ELSE b[i]]
  BY <1>1 DEF Stored
<1>. HIDE DEF c
<1>3. \A i \in 0 .. m : i < from \/ i >= from + k => c[i] = b[i]
  BY <1>2
<1>4. ASSUME NEW j \in 1 .. k, NEW i \in 0 .. m, i = from + j - 1 PROVE c[i] = s[j]
  <2>1. i \in from .. from + k - 1 /\ i - from + 1 = j
    BY <1>4
  <2>2. c[i] = s[i - from + 1]
    BY <1>2, <2>1
  <2>. QED
    BY <2>1, <2>2
<1>. QED
  BY <1>2, <1>3, <1>4 DEF c, Cells, HasStored

(* A group of digits.                                                       *)
LEMMA FixedGroup ==
  ASSUME NEW v \in Nat
  PROVE  /\ sprintint_fix(v) \in Seq(Int) /\ Len(sprintint_fix(v)) = GroupDigits
         /\ \A i \in 1 .. GroupDigits : sprintint_fix(v)[i] = (v \div Ten(GroupDigits - i)) % 10
<1>. DEFINE G == GroupDigits
<1>1. G \in Nat
  BY GroupAssumption
<1>2. ASSUME NEW i \in 1 .. G PROVE (v \div Ten(G - i)) % 10 \in Int
  <2>. DEFINE a == Ten(G - i)
  <2>1. a \in Nat \ {0}
    <3>1. G - i \in Nat
      BY <1>1
    <3>. QED
      BY <3>1, Tens
  <2>. HIDE DEF a
  <2>2. v \div a \in Nat
    BY <2>1, DivModNat
  <2>3. (v \div a) % 10 \in Int
    BY <2>2
  <2>. QED
    BY <2>3 DEF a
<1>. QED
  BY <1>1, <1>2 DEF sprintint_fix

(* A quotient by a power of ten, divided by another.                        *)
LEMMA CutTwice ==
  ASSUME NEW n \in Nat, NEW s \in Nat, NEW t \in Nat
  PROVE  (n \div Ten(s)) \div Ten(t) = n \div Ten(s + t)
<1>. DEFINE a == Ten(s)
            b == Ten(t)
            c == Ten(s + t)
<1>1. a \in Nat \ {0} /\ b \in Nat \ {0} /\ IsProduct(c, a, b)
  <2>1. Ten(s + t) = Ten(s) * Ten(t)
    BY TenOfSum
  <2>. QED
    BY <2>1, Tens DEF IsProduct
<1>. HIDE DEF a, b, c
<1>2. (n \div a) \div b = n \div c
  BY <1>1, Quotients
<1>. QED
  BY <1>2 DEF a, b, c

(* Another group: where it is stored there is room, and the first digit of  *)
(* the group behind it, on which its NUL fell, is put back.                 *)
LEMMA TextContinued ==
  ASSUME NEW n \in Nat \ {0}, NEW d, HasDigits(n, d), NEW cap \in Nat, d < cap,
         NEW s, TextBuilt(n, cap, s), ~ ZstrLastGroup(s)
  PROVE  TextBuilt(n, cap, ZstrGroup(s))
<1>. DEFINE G == GroupDigits
            tot == s.tot
            new == s.tot + G
            m == cap + G
            v == s.num % GroupBase
            group == sprintint_fix(v)
            stored == Append(group, s.overridden)
            b == Stored(s.b, s.n, stored)
<1>1. /\ G \in Nat /\ G >= 1 /\ GroupBase = Ten(G) /\ Ten(G) \in Nat \ {0}
      /\ d \in Nat
  BY GroupAssumption, Tens DEF GroupBase, HasDigits
<1>2. /\ tot \in Nat /\ Ten(tot) <= n /\ s.num = n \div Ten(tot)
      /\ s.last = cap - tot /\ s.n = Below(s.last)
      /\ s.b = [i \in 0 .. m |-> s.b[i]]
      /\ \A i \in 0 .. tot - 1 : s.b[cap - 1 - i] = (n \div Ten(i)) % 10
      /\ s.b[cap] = IF tot = 0 THEN Unset ELSE NUL
      /\ \A i \in 0 .. m : i < s.last \/ i > cap => s.b[i] = Unset
      /\ s.overridden = IF tot = 0 THEN NUL ELSE s.b[s.last]
  BY DEF TextBuilt
<1>3. s.num \in Nat \ {0} /\ new = tot + G /\ m = cap + G /\ new \in Nat /\ m \in Nat
  <2>1. s.num \in Nat \ {0}
    <3>. HIDE DEF tot
    <3>. QED
      BY <1>2, DigitsOfQuotient
  <2>2. new = tot + G /\ m = cap + G
    OBVIOUS
  <2>. HIDE DEF new, m, tot, G, v, group, stored, b
  <2>3. G \in Nat /\ tot \in Nat
    BY <1>1, <1>2
  <2>4. new \in Nat /\ m \in Nat
    BY <2>2, <2>3
  <2>. QED
    BY <2>1, <2>2, <2>4
<1>. HIDE DEF new, m, tot, G
<1>4. s.last = cap - tot
  BY <1>2
<1>5. G \in Nat /\ G >= 1 /\ tot \in Nat /\ new = tot + G /\ m = cap + G
  BY <1>1, <1>2, <1>3
<1>6. new \in Nat /\ Ten(new) <= n /\ new < d
  <2>1. Ten(tot + G) = Ten(tot) * Ten(G)
    BY <1>1, <1>2, TenOfSum
  <2>. DEFINE a == Ten(tot)
              c == Ten(G)
  <2>2. a \in Nat \ {0} /\ c \in Nat \ {0} /\ c <= n \div a
    <3>1. s.num \in Nat /\ ~ (s.num < c)
      BY <1>1, <1>3 DEF ZstrLastGroup
    <3>2. a \in Nat \ {0}
      BY <1>2, Tens
    <3>3. c <= s.num /\ s.num = n \div a
      BY <1>1, <1>2, <3>1
    <3>. QED
      BY <1>1, <3>2, <3>3
  <2>. HIDE DEF a, c
  <2>3. a * c <= n
    BY <2>2, QuotientAtLeast
  <2>4. Ten(new) <= n
    BY <1>3, <2>1, <2>3 DEF a, c
  <2>. QED
    BY <1>3, <2>4, DigitsOfQuotient
<1>7. /\ s.n = cap - new /\ s.n \in Nat /\ s.n + G = cap - tot /\ s.n >= 2
      /\ s.last \in Nat /\ s.last = s.n + G
  <2>1. /\ s.last = cap - tot /\ s.n = IF s.last > G THEN s.last - G ELSE 0
        /\ new < d /\ d \in Nat
    BY <1>1, <1>2, <1>6 DEF Below, G
  <2>. QED
    BY <1>5, <2>1
<1>8. v \in Nat /\ s.num \div GroupBase = n \div Ten(new)
  <2>1. v \in Nat
    <3>1. GroupBase \in Nat \ {0}
      BY <1>1
    <3>2. s.num % GroupBase \in 0 .. GroupBase - 1
      BY <1>3, <3>1, DivModNat
    <3>. QED
      BY <3>1, <3>2
  <2>2. (n \div Ten(tot)) \div Ten(G) = n \div Ten(tot + G)
    BY <1>1, <1>2, CutTwice
  <2>. QED
    BY <1>1, <1>2, <1>3, <2>1, <2>2
<1>9. ASSUME NEW i \in 1 .. G PROVE group[i] = (n \div Ten(new - i)) % 10
  <2>1. G - i \in 0 .. G - 1 /\ G - i \in Nat /\ tot + (G - i) = new - i
    BY <1>5
  <2>2. group[i] = (v \div Ten(G - i)) % 10
    BY <1>8, FixedGroup DEF G
  <2>3. ((s.num % Ten(G)) \div Ten(G - i)) % 10 = (s.num \div Ten(G - i)) % 10
    <3>. DEFINE x == s.num
                j == G - i
    <3>1. x \in Nat /\ j \in 0 .. G - 1
      BY <1>3, <2>1
    <3>. HIDE DEF x, j
    <3>2. ((x % Ten(G)) \div Ten(j)) % 10 = (x \div Ten(j)) % 10
      BY <1>1, <3>1, DigitOfRest
    <3>. QED
      BY <3>2 DEF x, j
  <2>4. (n \div Ten(tot)) \div Ten(G - i) = n \div Ten(tot + (G - i))
    BY <1>2, <2>1, CutTwice
  <2>. QED
    BY <1>1, <1>2, <2>1, <2>2, <2>3, <2>4
<1>10. /\ Len(stored) = G + 1 /\ stored[G + 1] = s.overridden
      /\ \A i \in 1 .. G : stored[i] = (n \div Ten(new - i)) % 10
  <2>1. Len(group) = G /\ group \in Seq(Int)
    BY <1>8, FixedGroup DEF G
  <2>. HIDE DEF group
  <2>2. Len(stored) = G + 1 /\ stored[G + 1] = s.overridden /\ \A i \in 1 .. G : stored[i] = group[i]
    BY <1>1, <2>1
  <2>. QED
    BY <1>9, <2>2
<1>. HIDE DEF stored
<1>11. HasStored(b, m, s.b, s.n, stored, G + 1)
  <2>. DEFINE B == s.b
              f == s.n
              k == G + 1
  <2>1. Cells(B, m) /\ f \in Nat /\ k \in Nat /\ m \in Nat /\ Len(stored) = k
    BY <1>1, <1>2, <1>3, <1>7, <1>10 DEF Cells
  <2>. HIDE DEF B, f, k
  <2>2. HasStored(Stored(B, f, stored), m, B, f, stored, k)
    BY <2>1, StoredCells
  <2>. QED
    BY <2>2 DEF B, f, k
<1>. DEFINE t == ZstrGroup(s)
<1>12. t = [num |-> s.num \div GroupBase, b |-> b, n |-> Below(s.n), last |-> s.n,
            tot |-> new, overridden |-> b[s.n]]
  BY DEF ZstrGroup, stored, new, tot, G
<1>. HIDE DEF t, b, v, group
<1>13. /\ Cells(b, m)
       /\ \A i \in 0 .. m : i < s.n \/ i >= s.n + (G + 1) => b[i] = s.b[i]
  BY <1>11 DEF HasStored
<1>14. ASSUME NEW j \in 1 .. G + 1, NEW i \in 0 .. m, i = s.n + j - 1 PROVE b[i] = stored[j]
  BY <1>11, <1>14, StoredAt
<1>15. ASSUME NEW i \in 0 .. new - 1 PROVE b[cap - 1 - i] = (n \div Ten(i)) % 10
  <2>1. CASE i >= tot
    <3>. DEFINE j == new - i
    <3>1. j \in 1 .. G /\ cap - 1 - i = s.n + j - 1 /\ new - j = i /\ cap - 1 - i \in 0 .. m
          /\ j \in 1 .. G + 1
      BY <1>5, <1>6, <1>7, <2>1
    <3>. HIDE DEF j
    <3>2. b[cap - 1 - i] = stored[j]
      BY <1>14, <3>1
    <3>3. stored[j] = (n \div Ten(new - j)) % 10
      BY <1>10, <3>1
    <3>. QED
      BY <3>1, <3>2, <3>3
  <2>2. CASE i = tot - 1
    <3>1. tot # 0 /\ s.last = cap - 1 - i /\ i \in 0 .. tot - 1 /\ s.last = s.n + (G + 1) - 1
          /\ s.last \in 0 .. m /\ G + 1 \in 1 .. G + 1
      BY <1>5, <1>4, <1>7, <2>2
    <3>2. b[s.last] = stored[G + 1]
      BY <1>14, <3>1
    <3>3. s.overridden = s.b[s.last]
      BY <1>2, <3>1
    <3>. QED
      BY <1>2, <1>10, <3>1, <3>2, <3>3
  <2>3. CASE i < tot - 1
    <3>1. i \in 0 .. tot - 1 /\ cap - 1 - i \in 0 .. m /\ cap - 1 - i >= s.n + (G + 1)
      BY <1>5, <1>7, <2>3
    <3>. QED
      BY <1>2, <1>13, <3>1
  <2>. QED
    BY <1>2, <2>1, <2>2, <2>3
<1>16. b[cap] = NUL
  <2>1. CASE tot = 0
    <3>1. cap = s.n + (G + 1) - 1 /\ cap \in 0 .. m /\ G + 1 \in 1 .. G + 1
      BY <1>5, <1>4, <1>7, <2>1
    <3>. QED
      BY <1>2, <1>10, <1>14, <2>1, <3>1
  <2>2. CASE tot # 0
    <3>1. cap \in 0 .. m /\ cap >= s.n + (G + 1)
      BY <1>5, <1>4, <1>7, <2>2
    <3>. QED
      BY <1>2, <1>13, <2>2, <3>1
  <2>. QED
    BY <2>1, <2>2
<1>17. ASSUME NEW i \in 0 .. m, i < s.n \/ i > cap PROVE b[i] = Unset
  <2>1. i < s.n \/ i >= s.n + (G + 1)
    BY <1>5, <1>4, <1>7, <1>17
  <2>2. i < s.last \/ i > cap
    BY <1>1, <1>7, <1>17
  <2>. QED
    BY <1>2, <1>13, <2>1, <2>2
<1>18. new # 0 /\ new >= GroupDigits /\ m = cap + GroupDigits
  BY <1>5 DEF G
<1>19. /\ t = [num |-> t.num, b |-> t.b, n |-> t.n, last |-> t.last, tot |-> t.tot,
               overridden |-> t.overridden]
       /\ t.tot = new /\ t.num = n \div Ten(new) /\ t.last = cap - new /\ t.n = Below(t.last)
       /\ t.b = b /\ t.overridden = b[t.last]
  BY <1>7, <1>8, <1>12
<1>20. TextBuilt(n, cap, t)
  <2>1. t.tot \in Nat /\ Ten(t.tot) <= n /\ (t.tot = 0 \/ t.tot >= GroupDigits)
    BY <1>6, <1>18, <1>19
  <2>2. t.b = [i \in 0 .. cap + GroupDigits |-> t.b[i]]
    BY <1>13, <1>18, <1>19 DEF Cells
  <2>3. \A i \in 0 .. t.tot - 1 : t.b[cap - 1 - i] = (n \div Ten(i)) % 10
    BY <1>15, <1>19
  <2>4. t.b[cap] = IF t.tot = 0 THEN Unset ELSE NUL
    BY <1>16, <1>18, <1>19
  <2>5. \A i \in 0 .. cap + GroupDigits : i < t.last \/ i > cap => t.b[i] = Unset
    <3>1. t.last = s.n
      BY <1>12
    <3>. QED
      BY <1>17, <1>18, <1>19, <3>1
  <2>6. t.overridden = IF t.tot = 0 THEN NUL ELSE t.b[t.last]
    BY <1>18, <1>19
  <2>. QED
    BY <1>19, <2>1, <2>2, <2>3, <2>4, <2>5, <2>6 DEF TextBuilt
<1>. QED
  BY <1>20 DEF t

(* The end: the digits that are left and those of the groups behind them,   *)
(* and a NUL; and the NUL that was one cell behind the capacity.            *)
TextComplete(n, d, cap, b) ==
  /\ Cells(b, cap + GroupDigits)
  /\ \A i \in 0 .. d - 1 : b[i] = (n \div Ten(d - 1 - i)) % 10
  /\ b[d] = NUL
  /\ b[cap] = IF n < GroupBase THEN Unset ELSE NUL
  /\ \A i \in cap + 1 .. cap + GroupDigits : b[i] = Unset

LEMMA TextCompleted ==
  ASSUME NEW n \in Nat \ {0}, NEW d, HasDigits(n, d), NEW cap \in Nat, d < cap,
         NEW s, TextBuilt(n, cap, s), ZstrLastGroup(s)
  PROVE  TextComplete(n, d, cap, ZstrEnd(s).b)
<1>. DEFINE tot == s.tot
            m == cap + GroupDigits
            h == d - tot
            head == sprintint_min(s.num)
            B == s.b
            e == ZstrEnd(s).b
<1>1. /\ GroupDigits \in Nat /\ GroupDigits >= 1 /\ d \in Nat /\ GroupBase = Ten(GroupDigits)
      /\ GroupBase \in Nat
  BY GroupAssumption, Tens DEF HasDigits, GroupBase
<1>2. /\ tot \in Nat /\ Ten(tot) <= n /\ s.num = n \div Ten(tot)
      /\ tot = 0 \/ tot >= GroupDigits
      /\ s.last = cap - tot
      /\ Cells(B, m)
      /\ \A i \in 0 .. tot - 1 : B[cap - 1 - i] = (n \div Ten(i)) % 10
      /\ B[cap] = IF tot = 0 THEN Unset ELSE NUL
      /\ \A i \in 0 .. m : i < s.last \/ i > cap => B[i] = Unset
  BY DEF TextBuilt, Cells
<1>3. s.num \in Nat \ {0} /\ HasDigits(s.num, h) /\ tot < d /\ s.num < Ten(GroupDigits)
  BY <1>1, <1>2, DigitsOfQuotient DEF ZstrLastGroup
<1>4. s = [num |-> s.num, b |-> s.b, n |-> s.n, last |-> s.last, tot |-> s.tot,
           overridden |-> s.overridden]
  BY DEF TextBuilt
<1>5. e = IF tot = 0 THEN Stored(B, 0, Append(head, NUL))
          ELSE RestMoved(Stored(B, 0, head), Len(head), s.last, tot)
  BY <1>4 DEF ZstrEnd
<1>6. head = Digits(s.num, h)
  BY <1>3, MinimalGroup
<1>. HIDE DEF e, head, B, tot, m
<1>7. m \in Nat /\ h \in Nat /\ h >= 1 /\ tot + h = d /\ m = cap + GroupDigits
  BY <1>1, <1>2, <1>3 DEF m
<1>. HIDE DEF h
<1>8. ASSUME NEW i \in 1 .. h
      PROVE  head[i] = (n \div Ten(d - i)) % 10 /\ (s.num \div Ten(h - i)) % 10 \in Int
  <2>1. h - i \in Nat /\ tot + (h - i) = d - i
    BY <1>2, <1>7
  <2>2. head[i] = (s.num \div Ten(h - i)) % 10
    BY <1>6 DEF Digits
  <2>3. (n \div Ten(tot)) \div Ten(h - i) = n \div Ten(tot + (h - i))
    BY <1>2, <2>1, CutTwice
  <2>4. (s.num \div Ten(h - i)) % 10 \in Int
    <3>. DEFINE a == Ten(h - i)
    <3>1. a \in Nat \ {0}
      BY <2>1, Tens
    <3>. HIDE DEF a
    <3>2. s.num \div a \in Nat
      BY <1>3, <3>1, DivModNat
    <3>3. (s.num \div a) % 10 \in Int
      BY <3>2
    <3>. QED
      BY <3>3 DEF a
  <2>. QED
    BY <1>2, <2>1, <2>2, <2>3, <2>4
<1>9. head \in Seq(Int) /\ Len(head) = h
  BY <1>6, <1>7, <1>8 DEF Digits
<1>10. n < GroupBase <=> tot = 0
  <2>1. CASE tot = 0
    <3>1. Ten(0) = 1 /\ n \div 1 = n
      BY Tens
    <3>2. s.num = n
      BY <1>2, <2>1, <3>1
    <3>. QED
      BY <1>1, <1>3, <2>1, <3>2
  <2>2. CASE tot # 0
    <3>1. tot >= GroupDigits /\ Ten(tot) \in Nat
      BY <1>2, <2>2, Tens
    <3>2. tot > GroupDigits => 10 * GroupBase <= Ten(tot)
      BY <1>1, <1>2, TenGrows
    <3>. QED
      BY <1>1, <1>2, <2>2, <3>1, <3>2
  <2>. QED
    BY <2>1, <2>2
<1>11. CASE tot = 0
  <2>. DEFINE all == Append(head, NUL)
  <2>1. Len(all) = h + 1 /\ all[h + 1] = NUL /\ \A i \in 1 .. h : all[i] = head[i]
    BY <1>7, <1>9
  <2>. HIDE DEF all
  <2>2. HasStored(e, m, B, 0, all, h + 1)
    <3>1. e = Stored(B, 0, all)
      BY <1>5, <1>11 DEF all
    <3>2. 0 \in Nat /\ h + 1 \in Nat
      BY <1>7
    <3>. QED
      BY <1>2, <1>7, <2>1, <3>1, <3>2, StoredCells
  <2>3. /\ Cells(e, m)
        /\ \A i \in 0 .. m : i < 0 \/ i >= 0 + (h + 1) => e[i] = B[i]
        /\ \A j \in 1 .. h + 1, i \in 0 .. m : i = 0 + j - 1 => e[i] = all[j]
    BY <2>2 DEF HasStored
  <2>4. d = h /\ h <= m
    BY <1>1, <1>7, <1>11
  <2>5. ASSUME NEW i \in 0 .. d - 1 PROVE e[i] = (n \div Ten(d - 1 - i)) % 10
    <3>. DEFINE j == i + 1
    <3>1. j \in 1 .. h + 1 /\ j \in 1 .. h /\ i = 0 + j - 1 /\ i \in 0 .. m /\ d - j = d - 1 - i
      BY <1>7, <2>4
    <3>. HIDE DEF j
    <3>2. e[i] = all[j]
      BY <2>3, <3>1
    <3>. QED
      BY <1>8, <2>1, <3>1, <3>2
  <2>6. e[d] = NUL
    <3>1. h + 1 \in 1 .. h + 1 /\ d = 0 + (h + 1) - 1 /\ d \in 0 .. m
      BY <1>7, <2>4
    <3>. QED
      BY <2>1, <2>3, <3>1
  <2>7. e[cap] = Unset /\ \A i \in cap + 1 .. m : e[i] = Unset
    <3>1. cap \in 0 .. m /\ cap >= 0 + (h + 1)
      BY <1>1, <1>7, <2>4
    <3>2. ASSUME NEW i \in cap + 1 .. m PROVE i \in 0 .. m /\ i >= 0 + (h + 1) /\ i > cap
      BY <1>7, <3>1
    <3>. QED
      BY <1>2, <1>11, <2>3, <3>1, <3>2
  <2>. QED
    BY <1>7, <1>10, <1>11, <2>3, <2>5, <2>6, <2>7 DEF TextComplete, e
<1>12. CASE tot # 0
  <2>. DEFINE A == Stored(B, 0, head)
              last == s.last
              rest == [i \in 1 .. tot + 1 |-> A[last + i - 1]]
  <2>1. last = cap - tot /\ last \in Nat /\ h < last /\ last + tot = cap /\ cap <= m
    BY <1>1, <1>2, <1>7
  <2>2. HasStored(A, m, B, 0, head, h)
    <3>1. 0 \in Nat
      OBVIOUS
    <3>. QED
      BY <1>2, <1>7, <1>9, <3>1, StoredCells
  <2>. HIDE DEF A, last
  <2>3. /\ Cells(A, m)
        /\ \A i \in 0 .. m : i < 0 \/ i >= 0 + h => A[i] = B[i]
        /\ \A j \in 1 .. h, i \in 0 .. m : i = 0 + j - 1 => A[i] = head[j]
    BY <2>2 DEF HasStored
  <2>4. Len(rest) = tot + 1 /\ \A i \in 1 .. tot + 1 : rest[i] = A[last + i - 1]
    <3>1. tot + 1 \in Nat
      BY <1>2
    <3>. QED
      BY <3>1
  <2>5. e = Stored(A, h, rest)
    BY <1>5, <1>9, <1>12 DEF RestMoved, A, last
  <2>. HIDE DEF rest
  <2>6. HasStored(e, m, A, h, rest, tot + 1)
    <3>1. tot + 1 \in Nat
      BY <1>2
    <3>. QED
      BY <1>7, <2>3, <2>4, <2>5, <3>1, StoredCells
  <2>7. /\ Cells(e, m)
        /\ \A i \in 0 .. m : i < h \/ i >= h + (tot + 1) => e[i] = A[i]
        /\ \A j \in 1 .. tot + 1, i \in 0 .. m : i = h + j - 1 => e[i] = rest[j]
    BY <2>6 DEF HasStored
  <2>8. ASSUME NEW j \in 1 .. tot + 1, NEW i \in 0 .. m, NEW l \in 0 .. m,
                i = h + j - 1, l = last + j - 1
        PROVE  e[i] = B[l]
    <3>1. l >= 0 + h
      BY <1>2, <1>7, <2>1, <2>8
    <3>2. e[i] = rest[j]
      BY <2>7, <2>8
    <3>3. rest[j] = A[l]
      BY <2>4, <2>8
    <3>4. A[l] = B[l]
      BY <2>3, <3>1
    <3>. QED
      BY <3>2, <3>3, <3>4
  <2>9. ASSUME NEW i \in 0 .. d - 1 PROVE e[i] = (n \div Ten(d - 1 - i)) % 10
    <3>1. CASE i < h
      <4>. DEFINE j == i + 1
      <4>1. j \in 1 .. h /\ i = 0 + j - 1 /\ i \in 0 .. m /\ d - j = d - 1 - i
        BY <1>1, <1>7, <2>1, <3>1
      <4>. HIDE DEF j
      <4>2. e[i] = A[i] /\ A[i] = head[j]
        BY <2>3, <2>7, <3>1, <4>1
      <4>. QED
        BY <1>8, <4>1, <4>2
    <3>2. CASE i >= h
      <4>. DEFINE j == i - h + 1
                  k == d - 1 - i
      <4>1. /\ j \in 1 .. tot + 1 /\ i = h + j - 1 /\ cap - 1 - k = last + j - 1
            /\ k \in 0 .. tot - 1 /\ i \in 0 .. m /\ cap - 1 - k \in 0 .. m
        BY <1>1, <1>2, <1>7, <2>1, <3>2
      <4>. HIDE DEF j, k
      <4>2. e[i] = B[cap - 1 - k]
        BY <2>8, <4>1
      <4>3. B[cap - 1 - k] = (n \div Ten(k)) % 10
        BY <1>2, <4>1
      <4>. QED
        BY <4>2, <4>3 DEF k
    <3>. QED
      BY <1>7, <3>1, <3>2
  <2>10. e[d] = NUL
    <3>1. /\ tot + 1 \in 1 .. tot + 1 /\ d = h + (tot + 1) - 1 /\ cap = last + (tot + 1) - 1
          /\ d \in 0 .. m /\ cap \in 0 .. m
      BY <1>2, <1>7, <2>1
    <3>2. e[d] = B[cap]
      BY <2>8, <3>1
    <3>. QED
      BY <1>2, <1>12, <3>2
  <2>11. e[cap] = NUL /\ \A i \in cap + 1 .. m : e[i] = Unset
    <3>1. ASSUME NEW i \in cap .. m PROVE i \in 0 .. m /\ i >= h + (tot + 1) /\ i >= 0 + h
      BY <1>1, <1>2, <1>7
    <3>2. \A i \in cap .. m : e[i] = B[i]
      BY <2>3, <2>7, <3>1
    <3>3. cap \in cap .. m /\ \A i \in cap + 1 .. m : i \in cap .. m /\ i > cap /\ i \in 0 .. m
      BY <2>1
    <3>. QED
      BY <1>2, <1>12, <3>2, <3>3
  <2>. QED
    BY <1>7, <1>10, <1>12, <2>7, <2>9, <2>10, <2>11 DEF TextComplete, e
<1>. QED
  BY <1>11, <1>12

(* What is complete is the number, for printf; and beyond the room there is *)
(* at most a character.                                                     *)
LEMMA CompleteIsRight ==
  ASSUME NEW n \in Nat \ {0}, NEW d, HasDigits(n, d), NEW cap \in Nat, d < cap,
         NEW b, TextComplete(n, d, cap, b), NEW room \in {cap, cap + 1}
  PROVE  /\ CString(b, 0) = Decimal(n)
         /\ { i \in DOMAIN b : i >= room /\ b[i] # Unset } =
              IF room = cap /\ n >= GroupBase THEN {cap} ELSE {}
<1>. DEFINE m == cap + GroupDigits
            ends == { i \in DOMAIN b : i >= 0 /\ b[i] = NUL }
<1>1. GroupDigits \in Nat /\ GroupDigits >= 1 /\ d \in Nat /\ d >= 1 /\ m \in Nat /\ cap <= m
  BY GroupAssumption DEF HasDigits
<1>2. DOMAIN b = 0 .. m
  <2>. DEFINE B == [i \in 0 .. m |-> b[i]]
  <2>1. b = B /\ DOMAIN B = 0 .. m
    BY DEF TextComplete, Cells
  <2>. HIDE DEF B
  <2>. QED
    BY <2>1
<1>3. /\ \A i \in 0 .. d - 1 : b[i] = (n \div Ten(d - 1 - i)) % 10
      /\ b[d] = NUL
      /\ b[cap] = IF n < GroupBase THEN Unset ELSE NUL
      /\ \A i \in cap + 1 .. m : b[i] = Unset
  BY DEF TextComplete
<1>4. ASSUME NEW i \in 0 .. d - 1 PROVE b[i] # NUL
  <2>. DEFINE a == Ten(d - 1 - i)
  <2>1. a \in Nat \ {0}
    <3>1. d - 1 - i \in Nat
      BY <1>1
    <3>. QED
      BY <3>1, Tens
  <2>. HIDE DEF a
  <2>2. n \div a \in Nat
    BY <2>1, DivModNat
  <2>. DEFINE q == n \div a
  <2>3. q % 10 \in 0 .. 9
    <3>. HIDE DEF q
    <3>. QED
      BY <2>2 DEF q
  <2>4. b[i] = q % 10
    BY <1>3 DEF a
  <2>. HIDE DEF q
  <2>. QED
    BY <2>3, <2>4 DEF NUL
<1>5. Min(ends) = d
  <2>1. d \in ends /\ ends \in SUBSET Nat
    BY <1>1, <1>2, <1>3
  <2>2. \A i \in ends : d <= i
    <3>1. ASSUME NEW i \in ends, ~ (d <= i) PROVE FALSE
      <4>1. i \in 0 .. d - 1 /\ b[i] = NUL
        BY <1>1, <1>2, <3>1
      <4>. QED
        BY <1>4, <4>1
    <3>. QED
      BY <3>1
  <2>. HIDE DEF ends
  <2>3. Min(ends) \in ends /\ Min(ends) <= d
    BY <2>1, MinIs
  <2>4. d <= Min(ends) /\ Min(ends) \in Nat
    BY <2>1, <2>2, <2>3
  <2>. QED
    BY <1>1, <2>3, <2>4
<1>6. CString(b, 0) = [i \in 1 .. Min(ends) - 0 |-> b[0 + i - 1]]
  BY DEF CString
<1>. HIDE DEF ends
<1>7. ASSUME NEW i \in 1 .. d PROVE b[0 + i - 1] = (n \div Ten(d - i)) % 10
  <2>1. i - 1 \in 0 .. d - 1 /\ 0 + i - 1 = i - 1 /\ d - 1 - (i - 1) = d - i
    BY <1>1
  <2>. QED
    BY <1>3, <2>1
<1>8. CString(b, 0) = Digits(n, d)
  <2>1. Min(ends) - 0 = d
    BY <1>1, <1>5
  <2>. QED
    BY <1>6, <1>7, <2>1 DEF Digits
<1>9. Decimal(n) = Digits(n, d)
  BY DecimalIs
<1>10. GroupBase \in Nat
  BY <1>1, Tens DEF GroupBase
<1>. DEFINE Beyond == { i \in DOMAIN b : i >= room /\ b[i] # Unset }
<1>11. ASSUME NEW i PROVE i \in Beyond <=> room = cap /\ n >= GroupBase /\ i = cap
  <2>1. CASE i \in cap + 1 .. m
    BY <1>3, <2>1
  <2>2. CASE i = cap
    <3>1. cap \in DOMAIN b /\ (cap >= room <=> room = cap) /\ NUL # Unset
      BY <1>1, <1>2 DEF NUL, Unset
    <3>. QED
      BY <1>3, <1>10, <2>2, <3>1
  <2>3. CASE i \notin cap .. m
    <3>1. ~ (i \in DOMAIN b /\ i >= room)
      BY <1>1, <1>2, <2>3
    <3>2. i # cap
      BY <1>1, <2>3
    <3>. QED
      BY <3>1, <3>2
  <2>4. i \in cap .. m => i = cap \/ i \in cap + 1 .. m
    <3>. HIDE DEF m
    <3>. QED
      BY <1>1
  <2>. HIDE DEF m, Beyond
  <2>. QED
    BY <2>1, <2>2, <2>3, <2>4
<1>12. Beyond = IF room = cap /\ n >= GroupBase THEN {cap} ELSE {}
  <2>. HIDE DEF Beyond
  <2>. QED
    BY <1>11
<1>. QED
  BY <1>8, <1>9, <1>12

-----------------------------------------------------------------------------
(* The texts that the programs print.                                       *)
Showing == {"compute", "print", "show", "groups", "shown"}

(* The programs print positive numbers; the buffer is large enough for the  *)
(* text and a NUL when zstr begins; and the text is built in it.            *)
Textual ==
  /\ result.cap \in Nat
  /\ at \in Showing => op[1] >= 1 /\ op[2] >= 1 /\ op[3] >= 1
  /\ at \in {"show", "groups", "shown"} => result.cap > ZstrLength(Printed)
  /\ at \in {"groups", "shown"} => result.room \in {result.cap, result.cap + 1}
  /\ at = "groups" => TextBuilt(Printed, result.cap, text)
  /\ TextRight

LEMMA InitTextual == Init => Textual
  BY DEF Init, Textual, Showing, TextRight, Null

(* Away from the numbers and texts.                                         *)
LEMMA Elsewhere ==
  ASSUME result'.cap \in Nat, at' \notin Showing
  PROVE  Textual'
  BY DEF Textual, Showing, TextRight

LEMMA PrintedPositive ==
  ASSUME Typed, Textual, at \in Showing
  PROVE  Printed \in Nat \ {0} /\ op[1] \in Nat \ {0} /\ op[2] \in Nat \ {0} /\ op[3] \in Nat \ {0}
<1>1. op[1] \in Int /\ op[2] \in Int /\ op[3] \in Int
  BY DEF Typed, Numbers
<1>2. op[1] >= 1 /\ op[2] >= 1 /\ op[3] >= 1
  BY DEF Textual
<1>. QED
  BY <1>1, <1>2 DEF Printed

(* The number to print, the buffer and the text stay as they are.           *)
LEMMA SameTextual ==
  ASSUME Textual, UNCHANGED <<run, at, op, result, text>>
  PROVE  Textual'
<1>1. Printed' = Printed
  BY DEF Printed, Program
<1>. QED
  BY <1>1 DEF Textual, TextRight

LEMMA ParseTextual ==
  ASSUME Typed, Textual, Parse
  PROVE  Textual'
<1>. DEFINE n == zsets(Last(seen))
<1>1. result' = result /\ result.cap \in Nat
  BY DEF Parse, Textual
<1>2. CASE at' = "compute"
  <2>1. op' = <<n, 1, 1>> /\ n >= 1
    BY <1>2 DEF Parse, Back, Goto
  <2>. HIDE DEF n
  <2>2. op'[1] >= 1 /\ op'[2] >= 1 /\ op'[3] >= 1
    BY <2>1
  <2>. QED
    BY <1>1, <1>2, <2>2 DEF Textual, TextRight
<1>3. CASE at' # "compute"
  <2>1. at' \notin Showing
    BY <1>3 DEF Parse, Back, Goto, Showing
  <2>. QED
    BY <1>1, <2>1, Elsewhere
<1>. QED
  BY <1>2, <1>3

LEMMA ComputeTextual ==
  ASSUME Typed, Textual, Compute
  PROVE  Textual'
<1>1. /\ op[1] \in Nat \ {0} /\ op[2] \in Nat \ {0} /\ op[3] \in Nat \ {0}
      /\ op \in Int \X Int \X Int
  BY PrintedPositive DEF Compute, Showing, Typed, Numbers
<1>2. result' = result /\ result.cap \in Nat
  BY DEF Compute, Textual
<1>3. CASE at' \in {"compute", "print"}
  <2>1. op' = op \/ (op[1] # 1 /\ op' = <<op[1] - 1, op[2] * op[1], op[3]>>)
        \/ (op[1] > 2 /\ op' = <<op[1] - 1, op[2] + op[3], op[2]>>)
    BY <1>3 DEF Compute, Back, Goto
  <2>2. op[2] * op[1] >= 1
    BY <1>1
  <2>3. op'[1] >= 1 /\ op'[2] >= 1 /\ op'[3] >= 1
    <3>1. CASE op' = op
      BY <1>1, <3>1
    <3>2. CASE op[1] # 1 /\ op' = <<op[1] - 1, op[2] * op[1], op[3]>>
      BY <1>1, <2>2, <3>2
    <3>3. CASE op[1] > 2 /\ op' = <<op[1] - 1, op[2] + op[3], op[2]>>
      BY <1>1, <3>3
    <3>. QED
      BY <2>1, <3>1, <3>2, <3>3
  <2>. QED
    BY <1>2, <1>3, <2>3 DEF Textual, TextRight
<1>4. CASE at' \notin {"compute", "print"}
  <2>1. at' \notin Showing
    BY <1>4 DEF Compute, Back, Goto, Showing
  <2>. QED
    BY <1>2, <2>1, Elsewhere
<1>. QED
  BY <1>3, <1>4

(* main makes the buffer large enough for the number and a NUL.             *)
LEMMA GrowTextual ==
  ASSUME Typed, Textual, GrowResult, ~ Failure
  PROVE  Textual'
<1>. DEFINE size == ZstrLength(Printed)
<1>1. /\ at = "print" /\ at' = "show" /\ UNCHANGED <<run, op>>
      /\ result' = IF size + 1 > result.cap THEN Room(size + Spare) ELSE result
  BY DEF GrowResult, Goto
<1>2. size \in Nat /\ result.cap \in Nat /\ Spare \in Nat /\ Spare >= 1
  <2>1. Printed \in Nat \ {0}
    BY <1>1, PrintedPositive DEF Showing
  <2>2. HasDigits(Printed, size)
    BY <2>1, ZstrLengthIs
  <2>. QED
    BY <2>2, ResultAssumption DEF HasDigits, Textual
<1>3. Printed' = Printed
  BY <1>1 DEF Printed, Program
<1>4. ZstrLength(Printed)' = size
  BY <1>3
<1>. HIDE DEF size
<1>5. result'.cap \in Nat /\ result'.cap > size
  BY <1>1, <1>2 DEF Room
<1>6. op'[1] >= 1 /\ op'[2] >= 1 /\ op'[3] >= 1
  BY <1>1 DEF Textual, Showing
<1>. QED
  BY <1>1, <1>4, <1>5, <1>6 DEF Textual, TextRight

LEMMA ZstrTextual ==
  ASSUME Typed, Textual, Zstr, ~ Failure
  PROVE  Textual'
<1>1. /\ at = "show" /\ at' = "groups" /\ UNCHANGED <<run, op>>
      /\ text' = ZstrBegin(Printed, result.cap)
      /\ result' = IF result.room = 0 THEN [result EXCEPT !.room = result.cap + 1] ELSE result
  BY DEF Zstr, Goto
<1>2. Printed' = Printed /\ Printed \in Nat \ {0}
  BY <1>1, PrintedPositive DEF Printed, Program, Showing
<1>3. /\ result = [cap |-> result.cap, room |-> result.room]
      /\ result.room \in {0, result.cap, result.cap + 1}
      /\ result.cap \in Nat /\ result.cap > ZstrLength(Printed)
      /\ op[1] >= 1 /\ op[2] >= 1 /\ op[3] >= 1
  BY <1>1 DEF Typed, Numbers, Textual, Showing
<1>4. result'.cap = result.cap /\ result'.room \in {result.cap, result.cap + 1}
  BY <1>1, <1>3
<1>5. TextBuilt(Printed, result.cap, text')
  BY <1>1, <1>2, <1>3, TextBegun
<1>6. TextBuilt(Printed, result.cap, text)'
  BY <1>2, <1>4, <1>5
<1>7. (result.cap > ZstrLength(Printed))'
  BY <1>2, <1>3, <1>4
<1>. QED
  BY <1>1, <1>3, <1>4, <1>6, <1>7 DEF Textual, TextRight

LEMMA GroupTextual ==
  ASSUME Typed, Textual, NextGroup, ~ Failure
  PROVE  Textual'
<1>1. /\ at = "groups" /\ UNCHANGED <<run, op, result>>
      /\ IF ZstrLastGroup(text) THEN text' = ZstrEnd(text) /\ at' = "shown"
         ELSE text' = ZstrGroup(text) /\ at' = "groups"
  BY DEF NextGroup, Goto
<1>. DEFINE n == Printed
            cap == result.cap
            d == ZstrLength(n)
<1>2. /\ n \in Nat \ {0} /\ cap \in Nat /\ cap > d /\ TextBuilt(n, cap, text)
      /\ result.room \in {cap, cap + 1}
      /\ op[1] >= 1 /\ op[2] >= 1 /\ op[3] >= 1
  BY <1>1, PrintedPositive DEF Textual, Showing
<1>3. HasDigits(n, d) /\ d < cap
  <2>1. HasDigits(n, d)
    BY <1>2, ZstrLengthIs
  <2>. QED
    BY <1>2, <2>1 DEF HasDigits
<1>4. Printed' = n /\ result'.cap = cap /\ result'.room = result.room
  BY <1>1 DEF Printed, Program
<1>5. (result.cap > ZstrLength(Printed))'
  BY <1>2, <1>4
<1>. HIDE DEF n, cap, d
<1>6. CASE ZstrLastGroup(text)
  <2>1. TextComplete(n, d, cap, text'.b)
    BY <1>1, <1>2, <1>3, <1>6, TextCompleted
  <2>2. /\ CString(text'.b, 0) = Decimal(n)
        /\ { i \in DOMAIN text'.b : i >= result.room /\ text'.b[i] # Unset } =
              IF result.room = cap /\ n >= GroupBase THEN {cap} ELSE {}
    BY <1>2, <1>3, <2>1, CompleteIsRight
  <2>3. TextRight'
    BY <1>4, <2>2 DEF TextRight
  <2>. QED
    BY <1>1, <1>2, <1>4, <1>5, <1>6, <2>3 DEF Textual
<1>7. CASE ~ ZstrLastGroup(text)
  <2>1. TextBuilt(n, cap, text')
    BY <1>1, <1>2, <1>3, <1>7, TextContinued
  <2>2. TextBuilt(Printed, result.cap, text)'
    BY <1>4, <2>1
  <2>. QED
    BY <1>1, <1>2, <1>4, <1>5, <1>7, <2>2 DEF Textual, TextRight
<1>. QED
  BY <1>6, <1>7

LEMMA PrintTextual ==
  ASSUME Typed, Textual, PrintText
  PROVE  Textual'
<1>1. result' = result /\ result.cap \in Nat
  BY DEF PrintText, Textual
<1>2. CASE at' = "compute"
  <2>1. op' = <<Collatz(op[1]), 1, 1>>
    BY <1>2 DEF PrintText, Back, Goto
  <2>2. Collatz(op[1]) >= 1
    <3>. DEFINE v == op[1]
    <3>1. v \in Nat \ {0}
      BY PrintedPositive DEF PrintText, Showing
    <3>. HIDE DEF v
    <3>2. v % 2 = 0 => v \div 2 >= 1
      BY <3>1
    <3>3. Collatz(v) >= 1
      BY <3>1, <3>2 DEF Collatz
    <3>. QED
      BY <3>3 DEF v
  <2>3. op'[1] >= 1 /\ op'[2] >= 1 /\ op'[3] >= 1
    BY <2>1, <2>2
  <2>. QED
    BY <1>1, <1>2, <2>3 DEF Textual, TextRight
<1>3. CASE at' # "compute"
  <2>1. at' \notin Showing
    BY <1>3 DEF PrintText, Back, Goto, Showing
  <2>. QED
    BY <1>1, <2>1, Elsewhere
<1>. QED
  BY <1>2, <1>3

LEMMA FailureTextual ==
  ASSUME Textual, Failure
  PROVE  Textual'
<1>1. result'.cap \in Nat /\ at' \notin Showing
  BY DEF Failure, Exit, Textual, Showing
<1>. QED
  BY <1>1, Elsewhere

LEMMA NextTextual ==
  ASSUME Typed, Textual, [Next]_vars
  PROVE  Textual'
<1>1. CASE Failure
  BY <1>1, FailureTextual
<1>2. CASE Start /\ ~ Failure
  <2>1. result' \in {Null(0), Room(ResultCap), Null(ResultCap)} /\ at' \in {"line", "args"}
    BY <1>2 DEF Start, Goto
  <2>2. result'.cap \in Nat /\ at' \notin Showing
    BY <2>1, ResultAssumption DEF Null, Room, Showing
  <2>. QED
    BY <2>2, Elsewhere
<1>3. CASE NextArgument \/ NextLine \/ Finish
  <2>1. result' = result /\ at' \in {"parse", "exit"}
    BY <1>3 DEF NextArgument, NextLine, Finish, Goto, Exit
  <2>2. result'.cap \in Nat /\ at' \notin Showing
    BY <2>1 DEF Textual, Showing
  <2>. QED
    BY <2>2, Elsewhere
<1>4. CASE Callback /\ ~ Failure
  <2>1. Parse \/ Compute \/ GrowResult \/ Zstr \/ NextGroup \/ PrintText
    BY <1>4 DEF Callback, ParseFails, ComputeFails, PrintFails
  <2>. QED
    BY <1>4, <2>1, ParseTextual, ComputeTextual, GrowTextual, ZstrTextual, GroupTextual, PrintTextual
<1>5. CASE ReadLines /\ UNCHANGED progVars
  <2>1. result' = result /\ at' \notin Showing
    BY <1>5 DEF ReadLines, AllocateLine, Nalread, Fgets, Inspect, GrowLine, Returned, Showing,
                progVars
  <2>2. result'.cap \in Nat
    BY <2>1 DEF Textual
  <2>. QED
    BY <2>1, <2>2, Elsewhere
<1>6. CASE UNCHANGED vars
  <2>1. UNCHANGED <<run, at, op, result, text>>
    BY <1>6 DEF vars
  <2>. QED
    BY <2>1, SameTextual
<1>. QED
  BY <1>1, <1>2, <1>3, <1>4, <1>5, <1>6 DEF Next

(* For numbers and groups of any length: what zstr leaves for printf is the *)
(* number, digit by digit, although its groups overlap by a character and   *)
(* are moved over themselves; and it writes at most one character behind    *)
(* the room that its caller gave it.                                        *)
THEOREM TextAlwaysRight == Spec => []TextRight
<1>1. Typed /\ Textual => TextRight
  BY DEF Textual
<1>. QED
  BY <1>1, InitTyped, InitTextual, NextTyped, NextTextual, PTL DEF Spec
=============================================================================
