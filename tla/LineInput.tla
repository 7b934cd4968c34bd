----------------------------- MODULE LineInput ------------------------------
(***************************************************************************)
(* nalread and the loop of cliterate: lines of any length from a stream,   *)
(* read by fgets in pieces into a buffer that doubles until the end of the *)
(* line is in it.  What a callback does with a line is up to the module    *)
(* that composes this one with it: it takes over at "callback" and comes   *)
(* back at "read".                                                         *)
(***************************************************************************)
EXTENDS ZahlText, LibUtil

CONSTANT Bufsiz   \* characters of the buffer at first      (BUFSIZ)

(* With less, fgets would be asked for nothing.                            *)
ASSUME BufsizAssumption == Bufsiz \in Nat /\ Bufsiz >= 5

VARIABLES
  at,      \* the function or loop that goes on next
  stdin,   \* the characters that have not been read
  line,    \* the buffer *in, with *len cells; without any, the null pointer
  read     \* readpos, counted from *in, readlen and res of nalread

lineVars == <<stdin, line, read>>

AtRest == [pos |-> 0, len |-> 0, res |-> 0]

(* Cells that keep what they have as far as it goes.                       *)
Sized(n, cells) == [i \in 1 .. n |-> IF i <= Len(cells) THEN cells[i] ELSE Unset]

(* The unchecked calloc of cliterate.                                      *)
AllocateLine ==
  /\ at = "line"
  /\ line' \in { [i \in 1 .. Bufsiz |-> NUL], <<>> }
  /\ at' = "read"
  /\ UNCHANGED <<stdin, read>>

(* nalread begins, in the null pointer too.                                *)
Nalread ==
  /\ at = "read"
  /\ \/ /\ line # <<>>
        /\ read' = [pos |-> 0, len |-> (Len(line) - 1) \div 2, res |-> 0]
        /\ at' = "fgets"
     \/ /\ line = <<>>
        /\ at' = "crashed"
        /\ UNCHANGED read
  /\ UNCHANGED <<stdin, line>>

(* Of a line of this length there is something, or the stream has ended.   *)
Returned(n) == at' = IF n > 0 THEN "callback" ELSE "end"

(* fgets: up to the end of a line or one less than readlen.                *)
PieceLength == Min({ read.len - 1, Len(stdin) } \cup { i \in DOMAIN stdin : stdin[i] = NL })
Strnlen(cells, pos, n) ==
  Min({n} \cup { i \in 0 .. n - 1 : cells[pos + i + 1] = NUL })

Fgets ==
  /\ at = "fgets"
  /\ \/ /\ stdin = <<>>
        /\ Returned(read.pos + read.res)
        /\ UNCHANGED lineVars
     \/ /\ stdin # <<>>
        /\ LET piece == SubSeq(stdin, 1, PieceLength)
               new   == Stored(line, read.pos + 1, Append(piece, NUL))
           IN  /\ line' = new
               /\ read' = [read EXCEPT !.res = Strnlen(new, read.pos, read.len)]
        /\ stdin' = SubSeq(stdin, PieceLength + 1, Len(stdin))
        /\ at' = "inspect"

(* What the character at readpos[res - 1] may be taken for: before the     *)
(* buffer there can be anything.                                           *)
LineEnded == { line[i] = NL : i \in {read.pos + read.res} \ {0} }
             \cup IF read.pos + read.res = 0 THEN BOOLEAN ELSE {}

InspectNothing ==  \* mutant: what fits into the buffer is a line
  /\ at = "inspect"
  /\ Returned(read.pos + read.res)
  /\ UNCHANGED lineVars
Inspect ==
  /\ at = "inspect"
  /\ \E ended \in LineEnded :
       IF ended THEN Returned(read.pos + read.res) ELSE at' = "grow"
  /\ UNCHANGED lineVars

(* The buffer doubles, or is lost and the stream taken to have ended.      *)
GrowFromPiece ==  \* mutant: what earlier pieces occupy is forgotten
  /\ at = "grow"
  /\ line' = Sized(2 * Len(line), line)
  /\ read' = [read EXCEPT !.pos = @ + read.res, !.len = 2 * Len(line) - read.res]
  /\ at' = "fgets"
  /\ UNCHANGED stdin
GrowNothing ==  \* mutant: the buffer is read on into without growing
  /\ at = "grow"
  /\ read' = [read EXCEPT !.pos = @ + read.res, !.len = Len(line) - (read.pos + read.res)]
  /\ at' = "fgets"
  /\ UNCHANGED <<stdin, line>>
GrowLine ==
  /\ at = "grow"
  /\ \/ /\ ~ Refused(2 * Len(line), 1)
        /\ LET pos == read.pos + read.res
           IN  /\ line' = Sized(2 * Len(line), line)
               /\ read' = [read EXCEPT !.pos = pos, !.len = 2 * Len(line) - pos]
        /\ at' = "fgets"
        /\ UNCHANGED stdin
     \/ /\ line' = <<>>
        /\ at' = "end"
        /\ UNCHANGED <<stdin, read>>

ReadLines == AllocateLine \/ Nalread \/ Fgets \/ Inspect \/ GrowLine

(* The string the callback gets, up to the end of the line it cuts off.    *)
Delivered ==
  LET s == CString(line, 1)
  IN  SubSeq(s, 1, Min({Len(s)} \cup { i - 1 : i \in { j \in DOMAIN s : s[j] = NL } }))

(* What fgets is allowed to write is in the buffer, wherever in it the     *)
(* piece begins, and leaves room for a character, without which the buffer *)
(* would double for ever.                                                  *)
WithinLine == at = "fgets" => read.len >= 2 /\ read.pos + read.len <= Len(line)
=============================================================================
