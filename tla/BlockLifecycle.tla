--------------------------- MODULE BlockLifecycle ---------------------------
(***************************************************************************)
(* What the memory of libzahl promises of a block of limbs, whatever the   *)
(* caches and stacks behind it: at any time one holder has it, it changes  *)
(* hands only through the heap, the cache or an exchange of two numbers,   *)
(* keeps its size while it is cached, and is lost only by a failure.       *)
(***************************************************************************)
EXTENDS Integers

CONSTANTS
  Block,      \* the blocks
  Number,     \* who may hold one block of limbs each
  Permanent,  \* those of them the library keeps until it is shut down
  Size,       \* the sizes of blocks of limbs
  Text,       \* the size of a block of characters
  NoSize      \* the size of a block the heap holds

VARIABLES
  holder,     \* a number, or one of the places below
  size

vars  == <<holder, size>>
Place == { "heap", "cache", "text", "lost" }

Has(h)   == { b \in Block : holder[b] = h }
Cached   == Has("cache")

(* Every block goes where To says; those that reach the heap have no size. *)
Move(To(_)) ==
  holder' = [b \in Block |-> To(b)]

Sizes(Of(_)) ==
  size' = [b \in Block |-> IF holder'[b] = "heap" THEN NoSize ELSE Of(b)]

Keep(b) == size[b]

(* What a number gives up is cached, or goes back to the heap and the cache *)
(* loses all blocks of that size.                                          *)
Retire(old, h, taken) ==
  \/ Move(LAMBDA b : IF b = taken THEN h ELSE IF b \in old THEN "cache" ELSE holder[b])
  \/ Move(LAMBDA b : CASE b = taken -> h
                       [] b \in old -> "heap"
                       [] b \in Cached /\ b # taken /\ (\E o \in old : size[o] = size[b]) -> "lost"
                       [] OTHER -> holder[b])

(* A number without a block, or with one that is too small, gets one from  *)
(* the heap, or the heap makes its own larger.                             *)
Allocate(h) ==
  \E new \in Has("heap") \cup Has(h), s \in Size :
    /\ Move(LAMBDA b : IF b = new THEN h ELSE IF b \in Has(h) THEN "heap" ELSE holder[b])
    /\ Sizes(LAMBDA b : IF b = new THEN s ELSE size[b])

Recycle(h) ==
  \E new \in Cached :
    /\ \A b \in Has(h) : size[b] < size[new]
    /\ Retire(Has(h), h, new)
    /\ Sizes(Keep)

Release(h) == Retire(Has(h), h, h) /\ Sizes(Keep)

Exchange(h, k) ==
  /\ Move(LAMBDA b : CASE holder[b] = h -> k [] holder[b] = k -> h [] OTHER -> holder[b])
  /\ Sizes(Keep)

(* An allocation on behalf of h failed.                                    *)
Lose(h) ==
  /\ Move(LAMBDA b : IF b \in Has(h) THEN "lost" ELSE holder[b])
  /\ Sizes(Keep)

AllocateText ==
  \E new \in Has("heap") :
    /\ Move(LAMBDA b : IF b = new THEN "text" ELSE holder[b])
    /\ Sizes(LAMBDA b : IF b = new THEN Text ELSE size[b])

ReleaseText ==
  \E old \in Has("text") :
    /\ Move(LAMBDA b : IF b = old THEN "heap" ELSE holder[b])
    /\ Sizes(Keep)

ShutDown ==
  /\ Move(LAMBDA b : IF b \in Cached \/ holder[b] \in Permanent THEN "heap" ELSE holder[b])
  /\ Sizes(Keep)

Init == /\ holder = [b \in Block |-> "heap"]
        /\ size = [b \in Block |-> NoSize]

Next ==
  \/ \E h \in Number : Allocate(h) \/ Recycle(h) \/ Release(h) \/ Lose(h)
  \/ \E h, k \in Number : Exchange(h, k)
  \/ AllocateText \/ ReleaseText
  \/ ShutDown

Spec == Init /\ [][Next]_vars
=============================================================================
