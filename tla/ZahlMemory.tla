----------------------------- MODULE ZahlMemory -----------------------------
(***************************************************************************)
(* The memory of libzahl: the blocks of limbs its numbers own, the cache   *)
(* that recycles them (libzahl_pool), the stack of temporary numbers that  *)
(* makes an error recoverable (libzahl_temp_stack), and the long jump.     *)
(*                                                                         *)
(* Any call of malloc or realloc may return NULL.  Limbs are abstracted:   *)
(* of a value only the number of limbs it occupies is kept.  A size that   *)
(* the code holds as a power of two is represented by its exponent, its    *)
(* size class, which is also the index of the pool that caches such blocks.*)
(***************************************************************************)
EXTENDS Integers, Sequences

CONSTANTS
  Block,      \* what the C heap can hand out
  User,       \* the z_t variables of the program
  Dedicated,  \* the libzahl_tmp_* numbers
  Local,      \* the z_t locals of zmul_ll and zsqr_ll activations
  NoBlock,    \* the null pointer
  MaxClass,   \* largest size class
  PoolInit,   \* first capacity of a pool        (128 in zfree.c)
  StackInit   \* first capacity of the temporary stack (256 in zsetup.c)

ASSUME BlockAssumption  == NoBlock \notin Block
ASSUME NumberAssumption == /\ User \cap Dedicated = {}
                           /\ User \cap Local = {}
                           /\ Dedicated \cap Local = {}
ASSUME SizeAssumption   == /\ MaxClass \in Nat
                           /\ PoolInit \in Nat /\ PoolInit >= 2
                           /\ StackInit \in Nat /\ StackInit >= 1

Number == User \cup Dedicated \cup Local

(* Numbers are told from blocks, and from the other places a block can be. *)
ASSUME HolderAssumption ==
  Number \cap (Block \cup { "heap", "cache", "text", "lost" }) = {}

Class  == 0 .. MaxClass
Free   == -1             \* a block the heap holds; also the class of alloced = 0
Raw    == MaxClass + 1   \* a block of characters, not of limbs

Capacity(c) == IF c = Free THEN 0 ELSE 2 ^ c

(* The index libzahl_realloc computes from the number of limbs it needs.   *)
Msb(n) == CHOOSE i \in 0 .. n : 2 ^ i <= n /\ n < 2 ^ (i + 1)
SizeClassRoundedDown(need) == Msb(need)                         \* mutant
SizeClass(need) == IF 2 ^ Msb(need) # need THEN Msb(need) + 1 ELSE Msb(need)
(* The requests that stay within the largest size class.                   *)
Need == { n \in 1 .. 2 ^ MaxClass : SizeClass(n) \in Class }

(* The next capacity of a pool that holds j blocks.                        *)
GrowToHalf(j) == IF j = 0 THEN PoolInit ELSE j \div 2  \* mutant: = for +=
Grow(j) == IF j = 0 THEN PoolInit ELSE (j * 3) \div 2

VARIABLES
  heap,       \* the size class of every block in use, Free or Raw
  chars,      \* the block of a number, or NoBlock
  alloced,    \* the size class the number believes its block has
  used,       \* the limbs of its value; 0 for zero and before an assignment
  live,       \* the program's numbers between zinit and zfree
  pool,       \* libzahl_pool: the cached blocks of each class
  poolAlloc,  \* libzahl_pool_alloc
  tempStack,  \* libzahl_temp_stack up to libzahl_temp_stack_head
  tempEnd,    \* its capacity, libzahl_temp_stack_end; 0 for no stack
  tempAlloc,  \* libzahl_temp_allocation
  strings,    \* buffers zstr allocated and the program holds
  setUp,      \* libzahl_set_up
  status      \* where control is

numbers == <<chars, alloced, used, live>>
caches  == <<heap, pool, poolAlloc>>
temps   == <<tempStack, tempEnd, tempAlloc, strings>>
vars    == <<numbers, caches, temps, setUp, status>>

Status == { "down",    \* not set up
            "run",     \* the program or the library runs
            "unwind",  \* in libzahl_failure
            "jumped",  \* the setjmp of main has returned 1
            "dead" }   \* the error handler is done

OnStack(a)     == \E k \in 1 .. Len(tempStack) : tempStack[k] = a
Initialised(a) == a \in live \/ (a \in Dedicated /\ setUp) \/ OnStack(a)

(* The library is not inside a call of one of its functions.               *)
AtTop == tempStack = <<>> /\ tempAlloc = NoBlock

-----------------------------------------------------------------------------
(* zfree: the block of a goes to the pool of its class.  A full pool is    *)
(* grown; when that fails the block is freed and the pool is dropped.      *)
(* p is the content of the pools when zfree is called.                     *)
Zfree(a, p) ==
  LET i == alloced[a] IN
  \/ /\ chars[a] = NoBlock
     /\ pool' = p
     /\ UNCHANGED <<heap, poolAlloc>>
  \/ /\ chars[a] # NoBlock
     /\ Len(p[i]) # poolAlloc[i]
     /\ pool' = [p EXCEPT ![i] = Append(@, chars[a])]
     /\ UNCHANGED <<heap, poolAlloc>>
  \/ /\ chars[a] # NoBlock
     /\ Len(p[i]) = poolAlloc[i]
     /\ pool' = [p EXCEPT ![i] = Append(@, chars[a])]
     /\ poolAlloc' = [poolAlloc EXCEPT ![i] = Grow(Len(p[i]))]
     /\ UNCHANGED heap
  \/ /\ chars[a] # NoBlock
     /\ Len(p[i]) = poolAlloc[i]
     /\ heap' = [heap EXCEPT ![chars[a]] = Free]
     /\ pool' = [p EXCEPT ![i] = <<>>]
     /\ poolAlloc' = [poolAlloc EXCEPT ![i] = 0]

(* Mutants of TakeCached: without libzahl_pool_n[i]--, without the         *)
(* assignment of alloced, and without the call of zfree.                   *)
TakeCachedTwice(a, i) ==
  LET n == Len(pool[i]) IN
  /\ n # 0
  /\ Zfree(a, pool)
  /\ chars' = [chars EXCEPT ![a] = pool[i][n]]
  /\ alloced' = [alloced EXCEPT ![a] = i]
  /\ UNCHANGED status

TakeCachedUnsized(a, i) ==
  LET n == Len(pool[i]) IN
  /\ n # 0
  /\ Zfree(a, [pool EXCEPT ![i] = SubSeq(@, 1, n - 1)])
  /\ chars' = [chars EXCEPT ![a] = pool[i][n]]
  /\ UNCHANGED <<alloced, status>>

TakeCachedForgetting(a, i) ==
  LET n == Len(pool[i]) IN
  /\ n # 0
  /\ pool' = [pool EXCEPT ![i] = SubSeq(@, 1, n - 1)]
  /\ chars' = [chars EXCEPT ![a] = pool[i][n]]
  /\ alloced' = [alloced EXCEPT ![a] = i]
  /\ UNCHANGED <<heap, poolAlloc, status>>

(* libzahl_realloc when the pool of class i caches a block: the last one   *)
(* is taken, the limbs are copied to it, the old block goes through zfree. *)
TakeCached(a, i) ==
  LET n == Len(pool[i]) IN
  /\ n # 0
  /\ Zfree(a, [pool EXCEPT ![i] = SubSeq(@, 1, n - 1)])
  /\ chars' = [chars EXCEPT ![a] = pool[i][n]]
  /\ alloced' = [alloced EXCEPT ![a] = i]
  /\ UNCHANGED status

(* libzahl_realloc when it does not: realloc, which may move the block.    *)
Reallocate(a, i) ==
  /\ pool[i] = <<>>
  /\ \E b \in Block :
       /\ heap[b] = Free \/ b = chars[a]
       /\ heap' = [c \in Block |-> IF c = b THEN i
                                   ELSE IF c = chars[a] THEN Free
                                   ELSE heap[c]]
       /\ chars' = [chars EXCEPT ![a] = b]
  /\ alloced' = [alloced EXCEPT ![a] = i]
  /\ UNCHANGED <<pool, poolAlloc, status>>

(* realloc returned NULL, which overwrites the only pointer to the block.  *)
ReallocFails(a, i) ==
  /\ pool[i] = <<>>
  /\ chars' = [chars EXCEPT ![a] = NoBlock]
  /\ status' = "unwind"
  /\ UNCHANGED <<caches, alloced>>

libzahl_realloc(a, need) ==
  \/ TakeCached(a, SizeClass(need))
  \/ Reallocate(a, SizeClass(need))
  \/ ReallocFails(a, SizeClass(need))

(* ENSURE_SIZE                                                             *)
EnsureSize(a, need) ==
  \/ Capacity(alloced[a]) < need /\ libzahl_realloc(a, need)
  \/ Capacity(alloced[a]) >= need /\ UNCHANGED <<caches, chars, alloced, status>>

-----------------------------------------------------------------------------
(* Functions that store a value in a number.                               *)

Zset(a, b) ==
  /\ status = "run" /\ Initialised(a) /\ Initialised(b)
  /\ used' = [used EXCEPT ![a] = used[b]]
  /\ \/ used[b] = 0 /\ UNCHANGED <<caches, chars, alloced, status>>
     \/ used[b] \in Need /\ EnsureSize(a, used[b])
  /\ UNCHANGED <<live, temps, setUp>>

(* zsetu and zseti of a value other than 0                                 *)
Zsetu(a) ==
  /\ status = "run" /\ Initialised(a)
  /\ 1 \in Need /\ EnsureSize(a, 1)
  /\ used' = IF status' = "run" THEN [used EXCEPT ![a] = 1] ELSE used
  /\ UNCHANGED <<live, temps, setUp>>

(* zlsh by k whole limbs and some bits; the bits may carry into a further  *)
(* limb.                                                                   *)
Zlsh(a, b, k) ==
  /\ status = "run" /\ Initialised(a) /\ Initialised(b)
  /\ \/ /\ used[b] = 0
        /\ used' = [used EXCEPT ![a] = 0]
        /\ UNCHANGED <<caches, chars, alloced, status>>
     \/ /\ used[b] # 0
        /\ used[b] + k + 1 \in Need
        /\ EnsureSize(a, used[b] + k + 1)
        /\ \E carry \in {0, 1} :
             used' = IF status' = "run"
                     THEN [used EXCEPT ![a] = used[b] + k + carry] ELSE used
  /\ UNCHANGED <<live, temps, setUp>>

(* zswap exchanges all fields, so two numbers exchange their blocks.       *)
Zswap(a, b) ==
  /\ status = "run" /\ Initialised(a) /\ Initialised(b)
  /\ chars'   = [chars   EXCEPT ![a] = chars[b],   ![b] = chars[a]]
  /\ alloced' = [alloced EXCEPT ![a] = alloced[b], ![b] = alloced[a]]
  /\ used'    = [used    EXCEPT ![a] = used[b],    ![b] = used[a]]
  /\ UNCHANGED <<caches, live, temps, setUp, status>>

(* znot stores the complement without ENSURE_SIZE on the destination.      *)
Znot(a, b) ==
  /\ status = "run" /\ Initialised(a) /\ Initialised(b)
  /\ used' = [used EXCEPT ![a] = used[b]]
  /\ UNCHANGED <<caches, chars, alloced, live, temps, setUp, status>>

-----------------------------------------------------------------------------
(* The life of a number of the program.  It calls zfree once for a zinit,  *)
(* as zfree.3 demands.                                                     *)

Zinit(a) ==
  /\ status = "run" /\ AtTop
  /\ a \in User \ live
  /\ live' = live \cup {a}
  /\ chars' = [chars EXCEPT ![a] = NoBlock]
  /\ alloced' = [alloced EXCEPT ![a] = Free]
  /\ used' = [used EXCEPT ![a] = 0]
  /\ UNCHANGED <<caches, temps, setUp, status>>

ZfreeUser(a) ==
  /\ status = "run" /\ AtTop
  /\ a \in live
  /\ Zfree(a, pool)
  /\ live' = live \ {a}
  /\ UNCHANGED <<chars, alloced, used, temps, setUp, status>>

(* zinit_temp registers a local on the stack, which doubles when it is     *)
(* full; when that fails the local is not registered.                      *)
ZinitTemp(a) ==
  /\ status = "run"
  /\ a \in Local /\ ~ OnStack(a)
  /\ chars' = [chars EXCEPT ![a] = NoBlock]
  /\ alloced' = [alloced EXCEPT ![a] = Free]
  /\ used' = [used EXCEPT ![a] = 0]
  /\ \/ /\ Len(tempStack) # tempEnd
        /\ tempStack' = Append(tempStack, a)
        /\ UNCHANGED <<tempEnd, status>>
     \/ /\ Len(tempStack) = tempEnd
        /\ tempStack' = Append(tempStack, a)
        /\ tempEnd' = 2 * tempEnd
        /\ UNCHANGED status
     \/ /\ Len(tempStack) = tempEnd
        /\ status' = "unwind"
        /\ UNCHANGED <<tempStack, tempEnd>>
  /\ UNCHANGED <<caches, live, tempAlloc, strings, setUp>>

(* zfree_temp frees the number it is given and pops whatever is on top.    *)
(* Callers free in the reverse order of zinit_temp, as the comment above   *)
(* these functions requires, so the two are the same.                      *)
ZfreeTemp(a) ==
  /\ status = "run"
  /\ tempStack # <<>> /\ a = tempStack[Len(tempStack)]
  /\ Zfree(a, pool)
  /\ tempStack' = SubSeq(tempStack, 1, Len(tempStack) - 1)
  /\ UNCHANGED <<numbers, tempEnd, tempAlloc, strings, setUp, status>>

(* zstr without a buffer: it allocates one, remembers it while it divides, *)
(* and hands it to the program, which frees it.                            *)
ZstrAllocate ==
  /\ status = "run" /\ AtTop
  /\ \/ \E b \in Block : /\ heap[b] = Free
                         /\ heap' = [heap EXCEPT ![b] = Raw]
                         /\ tempAlloc' = b
                         /\ UNCHANGED status
     \/ status' = "unwind" /\ UNCHANGED <<heap, tempAlloc>>
  /\ UNCHANGED <<numbers, pool, poolAlloc, tempStack, tempEnd, strings, setUp>>

ZstrReturnUnchecked ==  \* mutant: also without a buffer
  /\ status = "run" /\ tempStack = <<>>
  /\ strings' = strings \cup {tempAlloc}
  /\ tempAlloc' = NoBlock
  /\ UNCHANGED <<numbers, caches, tempStack, tempEnd, setUp, status>>

ZstrReturn ==
  /\ status = "run"
  /\ tempStack = <<>> /\ tempAlloc # NoBlock
  /\ strings' = strings \cup {tempAlloc}
  /\ tempAlloc' = NoBlock
  /\ UNCHANGED <<numbers, caches, tempStack, tempEnd, setUp, status>>

FreeString(b) ==
  /\ status = "run" /\ AtTop
  /\ b \in strings
  /\ strings' = strings \ {b}
  /\ heap' = [heap EXCEPT ![b] = Free]
  /\ UNCHANGED <<numbers, pool, poolAlloc, tempStack, tempEnd, tempAlloc,
                 setUp, status>>

-----------------------------------------------------------------------------
(* libzahl_failure: every registered temporary is freed, last first, then  *)
(* the string in progress, then control jumps.                             *)

UnwindTempWithBlock ==  \* mutant: a temporary without a block ends the loop
  /\ status = "unwind" /\ tempStack # <<>>
  /\ chars[tempStack[Len(tempStack)]] # NoBlock
  /\ Zfree(tempStack[Len(tempStack)], pool)
  /\ tempStack' = SubSeq(tempStack, 1, Len(tempStack) - 1)
  /\ UNCHANGED <<numbers, tempEnd, tempAlloc, strings, setUp, status>>

UnwindTemp ==
  /\ status = "unwind" /\ tempStack # <<>>
  /\ Zfree(tempStack[Len(tempStack)], pool)
  /\ tempStack' = SubSeq(tempStack, 1, Len(tempStack) - 1)
  /\ UNCHANGED <<numbers, tempEnd, tempAlloc, strings, setUp, status>>

LongjmpKeepingString ==  \* mutant: libzahl_temp_allocation is not freed
  /\ status = "unwind" /\ tempStack = <<>>
  /\ tempAlloc' = NoBlock
  /\ status' = "jumped"
  /\ UNCHANGED <<numbers, heap, pool, poolAlloc, tempStack, tempEnd, strings,
                 setUp>>

Longjmp ==
  /\ status = "unwind" /\ tempStack = <<>>
  /\ heap' = [b \in Block |-> IF b = tempAlloc THEN Free ELSE heap[b]]
  /\ tempAlloc' = NoBlock
  /\ status' = "jumped"
  /\ UNCHANGED <<numbers, pool, poolAlloc, tempStack, tempEnd, strings, setUp>>

(* zsetup of a library that is down.                                       *)
Zsetup ==
  /\ status = "down" /\ ~ setUp
  /\ setUp' = TRUE
  /\ pool' = [i \in Class |-> <<>>]
  /\ poolAlloc' = [i \in Class |-> 0]
  /\ chars' = [a \in Number |-> IF a \in Dedicated THEN NoBlock ELSE chars[a]]
  /\ alloced' = [a \in Number |-> IF a \in Dedicated THEN Free ELSE alloced[a]]
  /\ used' = [a \in Number |-> IF a \in Dedicated THEN 0 ELSE used[a]]
  /\ tempStack' = <<>>
  /\ \/ tempEnd' = StackInit /\ status' = "run"
     \/ tempEnd' = 0 /\ status' = "unwind"
  /\ UNCHANGED <<heap, live, tempAlloc, strings>>

Cached(b)          == \E i \in Class : \E k \in 1 .. Len(pool[i]) : pool[i][k] = b
HeldByNobody(b)    == FALSE  \* mutant: zunsetup without LIST_TEMPS
HeldByDedicated(b) == \E a \in Dedicated : chars[a] = b

(* zunsetup, at the end of main or in its error handler.  The pointers to  *)
(* the blocks it frees stay where they were until the next zsetup.         *)
Zunsetup ==
  /\ \/ status = "run" /\ AtTop /\ status' = "down"
     \/ status = "jumped" /\ status' = "dead"
  /\ setUp
  /\ setUp' = FALSE
  /\ heap' = [b \in Block |-> IF Cached(b) \/ HeldByDedicated(b)
                              THEN Free ELSE heap[b]]
  /\ UNCHANGED <<numbers, pool, poolAlloc, temps>>

-----------------------------------------------------------------------------

Init ==
  /\ heap = [b \in Block |-> Free]
  /\ chars = [a \in Number |-> NoBlock]
  /\ alloced = [a \in Number |-> Free]
  /\ used = [a \in Number |-> 0]
  /\ live = {}
  /\ pool = [i \in Class |-> <<>>]
  /\ poolAlloc = [i \in Class |-> 0]
  /\ tempStack = <<>> /\ tempEnd = 0
  /\ tempAlloc = NoBlock /\ strings = {}
  /\ setUp = FALSE /\ status = "down"

Store == \E a, b \in Number : \/ Zset(a, b)
                              \/ Zsetu(a)
                              \/ \E k \in 0 .. 1 : Zlsh(a, b, k)
                              \/ Zswap(a, b)

Lifetimes == \/ \E a \in User : Zinit(a) \/ ZfreeUser(a)
             \/ \E a \in Local : ZinitTemp(a) \/ ZfreeTemp(a)
             \/ ZstrAllocate
             \/ ZstrReturn
             \/ \E b \in Block : FreeString(b)

Failure == UnwindTemp \/ Longjmp

Next == Store \/ Lifetimes \/ Failure \/ Zsetup \/ Zunsetup

Spec == Init /\ [][Next]_vars

(* Once an allocation has failed the library runs on without the program's *)
(* help: libzahl_failure is a loop and a jump.                             *)
FairSpec == Spec /\ WF_vars(Failure)

(* The specification with znot among the functions that store a value.     *)
SpecWithZnot == Init /\ [][Next \/ \E a, b \in Number : Znot(a, b)]_vars

-----------------------------------------------------------------------------
(* Properties                                                              *)

TypeOK ==
  /\ heap \in [Block -> Class \cup {Free, Raw}]
  /\ chars \in [Number -> Block \cup {NoBlock}]
  /\ alloced \in [Number -> Class \cup {Free}]
  /\ used \in [Number -> Nat]
  /\ live \subseteq User
  /\ pool \in [Class -> Seq(Block)]
  /\ poolAlloc \in [Class -> Nat]
  /\ tempStack \in Seq(Local)
  /\ tempEnd \in Nat
  /\ tempAlloc \in Block \cup {NoBlock}
  /\ strings \subseteq Block
  /\ setUp \in BOOLEAN
  /\ status \in Status

Slot(i) == 1 .. Len(pool[i])
Holds(a, b) == Initialised(a) /\ chars[a] = b /\ b # NoBlock
InPool(b)   == setUp /\ Cached(b)
InString(b) == b = tempAlloc \/ b \in strings
Owned(b)    == (\E a \in Number : Holds(a, b)) \/ InPool(b) \/ InString(b)
Lost        == { b \in Block : heap[b] # Free /\ ~ Owned(b) }

(* No block has two owners: two numbers never share limbs, whatever was    *)
(* swapped, grown or unwound; a cached block is cached once and belongs to *)
(* no number; strings are apart.  This is what makes zfree and the free    *)
(* calls of libzahl_failure and zunsetup release each block at most once.  *)
ExclusiveOwnership ==
  /\ \A a, c \in Number, b \in Block : Holds(a, b) /\ Holds(c, b) => a = c
  /\ \A b \in Block : ~ (InPool(b) /\ \E a \in Number : Holds(a, b))
  /\ \A b \in Block :
       InString(b) => ~ InPool(b) /\ \A a \in Number : ~ Holds(a, b)
  /\ setUp => \A i, j \in Class : \A k \in Slot(i), l \in Slot(j) :
                pool[i][k] = pool[j][l] => i = j /\ k = l
  /\ tempAlloc \notin strings

(* Every owner knows the size of its block, and the block is allocated:    *)
(* ENSURE_SIZE trusts alloced, zfree derives the pool from it and          *)
(* libzahl_realloc takes a block of pool i for one of 2^i limbs.           *)
SoundCapacity ==
  /\ \A a \in Number, b \in Block : Holds(a, b) => heap[b] = alloced[a]
  /\ \A b \in Block : InString(b) => heap[b] = Raw
  /\ setUp => \A i \in Class : \A k \in Slot(i) : heap[pool[i][k]] = i
  /\ status = "run" => \A a \in Number :
       Initialised(a) /\ chars[a] = NoBlock => alloced[a] = Free

(* The pointer arrays are never written past their ends: a pool holds at   *)
(* most libzahl_pool_alloc[i] blocks, which the growth by one half must    *)
(* keep ahead of the count, and the stack no more than its capacity.       *)
WithinArrays ==
  setUp => /\ \A i \in Class : Len(pool[i]) <= poolAlloc[i]
           /\ Len(tempStack) <= tempEnd

(* The value of every number fits in the block the number really has.  It  *)
(* is not required while an error unwinds: zset sets used before it grows. *)
UsedFits ==
  status = "run" => \A a \in Number :
    Initialised(a) /\ used[a] # 0 =>
      chars[a] # NoBlock /\ used[a] <= Capacity(heap[chars[a]])

(* A block is lost only where the code gives it up after an allocation     *)
(* failed: all blocks of the pool that zfree could not grow, or the one    *)
(* block whose realloc failed.  In particular the long jump loses none of  *)
(* the temporaries of the activations it cuts off, nor zstr its buffer.    *)
LostByFailureOnly ==
  [][\A b \in Lost' \ Lost :
       \/ \E i \in Class : poolAlloc[i] # 0 /\ poolAlloc'[i] = 0 /\ heap[b] = i
       \/ /\ status = "run" /\ status' = "unwind"
          /\ \E a \in Number : Holds(a, b) /\ chars'[a] = NoBlock]_vars

(* After a failure, anywhere inside the library, control comes back to the *)
(* setjmp of main: the unwinding ends.                                     *)
FailureReachesHandler == status = "unwind" ~> status = "jumped"

(* The holder of a block, for the specification of what becomes of blocks. *)
Holder(b) ==
  CASE heap[b] = Free                  -> "heap"
    [] \E a \in Number : Holds(a, b) -> CHOOSE a \in Number : Holds(a, b)
    [] InPool(b)                       -> "cache"
    [] InString(b)                     -> "text"
    [] OTHER                           -> "lost"

Lifecycle == INSTANCE BlockLifecycle WITH
  Permanent <- Dedicated, Size <- Class, Text <- Raw, NoSize <- Free,
  holder <- [b \in Block |-> Holder(b)], size <- heap

(* Whatever the program does and whichever allocations fail, each step     *)
(* moves blocks as the specification allows: a number gets a block from    *)
(* the heap or the cache and never from another number but by zswap, what  *)
(* it had before is not forgotten, a cached block keeps its size, and      *)
(* zunsetup returns all blocks that are cached or dedicated.               *)
BlocksChangeHands == Lifecycle!Spec

(* zunsetup.3: zunsetup "release all memory used internally or cached by   *)
(* libzahl": when the library is down, what is still allocated belongs to  *)
(* a number or a string of the program.                                    *)
UnsetupReleasesAll == status = "down" => Lost = {}
=============================================================================
