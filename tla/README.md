# nbase in TLA+

nbase is five small C programs (`collatz`, `fact`, `fib`, `isprime`, `leyland`)
on top of two libraries kept in the same tree: `libzahl`, arbitrary-precision
integers, and `libutil`, checked allocation, error reporting and line input.

## Inventory

| component | sources | state it keeps | operations | what makes it correct |
|---|---|---|---|---|
| block cache | `libzahl/allocator.c`, `zfree.c`, `zsetup.c`, `zunsetup.c`, `internals.h` (failure, temporary stack), `inlines.h` (zinit, zswap, zset*) | `libzahl_pool[64]` with counts and capacities, temporary stack (base, head, end), `libzahl_temp_allocation`, `libzahl_set_up`, `libzahl_error`, each number's `alloced`/`chars` | `libzahl_realloc`, `zfree`, `zinit`, `zswap`, `zinit_temp`, `zfree_temp`, `libzahl_failure`, `zsetup`, `zunsetup` | a block has one owner, is as large as its owner believes, is never used after it was freed; an error at any allocation unwinds every live temporary before it jumps |
| limb arithmetic | `zadd.c`, `zsub.c`, `zmul.c`, `zsqr.c`, `zdivmod.c`, `zlsh.c`, `zrsh.c`, `ztrunc.c`, `inlines.h` (comparison, bit tests), `memory.h` | none of its own: sign, used, chars of the operands, dedicated temporaries | one function per operation of `zahl.h` | the value stored is the mathematical one, for every aliasing of the operands, at every carry and length boundary |
| bit logic | `zand.c`, `zor.c`, `zxor.c`, `znot.c`, `zbset.c`, block loops of `internals.h` | as above | as above | every limb of the result is written, none beyond the block |
| number theory | `zgcd.c`, `zpow.c`, `zpowu.c`, `zmod*.c`, `zptest.c`, `zrand.c` | dedicated temporaries; file descriptor in `zrand` | as above | the documented value; a prime is never called composite; every number of the range can be drawn |
| text conversion | `zsets.c`, `zstr.c`, `zstr_length.c`, `zsave`/`zload` | caller's buffer, `libzahl_temp_allocation` | parse, print, length, save, load | print after parse is the identity; nothing is written outside the caller's buffer |
| error reporting | `zerror.c`, `zperror.c`, `libutil/eprintf.c`, `libutil/fshut.c` | `libzahl_error`, `errno` | `zerror`, `zperror`, `eprintf` family | the error reported is the one that jumped |
| checked allocation and numbers | `libutil/ealloc.c`, `reallocarray.c`, `strtonum.c` | `errno` | `e*alloc`, `reallocarray`, `strtonum` | product overflow is an error, never a short block |
| line input | `libutil/nal.c`, `libutil/clit.c` | growing line buffer, read position | `nalread`, `cliterate` | every line reaches the callback once and whole; the read position stays inside the buffer |
| the programs | `collatz.c`, `fact.c`, `fib.c`, `isprime.c`, `leyland.c`, `arg.h`, `queue.h` | output buffer, numbers, a tail queue in `leyland` | a callback per input, `main` | the documented output; exit status; `leyland` prints every Leyland number in ascending order |

Components call each other only by function call, in one thread ("libzahl is
currently not thread-safe", `libzahl/README`): there is no interleaving. What is
hard is that any allocation may fail in the middle of a recursive operation and
is then handled by a `longjmp` to the program's `main`, that numbers share
blocks through a cache keyed by a size computed from a field, that a number may
be both operand and result, and that carries and lengths misbehave only at
limb boundaries 64-bit tests practically never meet.


## Modules

Ordered by what a mistake would cost: the memory carries every other part, and
the values of all programs rest on the limbs.

| modules | what | state |
|---|---|---|
| `ZahlMemory`, `ZahlMemoryProofs`, `PowersOfTwo` | blocks, pools, temporary stack, failure, setup | checked; its safety invariants proved |
| `BlockLifecycle` | abstract: who holds a block of limbs and how it changes hands; `ZahlMemory` implements it | checked and proved |
| `ZahlIntegers`, `ZahlIntegersProofs` | comparison, sums, differences, shifts, bits, on limbs | checked; all its invariants proved |
| `ZahlValues` | what those compute, on integers; used by the next two | |
| `ZahlProducts`, `ZahlProductsProofs`, `ZahlProductsValues` | the recursions of zmul and zsqr on the temporary stack | checked; its safety invariants proved |
| `ZahlNumberTheory`, `ZahlNumberTheoryProofs` | division, powers, gcd, primality test, random numbers | checked; all its invariants proved |
| `ZahlText` | numbers as text, in groups of digits | checked with `Filters` |
| `LibUtil` | the product check of reallocarray | checked with `Filters` |
| `LineInput` | nalread and cliterate | checked with `Filters` |
| `Filters`, `FiltersProofs` | collatz, fact, fib, isprime: composes the three above | checked; types, line input, product check, numbers read and texts proved |
| `LeylandNumbers`, `Leyland`, `LeylandProofs` | the enumeration and the queue that implements it | checked and proved |

Each checked specification has an `MC...` module with its inputs. What each layer takes for granted
is what the layer below it checks: `Filters` and `ZahlNumberTheory` take products and sums to be the integers' own,
which `ZahlProducts` and `ZahlIntegers` check, and those take blocks to be large
enough, which `ZahlMemory` does.

Where a layer below found the code to be wrong, the layers above may inherit it. Differences
with an *inner loan* (finding 3: a limb that is 1, and not the last, lends) reach zmul, zgcd and zptest, and
`ZahlProducts` and `ZahlNumberTheory` model them as the code computes them: `LendersOfOne` and `LentByInner` in `ZahlValues` say
what is left of such a difference, `ProductRight` and `GcdRight` name it as an exception. Products are exact in
`ZahlNumberTheory`, so its theorems about powers, modular products and primality say what the loops make of products that are right. The
sums of the other findings need operands more than twenty limbs apart stored in a third number (finding 4), zor and znot are not called by these
layers (2 and 5), and a pool that is dropped (1) changes no value.

Open: zload and zsave.

## ZahlMemory: the blocks

A block is an element of `Block`, its size a *class*: libzahl rounds every size
to a power of two and caches blocks of 2^i limbs in `libzahl_pool[i]`, so the
exponent is all the code ever tells apart. Of a value only the number of limbs
(`used`) is kept.

| state | code |
|---|---|
| `heap[b]` | what malloc knows: free, a class, or `Raw` (characters) |
| `chars`, `alloced`, `used` | the fields of `struct zahl` |
| `live` | numbers between `zinit` and `zfree`, the program's obligation |
| `pool`, `poolAlloc` | `libzahl_pool` up to `libzahl_pool_n`, `libzahl_pool_alloc` |
| `tempStack`, `tempEnd` | `libzahl_temp_stack` to its head, and its capacity |
| `tempAlloc`, `strings` | `libzahl_temp_allocation`, and the buffers zstr returned |
| `setUp`, `status` | `libzahl_set_up`; where control is: `down`, `run`, `unwind` (in `libzahl_failure`), `jumped` (in the handler), `dead` |

There is one action per function. `libzahl_realloc` is a choice of its three
outcomes (cached block, growth, failure) inside the action that calls it, for
every allocation may fail. `Zset`, `Zsetu`, `Zlsh`, `Zswap` stand for all
functions that store a value: those are the four ways a number gets a size.
The program is any caller that keeps to the manual pages: it frees what it
initialised, once, and calls `zstr` outside other calls. Temporaries are
freed in stack order as the comment above `zinit_temp` demands.

| run | shows | bounds |
|---|---|---|
| `ownership` | `ExclusiveOwnership`, `SoundCapacity`, `UsedFits`, `LostByFailureOnly`, `BlocksChangeHands` | 3 blocks for a dedicated number and a temporary; classes up to 2 (four limbs), so that a size that is no power of two is rounded across a gap |
| `unwinding` | `TypeOK`, `ExclusiveOwnership`, `WithinArrays`, `LostByFailureOnly`, `FailureReachesHandler` | a number of the program and two nested temporaries; 3 blocks of one class, so that a pool of two is full and grows or is dropped; a stack of one, so that it moves, or cannot |
| `unsetup` | violation of `UnsetupReleasesAll` | three numbers fill a pool of two |
| `znot` | violation of `UsedFits` | two numbers, one limb |

Two owners of a block need two numbers or a number and a pool: the run `ownership` has these with several
classes. A pool that is full and grows by half, or cannot, needs three blocks of one class cached at once, and the stack
must be full in the middle of a call: the run `unwinding` has these with a single class, and its
`WithinArrays` fails there if a full pool does not really grow (`GrowToHalf`).
Nothing in the code counts blocks beyond that, and the
theorems remove the bounds for all of the properties but `FailureReachesHandler`. Deadlock is not
checked: a program may stop after `zunsetup` or when the heap is exhausted.

`BlocksChangeHands` is the refinement: with the holder of each block computed from
the numbers, pools and strings (`Holder`), and its size from the heap, every behaviour of `ZahlMemory`
is one of `BlockLifecycle`, which knows no stack, no class and no program: a block comes
from the heap or the cache, is given up to the cache or, when a pool cannot grow, with all
of its size to nobody, is exchanged only by zswap, and returns to the heap when the library is shut down.

Fairness: `FairSpec` asks weak fairness of `Failure` only, because
`libzahl_failure` is a loop followed by a jump and asks nobody.
Nothing is assumed of the program.

### What is proved

For every set of blocks and numbers, every number of classes, every initial
capacity of the arrays (a pool of at least two, a stack of at least one):

- `InductiveInvariant`, `TypeCorrect`, `Exclusive`, `Sound` (`ZahlMemoryProofs`).
  The inductive invariant is
  `TypeOK /\ Up /\ Limbs /\ Strings /\ Stack /\ NullIsEmpty`. `ExclusiveOwnership`
  alone is not inductive. `zfree` finds the pool by `alloced`, so sizes
  belong to it (`Limbs` says both of the active numbers and the pools);
  libzahl_realloc may be called for any number that is active, so a temporary
  must not be on the stack twice (`Stack`); after `zunsetup` the pools and the
  dedicated numbers point to freed blocks, which is harmless because nobody
  looks (`Up`, and the cache counts as empty then); and a failed realloc leaves
  a null pointer with a size, which only the unwinding that follows may see
  (`NullIsEmpty`). Each action is a step of the proof; those that change limbs
  go through lemmas about `Zfree`, `libzahl_realloc` and the exchange of blocks.
- `Within` (`ZahlMemoryProofs`): `WithinArrays`. The strengthening is that the
  capacity of a pool is 0 or at least two: growth by half does nothing to
  a capacity of one, hence the assumption `PoolInit >= 2` (128 in zfree.c).
- `ValuesFit` (`ZahlMemoryProofs`): `UsedFits`, through the fact that the class
  libzahl_realloc computes has room for the request. That the highest bit it
  takes exists and is unique is `Least`, `Exceeds` and `Between` in
  `PowersOfTwo`, proved by taking the least element of a set. That module also has induction and recursion over numbers (`Induct`, `Iterated`), and the quotients,
  remainders and bits that the proofs about products and divisions use.

- `ChangesHands`, `OnlyFailureLoses` (`ZahlMemoryProofs`): the refinement
  `BlocksChangeHands` and the action property `LostByFailureOnly`. The inductive
  invariant makes `Holder` a function (a block is in one place only), so each
  action can be described by what it does to the holder of each block; a lemma
  per abstract action (`ReleaseStep`, `RecycleStep`, ...) then says which
  step of `BlockLifecycle` that is. Two invariants are added: the capacity of the arrays
  as in `Within`, since a pool that is not full loses nothing, and that the stack of temporaries is empty whenever the
  library is not set up or has jumped (`Quiet`), which zsetup and the handler rely on.
  `HolderAssumption` says that the names of holders in the abstract
  specification ("heap", "cache", ...) are no numbers of the program.

`FailureReachesHandler` is only model-checked: it rests on fairness.

## ZahlIntegers: the values

A number is a sign and a sequence of limbs, the lowest first, which may end in
zeros: zsub, zor and the carries leave them, and the trimming loops "should not
be necessary" (`inlines.h`) but are. `num` maps the numbers of the program to
theirs. An operation is an operator that yields the set of states it may leave,
since any parameter may be the same number, operands are trimmed by comparing
them, and one copy reads limbs nobody wrote. Blocks are taken to be large
enough; that they are is `ZahlMemory`'s business.

| definition | code |
|---|---|
| `zcmpmag`, `zcmp`, `Compared` | the comparison and how far it trims its operands |
| `Carries`, `AddLimbs`, `Tops`, `zadd*` | zadd.c, with the assembler loop as a carry chain; `Tops` is what the last carry finds above the limbs |
| `Borrows`, `Lender`, `Lend`, `SubLimbs`, `zsub*` | zsub.c; `Lend` gives up the last limb when the lender is 1, as the code does |
| `ShiftedUp`, `ShiftedDown`, `Rsh`, `Trunc`, `zlsh`, `zrsh`, `ztrunc`, `zsplit` | zlsh.c, zrsh.c, ztrunc.c, inlines.h |
| `WrittenInPlace`, `Combined`, `zand`, `zor`, `zxor`, `znot`, `zbset` | the block loops of internals.h and the bitwise functions |

`Kept` numbers are what the next operation goes on with; the rest of `Reg` are
destinations no operation has touched, so that properties cover results stored in a third
number without keeping three values. Properties quantify over operations and
parameters in each state, and relate `Value` before and after: the destination has the
documented value and no other number changed its own.

| run | shows | bounds |
|---|---|---|
| `integers` | `TypeOK`, `ComparisonRight`, `SumsRight`, `DifferencesRight`, `ShiftsRight`, `BitsRight` | limbs of two bits, five for the two kept numbers together; shifts by 0, by part of a limb, by a limb, by two and a part |
| `zsub` | violation of `DifferencesDocumented` | the same |
| `zadd` | violation of `SumsDocumented` | limbs of one bit, 24 together, so that the copy is longer than 20 limbs |
| `zor` | violation of `BitsDocumented` | limbs of one bit, eight together, so that an operand is two whole groups |

A number of four limbs beside one of a single limb, or of three beside two, has limbs
below, at and above the lender of a borrow; two bits make a limb that is
neither 0, 1 nor the largest. What depends on long numbers is exactly the copying in groups,
and the runs `zadd` and `zor` are there because it goes wrong. Within five limbs it does not occur;
what holds beyond them is proved.

The properties of the run `integers` name their exceptions, which are the findings 3 to 5 and one more:

| exception | of | when |
|---|---|---|
| `InnerLoan` | `DifferencesRight`, `SumsRight` | the limb that lends is 1 and not the last one |
| `CarryIntoCopy` | `SumsRight`, `Differences` | the result is a third number, more than `SmallCopy` limbs are copied, not in whole groups, and the last limb carries |
| `GroupLeftOut` | `BitsRight` (zor, zxor) | the result is an operand and the shorter operand is several whole groups |
| a negative, b = 0 | `SumsRight` | `zadd_unsigned_assign(a, b)` leaves a negative (zahl.h:128 says \|a\| + \|b\|; its callers pass no negative numbers) |

`SumsDocumented`, `DifferencesDocumented` and `BitsDocumented` are what zahl.h says, without exceptions.
`zsub_positive_assign` is called after a comparison, as in zgcd.c:41, because it does not trim.

### What is proved

In `ZahlIntegersProofs`, for any numbers of any length, limbs of any width, groups of any size, counts of any size,
and any sequence of calls with any parameters the same:

- `TypesAlwaysRight`: `TypeOK`, by `TypesStay`, a step for each action. It is inductive by itself: every operation, also one that yields a wrong
  value, leaves a sign that is 0 exactly for the magnitude 0. For a difference with an inner loan that needs a
  look at which limb is given up; for zor in place, that the group left out still has the operand's bits (`Disjunction`).
- `ComparisonAlwaysRight`, `SumsAlwaysRight`, `DifferencesAlwaysRight`, `ShiftsAlwaysRight`, `BitsAlwaysRight`: each of
  the other invariants follows from `TypeOK` in any state (`ComparisonsRight`, `SumsAreRight`, ...).

What a chain of carries computes is an induction over limbs. The induction theorems of the library cannot be used, but a set of natural
numbers without a least element is empty (`Least` in `PowersOfTwo`), which gives `Induct`: a set
that has 0 and with each number below n the next one has n. Recursive functions are shown to exist the same way (`Iterated`),
so that `Magnitude`, `Carries` and `Borrows` have the values their definitions say (`LowIs`, ...). The argument is in layers:

| lemmas | what |
|---|---|
| `Low`, `LowBound`, `Decides` | the magnitude of the first n limbs: it is less than the worth of limb n + 1, and the highest limb that differs decides |
| `Trim`, `CmpLimbsIs` | trimming changes no limb that counts, and compared limbs order magnitudes |
| `SumIs`, `DifferenceIs` | carries, borrows, the lender and what it lends |
| `IsNumber`, `Sound`, `Keeps`, `Put` | storing a number: what results is sound and no other number changed |
| `Gives`, `Leaves` | an operation stores a value, or bits, in its destination unless an exception applies; one lemma for each operation |
| `RshIs`, `TruncIs`, `BitLengthIs` | a power of two is so many limbs and so many bits |
| `Bit`, `AnyBits`, `Pos`, `PosIs` | the bits of a number are those of its limbs, each at its place, and any set of places below a width is the bits of a limb |
| `Within` | the highest bit set, which ends a complement, is below, at or above a limb |

## ZahlProducts: the recursions

zmul_ll and zsqr_ll call each other and themselves, split their operands at half
of their bits, and keep partial results in temporaries on libzahl's stack. A number is its value, or a run of its bits when it
is a `zsplit_unsigned_fast_*` part that points into another number's block. `calls` are the activations, each with
the plan of its body (`ZmulLlSteps`, `HighOnlySteps`, `BothPartsSteps`: the calls of the
source in their order), what its names stand for, and its program counter; one action
executes the next call. `Unwind` is the loop of `libzahl_failure`
over the temporary stack, `Longjmp` what cuts off the activations.

Of the limbs, `used` says how many each number has, zeros that were left above its value included, for a comparison trims them only as far as the other
operand reaches (`Compared`) and that decides which limb of a difference is the last one. `Subtract` is
zsub_nonnegative_assign with the loop of zsub_impl: where an inner limb that is 1 lends, the last limb goes, and the variable `loan` remembers it.

The run `products` calls both functions with every aliasing of the three parameters
and ten operands of up to three limbs of four bits: zero, below half a limb,
negative, with zeros in a half, and some whose products, such as 40 by 103, make such differences. `ProductRight` is the product
and that no other number changed, unless `loan`: with limbs of 64 bits, zmul((B - 1) * 2^66 + 1, 2^131 + 1) is one of the products that come out wrong (B = 2^64);
`StackOrder` that temporaries are freed in reverse order on every path; `FailureCostsSigns`
that a failure anywhere leaves no temporary and costs no more than the destination and the signs that zmul had taken away; `CallEnds` that the
recursion ends, under weak fairness of the one thread.
As in the source, limbs are multiplied directly when the bits of both operands fit one;
three limbs give three levels.

Proved (`ZahlProductsProofs`), for operands of any size, recursions of any depth, limbs of any width,
any aliasing and any failure:

- `StackAlwaysInOrder`: `StackOrder`. The invariant `StackInv` accounts for the whole
  stack: it consists of the activations' temporaries, one activation's above its caller's (`height`),
  and how many an activation has, and which, is a function of the step it is at (`Held`, `Temps`). That
  function is compared with the bodies step by step (`ZmulLlBody`, `BothPartsBody`); the
  rest is that zinit_temp, zfree_temp, a call and a return preserve the account.
- `FailureOnlyCostsSigns`: `FailureCostsSigns`. The invariant `ValueInv` says whom an activation works for: the
  outermost one for the program, each other one for the destination or for a local of its caller (`Serves`), so that nothing
  else of the program is ever stored in; only zmul itself stores in its operands,
  and what it stores there is the value or its magnitude since the signs it noted are those of the operands (`Noted`).
  The operand that is also the destination is exempt, as in the property.

`RegAssumption` keeps the program's numbers apart from the locals of activations.

Proved (`ZahlProductsValues`), from the same assumptions:

- `NumbersAlwaysExist`: `TypeOK`, also after a wrong difference. The invariants are `UsedInv`, that every number there is has a count of limbs, and `PlaceInv`: the parts of an activation's operands are in
  numbers outside of it, except the halves zsqr_ll copies, and every one of them is there while the activation works. Since temporaries
  are freed in reverse order (`StackInv`), nothing an activation was given goes away under it.
- `ProductAlwaysRight`: `ProductRight`, that is unless there was an inner loan. The invariant `FactorInv` says, as long as there was none, that there are two factors for every activation, `B[i]`
  and `C[i]`: for the outermost one the magnitudes of the operands, for another one what the activation below it
  has called for at its step. Under each name that an activation will still read it sees what its method has
  made of its factors by that step (`InProduct`, `InSquare` and `InHigh` are tables of that, one row for each step of Karatsuba's method, of the
  binomial formula, and of the branches for a low half that is zero), and nobody above it stores under those names (`Sees`). A return
  hands over `B[i] * C[i]`, which is what the row after the call asks for. That the rows follow from each other is arithmetic of
  numbers split at a power of two (`Middle`, `PowersOfTwo`), without an induction over the recursion: the invariant speaks of all
  activations at once. Signs are taken away before the recursion and given back after it (`SignedProduct`).
  TLC checked `FactorInv` before it was proved, with the factors computed from the steps the activations are at.

`CallEnds` stays with TLC.

## ZahlNumberTheory: loops over other functions

One action per loop or branch of zdivmod, zdiv, zmod, zmodmul, zmodsqr, zpow, zpowu,
zmodpow, zmodpowu, zgcd, zptest and zrand. `call` is what the program asked for, `at` the
function or loop that goes on, `arg` which numbers its parameters are, `loc` its
locals, `num` all values, dedicated temporaries included. Numbers are values except where the code looks at
limbs: `block` has the limbs that were ever written into the block of libzahl_tmp_pow_c,
since zpow and zmodpow read one limb past an exponent whose bits fill its last limb, and
`ptr` where the pointers of the two numbers of zgcd are, since it moves them into their
blocks and must put them back. `JunkLimb` is what a limb nobody wrote may be. Differences are taken from the set `Differences`: what
zsub_impl leaves, which is wrong if an inner limb that is 1 lends; zgcd has one in each round (`SubtractAndShift`, and `loan` remembers a wrong one),
zptest takes 4 from the number to bound its bases (`PrepareTest`). In the long division there is no such limb, for what is left
is less than twice the divisor. Zeros above a value are left out: where an operand comes with them, they only spare zgcd a wrong difference.

| property | of |
|---|---|
| `DivisionRight` | the two ways a quotient is developed, aliasing of destinations and operands; signs |
| `PowersRight` | the loops over limbs and bits of an exponent |
| `GcdRight`, `PointersRestored` | the binary gcd and the pointers it moves; zrand's descriptor |
| `PrimalityRight` | what is called prime or nonprime is, with a witness that shows it |
| `RandomRight` | the range, and that each number of it can be drawn |
| `OthersUntouched` | what a call, or its failure, may change |
| `CallEnds` | every call returns or fails |

The run `theory` makes some thousands of calls with limbs of three bits, those that read `block` also after another call.
The properties name their exceptions, each of which is what the code does and not the
documentation (finding 3, and "Deviations without a run"):

| exception | of | when |
|---|---|---|
| `Loan` | `GcdRight` | a difference of zgcd had an inner loan; zgcd(201, 3) is 1 in the run, as zgcd(3B^2 + B + 1, 5) is with limbs of 64 bits |
| `WholeExponent`, `FillsLimb` | `PowersRight`, `PrimalityRight` | the exponent, or the odd part of the number less 1, fills its last limb |
| `HastyAnswer` | `PowersRight` | exponent 0 modulo 1 or -1, which yields 1, and a negative exponent of 1 or -1, which yields 0 |
| a number that is its own bound, `FillsLimb` | `RandomRight` | zrand(a, ..., a), and bounds that fill their last limb |
| failures | `PointersRestored` | a call that returns with an error leaves the pointers, or the device, as they are |

Fairness is weak for the steps of a function, and
strong for drawing a number in range, which stands for a generator that will not
yield numbers out of range for ever.

Proved (`ZahlNumberTheoryProofs`), for numbers of any size, limbs of any width, any calls with any aliasing the
manual allows, and a failure anywhere:

- `DivisionAlwaysRight`: `DivisionRight`. `Division` is the invariant of the loop in zdivmod: the bits of the quotient above
  the next one are right (`Developed`: the dividend is the quotient so far times the divisor and what is left, which is less than the divisor
  at the lowest bit developed), and the shifted divisors that a bit will still use are what they should be (`Shifts`).
  `NextBit` is a bit, `NextShifts` the change to the next divisor, `HighestBit` the beginning, `SignsOfDivision` the end. Of the
  shifted divisors that no bit is left for nothing is known, nor need be: this is where a bound that is off by one would show.
- `OthersAlwaysUntouched`: `OthersUntouched`. `Unstored` says that a function that works has stored in no number of the program
  but its destination, and in that one only from certain places on (`Stored`): the modular product before its division, powers and
  random numbers. What a step writes is a lemma for each group of steps (`...Writes`).
- `PointersAlwaysRestored`: `PointersRestored`. zgcd keeps its two pointers in two different blocks, however often it exchanges them, and
  zrand has the device open from the first draw to the last (`Pointers`).
- `RandomAlwaysRight`: `RandomRight`. `Drawn` bounds what was drawn by the bits of the bound; that the three distributions bring it into
  the range is `BroughtIntoRange`, what the mask of the top limb leaves is `DrawableNumbers`.
- `GcdAlwaysRight`: `GcdRight`, that is unless there was an inner loan. `CommonDivisors` is the invariant of the loop of zgcd: both numbers are
  odd and positive, also after a wrong difference (`DifferencesOf`), and as long as there was none they have, with the zeros
  that were in common put back, the divisors in common that the operands have (`SameDivisors`; `GcdBegins`, `GcdReduces`, `GcdFound`). That
  shifting out zeros of one number only loses none is `SameOfShifted`: what divides both and an odd number is odd.
- `PowersAlwaysRight`: `PowersRight`. `Progress` is the invariant of all four functions: what is in the destination, times the square to the
  rest of the exponent, leaves modulo the modulus what the power leaves. `Rest` says what the rest is for each loop: the bits of the limb and
  the limbs above it, or for zpowu, which shifts first, all but the lowest bit. The definitions of powers are
  recursions; `PowerIs` and `PowerModIs` say what they are for every exponent, `LimbsOfExponent` what the loop over limbs reads. Of an
  exponent that fills its last limb nothing is known (`WholeLimbs`), since the loop reads a limb more than it has. The two answers that
  are given without a loop and contradict the manual pages (`HastyAnswer`) are left out, too. Products are exact here: zmul's own exception comes on top.
- `PrimalityAlwaysRight`: `PrimalityRight`, that is Miller-Rabin. `TestSoFar` is the invariant: while zptest squares, the number it squares
  is the power of the base the loop is at, which is not 1, and n - 1 was not among the powers before (`NoneYet`). At the end this
  is the witness (`Compositeness`: once a square is 1 the later ones are). That a number with such a witness is not prime takes two facts about a prime:
  1 has no square roots but 1 and -1 (`SquareRoots`, from `PrimeFactor`: a prime goes into a factor of what it goes into), and `Fermat`:
  the powers of a number come back to it after as many steps as its order says (`IsOrder`), and each such round takes that many numbers out of
  1 .. p - 1 (`TurnsRemoved`), so that the order goes into p - 1 (`OrderIntoClosed`). Of a number whose odd part of n - 1 fills its
  last limb nothing is known, since the power is not (`PowersRight`). The bound of the bases may be smaller than n - 4, after an inner loan, but
  is positive (`FourTaken`), so that the bases are between 2 and n - 2 all the same.
- `TypesAlwaysRight`: `TypeOK`. What it needs most is that the modulus of a power, which is read before the first squaring, is not 0 (`Values`).

All of these rest on `Control`: a place is reached by functions of its own and with certain parameters, which decides what an alias can do.
`CallAssumption` says what a call is (the numbers it has for parameters, quotient and remainder two of them), `NumberAssumption` that
libzahl's dedicated numbers are not the program's, `LimbAssumption` what a limb is. The module defines `:>` and `@@` itself because the provers do not
know those of TLC. `CallEnds` stays with TLC.

## Filters: the other programs

collatz, fact, fib and isprime share their outline, so `Filters` is one module with a `Program`: `Start`
(main up to cliterate), `NextArgument` and `NextLine` (cliterate), `Parse`, `Compute`,
`GrowResult`, `Zstr`, `NextGroup`, `PrintText` (the callback), `Finish`. Each function of
libzahl may fail (`Failure`): control is back in main, which exits with 1. The numbers
op1, op2, op3 of the C sources are `op`; fib's op4 is a constant and op5 a temporary.

`LineInput` is nalread: fgets into the first half of the
buffer, the look at the last character, the buffer that doubles, the next piece. `stdin` is
a sequence of characters; digits are their values, the other characters that matter have numbers of their own. The character before the buffer, at
which nalread looks when a line begins with NUL, may be anything. The unchecked calloc of
cliterate is there, and the crash it leads to. Errors of reading are the end of the input, as in nalread.

`ZahlText` is zsets, zstr_length and zstr. The groups of zstr are written from the end of the
buffer, each ending with a NUL that is the first digit of the group before, which is saved and put back; the
leading digits go to the front and all groups are moved behind them. The buffer's cells are
modelled one by one since this is what could go wrong; the minus sign is not, for the programs print
positive numbers only.

`LibUtil` is the test in reallocarray.

| property of run `filters` | what it says |
|---|---|
| `LinesInOrder` | the callback gets every line, whole, once and in order, and the end is reported after the last; except for inputs with NULs, and when the buffer cannot grow |
| `WithinLine` | fgets writes within the buffer and has room to make progress |
| `TextRight` | zstr leaves the digits of the number, and writes nothing beyond the buffer but one character (below) |
| `AnswersRight` | the answers printed are those for the numbers seen, in turn |
| `ProductChecked` | reallocarray's shortcut never lets a product wrap and refuses none that fits |
| `ProgramEnds` | the program comes to an end, under weak fairness: it is one thread, and its input is there |

Bounds: two lines of up to 15 characters, with and without the last newline, or two arguments; a buffer of six characters, which a line
may make grow twice (at BUFSIZ 8192, that is a line of 16 kB); groups of two digits, so
that a text has up to five; a result buffer of four characters that
grows by one more than needed. WordBits is 6: all pairs of sizes. isprime's verdict
is what `PrimalityRight` allows: of an odd composite number, "probably prime" too.
Deadlock is not checked: a program ends.

Proved (`FiltersProofs`), for any input, any buffer of at least five characters, any number of doublings and any width of a size:

- `Buffered`, `WithinLineAlways`: the invariant `Buffers` ties `read` to the length of `line` at each
  place of nalread; after fgets only res is known, so the room is recomputed by `GrowLine`. `WithinLine` follows.
- `LinesAlwaysInOrder`: `LinesInOrder`, NULs excepted as there. The invariant `InOrder` says where in the input
  the next line begins, that what was read of it is in the buffer from its first cell on, and that
  what is left of the stream is the rest. That a line ends where the callback cuts it off follows from counting the ends
  of lines up to a position (`EndsUpTo`).
- `ProductAlwaysChecked`: `ProductChecked`: if both factors are below the square root of the range the product cannot wrap.
- `TypesAlwaysRight`: `TypeOK`, NULs in the input included. The invariant `Typed` adds that there is a NUL in the buffer
  for lines from its allocation on (`Strings`), so that a callback gets a string. `ZsetsInt` is about the numbers: the functions zsets
  is defined by exist (`TempExists`, `ByGroupsExists`: the shortest part for which they did not would be one longer than one for which they do)
  and their values are integers.

- `NumbersReadRight`: the number zsets makes of a string, group by group, is the one its digits stand for (`Value`, of
  which `AnswersRight` takes its questions), for strings and groups of any length. After k groups it is the first digits of the
  string, whatever is left over in the first group (`GroupsAre`).
- `TextAlwaysRight`: `TextRight`, for numbers and groups of any length. The invariant `TextBuilt` says of the loop of zstr
  which digits are in the buffer, up to the capacity, that the one overwritten by the next group's NUL is the one saved, that the number still to be
  written is the rest, and that nothing else was written. That the text fits follows from `ZstrLengthIs`: dividing by 10, 100, 10^4, ... counts the digits
  exactly. The last step (`TextCompleted`) moves the groups over themselves towards the front. Digits are powers of ten: `HasDigits(n, d)` is 10^(d-1) <= n < 10^d, and
  three lemmas say what the digits of a quotient, of a rest and of a number's decimal text are (`DigitsOfQuotient`, `DigitOfRest`, `DecimalIs`).

`RunsAssumption` says what an input is: sequences of the characters that matter. `AnswersRight` stays with TLC: its reference is
the mathematical function (the factorial, the Fibonacci number, the sequence of Collatz, whose end nobody has proved), folded over the lines seen,
which is an induction over data. `ProgramEnds` rests on fairness.

## Leyland: the program

`LeylandNumbers` is the specification: the pairs x >= y > 1 in ascending order
of x^y + y^x, one after the other. `Leyland` is the loop of `main`: a queue with one
candidate per base (`queue`, of elements with `width` and `val`), the bases of
its ends (`low`, `high`), the base just printed (`height`), the counter `lim`,
and `out`, what was printed. Its actions are the parts of the loop:
`PrintLine` (the scan and the line), `Update` (the first element leaves or the
printed one gets its next width), `AppendBase`, `Finish`, and `Fail` for
a failed allocation, after which the program exits.

The run `leyland` checks that `Leyland` implements `LeylandNumbers`
(`Enumerates`), the frontier invariant that makes it so (`Frontier`), that
`-l N` prints N lines (`LimitKept`), for the first 30 lines.
Powers are exact below 10^9, which no candidate among those lines reaches. `MaxBase` is 31, one more than
the lines: each line enters one base at most, so that no base the program could reach is left out of the enumeration. In 30 lines
bases enter and leave the queue and ties of position occur. No fairness is assumed: that the loop with a limit ends
is its counter, and without one it does not.

Proved (`LeylandProofs`), for any number of lines, any limit and any bound:

- `LimitAlwaysKept`: `LimitKept`, whatever the powers are, from `Ready` (the shape of the queue and the counter).
- `FrontierAlways`: `Frontier`, if powers are positive and grow in both arguments (`PowersGrow`). `Exact` says
  of each pair whether it was printed, from the widths in the queue and its ends alone.
- `Implements`: `Enumerates`, the refinement: each line is a step of `LeylandNumbers` and nothing else is. Besides `PowersGrow` it needs
  that no two Leyland numbers considered are equal (`SumsDiffer`: the program would print such a number twice, its
  specification once), and `MaxLines < MaxBase` as above. What was printed is at most the last line,
  what was not is greater (`Ascending`).

`Power` is a constant operator, so the two hypotheses are about it; the powers of integers satisfy them, the first one always
and the second for all bases below 600, by computation. Neither is proved: the first is an induction over exponents, which is out of the prover's reach, and of `SumsDiffer`
no proof is known to us. (The capped powers of the run satisfy them as far as its lines go.)

## Findings

Each is a run of its own with a counterexample, quoted with the line it contradicts in
`PROJECT.json`.

1. `zfree.c:20-26`: a pool that cannot grow is dropped with the blocks it caches;
   zunsetup.3 promises that all memory is released (run `unsetup`).
2. `znot.c:16`: znot does not make room for its result (run `znot`).
3. `zsub.c:21`: a borrow that ends at an inner limb of value 1 drops the last
   limb of the number: 2B^2 + B minus 1 yields 2B - 1 (run `zsub`). zmul, zgcd and zptest inherit it (reproduced
   with the C code, B = 2^64): zmul((B - 1) * 2^66 + 1, 2^131 + 1) stores another number than the product, and zgcd(3B^2 + B + 1, 5) stores 1.
4. `zadd.c:137`, `memory.h:36`: a carry may be added to a limb that was copied from
   beyond the end of an operand (run `zadd`).
5. `internals.h:364`: zor and zxor in place skip the last four of 8, 12, ...
   limbs: x ^ x is x (run `zor`).

## Deviations without a run

What the models show as exceptions in properties that hold otherwise. Those of zpow.c:39, zmodpow.c:18,
zrand.c and zstr.c were reproduced with the C code.

- zpow.c:39-60, zmodpow.c:46-56: an exponent whose bits fill its last limb is read one limb further.
  After a longer exponent, zmodpow with one of 64 bits yields another number. So does zptest, and isprime
  calls the prime 18446744073709551667 nonprime if it has seen
  259147561904563829104756382910475638291047563829104759 before (`PowersRight`, `PrimalityRight`).
- zrand.c:125: of a bound whose bits fill its top limb, the mask of that limb is 0, so that the limb always is. The bases zptest tries for a number of 64 bits
  are all 2 then, and the composite 14411555108135161021 is probably prime each time (`RandomRight`).
- zrand.c:149: when the number is its own bound the comparison is with what was drawn; zrand.3 permits equal parameters.
- zmodpow.c:18-23, zmodpowu.c:11-17: anything to the power 0 modulo 1 or -1 is 1; zmodpow.3:19-27 says (base^exponent) mod modulator, which
  is 0 (`HastyAnswer` in `PowersRight`).
- zpow.c:31, zmodpow.c:27: a negative exponent of 1 or -1 yields 0, though the power is an integer (`HastyAnswer` in `PowersRight`).
- zstr.c:94: the character at index n is written for every number of more than 19 digits. zstr.3 wants n to be at least the
  size of the buffer minus 1; collatz, fact and fib pass the size itself, and the
  NUL is written behind the buffer of 4096 characters (`TextRight`).
- zgcd.c:50: a failure in the last shift leaves pointers inside a block, which zunsetup then frees (`PointersRestored` is about returns only).
- nal.c:17-21: a NUL merges a line with the next one or ends the input; a buffer that cannot grow ends the program with
  status 0 and lines unread (`LinesInOrder`).
- inlines.h:280: a failure within zmul leaves operands positive (`FailureCostsSigns`).

## Not modelled

- zload and zsave, the other radices of zstr_length, strtonum and fshut: no program calls them.
- What the generators behind zrand yield: any bits.
- `zerror.c`, `zperror.c`, `eprintf.c`: tables and formatting.
- The messages for input that is no number, and the echo of the input before an answer.
- The macros of `queue.h` and `arg.h`, beyond what `Leyland` uses of a queue.
- `libtoo`: empty files. The build.
- Reads beyond `used` that cannot reach a result (the rounding of block loops
  within the padding `ZAHL_FLUFF` reserves) and numbers never initialised.
- Left to TLC: what needs fairness (`FailureReachesHandler`, `CallEnds`, `ProgramEnds`), and `AnswersRight`, an
  induction over the lines a program has seen.
