-------------------------- MODULE ZahlMemoryProofs --------------------------
(* The memory of libzahl is sound for every number of blocks, numbers and  *)
(* size classes: proofs about ZahlMemory.                                  *)
(*                                                                         *)
(* Nothing libzahl keeps is too small for what is put into it, either.     *)
(* The arrays of pointers, the pools and the stack of temporary numbers,   *)
(* are never written past their ends.  A value fits in the block of its    *)
(* number: libzahl_realloc rounds a request up to a power of two, and      *)
(* every function that stores a value requests enough.                     *)
(*                                                                         *)
(* A block changes hands only as BlockLifecycle allows, and is lost only   *)
(* by a failure of an allocation.                                          *)
EXTENDS ZahlMemory, PowersOfTwo

USE DEF Class, Free, Raw

-----------------------------------------------------------------------------
(* Facts about sequences and about the operators of the model.             *)

(* The first n elements of a sequence.                                     *)
LEMMA Prefix ==
  ASSUME NEW S, NEW s \in Seq(S), NEW n \in 0 .. Len(s)
  PROVE  /\ SubSeq(s, 1, n) \in Seq(S)
         /\ Len(SubSeq(s, 1, n)) = n
         /\ \A k \in 1 .. n : SubSeq(s, 1, n)[k] = s[k]
<1>1. SubSeq(s, 1, n) \in Seq(S)
  OBVIOUS
<1>2. Len(SubSeq(s, 1, n)) = n
  OBVIOUS
<1>3. \A k \in 1 .. n : SubSeq(s, 1, n)[k] = s[k]
  OBVIOUS
<1>. QED
  BY <1>1, <1>2, <1>3

(* A pool without its last block, as libzahl_realloc leaves it.            *)
LEMMA ButLast ==
  ASSUME NEW S, NEW s \in Seq(S), s # <<>>
  PROVE  /\ Len(s) \in Nat \ {0}
         /\ s[Len(s)] \in S
         /\ SubSeq(s, 1, Len(s) - 1) \in Seq(S)
         /\ Len(SubSeq(s, 1, Len(s) - 1)) = Len(s) - 1
         /\ \A k \in 1 .. Len(s) - 1 : SubSeq(s, 1, Len(s) - 1)[k] = s[k]
<1>1. Len(s) \in Nat \ {0}
  OBVIOUS
<1>2. Len(s) - 1 \in 0 .. Len(s) /\ s[Len(s)] \in S
  BY <1>1
<1>. QED
  BY <1>1, <1>2, Prefix

(* A request the model admits has a size class.                            *)
LEMMA NeedClass == \A n \in Need : SizeClass(n) \in Class
  BY DEF Need

(* The capacity a pool grows to.                                           *)
LEMMA GrowNat == \A j \in Nat : Grow(j) \in Nat
  BY SizeAssumption DEF Grow

-----------------------------------------------------------------------------
(* Type correctness.                                                       *)

Pools == [Class -> Seq(Block)]

(* zfree leaves the heap and the pools of their types.                     *)
LEMMA ZfreeType ==
  ASSUME TypeOK, NEW a \in Number, NEW p \in Pools, Zfree(a, p),
         chars[a] # NoBlock => alloced[a] \in Class
  PROVE  /\ heap' \in [Block -> Class \cup {Free, Raw}]
         /\ pool' \in Pools
         /\ poolAlloc' \in [Class -> Nat]
<1>1. CASE chars[a] = NoBlock /\ pool' = p /\ UNCHANGED <<heap, poolAlloc>>
  BY <1>1 DEF TypeOK
<1>2. ASSUME chars[a] # NoBlock
      PROVE  /\ chars[a] \in Block
             /\ alloced[a] \in Class
             /\ Len(p[alloced[a]]) \in Nat
             /\ Append(p[alloced[a]], chars[a]) \in Seq(Block)
             /\ <<>> \in Seq(Block)
  BY <1>2 DEF TypeOK, Pools
<1>3. CASE /\ chars[a] # NoBlock
           /\ pool' = [p EXCEPT ![alloced[a]] = Append(@, chars[a])]
           /\ UNCHANGED <<heap, poolAlloc>>
  BY <1>2, <1>3 DEF TypeOK, Pools
<1>4. CASE /\ chars[a] # NoBlock
           /\ pool' = [p EXCEPT ![alloced[a]] = Append(@, chars[a])]
           /\ poolAlloc' = [poolAlloc EXCEPT ![alloced[a]] = Grow(Len(p[alloced[a]]))]
           /\ UNCHANGED heap
  BY <1>2, <1>4, GrowNat DEF TypeOK, Pools
<1>5. CASE /\ chars[a] # NoBlock
           /\ heap' = [heap EXCEPT ![chars[a]] = Free]
           /\ pool' = [p EXCEPT ![alloced[a]] = <<>>]
           /\ poolAlloc' = [poolAlloc EXCEPT ![alloced[a]] = 0]
  BY <1>2, <1>5 DEF TypeOK, Pools
<1>. QED
  BY <1>1, <1>3, <1>4, <1>5 DEF Zfree

-----------------------------------------------------------------------------
(* The ownership of limbs, as a predicate on the heap H, the fields C      *)
(* (chars) and L (alloced) of the numbers in A, and the pools P.           *)

Consistent(H, C, L, A, P) ==
  /\ \A a \in A : C[a] # NoBlock => L[a] \in Class /\ H[C[a]] = L[a]
  /\ \A a, c \in A : C[a] = C[c] /\ C[a] # NoBlock => a = c
  /\ \A i \in Class : \A k \in 1 .. Len(P[i]) : H[P[i][k]] = i
  /\ \A i \in Class : \A k, l \in 1 .. Len(P[i]) : P[i][k] = P[i][l] => k = l
  /\ \A a \in A, i \in Class : \A k \in 1 .. Len(P[i]) : P[i][k] # C[a]

(* Fewer numbers are owners of less.                                       *)
LEMMA ConsistentSubset ==
  ASSUME NEW H, NEW C, NEW L, NEW A, NEW P, NEW B, B \subseteq A,
         Consistent(H, C, L, A, P)
  PROVE  Consistent(H, C, L, B, P)
  BY Zenon DEF Consistent

(* A number without a block owns nothing.                                  *)
LEMMA ConsistentEmpty ==
  ASSUME NEW H, NEW C, NEW L, NEW A, NEW P, NEW a, NEW D, NEW M,
         Consistent(H, C, L, A, P), D[a] = NoBlock,
         \A c \in A : c # a => D[c] = C[c] /\ M[c] = L[c],
         P \in Pools
  PROVE  Consistent(H, D, M, A \cup {a}, P)
<1>1. \A i \in Class : \A k \in 1 .. Len(P[i]) : P[i][k] # NoBlock
  BY BlockAssumption DEF Pools
<1>. QED
  BY <1>1 DEF Consistent

(* zfree hands the block of a to the pools, or to the heap; the number is  *)
(* no owner any more.                                                      *)
LEMMA ZfreeConsistent ==
  ASSUME TypeOK, NEW a \in Number, NEW p \in Pools, Zfree(a, p),
         NEW A \in SUBSET Number, a \in A,
         Consistent(heap, chars, alloced, A, p)
  PROVE  /\ Consistent(heap', chars, alloced, A \ {a}, pool')
         /\ \A b \in Block : b # chars[a] => heap'[b] = heap[b]
<1>. DEFINE i == alloced[a]
            B == A \ {a}
<1>0. Consistent(heap, chars, alloced, B, p)
  BY ConsistentSubset
<1>1. CASE chars[a] = NoBlock /\ pool' = p /\ UNCHANGED <<heap, poolAlloc>>
  BY <1>0, <1>1
<1>2. ASSUME chars[a] # NoBlock
      PROVE  /\ chars[a] \in Block
             /\ i \in Class
             /\ heap[chars[a]] = i
             /\ p[i] \in Seq(Block)
  BY <1>2 DEF TypeOK, Pools, Consistent
<1>3. CASE /\ chars[a] # NoBlock
           /\ pool' = [p EXCEPT ![i] = Append(@, chars[a])]
           /\ heap' = heap
  <2>1. /\ pool'[i] = Append(p[i], chars[a])
        /\ \A j \in Class \ {i} : pool'[j] = p[j]
    BY <1>2, <1>3 DEF Pools
  <2>2. /\ Len(pool'[i]) = Len(p[i]) + 1
        /\ pool'[i][Len(p[i]) + 1] = chars[a]
        /\ \A k \in 1 .. Len(p[i]) : pool'[i][k] = p[i][k]
        /\ Len(p[i]) \in Nat
    BY <1>2, <1>3, <2>1
  <2>3. \A k \in 1 .. Len(pool'[i]) : k = Len(p[i]) + 1 \/ k \in 1 .. Len(p[i])
    BY <2>2
  <2>4. \A k \in 1 .. Len(p[i]) : p[i][k] # chars[a]
    BY <1>2, <1>3 DEF Consistent
  <2>5. \A c \in B : chars[c] # chars[a]
    BY <1>2, <1>3 DEF Consistent
  <2>6. \A j \in Class : \A k \in 1 .. Len(pool'[j]) : heap[pool'[j][k]] = j
    BY <1>0, <1>2, <1>3, <2>1, <2>2, <2>3 DEF Consistent
  <2>7. \A j \in Class : \A k, l \in 1 .. Len(pool'[j]) :
          pool'[j][k] = pool'[j][l] => k = l
    BY <1>0, <1>2, <1>3, <2>1, <2>2, <2>3, <2>4 DEF Consistent
  <2>8. \A c \in B, j \in Class : \A k \in 1 .. Len(pool'[j]) :
          pool'[j][k] # chars[c]
    BY <1>0, <1>2, <1>3, <2>1, <2>2, <2>3, <2>5 DEF Consistent
  <2>. QED
    BY <1>0, <1>3, <2>6, <2>7, <2>8 DEF Consistent
<1>4. CASE /\ chars[a] # NoBlock
           /\ heap' = [heap EXCEPT ![chars[a]] = Free]
           /\ pool' = [p EXCEPT ![i] = <<>>]
  <2>1. /\ pool'[i] = <<>>
        /\ \A j \in Class \ {i} : pool'[j] = p[j]
        /\ \A b \in Block : b # chars[a] => heap'[b] = heap[b]
    BY <1>2, <1>4 DEF Pools, TypeOK
  <2>2. \A c \in B : chars[c] # NoBlock => chars[c] \in Block /\ chars[c] # chars[a]
    BY <1>2, <1>4 DEF Consistent, TypeOK
  <2>3. \A j \in Class \ {i} : \A k \in 1 .. Len(p[j]) :
          p[j][k] \in Block /\ p[j][k] # chars[a]
    BY <1>2, <1>4 DEF Consistent, Pools
  <2>4. \A j \in Class : \A k \in 1 .. Len(pool'[j]) : j # i
    BY <2>1
  <2>. QED
    BY <1>0, <2>1, <2>2, <2>3, <2>4 DEF Consistent
<1>. QED
  BY <1>1, <1>3, <1>4 DEF Zfree

(* zfree adds nothing but the block of a to the pools.                     *)
LEMMA ZfreePools ==
  ASSUME TypeOK, NEW a \in Number, NEW p \in Pools, Zfree(a, p),
         chars[a] # NoBlock => alloced[a] \in Class
  PROVE  \A j \in Class : \A k \in 1 .. Len(pool'[j]) :
           \/ chars[a] # NoBlock /\ pool'[j][k] = chars[a]
           \/ k \in 1 .. Len(p[j]) /\ pool'[j][k] = p[j][k]
<1>. DEFINE i == alloced[a]
<1>1. CASE pool' = p
  BY <1>1
<1>2. CASE chars[a] # NoBlock /\ pool' = [p EXCEPT ![i] = Append(@, chars[a])]
  <2>1. /\ i \in Class /\ chars[a] \in Block /\ p[i] \in Seq(Block)
        /\ pool'[i] = Append(p[i], chars[a])
        /\ \A j \in Class \ {i} : pool'[j] = p[j]
    BY <1>2 DEF TypeOK, Pools
  <2>2. \A k \in 1 .. Len(pool'[i]) :
          pool'[i][k] = chars[a] \/ (k \in 1 .. Len(p[i]) /\ pool'[i][k] = p[i][k])
    BY <2>1
  <2>. QED
    BY <1>2, <2>1, <2>2
<1>3. CASE chars[a] # NoBlock /\ pool' = [p EXCEPT ![i] = <<>>]
  <2>1. pool'[i] = <<>> /\ \A j \in Class \ {i} : pool'[j] = p[j]
    BY <1>3 DEF Pools
  <2>2. \A k \in 1 .. Len(pool'[i]) : FALSE
    BY <2>1
  <2>. QED
    BY <2>1, <2>2
<1>. QED
  BY <1>1, <1>2, <1>3 DEF Zfree

-----------------------------------------------------------------------------
(* The inductive invariant.                                                *)

Active == { a \in Number : Initialised(a) }
Cache  == IF setUp THEN pool ELSE [i \in Class |-> <<>>]

Up == setUp <=> status \in {"run", "unwind", "jumped"}

Limbs == Consistent(heap, chars, alloced, Active, Cache)

Strings == /\ \A b \in strings : heap[b] = Raw
           /\ tempAlloc # NoBlock => heap[tempAlloc] = Raw /\ tempAlloc \notin strings

Stack == \A k, l \in 1 .. Len(tempStack) : tempStack[k] = tempStack[l] => k = l

NullIsEmpty == status \in {"run", "down"} =>
                 \A a \in Active : chars[a] = NoBlock => alloced[a] = Free

IInv == TypeOK /\ Up /\ Limbs /\ Strings /\ Stack /\ NullIsEmpty

-----------------------------------------------------------------------------
(* libzahl_realloc and ENSURE_SIZE keep the limbs consistent.              *)

Resized(a) ==
  /\ heap' \in [Block -> Class \cup {Free, Raw}]
  /\ chars' \in [Number -> Block \cup {NoBlock}]
  /\ alloced' \in [Number -> Class \cup {Free}]
  /\ pool' \in Pools
  /\ poolAlloc' \in [Class -> Nat]
  /\ status' \in {"run", "unwind"}
  /\ Consistent(heap', chars', alloced', Active, pool')
  /\ \A b \in Block : heap[b] = Raw => heap'[b] = Raw
  /\ status' = "run" => \A c \in Active : chars'[c] = NoBlock => alloced'[c] = Free

(* A block taken from a pool has the recorded size and no other owner.     *)
LEMMA TakeCachedResizes ==
  ASSUME IInv, status = "run", NEW a \in Active, NEW i \in Class,
         TakeCached(a, i)
  PROVE  Resized(a)
<1>. DEFINE n == Len(pool[i])
            p == [pool EXCEPT ![i] = SubSeq(@, 1, n - 1)]
            b == pool[i][n]
            s == SubSeq(pool[i], 1, n - 1)
<1>1. /\ TypeOK
      /\ Consistent(heap, chars, alloced, Active, pool)
      /\ a \in Number
      /\ Active \in SUBSET Number
      /\ pool \in Pools
      /\ pool[i] \in Seq(Block)
      /\ chars[a] \in Block \cup {NoBlock}
  BY DEF IInv, Up, Limbs, Cache, Active, TypeOK, Pools
<1>2. pool[i] # <<>> /\ Zfree(a, p)
  BY <1>1 DEF TakeCached
<1>3. /\ n \in Nat \ {0}
      /\ b \in Block
      /\ s \in Seq(Block)
      /\ Len(s) = n - 1
      /\ \A k \in 1 .. n - 1 : s[k] = pool[i][k]
  BY <1>1, <1>2, ButLast
<1>4. /\ p \in Pools
      /\ p[i] = s
      /\ \A j \in Class \ {i} : p[j] = pool[j]
  BY <1>1, <1>3 DEF Pools
<1>5. \A j \in Class : \A k \in 1 .. Len(p[j]) :
         k \in 1 .. Len(pool[j]) /\ p[j][k] = pool[j][k] /\ p[j][k] # b
  <2>1. \A k \in 1 .. n - 1 : pool[i][k] # b
    BY <1>1, <1>3 DEF Consistent
  <2>2. \A j \in Class \ {i} : \A k \in 1 .. Len(pool[j]) : pool[j][k] # b
    <3>1. heap[b] = i
      BY <1>1, <1>3 DEF Consistent
    <3>2. \A j \in Class : \A k \in 1 .. Len(pool[j]) : heap[pool[j][k]] = j
      BY <1>1 DEF Consistent
    <3>. QED
      BY <3>1, <3>2
  <2>. QED
    BY <1>3, <1>4, <2>1, <2>2
<1>6. Consistent(heap, chars, alloced, Active, p)
  <2>1. \A j \in Class : \A k \in 1 .. Len(p[j]) : heap[p[j][k]] = j
    BY <1>1, <1>5 DEF Consistent
  <2>2. \A j \in Class : \A k, l \in 1 .. Len(p[j]) : p[j][k] = p[j][l] => k = l
    BY <1>1, <1>5 DEF Consistent
  <2>3. \A c \in Active, j \in Class : \A k \in 1 .. Len(p[j]) : p[j][k] # chars[c]
    BY <1>1, <1>5 DEF Consistent
  <2>. QED
    BY <1>1, <2>1, <2>2, <2>3 DEF Consistent
<1>7. chars[a] # NoBlock => alloced[a] \in Class
  BY <1>1 DEF Consistent
<1>. HIDE DEF p, s
<1>8. /\ Consistent(heap', chars, alloced, Active \ {a}, pool')
      /\ \A c \in Block : c # chars[a] => heap'[c] = heap[c]
  BY <1>1, <1>2, <1>4, <1>6, ZfreeConsistent
<1>9. /\ heap' \in [Block -> Class \cup {Free, Raw}]
      /\ pool' \in Pools
      /\ poolAlloc' \in [Class -> Nat]
  BY <1>1, <1>2, <1>4, <1>7, ZfreeType
<1>10. \A c \in Active : chars[c] # b
  BY <1>1, <1>3 DEF Consistent
<1>11. heap'[b] = i
  BY <1>1, <1>3, <1>8, <1>10 DEF Consistent
<1>12. \A j \in Class : \A k \in 1 .. Len(pool'[j]) : pool'[j][k] # b
  BY <1>1, <1>2, <1>4, <1>5, <1>7, <1>10, ZfreePools
<1>13. /\ chars' = [chars EXCEPT ![a] = b]
       /\ alloced' = [alloced EXCEPT ![a] = i]
       /\ status' = status
  BY DEF TakeCached
<1>. HIDE DEF b, n
<1>14. /\ chars' \in [Number -> Block \cup {NoBlock}]
       /\ alloced' \in [Number -> Class \cup {Free}]
       /\ chars'[a] = b /\ alloced'[a] = i
       /\ \A c \in Active \ {a} : chars'[c] = chars[c] /\ alloced'[c] = alloced[c]
  BY <1>1, <1>3, <1>13 DEF TypeOK
<1>15. Consistent(heap', chars', alloced', Active, pool')
  BY <1>3, <1>8, <1>10, <1>11, <1>12, <1>14 DEF Consistent
<1>16. \A c \in Block : heap[c] = Raw => heap'[c] = Raw
  <2>1. chars[a] # NoBlock => heap[chars[a]] \in 0 .. MaxClass
    BY <1>1 DEF Consistent
  <2>2. \A c \in Block : heap[c] = Raw => c # chars[a]
    BY <2>1, SizeAssumption, BlockAssumption
  <2>. QED
    BY <1>8, <2>2
<1>17. \A c \in Active : chars'[c] = NoBlock => alloced'[c] = Free
  BY <1>3, <1>14, BlockAssumption DEF IInv, NullIsEmpty
<1>. QED
  BY <1>9, <1>13, <1>14, <1>15, <1>16, <1>17 DEF Resized

(* A block realloc returns has the recorded size and no other owner.       *)
LEMMA ReallocateResizes ==
  ASSUME IInv, status = "run", NEW a \in Active, NEW i \in Class,
         Reallocate(a, i)
  PROVE  Resized(a)
<1>1. /\ TypeOK
      /\ Consistent(heap, chars, alloced, Active, pool)
      /\ a \in Number
      /\ Active \in SUBSET Number
      /\ pool \in Pools
  BY DEF IInv, Up, Limbs, Cache, Active, TypeOK, Pools
<1>2. PICK b \in Block :
        /\ heap[b] = Free \/ b = chars[a]
        /\ heap' = [c \in Block |-> IF c = b THEN i
                                    ELSE IF c = chars[a] THEN Free
                                    ELSE heap[c]]
        /\ chars' = [chars EXCEPT ![a] = b]
  BY DEF Reallocate
<1>3. /\ alloced' = [alloced EXCEPT ![a] = i]
      /\ UNCHANGED <<pool, poolAlloc, status>>
  BY DEF Reallocate
<1>4. /\ heap' \in [Block -> Class \cup {Free, Raw}]
      /\ chars' \in [Number -> Block \cup {NoBlock}]
      /\ alloced' \in [Number -> Class \cup {Free}]
      /\ chars'[a] = b /\ alloced'[a] = i /\ heap'[b] = i
      /\ \A c \in Active \ {a} : chars'[c] = chars[c] /\ alloced'[c] = alloced[c]
      /\ \A c \in Block \ {b, chars[a]} : heap'[c] = heap[c]
  BY <1>1, <1>2, <1>3 DEF TypeOK
<1>5. \A c \in Active \ {a} : chars[c] # NoBlock =>
        chars[c] \in Block \ {b, chars[a]}
  BY <1>1, <1>2, SizeAssumption DEF Consistent, TypeOK
<1>6. \A j \in Class : \A k \in 1 .. Len(pool[j]) :
        pool[j][k] \in Block \ {b, chars[a]}
  <2>. SUFFICES ASSUME NEW j \in Class, NEW k \in 1 .. Len(pool[j])
                PROVE  pool[j][k] \in Block \ {b, chars[a]}
    OBVIOUS
  <2>1. pool[j][k] \in Block
    BY <1>1 DEF Pools
  <2>2. pool[j][k] # chars[a] /\ heap[pool[j][k]] = j
    BY <1>1 DEF Consistent
  <2>3. j # Free
    BY SizeAssumption
  <2>. QED
    BY <1>2, <2>1, <2>2, <2>3
<1>7. Consistent(heap', chars', alloced', Active, pool')
  <2>1. \A c \in Active : chars'[c] # NoBlock =>
          alloced'[c] \in Class /\ heap'[chars'[c]] = alloced'[c]
    BY <1>1, <1>4, <1>5 DEF Consistent
  <2>2. \A c, d \in Active : chars'[c] = chars'[d] /\ chars'[c] # NoBlock => c = d
    BY <1>1, <1>4, <1>5 DEF Consistent
  <2>3. \A j \in Class : \A k \in 1 .. Len(pool'[j]) : heap'[pool'[j][k]] = j
    BY <1>1, <1>3, <1>4, <1>6 DEF Consistent
  <2>4. \A j \in Class : \A k, l \in 1 .. Len(pool'[j]) : pool'[j][k] = pool'[j][l] => k = l
    BY <1>1, <1>3 DEF Consistent
  <2>5. \A c \in Active, j \in Class : \A k \in 1 .. Len(pool'[j]) : pool'[j][k] # chars'[c]
    BY <1>1, <1>3, <1>4, <1>6 DEF Consistent
  <2>. QED
    BY <2>1, <2>2, <2>3, <2>4, <2>5 DEF Consistent
<1>8. \A c \in Block : heap[c] = Raw => heap'[c] = Raw
  <2>1. chars[a] # NoBlock => heap[chars[a]] \in 0 .. MaxClass
    BY <1>1 DEF Consistent
  <2>2. \A c \in Block : heap[c] = Raw => c # chars[a] /\ heap[c] # Free
    BY <2>1, SizeAssumption, BlockAssumption
  <2>. QED
    BY <1>2, <1>4, <2>2
<1>9. \A c \in Active : chars'[c] = NoBlock => alloced'[c] = Free
  BY <1>4, BlockAssumption DEF IInv, NullIsEmpty
<1>. QED
  BY <1>1, <1>3, <1>4, <1>7, <1>8, <1>9 DEF Resized, TypeOK

(* When realloc fails the number owns nothing, and nobody else is touched. *)
LEMMA ReallocFailsResizes ==
  ASSUME IInv, status = "run", NEW a \in Active, NEW i \in Class,
         ReallocFails(a, i)
  PROVE  Resized(a)
<1>1. /\ TypeOK
      /\ Consistent(heap, chars, alloced, Active, pool)
      /\ a \in Number
      /\ Active \in SUBSET Number
      /\ pool \in Pools
  BY DEF IInv, Up, Limbs, Cache, Active, TypeOK, Pools
<1>2. /\ chars' = [chars EXCEPT ![a] = NoBlock]
      /\ status' = "unwind"
      /\ heap' = heap /\ pool' = pool /\ poolAlloc' = poolAlloc
      /\ alloced' = alloced
  BY DEF ReallocFails, caches
<1>3. /\ chars' \in [Number -> Block \cup {NoBlock}]
      /\ chars'[a] = NoBlock
      /\ \A c \in Active \ {a} : chars'[c] = chars[c]
  BY <1>1, <1>2 DEF TypeOK
<1>4. \A j \in Class : \A k \in 1 .. Len(pool[j]) : pool[j][k] # NoBlock
  BY <1>1, BlockAssumption DEF Pools
<1>5. Consistent(heap', chars', alloced', Active, pool')
  BY <1>1, <1>2, <1>3, <1>4 DEF Consistent
<1>. QED
  BY <1>1, <1>2, <1>3, <1>5 DEF Resized, TypeOK

(* ENSURE_SIZE, whichever way it goes, replaces one block at most.         *)
LEMMA EnsureSizeResizes ==
  ASSUME IInv, status = "run", NEW a \in Active, NEW need \in Need,
         EnsureSize(a, need)
  PROVE  Resized(a)
<1>1. SizeClass(need) \in Class
  BY NeedClass
<1>2. CASE libzahl_realloc(a, need)
  BY <1>1, <1>2, TakeCachedResizes, ReallocateResizes, ReallocFailsResizes
     DEF libzahl_realloc
<1>3. CASE UNCHANGED <<caches, chars, alloced, status>>
  BY <1>3 DEF IInv, TypeOK, Up, Limbs, Cache, NullIsEmpty, Resized, Pools, caches
<1>. QED
  BY <1>2, <1>3 DEF EnsureSize

-----------------------------------------------------------------------------
(* Every step keeps the inductive invariant.                               *)

(* What the current state says of the pools while the library is up.       *)
LEMMA WhileUp ==
  ASSUME IInv, status \in {"run", "unwind", "jumped"}
  PROVE  /\ setUp
         /\ Consistent(heap, chars, alloced, Active, pool)
         /\ pool \in Pools
         /\ Active \in SUBSET Number
  BY DEF IInv, Up, Limbs, Cache, Active, TypeOK, Pools

(* Replacing blocks and values leaves the same numbers initialised.        *)
LEMMA SameActive ==
  ASSUME UNCHANGED <<live, tempStack, setUp>>
  PROVE  Active' = Active
  BY DEF Active, Initialised, OnStack

(* The heap may change where no number and no pool looks.                  *)
LEMMA ConsistentHeap ==
  ASSUME NEW H, NEW K, NEW C, NEW L, NEW A, NEW P,
         Consistent(H, C, L, A, P),
         \A a \in A : C[a] # NoBlock => K[C[a]] = H[C[a]],
         \A i \in Class : \A k \in 1 .. Len(P[i]) : K[P[i][k]] = H[P[i][k]]
  PROVE  Consistent(K, C, L, A, P)
  BY DEF Consistent

(* An operation that replaces the block of one number keeps the invariant. *)
LEMMA ResizedInv ==
  ASSUME IInv, status = "run", NEW a \in Active, Resized(a),
         used' \in [Number -> Nat], UNCHANGED <<live, temps, setUp>>
  PROVE  IInv'
<1>1. Active' = Active
  BY SameActive DEF temps
<1>2. TypeOK'
  BY DEF IInv, TypeOK, Resized, Pools, temps, Status
<1>3. Up' /\ setUp'
  BY DEF IInv, Up, Resized
<1>4. Limbs'
  BY <1>1, <1>3 DEF Limbs, Cache, Resized
<1>5. Strings'
  BY DEF IInv, Strings, Resized, temps, TypeOK
<1>6. Stack'
  BY DEF IInv, Stack, temps
<1>7. NullIsEmpty'
  BY <1>1 DEF NullIsEmpty, Resized
<1>. QED
  BY <1>2, <1>3, <1>4, <1>5, <1>6, <1>7 DEF IInv

(* An operation that finds the block large enough replaces nothing.        *)
LEMMA UnchangedResizes ==
  ASSUME IInv, status = "run", NEW a,
         UNCHANGED <<caches, chars, alloced, status>>
  PROVE  Resized(a)
  BY DEF IInv, TypeOK, Up, Limbs, Cache, NullIsEmpty, Resized, Pools, caches

(* Every function that stores a value keeps the invariant.                 *)
LEMMA StoreInv == IInv /\ Store => IInv'
<1>. SUFFICES ASSUME IInv, NEW a \in Number, NEW b \in Number
              PROVE  /\ Zset(a, b) => IInv'
                     /\ Zsetu(a) => IInv'
                     /\ \A k \in 0 .. 1 : Zlsh(a, b, k) => IInv'
                     /\ Zswap(a, b) => IInv'
  BY DEF Store
<1>0. TypeOK /\ used \in [Number -> Nat]
  BY DEF IInv, TypeOK
<1>1. ASSUME Zset(a, b) PROVE IInv'
  <2>1. /\ status = "run" /\ a \in Active
        /\ used' \in [Number -> Nat] /\ UNCHANGED <<live, temps, setUp>>
    BY <1>0, <1>1 DEF Zset, Active
  <2>2. Resized(a)
    BY <1>1, <2>1, UnchangedResizes, EnsureSizeResizes DEF Zset
  <2>. QED
    BY <2>1, <2>2, ResizedInv
<1>2. ASSUME Zsetu(a) PROVE IInv'
  <2>1. /\ status = "run" /\ a \in Active
        /\ used' \in [Number -> Nat] /\ UNCHANGED <<live, temps, setUp>>
    BY <1>0, <1>2 DEF Zsetu, Active
  <2>2. Resized(a)
    BY <1>2, <2>1, EnsureSizeResizes DEF Zsetu
  <2>. QED
    BY <2>1, <2>2, ResizedInv
<1>3. ASSUME NEW k \in 0 .. 1, Zlsh(a, b, k) PROVE IInv'
  <2>1. /\ status = "run" /\ a \in Active
        /\ used' \in [Number -> Nat] /\ UNCHANGED <<live, temps, setUp>>
    BY <1>0, <1>3 DEF Zlsh, Active
  <2>2. Resized(a)
    BY <1>3, <2>1, UnchangedResizes, EnsureSizeResizes DEF Zlsh
  <2>. QED
    BY <2>1, <2>2, ResizedInv
<1>4. ASSUME Zswap(a, b) PROVE IInv'
  <2>1. /\ status = "run" /\ a \in Active /\ b \in Active
        /\ chars'   = [chars   EXCEPT ![a] = chars[b],   ![b] = chars[a]]
        /\ alloced' = [alloced EXCEPT ![a] = alloced[b], ![b] = alloced[a]]
        /\ used'    = [used    EXCEPT ![a] = used[b],    ![b] = used[a]]
        /\ UNCHANGED <<caches, live, temps, setUp, status>>
    BY <1>4 DEF Zswap, Active
  <2>2. /\ Consistent(heap, chars, alloced, Active, pool)
        /\ pool \in Pools /\ Active \in SUBSET Number
    BY <2>1, WhileUp
  <2>3. /\ chars' \in [Number -> Block \cup {NoBlock}]
        /\ alloced' \in [Number -> Class \cup {Free}]
        /\ used' \in [Number -> Nat]
    BY <1>0, <2>1 DEF TypeOK
  <2>4. /\ chars'[a] = chars[b] /\ alloced'[a] = alloced[b]
        /\ chars'[b] = chars[a] /\ alloced'[b] = alloced[a]
        /\ \A c \in Active \ {a, b} : chars'[c] = chars[c] /\ alloced'[c] = alloced[c]
    BY <1>0, <2>1, <2>2 DEF TypeOK
  <2>5. Consistent(heap', chars', alloced', Active, pool')
    <3>. DEFINE other(c) == IF c = a THEN b ELSE IF c = b THEN a ELSE c
    <3>1. /\ \A c \in Active : /\ other(c) \in Active
                               /\ chars'[c] = chars[other(c)]
                               /\ alloced'[c] = alloced[other(c)]
          /\ \A c, d \in Active : other(c) = other(d) => c = d
          /\ heap' = heap /\ pool' = pool
      BY <2>1, <2>4 DEF caches
    <3>. HIDE DEF other
    <3>2. \A c \in Active : chars'[c] # NoBlock =>
            alloced'[c] \in Class /\ heap[chars'[c]] = alloced'[c]
      BY <2>2, <3>1 DEF Consistent
    <3>3. \A c, d \in Active : chars'[c] = chars'[d] /\ chars'[c] # NoBlock => c = d
      BY <2>2, <3>1 DEF Consistent
    <3>4. \A c \in Active, i \in Class : \A k \in 1 .. Len(pool[i]) :
            pool[i][k] # chars'[c]
      BY <2>2, <3>1 DEF Consistent
    <3>. QED
      BY <2>2, <3>1, <3>2, <3>3, <3>4 DEF Consistent
  <2>6. \A c \in Active : chars'[c] = NoBlock => alloced'[c] = Free
    <3>1. \A c \in Active : chars[c] = NoBlock => alloced[c] = Free
      BY <2>1 DEF IInv, NullIsEmpty
    <3>2. a \in Active /\ b \in Active
      BY <2>1
    <3>. QED
      BY <2>4, <3>1, <3>2
  <2>7. Resized(a)
    BY <1>0, <2>1, <2>2, <2>3, <2>5, <2>6 DEF Resized, TypeOK, caches
  <2>. QED
    BY <2>1, <2>3, <2>7, ResizedInv
<1>. QED
  BY <1>1, <1>2, <1>3, <1>4

(* Which numbers are initialised is decided by their kind.                 *)
LEMMA Kinds ==
  ASSUME TypeOK, NEW a \in Number
  PROVE  /\ a \in User => (a \in Active <=> a \in live)
         /\ a \in Dedicated => (a \in Active <=> setUp)
         /\ a \in Local => (a \in Active <=> OnStack(a))
<1>1. \A k \in 1 .. Len(tempStack) : tempStack[k] \in Local
  BY DEF TypeOK
<1>. QED
  BY <1>1, NumberAssumption DEF TypeOK, Active, Initialised, OnStack

(* zinit of a number the program does not hold keeps the invariant.        *)
LEMMA ZinitInv ==
  ASSUME IInv, NEW a \in User, Zinit(a)
  PROVE  IInv'
<1>1. /\ TypeOK /\ a \in Number /\ status = "run"
      /\ Consistent(heap, chars, alloced, Active, pool)
      /\ pool \in Pools /\ Active \in SUBSET Number /\ setUp
  BY WhileUp DEF IInv, Zinit, Number
<1>2. /\ chars' = [chars EXCEPT ![a] = NoBlock]
      /\ alloced' = [alloced EXCEPT ![a] = Free]
      /\ used' = [used EXCEPT ![a] = 0]
      /\ live' = live \cup {a}
      /\ UNCHANGED <<caches, temps, setUp, status>>
  BY DEF Zinit
<1>3. Active' = Active \cup {a}
  BY <1>1, <1>2 DEF Active, Initialised, OnStack, temps
<1>4. /\ chars'[a] = NoBlock /\ alloced'[a] = Free
      /\ \A c \in Active : c # a => chars'[c] = chars[c] /\ alloced'[c] = alloced[c]
  BY <1>1, <1>2 DEF TypeOK
<1>5. Consistent(heap, chars', alloced', Active \cup {a}, pool)
  BY <1>1, <1>4, ConsistentEmpty
<1>6. Limbs'
  BY <1>1, <1>2, <1>3, <1>5 DEF Limbs, Cache, caches
<1>7. TypeOK'
  BY <1>1, <1>2 DEF TypeOK, caches, temps
<1>8. NullIsEmpty'
  BY <1>1, <1>2, <1>3, <1>4 DEF IInv, NullIsEmpty
<1>9. Up' /\ Strings' /\ Stack'
  BY <1>2 DEF IInv, Up, Strings, Stack, caches, temps
<1>. QED
  BY <1>6, <1>7, <1>8, <1>9 DEF IInv

(* zfree ends the use of the number it is given, and of no other.          *)
LEMMA ZfreeUserActive ==
  ASSUME IInv, NEW a \in User, ZfreeUser(a)
  PROVE  a \in Active /\ Active' = Active \ {a}
<1>1. TypeOK /\ a \in Number
  BY DEF IInv, Number
<1>2. /\ a \in live /\ live' = live \ {a}
      /\ UNCHANGED <<temps, setUp>>
  BY DEF ZfreeUser
<1>3. a \notin Dedicated /\ ~ OnStack(a) /\ (OnStack(a))' = OnStack(a)
  BY <1>1, <1>2, NumberAssumption DEF TypeOK, OnStack, temps
<1>. QED
  BY <1>1, <1>2, <1>3 DEF Active, Initialised, OnStack, temps

(* zfree of a number the program holds keeps the invariant.                *)
LEMMA ZfreeUserInv ==
  ASSUME IInv, NEW a \in User, ZfreeUser(a)
  PROVE  IInv'
<1>1. /\ TypeOK /\ a \in Number /\ status = "run"
      /\ Consistent(heap, chars, alloced, Active, pool)
      /\ pool \in Pools /\ Active \in SUBSET Number /\ setUp
  BY WhileUp DEF IInv, ZfreeUser, Number
<1>2. /\ a \in live /\ live' = live \ {a} /\ Zfree(a, pool)
      /\ UNCHANGED <<chars, alloced, used, temps, setUp, status>>
  BY DEF ZfreeUser
<1>3. a \in Active /\ Active' = Active \ {a}
  BY ZfreeUserActive
<1>4. /\ Consistent(heap', chars, alloced, Active \ {a}, pool')
      /\ \A b \in Block : b # chars[a] => heap'[b] = heap[b]
  BY <1>1, <1>2, <1>3, ZfreeConsistent
<1>5. chars[a] # NoBlock => alloced[a] \in Class /\ heap[chars[a]] = alloced[a]
  BY <1>1, <1>3 DEF Consistent
<1>6. TypeOK'
  BY <1>1, <1>2, <1>5, ZfreeType DEF TypeOK, Pools, temps
<1>7. Limbs'
  BY <1>1, <1>2, <1>3, <1>4 DEF Limbs, Cache
<1>8. Strings'
  BY <1>1, <1>2, <1>4, <1>5, SizeAssumption, BlockAssumption
     DEF IInv, Strings, TypeOK, temps
<1>9. NullIsEmpty' /\ Up' /\ Stack'
  BY <1>2, <1>3 DEF IInv, NullIsEmpty, Up, Stack, temps
<1>. QED
  BY <1>6, <1>7, <1>8, <1>9 DEF IInv

(* zinit_temp keeps the invariant, also when the stack cannot grow.        *)
LEMMA ZinitTempInv ==
  ASSUME IInv, NEW a \in Local, ZinitTemp(a)
  PROVE  IInv'
<1>1. /\ TypeOK /\ a \in Number /\ status = "run"
      /\ Consistent(heap, chars, alloced, Active, pool)
      /\ pool \in Pools /\ Active \in SUBSET Number /\ setUp
  BY WhileUp DEF IInv, ZinitTemp, Number
<1>2. /\ chars' = [chars EXCEPT ![a] = NoBlock]
      /\ alloced' = [alloced EXCEPT ![a] = Free]
      /\ used' = [used EXCEPT ![a] = 0]
      /\ ~ OnStack(a)
      /\ UNCHANGED <<caches, live, tempAlloc, strings, setUp>>
      /\ \/ /\ tempStack' = Append(tempStack, a) /\ status' = status
            /\ tempEnd' \in Nat
         \/ /\ status' = "unwind"
            /\ UNCHANGED <<tempStack, tempEnd>>
  BY <1>1 DEF ZinitTemp, TypeOK
<1>3. a \notin Active
  BY <1>1, <1>2, Kinds
<1>4. /\ chars'[a] = NoBlock /\ alloced'[a] = Free
      /\ \A c \in Active : c # a => chars'[c] = chars[c] /\ alloced'[c] = alloced[c]
  BY <1>1, <1>2 DEF TypeOK
<1>5. Consistent(heap, chars', alloced', Active \cup {a}, pool)
  BY <1>1, <1>4, ConsistentEmpty
<1>6. Consistent(heap, chars', alloced', Active, pool)
  BY <1>5, ConsistentSubset
<1>7. Strings' /\ Up' /\ setUp' /\ heap' = heap /\ pool' = pool
  BY <1>1, <1>2 DEF IInv, Strings, Up, caches
<1>8. CASE tempStack' = Append(tempStack, a) /\ status' = status /\ tempEnd' \in Nat
  <2>1. /\ Len(tempStack') = Len(tempStack) + 1
        /\ tempStack'[Len(tempStack) + 1] = a
        /\ \A k \in 1 .. Len(tempStack) : tempStack'[k] = tempStack[k] /\ tempStack[k] # a
        /\ \A k \in 1 .. Len(tempStack') : k = Len(tempStack) + 1 \/ k \in 1 .. Len(tempStack)
        /\ tempStack' \in Seq(Local) /\ Len(tempStack) \in Nat
    BY <1>1, <1>2, <1>8 DEF TypeOK, OnStack
  <2>2. \A c : (\E k \in 1 .. Len(tempStack') : tempStack'[k] = c) <=> (OnStack(c) \/ c = a)
    BY <2>1 DEF OnStack
  <2>3. Active' = Active \cup {a}
    BY <1>1, <1>2, <2>2 DEF Active, Initialised, OnStack
  <2>4. Stack'
    BY <2>1 DEF IInv, Stack
  <2>5. TypeOK'
    BY <1>1, <1>2, <1>8, <2>1 DEF TypeOK, caches
  <2>6. Limbs' /\ NullIsEmpty'
    BY <1>1, <1>4, <1>5, <1>7, <1>8, <2>3 DEF Limbs, Cache, IInv, NullIsEmpty
  <2>. QED
    BY <1>7, <2>4, <2>5, <2>6 DEF IInv
<1>9. CASE status' = "unwind" /\ UNCHANGED <<tempStack, tempEnd>>
  <2>1. Active' = Active
    BY <1>2, <1>9, SameActive
  <2>2. TypeOK' /\ Stack'
    BY <1>1, <1>2, <1>9 DEF IInv, TypeOK, Stack, caches, Status
  <2>3. Limbs' /\ NullIsEmpty'
    BY <1>6, <1>7, <1>9, <2>1 DEF Limbs, Cache, NullIsEmpty
  <2>. QED
    BY <1>7, <2>2, <2>3 DEF IInv
<1>. QED
  BY <1>2, <1>8, <1>9

(* The topmost temporary leaves the stack, and no other number is affected. *)
LEMMA PopActive ==
  ASSUME IInv, status \in {"run", "unwind"}, tempStack # <<>>,
         tempStack' = SubSeq(tempStack, 1, Len(tempStack) - 1),
         UNCHANGED <<live, setUp>>
  PROVE  LET n == Len(tempStack)
             a == tempStack[n]
         IN  /\ n \in Nat \ {0} /\ a \in Local /\ a \in Number
             /\ tempStack' \in Seq(Local) /\ Len(tempStack') = n - 1
             /\ \A k \in 1 .. n - 1 : tempStack'[k] = tempStack[k]
             /\ a \in Active /\ Active' = Active \ {a}
<1>. DEFINE n == Len(tempStack)
            a == tempStack[n]
<1>1. /\ TypeOK
      /\ Consistent(heap, chars, alloced, Active, pool)
      /\ pool \in Pools /\ Active \in SUBSET Number /\ setUp
  BY WhileUp DEF IInv
<1>2. /\ n \in Nat \ {0} /\ a \in Local /\ a \in Number
      /\ tempStack' \in Seq(Local) /\ Len(tempStack') = n - 1
      /\ \A k \in 1 .. n - 1 : tempStack'[k] = tempStack[k]
  BY <1>1, ButLast DEF TypeOK, Number
<1>3. \A k \in 1 .. n - 1 : tempStack[k] # a
  BY <1>2 DEF IInv, Stack
<1>4. \A c : (\E k \in 1 .. Len(tempStack') : tempStack'[k] = c) <=> (OnStack(c) /\ c # a)
  <2>1. \A k \in 1 .. n : k = n \/ k \in 1 .. n - 1
    BY <1>2
  <2>2. \A k \in 1 .. n - 1 : k \in 1 .. n
    BY <1>2
  <2>. QED
    BY <1>2, <1>3, <2>1, <2>2 DEF OnStack
<1>5. a \in Active /\ Active' = Active \ {a}
  <2>1. OnStack(a) /\ a \notin live /\ a \notin Dedicated
    BY <1>1, <1>2, NumberAssumption DEF OnStack, TypeOK
  <2>2. live' = live /\ setUp' = setUp
    OBVIOUS
  <2>3. \A c : (OnStack(c))' <=> (OnStack(c) /\ c # a)
    BY <1>4 DEF OnStack
  <2>. HIDE DEF a
  <2>4. \A c \in Number : (Initialised(c))' <=> (Initialised(c) /\ c # a)
    BY <2>1, <2>2, <2>3 DEF Initialised
  <2>. QED
    BY <1>2, <2>1, <2>4 DEF Active, Initialised
<1>. QED
  BY <1>2, <1>5

(* zfree of the topmost temporary and its removal from the stack, as       *)
(* zfree_temp and the loop of libzahl_failure do it.                       *)
LEMMA PopInv ==
  ASSUME IInv, status \in {"run", "unwind"}, tempStack # <<>>,
         Zfree(tempStack[Len(tempStack)], pool),
         tempStack' = SubSeq(tempStack, 1, Len(tempStack) - 1),
         UNCHANGED <<numbers, tempEnd, tempAlloc, strings, setUp, status>>
  PROVE  IInv'
<1>. DEFINE n == Len(tempStack)
            a == tempStack[n]
<1>1. /\ TypeOK
      /\ Consistent(heap, chars, alloced, Active, pool)
      /\ pool \in Pools /\ Active \in SUBSET Number /\ setUp
  BY WhileUp DEF IInv
<1>2. /\ n \in Nat \ {0} /\ a \in Local /\ a \in Number
      /\ tempStack' \in Seq(Local) /\ Len(tempStack') = n - 1
      /\ \A k \in 1 .. n - 1 : tempStack'[k] = tempStack[k]
      /\ a \in Active /\ Active' = Active \ {a}
  BY PopActive DEF numbers
<1>. HIDE DEF a
<1>3. Zfree(a, pool)
  BY DEF a
<1>4. /\ Consistent(heap', chars, alloced, Active \ {a}, pool')
      /\ \A b \in Block : b # chars[a] => heap'[b] = heap[b]
  BY <1>1, <1>2, <1>3, ZfreeConsistent
<1>5. chars[a] # NoBlock => alloced[a] \in Class /\ heap[chars[a]] = alloced[a]
  BY <1>1, <1>2 DEF Consistent
<1>6. TypeOK'
  BY <1>1, <1>2, <1>3, <1>5, ZfreeType DEF TypeOK, Pools, numbers
<1>7. Limbs'
  BY <1>1, <1>2, <1>4 DEF Limbs, Cache, numbers
<1>8. Strings'
  BY <1>1, <1>4, <1>5, SizeAssumption, BlockAssumption DEF IInv, Strings, TypeOK
<1>9. Stack'
  BY <1>2 DEF IInv, Stack
<1>10. NullIsEmpty' /\ Up'
  BY <1>2 DEF IInv, NullIsEmpty, Up, numbers
<1>. QED
  BY <1>6, <1>7, <1>8, <1>9, <1>10 DEF IInv

(* Blocks that hold no limbs may change hands.                             *)
LEMMA OtherBlocks ==
  ASSUME IInv, status \in {"run", "unwind"},
         \A b \in Block : heap[b] \in Class => heap'[b] = heap[b],
         UNCHANGED <<numbers, pool, tempStack, setUp>>
  PROVE  Limbs'
<1>1. /\ TypeOK
      /\ Consistent(heap, chars, alloced, Active, pool)
      /\ pool \in Pools /\ Active \in SUBSET Number /\ setUp
  BY WhileUp DEF IInv
<1>2. \A a \in Active : chars[a] # NoBlock => heap'[chars[a]] = heap[chars[a]]
  BY <1>1 DEF Consistent, TypeOK
<1>3. \A i \in Class : \A k \in 1 .. Len(pool[i]) : heap'[pool[i][k]] = heap[pool[i][k]]
  BY <1>1 DEF Consistent, Pools
<1>4. Consistent(heap', chars, alloced, Active, pool)
  BY <1>1, <1>2, <1>3, ConsistentHeap
<1>5. Active' = Active
  BY SameActive DEF numbers
<1>. QED
  BY <1>1, <1>4, <1>5 DEF Limbs, Cache, numbers

(* The life of a buffer of zstr keeps the invariant.                       *)
LEMMA StringInv ==
  ASSUME IInv,
         ZstrAllocate \/ ZstrReturn \/ (\E b \in Block : FreeString(b)) \/ Longjmp
  PROVE  IInv'
<1>. USE SizeAssumption, BlockAssumption
<1>0. TypeOK
  BY DEF IInv
<1>1. CASE ZstrAllocate
  <2>1. /\ status = "run" /\ tempAlloc = NoBlock
        /\ UNCHANGED <<numbers, pool, poolAlloc, tempStack, tempEnd, strings, setUp>>
        /\ \/ \E b \in Block : /\ heap[b] = Free
                               /\ heap' = [heap EXCEPT ![b] = Raw]
                               /\ tempAlloc' = b /\ status' = status
           \/ status' = "unwind" /\ UNCHANGED <<heap, tempAlloc>>
    BY <1>1 DEF ZstrAllocate, AtTop
  <2>2. \A b \in Block : heap[b] \in Class => heap'[b] = heap[b]
    BY <1>0, <2>1 DEF TypeOK
  <2>3. Limbs'
    BY <2>1, <2>2, OtherBlocks
  <2>4. TypeOK'
    BY <1>0, <2>1 DEF TypeOK, numbers, Status
  <2>5. Strings'
    BY <1>0, <2>1 DEF IInv, Strings, TypeOK
  <2>6. Active' = Active
    BY <2>1, SameActive DEF numbers
  <2>. QED
    BY <2>1, <2>3, <2>4, <2>5, <2>6 DEF IInv, Up, Stack, NullIsEmpty, numbers
<1>2. CASE ZstrReturn
  <2>1. /\ status = "run" /\ tempAlloc # NoBlock
        /\ strings' = strings \cup {tempAlloc} /\ tempAlloc' = NoBlock
        /\ UNCHANGED <<numbers, caches, tempStack, tempEnd, setUp, status>>
    BY <1>2 DEF ZstrReturn
  <2>2. Limbs'
    BY <2>1, OtherBlocks DEF caches
  <2>3. TypeOK' /\ Strings'
    BY <1>0, <2>1 DEF IInv, TypeOK, Strings, numbers, caches
  <2>4. Active' = Active
    BY <2>1, SameActive DEF numbers
  <2>. QED
    BY <2>1, <2>2, <2>3, <2>4 DEF IInv, Up, Stack, NullIsEmpty, numbers
<1>3. ASSUME NEW b \in Block, FreeString(b) PROVE IInv'
  <2>1. /\ status = "run" /\ b \in strings
        /\ strings' = strings \ {b}
        /\ heap' = [heap EXCEPT ![b] = Free]
        /\ UNCHANGED <<numbers, pool, poolAlloc, tempStack, tempEnd, tempAlloc,
                       setUp, status>>
    BY <1>3 DEF FreeString
  <2>2. \A c \in Block : heap[c] \in Class => heap'[c] = heap[c]
    BY <1>0, <2>1 DEF TypeOK, IInv, Strings
  <2>3. Limbs'
    BY <2>1, <2>2, OtherBlocks
  <2>4. TypeOK'
    BY <1>0, <2>1 DEF TypeOK, numbers
  <2>5. Strings'
    BY <1>0, <2>1 DEF IInv, Strings, TypeOK
  <2>6. Active' = Active
    BY <2>1, SameActive DEF numbers
  <2>. QED
    BY <2>1, <2>3, <2>4, <2>5, <2>6 DEF IInv, Up, Stack, NullIsEmpty, numbers
<1>4. CASE Longjmp
  <2>1. /\ status = "unwind" /\ status' = "jumped" /\ tempAlloc' = NoBlock
        /\ heap' = [b \in Block |-> IF b = tempAlloc THEN Free ELSE heap[b]]
        /\ UNCHANGED <<numbers, pool, poolAlloc, tempStack, tempEnd, strings, setUp>>
    BY <1>4 DEF Longjmp
  <2>2. \A b \in Block : heap[b] \in Class => heap'[b] = heap[b]
    BY <1>0, <2>1 DEF TypeOK, IInv, Strings
  <2>3. Limbs'
    BY <2>1, <2>2, OtherBlocks
  <2>4. TypeOK'
    BY <1>0, <2>1 DEF TypeOK, numbers, Status
  <2>5. Strings'
    BY <1>0, <2>1 DEF IInv, Strings, TypeOK
  <2>. QED
    BY <2>1, <2>3, <2>4, <2>5 DEF IInv, Up, Stack, NullIsEmpty
<1>. QED
  BY <1>1, <1>2, <1>3, <1>4

(* zsetup establishes the parts of the invariant that need the library up. *)
LEMMA ZsetupInv == IInv /\ Zsetup => IInv'
<1>. SUFFICES ASSUME IInv, Zsetup PROVE IInv'
  OBVIOUS
<1>1. /\ TypeOK /\ ~ setUp /\ status = "down" /\ setUp' = TRUE
      /\ pool' = [i \in Class |-> <<>>]
      /\ poolAlloc' = [i \in Class |-> 0]
      /\ chars' = [a \in Number |-> IF a \in Dedicated THEN NoBlock ELSE chars[a]]
      /\ alloced' = [a \in Number |-> IF a \in Dedicated THEN Free ELSE alloced[a]]
      /\ used' = [a \in Number |-> IF a \in Dedicated THEN 0 ELSE used[a]]
      /\ tempStack' = <<>>
      /\ tempEnd' \in Nat /\ status' \in {"run", "unwind"}
      /\ UNCHANGED <<heap, live, tempAlloc, strings>>
  BY SizeAssumption DEF IInv, Zsetup
<1>2. \A a \in Active' : \/ a \in Dedicated /\ chars'[a] = NoBlock /\ alloced'[a] = Free
                         \/ a \in Active /\ chars'[a] = chars[a] /\ alloced'[a] = alloced[a]
  <2>1. \A a \in Active' : a \in Number /\ (a \in Dedicated \/ a \in live)
    BY <1>1 DEF Active, Initialised, OnStack
  <2>. QED
    BY <1>1, <2>1 DEF Active, Initialised
<1>3. \A i \in Class : pool'[i] = <<>> /\ \A k \in 1 .. Len(pool'[i]) : FALSE
  BY <1>1
<1>4. Consistent(heap, chars, alloced, Active, Cache)
  BY DEF IInv, Limbs
<1>5. Consistent(heap', chars', alloced', Active', pool')
  <2>1. \A a \in Active' : chars'[a] # NoBlock =>
          a \in Active /\ chars'[a] = chars[a] /\ alloced'[a] = alloced[a]
    BY <1>2
  <2>2. \A a \in Active' : chars'[a] # NoBlock =>
          alloced'[a] \in Class /\ heap'[chars'[a]] = alloced'[a]
    BY <1>1, <1>4, <2>1 DEF Consistent
  <2>3. \A a, c \in Active' : chars'[a] = chars'[c] /\ chars'[a] # NoBlock => a = c
    BY <1>4, <2>1 DEF Consistent
  <2>. QED
    BY <1>3, <2>2, <2>3 DEF Consistent
<1>6. TypeOK'
  BY <1>1 DEF TypeOK, Status
<1>7. Limbs'
  BY <1>1, <1>5 DEF Limbs, Cache
<1>8. Stack'
  BY <1>1 DEF Stack
<1>9. Strings' /\ NullIsEmpty' /\ Up'
  BY <1>1, <1>2 DEF IInv, Strings, NullIsEmpty, Up
<1>. QED
  BY <1>6, <1>7, <1>8, <1>9 DEF IInv

(* zunsetup frees only what neither the program nor a string owns.         *)
LEMMA ZunsetupInv == IInv /\ Zunsetup => IInv'
<1>. SUFFICES ASSUME IInv, Zunsetup PROVE IInv'
  OBVIOUS
<1>. USE SizeAssumption, BlockAssumption
<1>1. /\ TypeOK /\ setUp /\ setUp' = FALSE
      /\ \/ status = "run" /\ status' = "down"
         \/ status = "jumped" /\ status' = "dead"
      /\ heap' = [b \in Block |-> IF Cached(b) \/ HeldByDedicated(b)
                                  THEN Free ELSE heap[b]]
      /\ UNCHANGED <<numbers, pool, poolAlloc, temps>>
  BY DEF IInv, Zunsetup
<1>2. /\ Consistent(heap, chars, alloced, Active, pool)
      /\ pool \in Pools /\ Active \in SUBSET Number
  BY <1>1, WhileUp
<1>3. /\ Active' \subseteq Active
      /\ \A a \in Active' : a \notin Dedicated
      /\ \A a \in Dedicated : a \in Active
  <2>1. \A a \in Number : Initialised(a)' => Initialised(a) /\ a \notin Dedicated
    BY <1>1, Kinds, NumberAssumption
       DEF Initialised, OnStack, TypeOK, numbers, temps, Active, Number
  <2>. QED
    BY <1>1, <2>1 DEF Active, Initialised, Number
<1>4. \A b \in Block : Cached(b) \/ HeldByDedicated(b) => heap[b] \in Class
  BY <1>2, <1>3 DEF Consistent, Cached, HeldByDedicated
<1>5. \A a \in Active' : chars[a] # NoBlock => heap'[chars[a]] = heap[chars[a]]
  <2>. SUFFICES ASSUME NEW a \in Active', chars[a] # NoBlock
                PROVE  heap'[chars[a]] = heap[chars[a]]
    OBVIOUS
  <2>1. ~ Cached(chars[a])
    BY <1>2, <1>3 DEF Consistent, Cached
  <2>2. ~ HeldByDedicated(chars[a])
    BY <1>2, <1>3 DEF Consistent, HeldByDedicated
  <2>3. chars[a] \in Block
    BY <1>1, <1>2, <1>3 DEF TypeOK
  <2>. QED
    BY <1>1, <2>1, <2>2, <2>3
<1>6. Consistent(heap', chars, alloced, Active', [i \in Class |-> <<>>])
  BY <1>2, <1>3, <1>5 DEF Consistent
<1>7. Limbs'
  BY <1>1, <1>6 DEF Limbs, Cache, numbers
<1>8. TypeOK'
  BY <1>1 DEF TypeOK, numbers, temps, Status
<1>9. Strings'
  <2>1. \A b \in Block : heap[b] = Raw => heap'[b] = Raw
    BY <1>1, <1>4
  <2>. QED
    BY <1>1, <2>1 DEF IInv, Strings, TypeOK, temps
<1>10. NullIsEmpty' /\ Up' /\ Stack'
  BY <1>1, <1>3 DEF IInv, NullIsEmpty, Up, Stack, numbers, temps
<1>. QED
  BY <1>7, <1>8, <1>9, <1>10 DEF IInv

(* The invariant holds before the first call.                              *)
LEMMA InitInv == Init => IInv
<1>. SUFFICES ASSUME Init PROVE IInv
  OBVIOUS
<1>1. TypeOK
  BY SizeAssumption, SMTT(30) DEF Init, TypeOK, Status
<1>2. Consistent(heap, chars, alloced, Active, [i \in Class |-> <<>>])
  BY DEF Init, Consistent, Active
<1>. QED
  BY <1>1, <1>2 DEF Init, IInv, Up, Limbs, Cache, Strings, Stack, NullIsEmpty, Active

(* The invariant speaks of the variables only.                             *)
LEMMA StutterInv == IInv /\ UNCHANGED vars => IInv'
  BY DEF IInv, TypeOK, Up, Limbs, Strings, Stack, NullIsEmpty, Cache, Active,
         Initialised, OnStack, vars, numbers, caches, temps

(* Every step of the library keeps the invariant.                          *)
LEMMA NextInv == IInv /\ [Next]_vars => IInv'
<1>. SUFFICES ASSUME IInv, [Next]_vars PROVE IInv'
  OBVIOUS
<1>1. CASE Store
  BY <1>1, StoreInv
<1>2. ASSUME NEW a \in User, Zinit(a) \/ ZfreeUser(a) PROVE IInv'
  BY <1>2, ZinitInv, ZfreeUserInv
<1>3. ASSUME NEW a \in Local, ZinitTemp(a) PROVE IInv'
  BY <1>3, ZinitTempInv
<1>4. ASSUME NEW a \in Local, ZfreeTemp(a) PROVE IInv'
  BY <1>4, PopInv DEF ZfreeTemp
<1>5. CASE ZstrAllocate \/ ZstrReturn \/ (\E b \in Block : FreeString(b)) \/ Longjmp
  BY <1>5, StringInv
<1>6. CASE UnwindTemp
  BY <1>6, PopInv DEF UnwindTemp
<1>7. CASE Zsetup
  BY <1>7, ZsetupInv
<1>8. CASE Zunsetup
  BY <1>8, ZunsetupInv
<1>9. CASE UNCHANGED vars
  BY <1>9, StutterInv
<1>. QED
  BY <1>1, <1>2, <1>3, <1>4, <1>5, <1>6, <1>7, <1>8, <1>9
     DEF Next, Lifetimes, Failure

-----------------------------------------------------------------------------
(* The theorems.                                                           *)

(* The inductive invariant holds throughout every execution of the         *)
(* library, whichever allocations fail.                                    *)
THEOREM InductiveInvariant == Spec => []IInv
  BY InitInv, NextInv, PTL DEF Spec

(* Every variable keeps its type; no size class leaves libzahl_pool.       *)
THEOREM TypeCorrect == Spec => []TypeOK
<1>1. IInv => TypeOK
  BY DEF IInv
<1>. QED
  BY <1>1, InductiveInvariant, PTL

(* A block of limbs or of characters never has two owners: what zfree,     *)
(* libzahl_failure and zunsetup release was owned by nobody else.          *)
LEMMA IInvExclusive == IInv => ExclusiveOwnership
<1>. SUFFICES ASSUME IInv PROVE ExclusiveOwnership
  OBVIOUS
<1>. USE SizeAssumption, BlockAssumption
<1>1. TypeOK /\ Consistent(heap, chars, alloced, Active, Cache)
  BY DEF IInv, Limbs
<1>2. \A a \in Number, b \in Block : Holds(a, b) =>
        a \in Active /\ chars[a] = b /\ chars[a] # NoBlock /\ heap[b] \in Class
  BY <1>1 DEF Holds, Active, Consistent
<1>3. \A b \in Block : InPool(b) => /\ heap[b] \in Class
                                    /\ \A a \in Active : chars[a] # b
  BY <1>1 DEF InPool, Cached, Cache, Consistent
<1>4. \A b \in Block : InString(b) => heap[b] = Raw
  BY DEF IInv, Strings, InString
<1>5. \A a, c \in Number, b \in Block : Holds(a, b) /\ Holds(c, b) => a = c
  BY <1>1, <1>2 DEF Consistent
<1>6. \A b \in Block : ~ (InPool(b) /\ \E a \in Number : Holds(a, b))
  BY <1>2, <1>3
<1>7. \A b \in Block : InString(b) => ~ InPool(b) /\ \A a \in Number : ~ Holds(a, b)
  BY <1>2, <1>3, <1>4
<1>8. setUp => \A i, j \in Class : \A k \in Slot(i), l \in Slot(j) :
                pool[i][k] = pool[j][l] => i = j /\ k = l
  BY <1>1 DEF Cache, Slot, Consistent
<1>9. tempAlloc \notin strings
  BY <1>1 DEF IInv, Strings, TypeOK
<1>. QED
  BY <1>5, <1>6, <1>7, <1>8, <1>9 DEF ExclusiveOwnership

(* ExclusiveOwnership holds throughout every execution.                    *)
THEOREM Exclusive == Spec => []ExclusiveOwnership
  BY InductiveInvariant, IInvExclusive, PTL

(* What alloced, and the index of a pool, say of the size of a block is    *)
(* always true, and a block in use is never one the heap may hand out.     *)
LEMMA IInvSound == IInv => SoundCapacity
<1>. SUFFICES ASSUME IInv PROVE SoundCapacity
  OBVIOUS
<1>1. Consistent(heap, chars, alloced, Active, Cache)
  BY DEF IInv, Limbs
<1>2. \A a \in Number, b \in Block : Holds(a, b) => heap[b] = alloced[a]
  BY <1>1 DEF Holds, Active, Consistent
<1>3. \A b \in Block : InString(b) => heap[b] = Raw
  BY BlockAssumption DEF IInv, Strings, InString
<1>4. setUp => \A i \in Class : \A k \in Slot(i) : heap[pool[i][k]] = i
  BY <1>1 DEF Cache, Slot, Consistent
<1>5. status = "run" => \A a \in Number :
        Initialised(a) /\ chars[a] = NoBlock => alloced[a] = Free
  BY DEF IInv, NullIsEmpty, Active
<1>. QED
  BY <1>2, <1>3, <1>4, <1>5 DEF SoundCapacity

(* SoundCapacity holds throughout every execution.                         *)
THEOREM Sound == Spec => []SoundCapacity
  BY InductiveInvariant, IInvSound, PTL

-----------------------------------------------------------------------------
(* A pool has no array or one of at least two pointers, which the growth by *)
(* one half makes larger; the stack has an array while the library runs,    *)
(* which doubling makes larger.                                             *)
PoolsWithin(p, n) ==
  \A i \in Class : Len(p[i]) <= n[i] /\ (n[i] = 0 \/ n[i] >= 2)

StackWithin == /\ Len(tempStack) <= tempEnd
               /\ status = "run" => tempEnd >= 1

Arrays == setUp => PoolsWithin(pool, poolAlloc) /\ StackWithin

(* A pool that is full grows.                                              *)
LEMMA GrowMore ==
  ASSUME NEW j \in Nat, j = 0 \/ j >= 2
  PROVE  Grow(j) \in Nat /\ Grow(j) >= j + 1 /\ Grow(j) >= 2
  BY SizeAssumption DEF Grow

(* zfree never writes past the end of a pool.                              *)
LEMMA ZfreeWithin ==
  ASSUME TypeOK, NEW a \in Number, NEW p \in Pools, Zfree(a, p),
         chars[a] # NoBlock => alloced[a] \in Class,
         PoolsWithin(p, poolAlloc)
  PROVE  PoolsWithin(pool', poolAlloc')
<1>. DEFINE i == alloced[a]
<1>1. CASE chars[a] = NoBlock /\ pool' = p /\ UNCHANGED poolAlloc
  BY <1>1 DEF PoolsWithin
<1>2. ASSUME chars[a] # NoBlock
      PROVE  /\ i \in Class /\ chars[a] \in Block /\ p[i] \in Seq(Block)
             /\ Len(p[i]) \in Nat /\ Len(Append(p[i], chars[a])) = Len(p[i]) + 1
             /\ poolAlloc[i] \in Nat /\ Len(p[i]) <= poolAlloc[i]
             /\ poolAlloc[i] = 0 \/ poolAlloc[i] >= 2
  <2>1. i \in Class /\ chars[a] \in Block
    BY <1>2 DEF TypeOK
  <2>2. p[i] \in Seq(Block) /\ poolAlloc[i] \in Nat
    BY <2>1 DEF TypeOK, Pools
  <2>. QED
    BY <2>1, <2>2 DEF PoolsWithin
<1>3. CASE /\ chars[a] # NoBlock /\ Len(p[i]) # poolAlloc[i]
           /\ pool' = [p EXCEPT ![i] = Append(@, chars[a])]
           /\ UNCHANGED poolAlloc
  <2>1. pool'[i] = Append(p[i], chars[a]) /\ \A j \in Class \ {i} : pool'[j] = p[j]
    BY <1>2, <1>3 DEF Pools
  <2>2. Len(pool'[i]) <= poolAlloc[i]
    BY <1>2, <1>3, <2>1
  <2>. QED
    BY <1>3, <2>1, <2>2 DEF PoolsWithin
<1>4. CASE /\ chars[a] # NoBlock /\ Len(p[i]) = poolAlloc[i]
           /\ pool' = [p EXCEPT ![i] = Append(@, chars[a])]
           /\ poolAlloc' = [poolAlloc EXCEPT ![i] = Grow(Len(p[i]))]
  <2>1. pool'[i] = Append(p[i], chars[a]) /\ \A j \in Class \ {i} : pool'[j] = p[j]
    BY <1>2, <1>4 DEF Pools
  <2>2. /\ poolAlloc'[i] = Grow(Len(p[i]))
        /\ \A j \in Class \ {i} : poolAlloc'[j] = poolAlloc[j]
    BY <1>2, <1>4 DEF TypeOK
  <2>3. Grow(Len(p[i])) >= Len(p[i]) + 1 /\ Grow(Len(p[i])) >= 2
    BY <1>2, <1>4, GrowMore
  <2>. QED
    BY <1>2, <1>4, <2>1, <2>2, <2>3 DEF PoolsWithin
<1>5. CASE /\ chars[a] # NoBlock /\ Len(p[i]) = poolAlloc[i]
           /\ pool' = [p EXCEPT ![i] = <<>>]
           /\ poolAlloc' = [poolAlloc EXCEPT ![i] = 0]
  <2>1. /\ pool'[i] = <<>> /\ \A j \in Class \ {i} : pool'[j] = p[j]
        /\ poolAlloc'[i] = 0 /\ \A j \in Class \ {i} : poolAlloc'[j] = poolAlloc[j]
    BY <1>2, <1>5 DEF TypeOK, Pools
  <2>. QED
    BY <2>1 DEF PoolsWithin
<1>. QED
  BY <1>1, <1>3, <1>4, <1>5 DEF Zfree

(* zfree as the callers of the current state use it.                       *)
LEMMA ZfreeArrays ==
  ASSUME IInv, status \in {"run", "unwind"}, PoolsWithin(pool, poolAlloc),
         NEW a \in Active, Zfree(a, pool)
  PROVE  PoolsWithin(pool', poolAlloc')
<1>1. /\ TypeOK /\ pool \in Pools /\ a \in Number
      /\ Consistent(heap, chars, alloced, Active, pool)
  BY WhileUp DEF IInv
<1>2. chars[a] # NoBlock => alloced[a] \in Class
  BY <1>1 DEF Consistent
<1>. QED
  BY <1>1, <1>2, ZfreeWithin

(* ENSURE_SIZE keeps the pools within their arrays: what it takes from one *)
(* makes room, what it returns goes through zfree.                         *)
LEMMA EnsureSizeArrays ==
  ASSUME IInv, status = "run", PoolsWithin(pool, poolAlloc),
         NEW a \in Active, NEW need \in Need, EnsureSize(a, need)
  PROVE  PoolsWithin(pool', poolAlloc')
<1>. DEFINE i == SizeClass(need)
            n == Len(pool[i])
            p == [pool EXCEPT ![i] = SubSeq(@, 1, n - 1)]
<1>1. /\ TypeOK /\ pool \in Pools /\ a \in Number /\ i \in Class
      /\ Consistent(heap, chars, alloced, Active, pool)
  BY WhileUp, NeedClass DEF IInv
<1>2. chars[a] # NoBlock => alloced[a] \in Class
  BY <1>1 DEF Consistent
<1>3. CASE UNCHANGED <<pool, poolAlloc>>
  BY <1>3 DEF PoolsWithin
<1>4. CASE TakeCached(a, i)
  <2>1. pool[i] \in Seq(Block) /\ pool[i] # <<>> /\ Zfree(a, p)
    BY <1>1, <1>4 DEF TakeCached, Pools
  <2>2. /\ n \in Nat \ {0}
        /\ SubSeq(pool[i], 1, n - 1) \in Seq(Block)
        /\ Len(SubSeq(pool[i], 1, n - 1)) = n - 1
    BY <2>1, ButLast
  <2>3. /\ p \in Pools
        /\ p[i] = SubSeq(pool[i], 1, n - 1)
        /\ \A j \in Class \ {i} : p[j] = pool[j]
    BY <1>1, <2>2 DEF Pools
  <2>4. PoolsWithin(p, poolAlloc)
    <3>1. Len(p[i]) <= poolAlloc[i]
      BY <1>1, <2>2, <2>3 DEF PoolsWithin, TypeOK
    <3>. QED
      BY <2>3, <3>1 DEF PoolsWithin
  <2>. HIDE DEF p
  <2>. QED
    BY <1>1, <1>2, <2>1, <2>3, <2>4, ZfreeWithin
<1>. QED
  BY <1>3, <1>4 DEF EnsureSize, libzahl_realloc, Reallocate, ReallocFails, caches

-----------------------------------------------------------------------------
(* Every step keeps the arrays.                                            *)

(* Storing a value touches the pools through ENSURE_SIZE only.             *)
LEMMA StoreArrays == IInv /\ Arrays /\ Store => Arrays'
<1>. SUFFICES ASSUME IInv, Arrays, Store PROVE Arrays'
  OBVIOUS
<1>1. /\ status = "run" /\ status' \in {"run", "unwind"}
      /\ UNCHANGED <<tempStack, tempEnd, setUp>>
      /\ \/ UNCHANGED <<pool, poolAlloc>>
         \/ \E a \in Active, need \in Need : EnsureSize(a, need)
  <2>1. ASSUME NEW a \in Number, NEW b \in Number,
               \/ Zset(a, b) \/ Zsetu(a)
               \/ (\E k \in 0 .. 1 : Zlsh(a, b, k)) \/ Zswap(a, b)
        PROVE  /\ status = "run"
               /\ UNCHANGED <<temps, setUp>>
               /\ \/ UNCHANGED <<caches, status>>
                  \/ a \in Active /\ \E need \in Need : EnsureSize(a, need)
    BY <2>1 DEF Zset, Zsetu, Zlsh, Zswap, Active
  <2>2. ASSUME NEW a, NEW need, EnsureSize(a, need), status = "run"
        PROVE  status' \in {"run", "unwind"}
    BY <2>2 DEF EnsureSize, libzahl_realloc, TakeCached, Reallocate, ReallocFails
  <2>. QED
    BY <2>1, <2>2 DEF Store, temps, caches
<1>2. setUp /\ PoolsWithin(pool, poolAlloc) /\ StackWithin
  BY <1>1, WhileUp DEF Arrays
<1>3. PoolsWithin(pool', poolAlloc')
  BY <1>1, <1>2, EnsureSizeArrays DEF PoolsWithin
<1>. QED
  BY <1>1, <1>2, <1>3 DEF Arrays, StackWithin

(* zfree of a number, and the removal of the topmost temporary.            *)
LEMMA ReleaseArrays ==
  ASSUME IInv, Arrays, status \in {"run", "unwind"},
         NEW a \in Active, Zfree(a, pool), UNCHANGED <<tempEnd, setUp, status>>,
         \/ UNCHANGED tempStack
         \/ /\ tempStack # <<>>
            /\ tempStack' = SubSeq(tempStack, 1, Len(tempStack) - 1)
  PROVE  Arrays'
<1>1. /\ setUp /\ PoolsWithin(pool, poolAlloc) /\ StackWithin
      /\ tempStack \in Seq(Local) /\ tempEnd \in Nat
  BY WhileUp DEF Arrays, IInv, TypeOK
<1>2. PoolsWithin(pool', poolAlloc')
  BY <1>1, ZfreeArrays
<1>3. Len(tempStack') \in Nat /\ Len(tempStack') <= Len(tempStack)
  BY <1>1, ButLast
<1>. QED
  BY <1>1, <1>2, <1>3 DEF Arrays, StackWithin

(* zinit_temp pushes below the end, or doubles an array that is not empty. *)
LEMMA ZinitTempArrays ==
  ASSUME IInv, Arrays, NEW a \in Local, ZinitTemp(a)
  PROVE  Arrays'
<1>1. /\ setUp /\ PoolsWithin(pool, poolAlloc) /\ StackWithin
      /\ tempStack \in Seq(Local) /\ tempEnd \in Nat /\ status = "run"
  BY WhileUp DEF Arrays, IInv, TypeOK, ZinitTemp
<1>2. Len(Append(tempStack, a)) = Len(tempStack) + 1 /\ Len(tempStack) \in Nat
  BY <1>1
<1>3. StackWithin'
  BY <1>1, <1>2 DEF StackWithin, ZinitTemp
<1>4. UNCHANGED <<pool, poolAlloc, setUp>>
  BY DEF ZinitTemp, caches
<1>. QED
  BY <1>1, <1>3, <1>4 DEF Arrays, PoolsWithin

(* The topmost temporary is initialised.                                   *)
LEMMA TopActive ==
  ASSUME TypeOK, tempStack # <<>>
  PROVE  tempStack[Len(tempStack)] \in Active
<1>1. Len(tempStack) \in 1 .. Len(tempStack) /\ tempStack[Len(tempStack)] \in Local
  BY ButLast DEF TypeOK
<1>. QED
  BY <1>1 DEF Active, Initialised, OnStack, Number

(* The arrays hold their pointers in every step.                           *)
LEMMA NextArrays == IInv /\ Arrays /\ [Next]_vars => Arrays'
<1>. SUFFICES ASSUME IInv, Arrays, [Next]_vars PROVE Arrays'
  OBVIOUS
<1>0. TypeOK /\ (status \in {"run", "unwind"} => setUp)
  BY WhileUp DEF IInv
<1>1. CASE Store
  BY <1>1, StoreArrays
<1>2. ASSUME NEW a \in User, Zinit(a) PROVE Arrays'
  BY <1>2 DEF Zinit, Arrays, StackWithin, PoolsWithin, caches, temps
<1>3. ASSUME NEW a \in User, ZfreeUser(a) PROVE Arrays'
  <2>1. a \in Active /\ Zfree(a, pool) /\ status = "run"
    BY <1>3 DEF ZfreeUser, Active, Initialised, Number
  <2>. QED
    BY <1>3, <2>1, ReleaseArrays DEF ZfreeUser, temps
<1>4. ASSUME NEW a \in Local, ZinitTemp(a) PROVE Arrays'
  BY <1>4, ZinitTempArrays
<1>5. ASSUME NEW a \in Local, ZfreeTemp(a) PROVE Arrays'
  BY <1>0, <1>5, TopActive, ReleaseArrays DEF ZfreeTemp
<1>6. CASE ZstrAllocate \/ ZstrReturn \/ (\E b \in Block : FreeString(b)) \/ Longjmp
  BY <1>6 DEF ZstrAllocate, ZstrReturn, FreeString, Longjmp, Arrays, StackWithin,
              PoolsWithin, caches
<1>7. CASE UnwindTemp
  BY <1>0, <1>7, TopActive, ReleaseArrays DEF UnwindTemp
<1>8. CASE Zsetup
  <2>1. \A i \in Class : pool'[i] = <<>> /\ poolAlloc'[i] = 0
    BY <1>8 DEF Zsetup
  <2>2. PoolsWithin(pool', poolAlloc')
    BY <2>1 DEF PoolsWithin
  <2>3. StackWithin'
    BY <1>8, SizeAssumption DEF Zsetup, StackWithin
  <2>. QED
    BY <2>2, <2>3 DEF Arrays
<1>9. CASE Zunsetup
  BY <1>9 DEF Zunsetup, Arrays
<1>10. CASE UNCHANGED vars
  BY <1>10 DEF vars, caches, temps, Arrays, StackWithin, PoolsWithin
<1>. QED
  BY <1>1, <1>2, <1>3, <1>4, <1>5, <1>6, <1>7, <1>8, <1>9, <1>10
     DEF Next, Lifetimes, Failure

(* Neither a pool nor the stack of temporaries is written past its end, in *)
(* any execution, for every number of blocks, numbers and size classes.    *)
THEOREM Within == Spec => []WithinArrays
<1>1. Init => Arrays
  BY DEF Init, Arrays
<1>2. Arrays => WithinArrays
  BY DEF Arrays, PoolsWithin, StackWithin, WithinArrays
<1>. QED
  BY <1>1, <1>2, InductiveInvariant, NextArrays, PTL DEF Spec

-----------------------------------------------------------------------------
(* The blocks.                                                             *)
USE DEF Class, Free

(* As the functions see it: alloced is all they look at.  While an error    *)
(* unwinds it is not required, for zset sets used before it grows.          *)
Fits == status \in {"run", "down"} =>
          \A a \in Active : used[a] <= Capacity(alloced[a])

(* What Capacity is applied to.                                            *)
LEMMA CapacityNat ==
  ASSUME NEW c \in Class \cup {Free}
  PROVE  Capacity(c) \in Nat
<1>1. CASE c = Free
  BY <1>1 DEF Capacity
<1>2. CASE c \in Class
  <2>1. c \in Nat /\ c # Free
    BY <1>2, SizeAssumption
  <2>. QED
    BY <2>1, Positive DEF Capacity
<1>. QED
  BY <1>1, <1>2

(* A block of the size class of a request is large enough for it.          *)
LEMMA SizeClassFits ==
  ASSUME NEW n \in Need
  PROVE  SizeClass(n) \in Class /\ n <= Capacity(SizeClass(n))
<1>1. n \in Nat \ {0} /\ SizeClass(n) \in Class
  BY DEF Need
<1>2. Msb(n) \in 0 .. n /\ 2 ^ Msb(n) <= n /\ n < 2 ^ (Msb(n) + 1)
  BY <1>1, Between DEF Msb
<1>3. SizeClass(n) # Free /\ Capacity(SizeClass(n)) = 2 ^ SizeClass(n)
  <2>1. SizeClass(n) # Free
    BY <1>1, SizeAssumption
  <2>. QED
    BY <2>1 DEF Capacity
<1>4. CASE 2 ^ Msb(n) # n
  <2>1. SizeClass(n) = Msb(n) + 1
    BY <1>4 DEF SizeClass
  <2>2. 2 ^ (Msb(n) + 1) \in Nat
    BY <1>2, Positive
  <2>3. Capacity(SizeClass(n)) = 2 ^ (Msb(n) + 1)
    BY <1>3, <2>1
  <2>. QED
    BY <1>1, <1>2, <2>2, <2>3
<1>5. CASE 2 ^ Msb(n) = n
  <2>1. SizeClass(n) = Msb(n)
    BY <1>5 DEF SizeClass
  <2>2. Capacity(SizeClass(n)) = 2 ^ Msb(n)
    BY <1>3, <2>1
  <2>. QED
    BY <1>1, <1>5, <2>2
<1>. QED
  BY <1>4, <1>5

(* After ENSURE_SIZE a number has room for what was requested, and the     *)
(* others have the room they had.                                          *)
LEMMA EnsureSizeFits ==
  ASSUME IInv, status = "run", NEW a \in Active, NEW need \in Need,
         EnsureSize(a, need), status' = "run"
  PROVE  /\ need <= Capacity(alloced'[a])
         /\ \A c \in Active \ {a} : alloced'[c] = alloced[c]
<1>1. /\ a \in Number /\ Active \in SUBSET Number
      /\ alloced \in [Number -> Class \cup {Free}]
      /\ need \in Nat
  BY WhileUp DEF IInv, TypeOK, Need
<1>2. CASE Capacity(alloced[a]) >= need /\ UNCHANGED alloced
  <2>1. Capacity(alloced[a]) \in Nat
    BY <1>1, CapacityNat
  <2>. QED
    BY <1>1, <1>2, <2>1
<1>3. CASE alloced' = [alloced EXCEPT ![a] = SizeClass(need)]
  <2>1. alloced'[a] = SizeClass(need) /\ \A c \in Active \ {a} : alloced'[c] = alloced[c]
    BY <1>1, <1>3
  <2>. QED
    BY <2>1, SizeClassFits
<1>. QED
  BY <1>2, <1>3
     DEF EnsureSize, libzahl_realloc, TakeCached, Reallocate, ReallocFails

-----------------------------------------------------------------------------
(* Every step keeps the values within their blocks.                        *)

(* A function that requests room for n limbs and stores no more.           *)
LEMMA StoredFits ==
  ASSUME IInv, Fits, status = "run", NEW a \in Active, NEW need \in Need,
         EnsureSize(a, need), NEW n \in Nat, n <= need,
         status' = "run" => used' = [used EXCEPT ![a] = n],
         UNCHANGED <<live, temps, setUp>>
  PROVE  Fits'
<1>1. Active' = Active
  BY SameActive DEF temps
<1>2. status' \in {"run", "unwind"}
  BY DEF EnsureSize, libzahl_realloc, TakeCached, Reallocate, ReallocFails
<1>3. SUFFICES ASSUME status' = "run", NEW c \in Active
               PROVE  used'[c] <= Capacity(alloced'[c])
  BY <1>1, <1>2 DEF Fits
<1>4. /\ need <= Capacity(alloced'[a])
      /\ c # a => alloced'[c] = alloced[c]
  BY <1>3, EnsureSizeFits
<1>5. used'[c] = IF c = a THEN n ELSE used[c]
  BY <1>3, WhileUp DEF IInv, TypeOK
<1>6. used[c] <= Capacity(alloced[c])
  BY <1>3 DEF Fits
<1>7. need \in Nat /\ Capacity(alloced'[a]) \in Nat
  <2>1. alloced'[a] \in Class \cup {Free}
    BY EnsureSizeResizes, WhileUp DEF Resized
  <2>. QED
    BY <2>1, CapacityNat DEF Need
<1>. QED
  BY <1>4, <1>5, <1>6, <1>7

(* A function that stores zero requests nothing.                           *)
LEMMA ZeroFits ==
  ASSUME IInv, Fits, NEW a \in Active, used' = [used EXCEPT ![a] = 0],
         UNCHANGED <<alloced, live, temps, setUp, status>>
  PROVE  Fits'
<1>1. Active' = Active
  BY SameActive DEF temps
<1>2. \A c \in Active : /\ used'[c] = IF c = a THEN 0 ELSE used[c]
                        /\ alloced[c] \in Class \cup {Free}
  BY DEF IInv, TypeOK, Active
<1>3. \A c \in Active : Capacity(alloced[c]) \in Nat
  BY <1>2, CapacityNat
<1>. QED
  BY <1>1, <1>2, <1>3 DEF Fits

(* Every function that stores a value.                                     *)
LEMMA StoreFits == IInv /\ Fits /\ Store => Fits'
<1>. SUFFICES ASSUME IInv, Fits, NEW a \in Number, NEW b \in Number
              PROVE  /\ Zset(a, b) => Fits'
                     /\ Zsetu(a) => Fits'
                     /\ \A k \in 0 .. 1 : Zlsh(a, b, k) => Fits'
                     /\ Zswap(a, b) => Fits'
  BY DEF Store
<1>0. used \in [Number -> Nat] /\ alloced \in [Number -> Class \cup {Free}]
  BY DEF IInv, TypeOK
<1>1. ASSUME Zset(a, b) PROVE Fits'
  <2>1. /\ status = "run" /\ a \in Active
        /\ used' = [used EXCEPT ![a] = used[b]] /\ used[b] \in Nat
        /\ UNCHANGED <<live, temps, setUp>>
    BY <1>0, <1>1 DEF Zset, Active
  <2>2. CASE used[b] = 0 /\ UNCHANGED <<alloced, status>>
    BY <2>1, <2>2, ZeroFits
  <2>3. CASE used[b] \in Need /\ EnsureSize(a, used[b])
    <3>. DEFINE n == used[b]
    <3>1. /\ n \in Need /\ n \in Nat /\ n <= n /\ EnsureSize(a, n)
          /\ used' = [used EXCEPT ![a] = n]
      BY <2>1, <2>3
    <3>. HIDE DEF n
    <3>. QED
      BY <2>1, <3>1, StoredFits
  <2>. QED
    BY <1>1, <2>2, <2>3 DEF Zset
<1>2. ASSUME Zsetu(a) PROVE Fits'
  <2>1. /\ status = "run" /\ a \in Active /\ 1 \in Need /\ EnsureSize(a, 1)
        /\ status' = "run" => used' = [used EXCEPT ![a] = 1]
        /\ UNCHANGED <<live, temps, setUp>>
    BY <1>2 DEF Zsetu, Active
  <2>. QED
    BY <2>1, StoredFits
<1>3. ASSUME NEW k \in 0 .. 1, Zlsh(a, b, k) PROVE Fits'
  <2>1. status = "run" /\ a \in Active /\ UNCHANGED <<live, temps, setUp>>
    BY <1>3 DEF Zlsh, Active
  <2>2. CASE /\ used' = [used EXCEPT ![a] = 0]
             /\ UNCHANGED <<alloced, status>>
    BY <2>1, <2>2, ZeroFits
  <2>3. ASSUME used[b] + k + 1 \in Need, EnsureSize(a, used[b] + k + 1),
               NEW carry \in {0, 1},
               used' = IF status' = "run"
                       THEN [used EXCEPT ![a] = used[b] + k + carry] ELSE used
        PROVE  Fits'
    <3>1. /\ used[b] + k + carry \in Nat
          /\ used[b] + k + carry <= used[b] + k + 1
      BY <1>0
    <3>2. status' = "run" => used' = [used EXCEPT ![a] = used[b] + k + carry]
      BY <2>3
    <3>. QED
      BY <2>1, <2>3, <3>1, <3>2, StoredFits
  <2>. QED
    BY <1>3, <2>2, <2>3 DEF Zlsh
<1>4. ASSUME Zswap(a, b) PROVE Fits'
  <2>1. /\ a \in Active /\ b \in Active /\ status = "run"
        /\ alloced' = [alloced EXCEPT ![a] = alloced[b], ![b] = alloced[a]]
        /\ used'    = [used    EXCEPT ![a] = used[b],    ![b] = used[a]]
        /\ UNCHANGED <<live, temps, setUp, status>>
    BY <1>4 DEF Zswap, Active
  <2>2. Active' = Active /\ Active \in SUBSET Number
    BY <2>1, SameActive, WhileUp DEF temps
  <2>3. \A c \in Active : \E d \in Active :
          used'[c] = used[d] /\ alloced'[c] = alloced[d]
    BY <1>0, <2>1, <2>2
  <2>. QED
    BY <2>1, <2>2, <2>3 DEF Fits
<1>. QED
  BY <1>1, <1>2, <1>3, <1>4

(* A number that zinit or zsetup initialises is zero and has no room.      *)
LEMMA FreshFits ==
  ASSUME IInv, Fits, Active' \in SUBSET Number,
         status' \in {"run", "down"} => status \in {"run", "down"},
         \A c \in Active' : \/ used'[c] = 0 /\ alloced'[c] = Free
                            \/ c \in Active /\ used'[c] = used[c]
                                            /\ alloced'[c] = alloced[c]
  PROVE  Fits'
<1>1. Capacity(Free) = 0
  BY DEF Capacity
<1>. QED
  BY <1>1 DEF Fits

(* Every step keeps the values within their blocks.                        *)
LEMMA NextFits == IInv /\ Fits /\ [Next]_vars => Fits'
<1>. SUFFICES ASSUME IInv, Fits, [Next]_vars PROVE Fits'
  OBVIOUS
<1>0. /\ used \in [Number -> Nat] /\ alloced \in [Number -> Class \cup {Free}]
      /\ Active' \in SUBSET Number /\ TypeOK
  BY DEF IInv, TypeOK, Active
<1>1. CASE Store
  BY <1>1, StoreFits
<1>2. ASSUME NEW a \in User, Zinit(a) PROVE Fits'
  <2>1. \A c \in Active' : c = a \/ c \in Active
    BY <1>2 DEF Zinit, Active, Initialised, OnStack, temps
  <2>2. \A c \in Number : /\ c = a => used'[c] = 0 /\ alloced'[c] = Free
                          /\ c # a => used'[c] = used[c] /\ alloced'[c] = alloced[c]
    BY <1>0, <1>2 DEF Zinit
  <2>. QED
    BY <1>0, <1>2, <2>1, <2>2, FreshFits DEF Zinit
<1>3. ASSUME NEW a \in Local, ZinitTemp(a) PROVE Fits'
  <2>1. \A c \in Active' : c = a \/ c \in Active
    <3>1. tempStack' = tempStack \/ tempStack' = Append(tempStack, a)
      BY <1>3 DEF ZinitTemp
    <3>2. \A k \in 1 .. Len(tempStack') :
            tempStack'[k] = a \/ (k \in 1 .. Len(tempStack) /\ tempStack'[k] = tempStack[k])
      BY <1>0, <3>1 DEF TypeOK
    <3>3. \A c : OnStack(c)' => c = a \/ OnStack(c)
      BY <3>2 DEF OnStack
    <3>. QED
      BY <1>3, <3>3 DEF ZinitTemp, Active, Initialised
  <2>2. \A c \in Number : /\ c = a => used'[c] = 0 /\ alloced'[c] = Free
                          /\ c # a => used'[c] = used[c] /\ alloced'[c] = alloced[c]
    BY <1>0, <1>3 DEF ZinitTemp
  <2>. QED
    BY <1>0, <1>3, <2>1, <2>2, FreshFits DEF ZinitTemp
<1>4. ASSUME UNCHANGED <<used, alloced>>, Active' \subseteq Active,
             status' \in {"run", "down"} => status \in {"run", "down"}
      PROVE  Fits'
  BY <1>0, <1>4, FreshFits
<1>5. ASSUME NEW a \in User, ZfreeUser(a) PROVE Fits'
  BY <1>4, <1>5 DEF ZfreeUser, Active, Initialised, OnStack, temps
<1>6. ASSUME tempStack # <<>>, UNCHANGED <<numbers, setUp, status>>,
             tempStack' = SubSeq(tempStack, 1, Len(tempStack) - 1)
      PROVE  Fits'
  <2>1. /\ Len(tempStack') = Len(tempStack) - 1 /\ Len(tempStack) \in Nat
        /\ \A k \in 1 .. Len(tempStack) - 1 : tempStack'[k] = tempStack[k]
    BY <1>0, <1>6, ButLast DEF TypeOK
  <2>2. \A c : OnStack(c)' => OnStack(c)
    BY <2>1 DEF OnStack
  <2>. QED
    BY <1>4, <1>6, <2>2 DEF Active, Initialised, numbers
<1>7. CASE (\E a \in Local : ZfreeTemp(a)) \/ UnwindTemp
  BY <1>6, <1>7 DEF ZfreeTemp, UnwindTemp
<1>8. CASE ZstrAllocate \/ ZstrReturn \/ (\E b \in Block : FreeString(b)) \/ Longjmp
  BY <1>4, <1>8 DEF ZstrAllocate, ZstrReturn, FreeString, Longjmp, Active,
                    Initialised, OnStack, numbers
<1>9. CASE Zsetup
  <2>1. \A c \in Active' : c \in Number /\ (c \in Dedicated \/ c \in Active)
    BY <1>9 DEF Zsetup, Active, Initialised, OnStack
  <2>2. \A c \in Number :
          /\ c \in Dedicated => used'[c] = 0 /\ alloced'[c] = Free
          /\ c \notin Dedicated => used'[c] = used[c] /\ alloced'[c] = alloced[c]
    BY <1>9 DEF Zsetup
  <2>. QED
    BY <1>0, <1>9, <2>1, <2>2, FreshFits DEF Zsetup
<1>10. CASE Zunsetup
  BY <1>4, <1>10 DEF Zunsetup, Active, Initialised, OnStack, numbers, temps
<1>11. CASE UNCHANGED vars
  BY <1>4, <1>11 DEF vars, Active, Initialised, OnStack, numbers, temps
<1>. QED
  BY <1>1, <1>2, <1>3, <1>5, <1>7, <1>8, <1>9, <1>10, <1>11
     DEF Next, Lifetimes, Failure

(* Every value fits in the block its number really has, in any execution   *)
(* and for values of any size.                                             *)
THEOREM ValuesFit == Spec => []UsedFits
<1>1. Init => Fits
  BY DEF Init, Fits, Active, Capacity
<1>2. IInv /\ Fits => UsedFits
  <2>. SUFFICES ASSUME IInv, Fits, status = "run", NEW a \in Active, used[a] # 0
                PROVE  chars[a] # NoBlock /\ used[a] <= Capacity(heap[chars[a]])
    BY DEF UsedFits, Active
  <2>1. used[a] \in Nat /\ used[a] <= Capacity(alloced[a])
    BY DEF IInv, TypeOK, Fits, Active
  <2>2. chars[a] = NoBlock => Capacity(alloced[a]) = 0
    BY DEF IInv, NullIsEmpty, Capacity
  <2>3. chars[a] # NoBlock => heap[chars[a]] = alloced[a]
    BY WhileUp DEF Consistent
  <2>. QED
    BY <2>1, <2>2, <2>3
<1>. QED
  BY <1>1, <1>2, InductiveInvariant, NextFits, PTL DEF Spec

-----------------------------------------------------------------------------
(* The holder of a block.                                                  *)

Place == { "heap", "cache", "text", "lost" }

(* What the invariant says of the holder: it is at most one, and one that   *)
(* the heap can not hand the block out from.                               *)
HolderIs(b) ==
  /\ Holder(b) \in Number \cup Place
  /\ Holder(b) = "heap" <=> heap[b] = Free
  /\ \A a \in Number : Holder(b) = a <=> Holds(a, b)
  /\ Holder(b) = "cache" <=> InPool(b)
  /\ Holder(b) = "text" <=> InString(b)

(* Each block has the holder that Holder computes.                         *)
LEMMA HolderKnown == IInv => \A b \in Block : HolderIs(b)
<1>. SUFFICES ASSUME IInv, NEW b \in Block PROVE HolderIs(b)
  OBVIOUS
<1>. USE SizeAssumption, BlockAssumption
<1>1. TypeOK /\ ExclusiveOwnership /\ Consistent(heap, chars, alloced, Active, Cache)
  BY IInvExclusive DEF IInv, Limbs
<1>2. \A a \in Number : Holds(a, b) => heap[b] # Free
  BY <1>1 DEF Holds, Active, Consistent
<1>3. InPool(b) => heap[b] # Free
  BY <1>1 DEF InPool, Cached, Cache, Consistent
<1>4. InString(b) => heap[b] # Free
  BY DEF IInv, Strings, InString
<1>5. \A a, c \in Number : Holds(a, b) /\ Holds(c, b) => a = c
  BY <1>1 DEF ExclusiveOwnership
<1>6. \A a \in Number : Holds(a, b) => ~ InPool(b) /\ ~ InString(b)
  BY <1>1 DEF ExclusiveOwnership
<1>7. ~ (InPool(b) /\ InString(b))
  BY <1>1 DEF ExclusiveOwnership
<1>8. \A a \in Number : a \notin Place
  BY HolderAssumption DEF Place
<1>9. CASE heap[b] = Free
  <2>1. Holder(b) = "heap"
    BY <1>2, <1>3, <1>4, <1>9 DEF Holder
  <2>. QED
    BY <1>2, <1>3, <1>4, <1>8, <1>9, <2>1 DEF HolderIs, Place
<1>10. CASE \E a \in Number : Holds(a, b)
  <2>1. Holder(b) = CHOOSE a \in Number : Holds(a, b)
    BY <1>2, <1>6, <1>10 DEF Holder
  <2>2. Holder(b) \in Number /\ Holds(Holder(b), b)
    BY <1>10, <2>1
  <2>. QED
    BY <1>2, <1>5, <1>6, <1>8, <2>2 DEF HolderIs, Place
<1>11. CASE heap[b] # Free /\ ~ \E a \in Number : Holds(a, b)
  <2>1. Holder(b) = IF InPool(b) THEN "cache" ELSE IF InString(b) THEN "text" ELSE "lost"
    BY <1>7, <1>11 DEF Holder
  <2>. QED
    BY <1>7, <1>8, <1>11, <2>1 DEF HolderIs, Place
<1>. QED
  BY <1>9, <1>10, <1>11

(* And after a step.                                                       *)
LEMMA HolderKnownNext == IInv' => (\A b \in Block : HolderIs(b))'
  BY HolderKnown, PTL

(* A block has the holder that the next state determines.                  *)
LEMMA NextHolder ==
  ASSUME IInv', NEW b \in Block, NEW h \in Number \cup Place,
         heap'[b] = Free <=> h = "heap",
         \A a \in Number : (Holds(a, b))' <=> h = a,
         (InPool(b))' <=> h = "cache",
         (InString(b))' <=> h = "text"
  PROVE  (Holder(b))' = h
<1>2. (HolderIs(b))'
  BY HolderKnownNext
<1>. QED
  BY <1>2 DEF HolderIs, Place

(* A number holds the block in its field chars, if it is initialised.      *)
LEMMA HoldsField ==
  \A a \in Number, b \in Block : Holds(a, b) <=> a \in Active /\ chars[a] = b
  BY BlockAssumption DEF Holds, Active

(* And after a step.                                                       *)
LEMMA HoldsFieldNext ==
  \A a \in Number, b \in Block : (Holds(a, b))' <=> a \in Active' /\ chars'[a] = b
  BY BlockAssumption DEF Holds, Active

-----------------------------------------------------------------------------
(* What zfree does to the pools and the heap.                              *)

InPools(p, b) == \E i \in Class : \E k \in 1 .. Len(p[i]) : p[i][k] = b

(* The block of a is cached, or it is freed and all blocks of its size that *)
(* were cached are in no pool any more.                                    *)
Kept(a, p) ==
  /\ heap' = heap
  /\ \A b \in Block : InPools(pool', b) <=> InPools(p, b) \/ chars[a] = b
Dropped(a, p) ==
  /\ chars[a] \in Block /\ alloced[a] \in Class
  /\ heap' = [heap EXCEPT ![chars[a]] = Free]
  /\ \A b \in Block : InPools(pool', b) <=> InPools(p, b) /\ heap[b] # alloced[a]
  /\ Len(p[alloced[a]]) = poolAlloc[alloced[a]] /\ poolAlloc'[alloced[a]] = 0

(* zfree has these two outcomes for the pools and the heap.                *)
LEMMA ZfreeMoves ==
  ASSUME TypeOK, NEW a \in Number, NEW p \in Pools, Zfree(a, p),
         NEW A \in SUBSET Number, a \in A,
         Consistent(heap, chars, alloced, A, p)
  PROVE  Kept(a, p) \/ Dropped(a, p)
<1>. DEFINE i == alloced[a]
<1>1. CASE chars[a] = NoBlock /\ pool' = p /\ heap' = heap
  BY <1>1, BlockAssumption DEF Kept
<1>2. ASSUME chars[a] # NoBlock
      PROVE  /\ chars[a] \in Block /\ i \in Class /\ p[i] \in Seq(Block)
  BY <1>2 DEF TypeOK, Pools, Consistent
<1>3. CASE /\ chars[a] # NoBlock
           /\ pool' = [p EXCEPT ![i] = Append(@, chars[a])]
           /\ heap' = heap
  <2>1. /\ pool'[i] = Append(p[i], chars[a])
        /\ \A j \in Class \ {i} : pool'[j] = p[j]
    BY <1>2, <1>3 DEF Pools
  <2>2. /\ Len(p[i]) \in Nat /\ Len(pool'[i]) = Len(p[i]) + 1
        /\ pool'[i][Len(p[i]) + 1] = chars[a]
        /\ \A k \in 1 .. Len(p[i]) : pool'[i][k] = p[i][k]
    BY <1>2, <1>3, <2>1
  <2>3. \A k : k \in 1 .. Len(pool'[i]) <=> k = Len(p[i]) + 1 \/ k \in 1 .. Len(p[i])
    BY <2>2
  <2>4. heap' = heap
    BY <1>3
  <2>. HIDE DEF i
  <2>5. i \in Class
    BY <1>2, <1>3 DEF i
  <2>6. \A b : InPools(pool', b) <=> InPools(p, b) \/ chars[a] = b
    <3>. SUFFICES ASSUME NEW b PROVE InPools(pool', b) <=> InPools(p, b) \/ chars[a] = b
      OBVIOUS
    <3>1. (\E k \in 1 .. Len(pool'[i]) : pool'[i][k] = b)
            <=> (\E k \in 1 .. Len(p[i]) : p[i][k] = b) \/ chars[a] = b
      BY <2>2, <2>3
    <3>2. \A j \in Class \ {i} : (\E k \in 1 .. Len(pool'[j]) : pool'[j][k] = b)
                                 <=> (\E k \in 1 .. Len(p[j]) : p[j][k] = b)
      BY <2>1
    <3>. QED
      BY <2>5, <3>1, <3>2 DEF InPools
  <2>. QED
    BY <2>4, <2>6 DEF Kept
<1>4. CASE /\ chars[a] # NoBlock /\ Len(p[i]) = poolAlloc[i]
           /\ heap' = [heap EXCEPT ![chars[a]] = Free]
           /\ pool' = [p EXCEPT ![i] = <<>>]
           /\ poolAlloc' = [poolAlloc EXCEPT ![i] = 0]
  <2>1. /\ pool'[i] = <<>> /\ \A j \in Class \ {i} : pool'[j] = p[j]
        /\ poolAlloc'[i] = 0
    BY <1>2, <1>4 DEF Pools, TypeOK
  <2>2. \A j \in Class : \A k \in 1 .. Len(p[j]) : heap[p[j][k]] = j
    BY DEF Consistent
  <2>3. \A k : k \notin 1 .. Len(pool'[i])
    BY <2>1
  <2>4. \A b \in Block : InPools(pool', b) <=> InPools(p, b) /\ heap[b] # i
    BY <2>1, <2>2, <2>3 DEF InPools
  <2>. QED
    BY <1>2, <1>4, <2>1, <2>4 DEF Dropped
<1>. QED
  BY <1>1, <1>3, <1>4 DEF Zfree

-----------------------------------------------------------------------------
(* A number gives up its block, and may have taken t for it; without one t *)
(* is the number itself.                                                   *)

Caches(a, t) ==
  \A b \in Block : (Holder(b))' = IF b = t THEN a
                                  ELSE IF Holder(b) = a THEN "cache" ELSE Holder(b)
Drops(a, t) ==
  /\ chars[a] \in Block /\ Holder(chars[a]) = a
  /\ \A b \in Block : (Holder(b))' = IF b = t THEN a
                                     ELSE IF Holder(b) = a THEN "heap"
                                     ELSE IF Holder(b) = "cache" /\ heap[b] = heap[chars[a]]
                                          THEN "lost" ELSE Holder(b)
  /\ poolAlloc'[heap[chars[a]]] = 0
  /\ \A b \in Block : Cached(b) /\ heap[b] = heap[chars[a]] => poolAlloc[heap[b]] # 0

KeepsSizes == \A b \in Block : heap'[b] = heap[b] \/ heap'[b] = Free

(* A cached block has a pool with room for it.                             *)
LEMMA CachedRoom ==
  ASSUME IInv, Arrays, setUp
  PROVE  \A b \in Block : Cached(b) => heap[b] \in Class /\ poolAlloc[heap[b]] # 0
<1>. SUFFICES ASSUME NEW i \in Class, NEW k \in 1 .. Len(pool[i])
              PROVE  heap[pool[i][k]] = i /\ poolAlloc[i] # 0
  BY DEF Cached
<1>1. heap[pool[i][k]] = i
  BY DEF IInv, Limbs, Cache, Consistent
<1>2. Len(pool[i]) \in Nat /\ Len(pool[i]) <= poolAlloc[i] /\ poolAlloc[i] \in Nat
  BY DEF IInv, TypeOK, Arrays, PoolsWithin
<1>. QED
  BY <1>1, <1>2

(* zfree of a number that is not used any more.                            *)
LEMMA ReleaseMoves ==
  ASSUME IInv, IInv', Arrays, status \in {"run", "unwind"},
         NEW a \in Active, Zfree(a, pool), Active' = Active \ {a},
         UNCHANGED <<chars, setUp, tempAlloc, strings>>
  PROVE  /\ Caches(a, a) \/ Drops(a, a)
         /\ KeepsSizes
<1>1. /\ TypeOK /\ setUp /\ a \in Number
      /\ Consistent(heap, chars, alloced, Active, pool)
      /\ pool \in Pools /\ Active \in SUBSET Number
  BY WhileUp DEF IInv
<1>2. Kept(a, pool) \/ Dropped(a, pool)
  BY <1>1, ZfreeMoves
<1>3. KeepsSizes
  BY <1>1, <1>2 DEF Kept, Dropped, KeepsSizes, TypeOK
<1>4. \A b \in Block : /\ Holder(b) = a <=> chars[a] = b
                       /\ HolderIs(b) /\ b # a
                       /\ \A c \in Number : (Holds(c, b))' <=> (Holds(c, b) /\ c # a)
                       /\ (InString(b))' <=> InString(b)
                       /\ (InPool(b))' <=> InPools(pool', b)
                       /\ InPool(b) <=> InPools(pool, b)
  <2>. SUFFICES ASSUME NEW b \in Block
                PROVE  /\ Holder(b) = a <=> chars[a] = b
                       /\ HolderIs(b) /\ b # a
                       /\ \A c \in Number : (Holds(c, b))' <=> (Holds(c, b) /\ c # a)
                       /\ (InString(b))' <=> InString(b)
                       /\ (InPool(b))' <=> InPools(pool', b)
                       /\ InPool(b) <=> InPools(pool, b)
    OBVIOUS
  <2>1. HolderIs(b) /\ b # a
    BY <1>1, HolderKnown, HolderAssumption
  <2>2. Holder(b) = a <=> chars[a] = b
    BY <1>1, <2>1, HoldsField DEF HolderIs
  <2>3. \A c \in Number : (Holds(c, b))' <=> (Holds(c, b) /\ c # a)
    BY <1>1, HoldsField, HoldsFieldNext
  <2>4. (InString(b))' <=> InString(b)
    BY DEF InString
  <2>5. ((InPool(b))' <=> InPools(pool', b)) /\ (InPool(b) <=> InPools(pool, b))
    BY <1>1 DEF InPool, Cached, InPools
  <2>. QED
    BY <2>1, <2>2, <2>3, <2>4, <2>5
<1>5. CASE Kept(a, pool)
  <2>. SUFFICES ASSUME NEW b \in Block
                PROVE  (Holder(b))' = IF Holder(b) = a THEN "cache" ELSE Holder(b)
    BY <1>3, <1>4 DEF Caches
  <2>. DEFINE h == IF Holder(b) = a THEN "cache" ELSE Holder(b)
  <2>1. h \in Number \cup Place
    BY <1>4 DEF HolderIs, Place
  <2>2. heap'[b] = Free <=> h = "heap"
    BY <1>1, <1>4, <1>5, HolderAssumption DEF Kept, HolderIs, Place
  <2>3. \A c \in Number : (Holds(c, b))' <=> h = c
    BY <1>4, HolderAssumption DEF HolderIs
  <2>4. (InPool(b))' <=> h = "cache"
    BY <1>4, <1>5 DEF Kept, HolderIs
  <2>5. (InString(b))' <=> h = "text"
    BY <1>1, <1>4, HolderAssumption DEF HolderIs
  <2>. HIDE DEF h
  <2>6. (Holder(b))' = h
    BY <2>1, <2>2, <2>3, <2>4, <2>5, NextHolder
  <2>. QED
    BY <2>6 DEF h
<1>6. CASE Dropped(a, pool)
  <2>1. chars[a] \in Block /\ Holder(chars[a]) = a /\ heap[chars[a]] = alloced[a]
    <3>1. chars[a] \in Block /\ chars[a] # NoBlock
      BY <1>6, BlockAssumption DEF Dropped
    <3>2. heap[chars[a]] = alloced[a]
      BY <1>1, <3>1 DEF Consistent
    <3>. QED
      BY <1>4, <3>1, <3>2
  <2>2. \A b \in Block : (Holder(b))' = IF Holder(b) = a THEN "heap"
                                        ELSE IF Holder(b) = "cache" /\ heap[b] = heap[chars[a]]
                                             THEN "lost" ELSE Holder(b)
    <3>. SUFFICES ASSUME NEW b \in Block
                  PROVE  (Holder(b))' = IF Holder(b) = a THEN "heap"
                                        ELSE IF Holder(b) = "cache" /\ heap[b] = heap[chars[a]]
                                             THEN "lost" ELSE Holder(b)
      OBVIOUS
    <3>. DEFINE h == IF Holder(b) = a THEN "heap"
                     ELSE IF Holder(b) = "cache" /\ heap[b] = heap[chars[a]]
                          THEN "lost" ELSE Holder(b)
    <3>1. h \in Number \cup Place
      BY <1>4 DEF HolderIs, Place
    <3>2. heap'[b] = Free <=> h = "heap"
      BY <1>1, <1>4, <1>6, <2>1, HolderAssumption DEF Dropped, HolderIs, TypeOK
    <3>3. \A c \in Number : (Holds(c, b))' <=> h = c
      BY <1>4, HolderAssumption DEF HolderIs
    <3>4. (InPool(b))' <=> h = "cache"
      BY <1>1, <1>4, <1>6, <2>1, HolderAssumption DEF Dropped, HolderIs
    <3>5. (InString(b))' <=> h = "text"
      BY <1>1, <1>4, HolderAssumption DEF HolderIs
    <3>. HIDE DEF h
    <3>6. (Holder(b))' = h
      BY <3>1, <3>2, <3>3, <3>4, <3>5, NextHolder
    <3>. QED
      BY <3>6 DEF h
  <2>3. \A b \in Block : Cached(b) /\ heap[b] = heap[chars[a]] => poolAlloc[heap[b]] # 0
    BY <1>1, CachedRoom
  <2>. QED
    BY <1>3, <1>4, <1>6, <2>1, <2>2, <2>3 DEF Drops, Dropped
<1>. QED
  BY <1>2, <1>5, <1>6

(* A pool without its last block.                                          *)
LEMMA TakenPool ==
  ASSUME pool \in Pools, Consistent(heap, chars, alloced, Active, pool),
         NEW i \in Class, pool[i] # <<>>
  PROVE  LET n == Len(pool[i])
             p == [pool EXCEPT ![i] = SubSeq(@, 1, n - 1)]
         IN  /\ p \in Pools /\ Consistent(heap, chars, alloced, Active, p)
             /\ pool[i][n] \in Block /\ heap[pool[i][n]] = i
             /\ \A b : InPools(p, b) <=> InPools(pool, b) /\ b # pool[i][n]
             /\ InPools(pool, pool[i][n])
<1>. DEFINE n == Len(pool[i])
            s == SubSeq(pool[i], 1, n - 1)
            p == [pool EXCEPT ![i] = s]
            t == pool[i][n]
<1>1. /\ n \in Nat \ {0} /\ t \in Block /\ s \in Seq(Block) /\ Len(s) = n - 1
      /\ \A k \in 1 .. n - 1 : s[k] = pool[i][k]
  BY ButLast DEF Pools
<1>2. p \in Pools /\ p[i] = s /\ \A j \in Class \ {i} : p[j] = pool[j]
  BY <1>1 DEF Pools
<1>3. heap[t] = i /\ n \in 1 .. n
  BY <1>1 DEF Consistent
<1>4. \A j \in Class : \A k \in 1 .. Len(p[j]) :
        k \in 1 .. Len(pool[j]) /\ p[j][k] = pool[j][k]
  BY <1>1, <1>2
<1>. HIDE DEF p, s
<1>5. Consistent(heap, chars, alloced, Active, p)
  BY <1>4 DEF Consistent
<1>6. \A b : InPools(pool, b) <=> InPools(p, b) \/ b = t
  <2>1. \A j \in Class : \A k \in 1 .. Len(pool[j]) :
          pool[j][k] = t \/ (k \in 1 .. Len(p[j]) /\ p[j][k] = pool[j][k])
    BY <1>1, <1>2
  <2>2. \A b : InPools(p, b) => InPools(pool, b)
    BY <1>4 DEF InPools
  <2>3. InPools(pool, t)
    BY <1>3 DEF InPools
  <2>. HIDE DEF t, n
  <2>4. \A b : InPools(pool, b) => InPools(p, b) \/ b = t
    BY <2>1 DEF InPools
  <2>. QED
    BY <2>2, <2>3, <2>4
<1>7. ~ InPools(p, t)
  <2>1. \A k \in 1 .. n - 1 : pool[i][k] # t
    BY <1>1, <1>3 DEF Consistent
  <2>2. \A j \in Class \ {i} : \A k \in 1 .. Len(pool[j]) : heap[pool[j][k]] = j
    BY DEF Consistent
  <2>3. \A k \in 1 .. Len(p[i]) : p[i][k] # t
    BY <1>1, <1>2, <2>1
  <2>4. \A j \in Class \ {i} : \A k \in 1 .. Len(p[j]) : heap[p[j][k]] = j
    BY <1>2, <2>2
  <2>. HIDE DEF t, n
  <2>5. \A j \in Class : \A k \in 1 .. Len(p[j]) : p[j][k] # t
    BY <1>3, <2>3, <2>4
  <2>. QED
    BY <2>5 DEF InPools
<1>. QED
  BY <1>1, <1>2, <1>3, <1>5, <1>6, <1>7 DEF p, s

(* A number that takes a cached block gives up the one it had.             *)
LEMMA TakeMoves ==
  ASSUME IInv, IInv', Arrays, status = "run", Active' = Active, UNCHANGED <<setUp, temps>>,
         NEW a \in Active, NEW i \in Class, TakeCached(a, i)
  PROVE  LET t == pool[i][Len(pool[i])] IN
         /\ t \in Block /\ Holder(t) = "cache" /\ heap[t] = i
         /\ Caches(a, t) \/ Drops(a, t)
         /\ KeepsSizes
<1>. DEFINE n == Len(pool[i])
            p == [pool EXCEPT ![i] = SubSeq(@, 1, n - 1)]
            t == pool[i][n]
<1>1. /\ TypeOK /\ setUp /\ a \in Number
      /\ Consistent(heap, chars, alloced, Active, pool)
      /\ pool \in Pools /\ Active \in SUBSET Number
  BY WhileUp DEF IInv
<1>2. /\ pool[i] # <<>> /\ Zfree(a, p)
      /\ chars' = [chars EXCEPT ![a] = t]
  <2>1. n # 0 /\ Zfree(a, p) /\ chars' = [chars EXCEPT ![a] = t]
    BY DEF TakeCached
  <2>. QED
    BY <1>1, <2>1 DEF Pools
<1>3. /\ p \in Pools /\ Consistent(heap, chars, alloced, Active, p)
      /\ t \in Block /\ heap[t] = i
      /\ \A b : InPools(p, b) <=> InPools(pool, b) /\ b # t
      /\ InPools(pool, t)
  BY <1>1, <1>2, TakenPool
<1>. HIDE DEF p, t, n
<1>4. Kept(a, p) \/ Dropped(a, p)
  BY <1>1, <1>2, <1>3, ZfreeMoves
<1>5. KeepsSizes
  BY <1>1, <1>4 DEF Kept, Dropped, KeepsSizes, TypeOK
<1>6. chars'[a] = t /\ \A c \in Number : c # a => chars'[c] = chars[c]
  BY <1>1, <1>2 DEF TypeOK
<1>7. t # a /\ Holder(t) = "cache" /\ chars[a] # t
  <2>1. InPool(t)
    BY <1>1, <1>3 DEF InPool, Cached, InPools
  <2>2. HolderIs(t)
    BY <1>3, HolderKnown
  <2>3. ~ Holds(a, t)
    BY <1>1, <2>1, <2>2, HolderAssumption DEF HolderIs
  <2>. QED
    BY <1>1, <1>3, <2>1, <2>2, <2>3, HoldsField, HolderAssumption DEF HolderIs
<1>8. \A b \in Block : /\ Holder(b) = a <=> chars[a] = b
                       /\ HolderIs(b) /\ b # a
                       /\ \A c \in Number : (Holds(c, b))' <=> IF c = a THEN b = t ELSE Holds(c, b)
                       /\ (InString(b))' <=> InString(b)
                       /\ (InPool(b))' <=> InPools(pool', b)
                       /\ InPool(b) <=> InPools(pool, b)
  <2>. SUFFICES ASSUME NEW b \in Block
                PROVE  /\ Holder(b) = a <=> chars[a] = b
                       /\ HolderIs(b) /\ b # a
                       /\ \A c \in Number : (Holds(c, b))' <=> IF c = a THEN b = t ELSE Holds(c, b)
                       /\ (InString(b))' <=> InString(b)
                       /\ (InPool(b))' <=> InPools(pool', b)
                       /\ InPool(b) <=> InPools(pool, b)
    OBVIOUS
  <2>1. HolderIs(b) /\ b # a
    BY <1>1, HolderKnown, HolderAssumption
  <2>2. Holder(b) = a <=> chars[a] = b
    BY <1>1, <2>1, HoldsField DEF HolderIs
  <2>3. \A c \in Number : (Holds(c, b))' <=> IF c = a THEN b = t ELSE Holds(c, b)
    BY <1>1, <1>6, HoldsField, HoldsFieldNext
  <2>4. (InString(b))' <=> InString(b)
    BY DEF InString, temps
  <2>5. ((InPool(b))' <=> InPools(pool', b)) /\ (InPool(b) <=> InPools(pool, b))
    BY <1>1 DEF InPool, Cached, InPools
  <2>. QED
    BY <2>1, <2>2, <2>3, <2>4, <2>5
<1>9. CASE Kept(a, p)
  <2>. SUFFICES ASSUME NEW b \in Block
                PROVE  (Holder(b))' = IF b = t THEN a
                                      ELSE IF Holder(b) = a THEN "cache" ELSE Holder(b)
    BY <1>3, <1>5, <1>7 DEF Caches, t, n
  <2>. DEFINE h == IF b = t THEN a ELSE IF Holder(b) = a THEN "cache" ELSE Holder(b)
  <2>1. h \in Number \cup Place
    BY <1>1, <1>8 DEF HolderIs, Place
  <2>2. heap'[b] = Free <=> h = "heap"
    <3>1. heap[t] # Free
      BY <1>3, SizeAssumption
    <3>. QED
      BY <1>1, <1>8, <1>9, <3>1, HolderAssumption DEF Kept, HolderIs, Place
  <2>3. \A c \in Number : (Holds(c, b))' <=> h = c
    BY <1>7, <1>8, HolderAssumption DEF HolderIs
  <2>4. (InPool(b))' <=> h = "cache"
    BY <1>1, <1>3, <1>7, <1>8, <1>9, HolderAssumption DEF Kept, HolderIs
  <2>5. (InString(b))' <=> h = "text"
    BY <1>1, <1>7, <1>8, HolderAssumption DEF HolderIs
  <2>. HIDE DEF h
  <2>6. (Holder(b))' = h
    BY <2>1, <2>2, <2>3, <2>4, <2>5, NextHolder
  <2>. QED
    BY <2>6 DEF h
<1>10. CASE Dropped(a, p)
  <2>1. chars[a] \in Block /\ Holder(chars[a]) = a /\ heap[chars[a]] = alloced[a]
    <3>1. chars[a] \in Block /\ chars[a] # NoBlock
      BY <1>10, BlockAssumption DEF Dropped
    <3>2. heap[chars[a]] = alloced[a]
      BY <1>1, <3>1 DEF Consistent
    <3>. QED
      BY <1>8, <3>1, <3>2
  <2>2. \A b \in Block : (Holder(b))' = IF b = t THEN a
                                        ELSE IF Holder(b) = a THEN "heap"
                                        ELSE IF Holder(b) = "cache" /\ heap[b] = heap[chars[a]]
                                             THEN "lost" ELSE Holder(b)
    <3>. SUFFICES ASSUME NEW b \in Block
                  PROVE  (Holder(b))' = IF b = t THEN a
                                        ELSE IF Holder(b) = a THEN "heap"
                                        ELSE IF Holder(b) = "cache" /\ heap[b] = heap[chars[a]]
                                             THEN "lost" ELSE Holder(b)
      OBVIOUS
    <3>. DEFINE h == IF b = t THEN a
                     ELSE IF Holder(b) = a THEN "heap"
                     ELSE IF Holder(b) = "cache" /\ heap[b] = heap[chars[a]]
                          THEN "lost" ELSE Holder(b)
    <3>0. heap[t] # Free
      BY <1>3, SizeAssumption
    <3>1. h \in Number \cup Place
      BY <1>1, <1>8 DEF HolderIs, Place
    <3>2. heap'[b] = Free <=> h = "heap"
      BY <1>1, <1>7, <1>8, <1>10, <2>1, <3>0, HolderAssumption DEF Dropped, HolderIs, TypeOK
    <3>3. \A c \in Number : (Holds(c, b))' <=> h = c
      BY <1>7, <1>8, HolderAssumption DEF HolderIs
    <3>4. (InPool(b))' <=> h = "cache"
      BY <1>1, <1>3, <1>7, <1>8, <1>10, <2>1, HolderAssumption DEF Dropped, HolderIs
    <3>5. (InString(b))' <=> h = "text"
      BY <1>1, <1>7, <1>8, HolderAssumption DEF HolderIs
    <3>. HIDE DEF h
    <3>6. (Holder(b))' = h
      BY <3>1, <3>2, <3>3, <3>4, <3>5, NextHolder
    <3>. QED
      BY <3>6 DEF h
  <2>3. \A b \in Block : Cached(b) /\ heap[b] = heap[chars[a]] => poolAlloc[heap[b]] # 0
    BY <1>1, CachedRoom
  <2>. QED
    BY <1>3, <1>5, <1>7, <1>10, <2>1, <2>2, <2>3 DEF Drops, Dropped, t, n
<1>. QED
  BY <1>4, <1>9, <1>10

-----------------------------------------------------------------------------
(* The other steps, which leave the pools alone.                           *)

(* A block whose owner does not change keeps its holder.                   *)
LEMMA SameHolder ==
  ASSUME IInv, IInv', NEW b \in Block, heap'[b] = heap[b],
         \A a \in Number : (Holds(a, b))' <=> Holds(a, b),
         (InPool(b))' <=> InPool(b), (InString(b))' <=> InString(b)
  PROVE  (Holder(b))' = Holder(b)
<1>1. HolderIs(b)
  BY HolderKnown
<1>. QED
  BY <1>1, NextHolder DEF HolderIs

(* realloc gives a number a block of the heap, or its own with another size. *)
LEMMA ReallocateMoves ==
  ASSUME IInv, IInv', status = "run", Active' = Active, UNCHANGED <<setUp, temps>>,
         NEW a \in Active, NEW i \in Class, Reallocate(a, i)
  PROVE  \E new \in Block :
           /\ Holder(new) \in {"heap", a}
           /\ \A b \in Block :
                /\ (Holder(b))' = IF b = new THEN a
                                  ELSE IF Holder(b) = a THEN "heap" ELSE Holder(b)
                /\ heap'[b] = IF b = new THEN i
                              ELSE IF Holder(b) = a THEN Free ELSE heap[b]
<1>1. TypeOK /\ setUp /\ a \in Number /\ Active \in SUBSET Number
  BY WhileUp DEF IInv
<1>2. PICK new \in Block :
        /\ heap[new] = Free \/ new = chars[a]
        /\ heap' = [c \in Block |-> IF c = new THEN i
                                    ELSE IF c = chars[a] THEN Free
                                    ELSE heap[c]]
        /\ chars' = [chars EXCEPT ![a] = new]
  BY DEF Reallocate
<1>3. chars'[a] = new /\ \A c \in Number : c # a => chars'[c] = chars[c]
  BY <1>1, <1>2 DEF TypeOK
<1>4. \A b \in Block : HolderIs(b) /\ (Holder(b) = a <=> chars[a] = b)
  BY <1>1, HolderKnown, HoldsField DEF HolderIs
<1>5. Holder(new) \in {"heap", a}
  BY <1>2, <1>4 DEF HolderIs
<1>6. ASSUME NEW b \in Block
      PROVE  /\ (Holder(b))' = IF b = new THEN a
                               ELSE IF Holder(b) = a THEN "heap" ELSE Holder(b)
             /\ heap'[b] = IF b = new THEN i
                           ELSE IF Holder(b) = a THEN Free ELSE heap[b]
  <2>. DEFINE h == IF b = new THEN a ELSE IF Holder(b) = a THEN "heap" ELSE Holder(b)
  <2>1. heap'[b] = IF b = new THEN i ELSE IF Holder(b) = a THEN Free ELSE heap[b]
    BY <1>2, <1>4
  <2>2. \A c \in Number : (Holds(c, b))' <=> IF c = a THEN b = new ELSE Holds(c, b)
    BY <1>1, <1>3, HoldsField, HoldsFieldNext
  <2>3. ((InPool(b))' <=> InPool(b)) /\ ((InString(b))' <=> InString(b))
    BY DEF Reallocate, InPool, Cached, InString, temps
  <2>4. HolderIs(b) /\ HolderIs(new)
    BY <1>4
  <2>5. h \in Number \cup Place
    BY <1>1, <2>4 DEF HolderIs, Place
  <2>6. heap'[b] = Free <=> h = "heap"
    BY <1>1, <2>1, <2>4, SizeAssumption, HolderAssumption DEF HolderIs
  <2>7. \A c \in Number : (Holds(c, b))' <=> h = c
    BY <1>5, <2>2, <2>4, HolderAssumption DEF HolderIs
  <2>8. (InPool(b))' <=> h = "cache"
    BY <1>1, <1>5, <2>3, <2>4, HolderAssumption DEF HolderIs
  <2>9. (InString(b))' <=> h = "text"
    BY <1>1, <1>5, <2>3, <2>4, HolderAssumption DEF HolderIs
  <2>. HIDE DEF h
  <2>10. (Holder(b))' = h
    BY <2>5, <2>6, <2>7, <2>8, <2>9, NextHolder
  <2>. QED
    BY <2>1, <2>10 DEF h
<1>. QED
  BY <1>5, <1>6

(* When realloc fails the block of the number is lost.                     *)
LEMMA ReallocFailsMoves ==
  ASSUME IInv, IInv', status = "run", Active' = Active, UNCHANGED <<setUp, temps>>,
         NEW a \in Active, NEW i \in Class, ReallocFails(a, i)
  PROVE  /\ heap' = heap
         /\ \A b \in Block : (Holder(b))' = IF Holder(b) = a THEN "lost" ELSE Holder(b)
<1>1. TypeOK /\ setUp /\ a \in Number /\ Active \in SUBSET Number
  BY WhileUp DEF IInv
<1>2. chars' = [chars EXCEPT ![a] = NoBlock] /\ UNCHANGED caches
  BY DEF ReallocFails
<1>3. chars'[a] = NoBlock /\ \A c \in Number : c # a => chars'[c] = chars[c]
  BY <1>1, <1>2 DEF TypeOK
<1>4. ASSUME NEW b \in Block
      PROVE  (Holder(b))' = IF Holder(b) = a THEN "lost" ELSE Holder(b)
  <2>. DEFINE h == IF Holder(b) = a THEN "lost" ELSE Holder(b)
  <2>1. HolderIs(b)
    BY HolderKnown
  <2>2. \A c \in Number : (Holds(c, b))' <=> c # a /\ Holds(c, b)
    BY <1>1, <1>3, HoldsField, HoldsFieldNext, BlockAssumption
  <2>3. heap' = heap /\ ((InPool(b))' <=> InPool(b)) /\ ((InString(b))' <=> InString(b))
    BY <1>2 DEF caches, InPool, Cached, InString, temps
  <2>4. h \in Number \cup Place
    BY <2>1 DEF HolderIs, Place
  <2>5. heap'[b] = Free <=> h = "heap"
    BY <1>1, <2>1, <2>3, HolderAssumption DEF HolderIs
  <2>6. \A c \in Number : (Holds(c, b))' <=> h = c
    BY <2>1, <2>2, HolderAssumption DEF HolderIs
  <2>7. ((InPool(b))' <=> h = "cache") /\ ((InString(b))' <=> h = "text")
    BY <1>1, <2>1, <2>3, HolderAssumption DEF HolderIs
  <2>. HIDE DEF h
  <2>8. (Holder(b))' = h
    BY <2>4, <2>5, <2>6, <2>7, NextHolder
  <2>. QED
    BY <2>8 DEF h
<1>. QED
  BY <1>2, <1>4 DEF caches

(* zswap exchanges what two numbers hold.                                  *)
LEMMA ZswapMoves ==
  ASSUME IInv, IInv', NEW a \in Number, NEW c \in Number, Zswap(a, c)
  PROVE  /\ heap' = heap
         /\ \A b \in Block : (Holder(b))' = IF Holder(b) = a THEN c
                                            ELSE IF Holder(b) = c THEN a ELSE Holder(b)
<1>1. TypeOK /\ a \in Active /\ c \in Active /\ Active \in SUBSET Number /\ Active' = Active
  BY SameActive DEF IInv, Zswap, Active, temps
<1>2. /\ chars' = [chars EXCEPT ![a] = chars[c], ![c] = chars[a]]
      /\ UNCHANGED <<caches, temps, setUp>>
  BY DEF Zswap
<1>3. /\ chars'[a] = chars[c] /\ chars'[c] = chars[a]
      /\ \A d \in Number : d # a /\ d # c => chars'[d] = chars[d]
  BY <1>1, <1>2 DEF TypeOK
<1>4. ASSUME NEW b \in Block
      PROVE  (Holder(b))' = IF Holder(b) = a THEN c
                            ELSE IF Holder(b) = c THEN a ELSE Holder(b)
  <2>. DEFINE h == IF Holder(b) = a THEN c ELSE IF Holder(b) = c THEN a ELSE Holder(b)
  <2>1. HolderIs(b)
    BY HolderKnown
  <2>2. \A d \in Number : (Holds(d, b))' <=>
          IF d = a THEN Holds(c, b) ELSE IF d = c THEN Holds(a, b) ELSE Holds(d, b)
    BY <1>1, <1>3, HoldsField, HoldsFieldNext
  <2>3. heap' = heap /\ ((InPool(b))' <=> InPool(b)) /\ ((InString(b))' <=> InString(b))
    BY <1>2 DEF caches, InPool, Cached, InString, temps
  <2>4. h \in Number \cup Place
    BY <2>1 DEF HolderIs, Place
  <2>5. heap'[b] = Free <=> h = "heap"
    BY <2>1, <2>3, HolderAssumption DEF HolderIs
  <2>6. \A d \in Number : (Holds(d, b))' <=> h = d
    BY <2>1, <2>2, HolderAssumption DEF HolderIs
  <2>7. ((InPool(b))' <=> h = "cache") /\ ((InString(b))' <=> h = "text")
    BY <2>1, <2>3, HolderAssumption DEF HolderIs
  <2>. HIDE DEF h
  <2>8. (Holder(b))' = h
    BY <2>4, <2>5, <2>6, <2>7, NextHolder
  <2>. QED
    BY <2>8 DEF h
<1>. QED
  BY <1>2, <1>4 DEF caches

(* A number that begins its life has no block, and had none that counted.  *)
LEMMA ZinitMoves ==
  ASSUME IInv, IInv',
         \/ \E a \in User : Zinit(a)
         \/ \E a \in Local : ZinitTemp(a)
  PROVE  heap' = heap /\ \A b \in Block : (Holder(b))' = Holder(b)
<1>1. TypeOK /\ TypeOK'
  BY DEF IInv
<1>2. PICK a \in User \cup Local :
        /\ a \notin Active
        /\ chars' = [chars EXCEPT ![a] = NoBlock]
        /\ \A c \in Number : c # a => ((Initialised(c))' <=> Initialised(c))
  <2>1. ASSUME NEW a \in User, Zinit(a)
        PROVE  /\ a \notin Active
               /\ chars' = [chars EXCEPT ![a] = NoBlock]
               /\ \A c \in Number : c # a => ((Initialised(c))' <=> Initialised(c))
    <3>1. /\ live' = live \cup {a} /\ a \notin live /\ UNCHANGED <<temps, setUp>>
          /\ chars' = [chars EXCEPT ![a] = NoBlock] /\ a \in Number
      BY <2>1 DEF Zinit, Number
    <3>. QED
      BY <1>1, <3>1, Kinds DEF Initialised, OnStack, temps
  <2>2. ASSUME NEW a \in Local, ZinitTemp(a)
        PROVE  /\ a \notin Active
               /\ chars' = [chars EXCEPT ![a] = NoBlock]
               /\ \A c \in Number : c # a => ((Initialised(c))' <=> Initialised(c))
    <3>1. /\ ~ OnStack(a) /\ UNCHANGED <<live, setUp>>
          /\ chars' = [chars EXCEPT ![a] = NoBlock] /\ a \in Number
          /\ tempStack' = Append(tempStack, a) \/ tempStack' = tempStack
      BY <2>2 DEF ZinitTemp, Number
    <3>2. \A c : c # a => ((OnStack(c))' <=> OnStack(c))
      <4>1. CASE tempStack' = tempStack
        BY <4>1 DEF OnStack
      <4>2. CASE tempStack' = Append(tempStack, a)
        <5>1. /\ Len(tempStack') = Len(tempStack) + 1 /\ Len(tempStack) \in Nat
              /\ tempStack'[Len(tempStack) + 1] = a
              /\ \A k \in 1 .. Len(tempStack) : tempStack'[k] = tempStack[k]
          BY <1>1, <4>2 DEF TypeOK
        <5>2. \A k : k \in 1 .. Len(tempStack') <=> k \in 1 .. Len(tempStack) \/ k = Len(tempStack) + 1
          BY <5>1
        <5>. QED
          BY <5>1, <5>2 DEF OnStack
      <4>. QED
        BY <3>1, <4>1, <4>2
    <3>. QED
      BY <1>1, <3>1, <3>2, Kinds DEF Initialised
  <2>. QED
    BY <2>1, <2>2
<1>3. /\ UNCHANGED <<heap, pool, setUp, tempAlloc, strings>>
  BY DEF Zinit, ZinitTemp, caches, temps
<1>4. chars'[a] = NoBlock /\ \A c \in Number : c # a => chars'[c] = chars[c]
  BY <1>1, <1>2 DEF TypeOK, Number
<1>5. \A c \in Number, b \in Block : (Holds(c, b))' <=> Holds(c, b)
  BY <1>2, <1>4 DEF Holds, Active
<1>6. \A b \in Block : /\ (InPool(b))' <=> InPool(b)
                       /\ (InString(b))' <=> InString(b)
  BY <1>3 DEF InPool, Cached, InString
<1>. QED
  BY <1>3, <1>5, <1>6, SameHolder

(* A buffer of zstr comes from the heap and goes back to it.               *)
LEMMA StringMoves ==
  ASSUME IInv, IInv',
         ZstrAllocate \/ ZstrReturn \/ (\E b \in Block : FreeString(b)) \/ Longjmp
  PROVE  \/ heap' = heap /\ \A b \in Block : (Holder(b))' = Holder(b)
         \/ \E new \in Block :
              /\ Holder(new) = "heap"
              /\ \A b \in Block :
                   /\ (Holder(b))' = IF b = new THEN "text" ELSE Holder(b)
                   /\ heap'[b] = IF b = new THEN Raw ELSE heap[b]
         \/ \E old \in Block :
              /\ Holder(old) = "text"
              /\ \A b \in Block :
                   /\ (Holder(b))' = IF b = old THEN "heap" ELSE Holder(b)
                   /\ heap'[b] = IF b = old THEN Free ELSE heap[b]
<1>. USE SizeAssumption, BlockAssumption
<1>1. /\ TypeOK /\ UNCHANGED <<numbers, pool, tempStack, setUp>>
      /\ tempAlloc \in Block => heap[tempAlloc] = Raw /\ tempAlloc \notin strings
      /\ \A b \in strings : heap[b] = Raw
  BY DEF IInv, Strings, ZstrAllocate, ZstrReturn, FreeString, Longjmp, caches
<1>2. \A b \in Block : /\ HolderIs(b)
                       /\ \A a \in Number : (Holds(a, b))' <=> Holds(a, b)
                       /\ (InPool(b))' <=> InPool(b)
  BY <1>1, HolderKnown
     DEF Holds, Initialised, OnStack, InPool, Cached, numbers
<1>3. ASSUME heap' = heap, \A b \in Block : (InString(b))' <=> InString(b)
      PROVE  \A b \in Block : (Holder(b))' = Holder(b)
  BY <1>2, <1>3, SameHolder
<1>4. ASSUME NEW old \in Block, InString(old),
             \A b \in Block : (InString(b))' <=> InString(b) /\ b # old,
             \A b \in Block : heap'[b] = IF b = old THEN Free ELSE heap[b]
      PROVE  /\ Holder(old) = "text"
             /\ \A b \in Block : (Holder(b))' = IF b = old THEN "heap" ELSE Holder(b)
  <2>1. Holder(old) = "text"
    BY <1>2, <1>4 DEF HolderIs
  <2>2. ASSUME NEW b \in Block, b # old PROVE (Holder(b))' = Holder(b)
    <3>1. heap'[b] = heap[b] /\ ((InString(b))' <=> InString(b))
      BY <1>4, <2>2
    <3>. QED
      BY <1>2, <3>1, SameHolder
  <2>3. (Holder(old))' = "heap"
    <3>1. heap'[old] = Free
      BY <1>4
    <3>. QED
      BY <3>1, HolderKnownNext DEF HolderIs
  <2>. QED
    BY <2>1, <2>2, <2>3
<1>5. CASE ZstrAllocate
  <2>1. tempAlloc = NoBlock /\ UNCHANGED strings
    BY <1>5 DEF ZstrAllocate, AtTop
  <2>2. CASE UNCHANGED <<heap, tempAlloc>>
    BY <1>3, <2>1, <2>2 DEF InString
  <2>3. ASSUME NEW new \in Block, heap[new] = Free,
               heap' = [heap EXCEPT ![new] = Raw], tempAlloc' = new
        PROVE  /\ Holder(new) = "heap"
               /\ \A b \in Block :
                   /\ (Holder(b))' = IF b = new THEN "text" ELSE Holder(b)
                   /\ heap'[b] = IF b = new THEN Raw ELSE heap[b]
    <3>1. \A b \in Block : heap'[b] = IF b = new THEN Raw ELSE heap[b]
      BY <1>1, <2>3 DEF TypeOK
    <3>2. Holder(new) = "heap"
      BY <1>2, <2>3 DEF HolderIs
    <3>3. ASSUME NEW b \in Block, b # new PROVE (Holder(b))' = Holder(b)
      <4>1. heap'[b] = heap[b] /\ ((InString(b))' <=> InString(b))
        BY <2>1, <2>3, <3>1, <3>3 DEF InString
      <4>. QED
        BY <1>2, <4>1, SameHolder
    <3>4. (Holder(new))' = "text"
      <4>1. (InString(new))'
        BY <2>3 DEF InString
      <4>. QED
        BY <4>1, HolderKnownNext DEF HolderIs
    <3>. QED
      BY <3>1, <3>2, <3>3, <3>4
  <2>. QED
    BY <1>5, <2>2, <2>3 DEF ZstrAllocate
<1>6. CASE ZstrReturn
  <2>1. /\ heap' = heap /\ strings' = strings \cup {tempAlloc} /\ tempAlloc' = NoBlock
        /\ tempAlloc # NoBlock
    BY <1>6 DEF ZstrReturn, caches
  <2>2. \A b \in Block : (InString(b))' <=> InString(b)
    BY <2>1 DEF InString
  <2>. QED
    BY <1>3, <2>1, <2>2
<1>7. ASSUME NEW old \in Block, FreeString(old)
      PROVE  /\ Holder(old) = "text"
             /\ \A b \in Block :
                  /\ (Holder(b))' = IF b = old THEN "heap" ELSE Holder(b)
                  /\ heap'[b] = IF b = old THEN Free ELSE heap[b]
  <2>1. /\ old \in strings /\ strings' = strings \ {old} /\ heap' = [heap EXCEPT ![old] = Free]
        /\ tempAlloc' = tempAlloc /\ tempAlloc = NoBlock
    BY <1>7 DEF FreeString, AtTop
  <2>2. \A b \in Block : heap'[b] = IF b = old THEN Free ELSE heap[b]
    BY <1>1, <2>1 DEF TypeOK
  <2>3. InString(old) /\ \A b \in Block : (InString(b))' <=> InString(b) /\ b # old
    BY <2>1 DEF InString
  <2>. QED
    BY <1>4, <2>2, <2>3
<1>8. CASE Longjmp
  <2>1. /\ heap' = [b \in Block |-> IF b = tempAlloc THEN Free ELSE heap[b]]
        /\ tempAlloc' = NoBlock /\ strings' = strings
    BY <1>8 DEF Longjmp
  <2>2. CASE tempAlloc = NoBlock
    <3>1. heap' = heap
      BY <1>1, <2>1, <2>2 DEF TypeOK
    <3>. QED
      BY <1>3, <2>1, <2>2, <3>1 DEF InString
  <2>3. CASE tempAlloc # NoBlock
    <3>1. tempAlloc \in Block
      BY <1>1, <2>3 DEF TypeOK
    <3>2. \A b \in Block : heap'[b] = IF b = tempAlloc THEN Free ELSE heap[b]
      BY <2>1
    <3>3. InString(tempAlloc) /\ \A b \in Block : (InString(b))' <=> InString(b) /\ b # tempAlloc
      BY <1>1, <2>1, <3>1 DEF InString
    <3>. QED
      BY <1>4, <3>1, <3>2, <3>3
  <2>. QED
    BY <2>2, <2>3
<1>. QED
  BY <1>5, <1>6, <1>7, <1>8

(* The stack is empty whenever the library does not run.                   *)
Quiet == status \in {"down", "jumped", "dead"} => tempStack = <<>>

(* zsetup finds nothing of what the library held before.                   *)
LEMMA ZsetupMoves ==
  ASSUME IInv, IInv', Quiet, Zsetup
  PROVE  heap' = heap /\ \A b \in Block : (Holder(b))' = Holder(b)
<1>1. /\ ~ setUp /\ setUp' /\ tempStack = <<>> /\ tempStack' = <<>>
      /\ UNCHANGED <<heap, live, tempAlloc, strings>>
      /\ pool' = [i \in Class |-> <<>>]
      /\ chars' = [a \in Number |-> IF a \in Dedicated THEN NoBlock ELSE chars[a]]
  BY DEF Zsetup, Quiet
<1>2. \A a : ~ OnStack(a) /\ ~ (OnStack(a))'
  BY <1>1 DEF OnStack
<1>3. live \subseteq User
  BY DEF IInv, TypeOK
<1>4. \A a \in Number, b \in Block : (Holds(a, b))' <=> Holds(a, b)
  BY <1>1, <1>2, <1>3, NumberAssumption, BlockAssumption DEF Holds, Initialised
<1>5. \A b \in Block : ~ InPool(b) /\ ~ (InPool(b))'
  BY <1>1 DEF InPool, Cached
<1>6. \A b \in Block : (InString(b))' <=> InString(b)
  BY <1>1 DEF InString
<1>. QED
  BY <1>1, <1>4, <1>5, <1>6, SameHolder

(* zunsetup gives the heap what is cached and what the library's own       *)
(* numbers hold.                                                           *)
LEMMA ZunsetupMoves ==
  ASSUME IInv, IInv', Zunsetup
  PROVE  \A b \in Block :
           /\ (Holder(b))' = IF Holder(b) = "cache" \/ Holder(b) \in Dedicated
                             THEN "heap" ELSE Holder(b)
           /\ heap'[b] = heap[b] \/ heap'[b] = Free
<1>1. /\ TypeOK /\ setUp /\ ~ setUp'
      /\ heap' = [b \in Block |-> IF Cached(b) \/ HeldByDedicated(b)
                                  THEN Free ELSE heap[b]]
      /\ UNCHANGED <<numbers, pool, poolAlloc, temps>>
  BY DEF IInv, Zunsetup
<1>. SUFFICES ASSUME NEW b \in Block
              PROVE  /\ (Holder(b))' = IF Holder(b) = "cache" \/ Holder(b) \in Dedicated
                                       THEN "heap" ELSE Holder(b)
                     /\ heap'[b] = heap[b] \/ heap'[b] = Free
  OBVIOUS
<1>2. HolderIs(b)
  BY HolderKnown
<1>3. Cached(b) <=> Holder(b) = "cache"
  BY <1>1, <1>2 DEF HolderIs, InPool
<1>4. HeldByDedicated(b) <=> Holder(b) \in Dedicated
  <2>1. \A a \in Dedicated : a \in Number /\ (a \in Active)
    BY <1>1 DEF Number, Active, Initialised
  <2>2. \A a \in Dedicated : Holder(b) = a <=> chars[a] = b
    BY <1>2, <2>1, HoldsField DEF HolderIs
  <2>. QED
    BY <2>2 DEF HeldByDedicated
<1>5. CASE Holder(b) = "cache" \/ Holder(b) \in Dedicated
  <2>1. heap'[b] = Free
    BY <1>1, <1>3, <1>4, <1>5
  <2>. QED
    BY <1>5, <2>1, HolderKnownNext DEF HolderIs
<1>6. CASE ~ (Holder(b) = "cache" \/ Holder(b) \in Dedicated)
  <2>1. heap'[b] = heap[b]
    BY <1>1, <1>3, <1>4, <1>6
  <2>2. \A a \in Number : (Holds(a, b))' <=> Holds(a, b)
    <3>1. \A a \in Number \ Dedicated : (Initialised(a))' <=> Initialised(a)
      BY <1>1 DEF Initialised, OnStack, numbers, temps
    <3>2. \A a \in Dedicated : ~ Holds(a, b) /\ ~ (Holds(a, b))'
      BY <1>1, <1>4, <1>6 DEF Holds, HeldByDedicated, numbers
    <3>. QED
      BY <1>1, <3>1, <3>2 DEF Holds, numbers
  <2>3. ~ InPool(b) /\ ~ (InPool(b))'
    BY <1>1, <1>3, <1>6 DEF InPool
  <2>4. (InString(b))' <=> InString(b)
    BY <1>1 DEF InString, temps
  <2>. QED
    BY <1>6, <2>1, <2>2, <2>3, <2>4, SameHolder
<1>. QED
  BY <1>5, <1>6

-----------------------------------------------------------------------------
(* The steps of BlockLifecycle.                                            *)

(* A block that changes neither hands nor size, or goes back to the heap,   *)
(* has the size that the specification demands.                            *)
LEMMA SizesKept ==
  ASSUME IInv', KeepsSizes
  PROVE  heap' = [b \in Block |-> IF (Holder(b))' = "heap" THEN Free ELSE heap[b]]
<1>1. heap' \in [Block -> Class \cup {Free, Raw}]
  BY DEF IInv, TypeOK
<1>2. \A b \in Block : heap'[b] = IF (Holder(b))' = "heap" THEN Free ELSE heap[b]
  BY HolderKnownNext DEF HolderIs, KeepsSizes
<1>. QED
  BY <1>1, <1>2

(* What zfree does with the block of a is what Retire allows.              *)
LEMMA Retires ==
  ASSUME IInv, NEW a \in Number, NEW t, t \in Block => Holder(t) = "cache",
         Caches(a, t) \/ Drops(a, t)
  PROVE  Lifecycle!Retire(Lifecycle!Has(a), a, t)
<1>1. a \notin Place
  BY HolderAssumption DEF Place
<1>2. CASE Caches(a, t)
  <2>1. [b \in Block |-> Holder(b)]'
          = [b \in Block |-> IF b = t THEN a
                             ELSE IF Holder(b) = a THEN "cache" ELSE Holder(b)]
    BY <1>2 DEF Caches
  <2>. QED
    BY <2>1 DEF Lifecycle!Retire, Lifecycle!Move, Lifecycle!Has
<1>3. CASE Drops(a, t)
  <2>. DEFINE old == { b \in Block : Holder(b) = a }
  <2>1. old = { chars[a] }
    <3>1. ASSUME NEW b \in Block, Holder(b) = a PROVE b = chars[a]
      BY <3>1, HolderKnown DEF HolderIs, Holds
    <3>. QED
      BY <1>3, <3>1 DEF Drops
  <2>2. \A b \in Block : (\E o \in old : heap[o] = heap[b]) <=> heap[b] = heap[chars[a]]
    BY <2>1
  <2>3. ASSUME NEW b \in Block
        PROVE  (Holder(b))' = CASE b = t -> a
                                [] b \in old -> "heap"
                                [] b \in { c \in Block : Holder(c) = "cache" } /\ b # t
                                   /\ (\E o \in old : heap[o] = heap[b]) -> "lost"
                                [] OTHER -> Holder(b)
    <3>1. (Holder(b))' = IF b = t THEN a
                         ELSE IF Holder(b) = a THEN "heap"
                         ELSE IF Holder(b) = "cache" /\ heap[b] = heap[chars[a]]
                              THEN "lost" ELSE Holder(b)
      BY <1>3 DEF Drops
    <3>2. "cache" # a
      BY <1>1 DEF Place
    <3>3. b \in old <=> Holder(b) = a
      OBVIOUS
    <3>. HIDE DEF old
    <3>. QED
      BY <2>2, <3>1, <3>2, <3>3
  <2>4. [b \in Block |-> Holder(b)]'
          = [b \in Block |-> CASE b = t -> a
                               [] b \in old -> "heap"
                               [] b \in { c \in Block : Holder(c) = "cache" } /\ b # t
                                  /\ (\E o \in old : heap[o] = heap[b]) -> "lost"
                               [] OTHER -> Holder(b)]
    BY <2>3
  <2>5. \A b \in Block : [c \in Block |-> Holder(c)][b] = Holder(b)
    OBVIOUS
  <2>. QED
    BY <2>4 DEF Lifecycle!Retire, Lifecycle!Move, Lifecycle!Has, Lifecycle!Cached
<1>. QED
  BY <1>2, <1>3

(* Each of the lemmas above is a step, or a stutter, of the specification. *)
LEMMA StutterStep ==
  ASSUME heap' = heap, \A b \in Block : (Holder(b))' = Holder(b)
  PROVE  UNCHANGED Lifecycle!vars
<1>1. [b \in Block |-> Holder(b)]' = [b \in Block |-> Holder(b)]
  OBVIOUS
<1>. QED
  BY <1>1 DEF Lifecycle!vars

(* A block that goes to the cache, or is dropped with its size, is         *)
(* released.                                                               *)
LEMMA ReleaseStep ==
  ASSUME IInv, IInv', NEW a \in Number, Caches(a, a) \/ Drops(a, a), KeepsSizes
  PROVE  Lifecycle!Release(a)
<1>1. Lifecycle!Retire(Lifecycle!Has(a), a, a)
  BY HolderAssumption, Retires
<1>2. heap' = [b \in Block |-> IF (Holder(b))' = "heap" THEN Free ELSE heap[b]]
  BY SizesKept
<1>. QED
  BY <1>1, <1>2 DEF Lifecycle!Release, Lifecycle!Sizes, Lifecycle!Keep

(* Taking a larger block from the cache and giving up the smaller is       *)
(* recycling.                                                              *)
LEMMA RecycleStep ==
  ASSUME IInv, IInv', NEW a \in Number, NEW t \in Block, Holder(t) = "cache",
         Caches(a, t) \/ Drops(a, t), KeepsSizes,
         \A b \in Block : Holder(b) = a => heap[b] < heap[t]
  PROVE  Lifecycle!Recycle(a)
<1>1. Lifecycle!Retire(Lifecycle!Has(a), a, t)
  BY Retires
<1>2. heap' = [b \in Block |-> IF (Holder(b))' = "heap" THEN Free ELSE heap[b]]
  BY SizesKept
<1>3. t \in Lifecycle!Cached /\ \A b \in Lifecycle!Has(a) : heap[b] < heap[t]
  BY DEF Lifecycle!Cached, Lifecycle!Has
<1>. QED
  BY <1>1, <1>2, <1>3 DEF Lifecycle!Recycle, Lifecycle!Sizes, Lifecycle!Keep

(* A new block from the heap in place of what the number had is an         *)
(* allocation.                                                             *)
LEMMA AllocateStep ==
  ASSUME IInv, IInv', NEW a \in Number, NEW i \in Class, NEW new \in Block,
         Holder(new) \in {"heap", a},
         \A b \in Block :
           /\ (Holder(b))' = IF b = new THEN a
                             ELSE IF Holder(b) = a THEN "heap" ELSE Holder(b)
           /\ heap'[b] = IF b = new THEN i
                         ELSE IF Holder(b) = a THEN Free ELSE heap[b]
  PROVE  Lifecycle!Allocate(a)
<1>1. [b \in Block |-> Holder(b)]'
        = [b \in Block |-> IF b = new THEN a
                           ELSE IF b \in Lifecycle!Has(a) THEN "heap" ELSE Holder(b)]
  BY DEF Lifecycle!Has
<1>2. heap' = [b \in Block |-> IF (Holder(b))' = "heap" THEN Free
                               ELSE IF b = new THEN i ELSE heap[b]]
  <2>1. heap' \in [Block -> Class \cup {Free, Raw}]
    BY DEF IInv, TypeOK
  <2>2. ASSUME NEW b \in Block
        PROVE  heap'[b] = IF (Holder(b))' = "heap" THEN Free
                          ELSE IF b = new THEN i ELSE heap[b]
    BY HolderKnown, HolderAssumption DEF HolderIs
  <2>. QED
    BY <2>1, <2>2
<1>3. new \in Lifecycle!Has("heap") \cup Lifecycle!Has(a)
  BY DEF Lifecycle!Has
<1>. QED
  BY <1>1, <1>2, <1>3 DEF Lifecycle!Allocate, Lifecycle!Move, Lifecycle!Sizes

(* A pointer that a failed realloc overwrites loses its block.             *)
LEMMA LoseStep ==
  ASSUME IInv', NEW a \in Number, heap' = heap,
         \A b \in Block : (Holder(b))' = IF Holder(b) = a THEN "lost" ELSE Holder(b)
  PROVE  Lifecycle!Lose(a)
<1>1. [b \in Block |-> Holder(b)]'
        = [b \in Block |-> IF b \in Lifecycle!Has(a) THEN "lost" ELSE Holder(b)]
  BY DEF Lifecycle!Has
<1>2. heap' = [b \in Block |-> IF (Holder(b))' = "heap" THEN Free ELSE heap[b]]
  BY SizesKept DEF KeepsSizes
<1>. QED
  BY <1>1, <1>2 DEF Lifecycle!Lose, Lifecycle!Move, Lifecycle!Sizes, Lifecycle!Keep

(* zswap exchanges holders and nothing else.                               *)
LEMMA ExchangeStep ==
  ASSUME IInv', NEW a \in Number, NEW c \in Number, heap' = heap,
         \A b \in Block : (Holder(b))' = IF Holder(b) = a THEN c
                                         ELSE IF Holder(b) = c THEN a ELSE Holder(b)
  PROVE  Lifecycle!Exchange(a, c)
<1>1. ASSUME NEW b \in Block
      PROVE  (Holder(b))' = CASE Holder(b) = a -> c [] Holder(b) = c -> a [] OTHER -> Holder(b)
  <2>1. (Holder(b))' = IF Holder(b) = a THEN c
                       ELSE IF Holder(b) = c THEN a ELSE Holder(b)
    OBVIOUS
  <2>2. CASE a = c
    BY <2>1, <2>2
  <2>3. CASE a # c
    BY <2>1, <2>3
  <2>. QED
    BY <2>2, <2>3
<1>2. [b \in Block |-> Holder(b)]'
        = [b \in Block |-> CASE Holder(b) = a -> c [] Holder(b) = c -> a [] OTHER -> Holder(b)]
  BY <1>1
<1>3. heap' = [b \in Block |-> IF (Holder(b))' = "heap" THEN Free ELSE heap[b]]
  BY SizesKept DEF KeepsSizes
<1>. QED
  BY <1>2, <1>3 DEF Lifecycle!Exchange, Lifecycle!Move, Lifecycle!Sizes, Lifecycle!Keep

(* zstr takes a block from the heap for its text.                          *)
LEMMA AllocateTextStep ==
  ASSUME IInv, IInv', NEW new \in Block, Holder(new) = "heap",
         \A b \in Block : /\ (Holder(b))' = IF b = new THEN "text" ELSE Holder(b)
                          /\ heap'[b] = IF b = new THEN Raw ELSE heap[b]
  PROVE  Lifecycle!AllocateText
<1>1. [b \in Block |-> Holder(b)]'
        = [b \in Block |-> IF b = new THEN "text" ELSE Holder(b)]
  OBVIOUS
<1>2. heap' = [b \in Block |-> IF (Holder(b))' = "heap" THEN Free
                               ELSE IF b = new THEN Raw ELSE heap[b]]
  <2>1. heap' \in [Block -> Class \cup {Free, Raw}]
    BY DEF IInv, TypeOK
  <2>2. ASSUME NEW b \in Block
        PROVE  heap'[b] = IF (Holder(b))' = "heap" THEN Free
                          ELSE IF b = new THEN Raw ELSE heap[b]
    BY HolderKnown DEF HolderIs
  <2>. QED
    BY <2>1, <2>2
<1>3. new \in Lifecycle!Has("heap")
  BY DEF Lifecycle!Has
<1>. QED
  BY <1>1, <1>2, <1>3 DEF Lifecycle!AllocateText, Lifecycle!Move, Lifecycle!Sizes

(* free gives a text back to the heap.                                     *)
LEMMA ReleaseTextStep ==
  ASSUME IInv, IInv', NEW old \in Block, Holder(old) = "text",
         \A b \in Block : /\ (Holder(b))' = IF b = old THEN "heap" ELSE Holder(b)
                          /\ heap'[b] = IF b = old THEN Free ELSE heap[b]
  PROVE  Lifecycle!ReleaseText
<1>1. [b \in Block |-> Holder(b)]'
        = [b \in Block |-> IF b = old THEN "heap" ELSE Holder(b)]
  OBVIOUS
<1>2. heap' = [b \in Block |-> IF (Holder(b))' = "heap" THEN Free ELSE heap[b]]
  BY SizesKept DEF KeepsSizes
<1>3. old \in Lifecycle!Has("text")
  BY DEF Lifecycle!Has
<1>. QED
  BY <1>1, <1>2, <1>3 DEF Lifecycle!ReleaseText, Lifecycle!Move, Lifecycle!Sizes,
     Lifecycle!Keep

(* zunsetup gives the cache and the dedicated numbers back to the heap.    *)
LEMMA ShutDownStep ==
  ASSUME IInv', KeepsSizes,
         \A b \in Block : (Holder(b))' = IF Holder(b) = "cache" \/ Holder(b) \in Dedicated
                                         THEN "heap" ELSE Holder(b)
  PROVE  Lifecycle!ShutDown
<1>1. [b \in Block |-> Holder(b)]'
        = [b \in Block |-> IF b \in Lifecycle!Cached \/ Holder(b) \in Dedicated
                           THEN "heap" ELSE Holder(b)]
  BY DEF Lifecycle!Cached, Lifecycle!Has
<1>2. heap' = [b \in Block |-> IF (Holder(b))' = "heap" THEN Free ELSE heap[b]]
  BY SizesKept
<1>. QED
  BY <1>1, <1>2 DEF Lifecycle!ShutDown, Lifecycle!Move, Lifecycle!Sizes, Lifecycle!Keep

-----------------------------------------------------------------------------
(* Every step of libzahl.                                                  *)

(* A block too small for a request is of a smaller class than it.          *)
LEMMA SmallerClass ==
  ASSUME NEW n \in Need, NEW c \in Class \cup {Free}, Capacity(c) < n
  PROVE  c < SizeClass(n)
<1>1. SizeClass(n) \in Nat /\ n \in Nat /\ n <= 2 ^ SizeClass(n)
  BY SizeClassFits, SizeAssumption DEF Capacity, Need
<1>2. CASE c = Free
  BY <1>1, <1>2
<1>3. CASE c \in Class
  <2>1. c \in Nat /\ 2 ^ c < n
    BY <1>3, SizeAssumption DEF Capacity
  <2>2. 2 ^ c \in Nat /\ 2 ^ SizeClass(n) \in Nat
    BY <1>1, <2>1, Positive
  <2>3. ~ (SizeClass(n) <= c)
    BY <1>1, <2>1, <2>2, Monotone
  <2>. QED
    BY <1>1, <2>1, <2>3
<1>. QED
  BY <1>2, <1>3

(* The action of LostByFailureOnly.                                        *)
LostByFailure ==
  \A b \in Lost' \ Lost :
    \/ \E i \in Class : poolAlloc[i] # 0 /\ poolAlloc'[i] = 0 /\ heap[b] = i
    \/ /\ status = "run" /\ status' = "unwind"
       /\ \E a \in Number : Holds(a, b) /\ chars'[a] = NoBlock

(* What BlockLifecycle and LostByFailureOnly require of a step.            *)
Allowed == [Lifecycle!Next]_(Lifecycle!vars) /\ LostByFailure

(* Lost blocks are those that nobody holds.                                *)
LEMMA LostHolder == IInv => \A b \in Block : b \in Lost <=> Holder(b) = "lost"
<1>. SUFFICES ASSUME IInv, NEW b \in Block PROVE b \in Lost <=> Holder(b) = "lost"
  OBVIOUS
<1>1. HolderIs(b)
  BY HolderKnown
<1>2. \A a \in Number : a \notin Place
  BY HolderAssumption DEF Place
<1>. QED
  BY <1>1, <1>2 DEF HolderIs, Place, Lost, Owned

(* And after a step.                                                       *)
LEMMA LostHolderNext == IInv' => (\A b \in Block : b \in Lost <=> Holder(b) = "lost")'
  BY LostHolder, PTL

(* A step after which no more blocks are lost is within what               *)
(* LostByFailureOnly allows.                                               *)
LEMMA NothingLost ==
  ASSUME IInv, IInv', \A b \in Block : (Holder(b))' = "lost" => Holder(b) = "lost"
  PROVE  LostByFailure
<1>1. \A b \in Block : b \in Lost' => b \in Lost
  BY LostHolder, LostHolderNext
<1>2. Lost' \subseteq Block
  BY DEF Lost
<1>. QED
  BY <1>1, <1>2 DEF LostByFailure

(* A step that changes no holder and no block of the heap is allowed.      *)
LEMMA SameAllowed ==
  ASSUME IInv, IInv', heap' = heap, \A b \in Block : (Holder(b))' = Holder(b)
  PROVE  Allowed
  BY StutterStep, NothingLost DEF Allowed

(* zfree loses only the cached blocks of the pool that it could not grow.  *)
LEMMA RetireLoses ==
  ASSUME IInv, IInv', NEW a \in Number, NEW t, Caches(a, t) \/ Drops(a, t)
  PROVE  LostByFailure
<1>1. a \notin Place
  BY HolderAssumption DEF Place
<1>2. CASE Caches(a, t)
  BY <1>1, <1>2, NothingLost DEF Caches, Place
<1>3. CASE Drops(a, t)
  <2>. SUFFICES ASSUME NEW b \in Block, b \in Lost', b \notin Lost
                PROVE  \E i \in Class : poolAlloc[i] # 0 /\ poolAlloc'[i] = 0 /\ heap[b] = i
    BY DEF LostByFailure, Lost
  <2>1. Holder(b) # "lost" /\ (Holder(b))' = "lost"
    BY LostHolder, LostHolderNext
  <2>2. Holder(b) = "cache" /\ heap[b] = heap[chars[a]]
    BY <1>1, <1>3, <2>1 DEF Drops, Place
  <2>3. Cached(b)
    BY <2>2, HolderKnown DEF HolderIs, InPool
  <2>4. heap[b] \in Class
    BY <2>2, <2>3, HolderKnown DEF HolderIs, InPool, IInv, Limbs, Cache, Consistent, Cached
  <2>. QED
    BY <1>3, <2>2, <2>3, <2>4 DEF Drops
<1>. QED
  BY <1>2, <1>3

(* zfree is a step that the life of blocks allows.                         *)
LEMMA ReleaseAllowed ==
  ASSUME IInv, IInv', Arrays, status \in {"run", "unwind"},
         NEW a \in Active, Zfree(a, pool), Active' = Active \ {a},
         UNCHANGED <<chars, setUp, tempAlloc, strings>>
  PROVE  Allowed
<1>1. a \in Number
  BY DEF Active
<1>2. (Caches(a, a) \/ Drops(a, a)) /\ KeepsSizes
  BY ReleaseMoves
<1>3. Lifecycle!Release(a) /\ LostByFailure
  BY <1>1, <1>2, ReleaseStep, RetireLoses
<1>. QED
  BY <1>1, <1>3 DEF Allowed, Lifecycle!Next

(* ENSURE_SIZE.                                                            *)
LEMMA EnsureSizeAllowed ==
  ASSUME IInv, IInv', Arrays, status = "run", Active' = Active, UNCHANGED <<setUp, temps>>,
         NEW a \in Active, NEW need \in Need, EnsureSize(a, need)
  PROVE  Allowed
<1>. DEFINE i == SizeClass(need)
<1>1. /\ a \in Number /\ i \in Class /\ alloced[a] \in Class \cup {Free}
      /\ \A b \in Block : Holder(b) = a => heap[b] = alloced[a]
  <2>1. a \in Number /\ i \in Class /\ alloced[a] \in Class \cup {Free}
    BY SizeClassFits DEF IInv, TypeOK, Active
  <2>2. \A b \in Block : Holder(b) = a => Holds(a, b)
    BY <2>1, HolderKnown DEF HolderIs
  <2>. QED
    BY <2>1, <2>2, IInvSound DEF SoundCapacity
<1>. HIDE DEF i
<1>2. CASE Capacity(alloced[a]) >= need /\ UNCHANGED <<caches, chars, alloced, status>>
  <2>1. \A b \in Block : (Holder(b))' = Holder(b)
    BY <1>2, SameHolder, HoldsField, HoldsFieldNext
       DEF InPool, Cached, InString, caches, temps
  <2>. QED
    BY <1>2, <2>1, SameAllowed DEF caches
<1>3. CASE Capacity(alloced[a]) < need /\ TakeCached(a, i)
  <2>. DEFINE t == pool[i][Len(pool[i])]
  <2>1. t \in Block /\ Holder(t) = "cache" /\ heap[t] = i
        /\ (Caches(a, t) \/ Drops(a, t)) /\ KeepsSizes
    BY <1>1, <1>3, TakeMoves
  <2>. HIDE DEF t
  <2>2. \A b \in Block : Holder(b) = a => heap[b] < heap[t]
    BY <1>1, <1>3, <2>1, SmallerClass DEF i
  <2>3. Lifecycle!Recycle(a) /\ LostByFailure
    BY <1>1, <2>1, <2>2, RecycleStep, RetireLoses
  <2>. QED
    BY <1>1, <2>3 DEF Allowed, Lifecycle!Next
<1>4. CASE Reallocate(a, i)
  <2>1. PICK new \in Block :
          /\ Holder(new) \in {"heap", a}
          /\ \A b \in Block :
               /\ (Holder(b))' = IF b = new THEN a
                                 ELSE IF Holder(b) = a THEN "heap" ELSE Holder(b)
               /\ heap'[b] = IF b = new THEN i
                             ELSE IF Holder(b) = a THEN Free ELSE heap[b]
    BY <1>1, <1>4, ReallocateMoves
  <2>2. Lifecycle!Allocate(a)
    BY <1>1, <2>1, AllocateStep
  <2>3. LostByFailure
    BY <1>1, <2>1, NothingLost, HolderAssumption DEF Place
  <2>. QED
    BY <1>1, <2>2, <2>3 DEF Allowed, Lifecycle!Next
<1>5. CASE ReallocFails(a, i)
  <2>1. /\ heap' = heap
        /\ \A b \in Block : (Holder(b))' = IF Holder(b) = a THEN "lost" ELSE Holder(b)
    BY <1>1, <1>5, ReallocFailsMoves
  <2>2. Lifecycle!Lose(a)
    BY <1>1, <2>1, LoseStep
  <2>3. LostByFailure
    <3>1. chars'[a] = NoBlock /\ status' = "unwind"
      BY <1>1, <1>5 DEF ReallocFails, IInv, TypeOK
    <3>2. \A b \in Block : b \in Lost' /\ b \notin Lost => Holds(a, b)
      BY <1>1, <2>1, LostHolder, LostHolderNext, HolderKnown DEF HolderIs
    <3>. QED
      BY <1>1, <3>1, <3>2 DEF LostByFailure, Lost
  <2>. QED
    BY <1>1, <2>2, <2>3 DEF Allowed, Lifecycle!Next
<1>. QED
  BY <1>2, <1>3, <1>4, <1>5 DEF EnsureSize, libzahl_realloc, i

(* Functions that store a value.                                           *)
LEMMA StoreAllowed ==
  ASSUME IInv, IInv', Arrays, Store
  PROVE  Allowed
<1>. SUFFICES ASSUME NEW a \in Number, NEW b \in Number,
                     \/ Zset(a, b) \/ Zsetu(a)
                     \/ (\E k \in 0 .. 1 : Zlsh(a, b, k)) \/ Zswap(a, b)
              PROVE  Allowed
  BY DEF Store
<1>1. CASE Zswap(a, b)
  <2>1. /\ heap' = heap
        /\ \A c \in Block : (Holder(c))' = IF Holder(c) = a THEN b
                                           ELSE IF Holder(c) = b THEN a ELSE Holder(c)
    BY <1>1, ZswapMoves
  <2>2. Lifecycle!Exchange(a, b)
    BY <2>1, ExchangeStep
  <2>3. LostByFailure
    BY <2>1, NothingLost, HolderAssumption DEF Place
  <2>. QED
    BY <2>2, <2>3 DEF Allowed, Lifecycle!Next
<1>2. CASE Zset(a, b) \/ Zsetu(a) \/ \E k \in 0 .. 1 : Zlsh(a, b, k)
  <2>1. /\ status = "run" /\ a \in Active /\ UNCHANGED <<live, temps, setUp>>
        /\ \/ UNCHANGED <<caches, chars>>
           \/ \E need \in Need : EnsureSize(a, need)
    BY <1>2 DEF Zset, Zsetu, Zlsh, Active
  <2>2. Active' = Active
    BY <2>1, SameActive DEF temps
  <2>3. CASE UNCHANGED <<caches, chars>>
    <3>1. \A c \in Block : (Holder(c))' = Holder(c)
      BY <2>1, <2>2, <2>3, SameHolder, HoldsField, HoldsFieldNext
         DEF InPool, Cached, InString, caches, temps
    <3>. QED
      BY <2>3, <3>1, SameAllowed DEF caches
  <2>4. CASE \E need \in Need : EnsureSize(a, need)
    BY <2>1, <2>2, <2>4, EnsureSizeAllowed
  <2>. QED
    BY <2>1, <2>3, <2>4
<1>. QED
  BY <1>1, <1>2

(* What becomes of strings.                                                *)
LEMMA StringAllowed ==
  ASSUME IInv, IInv',
         ZstrAllocate \/ ZstrReturn \/ (\E b \in Block : FreeString(b)) \/ Longjmp
  PROVE  Allowed
<1>1. CASE heap' = heap /\ \A b \in Block : (Holder(b))' = Holder(b)
  BY <1>1, SameAllowed
<1>2. ASSUME NEW new \in Block, Holder(new) = "heap",
             \A b \in Block : /\ (Holder(b))' = IF b = new THEN "text" ELSE Holder(b)
                              /\ heap'[b] = IF b = new THEN Raw ELSE heap[b]
      PROVE  Allowed
  <2>1. Lifecycle!AllocateText
    BY <1>2, AllocateTextStep
  <2>2. LostByFailure
    BY <1>2, NothingLost
  <2>. QED
    BY <2>1, <2>2 DEF Allowed, Lifecycle!Next
<1>3. ASSUME NEW old \in Block, Holder(old) = "text",
             \A b \in Block : /\ (Holder(b))' = IF b = old THEN "heap" ELSE Holder(b)
                              /\ heap'[b] = IF b = old THEN Free ELSE heap[b]
      PROVE  Allowed
  <2>1. Lifecycle!ReleaseText
    BY <1>3, ReleaseTextStep
  <2>2. LostByFailure
    BY <1>3, NothingLost
  <2>. QED
    BY <2>1, <2>2 DEF Allowed, Lifecycle!Next
<1>. QED
  BY <1>1, <1>2, <1>3, StringMoves

(* Every step.                                                             *)
LEMMA NextAllowed ==
  ASSUME IInv, IInv', Arrays, Quiet, [Next]_vars
  PROVE  Allowed
<1>1. CASE Store
  BY <1>1, StoreAllowed
<1>2. ASSUME NEW a \in User, Zinit(a) PROVE Allowed
  BY <1>2, ZinitMoves, SameAllowed
<1>3. ASSUME NEW a \in User, ZfreeUser(a) PROVE Allowed
  <2>1. a \in Active /\ Active' = Active \ {a}
    BY <1>3, ZfreeUserActive
  <2>. QED
    BY <1>3, <2>1, ReleaseAllowed DEF ZfreeUser, temps
<1>4. ASSUME NEW a \in Local, ZinitTemp(a) PROVE Allowed
  BY <1>4, ZinitMoves, SameAllowed
<1>5. ASSUME status \in {"run", "unwind"}, tempStack # <<>>,
             Zfree(tempStack[Len(tempStack)], pool),
             tempStack' = SubSeq(tempStack, 1, Len(tempStack) - 1),
             UNCHANGED <<numbers, tempEnd, tempAlloc, strings, setUp, status>>
      PROVE  Allowed
  <2>. DEFINE a == tempStack[Len(tempStack)]
  <2>1. a \in Active /\ Active' = Active \ {a} /\ Zfree(a, pool)
    BY <1>5, PopActive DEF numbers
  <2>. HIDE DEF a
  <2>. QED
    BY <1>5, <2>1, ReleaseAllowed DEF numbers
<1>6. ASSUME NEW a \in Local, ZfreeTemp(a) PROVE Allowed
  BY <1>5, <1>6 DEF ZfreeTemp
<1>7. CASE UnwindTemp
  BY <1>5, <1>7 DEF UnwindTemp
<1>8. CASE ZstrAllocate \/ ZstrReturn \/ (\E b \in Block : FreeString(b)) \/ Longjmp
  BY <1>8, StringAllowed
<1>9. CASE Zsetup
  BY <1>9, ZsetupMoves, SameAllowed
<1>10. CASE Zunsetup
  <2>1. \A b \in Block :
          /\ (Holder(b))' = IF Holder(b) = "cache" \/ Holder(b) \in Dedicated
                            THEN "heap" ELSE Holder(b)
          /\ heap'[b] = heap[b] \/ heap'[b] = Free
    BY <1>10, ZunsetupMoves
  <2>2. Lifecycle!ShutDown
    BY <2>1, ShutDownStep DEF KeepsSizes
  <2>3. LostByFailure
    BY <2>1, NothingLost
  <2>. QED
    BY <2>2, <2>3 DEF Allowed, Lifecycle!Next
<1>11. CASE UNCHANGED vars
  <2>1. /\ heap' = heap /\ UNCHANGED <<chars, live, tempStack, setUp>>
        /\ UNCHANGED <<pool, tempAlloc, strings>>
    BY <1>11 DEF vars, numbers, caches, temps
  <2>2. Active' = Active
    BY <2>1, SameActive
  <2>3. \A b \in Block : (Holder(b))' = Holder(b)
    BY <2>1, <2>2, SameHolder, HoldsField, HoldsFieldNext DEF InPool, Cached, InString
  <2>. QED
    BY <2>1, <2>3, SameAllowed
<1>. QED
  BY <1>1, <1>2, <1>3, <1>4, <1>6, <1>7, <1>8, <1>9, <1>10, <1>11
     DEF Next, Lifetimes, Failure

(* The jump waits for an empty stack, zunsetup for the top of the program. *)
LEMMA NextQuiet == IInv /\ Quiet /\ [Next]_vars => Quiet'
<1>. SUFFICES ASSUME IInv, Quiet, [Next]_vars PROVE Quiet'
  OBVIOUS
<1>1. CASE Store
  <2>1. status = "run" /\ status' \in {"run", "unwind"}
    BY <1>1 DEF Store, Zset, Zsetu, Zlsh, Zswap, EnsureSize, libzahl_realloc,
                TakeCached, Reallocate, ReallocFails
  <2>. QED
    BY <2>1 DEF Quiet
<1>2. CASE Lifetimes
  <2>1. status = "run" /\ status' \in {"run", "unwind"}
    BY <1>2 DEF Lifetimes, Zinit, ZfreeUser, ZinitTemp, ZfreeTemp, ZstrAllocate, ZstrReturn,
                FreeString
  <2>. QED
    BY <2>1 DEF Quiet
<1>3. CASE Failure
  BY <1>3 DEF Failure, UnwindTemp, Longjmp, Quiet
<1>4. CASE Zsetup
  BY <1>4 DEF Zsetup, Quiet
<1>5. CASE Zunsetup
  BY <1>5 DEF Zunsetup, AtTop, temps, Quiet
<1>6. CASE UNCHANGED vars
  BY <1>6 DEF vars, temps, Quiet
<1>. QED
  BY <1>1, <1>2, <1>3, <1>4, <1>5, <1>6 DEF Next

(* The states of libzahl in which the steps are taken.                     *)
LEMMA Reached == Spec => [](IInv /\ Arrays /\ Quiet)
<1>1. Init => Arrays /\ Quiet
  BY DEF Init, Arrays, Quiet
<1>. QED
  BY <1>1, InductiveInvariant, NextArrays, NextQuiet, PTL DEF Spec

-----------------------------------------------------------------------------
(* The theorems.                                                           *)

(* The caches, the stack of temporaries and the long jump together          *)
(* implement the life of a block: in no execution does a block change hands *)
(* but through the heap, the cache or zswap, whichever allocations fail.    *)
THEOREM ChangesHands == Spec => BlocksChangeHands
<1>1. Init => Lifecycle!Init
  <2>. SUFFICES ASSUME Init PROVE Lifecycle!Init
    OBVIOUS
  <2>1. \A b \in Block : Holder(b) = "heap"
    BY InitInv, HolderKnown DEF Init, HolderIs
  <2>. QED
    BY <2>1 DEF Init, Lifecycle!Init
<1>2. IInv /\ IInv' /\ Arrays /\ Quiet /\ [Next]_vars => [Lifecycle!Next]_(Lifecycle!vars)
  BY NextAllowed DEF Allowed
<1>. QED
  BY <1>1, <1>2, Reached, PTL DEF Spec, BlocksChangeHands, Lifecycle!Spec

(* In every execution a block is lost only with the pool that zfree could   *)
(* not grow, or by the realloc that failed; the long jump loses none.       *)
THEOREM OnlyFailureLoses == Spec => LostByFailureOnly
<1>1. IInv /\ IInv' /\ Arrays /\ Quiet /\ [Next]_vars => LostByFailure
  BY NextAllowed DEF Allowed
<1>2. [][LostByFailure]_vars => LostByFailureOnly
  BY PTL DEF LostByFailure, LostByFailureOnly
<1>. QED
  BY <1>1, <1>2, Reached, PTL DEF Spec
=============================================================================
