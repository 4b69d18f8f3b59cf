-------------------------------- MODULE Heap --------------------------------
(***************************************************************************)
(* Alog/lib/heap.cpp: heapSort makes a heap of the vector from its last    *)
(* inner node up to the root, and then moves the largest element behind    *)
(* the heap, again and again.  One action is one turn of either loop, or   *)
(* one call of maxHeapfiy, whose call of itself is its last step and so    *)
(* the next action.  Index i of the vector is place i + 1 of the sequence  *)
(* vec.                                                                    *)
(***************************************************************************)
EXTENDS Integers, Sequences, SequencesExt, FiniteSets

CONSTANTS Values,   \* the elements, numbers
          MaxLen    \* bound: the length of a vector

ConstantsOK == Values \subseteq Int /\ MaxLen \in Nat

VARIABLES vec,
          given,      \* the vector heapSort was called with
          i,          \* the loop variable
          heapsize,
          index,      \* the argument of maxHeapfiy while it runs, or none
          at          \* "init", "sort" or "done"

vars == <<vec, given, i, heapsize, index, at>>

none == -1
Vectors == BoundedSeq(Values, MaxLen)

TypeOK ==
    /\ {vec, given} \subseteq Vectors
    /\ i \in -1 .. MaxLen /\ heapsize \in 0 .. MaxLen
    /\ index \in -1 .. MaxLen
    /\ at \in {"init", "sort", "done"}

Init ==
    /\ vec = <<>> /\ given = <<>>
    /\ i = 0 /\ heapsize = 0 /\ index = none
    /\ at = "done"

left(k) == (2 * k) + 1
right(k) == (2 * k) + 2

At(v, k) == v[k + 1]

Swapped(v, j, k) == [v EXCEPT ![j + 1] = At(v, k), ![k + 1] = At(v, j)]

(* Mutant: the right child is compared with the node and not with the       *)
(* larger of node and left child.                                           *)
LargestOfPairs(v, k, size) ==
    LET greater(c) == c < size /\ At(v, c) > At(v, k)
    IN  CASE greater(right(k)) -> right(k)
          [] ~greater(right(k)) /\ greater(left(k)) -> left(k)
          [] OTHER -> k

Larger(v, c, than, size) == IF c < size /\ At(v, c) > At(v, than) THEN c ELSE than

Largest(v, k, size) == Larger(v, right(k), Larger(v, left(k), k, size), size)

maxHeapfiy ==
    /\ index # none
    /\ LET largest == Largest(vec, index, heapsize)
       IN  IF largest = index THEN index' = none /\ UNCHANGED vec
           ELSE vec' = Swapped(vec, index, largest) /\ index' = largest
    /\ UNCHANGED <<given, i, heapsize, at>>

(* A call with any vector. *)
heapSort(v) ==
    /\ at = "done"
    /\ vec' = v /\ given' = v
    /\ i' = (Len(v) \div 2) - 1
    /\ heapsize' = Len(v)
    /\ at' = "init"
    /\ UNCHANGED index

init ==
    /\ at = "init" /\ index = none
    /\ IF i >= 0
       THEN /\ index' = i
            /\ i' = i - 1
            /\ UNCHANGED at
       ELSE /\ i' = Len(vec)
            /\ at' = "sort"
            /\ UNCHANGED index
    /\ UNCHANGED <<vec, given, heapsize>>

sort ==
    /\ at = "sort" /\ index = none
    /\ IF i > 0
       THEN /\ vec' = Swapped(vec, 0, i - 1)
            /\ heapsize' = heapsize - 1
            /\ index' = 0
            /\ i' = i - 1
            /\ UNCHANGED at
       ELSE /\ at' = "done"
            /\ UNCHANGED <<vec, heapsize, index, i>>
    /\ UNCHANGED given

Next == (\E v \in Vectors : heapSort(v)) \/ init \/ sort \/ maxHeapfiy

Spec == Init /\ [][Next]_vars

-----------------------------------------------------------------------------
Copies(v, x) == Cardinality({k \in DOMAIN v : v[k] = x})

(* Every node from first on that is inside the heap has no larger child.    *)
HeapFrom(first) ==
    \A k \in first .. heapsize - 1 :
        \A c \in {left(k), right(k)} : c < heapsize => At(vec, c) <= At(vec, k)

(* Behind the heap stands what is sorted already, not smaller than anything *)
(* before it.                                                               *)
SortedBehind ==
    \A k \in heapsize .. Len(vec) - 1 : \A j \in 0 .. k : At(vec, j) <= At(vec, k)

(* The loops' invariants.  While the heap is built, everything behind i is  *)
(* in order, which is what maxHeapfiy needs to find below i; while it is    *)
(* taken apart, what stands behind it is sorted and not smaller than what   *)
(* is in it.  No element is lost.  At the end the vector is sorted.         *)
SortLoop ==
    /\ \A x \in Values : Copies(vec, x) = Copies(given, x)
    /\ at = "init" /\ index = none => HeapFrom(i + 1)
    /\ at = "sort" /\ index = none => HeapFrom(0)
    /\ at \in {"sort", "done"} => SortedBehind
    /\ at = "done" => heapsize = 0
=============================================================================
