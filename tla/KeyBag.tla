------------------------------- MODULE KeyBag -------------------------------
(***************************************************************************)
(* What a search tree promises its users: a bag of keys.  insert adds a    *)
(* key, remove takes one occurrence out if there is one, search tells      *)
(* whether a key is in, inorderPrint lists the keys in order, and the      *)
(* destructor leaves nothing behind.                                       *)
(***************************************************************************)
EXTENDS Naturals, Sequences, FiniteSets

CONSTANT Keys       \* a set of numbers

VARIABLES bag,      \* how often each key is in
          answer    \* what the last query returned

NoAnswer == [op |-> "none"]
EmptyBag == [k \in Keys |-> 0]

TypeOK == bag \in [Keys -> Nat]

Init == bag = EmptyBag /\ answer = NoAnswer

(* A query or a removal begins: the last answer is forgotten.               *)
Begin == UNCHANGED bag /\ answer' = NoAnswer

Insert(k) ==
    /\ bag' = [bag EXCEPT ![k] = @ + 1]
    /\ answer' = NoAnswer

Remove(k) ==
    /\ bag' = [bag EXCEPT ![k] = IF @ = 0 THEN 0 ELSE @ - 1]
    /\ answer' = NoAnswer

Search(k) ==
    /\ UNCHANGED bag
    /\ answer' = [op |-> "search", key |-> k, found |-> bag[k] > 0]

Listing ==
    /\ UNCHANGED bag
    /\ answer'.op = "print"
    /\ \A i \in 1 .. Len(answer'.keys) - 1 : answer'.keys[i] <= answer'.keys[i + 1]
    /\ \A k \in Keys : bag[k] = Cardinality({i \in DOMAIN answer'.keys :
                                                 answer'.keys[i] = k})

Destroy == bag' = EmptyBag /\ answer' = NoAnswer

Next ==
    \/ \E k \in Keys : Insert(k) \/ Remove(k) \/ Search(k)
    \/ Begin
    \/ Listing
    \/ Destroy

Spec == Init /\ [][Next]_<<bag, answer>>
=============================================================================
