----------------------------- MODULE SearchTree -----------------------------
(***************************************************************************)
(* Alog/lib/binarySearchTree.cpp: nodes on the heap with pointers to left, *)
(* right and parent.  The tree is one record t whose fields are root and   *)
(* the nodes' members by address; nullptr is address 0.  new takes the     *)
(* lowest free address, so that deleted ones are used again.               *)
(*                                                                         *)
(* A turn of a loop and a call or return of a recursive function are steps *)
(* of their own; call is the operation under way and its local variables.  *)
(***************************************************************************)
EXTENDS Integers, Sequences, FiniteSets, FiniteSetsExt

CONSTANTS Keys,      \* the keys, numbers
          MaxNodes   \* bound: nodes alive at a time

ConstantsOK == Keys \subseteq Int /\ MaxNodes \in Nat

nullptr == 0
Nodes == 1 .. MaxNodes
Pointers == {nullptr} \cup Nodes

VARIABLES t,        \* what the pointers say
          live,     \* the nodes taken from the heap
          call,     \* [at, ...]: the operation under way
          answer    \* what the last query returned

vars == <<t, live, call, answer>>

NoAnswer == [op |-> "none"]
Idle == [at |-> "idle"]

TreeRecords ==
    [root : Pointers, left : [Nodes -> Pointers], right : [Nodes -> Pointers],
     parent : [Nodes -> Pointers], data_ : [Nodes -> Keys \cup {0}]]

InsertCalls == [at : {"insert"}, new : Nodes, p : Pointers, now : Pointers]
SearchCalls == [at : {"search", "remove"}, key : Keys, now : Pointers]
MinimunCalls == [at : {"minimun"}, target : Nodes, node : Nodes]
PrintCalls == [at : {"inorderPrint"}, now : Pointers, calls : Seq(Nodes), keys : Seq(Keys)]
Waits == [node : Nodes, side : {"left", "right"}]
DestroyCalls == [at : {"destroy"}, now : Pointers, calls : Seq(Waits)]

TypeOK ==
    /\ t \in TreeRecords
    /\ live \subseteq Nodes
    /\ call \in {Idle} \cup InsertCalls \cup SearchCalls \cup MinimunCalls
                  \cup PrintCalls \cup DestroyCalls

EmptyTree ==
    [root |-> nullptr, left |-> [n \in Nodes |-> nullptr],
     right |-> [n \in Nodes |-> nullptr], parent |-> [n \in Nodes |-> nullptr],
     data_ |-> [n \in Nodes |-> 0]]

Init == t = EmptyTree /\ live = {} /\ call = Idle /\ answer = NoAnswer

(* delete: what a dead node holds is not told apart from a fresh one's.     *)
Deleted(tree, n) ==
    [tree EXCEPT !.left[n] = nullptr, !.right[n] = nullptr, !.parent[n] = nullptr,
                 !.data_[n] = 0]

-----------------------------------------------------------------------------
(* insert *)

insert(key) ==
    LET new == Min(Nodes \ live)
    IN  /\ call = Idle /\ live # Nodes
        /\ live' = live \cup {new}
        /\ t' = [t EXCEPT !.data_[new] = key]
        /\ call' = [at |-> "insert", new |-> new, p |-> nullptr, now |-> t.root]
        /\ answer' = NoAnswer

insertDown ==
    /\ call.at = "insert" /\ call.now # nullptr
    /\ call' = [call EXCEPT !.p = call.now,
                            !.now = IF t.data_[call.new] < t.data_[call.now]
                                    THEN t.left[call.now] ELSE t.right[call.now]]
    /\ UNCHANGED <<t, live, answer>>

Linked(new, p) ==
    LET up == [t EXCEPT !.parent[new] = p]
    IN  CASE p = nullptr -> [up EXCEPT !.root = new]
          [] p # nullptr /\ t.data_[p] > t.data_[new] -> [up EXCEPT !.left[p] = new]
          [] OTHER -> [up EXCEPT !.right[p] = new]

insertLink ==
    /\ call.at = "insert" /\ call.now = nullptr
    /\ t' = Linked(call.new, call.p)
    /\ call' = Idle
    /\ UNCHANGED <<live, answer>>

-----------------------------------------------------------------------------
(* search, which remove begins with *)

search(key) ==
    /\ call = Idle
    /\ call' = [at |-> "search", key |-> key, now |-> t.root]
    /\ answer' = NoAnswer
    /\ UNCHANGED <<t, live>>

Stopped == call.now # nullptr => t.data_[call.now] = call.key

searchDown ==
    /\ call.at \in {"search", "remove"} /\ ~Stopped
    /\ call' = [call EXCEPT !.now = IF t.data_[call.now] < call.key
                                    THEN t.right[call.now] ELSE t.left[call.now]]
    /\ UNCHANGED <<t, live, answer>>

searchReturn ==
    /\ call.at = "search" /\ Stopped
    /\ answer' = [op |-> "search", key |-> call.key, found |-> call.now # nullptr]
    /\ call' = Idle
    /\ UNCHANGED <<t, live>>

-----------------------------------------------------------------------------
(* inorderPrint: calls has the nodes whose left parts are being printed.    *)
(* When a node's right part is done nothing is left to do for the node.     *)

inorderPrint ==
    /\ call = Idle
    /\ call' = [at |-> "inorderPrint", now |-> t.root, calls |-> <<>>, keys |-> <<>>]
    /\ answer' = NoAnswer
    /\ UNCHANGED <<t, live>>

printLeft ==
    /\ call.at = "inorderPrint" /\ call.now # nullptr
    /\ call' = [call EXCEPT !.now = t.left[call.now], !.calls = Append(@, call.now)]
    /\ UNCHANGED <<t, live, answer>>

printNode ==
    LET depth == Len(call.calls)
        node == call.calls[depth]
    IN  /\ call.at = "inorderPrint" /\ call.now = nullptr /\ depth > 0
        /\ call' = [call EXCEPT !.now = t.right[node], !.calls = SubSeq(@, 1, depth - 1),
                                !.keys = Append(@, t.data_[node])]
        /\ UNCHANGED <<t, live, answer>>

printReturn ==
    /\ call.at = "inorderPrint" /\ call.now = nullptr /\ call.calls = <<>>
    /\ answer' = [op |-> "print", keys |-> call.keys]
    /\ call' = Idle
    /\ UNCHANGED <<t, live>>

-----------------------------------------------------------------------------
(* remove *)

(* Mutant: the parent of what moves up is not set.                          *)
transplantDownOnly(tree, source, target) ==
    LET up == tree.parent[source]
    IN  CASE up = nullptr -> [tree EXCEPT !.root = target]
          [] up # nullptr /\ source = tree.left[up] -> [tree EXCEPT !.left[up] = target]
          [] OTHER -> [tree EXCEPT !.right[up] = target]

transplant(tree, source, target) ==
    LET up == tree.parent[source]
        hung == CASE up = nullptr -> [tree EXCEPT !.root = target]
                  [] up # nullptr /\ source = tree.left[up] -> [tree EXCEPT !.left[up] = target]
                  [] OTHER -> [tree EXCEPT !.right[up] = target]
    IN  IF target = nullptr THEN hung ELSE [hung EXCEPT !.parent[target] = up]

remove(key) ==
    /\ call = Idle
    /\ call' = [at |-> "remove", key |-> key, now |-> t.root]
    /\ answer' = NoAnswer
    /\ UNCHANGED <<t, live>>

removeNothing ==
    /\ call.at = "remove" /\ call.now = nullptr
    /\ call' = Idle
    /\ UNCHANGED <<t, live, answer>>

(* The last lines of remove: tree is what the branches make of t.           *)
Unhooked(target, tree) ==
    /\ t' = Deleted(tree, target)
    /\ live' = live \ {target}
    /\ call' = Idle
    /\ UNCHANGED answer

removeNode ==
    LET target == call.now
        l == t.left[target]
        r == t.right[target]
    IN  /\ call.at = "remove" /\ target # nullptr /\ Stopped
        /\ \/ l = nullptr /\ Unhooked(target, transplant(t, target, r))
           \/ l # nullptr /\ r = nullptr /\ Unhooked(target, transplant(t, target, l))
           \/ /\ l # nullptr /\ r # nullptr
              /\ call' = [at |-> "minimun", target |-> target, node |-> r]
              /\ UNCHANGED <<t, live, answer>>

minimunDown ==
    /\ call.at = "minimun" /\ t.left[call.node] # nullptr
    /\ call' = [call EXCEPT !.node = t.left[@]]
    /\ UNCHANGED <<t, live, answer>>

(* A target with two children is replaced by the next larger node.          *)
Replaced(target, replace) ==
    LET out == transplant(t, replace, t.right[replace])
        taken == [out EXCEPT !.right[replace] = out.right[target],
                             !.parent[out.right[target]] = replace]
        freed == IF t.parent[replace] = target THEN t ELSE taken
        moved == transplant(freed, target, replace)
    IN  [moved EXCEPT !.left[replace] = moved.left[target],
                      !.parent[moved.left[target]] = replace]

removeReplaced ==
    /\ call.at = "minimun" /\ t.left[call.node] = nullptr
    /\ Unhooked(call.target, Replaced(call.target, call.node))

-----------------------------------------------------------------------------
(* The destructor: calls has the nodes being destroyed and which of its     *)
(* children each waits for.                                                 *)

destroy ==
    /\ call = Idle
    /\ call' = [at |-> "destroy", now |-> t.root, calls |-> <<>>]
    /\ answer' = NoAnswer
    /\ UNCHANGED <<t, live>>

destroyLeft ==
    /\ call.at = "destroy" /\ call.now # nullptr
    /\ call' = [call EXCEPT !.now = t.left[call.now],
                            !.calls = Append(@, [node |-> call.now, side |-> "left"])]
    /\ UNCHANGED <<t, live, answer>>

destroyBack ==
    LET depth == Len(call.calls)
        node == call.calls[depth].node
    IN  /\ call.at = "destroy" /\ call.now = nullptr /\ depth > 0
        /\ IF call.calls[depth].side = "left"
           THEN /\ call' = [call EXCEPT !.now = t.right[node],
                                        !.calls[depth].side = "right"]
                /\ UNCHANGED live
           ELSE /\ call' = [call EXCEPT !.calls = SubSeq(@, 1, depth - 1)]
                /\ live' = live \ {node}
        /\ UNCHANGED <<t, answer>>

(* A new tree follows.                                                      *)
destroyReturn ==
    /\ call.at = "destroy" /\ call.now = nullptr /\ call.calls = <<>>
    /\ t' = EmptyTree
    /\ call' = Idle
    /\ UNCHANGED <<live, answer>>

-----------------------------------------------------------------------------
Next ==
    \/ \E key \in Keys : insert(key) \/ search(key) \/ remove(key)
    \/ insertDown \/ insertLink
    \/ searchDown \/ searchReturn
    \/ inorderPrint \/ printLeft \/ printNode \/ printReturn
    \/ removeNothing \/ removeNode \/ minimunDown \/ removeReplaced
    \/ destroy \/ destroyLeft \/ destroyBack \/ destroyReturn

Spec == Init /\ [][Next]_vars

-----------------------------------------------------------------------------
(* Of a tree that is being destroyed nothing can be asked any more.         *)
Held(k) == {n \in live : call.at # "destroy" /\ t.data_[n] = k}

Bag == [k \in Keys |-> Cardinality(Held(k))]

Promise == INSTANCE KeyBag WITH bag <- Bag

(* Any sequence of insert, search, remove, inorderPrint and destruction     *)
(* answers as a bag of keys would, equal keys and reused addresses          *)
(* included, and every node taken from the heap goes back.  What remove     *)
(* leaves in the parent pointers (binarySearchTree.cpp:97-104) decides      *)
(* only removals that come later.                                           *)
ImplementsBag == Promise!Spec
=============================================================================
