------------------------- MODULE SearchTree_proofs --------------------------
(***************************************************************************)
(* The search tree implements a bag of keys, for every set of numbers Keys *)
(* and every MaxNodes.                                                     *)
(*                                                                         *)
(* The shape of the tree is a function D from pointers to sets of nodes:   *)
(* D[n] is n and the nodes below it.  IsTree says that the pointers agree  *)
(* with D and the keys with the pointers.  Each operation that changes the *)
(* pointers has a lemma that names the D it leaves behind, so that nothing *)
(* has to be proved by induction on the height of the tree.                *)
(***************************************************************************)
EXTENDS SearchTree, FiniteSetTheorems, WellFoundedInduction, TLAPS

Members(tr, D) == D[tr.root]

Shape(D) == D \in [Pointers -> SUBSET Nodes] /\ D[nullptr] = {}

(* A node, what is below its left and what is below its right child.        *)
Splits(tr, D) ==
    \A n \in Members(tr, D) :
        /\ D[n] = {n} \cup D[tr.left[n]] \cup D[tr.right[n]]
        /\ n \notin D[tr.left[n]] /\ n \notin D[tr.right[n]]
        /\ D[tr.left[n]] \cap D[tr.right[n]] = {}

ChildrenAgree(tr, D) ==
    \A n \in Members(tr, D) :
        /\ tr.left[n] # nullptr => tr.left[n] \in Members(tr, D) /\ tr.parent[tr.left[n]] = n
        /\ tr.right[n] # nullptr => tr.right[n] \in Members(tr, D) /\ tr.parent[tr.right[n]] = n

RootOnTop(tr, D) ==
    tr.root # nullptr => tr.root \in Members(tr, D) /\ tr.parent[tr.root] = nullptr

ParentsAgree(tr, D) ==
    \A n \in Members(tr, D) :
        n # tr.root => /\ tr.parent[n] \in Members(tr, D)
                       /\ n = tr.left[tr.parent[n]] \/ n = tr.right[tr.parent[n]]

(* What is below a node that is below m is below m, and so is what is above *)
(* it up to m.                                                              *)
Nested(tr, D) ==
    \A m \in Members(tr, D) : \A n \in D[m] :
        D[n] \subseteq D[m] /\ (n # m => tr.parent[n] \in D[m])

Ordered(tr, D) ==
    \A m \in Members(tr, D) :
        /\ \A n \in D[tr.left[m]] : tr.data_[n] < tr.data_[m]
        /\ \A n \in D[tr.right[m]] : tr.data_[m] <= tr.data_[n]

IsTree(tr, D) ==
    /\ tr \in TreeRecords
    /\ Shape(D) /\ Splits(tr, D) /\ ChildrenAgree(tr, D) /\ RootOnTop(tr, D)
    /\ ParentsAgree(tr, D) /\ Nested(tr, D) /\ Ordered(tr, D)

-----------------------------------------------------------------------------
(* What follows from the shape. *)

LEMMA WithinTree ==
  ASSUME NEW tr, NEW D, IsTree(tr, D)
  PROVE  /\ Members(tr, D) \subseteq Nodes
         /\ nullptr \notin Nodes
         /\ tr.root \in Pointers
         /\ tr.root # nullptr => tr.root \in Members(tr, D)
         /\ \A m \in Members(tr, D) :
               /\ m \in D[m] /\ D[m] \subseteq Members(tr, D)
               /\ tr.left[m] \in Pointers /\ tr.right[m] \in Pointers
               /\ tr.left[m] \in D[m] \cup {nullptr}
               /\ tr.right[m] \in D[m] \cup {nullptr}
               /\ tr.left[m] # nullptr => tr.left[m] # tr.right[m]
<1>1. tr \in TreeRecords /\ Shape(D) /\ Members(tr, D) \subseteq Nodes /\ nullptr \notin Nodes
  BY DEF IsTree, Shape, Members, TreeRecords, Nodes, nullptr, Pointers
<1>2. tr.root \in Pointers /\ (tr.root # nullptr => tr.root \in Members(tr, D))
  BY <1>1 DEF IsTree, RootOnTop, TreeRecords
<1>3. ASSUME NEW m \in Members(tr, D)
      PROVE  /\ m \in D[m] /\ D[m] \subseteq Members(tr, D)
             /\ tr.left[m] \in Pointers /\ tr.right[m] \in Pointers
             /\ tr.left[m] \in D[m] \cup {nullptr}
             /\ tr.right[m] \in D[m] \cup {nullptr}
             /\ tr.left[m] # nullptr => tr.left[m] # tr.right[m]
  <2>1. tr.left[m] \in Pointers /\ tr.right[m] \in Pointers
    BY <1>1 DEF TreeRecords
  <2>2. m \in D[m]
    BY DEF IsTree, Splits
  <2>3. tr.root # nullptr
    BY <1>1 DEF Shape, Members
  <2>4. D[m] \subseteq Members(tr, D)
    BY <1>2, <2>3 DEF IsTree, Nested, Members
  <2>5. \A c \in Members(tr, D) : c \in D[c]
    BY DEF IsTree, Splits
  <2>6. tr.left[m] # nullptr => tr.left[m] \in D[tr.left[m]]
    BY <2>5 DEF IsTree, ChildrenAgree
  <2>7. tr.right[m] # nullptr => tr.right[m] \in D[tr.right[m]]
    BY <2>5 DEF IsTree, ChildrenAgree
  <2> QED
    BY <2>1, <2>2, <2>4, <2>6, <2>7 DEF IsTree, Splits
<1> QED
  BY <1>1, <1>2, <1>3

-----------------------------------------------------------------------------
(* A leaf hung under p. *)

Grown(D, p, new) ==
    [m \in Pointers |-> IF m = new THEN {new}
                        ELSE IF p \in D[m] THEN D[m] \cup {new} ELSE D[m]]

LEMMA LeafKeepsTree ==
  ASSUME NEW tr, NEW D, IsTree(tr, D), NEW new \in Nodes, new \notin Members(tr, D),
         tr.left[new] = nullptr, tr.right[new] = nullptr,
         NEW p \in Members(tr, D) \cup {nullptr}, p = nullptr => tr.root = nullptr,
         NEW onLeft \in BOOLEAN,
         p # nullptr => (IF onLeft THEN tr.left[p] ELSE tr.right[p]) = nullptr,
         p # nullptr => IF onLeft THEN tr.data_[new] < tr.data_[p]
                                  ELSE tr.data_[p] <= tr.data_[new],
         \A m \in Members(tr, D) :
            /\ p \in D[tr.left[m]] => tr.data_[new] < tr.data_[m]
            /\ p \in D[tr.right[m]] => tr.data_[m] <= tr.data_[new],
         NEW tr2 \in TreeRecords,
         tr2.data_ = tr.data_,
         tr2.root = IF p = nullptr THEN new ELSE tr.root,
         \A n \in Nodes :
            /\ tr2.left[n] = IF n = p /\ onLeft THEN new ELSE tr.left[n]
            /\ tr2.right[n] = IF n = p /\ ~onLeft THEN new ELSE tr.right[n]
            /\ tr2.parent[n] = IF n = new THEN p ELSE tr.parent[n]
  PROVE  /\ IsTree(tr2, Grown(D, p, new))
         /\ Members(tr2, Grown(D, p, new)) = Members(tr, D) \cup {new}
<1> DEFINE S == Members(tr, D)
           E == Grown(D, p, new)
<1>1. /\ S \subseteq Nodes /\ nullptr \notin Nodes /\ new \in Pointers /\ new # nullptr
      /\ D \in [Pointers -> SUBSET Nodes] /\ D[nullptr] = {} /\ nullptr \in Pointers
      /\ tr.root \in Pointers /\ Nodes \subseteq Pointers
      /\ tr.root # nullptr => tr.root \in S
      /\ new # p
  BY WithinTree DEF IsTree, Shape, Pointers
<1>2. \A m \in S : /\ m \in D[m] /\ D[m] \subseteq S /\ new \notin D[m]
                   /\ tr.left[m] \in S \cup {nullptr} /\ tr.right[m] \in S \cup {nullptr}
                   /\ tr.left[m] # nullptr => tr.left[m] # tr.right[m]
  BY WithinTree
<1>3. Shape(E)
  BY <1>1 DEF Shape, Grown
<1>4. /\ E[new] = {new} /\ E[nullptr] = {}
      /\ \A m \in S : E[m] = IF p \in D[m] THEN D[m] \cup {new} ELSE D[m]
  BY <1>1 DEF Grown
<1>5. Members(tr2, E) = S \cup {new}
  <2>1. CASE p = nullptr
    BY <1>1, <1>4, <2>1 DEF Members
  <2>2. CASE p # nullptr
    <3>1. tr.root # nullptr /\ p \in D[tr.root] /\ tr2.root = tr.root
      BY <1>1, <2>2 DEF Members
    <3> QED
      BY <1>1, <1>4, <3>1 DEF Members
  <2> QED
    BY <2>1, <2>2
<1> HIDE DEF E
<1>6. /\ tr2.left[new] = nullptr /\ tr2.right[new] = nullptr /\ tr2.parent[new] = p
      /\ \A m \in S : m # p => tr2.left[m] = tr.left[m] /\ tr2.right[m] = tr.right[m]
      /\ \A m \in S : tr2.parent[m] = tr.parent[m]
      /\ p # nullptr => IF onLeft THEN tr2.left[p] = new /\ tr2.right[p] = tr.right[p] /\ tr.left[p] = nullptr
                                  ELSE tr2.right[p] = new /\ tr2.left[p] = tr.left[p] /\ tr.right[p] = nullptr
  BY <1>1
<1>7. Splits(tr2, E)
  <2>1. ASSUME NEW m \in S, m # p
        PROVE  /\ E[m] = {m} \cup E[tr2.left[m]] \cup E[tr2.right[m]]
               /\ m \notin E[tr2.left[m]] /\ m \notin E[tr2.right[m]]
               /\ E[tr2.left[m]] \cap E[tr2.right[m]] = {}
    <3>1. /\ D[m] = {m} \cup D[tr.left[m]] \cup D[tr.right[m]]
          /\ m \notin D[tr.left[m]] /\ m \notin D[tr.right[m]]
          /\ D[tr.left[m]] \cap D[tr.right[m]] = {}
      BY DEF IsTree, Splits
    <3>2. tr2.left[m] = tr.left[m] /\ tr2.right[m] = tr.right[m]
      BY <1>6, <2>1
    <3>3. \A c \in S \cup {nullptr} : E[c] = IF p \in D[c] THEN D[c] \cup {new} ELSE D[c]
      BY <1>1, <1>4
    <3>4. new # m /\ new \notin D[tr.left[m]] /\ new \notin D[tr.right[m]]
      BY <1>1, <1>2
    <3> QED
      <4> DEFINE l == tr.left[m]
                 r == tr.right[m]
      <4>1. /\ E[l] = IF p \in D[l] THEN D[l] \cup {new} ELSE D[l]
            /\ E[r] = IF p \in D[r] THEN D[r] \cup {new} ELSE D[r]
            /\ E[m] = IF p \in D[m] THEN D[m] \cup {new} ELSE D[m]
        BY <1>2, <3>3
      <4> HIDE DEF l, r
      <4>2. /\ D[m] = {m} \cup D[l] \cup D[r] /\ D[l] \cap D[r] = {}
            /\ m \notin D[l] /\ m \notin D[r] /\ m # new
            /\ new \notin D[l] /\ new \notin D[r]
        BY <3>1, <3>4 DEF l, r
      <4>3. p \in D[m] <=> p \in D[l] \/ p \in D[r]
        BY <2>1, <4>2
      <4>4. E[m] = {m} \cup E[l] \cup E[r]
        BY <4>1, <4>2, <4>3
      <4>5. m \notin E[l] /\ m \notin E[r] /\ E[l] \cap E[r] = {}
        BY <4>1, <4>2
      <4> QED
        BY <3>2, <4>4, <4>5 DEF l, r
  <2>2. ASSUME p # nullptr
        PROVE  /\ E[p] = {p} \cup E[tr2.left[p]] \cup E[tr2.right[p]]
               /\ p \notin E[tr2.left[p]] /\ p \notin E[tr2.right[p]]
               /\ E[tr2.left[p]] \cap E[tr2.right[p]] = {}
    <3>1. /\ D[p] = {p} \cup D[tr.left[p]] \cup D[tr.right[p]]
          /\ p \notin D[tr.left[p]] /\ p \notin D[tr.right[p]]
          /\ D[tr.left[p]] \cap D[tr.right[p]] = {}
      BY <2>2 DEF IsTree, Splits
    <3>2. E[p] = D[p] \cup {new}
      BY <1>2, <1>4, <2>2
    <3>3. \A c \in S \cup {nullptr} : p \notin D[c] => E[c] = D[c]
      BY <1>1, <1>4
    <3>4. new \notin D[tr.left[p]] /\ new \notin D[tr.right[p]]
      BY <1>1, <1>2, <2>2
    <3> QED
      BY <1>1, <1>2, <1>4, <1>6, <2>2, <3>1, <3>2, <3>3, <3>4
  <2>3. /\ E[new] = {new} \cup E[tr2.left[new]] \cup E[tr2.right[new]]
        /\ new \notin E[tr2.left[new]] /\ new \notin E[tr2.right[new]]
        /\ E[tr2.left[new]] \cap E[tr2.right[new]] = {}
    BY <1>4, <1>6
  <2> QED
    BY <1>1, <1>5, <2>1, <2>2, <2>3 DEF Splits
<1>8. ChildrenAgree(tr2, E)
  <2>1. \A m \in S : /\ tr.left[m] # nullptr => tr.left[m] \in S /\ tr.parent[tr.left[m]] = m
                     /\ tr.right[m] # nullptr => tr.right[m] \in S /\ tr.parent[tr.right[m]] = m
    BY DEF IsTree, ChildrenAgree
  <2> QED
    BY <1>1, <1>5, <1>6, <2>1 DEF ChildrenAgree
<1>9. RootOnTop(tr2, E)
  BY <1>1, <1>5, <1>6 DEF RootOnTop, IsTree
<1>10. ParentsAgree(tr2, E)
  <2>1. \A n \in S : n # tr.root => /\ tr.parent[n] \in S
                                    /\ n = tr.left[tr.parent[n]] \/ n = tr.right[tr.parent[n]]
    BY DEF IsTree, ParentsAgree
  <2>2. p = nullptr => S = {}
    BY <1>1 DEF Members
  <2>3. ASSUME NEW n \in S, n # tr2.root
        PROVE  tr2.parent[n] \in S /\ (n = tr2.left[tr2.parent[n]] \/ n = tr2.right[tr2.parent[n]])
    <3>1. n # tr.root /\ n # nullptr
      BY <1>1, <2>2, <2>3
    <3> QED
      BY <1>1, <1>6, <2>1, <3>1
  <2>4. new # tr2.root => p \in S /\ (new = tr2.left[p] \/ new = tr2.right[p])
    BY <1>6
  <2> QED
    BY <1>5, <1>6, <2>3, <2>4 DEF ParentsAgree
<1>11. Nested(tr2, E)
  <2>1. \A m \in S : \A n \in D[m] : D[n] \subseteq D[m] /\ (n # m => tr.parent[n] \in D[m])
    BY DEF IsTree, Nested
  <2>2. ASSUME NEW m \in S, NEW n \in E[m]
        PROVE  E[n] \subseteq E[m] /\ (n # m => tr2.parent[n] \in E[m])
    <3>1. CASE n = new
      <4>1. new \notin D[m] /\ m # new
        BY <1>1, <1>2
      <4>2. p \in D[m] /\ E[m] = D[m] \cup {new}
        BY <1>4, <2>2, <3>1, <4>1
      <4> QED
        BY <1>4, <1>6, <3>1, <4>2
    <3>2. CASE n # new
      <4>1. n \in D[m] /\ n \in S
        <5>1. E[m] \subseteq D[m] \cup {new}
          BY <1>4
        <5> QED
          BY <1>2, <2>2, <3>2, <5>1
      <4>2. D[n] \subseteq D[m] /\ (n # m => tr.parent[n] \in D[m])
        BY <2>1, <4>1
      <4> QED
        BY <1>4, <1>6, <4>1, <4>2
    <3> QED
      BY <3>1, <3>2
  <2>3. \A n \in E[new] : E[n] \subseteq E[new] /\ n = new
    BY <1>4
  <2> QED
    BY <1>5, <2>2, <2>3 DEF Nested
<1>12. Ordered(tr2, E)
  <2>1. \A m \in S : /\ \A n \in D[tr.left[m]] : tr.data_[n] < tr.data_[m]
                     /\ \A n \in D[tr.right[m]] : tr.data_[m] <= tr.data_[n]
    BY DEF IsTree, Ordered
  <2>2. ASSUME NEW m \in S, m # p
        PROVE  /\ \A n \in E[tr2.left[m]] : tr.data_[n] < tr.data_[m]
               /\ \A n \in E[tr2.right[m]] : tr.data_[m] <= tr.data_[n]
    <3>1. tr2.left[m] = tr.left[m] /\ tr2.right[m] = tr.right[m]
      BY <1>6, <2>2
    <3>2. \A c \in S \cup {nullptr} : E[c] = IF p \in D[c] THEN D[c] \cup {new} ELSE D[c]
      BY <1>1, <1>4
    <3> QED
      <4>1. \A c \in {tr.left[m], tr.right[m]} : \A n \in E[c] : n \in D[c] \/ (n = new /\ p \in D[c])
        <5>1. tr.left[m] \in S \cup {nullptr} /\ tr.right[m] \in S \cup {nullptr}
          BY <1>2
        <5>2. ASSUME NEW c \in S \cup {nullptr}, NEW n \in E[c]
              PROVE  n \in D[c] \/ (n = new /\ p \in D[c])
          <6>1. E[c] = IF p \in D[c] THEN D[c] \cup {new} ELSE D[c]
            BY <3>2
          <6> QED
            BY <5>2, <6>1
        <5> QED
          BY <5>1, <5>2
      <4>2. \A n \in E[tr.left[m]] : tr.data_[n] < tr.data_[m]
        BY <2>1, <4>1
      <4>3. \A n \in E[tr.right[m]] : tr.data_[m] <= tr.data_[n]
        BY <2>1, <4>1
      <4> QED
        BY <3>1, <4>2, <4>3
  <2>3. ASSUME p # nullptr
        PROVE  /\ \A n \in E[tr2.left[p]] : tr.data_[n] < tr.data_[p]
               /\ \A n \in E[tr2.right[p]] : tr.data_[p] <= tr.data_[n]
    <3>1. p \notin D[tr.left[p]] /\ p \notin D[tr.right[p]]
      BY <2>3 DEF IsTree, Splits
    <3>2. \A c \in S \cup {nullptr} : p \notin D[c] => E[c] = D[c]
      BY <1>1, <1>4
    <3> QED
      BY <1>2, <1>4, <1>6, <2>1, <2>3, <3>1, <3>2
  <2>4. E[tr2.left[new]] = {} /\ E[tr2.right[new]] = {}
    BY <1>4, <1>6
  <2> QED
    BY <1>1, <1>5, <2>2, <2>3, <2>4 DEF Ordered
<1>13. IsTree(tr2, E)
  BY <1>3, <1>7, <1>8, <1>9, <1>10, <1>11, <1>12 DEF IsTree
<1> QED
  BY <1>5, <1>13 DEF E
-----------------------------------------------------------------------------
(* A node with one child at most taken out: the child moves up.             *)

Without(D, g) == [m \in Pointers |-> D[m] \ {g}]

(* Only the node above g, the root or g's child point to g.                 *)
LEMMA AroundNode ==
  ASSUME NEW tr, NEW D, IsTree(tr, D), NEW g \in Members(tr, D)
  PROVE  LET up == tr.parent[g]
             S == Members(tr, D)
         IN  /\ up = nullptr <=> g = tr.root
             /\ up # nullptr => /\ up \in S /\ up # g /\ g \in D[up]
                                /\ tr.left[up] = g <=> tr.right[up] # g
             /\ \A m \in S : m # up => tr.left[m] # g /\ tr.right[m] # g
             /\ \A n \in S : n # g /\ n # tr.left[g] /\ n # tr.right[g] => tr.parent[n] # g
<1> DEFINE up == tr.parent[g]
           S == Members(tr, D)
<1>1. g # nullptr /\ nullptr \notin S /\ g \in D[g] /\ D[g] \subseteq S
      /\ (tr.root # nullptr => tr.root \in S)
  BY WithinTree
<1>2. up = nullptr <=> g = tr.root
  BY <1>1 DEF IsTree, RootOnTop, ParentsAgree
<1>3. ASSUME up # nullptr
      PROVE  up \in S /\ up # g /\ g \in D[up] /\ (tr.left[up] = g <=> tr.right[up] # g)
  <2>1. up \in S /\ (g = tr.left[up] \/ g = tr.right[up])
    BY <1>2, <1>3 DEF IsTree, ParentsAgree
  <2>2. /\ tr.left[up] \in D[up] \cup {nullptr} /\ tr.right[up] \in D[up] \cup {nullptr}
        /\ tr.left[up] # nullptr => tr.left[up] # tr.right[up]
    BY <2>1, WithinTree
  <2>3. up \notin D[tr.left[up]] /\ up \notin D[tr.right[up]]
    BY <2>1 DEF IsTree, Splits
  <2> QED
    BY <1>1, <2>1, <2>2, <2>3
<1>4. ASSUME NEW m \in S, m # up PROVE tr.left[m] # g /\ tr.right[m] # g
  BY <1>1, <1>4 DEF IsTree, ChildrenAgree
<1>5. ASSUME NEW n \in S, n # g, n # tr.left[g], n # tr.right[g] PROVE tr.parent[n] # g
  <2>1. n # tr.root => n = tr.left[tr.parent[n]] \/ n = tr.right[tr.parent[n]]
    BY DEF IsTree, ParentsAgree
  <2>2. n = tr.root => tr.parent[n] = nullptr
    BY <1>1, WithinTree DEF IsTree, RootOnTop
  <2> QED
    BY <1>1, <1>5, <2>1, <2>2
<1> QED
  BY <1>2, <1>3, <1>4, <1>5

LEMMA UnlinkKeepsTree ==
  ASSUME NEW tr, NEW D, IsTree(tr, D), NEW g \in Members(tr, D), NEW c,
         \/ tr.left[g] = nullptr /\ c = tr.right[g]
         \/ tr.right[g] = nullptr /\ c = tr.left[g],
         NEW tr2 \in TreeRecords,
         tr2.root = IF g = tr.root THEN c ELSE tr.root,
         \A n \in Members(tr, D) \ {g} :
            /\ tr2.data_[n] = tr.data_[n]
            /\ tr2.left[n] = IF tr.left[n] = g THEN c ELSE tr.left[n]
            /\ tr2.right[n] = IF tr.right[n] = g THEN c ELSE tr.right[n]
            /\ tr2.parent[n] = IF n = c THEN tr.parent[g] ELSE tr.parent[n]
  PROVE  /\ IsTree(tr2, Without(D, g))
         /\ Members(tr2, Without(D, g)) = Members(tr, D) \ {g}
<1> DEFINE S == Members(tr, D)
           E == Without(D, g)
           up == tr.parent[g]
<1>1. /\ S \subseteq Nodes /\ nullptr \notin Nodes /\ g # nullptr
      /\ D \in [Pointers -> SUBSET Nodes] /\ D[nullptr] = {} /\ nullptr \in Pointers
      /\ tr.root \in Pointers /\ Nodes \subseteq Pointers
      /\ tr.root # nullptr => tr.root \in S
      /\ S = D[tr.root]
  <2>1. Nodes \subseteq Pointers /\ nullptr \in Pointers
    BY DEF Pointers
  <2>2. D \in [Pointers -> SUBSET Nodes] /\ D[nullptr] = {} /\ S = D[tr.root]
    BY DEF IsTree, Shape, Members
  <2> QED
    BY <2>1, <2>2, WithinTree
<1>2. \A m \in S : /\ m \in D[m] /\ D[m] \subseteq S
                   /\ tr.left[m] \in S \cup {nullptr} /\ tr.right[m] \in S \cup {nullptr}
                   /\ tr.left[m] # nullptr => tr.left[m] # tr.right[m]
  BY WithinTree
<1>3. /\ up = nullptr <=> g = tr.root
      /\ up # nullptr => /\ up \in S /\ up # g /\ g \in D[up]
                         /\ tr.left[up] = g <=> tr.right[up] # g
      /\ \A m \in S : m # up => tr.left[m] # g /\ tr.right[m] # g
      /\ \A n \in S : n # g /\ n # tr.left[g] /\ n # tr.right[g] => tr.parent[n] # g
  BY AroundNode
<1>4. D[g] = {g} \cup D[c] /\ g \notin D[c] /\ c \in S \cup {nullptr} /\ c # g
  <2>1. /\ D[g] = {g} \cup D[tr.left[g]] \cup D[tr.right[g]]
        /\ g \notin D[tr.left[g]] /\ g \notin D[tr.right[g]]
    BY DEF IsTree, Splits
  <2> QED
    BY <1>1, <1>2, <2>1
<1>5. c # nullptr => tr.parent[c] = g
  BY DEF IsTree, ChildrenAgree
<1>6. c # nullptr => c # up
  BY <1>3, <1>4
<1>7. Shape(E) /\ \A m \in S \cup {nullptr} : E[m] = D[m] \ {g}
  BY <1>1 DEF Shape, Without
<1>8. Members(tr2, E) = S \ {g}
  <2>1. CASE g = tr.root
    BY <1>1, <1>4, <1>7, <2>1 DEF Members
  <2>2. CASE g # tr.root
    BY <1>1, <1>7, <2>2 DEF Members
  <2> QED
    BY <2>1, <2>2
<1> HIDE DEF E
<1>9. \A m \in S : /\ m = tr.left[g] => tr.right[g] = nullptr \/ m # tr.right[g]
                   /\ m # g /\ (m = tr.left[g] \/ m = tr.right[g]) => m = c
  BY <1>1
<1>10. Splits(tr2, E)
  <2>1. ASSUME NEW m \in S, m # g
        PROVE  /\ E[m] = {m} \cup E[tr2.left[m]] \cup E[tr2.right[m]]
               /\ m \notin E[tr2.left[m]] /\ m \notin E[tr2.right[m]]
               /\ E[tr2.left[m]] \cap E[tr2.right[m]] = {}
    <3> DEFINE l == tr.left[m]
               r == tr.right[m]
    <3>1. /\ D[m] = {m} \cup D[l] \cup D[r] /\ D[l] \cap D[r] = {}
          /\ m \notin D[l] /\ m \notin D[r]
      BY DEF IsTree, Splits
    <3>2. /\ tr2.left[m] = IF l = g THEN c ELSE l
          /\ tr2.right[m] = IF r = g THEN c ELSE r
      BY <2>1
    <3>3. l \in S \cup {nullptr} /\ r \in S \cup {nullptr}
      BY <1>2
    <3> HIDE DEF l, r
    <3>4. E[tr2.left[m]] = D[l] \ {g} /\ E[tr2.right[m]] = D[r] \ {g}
      BY <1>4, <1>7, <3>2, <3>3
    <3>5. E[m] = D[m] \ {g}
      BY <1>7
    <3> QED
      BY <2>1, <3>1, <3>4, <3>5
  <2> QED
    BY <1>8, <2>1 DEF Splits
<1>11. ChildrenAgree(tr2, E)
  <2>1. \A m \in S : /\ tr.left[m] # nullptr => tr.left[m] \in S /\ tr.parent[tr.left[m]] = m
                     /\ tr.right[m] # nullptr => tr.right[m] \in S /\ tr.parent[tr.right[m]] = m
    BY DEF IsTree, ChildrenAgree
  <2>2. ASSUME NEW m \in S, m # g
        PROVE  /\ tr2.left[m] # nullptr => tr2.left[m] \in S \ {g} /\ tr2.parent[tr2.left[m]] = m
               /\ tr2.right[m] # nullptr => tr2.right[m] \in S \ {g} /\ tr2.parent[tr2.right[m]] = m
    <3>1. /\ tr2.left[m] = IF tr.left[m] = g THEN c ELSE tr.left[m]
          /\ tr2.right[m] = IF tr.right[m] = g THEN c ELSE tr.right[m]
      BY <2>2
    <3>2. \A n \in S \ {g} : tr2.parent[n] = IF n = c THEN up ELSE tr.parent[n]
      OBVIOUS
    <3> QED
      BY <1>3, <1>4, <1>5, <2>1, <2>2, <3>1, <3>2
  <2> QED
    BY <1>8, <2>2 DEF ChildrenAgree
<1>12. RootOnTop(tr2, E)
  <2>1. CASE g = tr.root
    <3>1. c # nullptr => c \in S \ {g} /\ tr2.parent[c] = nullptr
      BY <1>3, <1>4, <2>1
    <3> QED
      BY <1>8, <2>1, <3>1 DEF RootOnTop
  <2>2. CASE g # tr.root
    <3>1. tr.root # c
      BY <1>1, <1>3, <1>5, <2>2 DEF IsTree, RootOnTop
    <3>2. tr.root # nullptr => tr.root \in S \ {g} /\ tr2.parent[tr.root] = nullptr
      BY <1>1, <2>2, <3>1 DEF IsTree, RootOnTop
    <3> QED
      BY <1>8, <2>2, <3>2 DEF RootOnTop
  <2> QED
    BY <2>1, <2>2
<1>13. ParentsAgree(tr2, E)
  <2>1. \A n \in S : n # tr.root => /\ tr.parent[n] \in S
                                    /\ n = tr.left[tr.parent[n]] \/ n = tr.right[tr.parent[n]]
    BY DEF IsTree, ParentsAgree
  <2>2. ASSUME NEW n \in S, n # g, n # tr2.root
        PROVE  /\ tr2.parent[n] \in S \ {g}
               /\ n = tr2.left[tr2.parent[n]] \/ n = tr2.right[tr2.parent[n]]
    <3>1. CASE n = c
      <4>1. g # tr.root /\ up \in S \ {g} /\ tr2.parent[n] = up
        BY <1>1, <1>3, <2>2, <3>1
      <4>2. /\ tr2.left[up] = IF tr.left[up] = g THEN c ELSE tr.left[up]
            /\ tr2.right[up] = IF tr.right[up] = g THEN c ELSE tr.right[up]
        BY <4>1
      <4> QED
        BY <1>1, <1>3, <3>1, <4>1, <4>2
    <3>2. CASE n # c
      <4>1. n # tr.root
        BY <2>2, <1>3
      <4>2. tr2.parent[n] = tr.parent[n] /\ tr.parent[n] \in S
            /\ (n = tr.left[tr.parent[n]] \/ n = tr.right[tr.parent[n]])
        BY <2>1, <2>2, <3>2, <4>1
      <4>3. tr.parent[n] # g
        BY <1>1, <1>3, <1>9, <2>2, <3>2, <4>2
      <4> QED
        BY <2>2, <4>2, <4>3
    <3> QED
      BY <3>1, <3>2
  <2> QED
    BY <1>8, <2>2 DEF ParentsAgree
<1>14. Nested(tr2, E)
  <2>1. \A m \in S : \A n \in D[m] : D[n] \subseteq D[m] /\ (n # m => tr.parent[n] \in D[m])
    BY DEF IsTree, Nested
  <2>2. ASSUME NEW m \in S, m # g, NEW n \in E[m]
        PROVE  E[n] \subseteq E[m] /\ (n # m => tr2.parent[n] \in E[m])
    <3>1. n \in D[m] /\ n \in S /\ n # g /\ E[m] = D[m] \ {g} /\ E[n] = D[n] \ {g}
      BY <1>2, <1>7
    <3>2. E[n] \subseteq E[m]
      BY <2>1, <3>1
    <3>3. ASSUME n # m PROVE tr2.parent[n] \in E[m]
      <4>1. tr.parent[n] \in D[m]
        BY <2>1, <3>1, <3>3
      <4>2. CASE n = c
        <5>1. g \in D[m]
          BY <1>1, <1>5, <4>1, <4>2, <3>1
        <5>2. up \in D[m] /\ up # g
          BY <1>1, <1>3, <2>1, <2>2, <5>1, WithinTree
        <5> QED
          BY <3>1, <4>2, <5>2
      <4>3. CASE n # c
        <5>1. tr2.parent[n] = tr.parent[n]
          BY <3>1, <4>3
        <5>2. tr.parent[n] # g
          BY <1>1, <1>3, <1>9, <3>1, <4>3
        <5> QED
          BY <3>1, <4>1, <5>1, <5>2
      <4> QED
        BY <4>2, <4>3
    <3> QED
      BY <3>2, <3>3
  <2> QED
    BY <1>8, <2>2 DEF Nested
<1>15. Ordered(tr2, E)
  <2>1. ASSUME NEW m \in S, m # g
        PROVE  /\ \A n \in E[tr2.left[m]] : tr2.data_[n] < tr2.data_[m]
               /\ \A n \in E[tr2.right[m]] : tr2.data_[m] <= tr2.data_[n]
    <3>1. /\ \A n \in D[tr.left[m]] : tr.data_[n] < tr.data_[m]
          /\ \A n \in D[tr.right[m]] : tr.data_[m] <= tr.data_[n]
      BY DEF IsTree, Ordered
    <3>2. /\ tr2.left[m] = IF tr.left[m] = g THEN c ELSE tr.left[m]
          /\ tr2.right[m] = IF tr.right[m] = g THEN c ELSE tr.right[m]
          /\ tr.left[m] \in S \cup {nullptr} /\ tr.right[m] \in S \cup {nullptr}
      BY <1>2, <2>1
    <3>3. E[tr2.left[m]] = D[tr.left[m]] \ {g} /\ E[tr2.right[m]] = D[tr.right[m]] \ {g}
      BY <1>4, <1>7, <3>2
    <3>4. \A n \in S \ {g} : tr2.data_[n] = tr.data_[n]
      OBVIOUS
    <3>5. D[tr.left[m]] \subseteq S /\ D[tr.right[m]] \subseteq S
      BY <1>1, <1>2, <3>2
    <3> QED
      BY <2>1, <3>1, <3>3, <3>4, <3>5
  <2> QED
    BY <1>8, <2>1 DEF Ordered
<1>16. IsTree(tr2, E)
  BY <1>7, <1>10, <1>11, <1>12, <1>13, <1>14, <1>15 DEF IsTree
<1> QED
  BY <1>8, <1>16 DEF E
-----------------------------------------------------------------------------
(* A node put in the place of another.                                      *)

Renamed(x, g, r) == IF x = g THEN r ELSE x
RenamedIn(X, g, r) == IF g \in X THEN (X \ {g}) \cup {r} ELSE X

Swapped(D, g, r) ==
    [m \in Pointers |-> RenamedIn(D[IF m = r THEN g ELSE m], g, r)]

LEMMA RenamedMember ==
  ASSUME NEW S, NEW g, NEW r, r \notin S, NEW X \in SUBSET S
  PROVE  /\ \A n \in S : Renamed(n, g, r) \in RenamedIn(X, g, r) <=> n \in X
         /\ \A y \in RenamedIn(X, g, r) : \E n \in X : y = Renamed(n, g, r)
         /\ \A n \in X : Renamed(n, g, r) \in RenamedIn(X, g, r)
<1>1. ASSUME NEW n \in S PROVE Renamed(n, g, r) \in RenamedIn(X, g, r) <=> n \in X
  BY DEF Renamed, RenamedIn
<1>2. ASSUME NEW y \in RenamedIn(X, g, r) PROVE \E n \in X : y = Renamed(n, g, r)
  <2>1. CASE y = r /\ g \in X
    BY <2>1 DEF Renamed
  <2>2. CASE ~(y = r /\ g \in X)
    <3>1. y \in X /\ (y = g => g \notin X)
      BY <1>2, <2>2 DEF RenamedIn
    <3> QED
      BY <3>1 DEF Renamed
  <2> QED
    BY <2>1, <2>2
<1> QED
  BY <1>1, <1>2

LEMMA SwapKeepsTree ==
  ASSUME NEW tr, NEW D, IsTree(tr, D), NEW g \in Members(tr, D),
         NEW r \in Nodes, r \notin Members(tr, D),
         NEW tr2 \in TreeRecords,
         tr2.root = Renamed(tr.root, g, r),
         \A n \in Members(tr, D) :
            /\ tr2.left[Renamed(n, g, r)] = Renamed(tr.left[n], g, r)
            /\ tr2.right[Renamed(n, g, r)] = Renamed(tr.right[n], g, r)
            /\ tr2.parent[Renamed(n, g, r)] = Renamed(tr.parent[n], g, r),
         \A n \in Members(tr, D) \ {g} : tr2.data_[n] = tr.data_[n],
         \A n \in D[tr.left[g]] : tr.data_[n] < tr2.data_[r],
         \A n \in D[tr.right[g]] : tr2.data_[r] <= tr.data_[n],
         \A m \in Members(tr, D) :
            /\ g \in D[tr.left[m]] => tr2.data_[r] < tr.data_[m]
            /\ g \in D[tr.right[m]] => tr.data_[m] <= tr2.data_[r]
  PROVE  /\ IsTree(tr2, Swapped(D, g, r))
         /\ Members(tr2, Swapped(D, g, r)) = (Members(tr, D) \ {g}) \cup {r}
<1> DEFINE S == Members(tr, D)
           E == Swapped(D, g, r)
           S2 == (S \ {g}) \cup {r}
           to(n) == Renamed(n, g, r)
<1>1. /\ S \subseteq Nodes /\ nullptr \notin Nodes /\ g # nullptr /\ r # nullptr
      /\ tr.root \in Pointers /\ r \in Pointers
      /\ S = D[tr.root] /\ tr.root \in S
  <2>1. Nodes \subseteq Pointers /\ nullptr \in Pointers
    BY DEF Pointers
  <2>2. D[nullptr] = {} /\ S = D[tr.root]
    BY DEF IsTree, Shape, Members
  <2> QED
    BY <2>1, <2>2, WithinTree
<1>2. \A m \in S : /\ m \in D[m] /\ D[m] \subseteq S
                   /\ tr.left[m] \in S \cup {nullptr} /\ tr.right[m] \in S \cup {nullptr}
  BY WithinTree
<1>3. D \in [Pointers -> SUBSET Nodes] /\ D[nullptr] = {} /\ nullptr \in Pointers
      /\ Nodes \subseteq Pointers
  BY DEF IsTree, Shape, Pointers
<1>4. Shape(E) /\ \A m \in S \cup {nullptr} : E[to(m)] = RenamedIn(D[m], g, r)
  <2>1. \A m \in Pointers : E[m] = RenamedIn(D[IF m = r THEN g ELSE m], g, r)
    BY DEF Swapped
  <2>2. ASSUME NEW m \in Pointers PROVE RenamedIn(D[IF m = r THEN g ELSE m], g, r) \subseteq Nodes
    <3>1. D[IF m = r THEN g ELSE m] \subseteq Nodes
      BY <1>1, <1>3
    <3> QED
      BY <3>1 DEF RenamedIn
  <2>3. E \in [Pointers -> SUBSET Nodes]
    BY <2>2 DEF Swapped
  <2>4. ASSUME NEW m \in S \cup {nullptr} PROVE E[to(m)] = RenamedIn(D[m], g, r)
    <3>1. to(m) \in Pointers /\ (IF to(m) = r THEN g ELSE to(m)) = m
      BY <1>1, <1>3 DEF Renamed
    <3> QED
      BY <2>1, <3>1
  <2>5. E[nullptr] = {}
    BY <1>1, <1>3, <2>1 DEF RenamedIn
  <2> QED
    BY <2>3, <2>4, <2>5 DEF Shape
<1>5. /\ \A y \in S2 : \E n \in S : y = to(n)
      /\ \A n \in S : to(n) \in S2
      /\ to(nullptr) = nullptr
      /\ \A n, m \in S \cup {nullptr} : to(n) = to(m) <=> n = m
      /\ S2 \subseteq Nodes
  BY <1>1 DEF Renamed
<1>6. Members(tr2, E) = S2
  BY <1>1, <1>4 DEF Members, RenamedIn
<1>7. /\ \A m \in S \cup {nullptr}, n \in S : to(n) \in E[to(m)] <=> n \in D[m]
      /\ \A m \in S \cup {nullptr} : \A y \in E[to(m)] : \E n \in D[m] : y = to(n)
  <2> SUFFICES ASSUME NEW m \in S \cup {nullptr}
               PROVE  /\ \A n \in S : to(n) \in E[to(m)] <=> n \in D[m]
                      /\ \A y \in E[to(m)] : \E n \in D[m] : y = to(n)
    OBVIOUS
  <2>1. D[m] \in SUBSET S /\ E[to(m)] = RenamedIn(D[m], g, r)
    BY <1>2, <1>3, <1>4
  <2>2. /\ \A n \in S : to(n) \in RenamedIn(D[m], g, r) <=> n \in D[m]
        /\ \A y \in RenamedIn(D[m], g, r) : \E n \in D[m] : y = to(n)
    <3>1. r \notin S
      OBVIOUS
    <3> HIDE DEF S
    <3> QED
      BY <2>1, <3>1, RenamedMember, Zenon
  <2> QED
    BY <2>1, <2>2, Zenon
<1>8. /\ \A m \in S : /\ tr2.left[to(m)] = to(tr.left[m])
                      /\ tr2.right[to(m)] = to(tr.right[m])
                      /\ tr2.parent[to(m)] = to(tr.parent[m])
      /\ tr2.root = to(tr.root)
  OBVIOUS
<1> HIDE DEF E, S2, to
<1>9. Splits(tr2, E)
  <2>1. ASSUME NEW m \in S
        PROVE  /\ E[to(m)] = {to(m)} \cup E[to(tr.left[m])] \cup E[to(tr.right[m])]
               /\ to(m) \notin E[to(tr.left[m])] /\ to(m) \notin E[to(tr.right[m])]
               /\ E[to(tr.left[m])] \cap E[to(tr.right[m])] = {}
    <3> DEFINE L == D[tr.left[m]]
               R == D[tr.right[m]]
    <3>1. /\ D[m] = {m} \cup L \cup R /\ L \cap R = {} /\ m \notin L /\ m \notin R
      BY DEF IsTree, Splits
    <3>2. D[m] \subseteq S
      BY <1>2
    <3>3. /\ E[to(m)] = RenamedIn(D[m], g, r) /\ E[to(tr.left[m])] = RenamedIn(L, g, r)
          /\ E[to(tr.right[m])] = RenamedIn(R, g, r)
      BY <1>2, <1>4
    <3> HIDE DEF L, R
    <3> QED
      BY <3>1, <3>2, <3>3 DEF RenamedIn, Renamed, to
  <2>2. ASSUME NEW y \in S2
        PROVE  /\ E[y] = {y} \cup E[tr2.left[y]] \cup E[tr2.right[y]]
               /\ y \notin E[tr2.left[y]] /\ y \notin E[tr2.right[y]]
               /\ E[tr2.left[y]] \cap E[tr2.right[y]] = {}
    <3>1. PICK m \in S : y = to(m)
      BY <1>5
    <3> QED
      BY <1>8, <2>1, <3>1
  <2> QED
    BY <1>6, <2>2 DEF Splits
<1>10. ChildrenAgree(tr2, E)
  <2>1. \A m \in S : /\ tr.left[m] # nullptr => tr.left[m] \in S /\ tr.parent[tr.left[m]] = m
                     /\ tr.right[m] # nullptr => tr.right[m] \in S /\ tr.parent[tr.right[m]] = m
    BY DEF IsTree, ChildrenAgree
  <2>2. ASSUME NEW y \in S2
        PROVE  /\ tr2.left[y] # nullptr => tr2.left[y] \in S2 /\ tr2.parent[tr2.left[y]] = y
               /\ tr2.right[y] # nullptr => tr2.right[y] \in S2 /\ tr2.parent[tr2.right[y]] = y
    <3>1. PICK m \in S : y = to(m)
      BY <1>5
    <3>2. /\ tr2.left[y] = to(tr.left[m]) /\ tr2.right[y] = to(tr.right[m])
          /\ tr.left[m] \in S \cup {nullptr} /\ tr.right[m] \in S \cup {nullptr}
      BY <1>2, <1>8, <3>1
    <3> QED
      BY <1>5, <1>8, <2>1, <3>1, <3>2
  <2> QED
    BY <1>6, <2>2 DEF ChildrenAgree
<1>11. RootOnTop(tr2, E)
  <2>1. tr.parent[tr.root] = nullptr
    BY <1>1 DEF IsTree, RootOnTop
  <2> QED
    BY <1>1, <1>5, <1>6, <1>8, <2>1 DEF RootOnTop
<1>12. ParentsAgree(tr2, E)
  <2>1. \A n \in S : n # tr.root => /\ tr.parent[n] \in S
                                    /\ n = tr.left[tr.parent[n]] \/ n = tr.right[tr.parent[n]]
    BY DEF IsTree, ParentsAgree
  <2>2. ASSUME NEW y \in S2, y # tr2.root
        PROVE  /\ tr2.parent[y] \in S2
               /\ y = tr2.left[tr2.parent[y]] \/ y = tr2.right[tr2.parent[y]]
    <3>1. PICK m \in S : y = to(m)
      BY <1>5
    <3>2. m # tr.root
      BY <1>8, <2>2, <3>1
    <3>3. tr2.parent[y] = to(tr.parent[m])
      BY <1>8, <3>1
    <3> QED
      BY <1>5, <1>8, <2>1, <3>1, <3>2, <3>3
  <2> QED
    BY <1>6, <2>2 DEF ParentsAgree
<1>13. Nested(tr2, E)
  <2>1. \A m \in S : \A n \in D[m] : D[n] \subseteq D[m] /\ (n # m => tr.parent[n] \in D[m])
    BY DEF IsTree, Nested
  <2>2. ASSUME NEW y \in S2, NEW z \in E[y]
        PROVE  E[z] \subseteq E[y] /\ (z # y => tr2.parent[z] \in E[y])
    <3>1. PICK m \in S : y = to(m)
      BY <1>5
    <3>2. PICK n \in D[m] : z = to(n)
      BY <1>7, <3>1
    <3>3. n \in S
      BY <1>2, <3>2
    <3>4. ASSUME NEW x \in E[z] PROVE x \in E[y]
      <4>1. PICK k \in D[n] : x = to(k)
        BY <1>7, <3>2, <3>3
      <4>2. k \in D[m] /\ k \in S
        BY <1>2, <2>1, <3>2, <3>3
      <4> QED
        BY <1>7, <3>1, <4>1, <4>2
    <3>5. ASSUME z # y PROVE tr2.parent[z] \in E[y]
      <4>1. tr.parent[n] \in D[m] /\ tr.parent[n] \in S
        BY <1>2, <2>1, <3>1, <3>2, <3>5
      <4> QED
        BY <1>7, <1>8, <3>1, <3>2, <3>3, <4>1
    <3> QED
      BY <3>4, <3>5
  <2> QED
    BY <1>6, <2>2 DEF Nested
<1>14. Ordered(tr2, E)
  <2>1. \A m \in S : /\ \A n \in D[tr.left[m]] : tr.data_[n] < tr.data_[m]
                     /\ \A n \in D[tr.right[m]] : tr.data_[m] <= tr.data_[n]
    BY DEF IsTree, Ordered
  <2>2. /\ \A n \in S \ {g} : tr2.data_[to(n)] = tr.data_[n]
        /\ to(g) = r
    BY DEF to, Renamed
  <2>3. g \notin D[tr.left[g]] /\ g \notin D[tr.right[g]]
    BY DEF IsTree, Splits
  <2>4. ASSUME NEW m \in S
        PROVE  /\ \A n \in D[tr.left[m]] : n \in S /\ tr2.data_[to(n)] < tr2.data_[to(m)]
               /\ \A n \in D[tr.right[m]] : n \in S /\ tr2.data_[to(m)] <= tr2.data_[to(n)]
    <3>1. D[tr.left[m]] \subseteq S /\ D[tr.right[m]] \subseteq S
      BY <1>2, <1>3
    <3>2. CASE m = g
      BY <2>2, <2>3, <3>1, <3>2
    <3>3. CASE m # g
      BY <2>1, <2>2, <3>1, <3>3
    <3> QED
      BY <3>2, <3>3
  <2>5. ASSUME NEW y \in S2
        PROVE  /\ \A z \in E[tr2.left[y]] : tr2.data_[z] < tr2.data_[y]
               /\ \A z \in E[tr2.right[y]] : tr2.data_[y] <= tr2.data_[z]
    <3>1. PICK m \in S : y = to(m)
      BY <1>5
    <3>2. /\ tr2.left[y] = to(tr.left[m]) /\ tr2.right[y] = to(tr.right[m])
          /\ tr.left[m] \in S \cup {nullptr} /\ tr.right[m] \in S \cup {nullptr}
      BY <1>2, <1>8, <3>1
    <3>3. /\ \A z \in E[tr2.left[y]] : \E n \in D[tr.left[m]] : z = to(n)
          /\ \A z \in E[tr2.right[y]] : \E n \in D[tr.right[m]] : z = to(n)
      BY <1>7, <3>2
    <3> QED
      BY <2>4, <3>1, <3>3
  <2> QED
    BY <1>6, <2>5 DEF Ordered
<1>15. IsTree(tr2, E)
  BY <1>4, <1>9, <1>10, <1>11, <1>12, <1>13, <1>14 DEF IsTree
<1> QED
  BY <1>6, <1>15 DEF E, S2

-----------------------------------------------------------------------------
(* The operators on pointers. *)

(* What no pointer of the tree leads to does not matter.                    *)
LEMMA OutsideIsFree ==
  ASSUME NEW tr, NEW D, IsTree(tr, D), NEW tr2 \in TreeRecords, tr2.root = tr.root,
         \A n \in Members(tr, D) :
            /\ tr2.left[n] = tr.left[n] /\ tr2.right[n] = tr.right[n]
            /\ tr2.parent[n] = tr.parent[n] /\ tr2.data_[n] = tr.data_[n]
  PROVE  IsTree(tr2, D) /\ Members(tr2, D) = Members(tr, D)
<1> DEFINE S == Members(tr, D)
<1>1. Members(tr2, D) = S
  BY DEF Members
<1>2. \A m \in S : m \in D[m] /\ D[m] \subseteq S
                   /\ tr.left[m] \in S \cup {nullptr} /\ tr.right[m] \in S \cup {nullptr}
  BY WithinTree
<1>3. Splits(tr2, D)
  BY <1>1 DEF IsTree, Splits
<1>4. ChildrenAgree(tr2, D)
  BY <1>1 DEF IsTree, ChildrenAgree
<1>5. RootOnTop(tr2, D)
  BY <1>1 DEF IsTree, RootOnTop
<1>6. ParentsAgree(tr2, D)
  BY <1>1 DEF IsTree, ParentsAgree
<1>7. Nested(tr2, D)
  BY <1>1, <1>2 DEF IsTree, Nested
<1>8. Ordered(tr2, D)
  <2>1. D[nullptr] = {}
    BY DEF IsTree, Shape
  <2>2. ASSUME NEW m \in S
        PROVE  /\ \A n \in D[tr2.left[m]] : tr2.data_[n] < tr2.data_[m]
               /\ \A n \in D[tr2.right[m]] : tr2.data_[m] <= tr2.data_[n]
    <3>1. D[tr.left[m]] \subseteq S /\ D[tr.right[m]] \subseteq S
      BY <1>2, <2>1
    <3> QED
      BY <3>1 DEF IsTree, Ordered
  <2> QED
    BY <1>1, <2>2 DEF Ordered
<1> QED
  BY <1>1, <1>3, <1>4, <1>5, <1>6, <1>7, <1>8 DEF IsTree

LEMMA TransplantFields ==
  ASSUME NEW tr \in TreeRecords, NEW source \in Nodes, NEW target \in Pointers
  PROVE  LET tr2 == transplant(tr, source, target)
             up == tr.parent[source]
         IN  /\ tr2 \in TreeRecords /\ tr2.data_ = tr.data_
             /\ tr2.root = IF up = nullptr THEN target ELSE tr.root
             /\ \A n \in Nodes :
                   /\ tr2.left[n] = IF n = up /\ tr.left[up] = source THEN target
                                    ELSE tr.left[n]
                   /\ tr2.right[n] = IF n = up /\ tr.left[up] # source THEN target
                                     ELSE tr.right[n]
                   /\ tr2.parent[n] = IF n = target THEN up ELSE tr.parent[n]
<1> DEFINE up == tr.parent[source]
           hung == CASE up = nullptr -> [tr EXCEPT !.root = target]
                     [] up # nullptr /\ source = tr.left[up] -> [tr EXCEPT !.left[up] = target]
                     [] OTHER -> [tr EXCEPT !.right[up] = target]
           tr2 == IF target = nullptr THEN hung ELSE [hung EXCEPT !.parent[target] = up]
<1>1. /\ up \in Pointers /\ nullptr \notin Nodes /\ Pointers = {nullptr} \cup Nodes
      /\ tr.root \in Pointers /\ tr.data_ \in [Nodes -> Keys \cup {0}]
      /\ tr.left \in [Nodes -> Pointers] /\ tr.right \in [Nodes -> Pointers]
      /\ tr.parent \in [Nodes -> Pointers]
  <2>1. nullptr \notin Nodes
    BY DEF Nodes, nullptr
  <2>2. /\ tr.root \in Pointers /\ tr.data_ \in [Nodes -> Keys \cup {0}]
        /\ tr.left \in [Nodes -> Pointers] /\ tr.right \in [Nodes -> Pointers]
        /\ tr.parent \in [Nodes -> Pointers]
    BY DEF TreeRecords
  <2> QED
    BY <2>1, <2>2 DEF Pointers
<1>2. /\ hung \in TreeRecords /\ hung.data_ = tr.data_ /\ hung.parent = tr.parent
      /\ hung.root = IF up = nullptr THEN target ELSE tr.root
      /\ \A n \in Nodes :
            /\ hung.left[n] = IF n = up /\ tr.left[up] = source THEN target ELSE tr.left[n]
            /\ hung.right[n] = IF n = up /\ tr.left[up] # source THEN target ELSE tr.right[n]
  <2>1. CASE up = nullptr
    <3>1. hung = [tr EXCEPT !.root = target]
      BY <2>1
    <3> QED
      BY <1>1, <2>1, <3>1 DEF TreeRecords
  <2>2. CASE up # nullptr /\ source = tr.left[up]
    <3>1. hung = [tr EXCEPT !.left[up] = target]
      BY <2>2
    <3> QED
      BY <1>1, <2>2, <3>1 DEF TreeRecords
  <2>3. CASE up # nullptr /\ source # tr.left[up]
    <3>1. hung = [tr EXCEPT !.right[up] = target]
      BY <2>3
    <3> QED
      BY <1>1, <2>3, <3>1 DEF TreeRecords
  <2> QED
    BY <2>1, <2>2, <2>3
<1> HIDE DEF hung
<1>3. /\ tr2 \in TreeRecords /\ tr2.data_ = hung.data_ /\ tr2.root = hung.root
      /\ tr2.left = hung.left /\ tr2.right = hung.right
      /\ \A n \in Nodes : tr2.parent[n] = IF n = target THEN up ELSE hung.parent[n]
  <2>1. CASE target = nullptr
    BY <1>1, <1>2, <2>1
  <2>2. CASE target # nullptr
    <3>1. tr2 = [hung EXCEPT !.parent[target] = up]
      BY <2>2
    <3> QED
      BY <1>1, <1>2, <2>2, <3>1 DEF TreeRecords
  <2> QED
    BY <2>1, <2>2
<1>4. tr2 = transplant(tr, source, target)
  BY DEF transplant, hung
<1> HIDE DEF tr2
<1> QED
  BY <1>2, <1>3, <1>4

(* transplant takes a node with one child at most out of the tree.          *)
LEMMA TransplantUnlinks ==
  ASSUME NEW tr, NEW D, IsTree(tr, D), NEW g \in Members(tr, D), NEW c,
         \/ tr.left[g] = nullptr /\ c = tr.right[g]
         \/ tr.right[g] = nullptr /\ c = tr.left[g]
  PROVE  LET tr2 == transplant(tr, g, c)
         IN  /\ IsTree(tr2, Without(D, g))
             /\ Members(tr2, Without(D, g)) = Members(tr, D) \ {g}
<1> DEFINE S == Members(tr, D)
           up == tr.parent[g]
<1>1. /\ S \subseteq Nodes /\ nullptr \notin Nodes /\ g # nullptr
      /\ c \in Pointers /\ tr \in TreeRecords
  BY WithinTree DEF IsTree
<1>2. /\ up = nullptr <=> g = tr.root
      /\ up # nullptr => tr.left[up] = g <=> tr.right[up] # g
      /\ \A m \in S : m # up => tr.left[m] # g /\ tr.right[m] # g
  BY AroundNode
<1> DEFINE tr2 == transplant(tr, g, c)
<1>3. /\ tr2 \in TreeRecords /\ tr2.data_ = tr.data_
      /\ tr2.root = IF up = nullptr THEN c ELSE tr.root
      /\ \A n \in Nodes :
            /\ tr2.left[n] = IF n = up /\ tr.left[up] = g THEN c ELSE tr.left[n]
            /\ tr2.right[n] = IF n = up /\ tr.left[up] # g THEN c ELSE tr.right[n]
            /\ tr2.parent[n] = IF n = c THEN up ELSE tr.parent[n]
  BY <1>1, TransplantFields
<1> HIDE DEF tr2
<1>4. ASSUME NEW n \in S \ {g}
      PROVE  /\ tr2.data_[n] = tr.data_[n]
             /\ tr2.left[n] = IF tr.left[n] = g THEN c ELSE tr.left[n]
             /\ tr2.right[n] = IF tr.right[n] = g THEN c ELSE tr.right[n]
             /\ tr2.parent[n] = IF n = c THEN up ELSE tr.parent[n]
  <2>1. n \in Nodes /\ n # nullptr
    BY <1>1
  <2>2. CASE n = up
    BY <1>2, <1>3, <2>1, <2>2
  <2>3. CASE n # up
    BY <1>2, <1>3, <2>1, <2>3
  <2> QED
    BY <2>2, <2>3
<1>5. tr2.root = IF g = tr.root THEN c ELSE tr.root
  BY <1>2, <1>3
<1>6. IsTree(tr2, Without(D, g)) /\ Members(tr2, Without(D, g)) = S \ {g}
  BY <1>3, <1>4, <1>5, UnlinkKeepsTree
<1> QED
  BY <1>6 DEF tr2
(* A node with two children replaced by the least of those to its right.    *)
LEMMA ReplaceKeepsTree ==
  ASSUME NEW D, IsTree(t, D), NEW g \in Members(t, D),
         \A n \in Members(t, D) : t.data_[n] \in Int,
         t.left[g] # nullptr, t.right[g] # nullptr,
         NEW r \in D[t.right[g]], t.left[r] = nullptr,
         \A n \in D[t.right[g]] : t.data_[r] <= t.data_[n]
  PROVE  LET tr2 == Deleted(Replaced(g, r), g)
             E == Swapped(Without(D, r), g, r)
         IN  /\ IsTree(tr2, E) /\ Members(tr2, E) = Members(t, D) \ {g}
             /\ \A n \in Nodes \ {g} : tr2.data_[n] = t.data_[n]
             /\ \A n \in Nodes \ Members(t, D) : /\ tr2.left[n] = t.left[n]
                                                 /\ tr2.right[n] = t.right[n]
             /\ tr2.left[g] = nullptr /\ tr2.right[g] = nullptr
<1> DEFINE S == Members(t, D)
           S1 == S \ {r}
           c == t.right[r]
           l == t.left[g]
           D1 == Without(D, r)
           out == transplant(t, r, c)
           taken == [out EXCEPT !.right[r] = out.right[g], !.parent[out.right[g]] = r]
           freed == IF t.parent[r] = g THEN t ELSE taken
           moved == transplant(freed, g, r)
           final == [moved EXCEPT !.left[r] = moved.left[g], !.parent[moved.left[g]] = r]
           tr2 == Deleted(final, g)
<1>1. /\ S \subseteq Nodes /\ nullptr \notin Nodes /\ g # nullptr
      /\ \A m \in S : /\ m \in D[m] /\ D[m] \subseteq S
                      /\ t.left[m] \in S \cup {nullptr} /\ t.right[m] \in S \cup {nullptr}
      /\ D[nullptr] = {}
  BY WithinTree DEF IsTree, Shape
<1>2. /\ D[g] = {g} \cup D[t.left[g]] \cup D[t.right[g]]
      /\ g \notin D[t.left[g]] /\ g \notin D[t.right[g]]
      /\ D[t.left[g]] \cap D[t.right[g]] = {}
  BY DEF IsTree, Splits
<1>3. r \in S /\ r # g /\ r \in D[g] /\ r \notin D[l] /\ l \in D[l] /\ l \in S /\ l # r /\ l # g
  BY <1>1, <1>2
<1>4. /\ D[r] = {r} \cup D[c] /\ r \notin D[c] /\ c \in S \cup {nullptr} /\ c # r
      /\ D[r] \subseteq D[t.right[g]]
  <2>1. D[r] = {r} \cup D[t.left[r]] \cup D[t.right[r]] /\ r \notin D[t.right[r]]
    BY <1>3 DEF IsTree, Splits
  <2>2. D[r] \subseteq D[t.right[g]]
    BY <1>1 DEF IsTree, Nested
  <2> QED
    BY <1>1, <1>3, <2>1, <2>2
<1>5. t \in TreeRecords /\ r \in Nodes /\ c \in Pointers /\ g \in Nodes /\ r \in Pointers
      /\ Nodes \subseteq Pointers
  BY <1>1, <1>3, <1>4 DEF IsTree, Pointers
<1>6. IsTree(out, D1) /\ Members(out, D1) = S1
  BY <1>3, TransplantUnlinks
<1>7. /\ out \in TreeRecords /\ out.data_ = t.data_
      /\ out.root = IF t.parent[r] = nullptr THEN c ELSE t.root
      /\ \A n \in Nodes :
            /\ out.left[n] = IF n = t.parent[r] /\ t.left[t.parent[r]] = r THEN c ELSE t.left[n]
            /\ out.right[n] = IF n = t.parent[r] /\ t.left[t.parent[r]] # r THEN c ELSE t.right[n]
            /\ out.parent[n] = IF n = c THEN t.parent[r] ELSE t.parent[n]
  <2> HIDE DEF c
  <2> QED
    BY <1>5, TransplantFields
<1>8. D1[nullptr] = {} /\ \A n \in Nodes : D1[n] = D[n] \ {r}
  <2>1. \A n \in Pointers : D1[n] = D[n] \ {r}
    BY DEF Without
  <2> QED
    BY <1>1, <1>5, <2>1 DEF Pointers
<1> HIDE DEF out, D1
<1>9. out.left[g] = l
  BY <1>3, <1>5, <1>7
<1>10. g \in S1 /\ r \notin S1 /\ l \in S1
  BY <1>3
(* The shape of out around g. *)
<1>11. /\ out.left[g] # out.right[g] /\ out.right[g] \in S1 \cup {nullptr}
       /\ out.parent[l] = g /\ (out.right[g] # nullptr => out.parent[out.right[g]] = g)
       /\ out.parent[g] \in S1 \cup {nullptr} /\ out.parent[g] # g
       /\ out.right[g] # g
  <2>1. l # nullptr /\ l # out.right[g] /\ out.right[g] \in S1 \cup {nullptr}
    BY <1>1, <1>6, <1>9, <1>10, WithinTree
  <2>2. out.parent[l] = g /\ (out.right[g] # nullptr => out.parent[out.right[g]] = g)
    BY <1>6, <1>9, <1>10, <2>1 DEF IsTree, ChildrenAgree
  <2>3. g \notin D1[out.right[g]] /\ g \in D1[g]
    BY <1>6, <1>10, WithinTree DEF IsTree, Splits
  <2>4. out.parent[g] \in S1 \cup {nullptr} /\ out.parent[g] # g
    BY <1>1, <1>6, <1>10, AroundNode
  <2> QED
    BY <1>9, <2>1, <2>2, <2>3, <2>4
<1>12. /\ freed \in TreeRecords /\ freed.data_ = t.data_ /\ freed.root = out.root
       /\ freed.right[r] = out.right[g]
       /\ \A n \in Nodes \ {r} : n # g => freed.right[n] = out.right[n]
       /\ \A n \in Nodes : freed.left[n] = out.left[n]
       /\ \A n \in S1 : freed.parent[n] = IF n = out.right[g] THEN r ELSE out.parent[n]
  <2>1. CASE t.parent[r] = g
    <3>1. freed = t
      BY <2>1
    <3>2. t.left[g] # r /\ t.right[g] = r
      <4>1. r # t.root
        BY <1>1, <2>1, WithinTree DEF IsTree, RootOnTop
      <4> QED
        BY <1>3, <2>1, <4>1 DEF IsTree, ParentsAgree
    <3>3. out.right[g] = c /\ out.root = t.root
      BY <1>1, <1>5, <1>7, <2>1, <3>2
    <3>4. \A n \in Nodes : /\ out.left[n] = t.left[n]
                           /\ n # g => out.right[n] = t.right[n]
                           /\ out.parent[n] = IF n = c THEN g ELSE t.parent[n]
      BY <1>7, <2>1, <3>2
    <3>5. c # nullptr => t.parent[c] = r
      BY <1>3 DEF IsTree, ChildrenAgree
    <3>6. \A n \in S1 : n \in Nodes /\ n # nullptr
      BY <1>1
    <3> QED
      BY <1>5, <3>1, <3>3, <3>4, <3>5, <3>6
  <2>2. CASE t.parent[r] # g
    <3>1. freed = taken
      BY <2>2
    <3>2. out.right[g] = t.right[g] /\ out.right[g] \in Nodes
      BY <1>1, <1>5, <1>7, <2>2
    <3>3. /\ out.right \in [Nodes -> Pointers] /\ out.parent \in [Nodes -> Pointers]
          /\ out.left \in [Nodes -> Pointers]
      BY <1>7 DEF TreeRecords
    <3> DEFINE d == out.right[g]
    <3>4. d \in Nodes /\ d \in Pointers
      BY <1>5, <3>2
    <3> HIDE DEF d
    <3>5. taken = [out EXCEPT !.right[r] = d, !.parent[d] = r]
      BY DEF d
    <3>6. /\ taken \in TreeRecords /\ taken.data_ = out.data_ /\ taken.root = out.root
          /\ taken.left = out.left
          /\ \A n \in Nodes : taken.right[n] = IF n = r THEN d ELSE out.right[n]
          /\ \A n \in Nodes : taken.parent[n] = IF n = d THEN r ELSE out.parent[n]
      BY <1>5, <1>7, <3>3, <3>4, <3>5 DEF TreeRecords
    <3> HIDE DEF taken
    <3>7. S1 \subseteq Nodes
      BY <1>1
    <3> QED
      BY <1>5, <1>7, <3>1, <3>6, <3>7 DEF d
  <2> QED
    BY <2>1, <2>2
<1> HIDE DEF freed
<1> DEFINE up == out.parent[g]
<1>13. freed.parent[g] = up
  BY <1>10, <1>11, <1>12
<1>14. /\ moved \in TreeRecords /\ moved.data_ = t.data_
       /\ moved.root = IF up = nullptr THEN r ELSE out.root
       /\ \A n \in Nodes :
             /\ moved.left[n] = IF n = up /\ out.left[up] = g THEN r ELSE out.left[n]
             /\ moved.right[n] = IF n = up /\ out.left[up] # g THEN r ELSE freed.right[n]
             /\ moved.parent[n] = IF n = r THEN up ELSE freed.parent[n]
  <2>1. /\ moved \in TreeRecords /\ moved.data_ = freed.data_
        /\ moved.root = IF up = nullptr THEN r ELSE freed.root
        /\ \A n \in Nodes :
              /\ moved.left[n] = IF n = up /\ freed.left[up] = g THEN r ELSE freed.left[n]
              /\ moved.right[n] = IF n = up /\ freed.left[up] # g THEN r ELSE freed.right[n]
              /\ moved.parent[n] = IF n = r THEN up ELSE freed.parent[n]
    <3> DEFINE v == freed.parent[g]
    <3>1. freed \in TreeRecords
      BY <1>12
    <3>2. /\ moved \in TreeRecords /\ moved.data_ = freed.data_
          /\ moved.root = IF v = nullptr THEN r ELSE freed.root
          /\ \A n \in Nodes :
                /\ moved.left[n] = IF n = v /\ freed.left[v] = g THEN r ELSE freed.left[n]
                /\ moved.right[n] = IF n = v /\ freed.left[v] # g THEN r ELSE freed.right[n]
                /\ moved.parent[n] = IF n = r THEN v ELSE freed.parent[n]
      BY <1>5, <3>1, TransplantFields
    <3>3. v = up
      BY <1>13
    <3> HIDE DEF v, up, moved
    <3> QED
      BY <3>2, <3>3
  <2> HIDE DEF moved
  <2> QED
    BY <1>12, <2>1
<1> HIDE DEF moved
<1>15. moved.left[g] = l
  BY <1>5, <1>9, <1>11, <1>14
<1>16. /\ final \in TreeRecords /\ final.data_ = t.data_ /\ final.root = moved.root
       /\ final.right = moved.right
       /\ \A n \in Nodes : final.left[n] = IF n = r THEN l ELSE moved.left[n]
       /\ \A n \in Nodes : final.parent[n] = IF n = l THEN r ELSE moved.parent[n]
  <2>1. /\ moved.left \in [Nodes -> Pointers] /\ moved.parent \in [Nodes -> Pointers]
        /\ l \in Nodes /\ l \in Pointers
    BY <1>1, <1>3, <1>5, <1>14 DEF TreeRecords
  <2> HIDE DEF l
  <2>2. final = [moved EXCEPT !.left[r] = l, !.parent[l] = r]
    BY <1>15
  <2> HIDE DEF final
  <2> QED
    BY <1>5, <1>14, <2>1, <2>2 DEF TreeRecords
<1> HIDE DEF final
<1>17. /\ tr2 \in TreeRecords /\ tr2.root = final.root
       /\ tr2.left[g] = nullptr /\ tr2.right[g] = nullptr
       /\ \A n \in Nodes \ {g} : /\ tr2.left[n] = final.left[n] /\ tr2.right[n] = final.right[n]
                                 /\ tr2.parent[n] = final.parent[n]
                                 /\ tr2.data_[n] = final.data_[n]
  <2>1. /\ final.left \in [Nodes -> Pointers] /\ final.parent \in [Nodes -> Pointers]
        /\ final.right \in [Nodes -> Pointers] /\ final.data_ \in [Nodes -> Keys \cup {0}]
        /\ nullptr \in Pointers
    BY <1>16 DEF TreeRecords, Pointers
  <2>2. tr2 = [final EXCEPT !.left[g] = nullptr, !.right[g] = nullptr,
                            !.parent[g] = nullptr, !.data_[g] = 0]
    BY DEF Deleted
  <2> HIDE DEF tr2
  <2> QED
    BY <1>5, <1>16, <2>1, <2>2 DEF TreeRecords
<1> HIDE DEF tr2
(* tr2 is out with r in the place of g. *)
<1>18. /\ up = nullptr <=> g = out.root
       /\ up # nullptr => out.left[up] = g <=> out.right[up] # g
       /\ \A m \in S1 : m # up => out.left[m] # g /\ out.right[m] # g
       /\ \A n \in S1 : n # g /\ n # out.left[g] /\ n # out.right[g] => out.parent[n] # g
  BY <1>6, <1>10, AroundNode
<1>19. tr2.root = Renamed(out.root, g, r)
  BY <1>14, <1>16, <1>17, <1>18 DEF Renamed
<1>20. ASSUME NEW n \in S1
       PROVE  /\ tr2.left[Renamed(n, g, r)] = Renamed(out.left[n], g, r)
              /\ tr2.right[Renamed(n, g, r)] = Renamed(out.right[n], g, r)
              /\ tr2.parent[Renamed(n, g, r)] = Renamed(out.parent[n], g, r)
  <2>1. CASE n = g
    <3>1. Renamed(n, g, r) = r
      BY <2>1 DEF Renamed
    <3>2. tr2.left[r] = l /\ l # g
      BY <1>3, <1>5, <1>16, <1>17
    <3>3. tr2.right[r] = out.right[g]
      <4>1. r # up
        BY <1>1, <1>5, <1>10, <1>11
      <4> QED
        BY <1>3, <1>5, <1>12, <1>14, <1>16, <1>17, <4>1
    <3>4. tr2.parent[r] = up
      BY <1>3, <1>5, <1>14, <1>16, <1>17
    <3> QED
      BY <1>9, <1>11, <2>1, <3>1, <3>2, <3>3, <3>4 DEF Renamed
  <2>2. CASE n # g
    <3>1. Renamed(n, g, r) = n /\ n \in Nodes \ {g} /\ n # r /\ n # nullptr
      BY <1>1, <2>2 DEF Renamed
    <3>2. tr2.left[n] = IF n = up /\ out.left[up] = g THEN r ELSE out.left[n]
      BY <1>14, <1>16, <1>17, <3>1
    <3>3. tr2.right[n] = IF n = up /\ out.left[up] # g THEN r ELSE out.right[n]
      BY <1>12, <1>14, <1>16, <1>17, <3>1
    <3>4. tr2.parent[n] = IF n = l THEN r ELSE IF n = out.right[g] THEN r ELSE out.parent[n]
      BY <1>12, <1>14, <1>16, <1>17, <3>1
    <3>5. tr2.left[n] = Renamed(out.left[n], g, r) /\ tr2.right[n] = Renamed(out.right[n], g, r)
      <4>1. CASE n = up
        BY <1>18, <3>1, <3>2, <3>3, <4>1 DEF Renamed
      <4>2. CASE n # up
        BY <1>18, <3>1, <3>2, <3>3, <4>2 DEF Renamed
      <4> QED
        BY <4>1, <4>2
    <3>6. tr2.parent[n] = Renamed(out.parent[n], g, r)
      BY <1>9, <1>11, <1>18, <3>1, <3>4 DEF Renamed
    <3> QED
      BY <3>1, <3>5, <3>6
  <2> QED
    BY <2>1, <2>2
<1>21. /\ \A n \in Nodes \ {g} : tr2.data_[n] = t.data_[n]
       /\ tr2.data_[r] = t.data_[r]
  BY <1>3, <1>5, <1>16, <1>17
<1>22. /\ \A m \in S : /\ \A n \in D[t.left[m]] : t.data_[n] < t.data_[m]
                       /\ \A n \in D[t.right[m]] : t.data_[m] <= t.data_[n]
  BY DEF IsTree, Ordered
<1>23. \A n \in D1[out.left[g]] : out.data_[n] < tr2.data_[r]
  <2>1. ASSUME NEW n \in D[l] PROVE t.data_[n] < t.data_[r]
    <3>1. t.data_[n] < t.data_[g] /\ t.data_[g] <= t.data_[r]
      BY <1>22
    <3>2. n \in S /\ t.data_[n] \in Int /\ t.data_[g] \in Int /\ t.data_[r] \in Int
      BY <1>1, <1>3
    <3> QED
      BY <3>1, <3>2
  <2>2. D1[l] = D[l] \ {r}
    BY <1>1, <1>3, <1>8
  <2> QED
    BY <1>7, <1>9, <1>21, <2>1, <2>2
<1>24. \A n \in D1[out.right[g]] : tr2.data_[r] <= out.data_[n]
  <2>1. /\ D1[g] = {g} \cup D1[out.left[g]] \cup D1[out.right[g]]
        /\ g \notin D1[out.right[g]] /\ D1[out.left[g]] \cap D1[out.right[g]] = {}
    BY <1>6, <1>10 DEF IsTree, Splits
  <2>2. D1[g] = D[g] \ {r} /\ D1[l] = D[l] \ {r}
    BY <1>1, <1>3, <1>5, <1>8
  <2>3. D1[out.right[g]] \subseteq D[t.right[g]]
    BY <1>2, <1>9, <2>1, <2>2
  <2> QED
    BY <1>7, <1>21, <2>3
<1>25. ASSUME NEW m \in S1
       PROVE  /\ g \in D1[out.left[m]] => tr2.data_[r] < out.data_[m]
              /\ g \in D1[out.right[m]] => out.data_[m] <= tr2.data_[r]
  <2>1. \A x \in S \cup {nullptr} : g \in D1[x] => x # nullptr /\ g \in D[x]
    BY <1>1, <1>8
  <2>2. g \notin D[c]
    BY <1>2, <1>4
  <2>3. /\ out.left[m] = c \/ out.left[m] = t.left[m]
        /\ out.right[m] = c \/ out.right[m] = t.right[m]
        /\ t.left[m] \in S \cup {nullptr} /\ t.right[m] \in S \cup {nullptr}
    BY <1>1, <1>7
  <2>4. ASSUME NEW x \in S, g \in D[x] PROVE r \in D[x]
    <3>1. D[g] \subseteq D[x]
      BY <2>4 DEF IsTree, Nested
    <3> QED
      BY <1>3, <3>1
  <2>5. g \in D1[out.left[m]] => r \in D[t.left[m]]
    BY <1>4, <2>1, <2>2, <2>3, <2>4
  <2>6. g \in D1[out.right[m]] => r \in D[t.right[m]]
    BY <1>4, <2>1, <2>2, <2>3, <2>4
  <2> QED
    BY <1>7, <1>21, <1>22, <2>5, <2>6
<1>26. \A n \in S1 \ {g} : tr2.data_[n] = out.data_[n]
  BY <1>1, <1>7, <1>21
<1> DEFINE E == Swapped(D1, g, r)
<1>27. IsTree(tr2, E) /\ Members(tr2, E) = (S1 \ {g}) \cup {r}
  <2> DEFINE M == Members(out, D1)
  <2>1. IsTree(out, D1) /\ g \in M /\ r \in Nodes /\ r \notin M /\ tr2 \in TreeRecords
    BY <1>5, <1>6, <1>10, <1>17
  <2>2. \A n \in M : /\ tr2.left[Renamed(n, g, r)] = Renamed(out.left[n], g, r)
                     /\ tr2.right[Renamed(n, g, r)] = Renamed(out.right[n], g, r)
                     /\ tr2.parent[Renamed(n, g, r)] = Renamed(out.parent[n], g, r)
    BY <1>6, <1>20
  <2>3. \A n \in M \ {g} : tr2.data_[n] = out.data_[n]
    BY <1>6, <1>26
  <2>4. \A m \in M : /\ g \in D1[out.left[m]] => tr2.data_[r] < out.data_[m]
                     /\ g \in D1[out.right[m]] => out.data_[m] <= tr2.data_[r]
    BY <1>6, <1>25
  <2> HIDE DEF S, S1, c, l, up
  <2>5. IsTree(tr2, E) /\ Members(tr2, E) = (M \ {g}) \cup {r}
    BY <1>19, <1>23, <1>24, <2>1, <2>2, <2>3, <2>4, SwapKeepsTree
  <2> QED
    BY <1>6, <2>5
<1>28. (S1 \ {g}) \cup {r} = S \ {g}
  BY <1>3
<1>29. ASSUME NEW n \in Nodes \ S PROVE tr2.left[n] = t.left[n] /\ tr2.right[n] = t.right[n]
  <2>1. n # g /\ n # r /\ n # up /\ n # t.parent[r]
    <3>1. t.parent[r] \in S \cup {nullptr}
      BY <1>1, <1>3, AroundNode
    <3> QED
      BY <1>1, <1>3, <1>11, <3>1
  <2> QED
    BY <1>7, <1>12, <1>14, <1>16, <1>17, <2>1
<1>30. tr2 = Deleted(Replaced(g, r), g)
  BY DEF tr2, final, moved, freed, taken, out, Replaced
<1> HIDE DEF E
<1>31. E = Swapped(Without(D, r), g, r)
  BY DEF E, D1
<1> QED
  BY <1>17, <1>21, <1>27, <1>28, <1>29, <1>30, <1>31
-----------------------------------------------------------------------------
(* The invariant: where an operation under way has got to. *)

Toward(key, n) == IF key < t.data_[n] THEN t.left[n] ELSE t.right[n]

(* p is where the way down for the new key leads so far, and now is next.   *)
Inserting(D) ==
    LET key == t.data_[call.new]
        M == Members(t, D)
    IN  /\ call \in InsertCalls
        /\ live = M \cup {call.new} /\ call.new \notin M
        /\ t.left[call.new] = nullptr /\ t.right[call.new] = nullptr
        /\ call.p = nullptr => call.now = t.root
        /\ call.p # nullptr =>
              /\ call.p \in M /\ call.now = Toward(key, call.p)
              /\ \A m \in M : /\ call.p \in D[t.left[m]] => key < t.data_[m]
                              /\ call.p \in D[t.right[m]] => t.data_[m] <= key

(* Every node with the key looked for is still below now.                   *)
Searching(D) ==
    /\ call \in SearchCalls /\ live = Members(t, D)
    /\ call.now \in Members(t, D) \cup {nullptr}
    /\ \A n \in Members(t, D) : t.data_[n] = call.key => n \in D[call.now]

(* What is right of the target is below node or not smaller than it.        *)
Replacing(D) ==
    /\ call \in MinimunCalls /\ live = Members(t, D)
    /\ call.target \in Members(t, D)
    /\ t.left[call.target] # nullptr /\ t.right[call.target] # nullptr
    /\ call.node \in D[t.right[call.target]]
    /\ \A n \in D[t.right[call.target]] :
          n \in D[call.node] \/ t.data_[call.node] <= t.data_[n]

(* What has not been printed: what is below now, and the nodes that wait    *)
(* for their left parts with all to the right of them.                      *)
ToPrint(D) ==
    {n \in Members(t, D) :
        \/ n \in D[call.now]
        \/ \E j \in DOMAIN call.calls : n = call.calls[j] \/ n \in D[t.right[call.calls[j]]]}

PrintedOf(k) == {j \in DOMAIN call.keys : call.keys[j] = k}

(* Each call is made for the left part of the one before.                   *)
CallsDescend(D) ==
    \A j \in DOMAIN call.calls :
        /\ call.calls[j] \in Members(t, D)
        /\ call.now \in D[t.left[call.calls[j]]] \cup {nullptr}
        /\ \A k \in DOMAIN call.calls : j < k => call.calls[k] \in D[t.left[call.calls[j]]]

Printing(D) ==
    /\ call \in PrintCalls /\ live = Members(t, D)
    /\ call.now \in Members(t, D) \cup {nullptr}
    /\ CallsDescend(D)
    /\ \A j \in DOMAIN call.keys : \A n \in ToPrint(D) : call.keys[j] <= t.data_[n]
    /\ \A j \in 1 .. Len(call.keys) - 1 : call.keys[j] <= call.keys[j + 1]
    /\ \A k \in Keys : Cardinality(PrintedOf(k)) =
                       Cardinality({n \in Members(t, D) \ ToPrint(D) : t.data_[n] = k})

(* What is alive is below now, or waits, or is right of a node that waits   *)
(* for its left part.                                                       *)
Destroying(D) ==
    /\ call \in DestroyCalls
    /\ call.now \in Members(t, D) \cup {nullptr}
    /\ \A j \in DOMAIN call.calls : call.calls[j].node \in Members(t, D)
    /\ \A n \in live : \/ n \in D[call.now]
                       \/ \E j \in DOMAIN call.calls :
                             LET w == call.calls[j]
                             IN  n = w.node \/ (w.side = "left" /\ n \in D[t.right[w.node]])

Placed(D) ==
    /\ call.at \in {"idle", "insert", "search", "remove", "minimun", "inorderPrint", "destroy"}
    /\ call.at = "idle" => call = Idle /\ live = Members(t, D)
    /\ call.at = "insert" => Inserting(D)
    /\ call.at \in {"search", "remove"} => Searching(D)
    /\ call.at = "minimun" => Replacing(D)
    /\ call.at = "inorderPrint" => Printing(D)
    /\ call.at = "destroy" => Destroying(D)

HeapAgrees ==
    /\ live \subseteq Nodes
    /\ \A n \in live : t.data_[n] \in Keys
    /\ call.at # "destroy" => \A n \in Nodes \ live : t.left[n] = nullptr /\ t.right[n] = nullptr

(* While an operation is under way the last answer is forgotten.            *)
Forgotten == call.at # "idle" => answer = NoAnswer

Fits(D) == HeapAgrees /\ IsTree(t, D) /\ Placed(D) /\ Forgotten

Inv == \E D : Fits(D)

(* A step keeps the invariant and does what a bag of keys may do.           *)
Follows == Inv' /\ [Promise!Next]_<<Bag, answer>>

LEMMA SameBag ==
  ASSUME \A k \in Keys : Held(k)' = Held(k)
  PROVE  Bag' = Bag
  BY DEF Bag

LEMMA InvTyped ==
  ASSUME Inv
  PROVE  TypeOK
<1>1. PICK D : Fits(D)
  BY DEF Inv
<1>2. t \in TreeRecords /\ live \subseteq Nodes
  BY <1>1 DEF Fits, IsTree, HeapAgrees
<1>3. call \in {Idle} \cup InsertCalls \cup SearchCalls \cup MinimunCalls
                 \cup PrintCalls \cup DestroyCalls
  BY <1>1 DEF Fits, Placed, Inserting, Searching, Replacing, Printing, Destroying
<1> QED
  BY <1>2, <1>3 DEF TypeOK

LEMMA LowestFree ==
  ASSUME ConstantsOK, live \subseteq Nodes, live # Nodes
  PROVE  Min(Nodes \ live) \in Nodes \ live
<1> DEFINE S == Nodes \ live
           R == {ss \in Nat \X Nat : ss[1] < ss[2]}
<1>1. S \in SUBSET Nat /\ S # {}
  <2>1. Nodes \subseteq Nat
    BY DEF Nodes
  <2> QED
    BY <2>1
<1>2. IsWellFoundedOn(R, Nat)
  BY NatLessThanWellFounded, Zenon DEF OpToRel
<1>3. \A x, m \in S : <<x, m>> \notin R => m <= x
  BY <1>1
<1> HIDE DEF R
<1>4. PICK m \in S : \A x \in S : <<x, m>> \notin R
  BY <1>1, <1>2, WFMin, Zenon
<1>5. \A x \in S : m <= x
  BY <1>3, <1>4
<1> QED
  BY <1>4, <1>5 DEF Min

-----------------------------------------------------------------------------
(* insert *)

LEMMA InsertFollows ==
  ASSUME ConstantsOK, NEW D, Fits(D), NEW key \in Keys, insert(key)
  PROVE  Follows
<1> DEFINE new == Min(Nodes \ live)
<1>1. call = Idle /\ live # Nodes /\ live' = live \cup {new}
      /\ t' = [t EXCEPT !.data_[new] = key]
      /\ call' = [at |-> "insert", new |-> new, p |-> nullptr, now |-> t.root]
      /\ answer' = NoAnswer
  BY DEF insert
<1>2. /\ live = Members(t, D) /\ IsTree(t, D) /\ HeapAgrees /\ live \subseteq Nodes
      /\ t \in TreeRecords
  BY <1>1 DEF Fits, Placed, Idle, IsTree, HeapAgrees
<1>3. new \in Nodes \ live
  BY <1>1, <1>2, LowestFree
<1> HIDE DEF new
<1>4. /\ t' \in TreeRecords /\ t'.root = t.root /\ t'.left = t.left /\ t'.right = t.right
      /\ t'.parent = t.parent
      /\ \A n \in Nodes : t'.data_[n] = IF n = new THEN key ELSE t.data_[n]
  BY <1>1, <1>2, <1>3 DEF TreeRecords
<1>5. IsTree(t', D) /\ Members(t', D) = Members(t, D)
  BY <1>2, <1>3, <1>4, OutsideIsFree
<1>6. HeapAgrees'
  BY <1>1, <1>2, <1>3, <1>4 DEF HeapAgrees, Idle
<1>7. Inserting(D)'
  <2>1. nullptr \in Pointers /\ t.root \in Pointers
    BY <1>2 DEF Pointers, TreeRecords
  <2>2. call' \in InsertCalls
    BY <1>1, <1>3, <2>1 DEF InsertCalls
  <2>3. t'.left[new] = nullptr /\ t'.right[new] = nullptr
    BY <1>1, <1>2, <1>3, <1>4 DEF HeapAgrees, Idle
  <2> QED
    BY <1>1, <1>2, <1>3, <1>4, <1>5, <2>2, <2>3 DEF Inserting
<1>8. Inv'
  BY <1>1, <1>5, <1>6, <1>7 DEF Inv, Fits, Forgotten, Placed
<1>9. Promise!Insert(key)
  <2>1. Held(key)' = Held(key) \cup {new}
    BY <1>1, <1>2, <1>3, <1>4 DEF Held, Idle
  <2>2. \A k \in Keys : k # key => Held(k)' = Held(k)
    BY <1>1, <1>2, <1>3, <1>4 DEF Held, Idle
  <2>3. IsFiniteSet(Held(key)) /\ new \notin Held(key)
    <3>1. IsFiniteSet(Nodes)
      BY FS_Interval DEF Nodes, ConstantsOK
    <3> QED
      BY <1>2, <1>3, <3>1, FS_Subset DEF Held
  <2>4. Cardinality(Held(key)') = Cardinality(Held(key)) + 1
    BY <2>1, <2>3, FS_AddElement
  <2>5. Bag' = [Bag EXCEPT ![key] = @ + 1]
    BY <2>2, <2>4 DEF Bag
  <2> QED
    BY <1>1, <2>5 DEF Promise!Insert, NoAnswer, Promise!NoAnswer
<1> QED
  BY <1>8, <1>9 DEF Follows, Promise!Next

LEMMA InsertDownFollows ==
  ASSUME ConstantsOK, NEW D, Fits(D), insertDown
  PROVE  Follows
<1> DEFINE M == Members(t, D)
           key == t.data_[call.new]
           now == call.now
<1>1. /\ call.at = "insert" /\ now # nullptr /\ t' = t /\ live' = live /\ answer' = answer
      /\ call' = [call EXCEPT !.p = now, !.now = Toward(key, now)]
  BY DEF insertDown, Toward
<1>2. Inserting(D) /\ IsTree(t, D) /\ HeapAgrees
  BY <1>1 DEF Fits, Placed
<1>3. call \in InsertCalls
  BY <1>2 DEF Inserting
<1>4. now \in M
  <2>1. CASE call.p = nullptr
    BY <1>1, <1>2, <2>1, WithinTree DEF Inserting
  <2>2. CASE call.p # nullptr
    BY <1>1, <1>2, <2>2, WithinTree DEF Inserting, Toward
  <2> QED
    BY <2>1, <2>2
<1>5. Toward(key, now) \in Pointers /\ now \in Pointers
  BY <1>2, <1>3, <1>4, WithinTree DEF Toward, InsertCalls
<1>6. call' = [at |-> "insert", new |-> call.new, p |-> now, now |-> Toward(key, now)]
  BY <1>1, <1>3 DEF InsertCalls
<1>7. ASSUME NEW m \in M
      PROVE  /\ now \in D[t.left[m]] => key < t.data_[m]
             /\ now \in D[t.right[m]] => t.data_[m] <= key
  <2>1. /\ m \in D[m] /\ D[m] \subseteq M /\ nullptr \notin M
        /\ t.left[m] \in M \cup {nullptr} /\ t.right[m] \in M \cup {nullptr}
        /\ t.left[m] # nullptr => t.left[m] # t.right[m]
        /\ m \notin D[t.left[m]] /\ m \notin D[t.right[m]]
        /\ D[t.left[m]] \cap D[t.right[m]] = {}
        /\ D[nullptr] = {}
    BY <1>2, WithinTree DEF IsTree, Splits, Shape
  <2>2. CASE call.p = nullptr
    <3>1. now = t.root /\ M = D[t.root]
      BY <1>2, <2>2 DEF Inserting, Members
    <3>2. \A x \in M : now \in D[x] => M \subseteq D[x]
      BY <1>2, <3>1 DEF IsTree, Nested
    <3> QED
      BY <2>1, <3>2
  <2>3. CASE call.p # nullptr
    <3>1. call.p \in M /\ now = Toward(key, call.p)
          /\ (call.p \in D[t.left[m]] => key < t.data_[m])
          /\ (call.p \in D[t.right[m]] => t.data_[m] <= key)
      BY <1>2, <2>3 DEF Inserting
    <3>2. t.parent[now] = call.p
      BY <1>1, <1>2, <3>1 DEF IsTree, ChildrenAgree, Toward
    <3>3. CASE m = call.p
      <4>1. now = IF key < t.data_[m] THEN t.left[m] ELSE t.right[m]
        BY <3>1, <3>3 DEF Toward
      <4>2. key \in Int /\ t.data_[m] \in Int
        BY <1>2, <3>1 DEF Inserting, HeapAgrees, ConstantsOK
      <4>3. now \in D[now]
        BY <1>2, <1>4, WithinTree
      <4> QED
        BY <1>1, <2>1, <4>1, <4>2, <4>3
    <3>4. CASE m # call.p
      <4>1. ASSUME NEW x \in M, t.parent[x] = m, now \in D[x] PROVE call.p \in D[x]
        <5>1. now # x
          BY <3>2, <3>4, <4>1
        <5> QED
          BY <1>2, <3>2, <4>1, <5>1 DEF IsTree, Nested
      <4>2. /\ t.left[m] # nullptr => t.parent[t.left[m]] = m
            /\ t.right[m] # nullptr => t.parent[t.right[m]] = m
        BY <1>2 DEF IsTree, ChildrenAgree
      <4> QED
        BY <2>1, <3>1, <4>1, <4>2
    <3> QED
      BY <3>3, <3>4
  <2> QED
    BY <2>2, <2>3
<1>8. Inserting(D)'
  <2>1. call' \in InsertCalls
    BY <1>3, <1>5, <1>6 DEF InsertCalls
  <2> HIDE DEF now, key
  <2>2. call'.new = call.new /\ call'.p = now /\ call'.now = Toward(key, now) /\ now # nullptr
    BY <1>1, <1>6
  <2>3. t' = t /\ live' = live /\ key = t.data_[call.new]
    BY <1>1 DEF key
  <2>4. Members(t', D) = M
    BY <1>1
  <2> QED
    BY <1>2, <1>4, <1>7, <2>1, <2>2, <2>3, <2>4 DEF Inserting, Toward
<1>9. HeapAgrees' /\ IsTree(t', D) /\ call'.at = "insert"
  BY <1>1, <1>2, <1>6 DEF HeapAgrees
<1>10. Inv'
  BY <1>1, <1>8, <1>9 DEF Inv, Fits, Forgotten, Placed
<1>11. Bag' = Bag
  BY <1>1, <1>9, SameBag DEF Held
<1> QED
  BY <1>1, <1>10, <1>11 DEF Follows
LEMMA InsertLinkFollows ==
  ASSUME ConstantsOK, NEW D, Fits(D), insertLink
  PROVE  Follows
<1> DEFINE M == Members(t, D)
           new == call.new
           p == call.p
           onLeft == t.data_[p] > t.data_[new]
<1>1. /\ call.at = "insert" /\ call.now = nullptr /\ live' = live /\ answer' = answer
      /\ t' = Linked(new, p) /\ call' = Idle
  BY DEF insertLink
<1>2. Inserting(D) /\ IsTree(t, D) /\ HeapAgrees
  BY <1>1 DEF Fits, Placed
<1>3. /\ call \in InsertCalls /\ live = M \cup {new} /\ new \notin M
      /\ t.left[new] = nullptr /\ t.right[new] = nullptr
      /\ new \in Nodes /\ new \in Pointers /\ p \in M \cup {nullptr} /\ p \in Pointers
      /\ p = nullptr => t.root = nullptr
  BY <1>1, <1>2 DEF Inserting, InsertCalls, Pointers
<1>4. M \subseteq Nodes /\ nullptr \notin Nodes
  BY <1>2, WithinTree
<1>5. t.data_[new] \in Int /\ (p # nullptr => t.data_[p] \in Int)
  BY <1>2, <1>3 DEF HeapAgrees, ConstantsOK
<1>6. p # nullptr => /\ (IF onLeft THEN t.left[p] ELSE t.right[p]) = nullptr
                     /\ IF onLeft THEN t.data_[new] < t.data_[p] ELSE t.data_[p] <= t.data_[new]
  BY <1>1, <1>2, <1>5 DEF Inserting, Toward
<1>7. ASSUME NEW m \in M
      PROVE  /\ p \in D[t.left[m]] => t.data_[new] < t.data_[m]
             /\ p \in D[t.right[m]] => t.data_[m] <= t.data_[new]
  <2>1. CASE p = nullptr
    <3>1. M = {}
      BY <1>2, <1>3, <2>1 DEF Members, IsTree, Shape
    <3> QED
      BY <3>1
  <2>2. CASE p # nullptr
    BY <1>2, <2>2 DEF Inserting
  <2> QED
    BY <2>1, <2>2
<1>8. /\ t' \in TreeRecords /\ t'.data_ = t.data_
      /\ t'.root = IF p = nullptr THEN new ELSE t.root
      /\ \A n \in Nodes :
            /\ t'.left[n] = IF n = p /\ onLeft THEN new ELSE t.left[n]
            /\ t'.right[n] = IF n = p /\ ~onLeft THEN new ELSE t.right[n]
            /\ t'.parent[n] = IF n = new THEN p ELSE t.parent[n]
  <2> DEFINE up == [t EXCEPT !.parent[new] = p]
  <2>1. /\ up \in TreeRecords /\ up.data_ = t.data_ /\ up.root = t.root
        /\ up.left = t.left /\ up.right = t.right
        /\ up.left \in [Nodes -> Pointers] /\ up.right \in [Nodes -> Pointers]
        /\ \A n \in Nodes : up.parent[n] = IF n = new THEN p ELSE t.parent[n]
    <3>1. t \in TreeRecords
      BY <1>2 DEF IsTree
    <3> QED
      BY <1>3, <3>1 DEF TreeRecords
  <2>2. t' = CASE p = nullptr -> [up EXCEPT !.root = new]
               [] p # nullptr /\ onLeft -> [up EXCEPT !.left[p] = new]
               [] OTHER -> [up EXCEPT !.right[p] = new]
    BY <1>1 DEF Linked
  <2> HIDE DEF up, new, p, onLeft
  <2>3. CASE p = nullptr
    <3>1. t' = [up EXCEPT !.root = new]
      BY <2>2, <2>3
    <3> QED
      BY <1>3, <1>4, <2>1, <2>3, <3>1 DEF TreeRecords
  <2>4. CASE p # nullptr /\ onLeft
    <3>1. t' = [up EXCEPT !.left[p] = new]
      BY <2>2, <2>4
    <3> QED
      BY <1>3, <1>4, <2>1, <2>4, <3>1 DEF TreeRecords
  <2>5. CASE p # nullptr /\ ~onLeft
    <3>1. t' = [up EXCEPT !.right[p] = new]
      BY <2>2, <2>5
    <3> QED
      BY <1>3, <1>4, <2>1, <2>5, <3>1 DEF TreeRecords
  <2> QED
    BY <2>3, <2>4, <2>5
<1> DEFINE E == Grown(D, p, new)
<1>9. IsTree(t', E) /\ Members(t', E) = M \cup {new}
  <2>1. onLeft \in BOOLEAN
    BY <1>5
  <2> HIDE DEF onLeft, new, p
  <2> QED
    BY <1>2, <1>3, <1>6, <1>7, <1>8, <2>1, LeafKeepsTree
<1> HIDE DEF E
<1>10. HeapAgrees'
  <2>1. \A n \in Nodes \ live : n # p
    BY <1>3, <1>4
  <2> QED
    BY <1>1, <1>2, <1>8, <2>1 DEF HeapAgrees, Idle
<1>11. Inv'
  BY <1>1, <1>3, <1>9, <1>10 DEF Inv, Fits, Forgotten, Placed, Idle
<1>12. Bag' = Bag
  BY <1>1, <1>8, SameBag DEF Held, Idle
<1> QED
  BY <1>1, <1>11, <1>12 DEF Follows

-----------------------------------------------------------------------------
(* search, and the search that remove begins with *)

(* A call that has only begun.                                              *)
LEMMA BeginFollows ==
  ASSUME NEW D, Fits(D), call = Idle, UNCHANGED <<t, live>>, answer' = NoAnswer,
         Placed(D)', call'.at # "destroy"
  PROVE  Follows
<1>1. HeapAgrees' /\ IsTree(t', D)
  BY DEF Fits, HeapAgrees, Idle
<1>2. Inv'
  BY <1>1 DEF Inv, Fits, Forgotten
<1>3. Bag' = Bag
  BY SameBag DEF Held, Idle
<1> QED
  BY <1>2, <1>3 DEF Follows, Promise!Next, Promise!Begin, NoAnswer, Promise!NoAnswer

LEMMA SearchFollows ==
  ASSUME ConstantsOK, NEW D, Fits(D), NEW key \in Keys, search(key) \/ remove(key)
  PROVE  Follows
<1>1. /\ call = Idle /\ t' = t /\ live' = live /\ answer' = NoAnswer
      /\ call' \in [at : {"search", "remove"}, key : {key}, now : {t.root}]
  BY DEF search, remove
<1>2. live = Members(t, D) /\ IsTree(t, D) /\ t.root \in Pointers
  BY <1>1, WithinTree DEF Fits, Placed, Idle
<1>3. Searching(D)'
  <2>1. t.root \in Members(t, D) \cup {nullptr}
    BY <1>2, WithinTree
  <2>2. call' \in SearchCalls /\ call'.now = t.root
    BY <1>1, <1>2 DEF SearchCalls
  <2> QED
    BY <1>1, <1>2, <2>1, <2>2 DEF Searching, Members
<1>4. Placed(D)'
  BY <1>1, <1>3 DEF Placed
<1> QED
  BY <1>1, <1>4, BeginFollows

LEMMA SearchDownFollows ==
  ASSUME ConstantsOK, NEW D, Fits(D), searchDown
  PROVE  Follows
<1> DEFINE M == Members(t, D)
           now == call.now
           next == IF t.data_[now] < call.key THEN t.right[now] ELSE t.left[now]
<1>1. /\ call.at \in {"search", "remove"} /\ now # nullptr /\ t.data_[now] # call.key
      /\ t' = t /\ live' = live /\ answer' = answer /\ call' = [call EXCEPT !.now = next]
  BY DEF searchDown, Stopped
<1>2. Searching(D) /\ IsTree(t, D) /\ HeapAgrees
  BY <1>1 DEF Fits, Placed
<1>3. call \in SearchCalls /\ now \in M /\ live = M
  BY <1>1, <1>2 DEF Searching
<1>4. next \in M \cup {nullptr} /\ next \in Pointers
  BY <1>2, <1>3, WithinTree
<1>5. call' = [at |-> call.at, key |-> call.key, now |-> next]
  BY <1>1, <1>3 DEF SearchCalls
<1>6. ASSUME NEW n \in M, t.data_[n] = call.key PROVE n \in D[next]
  <2>1. n \in D[now]
    BY <1>2, <1>6 DEF Searching
  <2>2. D[now] = {now} \cup D[t.left[now]] \cup D[t.right[now]]
    BY <1>2, <1>3 DEF IsTree, Splits
  <2>3. /\ n \in D[t.left[now]] => t.data_[n] < t.data_[now]
        /\ n \in D[t.right[now]] => t.data_[now] <= t.data_[n]
    BY <1>2, <1>3 DEF IsTree, Ordered
  <2>4. t.data_[now] \in Int /\ call.key \in Int
    BY <1>2, <1>3 DEF HeapAgrees, ConstantsOK, SearchCalls
  <2>5. CASE t.data_[now] < call.key
    BY <1>1, <1>6, <2>1, <2>2, <2>3, <2>4, <2>5
  <2>6. CASE ~(t.data_[now] < call.key)
    BY <1>1, <1>6, <2>1, <2>2, <2>3, <2>4, <2>6
  <2> QED
    BY <2>5, <2>6
<1> HIDE DEF next
<1>7. Searching(D)'
  <2>1. call' \in SearchCalls /\ call'.now = next /\ call'.key = call.key
    BY <1>3, <1>4, <1>5 DEF SearchCalls
  <2> QED
    BY <1>1, <1>3, <1>4, <1>6, <2>1 DEF Searching
<1>8. HeapAgrees' /\ IsTree(t', D) /\ call'.at \in {"search", "remove"}
  BY <1>1, <1>2, <1>5 DEF HeapAgrees
<1>9. Inv'
  BY <1>1, <1>7, <1>8 DEF Inv, Fits, Forgotten, Placed
<1>10. Bag' = Bag
  BY <1>1, <1>8, SameBag DEF Held
<1> QED
  BY <1>1, <1>9, <1>10 DEF Follows

LEMMA HeldIsFinite ==
  ASSUME ConstantsOK, live \subseteq Nodes, NEW k
  PROVE  IsFiniteSet(Held(k))
<1>1. IsFiniteSet(Nodes)
  BY FS_Interval DEF Nodes, ConstantsOK
<1> QED
  BY <1>1, FS_Subset DEF Held

(* A call that returns without changing the tree.                           *)
LEMMA ReturnKeeps ==
  ASSUME NEW D, Fits(D), call.at # "destroy", live = Members(t, D),
         UNCHANGED <<t, live>>, call' = Idle
  PROVE  Inv' /\ Bag' = Bag
<1>1. HeapAgrees' /\ IsTree(t', D) /\ Placed(D)'
  BY DEF Fits, HeapAgrees, Idle, Placed
<1>2. Bag' = Bag
  BY SameBag DEF Held, Idle
<1> QED
  BY <1>1, <1>2 DEF Inv, Fits, Forgotten, Idle

LEMMA SearchReturnFollows ==
  ASSUME ConstantsOK, NEW D, Fits(D), searchReturn
  PROVE  Follows
<1> DEFINE key == call.key
           now == call.now
<1>1. /\ call.at = "search" /\ (now # nullptr => t.data_[now] = key)
      /\ answer' = [op |-> "search", key |-> key, found |-> now # nullptr]
      /\ call' = Idle /\ UNCHANGED <<t, live>>
  BY DEF searchReturn, Stopped
<1>2. Searching(D) /\ IsTree(t, D) /\ HeapAgrees
  BY <1>1 DEF Fits, Placed
<1>3. key \in Keys /\ live = Members(t, D) /\ live \subseteq Nodes
  BY <1>2 DEF Searching, SearchCalls, HeapAgrees
<1>4. now # nullptr <=> Held(key) # {}
  <2>1. now # nullptr => now \in Held(key)
    BY <1>1, <1>2 DEF Searching, Held
  <2>2. ASSUME NEW n \in Held(key) PROVE now # nullptr
    <3>1. n \in D[now]
      BY <1>2, <1>3 DEF Searching, Held
    <3> QED
      BY <1>2, <3>1 DEF IsTree, Shape
  <2> QED
    BY <2>1, <2>2
<1>5. Bag[key] > 0 <=> Held(key) # {}
  <2>1. IsFiniteSet(Held(key))
    BY <1>3, HeldIsFinite
  <2>2. Cardinality(Held(key)) \in Nat /\ (Cardinality(Held(key)) = 0 <=> Held(key) = {})
    BY <2>1, FS_CardinalityType, FS_EmptySet
  <2>3. Bag[key] = Cardinality(Held(key))
    BY <1>3 DEF Bag
  <2> QED
    BY <2>2, <2>3
<1>6. Inv' /\ Bag' = Bag
  BY <1>1, <1>3, ReturnKeeps
<1>7. Promise!Search(key)
  <2>1. (now # nullptr) = (Bag[key] > 0)
    BY <1>4, <1>5
  <2> HIDE DEF now, key
  <2> QED
    BY <1>1, <1>6, <2>1 DEF Promise!Search
<1> QED
  BY <1>3, <1>6, <1>7 DEF Follows, Promise!Next

-----------------------------------------------------------------------------
(* remove *)

LEMMA RemoveNothingFollows ==
  ASSUME NEW D, Fits(D), removeNothing
  PROVE  Follows
<1>1. call.at = "remove" /\ call' = Idle /\ UNCHANGED <<t, live>> /\ answer' = answer
  BY DEF removeNothing
<1>2. live = Members(t, D)
  BY <1>1 DEF Fits, Placed, Searching
<1> QED
  BY <1>1, <1>2, ReturnKeeps DEF Follows
LEMMA DeletedFields ==
  ASSUME NEW tr \in TreeRecords, NEW g \in Nodes
  PROVE  LET tr2 == Deleted(tr, g)
         IN  /\ tr2 \in TreeRecords /\ tr2.root = tr.root
             /\ tr2.left[g] = nullptr /\ tr2.right[g] = nullptr
             /\ \A n \in Nodes \ {g} :
                   /\ tr2.left[n] = tr.left[n] /\ tr2.right[n] = tr.right[n]
                   /\ tr2.parent[n] = tr.parent[n] /\ tr2.data_[n] = tr.data_[n]
<1>1. nullptr \in Pointers
  BY DEF Pointers
<1> QED
  BY <1>1 DEF Deleted, TreeRecords

(* The end of remove: one node less, and one of its key.                    *)
LEMMA UnhookedFollows ==
  ASSUME ConstantsOK, HeapAgrees, call.at # "destroy", NEW g \in live,
         NEW E, IsTree(t', E), Members(t', E) = live \ {g},
         live' = live \ {g}, call' = Idle, answer' = NoAnswer,
         \A n \in Nodes \ {g} : t'.data_[n] = t.data_[n],
         \A n \in Nodes \ live' : t'.left[n] = nullptr /\ t'.right[n] = nullptr
  PROVE  Follows
<1>1. live \subseteq Nodes /\ t.data_[g] \in Keys
  BY DEF HeapAgrees
<1>0. PICK key \in Keys : key = t.data_[g]
  BY <1>1
<1>2. HeapAgrees'
  BY <1>1 DEF HeapAgrees, Idle
<1>3. Inv'
  BY <1>2 DEF Inv, Fits, Forgotten, Placed, Idle
<1>4. Promise!Remove(key)
  <2>1. /\ Held(key)' = Held(key) \ {g} /\ g \in Held(key)
        /\ \A k \in Keys : k # key => Held(k)' = Held(k)
    BY <1>0, <1>1 DEF Held, Idle
  <2>2. IsFiniteSet(Held(key))
    BY <1>1, HeldIsFinite
  <2>3. Cardinality(Held(key)') = Cardinality(Held(key)) - 1
    BY <2>1, <2>2, FS_RemoveElement
  <2>4. Cardinality(Held(key)) # 0
    BY <2>1, <2>2, FS_EmptySet
  <2>5. Bag' = [Bag EXCEPT ![key] = IF @ = 0 THEN 0 ELSE @ - 1]
    BY <2>1, <2>3, <2>4 DEF Bag
  <2> QED
    BY <2>5 DEF Promise!Remove, NoAnswer, Promise!NoAnswer
<1> QED
  BY <1>1, <1>3, <1>4 DEF Follows, Promise!Next

(* A node with at most one child is unhooked by one transplant.             *)
LEMMA TransplantedFollows ==
  ASSUME ConstantsOK, NEW D, Fits(D), call.at = "remove", live = Members(t, D),
         NEW g \in live, NEW c,
         \/ t.left[g] = nullptr /\ c = t.right[g]
         \/ t.right[g] = nullptr /\ c = t.left[g],
         Unhooked(g, transplant(t, g, c))
  PROVE  Follows
<1> DEFINE out == transplant(t, g, c)
           up == t.parent[g]
           E == Without(D, g)
<1>1. /\ IsTree(t, D) /\ HeapAgrees /\ live \subseteq Nodes /\ g \in Nodes
      /\ t \in TreeRecords /\ c \in Pointers /\ nullptr \notin Nodes
  BY WithinTree DEF Fits, HeapAgrees, IsTree
<1>2. /\ t' = Deleted(out, g) /\ live' = live \ {g} /\ call' = Idle /\ answer' = NoAnswer
  BY DEF Unhooked, Fits, Forgotten
<1>3. IsTree(out, E) /\ Members(out, E) = live \ {g}
  BY <1>1, TransplantUnlinks
<1>4. /\ out \in TreeRecords /\ out.data_ = t.data_
      /\ \A n \in Nodes : /\ out.left[n] = t.left[n] \/ n = up
                          /\ out.right[n] = t.right[n] \/ n = up
  BY <1>1, TransplantFields
<1> HIDE DEF out, E
<1>5. /\ t' \in TreeRecords /\ t'.root = out.root
      /\ t'.left[g] = nullptr /\ t'.right[g] = nullptr
      /\ \A n \in Nodes \ {g} :
            /\ t'.left[n] = out.left[n] /\ t'.right[n] = out.right[n]
            /\ t'.parent[n] = out.parent[n] /\ t'.data_[n] = out.data_[n]
  BY <1>1, <1>2, <1>4, DeletedFields
<1>6. IsTree(t', E) /\ Members(t', E) = live \ {g}
  <2>1. \A n \in Members(out, E) : n \in Nodes \ {g}
    BY <1>1, <1>3
  <2> QED
    BY <1>3, <1>5, <2>1, OutsideIsFree
<1>7. \A n \in Nodes \ live' : t'.left[n] = nullptr /\ t'.right[n] = nullptr
  <2>1. up = nullptr \/ up \in live
    BY <1>1, AroundNode
  <2>2. \A n \in Nodes \ live : n # up /\ t.left[n] = nullptr /\ t.right[n] = nullptr
    BY <1>1, <2>1 DEF HeapAgrees
  <2> QED
    BY <1>2, <1>4, <1>5, <2>2
<1> QED
  BY <1>1, <1>2, <1>4, <1>5, <1>6, <1>7, UnhookedFollows

(* A step of a call under way that leaves the tree alone.                   *)
LEMMA StepKeeps ==
  ASSUME NEW D, Fits(D), UNCHANGED <<t, live, answer>>, Placed(D)',
         call.at # "idle", call.at = "destroy" <=> call'.at = "destroy"
  PROVE  Follows
<1>1. HeapAgrees' /\ IsTree(t', D)
  BY DEF Fits, HeapAgrees
<1>2. Bag' = Bag
  BY SameBag DEF Held
<1> QED
  BY <1>1, <1>2 DEF Follows, Inv, Fits, Forgotten

LEMMA RemoveNodeFollows ==
  ASSUME ConstantsOK, NEW D, Fits(D), removeNode
  PROVE  Follows
<1> DEFINE M == Members(t, D)
           g == call.now
           l == t.left[g]
           r == t.right[g]
<1>1. /\ call.at = "remove" /\ g # nullptr
      /\ \/ l = nullptr /\ Unhooked(g, transplant(t, g, r))
         \/ l # nullptr /\ r = nullptr /\ Unhooked(g, transplant(t, g, l))
         \/ /\ l # nullptr /\ r # nullptr
            /\ call' = [at |-> "minimun", target |-> g, node |-> r]
            /\ UNCHANGED <<t, live, answer>>
  BY DEF removeNode
<1>2. live = M /\ g \in M /\ IsTree(t, D)
  BY <1>1 DEF Fits, Placed, Searching
<1>3. CASE l = nullptr /\ Unhooked(g, transplant(t, g, r))
  BY <1>1, <1>2, <1>3, TransplantedFollows
<1>4. CASE l # nullptr /\ r = nullptr /\ Unhooked(g, transplant(t, g, l))
  BY <1>1, <1>2, <1>4, TransplantedFollows
<1>5. CASE /\ l # nullptr /\ r # nullptr
           /\ call' = [at |-> "minimun", target |-> g, node |-> r]
           /\ UNCHANGED <<t, live, answer>>
  <2>1. /\ M \subseteq Nodes /\ r \in M /\ r \in D[r]
    BY <1>2, <1>5, WithinTree
  <2>2. Replacing(D)'
    BY <1>2, <1>5, <2>1 DEF Replacing, MinimunCalls
  <2>3. Placed(D)' /\ call'.at # "destroy"
    BY <1>5, <2>2 DEF Placed
  <2> QED
    BY <1>1, <1>5, <2>3, StepKeeps
<1> QED
  BY <1>1, <1>3, <1>4, <1>5

LEMMA MinimunDownFollows ==
  ASSUME ConstantsOK, NEW D, Fits(D), minimunDown
  PROVE  Follows
<1> DEFINE M == Members(t, D)
           node == call.node
           next == t.left[node]
           right == t.right[call.target]
<1>1. /\ call.at = "minimun" /\ next # nullptr /\ UNCHANGED <<t, live, answer>>
      /\ call' = [call EXCEPT !.node = next]
  BY DEF minimunDown
<1>2. Replacing(D) /\ IsTree(t, D) /\ HeapAgrees
  BY <1>1 DEF Fits, Placed
<1>3. /\ call \in MinimunCalls /\ live = M /\ M \subseteq Nodes /\ live \subseteq Nodes
      /\ call.target \in M /\ right \in M /\ node \in D[right] /\ node \in M
      /\ D[right] \subseteq M
  BY <1>2, WithinTree DEF Replacing
<1>4. next \in M /\ next \in D[node] /\ next \in D[next]
  BY <1>1, <1>2, <1>3, WithinTree
<1>5. next \in D[right]
  BY <1>2, <1>3, <1>4 DEF IsTree, Nested
<1>6. call' = [at |-> "minimun", target |-> call.target, node |-> next]
  BY <1>1, <1>3 DEF MinimunCalls
<1>7. ASSUME NEW n \in D[right] PROVE n \in D[next] \/ t.data_[next] <= t.data_[n]
  <2>1. D[node] = {node} \cup D[next] \cup D[t.right[node]]
    BY <1>2, <1>3 DEF IsTree, Splits
  <2>2. /\ t.data_[next] < t.data_[node]
        /\ n \in D[t.right[node]] => t.data_[node] <= t.data_[n]
    BY <1>2, <1>3, <1>4 DEF IsTree, Ordered
  <2>3. n \in D[node] \/ t.data_[node] <= t.data_[n]
    BY <1>2 DEF Replacing
  <2>4. n \in live /\ next \in live /\ node \in live
    BY <1>3, <1>4
  <2>5. t.data_[n] \in Int /\ t.data_[next] \in Int /\ t.data_[node] \in Int
    BY <1>2, <2>4 DEF HeapAgrees, ConstantsOK
  <2> QED
    BY <2>1, <2>2, <2>3, <2>5
<1>8. Replacing(D)'
  <2>1. call' \in MinimunCalls /\ call'.target = call.target /\ call'.node = next
    BY <1>3, <1>4, <1>6 DEF MinimunCalls
  <2> HIDE DEF next
  <2> QED
    BY <1>1, <1>2, <1>3, <1>5, <1>7, <2>1 DEF Replacing
<1>9. Placed(D)' /\ call'.at # "destroy"
  BY <1>6, <1>8 DEF Placed
<1> QED
  BY <1>1, <1>9, StepKeeps

LEMMA RemoveReplacedFollows ==
  ASSUME ConstantsOK, NEW D, Fits(D), removeReplaced
  PROVE  Follows
<1> DEFINE M == Members(t, D)
           g == call.target
           r == call.node
           right == t.right[g]
           E == Swapped(Without(D, r), g, r)
<1>1. /\ call.at = "minimun" /\ t.left[r] = nullptr
      /\ t' = Deleted(Replaced(g, r), g) /\ live' = live \ {g}
      /\ call' = Idle /\ answer' = NoAnswer
  BY DEF removeReplaced, Unhooked, Fits, Forgotten
<1>2. Replacing(D) /\ IsTree(t, D) /\ HeapAgrees
  BY <1>1 DEF Fits, Placed
<1>3. /\ live = M /\ g \in M /\ t.left[g] # nullptr /\ right # nullptr /\ r \in D[right]
      /\ right \in M /\ r \in M /\ D[right] \subseteq M
  BY <1>2, WithinTree DEF Replacing
<1>4. \A n \in M : t.data_[n] \in Int
  BY <1>2, <1>3 DEF HeapAgrees, ConstantsOK
<1>5. ASSUME NEW n \in D[right] PROVE t.data_[r] <= t.data_[n]
  <2>1. n \in D[r] \/ t.data_[r] <= t.data_[n]
    BY <1>2 DEF Replacing
  <2>2. D[r] = {r} \cup D[t.right[r]]
    BY <1>1, <1>2, <1>3 DEF IsTree, Splits, Shape
  <2>3. n \in D[t.right[r]] => t.data_[r] <= t.data_[n]
    BY <1>2, <1>3 DEF IsTree, Ordered
  <2> QED
    BY <1>3, <1>4, <2>1, <2>2, <2>3
<1>6. /\ IsTree(t', E) /\ Members(t', E) = M \ {g}
      /\ \A n \in Nodes \ {g} : t'.data_[n] = t.data_[n]
      /\ \A n \in Nodes \ M : t'.left[n] = t.left[n] /\ t'.right[n] = t.right[n]
      /\ t'.left[g] = nullptr /\ t'.right[g] = nullptr
  <2> HIDE DEF E
  <2>1. \A n \in D[t.right[g]] : t.data_[r] <= t.data_[n]
    BY <1>5
  <2> HIDE DEF M, g, r
  <2> QED
    BY <1>1, <1>2, <1>3, <1>4, <2>1, ReplaceKeepsTree DEF E, M
<1> HIDE DEF E
<1>7. \A n \in Nodes \ live' : t'.left[n] = nullptr /\ t'.right[n] = nullptr
  BY <1>1, <1>2, <1>3, <1>6 DEF HeapAgrees
<1> QED
  BY <1>1, <1>2, <1>3, <1>6, <1>7, UnhookedFollows

-----------------------------------------------------------------------------
(* inorderPrint *)

LEMMA Pushed ==
  ASSUME NEW S, NEW s \in Seq(S), NEW x \in S
  PROVE  /\ Append(s, x) \in Seq(S) /\ Len(s) \in Nat /\ DOMAIN s = 1 .. Len(s)
         /\ Len(Append(s, x)) = Len(s) + 1 /\ DOMAIN Append(s, x) = 1 .. Len(s) + 1
         /\ Append(s, x)[Len(s) + 1] = x
         /\ \A j \in 1 .. Len(s) : Append(s, x)[j] = s[j]
  OBVIOUS

LEMMA Popped ==
  ASSUME NEW S, NEW s \in Seq(S), Len(s) > 0
  PROVE  LET rest == SubSeq(s, 1, Len(s) - 1)
         IN  /\ rest \in Seq(S) /\ Len(s) \in Nat /\ DOMAIN s = 1 .. Len(s)
             /\ DOMAIN rest = 1 .. Len(s) - 1 /\ Len(rest) = Len(s) - 1
             /\ \A j \in 1 .. Len(s) - 1 : rest[j] = s[j]
<1> DEFINE rest == SubSeq(s, 1, Len(s) - 1)
<1>1. Len(s) \in Nat /\ DOMAIN s = 1 .. Len(s) /\ \A j \in 1 .. Len(s) : s[j] \in S
  OBVIOUS
<1>2. rest \in Seq(S) /\ Len(rest) = Len(s) - 1
  BY <1>1
<1>3. DOMAIN rest = 1 .. Len(rest)
  BY <1>2
<1>4. \A j \in 1 .. Len(s) - 1 : rest[j] = s[j]
  BY <1>1
<1> QED
  BY <1>1, <1>2, <1>3, <1>4

LEMMA PrintFollows ==
  ASSUME ConstantsOK, NEW D, Fits(D), inorderPrint
  PROVE  Follows
<1> DEFINE M == Members(t, D)
<1>1. /\ call = Idle /\ UNCHANGED <<t, live>> /\ answer' = NoAnswer
      /\ call' = [at |-> "inorderPrint", now |-> t.root, calls |-> <<>>, keys |-> <<>>]
  BY DEF inorderPrint
<1>2. live = M /\ IsTree(t, D) /\ t.root \in Pointers /\ t.root \in M \cup {nullptr}
  BY <1>1, WithinTree DEF Fits, Placed, Idle
<1>3. /\ call' \in PrintCalls /\ call'.now = t.root /\ call'.calls = <<>>
      /\ call'.keys = <<>> /\ DOMAIN call'.keys = {} /\ DOMAIN call'.calls = {}
      /\ Len(call'.keys) = 0 /\ call'.at = "inorderPrint"
  BY <1>1, <1>2 DEF PrintCalls
<1>4. ToPrint(D)' = M
  BY <1>1, <1>2, <1>3 DEF ToPrint, Members
<1>5. \A k : PrintedOf(k)' = {}
  BY <1>3 DEF PrintedOf
<1>6. Printing(D)'
  <2>1. Members(t', D) = M /\ CallsDescend(D)'
    BY <1>1, <1>3 DEF CallsDescend
  <2>2. \A k \in Keys : {n \in Members(t', D) \ ToPrint(D)' : t'.data_[n] = k} = PrintedOf(k)'
    BY <1>4, <1>5, <2>1
  <2>3. 1 .. Len(call'.keys) - 1 = {}
    BY <1>3
  <2> QED
    BY <1>1, <1>2, <1>3, <2>1, <2>2, <2>3 DEF Printing
<1>7. Placed(D)'
  BY <1>3, <1>6 DEF Placed
<1> QED
  BY <1>1, <1>3, <1>7, BeginFollows

LEMMA PrintLeftFollows ==
  ASSUME ConstantsOK, NEW D, Fits(D), printLeft
  PROVE  Follows
<1> DEFINE M == Members(t, D)
           now == call.now
           next == t.left[now]
           depth == Len(call.calls)
<1>1. /\ call.at = "inorderPrint" /\ now # nullptr /\ UNCHANGED <<t, live, answer>>
      /\ call' = [call EXCEPT !.now = next, !.calls = Append(@, now)]
  BY DEF printLeft
<1>2. Printing(D) /\ IsTree(t, D)
  BY <1>1 DEF Fits, Placed
<1>3. /\ call \in PrintCalls /\ now \in M /\ M \subseteq Nodes /\ live = M
      /\ call.calls \in Seq(Nodes)
  BY <1>1, <1>2, WithinTree DEF Printing, PrintCalls
<1>4. /\ next \in M \cup {nullptr} /\ next \in Pointers /\ next \in D[next] \cup {nullptr}
      /\ next \in D[now] \cup {nullptr}
  BY <1>2, <1>3, WithinTree
<1>5. /\ call' \in PrintCalls /\ call'.at = "inorderPrint" /\ call'.now = next
      /\ call'.keys = call.keys /\ call'.calls = Append(call.calls, now)
  <2>1. Append(call.calls, now) \in Seq(Nodes)
    BY <1>3, Pushed
  <2> QED
    BY <1>1, <1>3, <1>4, <2>1 DEF PrintCalls
<1>6. /\ DOMAIN call.calls = 1 .. depth /\ DOMAIN call'.calls = 1 .. depth + 1
      /\ depth \in Nat /\ call'.calls[depth + 1] = now
      /\ \A j \in 1 .. depth : call'.calls[j] = call.calls[j]
  BY <1>3, <1>5, Pushed
<1>7. /\ D[now] = {now} \cup D[next] \cup D[t.right[now]]
      /\ \A m \in M : \A n \in D[t.left[m]] : D[n] \subseteq D[t.left[m]]
  <2>1. \A m \in M : t.left[m] = nullptr \/ t.left[m] \in M
    BY <1>2 DEF IsTree, ChildrenAgree
  <2> QED
    BY <1>2, <1>3, <2>1 DEF IsTree, Splits, Nested, Shape
<1> HIDE DEF next, now, depth
<1>8. CallsDescend(D)'
  <2>1. ASSUME NEW j \in 1 .. depth
        PROVE  /\ call.calls[j] \in M /\ now \in D[t.left[call.calls[j]]]
               /\ next \in D[t.left[call.calls[j]]] \cup {nullptr}
               /\ \A k \in 1 .. depth : j < k => call.calls[k] \in D[t.left[call.calls[j]]]
    <3>1. call.calls[j] \in M /\ now \in D[t.left[call.calls[j]]]
      BY <1>1, <1>2, <1>6 DEF Printing, CallsDescend, now
    <3>2. D[now] \subseteq D[t.left[call.calls[j]]]
      BY <1>7, <3>1
    <3> QED
      BY <1>2, <1>4, <1>6, <3>1, <3>2 DEF Printing, CallsDescend
  <2>2. ASSUME NEW j \in 1 .. depth + 1
        PROVE  /\ call'.calls[j] \in M
               /\ next \in D[t.left[call'.calls[j]]] \cup {nullptr}
               /\ \A k \in 1 .. depth + 1 : j < k => call'.calls[k] \in D[t.left[call'.calls[j]]]
    <3>1. CASE j = depth + 1
      BY <1>3, <1>4, <1>6, <3>1 DEF next
    <3>2. CASE j # depth + 1
      <4>1. j \in 1 .. depth /\ call'.calls[j] = call.calls[j]
        BY <1>6, <3>2
      <4>2. ASSUME NEW k \in 1 .. depth + 1, j < k
            PROVE  call'.calls[k] \in D[t.left[call.calls[j]]]
        <5>1. CASE k = depth + 1
          BY <1>6, <2>1, <4>1, <5>1
        <5>2. CASE k # depth + 1
          BY <1>6, <2>1, <4>1, <4>2, <5>2
        <5> QED
          BY <5>1, <5>2
      <4> QED
        BY <2>1, <4>1, <4>2
    <3> QED
      BY <3>1, <3>2
  <2> QED
    BY <1>1, <1>5, <1>6, <2>2 DEF CallsDescend
<1>9. ToPrint(D)' = ToPrint(D)
  <2>1. ASSUME NEW n
        PROVE  (\E j \in 1 .. depth + 1 : n = call'.calls[j] \/ n \in D[t.right[call'.calls[j]]])
               <=> \/ n = now \/ n \in D[t.right[now]]
                   \/ \E j \in 1 .. depth : n = call.calls[j] \/ n \in D[t.right[call.calls[j]]]
    <3>1. \A j \in 1 .. depth + 1 : j = depth + 1 \/ j \in 1 .. depth
      BY <1>6
    <3>2. depth + 1 \in 1 .. depth + 1 /\ 1 .. depth \subseteq 1 .. depth + 1
      BY <1>6
    <3> QED
      BY <1>6, <3>1, <3>2
  <2>2. \A n : n \in D[now] <=> n = now \/ n \in D[next] \/ n \in D[t.right[now]]
    BY <1>7
  <2>3. ToPrint(D) = {n \in M : \/ n \in D[now]
                                \/ \E j \in 1 .. depth : \/ n = call.calls[j]
                                                         \/ n \in D[t.right[call.calls[j]]]}
    BY <1>6 DEF ToPrint, now
  <2>4. ToPrint(D)' = {n \in M : \/ n \in D[next]
                                 \/ \E j \in 1 .. depth + 1 : \/ n = call'.calls[j]
                                                              \/ n \in D[t.right[call'.calls[j]]]}
    BY <1>1, <1>5, <1>6 DEF ToPrint
  <2> QED
    BY <2>1, <2>2, <2>3, <2>4
<1>10. \A k : PrintedOf(k)' = PrintedOf(k)
  BY <1>5 DEF PrintedOf
<1>11. Printing(D)'
  BY <1>1, <1>2, <1>3, <1>4, <1>5, <1>8, <1>9, <1>10 DEF Printing
<1>12. Placed(D)'
  BY <1>5, <1>11 DEF Placed
<1> QED
  BY <1>1, <1>5, <1>12, StepKeeps

LEMMA PrintNodeFollows ==
  ASSUME ConstantsOK, NEW D, Fits(D), printNode
  PROVE  Follows
<1> DEFINE M == Members(t, D)
           depth == Len(call.calls)
           node == call.calls[depth]
           next == t.right[node]
           key == t.data_[node]
<1>1. /\ call.at = "inorderPrint" /\ call.now = nullptr /\ depth > 0
      /\ UNCHANGED <<t, live, answer>>
      /\ call' = [call EXCEPT !.now = next, !.calls = SubSeq(@, 1, depth - 1),
                              !.keys = Append(@, key)]
  BY DEF printNode
<1>2. Printing(D) /\ IsTree(t, D) /\ HeapAgrees
  BY <1>1 DEF Fits, Placed
<1>3. /\ call \in PrintCalls /\ M \subseteq Nodes /\ live = M
      /\ call.calls \in Seq(Nodes) /\ call.keys \in Seq(Keys)
      /\ \A n \in M : t.data_[n] \in Keys /\ t.data_[n] \in Int
  BY <1>2, WithinTree DEF Printing, PrintCalls, HeapAgrees, ConstantsOK
<1>4. depth \in Nat /\ DOMAIN call.calls = 1 .. depth /\ depth \in 1 .. depth
  BY <1>1, <1>3
<1>5. node \in M /\ key \in Keys
  BY <1>2, <1>3, <1>4 DEF Printing, CallsDescend
<1>6. next \in M \cup {nullptr} /\ next \in Pointers /\ next \in D[next] \cup {nullptr}
  BY <1>2, <1>5, WithinTree
<1>7. /\ call' \in PrintCalls /\ call'.at = "inorderPrint" /\ call'.now = next
      /\ call'.keys = Append(call.keys, key)
      /\ call'.calls = SubSeq(call.calls, 1, depth - 1)
  <2>1. SubSeq(call.calls, 1, depth - 1) \in Seq(Nodes) /\ Append(call.keys, key) \in Seq(Keys)
    BY <1>1, <1>3, <1>5, Popped, Pushed
  <2> QED
    BY <1>1, <1>3, <1>6, <2>1 DEF PrintCalls
<1>8. DOMAIN call'.calls = 1 .. depth - 1 /\ \A j \in 1 .. depth - 1 : call'.calls[j] = call.calls[j]
  BY <1>1, <1>3, <1>7, Popped
<1> DEFINE printed == Len(call.keys)
<1>9. /\ printed \in Nat /\ DOMAIN call.keys = 1 .. printed
      /\ DOMAIN call'.keys = 1 .. printed + 1 /\ Len(call'.keys) = printed + 1
      /\ call'.keys[printed + 1] = key
      /\ \A j \in 1 .. printed : call'.keys[j] = call.keys[j]
  BY <1>3, <1>5, <1>7, Pushed
<1>10. ASSUME NEW j \in 1 .. depth - 1
       PROVE  /\ call.calls[j] \in M
              /\ node \in D[t.left[call.calls[j]]]
              /\ node # call.calls[j] /\ node \notin D[t.right[call.calls[j]]]
              /\ next \in D[t.left[call.calls[j]]] \cup {nullptr}
  <2>1. j \in 1 .. depth /\ j < depth
    BY <1>4
  <2>2. call.calls[j] \in M /\ node \in D[t.left[call.calls[j]]]
    BY <1>2, <1>4, <2>1 DEF Printing, CallsDescend
  <2>3. node # call.calls[j] /\ node \notin D[t.right[call.calls[j]]]
    BY <1>2, <2>2 DEF IsTree, Splits
  <2>4. next \in D[node] \cup {nullptr}
    BY <1>2, <1>5, WithinTree
  <2>5. t.left[call.calls[j]] \in M
    BY <1>2, <2>2 DEF IsTree, ChildrenAgree, Shape
  <2>6. D[node] \subseteq D[t.left[call.calls[j]]]
    BY <1>2, <2>2, <2>5 DEF IsTree, Nested
  <2> QED
    BY <2>2, <2>3, <2>4, <2>6
<1> DEFINE rest == ToPrint(D)'
<1>11. rest = {n \in M : \/ n \in D[next]
                         \/ \E j \in 1 .. depth - 1 : \/ n = call.calls[j]
                                                      \/ n \in D[t.right[call.calls[j]]]}
  BY <1>1, <1>7, <1>8 DEF ToPrint
<1>12. ToPrint(D) = {n \in M : \E j \in 1 .. depth : \/ n = call.calls[j]
                                                     \/ n \in D[t.right[call.calls[j]]]}
  BY <1>1, <1>2, <1>4 DEF ToPrint, IsTree, Shape
<1> HIDE DEF next, key, depth, node, printed, rest
<1>13. ToPrint(D) = rest \cup {node} /\ node \notin rest
  <2>1. \A j \in 1 .. depth : j = depth \/ j \in 1 .. depth - 1
    BY <1>4
  <2>2. 1 .. depth - 1 \subseteq 1 .. depth
    BY <1>4
  <2>3. node \notin D[next]
    BY <1>2, <1>5 DEF IsTree, Splits, next
  <2>4. call.calls[depth] = node /\ t.right[node] = next
    BY DEF node, next
  <2>5. node \notin rest
    BY <1>10, <1>11, <2>3
  <2>6. ASSUME NEW n \in M
        PROVE (\E j \in 1 .. depth : n = call.calls[j] \/ n \in D[t.right[call.calls[j]]])
              <=> \/ n = node \/ n \in D[next]
                  \/ \E j \in 1 .. depth - 1 : \/ n = call.calls[j]
                                               \/ n \in D[t.right[call.calls[j]]]
    BY <1>4, <2>1, <2>2, <2>4
  <2> QED
    BY <1>5, <1>11, <1>12, <2>5, <2>6
<1>14. CallsDescend(D)'
  <2>1. \A j \in 1 .. depth - 1 : \A k \in 1 .. depth - 1 :
           j < k => call.calls[k] \in D[t.left[call.calls[j]]]
    BY <1>2, <1>4 DEF Printing, CallsDescend
  <2>2. \A j \in 1 .. depth - 1 :
           /\ call'.calls[j] \in M /\ next \in D[t.left[call'.calls[j]]] \cup {nullptr}
           /\ \A k \in 1 .. depth - 1 : j < k => call'.calls[k] \in D[t.left[call'.calls[j]]]
    BY <1>8, <1>10, <2>1
  <2> QED
    BY <1>1, <1>7, <1>8, <2>2 DEF CallsDescend
<1>15. ASSUME NEW n \in rest PROVE n \in M /\ key <= t.data_[n]
  <2>1. n \in M
    BY <1>11
  <2>2. CASE n \in D[next]
    BY <1>2, <1>5, <2>1, <2>2 DEF IsTree, Ordered, next, key
  <2>3. ASSUME NEW j \in 1 .. depth - 1, n = call.calls[j] \/ n \in D[t.right[call.calls[j]]]
        PROVE  key <= t.data_[n]
    <3>1. key < t.data_[call.calls[j]] /\ call.calls[j] \in M
      BY <1>2, <1>10 DEF IsTree, Ordered, key
    <3>2. n = call.calls[j] \/ t.data_[call.calls[j]] <= t.data_[n]
      BY <1>2, <2>3, <3>1 DEF IsTree, Ordered
    <3>3. key \in Int /\ t.data_[n] \in Int /\ t.data_[call.calls[j]] \in Int
      BY <1>3, <1>5, <2>1, <3>1 DEF ConstantsOK
    <3> QED
      BY <3>1, <3>2, <3>3
  <2> QED
    BY <1>11, <2>1, <2>2, <2>3
<1>16. \A j \in 1 .. printed : call.keys[j] <= key /\ \A n \in rest : call.keys[j] <= t.data_[n]
  BY <1>2, <1>9, <1>13 DEF Printing, key
<1>17. \A j \in DOMAIN call'.keys : \A n \in rest : call'.keys[j] <= t'.data_[n]
  <2>1. \A j \in 1 .. printed + 1 : j = printed + 1 \/ j \in 1 .. printed
    BY <1>9
  <2> QED
    BY <1>1, <1>9, <1>15, <1>16, <2>1
<1>18. \A j \in 1 .. Len(call'.keys) - 1 : call'.keys[j] <= call'.keys[j + 1]
  <2>1. \A j \in 1 .. printed - 1 : call.keys[j] <= call.keys[j + 1]
    BY <1>2 DEF Printing, printed
  <2>2. ASSUME NEW j \in 1 .. printed PROVE call'.keys[j] <= call'.keys[j + 1]
    <3>1. CASE j = printed
      BY <1>9, <1>16, <3>1
    <3>2. CASE j # printed
      <4>1. j \in 1 .. printed - 1 /\ j + 1 \in 1 .. printed
        BY <1>9, <3>2
      <4> QED
        BY <1>9, <2>1, <4>1
    <3> QED
      BY <3>1, <3>2
  <2>3. Len(call'.keys) - 1 = printed
    BY <1>9
  <2> QED
    BY <2>2, <2>3
<1>19. ASSUME NEW k \in Keys
       PROVE  Cardinality(PrintedOf(k)') =
              Cardinality({n \in M \ rest : t.data_[n] = k})
  <2> DEFINE old == {n \in M \ ToPrint(D) : t.data_[n] = k}
             new == {n \in M \ rest : t.data_[n] = k}
  <2>1. PrintedOf(k) = {j \in 1 .. printed : call.keys[j] = k}
    BY <1>9 DEF PrintedOf
  <2>2. PrintedOf(k)' = {j \in 1 .. printed + 1 : call'.keys[j] = k}
    BY <1>9 DEF PrintedOf
  <2>3. \A j : j \in 1 .. printed + 1 <=> j = printed + 1 \/ j \in 1 .. printed
    BY <1>9
  <2>4. Cardinality(PrintedOf(k)) = Cardinality(old)
    BY <1>2 DEF Printing
  <2>5. CASE k # key
    <3>1. PrintedOf(k)' = PrintedOf(k)
      BY <1>9, <2>1, <2>2, <2>3, <2>5
    <3>2. new = old
      BY <1>13, <2>5 DEF key
    <3> QED
      BY <2>4, <3>1, <3>2
  <2>6. CASE k = key
    <3>1. PrintedOf(k)' = PrintedOf(k) \cup {printed + 1} /\ printed + 1 \notin PrintedOf(k)
      BY <1>9, <2>1, <2>2, <2>3, <2>6
    <3>2. new = old \cup {node} /\ node \notin old
      BY <1>5, <1>13, <2>6 DEF key
    <3>3. IsFiniteSet(PrintedOf(k))
      <4>1. IsFiniteSet(1 .. printed)
        BY <1>9, FS_Interval
      <4> QED
        BY <2>1, <4>1, FS_Subset
    <3>4. IsFiniteSet(old)
      <4>1. IsFiniteSet(Nodes)
        BY FS_Interval DEF Nodes, ConstantsOK
      <4> QED
        BY <1>3, <4>1, FS_Subset
    <3>5. Cardinality(PrintedOf(k)') = Cardinality(PrintedOf(k)) + 1
      BY <3>1, <3>3, FS_AddElement
    <3>6. Cardinality(new) = Cardinality(old) + 1
      BY <3>2, <3>4, FS_AddElement
    <3> QED
      BY <2>4, <3>5, <3>6
  <2> QED
    BY <2>5, <2>6
<1>20. Printing(D)'
  BY <1>1, <1>3, <1>6, <1>7, <1>14, <1>17, <1>18, <1>19 DEF Printing, rest
<1>21. Placed(D)'
  BY <1>7, <1>20 DEF Placed
<1> QED
  BY <1>1, <1>7, <1>21, StepKeeps

LEMMA PrintReturnFollows ==
  ASSUME ConstantsOK, NEW D, Fits(D), printReturn
  PROVE  Follows
<1> DEFINE M == Members(t, D)
<1>1. /\ call.at = "inorderPrint" /\ call.now = nullptr /\ call.calls = <<>>
      /\ answer' = [op |-> "print", keys |-> call.keys] /\ call' = Idle
      /\ UNCHANGED <<t, live>>
  BY DEF printReturn
<1>2. Printing(D) /\ IsTree(t, D)
  BY <1>1 DEF Fits, Placed
<1>3. live = M /\ answer'.op = "print" /\ answer'.keys = call.keys
  BY <1>1, <1>2 DEF Printing
<1>4. ToPrint(D) = {}
  BY <1>1, <1>2 DEF ToPrint, IsTree, Shape
<1>5. ASSUME NEW k \in Keys
      PROVE  Bag[k] = Cardinality({j \in DOMAIN answer'.keys : answer'.keys[j] = k})
  <2>1. Held(k) = {n \in M \ ToPrint(D) : t.data_[n] = k}
    BY <1>1, <1>3, <1>4 DEF Held
  <2>2. PrintedOf(k) = {j \in DOMAIN answer'.keys : answer'.keys[j] = k}
    BY <1>3 DEF PrintedOf
  <2>3. Cardinality(PrintedOf(k)) = Cardinality({n \in M \ ToPrint(D) : t.data_[n] = k})
    BY <1>2 DEF Printing
  <2> QED
    BY <2>1, <2>2, <2>3 DEF Bag
<1>6. \A j \in 1 .. Len(answer'.keys) - 1 : answer'.keys[j] <= answer'.keys[j + 1]
  BY <1>2, <1>3 DEF Printing
<1>7. Inv' /\ Bag' = Bag
  BY <1>1, <1>3, ReturnKeeps
<1>8. Promise!Listing
  <2>1. \A S : Promise!Cardinality(S) = Cardinality(S)
    BY DEF Promise!Cardinality, Cardinality
  <2> QED
    BY <1>3, <1>5, <1>6, <1>7, <2>1 DEF Promise!Listing
<1> QED
  BY <1>7, <1>8 DEF Follows, Promise!Next

-----------------------------------------------------------------------------
(* The destructor *)

LEMMA DestroyFollows ==
  ASSUME ConstantsOK, NEW D, Fits(D), destroy
  PROVE  Follows
<1> DEFINE M == Members(t, D)
<1>1. /\ call = Idle /\ UNCHANGED <<t, live>> /\ answer' = NoAnswer
      /\ call' = [at |-> "destroy", now |-> t.root, calls |-> <<>>]
  BY DEF destroy
<1>2. live = M /\ IsTree(t, D) /\ t.root \in Pointers /\ t.root \in M \cup {nullptr}
  BY <1>1, WithinTree DEF Fits, Placed, Idle
<1>3. /\ call' \in DestroyCalls /\ call'.now = t.root /\ DOMAIN call'.calls = {}
      /\ call'.at = "destroy"
  BY <1>1, <1>2 DEF DestroyCalls
<1>4. Destroying(D)'
  BY <1>1, <1>2, <1>3 DEF Destroying, Members
<1>5. HeapAgrees' /\ IsTree(t', D)
  BY <1>1, <1>3 DEF Fits, HeapAgrees
<1>6. Inv'
  BY <1>1, <1>3, <1>4, <1>5 DEF Inv, Fits, Forgotten, Placed
<1>7. Promise!Destroy
  <2>1. \A k \in Keys : Held(k)' = {}
    BY <1>3 DEF Held
  <2>2. Cardinality({}) = 0
    BY FS_EmptySet
  <2>3. Bag' = [k \in Keys |-> 0]
    BY <2>1, <2>2 DEF Bag
  <2> QED
    BY <1>1, <2>3 DEF Promise!Destroy, Promise!EmptyBag, NoAnswer, Promise!NoAnswer
<1> QED
  BY <1>6, <1>7 DEF Follows, Promise!Next

(* Nothing is held before or after a step of the destructor.                *)
LEMMA DestroyKeeps ==
  ASSUME NEW D, Fits(D), call.at = "destroy", call'.at = "destroy",
         t' = t, answer' = answer, live' \subseteq live, Destroying(D)'
  PROVE  Follows
<1>1. HeapAgrees' /\ IsTree(t', D)
  BY DEF Fits, HeapAgrees
<1>2. Inv'
  BY <1>1 DEF Inv, Fits, Forgotten, Placed
<1>3. Bag' = Bag
  BY SameBag DEF Held
<1> QED
  BY <1>2, <1>3 DEF Follows

LEMMA DestroyLeftFollows ==
  ASSUME ConstantsOK, NEW D, Fits(D), destroyLeft
  PROVE  Follows
<1> DEFINE M == Members(t, D)
           now == call.now
           next == t.left[now]
           depth == Len(call.calls)
           w == [node |-> now, side |-> "left"]
<1>1. /\ call.at = "destroy" /\ now # nullptr /\ UNCHANGED <<t, live, answer>>
      /\ call' = [call EXCEPT !.now = next, !.calls = Append(@, w)]
  BY DEF destroyLeft
<1>2. Destroying(D) /\ IsTree(t, D)
  BY <1>1 DEF Fits, Placed
<1>3. /\ call \in DestroyCalls /\ now \in M /\ M \subseteq Nodes
      /\ call.calls \in Seq(Waits) /\ w \in Waits
  BY <1>1, <1>2, WithinTree DEF Destroying, DestroyCalls, Waits
<1>4. next \in M \cup {nullptr} /\ next \in Pointers
  BY <1>2, <1>3, WithinTree
<1>5. /\ call' \in DestroyCalls /\ call'.at = "destroy" /\ call'.now = next
      /\ call'.calls = Append(call.calls, w)
  <2>1. Append(call.calls, w) \in Seq(Waits)
    BY <1>3, Pushed
  <2> QED
    BY <1>1, <1>3, <1>4, <2>1 DEF DestroyCalls
<1>6. /\ DOMAIN call.calls = 1 .. depth /\ DOMAIN call'.calls = 1 .. depth + 1
      /\ depth \in Nat /\ call'.calls[depth + 1] = w
      /\ \A j \in 1 .. depth : call'.calls[j] = call.calls[j]
  BY <1>3, <1>5, Pushed
<1>7. \A j : j \in 1 .. depth + 1 <=> j = depth + 1 \/ j \in 1 .. depth
  BY <1>6
<1>8. w.node = now /\ w.side = "left"
  OBVIOUS
<1>9. D[now] = {now} \cup D[next] \cup D[t.right[now]]
  BY <1>2, <1>3 DEF IsTree, Splits
<1> HIDE DEF w, next, now, depth
<1>10. Destroying(D)'
  <2>1. ASSUME NEW n \in live
        PROVE  \/ n \in D[next]
               \/ \E j \in 1 .. depth + 1 :
                     \/ n = call'.calls[j].node
                     \/ /\ call'.calls[j].side = "left"
                        /\ n \in D[t.right[call'.calls[j].node]]
    <3>1. CASE n \in D[now]
      BY <1>6, <1>7, <1>8, <1>9, <3>1
    <3>2. CASE n \notin D[now]
      <4>1. PICK j \in 1 .. depth :
               \/ n = call.calls[j].node
               \/ call.calls[j].side = "left" /\ n \in D[t.right[call.calls[j].node]]
        BY <1>2, <1>6, <3>2 DEF Destroying, now
      <4> QED
        BY <1>6, <1>7, <4>1
    <3> QED
      BY <3>1, <3>2
  <2>2. \A j \in 1 .. depth + 1 : call'.calls[j].node \in M
    BY <1>2, <1>3, <1>6, <1>7, <1>8 DEF Destroying
  <2> QED
    BY <1>1, <1>4, <1>5, <1>6, <2>1, <2>2 DEF Destroying
<1> QED
  BY <1>1, <1>5, <1>10, DestroyKeeps

LEMMA DestroyBackFollows ==
  ASSUME ConstantsOK, NEW D, Fits(D), destroyBack
  PROVE  Follows
<1> DEFINE M == Members(t, D)
           depth == Len(call.calls)
           top == call.calls[depth]
           node == top.node
           next == t.right[node]
<1>1. /\ call.at = "destroy" /\ call.now = nullptr /\ depth > 0 /\ t' = t /\ answer' = answer
      /\ IF top.side = "left"
         THEN /\ call' = [call EXCEPT !.now = next, !.calls[depth].side = "right"]
              /\ live' = live
         ELSE /\ call' = [call EXCEPT !.calls = SubSeq(@, 1, depth - 1)]
              /\ live' = live \ {node}
  BY DEF destroyBack
<1>2. Destroying(D) /\ IsTree(t, D) /\ HeapAgrees
  BY <1>1 DEF Fits, Placed
<1>3. /\ call \in DestroyCalls /\ M \subseteq Nodes /\ call.calls \in Seq(Waits)
      /\ D[call.now] = {}
  BY <1>1, <1>2, WithinTree DEF Destroying, DestroyCalls, IsTree, Shape
<1>4. /\ depth \in Nat /\ DOMAIN call.calls = 1 .. depth /\ depth \in 1 .. depth
      /\ \A j : j \in 1 .. depth <=> j = depth \/ j \in 1 .. depth - 1
      /\ depth \notin 1 .. depth - 1
  BY <1>1, <1>3
<1>5. top \in Waits /\ node \in Nodes /\ node \in M /\ top.side \in {"left", "right"}
  <2>1. top \in Waits
    BY <1>3, <1>4
  <2>2. node \in M
    BY <1>2, <1>4 DEF Destroying
  <2> QED
    BY <2>1, <2>2 DEF Waits
<1>6. next \in M \cup {nullptr} /\ next \in Pointers
  BY <1>2, <1>5, WithinTree
<1>7. ASSUME NEW n \in live
      PROVE  \E j \in 1 .. depth : \/ n = call.calls[j].node
                                   \/ /\ call.calls[j].side = "left"
                                      /\ n \in D[t.right[call.calls[j].node]]
  BY <1>2, <1>3, <1>4 DEF Destroying
<1>8. \A j \in 1 .. depth : call.calls[j].node \in M
  BY <1>2, <1>4 DEF Destroying
<1>9. CASE top.side = "left"
  <2> DEFINE w == [top EXCEPT !.side = "right"]
             s == [call.calls EXCEPT ![depth] = w]
  <2>1. w \in Waits /\ w.node = node /\ w.side = "right"
    BY <1>5 DEF Waits
  <2>2. /\ s \in Seq(Waits) /\ DOMAIN s = 1 .. depth /\ s[depth] = w
        /\ \A j \in 1 .. depth - 1 : s[j] = call.calls[j]
    <3> HIDE DEF w
    <3> QED
      BY <1>3, <1>4, <2>1
  <2>3. call' = [call EXCEPT !.now = next, !.calls = s] /\ live' = live
    BY <1>1, <1>9
  <2> HIDE DEF w, s, next, depth
  <2>4. /\ call' \in DestroyCalls /\ call'.at = "destroy" /\ call'.now = next
        /\ call'.calls = s
    BY <1>3, <1>6, <2>2, <2>3 DEF DestroyCalls
  <2>5. ASSUME NEW n \in live
        PROVE  \/ n \in D[next]
               \/ \E j \in 1 .. depth : \/ n = s[j].node
                                        \/ s[j].side = "left" /\ n \in D[t.right[s[j].node]]
    <3>1. PICK j \in 1 .. depth : \/ n = call.calls[j].node
                                  \/ /\ call.calls[j].side = "left"
                                     /\ n \in D[t.right[call.calls[j].node]]
      BY <1>7
    <3>2. CASE j = depth
      BY <1>4, <2>1, <2>2, <3>1, <3>2 DEF next
    <3>3. CASE j # depth
      BY <1>4, <2>2, <3>1, <3>3
    <3> QED
      BY <3>2, <3>3
  <2>6. \A j \in 1 .. depth : s[j].node \in M
    BY <1>4, <1>5, <1>8, <2>1, <2>2
  <2>7. Destroying(D)'
    BY <1>1, <1>6, <2>2, <2>3, <2>4, <2>5, <2>6 DEF Destroying
  <2> QED
    BY <1>1, <2>3, <2>4, <2>7, DestroyKeeps
<1>10. CASE top.side # "left"
  <2> DEFINE s == SubSeq(call.calls, 1, depth - 1)
  <2>1. /\ s \in Seq(Waits) /\ DOMAIN s = 1 .. depth - 1
        /\ \A j \in 1 .. depth - 1 : s[j] = call.calls[j]
    BY <1>1, <1>3, Popped
  <2>2. call' = [call EXCEPT !.calls = s] /\ live' = live \ {node}
    BY <1>1, <1>10
  <2> HIDE DEF s, depth
  <2>3. /\ call' \in DestroyCalls /\ call'.at = "destroy" /\ call'.now = nullptr
        /\ call'.calls = s
    BY <1>1, <1>3, <2>1, <2>2 DEF DestroyCalls
  <2>4. ASSUME NEW n \in live, n # node
        PROVE  \E j \in 1 .. depth - 1 : \/ n = s[j].node
                                         \/ s[j].side = "left" /\ n \in D[t.right[s[j].node]]
    <3>1. PICK j \in 1 .. depth : \/ n = call.calls[j].node
                                  \/ /\ call.calls[j].side = "left"
                                     /\ n \in D[t.right[call.calls[j].node]]
      BY <1>7
    <3>2. j # depth
      BY <1>10, <2>4, <3>1
    <3> QED
      BY <1>4, <2>1, <3>1, <3>2
  <2>5. \A j \in 1 .. depth - 1 : s[j].node \in M
    BY <1>4, <1>8, <2>1
  <2>6. Destroying(D)'
    BY <1>1, <2>1, <2>2, <2>3, <2>4, <2>5 DEF Destroying
  <2> QED
    BY <1>1, <2>2, <2>3, <2>6, DestroyKeeps
<1> QED
  BY <1>9, <1>10

LEMMA EmptyIsTree ==
  /\ IsTree(EmptyTree, [m \in Pointers |-> {}])
  /\ Members(EmptyTree, [m \in Pointers |-> {}]) = {}
<1> DEFINE D == [m \in Pointers |-> {}]
<1>1. EmptyTree \in TreeRecords /\ EmptyTree.root = nullptr /\ nullptr \in Pointers
  BY DEF EmptyTree, TreeRecords, Pointers
<1>2. Members(EmptyTree, D) = {}
  BY <1>1 DEF Members
<1>3. Shape(D)
  BY <1>1 DEF Shape
<1>4. IsTree(EmptyTree, D)
  <2> HIDE DEF D
  <2> QED
    BY <1>1, <1>2, <1>3 DEF IsTree, Splits, ChildrenAgree, RootOnTop, ParentsAgree, Nested,
                            Ordered
<1> QED
  BY <1>2, <1>4

LEMMA DestroyReturnFollows ==
  ASSUME ConstantsOK, NEW D, Fits(D), destroyReturn
  PROVE  Follows
<1>1. /\ call.at = "destroy" /\ call.now = nullptr /\ call.calls = <<>>
      /\ t' = EmptyTree /\ call' = Idle /\ live' = live /\ answer' = answer
  BY DEF destroyReturn
<1>2. live = {}
  <2>1. D[call.now] = {} /\ DOMAIN call.calls = {}
    BY <1>1 DEF Fits, IsTree, Shape
  <2> QED
    BY <1>1, <2>1 DEF Fits, Placed, Destroying
<1>3. Inv'
  <2> DEFINE E == [m \in Pointers |-> {}]
  <2>1. IsTree(t', E) /\ Members(t', E) = {}
    BY <1>1, EmptyIsTree
  <2>2. HeapAgrees'
    BY <1>1, <1>2 DEF HeapAgrees, EmptyTree
  <2> HIDE DEF E
  <2> QED
    BY <1>1, <1>2, <2>1, <2>2 DEF Inv, Fits, Placed, Forgotten, Idle
<1>4. Bag' = Bag
  <2>1. \A k \in Keys : Held(k)' = Held(k)
    BY <1>1, <1>2 DEF Held
  <2> QED
    BY <2>1, SameBag
<1> QED
  BY <1>1, <1>3, <1>4 DEF Follows

-----------------------------------------------------------------------------
(* Every step. *)

LEMMA NextFollows ==
  ASSUME ConstantsOK, Inv, [Next]_vars
  PROVE  Follows
<1>1. PICK D : Fits(D)
  BY DEF Inv
<1>2. ASSUME NEW key \in Keys, insert(key) PROVE Follows
  BY <1>1, <1>2, InsertFollows
<1>3. ASSUME NEW key \in Keys, search(key) \/ remove(key) PROVE Follows
  BY <1>1, <1>3, SearchFollows
<1>4. CASE insertDown
  BY <1>1, <1>4, InsertDownFollows
<1>5. CASE insertLink
  BY <1>1, <1>5, InsertLinkFollows
<1>6. CASE searchDown
  BY <1>1, <1>6, SearchDownFollows
<1>7. CASE searchReturn
  BY <1>1, <1>7, SearchReturnFollows
<1>8. CASE inorderPrint
  BY <1>1, <1>8, PrintFollows
<1>9. CASE printLeft
  BY <1>1, <1>9, PrintLeftFollows
<1>10. CASE printNode
  BY <1>1, <1>10, PrintNodeFollows
<1>11. CASE printReturn
  BY <1>1, <1>11, PrintReturnFollows
<1>12. CASE removeNothing
  BY <1>1, <1>12, RemoveNothingFollows
<1>13. CASE removeNode
  BY <1>1, <1>13, RemoveNodeFollows
<1>14. CASE minimunDown
  BY <1>1, <1>14, MinimunDownFollows
<1>15. CASE removeReplaced
  BY <1>1, <1>15, RemoveReplacedFollows
<1>16. CASE destroy
  BY <1>1, <1>16, DestroyFollows
<1>17. CASE destroyLeft
  BY <1>1, <1>17, DestroyLeftFollows
<1>18. CASE destroyBack
  BY <1>1, <1>18, DestroyBackFollows
<1>19. CASE destroyReturn
  BY <1>1, <1>19, DestroyReturnFollows
<1>20. CASE UNCHANGED vars
  <2>1. t' = t /\ live' = live /\ call' = call /\ answer' = answer
    BY <1>20 DEF vars
  <2>2. Fits(D)'
    BY <1>1, <2>1 DEF Fits, HeapAgrees, Forgotten, Placed, Inserting, Searching, Replacing,
                      Printing, CallsDescend, ToPrint, PrintedOf, Destroying, Toward
  <2>3. Bag' = Bag
    BY <2>1, SameBag DEF Held
  <2> QED
    BY <2>1, <2>2, <2>3 DEF Follows, Inv
<1> QED
  BY <1>2, <1>3, <1>4, <1>5, <1>6, <1>7, <1>8, <1>9, <1>10, <1>11, <1>12, <1>13, <1>14,
     <1>15, <1>16, <1>17, <1>18, <1>19, <1>20 DEF Next

LEMMA InitFollows ==
  ASSUME Init
  PROVE  Inv /\ Promise!Init
<1> DEFINE E == [m \in Pointers |-> {}]
<1>1. t = EmptyTree /\ live = {} /\ call = Idle /\ answer = NoAnswer
  BY DEF Init
<1>2. IsTree(t, E) /\ Members(t, E) = {}
  BY <1>1, EmptyIsTree
<1>3. HeapAgrees
  BY <1>1 DEF HeapAgrees, EmptyTree
<1> HIDE DEF E
<1>4. Inv
  BY <1>1, <1>2, <1>3 DEF Inv, Fits, Placed, Forgotten, Idle
<1>5. Bag = [k \in Keys |-> 0]
  <2>1. \A k \in Keys : Held(k) = {}
    BY <1>1 DEF Held
  <2>2. Cardinality({}) = 0
    BY FS_EmptySet
  <2> QED
    BY <2>1, <2>2 DEF Bag
<1> QED
  BY <1>1, <1>4, <1>5 DEF Promise!Init, Promise!EmptyBag, Promise!NoAnswer, NoAnswer

-----------------------------------------------------------------------------
(* The pointers stay pointers to nodes, the keys keys, and an operation     *)
(* under way keeps to its local variables.                                  *)
THEOREM TypeCorrect == ASSUME ConstantsOK PROVE Spec => []TypeOK
<1>1. Init => Inv
  BY InitFollows
<1>2. Inv /\ [Next]_vars => Inv'
  BY NextFollows DEF Follows
<1>3. Inv => TypeOK
  BY InvTyped
<1> QED
  BY <1>1, <1>2, <1>3, PTL DEF Spec

(* The tree answers as a bag of keys would: after any insertions, removals  *)
(* and destructions search finds a key as long as one of it is left,        *)
(* inorderPrint lists all in order, and remove takes out one node           *)
(* (binarySearchTree.cpp:4-107).                                            *)
THEOREM TreeImplementsBag == ASSUME ConstantsOK PROVE Spec => ImplementsBag
<1>1. Init => Inv /\ Promise!Init
  BY InitFollows
<1>2. Inv /\ [Next]_vars => Inv' /\ [Promise!Next]_<<Bag, answer>>
  BY NextFollows DEF Follows
<1> QED
  BY <1>1, <1>2, PTL DEF Spec, ImplementsBag, Promise!Spec
=============================================================================
