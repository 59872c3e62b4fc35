------------------------- MODULE EclipseMonitorProofs -------------------------
(***************************************************************************)
(* Proofs about EclipseMonitor for every set of blocks and forks, every     *)
(* order and repetition in which the host feeds them, every checkpoint size *)
(* from two and every chain length; at the end, about the monitor behind    *)
(* the host's own feed, BlockFeed.                                          *)
(***************************************************************************)
EXTENDS BlockFeed, FiniteSetTheorems, WellFoundedInduction, TLAPS

USE MonitorAssumption
-----------------------------------------------------------------------------
(***************************************************************************)
(* Unrolling the recursive function of Lineage: the sets of ancestors,      *)
(* defined without recursion, satisfy its equation.                         *)
(***************************************************************************)
ParentsKept(ns) ==
    \A j \in DOMAIN ns : ns[j].parent # NoParent => ns[j].parent \in DOMAIN ns

Closed(ns, S) ==
    \A j \in S \cap DOMAIN ns : ns[j].parent # NoParent => ns[j].parent \in S

Ancestors(ns, j) ==
    {k \in DOMAIN ns : \A S \in SUBSET DOMAIN ns : j \in S /\ Closed(ns, S) => k \in S}

\* The ancestors of a node are itself and those of its parent.
LEMMA AncestorsStep ==
    ASSUME NEW ns, ParentsKept(ns), NEW j \in DOMAIN ns
    PROVE  Ancestors(ns, j) =
             {j} \cup (IF ns[j].parent = NoParent THEN {} ELSE Ancestors(ns, ns[j].parent))
  <1> DEFINE p == ns[j].parent
             T == {j} \cup (IF p = NoParent THEN {} ELSE Ancestors(ns, p))
  <1>1. T \in SUBSET DOMAIN ns
    BY DEF Ancestors
  <1>2. Closed(ns, T)
    <2>1. SUFFICES ASSUME NEW k \in T, ns[k].parent # NoParent PROVE ns[k].parent \in T
      BY DEF Closed
    <2>2. CASE k = j
      BY <2>1, <2>2 DEF Ancestors, ParentsKept, Closed
    <2>3. CASE k # j
      <3>1. p # NoParent /\ k \in Ancestors(ns, p)
        BY <2>1, <2>3
      <3>2. ns[k].parent \in Ancestors(ns, p)
        BY <2>1, <3>1 DEF Ancestors, Closed, ParentsKept
      <3> QED BY <3>1, <3>2
    <2> QED BY <2>2, <2>3
  <1>3. Ancestors(ns, j) \subseteq T
    BY <1>1, <1>2 DEF Ancestors
  <1>4. ASSUME NEW k \in T PROVE k \in Ancestors(ns, j)
    <2>1. ASSUME NEW S \in SUBSET DOMAIN ns, j \in S, Closed(ns, S) PROVE k \in S
      BY <1>4, <2>1 DEF Ancestors, Closed
    <2> QED BY <1>1, <1>4, <2>1 DEF Ancestors
  <1> QED BY <1>3, <1>4

\* The equation of Lineage holds: the lineage of a node is itself and the lineage of
\* its parent.
LEMMA LineageStep ==
    ASSUME NEW ns, ParentsKept(ns), NEW i \in DOMAIN ns
    PROVE  Lineage(ns, i) =
             {i} \cup (IF ns[i].parent = NoParent THEN {} ELSE Lineage(ns, ns[i].parent))
  <1> DEFINE g(f) == [j \in DOMAIN ns |->
                        {j} \cup (IF ns[j].parent = NoParent THEN {} ELSE f[ns[j].parent])]
             up == CHOOSE f : f = g(f)
             a == [j \in DOMAIN ns |-> Ancestors(ns, j)]
  <1>1. a = g(a)
    BY AncestorsStep DEF ParentsKept
  <1>2. up = g(up)
    <2> HIDE DEF a, g
    <2> QED BY <1>1
  <1>3. \A j : Lineage(ns, j) = up[j]
    BY DEF Lineage
  <1> HIDE DEF up
  <1> QED BY <1>2, <1>3 DEF ParentsKept

\* A set of numbers that is not empty has a least element.
LEMMA Least ==
    ASSUME NEW T \in SUBSET Nat, T # {}
    PROVE  \E x \in T : \A y \in T : x <= y
  <1> DEFINE R == {p \in Nat \X Nat : p[1] < p[2]}
  <1>1. IsWellFoundedOn(R, Nat)
    BY NatLessThanWellFounded DEF OpToRel
  <1>2. PICK x \in T : \A y \in T : <<y, x>> \notin R
    <2> HIDE DEF R
    <2> QED BY <1>1, WFMin
  <1>3. \A y \in T : x <= y
    <2> TAKE y \in T
    <2>1. x \in Nat /\ y \in Nat
      OBVIOUS
    <2>2. <<y, x>> \in Nat \X Nat /\ ~(y < x)
      BY <2>1, <1>2
    <2> QED BY <2>1, <2>2
  <1> QED BY <1>3

\* Min, which takes the first child that may be released, returns one of them.
LEMMA MinIsOne ==
    ASSUME NEW T \in SUBSET Nat, T # {}
    PROVE  Min(T) \in T
  BY Least DEF Min
-----------------------------------------------------------------------------
(***************************************************************************)
(* Trees.                                                                  *)
(***************************************************************************)
\* Induction from the root: parents are made before their children.
LEMMA TreeInduction ==
    ASSUME NEW ns, NEW n, Tree(ns, n), NEW G,
           \A i \in DOMAIN ns : ns[i].parent = NoParent \/ ns[i].parent \in G => i \in G
    PROVE  \A i \in DOMAIN ns : i \in G
  <1> DEFINE T == {i \in DOMAIN ns : i \notin G}
  <1> SUFFICES ASSUME T # {} PROVE FALSE
    OBVIOUS
  <1>1. T \in SUBSET Nat
    BY DEF Tree
  <1>2. PICK x \in T : \A y \in T : x <= y
    BY <1>1, Least
  <1>3. ns[x].parent # NoParent /\ ns[x].parent \notin G
    OBVIOUS
  <1>4. ns[x].parent \in T /\ ns[x].parent < x
    BY <1>3 DEF Tree
  <1>5. x \in Nat /\ ns[x].parent \in Nat
    BY <1>1, <1>4
  <1> QED BY <1>2, <1>4, <1>5

\* The parents of a tree's nodes are in the tree.
LEMMA TreeParents ==
    ASSUME NEW ns, NEW n, Tree(ns, n)
    PROVE  ParentsKept(ns)
  BY DEF Tree, ParentsKept

\* The root is the one node without a parent.
LEMMA RootOfTree ==
    ASSUME NEW ns, NEW n, Tree(ns, n)
    PROVE  /\ Root(ns) \in DOMAIN ns /\ ns[Root(ns)].parent = NoParent
           /\ \A i \in DOMAIN ns : ns[i].parent = NoParent => i = Root(ns)
  BY DEF Tree, Root

\* A lineage lies in the tree and holds its own node.
LEMMA LineageInTree ==
    ASSUME NEW ns, NEW n, Tree(ns, n)
    PROVE  \A i \in DOMAIN ns : i \in Lineage(ns, i) /\ Lineage(ns, i) \subseteq DOMAIN ns
  <1>1. ParentsKept(ns)
    BY TreeParents
  <1> DEFINE G == {i \in DOMAIN ns : Lineage(ns, i) \subseteq DOMAIN ns}
  <1>2. ASSUME NEW i \in DOMAIN ns, ns[i].parent = NoParent \/ ns[i].parent \in G
        PROVE  i \in G
    BY <1>1, <1>2, LineageStep
  <1>3. \A i \in DOMAIN ns : i \in G
    <2> HIDE DEF G
    <2> QED BY <1>2, TreeInduction
  <1>4. \A i \in DOMAIN ns : i \in Lineage(ns, i)
    BY <1>1, LineageStep
  <1> QED BY <1>3, <1>4

\* The ancestors of an ancestor are ancestors.
LEMMA LineageTransitive ==
    ASSUME NEW ns, NEW n, Tree(ns, n)
    PROVE  \A i \in DOMAIN ns : \A j \in Lineage(ns, i) : Lineage(ns, j) \subseteq Lineage(ns, i)
  <1>1. ParentsKept(ns)
    BY TreeParents
  <1> DEFINE G == {i \in DOMAIN ns : \A j \in Lineage(ns, i) : Lineage(ns, j) \subseteq Lineage(ns, i)}
  <1>2. ASSUME NEW i \in DOMAIN ns, ns[i].parent = NoParent \/ ns[i].parent \in G
        PROVE  i \in G
    <2>1. Lineage(ns, i) =
            {i} \cup (IF ns[i].parent = NoParent THEN {} ELSE Lineage(ns, ns[i].parent))
      BY <1>1, LineageStep
    <2>2. ASSUME NEW j \in Lineage(ns, i) PROVE Lineage(ns, j) \subseteq Lineage(ns, i)
      BY <1>2, <2>1, <2>2
    <2> QED BY <2>2
  <1>3. \A i \in DOMAIN ns : i \in G
    <2> HIDE DEF G
    <2> QED BY <1>2, TreeInduction
  <1> QED BY <1>3

\* Block numbers grow along a lineage: no header occurs twice in it.
LEMMA LineageNumbers ==
    ASSUME NEW ns, NEW n, Tree(ns, n)
    PROVE  \A i \in DOMAIN ns : \A k \in Lineage(ns, i) :
              k = i \/ NumberOf[ns[k].hdr] < NumberOf[ns[i].hdr]
  <1>1. ParentsKept(ns)
    BY TreeParents
  <1> DEFINE G == {i \in DOMAIN ns : \A k \in Lineage(ns, i) :
                      k = i \/ NumberOf[ns[k].hdr] < NumberOf[ns[i].hdr]}
  <1>2. ASSUME NEW i \in DOMAIN ns, ns[i].parent = NoParent \/ ns[i].parent \in G
        PROVE  i \in G
    <2>1. Lineage(ns, i) =
            {i} \cup (IF ns[i].parent = NoParent THEN {} ELSE Lineage(ns, ns[i].parent))
      BY <1>1, LineageStep
    <2>2. ASSUME NEW k \in Lineage(ns, i), k # i
          PROVE  NumberOf[ns[k].hdr] < NumberOf[ns[i].hdr]
      <3> DEFINE p == ns[i].parent
      <3>1. p # NoParent /\ p \in G /\ k \in Lineage(ns, p) /\ p \in DOMAIN ns
        BY <1>1, <1>2, <2>1, <2>2 DEF ParentsKept
      <3>2. k \in DOMAIN ns
        BY <3>1, LineageInTree
      <3>3. /\ NumberOf[ns[k].hdr] \in Nat /\ NumberOf[ns[p].hdr] \in Nat
            /\ ns[i].hdr \in Blocks /\ ns[p].hdr \in Blocks
        BY <3>1, <3>2 DEF Tree
      <3>4. NumberOf[ns[i].hdr] = NumberOf[ns[p].hdr] + 1
        BY <3>1, <3>3 DEF Tree
      <3>5. k = p \/ NumberOf[ns[k].hdr] < NumberOf[ns[p].hdr]
        BY <3>1
      <3> QED BY <3>3, <3>4, <3>5
    <2> QED BY <2>2
  <1>3. \A i \in DOMAIN ns : i \in G
    <2> HIDE DEF G
    <2> QED BY <1>2, TreeInduction
  <1> QED BY <1>3
-----------------------------------------------------------------------------
(***************************************************************************)
(* A new leaf.                                                             *)
(***************************************************************************)
Grown(new, ns, p, b) ==
    /\ DOMAIN new = DOMAIN ns \cup {fresh}
    /\ new[fresh] = [hdr |-> b, parent |-> p, desc |-> 0]
    /\ \A i \in DOMAIN ns :
         /\ new[i] \in [hdr : Blocks, parent : Nat, desc : Nat]
         /\ new[i].hdr = ns[i].hdr /\ new[i].parent = ns[i].parent
         /\ new[i].desc = ns[i].desc + (IF i \in Counted(ns, p) THEN 1 ELSE 0)

\* What AddChild leaves of the old nodes, and the node it makes.
LEMMA AddChildNodes ==
    ASSUME NEW ns, NEW p, NEW b, fresh \notin DOMAIN ns,
           \A i \in DOMAIN ns : ns[i] \in [hdr : Blocks, parent : Nat, desc : Nat]
    PROVE  Grown(AddChild(ns, p, b), ns, p, b)
  BY DEF AddChild, Grown

\* The tree with a new leaf is a tree with the same root.
LEMMA AddChildTree ==
    ASSUME NEW ns, NEW n \in Nat, Tree(ns, n), fresh = n + 1,
           NEW p \in DOMAIN ns, NEW b \in Blocks, ParentOf[b] = ns[p].hdr
    PROVE  /\ Tree(AddChild(ns, p, b), fresh)
           /\ Root(AddChild(ns, p, b)) = Root(ns)
  <1> DEFINE new == AddChild(ns, p, b)
  <1>1. /\ fresh \notin DOMAIN ns /\ DOMAIN ns \subseteq 1..n /\ p \in Nat /\ p < fresh
        /\ p # NoParent
    BY DEF Tree, NoParent
  <1>2. /\ DOMAIN new = DOMAIN ns \cup {fresh}
        /\ new[fresh] = [hdr |-> b, parent |-> p, desc |-> 0]
        /\ \A i \in DOMAIN ns : /\ new[i] \in [hdr : Blocks, parent : Nat, desc : Nat]
                                /\ new[i].hdr = ns[i].hdr /\ new[i].parent = ns[i].parent
    <2>1. \A i \in DOMAIN ns : ns[i] \in [hdr : Blocks, parent : Nat, desc : Nat]
      BY DEF Tree
    <2>2. Grown(new, ns, p, b)
      BY <1>1, <2>1, AddChildNodes
    <2> HIDE DEF new
    <2> QED BY <2>2 DEF Grown
  <1> HIDE DEF new
  <1>3. DOMAIN new \subseteq 1..fresh
    BY <1>1, <1>2
  <1>4. ASSUME NEW i \in DOMAIN new
        PROVE  /\ new[i] \in [hdr : Blocks, parent : Nat, desc : Nat]
               /\ new[i].parent # NoParent =>
                    /\ new[i].parent \in DOMAIN new /\ new[i].parent < i
                    /\ ParentOf[new[i].hdr] = new[new[i].parent].hdr
    <2>1. CASE i = fresh
      BY <1>1, <1>2, <2>1
    <2>2. CASE i \in DOMAIN ns
      BY <1>2, <2>2 DEF Tree
    <2> QED BY <1>2, <2>1, <2>2
  <1>5. \A i \in DOMAIN new : new[i].parent = NoParent <=> i = Root(ns)
    BY <1>1, <1>2, RootOfTree
  <1>6. Root(ns) \in DOMAIN new
    BY <1>2, RootOfTree
  <1>7. Tree(new, fresh)
    BY <1>3, <1>4, <1>5, <1>6 DEF Tree
  <1>8. Root(new) = Root(ns)
    BY <1>5, <1>7, RootOfTree
  <1> QED BY <1>7, <1>8 DEF new

\* The old lineages stay; the leaf's is its parent's and itself.
LEMMA AddChildLineage ==
    ASSUME NEW ns, NEW n \in Nat, Tree(ns, n), fresh = n + 1,
           NEW p \in DOMAIN ns, NEW b \in Blocks, ParentOf[b] = ns[p].hdr
    PROVE  /\ \A i \in DOMAIN ns : Lineage(AddChild(ns, p, b), i) = Lineage(ns, i)
           /\ Lineage(AddChild(ns, p, b), fresh) = {fresh} \cup Lineage(ns, p)
  <1> DEFINE new == AddChild(ns, p, b)
  <1>0. ParentsKept(ns) /\ ParentsKept(new)
    <2>1. Tree(new, fresh)
      BY AddChildTree
    <2> HIDE DEF new
    <2> QED BY <2>1, TreeParents
  <1>1. fresh \notin DOMAIN ns /\ p # NoParent
    BY DEF Tree, NoParent
  <1>2. /\ DOMAIN new = DOMAIN ns \cup {fresh} /\ new[fresh].parent = p
        /\ \A i \in DOMAIN ns : new[i].parent = ns[i].parent
    <2>1. \A i \in DOMAIN ns : ns[i] \in [hdr : Blocks, parent : Nat, desc : Nat]
      BY DEF Tree
    <2>2. Grown(new, ns, p, b)
      BY <1>1, <2>1, AddChildNodes
    <2> HIDE DEF new
    <2> QED BY <2>2 DEF Grown
  <1> HIDE DEF new
  <1> DEFINE G == {i \in DOMAIN ns : Lineage(new, i) = Lineage(ns, i)}
  <1>3. ASSUME NEW i \in DOMAIN ns, ns[i].parent = NoParent \/ ns[i].parent \in G
        PROVE  i \in G
    <2>1. Lineage(ns, i) =
            {i} \cup (IF ns[i].parent = NoParent THEN {} ELSE Lineage(ns, ns[i].parent))
      BY <1>0, LineageStep
    <2>2. Lineage(new, i) =
            {i} \cup (IF ns[i].parent = NoParent THEN {} ELSE Lineage(new, ns[i].parent))
      BY <1>0, <1>2, LineageStep
    <2> QED BY <1>3, <2>1, <2>2
  <1>4. \A i \in DOMAIN ns : i \in G
    <2> HIDE DEF G
    <2> QED BY <1>3, TreeInduction
  <1>5. Lineage(new, fresh) = {fresh} \cup Lineage(new, p)
    BY <1>0, <1>1, <1>2, LineageStep
  <1> QED BY <1>4, <1>5 DEF new

\* Subtrees of a tree are finite, and hold their own root.
LEMMA SubtreeFinite ==
    ASSUME NEW ns, NEW n \in Nat, Tree(ns, n), NEW i \in DOMAIN ns
    PROVE  /\ IsFiniteSet(DOMAIN ns) /\ IsFiniteSet(Subtree(ns, i))
           /\ i \in Subtree(ns, i) /\ Subtree(ns, i) \subseteq DOMAIN ns
           /\ Cardinality(Subtree(ns, i)) \in Nat
  <1>1. IsFiniteSet(DOMAIN ns)
    <2>1. IsFiniteSet(1..n)
      BY FS_Interval
    <2>2. DOMAIN ns \subseteq 1..n
      BY DEF Tree
    <2> QED BY <2>1, <2>2, FS_Subset
  <1>2. Subtree(ns, i) \subseteq DOMAIN ns /\ i \in Subtree(ns, i)
    BY LineageInTree DEF Subtree
  <1>3. IsFiniteSet(Subtree(ns, i))
    BY <1>1, <1>2, FS_Subset
  <1>4. Cardinality(Subtree(ns, i)) \in Nat
    BY <1>3, FS_CardinalityType
  <1> QED BY <1>1, <1>2, <1>3, <1>4

\* AddDescCount, called up the branch by the new leaf, keeps every count exact.
LEMMA AddChildCounts ==
    ASSUME NEW ns, NEW n \in Nat, Tree(ns, n), fresh = n + 1, CountsExact(ns),
           NEW p \in DOMAIN ns, NEW b \in Blocks, ParentOf[b] = ns[p].hdr
    PROVE  CountsExact(AddChild(ns, p, b))
  <1> DEFINE new == AddChild(ns, p, b)
  <1>1. fresh \notin DOMAIN ns
    BY DEF Tree
  <1>2. /\ DOMAIN new = DOMAIN ns \cup {fresh} /\ new[fresh].desc = 0
        /\ \A i \in DOMAIN ns :
             /\ new[i].parent = ns[i].parent
             /\ new[i].desc = ns[i].desc + (IF i \in Counted(ns, p) THEN 1 ELSE 0)
    <2>1. \A i \in DOMAIN ns : ns[i] \in [hdr : Blocks, parent : Nat, desc : Nat]
      BY DEF Tree
    <2>2. Grown(new, ns, p, b)
      BY <1>1, <2>1, AddChildNodes
    <2> HIDE DEF new
    <2> QED BY <2>2 DEF Grown
  <1>3. /\ \A i \in DOMAIN ns : Lineage(new, i) = Lineage(ns, i)
        /\ Lineage(new, fresh) = {fresh} \cup Lineage(ns, p)
    BY AddChildLineage
  <1> HIDE DEF new
  <1> SUFFICES ASSUME NEW i \in DOMAIN new, new[i].parent # NoParent
               PROVE  new[i].desc = Cardinality(Subtree(new, i)) - 1
    BY DEF CountsExact, new
  <1>4. CASE i = fresh
    <2>1. Subtree(new, i) = {fresh}
      BY <1>1, <1>2, <1>3, <1>4, LineageInTree DEF Subtree
    <2>2. Cardinality({fresh}) = 1
      BY FS_Singleton
    <2>3. new[i].desc = 0
      BY <1>2, <1>4
    <2> QED BY <2>1, <2>2, <2>3
  <1>5. CASE i \in DOMAIN ns
    <2>1. /\ ns[i].parent # NoParent /\ ns[i].desc = Cardinality(Subtree(ns, i)) - 1
          /\ Cardinality(Subtree(ns, i)) \in Nat /\ IsFiniteSet(Subtree(ns, i))
          /\ fresh \notin Subtree(ns, i)
      BY <1>1, <1>2, <1>5, SubtreeFinite DEF CountsExact
    <2>2. i \in Counted(ns, p) <=> i \in Lineage(ns, p)
      BY <2>1, RootOfTree DEF Counted
    <2>3. CASE i \in Lineage(ns, p)
      <3>1. Subtree(new, i) = Subtree(ns, i) \cup {fresh}
        BY <1>2, <1>3, <2>3 DEF Subtree
      <3>2. Cardinality(Subtree(new, i)) = Cardinality(Subtree(ns, i)) + 1
        <4> DEFINE S == Subtree(ns, i)
        <4>1. IsFiniteSet(S) /\ fresh \notin S
          BY <2>1
        <4> HIDE DEF S
        <4>2. Cardinality(S \cup {fresh}) = Cardinality(S) + 1
          BY <4>1, FS_AddElement
        <4> QED BY <3>1, <4>2 DEF S
      <3>3. new[i].desc = ns[i].desc + 1
        BY <1>2, <1>5, <2>2, <2>3
      <3> QED BY <2>1, <3>2, <3>3
    <2>4. CASE i \notin Lineage(ns, p)
      <3>1. Subtree(new, i) = Subtree(ns, i)
        BY <1>1, <1>2, <1>3, <1>5, <2>4 DEF Subtree
      <3>2. new[i].desc = ns[i].desc + 0
        BY <1>2, <1>5, <2>2, <2>4
      <3> QED BY <2>1, <3>1, <3>2
    <2> QED BY <2>3, <2>4
  <1> QED BY <1>2, <1>4, <1>5
-----------------------------------------------------------------------------
(***************************************************************************)
(* The release of a child of the root: its branch is cut off, the rest is  *)
(* destroyed.                                                              *)
(***************************************************************************)
\* In a branch everything but its root has its parent there.
LEMMA BranchParents ==
    ASSUME NEW ns, NEW n \in Nat, Tree(ns, n), NEW c \in DOMAIN ns,
           NEW i \in Subtree(ns, c), i # c
    PROVE  /\ i \in DOMAIN ns /\ ns[i].parent # NoParent
           /\ ns[i].parent \in Subtree(ns, c)
  <1>1. i \in DOMAIN ns /\ c \in Lineage(ns, i) /\ ParentsKept(ns)
    BY TreeParents DEF Subtree
  <1>2. Lineage(ns, i) =
          {i} \cup (IF ns[i].parent = NoParent THEN {} ELSE Lineage(ns, ns[i].parent))
    BY <1>1, LineageStep
  <1>3. ns[i].parent # NoParent /\ c \in Lineage(ns, ns[i].parent)
    BY <1>1, <1>2
  <1> QED BY <1>1, <1>3 DEF Subtree, ParentsKept

Cut(new, ns, c) ==
    /\ DOMAIN new = Subtree(ns, c)
    /\ new[c] = [hdr |-> ns[c].hdr, parent |-> NoParent, desc |-> 0]
    /\ \A i \in Subtree(ns, c) : i # c => new[i] = ns[i]

\* The released child becomes a root, and its branch stays as it was.
LEMMA ReleaseNodes ==
    ASSUME NEW ns, NEW n \in Nat, Tree(ns, n), NEW c \in DOMAIN ns
    PROVE  Cut(ReleaseChild(ns, c), ns, c)
  <1>1. c \in Subtree(ns, c) /\ ns[c] \in [hdr : Blocks, parent : Nat, desc : Nat]
    BY SubtreeFinite DEF Tree
  <1> QED BY <1>1 DEF ReleaseChild, Survivors, Cut

\* The released branch is a tree.
LEMMA ReleaseTree ==
    ASSUME NEW ns, NEW n \in Nat, Tree(ns, n), NEW c \in DOMAIN ns
    PROVE  /\ Tree(ReleaseChild(ns, c), n)
           /\ Root(ReleaseChild(ns, c)) = c
  <1> DEFINE new == ReleaseChild(ns, c)
             S == Subtree(ns, c)
  <1>1. Cut(new, ns, c)
    BY ReleaseNodes
  <1>2. c \in S /\ S \subseteq DOMAIN ns
    BY SubtreeFinite
  <1>3. \A i \in S : i # c => ns[i].parent # NoParent /\ ns[i].parent \in S
    BY BranchParents
  <1> HIDE DEF new, S
  <1>4. /\ DOMAIN new = S /\ new[c] = [hdr |-> ns[c].hdr, parent |-> NoParent, desc |-> 0]
        /\ \A i \in S : i # c => new[i] = ns[i]
    BY <1>1 DEF Cut, S
  <1>5. DOMAIN new \subseteq 1..n
    BY <1>2, <1>4 DEF Tree
  <1>6. ASSUME NEW i \in S
        PROVE  /\ new[i] \in [hdr : Blocks, parent : Nat, desc : Nat]
               /\ new[i].hdr = ns[i].hdr
    BY <1>2, <1>4, <1>6 DEF Tree, NoParent
  <1>7. ASSUME NEW i \in S, new[i].parent # NoParent
        PROVE  /\ new[i].parent \in DOMAIN new /\ new[i].parent < i
               /\ ParentOf[new[i].hdr] = new[new[i].parent].hdr
    <2>1. i # c /\ new[i] = ns[i]
      BY <1>4, <1>7
    <2>2. ns[i].parent \in S /\ ns[i].parent # NoParent
      BY <1>3, <2>1
    <2>3. ns[i].parent < i /\ ParentOf[ns[i].hdr] = ns[ns[i].parent].hdr
      BY <1>2, <2>2 DEF Tree
    <2> QED BY <1>4, <1>6, <2>1, <2>2, <2>3
  <1>8. \A i \in DOMAIN new : new[i].parent = NoParent <=> i = c
    BY <1>3, <1>4
  <1>9. Tree(new, n)
    BY <1>2, <1>4, <1>5, <1>6, <1>7, <1>8 DEF Tree
  <1>10. Root(new) = c
    BY <1>8, <1>9, RootOfTree
  <1> QED BY <1>9, <1>10 DEF new

\* Its lineages are the old ones, ended at the released child.
LEMMA ReleaseLineage ==
    ASSUME NEW ns, NEW n \in Nat, Tree(ns, n), NEW c \in DOMAIN ns
    PROVE  \A i \in Subtree(ns, c) :
              Lineage(ReleaseChild(ns, c), i) = Lineage(ns, i) \cap Subtree(ns, c)
  <1> DEFINE new == ReleaseChild(ns, c)
             S == Subtree(ns, c)
  <1>1. Cut(new, ns, c) /\ Tree(new, n) /\ ParentsKept(ns)
    BY ReleaseNodes, ReleaseTree, TreeParents
  <1>2. /\ c \in S /\ S \subseteq DOMAIN ns
        /\ \A i \in S : i # c => ns[i].parent # NoParent /\ ns[i].parent \in S
    BY SubtreeFinite, BranchParents
  <1>3. Lineage(ns, c) \cap S = {c}
    <2>1. ASSUME NEW k \in Lineage(ns, c) \cap S, k # c PROVE FALSE
      <3>1. k \in DOMAIN ns /\ c \in Lineage(ns, k)
        BY <1>2, <2>1 DEF Subtree
      <3>2. /\ NumberOf[ns[k].hdr] < NumberOf[ns[c].hdr]
            /\ NumberOf[ns[c].hdr] < NumberOf[ns[k].hdr]
        BY <2>1, <3>1, LineageNumbers
      <3>3. NumberOf[ns[k].hdr] \in Nat /\ NumberOf[ns[c].hdr] \in Nat
        BY <3>1 DEF Tree
      <3> QED BY <3>2, <3>3
    <2>2. c \in Lineage(ns, c)
      BY LineageInTree
    <2> QED BY <1>2, <2>1, <2>2
  <1> HIDE DEF new, S
  <1>4. /\ DOMAIN new = S /\ new[c].parent = NoParent
        /\ \A i \in S : i # c => new[i].parent = ns[i].parent
    BY <1>1 DEF Cut, S
  <1>5. ParentsKept(new)
    BY <1>1, TreeParents
  <1> DEFINE G == {i \in S : Lineage(new, i) = Lineage(ns, i) \cap S}
  <1>6. ASSUME NEW i \in DOMAIN new, new[i].parent = NoParent \/ new[i].parent \in G
        PROVE  i \in G
    <2>1. Lineage(new, i) =
            {i} \cup (IF new[i].parent = NoParent THEN {} ELSE Lineage(new, new[i].parent))
      BY <1>5, LineageStep
    <2>2. CASE i = c
      BY <1>2, <1>3, <1>4, <2>1, <2>2
    <2>3. CASE i # c
      <3>1. i \in S /\ ns[i].parent # NoParent /\ new[i].parent = ns[i].parent
        BY <1>2, <1>4, <2>3
      <3>2. Lineage(ns, i) = {i} \cup Lineage(ns, ns[i].parent)
        BY <1>1, <1>2, <3>1, LineageStep
      <3> QED BY <1>6, <2>1, <3>1, <3>2
    <2> QED BY <2>2, <2>3
  <1>7. \A i \in DOMAIN new : i \in G
    <2> HIDE DEF G
    <2> QED BY <1>1, <1>6, TreeInduction
  <1> QED BY <1>4, <1>7 DEF new, S

\* The branch keeps its counts, which stay exact whatever is destroyed above.
LEMMA ReleaseCounts ==
    ASSUME NEW ns, NEW n \in Nat, Tree(ns, n), CountsExact(ns), NEW c \in DOMAIN ns
    PROVE  CountsExact(ReleaseChild(ns, c))
  <1> DEFINE new == ReleaseChild(ns, c)
             S == Subtree(ns, c)
  <1>1. Cut(new, ns, c)
    BY ReleaseNodes
  <1>2. /\ \A i \in S : Lineage(new, i) = Lineage(ns, i) \cap S
        /\ S \subseteq DOMAIN ns
    BY ReleaseLineage, SubtreeFinite
  <1>3. \A i \in S : i # c => ns[i].parent # NoParent
    BY BranchParents
  <1>4. \A i \in S, j \in DOMAIN ns : i \in Lineage(ns, j) => j \in S
    <2> SUFFICES ASSUME NEW i \in S, NEW j \in DOMAIN ns, i \in Lineage(ns, j)
                 PROVE  j \in S
      OBVIOUS
    <2>1. c \in Lineage(ns, i)
      BY DEF Subtree
    <2>2. c \in Lineage(ns, j)
      BY <2>1, LineageTransitive
    <2> QED BY <2>2 DEF Subtree
  <1> HIDE DEF new, S
  <1>5. /\ DOMAIN new = S /\ new[c].parent = NoParent
        /\ \A i \in S : i # c => new[i] = ns[i]
    BY <1>1 DEF Cut, S
  <1>6. ASSUME NEW i \in DOMAIN new, new[i].parent # NoParent
        PROVE  new[i].desc = Cardinality(Subtree(new, i)) - 1
    <2>1. i \in S /\ i # c /\ new[i] = ns[i] /\ ns[i].parent # NoParent
      BY <1>3, <1>5, <1>6
    <2>2. Subtree(new, i) = Subtree(ns, i)
      BY <1>2, <1>4, <1>5, <2>1 DEF Subtree
    <2> QED BY <1>2, <2>1, <2>2 DEF CountsExact
  <1> QED BY <1>6 DEF CountsExact, new
-----------------------------------------------------------------------------
(***************************************************************************)
(* The checkpoint manager's headers.                                       *)
(***************************************************************************)
\* A header that extends the last one of a chain makes it longer.
LEMMA ChainGrows ==
    ASSUME NEW s \in Seq(Blocks), IsChain(s), NEW h \in Blocks,
           s # <<>> => ParentOf[h] = s[Len(s)]
    PROVE  Append(s, h) \in Seq(Blocks) /\ IsChain(Append(s, h))
  <1>1. Len(s) \in Nat /\ Len(Append(s, h)) = Len(s) + 1
    OBVIOUS
  <1>2. ASSUME NEW i \in 2..(Len(s) + 1)
        PROVE  ParentOf[Append(s, h)[i]] = Append(s, h)[i - 1]
    <2>1. CASE i \in 2..Len(s)
      <3>1. Append(s, h)[i] = s[i] /\ Append(s, h)[i - 1] = s[i - 1]
        BY <1>1, <2>1
      <3> QED BY <2>1, <3>1 DEF IsChain
    <2>2. CASE i = Len(s) + 1
      <3>1. Append(s, h)[i] = h /\ Append(s, h)[i - 1] = s[Len(s)] /\ s # <<>>
        BY <1>1, <1>2, <2>2
      <3> QED BY <3>1
    <2> QED BY <1>1, <2>1, <2>2
  <1> QED BY <1>1, <1>2 DEF IsChain

\* What a chain ends with is a chain.
LEMMA ChainEnds ==
    ASSUME NEW s \in Seq(Blocks), NEW t \in Seq(Blocks), IsChain(s \o t)
    PROVE  IsChain(t)
  <1>1. /\ Len(s) \in Nat /\ Len(t) \in Nat /\ Len(s \o t) = Len(s) + Len(t)
        /\ \A i \in 1..Len(t) : (s \o t)[Len(s) + i] = t[i]
    OBVIOUS
  <1> SUFFICES ASSUME NEW i \in 2..Len(t) PROVE ParentOf[t[i]] = t[i - 1]
    BY DEF IsChain
  <1>2. Len(s) + i \in 2..Len(s \o t) /\ i - 1 \in 1..Len(t) /\ i \in 1..Len(t)
    BY <1>1
  <1>3. ParentOf[(s \o t)[Len(s) + i]] = (s \o t)[Len(s) + i - 1]
    <2> DEFINE u == s \o t
               j == Len(s) + i
    <2>1. j \in 2..Len(u) /\ IsChain(u)
      BY <1>2
    <2> HIDE DEF u, j
    <2>2. ParentOf[u[j]] = u[j - 1]
      BY <2>1 DEF IsChain
    <2> QED BY <2>2 DEF u, j
  <1>4. (s \o t)[Len(s) + i - 1] = t[i - 1]
    <2>1. Len(s) + i - 1 = Len(s) + (i - 1)
      BY <1>1
    <2> QED BY <1>1, <1>2, <2>1
  <1> QED BY <1>1, <1>2, <1>3, <1>4

\* Sequences that the manager puts together.
LEMMA Joins ==
    ASSUME NEW s \in Seq(Blocks), NEW t \in Seq(Blocks), NEW h \in Blocks
    PROVE  /\ s \o <<>> = s /\ <<>> \o s = s /\ s \o <<h>> = Append(s, h)
           /\ s \o t \in Seq(Blocks) /\ s \o Append(t, h) = Append(s \o t, h)
  OBVIOUS

\* A sequence that is not empty ends what it is put behind.
LEMMA JoinEnds ==
    ASSUME NEW s \in Seq(Blocks), NEW t \in Seq(Blocks), t # <<>>
    PROVE  /\ Len(t) > 0 /\ Len(s \o t) = Len(s) + Len(t)
           /\ (s \o t)[Len(s \o t)] = t[Len(t)]
  <1>1. /\ Len(s) \in Nat /\ Len(t) \in Nat /\ Len(t) > 0 /\ Len(s \o t) = Len(s) + Len(t)
        /\ \A i \in 1..Len(t) : (s \o t)[Len(s) + i] = t[i]
    OBVIOUS
  <1> QED BY <1>1

Managers == [curr : Seq(Blocks), cand : Seq(Blocks), last : Blocks \cup {Chk!None},
             lastIsCandidate : BOOLEAN]

\* The order in which a manager keeps its headers, by where the last one is.
LEMMA KeptViews ==
    ASSUME NEW k \in Managers,
           k.last = Chk!None => ~k.lastIsCandidate,
           k.last # Chk!None /\ ~k.lastIsCandidate => k.cand = <<>>
    PROVE  /\ k.last = Chk!None => Kept(k) = k.curr \o k.cand
           /\ k.last # Chk!None /\ k.lastIsCandidate =>
                Kept(k) = Append(k.curr \o k.cand, k.last)
           /\ k.last # Chk!None /\ ~k.lastIsCandidate => Kept(k) = Append(k.curr, k.last)
  <1> DEFINE own == IF k.last = Chk!None THEN <<>> ELSE <<k.last>>
  <1>1. /\ k.curr \in Seq(Blocks) /\ k.cand \in Seq(Blocks)
        /\ k.last \in Blocks \cup {Chk!None}
        /\ k.curr \o k.cand \in Seq(Blocks) /\ <<>> \in Seq(Blocks)
    BY Joins DEF Managers
  <1>2. Kept(k) = IF k.lastIsCandidate THEN k.curr \o k.cand \o own
                                       ELSE k.curr \o own \o k.cand
    BY DEF Kept
  <1>3. CASE k.last = Chk!None
    <2>1. own = <<>> /\ k.curr \o own = k.curr
      BY <1>1, <1>3
    <2> QED BY <1>2, <1>3, <2>1
  <1>4. CASE k.last # Chk!None
    <2>1. own = <<k.last>> /\ k.last \in Blocks
      BY <1>1, <1>4
    <2>2. /\ (k.curr \o k.cand) \o <<k.last>> = Append(k.curr \o k.cand, k.last)
          /\ k.curr \o <<k.last>> = Append(k.curr, k.last)
          /\ Append(k.curr, k.last) \o <<>> = Append(k.curr, k.last)
      <3>1. /\ \A u \in Seq(Blocks), x \in Blocks : u \o <<x>> = Append(u, x)
            /\ \A u \in Seq(Blocks), x \in Blocks : Append(u, x) \in Seq(Blocks)
            /\ \A u \in Seq(Blocks) : u \o <<>> = u
        BY Joins
      <3> QED BY <1>1, <2>1, <3>1, Zenon
    <2> QED BY <1>2, <1>4, <2>1, <2>2
  <1> QED BY <1>3, <1>4

\* AddHeader, called with a header that extends the newest, keeps one chain.
LEMMA AddHeaderManaged ==
    ASSUME NEW k, Managed(k), k.last = Chk!None, NEW h \in Blocks,
           ~Chk!IsEmpty(k) => ParentOf[h] = Chk!GetLastHeader(k)
    PROVE  Managed(Chk!AfterAddHeader(k, h)) /\ Chk!AfterAddHeader(k, h).last = Chk!None
  <1> DEFINE added == [k EXCEPT !.cand = Append(k.cand, h)]
             full == [added EXCEPT !.curr = added.cand, !.cand = <<>>]
  <1>1. /\ k \in Managers /\ k.curr \in Seq(Blocks) /\ k.cand \in Seq(Blocks)
        /\ ~k.lastIsCandidate /\ Kept(k) = k.curr \o k.cand /\ IsChain(k.curr \o k.cand)
        /\ k.curr \o k.cand \in Seq(Blocks) /\ <<>> \in Seq(Blocks)
    <2>1. k \in Managers /\ k.curr \in Seq(Blocks) /\ k.cand \in Seq(Blocks) /\ ~k.lastIsCandidate
      BY DEF Managed, Managers
    <2>2. Kept(k) = k.curr \o k.cand
      BY <2>1, KeptViews
    <2>3. IsChain(Kept(k))
      BY DEF Managed
    <2> QED BY <2>1, <2>2, <2>3
  <1>2. Chk!AfterAddHeader(k, h) = added \/ Chk!AfterAddHeader(k, h) = full
    BY DEF Chk!AfterAddHeader
  <1>3. IsChain(k.curr \o Append(k.cand, h)) /\ Append(k.cand, h) \in Seq(Blocks)
    <2> DEFINE s == k.curr \o k.cand
    <2>1. s # <<>> => ParentOf[h] = s[Len(s)]
      <3>1. CASE k.cand # <<>>
        <4>1. /\ Len(k.curr) \in Nat /\ Len(k.cand) \in Nat /\ Len(k.cand) > 0
              /\ Len(s) = Len(k.curr) + Len(k.cand) /\ s[Len(s)] = k.cand[Len(k.cand)]
          <5> DEFINE a == k.curr
                     d == k.cand
          <5>1. a \in Seq(Blocks) /\ d \in Seq(Blocks) /\ d # <<>>
            BY <1>1, <3>1
          <5> HIDE DEF a, d
          <5>2. Len(d) > 0 /\ Len(a \o d) = Len(a) + Len(d) /\ (a \o d)[Len(a \o d)] = d[Len(d)]
            BY <5>1, JoinEnds
          <5> QED BY <5>1, <5>2 DEF a, d
        <4> QED BY <3>1, <4>1 DEF Chk!IsEmpty, Chk!GetLastHeader
      <3>2. CASE k.cand = <<>>
        <4>1. s = k.curr
          BY <1>1, <3>2
        <4> QED BY <3>2, <4>1 DEF Chk!IsEmpty, Chk!GetLastHeader
      <3> QED BY <3>1, <3>2
    <2>2. s \in Seq(Blocks) /\ IsChain(s)
      BY <1>1
    <2>3. k.curr \o Append(k.cand, h) = Append(s, h)
      <3> DEFINE a == k.curr
                 d == k.cand
      <3>1. a \in Seq(Blocks) /\ d \in Seq(Blocks)
        BY <1>1
      <3> HIDE DEF a, d
      <3>2. a \o Append(d, h) = Append(a \o d, h)
        BY <3>1, Joins
      <3> QED BY <3>2 DEF a, d
    <2> HIDE DEF s
    <2>4. IsChain(Append(s, h))
      BY <2>1, <2>2, ChainGrows
    <2> QED BY <1>1, <2>3, <2>4
  <1>4. Managed(added) /\ added.last = Chk!None
    <2>1. /\ added \in Managers /\ added.curr = k.curr /\ added.cand = Append(k.cand, h)
          /\ added.last = Chk!None /\ ~added.lastIsCandidate
      BY <1>1, <1>3 DEF Managers
    <2> HIDE DEF added
    <2>2. Kept(added) = k.curr \o Append(k.cand, h)
      BY <2>1, KeptViews
    <2> QED BY <1>3, <2>1, <2>2 DEF Managed, Managers
  <1>5. Managed(full) /\ full.last = Chk!None
    <2>1. /\ full \in Managers /\ full.curr = Append(k.cand, h) /\ full.cand = <<>>
          /\ full.last = Chk!None /\ ~full.lastIsCandidate
      BY <1>1, <1>3 DEF Managers
    <2> HIDE DEF full
    <2>2. Kept(full) = Append(k.cand, h) \o <<>>
      BY <2>1, KeptViews
    <2>3. Append(k.cand, h) \o <<>> = Append(k.cand, h)
      BY <1>3
    <2>4. IsChain(Append(k.cand, h))
      BY <1>1, <1>3, ChainEnds
    <2> QED BY <2>1, <2>2, <2>3, <2>4 DEF Managed, Managers
  <1> HIDE DEF added, full
  <1> QED BY <1>2, <1>4, <1>5

\* AddNode, called with a header that extends the last node's, keeps one chain: when
\* a window completes it loses its oldest headers, else it grows.
LEMMA AddNodeManaged ==
    ASSUME NEW k, Managed(k), k.last # Chk!None, NEW h \in Blocks, ParentOf[h] = k.last
    PROVE  Managed(Chk!AfterAddNode(k, h)) /\ Chk!AfterAddNode(k, h).last = h
  <1> DEFINE a == k.curr
             d == k.cand
             l == k.last
             new == Chk!AfterAddNode(k, h)
  <1>1. /\ k \in Managers /\ a \in Seq(Blocks) /\ d \in Seq(Blocks) /\ l \in Blocks
        /\ k.lastIsCandidate \in BOOLEAN /\ h # Chk!None /\ <<>> \in Seq(Blocks)
    BY DEF Managed, Managers, Chk!None
  <1>2. IsChain(Kept(k))
    BY DEF Managed
  <1>3. CASE k.lastIsCandidate
    <2>1. Kept(k) = Append(a \o d, l)
      BY <1>1, <1>3, KeptViews
    <2>2. /\ Append(d, l) \in Seq(Blocks) /\ a \o Append(d, l) = Append(a \o d, l)
          /\ a \o Append(d, l) \in Seq(Blocks)
          /\ Append(d, l)[Len(Append(d, l))] = l /\ Append(d, l) # <<>>
      <3> HIDE DEF a, d, l
      <3>1. Append(d, l) \in Seq(Blocks)
        BY <1>1
      <3>2. a \o Append(d, l) = Append(a \o d, l)
        BY <1>1, Joins
      <3>3. a \o Append(d, l) \in Seq(Blocks)
        BY <1>1, <3>1
      <3>4. Len(d) \in Nat /\ Len(Append(d, l)) = Len(d) + 1
        BY <1>1
      <3>5. Append(d, l)[Len(d) + 1] = l
        BY <1>1
      <3>6. Append(d, l) # <<>>
        BY <3>4
      <3> QED BY <3>1, <3>2, <3>3, <3>4, <3>5, <3>6
    <2> DEFINE e == Append(d, l)
    <2>3. IsChain(a \o e) /\ e \in Seq(Blocks) /\ e # <<>> /\ e[Len(e)] = l
      BY <1>2, <2>1, <2>2
    <2>4. CASE Chk!Completes(Chk!GetNumOfCandidates(k) + 1)
      <3>1. new = [curr |-> e, cand |-> <<>>, last |-> h, lastIsCandidate |-> FALSE]
        BY <2>4 DEF Chk!AfterAddNode
      <3> HIDE DEF new, a, e
      <3>2. IsChain(e)
        BY <1>1, <2>3, ChainEnds
      <3>3. IsChain(Append(e, h))
        BY <2>3, <3>2, ChainGrows DEF l
      <3>4. /\ new \in Managers /\ new.curr = e /\ new.cand = <<>> /\ new.last = h
            /\ ~new.lastIsCandidate
        BY <1>1, <2>3, <3>1 DEF Managers
      <3>5. Kept(new) = Append(e, h)
        BY <1>1, <3>4, KeptViews
      <3> QED BY <1>1, <3>3, <3>4, <3>5 DEF Managed, Managers, new
    <2>5. CASE ~Chk!Completes(Chk!GetNumOfCandidates(k) + 1)
      <3>1. new = [[k EXCEPT !.cand = e] EXCEPT !.last = h, !.lastIsCandidate = TRUE]
        BY <1>3, <2>5 DEF Chk!AfterAddNode, Chk!Retired
      <3>2. /\ new \in Managers /\ new.curr = a /\ new.cand = e /\ new.last = h
            /\ new.lastIsCandidate
        BY <1>1, <2>3, <3>1 DEF Managers
      <3> HIDE DEF new, a, e
      <3>3. Kept(new) = Append(a \o e, h)
        BY <1>1, <3>2, KeptViews
      <3>4. IsChain(Append(a \o e, h))
        <4> DEFINE s == a \o e
        <4>1. s \in Seq(Blocks) /\ IsChain(s) /\ s[Len(s)] = l
          BY <1>1, <2>3, JoinEnds
        <4> HIDE DEF s
        <4>2. IsChain(Append(s, h))
          BY <4>1, ChainGrows DEF l
        <4> QED BY <4>2 DEF s
      <3> QED BY <1>1, <3>2, <3>3, <3>4 DEF Managed, Managers, new
    <2> QED BY <2>4, <2>5
  <1>4. CASE ~k.lastIsCandidate
    <2>1. Kept(k) = Append(a, l) /\ d = <<>>
      BY <1>1, <1>4, KeptViews DEF Managed
    <2>2. ~Chk!Completes(Chk!GetNumOfCandidates(k) + 1)
      BY <1>4, <2>1 DEF Chk!Completes, Chk!GetNumOfCandidates
    <2> DEFINE e == Append(a, l)
    <2>3. /\ IsChain(e) /\ e \in Seq(Blocks) /\ e[Len(e)] = l
      <3> HIDE DEF a, l
      <3>1. Len(e) = Len(a) + 1 /\ e[Len(a) + 1] = l /\ e \in Seq(Blocks)
        BY <1>1
      <3> QED BY <1>2, <2>1, <3>1
    <2>4. new = [[k EXCEPT !.curr = e] EXCEPT !.last = h, !.lastIsCandidate = TRUE]
      BY <1>4, <2>2 DEF Chk!AfterAddNode, Chk!Retired
    <2>5. /\ new \in Managers /\ new.curr = e /\ new.cand = <<>> /\ new.last = h
          /\ new.lastIsCandidate
      BY <1>1, <2>1, <2>3, <2>4 DEF Managers
    <2> HIDE DEF new, e
    <2>6. Kept(new) = Append(e \o <<>>, h)
      BY <1>1, <2>5, KeptViews
    <2>7. e \o <<>> = e
      BY <2>3
    <2>8. IsChain(Append(e, h))
      BY <2>3, ChainGrows DEF l
    <2> QED BY <1>1, <2>5, <2>6, <2>7, <2>8 DEF Managed, Managers, new
  <1> QED BY <1>1, <1>3, <1>4

\* EndBootstrapPhase moves the newest header of the window into the last node, which
\* leaves the order of the headers as it was.
LEMMA EndBootstrapManaged ==
    ASSUME NEW k, Managed(k), k.last = Chk!None, CanEndBootstrap(k)
    PROVE  /\ Managed(Chk!AfterEndBootstrap(k))
           /\ Chk!AfterEndBootstrap(k).last = k.curr[Len(k.curr)]
           /\ k.curr[Len(k.curr)] \in Blocks
  <1> DEFINE a == k.curr
             front == [i \in 1..(Len(a) - 1) |-> a[i]]
             new == Chk!AfterEndBootstrap(k)
  <1>1. /\ k \in Managers /\ a \in Seq(Blocks) /\ a # <<>> /\ k.cand = <<>>
        /\ <<>> \in Seq(Blocks) /\ ~k.lastIsCandidate
    BY DEF Managed, Managers, CanEndBootstrap
  <1>2. IsChain(a)
    <2>1. Kept(k) = a \o <<>> /\ IsChain(Kept(k))
      BY <1>1, KeptViews DEF Managed
    <2>2. a \o <<>> = a
      BY <1>1
    <2> QED BY <2>1, <2>2
  <1>3. /\ front \in Seq(Blocks) /\ a[Len(a)] \in Blocks /\ Append(front, a[Len(a)]) = a
    <2> HIDE DEF a
    <2> QED BY <1>1
  <1>4. /\ new \in Managers /\ new.curr = front /\ new.cand = <<>> /\ new.last = a[Len(a)]
        /\ ~new.lastIsCandidate
    <2>1. new = [k EXCEPT !.last = a[Len(a)], !.lastIsCandidate = FALSE, !.curr = front]
      BY DEF Chk!AfterEndBootstrap
    <2> HIDE DEF front, new
    <2> QED BY <1>1, <1>3, <2>1 DEF Managers
  <1>5. new.last # Chk!None
    BY <1>3, <1>4 DEF Chk!None
  <1> HIDE DEF new, front
  <1>6. Kept(new) = a
    BY <1>3, <1>4, <1>5, KeptViews
  <1> QED BY <1>2, <1>3, <1>4, <1>5, <1>6 DEF Managed, Managers, new
-----------------------------------------------------------------------------
(***************************************************************************)
(* The maps, and the maintenance after every block.                        *)
(***************************************************************************)
\* The released header has more than ChkptSize nodes in the tree that is left; the
\* two headers whose entries are dropped are in no other node of it.
LEMMA ReleaseConsistent ==
    ASSUME NEW ns, NEW n \in Nat, NEW ms, NEW k, Consistent(ns, n, ms, k), Managed(k),
           k.last # Chk!None, Confirmable(ns) # {}
    PROVE  /\ Consistent(Confirm(ns, ms, k).nodes, n, Confirm(ns, ms, k).maps,
                         Confirm(ns, ms, k).chkpt)
           /\ Managed(Confirm(ns, ms, k).chkpt) /\ Confirm(ns, ms, k).chkpt.last # Chk!None
           /\ Cardinality(DOMAIN Confirm(ns, ms, k).nodes) > ChkptSize
  <1> DEFINE c == Min(Confirmable(ns))
             r == Root(ns)
             drop == {ns[r].hdr, ns[c].hdr}
             new == ReleaseChild(ns, c)
             left == [offline |-> Without(ms.offline, drop), active |-> Without(ms.active, drop)]
             after == Chk!AfterAddNode(k, ns[c].hdr)
  <1>0. /\ Confirm(ns, ms, k).nodes = new /\ Confirm(ns, ms, k).maps = left
        /\ Confirm(ns, ms, k).chkpt = after
    BY DEF Confirm
  <1>1. Tree(ns, n) /\ CountsExact(ns) /\ ns[r].hdr = k.last /\ Pointers(ms, ns, n) /\ AllKnown(ns, ms)
    BY DEF Consistent
  <1>2. c \in DOMAIN ns /\ ns[c].parent = r /\ EnoughDesc(ns[c].desc)
    <2>1. Confirmable(ns) \in SUBSET Nat
      BY <1>1 DEF Confirmable, Tree
    <2>2. c \in Confirmable(ns)
      BY <2>1, MinIsOne
    <2> QED BY <2>2 DEF Confirmable
  <1>3. /\ r \in DOMAIN ns /\ r # NoParent /\ ns[c].parent # NoParent /\ ns[r].parent = NoParent
        /\ ns[c].hdr \in Blocks /\ ns[c].desc \in Nat
        /\ ns[r].hdr \in Blocks /\ ParentOf[ns[c].hdr] = ns[r].hdr
    <2>1. r \in DOMAIN ns /\ ns[r].parent = NoParent
      BY <1>1, RootOfTree
    <2> HIDE DEF c, r
    <2>2. r # NoParent
      BY <1>1, <2>1 DEF Tree, NoParent
    <2> QED BY <1>1, <1>2, <2>1, <2>2 DEF Tree
  <1> HIDE DEF c, r
  <1>4. Managed(after) /\ after.last = ns[c].hdr /\ after.last # Chk!None
    <2> DEFINE h == ns[c].hdr
    <2>1. h \in Blocks /\ ParentOf[h] = k.last /\ h # Chk!None
      BY <1>1, <1>3 DEF Chk!None
    <2> HIDE DEF h
    <2>2. Managed(Chk!AfterAddNode(k, h)) /\ Chk!AfterAddNode(k, h).last = h
      BY <2>1, AddNodeManaged
    <2> QED BY <2>1, <2>2 DEF h
  <1>5. Tree(new, n) /\ Root(new) = c /\ CountsExact(new) /\ Cut(new, ns, c)
    BY <1>1, <1>2, ReleaseTree, ReleaseCounts, ReleaseNodes
  <1>6. /\ DOMAIN new = Subtree(ns, c) /\ Subtree(ns, c) \subseteq DOMAIN ns /\ c \in Subtree(ns, c)
        /\ new[c].hdr = ns[c].hdr /\ \A i \in Subtree(ns, c) : i # c => new[i] = ns[i]
    <2> HIDE DEF new
    <2> QED BY <1>1, <1>2, <1>5, SubtreeFinite DEF Cut
  <1> HIDE DEF new, after
  <1>7. Cardinality(DOMAIN new) > ChkptSize
    <2>1. ns[c].desc = Cardinality(Subtree(ns, c)) - 1 /\ Cardinality(Subtree(ns, c)) \in Nat
      BY <1>1, <1>2, <1>3, SubtreeFinite DEF CountsExact
    <2>2. ns[c].desc >= ChkptSize
      BY <1>2 DEF EnoughDesc
    <2> QED BY <1>6, <2>1, <2>2
  <1>8. Pointers(left, new, n)
    <2>1. ASSUME NEW m, PointsAt(m, ns, n) PROVE PointsAt(Without(m, drop), new, n)
      <3> HIDE DEF drop
      <3>1. /\ DOMAIN Without(m, drop) \subseteq DOMAIN m
            /\ \A h \in DOMAIN Without(m, drop) : Without(m, drop)[h] = m[h]
        BY DEF Without
      <3>2. \A i \in DOMAIN new : i \in DOMAIN ns /\ new[i].hdr = ns[i].hdr
        BY <1>6
      <3> QED BY <2>1, <3>1, <3>2 DEF PointsAt
    <2> HIDE DEF drop
    <2> QED BY <1>1, <2>1 DEF Pointers
  <1>9. AllKnown(new, left)
    <2> SUFFICES ASSUME NEW i \in DOMAIN new, new[i].parent # NoParent,
                        ~Checkable(NumberOf[new[i].hdr] + 1)
                 PROVE  new[i].hdr \in DOMAIN left.offline \cup DOMAIN left.active
      BY DEF AllKnown
    <2>1. i # c
      BY <1>5, RootOfTree
    <2>2. new[i] = ns[i] /\ i \in DOMAIN ns /\ c \in Lineage(ns, i)
      BY <1>6, <2>1 DEF Subtree
    <2>3. ns[i].hdr \in DOMAIN ms.offline \cup DOMAIN ms.active
      BY <1>1, <2>2 DEF AllKnown
    <2>4. NumberOf[ns[c].hdr] < NumberOf[ns[i].hdr]
      BY <1>1, <2>1, <2>2, LineageNumbers
    <2>5. /\ NumberOf[ns[c].hdr] \in Nat /\ NumberOf[ns[r].hdr] \in Nat
          /\ NumberOf[ns[i].hdr] \in Nat /\ NumberOf[ns[c].hdr] = NumberOf[ns[r].hdr] + 1
      <3>1. ns[i].hdr \in Blocks
        BY <1>1, <2>2 DEF Tree
      <3>2. ns[r].hdr # 0
        BY <1>3
      <3> QED BY <1>3, <3>1, <3>2
    <2>6. ns[i].hdr \notin drop
      BY <2>4, <2>5
    <2> HIDE DEF drop
    <2> QED BY <2>2, <2>3, <2>6 DEF Without
  <1>10. new[Root(new)].hdr = after.last
    BY <1>4, <1>5, <1>6
  <1> HIDE DEF left
  <1>11. Consistent(new, n, left, after)
    BY <1>5, <1>8, <1>9, <1>10 DEF Consistent
  <1> QED BY <1>0, <1>4, <1>7, <1>11

\* Confirming a header, or none, leaves tree, maps and manager fitting together.
LEMMA ConfirmConsistent ==
    ASSUME NEW ns, NEW n \in Nat, NEW ms, NEW k, Consistent(ns, n, ms, k), Managed(k),
           k.last # Chk!None
    PROVE  /\ Consistent(Confirm(ns, ms, k).nodes, n, Confirm(ns, ms, k).maps,
                         Confirm(ns, ms, k).chkpt)
           /\ Managed(Confirm(ns, ms, k).chkpt) /\ Confirm(ns, ms, k).chkpt.last # Chk!None
           /\ \/ Confirm(ns, ms, k).nodes = ns /\ Confirm(ns, ms, k).chkpt = k
              \/ Cardinality(DOMAIN Confirm(ns, ms, k).nodes) > ChkptSize
  <1>1. CASE Confirmable(ns) = {}
    <2>1. /\ Confirm(ns, ms, k).nodes = ns /\ Confirm(ns, ms, k).maps = ms
          /\ Confirm(ns, ms, k).chkpt = k
      BY <1>1 DEF Confirm
    <2> QED BY <2>1
  <1>2. CASE Confirmable(ns) # {}
    BY <1>2, ReleaseConsistent
  <1> QED BY <1>1, <1>2

\* The expiry loop erases only entries that the properties do not count on.
LEMMA ExpiryConsistent ==
    ASSUME NEW ns, NEW n \in Nat, NEW ms, NEW k, Consistent(ns, n, ms, k),
           NEW gone \in Expired(ms.active)
    PROVE  Consistent(ns, n, [ms EXCEPT !.active = Without(@, gone)], k)
  <1> DEFINE left == [ms EXCEPT !.active = Without(@, gone)]
  <1>1. Tree(ns, n) /\ Pointers(ms, ns, n) /\ AllKnown(ns, ms)
    BY DEF Consistent
  <1>2. /\ left = [offline |-> ms.offline, active |-> Without(ms.active, gone)]
        /\ left.offline = ms.offline /\ left.active = Without(ms.active, gone)
    BY <1>1 DEF Pointers
  <1>3. /\ DOMAIN Without(ms.active, gone) = DOMAIN ms.active \ gone
        /\ \A h \in DOMAIN Without(ms.active, gone) : Without(ms.active, gone)[h] = ms.active[h]
    BY DEF Without
  <1> HIDE DEF left
  <1>4. Pointers(left, ns, n)
    <2>1. PointsAt(Without(ms.active, gone), ns, n)
      BY <1>1, <1>3 DEF Pointers, PointsAt
    <2> QED BY <1>1, <1>2, <2>1 DEF Pointers
  <1>5. AllKnown(ns, left)
    BY <1>1, <1>2, <1>3 DEF AllKnown, Expired
  <1> QED BY <1>4, <1>5 DEF Consistent, left

\* An accepted block: the new node and its entry, made whether or not there was one
\* for its header, fit in.
LEMMA AddConsistent ==
    ASSUME NEW n \in Nat, fresh = n + 1, NEW k, Consistent(nodes, n, maps, k),
           NEW b \in Blocks, ParentOf[b] \in Known, NodeOf(ParentOf[b]) \in DOMAIN nodes
    PROVE  Consistent(AddChild(nodes, NodeOf(ParentOf[b]), b), fresh, Registered(b), k)
  <1> DEFINE p == NodeOf(ParentOf[b])
             new == AddChild(nodes, p, b)
             ms == Registered(b)
  <1>1. /\ Tree(nodes, n) /\ CountsExact(nodes) /\ nodes[Root(nodes)].hdr = k.last
        /\ Pointers(maps, nodes, n) /\ AllKnown(nodes, maps)
    BY DEF Consistent
  <1>2. nodes[p].hdr = ParentOf[b]
    BY <1>1 DEF Known, NodeOf, Pointers, PointsAt
  <1>3. p \in DOMAIN nodes /\ fresh \notin DOMAIN nodes
    BY <1>1 DEF Tree
  <1> HIDE DEF p
  <1>4. Tree(new, fresh) /\ Root(new) = Root(nodes) /\ CountsExact(new)
    BY <1>1, <1>2, <1>3, AddChildTree, AddChildCounts
  <1>5. Grown(new, nodes, p, b)
    BY <1>1, <1>3, AddChildNodes DEF Tree
  <1> HIDE DEF new
  <1>6. new[Root(new)].hdr = k.last
    BY <1>1, <1>4, <1>5, RootOfTree DEF Grown
  <1>7. ASSUME NEW m, PointsAt(m, nodes, n)
        PROVE  PointsAt(m, new, fresh) /\ PointsAt(Inserted(m, b, fresh), new, fresh)
    <2>1. \A h \in DOMAIN m : m[h] \in 1..n /\ m[h] # fresh /\ m[h] \in 1..fresh
      BY <1>7 DEF PointsAt
    <2>2. /\ DOMAIN new = DOMAIN nodes \cup {fresh} /\ new[fresh].hdr = b
          /\ \A i \in DOMAIN nodes : new[i].hdr = nodes[i].hdr
      BY <1>5 DEF Grown
    <2>3. PointsAt(m, new, fresh)
      BY <1>7, <2>1, <2>2 DEF PointsAt
    <2>4. fresh \in 1..fresh
      OBVIOUS
    <2>5. ASSUME NEW x \in DOMAIN Inserted(m, b, fresh)
          PROVE  /\ Inserted(m, b, fresh)[x] \in 1..fresh
                 /\ Inserted(m, b, fresh)[x] \in DOMAIN new
                      => new[Inserted(m, b, fresh)[x]].hdr = x
      <3>1. CASE x \in DOMAIN m
        <4>1. Inserted(m, b, fresh)[x] = m[x]
          BY <3>1 DEF Inserted
        <4> QED BY <2>3, <3>1, <4>1 DEF PointsAt
      <3>2. CASE x \notin DOMAIN m
        <4>1. x = b /\ Inserted(m, b, fresh)[x] = fresh
          BY <2>5, <3>2 DEF Inserted
        <4> QED BY <2>2, <2>4, <4>1
      <3> QED BY <3>1, <3>2
    <2>6. PointsAt(Inserted(m, b, fresh), new, fresh)
      BY <2>5 DEF PointsAt
    <2> QED BY <2>3, <2>6
  <1>8. /\ maps = [offline |-> maps.offline, active |-> maps.active]
        /\ PointsAt(maps.offline, nodes, n) /\ PointsAt(maps.active, nodes, n)
    BY <1>1 DEF Pointers
  <1>9. \/ ms = [offline |-> maps.offline, active |-> Inserted(maps.active, b, fresh)]
        \/ ms = [offline |-> Inserted(maps.offline, b, fresh), active |-> maps.active]
    BY <1>8 DEF Registered
  <1> HIDE DEF ms
  <1>10. Pointers(ms, new, fresh)
    BY <1>7, <1>8, <1>9 DEF Pointers
  <1>11. AllKnown(new, ms)
    <2>1. /\ DOMAIN maps.offline \cup DOMAIN maps.active
               \subseteq DOMAIN ms.offline \cup DOMAIN ms.active
          /\ b \in DOMAIN ms.offline \cup DOMAIN ms.active
      BY <1>9 DEF Inserted
    <2> QED BY <1>1, <1>5, <2>1 DEF AllKnown, Grown
  <1> QED BY <1>4, <1>6, <1>10, <1>11 DEF Consistent, p, new, ms

\* RuntimeMaintenance, on a state that fits together, keeps the invariant.
LEMMA MaintenanceInv ==
    ASSUME NEW ns, NEW n \in Nat, NEW ms, Consistent(ns, n, ms, chkpt),
           Managed(chkpt), chkpt.last # Chk!None,
           NumberOf[chkpt.last] > bootEnd => Cardinality(DOMAIN ns) > ChkptSize,
           RuntimeMaintenance(ns, ms, chkpt),
           bootEnd' = bootEnd, fresh' = n + 1, phase' # "BootstrapI"
    PROVE  IndInv'
  <1> DEFINE new == Confirm(ns, ms, chkpt)
  <1>1. /\ Consistent(new.nodes, n, new.maps, new.chkpt)
        /\ Managed(new.chkpt) /\ new.chkpt.last # Chk!None
        /\ \/ new.nodes = ns /\ new.chkpt = chkpt
           \/ Cardinality(DOMAIN new.nodes) > ChkptSize
    BY ConfirmConsistent
  <1>2. /\ nodes' = new.nodes /\ chkpt' = new.chkpt
        /\ \E gone \in Expired(new.maps.active) :
             maps' = [new.maps EXCEPT !.active = Without(@, gone)]
    BY DEF RuntimeMaintenance
  <1> HIDE DEF new
  <1>3. Consistent(nodes', n, maps', chkpt')
    <2>1. PICK gone \in Expired(new.maps.active) :
             maps' = [new.maps EXCEPT !.active = Without(@, gone)]
      BY <1>2
    <2> QED BY <1>1, <1>2, <2>1, ExpiryConsistent
  <1>4. n = fresh' - 1 /\ fresh' \in Nat \ {0}
    OBVIOUS
  <1>5. ConfirmedIsBuried'
    BY <1>1, <1>2 DEF ConfirmedIsBuried
  <1> QED BY <1>1, <1>2, <1>3, <1>4, <1>5 DEF IndInv

\* A new leaf only adds to the nodes on top of the confirmed header.
LEMMA MoreNodes ==
    ASSUME NEW ns, NEW n \in Nat, Tree(ns, n), fresh = n + 1, NEW p, NEW b,
           Cardinality(DOMAIN ns) > ChkptSize
    PROVE  Cardinality(DOMAIN AddChild(ns, p, b)) > ChkptSize
  <1>1. /\ DOMAIN ns \subseteq 1..n /\ fresh \notin DOMAIN ns
        /\ DOMAIN AddChild(ns, p, b) = DOMAIN ns \cup {fresh}
    BY DEF Tree, AddChild
  <1> DEFINE D == DOMAIN ns
  <1>2. IsFiniteSet(D) /\ fresh \notin D
    <2>1. IsFiniteSet(1..n)
      BY FS_Interval
    <2> QED BY <1>1, <2>1, FS_Subset
  <1> HIDE DEF D
  <1>3. Cardinality(D \cup {fresh}) = Cardinality(D) + 1 /\ Cardinality(D) \in Nat
    BY <1>2, FS_AddElement, FS_CardinalityType
  <1> QED BY <1>1, <1>3 DEF D
-----------------------------------------------------------------------------
(***************************************************************************)
(* The actions.                                                            *)
(***************************************************************************)
\* A new monitor satisfies the invariant.
LEMMA InitInv == Init => IndInv
  <1> SUFFICES ASSUME Init PROVE IndInv
    OBVIOUS
  <1>1. /\ phase = "BootstrapI" /\ chkpt = Chk!EmptyChkpt /\ nodes = <<>> /\ fresh = 1
        /\ maps = [offline |-> <<>>, active |-> <<>>]
    BY DEF Init
  <1>2. /\ chkpt \in Managers /\ chkpt.last = Chk!None /\ ~chkpt.lastIsCandidate
        /\ chkpt.curr = <<>> /\ chkpt.cand = <<>>
    BY <1>1 DEF Chk!EmptyChkpt, Managers, Chk!None
  <1>3. IsChain(Kept(chkpt))
    <2>1. Kept(chkpt) = <<>> \o <<>>
      BY <1>2, KeptViews
    <2>2. <<>> \o <<>> = <<>>
      OBVIOUS
    <2> QED BY <2>1, <2>2 DEF IsChain
  <1>4. Managed(chkpt)
    BY <1>2, <1>3 DEF Managed, Managers
  <1> QED BY <1>1, <1>2, <1>4 DEF IndInv

\* The root node that ends bootstrap I.
LEMMA BootstrapRoot ==
    ASSUME NEW n \in Nat, NEW f, f = n + 1, NEW b \in Blocks, NEW k, k.last = b
    PROVE  Consistent([i \in {f} |-> [hdr |-> b, parent |-> NoParent, desc |-> 0]], f,
                      [offline |-> [h \in {b} |-> f], active |-> <<>>], k)
  <1> DEFINE ns == [i \in {f} |-> [hdr |-> b, parent |-> NoParent, desc |-> 0]]
             m == [h \in {b} |-> f]
             ms == [offline |-> m, active |-> <<>>]
  <1>1. /\ DOMAIN ns = {f} /\ ns[f] = [hdr |-> b, parent |-> NoParent, desc |-> 0]
        /\ f \in 1..f
    OBVIOUS
  <1>2. /\ DOMAIN m = {b} /\ m[b] = f /\ ms.offline = m /\ ms.active = <<>>
        /\ DOMAIN ms.active = {} /\ ms = [offline |-> m, active |-> <<>>]
    OBVIOUS
  <1> HIDE DEF ns, m, ms
  <1>3. Tree(ns, f)
    BY <1>1 DEF Tree, NoParent
  <1>4. Root(ns) = f
    BY <1>1, <1>3, RootOfTree
  <1>5. CountsExact(ns) /\ AllKnown(ns, ms)
    BY <1>1 DEF CountsExact, AllKnown
  <1>6. Pointers(ms, ns, f)
    BY <1>1, <1>2 DEF Pointers, PointsAt
  <1> QED BY <1>1, <1>3, <1>4, <1>5, <1>6 DEF Consistent, ns, m, ms

\* Bootstrap I, with its end.
LEMMA BootstrapInv ==
    ASSUME IndInv, NEW b \in Blocks, NEW syncMsg, UpdateOnBootstrapI(b, syncMsg)
    PROVE  IndInv'
  <1> DEFINE k == Chk!AfterAddHeader(chkpt, b)
             plan == PlanAfter(NumberOf[b])
  <1>1. /\ phase = "BootstrapI" /\ ValidOnBootstrapI(b) /\ bootEnd' = plan.end
        /\ \/ chkpt' = k /\ UNCHANGED <<phase, nodes, maps, fresh>>
           \/ CanEndBootstrap(k) /\ EndBootstrapI(b, k) /\ NumberOf[b] = plan.end
    BY DEF UpdateOnBootstrapI
  <1>2. /\ Managed(chkpt) /\ chkpt.last = Chk!None /\ nodes = <<>> /\ fresh \in Nat \ {0}
        /\ maps = [offline |-> <<>>, active |-> <<>>]
    BY <1>1 DEF IndInv
  <1>3. Managed(k) /\ k.last = Chk!None
    BY <1>1, <1>2, AddHeaderManaged DEF ValidOnBootstrapI, CommonValidate
  <1>4. CASE chkpt' = k /\ UNCHANGED <<phase, nodes, maps, fresh>>
    <2> HIDE DEF k
    <2> QED BY <1>1, <1>2, <1>3, <1>4 DEF IndInv
  <1>5. CASE CanEndBootstrap(k) /\ EndBootstrapI(b, k) /\ NumberOf[b] = plan.end
    <2> DEFINE ns == [i \in {fresh} |-> [hdr |-> b, parent |-> NoParent, desc |-> 0]]
               ms == [offline |-> [h \in {b} |-> fresh], active |-> <<>>]
               after == Chk!AfterEndBootstrap(k)
    <2>1. /\ phase' = "BootstrapII" /\ chkpt' = after /\ nodes' = ns /\ maps' = ms
          /\ fresh' = fresh + 1
      BY <1>2, <1>5 DEF EndBootstrapI
    <2>2. k.curr[Len(k.curr)] = b
      <3>0. \A s \in Seq(Blocks) : Append(s, b) \in Seq(Blocks) /\ Append(s, b) # <<>>
        OBVIOUS
      <3>1. chkpt.cand \in Seq(Blocks) /\ chkpt \in Managers
        BY <1>2 DEF Managed, Managers
      <3> DEFINE added == [chkpt EXCEPT !.cand = Append(chkpt.cand, b)]
      <3>2. added.cand = Append(chkpt.cand, b) /\ added \in Managers
        BY <3>0, <3>1 DEF Managers
      <3>3. k = added \/ k = [added EXCEPT !.curr = added.cand, !.cand = <<>>]
        BY DEF Chk!AfterAddHeader
      <3> HIDE DEF k, added
      <3>4. Append(chkpt.cand, b) # <<>>
        BY <3>0, <3>1
      <3>5. k.curr = Append(chkpt.cand, b)
        BY <1>5, <3>2, <3>3, <3>4 DEF CanEndBootstrap, Managers
      <3>6. /\ Len(Append(chkpt.cand, b)) = Len(chkpt.cand) + 1
            /\ Append(chkpt.cand, b)[Len(chkpt.cand) + 1] = b
        BY <3>1
      <3> QED BY <3>5, <3>6
    <2> HIDE DEF k
    <2>3. Managed(after) /\ after.last = b
      BY <1>3, <1>5, <2>2, EndBootstrapManaged
    <2>4. after.last # Chk!None
      BY <2>3 DEF Chk!None
    <2> HIDE DEF after
    <2>5. Consistent(ns, fresh, ms, after)
      <3>1. fresh - 1 \in Nat /\ fresh = (fresh - 1) + 1
        BY <1>2
      <3> QED BY <2>3, <3>1, BootstrapRoot
    <2> HIDE DEF ns, ms
    <2>6. ConfirmedIsBuried'
      <3>1. NumberOf[b] \in Nat /\ ~(NumberOf[b] > NumberOf[b])
        OBVIOUS
      <3> QED BY <1>1, <1>5, <2>1, <2>3, <3>1 DEF ConfirmedIsBuried
    <2>7. fresh' - 1 = fresh /\ fresh' \in Nat \ {0}
      BY <1>2, <2>1
    <2> QED BY <2>1, <2>3, <2>4, <2>5, <2>6, <2>7 DEF IndInv
  <1> QED BY <1>1, <1>4, <1>5

\* An accepted block after bootstrap I.
LEMMA AcceptInv ==
    ASSUME IndInv, NEW b \in Blocks, NEW syncMsg, AcceptBlock(b, syncMsg)
    PROVE  IndInv'
  <1> DEFINE p == NodeOf(ParentOf[b])
             ns == AddChild(nodes, p, b)
             ms == Registered(b)
             n == fresh - 1
  <1>1. /\ phase # "BootstrapI" /\ ParentOf[b] \in Known /\ p \in DOMAIN nodes
        /\ bootEnd' = PlanAfter(NumberOf[b]).end
        /\ phase' = "Sync" \/ phase' = phase
        /\ fresh' = fresh + 1
        /\ RuntimeMaintenance(ns, ms, chkpt)
    BY DEF AcceptBlock
  <1>2. bootEnd' = bootEnd /\ phase' # "BootstrapI"
    BY <1>1 DEF PlanAfter
  <1>3. /\ fresh \in Nat /\ n \in Nat /\ fresh = n + 1 /\ Managed(chkpt)
        /\ chkpt.last # Chk!None /\ Consistent(nodes, n, maps, chkpt)
        /\ ConfirmedIsBuried
    BY <1>1 DEF IndInv
  <1> HIDE DEF n
  <1>4. Consistent(ns, fresh, ms, chkpt)
    BY <1>1, <1>3, AddConsistent
  <1>5. NumberOf[chkpt.last] > bootEnd => Cardinality(DOMAIN ns) > ChkptSize
    BY <1>1, <1>3, MoreNodes DEF ConfirmedIsBuried, Consistent
  <1> HIDE DEF ns, ms
  <1> QED BY <1>1, <1>2, <1>3, <1>4, <1>5, MaintenanceInv

\* A block that is only logged.
LEMMA RejectInv ==
    ASSUME IndInv, NEW b \in Blocks, RejectBlock(b)
    PROVE  IndInv'
  <1> DEFINE n == fresh - 1
  <1>1. /\ phase # "BootstrapI" /\ phase' # "BootstrapI"
        /\ RuntimeMaintenance(nodes, maps, chkpt) /\ UNCHANGED <<bootEnd, fresh>>
    BY DEF RejectBlock, PhaseChangeCheck
  <1>2. /\ n \in Nat /\ fresh' = n + 1 /\ Managed(chkpt)
        /\ chkpt.last # Chk!None /\ Consistent(nodes, n, maps, chkpt)
        /\ ConfirmedIsBuried
    BY <1>1 DEF IndInv
  <1> HIDE DEF n
  <1> QED BY <1>1, <1>2, MaintenanceInv DEF ConfirmedIsBuried

\* A block handed over keeps the invariant.
LEMMA UpdateInv ==
    ASSUME IndInv, NEW b \in Blocks, Update(b)
    PROVE  IndInv'
  <1>1. CASE \E syncMsg \in SyncMsgs : UpdateOnBootstrapI(b, syncMsg)
    BY <1>1, BootstrapInv
  <1>2. CASE \E syncMsg \in SyncMsgs : AcceptBlock(b, syncMsg)
    BY <1>2, AcceptInv
  <1>3. CASE RejectBlock(b)
    BY <1>3, RejectInv
  <1>4. CASE ReadFreedParent(b)
    BY <1>4 DEF ReadFreedParent, IndInv, ConfirmedIsBuried
  <1> QED BY <1>1, <1>2, <1>3, <1>4 DEF Update

\* Every step keeps the invariant.
LEMMA NextInv == IndInv /\ [Next]_vars => IndInv'
  <1> SUFFICES ASSUME IndInv, [Next]_vars PROVE IndInv'
    OBVIOUS
  <1>1. ASSUME NEW b \in Blocks, Update(b) PROVE IndInv'
    BY <1>1, UpdateInv
  <1>2. CASE HeadReported
    BY <1>2 DEF HeadReported, IndInv, ConfirmedIsBuried
  <1>3. CASE UNCHANGED vars
    BY <1>3 DEF vars, IndInv, ConfirmedIsBuried
  <1>4. ASSUME NEW b \in Blocks, NEW syncMsg \in SyncMsgs, UpdateThrows(b, syncMsg)
        PROVE  IndInv'
    BY <1>4 DEF UpdateThrows, IndInv, ConfirmedIsBuried
  <1> QED BY <1>1, <1>2, <1>3, <1>4 DEF Next
-----------------------------------------------------------------------------
\* Whatever blocks the host feeds, in whatever order, with whatever forks and
\* repetitions: the tree, the two pointer maps and the checkpoint manager of the
\* block monitor fit together.
THEOREM AlwaysIndInv == Spec => []IndInv
  BY InitInv, NextInv, PTL DEF Spec

\* The count that confirms a header, kept by AddDescCount up the branch, is always
\* the number of nodes below it.
THEOREM CountsAlwaysExact == Spec => []DescCountExact
  <1>1. IndInv => DescCountExact
    <2> SUFFICES ASSUME IndInv PROVE DescCountExact
      OBVIOUS
    <2>1. CASE phase = "BootstrapI"
      BY <2>1 DEF IndInv, DescCountExact, CountsExact
    <2>2. CASE phase # "BootstrapI"
      BY <2>2 DEF IndInv, DescCountExact, Consistent
    <2> QED BY <2>1, <2>2
  <1> QED BY <1>1, AlwaysIndInv, PTL

\* The tree always hangs from the checkpoint manager's last node, header by header,
\* and nothing of a released branch's siblings stays.
THEOREM TreeAlwaysRooted == Spec => []TreeRootedAtLast
  <1>1. IndInv => TreeRootedAtLast
    <2> SUFFICES ASSUME IndInv, phase # "BootstrapI"
                 PROVE  /\ Cardinality({i \in DOMAIN nodes : nodes[i].parent = NoParent}) = 1
                        /\ nodes[Root(nodes)].hdr = chkpt.last
                        /\ \A i \in DOMAIN nodes \ {Root(nodes)} :
                              /\ nodes[i].parent \in DOMAIN nodes
                              /\ ParentOf[nodes[i].hdr] = nodes[nodes[i].parent].hdr
      BY DEF TreeRootedAtLast
    <2>1. Tree(nodes, fresh - 1) /\ nodes[Root(nodes)].hdr = chkpt.last
      BY DEF IndInv, Consistent
    <2>2. /\ Root(nodes) \in DOMAIN nodes /\ nodes[Root(nodes)].parent = NoParent
          /\ \A i \in DOMAIN nodes : nodes[i].parent = NoParent => i = Root(nodes)
      BY <2>1, RootOfTree
    <2>3. {i \in DOMAIN nodes : nodes[i].parent = NoParent} = {Root(nodes)}
      BY <2>2
    <2>4. Cardinality({Root(nodes)}) = 1
      BY FS_Singleton
    <2> QED BY <2>1, <2>2, <2>3, <2>4 DEF Tree
  <1> QED BY <1>1, AlwaysIndInv, PTL

\* What AddHeader, EndBootstrapPhase and AddNode are given is always one chain of
\* headers, each the parent of the next.
THEOREM ConfirmedAlwaysChain == Spec => []ConfirmedIsChain
  <1>1. IndInv => ConfirmedIsChain
    BY DEF IndInv, Managed, ConfirmedIsChain
  <1> QED BY <1>1, AlwaysIndInv, PTL

\* Every live node but the confirmed one can always be found as a parent, unless its
\* entry may expire.
THEOREM LiveNodesAlwaysKnown == Spec => []LiveNodesKnown
  <1>1. IndInv => LiveNodesKnown
    <2> SUFFICES ASSUME IndInv PROVE LiveNodesKnown
      OBVIOUS
    <2>1. CASE phase = "BootstrapI"
      BY <2>1 DEF IndInv, LiveNodesKnown, AllKnown
    <2>2. CASE phase # "BootstrapI"
      BY <2>2 DEF IndInv, LiveNodesKnown, Consistent
    <2> QED BY <2>1, <2>2
  <1> QED BY <1>1, AlwaysIndInv, PTL

\* A header that ReleaseChildHasNDesc confirms always has ChkptSize nodes on top.
THEOREM ConfirmedAlwaysBuried == Spec => []ConfirmedIsBuried
  <1>1. IndInv => ConfirmedIsBuried
    BY DEF IndInv, ConfirmedIsBuried
  <1> QED BY <1>1, AlwaysIndInv, PTL
-----------------------------------------------------------------------------
(***************************************************************************)
(* The checkpoint window behind the monitor.                               *)
(***************************************************************************)
\* Appending the next header keeps a sequence numbered.
LEMMA NumberedGrows ==
    ASSUME NEW s \in Seq(Blocks), NEW b \in Int, Numbered(s, b), NEW h \in Blocks,
           NumberOf[h] = b + Len(s) + 1
    PROVE  /\ Append(s, h) \in Seq(Blocks) /\ Len(Append(s, h)) = Len(s) + 1
           /\ Numbered(Append(s, h), b)
  <1>1. Append(s, h) \in Seq(Blocks) /\ Len(s) \in Nat /\ Len(Append(s, h)) = Len(s) + 1
    OBVIOUS
  <1>2. ASSUME NEW i \in 1..(Len(s) + 1) PROVE NumberOf[Append(s, h)[i]] = b + i
    <2>1. CASE i \in 1..Len(s)
      <3>1. Append(s, h)[i] = s[i]
        BY <2>1
      <3> QED BY <2>1, <3>1 DEF Numbered
    <2>2. CASE i = Len(s) + 1
      <3>1. Append(s, h)[i] = h /\ b + i = b + Len(s) + 1
        BY <1>1, <2>2
      <3> QED BY <3>1
    <2> QED BY <1>1, <2>1, <2>2
  <1> QED BY <1>1, <1>2 DEF Numbered

\* A numbered sequence covers an interval of block numbers.
LEMMA NumberedRange ==
    ASSUME NEW s \in Seq(Blocks), NEW b \in Int, Numbered(s, b)
    PROVE  Numbers({s[i] : i \in 1..Len(s)}) = (b + 1)..(b + Len(s))
  <1>0. Len(s) \in Nat
    OBVIOUS
  <1>1. ASSUME NEW x \in (b + 1)..(b + Len(s))
        PROVE  x \in Numbers({s[i] : i \in 1..Len(s)})
    <2>1. x - b \in 1..Len(s) /\ b + (x - b) = x
      BY <1>0, <1>1
    <2>2. NumberOf[s[x - b]] = x
      BY <2>1 DEF Numbered
    <2>3. s[x - b] \in {s[i] : i \in 1..Len(s)}
      BY <2>1
    <2> QED BY <2>2, <2>3 DEF Numbers
  <1>2. ASSUME NEW x \in Numbers({s[i] : i \in 1..Len(s)})
        PROVE  x \in (b + 1)..(b + Len(s))
    <2>1. PICK i \in 1..Len(s) : x = NumberOf[s[i]]
      BY <1>2 DEF Numbers
    <2>2. x = b + i
      BY <2>1 DEF Numbered
    <2> QED BY <1>0, <2>2
  <1> QED BY <1>1, <1>2

\* What a manager's windows show of themselves: the newest header's number and the
\* numbers in the current window.
LEMMA WindowViews ==
    ASSUME NEW k, Managed(k), NEW b \in Int, NEW none \in BOOLEAN, Windows(k, b, none),
           none => b = StartBlk - 1
    PROVE  /\ Chk!GetNumOfCandidates(k) \in Nat
           /\ Newest(k) = b + Chk!GetNumOfCandidates(k)
           /\ Numbers(Chk!IterateCurrWindow(k)) = IF none THEN {} ELSE (b - ChkptSize + 1)..b
  <1>1. /\ k.curr \in Seq(Blocks) /\ k.cand \in Seq(Blocks) /\ k.last \in Blocks \cup {Chk!None}
        /\ Len(k.curr) \in Nat /\ Len(k.cand) \in Nat
        /\ k.last = Chk!None => ~k.lastIsCandidate
        /\ k.last # Chk!None /\ ~k.lastIsCandidate => k.cand = <<>>
    BY DEF Managed
  <1>2. Chk!GetNumOfCandidates(k) \in Nat
    <2>1. CASE k.last # Chk!None /\ k.lastIsCandidate
      BY <1>1, <2>1 DEF Chk!GetNumOfCandidates
    <2>2. CASE ~(k.last # Chk!None /\ k.lastIsCandidate)
      <3>1. Chk!GetNumOfCandidates(k) = Len(k.cand) + 0
        BY <2>2, Zenon DEF Chk!GetNumOfCandidates
      <3> QED BY <1>1, <3>1
    <2> QED BY <2>1, <2>2
  <1>3. Newest(k) = b + Chk!GetNumOfCandidates(k)
    <2>1. CASE k.last # Chk!None
      BY <2>1 DEF Newest, Chk!IsEmpty, Chk!GetLastHeader, Windows
    <2>2. CASE k.last = Chk!None
      <3>1. Chk!GetNumOfCandidates(k) = Len(k.cand)
        BY <1>1, <2>2 DEF Chk!GetNumOfCandidates
      <3>2. CASE k.cand # <<>>
        <4>1. Len(k.cand) \in 1..Len(k.cand) /\ Newest(k) = NumberOf[k.cand[Len(k.cand)]]
          BY <1>1, <2>2, <3>2 DEF Newest, Chk!IsEmpty, Chk!GetLastHeader
        <4> QED BY <3>1, <4>1 DEF Windows, Numbered
      <3>3. CASE k.cand = <<>> /\ none
        BY <2>2, <3>1, <3>3 DEF Windows, Newest, Chk!IsEmpty
      <3>4. CASE k.cand = <<>> /\ ~none
        <4>1. Len(k.curr) = ChkptSize /\ Numbered(k.curr, b - ChkptSize) /\ k.curr # <<>>
          BY <2>2, <3>4 DEF Windows
        <4>2. Newest(k) = NumberOf[k.curr[Len(k.curr)]]
          BY <2>2, <3>4, <4>1 DEF Newest, Chk!IsEmpty, Chk!GetLastHeader
        <4>3. ChkptSize \in 1..ChkptSize /\ (b - ChkptSize) + ChkptSize = b
          OBVIOUS
        <4>4. Newest(k) = b
          BY <4>1, <4>2, <4>3 DEF Numbered
        <4> QED BY <3>1, <3>4, <4>4
      <3> QED BY <3>2, <3>3, <3>4
    <2> QED BY <2>1, <2>2
  <1>4. Numbers(Chk!IterateCurrWindow(k)) = IF none THEN {} ELSE (b - ChkptSize + 1)..b
    <2> DEFINE own == {k.curr[i] : i \in 1..Len(k.curr)}
    <2>1. CASE none
      <3>1. Chk!IterateCurrWindow(k) = {}
        BY <2>1 DEF Windows, Chk!IterateCurrWindow
      <3> QED BY <2>1, <3>1 DEF Numbers
    <2>2. CASE ~none
      <3> DEFINE d == b - ChkptSize
                 s == k.curr
      <3>1. Numbers(own) = (d + 1)..(d + Len(s))
        <4>1. d \in Int /\ s \in Seq(Blocks) /\ Numbered(s, d)
          BY <1>1, <2>2 DEF Windows
        <4> HIDE DEF d, s
        <4>2. Numbers({s[i] : i \in 1..Len(s)}) = (d + 1)..(d + Len(s))
          BY <4>1, NumberedRange
        <4> QED BY <4>2 DEF s
      <3>2. CASE k.last # Chk!None /\ ~k.lastIsCandidate
        <4>1. Len(s) = ChkptSize - 1 /\ NumberOf[k.last] = b
          BY <1>1, <2>2, <3>2 DEF Windows, Chk!GetNumOfCandidates
        <4>2. Chk!IterateCurrWindow(k) = own \cup {k.last}
          BY <3>2 DEF Chk!IterateCurrWindow
        <4>3. Numbers(own \cup {k.last}) = Numbers(own) \cup {b}
          BY <4>1 DEF Numbers
        <4> HIDE DEF own
        <4>4. (d + 1)..(d + Len(s)) \cup {b} = (b - ChkptSize + 1)..b
          BY <4>1
        <4> QED BY <2>2, <3>1, <4>2, <4>3, <4>4
      <3>3. CASE ~(k.last # Chk!None /\ ~k.lastIsCandidate)
        <4>1. Len(s) = ChkptSize
          BY <2>2, <3>3 DEF Windows
        <4>2. Chk!IterateCurrWindow(k) = own
          BY <3>3 DEF Chk!IterateCurrWindow
        <4> HIDE DEF own
        <4>3. (d + 1)..(d + Len(s)) = (b - ChkptSize + 1)..b
          BY <4>1
        <4> QED BY <2>2, <3>1, <4>2, <4>3
      <3> QED BY <3>2, <3>3
    <2> QED BY <2>1, <2>2
  <1> QED BY <1>2, <1>3, <1>4

\* What one header h does to the windows of k: every ChkptSize-th completes one.
Arrived(k, after, b, none, h) ==
    /\ Chk!HeaderCompletes(k) => NumberOf[h] = b + ChkptSize /\ Windows(after, NumberOf[h], FALSE)
    /\ ~Chk!HeaderCompletes(k) => Windows(after, b, none)

\* AddHeader, during bootstrap.
LEMMA AddHeaderWindows ==
    ASSUME NEW k, Managed(k), k.last = Chk!None, NEW b \in Int, NEW none \in BOOLEAN,
           Windows(k, b, none), NEW h \in Blocks,
           NumberOf[h] = b + Chk!GetNumOfCandidates(k) + 1
    PROVE  Arrived(k, Chk!AfterAddHeader(k, h), b, none, h)
  <1> DEFINE d == k.cand
             n == Len(d)
             e == Append(d, h)
             added == [k EXCEPT !.cand = e]
             full == [added EXCEPT !.curr = added.cand, !.cand = <<>>]
  <1>1. k \in Managers /\ d \in Seq(Blocks) /\ n \in Nat /\ ~k.lastIsCandidate
    BY DEF Managed, Managers
  <1>2. Chk!GetNumOfCandidates(k) = n /\ n < ChkptSize
    BY <1>1 DEF Chk!GetNumOfCandidates, Windows
  <1>3. Numbered(d, b) /\ NumberOf[h] = b + n + 1
    BY <1>2 DEF Windows
  <1>4. e \in Seq(Blocks) /\ Len(e) = n + 1 /\ Numbered(e, b)
    <2> HIDE DEF d
    <2> QED BY <1>1, <1>3, NumberedGrows
  <1> HIDE DEF d, e
  <1>5. /\ added \in Managers /\ added.curr = k.curr /\ added.cand = e
        /\ added.last = Chk!None /\ ~added.lastIsCandidate
    BY <1>1, <1>4 DEF Managers
  <1>6. /\ full.curr = e /\ full.cand = <<>> /\ full.last = Chk!None /\ ~full.lastIsCandidate
    BY <1>5 DEF Managers
  <1>7. Chk!GetNumOfCandidates(added) = n + 1 /\ Chk!GetNumOfCandidates(full) = 0
    BY <1>1, <1>4, <1>5, <1>6 DEF Chk!GetNumOfCandidates
  <1>8. Chk!AfterAddHeader(k, h) = IF n + 1 >= ChkptSize THEN full ELSE added
    <2>1. Chk!AfterAddHeader(k, h) =
            IF Chk!Completes(Chk!GetNumOfCandidates(added)) THEN full ELSE added
      BY DEF Chk!AfterAddHeader, d, e
    <2> HIDE DEF added, full
    <2> QED BY <1>7, <2>1 DEF Chk!Completes
  <1>9. Chk!HeaderCompletes(k) <=> n + 1 >= ChkptSize
    BY <1>2 DEF Chk!HeaderCompletes, Chk!Completes
  <1> HIDE DEF n, added, full
  <1>10. CASE n + 1 >= ChkptSize
    <2>1. n + 1 = ChkptSize /\ NumberOf[h] = b + ChkptSize /\ NumberOf[h] - ChkptSize = b
      BY <1>1, <1>2, <1>3, <1>10
    <2>2. Numbered(e, NumberOf[h] - ChkptSize) /\ Len(e) = ChkptSize
      BY <1>4, <2>1
    <2>3. Windows(full, NumberOf[h], FALSE)
      BY <1>6, <1>7, <2>2 DEF Windows, Numbered
    <2> QED BY <1>8, <1>9, <1>10, <2>1, <2>3 DEF Arrived
  <1>11. CASE ~(n + 1 >= ChkptSize)
    <2>1. n + 1 < ChkptSize
      BY <1>1, <1>11
    <2>2. Windows(added, b, none)
      BY <1>4, <1>5, <1>7, <2>1 DEF Windows
    <2> QED BY <1>8, <1>9, <1>11, <2>2 DEF Arrived
  <1> QED BY <1>10, <1>11

\* AddNode, after it.
LEMMA AddNodeWindows ==
    ASSUME NEW k, Managed(k), k.last # Chk!None, NEW b \in Int, NEW none \in BOOLEAN,
           Windows(k, b, none), NEW h \in Blocks,
           NumberOf[h] = b + Chk!GetNumOfCandidates(k) + 1
    PROVE  Arrived(k, Chk!AfterAddNode(k, h), b, none, h)
  <1> DEFINE a == k.curr
             d == k.cand
             l == k.last
             n == Len(d)
             new == Chk!AfterAddNode(k, h)
  <1>1. /\ k \in Managers /\ a \in Seq(Blocks) /\ d \in Seq(Blocks) /\ l \in Blocks /\ n \in Nat
        /\ ~none /\ h # Chk!None
    BY DEF Managed, Managers, Windows, Chk!None
  <1>2. CASE k.lastIsCandidate
    <2>1. Chk!GetNumOfCandidates(k) = n + 1 /\ n + 1 < ChkptSize
      BY <1>1, <1>2 DEF Chk!GetNumOfCandidates, Windows
    <2>2. /\ Numbered(d, b) /\ NumberOf[l] = b + n + 1 /\ NumberOf[h] = b + n + 2
          /\ Numbered(a, b - ChkptSize) /\ Len(a) = ChkptSize
      BY <1>1, <1>2, <2>1 DEF Windows
    <2> DEFINE e == Append(d, l)
    <2>3. e \in Seq(Blocks) /\ Len(e) = n + 1 /\ Numbered(e, b)
      <3> HIDE DEF d, l
      <3> QED BY <1>1, <2>2, NumberedGrows
    <2>4. Chk!HeaderCompletes(k) <=> n + 2 >= ChkptSize
      BY <1>1, <2>1 DEF Chk!HeaderCompletes, Chk!Completes
    <2>5. CASE n + 2 >= ChkptSize
      <3>1. new = [curr |-> e, cand |-> <<>>, last |-> h, lastIsCandidate |-> FALSE]
        BY <2>4, <2>5 DEF Chk!AfterAddNode, Chk!HeaderCompletes
      <3>2. n + 1 = ChkptSize - 1 /\ NumberOf[h] = b + ChkptSize /\ NumberOf[h] - ChkptSize = b
        <4> HIDE DEF n
        <4> QED BY <1>1, <2>1, <2>2, <2>5
      <3> HIDE DEF new, e
      <3>3. /\ new.curr = e /\ new.cand = <<>> /\ new.last = h /\ ~new.lastIsCandidate
            /\ Chk!GetNumOfCandidates(new) = 0
        BY <3>1 DEF Chk!GetNumOfCandidates
      <3>4. Numbered(e, NumberOf[h] - ChkptSize) /\ Len(e) = ChkptSize - 1 /\ NumberOf[h] \in Nat
        BY <2>3, <3>2
      <3>5. Windows(new, NumberOf[h], FALSE)
        BY <1>1, <3>3, <3>4 DEF Windows, Numbered
      <3> QED BY <2>4, <2>5, <3>2, <3>5 DEF Arrived, new
    <2>6. CASE ~(n + 2 >= ChkptSize)
      <3>1. new = [[k EXCEPT !.cand = e] EXCEPT !.last = h, !.lastIsCandidate = TRUE]
        BY <1>2, <2>4, <2>6 DEF Chk!AfterAddNode, Chk!HeaderCompletes, Chk!Retired
      <3>2. /\ new.curr = a /\ new.cand = e /\ new.last = h /\ new.lastIsCandidate
        BY <1>1, <3>1 DEF Managers
      <3> HIDE DEF new, e
      <3>3. Chk!GetNumOfCandidates(new) = n + 2
        <4>1. Chk!GetNumOfCandidates(new) = Len(e) + 1
          BY <1>1, <3>2 DEF Chk!GetNumOfCandidates
        <4> HIDE DEF n
        <4> QED BY <1>1, <2>3, <4>1
      <3>4. n + 2 < ChkptSize /\ NumberOf[h] = b + (n + 2)
        <4> HIDE DEF n
        <4> QED BY <1>1, <2>2, <2>6
      <3>5. Windows(new, b, none)
        BY <1>1, <2>2, <2>3, <3>2, <3>3, <3>4 DEF Windows
      <3> QED BY <2>4, <2>6, <3>5 DEF Arrived, new
    <2> QED BY <2>5, <2>6
  <1>3. CASE ~k.lastIsCandidate
    <2>1. d = <<>> /\ Chk!GetNumOfCandidates(k) = 0
      BY <1>3 DEF Managed, Chk!GetNumOfCandidates
    <2>2. /\ NumberOf[l] = b /\ NumberOf[h] = b + 1
          /\ Numbered(a, b - ChkptSize) /\ Len(a) = ChkptSize - 1
      BY <1>1, <1>3, <2>1 DEF Windows
    <2>3. ~Chk!HeaderCompletes(k)
      BY <2>1 DEF Chk!HeaderCompletes, Chk!Completes
    <2> DEFINE e == Append(a, l)
    <2>4. e \in Seq(Blocks) /\ Len(e) = ChkptSize /\ Numbered(e, b - ChkptSize)
      <3> DEFINE c == b - ChkptSize
      <3>1. c \in Int /\ NumberOf[l] = c + Len(a) + 1 /\ Numbered(a, c)
        BY <2>2
      <3> HIDE DEF a, l, c
      <3>2. e \in Seq(Blocks) /\ Len(e) = Len(a) + 1 /\ Numbered(e, c)
        BY <1>1, <3>1, NumberedGrows
      <3> QED BY <2>2, <3>2 DEF c
    <2>5. new = [[k EXCEPT !.curr = e] EXCEPT !.last = h, !.lastIsCandidate = TRUE]
      BY <1>3, <2>3 DEF Chk!AfterAddNode, Chk!HeaderCompletes, Chk!Retired
    <2>6. /\ new.curr = e /\ new.cand = <<>> /\ new.last = h /\ new.lastIsCandidate
      BY <1>1, <2>1, <2>5 DEF Managers
    <2> HIDE DEF new, e
    <2>7. Chk!GetNumOfCandidates(new) = 1
      BY <1>1, <2>6 DEF Chk!GetNumOfCandidates
    <2>8. Windows(new, b, none)
      BY <1>1, <2>2, <2>4, <2>6, <2>7 DEF Windows, Numbered
    <2> QED BY <2>3, <2>8 DEF Arrived, new
  <1> QED BY <1>2, <1>3

\* EndBootstrapPhase moves a header between the two places without moving the window.
LEMMA EndBootstrapWindows ==
    ASSUME NEW k, Managed(k), k.last = Chk!None, CanEndBootstrap(k),
           NEW b \in Int, NEW none \in BOOLEAN, Windows(k, b, none)
    PROVE  Windows(Chk!AfterEndBootstrap(k), b, none)
  <1> DEFINE a == k.curr
             front == [i \in 1..(Len(a) - 1) |-> a[i]]
             new == Chk!AfterEndBootstrap(k)
  <1>1. /\ k \in Managers /\ a \in Seq(Blocks) /\ k.cand = <<>> /\ ~none
        /\ Len(a) = ChkptSize /\ Numbered(a, b - ChkptSize)
    BY DEF Managed, Managers, CanEndBootstrap, Windows
  <1>2. new = [k EXCEPT !.last = a[Len(a)], !.lastIsCandidate = FALSE, !.curr = front]
    BY DEF Chk!AfterEndBootstrap
  <1> HIDE DEF new, a
  <1>3. Len(front) = ChkptSize - 1 /\ Numbered(front, b - ChkptSize)
    <2>1. Len(front) = ChkptSize - 1
      BY <1>1
    <2>2. \A i \in 1..(ChkptSize - 1) : front[i] = a[i] /\ i \in 1..Len(a)
      BY <1>1
    <2> HIDE DEF front
    <2> QED BY <1>1, <2>1, <2>2 DEF Numbered
  <1>4. NumberOf[a[Len(a)]] = b /\ a[Len(a)] # Chk!None
    <2>1. Len(a) \in 1..Len(a) /\ (b - ChkptSize) + Len(a) = b
      BY <1>1
    <2>2. a[Len(a)] \in Blocks
      BY <1>1, <2>1
    <2> QED BY <1>1, <2>1, <2>2 DEF Numbered, Chk!None
  <1> HIDE DEF front
  <1>5. /\ new.curr = front /\ new.cand = <<>> /\ new.last = a[Len(a)] /\ ~new.lastIsCandidate
    BY <1>1, <1>2 DEF Managers
  <1>6. Chk!GetNumOfCandidates(new) = 0
    BY <1>5 DEF Chk!GetNumOfCandidates
  <1> QED BY <1>1, <1>3, <1>4, <1>5, <1>6 DEF Windows, Numbered, new

\* AddHeader's header becomes the newest.
LEMMA AddHeaderNewest ==
    ASSUME NEW k, Managed(k), k.last = Chk!None, NEW h \in Blocks
    PROVE  /\ ~Chk!IsEmpty(Chk!AfterAddHeader(k, h))
           /\ Chk!GetLastHeader(Chk!AfterAddHeader(k, h)) = h
  <1> DEFINE e == Append(k.cand, h)
             added == [k EXCEPT !.cand = e]
             full == [added EXCEPT !.curr = added.cand, !.cand = <<>>]
  <1>1. k \in Managers /\ k.cand \in Seq(Blocks)
    BY DEF Managed, Managers
  <1>2. e # <<>> /\ e[Len(e)] = h /\ e \in Seq(Blocks)
    <2>1. \A s \in Seq(Blocks) : /\ Append(s, h) # <<>> /\ Append(s, h) \in Seq(Blocks)
                                 /\ Append(s, h)[Len(Append(s, h))] = h
      OBVIOUS
    <2> QED BY <1>1, <2>1
  <1>3. Chk!AfterAddHeader(k, h) = added \/ Chk!AfterAddHeader(k, h) = full
    BY DEF Chk!AfterAddHeader
  <1> HIDE DEF e
  <1>4. added \in Managers /\ added.cand = e /\ added.last = Chk!None
    BY <1>1, <1>2 DEF Managers
  <1>5. full.curr = e /\ full.cand = <<>> /\ full.last = Chk!None
    BY <1>4 DEF Managers
  <1> HIDE DEF added, full
  <1> QED BY <1>2, <1>3, <1>4, <1>5 DEF Chk!IsEmpty, Chk!GetLastHeader

\* Adding a header, and telling the security state when it completes a window, is
\* one arrival at the abstract window.
LEMMA Arrival ==
    ASSUME WindowInv, Managed(chkpt), NEW h \in Blocks, NEW after,
           Arrived(chkpt, after, Checkpoint, NoneYet, h), Chk!GetLastHeader(after) = h,
           secState' = IF Chk!HeaderCompletes(chkpt) THEN OnCheckpointComplete(after)
                                                     ELSE secState,
           Managed(chkpt'),
           \A b \in Int, none \in BOOLEAN :
              Windows(after, b, none) => Windows(chkpt', b, none),
           Newest(chkpt') = NumberOf[h], NumberOf[h] = Newest(chkpt) + 1
    PROVE  WindowInv' /\ Window!Arrive
  <1> DEFINE c == Checkpoint
             f == NoneYet
             n == Chk!GetNumOfCandidates(chkpt)
             win == Numbers(Chk!IterateCurrWindow(chkpt))
             new == NumberOf[h]
  <1>1. /\ secState \in [checkpointNum : Nat, checkpointIter : Nat]
        /\ secState.checkpointIter \in Nat
        /\ c \in Int /\ f \in BOOLEAN /\ Windows(chkpt, c, f) /\ (f => c = StartBlk - 1)
        /\ n < ChkptSize /\ new \in Nat
    BY DEF WindowInv, Checkpoint, NoneYet, Windows
  <1>2. n \in Nat /\ Newest(chkpt) = c + n /\ win = IF f THEN {} ELSE (c - ChkptSize + 1)..c
    <2> HIDE DEF c, f
    <2> QED BY <1>1, WindowViews
  <1>3. Chk!HeaderCompletes(chkpt) <=> Newest(chkpt) + 1 = c + ChkptSize
    <2>1. Chk!HeaderCompletes(chkpt) <=> n + 1 >= ChkptSize
      BY DEF Chk!HeaderCompletes, Chk!Completes
    <2> HIDE DEF n, c
    <2> QED BY <1>1, <1>2, <2>1
  <1>4. CASE Chk!HeaderCompletes(chkpt)
    <2> DEFINE g == FALSE
    <2>1. /\ secState' = [checkpointNum |-> new, checkpointIter |-> secState.checkpointIter + 1]
          /\ new = c + ChkptSize
      BY <1>4 DEF OnCheckpointComplete, Arrived
    <2>8. Windows(after, new, g) /\ g \in BOOLEAN /\ ~g
      BY <1>4, Zenon DEF Arrived
    <2>2. Checkpoint' = new /\ NoneYet' = g
      BY <1>1, <2>1 DEF Checkpoint, NoneYet
    <2> HIDE DEF g
    <2>3. Windows(chkpt', new, g)
      <3> HIDE DEF new
      <3>1. new \in Int
        BY <1>1
      <3> QED BY <2>8, <3>1
    <2>4. WindowInv'
      BY <1>1, <2>1, <2>2, <2>3 DEF WindowInv
    <2>5. win' = (new - ChkptSize + 1)..new
      <3> DEFINE k == chkpt'
      <3>1. Managed(k) /\ new \in Int /\ Windows(k, new, g)
        BY <1>1, <2>3
      <3> HIDE DEF k, new
      <3>2. Numbers(Chk!IterateCurrWindow(k)) = IF g THEN {} ELSE (new - ChkptSize + 1)..new
        BY <2>8, <3>1, WindowViews
      <3> QED BY <2>8, <3>2 DEF k
    <2>6. win' = (c + 1)..(Newest(chkpt) + 1)
      <3>1. new - ChkptSize = c /\ new = Newest(chkpt) + 1
        BY <1>1, <2>1
      <3> QED BY <2>5, <3>1
    <2> HIDE DEF win
    <2>7. Window!Arrive
      BY <1>3, <1>4, <2>1, <2>2, <2>6 DEF Window!Arrive, win
    <2> QED BY <2>4, <2>7
  <1>5. CASE ~Chk!HeaderCompletes(chkpt)
    <2>1. secState' = secState /\ Windows(after, c, f)
      BY <1>5 DEF Arrived
    <2>2. Checkpoint' = c /\ NoneYet' = f
      BY <2>1 DEF Checkpoint, NoneYet
    <2>3. Windows(chkpt', c, f)
      <3> HIDE DEF c, f
      <3> QED BY <1>1, <2>1
    <2>4. WindowInv'
      BY <1>1, <2>1, <2>2, <2>3 DEF WindowInv
    <2>5. win' = win
      <3> DEFINE k == chkpt'
      <3>1. Managed(k) /\ Windows(k, c, f)
        BY <2>3
      <3> HIDE DEF k, c, f, win
      <3>2. Numbers(Chk!IterateCurrWindow(k)) = IF f THEN {} ELSE (c - ChkptSize + 1)..c
        BY <1>1, <3>1, WindowViews
      <3> QED BY <1>2, <3>2 DEF k, win
    <2> HIDE DEF win
    <2>6. Window!Arrive
      BY <1>3, <1>5, <2>2, <2>5 DEF Window!Arrive, win
    <2> QED BY <2>4, <2>6
  <1> QED BY <1>4, <1>5

view == <<Newest(chkpt), Numbers(Chk!IterateCurrWindow(chkpt)), Checkpoint>>

\* A step that leaves the manager and the security state alone does not show.
LEMMA ViewStutters ==
    ASSUME WindowInv, UNCHANGED <<chkpt, secState>>
    PROVE  WindowInv' /\ UNCHANGED view
  BY DEF WindowInv, view, Checkpoint, NoneYet

\* A block that bootstrap I accepts has the next number.
LEMMA BootstrapNumber ==
    ASSUME IndInv, WindowInv, phase = "BootstrapI", NEW b \in Blocks, ValidOnBootstrapI(b)
    PROVE  /\ NumberOf[b] = Newest(chkpt) + 1
           /\ Chk!GetNumOfCandidates(chkpt) \in Nat
           /\ NumberOf[b] = Checkpoint + Chk!GetNumOfCandidates(chkpt) + 1
  <1> DEFINE c == Checkpoint
             f == NoneYet
  <1>1. Managed(chkpt) /\ chkpt.last = Chk!None
    BY DEF IndInv
  <1>2. /\ c \in Int /\ f \in BOOLEAN /\ Windows(chkpt, c, f) /\ (f => c = StartBlk - 1)
    BY DEF WindowInv, Checkpoint, NoneYet
  <1>3. NumberOf[b] = Newest(chkpt) + 1
    <2>1. CASE Chk!IsEmpty(chkpt)
      BY <2>1 DEF ValidOnBootstrapI, Newest
    <2>2. CASE ~Chk!IsEmpty(chkpt)
      <3>1. ParentOf[b] = Chk!GetLastHeader(chkpt)
        BY <2>2 DEF ValidOnBootstrapI, CommonValidate
      <3>2. Chk!GetLastHeader(chkpt) # 0
        <4>1. \A s \in Seq(Blocks) : s # <<>> => s[Len(s)] \in Blocks
          OBVIOUS
        <4>2. chkpt.curr \in Seq(Blocks) /\ chkpt.cand \in Seq(Blocks)
          BY <1>1 DEF Managed
        <4>3. Chk!GetLastHeader(chkpt) \in Blocks
          BY <1>1, <2>2, <4>1, <4>2 DEF Chk!IsEmpty, Chk!GetLastHeader
        <4> QED BY <4>3
      <3> QED BY <2>2, <3>1, <3>2 DEF Newest
    <2> QED BY <2>1, <2>2
  <1>4. Chk!GetNumOfCandidates(chkpt) \in Nat /\ NumberOf[b] = c + Chk!GetNumOfCandidates(chkpt) + 1
    <2> HIDE DEF c, f
    <2>1. /\ Newest(chkpt) = c + Chk!GetNumOfCandidates(chkpt)
          /\ Chk!GetNumOfCandidates(chkpt) \in Nat
      BY <1>1, <1>2, WindowViews
    <2> QED BY <1>2, <1>3, <2>1
  <1> QED BY <1>3, <1>4

\* A block of bootstrap I is one arrival, also when it ends the phase.
LEMMA BootstrapArrives ==
    ASSUME IndInv, WindowInv, NEW b \in Blocks, NEW syncMsg, UpdateOnBootstrapI(b, syncMsg)
    PROVE  WindowInv' /\ Window!Arrive
  <1> DEFINE k == Chk!AfterAddHeader(chkpt, b)
             c == Checkpoint
             f == NoneYet
  <1>1. /\ phase = "BootstrapI" /\ ValidOnBootstrapI(b)
        /\ secState' = IF Chk!HeaderCompletes(chkpt) THEN OnCheckpointComplete(k) ELSE secState
        /\ \/ chkpt' = k
           \/ CanEndBootstrap(k) /\ chkpt' = Chk!AfterEndBootstrap(k)
    BY DEF UpdateOnBootstrapI, EndBootstrapI
  <1>2. Managed(chkpt) /\ chkpt.last = Chk!None
    BY <1>1 DEF IndInv
  <1>3. /\ c \in Int /\ f \in BOOLEAN /\ Windows(chkpt, c, f) /\ (f => c = StartBlk - 1)
    BY DEF WindowInv, Checkpoint, NoneYet
  <1>4. NumberOf[b] = Newest(chkpt) + 1
    BY <1>1, BootstrapNumber
  <1>5. NumberOf[b] = c + Chk!GetNumOfCandidates(chkpt) + 1
    BY <1>1, BootstrapNumber
  <1>6. Arrived(chkpt, k, c, f, b)
    <2> HIDE DEF c, f
    <2> QED BY <1>2, <1>3, <1>5, AddHeaderWindows
  <1>7. Managed(k) /\ k.last = Chk!None
    BY <1>1, <1>2, AddHeaderManaged DEF ValidOnBootstrapI, CommonValidate
  <1>8. ~Chk!IsEmpty(k) /\ Chk!GetLastHeader(k) = b
    BY <1>2, AddHeaderNewest
  <1> HIDE DEF k
  <1>9. CASE chkpt' = k
    <2>1. Newest(chkpt') = NumberOf[b]
      BY <1>8, <1>9 DEF Newest
    <2> QED BY <1>1, <1>2, <1>4, <1>6, <1>7, <1>8, <1>9, <2>1, Arrival
  <1>10. CASE CanEndBootstrap(k) /\ chkpt' = Chk!AfterEndBootstrap(k)
    <2>1. /\ Managed(chkpt') /\ chkpt'.last = k.curr[Len(k.curr)]
          /\ k.curr[Len(k.curr)] \in Blocks
      BY <1>7, <1>10, EndBootstrapManaged
    <2>2. k.curr[Len(k.curr)] = b
      BY <1>7, <1>8, <1>10 DEF Chk!GetLastHeader, CanEndBootstrap
    <2>3. Newest(chkpt') = NumberOf[b]
      BY <2>1, <2>2 DEF Newest, Chk!IsEmpty, Chk!GetLastHeader, Chk!None
    <2>4. \A x \in Int, none \in BOOLEAN : Windows(k, x, none) => Windows(chkpt', x, none)
      BY <1>7, <1>10, EndBootstrapWindows
    <2> QED BY <1>1, <1>2, <1>4, <1>6, <1>8, <2>1, <2>3, <2>4, Arrival
  <1> QED BY <1>1, <1>9, <1>10

\* What Confirm hands to the manager extends its last header.
LEMMA ConfirmedHeader ==
    ASSUME NEW ns, NEW n \in Nat, NEW ms, NEW k, Consistent(ns, n, ms, k), Confirmable(ns) # {},
           k.last # Chk!None
    PROVE  \E h \in Blocks :
              /\ ParentOf[h] = k.last /\ Confirm(ns, ms, k).chkpt = Chk!AfterAddNode(k, h)
              /\ Confirm(ns, ms, k).completes = Chk!HeaderCompletes(k)
  <1> DEFINE c == Min(Confirmable(ns))
  <1>1. Tree(ns, n) /\ ns[Root(ns)].hdr = k.last
    BY DEF Consistent
  <1>2. c \in DOMAIN ns /\ ns[c].parent = Root(ns)
    <2>1. Confirmable(ns) \in SUBSET Nat
      BY <1>1 DEF Confirmable, Tree
    <2>2. c \in Confirmable(ns)
      BY <2>1, MinIsOne
    <2> QED BY <2>2 DEF Confirmable
  <1>3. /\ Confirm(ns, ms, k).chkpt = Chk!AfterAddNode(k, ns[c].hdr)
        /\ Confirm(ns, ms, k).completes = Chk!HeaderCompletes(k)
    BY DEF Confirm
  <1> HIDE DEF c
  <1>4. Root(ns) # NoParent
    <2>1. Root(ns) \in DOMAIN ns
      BY <1>1, RootOfTree
    <2> QED BY <1>1, <2>1 DEF Tree, NoParent
  <1>5. ns[c].hdr \in Blocks /\ ParentOf[ns[c].hdr] = k.last
    BY <1>1, <1>2, <1>4 DEF Tree
  <1> QED BY <1>3, <1>5

\* A maintenance after bootstrap is one arrival, or does not show.
LEMMA MaintenanceArrives ==
    ASSUME NEW ns, NEW n \in Nat, NEW ms, Consistent(ns, n, ms, chkpt),
           Managed(chkpt), chkpt.last # Chk!None, WindowInv,
           RuntimeMaintenance(ns, ms, chkpt)
    PROVE  WindowInv' /\ [Window!Arrive]_view
  <1> DEFINE new == Confirm(ns, ms, chkpt)
             c == Checkpoint
             f == NoneYet
  <1>1. /\ chkpt' = new.chkpt
        /\ secState' = IF new.completes THEN OnCheckpointComplete(new.chkpt) ELSE secState
    BY DEF RuntimeMaintenance
  <1>2. CASE Confirmable(ns) = {}
    <2>1. new.chkpt = chkpt /\ ~new.completes
      BY <1>2 DEF Confirm
    <2>2. UNCHANGED <<chkpt, secState>>
      BY <1>1, <2>1
    <2> QED BY <2>2, ViewStutters
  <1>3. CASE Confirmable(ns) # {}
    <2>1. PICK h \in Blocks :
             /\ ParentOf[h] = chkpt.last /\ new.chkpt = Chk!AfterAddNode(chkpt, h)
             /\ new.completes = Chk!HeaderCompletes(chkpt)
      BY <1>3, ConfirmedHeader
    <2> HIDE DEF new
    <2>2. Managed(chkpt') /\ chkpt'.last = h /\ h # Chk!None
      <3>1. Managed(Chk!AfterAddNode(chkpt, h)) /\ Chk!AfterAddNode(chkpt, h).last = h
        BY <2>1, AddNodeManaged
      <3>2. h # Chk!None
        BY DEF Chk!None
      <3> QED BY <1>1, <2>1, <3>1, <3>2
    <2>3. Newest(chkpt) = NumberOf[chkpt.last] /\ NumberOf[h] = Newest(chkpt) + 1
      BY <2>1 DEF Newest, Chk!IsEmpty, Chk!GetLastHeader, Chk!None
    <2>4. Newest(chkpt') = NumberOf[h] /\ Chk!GetLastHeader(chkpt') = h
      BY <2>2 DEF Newest, Chk!IsEmpty, Chk!GetLastHeader
    <2>5. c \in Int /\ f \in BOOLEAN /\ Windows(chkpt, c, f) /\ (f => c = StartBlk - 1)
      BY DEF WindowInv, Checkpoint, NoneYet
    <2>6. NumberOf[h] = c + Chk!GetNumOfCandidates(chkpt) + 1
      <3> HIDE DEF c, f
      <3>1. /\ Newest(chkpt) = c + Chk!GetNumOfCandidates(chkpt)
            /\ Chk!GetNumOfCandidates(chkpt) \in Nat
        BY <2>5, WindowViews
      <3> QED BY <2>3, <2>5, <3>1
    <2>7. Arrived(chkpt, chkpt', c, f, h)
      <3> HIDE DEF c, f
      <3> QED BY <1>1, <2>1, <2>5, <2>6, AddNodeWindows
    <2>8. secState' = IF Chk!HeaderCompletes(chkpt) THEN OnCheckpointComplete(chkpt') ELSE secState
      BY <1>1, <2>1
    <2>9. WindowInv' /\ Window!Arrive
      <3> DEFINE k == chkpt'
      <3>1. /\ Managed(k) /\ Newest(k) = NumberOf[h] /\ Chk!GetLastHeader(k) = h
            /\ Arrived(chkpt, k, c, f, h)
            /\ secState' = IF Chk!HeaderCompletes(chkpt) THEN OnCheckpointComplete(k) ELSE secState
            /\ \A x \in Int, none \in BOOLEAN : Windows(k, x, none) => Windows(chkpt', x, none)
        BY <2>2, <2>4, <2>7, <2>8
      <3> HIDE DEF k
      <3> QED BY <2>2, <2>3, <2>4, <3>1, Arrival
    <2> QED BY <2>9
  <1> QED BY <1>2, <1>3

\* A block handed to the monitor is one arrival at the window, or does not show there.
LEMMA UpdateArrives ==
    ASSUME IndInv, WindowInv, NEW b \in Blocks, Update(b)
    PROVE  WindowInv' /\ [Window!Arrive]_view
  <1>1. CASE \E syncMsg \in SyncMsgs : UpdateOnBootstrapI(b, syncMsg)
    BY <1>1, BootstrapArrives
  <1>2. ASSUME NEW syncMsg \in SyncMsgs, AcceptBlock(b, syncMsg)
        PROVE  WindowInv' /\ [Window!Arrive]_view
    <2> DEFINE ns == AddChild(nodes, NodeOf(ParentOf[b]), b)
               ms == Registered(b)
               n == fresh - 1
    <2>1. /\ phase # "BootstrapI" /\ ParentOf[b] \in Known
          /\ NodeOf(ParentOf[b]) \in DOMAIN nodes /\ RuntimeMaintenance(ns, ms, chkpt)
      BY <1>2 DEF AcceptBlock
    <2>2. /\ n \in Nat /\ fresh \in Nat /\ fresh = n + 1 /\ Managed(chkpt)
          /\ chkpt.last # Chk!None /\ Consistent(nodes, n, maps, chkpt)
      BY <2>1 DEF IndInv
    <2> HIDE DEF n
    <2>3. Consistent(ns, fresh, ms, chkpt)
      BY <2>1, <2>2, AddConsistent
    <2> HIDE DEF ns, ms
    <2> QED BY <2>1, <2>2, <2>3, MaintenanceArrives
  <1>3. CASE RejectBlock(b)
    <2> DEFINE n == fresh - 1
    <2>1. phase # "BootstrapI" /\ RuntimeMaintenance(nodes, maps, chkpt)
      BY <1>3 DEF RejectBlock
    <2>2. /\ n \in Nat /\ Managed(chkpt) /\ chkpt.last # Chk!None
          /\ Consistent(nodes, n, maps, chkpt)
      BY <2>1 DEF IndInv
    <2> HIDE DEF n
    <2> QED BY <2>1, <2>2, MaintenanceArrives
  <1>4. CASE ReadFreedParent(b)
    BY <1>4, ViewStutters DEF ReadFreedParent
  <1> QED BY <1>1, <1>2, <1>3, <1>4 DEF Update

\* Every step of the monitor is an arrival at the window, or does not show there.
LEMMA NextArrives ==
    ASSUME IndInv, WindowInv, [Next]_vars
    PROVE  WindowInv' /\ [Window!Arrive]_view
  <1>1. ASSUME NEW b \in Blocks, Update(b) PROVE WindowInv' /\ [Window!Arrive]_view
    BY <1>1, UpdateArrives
  <1>2. CASE HeadReported
    BY <1>2, ViewStutters DEF HeadReported
  <1>3. CASE UNCHANGED vars
    BY <1>3, ViewStutters DEF vars
  <1>4. ASSUME NEW b \in Blocks, NEW syncMsg \in SyncMsgs, UpdateThrows(b, syncMsg)
        PROVE  WindowInv' /\ [Window!Arrive]_view
    BY <1>4, ViewStutters DEF UpdateThrows
  <1> QED BY <1>1, <1>2, <1>3, <1>4 DEF Next

\* A new monitor's window is the abstract one's.
LEMMA InitWindow == Init => WindowInv /\ Window!Init
  <1> SUFFICES ASSUME Init PROVE WindowInv /\ Window!Init
    OBVIOUS
  <1>1. /\ chkpt.curr = <<>> /\ chkpt.cand = <<>> /\ chkpt.last = Chk!None
        /\ chkpt.lastIsCandidate = FALSE
        /\ secState = [checkpointNum |-> 0, checkpointIter |-> 0]
    BY DEF Init, Chk!EmptyChkpt
  <1>2. /\ NoneYet /\ Checkpoint = StartBlk - 1 /\ Chk!IsEmpty(chkpt)
        /\ Chk!GetNumOfCandidates(chkpt) = 0
    BY <1>1 DEF NoneYet, Checkpoint, Chk!IsEmpty, Chk!GetNumOfCandidates
  <1>3. WindowInv
    BY <1>1, <1>2 DEF WindowInv, Windows, Numbered
  <1>4. Numbers(Chk!IterateCurrWindow(chkpt)) = {}
    BY <1>1 DEF Numbers, Chk!IterateCurrWindow
  <1> QED BY <1>2, <1>3, <1>4 DEF Window!Init, Newest

\* The whole block monitor, forks, repeated blocks and phases included, implements
\* CheckpointWindow: the confirmed headers arrive at the checkpoint one number after
\* another, and the security state moves with every ChkptSize-th.
THEOREM MonitorImplementsWindow == Spec => ImplementsWindow
  <1>1. IndInv /\ WindowInv /\ [Next]_vars => (IndInv /\ WindowInv)' /\ [Window!Arrive]_view
    BY NextInv, NextArrives
  <1>2. Init => IndInv /\ WindowInv /\ Window!Init
    BY InitInv, InitWindow
  <1> QED BY <1>1, <1>2, PTL DEF Spec, ImplementsWindow, Window!Spec, view
-----------------------------------------------------------------------------
(***************************************************************************)
(* The monitor behind the host's feed: Geth's chains.                      *)
(***************************************************************************)
Ancestry == [x \in Blocks |-> [parent |-> ParentOf[x]]]

\* The equation of Chain holds: the chain that ends at a block is the block and the
\* chain that ends at its parent.
LEMMA ChainStep ==
    ASSUME NEW b \in Blocks
    PROVE  Chain[b] = {b} \cup (IF ParentOf[b] = NoBlock THEN {} ELSE Chain[ParentOf[b]])
  <1> DEFINE g(f) == [x \in Blocks |->
                        {x} \cup (IF ParentOf[x] = NoBlock THEN {} ELSE f[ParentOf[x]])]
             up == CHOOSE f : f = g(f)
             a == [x \in Blocks |-> Ancestors(Ancestry, x)]
  <1>1. ParentsKept(Ancestry) /\ DOMAIN Ancestry = Blocks /\ NoParent = NoBlock
        /\ \A x \in Blocks : Ancestry[x].parent = ParentOf[x]
    BY DEF ParentsKept, Ancestry, NoParent, NoBlock
  <1>2. a = g(a)
    <2>1. ASSUME NEW x \in Blocks
          PROVE  a[x] = {x} \cup (IF ParentOf[x] = NoBlock THEN {} ELSE a[ParentOf[x]])
      <3>1. Ancestors(Ancestry, x) =
              {x} \cup (IF ParentOf[x] = NoBlock THEN {} ELSE Ancestors(Ancestry, ParentOf[x]))
        BY <1>1, AncestorsStep
      <3>2. ParentOf[x] # NoBlock => ParentOf[x] \in Blocks
        BY DEF NoBlock
      <3> QED BY <3>1, <3>2
    <2> QED BY <2>1
  <1>3. up = g(up)
    <2> HIDE DEF a, g
    <2> QED BY <1>2
  <1>4. Chain = [x \in Blocks |-> up[x]]
    BY DEF Chain
  <1> HIDE DEF up
  <1>5. ParentOf[b] # NoBlock => ParentOf[b] \in Blocks
    BY DEF NoBlock
  <1> QED BY <1>3, <1>4, <1>5

\* Induction along the chains: a parent has the smaller number.
LEMMA BlockInduction ==
    ASSUME NEW G, \A b \in Blocks : ParentOf[b] = 0 \/ ParentOf[b] \in G => b \in G
    PROVE  \A b \in Blocks : b \in G
  <1> DEFINE T == {NumberOf[b] : b \in Blocks \ G}
  <1> SUFFICES ASSUME NEW c \in Blocks, c \notin G PROVE FALSE
    OBVIOUS
  <1>1. T \in SUBSET Nat /\ T # {}
    OBVIOUS
  <1>2. PICK n \in T : \A m \in T : n <= m
    BY <1>1, Least
  <1>3. PICK b \in Blocks \ G : NumberOf[b] = n
    BY <1>2
  <1>4. ParentOf[b] \in Blocks \ G /\ NumberOf[b] = NumberOf[ParentOf[b]] + 1
    BY <1>3
  <1>5. NumberOf[ParentOf[b]] \in T /\ NumberOf[ParentOf[b]] \in Nat
    BY <1>4
  <1> QED BY <1>2, <1>3, <1>4, <1>5

\* The blocks of a chain: older than its last, and each with its parent.
LEMMA ChainBlocks ==
    \A b \in Blocks :
        /\ b \in Chain[b] /\ Chain[b] \subseteq Blocks
        /\ \A x \in Chain[b] : x = b \/ NumberOf[x] < NumberOf[b]
        /\ \A x \in Chain[b] : ParentOf[x] # 0 => ParentOf[x] \in Chain[b]
  <1> DEFINE G == {b \in Blocks :
                     /\ b \in Chain[b] /\ Chain[b] \subseteq Blocks
                     /\ \A x \in Chain[b] : x = b \/ NumberOf[x] < NumberOf[b]
                     /\ \A x \in Chain[b] : ParentOf[x] # 0 => ParentOf[x] \in Chain[b]}
  <1>1. ASSUME NEW b \in Blocks, ParentOf[b] = 0 \/ ParentOf[b] \in G PROVE b \in G
    <2>1. CASE ParentOf[b] = 0
      <3>1. Chain[b] = {b}
        BY <2>1, ChainStep DEF NoBlock
      <3> QED BY <2>1, <3>1
    <2>2. CASE ParentOf[b] # 0
      <3> DEFINE p == ParentOf[b]
      <3>1. Chain[b] = {b} \cup Chain[p] /\ p \in G /\ p \in Blocks
        BY <1>1, <2>2, ChainStep DEF NoBlock
      <3>2. NumberOf[b] = NumberOf[p] + 1
        BY <2>2
      <3>3. ASSUME NEW x \in Chain[p] PROVE NumberOf[x] < NumberOf[b]
        <4>1. x \in Blocks /\ (x = p \/ NumberOf[x] < NumberOf[p])
          BY <3>1, <3>3
        <4>2. NumberOf[x] \in Nat /\ NumberOf[p] \in Nat
          BY <3>1, <4>1
        <4> QED BY <3>2, <4>1, <4>2
      <3> QED BY <3>1, <3>3
    <2> QED BY <2>1, <2>2
  <1>2. \A b \in Blocks : b \in G
    <2> HIDE DEF G
    <2> QED BY <1>1, BlockInduction
  <1> QED BY <1>2

\* A chain has one block of each number from the first block to its last.
LEMMA ChainNumbers ==
    \A b \in Blocks :
        /\ \A n \in StartBlk..NumberOf[b] : \E x \in Chain[b] : NumberOf[x] = n
        /\ \A x, y \in Chain[b] : NumberOf[x] = NumberOf[y] => x = y
  <1> DEFINE G == {b \in Blocks :
                     /\ \A n \in StartBlk..NumberOf[b] : \E x \in Chain[b] : NumberOf[x] = n
                     /\ \A x, y \in Chain[b] : NumberOf[x] = NumberOf[y] => x = y}
  <1>1. ASSUME NEW b \in Blocks, ParentOf[b] = 0 \/ ParentOf[b] \in G PROVE b \in G
    <2>1. CASE ParentOf[b] = 0
      <3>1. Chain[b] = {b} /\ NumberOf[b] <= StartBlk /\ NumberOf[b] \in Nat
        BY <2>1, ChainStep, FeedAssumption DEF NoBlock
      <3> QED BY <3>1
    <2>2. CASE ParentOf[b] # 0
      <3> DEFINE p == ParentOf[b]
      <3>1. Chain[b] = {b} \cup Chain[p] /\ p \in G /\ p \in Blocks
        BY <1>1, <2>2, ChainStep DEF NoBlock
      <3>2. NumberOf[b] = NumberOf[p] + 1 /\ NumberOf[p] \in Nat
        BY <2>2, <3>1
      <3>3. ASSUME NEW x \in Chain[p] PROVE NumberOf[x] # NumberOf[b]
        <4>1. x \in Blocks /\ (x = p \/ NumberOf[x] < NumberOf[p])
          BY <3>1, <3>3, ChainBlocks
        <4>2. NumberOf[x] \in Nat
          BY <4>1
        <4> QED BY <3>2, <4>1, <4>2
      <3>4. ASSUME NEW n \in StartBlk..NumberOf[b] PROVE \E x \in Chain[b] : NumberOf[x] = n
        <4>1. n = NumberOf[b] \/ n \in StartBlk..NumberOf[p]
          BY <3>2, <3>4
        <4> QED BY <3>1, <4>1
      <3>5. ASSUME NEW x \in Chain[b], NEW y \in Chain[b], NumberOf[x] = NumberOf[y]
            PROVE  x = y
        BY <3>1, <3>3, <3>5
      <3> QED BY <3>4, <3>5
    <2> QED BY <2>1, <2>2
  <1>2. \A b \in Blocks : b \in G
    <2> HIDE DEF G
    <2> QED BY <1>1, BlockInduction
  <1> QED BY <1>2

\* GetHeaderRlpByNum finds the block of the number asked for on Geth's chain.
LEMMA FetchedBlock ==
    ASSUME FeedInv, CanFetch
    PROVE  /\ Fetched(curr) \in Chain[tip] /\ Fetched(curr) \in Blocks
           /\ NumberOf[Fetched(curr)] = curr
  <1>1. tip \in Blocks /\ curr \in StartBlk..NumberOf[tip]
    BY DEF FeedInv, CanFetch
  <1>2. \E x \in Chain[tip] : NumberOf[x] = curr
    BY <1>1, ChainNumbers
  <1>3. Fetched(curr) \in Chain[tip] /\ NumberOf[Fetched(curr)] = curr
    BY <1>2 DEF Fetched
  <1> QED BY <1>1, <1>3, ChainBlocks

\* As long as the last block handed over is on Geth's chain, the next one extends it.
LEMMA FetchedExtends ==
    ASSUME FeedInv, CanFetch, pushed # NoBlock, pushed \in Chain[tip]
    PROVE  ParentOf[Fetched(curr)] = pushed
  <1> DEFINE b == Fetched(curr)
             p == ParentOf[b]
  <1>1. b \in Chain[tip] /\ b \in Blocks /\ NumberOf[b] = curr
    BY FetchedBlock
  <1>2. /\ pushed \in Blocks /\ NumberOf[pushed] >= StartBlk /\ NumberOf[pushed] = curr - 1
        /\ curr \in Nat /\ tip \in Blocks /\ NumberOf[pushed] \in Nat
    BY DEF FeedInv, CanFetch
  <1> HIDE DEF b
  <1>3. p # 0
    BY <1>1, <1>2, FeedAssumption
  <1>4. p \in Chain[tip]
    BY <1>1, <1>2, <1>3, ChainBlocks
  <1>5. p \in Blocks /\ NumberOf[b] = NumberOf[p] + 1 /\ NumberOf[p] \in Nat
    BY <1>1, <1>3
  <1> HIDE DEF p
  <1>6. NumberOf[p] = NumberOf[pushed]
    BY <1>1, <1>2, <1>5
  <1>7. p = pushed
    BY <1>2, <1>4, <1>6, ChainNumbers
  <1> QED BY <1>7 DEF b, p
-----------------------------------------------------------------------------
(***************************************************************************)
(* What the feed makes of the tree: one branch.                            *)
(***************************************************************************)
\* The release of the root's one child destroys the root and nothing else.
LEMMA PathSurvivors ==
    ASSUME NEW ns, NEW n \in Nat, Tree(ns, n), NEW b, OnPath(ns, b),
           NEW c \in DOMAIN ns, ns[c].parent = Root(ns)
    PROVE  Subtree(ns, c) = DOMAIN ns \ {Root(ns)}
  <1> DEFINE r == Root(ns)
  <1>1. /\ ParentsKept(ns) /\ r \in DOMAIN ns /\ ns[r].parent = NoParent /\ r # NoParent
        /\ \A i \in DOMAIN ns : ns[i].parent = NoParent => i = r
    <2>1. r \in DOMAIN ns
      BY RootOfTree
    <2> HIDE DEF r
    <2>2. r # NoParent
      BY <2>1 DEF Tree, NoParent
    <2> QED BY <2>2, RootOfTree, TreeParents DEF r
  <1>2. c \in Lineage(ns, c) /\ c # r
    BY <1>1, LineageInTree
  <1>3. r \notin Subtree(ns, c)
    <2>1. Lineage(ns, r) = {r}
      BY <1>1, LineageStep
    <2> QED BY <1>2, <2>1 DEF Subtree
  <1> HIDE DEF r
  <1> DEFINE G == {i \in DOMAIN ns : i = r \/ c \in Lineage(ns, i)}
  <1>4. ASSUME NEW i \in DOMAIN ns, ns[i].parent = NoParent \/ ns[i].parent \in G
        PROVE  i \in G
    <2>1. CASE ns[i].parent = NoParent
      BY <1>1, <2>1
    <2>2. CASE ns[i].parent # NoParent /\ ns[i].parent = r
      <3>1. /\ ns[i].hdr \in Blocks /\ ns[c].hdr \in Blocks /\ ns[r].hdr \in Blocks
            /\ ParentOf[ns[i].hdr] = ns[r].hdr /\ ParentOf[ns[c].hdr] = ns[r].hdr
        BY <1>1, <2>2 DEF Tree, r
      <3>2. NumberOf[ns[i].hdr] = NumberOf[ns[c].hdr]
        BY <3>1
      <3>3. i = c
        BY <3>2 DEF OnPath
      <3> QED BY <1>2, <3>3
    <2>3. CASE ns[i].parent # NoParent /\ ns[i].parent # r
      <3>1. c \in Lineage(ns, ns[i].parent)
        BY <1>4, <2>3
      <3>2. Lineage(ns, i) = {i} \cup Lineage(ns, ns[i].parent)
        BY <1>1, <2>3, LineageStep
      <3> QED BY <3>1, <3>2
    <2> QED BY <2>1, <2>2, <2>3
  <1>5. \A i \in DOMAIN ns : i \in G
    <2> HIDE DEF G
    <2> QED BY <1>4, TreeInduction
  <1> QED BY <1>3, <1>5 DEF Subtree, r

\* What is left of the nodes ns when a child of the root is confirmed, or none.
Shortened(new, ns) ==
    /\ \A i \in DOMAIN new : i \in DOMAIN ns /\ new[i].hdr = ns[i].hdr
    /\ \A i \in DOMAIN ns \ {Root(ns)} :
          i \in DOMAIN new /\ (ns[i].desc = 0 => new[i].parent = ns[i].parent)

\* A shortened path is a path.
LEMMA ShortenedPath ==
    ASSUME NEW ns, NEW new, Shortened(new, ns), NEW b, OnPath(ns, b)
    PROVE  OnPath(new, b)
  BY DEF Shortened, OnPath

\* Confirming a header of a path leaves no pointer to a destroyed node behind: the
\* entry of the one node that goes is dropped.
LEMMA ConfirmOnPath ==
    ASSUME NEW ns, NEW n \in Nat, NEW ms, NEW k, Consistent(ns, n, ms, k),
           NEW b, OnPath(ns, b), LiveMaps(ms, ns)
    PROVE  /\ Shortened(Confirm(ns, ms, k).nodes, ns)
           /\ LiveMaps(Confirm(ns, ms, k).maps, Confirm(ns, ms, k).nodes)
  <1>1. CASE Confirmable(ns) = {}
    <2>1. Confirm(ns, ms, k).nodes = ns /\ Confirm(ns, ms, k).maps = ms
      BY <1>1 DEF Confirm
    <2>2. Shortened(ns, ns)
      BY DEF Shortened
    <2> QED BY <2>1, <2>2
  <1>2. CASE Confirmable(ns) # {}
    <2> DEFINE c == Min(Confirmable(ns))
               r == Root(ns)
               drop == {ns[r].hdr, ns[c].hdr}
               new == ReleaseChild(ns, c)
               left == [offline |-> Without(ms.offline, drop), active |-> Without(ms.active, drop)]
    <2>0. Confirm(ns, ms, k).nodes = new /\ Confirm(ns, ms, k).maps = left
      BY <1>2 DEF Confirm
    <2>1. Tree(ns, n) /\ Pointers(ms, ns, n)
      BY DEF Consistent
    <2>2. c \in DOMAIN ns /\ ns[c].parent = r /\ EnoughDesc(ns[c].desc)
      <3>1. Confirmable(ns) \in SUBSET Nat
        BY <2>1 DEF Confirmable, Tree
      <3>2. c \in Confirmable(ns)
        BY <1>2, <3>1, MinIsOne
      <3> QED BY <3>2 DEF Confirmable
    <2> HIDE DEF c
    <2>3. Cut(new, ns, c) /\ Subtree(ns, c) = DOMAIN ns \ {r}
      BY <2>1, <2>2, ReleaseNodes, PathSurvivors
    <2> HIDE DEF new, r
    <2>4. ns[c].desc # 0
      BY <2>2 DEF EnoughDesc
    <2>5. Shortened(new, ns)
      BY <2>3, <2>4 DEF Shortened, Cut, r
    <2>6. ASSUME NEW m, PointsAt(m, ns, n), ~Dangling(ns, m)
          PROVE  ~Dangling(new, Without(m, drop))
      <3>1. DOMAIN new = DOMAIN ns \ {r}
        BY <2>3 DEF Cut
      <3>2. ASSUME NEW h \in DOMAIN Without(m, drop) PROVE Without(m, drop)[h] \in DOMAIN new
        <4>1. h \in DOMAIN m /\ h # ns[r].hdr /\ Without(m, drop)[h] = m[h]
          BY <3>2 DEF Without
        <4>2. m[h] \in DOMAIN ns /\ ns[m[h]].hdr = h
          BY <2>6, <4>1 DEF Dangling, PointsAt
        <4> QED BY <3>1, <4>1, <4>2
      <3> QED BY <3>2 DEF Dangling
    <2> HIDE DEF drop
    <2>7. LiveMaps(left, new)
      BY <2>1, <2>6 DEF LiveMaps, Pointers
    <2> QED BY <2>0, <2>5, <2>7
  <1> QED BY <1>1, <1>2

\* The maintenance after a block finds only live nodes on a path, and leaves one.
LEMMA MaintenanceOnPath ==
    ASSUME NEW ns, NEW n \in Nat, NEW ms, Consistent(ns, n, ms, chkpt), NEW b, OnPath(ns, b),
           LiveMaps(ms, ns), RuntimeMaintenance(ns, ms, chkpt)
    PROVE  /\ Shortened(nodes', ns) /\ OnPath(nodes', b) /\ LiveMaps(maps', nodes')
           /\ fault' = fault
  <1> DEFINE new == Confirm(ns, ms, chkpt)
  <1>1. Shortened(new.nodes, ns) /\ LiveMaps(new.maps, new.nodes)
    BY ConfirmOnPath
  <1>2. OnPath(new.nodes, b)
    BY <1>1, ShortenedPath
  <1>3. /\ nodes' = new.nodes
        /\ fault' = IF Dangling(new.nodes, new.maps.active) THEN "freed" ELSE fault
        /\ \E gone \in Expired(new.maps.active) :
             maps' = [new.maps EXCEPT !.active = Without(@, gone)]
    BY DEF RuntimeMaintenance
  <1>4. new.maps = [offline |-> new.maps.offline, active |-> new.maps.active]
    <2>1. CASE Confirmable(ns) = {}
      BY <2>1 DEF Confirm, Consistent, Pointers
    <2>2. CASE Confirmable(ns) # {}
      BY <2>2 DEF Confirm
    <2> QED BY <2>1, <2>2
  <1> HIDE DEF new
  <1>5. PICK gone \in Expired(new.maps.active) :
           maps' = [new.maps EXCEPT !.active = Without(@, gone)]
    BY <1>3
  <1>6. maps'.offline = new.maps.offline /\ maps'.active = Without(new.maps.active, gone)
    BY <1>4, <1>5
  <1>7. ~Dangling(new.nodes, new.maps.active) /\ ~Dangling(new.nodes, new.maps.offline)
    BY <1>1 DEF LiveMaps
  <1>8. ~Dangling(new.nodes, Without(new.maps.active, gone))
    BY <1>7 DEF Dangling, Without
  <1>9. LiveMaps(maps', nodes')
    BY <1>3, <1>6, <1>7, <1>8 DEF LiveMaps
  <1> QED BY <1>1, <1>2, <1>3, <1>7, <1>9

\* With live maps, the parent that is looked up is a node of that header.
LEMMA KnownIsNode ==
    ASSUME IndInv, phase # "BootstrapI", LiveMaps(maps, nodes), NEW h \in Known
    PROVE  NodeOf(h) \in DOMAIN nodes /\ nodes[NodeOf(h)].hdr = h
  <1>1. PointsAt(maps.offline, nodes, fresh - 1) /\ PointsAt(maps.active, nodes, fresh - 1)
    BY DEF IndInv, Consistent, Pointers
  <1>2. CASE h \in DOMAIN maps.offline
    BY <1>1, <1>2 DEF NodeOf, LiveMaps, Dangling, PointsAt
  <1>3. CASE h \in DOMAIN maps.active /\ h \notin DOMAIN maps.offline
    BY <1>1, <1>3 DEF NodeOf, LiveMaps, Dangling, PointsAt
  <1> QED BY <1>2, <1>3 DEF Known

\* The block that the task hands over after bootstrap is newer than every node.
LEMMA HandedIsNewest ==
    ASSUME IndInv, FeedInv, phase # "BootstrapI", feed = "running",
           NEW b \in Blocks, NumberOf[b] = curr
    PROVE  \A i \in DOMAIN nodes : nodes[i].hdr \in Blocks /\ NumberOf[nodes[i].hdr] < NumberOf[b]
  <1>1. /\ pushed \in Blocks /\ NumberOf[pushed] = curr - 1 /\ curr \in Nat
        /\ OnPath(nodes, pushed) /\ NumberOf[pushed] \in Nat
    BY DEF FeedInv
  <1>2. \A i \in DOMAIN nodes : nodes[i].hdr \in Blocks
    BY DEF IndInv, Consistent, Tree
  <1> SUFFICES ASSUME NEW i \in DOMAIN nodes PROVE NumberOf[nodes[i].hdr] < NumberOf[b]
    BY <1>2
  <1>3. nodes[i].hdr = pushed \/ NumberOf[nodes[i].hdr] < NumberOf[pushed]
    BY <1>1 DEF OnPath
  <1>4. NumberOf[nodes[i].hdr] \in Nat
    BY <1>2
  <1> QED BY <1>1, <1>3, <1>4

\* A new leaf makes the path longer, and its entry is live.
LEMMA LeafOnPath ==
    ASSUME IndInv, FeedInv, feed = "running", phase # "BootstrapI", NEW b \in Blocks,
           NumberOf[b] = curr, ParentOf[b] \in Known, NodeOf(ParentOf[b]) \in DOMAIN nodes,
           NEW ns, ns = AddChild(nodes, NodeOf(ParentOf[b]), b)
    PROVE  /\ Consistent(ns, fresh, Registered(b), chkpt)
           /\ Grown(ns, nodes, NodeOf(ParentOf[b]), b) /\ Root(ns) # fresh
           /\ fresh \notin DOMAIN nodes /\ NodeOf(ParentOf[b]) # NoParent
           /\ OnPath(ns, b) /\ LiveMaps(Registered(b), ns)
  <1> DEFINE p == NodeOf(ParentOf[b])
             ms == Registered(b)
             n == fresh - 1
  <1>1. /\ fresh \in Nat /\ n \in Nat /\ fresh = n + 1
        /\ Consistent(nodes, n, maps, chkpt) /\ OnPath(nodes, pushed) /\ LiveMaps(maps, nodes)
    BY DEF IndInv, FeedInv
  <1> HIDE DEF n
  <1>2. Consistent(ns, fresh, ms, chkpt)
    BY <1>1, AddConsistent
  <1>3. Tree(nodes, n) /\ fresh \notin DOMAIN nodes /\ p # NoParent
    <2> HIDE DEF p
    <2>1. Tree(nodes, n)
      BY <1>1 DEF Consistent
    <2> QED BY <1>1, <2>1 DEF Tree, NoParent, p
  <1> HIDE DEF p
  <1>4. Grown(ns, nodes, p, b) /\ Root(ns) # fresh
    <2>1. Grown(ns, nodes, p, b)
      BY <1>3, AddChildNodes DEF Tree, p
    <2>2. ns[Root(ns)].parent = NoParent
      BY <1>2, RootOfTree DEF Consistent
    <2> QED BY <1>3, <2>1, <2>2 DEF Grown
  <1>5. /\ DOMAIN ns = DOMAIN nodes \cup {fresh} /\ ns[fresh].hdr = b /\ ns[fresh].parent = p
        /\ ns[fresh].desc = 0 /\ \A i \in DOMAIN nodes : ns[i].hdr = nodes[i].hdr
    BY <1>4 DEF Grown
  <1>6. OnPath(ns, b)
    <2>1. \A i \in DOMAIN nodes : NumberOf[ns[i].hdr] < NumberOf[b] /\ NumberOf[ns[i].hdr] \in Nat
      BY <1>5, HandedIsNewest
    <2>2. \A i \in DOMAIN nodes : NumberOf[ns[i].hdr] # NumberOf[ns[fresh].hdr]
      BY <1>5, <2>1
    <2>3. \A i, j \in DOMAIN nodes : NumberOf[ns[i].hdr] = NumberOf[ns[j].hdr] => i = j
      BY <1>1, <1>5 DEF OnPath
    <2> QED BY <1>5, <2>1, <2>2, <2>3 DEF OnPath
  <1>7. LiveMaps(ms, ns)
    <2>1. ASSUME NEW m, ~Dangling(nodes, m) PROVE ~Dangling(ns, m) /\ ~Dangling(ns, Inserted(m, b, fresh))
      BY <1>5, <2>1 DEF Dangling, Inserted
    <2>2. maps = [offline |-> maps.offline, active |-> maps.active]
      BY <1>1 DEF Consistent, Pointers
    <2>3. \/ ms = [offline |-> maps.offline, active |-> Inserted(maps.active, b, fresh)]
          \/ ms = [offline |-> Inserted(maps.offline, b, fresh), active |-> maps.active]
      BY <2>2 DEF Registered
    <2> HIDE DEF ms
    <2> QED BY <1>1, <2>1, <2>3 DEF LiveMaps
  <1> QED BY <1>2, <1>3, <1>4, <1>6, <1>7 DEF p

\* An accepted block makes the path longer.
LEMMA AcceptOnPath ==
    ASSUME IndInv, FeedInv, feed = "running", NEW b \in Blocks, NumberOf[b] = curr,
           NEW syncMsg, AcceptBlock(b, syncMsg)
    PROVE  /\ OnPath(nodes', b) /\ LiveMaps(maps', nodes') /\ fault' = fault
           /\ phase' # "BootstrapI" /\ fresh \in DOMAIN nodes'
           /\ nodes'[fresh].hdr = b /\ nodes'[fresh].parent # NoParent
  <1> DEFINE p == NodeOf(ParentOf[b])
             ns == AddChild(nodes, p, b)
             ms == Registered(b)
  <1>1. /\ phase # "BootstrapI" /\ ParentOf[b] \in Known /\ p \in DOMAIN nodes
        /\ phase' = "Sync" \/ phase' = phase
        /\ RuntimeMaintenance(ns, ms, chkpt)
    BY DEF AcceptBlock
  <1>2. fresh \in Nat
    BY DEF IndInv
  <1>3. /\ Consistent(ns, fresh, ms, chkpt) /\ Grown(ns, nodes, p, b) /\ Root(ns) # fresh
        /\ p # NoParent /\ OnPath(ns, b) /\ LiveMaps(ms, ns)
    BY <1>1, LeafOnPath
  <1> HIDE DEF ns, ms, p
  <1>4. /\ fresh \in DOMAIN ns /\ ns[fresh].hdr = b /\ ns[fresh].parent = p
        /\ ns[fresh].desc = 0
    BY <1>3 DEF Grown
  <1>5. /\ Shortened(nodes', ns) /\ OnPath(nodes', b) /\ LiveMaps(maps', nodes')
        /\ fault' = fault
    BY <1>1, <1>2, <1>3, MaintenanceOnPath
  <1>6. fresh \in DOMAIN nodes' /\ nodes'[fresh].hdr = b /\ nodes'[fresh].parent = p
    BY <1>3, <1>4, <1>5 DEF Shortened
  <1> QED BY <1>1, <1>3, <1>5, <1>6

\* A rejected block leaves the path, all of it older than the block.
LEMMA RejectOnPath ==
    ASSUME IndInv, FeedInv, feed = "running", NEW b \in Blocks, NumberOf[b] = curr,
           RejectBlock(b)
    PROVE  /\ OnPath(nodes', b) /\ LiveMaps(maps', nodes') /\ fault' = fault
           /\ phase' # "BootstrapI" /\ \A i \in DOMAIN nodes' : nodes'[i].hdr # b
  <1> DEFINE n == fresh - 1
  <1>1. /\ phase # "BootstrapI" /\ phase' # "BootstrapI"
        /\ RuntimeMaintenance(nodes, maps, chkpt)
    BY DEF RejectBlock, PhaseChangeCheck
  <1>2. /\ n \in Nat /\ Consistent(nodes, n, maps, chkpt) /\ OnPath(nodes, pushed)
        /\ LiveMaps(maps, nodes)
    BY <1>1 DEF IndInv, FeedInv
  <1> HIDE DEF n
  <1>3. \A i \in DOMAIN nodes : NumberOf[nodes[i].hdr] < NumberOf[b] /\ nodes[i].hdr # b
    <2>1. NumberOf[b] \in Nat /\ ~(NumberOf[b] < NumberOf[b])
      OBVIOUS
    <2>2. \A i \in DOMAIN nodes : NumberOf[nodes[i].hdr] < NumberOf[b]
      BY <1>1, HandedIsNewest
    <2> QED BY <2>1, <2>2
  <1>4. OnPath(nodes, b)
    BY <1>2, <1>3 DEF OnPath
  <1>5. /\ Shortened(nodes', nodes) /\ OnPath(nodes', b) /\ LiveMaps(maps', nodes')
        /\ fault' = fault
    BY <1>1, <1>2, <1>4, MaintenanceOnPath
  <1>6. \A i \in DOMAIN nodes' : nodes'[i].hdr # b
    BY <1>3, <1>5 DEF Shortened
  <1> QED BY <1>1, <1>5, <1>6

\* The parent of a block that the task hands over is never found in a freed node.
LEMMA NeverReadFreed ==
    ASSUME IndInv, FeedInv, NEW b \in Blocks, ReadFreedParent(b)
    PROVE  FALSE
  <1>1. phase # "BootstrapI" /\ ParentOf[b] \in Known /\ NodeOf(ParentOf[b]) \notin DOMAIN nodes
    BY DEF ReadFreedParent
  <1>2. LiveMaps(maps, nodes)
    BY <1>1 DEF FeedInv
  <1> QED BY <1>1, <1>2, KnownIsNode

\* A block of bootstrap I becomes the newest header, or the root of a new path.
LEMMA BootstrapOnPath ==
    ASSUME IndInv, NEW b \in Blocks, NEW syncMsg, UpdateOnBootstrapI(b, syncMsg)
    PROVE  /\ phase' = "BootstrapI" => ~Chk!IsEmpty(chkpt') /\ Chk!GetLastHeader(chkpt') = b
           /\ phase' # "BootstrapI" =>
                OnPath(nodes', b) /\ LiveMaps(maps', nodes') /\ b \in Known'
  <1> DEFINE k == Chk!AfterAddHeader(chkpt, b)
  <1>1. /\ phase = "BootstrapI" /\ ValidOnBootstrapI(b)
        /\ \/ chkpt' = k /\ phase' = phase
           \/ CanEndBootstrap(k) /\ EndBootstrapI(b, k)
    BY DEF UpdateOnBootstrapI
  <1>2. /\ Managed(chkpt) /\ chkpt.last = Chk!None
        /\ maps = [offline |-> <<>>, active |-> <<>>]
    BY <1>1 DEF IndInv
  <1>3. ~Chk!IsEmpty(k) /\ Chk!GetLastHeader(k) = b
    BY <1>2, AddHeaderNewest
  <1> HIDE DEF k
  <1>4. CASE chkpt' = k /\ phase' = phase
    BY <1>1, <1>3, <1>4
  <1>5. CASE EndBootstrapI(b, k)
    <2> DEFINE ns == [i \in {fresh} |-> [hdr |-> b, parent |-> NoParent, desc |-> 0]]
               m == [h \in {b} |-> fresh]
               ms == [offline |-> m, active |-> <<>>]
    <2>1. phase' = "BootstrapII" /\ nodes' = ns /\ maps' = ms
      BY <1>2, <1>5 DEF EndBootstrapI
    <2>2. /\ DOMAIN ns = {fresh} /\ ns[fresh].hdr = b /\ DOMAIN m = {b} /\ m[b] = fresh
          /\ ms.offline = m /\ ms.active = <<>> /\ DOMAIN ms.active = {}
      OBVIOUS
    <2> HIDE DEF ns, m, ms
    <2>3. OnPath(ns, b) /\ LiveMaps(ms, ns)
      BY <2>2 DEF OnPath, LiveMaps, Dangling
    <2>4. b \in Known'
      BY <2>1, <2>2 DEF Known
    <2> QED BY <2>1, <2>3, <2>4
  <1> QED BY <1>1, <1>4, <1>5

\* What every block handed over by the task leaves behind.
LEMMA HandOver ==
    ASSUME IndInv, FeedInv, feed = "running", NEW b \in Blocks, NumberOf[b] = curr, Update(b),
           pushed' = b, tip' = tip,
           \/ curr' = curr + 1
           \/ curr' = curr /\ feed' # "running"
    PROVE  FeedInv'
  <1>1. head' = head
    BY DEF Update, UpdateOnBootstrapI, AcceptBlock, RejectBlock, ReadFreedParent
  <1>2. /\ phase' = "BootstrapI" => ~Chk!IsEmpty(chkpt') /\ Chk!GetLastHeader(chkpt') = b
        /\ phase' # "BootstrapI" => OnPath(nodes', b) /\ LiveMaps(maps', nodes')
    <2>1. CASE \E syncMsg \in SyncMsgs : UpdateOnBootstrapI(b, syncMsg)
      BY <2>1, BootstrapOnPath
    <2>2. CASE \E syncMsg \in SyncMsgs : AcceptBlock(b, syncMsg)
      BY <2>2, AcceptOnPath
    <2>3. CASE RejectBlock(b)
      BY <2>3, RejectOnPath
    <2>4. CASE ReadFreedParent(b)
      BY <2>4, NeverReadFreed
    <2> QED BY <2>1, <2>2, <2>3, <2>4 DEF Update
  <1>3. /\ tip' \in Blocks /\ head' = NumberOf[tip'] /\ curr \in Nat /\ curr >= StartBlk
        /\ curr' \in Nat /\ curr' >= StartBlk
        /\ feed' = "running" => curr = curr' - 1
    BY <1>1 DEF FeedInv
  <1>4. pushed' \in Blocks /\ pushed' # NoBlock
    BY DEF NoBlock
  <1>5. NumberOf[pushed'] >= StartBlk /\ (feed' = "running" => NumberOf[pushed'] = curr' - 1)
    BY <1>3
  <1> QED BY <1>2, <1>3, <1>4, <1>5 DEF FeedInv

\* The monitor's state but for the sync message.
keptVars == <<phase, bootEnd, planSync, chkpt, secState, nodes, maps, fresh, fault>>

\* A block whose callback throws leaves nothing in the monitor but the sync message.
LEMMA FailureLeaves ==
    ASSUME PushNewBlockFails
    PROVE  UNCHANGED keptVars /\ UNCHANGED head
  BY DEF PushNewBlockFails, UpdateThrows, keptVars

\* Every step of the feed keeps the invariants of the monitor and of the task.
LEMMA FeedNextInv ==
    ASSUME IndInv, WindowInv, FeedInv, [FeedNext]_<<vars, feedVars>>
    PROVE  IndInv' /\ WindowInv' /\ FeedInv'
  <1>1. CASE GethGrows
    <2>1. PICK b \in Blocks : ParentOf[b] = tip /\ tip' = b
      BY <1>1 DEF GethGrows
    <2>2. UNCHANGED monVars /\ UNCHANGED <<curr, feed, pushed>> /\ head' = head + 1
      BY <1>1 DEF GethGrows
    <2>3. tip' \in Blocks /\ head' = NumberOf[tip']
      BY <2>1, <2>2 DEF FeedInv
    <2>4. IndInv'
      BY <2>2 DEF monVars, IndInv, ConfirmedIsBuried
    <2>5. WindowInv'
      BY <2>2, ViewStutters DEF monVars
    <2>6. FeedInv'
      BY <2>2, <2>3 DEF FeedInv, monVars
    <2> QED BY <2>4, <2>5, <2>6
  <1>2. CASE GethReorganises
    <2>1. PICK b \in Blocks : tip' = b /\ head' = NumberOf[b]
      BY <1>2 DEF GethReorganises
    <2>2. UNCHANGED monVars /\ UNCHANGED <<curr, feed, pushed>>
      BY <1>2 DEF GethReorganises
    <2>4. IndInv'
      BY <2>2 DEF monVars, IndInv, ConfirmedIsBuried
    <2>5. WindowInv'
      BY <2>2, ViewStutters DEF monVars
    <2>6. FeedInv'
      BY <2>1, <2>2 DEF FeedInv, monVars
    <2> QED BY <2>4, <2>5, <2>6
  <1>3. CASE PushNewBlock
    <2> DEFINE b == Fetched(curr)
    <2>1. /\ CanFetch /\ Update(b) /\ pushed' = b /\ tip' = tip
          /\ \/ curr' = curr + 1
             \/ curr' = curr /\ feed' # "running"
      BY <1>3 DEF PushNewBlock, CurrAfter
    <2>2. b \in Blocks /\ NumberOf[b] = curr /\ feed = "running"
      BY <2>1, FetchedBlock DEF CanFetch
    <2> HIDE DEF b
    <2>3. IndInv' /\ WindowInv'
      BY <2>1, <2>2, UpdateInv, UpdateArrives
    <2>4. FeedInv'
      BY <2>1, <2>2, HandOver
    <2> QED BY <2>3, <2>4
  <1>4. CASE PushInvalidBlock \/ UNCHANGED <<vars, feedVars>>
    <2>1. /\ UNCHANGED monVars /\ UNCHANGED <<head, tip, curr, pushed>>
          /\ feed' = "invalid" \/ feed' = feed
      BY <1>4 DEF PushInvalidBlock, vars, feedVars, monVars
    <2>4. IndInv'
      BY <2>1 DEF monVars, IndInv, ConfirmedIsBuried
    <2>5. WindowInv'
      BY <2>1, ViewStutters DEF monVars
    <2>6. FeedInv'
      BY <2>1 DEF FeedInv, monVars
    <2> QED BY <2>4, <2>5, <2>6
  <1>5. CASE PushNewBlockFails
    <2>1. UNCHANGED keptVars /\ UNCHANGED <<head, tip, curr, pushed>> /\ feed' = "failed"
      BY <1>5, FailureLeaves DEF PushNewBlockFails
    <2>2. IndInv'
      BY <2>1 DEF keptVars, IndInv, ConfirmedIsBuried
    <2>3. WindowInv'
      BY <2>1, ViewStutters DEF keptVars
    <2>4. FeedInv'
      BY <2>1 DEF FeedInv, keptVars
    <2> QED BY <2>2, <2>3, <2>4
  <1> QED BY <1>1, <1>2, <1>3, <1>4, <1>5 DEF FeedNext, TryPushNewBlock

\* The feed starts with the invariants.
LEMMA FeedInitInv ==
    ASSUME FeedInit
    PROVE  IndInv /\ WindowInv /\ FeedInv
  <1>1. Init /\ tip \in Blocks /\ NumberOf[tip] = head /\ curr = StartBlk /\ pushed = NoBlock
    BY DEF FeedInit
  <1>2. phase = "BootstrapI" /\ Chk!IsEmpty(chkpt)
    BY <1>1 DEF Init, Chk!EmptyChkpt, Chk!IsEmpty
  <1> QED BY <1>1, <1>2, InitInv, InitWindow DEF FeedInv
-----------------------------------------------------------------------------
(***************************************************************************)
(* The plan of the bootstrap.                                              *)
(***************************************************************************)
\* A multiple of a rounded quotient is not above the number.
LEMMA Rounded ==
    ASSUME NEW x \in Nat, NEW i, i = x \div ChkptSize,
           NEW j, j = IF i > 2 THEN i - 2 ELSE 0
    PROVE  j \in Nat /\ j * ChkptSize \in Nat /\ j * ChkptSize <= x
  <1>1. i \in Nat /\ i * ChkptSize <= x
    OBVIOUS
  <1>2. j \in Nat /\ j <= i
    BY <1>1
  <1>3. j * ChkptSize <= i * ChkptSize /\ j * ChkptSize \in Nat
    BY <1>1, <1>2
  <1>4. i * ChkptSize \in Nat
    BY <1>1
  <1> QED BY <1>1, <1>2, <1>3, <1>4

\* CalcBootstrapIEndBlkNum ends bootstrap I with a window, also when its unsigned
\* subtraction wraps around because the chain is shorter than the first block.
LEMMA PlanEndsWindow ==
    ASSUME NEW latest \in Nat, latest < Word
    PROVE  EndsWindow(CalcBootstrapIEndBlkNum(latest))
  <1> DEFINE x == (latest - StartBlk + 1) % Word
             i == x \div ChkptSize
             j == IF i > 2 THEN i - 2 ELSE 0
             y == StartBlk + j * ChkptSize - 1
  <1>0. Word \in Nat /\ Word > 0 /\ StartBlk < Word /\ StartBlk \in Nat \ {0}
    BY FeedAssumption
  <1>1. /\ x \in Nat
        /\ \/ x = latest - StartBlk + 1
           \/ x = latest - StartBlk + 1 + Word /\ latest < StartBlk
    <2>1. CASE latest - StartBlk + 1 >= 0
      BY <1>0, <2>1
    <2>2. CASE latest - StartBlk + 1 < 0
      <3>1. latest - StartBlk + 1 + Word \in 0..(Word - 1)
        BY <1>0, <2>2
      <3>2. (latest - StartBlk + 1) % Word = latest - StartBlk + 1 + Word
        BY <1>0, <3>1
      <3> QED BY <3>1, <3>2, <2>2, <1>0
    <2> QED BY <1>0, <2>1, <2>2
  <1>2. j \in Nat /\ j * ChkptSize \in Nat /\ j * ChkptSize <= x
    <2> HIDE DEF x
    <2> QED BY <1>1, Rounded
  <1>3. CalcBootstrapIEndBlkNum(latest) = y % Word
    BY FeedAssumption DEF CalcBootstrapIEndBlkNum
  <1> HIDE DEF x, j
  <1> DEFINE z == j * ChkptSize
  <1>4. z \in Nat /\ z <= x /\ y = StartBlk + z - 1 /\ y \in Nat
    BY <1>0, <1>2
  <1> HIDE DEF z, y
  <1>5. CASE y < Word
    <2>1. y % Word = y
      BY <1>0, <1>4, <1>5
    <2>2. y = StartBlk - 1 + j * ChkptSize
      BY <1>0, <1>4 DEF z
    <2> QED BY <1>2, <1>3, <2>1, <2>2 DEF EndsWindow
  <1>6. CASE y >= Word
    <2>1. y <= latest + Word /\ latest < StartBlk
      BY <1>0, <1>1, <1>4, <1>6
    <2>2. y - Word \in 0..(Word - 1)
      BY <1>0, <1>4, <1>6, <2>1
    <2>3. y % Word = y - Word
      BY <1>0, <1>4, <2>2
    <2>4. y - Word < StartBlk
      BY <1>0, <1>4, <2>1
    <2> QED BY <1>3, <2>3, <2>4 DEF EndsWindow
  <1> QED BY <1>0, <1>4, <1>5, <1>6

\* Two multiples of the checkpoint size that are at most one window apart.
LEMMA OneWindow ==
    ASSUME NEW i \in Nat, NEW j \in Nat, NEW d \in 1..ChkptSize,
           i * ChkptSize + d = j * ChkptSize
    PROVE  d = ChkptSize
  <1>1. i * ChkptSize \in Nat /\ j * ChkptSize \in Nat
    OBVIOUS
  <1>2. CASE j <= i
    <2>1. j * ChkptSize <= i * ChkptSize
      BY <1>2
    <2> QED BY <1>1, <2>1
  <1>3. CASE j = i + 1
    <2>1. j * ChkptSize = i * ChkptSize + ChkptSize
      BY <1>3
    <2> QED BY <1>1, <2>1
  <1>4. CASE j >= i + 2
    <2>1. (i + 2) * ChkptSize <= j * ChkptSize /\ (i + 2) * ChkptSize = i * ChkptSize + 2 * ChkptSize
      BY <1>4
    <2> QED BY <1>1, <2>1
  <1> QED BY <1>2, <1>3, <1>4

\* A header that completes a window leaves the candidates empty, as the end of
\* bootstrap I demands.
LEMMA CompletedWindow ==
    ASSUME NEW k, Managed(k), k.last = Chk!None, Chk!HeaderCompletes(k), NEW h \in Blocks
    PROVE  CanEndBootstrap(Chk!AfterAddHeader(k, h))
  <1> DEFINE e == Append(k.cand, h)
             added == [k EXCEPT !.cand = Append(k.cand, h)]
             full == [added EXCEPT !.curr = added.cand, !.cand = <<>>]
  <1>1. k \in Managers /\ k.cand \in Seq(Blocks)
    BY DEF Managed, Managers
  <1>2. e # <<>> /\ Len(e) = Len(k.cand) + 1 /\ e \in Seq(Blocks) /\ Len(k.cand) \in Nat
    <2>1. \A s \in Seq(Blocks) : /\ Append(s, h) # <<>> /\ Append(s, h) \in Seq(Blocks)
                                 /\ Len(Append(s, h)) = Len(s) + 1 /\ Len(s) \in Nat
      OBVIOUS
    <2> QED BY <1>1, <2>1
  <1> HIDE DEF e
  <1>3. added \in Managers /\ added.cand = e /\ added.last = Chk!None
    BY <1>1, <1>2 DEF Managers, e
  <1>4. Chk!GetNumOfCandidates(k) = Len(k.cand) /\ Chk!GetNumOfCandidates(added) = Len(e)
    <2> HIDE DEF added
    <2> QED BY <1>2, <1>3 DEF Chk!GetNumOfCandidates
  <1>5. Chk!Completes(Chk!GetNumOfCandidates(added))
    BY <1>2, <1>4 DEF Chk!HeaderCompletes
  <1>6. Chk!AfterAddHeader(k, h) = full
    BY <1>5 DEF Chk!AfterAddHeader
  <1>7. full.cand = <<>> /\ full.curr = e
    BY <1>3 DEF Managers
  <1> HIDE DEF full
  <1> QED BY <1>2, <1>6, <1>7 DEF CanEndBootstrap

\* However the chain grew since the plan was made, the block that ends bootstrap I
\* completes a window.
LEMMA BootstrapPlan ==
    ASSUME IndInv, WindowInv, FeedInv, PlanInv, NEW b \in Blocks, NEW syncMsg,
           UpdateOnBootstrapI(b, syncMsg)
    PROVE  PlanInv'
  <1> DEFINE k == Chk!AfterAddHeader(chkpt, b)
             plan == PlanAfter(NumberOf[b])
             c == Checkpoint
             d == Chk!GetNumOfCandidates(chkpt)
             n == NumberOf[b]
             i == secState.checkpointIter
  <1>1. /\ phase = "BootstrapI" /\ ValidOnBootstrapI(b) /\ bootEnd' = plan.end
        /\ secState' = IF Chk!HeaderCompletes(chkpt) THEN OnCheckpointComplete(k) ELSE secState
        /\ \/ fault' = fault
           \/ n = plan.end /\ ~CanEndBootstrap(k)
    BY DEF UpdateOnBootstrapI
  <1>2. Managed(chkpt) /\ chkpt.last = Chk!None
    BY <1>1 DEF IndInv
  <1>3. /\ d \in Nat /\ n = c + d + 1 /\ d < ChkptSize /\ n \in Nat /\ i \in Nat
        /\ c = StartBlk - 1 + i * ChkptSize /\ i * ChkptSize \in Nat
    <2>1. d \in Nat /\ n = c + d + 1
      BY <1>1, BootstrapNumber
    <2>2. d < ChkptSize /\ i \in Nat
      BY DEF WindowInv, Windows
    <2>3. c = StartBlk - 1 + i * ChkptSize
      BY <1>1 DEF PlanInv
    <2>4. i * ChkptSize \in Nat
      BY <2>2
    <2> QED BY <2>1, <2>2, <2>3, <2>4
  <1>4. Chk!HeaderCompletes(chkpt) <=> d + 1 >= ChkptSize
    BY DEF Chk!HeaderCompletes, Chk!Completes
  <1>5. EndsWindow(plan.end)
    <2>1. head \in Nat /\ head < Word
      BY FeedAssumption DEF FeedInv
    <2>2. plan.end = CalcBootstrapIEndBlkNum(head) \/ plan.end = bootEnd
      BY <1>1 DEF PlanAfter
    <2> QED BY <1>1, <2>1, <2>2, PlanEndsWindow DEF PlanInv
  <1>6. Chk!GetLastHeader(k) = b
    BY <1>2, AddHeaderNewest
  <1>7. Checkpoint' = StartBlk - 1 + secState'.checkpointIter * ChkptSize
    <2>1. CASE Chk!HeaderCompletes(chkpt)
      <3>1. secState' = [checkpointNum |-> n, checkpointIter |-> i + 1]
        BY <1>1, <1>6, <2>1 DEF OnCheckpointComplete
      <3>2. Checkpoint' = n /\ secState'.checkpointIter = i + 1
        BY <1>3, <3>1 DEF Checkpoint, NoneYet
      <3> HIDE DEF n, c, d, i
      <3>3. (i + 1) * ChkptSize = i * ChkptSize + ChkptSize
        BY <1>3
      <3> QED BY <1>3, <1>4, <2>1, <3>2, <3>3
    <2>2. CASE ~Chk!HeaderCompletes(chkpt)
      BY <1>1, <1>3, <2>2 DEF Checkpoint, NoneYet
    <2> QED BY <2>1, <2>2
  <1>8. n = plan.end => CanEndBootstrap(k)
    <2> SUFFICES ASSUME n = plan.end PROVE CanEndBootstrap(k)
      OBVIOUS
    <2>1. n < StartBlk \/ \E j \in Nat : n = StartBlk - 1 + j * ChkptSize
      BY <1>5 DEF EndsWindow
    <2> HIDE DEF n, c, d, i
    <2>2. ~(n < StartBlk)
      BY <1>3
    <2>3. PICK j \in Nat : n = StartBlk - 1 + j * ChkptSize
      BY <2>1, <2>2
    <2>4. j * ChkptSize \in Nat
      OBVIOUS
    <2>5. i * ChkptSize + (d + 1) = j * ChkptSize /\ d + 1 \in 1..ChkptSize
      BY <1>3, <2>3, <2>4
    <2>6. d + 1 = ChkptSize
      BY <1>3, <2>5, OneWindow
    <2>7. Chk!HeaderCompletes(chkpt)
      BY <1>4, <2>6
    <2> QED BY <1>2, <2>7, CompletedWindow
  <1>9. fault' = "none"
    BY <1>1, <1>8 DEF PlanInv
  <1> QED BY <1>1, <1>5, <1>7, <1>9 DEF PlanInv

\* Every step of the feed keeps the plan, and nothing throws.
LEMMA FeedNextPlan ==
    ASSUME IndInv, WindowInv, FeedInv, PlanInv, [FeedNext]_<<vars, feedVars>>
    PROVE  PlanInv'
  <1>1. CASE UNCHANGED monVars
    BY <1>1 DEF PlanInv, Checkpoint, NoneYet, monVars
  <1>2. CASE PushNewBlock
    <2> DEFINE b == Fetched(curr)
    <2>1. CanFetch /\ Update(b)
      BY <1>2 DEF PushNewBlock
    <2>2. b \in Blocks /\ NumberOf[b] = curr /\ feed = "running"
      BY <2>1, FetchedBlock DEF CanFetch
    <2> HIDE DEF b
    <2>3. CASE \E syncMsg \in SyncMsgs : UpdateOnBootstrapI(b, syncMsg)
      BY <2>2, <2>3, BootstrapPlan
    <2>4. CASE \E syncMsg \in SyncMsgs : AcceptBlock(b, syncMsg)
      <3>1. phase' # "BootstrapI" /\ fault' = fault
        BY <2>2, <2>4, AcceptOnPath
      <3> QED BY <3>1 DEF PlanInv
    <2>5. CASE RejectBlock(b)
      <3>1. phase' # "BootstrapI" /\ fault' = fault
        BY <2>2, <2>5, RejectOnPath
      <3> QED BY <3>1 DEF PlanInv
    <2>6. CASE ReadFreedParent(b)
      BY <2>2, <2>6, NeverReadFreed
    <2> QED BY <2>1, <2>3, <2>4, <2>5, <2>6 DEF Update
  <1>3. CASE PushNewBlockFails
    BY <1>3, FailureLeaves DEF PlanInv, Checkpoint, NoneYet, keptVars
  <1> QED BY <1>1, <1>2, <1>3
        DEF FeedNext, TryPushNewBlock, GethGrows, GethReorganises, PushInvalidBlock, vars, monVars

\* The feed starts with a plan.
LEMMA FeedInitPlan ==
    ASSUME FeedInit
    PROVE  PlanInv
  <1>1. Init /\ tip \in Blocks /\ NumberOf[tip] = head
    BY DEF FeedInit
  <1>2. EndsWindow(bootEnd)
    <2>1. head \in Nat /\ head < Word /\ bootEnd = CalcBootstrapIEndBlkNum(head)
      BY <1>1, FeedAssumption DEF Init
    <2> QED BY <2>1, PlanEndsWindow
  <1>3. secState.checkpointIter = 0 /\ fault = "none"
    BY <1>1 DEF Init
  <1>4. Checkpoint = StartBlk - 1 + secState.checkpointIter * ChkptSize
    BY <1>3 DEF Checkpoint, NoneYet
  <1> QED BY <1>2, <1>3, <1>4 DEF PlanInv

\* However Geth's chain grows and is reorganised, and wherever the task ends: the tree
\* that the feed makes is one branch, no pointer of the two maps outlives its node, and
\* the plan of the bootstrap always ends with a window, so that its end never throws.
THEOREM FeedAlwaysInv == FeedSpec => [](IndInv /\ WindowInv /\ FeedInv /\ PlanInv)
  <1>1. FeedInit => IndInv /\ WindowInv /\ FeedInv /\ PlanInv
    BY FeedInitInv, FeedInitPlan
  <1>2. IndInv /\ WindowInv /\ FeedInv /\ PlanInv /\ [FeedNext]_<<vars, feedVars>>
          => (IndInv /\ WindowInv /\ FeedInv /\ PlanInv)'
    BY FeedNextInv, FeedNextPlan
  <1> QED BY <1>1, <1>2, PTL DEF FeedSpec

\* Behind the host's feed no freed node is ever read, neither as a parent found through
\* the maps nor by the loop over the active nodes.
THEOREM FeedNeverReadsFreed == FeedSpec => []NoFreedNodeRead
  <1>1. PlanInv => NoFreedNodeRead
    BY DEF PlanInv, NoFreedNodeRead
  <1> QED BY <1>1, FeedAlwaysInv, PTL

\* The implementation of CheckpointWindow does not depend on how the chain length that
\* the host reports moves: behind the feed, too, the confirmed headers arrive at the
\* checkpoint one number after another, reorganisations or not.
THEOREM FeedImplementsWindow == FeedSpec => ImplementsWindow
  <1>1. ASSUME IndInv, WindowInv, FeedInv, [FeedNext]_<<vars, feedVars>>
        PROVE  [Window!Arrive]_view
    <2>1. CASE UNCHANGED monVars
      BY <1>1, <2>1, ViewStutters DEF monVars
    <2>2. CASE PushNewBlock
      <3>1. CanFetch /\ Update(Fetched(curr))
        BY <2>2 DEF PushNewBlock
      <3> QED BY <1>1, <3>1, FetchedBlock, UpdateArrives
    <2>3. CASE PushNewBlockFails
      BY <1>1, <2>3, FailureLeaves, ViewStutters DEF keptVars
    <2> QED BY <1>1, <2>1, <2>2, <2>3
          DEF FeedNext, TryPushNewBlock, GethGrows, GethReorganises, PushInvalidBlock, vars, monVars
  <1>2. FeedInit => Window!Init
    BY InitWindow DEF FeedInit
  <1> QED BY <1>1, <1>2, FeedAlwaysInv, PTL DEF FeedSpec, ImplementsWindow, Window!Spec, view

\* A block without a known parent leaves the monitor without a known parent for every
\* later one.
LEMMA StaysDetached ==
    ASSUME IndInv, FeedInv, [FeedNext]_<<vars, feedVars>>, Detached
    PROVE  Detached'
  <1>1. CASE UNCHANGED <<phase, nodes, pushed>>
    BY <1>1 DEF Detached
  <1>2. CASE PushNewBlock
    <2> DEFINE b == Fetched(curr)
    <2>1. CanFetch /\ Update(b) /\ pushed' = b
      BY <1>2 DEF PushNewBlock
    <2>2. b \in Blocks /\ NumberOf[b] = curr /\ feed = "running"
      BY <2>1, FetchedBlock DEF CanFetch
    <2> HIDE DEF b
    <2>3. phase # "BootstrapI" /\ \A i \in DOMAIN nodes : nodes[i].hdr # pushed
      BY DEF Detached
    <2>4. ASSUME NEW syncMsg, AcceptBlock(b, syncMsg) PROVE FALSE
      <3> DEFINE p == ParentOf[b]
                 i == NodeOf(p)
      <3>1. p \in Known /\ i \in DOMAIN nodes
        BY <2>4 DEF AcceptBlock
      <3>2. nodes[i].hdr = p
        BY <2>3, <3>1, KnownIsNode DEF FeedInv
      <3>3. /\ OnPath(nodes, pushed) /\ pushed \in Blocks /\ NumberOf[pushed] = curr - 1
            /\ curr \in Nat /\ NumberOf[pushed] \in Nat
        BY <2>2, <2>3 DEF FeedInv
      <3>4. nodes[i].hdr \in Blocks
        BY <2>3, <3>1 DEF IndInv, Consistent, Tree
      <3>5. p \in Blocks /\ p # 0
        BY <3>2, <3>4
      <3>6. NumberOf[b] = NumberOf[p] + 1 /\ NumberOf[p] \in Nat
        BY <2>2, <3>5
      <3> HIDE DEF p, i
      <3>7. NumberOf[p] < NumberOf[pushed]
        BY <2>3, <3>1, <3>2, <3>3 DEF OnPath
      <3> QED BY <2>2, <3>3, <3>6, <3>7
    <2>5. RejectBlock(b)
      <3>1. ~ReadFreedParent(b)
        BY <2>2, NeverReadFreed
      <3> QED BY <2>1, <2>3, <2>4, <3>1 DEF Update, UpdateOnBootstrapI
    <2>6. phase' # "BootstrapI" /\ \A i \in DOMAIN nodes' : nodes'[i].hdr # b
      BY <2>2, <2>5, RejectOnPath
    <2> QED BY <2>1, <2>6 DEF Detached
  <1>3. PushNewBlockFails => UNCHANGED <<phase, nodes, pushed>>
    BY FailureLeaves DEF PushNewBlockFails, keptVars
  <1> QED BY <1>1, <1>2, <1>3
        DEF FeedNext, TryPushNewBlock, GethGrows, GethReorganises, PushInvalidBlock, vars,
            feedVars, monVars

\* The feed never repairs itself, not even when Geth returns to the branch that the
\* monitor knows.
THEOREM FeedNeverReattaches == FeedSpec => NeverReattached
  <1>1. IndInv /\ WindowInv /\ FeedInv /\ PlanInv /\ [FeedNext]_<<vars, feedVars>>
          => [Detached => Detached']_<<vars, feedVars>>
    BY StaysDetached
  <1> QED BY <1>1, FeedAlwaysInv, PTL DEF FeedSpec, NeverReattached

\* A block that extends the last one handed over is valid in bootstrap I and found its
\* parent after it: the next one finds this one.
LEMMA HandOverUnbroken ==
    ASSUME ParisBlk <= StartBlk, IndInv, FeedInv, UnbrokenInv, CanFetch, ~replaced,
           Update(Fetched(curr)), IndInv', phase' # "BootstrapI"
    PROVE  Fetched(curr) \in Known'
  <1> DEFINE b == Fetched(curr)
  <1>1. b \in Blocks /\ NumberOf[b] = curr /\ feed = "running" /\ curr \in Nat /\ curr >= StartBlk
    BY FetchedBlock DEF CanFetch, FeedInv
  <1>2. phase # "BootstrapI" => ParentOf[b] \in Known
    <2> SUFFICES ASSUME phase # "BootstrapI" PROVE ParentOf[b] \in Known
      OBVIOUS
    <2>1. pushed # NoBlock
      BY DEF FeedInv
    <2>2. pushed \in Chain[tip] /\ pushed \in Known
      BY <2>1 DEF UnbrokenInv
    <2>3. ParentOf[b] = pushed
      BY <2>1, <2>2, FetchedExtends
    <2> QED BY <2>2, <2>3
  <1>3. Update(b)
    OBVIOUS
  <1>4. ~Checkable(NumberOf[b]) /\ ~Checkable(NumberOf[b] + 1)
    BY <1>1 DEF Checkable
  <1> SUFFICES b \in Known'
    OBVIOUS
  <1> HIDE DEF b
  <1>5. CASE \E syncMsg \in SyncMsgs : UpdateOnBootstrapI(b, syncMsg)
    BY <1>1, <1>5, BootstrapOnPath
  <1>6. CASE \E syncMsg \in SyncMsgs : AcceptBlock(b, syncMsg)
    <2>1. fresh \in DOMAIN nodes' /\ nodes'[fresh].hdr = b /\ nodes'[fresh].parent # NoParent
      BY <1>1, <1>6, AcceptOnPath
    <2>2. AllKnown(nodes', maps')
      BY DEF IndInv, Consistent
    <2> QED BY <1>4, <2>1, <2>2 DEF AllKnown, Known
  <1>7. CASE RejectBlock(b)
    BY <1>2, <1>4, <1>7 DEF RejectBlock
  <1>8. CASE ReadFreedParent(b)
    BY <1>1, <1>8, NeverReadFreed
  <1> QED BY <1>3, <1>5, <1>6, <1>7, <1>8 DEF Update

\* While Geth takes nothing back, the block fetched next is valid in bootstrap I.
LEMMA FetchedIsValid ==
    ASSUME FeedInv, UnbrokenInv, CanFetch, ~replaced, phase = "BootstrapI"
    PROVE  ValidOnBootstrapI(Fetched(curr))
  <1>1. CASE pushed = NoBlock
    <2>1. Chk!IsEmpty(chkpt) /\ curr = StartBlk
      BY <1>1 DEF FeedInv
    <2> QED BY <2>1, FetchedBlock DEF ValidOnBootstrapI
  <1>2. CASE pushed # NoBlock
    <2>1. ~Chk!IsEmpty(chkpt) /\ Chk!GetLastHeader(chkpt) = pushed
      BY <1>2 DEF FeedInv
    <2>2. ParentOf[Fetched(curr)] = pushed
      BY <1>2, FetchedExtends DEF UnbrokenInv
    <2> QED BY <2>1, <2>2 DEF ValidOnBootstrapI, CommonValidate
  <1> QED BY <1>1, <1>2

\* Every step of the feed keeps the chain of the blocks handed over unbroken, unless
\* Geth takes one back.
LEMMA FeedNextUnbroken ==
    ASSUME ParisBlk <= StartBlk, IndInv, FeedInv, UnbrokenInv, IndInv',
           [FeedNext]_<<vars, feedVars>>
    PROVE  UnbrokenInv'
  <1> SUFFICES ASSUME ~replaced'
               PROVE  /\ feed' # "invalid"
                      /\ pushed' # NoBlock => pushed' \in Chain[tip']
                      /\ phase' # "BootstrapI" => pushed' \in Known'
    BY DEF UnbrokenInv
  <1>1. CASE GethGrows
    <2>1. PICK b \in Blocks : ParentOf[b] = tip /\ tip' = b
      BY <1>1 DEF GethGrows
    <2>2. UNCHANGED <<phase, maps, feed, pushed, replaced>>
      BY <1>1 DEF GethGrows, monVars
    <2>3. Chain[b] = {b} \cup Chain[tip]
      <3>1. tip # NoBlock
        BY DEF FeedInv, NoBlock
      <3> QED BY <2>1, <3>1, ChainStep
    <2>4. Known' = Known
      BY <2>2 DEF Known
    <2> QED BY <2>1, <2>2, <2>3, <2>4 DEF UnbrokenInv
  <1>2. CASE GethReorganises
    <2>1. PICK b \in Blocks :
             tip' = b /\ replaced' = (replaced \/ (pushed # NoBlock /\ pushed \notin Chain[b]))
      BY <1>2 DEF GethReorganises
    <2>2. UNCHANGED <<phase, maps, feed, pushed>>
      BY <1>2 DEF GethReorganises, monVars
    <2>3. ~replaced /\ (pushed # NoBlock => pushed \in Chain[b])
      BY <2>1
    <2>4. Known' = Known
      BY <2>2 DEF Known
    <2> QED BY <2>1, <2>2, <2>3, <2>4 DEF UnbrokenInv
  <1>3. CASE PushNewBlock
    <2>1. /\ CanFetch /\ Update(Fetched(curr)) /\ pushed' = Fetched(curr)
          /\ UNCHANGED <<tip, replaced>>
          /\ feed' \in {feed, "failed"}
      BY <1>3 DEF PushNewBlock
    <2>2. feed' # "invalid"
      BY <2>1 DEF CanFetch
    <2>3. pushed' \in Chain[tip']
      BY <2>1, FetchedBlock
    <2>4. phase' # "BootstrapI" => pushed' \in Known'
      BY <2>1, HandOverUnbroken
    <2> QED BY <2>2, <2>3, <2>4
  <1>4. CASE PushInvalidBlock
    <2>1. CanFetch /\ phase = "BootstrapI" /\ ~ValidOnBootstrapI(Fetched(curr)) /\ ~replaced
      BY <1>4 DEF PushInvalidBlock
    <2> QED BY <2>1, FetchedIsValid
  <1>5. CASE UNCHANGED <<vars, feedVars>>
    BY <1>5 DEF vars, feedVars, UnbrokenInv, Known
  <1>6. CASE PushNewBlockFails
    <2>1. UNCHANGED <<phase, maps, tip, pushed, replaced>> /\ feed' = "failed"
      BY <1>6, FailureLeaves DEF PushNewBlockFails, keptVars
    <2>2. Known' = Known
      BY <2>1 DEF Known
    <2> QED BY <2>1, <2>2 DEF UnbrokenInv
  <1> QED BY <1>1, <1>2, <1>3, <1>4, <1>5, <1>6 DEF FeedNext, TryPushNewBlock

\* With a first block that is proof of stake, the blocks handed over stay one unbroken
\* chain that ends on Geth's, unless Geth takes one back.
LEMMA FeedAlwaysUnbroken ==
    ASSUME ParisBlk <= StartBlk
    PROVE  FeedSpec => []UnbrokenInv
  <1>1. FeedInit => UnbrokenInv
    BY DEF FeedInit, Init, UnbrokenInv
  <1>2. IndInv /\ FeedInv /\ UnbrokenInv /\ IndInv' /\ [FeedNext]_<<vars, feedVars>>
          => UnbrokenInv'
    BY FeedNextUnbroken
  <1> QED BY <1>1, <1>2, FeedAlwaysInv, PTL DEF FeedSpec

\* With a first block that is proof of stake: as long as Geth takes nothing back, the
\* monitor takes every block and the end of bootstrap I does not throw. Only a
\* reorganisation under the feed loses the chain.
THEOREM FeedLostOnlyByReorg ==
    ASSUME ParisBlk <= StartBlk
    PROVE  FeedSpec => []LostOnlyByReorg
  <1>1. FeedSpec => []UnbrokenInv
    BY FeedAlwaysUnbroken
  <1>2. IndInv /\ FeedInv /\ PlanInv /\ UnbrokenInv => LostOnlyByReorg
    <2> SUFFICES ASSUME IndInv, FeedInv, PlanInv, UnbrokenInv, ~replaced
                 PROVE  ~Detached /\ feed # "invalid" /\ fault # "throw"
      BY DEF LostOnlyByReorg
    <2>1. feed # "invalid" /\ fault # "throw"
      BY DEF UnbrokenInv, PlanInv
    <2>2. phase # "BootstrapI" => \E i \in DOMAIN nodes : nodes[i].hdr = pushed
      BY KnownIsNode DEF UnbrokenInv, FeedInv
    <2> QED BY <2>1, <2>2 DEF Detached
  <1> QED BY <1>1, <1>2, FeedAlwaysInv, PTL
-----------------------------------------------------------------------------
(***************************************************************************)
(* How far confirmation stays behind the feed.                             *)
(***************************************************************************)
\* A path with more than ChkptSize + 1 nodes has a child to release; the release takes
\* one node away and moves the confirmed block one number on.
LEMMA ConfirmSize ==
    ASSUME NEW ns, NEW n \in Nat, NEW ms, NEW k, Consistent(ns, n, ms, k), k.last # Chk!None,
           Managed(k), NEW b, OnPath(ns, b)
    PROVE  /\ Cardinality(DOMAIN ns) \in Nat
           /\ \/ /\ Confirm(ns, ms, k).nodes = ns /\ Confirm(ns, ms, k).chkpt = k
                 /\ Cardinality(DOMAIN ns) <= ChkptSize + 1
              \/ /\ Cardinality(DOMAIN Confirm(ns, ms, k).nodes) = Cardinality(DOMAIN ns) - 1
                 /\ NumberOf[Confirm(ns, ms, k).chkpt.last] = NumberOf[k.last] + 1
  <1> DEFINE r == Root(ns)
             D == DOMAIN ns
             s == Cardinality(D)
  <1>1. /\ Tree(ns, n) /\ CountsExact(ns) /\ r \in D /\ ns[r].parent = NoParent /\ r # NoParent
        /\ \A i \in D : ns[i].parent = NoParent => i = r
    <2>1. Tree(ns, n) /\ CountsExact(ns)
      BY DEF Consistent
    <2>2. r \in D
      BY <2>1, RootOfTree
    <2> HIDE DEF r
    <2>3. r # NoParent
      BY <2>1, <2>2 DEF Tree, NoParent
    <2> QED BY <2>1, <2>3, RootOfTree DEF r
  <1>2. IsFiniteSet(D) /\ s \in Nat
    BY <1>1, SubtreeFinite, FS_CardinalityType
  <1>3. ASSUME NEW c \in D, ns[c].parent = r
        PROVE  Subtree(ns, c) = D \ {r} /\ Cardinality(D \ {r}) = s - 1 /\ ns[c].desc = s - 2
    <2>1. Subtree(ns, c) = D \ {r}
      BY <1>1, <1>3, PathSurvivors
    <2>2. Cardinality(D \ {r}) = s - 1
      BY <1>1, <1>2, FS_RemoveElement
    <2>3. ns[c].desc = Cardinality(Subtree(ns, c)) - 1
      BY <1>1, <1>3 DEF CountsExact
    <2> HIDE DEF s
    <2> QED BY <1>2, <2>1, <2>2, <2>3
  <1>4. CASE Confirmable(ns) = {}
    <2>1. Confirm(ns, ms, k).nodes = ns /\ Confirm(ns, ms, k).chkpt = k
      BY <1>4 DEF Confirm
    <2>2. ASSUME s > ChkptSize + 1 PROVE FALSE
      <3>1. PICK c \in D : ns[c].parent = r
        <4> SUFFICES ASSUME \A c \in D : ns[c].parent # r PROVE FALSE
          OBVIOUS
        <4> DEFINE G == {r}
        <4>1. \A i \in D : ns[i].parent = NoParent \/ ns[i].parent \in G => i \in G
          BY <1>1
        <4>2. \A i \in D : i \in G
          <5> HIDE DEF G, r
          <5> QED BY <1>1, <4>1, TreeInduction
        <4>3. D = {r}
          BY <1>1, <4>2
        <4>4. s = 1
          BY <4>3, FS_Singleton
        <4> HIDE DEF s
        <4> QED BY <2>2, <4>4
      <3>2. ns[c].desc = s - 2
        BY <1>3, <3>1
      <3> HIDE DEF s
      <3>3. EnoughDesc(ns[c].desc)
        BY <1>2, <2>2, <3>2 DEF EnoughDesc
      <3> QED BY <1>4, <3>1, <3>3 DEF Confirmable
    <2> HIDE DEF s
    <2>3. s <= ChkptSize + 1
      BY <1>2, <2>2
    <2> QED BY <1>2, <2>1, <2>3 DEF s
  <1>5. CASE Confirmable(ns) # {}
    <2> DEFINE c == Min(Confirmable(ns))
    <2>1. c \in D /\ ns[c].parent = r
      <3>1. Confirmable(ns) \in SUBSET Nat
        BY <1>1 DEF Confirmable, Tree
      <3>2. c \in Confirmable(ns)
        BY <1>5, <3>1, MinIsOne
      <3> QED BY <3>2 DEF Confirmable
    <2>2. Confirm(ns, ms, k).nodes = ReleaseChild(ns, c)
      BY <1>5 DEF Confirm
    <2> HIDE DEF c
    <2>3. DOMAIN ReleaseChild(ns, c) = D \ {r}
      <3> DEFINE new == ReleaseChild(ns, c)
      <3>1. Cut(new, ns, c) /\ Subtree(ns, c) = D \ {r}
        BY <1>1, <1>3, <2>1, ReleaseNodes
      <3> HIDE DEF new
      <3>2. DOMAIN new = D \ {r}
        BY <3>1 DEF Cut
      <3> QED BY <3>2 DEF new
    <2>4. Cardinality(D \ {r}) = s - 1
      BY <1>3, <2>1
    <2>5. PICK h \in Blocks :
             ParentOf[h] = k.last /\ Confirm(ns, ms, k).chkpt = Chk!AfterAddNode(k, h)
      BY <1>5, ConfirmedHeader
    <2>6. Chk!AfterAddNode(k, h).last = h
      BY <2>5, AddNodeManaged
    <2>7. NumberOf[h] = NumberOf[k.last] + 1
      BY <2>5 DEF Chk!None
    <2> QED BY <1>2, <2>2, <2>3, <2>4, <2>5, <2>6, <2>7
  <1> QED BY <1>4, <1>5

\* The maintenance after a block brings the confirmed block up to the tree.
LEMMA MaintenanceKeeps ==
    ASSUME NEW ns, NEW n \in Nat, NEW ms, Consistent(ns, n, ms, chkpt), chkpt.last # Chk!None,
           Managed(chkpt), NEW b, OnPath(ns, b), LiveMaps(ms, ns),
           RuntimeMaintenance(ns, ms, chkpt),
           Cardinality(DOMAIN ns) <= ChkptSize + 2,
           \A i \in DOMAIN ns :
              NumberOf[ns[i].hdr] < NumberOf[chkpt.last] + Cardinality(DOMAIN ns)
    PROVE  Keeps(nodes', chkpt')
  <1> DEFINE s == Cardinality(DOMAIN ns)
             t == Cardinality(DOMAIN nodes')
             l == NumberOf[chkpt.last]
  <1>1. nodes' = Confirm(ns, ms, chkpt).nodes /\ chkpt' = Confirm(ns, ms, chkpt).chkpt
    BY DEF RuntimeMaintenance
  <1>2. /\ s \in Nat
        /\ \/ nodes' = ns /\ chkpt' = chkpt /\ s <= ChkptSize + 1
           \/ t = s - 1 /\ NumberOf[chkpt'.last] = l + 1
    BY <1>1, ConfirmSize
  <1>3. Shortened(nodes', ns)
    BY MaintenanceOnPath
  <1>4. CASE nodes' = ns /\ chkpt' = chkpt /\ s <= ChkptSize + 1
    BY <1>4 DEF Keeps
  <1>5. CASE t = s - 1 /\ NumberOf[chkpt'.last] = l + 1
    <2>1. l \in Nat
      BY DEF Managed, Chk!None
    <2>2. \A i \in DOMAIN nodes' : NumberOf[nodes'[i].hdr] < l + s
      BY <1>3 DEF Shortened
    <2> HIDE DEF l, s
    <2>3. l + s = (l + 1) + (s - 1) /\ s - 1 <= ChkptSize + 1
      BY <1>2, <2>1 DEF s
    <2>4. /\ t <= ChkptSize + 1
          /\ \A i \in DOMAIN nodes' : NumberOf[nodes'[i].hdr] < NumberOf[chkpt'.last] + t
      <3> HIDE DEF t
      <3> QED BY <1>5, <2>2, <2>3
    <2> QED BY <2>4 DEF Keeps
  <1> QED BY <1>2, <1>4, <1>5

\* An accepted block is one more node on top, and confirms one below when they are too
\* many.
LEMMA AcceptKeeps ==
    ASSUME IndInv, FeedInv, LagInv, feed = "running", NEW b \in Blocks, NumberOf[b] = curr,
           NEW syncMsg, AcceptBlock(b, syncMsg)
    PROVE  Keeps(nodes', chkpt')
  <1> DEFINE p == NodeOf(ParentOf[b])
             ns == AddChild(nodes, p, b)
             ms == Registered(b)
             D == DOMAIN nodes
             s == Cardinality(D)
             l == NumberOf[chkpt.last]
  <1>1. /\ phase # "BootstrapI" /\ ParentOf[b] \in Known /\ p \in DOMAIN nodes
        /\ RuntimeMaintenance(ns, ms, chkpt)
    BY DEF AcceptBlock
  <1>2. fresh \in Nat /\ Managed(chkpt) /\ chkpt.last # Chk!None /\ Tree(nodes, fresh - 1)
    BY <1>1 DEF IndInv, Consistent
  <1>3. /\ Consistent(ns, fresh, ms, chkpt) /\ Grown(ns, nodes, p, b)
        /\ fresh \notin D /\ OnPath(ns, b) /\ LiveMaps(ms, ns)
    BY <1>1, LeafOnPath
  <1>4. nodes[p].hdr = ParentOf[b] /\ ParentOf[b] \in Blocks
    <2>1. nodes[p].hdr = ParentOf[b]
      BY <1>1, KnownIsNode DEF FeedInv
    <2> HIDE DEF p
    <2> QED BY <1>1, <1>2, <2>1 DEF Tree
  <1> HIDE DEF ns, ms, p
  <1>5. /\ DOMAIN ns = D \cup {fresh} /\ ns[fresh].hdr = b
        /\ \A i \in D : ns[i].hdr = nodes[i].hdr
    BY <1>3 DEF Grown
  <1>6. Cardinality(D \cup {fresh}) = s + 1 /\ s \in Nat
    <2>1. IsFiniteSet(D)
      <3>1. IsFiniteSet(1..(fresh - 1))
        BY <1>2, FS_Interval
      <3>2. D \subseteq 1..(fresh - 1)
        BY <1>2 DEF Tree
      <3> QED BY <3>1, <3>2, FS_Subset
    <2> HIDE DEF D
    <2> QED BY <1>3, <2>1, FS_AddElement, FS_CardinalityType
  <1>7. s <= ChkptSize + 1 /\ \A i \in D : NumberOf[nodes[i].hdr] < l + s
    BY <1>1 DEF LagInv, Keeps
  <1>8. /\ l \in Nat /\ NumberOf[b] = NumberOf[ParentOf[b]] + 1 /\ NumberOf[ParentOf[b]] \in Nat
        /\ NumberOf[ParentOf[b]] < l + s
        /\ \A i \in D : NumberOf[nodes[i].hdr] \in Nat
    <2>1. l \in Nat
      BY <1>2 DEF Managed, Chk!None
    <2>2. NumberOf[ParentOf[b]] < l + s
      BY <1>1, <1>4, <1>7
    <2>3. \A i \in D : NumberOf[nodes[i].hdr] \in Nat
      BY <1>2 DEF Tree
    <2>4. NumberOf[b] = NumberOf[ParentOf[b]] + 1 /\ NumberOf[ParentOf[b]] \in Nat
      BY <1>4
    <2> QED BY <2>1, <2>2, <2>3, <2>4
  <1> DEFINE t == Cardinality(DOMAIN ns)
  <1>9. t <= ChkptSize + 2 /\ \A i \in DOMAIN ns : NumberOf[ns[i].hdr] < l + t
    <2>1. t = s + 1
      BY <1>5, <1>6
    <2> HIDE DEF t, s, l, D
    <2>2. t <= ChkptSize + 2
      BY <1>6, <1>7, <2>1
    <2>3. ASSUME NEW i \in D PROVE NumberOf[ns[i].hdr] < l + t
      BY <1>5, <1>6, <1>7, <1>8, <2>1, <2>3
    <2>4. NumberOf[ns[fresh].hdr] < l + t
      BY <1>5, <1>6, <1>8, <2>1
    <2> QED BY <1>5, <2>2, <2>3, <2>4
  <1> QED BY <1>1, <1>2, <1>3, <1>9, MaintenanceKeeps

\* A rejected block may only confirm a header.
LEMMA RejectKeeps ==
    ASSUME IndInv, FeedInv, LagInv, NEW b \in Blocks, RejectBlock(b)
    PROVE  Keeps(nodes', chkpt')
  <1> DEFINE n == fresh - 1
  <1>1. phase # "BootstrapI" /\ RuntimeMaintenance(nodes, maps, chkpt)
    BY DEF RejectBlock
  <1>2. /\ n \in Nat /\ Consistent(nodes, n, maps, chkpt) /\ OnPath(nodes, pushed)
        /\ LiveMaps(maps, nodes) /\ Managed(chkpt) /\ chkpt.last # Chk!None
    BY <1>1 DEF IndInv, FeedInv
  <1> HIDE DEF n
  <1>3. /\ Cardinality(DOMAIN nodes) <= ChkptSize + 1
        /\ \A i \in DOMAIN nodes :
              NumberOf[nodes[i].hdr] < NumberOf[chkpt.last] + Cardinality(DOMAIN nodes)
    BY <1>1 DEF LagInv, Keeps
  <1>4. Cardinality(DOMAIN nodes) <= ChkptSize + 2
    <2>1. Cardinality(DOMAIN nodes) \in Nat
      BY <1>2, ConfirmSize
    <2> QED BY <1>3, <2>1
  <1> QED BY <1>1, <1>2, <1>3, <1>4, MaintenanceKeeps

\* The first root is the confirmed block itself.
LEMMA BootstrapKeeps ==
    ASSUME NEW b \in Blocks, NEW syncMsg, UpdateOnBootstrapI(b, syncMsg), IndInv',
           phase' # "BootstrapI"
    PROVE  Keeps(nodes', chkpt')
  <1>1. DOMAIN nodes' = {fresh} /\ nodes'[fresh].hdr = b
    BY DEF UpdateOnBootstrapI, EndBootstrapI
  <1>2. Tree(nodes', fresh' - 1) /\ nodes'[Root(nodes')].hdr = chkpt'.last
    BY DEF IndInv, Consistent
  <1>3. Root(nodes') \in DOMAIN nodes'
    BY <1>2, RootOfTree
  <1>4. chkpt'.last = b
    BY <1>1, <1>2, <1>3
  <1>5. Cardinality({fresh}) = 1
    BY FS_Singleton
  <1>6. NumberOf[b] < NumberOf[b] + 1 /\ 1 <= ChkptSize + 1
    OBVIOUS
  <1> QED BY <1>1, <1>4, <1>5, <1>6 DEF Keeps

\* Every step of the feed keeps the confirmed block close.
LEMMA FeedNextLag ==
    ASSUME IndInv, FeedInv, LagInv, IndInv', [FeedNext]_<<vars, feedVars>>
    PROVE  LagInv'
  <1>1. CASE UNCHANGED monVars
    BY <1>1 DEF LagInv, monVars
  <1>2. CASE PushNewBlock
    <2> DEFINE b == Fetched(curr)
    <2>1. CanFetch /\ Update(b)
      BY <1>2 DEF PushNewBlock
    <2>2. b \in Blocks /\ NumberOf[b] = curr /\ feed = "running"
      BY <2>1, FetchedBlock DEF CanFetch
    <2> HIDE DEF b
    <2> SUFFICES ASSUME phase' # "BootstrapI" PROVE Keeps(nodes', chkpt')
      BY DEF LagInv
    <2>3. CASE \E syncMsg \in SyncMsgs : UpdateOnBootstrapI(b, syncMsg)
      BY <2>2, <2>3, BootstrapKeeps
    <2>4. CASE \E syncMsg \in SyncMsgs : AcceptBlock(b, syncMsg)
      BY <2>2, <2>4, AcceptKeeps
    <2>5. CASE RejectBlock(b)
      BY <2>2, <2>5, RejectKeeps
    <2>6. CASE ReadFreedParent(b)
      BY <2>2, <2>6, NeverReadFreed
    <2> QED BY <2>1, <2>3, <2>4, <2>5, <2>6 DEF Update
  <1>3. CASE PushNewBlockFails
    BY <1>3, FailureLeaves DEF LagInv, keptVars
  <1> QED BY <1>1, <1>2, <1>3
        DEF FeedNext, TryPushNewBlock, GethGrows, GethReorganises, PushInvalidBlock, vars, monVars

\* Behind the feed the tree of header nodes stays small, whatever Geth does: never more
\* than ChkptSize nodes on top of the confirmed one.
THEOREM FeedTreeBounded == FeedSpec => []LagInv
  <1>1. FeedInit => LagInv
    BY DEF FeedInit, Init, LagInv
  <1>2. IndInv /\ FeedInv /\ LagInv /\ IndInv' /\ [FeedNext]_<<vars, feedVars>> => LagInv'
    BY FeedNextLag
  <1> QED BY <1>1, <1>2, FeedAlwaysInv, PTL DEF FeedSpec

\* The safe part of EveryBlockConfirmed: with a first block that is proof of stake, and as
\* long as Geth takes nothing back, a block is confirmed as soon as ChkptSize more have
\* been handed over.
THEOREM FeedConfirmedKeepsUp ==
    ASSUME ParisBlk <= StartBlk
    PROVE  FeedSpec => []ConfirmedKeepsUp
  <1>1. FeedSpec => []UnbrokenInv
    BY FeedAlwaysUnbroken
  <1>2. IndInv /\ FeedInv /\ UnbrokenInv /\ LagInv => ConfirmedKeepsUp
    <2> SUFFICES ASSUME IndInv, FeedInv, UnbrokenInv, LagInv, pushed # NoBlock, ~replaced
                 PROVE  NumberOf[pushed] <= Confirmed + ChkptSize
      BY DEF ConfirmedKeepsUp
    <2>1. pushed \in Blocks /\ NumberOf[pushed] \in Nat
      BY DEF FeedInv
    <2>2. CASE phase = "BootstrapI"
      <3>1. Confirmed = NumberOf[pushed]
        BY <2>2 DEF FeedInv, Confirmed
      <3> QED BY <2>1, <3>1
    <2>3. CASE phase # "BootstrapI"
      <3>1. chkpt.last # Chk!None /\ Managed(chkpt)
        BY <2>3 DEF IndInv
      <3>2. Confirmed = NumberOf[chkpt.last] /\ NumberOf[chkpt.last] \in Nat
        BY <3>1 DEF Confirmed, Chk!IsEmpty, Chk!GetLastHeader, Managed, Chk!None
      <3>3. PICK i \in DOMAIN nodes : nodes[i].hdr = pushed
        BY <2>3, KnownIsNode DEF UnbrokenInv, FeedInv
      <3>4. /\ Cardinality(DOMAIN nodes) <= ChkptSize + 1
            /\ NumberOf[pushed] < NumberOf[chkpt.last] + Cardinality(DOMAIN nodes)
        BY <2>3, <3>3 DEF LagInv, Keeps
      <3>5. Cardinality(DOMAIN nodes) \in Nat
        <4>1. Tree(nodes, fresh - 1) /\ fresh - 1 \in Nat
          BY <2>3 DEF IndInv, Consistent
        <4>2. IsFiniteSet(DOMAIN nodes)
          BY <3>3, <4>1, SubtreeFinite
        <4> QED BY <4>2, FS_CardinalityType
      <3> QED BY <2>1, <3>2, <3>4, <3>5
    <2> QED BY <2>2, <2>3
  <1> QED BY <1>1, <1>2, FeedAlwaysInv, FeedTreeBounded, PTL
=============================================================================
