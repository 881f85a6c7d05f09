--------------------------- MODULE TreeNodeHelper ---------------------------
(***************************************************************************)
(* TreeNodeHelper.genTree makes trees of rows that name their parent, and   *)
(* countLeafNode of base.js counts the leaves of such a tree in a page.     *)
(* Nodes are their ids.                                                     *)
(***************************************************************************)
EXTENDS Integers, Sequences, FiniteSets, SequencesExt

CONSTANTS
  Nodes,          \* a set of numbers: the comparator sorts by them
  NoParent,       \* null, or the id of a node that is in no list
  Parents,        \* what the rows may say of their parents
  Orders,         \* the orders in which the rows may come, each row once
  MaxTrees        \* bound: the calls of genTree for one list

ASSUME RowsAssumption ==
  /\ IsFiniteSet(Nodes) /\ Nodes \subseteq Int /\ NoParent \notin Nodes
  /\ Parents \subseteq [Nodes -> Nodes \cup {NoParent}]
  /\ \A order \in Orders : order \in Seq(Nodes) /\ IsInjective(order)

VARIABLES
  parentNodeId,   \* of every row
  rows,           \* the list
  tree,           \* subNodeList and parentNode of every node, and the map
  roots,          \* history: the calls of genTree: [root, cper]
  todo,           \* the nodes whose genTree is still to come, within a call
  growing         \* "no" before the rows are there, then "yes"; "overflow"
                  \* after a StackOverflowError

treeVars == <<parentNodeId, rows, tree, roots, todo, growing>>

Bare == [subs |-> [n \in Nodes |-> <<>>], parent |-> [n \in Nodes |-> NoParent], map |-> {}]

treeInit ==
  /\ parentNodeId = [n \in Nodes |-> NoParent] /\ rows = <<>>
  /\ tree = Bare /\ roots = <<>> /\ todo = <<>> /\ growing = "no"

Load ==
  /\ growing = "no" /\ growing' = "yes"
  /\ parentNodeId' \in Parents
  /\ rows' \in Orders
  /\ UNCHANGED <<tree, roots, todo>>

\* Collections.sort, which is stable: what is at i has as many at or before it.
Rank(subs, i) ==
  Cardinality({j \in DOMAIN subs : subs[j] < subs[i] \/ (subs[j] = subs[i] /\ j <= i)})
Sorted(subs) == [k \in DOMAIN subs |-> subs[CHOOSE i \in DOMAIN subs : Rank(subs, i) = k]]

Added(root) ==
  LET added[i \in 0..Len(rows)] ==
        IF i = 0 THEN <<>>
        ELSE IF parentNodeId[rows[i]] = root THEN Append(added[i - 1], rows[i]) ELSE added[i - 1]
  IN  added[Len(rows)]

\* Variant: the list is sorted before the rows are added.
SortsFirst(root, cper) ==
  (IF cper THEN Sorted(tree.subs[root]) ELSE tree.subs[root]) \o Added(root)

SubNodes(root, cper) ==
  LET subs == tree.subs[root] \o Added(root)
  IN  IF cper THEN Sorted(subs) ELSE subs

Children(n) == {m \in ToSet(rows) : parentNodeId[m] = n}

\* The rows below a node, by their parents alone: what is in every set that has
\* the children of the node and of its members.
Below(root) ==
  LET closed == {s \in SUBSET ToSet(rows) :
                   Children(root) \subseteq s /\ \A n \in s : Children(n) \subseteq s}
  IN  {n \in ToSet(rows) : \A s \in closed : n \in s}

\* A call from outside.  If the root is below itself the recursion ends in a
\* StackOverflowError.
Call(root, cper) ==
  /\ growing = "yes" /\ todo = <<>> /\ root \notin Below(root)
  /\ todo' = <<root>>
  /\ roots' = Append(roots, [root |-> root, cper |-> cper])
  /\ UNCHANGED <<parentNodeId, rows, tree, growing>>

Overflows(root) ==
  /\ growing = "yes" /\ todo = <<>> /\ root \in Below(root)
  /\ growing' = "overflow"
  /\ UNCHANGED <<parentNodeId, rows, tree, roots, todo>>

\* One level of the recursion; the list of the node is walked next.
genTree ==
  /\ todo # <<>>
  /\ LET node == Head(todo)
         subs == SubNodes(node, Last(roots).cper)
     IN  /\ tree' = [subs |-> [tree.subs EXCEPT ![node] = subs],
                     parent |-> [n \in Nodes |-> IF n \in ToSet(rows) /\ parentNodeId[n] = node
                                                 THEN node ELSE tree.parent[n]],
                     map |-> tree.map \cup ToSet(subs)]
         /\ todo' = subs \o Tail(todo)
  /\ UNCHANGED <<parentNodeId, rows, roots, growing>>

treeNext ==
  \/ Load
  \/ /\ Len(roots) < MaxTrees
     /\ \E root \in Nodes : Overflows(root) \/ \E cper \in BOOLEAN : Call(root, cper)
  \/ genTree

\* In the page, for a tree that has been sent there: no calls of it are deeper
\* than there are nodes.
countLeafNode(node, count) ==
  LET call[k \in 0..Cardinality(Nodes)] ==
        [n \in Nodes |-> [c \in Nat |->
           LET subs == tree.subs[n]
               counted[i \in 0..Len(subs)] ==
                 IF i = 0 THEN c ELSE call[k - 1][subs[i]][counted[i - 1]]
           IN  IF k = 0 \/ subs = <<>> THEN c + 1 ELSE counted[Len(subs)]]]
  IN  call[Cardinality(Nodes)][node][count]

-----------------------------------------------------------------------------
(* Properties.                                                              *)

Tree(root) == Below(root) \cup {root}
Before(cper, m, n) ==
  IF cper THEN m < n ELSE \E i, j \in DOMAIN rows : i < j /\ rows[i] = m /\ rows[j] = n

\* Trees that do not overlap are the parent relation: every row below a root
\* is in the list of its parent once, in the order of the comparator or of the
\* rows, with its parent set and in the map; nothing else is; and the leaves
\* the page counts are the nodes without children.
TreeOfParents ==
  todo = <<>> /\ (\A i, j \in DOMAIN roots : i # j => roots[j].root \notin Tree(roots[i].root)) =>
    /\ tree.map = UNION {Below(p.root) : p \in ToSet(roots)}
    /\ \A n \in Nodes : tree.parent[n] = IF n \in tree.map THEN parentNodeId[n] ELSE NoParent
    /\ \A p \in ToSet(roots) :
         /\ \A n \in Tree(p.root) :
              /\ ToSet(tree.subs[n]) = Children(n) /\ Len(tree.subs[n]) = Cardinality(Children(n))
              /\ \A i, j \in DOMAIN tree.subs[n] :
                   i < j => Before(p.cper, tree.subs[n][i], tree.subs[n][j])
         /\ countLeafNode(p.root, 0) = Cardinality({n \in Tree(p.root) : Children(n) = {}})
=============================================================================
