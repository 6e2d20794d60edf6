----------------------------- MODULE TreeWalk -----------------------------
(***************************************************************************)
(* callersOf and calleesOf as a behaviour: the tree for one name, step by  *)
(* step, and what it must be in the end.                                   *)
(***************************************************************************)
EXTENDS Trees

CONSTANTS
  Nodes,      \* symbols of the graph
  Keys,       \* of nodes: files with names
  Topics      \* what the queries are asked

TreeRow == [key : Keys, next : Nodes \cup {Nowhere}]

\* depth is at least one (Math.max).
ASSUME TopicsAssumption ==
  /\ Nowhere \notin Nodes /\ Root \notin Keys
  /\ Topics \subseteq [seeds : Seq(Nodes), rows : [Nodes -> Seq(TreeRow)], max : Nat \ {0}]

VARIABLES
  topic,    \* what is asked
  tree      \* the tree, as far as it has grown

treeVars == <<topic, tree>>

TreeInit == topic \in Topics /\ tree = StartTree(topic)

TakeSeed == /\ tree.stack = <<>> /\ tree.todo # <<>>
            /\ tree' = SeedNode(topic, tree) /\ UNCHANGED topic

TakeRow == /\ tree.stack # <<>> /\ Top(tree).rows # <<>>
           /\ tree' = RowNode(topic, tree) /\ UNCHANGED topic

Leave == /\ tree.stack # <<>> /\ Top(tree).rows = <<>>
         /\ tree' = Return(tree) /\ UNCHANGED topic

TreeNext == TakeSeed \/ TakeRow \/ Leave

TreeSpec == TreeInit /\ [][TreeNext]_treeVars
-----------------------------------------------------------------------------
(* What a tree must be.                                                    *)

AskedFor(q) == {q.seeds[i] : i \in DOMAIN q.seeds}
RowsOf(q, s) == {q.rows[s][i] : i \in DOMAIN q.rows[s]}

\* The symbols that n rows lead to, from one that is asked for.
IsTrail(q, p, n) ==
  /\ \A i \in 1..n : \E row \in RowsOf(q, p[i - 1]) : row.next = p[i]
  /\ p[0] \in AskedFor(q)
Met(q, n) == {p[n] : p \in {trail \in [0..n -> Nodes] : IsTrail(q, trail, n)}}

\* Every node hangs under one that was there before it: whoever follows the
\* parents comes to the root.
IsTree(t) ==
  /\ {t.nodes[i] : i \in DOMAIN t.nodes} = DOMAIN t.parent
  /\ \A i \in DOMAIN t.nodes :
       t.parent[t.nodes[i]] = Root \/ \E j \in 1..(i - 1) : t.parent[t.nodes[i]] = t.nodes[j]

\* Symbol s is one that the node at may stand for.
StandsFor(q, at, s) ==
  IF at = Root THEN s \in AskedFor(q)
  ELSE \E r \in Nodes : \E row \in RowsOf(q, r) : row.key = at /\ row.next = s

\* A node is below another one because a row says so, of a symbol that is near
\* enough.
Grounded(q, t) ==
  \A k \in DOMAIN t.parent :
    \E n \in 0..(q.max - 1) : \E s \in Met(q, n) :
      StandsFor(q, t.parent[k], s) /\ \E row \in RowsOf(q, s) : row.key = k

\* No row of a symbol that was asked for is left out, and none of the symbols
\* next to the first of them, although a symbol is visited only once, with
\* whatever depth is left at that moment.
NearComplete(q, t) ==
  /\ \A s \in AskedFor(q) : \A row \in RowsOf(q, s) : row.key \in DOMAIN t.parent
  /\ q.max > 1 /\ q.seeds # <<>> =>
       \A near \in RowsOf(q, q.seeds[1]) : near.next # Nowhere =>
         \A row \in RowsOf(q, near.next) : row.key \in DOMAIN t.parent

\* The answer of callersOf and calleesOf is a tree; what hangs under a node
\* calls it, or is called by it, within the depth asked for; and it is complete
\* to the first level, for one symbol of the name to the second.
TreeExact ==
  IsGrown(tree) =>
    IsTree(tree) /\ Grounded(topic, tree) /\ NearComplete(topic, tree)
=============================================================================
