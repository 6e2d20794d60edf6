------------------------------- MODULE Trees -------------------------------
(***************************************************************************)
(* The steps of walkUp and walkDown (packages/core/src/graph/queries.ts),  *)
(* which make the trees of callers and callees: one seed, one row or one   *)
(* return in each.                                                         *)
(*                                                                         *)
(* A topic q is [seeds, rows, max]: the symbols that have the name asked   *)
(* for; the rows read at each symbol, each with the key (file and name) of *)
(* its node and the symbol it leads to, or Nowhere; and the depth.         *)
(***************************************************************************)
EXTENDS Paths

\* The parent of the nodes that the answer itself lists.
Root == <<0, 0>>

\* A tree t: the parent of every node, its nodes in the order of creation, the
\* symbols visited, the seeds left, and the calls of walkUp or walkDown under
\* way, each of a symbol, at a node, with so much depth left and these rows.
StartTree(q) ==
  [parent |-> <<>>, nodes |-> <<>>, visited |-> {}, todo |-> q.seeds, stack |-> <<>>]

IsGrown(t) == t.todo = <<>> /\ t.stack = <<>>

\* Mutant: a symbol counts as visited before it is known to have depth left.
EnterHasty(q, t, s, left, at) ==
  IF s \in t.visited \cup {Nowhere} THEN t
  ELSE IF left = 0 THEN [t EXCEPT !.visited = @ \cup {s}]
  ELSE [t EXCEPT !.visited = @ \cup {s},
                 !.stack = Append(@, [of |-> s, at |-> at, left |-> left, rows |-> q.rows[s]])]

\* The call for symbol s, whose rows become children of the node `at`.
Enter(q, t, s, left, at) ==
  IF left = 0 \/ s \in t.visited \cup {Nowhere} THEN t
  ELSE [t EXCEPT !.visited = @ \cup {s},
                 !.stack = Append(@, [of |-> s, at |-> at, left |-> left, rows |-> q.rows[s]])]

SeedNode(q, t) == Enter(q, [t EXCEPT !.todo = Tail(@)], Head(t.todo), q.max, Root)

\* A node is made under the first parent that leads to it.
WithNode(t, key, at) ==
  IF key \in DOMAIN t.parent THEN t
  ELSE [t EXCEPT !.parent = Marked(@, key, at), !.nodes = Append(@, key)]

Top(t) == t.stack[Len(t.stack)]

RowNode(q, t) ==
  LET row  == Head(Top(t).rows)
      read == [t EXCEPT !.stack[Len(t.stack)].rows = Tail(@)]
  IN Enter(q, WithNode(read, row.key, Top(t).at), row.next, Top(t).left - 1, row.key)

Return(t) == [t EXCEPT !.stack = SubSeq(@, 1, Len(@) - 1)]
=============================================================================
