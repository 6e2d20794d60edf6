------------------------------- MODULE Paths -------------------------------
(***************************************************************************)
(* The steps of pathBetween (packages/core/src/graph/queries.ts), a        *)
(* breadth-first search over calls and argument bindings: one seed, one    *)
(* entry of the queue, one row or one crumb of the way back in each.       *)
(*                                                                         *)
(* A question q is [seeds, goals, hops, max]: the symbols that have the    *)
(* name searched from, in row order, those with the name searched for, the *)
(* rows read at each symbol (its calls, then its flows) and maxDepth.      *)
(***************************************************************************)
EXTENDS Naturals, Sequences

\* No symbol: the target of an unresolved call, a seed's parent, the file of
\* a node without one.
Nowhere == 0

\* A search w is at pc; the other fields are the variables of the code, todo and
\* rows what its loops over seeds and rows have left, at the entry being read.
StartSearch(q) ==
  [pc |-> IF q.seeds = <<>> \/ q.goals = {} THEN "done" ELSE "seed",
   todo |-> q.seeds, queue |-> <<>>, at |-> [id |-> Nowhere, depth |-> 0], rows |-> <<>>,
   parents |-> <<>>, cursor |-> Nowhere, route |-> <<>>]

\* parents.set(s, crumb)
Marked(parents, s, crumb) ==
  [t \in DOMAIN parents \cup {s} |-> IF t = s THEN crumb ELSE parents[t]]

Queued(w, s, depth) == Append(w.queue, [id |-> s, depth |-> depth])

\* A seed that is a goal is the whole answer.
SeedNext(q, w) ==
  IF w.todo = <<>> THEN [w EXCEPT !.pc = "take"]
  ELSE LET s == Head(w.todo) IN
       IF s \in q.goals
       THEN [w EXCEPT !.pc = "done", !.route = <<[id |-> s, kind |-> "SEED"]>>]
       ELSE [w EXCEPT !.todo = Tail(@), !.queue = Queued(w, s, 0),
                      !.parents = Marked(@, s, [parent |-> Nowhere, kind |-> "SEED"])]

\* Mutant: the newest entry is taken.
TakeNewest(q, w) ==
  IF w.queue = <<>> THEN [w EXCEPT !.pc = "done"]
  ELSE LET entry == w.queue[Len(w.queue)]
           rest  == [w EXCEPT !.queue = SubSeq(@, 1, Len(@) - 1)]
       IN IF entry.depth >= q.max THEN rest
          ELSE [rest EXCEPT !.pc = "read", !.at = entry, !.rows = q.hops[entry.id]]

\* The oldest entry is taken; the search ends with the last one.
TakeNext(q, w) ==
  IF w.queue = <<>> THEN [w EXCEPT !.pc = "done"]
  ELSE LET entry == Head(w.queue)
           rest  == [w EXCEPT !.queue = Tail(@)]
       IN IF entry.depth >= q.max THEN rest
          ELSE [rest EXCEPT !.pc = "read", !.at = entry, !.rows = q.hops[entry.id]]

\* The first row that leads to a goal ends the search.
ReadNext(q, w) ==
  IF w.rows = <<>> THEN [w EXCEPT !.pc = "take"]
  ELSE LET h == Head(w.rows)
           found == [w EXCEPT !.parents = Marked(@, h.to, [parent |-> w.at.id, kind |-> h.kind])]
       IN IF h.to \in DOMAIN w.parents THEN [w EXCEPT !.rows = Tail(@)]
          ELSE IF h.to \in q.goals THEN [found EXCEPT !.pc = "trail", !.cursor = h.to]
          ELSE [found EXCEPT !.rows = Tail(@), !.queue = Queued(w, h.to, w.at.depth + 1)]

\* The way back, up to a seed.
TrailNext(q, w) ==
  LET crumb == w.parents[w.cursor]
      longer == [w EXCEPT !.route = <<[id |-> w.cursor, kind |-> crumb.kind]>> \o @]
  IN IF crumb.kind = "SEED" THEN [longer EXCEPT !.pc = "done"]
     ELSE [longer EXCEPT !.cursor = crumb.parent]
=============================================================================
