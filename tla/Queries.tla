------------------------------ MODULE Queries ------------------------------
(***************************************************************************)
(* The queries over an indexed graph (packages/core/src/graph/queries.ts). *)
(*                                                                         *)
(* A graph g is a record.  Symbols, files and names are numbers in the     *)
(* order of the database's rows and of the alphabet; a symbol stands for   *)
(* its line.  g.calls is the sequence of CALLS edges in row order, g.binds *)
(* the set of pairs <<producer, user>> of its argument bindings, and       *)
(* g.changes[s] what git log -L tells of the lines of s, newest first.     *)
(***************************************************************************)
EXTENDS Trees, SequencesExt, FiniteSets, FiniteSetsExt, Folds, Functions

Ordered(nrs) == SelectSeq([i \in 1 .. Max(nrs \cup {0}) |-> i], LAMBDA i : i \in nrs)
Cut(seq, n) == SubSeq(seq, 1, Min({Len(seq), n}))
Distinct(seq) == FoldLeft(LAMBDA acc, x : IF Contains(acc, x) THEN acc ELSE Append(acc, x), <<>>, seq)

\* The sort of JavaScript and of SQL: what is not better keeps its place.
Sorted(seq, Better(_, _)) ==
  FoldLeft(LAMBDA acc, x :
             LET n == Cardinality({i \in DOMAIN acc : ~Better(x, acc[i])})
             IN SubSeq(acc, 1, n) \o <<x>> \o SubSeq(acc, n + 1, Len(acc)),
           <<>>, seq)

SymbolsNamed(g, n) == {s \in g.symbols : g.name[s] = n}

Key(g, s) == <<g.file[s], g.name[s]>>

\* ORDER BY exported DESC, path, start_line
DefinitionBefore(g, s, t) ==
  IF (s \in g.exported) # (t \in g.exported) THEN s \in g.exported
  ELSE g.file[s] < g.file[t] \/ (g.file[s] = g.file[t] /\ s < t)

definitionOf(g, n) ==
  Sorted(Ordered(SymbolsNamed(g, n)), LAMBDA s, t : DefinitionBefore(g, s, t))

symbolsInFile(g, f) == Ordered({s \in g.symbols : g.file[s] = f})

\* The rows that walkUp and walkDown read at symbol s, each with the tree node
\* it stands for and the symbol to go on from.
CallersAt(g, s, minConf) ==
  LET rows == SelectSeq(g.calls, LAMBDA e : e.to = s /\ e.conf >= minConf)
  IN [i \in DOMAIN rows |-> [key |-> Key(g, rows[i].from), next |-> rows[i].from]]

CalleesAt(g, s) ==
  LET rows == SelectSeq(g.calls, LAMBDA e : e.from = s)
  IN [i \in DOMAIN rows |->
        [next |-> rows[i].to,
         key |-> <<IF rows[i].to = Nowhere THEN Nowhere ELSE g.file[rows[i].to],
                   rows[i].name>>]]

At(g, s, way) == IF way = "up" THEN CallersAt(g, s, g.minConf) ELSE CalleesAt(g, s)

\* walkUp, walkDown: the steps of module Trees, until the tree is grown.
Topic(g, way, n, depth) ==
  [seeds |-> Ordered(SymbolsNamed(g, n)), rows |-> [s \in g.symbols |-> At(g, s, way)],
   max |-> depth]

TreeNextStep(q, t) ==
  IF t.stack = <<>> THEN SeedNode(q, t)
  ELSE IF Top(t).rows = <<>> THEN Return(t) ELSE RowNode(q, t)

RECURSIVE TreeFrom(_, _)
TreeFrom(q, t) == IF IsGrown(t) THEN t ELSE TreeFrom(q, TreeNextStep(q, t))

WalkAll(g, way, n, depth) ==
  LET q == Topic(g, way, n, depth) IN TreeFrom(q, StartTree(q))

Clamp(n, low, high) == Max({low, Min({n, high})})

callersOf(g, n, depth) == WalkAll(g, "up", n, Clamp(depth, 1, 5))
calleesOf(g, n, depth) == WalkAll(g, "down", n, Clamp(depth, 1, 4))

Children(tree, at) == SelectSeq(tree.nodes, LAMBDA k : tree.parent[k] = at)

RECURSIVE Level(_, _)
Level(tree, k) == IF k = Root THEN 0 ELSE 1 + Level(tree, tree.parent[k])

\* The nodes as a recursive visit of the tree meets them.
RECURSIVE Preorder(_, _)
Preorder(tree, at) ==
  FoldLeft(LAMBDA acc, k : acc \o <<k>> \o Preorder(tree, k), <<>>, Children(tree, at))

\* At most five symbols of the name, their commits merged by date and cut.  One
\* that git fails for, or takes too long for, has none.
recentlyChangedNear(g, n, sinceDays, maxCommits) ==
  LET rows == Sorted(Ordered(SymbolsNamed(g, n)), LAMBDA s, t : g.file[s] < g.file[t])
      near == Cut(rows, 5)
      all  == FlattenSeq([i \in DOMAIN near |->
                Cut(SelectSeq(g.changes[near[i]], LAMBDA c : c.days <= sinceDays), maxCommits)])
  IN Cut(Sorted(all, LAMBDA c, d : c.days < d.days), maxCommits)
-----------------------------------------------------------------------------
(* pathBetween: the steps of module Paths, until the search is done.       *)

\* The hops out of s, calls first.
Hops(g, s) ==
  LET calls == SelectSeq(g.calls, LAMBDA e : e.from = s /\ e.to # Nowhere)
      flows == Ordered({p[2] : p \in {b \in g.binds : b[1] = s}})
  IN [i \in DOMAIN calls |-> [to |-> calls[i].to, kind |-> "CALLS"]]
       \o [i \in DOMAIN flows |-> [to |-> flows[i], kind |-> "ARG_BIND"]]

NextStep(q, w) ==
  CASE w.pc = "seed"  -> SeedNext(q, w)
    [] w.pc = "take"  -> TakeNext(q, w)
    [] w.pc = "read"  -> ReadNext(q, w)
    [] w.pc = "trail" -> TrailNext(q, w)

RECURSIVE RouteFrom(_, _)
RouteFrom(q, w) == IF w.pc = "done" THEN w.route ELSE RouteFrom(q, NextStep(q, w))

Question(g, from, to, maxDepth) ==
  [seeds |-> Ordered(SymbolsNamed(g, from)), goals |-> SymbolsNamed(g, to),
   hops |-> [s \in g.symbols |-> Hops(g, s)], max |-> Clamp(maxDepth, 1, 10)]

\* <<>> is null.
pathBetween(g, from, to, maxDepth) ==
  LET q == Question(g, from, to, maxDepth) IN RouteFrom(q, StartSearch(q))
=============================================================================
