-------------------------------- MODULE Cli --------------------------------
(***************************************************************************)
(* The commands on one repository with what their analyses and queries     *)
(* compute: indexScope of the whole repository, runRca, the queries and the *)
(* GitHub app's analysis of a pull request.                                *)
(***************************************************************************)
EXTENDS Commands, Rca

WholeOf(w) == ToSet(SelectSeq(walk(w), LAMBDA f : isParseable(w, f)))

\* With the 90 days of a command without --since; the process stops at 20
\* commits, which no symbol here has.
AnswerOf(w, kind, name, depth, files) ==
  LET g == Indexed(w, files)
  IN CASE kind = "define"  -> definitionOf(g, name)
       [] kind = "callers" -> callersOf(g, name, depth).nodes
       [] kind = "callees" -> calleesOf(g, name, depth).nodes
       [] kind = "changed" -> recentlyChangedNear(g, name, 90, 50)
-----------------------------------------------------------------------------
(* What these commands promise.                                            *)

Callers(g, S) == {e.from : e \in {c \in ToSet(g.calls) : c.to \in S /\ c.conf >= g.minConf}}
Callees(g, S) == {e.to : e \in {c \in ToSet(g.calls) : c.from \in S}} \ {Nowhere}
Flows(g, S)   == {b[2] : b \in {c \in g.binds : c[1] \in S}}

Reached(Step(_), S, n) ==
  FoldLeft(LAMBDA acc, i : acc \cup Step(acc), S, [i \in 1 .. n |-> i])

KeysOf(g, S) == {Key(g, s) : s \in S}

\* A node hangs below a symbol that it calls, or under the symbol asked for;
\* two levels are complete if only one symbol has the name.
TreeFits(g, own, tree) ==
  LET Below(k) == IF k = Root THEN own ELSE {s \in g.symbols : Key(g, s) = k}
      near == Callers(g, own)
  IN /\ \A k \in DOMAIN tree.parent : k \in KeysOf(g, Callers(g, Below(tree.parent[k])))
     /\ Cardinality(own) = 1 => KeysOf(g, near \cup Callers(g, near)) \subseteq DOMAIN tree.parent

CallersExact(g, n) == TreeFits(g, SymbolsNamed(g, n), callersOf(g, n, 2))

\* The path found is one of the graph, and there is no shorter one.
Distances(g, from, to, max) ==
  {n \in 0 .. max :
     Reached(LAMBDA S : Callees(g, S) \cup Flows(g, S), SymbolsNamed(g, from), n)
       \cap SymbolsNamed(g, to) # {}}

PathIs(g, path, from, to, steps) ==
  IF steps = {} THEN path = <<>>
  ELSE /\ Len(path) = Min(steps) + 1
       /\ g.name[Head(path).id] = from /\ g.name[Last(path).id] = to
       /\ \A i \in 2 .. Len(path) :
            path[i].id \in IF path[i].kind = "CALLS" THEN Callees(g, {path[i - 1].id})
                           ELSE Flows(g, {path[i - 1].id})

PathExact(g, from, to, max) ==
  PathIs(g, pathBetween(g, from, to, max), from, to, Distances(g, from, to, max))

\* Of what the seeds' walks rank, every symbol with its best score, the best
\* ones, and the best one's seed in front.
RankedByBest(req, result, chains) ==
  LET all    == UNION {ToSet(chains[i]) : i \in DOMAIN chains}
      Highest(k) == Max({c.score : c \in {x \in all : x.key = k}})
      listed == result.causalCandidates
      walked == SelectSeq(listed, LAMBDA c : c.rationale # "tail")
  IN /\ \A i, j \in DOMAIN listed : i < j => /\ listed[i].key # listed[j].key
                                             /\ listed[i].score >= listed[j].score
     /\ Len(walked) <= req.topN
     /\ \A c \in ToSet(walked) : c.score = Highest(c.key)
     /\ \A c \in all : \/ \E w \in ToSet(walked) : w.key = c.key
                       \/ Len(walked) = req.topN /\ c.score <= Last(walked).score
     /\ walked # <<>> => \E i \in DOMAIN chains :
                           /\ result.seeds[i][2] = result.primarySymbol
                           /\ \E c \in ToSet(chains[i]) : c.score = Head(walked).score

\* The comment asks for tests of callers that have none, names each once, and
\* ranks the change and what is near it; a row comes twice only if two changed
\* symbols have one name.
CommentExact(g, result) ==
  LET own  == UNION {SymbolsNamed(g, k[2]) : k \in ToSet(result.changedSymbols)}
      up   == KeysOf(g, Reached(LAMBDA S : Callers(g, S), own, 3))
      down == KeysOf(g, Reached(LAMBDA S : Callees(g, S), own, 1))
  IN /\ \A k \in ToSet(result.topUntested) : k \in up /\ findTestCoverage(g, k[2]) = {}
     /\ IsInjective(result.topUntested)
     /\ IsInjective([i \in DOMAIN result.changedSymbols |-> result.changedSymbols[i][2]])
          => IsInjective(result.rankedSymbols)
     /\ \A k \in ToSet(result.rankedSymbols) : k \in up \cup down \/ k[1] = Nowhere
     /\ (result.rankedSymbols = <<>>) <=> (result.changedSymbols = <<>>)
     /\ (\E k \in up \ KeysOf(g, own) : findTestCoverage(g, k[2]) = {}
                                        /\ k \in {n.key : n \in ToSet(result.nodes)})
          => result.topUntested # <<>>

\* An analysis ranks by real calls and real paths, and every seed counts.
AnalysisExact ==
  CASE out.command = "rca" /\ out.result.files # <<>> ->
         \A g \in {Indexed(world, ToSet(out.result.files))} :
           /\ RankedByBest(out.req, out.result,
                           Chains(g, Weights(world, out.req), out.result.seeds, out.req.topN))
           /\ \A seed \in ToSet(out.result.seeds) :
                /\ CallersExact(g, seed[2])
                /\ \A c \in ToSet(out.result.causalCandidates) : PathExact(g, c.key[2], seed[2], 4)
    [] out.command = "pull" -> CommentExact(Indexed(world, Whole), out.result)
    [] out.command \in QueryKinds -> CallersExact(Indexed(world, Whole), out.name)
    [] OTHER -> TRUE
=============================================================================
