------------------------------ MODULE Ranking ------------------------------
(***************************************************************************)
(* The ranking of causal candidates (packages/core/src/rca/causal.ts,      *)
(* recency.ts, runner.ts), the impact of a change (impact.ts) and what the *)
(* GitHub app picks from both for its comment.                             *)
(*                                                                         *)
(* Beyond what Queries needs, a graph has g.stdlib, the names that count   *)
(* for no ambiguity, g.subsystem[file], g.loc[symbol], g.kind[symbol],     *)
(* g.tests, the test files, and g.mentions[file], the names in their text. *)
(* Signals are in hundredths, weights in ten-thousandths; the logarithms   *)
(* of the code are rounded to these units.                                 *)
(***************************************************************************)
EXTENDS Matching

CONSTANT MaxLookups   \* maxLookups of a recency hydrator

calibrated == [recency |-> 766, proximity |-> 0, ambiguity |-> 2133, coChange |-> 4744,
               subsystem |-> 8909, complexity |-> 1679, dataflow |-> 0]
legacy == [signal \in DOMAIN calibrated |-> 10000]

-----------------------------------------------------------------------------
(* recency.ts                                                              *)

\* lookupRange: the first symbol of the name in the file, or Nowhere.
RangeOf(g, key) == LET found == {s \in g.symbols : Key(g, s) = key}
                   IN IF found = {} THEN Nowhere ELSE Min(found)

\* The ranges a hydrator is asked for, in order: it runs git for the first
\* MaxLookups of them and answers nothing for the others.
Fetched(asked) == ToSet(Cut(Distinct(SelectSeq(asked, LAMBDA s : s # Nowhere)), MaxLookups))

Changes(g, s, fetched) ==
  IF s \in fetched THEN Cut(SelectSeq(g.changes[s], LAMBDA c : c.days <= 90), 3) ELSE <<>>

\* hydrateCallerTree and hydrateCalleeTree, then the anchor's own lines.
Asked(g, up, down, anchor) ==
  LET keys == Preorder(up, Root) \o Preorder(down, Root)
      own  == definitionOf(g, anchor)
  IN [i \in DOMAIN keys |-> RangeOf(g, keys[i])] \o Cut(own, 1)
-----------------------------------------------------------------------------
(* causal.ts                                                               *)

\* A tree's nodes down to level 2 join the candidates; a nearer one replaces
\* all but the anchor.
Collect(cands, tree, role) ==
  FoldLeft(
    LAMBDA acc, k :
      LET d == Level(tree, k) IN
      IF d > 2 \/ (k \in DOMAIN acc.at /\ (acc.at[k].distance <= d \/ acc.at[k].role = "anchor"))
      THEN acc
      ELSE [at |-> (k :> [role |-> role, distance |-> d]) @@ acc.at,
            order |-> IF k \in DOMAIN acc.at THEN acc.order ELSE Append(acc.order, k)],
    cands, Preorder(tree, Root))

collectCandidates(anchorKey, up, down) ==
  Collect(Collect([at |-> anchorKey :> [role |-> "anchor", distance |-> 0],
                   order |-> <<anchorKey>>], up, "caller"), down, "callee")

Newest(changes) == Min({changes[i].days : i \in DOMAIN changes} \cup {1000})

recencyScore(changes, window) ==
  IF changes = <<>> \/ Head(changes).days > window THEN 0
  ELSE LET d == Head(changes).days
       IN IF d <= 7 THEN 300 ELSE IF d <= 30 THEN 200 ELSE IF d <= 90 THEN 100 ELSE 0

proximityScore(distance) == IF distance > 2 THEN 0 ELSE <<250, 100, 50>>[distance + 1]

ambiguityScore(n) == IF n = 0 THEN 0 ELSE IF n = 1 THEN 50 ELSE IF n <= 3 THEN 100 ELSE 150

\* Doubling steps for log2(loc / 20 + 1) * 0.6, at most 1.5.
complexityScore(loc) == Min({150, 60 * Cardinality({k \in 1 .. 5 : 20 * (2 ^ k - 1) <= loc})})

dataflowScore(path) ==
  Min({150, 75 * Cardinality({i \in DOMAIN path : path[i].kind = "ARG_BIND"})})

\* 2 / log2(n + 1) for a commit that n candidates share.
PerCluster(n) == IF n <= 6 THEN <<200, 126, 100, 86, 77, 71>>[n] ELSE 60

coChangeScore(cands, changesOf, window, k) ==
  LET commits == {changesOf[k][i].commit : i \in {j \in DOMAIN changesOf[k] :
                                                     changesOf[k][j].days <= window}}
      sharing(c) == {j \in DOMAIN changesOf : \E i \in DOMAIN changesOf[j] :
                       changesOf[j][i].commit = c /\ changesOf[j][i].days <= window}
      counted == {c \in commits : LET n == Cardinality(sharing(c)) IN
                    n >= 3 \/ (n = 2 /\ \E j \in sharing(c) : cands.at[j].role = "anchor")}
  IN Min({300, MapThenSumSet(LAMBDA c : PerCluster(Cardinality(sharing(c))), counted)})

\* lookupSymbolMeta: by name and file, by name alone if the file is not known.
Meta(g, key) ==
  LET rows == {s \in g.symbols : g.name[s] = key[2] /\ key[1] \in {Nowhere, g.file[s]}}
      open == {e \in ToSet(g.calls) : e.from \in rows /\ e.to = Nowhere}
  IN IF rows = {} THEN [unresolved |-> {}, subsystem |-> <<>>, loc |-> 0]
     ELSE [unresolved |-> {e.name : e \in open} \ g.stdlib,
           subsystem |-> g.subsystem[g.file[Min(rows)]], loc |-> g.loc[Min(rows)]]

Weigh(W, signals) == FoldFunction(+, 0, [x \in DOMAIN W |-> W[x] * signals[x]])

\* What the rationale names: the largest signal, by this order if several are.
Rationale(signals) ==
  LET order == <<"dataflow", "coChange", "recency", "ambiguity", "proximity", "subsystem">>
      top   == Max({signals[x] : x \in ToSet(order)})
      first == Head(SelectSeq(order, LAMBDA x : signals[x] = top))
  IN IF top > 0 /\ first \notin {"proximity", "subsystem"} THEN first ELSE "topology"

Signals(g, cands, changesOf, k) ==
  LET anchor == Head(cands.order)
      meta   == Meta(g, k)
  IN
        [recency    |-> recencyScore(changesOf[k], 90),
         proximity  |-> proximityScore(cands.at[k].distance),
         ambiguity  |-> ambiguityScore(Cardinality(meta.unresolved)),
         coChange   |-> coChangeScore(cands, changesOf, 90, k),
         subsystem  |-> IF meta.subsystem # <<>> /\ meta.subsystem = Meta(g, anchor).subsystem
                        THEN 50 ELSE 0,
         complexity |-> complexityScore(meta.loc),
         dataflow   |-> IF k[2] = anchor[2] THEN 0
                        ELSE dataflowScore(pathBetween(g, k[2], anchor[2], 4))]

Scored(k, at, changes, W, signals) ==
  [key |-> k, role |-> at.role, distance |-> at.distance, newest |-> Newest(changes),
   score |-> Weigh(W, signals), signals |-> signals, rationale |-> Rationale(signals)]

\* Score, then the newer change, then the file.
Before(a, b) ==
  IF a.score # b.score THEN a.score > b.score
  ELSE IF a.newest # b.newest THEN a.newest < b.newest ELSE a.key[1] < b.key[1]

ChangesOf(g, anchorKey, keys, own, fetched) ==
  [k \in keys |-> IF k = anchorKey THEN own
                  ELSE IF k[1] = Nowhere THEN <<>> ELSE Changes(g, RangeOf(g, k), fetched)]

ScoreAll(g, W, cands, changesOf) ==
  [i \in DOMAIN cands.order |->
     LET k == cands.order[i]
     IN Scored(k, cands.at[k], changesOf[k], W, Signals(g, cands, changesOf, k))]

buildCausalChain(g, W, cands, own, fetched, topN) ==
  Cut(Sorted(ScoreAll(g, W, cands,
               ChangesOf(g, Head(cands.order), DOMAIN cands.at, own, fetched)), Before), topN)
-----------------------------------------------------------------------------
(* runner.ts: several anchors.                                             *)

\* One chain for a seed, a key; `asked` is what the shared hydrator was asked.
Anchored(g, W, cands, own, asked, topN) ==
  [asked |-> asked,
   chain |-> buildCausalChain(g, W, cands,
               IF own = <<>> THEN <<>> ELSE Changes(g, Head(own), Fetched(asked)),
               Fetched(asked), topN)]

AnchoredIn(g, W, seed, up, down, asked, topN) ==
  Anchored(g, W, collectCandidates(seed, up, down), definitionOf(g, seed[2]),
           asked \o Asked(g, up, down, seed[2]), topN)

OneAnchor(g, W, seed, asked, topN) ==
  AnchoredIn(g, W, seed, callersOf(g, seed[2], 2), calleesOf(g, seed[2], 1), asked, topN)

\* Mutant: a later seed's score replaces an earlier one's.
MergeLast(merged, seed, chain) ==
  FoldLeft(
    LAMBDA acc, c :
      [best |-> (c.key :> c) @@ acc.best, keys |-> Distinct(Append(acc.keys, c.key)),
       top  |-> Max({c.score, acc.top}),
       seed |-> IF c.score > acc.top THEN seed[2] ELSE acc.seed],
    merged, chain)

\* Every candidate keeps its highest score; the seed of the highest is kept.
Merge(merged, seed, chain) ==
  FoldLeft(
    LAMBDA acc, c :
      [best |-> IF c.key \in DOMAIN acc.best /\ acc.best[c.key].score >= c.score
                THEN acc.best ELSE (c.key :> c) @@ acc.best,
       keys |-> Distinct(Append(acc.keys, c.key)),
       top  |-> Max({c.score, acc.top}),
       seed |-> IF acc.seed = Nowhere \/ c.score > acc.top THEN seed[2] ELSE acc.seed],
    merged, chain)

BetterOf(a, b) == a.score > b.score \/ (a.score = b.score /\
                   (a.key[1] < b.key[1] \/ (a.key[1] = b.key[1] /\ a.key[2] < b.key[2])))

Joined(acc, one) == [asked |-> one.asked, chains |-> Append(acc.chains, one.chain)]

Chains(g, W, seeds, topN) ==
  FoldLeft(LAMBDA acc, seed : Joined(acc, OneAnchor(g, W, seed, acc.asked, Max({2 * topN, 10}))),
           [asked |-> <<>>, chains |-> <<>>], seeds).chains

Best(merged, topN) ==
  [candidates |-> Cut(Sorted([i \in DOMAIN merged.keys |-> merged.best[merged.keys[i]]], BetterOf),
                      topN),
   top |-> merged.seed]

MergeAll(seeds, chains) ==
  FoldLeft(LAMBDA acc, i : Merge(acc, seeds[i], chains[i]),
           [best |-> <<>>, keys |-> <<>>, top |-> 0, seed |-> Nowhere], [i \in DOMAIN seeds |-> i])

runMultiAnchor(g, W, seeds, topN) == Best(MergeAll(seeds, Chains(g, W, seeds, topN)), topN)

\* Matches that the walk did not rank follow, below its lowest score or 0.5.
augmentWithMatcherTail(walked, matches, cap) ==
  LET low  == IF walked = <<>> THEN 500000 ELSE Last(walked).score
      rest == SelectSeq([i \in DOMAIN matches |-> [nr |-> i] @@ matches[i]],
                LAMBDA m : /\ \A i \in DOMAIN walked : walked[i].key # m.key
                           /\ \A i \in 1 .. m.nr - 1 : matches[i].key # m.key)
      tail == [i \in DOMAIN rest |->
                 [key |-> rest[i].key, role |-> "anchor", distance |-> 0,
                  rationale |-> "tail", score |-> Min({low - 10000, rest[i].total \div 2})]]
  IN Cut(walked \o tail, cap)
-----------------------------------------------------------------------------
(* impact.ts                                                               *)

\* Up to eight test files whose text has the name.
findTestCoverage(g, name) == {f \in g.tests : name \in g.mentions[f]}

\* In tenths.
riskScore(g, key, distance, depth, changes) ==
  LET recent == Cardinality({i \in DOMAIN changes : changes[i].days <= 30})
  IN Min({10, (IF Meta(g, key).unresolved # {} THEN 4 ELSE 0) + Min({6, 3 * recent})
              + (IF findTestCoverage(g, key[2]) = {} THEN 2 ELSE 0)
              + (IF distance > depth + 1 THEN 0 ELSE depth + 1 - distance)})

\* The tree of the callers; the seed is left out with what hangs below it.
RECURSIVE Affected(_, _, _)
Affected(tree, seed, at) ==
  FoldLeft(LAMBDA acc, k : acc \o <<k>> \o Affected(tree, seed, k), <<>>,
           SelectSeq(Children(tree, at), LAMBDA k : k # seed))

ByRisk(g, seed, name, tree, found, depth, fetched) ==
  LET Node(k) == [key |-> k, distance |-> Level(tree, k),
                  tested |-> findTestCoverage(g, k[2]) # {},
                  risk |-> riskScore(g, k, Level(tree, k), Clamp(depth, 1, 5),
                                     Changes(g, RangeOf(g, k), fetched))]
  IN Sorted(<<[key |-> seed, distance |-> 0, risk |-> 0,
               tested |-> findTestCoverage(g, name) # {}]>>
              \o [i \in DOMAIN found |-> Node(found[i])],
            LAMBDA a, b : a.risk > b.risk)

\* The first definition in the file if there is one.
buildImpact(g, name, file, depth) ==
  LET defs    == definitionOf(g, name)
      mine    == SelectSeq(defs, LAMBDA s : g.file[s] = file)
      seed    == Key(g, Head(mine \o defs))
      tree    == callersOf(g, name, depth)
      keys    == Preorder(tree, Root)
  IN ByRisk(g, seed, name, tree, Affected(tree, seed, Root), depth,
            Fetched([i \in DOMAIN keys |-> RangeOf(g, keys[i])]))
-----------------------------------------------------------------------------
(* What the comment on a pull request shows.                               *)

\* Functions, methods and classes of a changed file that a hunk overlaps; a
\* patch without added lines counts for all.  hunks is a set of intervals.
findChangedSymbols(g, f, hunks) ==
  SelectSeq(symbolsInFile(g, f),
    LAMBDA s : /\ g.kind[s] \in {"function", "method", "class"}
               /\ hunks = {} \/ \E h \in hunks : s <= h[2] /\ s >= h[1])

\* The best candidate of each changed name, then the best others; the changed
\* symbols themselves if there is no candidate.
topRankedSymbols(candidates, changed, limit) ==
  LET sorted == Sorted(candidates, LAMBDA a, b : a.score > b.score)
      names  == {c[2] : c \in ToSet(changed)}
      best   == SelectSeq([i \in DOMAIN sorted |-> [nr |-> i] @@ sorted[i]],
                  LAMBDA c : c.key[2] \in names /\ \A i \in 1 .. c.nr - 1 : sorted[i].key[2] # c.key[2])
      others == SelectSeq(sorted, LAMBDA c : c.key[2] \notin names)
      ranked == Cut([i \in DOMAIN best |-> best[i].key] \o [i \in DOMAIN others |-> others[i].key], limit)
  IN IF ranked = <<>> THEN Cut(changed, limit) ELSE ranked

\* Callers without a test, each once, by risk.
pickTopUntested(nodes, limit) ==
  LET open == Sorted(SelectSeq(nodes, LAMBDA n : n.distance > 0 /\ ~n.tested),
                     LAMBDA a, b : a.risk > b.risk)
  IN Cut(Distinct([i \in DOMAIN open |-> open[i].key]), limit)
=============================================================================
