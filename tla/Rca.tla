-------------------------------- MODULE Rca --------------------------------
(***************************************************************************)
(* The analyses: runRca (packages/core/src/rca/runner.ts) and the GitHub   *)
(* app's analysis of a changed worktree (packages/github-app/src/          *)
(* handler.ts).  Each is one computation over the repository as it is: its *)
(* graph is an index of its own in memory, or one it has just rewritten.   *)
(***************************************************************************)
EXTENDS Ranking

\* The graph that indexScope makes of some files: what is outside them is
\* unresolved.
Indexed(r, files) ==
  LET mine  == {s \in r.symbols : r.file[s] \in files}
      calls == SelectSeq(r.calls, LAMBDA e : e.from \in mine)
  IN [symbols |-> mine,
      calls |-> [i \in DOMAIN calls |->
                   IF calls[i].to \in mine THEN calls[i] ELSE [calls[i] EXCEPT !.to = Nowhere]],
      binds |-> r.binds \cap (mine \X mine),
      tests |-> r.tests \cap files,
      subsystem |-> [f \in r.files |-> subsystemOf(r, f)]] @@ r

Weights(r, req) ==
  IF req.legacy THEN legacy
  ELSE IF "scorer" \in DOMAIN r.config THEN r.config.scorer @@ calibrated
  ELSE calibrated

\* The first function, class or const of the first seed, or else of the other
\* files, tests last.
PickAnchor(g, scope) ==
  LET Eligible(f) == SelectSeq(symbolsInFile(g, f), LAMBDA s : g.kind[s] \in {"function", "class", "const"})
      seed  == Cut(scope.seeds, 1)
      rest  == SelectSeq(scope.files, LAMBDA f : f \notin ToSet(seed))
      files == seed \o SelectSeq(rest, LAMBDA f : f \notin g.tests)
                    \o SelectSeq(rest, LAMBDA f : f \in g.tests)
      found == FlattenSeq([i \in DOMAIN files |-> Eligible(files[i])])
  IN IF scope.symbol # Nowhere THEN scope.symbol
     ELSE IF found = <<>> THEN Nowhere ELSE g.name[Head(found)]

SeedOf(g, name) ==
  IF definitionOf(g, name) = <<>> THEN <<Nowhere, name>> ELSE Key(g, Head(definitionOf(g, name)))

finalizeResult(files, primary, seeds, candidates) ==
  [files |-> files, primarySymbol |-> primary, seeds |-> seeds, matches |-> <<>>,
   causalCandidates |-> candidates,
   firstHypothesis |-> IF candidates = <<>> THEN Nowhere ELSE Head(candidates).key[2]]

Untold(files, primary) == finalizeResult(files, primary, <<>>, <<>>)

\* Prose: the best matches in the first files of the walk are the seeds; what
\* else matched follows the candidates.
TopMatched(seeds, matches, tailCap, merged, files) ==
  [finalizeResult(files, IF merged.top = Nowhere THEN Head(seeds)[2] ELSE merged.top, seeds,
                  augmentWithMatcherTail(merged.candidates, matches, tailCap))
     EXCEPT !.matches = matches]

RankMatches(req, W, cfg, g, files, matches) ==
  LET seeds == [i \in DOMAIN Cut(matches, cfg.retrieval.free_text_seed_cap) |-> matches[i].key]
  IN IF matches = <<>> THEN Untold(files, Nowhere)
     ELSE TopMatched(seeds, matches, Max({req.topN * cfg.augmenter.matcher_tail_topn_multiplier,
                                          cfg.augmenter.matcher_tail_floor}),
                     runMultiAnchor(g, W, seeds, req.topN), files)

RankText(req, W, cfg, g, files, tokens) ==
  IF tokens.identifierTokens \o tokens.literalTokens = <<>> \/ files = <<>> THEN Untold(<<>>, Nowhere)
  ELSE RankMatches(req, W, cfg, g, files, matchTokensAgainstKg(g, cfg.matcher, tokens))

BroadText(r, req, W, cfg, files) ==
  RankText(req, W, cfg, Indexed(r, ToSet(files)), files, tokenizeFailure(r, req.failure.text))

runFreeTextRca(r, req, W, cfg) ==
  BroadText(r, req, W, cfg, collectBroadScope(r, req.budget.maxFiles))

\* A file's request ranks around every declaration of every seed; the others
\* around one symbol.
RankSeeds(scope, keys, merged) == finalizeResult(scope.files, merged.top, keys, merged.candidates)

RankOne(req, g, W, scope, anchor) ==
  IF anchor = Nowhere THEN Untold(scope.files, Nowhere)
  ELSE LET seed == SeedOf(g, anchor)
       IN finalizeResult(scope.files, anchor, <<seed>>, OneAnchor(g, W, seed, <<>>, req.topN).chain)

SeedKeys(g, seeds) ==
  LET Decls(f) == SelectSeq(symbolsInFile(g, f), LAMBDA s : g.kind[s] \in Declared)
      all == FlattenSeq([i \in DOMAIN seeds |-> Decls(seeds[i])])
  IN [i \in DOMAIN all |-> Key(g, all[i])]

RankAround(req, g, W, scope, keys) ==
  IF req.failure.kind = "file" /\ keys # <<>>
  THEN RankSeeds(scope, keys, runMultiAnchor(g, W, keys, req.topN))
  ELSE RankOne(req, g, W, scope, PickAnchor(g, scope))

RankIn(req, g, W, scope) == RankAround(req, g, W, scope, SeedKeys(g, scope.seeds))

RankScope(r, req, W, scope) ==
  IF scope.files = <<>> THEN Untold(<<>>, scope.symbol)
  ELSE RankIn(req, Indexed(r, ToSet(scope.files)), W, scope)

runScopedRca(r, req, W, cfg) ==
  RankScope(r, req, W, resolveScope(r, req.failure, req.budget, cfg.retrieval))

runRca(r, req) ==
  LET cfg == getScoringConfig(r)
  IN IF req.failure.kind = "text" THEN runFreeTextRca(r, req, Weights(r, req), cfg)
     ELSE runScopedRca(r, req, Weights(r, req), cfg)
-----------------------------------------------------------------------------
(* The comment on a pull request that changed lines, a set of hunks, of one *)
(* file.                                                                   *)

Comment(changed, ranked, nodes) ==
  [changedSymbols |-> changed,
   rankedSymbols |-> topRankedSymbols(ranked, changed, 3),
   nodes |-> nodes,
   totalAffected |-> Len(SelectSeq(nodes, LAMBDA n : n.distance > 0)),
   topUntested |-> pickTopUntested(nodes, 3)]

AnalyzeSymbols(r, g, changed) ==
  LET Ask(k)  == [failure |-> [kind |-> "symbol", name |-> k[2], file |-> k[1]], legacy |-> FALSE,
                  topN |-> 5, budget |-> [maxFiles |-> 200, maxLoc |-> 20000, maxDepth |-> 2]]
  IN Comment(changed,
       FlattenSeq([i \in DOMAIN changed |-> runRca(r, Ask(changed[i])).causalCandidates]),
       FlattenSeq([i \in DOMAIN changed |-> buildImpact(g, changed[i][2], changed[i][1], 3)]))

AnalyzeIn(r, g, syms) == AnalyzeSymbols(r, g, [i \in DOMAIN syms |-> Key(g, syms[i])])

AnalyzeGraph(r, g, f, hunks) == AnalyzeIn(r, g, findChangedSymbols(g, f, hunks))

analyzeWorktree(r, f, hunks) ==
  AnalyzeGraph(r, Indexed(r, {x \in ToSet(Cut(walk(r), 2000)) : isParseable(r, x)}), f, hunks)
=============================================================================
