---------------------------- MODULE ScopeGrowth ----------------------------
(***************************************************************************)
(* resolveScope as a behaviour: the scope of one request, step by step,    *)
(* and what it must be in the end.                                         *)
(***************************************************************************)
EXTENDS Scopes

CONSTANTS
  Files,      \* of the repository, as far as a request can name them
  Requests    \* what resolveScope is asked

Members(files) == {files[i] : i \in DOMAIN files}
IsSet(files) == \A i, j \in DOMAIN files : files[i] = files[j] => i = j

\* What a request names is a set, of seeds.
ASSUME RequestsAssumption ==
  /\ Requests \subseteq
       [own : Seq(Files), seeds : Seq(Files), together : [Files -> Seq(Files)],
        imports : [Files -> Seq(Files)], importers : [Files -> Seq(Files)],
        size : [Files -> Nat], maxFiles : Nat, maxLoc : Nat, maxDepth : Nat]
  /\ \A q \in Requests : IsSet(q.own) /\ Members(q.own) \subseteq Members(q.seeds)

VARIABLES
  wish,     \* the request
  scope     \* its scope, as far as it has grown

scopeVars == <<wish, scope>>

GrowthInit == wish \in Requests /\ scope = StartScope(wish)

GrowTogether == scope.pc = "together" /\ scope' = TogetherNext(wish, scope) /\ UNCHANGED wish
GrowImports == scope.pc = "imports" /\ scope' = ImportsNext(wish, scope) /\ UNCHANGED wish
GrowImporters == scope.pc = "importers" /\ scope' = ImportersNext(wish, scope) /\ UNCHANGED wish

GrowthNext == GrowTogether \/ GrowImports \/ GrowImporters

GrowthSpec == GrowthInit /\ [][GrowthNext]_scopeVars
-----------------------------------------------------------------------------
(* What a scope must be.                                                   *)

\* The files of the lists of some files.
Listed(lists, S) == UNION {Members(lists[s]) : s \in S}

\* The seeds with what changed with them, and the files that a scope starts from.
AllSeeds(q) == Members(q.seeds) \cup Listed(q.together, Members(q.seeds))
Base(q) == Members(q.own) \cup Listed(q.together, Members(q.seeds))

\* n imports lead from such a file to the last one of p; the files at most n
\* imports away.
IsChain(q, p, n) == (\A i \in 1..n : p[i] \in Members(q.imports[p[i - 1]])) /\ p[0] \in Base(q)
Ends(q, n) == {p[n] : p \in {chain \in [0..n -> Files] : IsChain(q, chain, n)}}
Near(q, n) == UNION {Ends(q, m) : m \in 0..n}

Wanted(q) == Near(q, q.maxDepth) \cup Listed(q.importers, AllSeeds(q))

\* Only what the request itself names may exceed the budget.
WithinBudget(q, w) ==
  w.files # q.own => Len(w.files) <= q.maxFiles /\ LocOf(q.size, w.files) <= q.maxLoc

\* A scope that was cut has no room, or a file that it wants does not fit.
CutForReason(q, w) ==
  CASE w.cap = "none"     -> Wanted(q) \subseteq Members(w.files)
    [] w.cap = "maxFiles" -> Len(w.files) >= q.maxFiles
    [] w.cap = "maxLoc"   -> \/ LocOf(q.size, w.files) >= q.maxLoc
                             \/ \E f \in Wanted(q) \ Members(w.files) :
                                  LocOf(q.size, w.files) + q.size[f] > q.maxLoc

\* A file that was left out has none farther away taken instead of it.
NearestFirst(q, w) ==
  \A n \in 0..q.maxDepth :
    Near(q, n) \subseteq Members(w.files) \/ Members(w.files) \subseteq Near(q, n)

\* resolveScope collects, once each, the files that a request names, the files
\* that changed with its seeds, what these import up to the depth asked for and
\* what imports the seeds: all of that, or as much of it as the budget
\* allows, the nearest first.  All that it makes a seed is in the scope.
ScopeExact ==
  scope.pc = "done" =>
    /\ IsSet(scope.files)
    /\ Members(wish.own) \subseteq Members(scope.files)
    /\ Members(scope.files) \subseteq Wanted(wish)
    /\ Members(wish.seeds) \subseteq Members(scope.seeds)
    /\ Members(scope.seeds) \subseteq Members(wish.seeds) \cup (AllSeeds(wish) \cap Members(scope.files))
    /\ WithinBudget(wish, scope)
    /\ CutForReason(wish, scope)
    /\ NearestFirst(wish, scope)
=============================================================================
