------------------------------ MODULE Scoping ------------------------------
(***************************************************************************)
(* Which files an analysis looks at (packages/core/src/graph/scope.ts and  *)
(* walker.ts).                                                             *)
(*                                                                         *)
(* A repository r is a record.  Its files are numbers in the order of the  *)
(* directory walk; r.path[f] is a file's path, a sequence of names without *)
(* the extension r.ext[f]; r.size[f] its lines; r.imports[f] the           *)
(* specifiers of its imports, [up, tail], up = Bare for one that does not  *)
(* start with a dot; r.declares[f] the names that its text declares;       *)
(* r.hidden the files that an ignored directory or .gitignore hides;       *)
(* r.package[f] the name in a package.json; r.commits its commits, newest  *)
(* first, [files, days] with the age in days; r.config its scoring         *)
(* configuration.                                                          *)
(***************************************************************************)
EXTENDS Integers, Queries, Scopes

CONSTANT ScanFloor   \* a scan stops at no fewer files than this

Bare == 99
TS_EXTS == <<"ts", "tsx", "js">>
PY_EXTS == <<"py", "pyi">>

isParseable(r, f) == r.ext[f] \in ToSet(TS_EXTS) \cup ToSet(PY_EXTS)
isPython(r, f) == r.ext[f] \in ToSet(PY_EXTS)

dirname(path) == IF path = <<>> THEN path ELSE Front(path)

\* The walk passes by what is hidden.
walk(r) == Ordered(r.files \ r.hidden)

collectBroadScope(r, maxFiles) == Cut(SelectSeq(walk(r), LAMBDA f : isParseable(r, f)), maxFiles)

\* The walk ends, truncated, at the first entry after the cap's last file.
scanRepo(r, fileCap) ==
  LET entries == Ordered(r.files)
      parsed(n) == {i \in 1 .. n : entries[i] \notin r.hidden /\ isParseable(r, entries[i])}
      \* how many entries are visited
      n == Max({k \in 0 .. Len(entries) :
                  k = 0 \/ Cardinality(parsed(k - 1)) < fileCap})
      seen  == {entries[i] : i \in 1 .. n} \ r.hidden
      inits == {dirname(r.path[f]) : f \in {x \in seen : /\ Last(r.path[x]) = "__init__"
                                                          /\ r.ext[x] = "py"}}
  IN [files |-> Ordered({f \in seen : isParseable(r, f)}),
      packages |-> {f \in seen : r.package[f] # <<>>},
      pyPackages |-> {d \in inits : dirname(d) \notin inits},
      truncated |-> n < Len(entries)]

\* The nearest package.json above the file, the top directory without one.
subsystemOf(r, f) ==
  LET dirs  == {SubSeq(r.path[f], 1, n) : n \in 1 .. Len(r.path[f]) - 1}
      named == {p \in r.files : r.package[p] # <<>> /\ dirname(r.path[p]) \in dirs}
      near  == {p \in named : \A q \in named : Len(r.path[q]) <= Len(r.path[p])}
  IN IF dirs = {} THEN <<"root">>
     ELSE IF named = {} THEN SubSeq(r.path[f], 1, 1) ELSE r.package[Min(near)]

\* The first of the paths, with the first extension, that is a file.
tryFiles(r, paths, exts) ==
  LET hits == {f \in r.files : r.path[f] \in ToSet(paths) /\ r.ext[f] \in ToSet(exts)}
      Rank(f) == <<CHOOSE i \in DOMAIN paths : paths[i] = r.path[f],
                   CHOOSE i \in DOMAIN exts : exts[i] = r.ext[f]>>
      Best(f) == \A h \in hits : \/ Rank(f)[1] < Rank(h)[1]
                                 \/ Rank(f)[1] = Rank(h)[1] /\ Rank(f)[2] <= Rank(h)[2]
  IN IF hits = {} THEN Nowhere ELSE CHOOSE f \in hits : Best(f)

\* Python stays at the root when the dots lead above it; a path of TypeScript
\* leaves the repository, where no file is taken to be.
resolveRelative(r, from, spec) ==
  LET dir  == dirname(r.path[from])
      base == SubSeq(dir, 1, Len(dir) - spec.up)
      target == base \o spec.tail
  IN IF isPython(r, from) THEN tryFiles(r, <<target, Append(target, "__init__")>>, PY_EXTS)
     ELSE IF spec.up > Len(dir) THEN Nowhere
     ELSE tryFiles(r, <<target, Append(target, "index")>>, TS_EXTS)

\* The longest name that the specifier starts with, and then the shorter ones.
resolvePackage(r, spec, packages) ==
  LET Sub(p) == SubSeq(spec.tail, Len(r.package[p]) + 1, Len(spec.tail))
      fits  == {p \in packages : IsPrefix(r.package[p], spec.tail)}
      Try(p) == LET base == dirname(r.path[p]) \o <<"src">> \o Sub(p)
                IN tryFiles(r, <<base, Append(base, "index")>>, TS_EXTS)
      found == {p \in fits : Try(p) # Nowhere}
      longest == {p \in found : \A q \in found : Len(r.package[q]) <= Len(r.package[p])}
  IN IF found = {} THEN Nowhere ELSE Try(Min(longest))

\* Of two packages of the name the one with the shorter path.
resolveAbsolutePy(r, spec, pyPackages) ==
  LET named == {d \in pyPackages : d # <<>> /\ Last(d) = Head(spec.tail)}
      short == {d \in named : \A e \in named : Len(d) <= Len(e)}
      path  == (CHOOSE d \in short : TRUE) \o Tail(spec.tail)
  IN IF named = {} THEN Nowhere
     ELSE tryFiles(r, (IF Len(spec.tail) = 1 THEN <<>> ELSE <<path>>) \o <<Append(path, "__init__")>>,
                   <<"py">>)

resolveSpec(r, from, spec, scan) ==
  IF spec.up # Bare THEN resolveRelative(r, from, spec)
  ELSE IF isPython(r, from) THEN resolveAbsolutePy(r, spec, scan.pyPackages)
  ELSE resolvePackage(r, spec, scan.packages)

\* Frames [text, file, symbol]: the first of each path, up to five files.
parseStack(frames) ==
  LET first == {i \in DOMAIN frames : \A j \in 1 .. i - 1 : frames[j].text # frames[i].text}
  IN [k \in 1 .. Cardinality(first) |-> frames[Ordered(first)[k]]]

StackSeeds(r, frames) ==
  LET mine == SelectSeq(parseStack(frames),
                        LAMBDA x : x.file \in r.files /\ isParseable(r, x.file))
      first == SelectSeq([i \in DOMAIN mine |-> <<i, mine[i]>>],
                         LAMBDA p : \A j \in 1 .. p[1] - 1 : mine[j].file # p[2].file)
      taken == Cut(first, 5)
      named == SelectSeq(taken, LAMBDA p : p[2].symbol # Nowhere)
  IN [seeds |-> [i \in DOMAIN taken |-> taken[i][2].file],
      symbol |-> IF named = <<>> THEN Nowhere ELSE Head(named)[2].symbol]

findSymbolFiles(r, allFiles, name, file) ==
  SelectSeq(IF file = Nowhere THEN allFiles ELSE <<file>>,
            LAMBDA f : f \in r.files /\ name \in r.declares[f])

\* Files with an import that has the seed's base name among its names.
findCallers(r, allFiles, seed) ==
  SelectSeq(allFiles, LAMBDA f : f # seed /\
    \E spec \in ToSet(r.imports[f]) : Last(r.path[seed]) \in ToSet(spec.tail))

\* Where git fails or takes too long there are no commits.
findCoChangedFiles(r, seed, cfg) ==
  LET recent == SelectSeq(r.commits, LAMBDA c : seed \in c.files /\ c.days <= cfg.cochange_lookback_days)
      with == Cut(recent, 200)
      Count(f) == Cardinality({i \in DOMAIN with : f \in with[i].files})
      First(f) == Min({i \in DOMAIN with : f \in with[i].files})
      often == {f \in UNION {c.files : c \in ToSet(with)} \ {seed} : Count(f) >= cfg.cochange_min_cooccurrences}
  IN Cut(Sorted(Ordered(often), LAMBDA f, h :
           \/ Count(f) > Count(h)
           \/ Count(f) = Count(h) /\ First(f) < First(h)),
         cfg.cochange_seed_topn)
-----------------------------------------------------------------------------
(* resolveScope: the steps of module Scopes, until the scope has grown.    *)

\* What the request names, before anything is added.
Seeds(r, failure, allFiles) ==
  CASE failure.kind \in {"file", "test"} ->
         [seeds |-> IF failure.path \in r.files THEN <<failure.path>> ELSE <<>>, symbol |-> Nowhere]
    [] failure.kind = "symbol" ->
         [seeds |-> findSymbolFiles(r, allFiles, failure.name, failure.file), symbol |-> failure.name]
    [] failure.kind = "stack" -> StackSeeds(r, failure.frames)

\* What the imports of a file resolve to.
ImportedBy(r, scan, f) ==
  [k \in DOMAIN r.imports[f] |-> resolveSpec(r, f, r.imports[f][k], scan)]

WishFor(r, budget, cfg, scan, seeds) ==
  LET Parsed(files) == SelectSeq(files, LAMBDA f : f \in r.files /\ isParseable(r, f))
  IN [own |-> Distinct(Parsed(seeds)), seeds |-> seeds,
      together |-> [f \in r.files |-> Parsed(findCoChangedFiles(r, f, cfg))],
      imports |-> [f \in r.files |-> Parsed(ImportedBy(r, scan, f))],
      importers |-> [f \in r.files |-> findCallers(r, scan.files, f)],
      size |-> r.size, maxFiles |-> budget.maxFiles, maxLoc |-> budget.maxLoc,
      maxDepth |-> budget.maxDepth]

GrowNext(q, w) ==
  CASE w.pc = "together"  -> TogetherNext(q, w)
    [] w.pc = "imports"   -> ImportsNext(q, w)
    [] w.pc = "importers" -> ImportersNext(q, w)

RECURSIVE Grown(_, _)
Grown(q, w) == IF w.pc = "done" THEN w ELSE Grown(q, GrowNext(q, w))

Scope(symbol, w) ==
  [files |-> Ordered(ToSet(w.files)), seeds |-> w.seeds, symbol |-> symbol, cap |-> w.cap]

ScopeOf(r, budget, cfg, scan, named) ==
  LET q == WishFor(r, budget, cfg, scan, named.seeds)
  IN Scope(named.symbol, Grown(q, StartScope(q)))

\* The scan that a budget allows.
ScanFor(r, budget) == scanRepo(r, Max({4 * budget.maxFiles, ScanFloor}))

ScopeIn(r, failure, budget, cfg, scan) ==
  ScopeOf(r, budget, cfg, scan, Seeds(r, failure, scan.files))

resolveScope(r, failure, budget, cfg) ==
  ScopeIn(r, failure, budget, cfg, ScanFor(r, budget))
=============================================================================
