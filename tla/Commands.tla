------------------------------ MODULE Commands ------------------------------
(***************************************************************************)
(* The commands of a terminal in one repository (packages/core/src/cli.ts) *)
(* that analyse and query it: through the daemon if it is up, in the       *)
(* process otherwise, on graphs kept in SQLite files.  A graph file is the *)
(* set of the files that it was indexed from; the daemon's is Canonical.   *)
(*                                                                         *)
(* What an index, an analysis or a query computes is a parameter here;     *)
(* module Cli gives the ones of the code.                                  *)
(***************************************************************************)
EXTENDS Naturals, Sequences

CONSTANTS
  Worlds,      \* repositories
  Failures,    \* what rca is called with
  Options,     \* the flags of a command
  Pulls,       \* pull requests: the file changed and its hunks
  Names,       \* names that queries are about
  Paths,       \* paths given to --persist
  NoPath,      \* no --persist
  NoFile,      \* no file is named
  Canonical,   \* the file of the repository in the daemon's directory
  MaxAnalyses, \* bound: analyses asked for
  MaxQueries   \* bound: queries asked

CONSTANTS
  IndexScope(_),          \* the files an index of a repository covers
  Analysis(_, _),         \* runRca of a repository on a request
  Review(_, _, _),        \* analyzeWorktree on a file and its hunks
  Answer(_, _, _, _, _)   \* of a query's kind, name and depth, on these files

ASSUME PathsAssumption == NoPath # Canonical

VARIABLES
  world,   \* the repository; nobody edits it
  daemon,  \* "down", "up", or "open": it holds the repository's graph
  graphs,  \* [path -> the files of the graph there], where there is one
  cut,     \* history: the paths whose graph an analysis was the last to write
  out,     \* what the last command printed
  count    \* of analyses and queries

cliVars == <<world, daemon, graphs, cut, out, count>>

QueryKinds == {"define", "callers", "callees", "changed"}

Whole == IndexScope(world)

CliInit ==
  /\ world \in Worlds
  /\ daemon \in {"down", "up"}
  /\ graphs = <<>> /\ cut = {}
  /\ out = [command |-> "none"]
  /\ count = [rca |-> 0, query |-> 0]

\* spec is [prefix, path, name, text]: an argument with a prefix; the path of a
\* stack trace; or words.
parseFailure(spec, legacyParse) ==
  CASE spec.prefix = "symbol:" -> [kind |-> "symbol", name |-> spec.name, file |-> NoFile]
    [] spec.prefix = "file:"   -> [kind |-> "file", path |-> spec.path]
    [] spec.prefix = "test:"   -> [kind |-> "test", path |-> spec.path]
    [] spec.prefix = "trace"   -> [kind |-> "stack", frames |-> spec.frames]
    [] spec.prefix = "none"    -> IF legacyParse
                                  THEN [kind |-> "symbol", name |-> Head(spec.text).word, file |-> NoFile]
                                  ELSE [kind |-> "text", text |-> spec.text]

\* The graph files of g with that at path written.
Write(g, path, files) ==
  [p \in DOMAIN g \cup {path} |-> IF p = path THEN files ELSE g[p]]

\* How far tryDaemon gets: no daemon, --no-daemon or an error before anything
\* was done ("none"), work done whose answer is an error or misses callDaemon's
\* five seconds ("lost"), or an answer.  Short of one the command falls back to
\* its own process; the daemon's work is taken as done by then.
tryDaemon(flags) ==
  IF daemon # "down" /\ ~flags.noDaemon THEN {"answered", "lost", "none"} ELSE {"none"}

\* The daemon takes failure and budget only.
Request(spec, flags, met) ==
  LET warm == met = "answered" IN
  [failure |-> parseFailure(spec, flags.legacyParse), budget |-> flags.budget,
   topN |-> IF warm THEN 5 ELSE flags.topN, legacy |-> flags.legacy /\ ~warm]

\* Where an analysis leaves its graph: the daemon's, and in the process the
\* file that was asked for.
Targets(flags, met) ==
  {p \in {Canonical} : met # "none" \/ flags.persist = NoPath}
    \cup {p \in {flags.persist} : met # "answered" /\ p # NoPath}

\* The result is stamped into the file that was asked for in any case, and
\* what the scope left empty is not indexed.
cmdRca(spec, flags) ==
  /\ count.rca < MaxAnalyses
  /\ count' = [count EXCEPT !.rca = @ + 1]
  /\ \E met \in tryDaemon(flags) :
     \E req \in {Request(spec, flags, met)} : \E result \in {Analysis(world, req)} :
       LET wrote == IF result.files = <<>> THEN {} ELSE Targets(flags, met)
           found == DOMAIN graphs \cup wrote
           bare  == {p \in {flags.persist} : p # NoPath /\ p \notin found}
       IN /\ graphs' = [p \in found \cup bare |->
                          IF p \in bare THEN {}
                          ELSE IF p \in wrote THEN {result.files[i] : i \in DOMAIN result.files}
                          ELSE graphs[p]]
          /\ cut' = cut \cup bare \cup wrote
          /\ out' = [command |-> "rca", req |-> req, result |-> result]
  /\ UNCHANGED <<world, daemon>>

\* reusePersistedDb, or an index that is kept if a path was given.
resolveQueryDb(g, persist) == IF persist \in DOMAIN g THEN g[persist] ELSE Whole

\* Mutant: a daemon that was restarted trusts the file it finds.
getDbTrusting == IF Canonical \in DOMAIN graphs THEN graphs[Canonical] ELSE Whole

\* The daemon bootstraps a repository at the first query.
getDb == IF daemon = "open" /\ Canonical \in DOMAIN graphs THEN graphs[Canonical] ELSE Whole

\* cmdDefine, cmdCallers, cmdCallees, cmdChanged.
cmdQuery(kind, name, depth, flags) ==
  \E met \in tryDaemon(flags) :
    LET warm  == met = "answered"
        base  == IF met = "none" THEN graphs ELSE Write(graphs, Canonical, getDb)
        files == IF warm THEN getDb ELSE resolveQueryDb(base, flags.persist)
    IN /\ count.query < MaxQueries
       /\ count' = [count EXCEPT !.query = @ + 1]
       /\ graphs' = IF warm \/ flags.persist = NoPath THEN base
                    ELSE Write(base, flags.persist, files)
       /\ daemon' = IF met = "none" THEN daemon ELSE "open"
       /\ cut' = IF met # "none" /\ daemon = "up" THEN cut \ {Canonical} ELSE cut
       /\ out' = [command |-> kind, name |-> name, depth |-> depth, warm |-> warm,
                  persist |-> flags.persist, answer |-> Answer(world, kind, name, depth, files)]
       /\ UNCHANGED world

\* cgrca index leaves the daemon's graph alone.
cmdIndex(persist) ==
  /\ count.query < MaxQueries
  /\ count' = [count EXCEPT !.query = @ + 1]
  /\ graphs' = IF persist = NoPath THEN graphs ELSE Write(graphs, persist, Whole)
  /\ cut' = cut \ {persist}
  /\ out' = [command |-> "index"]
  /\ UNCHANGED <<world, daemon>>

\* The GitHub app's analysis of a pull request on the repository.
analyze(f, hunks) ==
  /\ count.rca < MaxAnalyses
  /\ count' = [count EXCEPT !.rca = @ + 1]
  /\ out' = [command |-> "pull", result |-> Review(world, f, hunks)]
  /\ UNCHANGED <<world, daemon, graphs, cut>>

\* cgrca daemon start and stop.
cmdDaemon ==
  /\ count.query < MaxQueries
  /\ count' = [count EXCEPT !.query = @ + 1]
  /\ daemon' = IF daemon = "down" THEN "up" ELSE "down"
  /\ out' = [command |-> "daemon"]
  /\ UNCHANGED <<world, graphs, cut>>

CliNext ==
  \/ \E spec \in Failures, flags \in Options : cmdRca(spec, flags)
  \/ \E kind \in QueryKinds, n \in Names, depth \in 1 .. 5, flags \in Options :
       cmdQuery(kind, n, depth, flags)
  \/ \E p \in Paths \cup {NoPath} : cmdIndex(p)
  \/ \E pull \in Pulls : analyze(pull.file, pull.hunks)
  \/ cmdDaemon

CliSpec == CliInit /\ [][CliNext]_cliVars
-----------------------------------------------------------------------------
\* A query answers for the whole repository, unless the file it reads, the
\* daemon's or that of --persist, is one that an analysis was the last to write.
QueriesAnswer ==
  (out.command \in QueryKinds /\ (IF out.warm THEN Canonical ELSE out.persist) \notin cut)
  => out.answer = Answer(world, out.command, out.name, out.depth, Whole)
=============================================================================
