------------------------------ MODULE MCCgrca ------------------------------
(* A small repository: a package lib, a Python package py/app and src/main   *)
(* with its test, the calls between its symbols and the texts that tell of   *)
(* them.                                                                     *)
EXTENDS Cli, Install, PathSearch, TreeWalk, ScopeGrowth

Sized(small, files) == [f \in files |-> IF f \in small THEN 10 ELSE 40]

AllCalls == <<
  [from |-> 4, to |-> 1, name |-> 1, conf |-> 100],
  [from |-> 1, to |-> 2, name |-> 2, conf |-> 100],
  [from |-> 5, to |-> 4, name |-> 3, conf |-> 50],
  [from |-> 2, to |-> 4, name |-> 3, conf |-> 70],
  [from |-> 4, to |-> 3, name |-> 2, conf |-> 70],
  [from |-> 1, to |-> 0, name |-> 6, conf |-> 50],
  [from |-> 5, to |-> 2, name |-> 2, conf |-> 30]>>

Always == [from |-> 1, to |-> 6, name |-> 5, conf |-> 100]

TheWorld == [
  files |-> 1 .. 7, hidden |-> {}, tests |-> {7},
  path |-> <<<<"lib", "package">>, <<"lib", "src", "index">>, <<"lib", "src", "util">>,
             <<"py", "app", "__init__">>, <<"py", "app", "core">>, <<"src", "main">>,
             <<"src", "main.test">>>>,
  ext |-> <<"json", "ts", "ts", "py", "py", "ts", "ts">>,
  size |-> Sized({2, 4, 7}, 1 .. 7),
  package |-> [f \in 1 .. 7 |-> IF f = 1 THEN <<"@x", "lib">> ELSE <<>>],
  imports |-> <<<<>>, <<[up |-> 0, tail |-> <<"util">>]>>, <<>>,
                <<[up |-> Bare, tail |-> <<"app", "core">>]>>, <<[up |-> 0, tail |-> <<"gone">>]>>,
                <<[up |-> 3, tail |-> <<"x">>], [up |-> Bare, tail |-> <<"@x", "lib">>]>>,
                <<[up |-> 0, tail |-> <<"main">>]>>>>,
  declares |-> <<{}, {1}, {2, 5}, {}, {2}, {3}, {}>>,
  commits |-> <<[files |-> {6, 5}, days |-> 3], [files |-> {2, 3}, days |-> 40],
                [files |-> {6, 5, 2}, days |-> 100], [files |-> {2, 3}, days |-> 400]>>,
  config |-> <<>>,
  symbols |-> 1 .. 6, name |-> <<1, 2, 2, 3, 4, 5>>, file |-> <<2, 3, 5, 6, 7, 3>>,
  exported |-> {1, 4}, kind |-> <<"function", "function", "method", "class", "const", "function">>,
  loc |-> <<20, 60, 5, 140, 1, 30>>, calls |-> Append(AllCalls, Always), binds |-> {<<2, 4>>, <<3, 2>>, <<2, 6>>}, minConf |-> 50,
  changes |-> <<<<[commit |-> "c1", days |-> 3], [commit |-> "c2", days |-> 40]>>,
                <<[commit |-> "c1", days |-> 3]>>, <<[commit |-> "c2", days |-> 40]>>,
                <<[commit |-> "c2", days |-> 40], [commit |-> "c3", days |-> 100]>>, <<>>, <<[commit |-> "c2", days |-> 40]>>>>,
  stdlib |-> {}, mentions |-> [f \in 1 .. 7 |-> IF f = 7 THEN {3} ELSE {}],
  length |-> <<5, 4, 8, 6, 8, 5, 4, 3, 9>>, lower |-> <<1, 2, 5, 4, 5, 6, 7, 8, 9>>,
  pieces |-> [w \in 1 .. 9 |-> IF w = 3 THEN <<7, 9>> ELSE <<w>>], stop |-> {8},
  within |-> <<[name |-> {1, 7}, signature |-> {9}, body |-> {5}],
               [name |-> {2}, signature |-> {}, body |-> {9}],
               [name |-> {2}, signature |-> {6}, body |-> {}],
               [name |-> {5, 7}, signature |-> {5}, body |-> {}],
               [name |-> {4}, signature |-> {}, body |-> {5}],
               [name |-> {5}, signature |-> {7}, body |-> {}]>>,
  locals |-> [f \in 1 .. 7 |-> IF f = 7 THEN {3} ELSE {}]]

Tuned == [matcher |-> [substring_name_per_token_cap |-> 1],
          augmenter |-> [matcher_tail_topn_multiplier |-> 1, matcher_tail_floor |-> 3],
          retrieval |-> [free_text_seed_cap |-> 2, cochange_seed_topn |-> 1],
          scorer |-> [recency |-> 9000]]

\* Every subset of the calls; with all of them also other files and settings.
SomeWorlds ==
  {[TheWorld EXCEPT !.calls = SelectSeq(AllCalls, LAMBDA e : e \in S) \o <<Always>>] :
     S \in SUBSET ToSet(AllCalls)}
  \cup {[TheWorld EXCEPT !.config = Tuned], [TheWorld EXCEPT !.config = Tuned, !.binds = {}],
        [TheWorld EXCEPT !.hidden = {5}, !.exported = {}], [TheWorld EXCEPT !.commits = <<>>],
        [TheWorld EXCEPT !.name[6] = 2, !.calls[8].name = 2],
        [TheWorld EXCEPT !.calls = @ \o <<[from |-> 2, to |-> 3, name |-> 2, conf |-> 70],
                                          [from |-> 3, to |-> 5, name |-> 4, conf |-> 70]>>]}

SomeFailures ==
  {[prefix |-> "symbol:", name |-> n] : n \in {1, 2, 9}}
  \cup {[prefix |-> "file:", path |-> f] : f \in {3, 6, 9}}
  \cup {[prefix |-> "test:", path |-> 7],
        [prefix |-> "trace", frames |-> <<[text |-> "/usr/x", file |-> 9, symbol |-> 6],
                                          [text |-> "main", file |-> 6, symbol |-> Nowhere],
                                          [text |-> "./main", file |-> 6, symbol |-> 3],
                                          [text |-> "index", file |-> 2, symbol |-> 1]>>],
        [prefix |-> "none", text |-> <<[word |-> 3, quoted |-> FALSE], [word |-> 8, quoted |-> FALSE],
                                       [word |-> 6, quoted |-> TRUE], [word |-> 2, quoted |-> FALSE]>>],
        [prefix |-> "none", text |-> <<[word |-> 8, quoted |-> FALSE]>>]}

Plain == [noDaemon |-> FALSE, persist |-> NoPath, legacy |-> FALSE, legacyParse |-> FALSE, topN |-> 5,
          budget |-> [maxFiles |-> 200, maxLoc |-> 20000, maxDepth |-> 2]]
SomeFlags ==
  {Plain, [Plain EXCEPT !.noDaemon = TRUE, !.topN = 2],
   [Plain EXCEPT !.persist = "p", !.budget.maxFiles = 2],
   [Plain EXCEPT !.legacy = TRUE, !.budget.maxLoc = 60, !.budget.maxDepth = 1],
   [Plain EXCEPT !.legacyParse = TRUE, !.persist = "p", !.noDaemon = TRUE]}
-----------------------------------------------------------------------------
(* Three terminals, each on its own: cgrca init, one analysis of any of the  *)
(* worlds, and a session of queries and analyses in one of them.  Beside     *)
(* them, one search for a path, one tree and the growth of one scope.        *)

VARIABLE terminal

Cold == [Plain EXCEPT !.noDaemon = TRUE]
SessionFlags == {Plain, Cold, [Cold EXCEPT !.persist = "p"]}
AllFlags == SomeFlags \cup SessionFlags \cup {[Plain EXCEPT !.persist = "p"]}
SomePulls == [file : {2, 3, 6}, hunks : {{}, {<<1, 2>>}, {<<4, 4>>}}]
SessionFailures == {[prefix |-> "symbol:", name |-> 1], [prefix |-> "file:", path |-> 9]}

SomeSymbols == TheWorld.symbols
SomeQuestions == {Question(w, from, to, max) : w \in Worlds, from \in 1 .. 4, to \in {1, 2, 3, 5}, max \in {2, 3}}
                   \cup {Question(TheWorld, 9, 9, 2)}

SomeNodes == TheWorld.symbols
SomeKeys == {Key(w, s) : w \in Worlds, s \in SomeNodes} \cup {<<Nowhere, n>> : n \in 1 .. 6}
SomeTopics == {Topic(w, "up", n, max) : w \in Worlds, n \in 1 .. 4, max \in 1 .. 3}
                \cup {Topic(w, "down", n, max) : w \in Worlds, n \in 1 .. 4, max \in 1 .. 2}
NoTopic == Topic(TheWorld, "up", 9, 1)

SomeBudgets == [maxFiles : {2, 4, 200}, maxLoc : {60, 100, 20000}, maxDepth : 0 .. 2]
ScopedWorlds == {w \in SomeWorlds : w.calls = TheWorld.calls}
                  \cup {[TheWorld EXCEPT !.commits = @ \o @]}
ScopedFailures == {parseFailure(f, FALSE) : f \in {x \in SomeFailures : x.prefix # "none"}}
RequestIn(w, failure, budget, scan) ==
  WishFor(w, budget, getScoringConfig(w).retrieval, scan, Seeds(w, failure, scan.files).seeds)

SomeFiles == TheWorld.files
SomeRequests == {RequestIn(w, failure, budget, ScanFor(w, budget)) :
                   w \in ScopedWorlds, failure \in ScopedFailures, budget \in SomeBudgets}
NoBudget == [maxFiles |-> 2, maxLoc |-> 60, maxDepth |-> 0]
NoRequest == RequestIn(TheWorld, [kind |-> "file", path |-> 9], NoBudget, ScanFor(TheWorld, NoBudget))

MCInit ==
  /\ terminal \in {"init", "analysis", "session", "path", "tree", "scope"}
  /\ \/ terminal = "scope" /\ GrowthInit
     \/ terminal # "scope" /\ wish = NoRequest /\ scope = StartScope(wish)
  /\ \/ terminal = "tree" /\ TreeInit
     \/ terminal # "tree" /\ topic = NoTopic /\ tree = StartTree(topic)
  /\ \/ terminal = "path" /\ PathInit
     \/ terminal # "path" /\ ask = Question(TheWorld, 9, 9, 2) /\ search = StartSearch(ask)
  /\ world \in IF terminal = "analysis" THEN Worlds ELSE {TheWorld}
  /\ daemon \in IF terminal \in {"analysis", "session"} THEN {"down", "up"} ELSE {"down"}
  /\ CliInit
  /\ \/ terminal = "init"
     \/ /\ terminal # "init"
        /\ config = [t \in Editors |-> Empty("nodir")]
        /\ agents = [r \in Repos |-> "none"]
        /\ init = Idle(CHOOSE r \in Repos : TRUE)
  /\ InstallInit

InInit == terminal = "init" /\ UNCHANGED <<terminal, cliVars, pathVars, treeVars, scopeVars>>
InCli(which) == terminal \in which /\ UNCHANGED <<terminal, vars, pathVars, treeVars, scopeVars>>

InPath == terminal = "path" /\ UNCHANGED <<terminal, cliVars, vars, treeVars, scopeVars>>
InTree == terminal = "tree" /\ UNCHANGED <<terminal, cliVars, vars, pathVars, scopeVars>>
InScope == terminal = "scope" /\ UNCHANGED <<terminal, cliVars, vars, pathVars, treeVars>>

MCNext ==
  \/ InPath /\ PathNext
  \/ InTree /\ TreeNext
  \/ InScope /\ GrowthNext
  \/ InInit /\ \E r \in Repos, dryRun \in BOOLEAN : Plan(r, dryRun)
  \/ InInit /\ \E yes \in BOOLEAN : AnswerPlan(yes)
  \/ InInit /\ \E t \in Editors : ReadConfig(t)
  \/ InInit /\ \E t \in Editors, ok \in BOOLEAN : WriteConfig(t, ok)
  \/ InInit /\ \E ok \in BOOLEAN : WriteAgents(ok)
  \/ InInit /\ \E t \in Editors, at \in {"none", "broken"} : WriteHalf(t, at) \/ Interrupt(t, at)
  \/ InInit /\ \E t \in Editors, at \in {"none", "broken", "json"}, others \in SUBSET Foreign,
                  ours \in SUBSET Repos : SaveConfig(t, at, others, ours)
  \/ InInit /\ \E r \in Repos : WriteOwnAgents(r)
  \/ /\ InCli({"analysis", "session"})
     /\ \E spec \in IF terminal = "session" THEN SessionFailures ELSE Failures,
           flags \in IF terminal = "session" THEN SessionFlags \cup {[Plain EXCEPT !.persist = "p"]}
                     ELSE SomeFlags : cmdRca(spec, flags)
  \/ /\ InCli({"analysis"})
     /\ \E pull \in Pulls : analyze(pull.file, pull.hunks)
  \/ /\ InCli({"session"})
     /\ \E kind \in QueryKinds, n \in Names,
           flags \in SessionFlags : cmdQuery(kind, n, 2, flags)
  \/ InCli({"session"}) /\ \E p \in Paths \cup {NoPath} : cmdIndex(p)
  \/ InCli({"session"}) /\ cmdDaemon

MCSpec == MCInit /\ [][MCNext]_<<terminal, cliVars, vars, pathVars, treeVars, scopeVars>>
=============================================================================
