--------------------------- MODULE TerminalProofs ---------------------------
(***************************************************************************)
(* What the commands of a terminal leave: what cgrca init does to the      *)
(* configurations of the editors, for any editors, repositories and        *)
(* servers and any number of saves; and what a query may read, for any     *)
(* repositories, any commands and whatever an index, an analysis or a      *)
(* query computes.                                                         *)
(***************************************************************************)
EXTENDS Install, Commands, FiniteSetTheorems, TLAPS

(* cgrca init.                                                             *)

\* Of a set with at most one element.
AtMostOne(S) == \A x, y \in S : x = y

OthersKept == \A t \in Editors \ upset : config[t].others = users[t]
OursOnce == \A t \in Editors : AtMostOne(config[t].ours)

\* Where there is no text there are no servers.
BlankIsEmpty == \A t \in Editors : ~(config[t].at \in {"json", "broken"}) => config[t].others = {}

\* While init runs, an editor that is there was in the plan, unless it came later.
PlanCovers == init.pc # "idle" => \A t \in Editors : config[t].at # "nodir" => t \in plan \cup fresh

\* The editor whose turn it is was in the plan, and init knows its servers.
TurnIsKnown ==
  init.pc = "write" =>
    \E t \in Editors : /\ Current(t) /\ t \in plan \cup fresh
                       /\ t \in upset \/ init.read.others = users[t]

Inv == OthersKept /\ OursOnce /\ BlankIsEmpty /\ PlanCovers /\ TurnIsKnown

LEMMA OneElement ==
  ASSUME NEW S, AtMostOne(S)
  PROVE  Cardinality(S) <= 1
<1>1. CASE S = {}
  BY <1>1, FS_EmptySet
<1>2. CASE S # {}
  <2>1. PICK x \in S : TRUE
    BY <1>2
  <2>2. S = {x}
    BY <2>1 DEF AtMostOne
  <2>3. Cardinality({x}) = 1
    BY FS_Singleton
  <2>. QED
    BY <2>2, <2>3
<1>. QED
  BY <1>1, <1>2

\* Two editors are never both the current one.
LEMMA CurrentIsOne ==
  ASSUME InstallTypeOK, NEW t, NEW u, Current(t), Current(u)
  PROVE  t = u
<1>1. t \in Nat /\ u \in Nat /\ t <= u /\ u <= t
  BY InstallAssumption DEF InstallTypeOK, Current
<1>. QED
  BY <1>1

-----------------------------------------------------------------------------
LEMMA TypeInit == InstallInit => InstallTypeOK
<1>. SUFFICES ASSUME InstallInit PROVE InstallTypeOK
  OBVIOUS
<1>1. config \in [Editors -> Configs]
  BY DEF InstallInit, Configs, Empty
<1>2. init \in [pc : {"idle", "asked", "read", "write"}, repo : Repos, todo : SUBSET Editors,
                read : [others : SUBSET Foreign, ours : SUBSET Repos]]
  BY DEF InstallInit, Idle, None
<1>3. users \in [Editors -> SUBSET Foreign]
  BY <1>1 DEF InstallInit, Configs
<1>. QED
  BY <1>1, <1>2, <1>3, InstallAssumption DEF InstallInit, InstallTypeOK

LEMMA TypeStep == InstallTypeOK /\ [InstallNext]_vars => InstallTypeOK'
<1>. SUFFICES ASSUME InstallTypeOK, [InstallNext]_vars PROVE InstallTypeOK'
  OBVIOUS
<1>. USE DEF InstallTypeOK
<1>1. ASSUME NEW r \in Repos, NEW dryRun \in BOOLEAN, Plan(r, dryRun) PROVE InstallTypeOK'
  BY <1>1 DEF Plan, Idle, None, planInit
<1>2. ASSUME NEW b \in BOOLEAN, AnswerPlan(b) PROVE InstallTypeOK'
  BY <1>2 DEF AnswerPlan, Idle, None
<1>3. ASSUME NEW b \in BOOLEAN, WriteAgents(b) PROVE InstallTypeOK'
  BY <1>3 DEF WriteAgents, Idle, None
<1>4. ASSUME NEW t \in Editors, ReadConfig(t) PROVE InstallTypeOK'
  <2>1. readJsonOr(config[t]) \in [others : SUBSET Foreign, ours : SUBSET Repos]
    BY DEF readJsonOr, None, Configs
  <2>. QED
    BY <1>4, <2>1 DEF ReadConfig
<1>5. ASSUME NEW t \in Editors, NEW ok \in BOOLEAN, WriteConfig(t, ok) PROVE InstallTypeOK'
  <2>1. [at     |-> "json", others |-> Upsert(init.read, init.repo).others,
         ours   |-> Upsert(init.read, init.repo).ours] \in Configs
    BY DEF Upsert, Configs
  <2>2. config' \in [Editors -> Configs]
    BY <1>5, <2>1 DEF WriteConfig
  <2>. QED
    BY <1>5, <2>2 DEF WriteConfig, None
<1>6. ASSUME NEW t \in Editors, NEW at \in {"none", "broken"}, Interrupt(t, at) PROVE InstallTypeOK'
  <2>1. Empty(at) \in Configs
    BY DEF Empty, Configs
  <2>. QED
    BY <1>6, <2>1 DEF Interrupt, Idle, None
<1>7. ASSUME NEW t \in Editors, NEW at \in {"none", "broken", "json"}, NEW others \in SUBSET Foreign,
             NEW ours \in SUBSET Repos, SaveConfig(t, at, others, ours)
      PROVE  InstallTypeOK'
  <2>1. [at |-> at, others |-> others, ours |-> ours] \in Configs
    BY DEF Configs
  <2>2. saves' \in 0 .. MaxSaves
    BY <1>7, InstallAssumption DEF SaveConfig
  <2>. QED
    BY <1>7, <2>1, <2>2 DEF SaveConfig
<1>8. ASSUME NEW r \in Repos, WriteOwnAgents(r) PROVE InstallTypeOK'
  <2>1. saves' \in 0 .. MaxSaves
    BY <1>8, InstallAssumption DEF WriteOwnAgents
  <2>. QED
    BY <1>8, <2>1 DEF WriteOwnAgents
<1>9. CASE UNCHANGED vars
  BY <1>9 DEF vars
<1>10. ASSUME NEW t \in Editors, NEW at \in {"none", "broken"}, WriteHalf(t, at) PROVE InstallTypeOK'
  <2>1. Empty(at) \in Configs
    BY DEF Empty, Configs
  <2>2. config' \in [Editors -> Configs]
    BY <1>10, <2>1 DEF WriteHalf
  <2>. QED
    BY <1>10, <2>2 DEF WriteHalf, None
<1>. QED
  BY <1>1, <1>2, <1>3, <1>4, <1>5, <1>6, <1>7, <1>8, <1>9, <1>10 DEF InstallNext

\* Configurations, plan and the running init keep their types, whatever init,
\* the editors and their users do (install.ts:304).
THEOREM InstallTypeCorrect == InstallSpec => []InstallTypeOK
  BY TypeInit, TypeStep, PTL DEF InstallSpec
-----------------------------------------------------------------------------
LEMMA InvInit == InstallInit => Inv
  BY DEF InstallInit, Inv, OthersKept, OursOnce, AtMostOne, BlankIsEmpty, PlanCovers, TurnIsKnown,
         Idle, Empty

LEMMA PlanStep ==
  ASSUME InstallTypeOK, Inv, NEW r \in Repos, NEW dryRun \in BOOLEAN, Plan(r, dryRun)
  PROVE  Inv'
<1>1. init'.pc # "write" /\ UNCHANGED <<config, users, upset>>
  BY DEF Plan, Idle
<1>2. \A t \in Editors : config[t].at # "nodir" => t \in plan'
  BY DEF Plan, planInit, shouldWrite
<1>. QED
  BY <1>1, <1>2 DEF Inv, OthersKept, OursOnce, AtMostOne, BlankIsEmpty, PlanCovers, TurnIsKnown

LEMMA AnswerStep ==
  ASSUME InstallTypeOK, Inv, NEW yes \in BOOLEAN, AnswerPlan(yes)
  PROVE  Inv'
<1>1. init'.pc # "write" /\ init.pc # "idle" /\ UNCHANGED <<config, users, upset, plan, fresh>>
  BY DEF AnswerPlan, Idle, InstallTypeOK
<1>. QED
  BY <1>1 DEF Inv, OthersKept, OursOnce, AtMostOne, BlankIsEmpty, PlanCovers, TurnIsKnown

LEMMA AgentsStep ==
  ASSUME InstallTypeOK, Inv, NEW ok \in BOOLEAN, WriteAgents(ok)
  PROVE  Inv'
<1>1. init'.pc = "idle" /\ UNCHANGED <<config, users, upset, plan, fresh>>
  BY DEF WriteAgents, Idle
<1>. QED
  BY <1>1 DEF Inv, OthersKept, OursOnce, AtMostOne, BlankIsEmpty, PlanCovers, TurnIsKnown

\* What is read is what the user wants, or the editor is excused.
LEMMA ReadStep ==
  ASSUME InstallTypeOK, Inv, NEW t \in Editors, ReadConfig(t)
  PROVE  Inv'
<1>1. init.pc = "read" /\ Current(t) /\ UNCHANGED <<config, users, plan, fresh>>
  BY DEF ReadConfig
<1>2. OthersKept' /\ OursOnce' /\ BlankIsEmpty'
  BY <1>1 DEF ReadConfig, Inv, OthersKept, OursOnce, AtMostOne, BlankIsEmpty
<1>3. PlanCovers'
  BY <1>1 DEF Inv, PlanCovers
<1>4. TurnIsKnown'
  <2>. SUFFICES ASSUME init'.pc = "write" PROVE TurnIsKnown'
    BY DEF TurnIsKnown
  <2>1. shouldWrite(config[t])
    BY <1>1 DEF ReadConfig, InstallTypeOK
  <2>2. init' = [init EXCEPT !.pc = "write", !.read = readJsonOr(config[t])]
    BY <2>1 DEF ReadConfig
  <2>3. init'.todo = init.todo /\ init'.read = readJsonOr(config[t])
    BY <2>2 DEF InstallTypeOK
  <2>4. Current(t)'
    BY <1>1, <2>3 DEF Current
  <2>5. t \in plan' \cup fresh'
    BY <1>1, <2>1 DEF Inv, PlanCovers, shouldWrite
  <2>6. t \in upset' \/ init'.read.others = users'[t]
    <3>1. CASE config[t].at = "broken"
      BY <3>1 DEF ReadConfig
    <3>2. CASE config[t].at # "broken"
      <4>1. t \in upset \/ config[t].others = users[t]
        BY DEF Inv, OthersKept
      <4>2. readJsonOr(config[t]).others = config[t].others
        BY <3>2 DEF readJsonOr, None, Inv, BlankIsEmpty
      <4>. QED
        BY <1>1, <2>3, <3>2, <4>1, <4>2 DEF ReadConfig
    <3>. QED
      BY <3>1, <3>2
  <2>. QED
    BY <2>4, <2>5, <2>6 DEF TurnIsKnown
<1>. QED
  BY <1>2, <1>3, <1>4 DEF Inv

\* The current editor keeps the servers that were read.
LEMMA WriteStep ==
  ASSUME InstallTypeOK, Inv, NEW t \in Editors, NEW ok \in BOOLEAN, WriteConfig(t, ok)
  PROVE  Inv'
<1>1. init.pc = "write" /\ Current(t) /\ UNCHANGED <<users, plan, fresh, upset>>
  BY DEF WriteConfig
<1>2. init'.pc = "read"
  BY DEF WriteConfig, InstallTypeOK
<1>3. t \in plan \cup fresh /\ (t \in upset \/ init.read.others = users[t])
  BY <1>1, CurrentIsOne DEF Inv, TurnIsKnown
<1>4. CASE ~ok
  BY <1>1, <1>2, <1>4 DEF WriteConfig, Inv, OthersKept, OursOnce, AtMostOne, BlankIsEmpty,
     PlanCovers, TurnIsKnown
<1>5. CASE ok
  <2>1. /\ config'[t].at = "json" /\ config'[t].others = init.read.others
        /\ config'[t].ours = {init.repo}
        /\ \A u \in Editors \ {t} : config'[u] = config[u]
    BY <1>5 DEF WriteConfig, Upsert, InstallTypeOK
  <2>2. OthersKept'
    BY <1>1, <1>3, <2>1 DEF Inv, OthersKept
  <2>3. OursOnce'
    BY <2>1 DEF Inv, OursOnce, AtMostOne
  <2>4. BlankIsEmpty'
    BY <2>1 DEF Inv, BlankIsEmpty
  <2>5. PlanCovers'
    BY <1>1, <1>3, <2>1 DEF Inv, PlanCovers
  <2>. QED
    BY <1>2, <2>2, <2>3, <2>4, <2>5 DEF Inv, TurnIsKnown
<1>. QED
  BY <1>4, <1>5

\* A file that was cut off is empty, and its editor is set aside.
LEMMA HalfStep ==
  ASSUME InstallTypeOK, Inv, NEW t \in Editors, NEW at \in {"none", "broken"}, WriteHalf(t, at)
  PROVE  Inv'
<1>1. /\ init.pc = "write" /\ init'.pc = "read"
      /\ UNCHANGED <<users, plan, fresh>> /\ upset' = upset \cup {t}
      /\ config'[t] = Empty(at) /\ \A u \in Editors \ {t} : config'[u] = config[u]
  BY DEF WriteHalf, InstallTypeOK
<1>2. t \in plan \cup fresh
  BY CurrentIsOne DEF Inv, TurnIsKnown, WriteHalf
<1>3. OthersKept'
  BY <1>1 DEF Inv, OthersKept
<1>4. OursOnce' /\ BlankIsEmpty'
  BY <1>1 DEF Inv, OursOnce, AtMostOne, BlankIsEmpty, Empty
<1>5. PlanCovers' /\ TurnIsKnown'
  BY <1>1, <1>2 DEF Inv, PlanCovers, TurnIsKnown
<1>. QED
  BY <1>3, <1>4, <1>5 DEF Inv

LEMMA InterruptStep ==
  ASSUME InstallTypeOK, Inv, NEW t \in Editors, NEW at \in {"none", "broken"}, Interrupt(t, at)
  PROVE  Inv'
<1>1. init'.pc = "idle" /\ UNCHANGED <<users, plan, fresh>>
  BY DEF Interrupt, Idle
<1>2. PlanCovers' /\ TurnIsKnown'
  BY <1>1 DEF PlanCovers, TurnIsKnown
<1>3. CASE init.pc = "write" /\ Current(t)
  <2>1. /\ config'[t] = Empty(at) /\ upset' = upset \cup {t}
        /\ \A u \in Editors \ {t} : config'[u] = config[u]
    BY <1>3 DEF Interrupt, InstallTypeOK
  <2>2. OthersKept'
    BY <1>1, <2>1 DEF Inv, OthersKept
  <2>3. OursOnce' /\ BlankIsEmpty'
    BY <2>1 DEF Inv, OursOnce, AtMostOne, BlankIsEmpty, Empty
  <2>. QED
    BY <1>2, <2>2, <2>3 DEF Inv
<1>4. CASE ~(init.pc = "write" /\ Current(t))
  <2>1. UNCHANGED <<config, upset>>
    BY <1>4 DEF Interrupt
  <2>. QED
    BY <1>1, <1>2, <2>1 DEF Inv, OthersKept, OursOnce, AtMostOne, BlankIsEmpty
<1>. QED
  BY <1>3, <1>4

\* An editor that saves in its turn is excused, another is not touched.
LEMMA SaveStep ==
  ASSUME InstallTypeOK, Inv, NEW t \in Editors, NEW at \in {"none", "broken", "json"},
         NEW others \in SUBSET Foreign, NEW ours \in SUBSET Repos, SaveConfig(t, at, others, ours)
  PROVE  Inv'
<1>1. /\ config'[t] = [at |-> at, others |-> others, ours |-> ours] /\ users'[t] = others
      /\ \A u \in Editors \ {t} : config'[u] = config[u] /\ users'[u] = users[u]
      /\ ours \subseteq config[t].ours /\ (at = "none" => others = {})
      /\ UNCHANGED <<init, plan>>
  BY DEF SaveConfig, InstallTypeOK
<1>2. /\ \A u \in Editors \ {t} : u \in upset' <=> u \in upset
      /\ (init.pc = "write" /\ Current(t) => t \in upset')
      /\ fresh \subseteq fresh' /\ (config[t].at = "nodir" => t \in fresh')
  BY DEF SaveConfig
<1>3. OthersKept'
  BY <1>1, <1>2 DEF Inv, OthersKept
<1>4. OursOnce'
  BY <1>1 DEF Inv, OursOnce, AtMostOne
<1>5. BlankIsEmpty'
  BY <1>1 DEF Inv, BlankIsEmpty
<1>6. PlanCovers'
  BY <1>1, <1>2 DEF Inv, PlanCovers
<1>7. TurnIsKnown'
  <2>. SUFFICES ASSUME init.pc = "write" PROVE TurnIsKnown'
    BY <1>1 DEF TurnIsKnown
  <2>1. PICK u \in Editors : /\ Current(u) /\ u \in plan \cup fresh
                             /\ u \in upset \/ init.read.others = users[u]
    BY DEF Inv, TurnIsKnown
  <2>2. Current(u)' /\ u \in plan' \cup fresh'
    BY <1>1, <1>2, <2>1 DEF Current
  <2>3. u \in upset' \/ init'.read.others = users'[u]
    BY <1>1, <1>2, <2>1
  <2>. QED
    BY <2>2, <2>3 DEF TurnIsKnown
<1>. QED
  BY <1>3, <1>4, <1>5, <1>6, <1>7 DEF Inv

LEMMA InvStep == InstallTypeOK /\ Inv /\ [InstallNext]_vars => Inv'
<1>. SUFFICES ASSUME InstallTypeOK, Inv, [InstallNext]_vars PROVE Inv'
  OBVIOUS
<1>1. CASE UNCHANGED vars
  BY <1>1 DEF vars, Inv, OthersKept, OursOnce, BlankIsEmpty, PlanCovers, TurnIsKnown, Current
<1>2. ASSUME NEW r \in Repos, WriteOwnAgents(r) PROVE Inv'
  BY <1>2 DEF WriteOwnAgents, Inv, OthersKept, OursOnce, BlankIsEmpty, PlanCovers, TurnIsKnown, Current
<1>. QED
  BY <1>1, <1>2, PlanStep, AnswerStep, AgentsStep, ReadStep, WriteStep, HalfStep, InterruptStep, SaveStep
  DEF InstallNext

LEMMA InvGivesKept == InstallTypeOK /\ Inv => InitKeepsOthers
  BY OneElement DEF Inv, OthersKept, OursOnce, TurnIsKnown, InitKeepsOthers

\* However often init is run, refused or cut off and whoever saves meanwhile,
\* it changes no server of another tool where it is not excused, keeps at most
\* one entry of its own and writes only what the plan announced
\* (install.ts:14, 72, 317).
THEOREM OthersAreKept == InstallSpec => []InitKeepsOthers
<1>1. InstallInit => InstallTypeOK /\ Inv
  BY TypeInit, InvInit
<1>2. (InstallTypeOK /\ Inv) /\ [InstallNext]_vars => (InstallTypeOK /\ Inv)'
  BY TypeStep, InvStep
<1>. QED
  BY <1>1, <1>2, InvGivesKept, PTL DEF InstallSpec
-----------------------------------------------------------------------------
(* Queries.                                                                *)

\* Every graph file that no analysis was the last to write is of the whole
\* repository, a daemon that holds the repository's graph has its file, and
\* without a path nothing is kept.
FilesInv ==
  /\ daemon \in {"down", "up", "open"}
  /\ cut \subseteq DOMAIN graphs
  /\ \A p \in DOMAIN graphs \ cut : graphs[p] = Whole
  /\ daemon = "open" => Canonical \in DOMAIN graphs
  /\ NoPath \notin DOMAIN graphs

AnswerInv == FilesInv /\ QueriesAnswer

LEMMA InitAnswerInv == CliInit => AnswerInv
<1> SUFFICES ASSUME CliInit PROVE AnswerInv
  OBVIOUS
<1>1. DOMAIN graphs = {} /\ cut = {} /\ daemon \in {"down", "up"}
  BY DEF CliInit
<1>2. out.command \notin QueryKinds
  BY DEF CliInit, QueryKinds
<1> QED  BY <1>1, <1>2 DEF AnswerInv, FilesInv, QueriesAnswer

\* The graph files of g are whole but for those in c.
Kept(g, c) ==
  /\ c \subseteq DOMAIN g /\ NoPath \notin DOMAIN g
  /\ \A p \in DOMAIN g \ c : g[p] = Whole

\* Writing a graph of the whole repository lets no other file change.
LEMMA WriteWhole ==
  ASSUME NEW g, NEW c, Kept(g, c), NEW path, NEW files, path \in c \/ files = Whole, path # NoPath
  PROVE  /\ Kept(Write(g, path, files), c)
         /\ DOMAIN Write(g, path, files) = DOMAIN g \cup {path}
         /\ files = Whole => Kept(Write(g, path, files), c \ {path})
BY DEF Kept, Write

\* An analysis writes only what it adds to cut.
LEMMA RcaKeeps ==
  ASSUME AnswerInv, NEW spec, NEW flags, cmdRca(spec, flags)
  PROVE  AnswerInv'
<1>1. PICK met, req, result :
       LET wrote == IF result.files = <<>> THEN {} ELSE Targets(flags, met)
           found == DOMAIN graphs \cup wrote
           bare  == {p \in {flags.persist} : p # NoPath /\ p \notin found}
       IN /\ graphs' = [p \in found \cup bare |->
                          IF p \in bare THEN {}
                          ELSE IF p \in wrote THEN {result.files[i] : i \in DOMAIN result.files}
                          ELSE graphs[p]]
          /\ cut' = cut \cup bare \cup wrote
          /\ out' = [command |-> "rca", req |-> req, result |-> result]
  BY DEF cmdRca
<1> DEFINE wrote == IF result.files = <<>> THEN {} ELSE Targets(flags, met)
           found == DOMAIN graphs \cup wrote
           bare  == {p \in {flags.persist} : p # NoPath /\ p \notin found}
<1>2. /\ DOMAIN graphs' = found \cup bare
      /\ \A p \in found \ bare : p \notin wrote => graphs'[p] = graphs[p]
      /\ cut' = cut \cup bare \cup wrote
  BY <1>1
<1>3. world' = world /\ daemon' = daemon /\ Whole' = Whole
  BY DEF cmdRca, Whole
<1>4. NoPath \notin wrote
  BY PathsAssumption DEF Targets
<1>5. out'.command = "rca"
  BY <1>1
<1> HIDE DEF wrote
<1>6. FilesInv'
  BY <1>2, <1>3, <1>4 DEF AnswerInv, FilesInv
<1> QED  BY <1>5, <1>6 DEF AnswerInv, QueriesAnswer, QueryKinds

\* A query reads the whole repository or a file that is in cut, whether the
\* daemon answered, failed or worked in vain.
LEMMA QueryKeeps ==
  ASSUME AnswerInv, NEW kind \in QueryKinds, NEW name, NEW depth, NEW flags,
         cmdQuery(kind, name, depth, flags)
  PROVE  AnswerInv'
<1>1. PICK met \in tryDaemon(flags) :
    LET warm  == met = "answered"
        base  == IF met = "none" THEN graphs ELSE Write(graphs, Canonical, getDb)
        files == IF warm THEN getDb ELSE resolveQueryDb(base, flags.persist)
    IN /\ graphs' = IF warm \/ flags.persist = NoPath THEN base
                    ELSE Write(base, flags.persist, files)
       /\ daemon' = IF met = "none" THEN daemon ELSE "open"
       /\ cut' = IF met # "none" /\ daemon = "up" THEN cut \ {Canonical} ELSE cut
       /\ out' = [command |-> kind, name |-> name, depth |-> depth, warm |-> warm,
                  persist |-> flags.persist, answer |-> Answer(world, kind, name, depth, files)]
       /\ UNCHANGED world
  BY DEF cmdQuery
<1> DEFINE warm  == met = "answered"
           base  == IF met = "none" THEN graphs ELSE Write(graphs, Canonical, getDb)
           files == IF warm THEN getDb ELSE resolveQueryDb(base, flags.persist)
           left  == IF met # "none" /\ daemon = "up" THEN cut \ {Canonical} ELSE cut
           read  == IF warm THEN Canonical ELSE flags.persist
<1>2. Whole' = Whole
  BY <1>1 DEF Whole
<1>3. /\ Kept(graphs, cut) /\ Canonical # NoPath
      /\ Canonical \in cut \/ getDb = Whole
      /\ daemon = "up" => getDb = Whole
      /\ met = "none" \/ daemon \in {"up", "open"}
  BY PathsAssumption DEF AnswerInv, FilesInv, Kept, getDb, tryDaemon
<1> HIDE DEF getDb
<1>4. Kept(base, left) /\ (met # "none" => Canonical \in DOMAIN base)
  <2>1. CASE met = "none"
    BY <1>3, <2>1
  <2>2. CASE met # "none"
    <3>1. base = Write(graphs, Canonical, getDb)
      BY <2>2
    <3>2. /\ Kept(Write(graphs, Canonical, getDb), cut)
          /\ DOMAIN Write(graphs, Canonical, getDb) = DOMAIN graphs \cup {Canonical}
          /\ getDb = Whole => Kept(Write(graphs, Canonical, getDb), cut \ {Canonical})
      BY <1>3, WriteWhole, Zenon
    <3>3. Canonical \in DOMAIN Write(graphs, Canonical, getDb)
      BY <3>2
    <3> QED  BY <1>3, <2>2, <3>1, <3>2, <3>3, Zenon
  <2> QED  BY <2>1, <2>2
<1>5. warm => read \in left \/ files = Whole
  BY <1>3
<1>6. ~warm => read \in left \/ files = Whole
  BY <1>4 DEF resolveQueryDb, Kept
<1> HIDE DEF base, files, left
<1>7. /\ graphs' = IF warm \/ flags.persist = NoPath THEN base ELSE Write(base, flags.persist, files)
      /\ daemon' = IF met = "none" THEN daemon ELSE "open"
      /\ cut' = left
      /\ out' = [command |-> kind, name |-> name, depth |-> depth, warm |-> warm,
                 persist |-> flags.persist, answer |-> Answer(world, kind, name, depth, files)]
      /\ world' = world
  BY <1>1 DEF base, files, left
<1>8. QueriesAnswer'
  <2>1. /\ out'.command = kind /\ out'.warm = warm /\ out'.persist = flags.persist
        /\ out'.name = name /\ out'.depth = depth
        /\ out'.answer = Answer(world, kind, name, depth, files)
    BY <1>7
  <2> QED  BY <1>2, <1>5, <1>6, <1>7, <2>1 DEF QueriesAnswer
<1>9. Kept(graphs', cut') /\ DOMAIN base \subseteq DOMAIN graphs'
  <2>1. CASE warm \/ flags.persist = NoPath
    BY <1>4, <1>7, <2>1
  <2>2. CASE ~(warm \/ flags.persist = NoPath)
    <3>1. graphs' = Write(base, flags.persist, files) /\ cut' = left
      BY <1>7, <2>2
    <3>2. Kept(base, left) /\ flags.persist # NoPath
      BY <1>4, <2>2
    <3>3. flags.persist \in left \/ files = Whole
      BY <1>6, <2>2
    <3>4. /\ Kept(Write(base, flags.persist, files), left)
          /\ DOMAIN Write(base, flags.persist, files) = DOMAIN base \cup {flags.persist}
      BY <3>2, <3>3, WriteWhole, Zenon
    <3> QED  BY <3>1, <3>4
  <2> QED  BY <2>1, <2>2
<1>10. FilesInv'
  <2>1. daemon \in {"down", "up", "open"} /\ (daemon = "open" => Canonical \in DOMAIN graphs)
    BY DEF AnswerInv, FilesInv
  <2>2. met = "none" => DOMAIN base = DOMAIN graphs
    BY DEF base
  <2> QED  BY <1>2, <1>4, <1>7, <1>9, <2>1, <2>2 DEF FilesInv, Kept
<1> QED  BY <1>8, <1>10 DEF AnswerInv

\* cgrca index makes the file at its path whole.
LEMMA IndexKeeps ==
  ASSUME AnswerInv, NEW persist, cmdIndex(persist)
  PROVE  AnswerInv'
<1>1. /\ world' = world /\ daemon' = daemon /\ Whole' = Whole /\ cut' = cut \ {persist}
      /\ out'.command \notin QueryKinds
      /\ graphs' = IF persist = NoPath THEN graphs ELSE Write(graphs, persist, Whole)
  BY DEF cmdIndex, Whole, QueryKinds
<1>2. CASE persist = NoPath
  <2> QED  BY <1>1, <1>2 DEF AnswerInv, FilesInv, QueriesAnswer
<1>3. CASE persist # NoPath
  <2>1. Kept(graphs, cut)
    BY DEF AnswerInv, FilesInv, Kept
  <2>2. Kept(graphs', cut') /\ DOMAIN graphs' = DOMAIN graphs \cup {persist}
    BY <1>1, <1>3, <2>1, WriteWhole
  <2> QED  BY <1>1, <2>2 DEF AnswerInv, FilesInv, Kept, QueriesAnswer
<1> QED  BY <1>2, <1>3

LEMMA StepAnswerInv == AnswerInv /\ [CliNext]_cliVars => AnswerInv'
<1> SUFFICES ASSUME AnswerInv, [CliNext]_cliVars PROVE AnswerInv'
  OBVIOUS
<1>1. ASSUME NEW f, NEW hunks, analyze(f, hunks) PROVE AnswerInv'
  BY <1>1 DEF analyze, AnswerInv, FilesInv, QueriesAnswer, Whole, QueryKinds
<1>2. CASE cmdDaemon
  BY <1>2 DEF cmdDaemon, AnswerInv, FilesInv, QueriesAnswer, Whole, QueryKinds
<1>3. CASE UNCHANGED cliVars
  BY <1>3 DEF cliVars, AnswerInv, FilesInv, QueriesAnswer, Whole
<1> QED  BY <1>1, <1>2, <1>3, RcaKeeps, QueryKeeps, IndexKeeps DEF CliNext

\* A query is answered from the whole repository unless the file it reads is
\* one that an analysis was the last to write (cli.ts:278, server.ts:95).
THEOREM QueriesReadTheWhole == CliSpec => []QueriesAnswer
<1>1. AnswerInv => QueriesAnswer
  BY DEF AnswerInv
<1> QED  BY <1>1, InitAnswerInv, StepAnswerInv, PTL DEF CliSpec
=============================================================================
