------------------------------ MODULE Install ------------------------------
(***************************************************************************)
(* cgrca init (packages/core/src/init/install.ts, init/agents-md.ts and    *)
(* cmdInit of cli.ts): it registers cgrca with every editor it detects and *)
(* drops an AGENTS.md, while the editors go on saving their own settings.  *)
(*                                                                         *)
(* An editor's configuration is [at, others, ours]: at is "nodir" if its   *)
(* directory does not exist, "none" if its file does not or is empty,      *)
(* "broken" if init cannot read the servers in the text (a comment, half a *)
(* write, an object where Continue has an array), "json" if it can; others *)
(* are the names of other servers in the text, ours the repositories of    *)
(* the entries named cgrca.                                                *)
(***************************************************************************)
EXTENDS Integers, FiniteSets

CONSTANTS
  Editors,   \* the targets, numbers in the order of buildTargets
  Repos,     \* repositories that init is run in
  Foreign,   \* names of other servers
  MaxSaves   \* bound: how often editors save and users write

ASSUME InstallAssumption == Editors \subseteq Nat /\ MaxSaves \in Nat

VARIABLES
  config,    \* [Editors -> what is on disk]
  agents,    \* [Repos -> AGENTS.md: "none", "user", "cgrca"]
  init,      \* the running init: [pc, repo, todo, read]
  plan,      \* what the user was shown: the editors to be written
  users,     \* history: [Editors -> the other servers that its user wants]
  upset,     \* history: editors whose text init did not understand or cut
             \* off, or that saved between init's read and its write
  fresh,     \* history: editors that appeared after the plan
  saves

vars == <<config, agents, init, plan, users, upset, fresh, saves>>

None == [others |-> {}, ours |-> {}]
Current(t) == t \in init.todo /\ \A u \in init.todo : t <= u
-----------------------------------------------------------------------------
(* The pieces of install.ts.                                               *)

\* Mutant: the new entry is added to what is there.
UpsertAppending(servers, repo) == [servers EXCEPT !.ours = @ \cup {repo}]

\* Our entry replaces those of its name; the others stay.
Upsert(servers, repo) == [servers EXCEPT !.ours = {repo}]

\* What cannot be parsed reads like a file that is not there.
readJsonOr(c) == IF c.at = "json" THEN [others |-> c.others, ours |-> c.ours] ELSE None

shouldWrite(c) == c.at # "nodir"

planInit == {t \in Editors : shouldWrite(config[t])}
-----------------------------------------------------------------------------
Configs == [at : {"nodir", "none", "broken", "json"}, others : SUBSET Foreign, ours : SUBSET Repos]

Empty(at) == [at |-> at, others |-> {}, ours |-> {}]
Idle(repo) == [pc |-> "idle", repo |-> repo, todo |-> {}, read |-> None]

InstallInit ==
  /\ config \in [Editors -> {Empty("nodir"), Empty("none")}
                            \cup {[at |-> a, others |-> S, ours |-> {}] :
                                    a \in {"json", "broken"}, S \in SUBSET Foreign}]
  /\ agents \in [Repos -> {"none", "user"}]
  /\ init \in {Idle(r) : r \in Repos}
  /\ plan = {} /\ upset = {} /\ fresh = {} /\ saves = 0
  /\ users = [t \in Editors |-> config[t].others]

\* The plan is shown; a dry run ends here.
Plan(repo, dryRun) ==
  /\ init.pc = "idle"
  /\ plan' = planInit /\ fresh' = {}
  /\ init' = IF dryRun THEN init ELSE [Idle(repo) EXCEPT !.pc = "asked"]
  /\ UNCHANGED <<config, agents, users, upset, saves>>

\* --yes or the answer; without either nothing is written.
AnswerPlan(yes) ==
  /\ init.pc = "asked"
  /\ init' = IF yes THEN [init EXCEPT !.pc = "read", !.todo = Editors] ELSE Idle(init.repo)
  /\ UNCHANGED <<config, agents, plan, users, upset, fresh, saves>>

\* The targets one by one: read, then write, unless it is not detected.
ReadConfig(t) ==
  /\ init.pc = "read" /\ Current(t)
  /\ init' = IF shouldWrite(config[t])
             THEN [init EXCEPT !.pc = "write", !.read = readJsonOr(config[t])]
             ELSE [init EXCEPT !.todo = @ \ {t}]
  /\ upset' = IF config[t].at = "broken" THEN upset \cup {t} ELSE upset
  /\ UNCHANGED <<config, agents, plan, users, fresh, saves>>

\* A write that is refused is reported as skipped.
WriteConfig(t, ok) ==
  /\ init.pc = "write" /\ Current(t)
  /\ config' = IF ok THEN [config EXCEPT ![t] =
                             [at     |-> "json",
                              others |-> Upsert(init.read, init.repo).others,
                              ours   |-> Upsert(init.read, init.repo).ours]]
               ELSE config
  /\ init' = [init EXCEPT !.pc = "read", !.todo = @ \ {t}, !.read = None]
  /\ UNCHANGED <<agents, plan, users, upset, fresh, saves>>

\* So is one that fails after the file was truncated (writeFileSync, disk full).
WriteHalf(t, at) ==
  /\ init.pc = "write" /\ Current(t)
  /\ config' = [config EXCEPT ![t] = Empty(at)]
  /\ upset' = upset \cup {t}
  /\ init' = [init EXCEPT !.pc = "read", !.todo = @ \ {t}, !.read = None]
  /\ UNCHANGED <<agents, plan, users, fresh, saves>>

\* AGENTS.md is only written where there is none.
WriteAgents(ok) ==
  /\ init.pc = "read" /\ init.todo = {}
  /\ agents' = IF ok /\ agents[init.repo] = "none"
               THEN [agents EXCEPT ![init.repo] = "cgrca"] ELSE agents
  /\ init' = Idle(init.repo)
  /\ UNCHANGED <<config, plan, users, upset, fresh, saves>>

\* Ctrl-C; a write that it hits leaves an empty file or half of one.
Interrupt(t, at) ==
  /\ init.pc # "idle" /\ t \in Editors /\ at \in {"none", "broken"}
  /\ init' = Idle(init.repo)
  /\ IF init.pc = "write" /\ Current(t)
     THEN /\ config' = [config EXCEPT ![t] = Empty(at)]
          /\ upset' = upset \cup {t}
     ELSE UNCHANGED <<config, upset>>
  /\ UNCHANGED <<agents, plan, users, fresh, saves>>

\* An editor is installed, or it or its user saves the configuration: with
\* other servers, with or without our entry, as JSON or with a comment.
SaveConfig(t, at, others, ours) ==
  /\ saves < MaxSaves /\ saves' = saves + 1
  /\ at # "nodir" /\ (at = "none" => others = {} /\ ours = {}) /\ ours \subseteq config[t].ours
  /\ config' = [config EXCEPT ![t] = [at |-> at, others |-> others, ours |-> ours]]
  /\ users' = [users EXCEPT ![t] = others]
  /\ upset' = IF init.pc = "write" /\ Current(t) THEN upset \cup {t} ELSE upset \ {t}
  /\ fresh' = IF config[t].at = "nodir" THEN fresh \cup {t} ELSE fresh
  /\ UNCHANGED <<agents, init, plan>>

\* A user writes an AGENTS.md of their own.
WriteOwnAgents(r) ==
  /\ saves < MaxSaves /\ saves' = saves + 1
  /\ agents' = [agents EXCEPT ![r] = "user"]
  /\ UNCHANGED <<config, init, plan, users, upset, fresh>>

InstallNext ==
  \/ \E r \in Repos, dryRun \in BOOLEAN : Plan(r, dryRun)
  \/ \E b \in BOOLEAN : AnswerPlan(b) \/ WriteAgents(b)
  \/ \E t \in Editors : ReadConfig(t) \/ \E ok \in BOOLEAN : WriteConfig(t, ok)
  \/ \E t \in Editors, at \in {"none", "broken"} : WriteHalf(t, at) \/ Interrupt(t, at)
  \/ \E t \in Editors, at \in {"none", "broken", "json"}, others \in SUBSET Foreign,
        ours \in SUBSET Repos : SaveConfig(t, at, others, ours)
  \/ \E r \in Repos : WriteOwnAgents(r)

InstallSpec == InstallInit /\ [][InstallNext]_vars
-----------------------------------------------------------------------------
InstallTypeOK ==
  /\ config \in [Editors -> Configs]
  /\ agents \in [Repos -> {"none", "user", "cgrca"}]
  /\ init \in [pc : {"idle", "asked", "read", "write"}, repo : Repos, todo : SUBSET Editors,
               read : [others : SUBSET Foreign, ours : SUBSET Repos]]
  /\ plan \subseteq Editors /\ upset \subseteq Editors /\ fresh \subseteq Editors
  /\ users \in [Editors -> SUBSET Foreign]
  /\ saves \in 0 .. MaxSaves

\* "Non-destructive: never deletes existing MCP entries we don't own"
\* (install.ts:14) and never a second entry of our own, however often init is
\* run, refused, cut off or overtaken by an editor; except for an editor whose
\* text it could not read, whose write was cut off, or that saved during its
\* turn.  What it writes was in the plan that the user has seen, unless the
\* editor appeared after it.
InitKeepsOthers ==
  /\ \A t \in Editors \ upset : config[t].others = users[t]
  /\ \A t \in Editors : Cardinality(config[t].ours) <= 1
  /\ init.pc = "write" => \E t \in plan \cup fresh : Current(t)
=============================================================================
