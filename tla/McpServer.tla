----------------------------- MODULE McpServer -----------------------------
(***************************************************************************)
(* The MCP server (packages/core/src/mcp) beside the viewers: tool calls   *)
(* that ask the daemon first and otherwise query the server's own index,   *)
(* the cache of promises that index is kept in, and the selection it       *)
(* publishes to, and reads from, a viewer (bridge.ts).                     *)
(*                                                                         *)
(* The server runs for one repository, so the cache is one entry.  An      *)
(* index is the promise of ensureIndex and the handle it resolves to.  The *)
(* code between two awaits is one action.                                  *)
(***************************************************************************)
EXTENDS Viewer

CONSTANTS
  Calls,     \* tool calls an agent has in progress at a time
  Indexes,   \* promises; one that is settled and forgotten is used again
  Tools      \* the tools agents call

-----------------------------------------------------------------------------
\* What a tool does after the prefix cgrca_: whether it asks the daemon first;
\* whether it queries the cached index, one of its own, or none; and its focus,
\* published with any answer, between two queries in process, or its purpose.
definitionOf       == [daemon |-> TRUE,  index |-> "cached", focus |-> "any"]
callersOf          == [daemon |-> TRUE,  index |-> "cached", focus |-> "between"]
calleesOf          == [daemon |-> TRUE,  index |-> "cached", focus |-> "between"]
recentlyChangedNear == [daemon |-> TRUE, index |-> "cached", focus |-> "none"]
symbolsInFile      == [daemon |-> FALSE, index |-> "cached", focus |-> "none"]
rca                == [daemon |-> TRUE,  index |-> "own",    focus |-> "none"]
rcaPrompt          == [daemon |-> TRUE,  index |-> "own",    focus |-> "none"]
rcaWithReasoning   == [daemon |-> FALSE, index |-> "own",    focus |-> "none"]
enrichCandidates   == [daemon |-> FALSE, index |-> "own",    focus |-> "none"]
currentSelection   == [daemon |-> FALSE, index |-> "none",   focus |-> "get"]
publishSelection   == [daemon |-> FALSE, index |-> "none",   focus |-> "post"]

ToolKinds == [daemon : BOOLEAN, index : {"cached", "own", "none"},
              focus : {"any", "between", "none", "get", "post"}]

AllTools == {definitionOf, callersOf, calleesOf, recentlyChangedNear, symbolsInFile,
             rca, rcaPrompt, rcaWithReasoning, enrichCandidates,
             currentSelection, publishSelection}

ASSUME McpAssumption ==
  Indexes \subseteq Nat /\ None \notin Indexes /\ Tools \subseteq AllTools

VARIABLES
  peer,   \* the port read from bridge.json when the server started, or None
  call,   \* each tool call: its tool, what it awaits, the index it has
  cache,  \* _indexCache.get(repoRoot)
  index,  \* each promise
  lost    \* auxiliary: promises deleted from the cache by a caller that had
          \* awaited another one

mcp     == <<peer, call, cache, index, lost>>
mcpVars == <<viewerVars, mcp>>

Idle    == [tool |-> symbolsInFile, pc |-> "idle", on |-> None]
Active(c) == call[c].pc # "idle"

McpInit ==
  /\ ViewerInit
  /\ peer = None
  /\ call = [c \in Calls |-> Idle]
  /\ cache = None
  /\ index = [i \in Indexes |-> [state |-> "free", stale |-> FALSE]]
  /\ lost = {}

Await(c, pc) == call' = [call EXCEPT ![c].pc = pc]

Return(c) == call' = [call EXCEPT ![c] = Idle]

Held == {call[c].on : c \in Calls}

\* A promise nobody can reach any more.
Reusable == {i \in Indexes : index[i].state \in {"free", "failed", "closed"}
                               /\ i # cache /\ i \notin Held \cup lost}
-----------------------------------------------------------------------------
(* ensureIndex.                                                            *)

\* Mutant: the entry that is replaced is closed, whoever uses it.
BeginClosing(c, db, old) ==
  /\ Reusable # {}
  /\ LET i == Min(Reusable)
         closed == [j \in Indexes |-> IF j = cache /\ db[j].state = "open"
                                       THEN [db[j] EXCEPT !.state = "closed"] ELSE db[j]]
     IN /\ index' = [closed EXCEPT ![i] = [state |-> "running", stale |-> FALSE]]
        /\ call' = [call EXCEPT ![c].pc = "own", ![c].on = i]
        /\ cache' = i
  /\ lost' = IF cache \in {old, None} THEN lost ELSE lost \cup {cache}

\* From the eviction loop on: index, and put the promise into the cache, where
\* `old` is what the caller has deleted and `db` the indexes it leaves.
BeginIndex(c, db, old) ==
  /\ Reusable # {}
  /\ LET i == Min(Reusable)
     IN /\ index' = [db EXCEPT ![i] = [state |-> "running", stale |-> FALSE]]
        /\ call' = [call EXCEPT ![c].pc = "own", ![c].on = i]
        /\ cache' = i
  /\ lost' = IF cache \in {old, None} THEN lost ELSE lost \cup {cache}

\* Mutant: the handle is cached, not its promise: a call that finds an index
\* running begins another.
EnsureUncached(c) ==
  /\ call[c].pc = "ensure"
  /\ IF cache # None /\ index[cache].state = "open"
     THEN /\ call' = [call EXCEPT ![c].pc = "wait", ![c].on = cache]
          /\ UNCHANGED <<cache, index, lost>>
     ELSE BeginIndex(c, index, cache)
  /\ UNCHANGED <<viewerVars, peer>>

Ensure(c) ==
  /\ call[c].pc = "ensure"
  /\ IF cache # None
     THEN /\ call' = [call EXCEPT ![c].pc = "wait", ![c].on = cache]
          /\ UNCHANGED <<cache, index, lost>>
     ELSE BeginIndex(c, index, None)
  /\ UNCHANGED <<viewerVars, peer>>

\* `await existing` settles: a fresh handle is returned.  A stale one is closed
\* at once, and the cache's entry deleted whatever it is by now, as it is after
\* a failure.
Woken(c) ==
  LET i == call[c].on IN
  /\ call[c].pc = "wait" /\ index[i].state # "running"
  /\ \/ /\ index[i].state # "failed" /\ ~index[i].stale
        /\ Await(c, "use")
        /\ UNCHANGED <<cache, index, lost>>
     \/ /\ index[i].state # "failed" /\ index[i].stale
        /\ BeginIndex(c, [index EXCEPT ![i].state = "closed"], i)
     \/ /\ index[i].state = "failed"
        /\ BeginIndex(c, index, i)
  /\ UNCHANGED <<viewerVars, peer>>

\* Mutant: the caller that began the index tries again when it has failed.
OwnRetrying(c) ==
  LET i == call[c].on IN
  /\ call[c].pc = "own" /\ index[i].state # "running"
  /\ Await(c, IF index[i].state = "failed" THEN "ensure" ELSE "use")
  /\ UNCHANGED <<viewerVars, peer, cache, index, lost>>

\* The promise a caller has made settles.
Own(c) ==
  LET i == call[c].on IN
  /\ call[c].pc = "own" /\ index[i].state # "running"
  /\ IF index[i].state = "failed" THEN Return(c) ELSE Await(c, "use")
  /\ UNCHANGED <<viewerVars, peer, cache, index, lost>>

\* indexScope ends.  A failed promise is dropped, if it is still cached.
Settle(i, how) ==
  /\ index[i].state = "running"
  /\ index' = [index EXCEPT ![i].state = how]
  /\ cache' = IF how = "failed" /\ cache = i THEN None ELSE cache
  /\ UNCHANGED <<viewerVars, peer, call, lost>>

\* TTL_MS pass.
Expire(i) ==
  /\ Act
  /\ index[i].state = "open" /\ ~index[i].stale
  /\ index' = [index EXCEPT ![i].stale = TRUE]
  /\ UNCHANGED <<served, viewing, peer, call, cache, lost>>
-----------------------------------------------------------------------------
(* Tool calls.                                                             *)

\* An agent starts its server: tryConnectBridge reads bridge.json, once.
Connect ==
  /\ Act
  /\ \A c \in Calls : ~Active(c)
  /\ peer' = file
  /\ UNCHANGED <<served, viewing, call, cache, index, lost>>

InProcess(tool) == CASE tool.index = "own"    -> "private"
                     [] tool.index = "cached" -> "ensure"
                     [] tool.index = "none"   -> "post"

\* The handler runs to its first await.
Ask(c, tool) ==
  /\ Act
  /\ ~Active(c)
  /\ call' = [call EXCEPT ![c] =
       [tool |-> tool, on |-> None,
        pc |-> IF tool.daemon THEN "daemon" ELSE InProcess(tool)]]
  /\ UNCHANGED <<served, viewing, peer, cache, index, lost>>

\* tryDaemon: not up, repo not listed, an error or a timeout all give null, and
\* the call goes on in this process.
NoDaemon(c) ==
  /\ call[c].pc = "daemon"
  /\ Await(c, InProcess(call[c].tool))
  /\ UNCHANGED <<viewerVars, peer, cache, index, lost>>

\* The daemon answers; definitionOf publishes what it found.
Daemon(c) ==
  /\ call[c].pc = "daemon"
  /\ \/ Return(c)
     \/ call[c].tool.focus = "any" /\ peer # None /\ Await(c, "post")
  /\ UNCHANGED <<viewerVars, peer, cache, index, lost>>

\* runRca, enrichCandidates: an index of their own, closed in a finally.
Private(c) ==
  /\ call[c].pc = "private"
  /\ Return(c)
  /\ UNCHANGED <<viewerVars, peer, cache, index, lost>>

\* The query on the handle.  What it finds decides whether a focus is
\* published first; the walks query again after that.
Use(c) ==
  /\ call[c].pc = "use"
  /\ \/ Return(c)
     \/ call[c].tool.focus \in {"any", "between"} /\ peer # None /\ Await(c, "post")
  /\ UNCHANGED <<viewerVars, peer, cache, index, lost>>

\* What a call does when its request to the viewer has ended.
AfterPost(c) == IF call[c].tool.focus = "between" THEN Await(c, "again")
                ELSE Return(c)

\* postSelection, getSelection: answered by whoever listens at that port.
Reply(c) ==
  /\ call[c].pc = "post"
  /\ \/ /\ call[c].tool.focus # "get" /\ peer # None
        /\ \E s \in Symbols : Select(peer, s)
     \/ call[c].tool.focus = "get" /\ UNCHANGED <<current, inbox>>
  /\ AfterPost(c)
  /\ UNCHANGED <<file, up, port, snapshot, sidecar, tab, out, acts, peer, cache, index, lost>>

\* No bridge, or the request fails: the tools go on without it.
NoReply(c) ==
  /\ call[c].pc = "post"
  /\ AfterPost(c)
  /\ UNCHANGED <<viewerVars, peer, cache, index, lost>>

Again(c) ==
  /\ call[c].pc = "again"
  /\ Return(c)
  /\ UNCHANGED <<viewerVars, peer, cache, index, lost>>

Continue(c) ==
  \/ Ensure(c) \/ Woken(c) \/ Own(c) \/ NoDaemon(c) \/ Daemon(c) \/ Private(c)
  \/ Use(c) \/ Reply(c) \/ NoReply(c) \/ Again(c)

McpStep ==
  \/ Connect
  \/ \E c \in Calls : Continue(c) \/ \E tool \in Tools : Ask(c, tool)
  \/ \E i \in Indexes : Expire(i) \/ \E how \in {"open", "failed"} : Settle(i, how)

McpNext == McpStep \/ (ViewerStep /\ UNCHANGED mcp)

McpSpec == McpInit /\ [][McpNext]_mcpVars

\* Awaits end: fetch, RPC and indexing fail or succeed; sockets deliver.
McpFairSpec ==
  /\ McpSpec
  /\ \A c \in Calls : WF_mcpVars(Continue(c))
  /\ \A i \in Indexes : WF_mcpVars(\E how \in {"open", "failed"} : Settle(i, how))
  /\ \A t \in Tabs : WF_mcpVars((Deliver(t) \/ Receive(t) \/ Refetch(t)) /\ UNCHANGED mcp)
-----------------------------------------------------------------------------
McpTypeOK ==
  /\ ViewerTypeOK
  /\ peer \in Ports \cup {None}
  /\ call \in [Calls -> [tool : ToolKinds, on : Indexes \cup {None},
                         pc : {"idle", "daemon", "ensure", "wait", "own", "private",
                               "use", "post", "again"}]]
  /\ cache \in Indexes \cup {None}
  /\ index \in [Indexes -> [state : {"free", "running", "open", "failed", "closed"},
                            stale : BOOLEAN]]
  /\ lost \subseteq Indexes

\* server.ts:82-85: no call that is about to query a handle finds it closed by
\* another one, unless the five minutes of that handle are over.
ClosedOnlyWhenStale ==
  \A c \in Calls : call[c].pc \in {"use", "again"} /\ index[call[c].on].state = "closed"
                     => index[call[c].on].stale

\* server.ts:91-93, "indexScope runs once": one index at a time, and no handle
\* stays open out of reach, unless a second caller has awaited the same stale
\* or failed promise and deleted the first one's.
IndexesAccounted ==
  \A i \in Indexes : i = cache \/ i \in lost \/ index[i].state \notin {"running", "open"}

CallsEnd == \A c \in Calls : Active(c) ~> ~Active(c)

SelectionsSettle == []<>Quiet

\* Nothing goes on for ever: every tool call is answered, whatever daemon,
\* viewer and index do; and a selection is published once, so that the bridge
\* pauses when users and agents do (state/session.ts: "which would otherwise
\* feedback-loop").
BridgeSettles == CallsEnd /\ SelectionsSettle
=============================================================================
