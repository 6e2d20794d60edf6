# TLA+ verification of code-graph-rca

code-graph-rca ("Halo", `cgrca`) indexes a repository into a sqlite code graph,
answers queries on it, and ranks the likely causes of a failure.  It runs as a
CLI, as a long-lived daemon (`cgrcad`), as an MCP server inside an editor, as a
GitHub app and as a web viewer.  This directory models the processes whose
correctness depends on the order of events and the algorithms they share, and
states what they promise.

## 1. Inventory

| Component | State it keeps | Operations | Interacts with | Correct if |
|---|---|---|---|---|
| daemon lock (`daemon/lockfile.ts`) | `~/.cgrca/daemon.lock` | acquire, read, probe, reclaim, release | every process that starts a daemon; the socket path | one daemon at a time, reachable; a dead one's lock never blocks |
| daemon server (`daemon/server.ts`) | maps `repos` and `watchers`, `inflight`, `lastActivity`, `stopping` | ping, status, stop, index, define, callers, callees, changed, rca; idle poller; shutdown | clients over a unix socket, `indexScope`, `runRca`, the watchers | maps hold open handles and live watchers; every request ends |
| watcher (`daemon/watcher.ts`, `reextract.ts`) | `pending` paths, debounce timer, promise chain, `closed` | fs event, flush, processBatch, close | the sqlite file of its repository | the graph converges to what is on disk |
| blob cache (`daemon/cache.ts`) | table `blob_cache` | bulk read, put | `indexScope` | an extraction is that of the hashed content |
| daemon client (`daemon/client.ts`, `protocol.ts`) | one connection, one timer per call | callDaemon, framing | the daemon | a call ends |
| indexer (`graph/orchestrator.ts`, `walker.ts`) | tables files, symbols, edges, imports | clear, walk, hash, extract, insert, resolve | daemon, CLI, MCP, GitHub app | see watcher |
| parser (`graph/parser/`) | none | extractFile | indexer, watcher | (not modelled) |
| resolver (`graph/resolve.ts`) | `edges.to_symbol_id`, `confidence`, `resolution_kind` | resolveEdges, seven passes | indexer, watcher | a link points where the caller gives grounds |
| graph queries (`graph/queries.ts`) | none | definitionOf, callersOf, calleesOf, pathBetween, recentlyChangedNear, symbolsInFile | all front ends | real callers, shortest paths |
| scope (`graph/scope.ts`) | none | failure to a bounded set of files | RCA | all that belongs to it, or as much as the budget allows |
| RCA (`rca/`) | none | seeds, candidates, signals, scores, impact, free text | CLI, daemon, MCP, GitHub app | each symbol with its best score, in that order |
| CLI (`cli.ts`) | graph files, the sidecar | rca, index, define, callers, callees, changed, daemon | daemon, viewer | a query answers for the whole repository |
| init (`init/install.ts`, `agents-md.ts`) | editors' configuration files, `AGENTS.md` | plan, confirm, write | the editors, which write the same files | other servers are kept, ours is there once |
| MCP server (`mcp/server.ts`, `bridge.ts`) | `_indexCache`, the viewer's port | ensureIndex, tools, selection | daemon client, viewer | an index is shared, closed when stale, and not lost |
| GitHub app (`packages/github-app`) | one comment per pull request, one open issue per incident, both on GitHub; a temporary clone | webhook, Action run, incident, upsert with retry | GitHub's API, people, git, RCA | one document per key, whose report is not lost |
| viewer server (`packages/ui/server`) | `bridge.json`, sessions with snapshots, one selection, sockets | listen, publish, notify, shut down | CLI, MCP, tabs | tabs and agents see the same selection |
| viewer web (`packages/ui/web`) | a tab's selection, socket, and what it fetched | click, mirror, refetch | viewer server | selections do not echo for ever |
| LLM providers (`rca/llm/`) | none | one HTTP call | RCA, MCP | (not modelled) |

Three kinds of behaviour are hard here.

* The daemon, the MCP server and the watcher are one thread each, but every
  request is a chain of continuations, and requests, batches, timers and
  shutdown interleave between any two of them while they share maps, promises
  and one sqlite file.
* Several processes share files and ports without a lock that covers them: the
  lockfile and the socket, `bridge.json`, editors' configurations, graph
  files.  Any of them may be killed between two system calls.
* GitHub's API fails, half fails (the answer is lost, the comment is there),
  and is used by people at the same time.

The algorithms are hard in another way: a walk with a visited set, budgets that
stop halfway and merges of several rankings are right on the graphs of the unit
tests, and the question is on which others.

## 2. Plan

Each step is a module with its runs and, where it pays, its proofs.

1. `DaemonLock` with the abstract specification `SingleDaemon` (done, proved).
2. `Daemon`: the request loop (done, proved).
3. `Resolve` and `RepoIndex`: the tables, the passes that link them, and how
   cache, index and watcher keep them, with the abstract specification `Mirror`
   (done, proved).
4. `GitHubApp`: comments and issues (done, proved).
5. `Viewer`, and `McpServer` composed with it (done, proved).
6. `Install`: editor configurations (done, proved).
7. `Commands`, what the terminal leaves behind (done, proved); the algorithms,
   `Queries` to `Rca`, and `Cli`, which runs them against kept graphs (done;
   model-checked).
8. The searches as steps, which `Queries` and `Scoping` iterate: `Paths` and
   `PathSearch` for `pathBetween`, `Trees` and `TreeWalk` for `callersOf` and
   `calleesOf`, `Scopes` and `ScopeGrowth` for `resolveScope` (done, proved).
9. Left: `enrichCandidates` and `recentActivity`; the queries of the viewer's
   routes; the client's framing; the merge of several seeds' rankings as steps,
   and a proof about it.

## 3. Modules

### `DaemonLock`, `SingleDaemon`, `MCDaemonLock`, `DaemonLockProofs`

One process per potential daemon; its program counter walks through
`acquireLock` (open `wx`, write, or read, probe, unlink, retry), the socket
clean-up and `listen` of `startDaemon`, and `stop()`.  Each system call is one
action, and `Crash` may end a process before any of them.  `lockFile` is the
process whose file is at the path, `lockText` whether its pid is in it yet.  A
pid is the name of its process; with `PidReuse` a dead daemon's pid may belong
to a stranger later.  `SerialStarts` restricts the behaviours to those in which
no process starts while another is inside `acquireLock`: the guarantees of the
code hold there, and `lock_race` shows that they do not without it.

`SingleDaemon` knows only the owner and whose socket is at the path.  The
refinement maps the owner to the process that created the lockfile and has not
released it or died.

### `Daemon`, `MCDaemon`, `DaemonProofs`

`startDaemon` of `server.ts` for one repository, plus as much of `indexScope`,
`runRca` and the watcher as touches a handle, a map or the rows of a file.

* The event loop is explicit.  `mtq` is the queue of promise continuations;
  socket data, timers and grammar loads are macrotasks and run only when it is
  empty; `burst` marks the frames of one data event, which are dispatched
  before the continuations they queue.  `indexScope` awaits only in its
  extraction loop: not at all when every blob is cached (the rows are inserted
  in the turn that cleared them), for some microtask turns when grammars are
  loaded, and for a real I/O otherwise (`waiting`).
* `stage[r]` is the continuation request `r` is suspended before; `handle[r]`
  the sqlite handle it opened, which also names the watcher started on it.
* `graph` is the set of files with rows in the sqlite file, shared by all
  handles: the clear empties it, the insert fails if a row is there already.
* `Finish` is the `finally` of `handleFrame`; `outcome` records how the request
  ended: `ok`, `partial` (evaluated while rows of the repository were missing),
  `conflict` (UNIQUE constraint), or who had closed its handle.
* A watcher is modelled by `Flush` (a batch of one file begins) and
  `WriteBatch` (its rows are replaced; on a closed handle the error is
  swallowed).  Debouncing and edits during a batch belong to `RepoIndex`.

Left out: invalid frames (answered without touching any state), the ids and
texts of requests, several repositories (their maps are disjoint), edges and
symbols (they follow their file), failing `openDb`.

### `Resolve`, `ResolveProofs`

The tables `files`, `symbols`, `edges`, `imports` and `arg_bindings` as one
record: `rows` (the version of each path whose rows are in), `bare` (paths
inserted by `reExtractFile`, which writes neither parameter symbols nor
`type_text`), and `link` (`to_symbol_id`, `confidence` in tenths,
`resolution_kind` and `source_symbol_id` of each edge).  What `extractFile`
returns for a version is the constant `Code`; which paths an import specifier
may mean, in the order `tryTsResolve` and the Python rules try them, is the
constant `Lookup`.  `Delete` is `DELETE FROM files` with its cascades and its
`SET NULL`; `ResolveEdges` is the seven passes in their order, one operator
each.  The passes that read the source line of a call read the file as it is on
disk at that moment, not the version indexed (`LineHolds`).

Left out: bodies, signatures and line ranges (a local's parent is given, where
`backfillLocalParents` finds it by range), two symbols of one file with the
same kind, name and parent, two imports of one local name, interfaces (the
resolver looks them up as it does classes).

### `RepoIndex`, `Mirror`, `MCRepoIndex`, `RepoIndexProofs`

`indexScope` against its cache (`BeginIndex`, `ExtractMiss`), the watcher's
callback, timer and chain (`Deliver`, `Flush`), and `processBatch` with its two
cases (`RemoveFile`; `BeginReExtract` and `EndReExtract`, the read and what
follows the await), while `Edit` changes the disk between any two of them.  A
content hash is the content it was taken from.  `Git` chooses between the two
ways to hash: `git hash-object` for all files at once, the text being read later,
or sha256 of the text that is then extracted.

A turn of the event loop is one action, so an edit falls between turns; files of
one batch and misses of one index are taken in any order.  `missed` is an
auxiliary variable: the files edited after an index read them and before its
watcher started, and those for which the cache had an extraction of another
content; nothing repairs either until they are edited again.  An index begins
only when the old watcher's batches are done: the race of the two is `Daemon`'s
`daemon_rewrite_race`.

`Mirror` is what a reader may rely on, and knows neither hashes nor cache,
events, timers or batches: the rows copy the files, all at one moment (`CopyAll`)
and then one by one (`Hold`, `Put`, `Drop`), and a file whose rows are behind is
due, is being copied, or is in `missed`.  The refinement takes for due what is in
an event, in `pending` or in a batch, and for held the re-extraction under way;
without git, nothing is `Doubtful`: `missed` is only what was edited unwatched.

### `GitHubApp`, `MCGitHubApp`, `GitHubAppProofs`

Review comments (`handler.ts`, `idempotency.ts`) and incident issues
(`incident-handler.ts`) follow one protocol, chosen by `kind`: prepare, analyse,
scan the pages of a list for the key's marker, edit the first document found,
else create one.  Every awaited call is one action of the handler `h`, so two
deliveries for one pull request interleave between any two calls.  `CallFails`
is an error without effect; `Update` and `Create` may also take effect and lose
their answer.  `Retry` is `withRetry`: again for a transient error, until
`MaxRetries`.  People write, close, delete and reopen documents, and the process
may be killed.  A body is the number of the push or firing it reports, so that
an older report overwriting a newer one can be told.

`excuses` is auxiliary: it records which of the events has happened that the
code does not guard against and that may leave two documents or an old report.
The properties hold without them, hence they are the complete list.

Left out: the payload parser and signature check of Sentry (functions of one
request), the Markdown, authentication beyond its failing.

### `Viewer`, `McpServer`, `MCMcpServer`, `McpProofs`

`Viewer` has the viewer processes, which take a port, write `bridge.json`, may
crash or shut down; the browser tabs, each with a store, a socket and POSTs under
way; and the terminal that writes a result and notifies.  A click publishes (`Click`),
except on a candidate of the RCA view without file or line (`ClickUnplaced`).
Taking `bridge.json` away and `close()` are one action, since they begin in one
turn; the notification reaches graph tabs too, which ignore it.  POSTs of a tab travel
on several connections and may overtake each other; a socket is in order.
`McpServer` EXTENDS it with one server: `peer` is the port read at start,
`call` the tool calls an agent has in progress, `cache` the entry of
`_indexCache` (a server is started for one repository), `index` the promises and
the handles they resolve to.  The code between two awaits is one action: `Ask`,
`Daemon` and `NoDaemon` the question to the daemon, `Ensure` and `Woken` the two
halves of `ensureIndex`, `Settle` the index itself, `Use`, `Reply` and `Again`
the queries around the publication of the focus.  Tools are records of what
they ask and publish; the run takes one of each kind.  `lost` and `synced` are
auxiliary.

### `Queries`, `Scoping`, `Matching`, `Ranking`, `Rca`; `Commands`, `Cli`, `TerminalProofs`

`Queries` to `Rca` are a chain of EXTENDS without variables.  `Queries` are the walks over
an indexed graph, `Scoping` the files a failure concerns, `Matching` the tokens
of free text against the graph, `Ranking` candidates, signals and scores,
test coverage, recency and impact, `Rca` the assembly for each kind of failure and
for a pull request.  The graph and the repository are records; names, files,
words and symbols are numbers in the order the database or the alphabet gives
them, paths are sequences of segments, a file's size is its lines.  Signals are
hundredths and weights ten-thousandths; complexity is a logarithm in the code
and doubling steps here, the shares of a commit are a rounded table.  A git call that fails or takes too
long counts as one that finds no commits.  Left out: files beside the repository
that a relative import of TypeScript may lead to, and `--since` (the default
window is kept).  Order matters
throughout (budgets, `LIMIT`, ties keep their place), so results are sequences
built by folds over sequences and never sets.

`Commands` keeps what the commands leave behind: which files each graph file was
indexed from (`graphs`), whether the daemon is up and holds one, and what was
printed last (`out`).  `tryDaemon` says how far a command gets with the daemon: an
answer, work done whose answer is an error or comes too late, or nothing; without
an answer the command does the work itself.  What an index scopes and what analyses and queries compute
are parameters, so that which file a query reads can be reasoned about without
them.  `cut` is a history variable: the files whose graph an analysis was the
last to write.  `Cli` puts `Rca` in for the parameters and compares `out` with
reference definitions: sets reached in n steps, the maximum over all seeds'
chains, the least distance.

### `Paths`, `PathSearch`; `Trees`, `TreeWalk`; `Scopes`, `ScopeGrowth`; `SearchProofs`

Three algorithms are written as functions from one state of their work to the
next, so that they can be reasoned about.  `Queries` and `Scoping` iterate these
steps until the work is done, so that every analysis and query computes with
them; the second module of each pair makes each step an action and says what the
result must be, in a definition that knows none of the algorithm's own data.

* `Paths` has the loops of `pathBetween`: a seed, an entry of the queue, a row, or
  a crumb of the way back.  The state has the variables of the code (`queue`,
  `parents`, `cursor`) and what is left of its `for` loops (`todo`, `rows`); the
  two loops over rows are one, calls first.  `PathSearch` speaks of walks: a walk
  of n hops is a function on 0..n.
* `Trees` has `walkUp` and `walkDown`: a seed, a row, or a return.  The recursion is
  a stack of calls, each with its symbol, the node it hangs things under
  (`outList`), the depth left and the rows it has not read; `seen` is the domain
  of `parent`, and `visited` is the code's.  What differs between the two ways,
  the rows read at a symbol, is part of the topic.  `TreeWalk` says that a tree is
  one, that a node hangs where it does because a row says so, and how far the
  tree is complete.
* `Scopes` has the loops of `resolveScope` once its seeds are known: one call of
  `addFile` in each step, or one list of files that is read (what changed with a
  file, what it imports, what imports it).  `cap` is why the code stopped.  A
  request holds the lists as the code reads them: what a specifier resolves to,
  the scan, the co-change count and the search for importers stay in
  `Scoping`.  `ScopeGrowth` says what belongs to a request, by chains of imports
  as functions on 0..n, and what the budget may do to it.

### `Install`, `TerminalProofs`

`init` plans, shows the plan, and for each editor reads, replaces its entry and
writes; a write may fail before or after the file was truncated (`WriteConfig`,
`WriteHalf`); `SaveConfig` is the editor doing the same without asking.  A
configuration is the set of the other servers and of our entries, or a text init
cannot read.  `users` is what the user wants, `upset` the editors for which the
code cannot know it.

### `MCCgrca`

A repository of seven files with packages, tests and eight calls, and three
terminals, each on its own: `init`; one analysis of any of 134 variants of the
repository (every subset of seven of its calls, other settings, ignored files,
no history, a name declared twice, one more call between two symbols of one
name) for any of ten failures and five sets of
flags, or a pull request; and a session of queries and analyses in one of them.
Three more parts are one search each: for a path in any of these graphs, between
any two of some names; for the callers or callees of a name, in any of them; and
for the scope of any failure that names code, with each of 27 budgets, in those
variants that have all calls and one with a longer history.  Only the choice among the parts is added to `Cli`,
`Install`, `PathSearch`, `TreeWalk` and `ScopeGrowth`.

## 4. Runs

| Run | Instance | What it shows |
|---|---|---|
| `lock_serial` | 3 processes, starts one at a time, crashes, pid reuse | one owner at a time, who is the one clients reach; a start is refused only for a live owner or a stranger with its pid; a stale lock or socket never keeps a start out; a daemon that ended by itself left no file; the protocol implements `SingleDaemon` |
| `lock_race` | 2 processes at once | violation: both acquire the lock |
| `daemon_serial` | 4 requests in turn, 2 patient connections | every answer is given from the whole repository; shutdown leaves no handle and no watch; the idle poller interrupts nothing |
| `daemon_live` | 2 requests at once, every kind, clients that hang up, edits, fairness | the maps hold open handles and live watchers only; only an index at work, or one that failed, leaves a served repository unwatched; a shutdown ends over a request in progress only if its client has hung up, and closes no handle under a query; every request ends, and so does a shutdown if the clients hang up |
| `daemon_rca_narrows` | query, rca, query | violation: the warm index has shrunk to the scope of the failure |
| `daemon_rewrite_race` | query, edit, index | violation: the old watcher's batch makes the rewrite fail |
| `index_core` | 3 files, 5 contents, 3 edits, 2 indexes, sha256, fairness | every file the watcher could see change ends with the rows of its content, and always gets there; links point only to symbols that are there and that the caller's file gives grounds for, and none is redirected while the files at its ends are not written; resolving again changes nothing; the cache is sound; all of it implements `Mirror` |
| `index_poison` | the same, git | violation: an extraction cached under the hash of an earlier content |
| `github` | 2 deliveries, 2 keys, 2 pages of 1, 1 retry, 2 faults, 2 acts of people, fairness | one document per key but for five named events; what succeeded is written and no older report replaces it but for one; clones go; an incident is answered when filed; other documents are not touched; every delivery ends |
| `mcp` | 2 viewers, 2 tabs, 2 ports, 2 symbols, 2 calls, 4 indexes, 5 acts, fairness | no handle is closed under a call before its five minutes are over; no index runs or stays open out of reach but for one named case; tabs agree with their viewer when nothing is under way; calls end and selections settle |
| `viewer_stale` | one viewer, one tab, 6 acts | violation: the RCA view refetches the result read when the session was loaded |
| `cgrca` | `MCCgrca` | candidates are real, on shortest paths, with the best score of all seeds, in order; queries answer from the whole repository unless an analysis was the last to write the file they read; init keeps other servers; a search for a path ends with a shortest one, or with none if there is none that short; what hangs under a node calls it or is called by it, and the tree is complete near its root; a scope has what belongs to the failure, or as much as its budget allows, the nearest first |

Bounds.  Lock: two processes race, the third is the next start after a crash
during one of them.  Daemon: a conflict needs two requests at once and, in turn,
a third to see what they left; two files tell a partial graph from a whole one;
one turn of extraction is enough to be interleaved, and the runs in turn take
two.  One unloaded grammar in each makes a request wait while the event loop goes
on: only then can the idle poller look, a client hang up and a shutdown end
before the request does.  Index: the caller's import may mean
either of two files, one of which comes to exist or goes, and each file's
contents exercise a different pass (own symbol, own class, only method, import,
standard library, receiver type, argument); three edits are one before, one
during and one after a re-extraction, and the second index finds the cache the
first one filled.  GitHub: two handlers race for one key or use one each; pages of
one document put every document at a page border, and the scan's limit within
reach of two people's comments; one retry is the first and the last; six
documents are all that two handlers, two lost answers and two people can make.  MCP: two calls share
an index, the third finds it stale, and the fourth is there while the others run;
two symbols in two tabs cross; five acts are a viewer's start, an open tab and
three clicks or results.  CLI: see `MCCgrca`; `ScanFloor` (in the code 500 files)
and `MaxLookups` (50) are below the number of files and symbols, so that both
limits bind; one analysis and three queries are enough to write a graph, cut it
and ask it; the longest of the shortest paths has three hops, so that depths 2 and
3 cut some off, and several symbols of one name are several seeds or goals.  Trees
are one to three deep, less and more than what is complete.  Scopes may have 2, 4
or any number of files, 60, 100 or any number of lines and imports to depth 0, 1
or 2: each of the two limits stops some scope at its start and some in each of the
three loops, and never stops others.

Fairness.  `lock_serial` assumes that a started process runs on (`WF` of its
steps), not that anybody starts, stops or kills it, nor that `server.close()`
ever calls back.  `index_core` assumes that extractions, events, timers and
batches go on (`WF`); edits and index requests are not assumed to stop, yet are
bounded, so the watcher has the last word.  `daemon_live` assumes that the event
loop turns: queued continuations run (`WF`), grammar loads complete and a
scheduled `stop()` runs although other macrotasks compete (`SF`).
Clients are assumed to hang up in `StopCompletes` only, where it is part of the
property: `callDaemon` does so on its answer or its timeout.  `github` assumes
that an awaited call is answered or fails (`WF` of each handler's step; a killed
handler has none).  `mcp` assumes that awaits of a call end, that an index
succeeds or fails, and that what was sent to or by a tab is delivered (`WF`);
users, agents and clocks owe nothing.

`CHECK_DEADLOCK FALSE` is set everywhere: a system whose processes have all
ended, whose requests and deliveries are all done and whose users have left,
stops.

### What the violations mean

* `lock_race`: the lockfile exists before the pid is in it, and an empty file
  counts as stale, so `O_EXCL` alone does not decide the race.
* `daemon_rca_narrows`: `rca` passes the repository's database path to
  `runRca`, which indexes the scope of one failure into it.
* `daemon_rewrite_race`: closing a watcher does not wait for its batch.
* `index_poison`: the window is between `git hash-object` and the read of the
  file in the extraction loop; the row does harm when the old content returns.
* `viewer_stale`: the session record keeps the snapshot of its load, and
  `reloadSession` has no caller; the notification arrives, the data is the old
  one.

### Known limits

The properties are worded around these; each was met while modelling.

* Daemon: a second first-query opens a second handle that is never closed; a
  query pipelined behind an index meets the handle that index closes; a request
  whose client hung up maps its handle and starts a watcher after `stop()` has
  emptied the maps; a connection that stays open without a request holds up
  `stop()`.
* Index: an edit made while an index runs and no watcher listens is not seen; a
  re-extracted file has no parameter symbols and no type annotations until the
  next full index; removing a file resolves nothing, so the links of an
  incremental graph may be fewer than, or differ from, those of a full index; an
  edge classified as unresolved and resolved later keeps its `resolution_kind`,
  which only `resolveReceiverTypes` resets.
* GitHub: the five excuses (a creation whose answer is lost is repeated; two first
  deliveries race; an offset page loses a document; a list longer than the scan;
  a reopened issue) and the sixth (an older delivery edits after a newer one).
* MCP: of two callers that wake on one stale or failed promise the second deletes
  what the first has cached (`lost`); a handle is closed under a call that holds
  it once its time is over.
* init: a configuration that is not strict JSON is replaced by our entry alone
  (`install.ts:323`, against line 14), and an editor's save between read and
  write is lost.
* CLI: through the daemon `--persist`, `--top-n` and the legacy weights of `rca`
  are ignored, and the file named by `--persist` is created with nothing but the
  result in it (`cli.ts:403`); a command whose answer from the daemon is lost or
  late does its work a second time; without the daemon `rca` rewrites the daemon's own
  sqlite file.
* Queries and ranking: `callersOf` shares one visited set between depths, so that
  it is complete to depth two, for one symbol of the name; the recency of an
  anchor is that of the first symbol of its name; recency lookups are spent on
  the tree before the anchor is asked; the score of an appended match may be
  zero or less; changed symbols with one name give rows twice
  (`handler.ts:320`); a patch that only deletes counts every symbol of its file;
  `scanRepo` does not follow links to directories where the walk does.

## 5. Proofs

Eight modules prove, for any sets of processes, requests, files, deliveries,
tabs, commands and editors and any bounds, what the runs check on small ones.

* Lock.  `TypeCorrect` and `NothingLeft` hold with no restriction; the
  inductive invariant says that the file at a path belongs to a process that
  created it and has not got past its release.  `OneDaemon`,
  `OneDaemonReachable`, `RefusalIsJustified` and `LockImplementsSingleDaemon`
  assume `SerialStarts`: their invariant adds that the holder's file is the one
  at the path and that a process about to unlink has seen no live holder.
* Daemon.  The scheduler only restricts the order of continuations, so the
  invariants are about stages and handles.  `MappedOnesWork` needs that a request
  between `openDb` and the map is never the mapped one (otherwise `index` could
  close the handle it is about to map).  `StopSparesClients` needs that shutdown
  ends only after every connection has (`StopInv`), and that a query which holds a
  handle is in the queue of continuations, which the turn that ends a shutdown
  finds empty (`SpareInv`): so no query meets a handle that shutdown closed,
  whether or not its client is still there.  `IdleIsIdle` rests on `inflight` being the
  number of requests in progress through every error path.  `ServedIsWatched`
  follows each index to its end.  `StopLeavesNothing` and `TurnsAreServed` assume
  `TakeTurns`: one request at a time, clients that wait for their answers, no
  edits.  Each assumption is needed: two first queries leave a handle that nobody
  closes, a request whose client hung up maps its handle after `stop()`, and an
  old watcher's batch breaks a rewrite (`daemon_rewrite_race`).  `OwnInv` says that
  in turn every open handle and watcher is the mapped one or the running
  request's, `WholeInv` that what the next request finds in the sqlite file is the
  whole repository; the second also excludes `rca`, which
  `daemon_rca_narrows` refutes.
* Graph.  `ResolveRelinks` (every pass makes a link only where there is none and
  to a symbol the call's file gives grounds for, and changes no row),
  `DeleteKeeps`, `InsertKeeps` and `ReplaceKeeps` (which say what they do to the
  rows, the links, and the links between other files) hold for any tables; with
  them `LinksAreSound` is an invariant and an action property that each of the
  watcher's and the indexer's writes preserves.
  `ResolveTwice` is the idempotence of `resolveEdges`, for any tables: `Settled`
  says for each of the seven passes that it would do nothing; each pass settles
  its own conjunct (`SameFileSettles` and so on) and disturbs no earlier one, since
  later passes only resolve more (`LinkedStays`), and leave the confidence
  (`CappedStays`) and the reason (`ReasonStays`) of what stays unresolved.
  `ResolvingTwiceIsOnce` adds that every table the indexer and the watcher write
  has the columns this needs.
* Index.  `GraphConverges` needs more than its property: each file that was not
  missed has its rows, or an event, or a place in a batch, and the file being
  re-extracted is either read as it is on disk or awaited again in a batch after
  this one.  It holds with and without git: what a false cache entry leaves
  behind is in `missed` from the moment the index looks it up.  `CacheNeverLies`
  assumes `Git = FALSE`, without which `index_poison` refutes it.
  `IndexImplementsMirror` maps each step to one of `Mirror`'s: deliveries, batches
  and all but the last turn of the extraction loop are stutters, since a handled
  file leaves the chain and no other does (`HandledDue`), and the last turn writes
  the rows of what is on disk, by the invariant of `GraphConverges`.
* GitHub.  `TypeCorrect`, `ClonesAreRemoved` (a clone belongs to a handler between
  its preparation and its end) and `OthersAreUntouched` follow from the
  invariant that `found` is a document with the handler's marker, which needs that
  markers never change.  `SuccessesAreTrue`
  compares a state with an earlier one: a lemma on steps (`DocsKept`) says that
  markers stay and bodies only grow unless an older delivery edits late, so that
  what was true when the handler ended is true ever after.  The first document
  found is the least of a set; that it is in the set comes from the
  well-foundedness of `<`, since the library's induction theorem takes an
  operator.  `DocumentIsOne` is the hardest: its invariant `OneInv` follows the one
  document of a key through a scan (it is where the pages still to be read are, or
  it is found, or an excuse is recorded), and knows of two handlers at their
  creation that one has recorded the race.
* Viewer and MCP.  `GraphViewsAgree` is proved of the composition, and
  `ViewersAloneAgree` of `ViewerSpec`: the invariant `Agreement` says that the last
  event on a socket, or if there is none what the tab shows, is the viewer's
  selection, which holds although selections overtake each other, because the
  viewer sends to all sockets in the step that stores.  `HandlesStayOpen` and
  `EveryIndexAccounted` rest on `ServerInv`: a call that queries has an index that
  is or was open, closed ones are stale, and whoever takes an index out of the
  cache closes it, has seen it fail, or is recorded in `lost`.
* init.  `OthersAreKept`: at every moment the other servers in a file are those
  its user wants, what was read in the current turn is what is there, and
  what is still to do was planned or is new.
* Paths.  `PathsAreShortest` holds for any graph, finite or not, any seeds, goals
  and depth.  `PathInv` says that each symbol found has a crumb from one that is a
  hop nearer (`CrumbsLead`), and of the search under way that the queue is in the
  order of the distances, of which it has two at most, and that what has left it
  has led to all it leads to (`Onward`).  Then all that is nearer than what is being
  read is known (`Ball`, from `Covered`, by the least length of a walk that is
  missed), so that a new symbol is as far as its crumbs are long, and the way back
  (`Tracing`) is as long as the goal is far.
* Trees.  `TreesAreExact` holds for any graph, seeds and depth.  `TreeInv` says of
  the calls on the stack that each is of a visited symbol, as far from the seeds as
  depth was spent, and that the node it hangs things under stands for that symbol
  (`FrameFits`); that every row of a visited symbol has its node or is still to be
  read (`RowsKept`); and that the first seed was called with all of the depth, so
  that its rows lead to symbols that are visited or will be (`LedOn`).  A later
  seed may have been visited with less depth left before its turn came: that is
  why the second level is complete for the first one only.
* Scopes.  `ScopesAreExact` holds for any files, requests and budgets.  `GrowthInv`
  knows for each loop what is in the scope already: all that the lists before the
  one being read hold, for the round of depth n all that is n imports away
  (`NearClosed`: files that have the imports of all their own have what any
number of imports leads to), and that nothing has been
  refused so far.  `Offered` splits `addFile` into the file that is there, that
  does not fit and that is taken.  The lines of a scope are a recursive function:
  that a file more adds its own lines (`LocOfMore`) is proved by induction over
  its length as a set of numbers, which is `Nat` if it has no least number
  missing (`AllNumbers`, from `Least`).
* Commands.  `QueriesReadTheWhole`: a file that is not in `cut` was written by an
  index of the whole repository, whether a terminal or the daemon holds it
  (`FilesInv`), whatever the analyses compute.

Assumptions are those the modules name: requests are finitely many, `None` is
no member of the sets it is an absent member of, bounds are naturals, what a
version declares is of the types the tables have, the rows of a question or a
topic name symbols, the lists of a request name files, what it names itself is a
set and is among its seeds, and a tree is at least one deep.

Only model-checked: liveness (`StaleLockNeverBlocks`, `RequestsComplete`,
`StopCompletes`, `WatcherCatchesUp`, `DeliveriesEnd`, `BridgeSettles`), that every
search ends, and `AnalysisExact` (how rankings merge and what a comment
shows, which folds compute over data: to prove that would need induction over an
operator).  `Queries` and `Scoping` declare RECURSIVE operators, so that no theorem
can speak of `pathBetween`, `callersOf` or `resolveScope` as functions; the theorems
are about their steps.

## 6. Not modelled

* The parser: a function of one file's text without state, over syntax trees of
  another library; `Code` of `Resolve` stands for what it returns.
* LLM providers, prompts and the rerank: one HTTP call and the text around it.
* The Sentry payload parser and signature check, the Markdown of comments, the
  output formats of the CLI.
* Framing of the daemon's protocol, HTTP and WebSocket plumbing, the viewer's
  read-only routes, React rendering.
* git, the ignore patterns, the file system beyond the calls named above.
* `tools/calibration` and the evaluation scripts, which run offline on fixed data.
* `enrichCandidates`, `recentActivity` and `unresolvedHints`: readers of a graph,
  which add text to a result and decide nothing.
