------------------------------- MODULE Daemon -------------------------------
(***************************************************************************)
(* cgrcad's request loop: startDaemon of packages/core/src/daemon/server.ts *)
(* for one repository, with the control flow of indexScope and runRca as   *)
(* far as the daemon's handles, watchers and sqlite file go.               *)
(*                                                                         *)
(* The event loop is explicit.  A macrotask (socket data, a timer, a load  *)
(* that completed) runs only when the microtask queue mtq is empty; the    *)
(* frames of one data event are dispatched back to back, before the        *)
(* continuations they queued; continuations run first in, first out.  A    *)
(* request that opened a database is also the name of that handle and of   *)
(* the watcher started on it.                                              *)
(***************************************************************************)
EXTENDS Integers, Sequences, FiniteSets

CONSTANTS
  Reqs, Conns, None,
  Files,       \* the parseable files of the repository
  ScopeFiles,  \* the files an rca request's failure scope resolves to
  Kinds,       \* which requests the clients send
  MaxBusy,     \* how many requests may be in progress at once
  MaxHops,     \* bound: microtask turns one extraction loop takes
  MaxLoads,    \* how many grammars are not loaded yet when the daemon starts
  Impatient,   \* TRUE: a client may hang up before its answer (timeoutMs)
  Edits        \* TRUE: files of the repository are edited while it runs

AllKinds == {"query", "index", "rca", "ping", "stop"}

ASSUME RequestsAssumption == IsFiniteSet(Reqs)
ASSUME NamesAssumption ==
  None \notin Reqs /\ None \notin Conns /\ None \notin Files /\ None \notin AllKinds
ASSUME ScopeAssumption == ScopeFiles \subseteq Files /\ Kinds \subseteq AllKinds
ASSUME BoundsAssumption ==
  MaxBusy \in Nat /\ MaxHops \in Nat \ {0} /\ MaxLoads \in Nat
ASSUME FlagsAssumption == Impatient \in BOOLEAN /\ Edits \in BOOLEAN

VARIABLES
  phase,     \* "up", "closing" (server.close() called), "closed" (stop ended)
  asked,     \* TRUE once a stop was asked for, by RPC or signal
  idle,      \* TRUE: idleMs have passed since lastActivity
  inflight,  \* the daemon's own count of requests in progress
  conn,      \* each client connection
  on,        \* the connection each request came on
  kind,      \* each request's method
  stage,     \* the continuation each request is suspended before
  left,      \* microtask turns left in a request's extraction loop
  use,       \* the handle a query has been given by getDb
  outcome,   \* how each request ended
  handle,    \* the sqlite handle each request opened
  repo,      \* repos.get(key): the mapped handle, or None
  watcher,   \* watchers.get(key): the mapped watcher, or None
  live,      \* watchers whose fs.watch has not been closed
  batch,     \* the file each watcher is re-extracting, or None
  graph,     \* the files with rows in the repo's sqlite file
  burst,     \* the connection whose data event is being dispatched, or None
  mtq,       \* the microtask queue
  waiting,   \* tasks suspended on a grammar load
  unloaded   \* grammars not loaded yet

queues   == <<mtq, waiting, unloaded>>
dbVars   == <<handle, repo, watcher, live, batch, graph>>
reqVars  == <<on, kind, stage, left, use, outcome>>
srvVars  == <<phase, asked, idle, inflight, conn>>
vars     == <<burst, queues, dbVars, reqVars, srvVars>>

Request(r) == [task |-> "request", id |-> r]
Batch(w)   == [task |-> "batch", id |-> w]

Busy == {r \in Reqs : stage[r] \notin {"new", "done"}}

\* The rows the request's indexScope inserts: the whole repository, or the
\* scope runRca resolved.
Target(r) == IF kind[r] = "rca" THEN ScopeFiles ELSE Files

Init == /\ phase = "up" /\ asked = FALSE /\ idle = FALSE /\ inflight = 0
        /\ conn = [c \in Conns |-> "none"]
        /\ on = [r \in Reqs |-> None]
        /\ kind = [r \in Reqs |-> None]
        /\ stage = [r \in Reqs |-> "new"]
        /\ left = [r \in Reqs |-> 0]
        /\ use = [r \in Reqs |-> None]
        /\ outcome = [r \in Reqs |-> "none"]
        /\ handle = [r \in Reqs |-> "none"]
        /\ repo = None /\ watcher = None /\ live = {}
        /\ batch = [w \in Reqs |-> None]
        /\ graph = {}
        /\ burst = None /\ mtq = <<>> /\ waiting = {} /\ unloaded = MaxLoads
-----------------------------------------------------------------------------
(* The event loop.                                                         *)

\* The loop takes its next macrotask, which ends the previous data event.
Macrotask == mtq = <<>> /\ burst' = None

\* The next continuation is t; the data event that queued it is over.
Continuation(t) == mtq # <<>> /\ Head(mtq) = t /\ burst' = None

\* `await`, when what is awaited has settled or settles without I/O.
Suspend(t) == mtq' = Append(mtq, t) /\ UNCHANGED <<waiting, unloaded>>

\* The same from inside a continuation, whose own entry leaves the queue.
Resuspend(t) == mtq' = Append(Tail(mtq), t) /\ UNCHANGED <<waiting, unloaded>>

\* `await extractFile` while its grammar is not loaded: WebAssembly I/O.
CanLoad == unloaded > 0
AwaitLoad(t) == waiting' = waiting \cup {t} /\ UNCHANGED unloaded

LoadDone(t) ==
  /\ Macrotask
  /\ t \in waiting
  /\ waiting' = waiting \ {t}
  /\ unloaded' = IF unloaded = 0 THEN 0 ELSE unloaded - 1
  /\ mtq' = <<t>>
  /\ UNCHANGED <<dbVars, reqVars, srvVars>>
-----------------------------------------------------------------------------
(* indexScope.                                                             *)

\* openDb, clear, walk, hash, and the extraction loop up to its first await.
\* Without a blob-cache miss there is none, and the rows are inserted in the
\* same turn; otherwise the other tasks run between the clear and the insert.
BeginIndex(r, rows, after) ==
  /\ handle' = [handle EXCEPT ![r] = "open"]
  /\ \/ /\ graph' = rows
        /\ stage' = [stage EXCEPT ![r] = after]
        /\ Suspend(Request(r))
        /\ UNCHANGED left
     \/ /\ graph' = {}
        /\ stage' = [stage EXCEPT ![r] = "extract"]
        /\ \E n \in 1..MaxHops : left' = [left EXCEPT ![r] = n - 1]
        /\ \/ Suspend(Request(r))
           \/ CanLoad /\ AwaitLoad(Request(r)) /\ UNCHANGED mtq

\* The continuation that follows the inserted rows, per method.
AfterIndex(r) == CASE kind[r] = "query" -> "adopt"
                   [] kind[r] = "index" -> "swap"
                   [] OTHER             -> "analyse"

\* The answer (or the error) is written and the bookkeeping of handleFrame's
\* finally block done.
Finish(r, how) ==
  /\ stage' = [stage EXCEPT ![r] = "done"]
  /\ outcome' = [outcome EXCEPT ![r] = how]
  /\ inflight' = inflight - 1
  /\ idle' = FALSE

\* Mutant: the loop runs one file too far.
ExtractPast(r) ==
  /\ Continuation(Request(r))
  /\ stage[r] = "extract" /\ left[r] >= 0
  /\ left' = [left EXCEPT ![r] = @ - 1]
  /\ \/ Resuspend(Request(r))
     \/ CanLoad /\ AwaitLoad(Request(r)) /\ mtq' = Tail(mtq)
  /\ UNCHANGED <<on, kind, stage, use, outcome, dbVars, srvVars>>

\* One more turn of the extraction loop, for a file that may need a grammar.
ExtractNext(r) ==
  /\ Continuation(Request(r))
  /\ stage[r] = "extract" /\ left[r] > 0
  /\ left' = [left EXCEPT ![r] = @ - 1]
  /\ \/ Resuspend(Request(r))
     \/ CanLoad /\ AwaitLoad(Request(r)) /\ mtq' = Tail(mtq)
  /\ UNCHANGED <<on, kind, stage, use, outcome, dbVars, srvVars>>

\* insertExtracted: fails as a whole if a row for one of the files is there
\* (UNIQUE constraint failed: files.path), which fails the request.
InsertRows(r) ==
  /\ Continuation(Request(r))
  /\ stage[r] = "extract" /\ left[r] = 0
  /\ IF graph \cap Target(r) = {}
     THEN /\ graph' = graph \cup Target(r)
          /\ stage' = [stage EXCEPT ![r] = AfterIndex(r)]
          /\ Resuspend(Request(r))
          /\ UNCHANGED <<outcome, inflight, idle>>
     ELSE /\ Finish(r, "conflict")
          /\ mtq' = Tail(mtq)
          /\ UNCHANGED <<graph, waiting, unloaded>>
  /\ UNCHANGED <<on, kind, left, use, handle, repo, watcher, live, batch,
                 phase, asked, conn>>
-----------------------------------------------------------------------------
(* Requests.                                                               *)

\* handleFrame: a frame of a data event on c, dispatched up to its first await.
Accept(c, r, k) ==
  /\ k \in Kinds
  /\ conn[c] = "open"
  /\ stage[r] = "new"
  /\ burst = c \/ mtq = <<>>
  /\ Cardinality(Busy) < MaxBusy
  /\ burst' = c
  /\ on' = [on EXCEPT ![r] = c]
  /\ kind' = [kind EXCEPT ![r] = k]
  /\ inflight' = inflight + 1
  /\ idle' = FALSE
  /\ UNCHANGED <<outcome, phase, conn>>

\* ping, status; `stop` also schedules the shutdown with setImmediate.
AcceptControl(c, r, k) ==
  /\ k \in {"ping", "stop"}
  /\ Accept(c, r, k)
  /\ asked' = (asked \/ k = "stop")
  /\ stage' = [stage EXCEPT ![r] = "answer"]
  /\ Suspend(Request(r))
  /\ UNCHANGED <<left, use, dbVars>>

\* Mutant: getDb reads from disk before it answers with the mapped handle.
AcceptQueryReading(c, r) ==
  /\ Accept(c, r, "query")
  /\ repo # None
  /\ use' = [use EXCEPT ![r] = repo]
  /\ stage' = [stage EXCEPT ![r] = "eval"]
  /\ IF CanLoad THEN AwaitLoad(Request(r)) /\ UNCHANGED mtq ELSE Suspend(Request(r))
  /\ UNCHANGED <<asked, left, dbVars>>

\* define, callers, callees, changed: getDb finds the mapped handle.
AcceptQuery(c, r) ==
  /\ Accept(c, r, "query")
  /\ repo # None
  /\ use' = [use EXCEPT ![r] = repo]
  /\ stage' = [stage EXCEPT ![r] = "eval"]
  /\ Suspend(Request(r))
  /\ UNCHANGED <<asked, left, dbVars>>

\* The same with no handle mapped: getDb indexes, whoever else is at it.
AcceptFirstQuery(c, r) ==
  /\ Accept(c, r, "query")
  /\ repo = None
  /\ BeginIndex(r, Files, "adopt")
  /\ UNCHANGED <<asked, use, repo, watcher, live, batch>>

\* index: the old watcher is closed, but not waited for, before the rewrite.
AcceptIndex(c, r) ==
  /\ Accept(c, r, "index")
  /\ watcher' = None
  /\ live' = live \ {watcher}
  /\ BeginIndex(r, Files, "swap")
  /\ UNCHANGED <<asked, use, repo, batch>>

\* rca: runRca indexes its scope into the repo's sqlite file; a failure that
\* resolves to no file is answered without.
AcceptRca(c, r) ==
  /\ Accept(c, r, "rca")
  /\ \/ BeginIndex(r, ScopeFiles, "analyse")
     \/ /\ stage' = [stage EXCEPT ![r] = "answer"]
        /\ Suspend(Request(r))
        /\ UNCHANGED <<left, handle, graph>>
  /\ UNCHANGED <<asked, use, repo, watcher, live, batch>>

Answer(r) ==
  /\ Continuation(Request(r))
  /\ stage[r] = "answer"
  /\ Finish(r, "ok")
  /\ mtq' = Tail(mtq)
  /\ UNCHANGED <<waiting, unloaded, on, kind, left, use, dbVars, phase, asked, conn>>

\* Mutant: only index starts a watcher.
AdoptUnwatched(r) ==
  /\ Continuation(Request(r))
  /\ stage[r] = "adopt"
  /\ repo' = r
  /\ use' = [use EXCEPT ![r] = r]
  /\ stage' = [stage EXCEPT ![r] = "eval"]
  /\ Resuspend(Request(r))
  /\ UNCHANGED <<watcher, live, on, kind, left, outcome, handle, batch, graph, srvVars>>

\* getDb's then-callback: map the handle, start a watcher if none is mapped.
Adopt(r) ==
  /\ Continuation(Request(r))
  /\ stage[r] = "adopt"
  /\ repo' = r
  /\ IF watcher = None
     THEN watcher' = r /\ live' = live \cup {r}
     ELSE UNCHANGED <<watcher, live>>
  /\ use' = [use EXCEPT ![r] = r]
  /\ stage' = [stage EXCEPT ![r] = "eval"]
  /\ Resuspend(Request(r))
  /\ UNCHANGED <<on, kind, left, outcome, handle, batch, graph, srvVars>>

\* Mutant: the pending request is forgotten when its handle is gone.
EvaluateSilently(r) ==
  /\ Continuation(Request(r))
  /\ stage[r] = "eval"
  /\ handle[use[r]] = "open"
  /\ Finish(r, IF graph = Files THEN "ok" ELSE "partial")
  /\ mtq' = Tail(mtq)
  /\ UNCHANGED <<waiting, unloaded, on, kind, left, use, dbVars, phase, asked, conn>>

\* The query runs on the handle getDb returned, and throws on a closed one.
Evaluate(r) ==
  /\ Continuation(Request(r))
  /\ stage[r] = "eval"
  /\ Finish(r, IF handle[use[r]] # "open" THEN handle[use[r]]
               ELSE IF graph = Files THEN "ok" ELSE "partial")
  /\ mtq' = Tail(mtq)
  /\ UNCHANGED <<waiting, unloaded, on, kind, left, use, dbVars, phase, asked, conn>>

\* Mutant: the map still answers with the handle that was just closed.
SwapKeepingRepo(r) ==
  /\ Continuation(Request(r))
  /\ stage[r] = "swap"
  /\ handle' = IF repo = None THEN handle ELSE [handle EXCEPT ![repo] = "byIndex"]
  /\ repo' = IF repo = None THEN r ELSE repo
  /\ watcher' = r
  /\ live' = live \cup {r}
  /\ Finish(r, "ok")
  /\ mtq' = Tail(mtq)
  /\ UNCHANGED <<waiting, unloaded, on, kind, left, use, batch, graph, phase, asked, conn>>

\* Mutant: the new handle is mapped before the old one is looked up.
SwapClosingNew(r) ==
  /\ Continuation(Request(r))
  /\ stage[r] = "swap"
  /\ handle' = [handle EXCEPT ![r] = "byIndex"]
  /\ repo' = r
  /\ watcher' = r
  /\ live' = live \cup {r}
  /\ Finish(r, "ok")
  /\ mtq' = Tail(mtq)
  /\ UNCHANGED <<waiting, unloaded, on, kind, left, use, batch, graph, phase, asked, conn>>

\* Mutant: a watcher another request has mapped meanwhile is kept.
SwapKeepingWatcher(r) ==
  /\ Continuation(Request(r))
  /\ stage[r] = "swap"
  /\ handle' = IF repo = None THEN handle ELSE [handle EXCEPT ![repo] = "byIndex"]
  /\ repo' = r
  /\ IF watcher = None
     THEN watcher' = r /\ live' = live \cup {r}
     ELSE UNCHANGED <<watcher, live>>
  /\ Finish(r, "ok")
  /\ mtq' = Tail(mtq)
  /\ UNCHANGED <<waiting, unloaded, on, kind, left, use, batch, graph, phase, asked, conn>>

\* index, after the rewrite: close the mapped handle, map the new one, start
\* a watcher on it, in place of whatever is mapped by now.
Swap(r) ==
  /\ Continuation(Request(r))
  /\ stage[r] = "swap"
  /\ handle' = IF repo = None THEN handle ELSE [handle EXCEPT ![repo] = "byIndex"]
  /\ repo' = r
  /\ watcher' = r
  /\ live' = live \cup {r}
  /\ Finish(r, "ok")
  /\ mtq' = Tail(mtq)
  /\ UNCHANGED <<waiting, unloaded, on, kind, left, use, batch, graph, phase, asked, conn>>

\* runRca ranks on its own handle and closes it.
Analyse(r) ==
  /\ Continuation(Request(r))
  /\ stage[r] = "analyse"
  /\ handle' = [handle EXCEPT ![r] = "byRca"]
  /\ Finish(r, "ok")
  /\ mtq' = Tail(mtq)
  /\ UNCHANGED <<waiting, unloaded, on, kind, left, use, repo, watcher, live, batch,
                 graph, phase, asked, conn>>
-----------------------------------------------------------------------------
(* Watchers.                                                               *)

\* The debounce timer of a live watcher fires: it re-extracts an edited file.
Flush(w, f) ==
  /\ Edits
  /\ Macrotask
  /\ w \in live
  /\ batch[w] = None
  /\ batch' = [batch EXCEPT ![w] = f]
  /\ \/ Suspend(Batch(w))
     \/ CanLoad /\ AwaitLoad(Batch(w)) /\ UNCHANGED mtq
  /\ UNCHANGED <<handle, repo, watcher, live, graph, reqVars, srvVars>>

\* reExtractFile replaces the file's rows, closed watcher or not; on a closed
\* handle it throws, and processBatch swallows the error.
WriteBatch(w) ==
  /\ Continuation(Batch(w))
  /\ batch[w] # None
  /\ graph' = IF handle[w] = "open" THEN graph \cup {batch[w]} ELSE graph
  /\ batch' = [batch EXCEPT ![w] = None]
  /\ mtq' = Tail(mtq)
  /\ UNCHANGED <<waiting, unloaded, handle, repo, watcher, live, reqVars, srvVars>>
-----------------------------------------------------------------------------
(* Clients and shutdown.                                                   *)

Connect(c) ==
  /\ Macrotask
  /\ phase = "up"
  /\ conn[c] = "none"
  /\ conn' = [conn EXCEPT ![c] = "open"]
  /\ UNCHANGED <<queues, dbVars, reqVars, phase, asked, idle, inflight>>

\* callDaemon ends its connection on the answer, and destroys it on timeout.
Disconnect(c) ==
  /\ Macrotask
  /\ conn[c] = "open"
  /\ Impatient \/ \A r \in Busy : on[r] # c
  /\ conn' = [conn EXCEPT ![c] = "gone"]
  /\ UNCHANGED <<queues, dbVars, reqVars, phase, asked, idle, inflight>>

\* SIGTERM or SIGINT.
Signal ==
  /\ Macrotask
  /\ ~asked
  /\ asked' = TRUE
  /\ UNCHANGED <<queues, dbVars, reqVars, phase, idle, inflight, conn>>

\* idleMs pass without activity.
Tick ==
  /\ Macrotask
  /\ ~idle
  /\ idle' = TRUE
  /\ UNCHANGED <<queues, dbVars, reqVars, phase, asked, inflight, conn>>

\* stop(): no new connection is accepted from here on.
BeginStop ==
  /\ Macrotask
  /\ phase = "up"
  /\ phase' = "closing"
  /\ UNCHANGED <<queues, dbVars, reqVars, asked, idle, inflight, conn>>

StopAsked == asked /\ BeginStop

\* Mutant: the poller looks at the clock alone.
IdlePollBlind == idle /\ BeginStop

IdlePoll == idle /\ inflight = 0 /\ BeginStop

\* Mutant: stop() does not wait for server.close() to call back.
EndStopAtOnce ==
  /\ Macrotask
  /\ phase = "closing"
  /\ phase' = "closed"
  /\ live' = live \ {watcher}
  /\ watcher' = None
  /\ handle' = IF repo = None THEN handle ELSE [handle EXCEPT ![repo] = "byStop"]
  /\ repo' = None
  /\ UNCHANGED <<queues, batch, graph, reqVars, asked, idle, inflight, conn>>

\* Mutant: the watchers are forgotten, not closed.
EndStopWatching ==
  /\ Macrotask
  /\ phase = "closing"
  /\ \A c \in Conns : conn[c] # "open"
  /\ phase' = "closed"
  /\ watcher' = None
  /\ handle' = IF repo = None THEN handle ELSE [handle EXCEPT ![repo] = "byStop"]
  /\ repo' = None
  /\ UNCHANGED <<queues, live, batch, graph, reqVars, asked, idle, inflight, conn>>

\* Mutant: the watchers are waited for before they are closed.
EndStopIdle ==
  /\ Macrotask
  /\ phase = "closing"
  /\ live = {}
  /\ \A c \in Conns : conn[c] # "open"
  /\ phase' = "closed"
  /\ watcher' = None
  /\ handle' = IF repo = None THEN handle ELSE [handle EXCEPT ![repo] = "byStop"]
  /\ repo' = None
  /\ UNCHANGED <<queues, live, batch, graph, reqVars, asked, idle, inflight, conn>>

\* server.close() calls back once every connection has ended: the mapped
\* watcher and the mapped handle are closed, the lock is released.
EndStop ==
  /\ Macrotask
  /\ phase = "closing"
  /\ \A c \in Conns : conn[c] # "open"
  /\ phase' = "closed"
  /\ live' = live \ {watcher}
  /\ watcher' = None
  /\ handle' = IF repo = None THEN handle ELSE [handle EXCEPT ![repo] = "byStop"]
  /\ repo' = None
  /\ UNCHANGED <<queues, batch, graph, reqVars, asked, idle, inflight, conn>>
-----------------------------------------------------------------------------
Dispatch(c, r) ==
  \/ \E k \in Kinds : AcceptControl(c, r, k)
  \/ AcceptQuery(c, r) \/ AcceptFirstQuery(c, r) \/ AcceptIndex(c, r) \/ AcceptRca(c, r)

Resume(r) ==
  \/ ExtractNext(r) \/ InsertRows(r) \/ Answer(r) \/ Adopt(r) \/ Evaluate(r)
  \/ Swap(r) \/ Analyse(r) \/ WriteBatch(r)

\* What the daemon's event loop does by itself.
Work == \E r \in Reqs : Resume(r) \/ LoadDone(Request(r)) \/ LoadDone(Batch(r))

Stop == StopAsked \/ EndStop

Next ==
  \/ Work \/ Stop \/ IdlePoll \/ Signal \/ Tick
  \/ \E c \in Conns : Connect(c) \/ Disconnect(c) \/ \E r \in Reqs : Dispatch(c, r)
  \/ \E w \in Reqs, f \in Files : Flush(w, f)

Spec == Init /\ [][Next]_vars

\* The event loop turns: the continuation at the head of mtq runs, grammar
\* loads end, a scheduled stop() runs.  Nothing is assumed of the clients.
FairSpec == /\ Spec
            /\ WF_vars(\E r \in Reqs : Resume(r))
            /\ SF_vars(\E r \in Reqs : LoadDone(Request(r)) \/ LoadDone(Batch(r)))
            /\ SF_vars(Stop)
-----------------------------------------------------------------------------
(* What the daemon promises.                                               *)

Stages == {"new", "extract", "adopt", "swap", "analyse", "eval", "answer", "done"}
Ends   == {"byIndex", "byRca", "byStop"}
Tasks  == [task : {"request", "batch"}, id : Reqs]

FlagType == asked \in BOOLEAN /\ idle \in BOOLEAN

RequestType ==
  /\ on \in [Reqs -> Conns \cup {None}]
  /\ kind \in [Reqs -> AllKinds \cup {None}]
  /\ stage \in [Reqs -> Stages]
  /\ left \in [Reqs -> Nat]
  /\ use \in [Reqs -> Reqs \cup {None}]
  /\ outcome \in [Reqs -> {"none", "ok", "partial", "conflict", "open"} \cup Ends]

ServerType ==
  /\ phase \in {"up", "closing", "closed"} /\ inflight \in Int
  /\ conn \in [Conns -> {"none", "open", "gone"}]
  /\ handle \in [Reqs -> {"none", "open"} \cup Ends]
  /\ repo \in Reqs \cup {None} /\ watcher \in Reqs \cup {None}
  /\ live \subseteq Reqs
  /\ batch \in [Reqs -> Files \cup {None}]
  /\ graph \subseteq Files

LoopType ==
  /\ burst \in Conns \cup {None}
  /\ mtq \in Seq(Tasks) /\ waiting \subseteq Tasks /\ unloaded \in Nat

\* Every variable stays within its type: the maps hold only handles some
\* request opened, and a continuation belongs to a request or a batch.
TypeOK == FlagType /\ RequestType /\ ServerType /\ LoopType

\* However their continuations interleave, `repos` never maps a handle that
\* index, rca or stop has closed, and a mapped watcher still listens and writes
\* through an open one: index closes the handle of the watcher it replaces,
\* never of the one that stays.
MapsWork ==
  /\ repo # None => handle[repo] = "open"
  /\ watcher # None => watcher \in live /\ handle[watcher] = "open"

\* Shutdown spares requests: what is still in progress when it has ended was
\* asked by a client that has hung up, and even of those no query runs into a
\* handle that shutdown closed, since nothing but continuations runs between
\* getDb's answer and the query.
StopSparesRequests ==
  \A r \in Reqs : /\ phase = "closed" /\ r \in Busy => conn[on[r]] = "gone"
                  /\ outcome[r] # "byStop"

\* The idle poller never begins a shutdown while a request is in progress.
IdleNeverInterrupts ==
  [][phase = "up" /\ phase' = "closing" /\ Busy # {} => asked]_vars

\* inflight, on which the idle poller relies, counts the requests in progress
\* through every error path and every hang-up.
InflightExact == inflight = Cardinality(Busy)

\* Clients that take turns are answered, each from the whole repository,
\* whatever sequence of queries, re-indexings and shutdowns they ask for.
ServedInTurn == \A r \in Reqs : outcome[r] \in {"none", "ok"}

\* Once stop has ended and nothing runs any more, no handle is open and no
\* file watch is left ("closes server, sqlite handles", server.ts:45).
StopClosesEverything ==
  phase = "closed" /\ Busy = {} => live = {} /\ \A r \in Reqs : handle[r] # "open"

\* A repository the daemon serves is watched, unless an index request has
\* closed its watcher and is still at work, or has failed since.
OnlyIndexUnwatches ==
  repo # None /\ watcher = None =>
    \E r \in Reqs : kind[r] = "index" /\ (r \in Busy \/ outcome[r] = "conflict")

\* A query after an rca on the same repository still sees the whole of it
\* ("uses the daemon's warm index", README.md:102).
RcaKeepsWarmIndex == \A r \in Reqs : outcome[r] # "partial"

\* Closing the old watcher before the rewrite keeps its re-extractions out of
\* the way of the rewrite (server.ts:134-137).
RewriteUndisturbed == \A r \in Reqs : outcome[r] # "conflict"

\* Every request that reached the daemon is finished, answered or failed.
RequestsComplete == \A r \in Reqs : stage[r] # "new" ~> stage[r] = "done"

\* A shutdown that was asked for ends, if every client hangs up in the end
\* (callDaemon does, on its answer or its timeout).
ClientsHangUp == \A c \in Conns : SF_vars(Disconnect(c))

StopCompletes == ClientsHangUp => (asked ~> phase = "closed")
=============================================================================
