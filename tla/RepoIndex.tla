------------------------------ MODULE RepoIndex ------------------------------
(***************************************************************************)
(* How the code graph of a repository is built and kept current: indexScope *)
(* (graph/orchestrator.ts) with its blob cache (daemon/cache.ts), and the   *)
(* watcher (daemon/watcher.ts) with its re-extractions (daemon/reextract.ts),*)
(* while files are edited.                                                 *)
(*                                                                         *)
(* A content hash names the content it was taken from, so a blob_sha is a  *)
(* version.  Between two turns of the event loop other actions may run;    *)
(* the turns themselves are synchronous.  Two indexes at once, and an index *)
(* while the old watcher is still writing, belong to module Daemon.        *)
(***************************************************************************)
EXTENDS Resolve

CONSTANTS
  Variants,    \* the contents each path may have
  Start,       \* the contents the repository begins with
  Git,         \* TRUE: git hash-object answers; FALSE: sha256 of the text read
  MaxEdits,    \* bound on edits
  MaxIndexes   \* bound on index requests

ASSUME VariantsAssumption ==
  /\ DOMAIN Variants = Paths
  /\ \A p \in Paths : Variants[p] \subseteq Versions
ASSUME StartAssumption ==
  /\ Start \in [Paths -> Versions \cup {None}]
  /\ \A p \in Paths : Start[p] \in Variants[p] \cup {None}
ASSUME BoundsAssumption ==
  Git \in BOOLEAN /\ MaxEdits \in Nat /\ MaxIndexes \in Nat

VARIABLES
  disk,      \* the content of each parseable file, None where there is none
  db,        \* the graph in the sqlite file
  cache,     \* blob_cache: for each path the hash and the content extracted
  indexing,  \* the index in progress
  watching,  \* TRUE while fs.watch is open
  events,    \* changed files whose event has not been delivered
  pending,   \* the watcher's pending set
  timer,     \* TRUE while the debounce timer runs
  chain,     \* batches queued on the watcher's promise chain
  working,   \* the re-extraction in progress
  edits, indexes,  \* counters for the bounds
  missed     \* auxiliary: files edited unwatched since the index began, or that a
             \* cached extraction of another content stood for

store   == <<db, cache>>
watcher == <<watching, events, pending, timer, chain, working>>
vars    == <<disk, store, indexing, watcher, edits, indexes, missed>>

Idle  == [stage |-> "idle"]
NoRow == [sha |-> None, out |-> None]
Rest  == [path |-> None, source |-> None]

Init ==
  /\ disk = Start
  /\ db = Empty
  /\ cache = [p \in Paths |-> NoRow]
  /\ indexing = Idle
  /\ watching = FALSE /\ events = {} /\ pending = {} /\ timer = FALSE
  /\ chain = <<>> /\ working = Rest
  /\ edits = 0 /\ indexes = 0 /\ missed = {}
-----------------------------------------------------------------------------
\* A file is written, created or deleted; an open fs.watch will report it.
Edit(p, v) ==
  /\ edits < MaxEdits
  /\ v # disk[p]
  /\ edits' = edits + 1
  /\ disk' = [disk EXCEPT ![p] = v]
  /\ events' = IF watching THEN events \cup {p} ELSE events
  /\ missed' = IF watching THEN missed \ {p} ELSE missed \cup {p}
  /\ UNCHANGED <<store, indexing, watching, pending, timer, chain, working, indexes>>
-----------------------------------------------------------------------------
(* indexScope.                                                             *)

\* Mutant: the text that was read to be hashed is read again.
ReadAgain(p, sha) == disk[p]

\* The text of a missed file: read when its turn comes, unless it was read to
\* be hashed.
ReadSource(p, sha) == IF Git THEN disk[p] ELSE sha[p]

\* Mutant: the rows found so far are written while the loop goes on.
ContinueWriting(base, sha, todo, out) ==
  \/ \E p \in todo :
       /\ indexing' = [stage |-> "extract", sha |-> sha, todo |-> todo \ {p}, out |-> out,
                       path |-> p, source |-> ReadSource(p, sha)]
       /\ db' = InsertExtracted(base, out)
       /\ watching' = FALSE
  \/ /\ todo = {}
     /\ indexing' = Idle
     /\ db' = ResolveEdges(InsertExtracted(base, out), disk)
     /\ watching' = TRUE

\* The loop goes on to a file still to be extracted, or ends: rows and links
\* are written in the same turn, and the new watcher started.
Continue(base, sha, todo, out) ==
  \/ \E p \in todo :
       /\ indexing' = [stage |-> "extract", sha |-> sha, todo |-> todo \ {p}, out |-> out,
                       path |-> p, source |-> ReadSource(p, sha)]
       /\ db' = base
       /\ watching' = FALSE
  \/ /\ todo = {}
     /\ indexing' = Idle
     /\ db' = ResolveEdges(InsertExtracted(base, out), disk)
     /\ watching' = TRUE

\* The paths whose hash the cache knows.
Hits == {p \in Paths : disk[p] # None /\ cache[p].sha = disk[p]}

\* The old watcher is closed and the tables are cleared, the cache is not;
\* every file is hashed and looked up before the first is extracted.
BeginIndex ==
  /\ indexing = Idle
  /\ chain = <<>>
  /\ indexes < MaxIndexes
  /\ indexes' = indexes + 1
  /\ events' = {} /\ pending' = {} /\ timer' = FALSE
  /\ missed' = {p \in Hits : cache[p].out # disk[p]}
  /\ Continue(Empty, disk, {p \in Paths \ Hits : disk[p] # None},
              [p \in Paths |-> IF p \in Hits THEN cache[p].out ELSE None])
  /\ UNCHANGED <<disk, cache, chain, working, edits>>

\* A missed file is extracted and cached under the hash taken before; one
\* that is gone by now is left out.
ExtractMiss ==
  /\ indexing # Idle
  /\ LET p == indexing.path
         v == indexing.source
     IN /\ cache' = IF v = None THEN cache
                    ELSE [cache EXCEPT ![p] = [sha |-> indexing.sha[p], out |-> v]]
        /\ Continue(db, indexing.sha, indexing.todo, [indexing.out EXCEPT ![p] = v])
  /\ UNCHANGED <<disk, events, pending, timer, chain, working, edits, indexes, missed>>
-----------------------------------------------------------------------------
(* The watcher.                                                            *)

\* Mutant: an event during the debounce does not start it again.
DeliverOnce(p) ==
  /\ p \in events
  /\ events' = events \ {p}
  /\ pending' = pending \cup {p}
  /\ timer' = (timer \/ chain = <<>>)
  /\ UNCHANGED <<disk, store, indexing, watching, chain, working, edits, indexes, missed>>

\* The fs.watch callback.
Deliver(p) ==
  /\ p \in events
  /\ events' = events \ {p}
  /\ pending' = pending \cup {p}
  /\ timer' = TRUE
  /\ UNCHANGED <<disk, store, indexing, watching, chain, working, edits, indexes, missed>>

\* flush, by the debounce timer: one batch of everything pending.
Flush ==
  /\ timer
  /\ timer' = FALSE
  /\ pending' = {}
  /\ chain' = Append(chain, pending)
  /\ UNCHANGED <<disk, store, indexing, watching, events, working, edits, indexes, missed>>

\* The chain without p in its first batch.
Handled(p) ==
  IF Head(chain) = {p} THEN Tail(chain) ELSE <<Head(chain) \ {p}>> \o Tail(chain)

\* processBatch, a file that does not exist: removeFile.
RemoveFile(p) ==
  /\ chain # <<>> /\ p \in Head(chain)
  /\ working = Rest
  /\ disk[p] = None
  /\ db' = Delete(db, p)
  /\ cache' = [cache EXCEPT ![p] = NoRow]
  /\ chain' = Handled(p)
  /\ UNCHANGED <<disk, indexing, watching, events, pending, timer, working, edits, indexes, missed>>

\* processBatch, any other: reExtractFile reads it and awaits extractFile.
BeginReExtract(p) ==
  /\ chain # <<>> /\ p \in Head(chain)
  /\ working = Rest
  /\ disk[p] # None
  /\ working' = [path |-> p, source |-> disk[p]]
  /\ UNCHANGED <<disk, store, indexing, watching, events, pending, timer, chain,
                 edits, indexes, missed>>

\* Mutant: what was edited meanwhile counts as handled.
EndReExtractClearing ==
  /\ working # Rest
  /\ db' = ResolveEdges(Replace(db, working.path, working.source), disk)
  /\ chain' = Handled(working.path)
  /\ working' = Rest
  /\ pending' = pending \ {working.path}
  /\ timer' = (pending' # {})
  /\ UNCHANGED <<disk, cache, indexing, watching, events, edits, indexes, missed>>

\* reExtractFile replaces the rows and resolves the whole graph.
EndReExtract ==
  /\ working # Rest
  /\ db' = ResolveEdges(Replace(db, working.path, working.source), disk)
  /\ chain' = Handled(working.path)
  /\ working' = Rest
  /\ UNCHANGED <<disk, cache, indexing, watching, events, pending, timer, edits, indexes, missed>>
-----------------------------------------------------------------------------
Watch ==
  \/ Flush \/ EndReExtract
  \/ \E p \in Paths : Deliver(p) \/ RemoveFile(p) \/ BeginReExtract(p)

Next ==
  \/ BeginIndex \/ ExtractMiss \/ Watch
  \/ \E p \in Paths : \E v \in Variants[p] \cup {None} : Edit(p, v)

Spec == Init /\ [][Next]_vars

\* What the event loop does by itself: events arrive, timers fire, chained
\* batches and extractions go on.
FairSpec == Spec /\ WF_vars(ExtractMiss) /\ WF_vars(Watch)
-----------------------------------------------------------------------------
Quiet == watching /\ events = {} /\ pending = {} /\ chain = <<>>

Contents == [Paths -> Versions \cup {None}]

IndexType ==
  \/ indexing = Idle
  \/ /\ indexing.stage = "extract"
     /\ indexing.sha \in Contents /\ indexing.out \in Contents
     /\ indexing.todo \subseteq Paths /\ indexing.path \in Paths \ indexing.todo
     /\ indexing.source \in Versions \cup {None}

\* Every variable stays within its type; an index in progress and a watcher
\* exclude each other.
TypeOK ==
  /\ disk \in Contents /\ db.rows \in Contents /\ db.bare \subseteq Indexed(db)
  /\ DOMAIN db.link = Edges(db.rows)
  /\ cache \in [Paths -> [sha : Versions \cup {None}, out : Versions \cup {None}]]
  /\ IndexType /\ (watching => indexing = Idle)
  /\ events \subseteq Paths /\ pending \subseteq Paths
  /\ timer \in BOOLEAN /\ watching \in BOOLEAN
  /\ chain \in Seq(SUBSET Paths)
  /\ working = Rest \/ working \in [path : Paths, source : Versions]
  /\ edits \in 0 .. MaxEdits /\ indexes \in 0 .. MaxIndexes

\* A cached extraction is that of the content it is filed under, whatever is
\* edited between hashing and extracting ("Worst case: one extra parse",
\* tools/cgrcad/DESIGN.md:149).
CacheSound == \A p \in Paths : cache[p].out = cache[p].sha

\* When the watcher has nothing left to do, every file it could see change and
\* that no false cache entry stood for has the rows of its content on disk,
\* whatever was edited while it worked.
WatcherConverges ==
  Quiet => \A p \in Paths \ missed : db.rows[p] = disk[p]

\* The watcher always gets there: no edit is left in its queues for ever.
WatcherCatchesUp == []<>(~watching \/ \A p \in Paths \ missed : db.rows[p] = disk[p])

\* However files come and go, a link points to a symbol that is there and that
\* the call's own file gives grounds for.
LinksGrounded ==
  \A e \in DOMAIN db.link : db.link[e].to # None => db.link[e].to \in Grounds(db, e)

\* Whatever else there is to link to by then, the watcher redirects no link: a
\* link stays until the file of its call or of its symbol is written again, or
\* everything is indexed.
Written(p) == working.path = p \/ db'.rows[p] # db.rows[p]
LinkStays(e) ==
  (indexes' = indexes /\ db.link[e].to # None) =>
    \/ Written(e.path) \/ Written(db.link[e].to.path)
    \/ e \in DOMAIN db'.link /\ db'.link[e].to = db.link[e].to
LinksStay == [][\A e \in DOMAIN db.link : LinkStays(e)]_vars

\* A link is right when it is made, and as long as it is there.
LinksSound == []LinksGrounded /\ LinksStay

\* Resolving again changes nothing ("whole-DB but idempotent",
\* daemon/reextract.ts:15), in every state the tables can get into.
ResolveIdempotent ==
  LET once == ResolveEdges(db, disk) IN ResolveEdges(once, disk) = once

\* The files with a change that the watcher has not written yet.
Due == events \cup pending \cup {p \in Paths : \E i \in DOMAIN chain : p \in chain[i]}

Copy == INSTANCE Mirror WITH rows <- db.rows, due <- Due, held <- working,
                             Doubtful <- IF Git THEN Paths ELSE {}

\* To its readers the index is a copy of the files that is made at one moment
\* and mended file by file: hashes, cache, extraction loop, debounce and batches
\* show in nothing but how long it takes.
ImplementsMirror == Copy!MSpec
=============================================================================
