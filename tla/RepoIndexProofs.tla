--------------------------- MODULE RepoIndexProofs ---------------------------
(***************************************************************************)
(* What holds of the index and its watcher for any repository, any code,   *)
(* and any number of edits and indexes.                                    *)
(***************************************************************************)
EXTENDS RepoIndex, ResolveProofs

GraphInv ==
  /\ Graph(db) /\ Grounded(db)
  /\ indexing # Idle => db = Empty

IndexInv ==
  /\ disk \in Contents
  /\ cache \in [Paths -> [sha : Versions \cup {None}, out : Versions \cup {None}]]
  /\ IndexType
  /\ watching => indexing = Idle

QueueInv ==
  /\ events \subseteq Paths /\ pending \subseteq Paths
  /\ timer \in BOOLEAN /\ watching \in BOOLEAN
  /\ chain \in Seq(SUBSET Paths)
  /\ working = Rest \/ working \in [path : Paths, source : Versions]
  /\ ~watching => events = {} /\ pending = {} /\ timer = FALSE /\ chain = <<>>
  /\ working # Rest => chain # <<>> /\ working.path \in Head(chain)

CountInv == edits \in 0 .. MaxEdits /\ indexes \in 0 .. MaxIndexes

TypeInv == GraphInv /\ IndexInv /\ QueueInv /\ CountInv

\* The inductive invariant contains the type invariant.
LEMMA TypeInvOK == TypeInv => TypeOK
BY DEF TypeInv, GraphInv, IndexInv, QueueInv, CountInv, TypeOK, Graph, Contents

\* The batches after the first.
Later(q) == \E i \in 2..Len(chain) : q \in chain[i]

\* A handled file leaves the first batch, and nothing else leaves the chain.
LEMMA HandledQueue ==
  ASSUME chain \in Seq(SUBSET Paths), chain # <<>>, NEW p, NEW q
  PROVE  /\ Handled(p) \in Seq(SUBSET Paths)
         /\ (q \in Head(chain) /\ q # p) => /\ Handled(p) # <<>>
                                            /\ q \in Head(Handled(p))
         /\ Later(q) => \E i \in 1..Len(Handled(p)) : q \in Handled(p)[i]
         /\ (Later(q) /\ Head(chain) # {p}) => \E i \in 2..Len(Handled(p)) : q \in Handled(p)[i]
<1> DEFINE t == Tail(chain)
           b == Head(chain) \ {p}
<1>1. /\ t \in Seq(SUBSET Paths) /\ Len(t) = Len(chain) - 1 /\ Len(chain) \in Nat
      /\ \A i \in 1..Len(t) : t[i] = chain[i+1]
      /\ b \in SUBSET Paths
  OBVIOUS
<1> HIDE DEF t, b
<1>2. /\ <<b>> \o t \in Seq(SUBSET Paths) /\ Len(<<b>> \o t) = Len(chain)
      /\ (<<b>> \o t)[1] = b
      /\ \A i \in 1..Len(t) : (<<b>> \o t)[i+1] = t[i]
  BY <1>1
<1> DEFINE u == <<b>> \o t
<1> HIDE DEF u
<1>3. /\ u \in Seq(SUBSET Paths) /\ Len(u) = Len(chain)
      /\ u[1] = b /\ \A i \in 2..Len(chain) : u[i] = chain[i]
  <2>1. ASSUME NEW i \in 2..Len(chain) PROVE u[i] = chain[i]
    <3>1. i - 1 \in 1..Len(t) /\ (i - 1) + 1 = i
      BY <1>1
    <3> QED  BY <1>1, <1>2, <3>1 DEF u
  <2> QED  BY <1>2, <2>1 DEF u
<1>4. Handled(p) = IF Head(chain) = {p} THEN t ELSE u
  BY DEF Handled, t, u, b
<1>5. CASE Head(chain) = {p}
  <2>1. Handled(p) = t
    BY <1>4, <1>5
  <2>2. Later(q) => \E i \in 1..Len(t) : q \in t[i]
    <3> SUFFICES ASSUME Later(q) PROVE \E i \in 1..Len(t) : q \in t[i]
      OBVIOUS
    <3>1. PICK i \in 2..Len(chain) : q \in chain[i]
      BY DEF Later
    <3>2. i - 1 \in 1..Len(t) /\ t[i - 1] = chain[i]
      BY <1>1
    <3> QED  BY <3>1, <3>2
  <2> QED  BY <1>1, <1>5, <2>1, <2>2
<1>6. CASE Head(chain) # {p}
  <2>1. Handled(p) = u
    BY <1>4, <1>6
  <2>2. u # <<>> /\ Head(u) = b
    BY <1>1, <1>3
  <2>3. Later(q) => /\ \E i \in 2..Len(u) : q \in u[i]
                    /\ \E i \in 1..Len(u) : q \in u[i]
    BY <1>1, <1>3 DEF Later
  <2> QED  BY <1>3, <2>1, <2>2, <2>3 DEF b
<1> QED  BY <1>5, <1>6
-----------------------------------------------------------------------------
\* What the extraction loop leaves of the graph: nothing, or all of it.
LEMMA ContinueGraph ==
  ASSUME NEW sha, NEW todo, NEW out \in Contents, Continue(Empty, sha, todo, out)
  PROVE  GraphInv'
<1>1. CASE db' = Empty
  BY <1>1, EmptyGraph DEF GraphInv
<1>2. CASE indexing' = Idle /\ db' = ResolveEdges(InsertExtracted(Empty, out), disk)
  <2> DEFINE d == InsertExtracted(Empty, out)
  <2>1. Graph(d) /\ Grounded(d)
    BY FullIndex DEF Contents
  <2> HIDE DEF d
  <2>2. Graph(ResolveEdges(d, disk)) /\ Grounded(ResolveEdges(d, disk))
    BY <2>1, ResolveRelinks, RelinksKeeps
  <2> QED  BY <1>2, <2>2 DEF GraphInv, d
<1> QED  BY <1>1, <1>2 DEF Continue

\* The extraction loop keeps its own record in type.
LEMMA ContinueIndex ==
  ASSUME IndexInv, NEW sha \in Contents, NEW todo \in SUBSET Paths, NEW out \in Contents,
         NEW base, Continue(base, sha, todo, out)
  PROVE  IndexType' /\ (watching' => indexing' = Idle) /\ watching' \in BOOLEAN
<1>1. ASSUME NEW p \in todo,
             indexing' = [stage |-> "extract", sha |-> sha, todo |-> todo \ {p}, out |-> out,
                          path |-> p, source |-> ReadSource(p, sha)],
             watching' = FALSE
      PROVE  IndexType'
  <2>1. ReadSource(p, sha) \in Versions \cup {None}
    BY DEF ReadSource, Contents, IndexInv
  <2> QED  BY <1>1, <2>1 DEF IndexType
<1> QED  BY <1>1 DEF Continue, IndexType

\* The contents found in the cache, and those found by the index in progress.
LEMMA ContentsFound ==
  ASSUME IndexInv
  PROVE  /\ [p \in Paths |-> IF p \in Hits THEN cache[p].out ELSE None] \in Contents
         /\ indexing # Idle =>
              /\ indexing.sha \in Contents /\ indexing.todo \in SUBSET Paths
              /\ indexing.path \in Paths /\ indexing.source \in Versions \cup {None}
              /\ [indexing.out EXCEPT ![indexing.path] = indexing.source] \in Contents
BY DEF IndexInv, IndexType, Contents
-----------------------------------------------------------------------------
\* The daemon begins with empty tables and no watcher.
LEMMA InitTypeInv == Init => TypeInv
<1> SUFFICES ASSUME Init PROVE TypeInv
  OBVIOUS
<1>1. GraphInv
  BY EmptyGraph DEF Init, GraphInv
<1>2. IndexInv
  BY StartAssumption DEF Init, IndexInv, Contents, NoRow, IndexType
<1>3. QueueInv
  <2>1. working = Rest /\ timer = FALSE /\ watching = FALSE /\ chain = <<>>
    BY DEF Init
  <2>2. timer \in BOOLEAN /\ watching \in BOOLEAN
    BY <2>1
  <2>5. chain \in Seq(SUBSET Paths)
    BY <2>1
  <2>3. events = {} /\ pending = {}
    BY DEF Init
  <2>4. events \subseteq Paths /\ pending \subseteq Paths
    BY <2>3
  <2> HIDE DEF Rest
  <2> QED  BY <2>1, <2>2, <2>3, <2>4, <2>5 DEF QueueInv
<1>4. CountInv
  BY BoundsAssumption DEF Init, CountInv
<1> QED  BY <1>1, <1>2, <1>3, <1>4 DEF TypeInv

\* The graph stays one, and grounded: every write goes through an insert, a
\* delete, a replace or a resolution.
LEMMA StepGraphInv == TypeInv /\ [Next]_vars => GraphInv'
<1> SUFFICES ASSUME TypeInv, [Next]_vars PROVE GraphInv'
  OBVIOUS
<1> USE DEF TypeInv
<1>1. ASSUME BeginIndex PROVE GraphInv'
  BY <1>1, ContentsFound, ContinueGraph DEF BeginIndex
<1>2. ASSUME ExtractMiss PROVE GraphInv'
  BY <1>2, ContentsFound, ContinueGraph DEF ExtractMiss, GraphInv
<1>3. ASSUME NEW p \in Paths, RemoveFile(p) PROVE GraphInv'
  <2>1. indexing' = Idle
    BY <1>3 DEF RemoveFile, QueueInv, IndexInv
  <2> QED  BY <1>3, <2>1, DeleteKeeps DEF RemoveFile, GraphInv
<1>4. ASSUME EndReExtract PROVE GraphInv'
  <2> DEFINE d == Replace(db, working.path, working.source)
  <2>1. indexing' = Idle
    BY <1>4 DEF EndReExtract, QueueInv, IndexInv
  <2>2. Graph(d) /\ Grounded(d)
    BY <1>4, ReplaceKeeps DEF EndReExtract, QueueInv, GraphInv
  <2> HIDE DEF d
  <2>3. Graph(ResolveEdges(d, disk)) /\ Grounded(ResolveEdges(d, disk))
    BY <2>2, ResolveRelinks, RelinksKeeps
  <2> QED  BY <1>4, <2>1, <2>3 DEF EndReExtract, GraphInv, d
<1>5. ASSUME UNCHANGED <<db, indexing>> PROVE GraphInv'
  BY <1>5 DEF GraphInv
<1>6. ASSUME NEW p \in Paths, Deliver(p) \/ BeginReExtract(p) PROVE GraphInv'
  BY <1>5, <1>6 DEF Deliver, BeginReExtract, store
<1>7. ASSUME Flush PROVE GraphInv'
  BY <1>5, <1>7 DEF Flush, store
<1>8. ASSUME NEW p \in Paths, NEW v \in Variants[p] \cup {None}, Edit(p, v) PROVE GraphInv'
  BY <1>5, <1>8 DEF Edit, store
<1>9. CASE UNCHANGED vars
  BY <1>5, <1>9 DEF vars, store
<1> QED  BY <1>1, <1>2, <1>3, <1>4, <1>6, <1>7, <1>8, <1>9 DEF Next, Watch

\* The index in progress, the cache and the files stay what they are.
LEMMA StepIndexInv == TypeInv /\ [Next]_vars => IndexInv'
<1> SUFFICES ASSUME TypeInv, [Next]_vars PROVE IndexInv'
  OBVIOUS
<1> USE DEF TypeInv
<1>1. ASSUME BeginIndex PROVE IndexInv'
  <2>1. disk' = disk /\ cache' = cache
    BY <1>1 DEF BeginIndex
  <2>2. IndexType' /\ (watching' => indexing' = Idle)
    BY <1>1, ContentsFound, ContinueIndex DEF BeginIndex, IndexInv
  <2> QED  BY <2>1, <2>2 DEF IndexInv
<1>2. ASSUME ExtractMiss PROVE IndexInv'
  <2>1. disk' = disk
    BY <1>2 DEF ExtractMiss
  <2>2. cache' \in [Paths -> [sha : Versions \cup {None}, out : Versions \cup {None}]]
    BY <1>2, ContentsFound DEF ExtractMiss, IndexInv, Contents
  <2>3. IndexType' /\ (watching' => indexing' = Idle)
    BY <1>2, ContentsFound, ContinueIndex DEF ExtractMiss
  <2> QED  BY <2>1, <2>2, <2>3 DEF IndexInv
<1>3. ASSUME UNCHANGED <<disk, cache, indexing, watching>> PROVE IndexInv'
  BY <1>3 DEF IndexInv, IndexType
<1>4. ASSUME NEW p \in Paths, RemoveFile(p) PROVE IndexInv'
  BY <1>4 DEF RemoveFile, IndexInv, IndexType, NoRow
<1>5. ASSUME NEW p \in Paths, NEW v \in Variants[p] \cup {None}, Edit(p, v) PROVE IndexInv'
  <2>1. disk' \in Contents
    BY <1>5, VariantsAssumption DEF Edit, IndexInv, Contents
  <2> QED  BY <1>5, <2>1 DEF Edit, IndexInv, IndexType, store
<1>6. ASSUME EndReExtract \/ Flush PROVE IndexInv'
  BY <1>3, <1>6 DEF EndReExtract, Flush, store
<1>7. ASSUME NEW p \in Paths, Deliver(p) \/ BeginReExtract(p) PROVE IndexInv'
  BY <1>3, <1>7 DEF Deliver, BeginReExtract, store
<1>8. CASE UNCHANGED vars
  BY <1>3, <1>8 DEF vars, store, watcher
<1> QED  BY <1>1, <1>2, <1>4, <1>5, <1>6, <1>7, <1>8 DEF Next, Watch

\* The watcher's queues stay sets of paths, empty while nothing is watched.
LEMMA StepQueueInv == TypeInv /\ [Next]_vars => QueueInv'
<1> SUFFICES ASSUME TypeInv, [Next]_vars PROVE QueueInv'
  OBVIOUS
<1> USE DEF TypeInv
<1>1. ASSUME BeginIndex PROVE QueueInv'
  <2>1. watching' \in BOOLEAN
    BY <1>1, ContentsFound, ContinueIndex DEF BeginIndex, IndexInv
  <2> QED  BY <1>1, <2>1 DEF BeginIndex, QueueInv
<1>2. ASSUME ExtractMiss PROVE QueueInv'
  <2>1. watching' \in BOOLEAN
    BY <1>2, ContentsFound, ContinueIndex DEF ExtractMiss
  <2>2. ~watching
    BY <1>2 DEF ExtractMiss, IndexInv
  <2> QED  BY <1>2, <2>1, <2>2 DEF ExtractMiss, QueueInv
<1>3. ASSUME NEW p \in Paths, NEW v \in Variants[p] \cup {None}, Edit(p, v) PROVE QueueInv'
  BY <1>3 DEF Edit, QueueInv
<1>4. ASSUME NEW p \in Paths, Deliver(p) PROVE QueueInv'
  BY <1>4 DEF Deliver, QueueInv
<1>5. ASSUME Flush PROVE QueueInv'
  <2>1. /\ chain' \in Seq(SUBSET Paths) /\ chain' # <<>>
        /\ chain # <<>> => Head(chain') = Head(chain)
    BY <1>5 DEF Flush, QueueInv
  <2> QED  BY <1>5, <2>1 DEF Flush, QueueInv
<1>6. ASSUME NEW p \in Paths, RemoveFile(p) PROVE QueueInv'
  <2>1. chain' \in Seq(SUBSET Paths)
    BY <1>6, HandledQueue DEF RemoveFile, QueueInv
  <2> QED  BY <1>6, <2>1 DEF RemoveFile, QueueInv
<1>7. ASSUME NEW p \in Paths, BeginReExtract(p) PROVE QueueInv'
  BY <1>7 DEF BeginReExtract, QueueInv, IndexInv, Contents
<1>8. ASSUME EndReExtract PROVE QueueInv'
  <2>1. chain' \in Seq(SUBSET Paths)
    BY <1>8, HandledQueue DEF EndReExtract, QueueInv
  <2> QED  BY <1>8, <2>1 DEF EndReExtract, QueueInv
<1>9. CASE UNCHANGED vars
  BY <1>9 DEF vars, watcher, QueueInv
<1> QED  BY <1>1, <1>2, <1>3, <1>4, <1>5, <1>6, <1>7, <1>8, <1>9 DEF Next, Watch

\* The bounds bind.
LEMMA StepCountInv == TypeInv /\ [Next]_vars => CountInv'
<1> SUFFICES ASSUME CountInv, [Next]_vars PROVE CountInv'
  BY DEF TypeInv
<1>1. ASSUME NEW p \in Paths, NEW v, Edit(p, v) PROVE CountInv'
  BY <1>1, BoundsAssumption DEF Edit, CountInv
<1>2. CASE BeginIndex
  BY <1>2, BoundsAssumption DEF BeginIndex, CountInv
<1>3. CASE UNCHANGED <<edits, indexes>>
  BY <1>3 DEF CountInv
<1> QED
  BY <1>1, <1>2, <1>3
     DEF Next, Watch, ExtractMiss, Deliver, Flush, RemoveFile, BeginReExtract, EndReExtract, vars

\* The parts of the invariant support each other.
LEMMA AlwaysTypeInv == Spec => []TypeInv
<1>1. TypeInv /\ [Next]_vars => TypeInv'
  BY StepGraphInv, StepIndexInv, StepQueueInv, StepCountInv DEF TypeInv
<1> QED  BY <1>1, InitTypeInv, PTL DEF Spec

\* Every variable keeps its type, for any repository and any edits.
THEOREM TypeCorrect == Spec => []TypeOK
BY AlwaysTypeInv, TypeInvOK, PTL

\* However files come and go, no link points to a symbol that is gone or that
\* the call's file gives no grounds for.
THEOREM LinksAreGrounded == Spec => []LinksGrounded
<1>1. TypeInv => LinksGrounded
  BY DEF TypeInv, GraphInv, Grounded, LinksGrounded
<1> QED  BY <1>1, AlwaysTypeInv, PTL

\* Between two indexes every link lasts that none of the two files written
\* again is at an end of.
THEOREM LinksLast == Spec => LinksStay
<1>1. TypeInv /\ [Next]_vars => \A e \in DOMAIN db.link : LinkStays(e)
  <2> SUFFICES ASSUME TypeInv, [Next]_vars, NEW e \in DOMAIN db.link,
                      indexes' = indexes, db.link[e].to # None,
                      ~Written(e.path), ~Written(db.link[e].to.path)
               PROVE  e \in DOMAIN db'.link /\ db'.link[e].to = db.link[e].to
    BY DEF LinkStays
  <2> USE DEF TypeInv, GraphInv
  <2>1. ASSUME UNCHANGED db PROVE e \in DOMAIN db'.link /\ db'.link[e].to = db.link[e].to
    BY <2>1
  <2>2. CASE BeginIndex
    BY <2>2, BoundsAssumption DEF BeginIndex, CountInv
  <2>3. CASE ExtractMiss
    BY <2>3 DEF ExtractMiss, Empty
  <2>4. ASSUME NEW p \in Paths, RemoveFile(p)
        PROVE  e \in DOMAIN db'.link /\ db'.link[e].to = db.link[e].to
    <3>1. db' = Delete(db, p) /\ db'.rows = [db.rows EXCEPT ![p] = None]
      BY <2>4, DeleteKeeps DEF RemoveFile
    <3>2. e.path \in Indexed(db) /\ db.link[e].to.path \in Indexed(db)
      BY PathsIndexed DEF Grounded, Grounds
    <3>3. e.path # p /\ db.link[e].to.path # p
      BY <3>1, <3>2 DEF Written, Indexed, Graph
    <3> QED  BY <3>1, <3>3, DeleteKeeps DEF Elsewhere, Stays
  <2>5. CASE EndReExtract
    <3> DEFINE d == Replace(db, working.path, working.source)
    <3>1. working.path \in Paths /\ working.source \in Versions
      BY <2>5 DEF EndReExtract, QueueInv
    <3>2. Graph(d) /\ Stays(db, d, e)
      BY <3>1, ReplaceKeeps DEF Written, Elsewhere
    <3> HIDE DEF d
    <3>3. Relinks(d, db')
      BY <2>5, <3>2, ResolveRelinks DEF EndReExtract, d
    <3> QED  BY <3>2, <3>3 DEF Stays, Relinks, Kept
  <2> QED
    BY <2>1, <2>2, <2>3, <2>4, <2>5 DEF Next, Watch, Edit, Deliver, Flush, BeginReExtract, store, vars
<1>2. TypeInv /\ [Next]_vars => [\A e \in DOMAIN db.link : LinkStays(e)]_vars
  BY <1>1
<1> QED  BY <1>2, AlwaysTypeInv, PTL DEF Spec, LinksStay

\* Both: a link has grounds and lasts.
THEOREM LinksAreSound == Spec => LinksSound
BY LinksAreGrounded, LinksLast, PTL DEF LinksSound
-----------------------------------------------------------------------------
(* Without git the text that was hashed is the one that is extracted.       *)

CacheInv ==
  /\ CacheSound
  /\ indexing # Idle => indexing.source = indexing.sha[indexing.path]

\* Every cached text is filed under its own hash.
LEMMA StepCacheInv ==
  ASSUME Git = FALSE, TypeInv, CacheInv, [Next]_vars
  PROVE  CacheInv'
<1> USE DEF CacheInv
<1>1. ASSUME NEW base, NEW sha, NEW todo \in SUBSET Paths, NEW out, Continue(base, sha, todo, out)
      PROVE  indexing' # Idle => indexing'.source = indexing'.sha[indexing'.path]
  BY <1>1 DEF Continue, ReadSource
<1>2. ASSUME BeginIndex PROVE CacheInv'
  <2>1. CacheSound'
    BY <1>2 DEF BeginIndex, CacheSound
  <2> QED  BY <1>1, <1>2, <2>1 DEF BeginIndex
<1>3. ASSUME ExtractMiss PROVE CacheInv'
  <2> DEFINE p == indexing.path
             v == indexing.source
  <2>1. p \in Paths /\ indexing # Idle /\ indexing.sha[p] = v
    BY <1>3, ContentsFound DEF ExtractMiss, TypeInv
  <2>2. cache' = IF v = None THEN cache
                 ELSE [cache EXCEPT ![p] = [sha |-> indexing.sha[p], out |-> v]]
    BY <1>3 DEF ExtractMiss
  <2> HIDE DEF p, v
  <2>3. CacheSound'
    BY <2>1, <2>2 DEF CacheSound, TypeInv, IndexInv
  <2>4. indexing' # Idle => indexing'.source = indexing'.sha[indexing'.path]
    BY <1>1, <1>3, ContentsFound DEF ExtractMiss, TypeInv
  <2> QED  BY <2>3, <2>4
<1>4. ASSUME NEW p \in Paths, RemoveFile(p) PROVE CacheInv'
  BY <1>4 DEF RemoveFile, CacheSound, NoRow, TypeInv, IndexInv
<1>5. ASSUME UNCHANGED <<cache, indexing>> PROVE CacheInv'
  BY <1>5 DEF CacheSound
<1>6. ASSUME NEW p \in Paths, Deliver(p) \/ BeginReExtract(p) PROVE CacheInv'
  BY <1>5, <1>6 DEF Deliver, BeginReExtract, store
<1>7. ASSUME Flush \/ EndReExtract PROVE CacheInv'
  BY <1>5, <1>7 DEF Flush, EndReExtract, store
<1>8. ASSUME NEW p \in Paths, NEW v \in Variants[p] \cup {None}, Edit(p, v) PROVE CacheInv'
  BY <1>5, <1>8 DEF Edit, store
<1>9. CASE UNCHANGED vars
  BY <1>5, <1>9 DEF vars, store
<1> QED  BY <1>2, <1>3, <1>4, <1>6, <1>7, <1>8, <1>9 DEF Next, Watch

\* So no edit between hash and extraction can separate them.
LEMMA AlwaysCacheInv ==
  ASSUME Git = FALSE
  PROVE  Spec => []CacheInv
<1>1. Init => CacheInv
  BY DEF Init, CacheInv, CacheSound, NoRow
<1>2. TypeInv /\ CacheInv /\ [Next]_vars => CacheInv'
  BY Git = FALSE, StepCacheInv
<1> QED  BY <1>1, <1>2, AlwaysTypeInv, PTL DEF Spec

\* Without git, a cached extraction is that of the content it is filed under,
\* whatever is edited while an index runs.
THEOREM CacheNeverLies ==
  ASSUME Git = FALSE
  PROVE  Spec => []CacheSound
<1>1. CacheInv => CacheSound
  BY DEF CacheInv
<1> QED  BY <1>1, Git = FALSE, AlwaysCacheInv, PTL
-----------------------------------------------------------------------------
(* What the watcher still has to do.                                       *)

InFirst(q) == chain # <<>> /\ q \in Head(chain)
Awaited(q) == q \in events \/ q \in pending \/ Later(q)

\* A file the index has not missed was hashed, and is extracted, as it is.
Found(q) ==
  q \notin missed =>
    /\ indexing.sha[q] = disk[q]
    /\ \/ q \in indexing.todo
       \/ IF q = indexing.path THEN indexing.source = disk[q] ELSE indexing.out[q] = disk[q]

ConvergeInv ==
  /\ indexing # Idle => \A q \in Paths : Found(q)
  /\ watching => \A q \in Paths \ missed : db.rows[q] = disk[q] \/ Awaited(q) \/ InFirst(q)
  /\ working # Rest => working.source = disk[working.path] \/ Awaited(working.path)

\* The loop goes on with contents that are, or will be, those on disk.
Current(sha, todo, out) ==
  /\ sha \in Contents /\ todo \in SUBSET Paths /\ out \in Contents
  /\ Continue(Empty, sha, todo, out) /\ UNCHANGED disk /\ working' = Rest
  /\ \A q \in Paths \ missed' : sha[q] = disk[q] /\ (q \in todo \/ out[q] = disk[q])

\* What the extraction loop hands on is as it is on disk, in the end the rows.
LEMMA ContinueConverges ==
  ASSUME NEW sha, NEW todo, NEW out, Current(sha, todo, out)
  PROVE  ConvergeInv'
<1>1. ASSUME NEW p \in todo, watching' = FALSE,
             indexing' = [stage |-> "extract", sha |-> sha, todo |-> todo \ {p}, out |-> out,
                          path |-> p, source |-> ReadSource(p, sha)]
      PROVE  ConvergeInv'
  BY <1>1 DEF ConvergeInv, Found, Current, ReadSource
<1>2. ASSUME todo = {}, indexing' = Idle,
             db' = ResolveEdges(InsertExtracted(Empty, out), disk)
      PROVE  ConvergeInv'
  <2> DEFINE d == InsertExtracted(Empty, out)
  <2>1. Graph(d) /\ d.rows = out
    BY FullIndex DEF Contents, Current
  <2> HIDE DEF d
  <2>2. db'.rows = out
    BY <1>2, <2>1, ResolveRelinks, RelinksKeeps DEF d
  <2> QED  BY <1>2, <2>2 DEF ConvergeInv, Current
<1> QED  BY <1>1, <1>2 DEF Continue, Current

\* An index takes every file it does not miss as it is on disk.
LEMMA IndexConverges ==
  ASSUME TypeInv, ConvergeInv, BeginIndex \/ ExtractMiss
  PROVE  ConvergeInv'
<1>1. CASE BeginIndex
  <2> DEFINE todo == {p \in Paths \ Hits : disk[p] # None}
             out == [p \in Paths |-> IF p \in Hits THEN cache[p].out ELSE None]
  <2>1. Continue(Empty, disk, todo, out) /\ UNCHANGED disk
    BY <1>1 DEF BeginIndex
  <2>2. working' = Rest
    BY <1>1 DEF BeginIndex, TypeInv, QueueInv
  <2>3. \A q \in Paths \ missed' : q \in todo \/ out[q] = disk[q]
    BY <1>1 DEF BeginIndex, Hits
  <2>4. disk \in Contents /\ out \in Contents /\ todo \in SUBSET Paths
    BY ContentsFound DEF TypeInv, IndexInv
  <2>5. \A q \in Paths \ missed' : disk[q] = disk[q] /\ (q \in todo \/ out[q] = disk[q])
    BY <2>3
  <2> HIDE DEF todo, out
  <2>6. Current(disk, todo, out)
    BY <2>1, <2>2, <2>4, <2>5 DEF Current
  <2> QED  BY <2>6, ContinueConverges
<1>2. CASE ExtractMiss
  <2> DEFINE sha == indexing.sha
             todo == indexing.todo
             out == [indexing.out EXCEPT ![indexing.path] = indexing.source]
  <2>1. indexing # Idle /\ db = Empty /\ watching = FALSE
    BY <1>2 DEF ExtractMiss, TypeInv, GraphInv, IndexInv, QueueInv
  <2>2. Continue(Empty, indexing.sha, indexing.todo, out) /\ UNCHANGED <<disk, working, missed>>
    BY <1>2, <2>1 DEF ExtractMiss
  <2>3. working' = Rest
    BY <2>1, <2>2 DEF TypeInv, QueueInv
  <2>4. \A q \in Paths \ missed : /\ indexing.sha[q] = disk[q]
                                  /\ q \in indexing.todo \/ out[q] = disk[q]
    <3> SUFFICES ASSUME NEW q \in Paths \ missed
                 PROVE  /\ indexing.sha[q] = disk[q]
                        /\ q \in indexing.todo \/ out[q] = disk[q]
      OBVIOUS
    <3>1. Found(q)
      BY <2>1 DEF ConvergeInv
    <3>2. indexing.out \in Contents
      BY <2>1 DEF TypeInv, IndexInv, IndexType
    <3> QED  BY <3>1, <3>2 DEF Found, Contents
  <2>5. sha \in Contents /\ todo \in SUBSET Paths /\ out \in Contents
    BY <2>1, ContentsFound DEF TypeInv
  <2>6. \A q \in Paths \ missed' : sha[q] = disk[q] /\ (q \in todo \/ out[q] = disk[q])
    BY <2>2, <2>4
  <2>7. Continue(Empty, sha, todo, out) /\ UNCHANGED disk
    BY <2>2
  <2> HIDE DEF sha, todo, out
  <2>8. Current(sha, todo, out)
    BY <2>3, <2>5, <2>6, <2>7 DEF Current
  <2> QED  BY <2>8, ContinueConverges
<1> QED  BY <1>1, <1>2

\* A batch leaves the chain only with its files handled.
LEMMA WorkConverges ==
  ASSUME TypeInv, ConvergeInv, NEW p \in Paths, NEW v,
         chain # <<>>, chain' = Handled(p), working' = Rest,
         db'.rows = [db.rows EXCEPT ![p] = v],
         v = disk[p] \/ Awaited(p),
         UNCHANGED <<disk, indexing, watching, events, pending, missed>>
  PROVE  ConvergeInv'
<1>1. indexing = Idle
  BY DEF TypeInv, QueueInv, IndexInv
<1>2. ASSUME NEW q \in Paths \ missed, watching
      PROVE  db'.rows[q] = disk[q] \/ Awaited(q)' \/ InFirst(q)'
  <2>1. Later(q) => Later(q)' \/ InFirst(q)'
    <3> SUFFICES ASSUME Later(q) PROVE Later(q)' \/ InFirst(q)'
      OBVIOUS
    <3>1. chain' \in Seq(SUBSET Paths)
      BY HandledQueue DEF TypeInv, QueueInv
    <3>2. PICK i \in 1..Len(chain') : q \in chain'[i]
      BY HandledQueue DEF TypeInv, QueueInv
    <3>3. CASE i = 1
      BY <3>1, <3>2, <3>3 DEF InFirst
    <3>4. CASE i \in 2..Len(chain')
      BY <3>2, <3>4 DEF Later
    <3> QED  BY <3>1, <3>2, <3>3, <3>4
  <2>2. Awaited(q) => Awaited(q)' \/ InFirst(q)'
    BY <2>1 DEF Awaited
  <2>3. CASE q = p
    <3>1. db'.rows[q] = v
      BY <2>3 DEF TypeInv, GraphInv, Graph
    <3> QED  BY <2>2, <2>3, <3>1
  <2>4. CASE q # p
    <3>1. db'.rows[q] = db.rows[q]
      BY <2>4 DEF TypeInv, GraphInv, Graph
    <3>2. InFirst(q) => InFirst(q)'
      BY <2>4, HandledQueue DEF InFirst, TypeInv, QueueInv
    <3> QED  BY <1>2, <2>2, <3>1, <3>2 DEF ConvergeInv
  <2> QED  BY <2>3, <2>4
<1> QED  BY <1>1, <1>2 DEF ConvergeInv

\* An edit is reported, a report becomes a batch, a batch is handled.
LEMMA StepConvergeInv ==
  ASSUME TypeInv, ConvergeInv, [Next]_vars
  PROVE  ConvergeInv'
<1>1. ASSUME NEW p \in Paths, NEW v \in Variants[p] \cup {None}, Edit(p, v) PROVE ConvergeInv'
  <2>1. \A q \in Paths : q # p => disk'[q] = disk[q]
    BY <1>1 DEF Edit, TypeInv, IndexInv, Contents
  <2>2. /\ UNCHANGED <<db, indexing, watching, pending, chain, working>>
        /\ watching => p \in events' /\ events' = events \cup {p} /\ missed' = missed \ {p}
        /\ ~watching => missed' = missed \cup {p}
    BY <1>1 DEF Edit, store
  <2>3. indexing # Idle => \A q \in Paths : Found(q)'
    BY <2>1, <2>2 DEF ConvergeInv, Found, TypeInv, QueueInv, IndexInv
  <2>4. \A q : Awaited(q) /\ watching => Awaited(q)'
    BY <2>2 DEF Awaited, Later
  <2>5. watching => \A q \in Paths \ missed' : db.rows[q] = disk'[q] \/ Awaited(q)' \/ InFirst(q)
    <3> SUFFICES ASSUME watching, NEW q \in Paths \ missed'
                 PROVE  db.rows[q] = disk'[q] \/ Awaited(q)' \/ InFirst(q)
      OBVIOUS
    <3>1. CASE q = p
      BY <2>2, <3>1 DEF Awaited
    <3>2. CASE q # p
      BY <2>1, <2>2, <2>4, <3>2 DEF ConvergeInv
    <3> QED  BY <3>1, <3>2
  <2>6. working # Rest => working.source = disk'[working.path] \/ Awaited(working.path)'
    <3> SUFFICES ASSUME working # Rest
                 PROVE  working.source = disk'[working.path] \/ Awaited(working.path)'
      OBVIOUS
    <3>1. watching /\ working.path \in Paths
      BY DEF TypeInv, QueueInv
    <3>2. CASE working.path = p
      BY <2>2, <3>1, <3>2 DEF Awaited
    <3>3. CASE working.path # p
      <4>1. working.source = disk[working.path] \/ Awaited(working.path)
        BY DEF ConvergeInv
      <4>2. ASSUME NEW q, q = working.path, Awaited(q) PROVE Awaited(working.path)'
        BY <2>2, <2>4, <3>1, <4>2
      <4> QED  BY <2>1, <3>1, <3>3, <4>1, <4>2
    <3> QED  BY <3>2, <3>3
  <2> QED  BY <2>2, <2>3, <2>5, <2>6 DEF ConvergeInv, InFirst
<1>2. ASSUME NEW p \in Paths, Deliver(p) PROVE ConvergeInv'
  <2>1. \A q : Awaited(q)' <=> Awaited(q)
    BY <1>2 DEF Deliver, Awaited, Later
  <2> QED  BY <1>2, <2>1 DEF Deliver, ConvergeInv, InFirst, Found, store
<1>3. ASSUME Flush PROVE ConvergeInv'
  <2>1. /\ chain \in Seq(SUBSET Paths) /\ pending \in SUBSET Paths
        /\ chain' = Append(chain, pending) /\ pending' = {}
        /\ UNCHANGED <<disk, db, indexing, watching, events, working, missed>>
    BY <1>3 DEF Flush, TypeInv, QueueInv, store
  <2>2. \A q : InFirst(q) => InFirst(q)'
    BY <2>1 DEF InFirst
  <2>3. \A q : Awaited(q) => Awaited(q)' \/ InFirst(q)'
    <3> SUFFICES ASSUME NEW q, Awaited(q) PROVE Awaited(q)' \/ InFirst(q)'
      OBVIOUS
    <3>1. /\ Len(chain') = Len(chain) + 1 /\ Len(chain) \in Nat
          /\ chain'[Len(chain) + 1] = pending
          /\ \A i \in 1..Len(chain) : chain'[i] = chain[i]
      BY <2>1
    <3>2. CASE q \in events
      BY <2>1, <3>2 DEF Awaited
    <3>3. CASE q \in pending /\ chain = <<>>
      BY <2>1, <3>1, <3>3 DEF InFirst
    <3>4. CASE q \in pending /\ chain # <<>>
      <4>1. Len(chain) + 1 \in 2..Len(chain')
        BY <2>1, <3>1, <3>4
      <4> QED  BY <3>1, <3>4, <4>1 DEF Awaited, Later
    <3>5. CASE Later(q)
      BY <3>1, <3>5 DEF Awaited, Later
    <3> QED  BY <3>2, <3>3, <3>4, <3>5 DEF Awaited
  <2>4. working # Rest => \A q : Awaited(q) => Awaited(q)'
    <3>1. working # Rest => chain # <<>>
      BY DEF TypeInv, QueueInv
    <3>2. chain # <<>> => \A q : q \in pending => Later(q)'
      <4> SUFFICES ASSUME chain # <<>>, NEW q \in pending PROVE Later(q)'
        OBVIOUS
      <4>1. Len(chain) + 1 \in 2..Len(chain') /\ chain'[Len(chain) + 1] = pending
        BY <2>1
      <4> QED  BY <4>1 DEF Later
    <3>3. \A q : Later(q) => Later(q)'
      BY <2>1 DEF Later
    <3> QED  BY <2>1, <3>1, <3>2, <3>3 DEF Awaited
  <2> QED  BY <2>1, <2>2, <2>3, <2>4 DEF ConvergeInv, Found
<1>4. ASSUME NEW p \in Paths, RemoveFile(p) PROVE ConvergeInv'
  <2>1. db'.rows = [db.rows EXCEPT ![p] = None] /\ disk[p] = None
    BY <1>4, DeleteKeeps DEF RemoveFile, TypeInv, GraphInv
  <2> QED  BY <1>4, <2>1, WorkConverges DEF RemoveFile
<1>5. ASSUME EndReExtract PROVE ConvergeInv'
  <2> DEFINE d == Replace(db, working.path, working.source)
  <2>1. working.path \in Paths /\ working.source \in Versions /\ chain # <<>>
    BY <1>5 DEF EndReExtract, TypeInv, QueueInv
  <2>2. Graph(d) /\ d.rows = [db.rows EXCEPT ![working.path] = working.source]
    BY <2>1, ReplaceKeeps DEF TypeInv, GraphInv
  <2> HIDE DEF d
  <2>3. db'.rows = [db.rows EXCEPT ![working.path] = working.source]
    BY <1>5, <2>2, ResolveRelinks, RelinksKeeps DEF EndReExtract, d
  <2>4. working.source = disk[working.path] \/ Awaited(working.path)
    BY <1>5 DEF EndReExtract, ConvergeInv
  <2> QED  BY <1>5, <2>1, <2>3, <2>4, WorkConverges DEF EndReExtract
<1>6. ASSUME NEW p \in Paths, BeginReExtract(p) PROVE ConvergeInv'
  BY <1>6 DEF BeginReExtract, ConvergeInv, Awaited, Later, InFirst, Found, store
<1>7. CASE UNCHANGED vars
  BY <1>7 DEF vars, store, watcher, ConvergeInv, Awaited, Later, InFirst, Found
<1> QED
  BY <1>1, <1>2, <1>3, <1>4, <1>5, <1>6, <1>7, IndexConverges DEF Next, Watch

\* What is not as on disk stays on the watcher's way.
LEMMA AlwaysConvergeInv == Spec => []ConvergeInv
<1>1. Init => ConvergeInv
  BY DEF Init, ConvergeInv
<1>2. TypeInv /\ ConvergeInv /\ [Next]_vars => ConvergeInv'
  BY StepConvergeInv
<1> QED  BY <1>1, <1>2, AlwaysTypeInv, PTL DEF Spec

\* Whatever is edited while the watcher works, when it has nothing left to do
\* the rows of every file it could see are those on disk, with and without git:
\* in both the index leaves nothing else behind than what it is known to miss.
THEOREM GraphConverges == Spec => []WatcherConverges
<1>1. ConvergeInv => WatcherConverges
  BY DEF ConvergeInv, WatcherConverges, Quiet, Awaited, Later, InFirst
<1> QED  BY <1>1, AlwaysConvergeInv, PTL
-----------------------------------------------------------------------------
(* Idempotence.  What resolving twice needs of the tables is that every     *)
(* edge row has its columns, whatever writes they have been through.        *)

LEMMA InitColumns == Init => Columns(db)
BY EmptyColumns DEF Init

LEMMA StepColumns == TypeInv /\ Columns(db) /\ [Next]_vars => Columns(db)'
<1> SUFFICES ASSUME TypeInv, Columns(db), [Next]_vars PROVE Columns(db')
  BY DEF Columns
<1>1. ASSUME NEW d, Graph(d), Columns(d) PROVE Columns(ResolveEdges(d, disk))
  BY <1>1, ResolveSettles
<1>2. ASSUME NEW sha, NEW todo, NEW out \in Contents, Continue(Empty, sha, todo, out)
      PROVE  Columns(db')
  <2> DEFINE d == InsertExtracted(Empty, out)
  <2>1. Graph(d)
    BY FullIndex DEF Contents
  <2>2. Columns(d)
    BY EmptyColumns, InsertColumns
  <2> HIDE DEF d
  <2>3. Columns(ResolveEdges(d, disk))
    BY <1>1, <2>1, <2>2
  <2> QED  BY <1>2, <2>3, EmptyColumns DEF Continue, d
<1>3. CASE BeginIndex
  <2> DEFINE out == [p \in Paths |-> IF p \in Hits THEN cache[p].out ELSE None]
  <2>1. out \in Contents
    BY ContentsFound DEF TypeInv
  <2> QED  BY <1>2, <1>3, <2>1 DEF BeginIndex
<1>4. CASE ExtractMiss
  <2> DEFINE out == [indexing.out EXCEPT ![indexing.path] = indexing.source]
  <2>1. out \in Contents /\ db = Empty
    BY <1>4, ContentsFound DEF TypeInv, GraphInv, ExtractMiss
  <2> QED  BY <1>2, <1>4, <2>1 DEF ExtractMiss
<1>5. CASE EndReExtract
  <2> DEFINE d == Replace(db, working.path, working.source)
  <2>1. Graph(d)
    BY <1>5, ReplaceKeeps DEF EndReExtract, TypeInv, GraphInv, QueueInv, Rest
  <2>2. Columns(d)
    BY ReplaceColumns
  <2> HIDE DEF d
  <2> QED  BY <1>1, <1>5, <2>1, <2>2 DEF EndReExtract, d
<1>6. ASSUME NEW p \in Paths, RemoveFile(p) PROVE Columns(db')
  BY <1>6, DeleteColumns DEF RemoveFile
<1>7. CASE db' = db
  BY <1>7
<1> QED
  BY <1>3, <1>4, <1>5, <1>6, <1>7
     DEF Next, Watch, Edit, Deliver, Flush, BeginReExtract, store, vars

\* Resolving the graph again changes nothing, in every state the index and its
\* watcher can bring the tables into and whatever is on disk by then.
THEOREM ResolvingTwiceIsOnce == Spec => []ResolveIdempotent
<1>1. Spec => []Columns(db)
  <2>1. Init => Columns(db)
    BY InitColumns
  <2>2. TypeInv /\ Columns(db) /\ [Next]_vars => Columns(db)'
    BY StepColumns
  <2> QED  BY <2>1, <2>2, AlwaysTypeInv, PTL DEF Spec
<1>2. TypeInv /\ Columns(db) => ResolveIdempotent
  BY ResolveTwice DEF TypeInv, GraphInv, ResolveIdempotent
<1> QED  BY <1>1, <1>2, AlwaysTypeInv, PTL
-----------------------------------------------------------------------------
(* The refinement of Mirror.                                               *)

Queued(c) == {q \in Paths : \E i \in DOMAIN c : q \in c[i]}

\* Handling p in the first batch may take p from the queued files, no other.
LEMMA HandledDue ==
  ASSUME QueueInv, chain # <<>>, NEW p
  PROVE  Queued(Handled(p)) \in {Queued(chain), Queued(chain) \ {p}}
<1> DEFINE n == Handled(p)
<1>1. chain \in Seq(SUBSET Paths) /\ n \in Seq(SUBSET Paths)
  BY HandledQueue DEF QueueInv
<1>2. ASSUME NEW q \in Queued(n) PROVE q \in Queued(chain)
  <2>1. PICK i \in DOMAIN n : q \in n[i]
    BY DEF Queued
  <2>2. n = Tail(chain) \/ n = <<Head(chain) \ {p}>> \o Tail(chain)
    BY DEF Handled
  <2>3. /\ Len(Tail(chain)) = Len(chain) - 1 /\ Len(chain) \in Nat
        /\ Tail(chain) \in Seq(SUBSET Paths) /\ Head(chain) \ {p} \in SUBSET Paths
        /\ \A j \in 1..Len(Tail(chain)) : Tail(chain)[j] = chain[j + 1]
        /\ Head(chain) = chain[1]
    BY <1>1
  <2> HIDE DEF n
  <2>4. CASE n = Tail(chain)
    <3>1. i \in 1..Len(Tail(chain)) /\ q \in chain[i + 1] /\ i + 1 \in DOMAIN chain
      BY <1>1, <2>1, <2>3, <2>4
    <3> QED  BY <3>1 DEF Queued
  <2>5. CASE n = <<Head(chain) \ {p}>> \o Tail(chain)
    <3>1. /\ i \in 1..Len(chain) /\ DOMAIN chain = 1..Len(chain)
          /\ i = 1 => n[i] = Head(chain) \ {p}
          /\ i # 1 => i - 1 \in 1..Len(Tail(chain)) /\ n[i] = Tail(chain)[i - 1]
      BY <1>1, <2>1, <2>3, <2>5
    <3>2. q \in chain[i]
      BY <2>1, <2>3, <3>1
    <3> QED  BY <3>1, <3>2 DEF Queued
  <2> QED  BY <2>2, <2>4, <2>5
<1>3. ASSUME NEW q \in Queued(chain), q # p PROVE q \in Queued(n)
  <2>1. PICK i \in DOMAIN chain : q \in chain[i]
    BY DEF Queued
  <2>2. CASE i = 1
    <3>1. q \in Head(chain)
      BY <1>1, <2>1, <2>2
    <3>2. n # <<>> /\ q \in Head(n)
      BY <1>1, <1>3, <3>1, HandledQueue
    <3> QED  BY <1>1, <3>2 DEF Queued
  <2>3. CASE i # 1
    <3>1. Later(q)
      BY <1>1, <2>1, <2>3 DEF Later
    <3>2. \E j \in 1..Len(n) : q \in n[j]
      BY <1>1, <3>1, HandledQueue
    <3> QED  BY <1>1, <3>2 DEF Queued
  <2> QED  BY <2>2, <2>3
<1> QED  BY <1>2, <1>3

\* It may stay due for another report or a later batch.
LEMMA HandledStaysOrGoes ==
  ASSUME QueueInv, chain # <<>>, NEW p, chain' = Handled(p), UNCHANGED <<events, pending>>
  PROVE  Due' \in {Due, Due \ {p}}
<1>1. Due = events \cup pending \cup Queued(chain) /\ Due' = events \cup pending \cup Queued(Handled(p))
  BY DEF Due, Queued
<1> QED  BY <1>1, HandledDue

\* What is due is what is awaited or in the first batch.
DueIsKnown == \A q \in Paths : q \in Due <=> Awaited(q) \/ InFirst(q)

LEMMA DueIs == QueueInv => DueIsKnown
<1> SUFFICES ASSUME QueueInv, NEW q \in Paths
             PROVE  q \in Due <=> Awaited(q) \/ InFirst(q)
  BY DEF DueIsKnown
<1>1. q \in Queued(chain) <=> Later(q) \/ InFirst(q)
  <2>1. chain \in Seq(SUBSET Paths)
    BY DEF QueueInv
  <2>2. \A i \in DOMAIN chain : i = 1 \/ i \in 2..Len(chain)
    BY <2>1
  <2>3. InFirst(q) <=> chain # <<>> /\ q \in chain[1]
    BY <2>1 DEF InFirst
  <2> QED  BY <2>1, <2>2, <2>3 DEF Queued, Later
<1> QED  BY <1>1 DEF Due, Queued, Awaited

\* The new tables of an index that ends are a copy of what is on disk.
LEMMA CopiesAll ==
  ASSUME TypeInv', ConvergeInv', watching' = TRUE, Due' = {}, disk' = disk
  PROVE  Copy!CopyAll
<1>1. db'.rows \in [Paths -> Versions \cup {None}]
  BY DEF TypeInv, GraphInv, Graph
<1>2. ASSUME NEW q \in Paths \ missed' PROVE db'.rows[q] = disk[q]
  <2>1. QueueInv'
    BY DEF TypeInv
  <2>2. DueIsKnown'
    BY <2>1, DueIs, PTL
  <2> QED  BY <2>2 DEF DueIsKnown, ConvergeInv
<1> QED  BY <1>1, <1>2 DEF Copy!CopyAll, Copy!Copies

\* Every step of the index and its watcher is one of Mirror's, or shows in
\* nothing that Mirror has.
LEMMA StepMirror ==
  ASSUME TypeInv, TypeInv', ConvergeInv, ConvergeInv', Git = FALSE => CacheInv, [Next]_vars
  PROVE  [Copy!MNext]_(Copy!mvars)
<1>1. QueueInv /\ QueueInv' /\ DueIsKnown
  BY DueIs DEF TypeInv
<1>2. ASSUME NEW p \in Paths, NEW v \in Variants[p] \cup {None}, Edit(p, v)
      PROVE  Copy!Change(p, v)
  <2>1. Due' = IF watching THEN Due \cup {p} ELSE Due
    BY <1>2 DEF Edit, Due
  <2> QED  BY <1>2, <2>1 DEF Edit, store, Copy!Change
<1>3. CASE BeginIndex
  <2>1. UNCHANGED <<disk, working>> /\ working = Rest
    BY <1>1, <1>3 DEF BeginIndex, QueueInv
  <2>2. events' = {} /\ pending' = {} /\ chain' = <<>>
    BY <1>3 DEF BeginIndex
  <2>3. Due' = {}
    BY <2>2 DEF Due
  <2>4. missed' \in SUBSET (IF Git THEN Paths ELSE {})
    BY <1>3, BoundsAssumption DEF BeginIndex, Hits, CacheInv, CacheSound
  <2>5. watching' = TRUE \/ (watching' = FALSE /\ db' = Empty)
    BY <1>3 DEF BeginIndex, Continue
  <2>6. CASE watching' = TRUE
    BY <2>1, <2>3, <2>4, <2>6, CopiesAll DEF Copy!MNext, Copy!Begin, Copy!Free, Rest
  <2>7. CASE watching' = FALSE /\ db' = Empty
    BY <2>1, <2>3, <2>4, <2>7, EmptyGraph DEF Copy!MNext, Copy!Begin, Copy!Free, Copy!Nothing, Rest
  <2> QED  BY <2>5, <2>6, <2>7
<1>4. CASE ExtractMiss
  <2>1. /\ UNCHANGED <<disk, events, pending, chain, working, missed>>
        /\ ~watching /\ watching = FALSE /\ db = Empty
    BY <1>1, <1>4 DEF ExtractMiss, TypeInv, IndexInv, GraphInv, QueueInv
  <2>2. events = {} /\ pending = {} /\ chain = <<>>
    BY <1>1, <2>1 DEF QueueInv
  <2>3. Due' = {} /\ Due = {}
    BY <2>1, <2>2 DEF Due
  <2>4. watching' = TRUE \/ (watching' = FALSE /\ db' = db)
    BY <1>4 DEF ExtractMiss, Continue
  <2>5. CASE watching' = TRUE
    BY <2>1, <2>3, <2>5, CopiesAll DEF Copy!MNext, Copy!Finish
  <2>6. CASE watching' = FALSE /\ db' = db
    BY <2>1, <2>3, <2>6 DEF Copy!mvars
  <2> QED  BY <2>4, <2>5, <2>6
<1>5. ASSUME NEW p \in Paths, Deliver(p) PROVE UNCHANGED Copy!mvars
  <2>1. Due' = Due
    BY <1>5 DEF Deliver, Due
  <2> QED  BY <1>5, <2>1 DEF Deliver, store, Copy!mvars
<1>6. CASE Flush
  <2>1. /\ chain \in Seq(SUBSET Paths) /\ pending \in SUBSET Paths
        /\ chain' = Append(chain, pending) /\ pending' = {} /\ events' = events
    BY <1>1, <1>6 DEF Flush, QueueInv
  <2>2. /\ DOMAIN chain' = 1..(Len(chain) + 1) /\ DOMAIN chain = 1..Len(chain)
        /\ Len(chain) \in Nat /\ chain'[Len(chain) + 1] = pending
        /\ \A i \in 1..Len(chain) : chain'[i] = chain[i]
    BY <2>1
  <2>3. Queued(chain') = Queued(chain) \cup pending
    BY <2>1, <2>2 DEF Queued
  <2>4. Due' = Due
    BY <2>1, <2>3 DEF Due, Queued
  <2> QED  BY <1>6, <2>4 DEF Flush, store, Copy!mvars
<1>7. ASSUME NEW p \in Paths, RemoveFile(p) PROVE Copy!Drop(p)
  <2>1. p \in Due
    BY <1>1, <1>7 DEF RemoveFile, DueIsKnown, InFirst
  <2>2. db'.rows = [db.rows EXCEPT ![p] = None]
    BY <1>7, DeleteKeeps DEF RemoveFile, TypeInv, GraphInv
  <2>3. Due' \in {Due, Due \ {p}}
    BY <1>1, <1>7, HandledStaysOrGoes DEF RemoveFile
  <2> QED  BY <1>7, <2>1, <2>2, <2>3 DEF RemoveFile, Copy!Drop, Copy!Free, Rest
<1>8. ASSUME NEW p \in Paths, BeginReExtract(p) PROVE Copy!Hold(p)
  <2>1. p \in Due
    BY <1>1, <1>8 DEF BeginReExtract, DueIsKnown, InFirst
  <2>2. Due' = Due
    BY <1>8 DEF BeginReExtract, Due
  <2> QED  BY <1>8, <2>1, <2>2 DEF BeginReExtract, store, Copy!Hold, Copy!Free, Rest
<1>9. CASE EndReExtract
  <2> DEFINE p == working.path
             d == Replace(db, p, working.source)
  <2>1. p \in Paths /\ working.source \in Versions /\ chain # <<>> /\ working # Rest
    BY <1>1, <1>9 DEF EndReExtract, QueueInv
  <2>2. Graph(d) /\ d.rows = [db.rows EXCEPT ![p] = working.source]
    BY <2>1, ReplaceKeeps DEF TypeInv, GraphInv
  <2> HIDE DEF d
  <2>3. db'.rows = [db.rows EXCEPT ![p] = working.source]
    BY <1>9, <2>2, ResolveRelinks, RelinksKeeps DEF EndReExtract, d
  <2>4. Due' \in {Due, Due \ {p}}
    BY <1>1, <1>9, <2>1, HandledStaysOrGoes DEF EndReExtract
  <2>5. working.source # disk[p] => p \in Due'
    <3> SUFFICES ASSUME Awaited(p) PROVE p \in Due'
      BY <2>1 DEF ConvergeInv
    <3>1. events' = events /\ pending' = pending /\ chain' = Handled(p)
      BY <1>9 DEF EndReExtract
    <3>2. Later(p) => \E i \in DOMAIN chain' : p \in chain'[i]
      BY <1>1, <2>1, <3>1, HandledQueue DEF QueueInv
    <3> QED  BY <2>1, <3>1, <3>2 DEF Awaited, Due
  <2>6. working' = Rest /\ UNCHANGED <<disk, watching, missed>>
    BY <1>9 DEF EndReExtract
  <2> QED  BY <2>1, <2>3, <2>4, <2>5, <2>6 DEF Copy!MNext, Copy!Put, Copy!Free, Rest
<1>10. CASE UNCHANGED vars
  <2>1. Due' = Due
    BY <1>10 DEF vars, watcher, Due
  <2> QED  BY <1>10, <2>1 DEF vars, store, watcher, Copy!mvars
<1>11. \A p \in Paths : Variants[p] \subseteq Versions
  BY VariantsAssumption
<1> QED
  BY <1>2, <1>3, <1>4, <1>5, <1>6, <1>7, <1>8, <1>9, <1>10, <1>11
     DEF Next, Watch, Copy!MNext

\* The index with its watcher implements Mirror, for any repository and any
\* edits: what a reader sees is a copy made at one moment and mended file by
\* file, and without git no file is left behind that nobody will mend.
THEOREM IndexImplementsMirror == Spec => ImplementsMirror
<1>1. Init => Copy!MInit
  <2> SUFFICES ASSUME Init PROVE Copy!MInit
    OBVIOUS
  <2>1. Due = {}
    BY DEF Init, Due
  <2>2. db.rows = Copy!Nothing
    BY EmptyGraph DEF Init, Copy!Nothing
  <2> QED  BY <2>1, <2>2, StartAssumption DEF Init, Rest, Copy!MInit, Copy!Copies, Copy!Free
<1>2. TypeInv /\ TypeInv' /\ ConvergeInv /\ ConvergeInv' /\ (Git = FALSE => CacheInv) /\ [Next]_vars
        => [Copy!MNext]_(Copy!mvars)
  BY StepMirror
<1>3. Spec => [](Git = FALSE => CacheInv)
  <2>1. CASE Git = FALSE
    BY <2>1, AlwaysCacheInv, PTL
  <2>2. CASE Git # FALSE
    <3>1. Git = FALSE => CacheInv
      BY <2>2
    <3> QED  BY <3>1, PTL
  <2> QED  BY <2>1, <2>2
<1> QED
  BY <1>1, <1>2, <1>3, AlwaysTypeInv, AlwaysConvergeInv, PTL
     DEF Spec, ImplementsMirror, Copy!MSpec
=============================================================================
