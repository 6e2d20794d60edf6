---------------------------- MODULE SearchProofs ----------------------------
(***************************************************************************)
(* The searches over the graph and the repository do what they promise,    *)
(* for any graph, any files and any bounds: pathBetween finds a shortest   *)
(* path, callersOf and calleesOf make a tree of real calls, complete near  *)
(* its root, and resolveScope collects what belongs to a failure, or as    *)
(* much of it as the budget allows.                                        *)
(***************************************************************************)
EXTENDS PathSearch, TreeWalk, ScopeGrowth, WellFoundedInduction, TLAPS
-----------------------------------------------------------------------------
(* Least numbers.                                                          *)

\* A set of numbers that is not empty has a least one.
LEMMA Least ==
  ASSUME NEW S \in SUBSET Nat, S # {}
  PROVE  \E i \in S : \A j \in S : i <= j
<1>. DEFINE R == {p \in Nat \X Nat : p[1] < p[2]}
<1>1. IsWellFoundedOn(R, Nat)
  BY NatLessThanWellFounded, Zenon DEF OpToRel
<1>2. PICK i \in S : \A j \in S : <<j, i>> \notin R
  <2>. HIDE DEF R
  <2>. QED
    BY <1>1, WFMin
<1>3. \A j \in S : ~(j < i)
  BY <1>2
<1>. QED
  BY <1>3
-----------------------------------------------------------------------------
(* The search for a path.                                                  *)

AllQuestions == [seeds : Seq(Symbols), goals : SUBSET Symbols,
                 hops : [Symbols -> Seq(Row)], max : Nat]

\* The walks to s have n hops at least, and one has n.
Dist(q, s, n) == Reaches(q, s, n) /\ \A m \in Nat : m < n => ~Reaches(q, s, m)
-----------------------------------------------------------------------------
(* Walks.                                                                  *)

LEMMA WalkOfNone ==
  ASSUME NEW q, NEW s \in Symbols
  PROVE  Reaches(q, s, 0) <=> s \in Sources(q)
<1>1. ASSUME Reaches(q, s, 0) PROVE s \in Sources(q)
  BY <1>1 DEF Reaches, IsWalk
<1>2. ASSUME s \in Sources(q) PROVE Reaches(q, s, 0)
  <2>. DEFINE p == [i \in 0 .. 0 |-> s]
  <2>1. p \in [0 .. 0 -> Symbols] /\ p[0] = s
    OBVIOUS
  <2>2. IsWalk(q, p, 0)
    BY <1>2, <2>1 DEF IsWalk
  <2>. QED
    BY <2>1, <2>2 DEF Reaches
<1>. QED
  BY <1>1, <1>2

\* A hop makes a walk longer by one.
LEMMA WalkOn ==
  ASSUME NEW q, NEW s \in Symbols, NEW t \in Symbols, NEW n \in Nat,
         Reaches(q, s, n), Hop(q, s, t)
  PROVE  Reaches(q, t, n + 1)
<1>1. PICK p \in [0 .. n -> Symbols] : IsWalk(q, p, n) /\ p[n] = s
  BY DEF Reaches
<1>. DEFINE r == [i \in 0 .. (n + 1) |-> IF i = n + 1 THEN t ELSE p[i]]
<1>2. r \in [0 .. (n + 1) -> Symbols] /\ r[n + 1] = t
  OBVIOUS
<1>3. r[0] \in Sources(q)
  BY <1>1 DEF IsWalk
<1>4. ASSUME NEW i \in 1 .. (n + 1) PROVE Hop(q, r[i - 1], r[i])
  <2>1. CASE i = n + 1
    <3>1. r[i - 1] = s /\ r[i] = t
      BY <1>1, <2>1
    <3>. QED
      BY <3>1
  <2>2. CASE i # n + 1
    <3>1. i \in 1 .. n /\ r[i - 1] = p[i - 1] /\ r[i] = p[i]
      BY <2>2
    <3>. QED
      BY <1>1, <3>1 DEF IsWalk
  <2>. QED
    BY <2>1, <2>2
<1>5. IsWalk(q, r, n + 1)
  <2>. HIDE DEF r
  <2>. QED
    BY <1>3, <1>4 DEF IsWalk
<1>. QED
  <2>. HIDE DEF r
  <2>. QED
    BY <1>2, <1>5 DEF Reaches

LEMMA WalkBack ==
  ASSUME NEW q, NEW t \in Symbols, NEW n \in Nat, Reaches(q, t, n + 1)
  PROVE  \E s \in Symbols : Reaches(q, s, n) /\ Hop(q, s, t)
<1>1. PICK p \in [0 .. (n + 1) -> Symbols] : IsWalk(q, p, n + 1) /\ p[n + 1] = t
  BY DEF Reaches
<1>. DEFINE r == [i \in 0 .. n |-> p[i]]
<1>2. r \in [0 .. n -> Symbols] /\ r[n] = p[n] /\ p[n] \in Symbols
  OBVIOUS
<1>3. IsWalk(q, r, n)
  <2>1. r[0] = p[0] /\ \A i \in 1 .. n : r[i - 1] = p[i - 1] /\ r[i] = p[i] /\ i \in 1 .. (n + 1)
    OBVIOUS
  <2>. HIDE DEF r
  <2>. QED
    BY <1>1, <2>1 DEF IsWalk
<1>4. Hop(q, p[n], t)
  <2>1. n + 1 \in 1 .. (n + 1) /\ (n + 1) - 1 = n
    OBVIOUS
  <2>2. Hop(q, p[(n + 1) - 1], p[n + 1])
    BY <1>1, <2>1 DEF IsWalk
  <2>. QED
    BY <1>1, <2>1, <2>2
<1>. QED
  <2>. HIDE DEF r
  <2>. QED
    BY <1>2, <1>3, <1>4 DEF Reaches

\* A set that has the sources and, of all its members nearer than L hops,
\* what they lead to, has all that is L hops away.
LEMMA Covered ==
  ASSUME NEW q, NEW S, NEW L \in Nat, Sources(q) \subseteq S,
         \A s \in S \cap Symbols : \/ \A t \in Symbols : Hop(q, s, t) => t \in S
                                   \/ \A m \in Nat : m < L => ~Reaches(q, s, m)
  PROVE  \A n \in Nat, t \in Symbols : n <= L /\ Reaches(q, t, n) => t \in S
<1>. DEFINE Missed == {n \in Nat : n <= L /\ \E t \in Symbols \ S : Reaches(q, t, n)}
<1>1. SUFFICES ASSUME Missed # {} PROVE FALSE
  OBVIOUS
<1>2. PICK n \in Missed : \A k \in Missed : n <= k
  BY <1>1, Least
<1>3. PICK t \in Symbols \ S : Reaches(q, t, n)
  OBVIOUS
<1>4. n # 0
  BY <1>3, WalkOfNone
<1>5. PICK m \in Nat : n = m + 1
  <2>1. n - 1 \in Nat /\ n = (n - 1) + 1
    BY <1>4
  <2>. QED
    BY <2>1
<1>6. PICK s \in Symbols : Reaches(q, s, m) /\ Hop(q, s, t)
  BY <1>3, <1>5, WalkBack
<1>7. s \in S
  <2>1. m \notin Missed /\ m < L
    BY <1>2, <1>5
  <2>. QED
    BY <1>6, <2>1
<1>. QED
  BY <1>3, <1>5, <1>6, <1>7
-----------------------------------------------------------------------------
(* The inductive invariant.                                                *)

AnyKind == Kinds \cup {"SEED"}
Entries == [id : Symbols, depth : Nat]
Steps == [id : Symbols, kind : AnyKind]
Crumbs == [parent : Symbols \cup {Nowhere}, kind : AnyKind]
CrumbMaps == UNION {[S -> Crumbs] : S \in SUBSET Symbols}

Searches ==
  [pc : {"seed", "take", "read", "trail", "done"}, todo : Seq(Symbols), queue : Seq(Entries),
   at : [id : Symbols \cup {Nowhere}, depth : Nat], rows : Seq(Row), parents : CrumbMaps,
   cursor : Symbols \cup {Nowhere}, route : Seq(Steps)]

Typed == ask \in AllQuestions /\ search \in Searches

Known == DOMAIN search.parents

\* Every symbol found was found from one that is one hop nearer.
Traced(s, n) ==
  LET crumb == search.parents[s] IN
  IF crumb.kind = "SEED" THEN n = 0 /\ s \in Sources(ask)
  ELSE /\ crumb.kind \in Kinds /\ crumb.parent \in Known
       /\ HopBy(ask, crumb.parent, s, crumb.kind)
       /\ n > 0 /\ Dist(ask, crumb.parent, n - 1)

CrumbsLead == \A s \in Known : \E n \in Nat : Dist(ask, s, n) /\ Traced(s, n)

Waits(s) == \E i \in DOMAIN search.queue : search.queue[i].id = s
IsDone(s) == (\A t \in Symbols : Hop(ask, s, t) => t \in Known) \/ Dist(ask, s, ask.max)

\* While the search is on: no goal is found; the queue is in the order of the
\* distances, of which it has two at most; what is found is in the queue, is
\* being read, or has led to all that it leads to.
Onward ==
  /\ Known \cap ask.goals = {}
  /\ \A i \in DOMAIN search.queue :
       /\ search.queue[i].id \in Known /\ search.queue[i].depth <= ask.max
       /\ Dist(ask, search.queue[i].id, search.queue[i].depth)
       /\ \A j \in DOMAIN search.queue : i <= j =>
            /\ search.queue[i].depth <= search.queue[j].depth
            /\ search.queue[j].depth <= search.queue[i].depth + 1
  /\ \A s \in Known : Waits(s) \/ IsDone(s) \/ (search.pc = "read" /\ s = search.at.id)

Seeding ==
  /\ \A i \in DOMAIN search.todo : search.todo[i] \in Sources(ask)
  /\ \A s \in Sources(ask) : s \in Known \/ \E i \in DOMAIN search.todo : search.todo[i] = s
  /\ \A i \in DOMAIN search.queue : search.queue[i].depth = 0

Reading ==
  /\ search.at.id \in Known /\ search.at.depth < ask.max
  /\ Dist(ask, search.at.id, search.at.depth)
  /\ \A i \in DOMAIN search.queue : /\ search.at.depth <= search.queue[i].depth
                                   /\ search.queue[i].depth <= search.at.depth + 1
  /\ \A i \in DOMAIN search.rows :
       HopBy(ask, search.at.id, search.rows[i].to, search.rows[i].kind)
  /\ \A t \in Symbols : Hop(ask, search.at.id, t) =>
       t \in Known \/ \E i \in DOMAIN search.rows : search.rows[i].to = t

\* The route leads from the cursor to a goal, and is as long as it is far.
Tracing ==
  /\ search.cursor \in Known
  /\ \E n \in Nat : /\ Dist(ask, search.cursor, n) /\ n + Len(search.route) <= ask.max
                    /\ NoneBefore(ask, n + Len(search.route))
  /\ \A i \in 2 .. Len(search.route) :
       HopBy(ask, search.route[i - 1].id, search.route[i].id, search.route[i].kind)
  /\ IF search.route = <<>> THEN search.cursor \in ask.goals
     ELSE /\ HopBy(ask, search.cursor, search.route[1].id, search.route[1].kind)
          /\ search.route[Len(search.route)].id \in ask.goals

PathInv ==
  /\ Typed
  /\ CrumbsLead
  /\ search.pc \in {"seed", "take", "read"} => Onward /\ search.route = <<>>
  /\ search.pc = "seed" => Seeding
  /\ search.pc \in {"take", "read"} => Sources(ask) \subseteq Known
  /\ search.pc = "read" => Reading
  /\ search.pc = "trail" => Tracing
  /\ RouteShortest
-----------------------------------------------------------------------------
(* The beginning.                                                          *)

LEMMA NoCrumbs == <<>> \in CrumbMaps /\ DOMAIN <<>> = {}
<1>1. DOMAIN <<>> = {}
  OBVIOUS
<1>2. <<>> \in [{} -> Crumbs]
  OBVIOUS
<1>. QED
  BY <1>1, <1>2 DEF CrumbMaps

LEMMA InitTyped == PathInit => Typed
<1>. SUFFICES ASSUME PathInit PROVE Typed
  OBVIOUS
<1>1. ask \in AllQuestions
  BY QuestionsAssumption DEF PathInit, AllQuestions
<1>2. ask.seeds \in Seq(Symbols)
  BY <1>1 DEF AllQuestions
<1>3. search = StartSearch(ask)
  BY DEF PathInit
<1>. QED
  BY <1>1, <1>2, <1>3, NoCrumbs DEF Typed, Searches, StartSearch

LEMMA InitPathInv == PathInit => PathInv
<1>. SUFFICES ASSUME PathInit PROVE PathInv
  OBVIOUS
<1>1. Typed
  BY InitTyped
<1>2. ask \in AllQuestions /\ ask.seeds \in Seq(Symbols) /\ ask.goals \in SUBSET Symbols /\ ask.max \in Nat
  BY <1>1 DEF Typed, AllQuestions
<1>3. /\ search.pc = IF ask.seeds = <<>> \/ ask.goals = {} THEN "done" ELSE "seed"
      /\ search.todo = ask.seeds /\ search.queue = <<>> /\ search.parents = <<>>
      /\ search.route = <<>>
  BY DEF PathInit, StartSearch
<1>4. Known = {}
  BY <1>3, NoCrumbs DEF Known
<1>5. CrumbsLead
  BY <1>4 DEF CrumbsLead
<1>6. Onward
  BY <1>3, <1>4 DEF Onward
<1>7. Seeding
  BY <1>2, <1>3 DEF Seeding, Sources
<1>8. RouteShortest
  <2>1. SUFFICES ASSUME search.pc = "done" PROVE NoneBefore(ask, ask.max + 1)
    BY <1>3 DEF RouteShortest
  <2>2. ask.seeds = <<>> \/ ask.goals = {}
    BY <1>3, <2>1
  <2>3. CASE ask.goals = {}
    BY <2>3 DEF NoneBefore
  <2>4. CASE ask.seeds = <<>>
    <3>1. Sources(ask) = {}
      BY <2>4 DEF Sources
    <3>2. \A t, m : ~Reaches(ask, t, m)
      BY <3>1 DEF Reaches, IsWalk
    <3>. QED
      BY <3>2 DEF NoneBefore
  <2>. QED
    BY <2>2, <2>3, <2>4
<1>9. search.pc \notin {"take", "read", "trail"}
  BY <1>3
<1>. QED
  BY <1>1, <1>3, <1>5, <1>6, <1>7, <1>8, <1>9 DEF PathInv
-----------------------------------------------------------------------------
(* The steps keep the types.                                               *)

LEMMA MarkedCrumbs ==
  ASSUME NEW parents \in CrumbMaps, NEW s \in Symbols,
         NEW crumb \in Crumbs
  PROVE  /\ Marked(parents, s, crumb) \in CrumbMaps
         /\ DOMAIN Marked(parents, s, crumb) = DOMAIN parents \cup {s}
         /\ Marked(parents, s, crumb)[s] = crumb
         /\ \A t \in DOMAIN parents : t # s => Marked(parents, s, crumb)[t] = parents[t]
<1>1. PICK S \in SUBSET Symbols : parents \in [S -> Crumbs]
  BY DEF CrumbMaps
<1>2. Marked(parents, s, crumb) \in [S \cup {s} -> Crumbs]
  BY <1>1 DEF Marked
<1>3. S \cup {s} \in SUBSET Symbols
  BY <1>1
<1>. QED
  BY <1>2, <1>3 DEF Marked, CrumbMaps

LEMMA Fields ==
  ASSUME Typed
  PROVE  /\ ask.seeds \in Seq(Symbols) /\ ask.goals \in SUBSET Symbols /\ ask.max \in Nat
         /\ ask.hops \in [Symbols -> Seq(Row)]
         /\ search.todo \in Seq(Symbols) /\ search.queue \in Seq(Entries)
         /\ search.at.depth \in Nat /\ search.rows \in Seq(Row)
         /\ search.parents \in CrumbMaps /\ search.route \in Seq(Steps)
         /\ Known \subseteq Symbols
         /\ \A s \in Known : search.parents[s] \in Crumbs
<1>1. search.parents \in CrumbMaps
  BY DEF Typed, Searches
<1>2. /\ Known \subseteq Symbols
      /\ \A s \in Known : search.parents[s] \in Crumbs
  BY <1>1 DEF Known, CrumbMaps
<1>. QED
  BY <1>1, <1>2 DEF Typed, AllQuestions, Searches

LEMMA SeedEnds ==
  ASSUME Typed, Seed, search.todo = <<>>
  PROVE  /\ Typed' /\ ask' = ask /\ search.pc = "seed" /\ search'.pc = "take"
         /\ search'.queue = search.queue /\ search'.parents = search.parents
         /\ search'.route = search.route
BY DEF Typed, Searches, Seed, SeedNext

LEMMA SeedIsGoal ==
  ASSUME Typed, Seed, search.todo # <<>>, Head(search.todo) \in ask.goals
  PROVE  /\ Typed' /\ ask' = ask /\ search.pc = "seed" /\ search'.pc = "done"
         /\ search'.parents = search.parents
         /\ search'.route = <<[id |-> Head(search.todo), kind |-> "SEED"]>>
<1>1. Head(search.todo) \in Symbols
  BY DEF Typed, Searches
<1>2. <<[id |-> Head(search.todo), kind |-> "SEED"]>> \in Seq(Steps)
  BY <1>1 DEF Steps, AnyKind
<1>3. search' = [search EXCEPT !.pc = "done", !.route = <<[id |-> Head(search.todo), kind |-> "SEED"]>>]
  BY DEF Seed, SeedNext
<1>. QED
  BY <1>2, <1>3 DEF Typed, Searches, Seed

LEMMA SeedQueued ==
  ASSUME Typed, Seed, search.todo # <<>>, Head(search.todo) \notin ask.goals
  PROVE  /\ Typed' /\ ask' = ask /\ search.pc = "seed" /\ search'.pc = "seed"
         /\ search'.todo = Tail(search.todo)
         /\ search'.queue = Append(search.queue, [id |-> Head(search.todo), depth |-> 0])
         /\ search'.parents = Marked(search.parents, Head(search.todo),
                                    [parent |-> Nowhere, kind |-> "SEED"])
         /\ search'.route = search.route
<1>. DEFINE s == Head(search.todo)
            crumbs == Marked(search.parents, s, [parent |-> Nowhere, kind |-> "SEED"])
<1>1. s \in Symbols /\ Tail(search.todo) \in Seq(Symbols)
  BY DEF Typed, Searches
<1>2. crumbs \in CrumbMaps
  <2>1. [parent |-> Nowhere, kind |-> "SEED"] \in Crumbs
    BY DEF Crumbs, AnyKind
  <2>2. search.parents \in CrumbMaps
    BY DEF Typed, Searches
  <2>. QED
    BY <1>1, <2>1, <2>2, MarkedCrumbs
<1>3. Append(search.queue, [id |-> s, depth |-> 0]) \in Seq(Entries)
  BY <1>1 DEF Typed, Searches, Entries
<1>4. search' = [search EXCEPT !.todo = Tail(search.todo), !.parents = crumbs,
                               !.queue = Append(search.queue, [id |-> s, depth |-> 0])]
  BY DEF Seed, SeedNext, Queued, Typed, Searches
<1>. HIDE DEF s, crumbs
<1>5. /\ Typed' /\ search'.todo = Tail(search.todo) /\ search'.parents = crumbs
      /\ search'.queue = Append(search.queue, [id |-> s, depth |-> 0])
      /\ search'.pc = search.pc /\ search'.route = search.route
  BY <1>1, <1>2, <1>3, <1>4 DEF Typed, Searches, Seed
<1>. QED
  BY <1>5 DEF Seed, s, crumbs

LEMMA TakeEnds ==
  ASSUME Typed, Take, search.queue = <<>>
  PROVE  /\ Typed' /\ ask' = ask /\ search.pc = "take" /\ search'.pc = "done"
         /\ search'.parents = search.parents /\ search'.route = search.route
BY DEF Typed, Searches, Take, TakeNext

LEMMA TakeSkips ==
  ASSUME Typed, Take, search.queue # <<>>, Head(search.queue).depth >= ask.max
  PROVE  /\ Typed' /\ ask' = ask /\ search.pc = "take" /\ search'.pc = "take"
         /\ search'.queue = Tail(search.queue)
         /\ search'.parents = search.parents /\ search'.route = search.route
<1>1. Tail(search.queue) \in Seq(Entries)
  BY DEF Typed, Searches
<1>2. search' = [search EXCEPT !.queue = Tail(search.queue)]
  BY DEF Take, TakeNext
<1>. QED
  BY <1>1, <1>2 DEF Typed, Searches, Take

LEMMA TakeReads ==
  ASSUME Typed, Take, search.queue # <<>>, ~(Head(search.queue).depth >= ask.max)
  PROVE  /\ Typed' /\ ask' = ask /\ search.pc = "take" /\ search'.pc = "read"
         /\ search'.queue = Tail(search.queue) /\ search'.at = Head(search.queue)
         /\ search'.rows = ask.hops[Head(search.queue).id]
         /\ search'.parents = search.parents /\ search'.route = search.route
<1>1. Head(search.queue) \in Entries /\ Tail(search.queue) \in Seq(Entries)
  BY DEF Typed, Searches
<1>2. ask.hops[Head(search.queue).id] \in Seq(Row)
  BY <1>1 DEF Typed, AllQuestions, Entries
<1>3. search' = [search EXCEPT !.queue = Tail(search.queue), !.pc = "read",
                   !.at = Head(search.queue), !.rows = ask.hops[Head(search.queue).id]]
  BY DEF Take, TakeNext, Typed, Searches
<1>4. ask' = ask /\ search.pc = "take"
  BY DEF Take
<1>5. search'.at \in [id : Symbols \cup {Nowhere}, depth : Nat]
  BY <1>1, <1>3 DEF Typed, Searches, Entries
<1>6. /\ search'.queue = Tail(search.queue) /\ search'.at = Head(search.queue)
      /\ search'.rows = ask.hops[Head(search.queue).id] /\ search'.pc = "read"
      /\ search'.parents = search.parents /\ search'.route = search.route
  BY <1>3 DEF Typed, Searches
<1>7. Typed'
  BY <1>1, <1>2, <1>3, <1>4, <1>5 DEF Typed, Searches
<1>. QED
  BY <1>4, <1>6, <1>7

LEMMA ReadEnds ==
  ASSUME Typed, Read, search.rows = <<>>
  PROVE  /\ Typed' /\ ask' = ask /\ search.pc = "read" /\ search'.pc = "take"
         /\ search'.queue = search.queue
         /\ search'.parents = search.parents /\ search'.route = search.route
BY DEF Typed, Searches, Read, ReadNext

LEMMA ReadKnown ==
  ASSUME Typed, Read, search.rows # <<>>, Head(search.rows).to \in Known
  PROVE  /\ Typed' /\ ask' = ask /\ search.pc = "read" /\ search'.pc = "read"
         /\ search'.queue = search.queue /\ search'.at = search.at
         /\ search'.rows = Tail(search.rows)
         /\ search'.parents = search.parents /\ search'.route = search.route
<1>1. Tail(search.rows) \in Seq(Row)
  BY DEF Typed, Searches
<1>2. search' = [search EXCEPT !.rows = Tail(search.rows)]
  BY DEF Read, ReadNext, Known
<1>. QED
  BY <1>1, <1>2 DEF Typed, Searches, Read

\* What a row leads to gets a crumb.
CrumbOf(h) == [parent |-> search.at.id, kind |-> h.kind]

LEMMA CrumbOfRow ==
  ASSUME Typed, search.rows # <<>>
  PROVE  /\ Head(search.rows) \in Row /\ Tail(search.rows) \in Seq(Row)
         /\ CrumbOf(Head(search.rows)) \in Crumbs
         /\ Marked(search.parents, Head(search.rows).to, CrumbOf(Head(search.rows))) \in CrumbMaps
<1>1. Head(search.rows) \in Row /\ Tail(search.rows) \in Seq(Row) /\ search.at.id \in Symbols \cup {Nowhere}
  BY DEF Typed, Searches
<1>2. CrumbOf(Head(search.rows)) \in Crumbs
  BY <1>1 DEF CrumbOf, Crumbs, Row, AnyKind
<1>3. search.parents \in CrumbMaps /\ Head(search.rows).to \in Symbols
  BY <1>1 DEF Typed, Searches, Row
<1>. QED
  BY <1>1, <1>2, <1>3, MarkedCrumbs

LEMMA ReadGoal ==
  ASSUME Typed, Read, search.rows # <<>>, Head(search.rows).to \notin Known,
         Head(search.rows).to \in ask.goals
  PROVE  /\ Typed' /\ ask' = ask /\ search.pc = "read" /\ search'.pc = "trail"
         /\ search'.cursor = Head(search.rows).to
         /\ search'.parents = Marked(search.parents, Head(search.rows).to, CrumbOf(Head(search.rows)))
         /\ search'.route = search.route
<1>. DEFINE h == Head(search.rows)
            crumbs == Marked(search.parents, h.to, CrumbOf(h))
<1>1. h.to \in Symbols /\ crumbs \in CrumbMaps
  BY CrumbOfRow DEF Row
<1>2. search' = [search EXCEPT !.parents = crumbs, !.pc = "trail", !.cursor = h.to]
  BY DEF Read, ReadNext, Known, CrumbOf
<1>. HIDE DEF crumbs
<1>3. /\ Typed' /\ search'.parents = crumbs /\ search'.pc = "trail" /\ search'.cursor = h.to
      /\ search'.route = search.route
  BY <1>1, <1>2 DEF Typed, Searches, Read
<1>. QED
  BY <1>3 DEF Read, crumbs

LEMMA ReadQueued ==
  ASSUME Typed, Read, search.rows # <<>>, Head(search.rows).to \notin Known,
         Head(search.rows).to \notin ask.goals
  PROVE  /\ Typed' /\ ask' = ask /\ search.pc = "read" /\ search'.pc = "read"
         /\ search'.queue = Append(search.queue,
                                  [id |-> Head(search.rows).to, depth |-> search.at.depth + 1])
         /\ search'.at = search.at /\ search'.rows = Tail(search.rows)
         /\ search'.parents = Marked(search.parents, Head(search.rows).to, CrumbOf(Head(search.rows)))
         /\ search'.route = search.route
<1>. DEFINE h == Head(search.rows)
            crumbs == Marked(search.parents, h.to, CrumbOf(h))
            longer == Append(search.queue, [id |-> h.to, depth |-> search.at.depth + 1])
<1>1. h.to \in Symbols /\ crumbs \in CrumbMaps /\ Tail(search.rows) \in Seq(Row)
  BY CrumbOfRow DEF Row
<1>2. longer \in Seq(Entries)
  BY <1>1 DEF Typed, Searches, Entries
<1>3. search' = [search EXCEPT !.parents = crumbs, !.rows = Tail(search.rows), !.queue = longer]
  BY DEF Read, ReadNext, Known, CrumbOf, Queued, Typed, Searches
<1>. HIDE DEF crumbs, longer
<1>4. /\ Typed' /\ search'.parents = crumbs /\ search'.queue = longer /\ search'.at = search.at
      /\ search'.rows = Tail(search.rows) /\ search'.pc = search.pc /\ search'.route = search.route
  BY <1>1, <1>2, <1>3 DEF Typed, Searches, Read
<1>. QED
  BY <1>4 DEF Read, crumbs, longer

\* The step of the route that stands for the cursor.
StepBack == [id |-> search.cursor, kind |-> search.parents[search.cursor].kind]

LEMMA LongerRoute ==
  ASSUME Typed, search.cursor \in Known
  PROVE  /\ <<StepBack>> \o search.route \in Seq(Steps)
         /\ search.parents[search.cursor].parent \in Symbols \cup {Nowhere}
<1>1. search.cursor \in Symbols
      /\ search.parents[search.cursor] \in Crumbs
  BY Fields
<1>2. StepBack \in Steps
  BY <1>1 DEF StepBack, Crumbs, Steps
<1>. QED
  BY <1>1, <1>2 DEF Typed, Searches, Crumbs

LEMMA TraceEnds ==
  ASSUME Typed, Trace, search.cursor \in Known, search.parents[search.cursor].kind = "SEED"
  PROVE  /\ Typed' /\ ask' = ask /\ search.pc = "trail" /\ search'.pc = "done"
         /\ search'.parents = search.parents /\ search'.route = <<StepBack>> \o search.route
<1>1. search' = [search EXCEPT !.route = <<StepBack>> \o search.route, !.pc = "done"]
  BY DEF Trace, TrailNext, StepBack, Typed, Searches
<1>. QED
  BY <1>1, LongerRoute DEF Typed, Searches, Trace

LEMMA TraceOn ==
  ASSUME Typed, Trace, search.cursor \in Known, search.parents[search.cursor].kind # "SEED"
  PROVE  /\ Typed' /\ ask' = ask /\ search.pc = "trail" /\ search'.pc = "trail"
         /\ search'.cursor = search.parents[search.cursor].parent
         /\ search'.parents = search.parents /\ search'.route = <<StepBack>> \o search.route
<1>1. search' = [search EXCEPT !.route = <<StepBack>> \o search.route,
                               !.cursor = search.parents[search.cursor].parent]
  BY DEF Trace, TrailNext, StepBack, Typed, Searches
<1>. QED
  BY <1>1, LongerRoute DEF Typed, Searches, Trace
-----------------------------------------------------------------------------
(* Crumbs and distances.                                                   *)

LEMMA Longer ==
  ASSUME NEW T, NEW seq \in Seq(T), NEW e \in T
  PROVE  /\ DOMAIN Append(seq, e) = DOMAIN seq \cup {Len(seq) + 1}
         /\ Append(seq, e)[Len(seq) + 1] = e
         /\ \A i \in DOMAIN seq : Append(seq, e)[i] = seq[i] /\ i <= Len(seq)
OBVIOUS

LEMMA Shorter ==
  ASSUME NEW T, NEW seq \in Seq(T), seq # <<>>
  PROVE  /\ Head(seq) = seq[1] /\ 1 \in DOMAIN seq /\ Head(seq) \in T /\ Tail(seq) \in Seq(T)
         /\ \A i \in DOMAIN Tail(seq) : i + 1 \in DOMAIN seq /\ Tail(seq)[i] = seq[i + 1]
         /\ \A i \in DOMAIN seq : i # 1 => i - 1 \in DOMAIN Tail(seq) /\ Tail(seq)[i - 1] = seq[i]
OBVIOUS

LEMMA HeadOrTail ==
  ASSUME NEW T, NEW seq \in Seq(T), seq # <<>>
  PROVE  /\ \A i \in DOMAIN Tail(seq) : \E j \in DOMAIN seq : Tail(seq)[i] = seq[j]
         /\ \A i \in DOMAIN seq : \/ seq[i] = Head(seq)
                                \/ \E j \in DOMAIN Tail(seq) : Tail(seq)[j] = seq[i]
<1>1. ASSUME NEW i \in DOMAIN Tail(seq) PROVE \E j \in DOMAIN seq : Tail(seq)[i] = seq[j]
  <2>1. i + 1 \in DOMAIN seq /\ Tail(seq)[i] = seq[i + 1]
    BY Shorter
  <2>. QED
    BY <2>1
<1>2. ASSUME NEW i \in DOMAIN seq, seq[i] # Head(seq)
      PROVE  \E j \in DOMAIN Tail(seq) : Tail(seq)[j] = seq[i]
  <2>1. i # 1
    BY <1>2, Shorter
  <2>2. i - 1 \in DOMAIN Tail(seq) /\ Tail(seq)[i - 1] = seq[i]
    BY <2>1, Shorter
  <2>. QED
    BY <2>2
<1>. QED
  BY <1>1, <1>2

LEMMA SameCrumbs ==
  ASSUME CrumbsLead, ask' = ask, search'.parents = search.parents
  PROVE  Known' = Known /\ CrumbsLead'
BY DEF Known, CrumbsLead, Traced

LEMMA CrumbAdded ==
  ASSUME Typed, CrumbsLead, ask' = ask,
         NEW s \in Symbols, NEW n \in Nat, Dist(ask, s, n),
         NEW crumb \in Crumbs,
         search'.parents = Marked(search.parents, s, crumb),
         IF crumb.kind = "SEED" THEN n = 0 /\ s \in Sources(ask)
         ELSE /\ crumb.kind \in Kinds /\ crumb.parent \in Known
              /\ HopBy(ask, crumb.parent, s, crumb.kind)
              /\ n > 0 /\ Dist(ask, crumb.parent, n - 1)
  PROVE  Known' = Known \cup {s} /\ CrumbsLead'
<1>1. /\ Known' = Known \cup {s} /\ search'.parents[s] = crumb
      /\ \A t \in Known : t # s => search'.parents[t] = search.parents[t]
  <2>1. search.parents \in CrumbMaps
    BY Fields
  <2>2. /\ DOMAIN Marked(search.parents, s, crumb) = DOMAIN search.parents \cup {s}
        /\ Marked(search.parents, s, crumb)[s] = crumb
        /\ \A t \in DOMAIN search.parents :
             t # s => Marked(search.parents, s, crumb)[t] = search.parents[t]
    <3>1. ASSUME NEW parents \in CrumbMaps
          PROVE  /\ DOMAIN Marked(parents, s, crumb) = DOMAIN parents \cup {s}
                 /\ Marked(parents, s, crumb)[s] = crumb
                 /\ \A t \in DOMAIN parents : t # s => Marked(parents, s, crumb)[t] = parents[t]
      BY MarkedCrumbs
    <3>. QED
      BY <2>1, <3>1, Zenon
  <2>. QED
    BY <2>2 DEF Known
<1>2. Dist(ask, s, n)' /\ Traced(s, n)'
  BY <1>1 DEF Traced
<1>3. ASSUME NEW t \in Known, t # s
      PROVE  \E m \in Nat : Dist(ask, t, m)' /\ Traced(t, m)'
  <2>1. PICK m \in Nat : Dist(ask, t, m) /\ Traced(t, m)
    BY DEF CrumbsLead
  <2>2. Dist(ask, t, m)' /\ Traced(t, m)'
    BY <1>1, <1>3, <2>1 DEF Traced
  <2>. QED
    BY <2>2
<1>. QED
  BY <1>1, <1>2, <1>3 DEF CrumbsLead

\* What is nearer than all that is still to be read has been found.
LEMMA Ball ==
  ASSUME Typed, Onward, Sources(ask) \subseteq Known, NEW L \in Nat, L <= ask.max,
         \A i \in DOMAIN search.queue : L <= search.queue[i].depth,
         search.pc = "read" => Dist(ask, search.at.id, search.at.depth) /\ L <= search.at.depth
  PROVE  \A n \in Nat, t \in Symbols : n <= L /\ Reaches(ask, t, n) => t \in Known
<1>1. ASSUME NEW s \in Known
      PROVE  \/ \A t \in Symbols : Hop(ask, s, t) => t \in Known
             \/ \A m \in Nat : m < L => ~Reaches(ask, s, m)
  <2>1. CASE Waits(s)
    <3>1. PICK i \in DOMAIN search.queue : search.queue[i].id = s
      BY <2>1 DEF Waits
    <3>2. search.queue[i].depth \in Nat
      <4>1. search.queue[i] \in Entries
        BY <3>1, Fields
      <4>. QED
        BY <4>1 DEF Entries
    <3>3. Dist(ask, s, search.queue[i].depth) /\ L <= search.queue[i].depth
      BY <3>1 DEF Onward
    <3>. QED
      BY <3>2, <3>3 DEF Dist
  <2>2. CASE IsDone(s)
    BY <2>2, Fields DEF IsDone, Dist
  <2>3. CASE search.pc = "read" /\ s = search.at.id
    BY <2>3, Fields DEF Dist
  <2>. QED
    BY <2>1, <2>2, <2>3 DEF Onward
<1>. QED
  BY <1>1, Covered
-----------------------------------------------------------------------------
(* The seeds.                                                              *)

LEMMA SeedStep ==
  ASSUME PathInv, Seed
  PROVE  PathInv'
<1>1. /\ Typed /\ CrumbsLead /\ search.pc = "seed" /\ Onward /\ Seeding
      /\ search.route = <<>>
  BY DEF PathInv, Seed
<1>2. CASE search.todo = <<>>
  <2>1. /\ Typed' /\ ask' = ask /\ search'.pc = "take" /\ search'.queue = search.queue
        /\ search'.parents = search.parents /\ search'.route = search.route
    BY <1>1, <1>2, SeedEnds
  <2>2. Known' = Known /\ CrumbsLead'
    BY <1>1, <2>1, SameCrumbs
  <2>3. Onward'
    BY <1>1, <2>1, <2>2 DEF Onward, Waits, IsDone
  <2>4. Sources(ask) \subseteq Known
    BY <1>1, <1>2 DEF Seeding
  <2>5. RouteShortest'
    BY <2>1 DEF RouteShortest
  <2>. QED
    BY <1>1, <2>1, <2>2, <2>3, <2>4, <2>5 DEF PathInv
<1>3. CASE search.todo # <<>> /\ Head(search.todo) \in ask.goals
  <2>. DEFINE s == Head(search.todo)
  <2>1. /\ Typed' /\ ask' = ask /\ search'.pc = "done" /\ search'.parents = search.parents
        /\ search'.route = <<[id |-> s, kind |-> "SEED"]>>
    BY <1>1, <1>3, SeedIsGoal
  <2>2. CrumbsLead'
    BY <1>1, <2>1, SameCrumbs
  <2>3. s \in Sources(ask)
    BY <1>1, <1>3, Fields DEF Seeding
  <2>4. IsRoute(ask, <<[id |-> s, kind |-> "SEED"]>>)
    BY <1>3, <2>3 DEF IsRoute
  <2>5. NoneBefore(ask, 0)
    BY DEF NoneBefore
  <2>6. RouteShortest'
    BY <1>1, <2>1, <2>4, <2>5, Fields DEF RouteShortest
  <2>. QED
    BY <2>1, <2>2, <2>6 DEF PathInv
<1>4. CASE search.todo # <<>> /\ Head(search.todo) \notin ask.goals
  <2>. DEFINE crumb == [parent |-> Nowhere, kind |-> "SEED"]
  <2>0. PICK s \in Symbols : s = Head(search.todo)
    BY <1>1, <1>4, Fields
  <2>1. /\ Typed' /\ ask' = ask /\ search'.pc = "seed" /\ search'.todo = Tail(search.todo)
        /\ search'.queue = Append(search.queue, [id |-> s, depth |-> 0])
        /\ search'.parents = Marked(search.parents, s, crumb)
        /\ search'.route = search.route
    BY <1>1, <1>4, <2>0, SeedQueued
  <2>2. s \in Sources(ask) /\ s \notin ask.goals
    BY <1>1, <1>4, <2>0, Fields DEF Seeding
  <2>3. Dist(ask, s, 0)
    BY <2>2, WalkOfNone DEF Dist
  <2>4. Known' = Known \cup {s} /\ CrumbsLead'
    <3>1. crumb \in Crumbs
      BY DEF Crumbs, AnyKind
    <3>. QED
      BY <1>1, <2>1, <2>2, <2>3, <3>1, CrumbAdded
  <2>5. \A i \in DOMAIN search'.queue :
           /\ search'.queue[i].id \in Known' /\ search'.queue[i].depth = 0
           /\ Dist(ask, search'.queue[i].id, 0)
    BY <1>1, <2>1, <2>3, <2>4, Fields DEF Onward, Seeding
  <2>6. \A t \in Known' : Waits(t)' \/ IsDone(t)'
    <3>0. /\ DOMAIN search'.queue = DOMAIN search.queue \cup {Len(search.queue) + 1}
          /\ search'.queue[Len(search.queue) + 1] = [id |-> s, depth |-> 0]
          /\ \A i \in DOMAIN search.queue : search'.queue[i] = search.queue[i]
      BY <1>1, <2>1, <2>2, Fields, Longer DEF Entries
    <3>1. Waits(s)'
      BY <3>0 DEF Waits
    <3>2. ASSUME NEW t \in Known PROVE Waits(t)' \/ IsDone(t)'
      <4>1. Waits(t) => Waits(t)'
        BY <3>0 DEF Waits
      <4>2. IsDone(t) => IsDone(t)'
        BY <2>1, <2>4 DEF IsDone
      <4>. QED
        BY <1>1, <4>1, <4>2 DEF Onward
    <3>. QED
      BY <2>4, <3>1, <3>2
  <2>7. Onward'
    <3>1. Known' \cap ask'.goals = {}
      BY <1>1, <2>1, <2>2, <2>4 DEF Onward
    <3>. QED
      BY <1>1, <2>1, <2>5, <2>6, <3>1, Fields DEF Onward
  <2>8. Seeding'
    <3>1. \A i \in DOMAIN Tail(search.todo) : i + 1 \in DOMAIN search.todo /\ Tail(search.todo)[i] = search.todo[i + 1]
      BY <1>1, <1>4, Fields
    <3>2. \A i \in DOMAIN search'.todo : search'.todo[i] \in Sources(ask)
      BY <1>1, <2>1, <3>1 DEF Seeding
    <3>3. ASSUME NEW t \in Sources(ask)
          PROVE  t \in Known' \/ \E i \in DOMAIN search'.todo : search'.todo[i] = t
      <4>1. CASE t \in Known
        BY <2>4, <4>1
      <4>2. CASE t \notin Known
        <5>1. PICK i \in DOMAIN search.todo : search.todo[i] = t
          BY <1>1, <4>2 DEF Seeding
        <5>2. CASE i = 1
          BY <1>1, <2>0, <2>4, <5>1, <5>2, Fields
        <5>3. CASE i # 1
          <6>1. i - 1 \in DOMAIN Tail(search.todo) /\ Tail(search.todo)[i - 1] = t
            BY <1>1, <1>4, <5>1, <5>3, Fields, Shorter
          <6>. QED
            BY <2>1, <6>1
        <5>. QED
          BY <5>2, <5>3
      <4>. QED
        BY <4>1, <4>2
    <3>. QED
      BY <2>1, <2>5, <3>2, <3>3 DEF Seeding
  <2>9. RouteShortest'
    BY <2>1 DEF RouteShortest
  <2>. QED
    BY <1>1, <2>1, <2>4, <2>7, <2>8, <2>9 DEF PathInv
<1>. QED
  BY <1>2, <1>3, <1>4
-----------------------------------------------------------------------------
(* The queue.                                                              *)

\* Without its head the queue is in order, and none but the head has left.
LEMMA HeadLeaves ==
  ASSUME Typed, Onward, search.queue # <<>>, Typed', ask' = ask,
         search'.parents = search.parents, search'.queue = Tail(search.queue)
  PROVE  /\ Known' = Known
         /\ \A i \in DOMAIN search'.queue :
              /\ search'.queue[i].id \in Known /\ search'.queue[i].depth <= ask.max
              /\ Dist(ask, search'.queue[i].id, search'.queue[i].depth)
              /\ Head(search.queue).depth <= search'.queue[i].depth
              /\ search'.queue[i].depth <= Head(search.queue).depth + 1
              /\ \A j \in DOMAIN search'.queue : i <= j =>
                   /\ search'.queue[i].depth <= search'.queue[j].depth
                   /\ search'.queue[j].depth <= search'.queue[i].depth + 1
         /\ \A s \in Known : Waits(s) /\ s # Head(search.queue).id => Waits(s)'
         /\ \A s \in Known : IsDone(s) => IsDone(s)'
         /\ Head(search.queue).id \in Known /\ Head(search.queue).depth \in Nat
         /\ Head(search.queue).depth <= ask.max
         /\ Dist(ask, Head(search.queue).id, Head(search.queue).depth)
<1>1. Known' = Known
  BY DEF Known
<1>2. /\ Head(search.queue) = search.queue[1] /\ 1 \in DOMAIN search.queue
      /\ Head(search.queue) \in Entries
      /\ \A i \in DOMAIN search'.queue :
           i + 1 \in DOMAIN search.queue /\ search'.queue[i] = search.queue[i + 1]
      /\ \A i \in DOMAIN search.queue :
           i # 1 => i - 1 \in DOMAIN search'.queue /\ search'.queue[i - 1] = search.queue[i]
  BY Fields, Shorter
<1>3. DOMAIN search.queue \subseteq Nat \ {0} /\ DOMAIN search'.queue \subseteq Nat \ {0}
  <2>1. search.queue \in Seq(Entries) /\ search'.queue \in Seq(Entries)
    BY Fields DEF Typed, Searches
  <2>. QED
    BY <2>1
<1>4. ASSUME NEW i \in DOMAIN search'.queue
      PROVE  /\ search'.queue[i].id \in Known /\ search'.queue[i].depth <= ask.max
             /\ Dist(ask, search'.queue[i].id, search'.queue[i].depth)
             /\ Head(search.queue).depth <= search'.queue[i].depth
             /\ search'.queue[i].depth <= Head(search.queue).depth + 1
             /\ \A j \in DOMAIN search'.queue : i <= j =>
                  /\ search'.queue[i].depth <= search'.queue[j].depth
                  /\ search'.queue[j].depth <= search'.queue[i].depth + 1
  <2>1. i + 1 \in DOMAIN search.queue /\ search'.queue[i] = search.queue[i + 1] /\ 1 <= i + 1
    BY <1>2, <1>3
  <2>2. ASSUME NEW j \in DOMAIN search'.queue, i <= j
        PROVE  /\ search'.queue[i].depth <= search'.queue[j].depth
               /\ search'.queue[j].depth <= search'.queue[i].depth + 1
    <3>1. j + 1 \in DOMAIN search.queue /\ search'.queue[j] = search.queue[j + 1] /\ i + 1 <= j + 1
      BY <1>2, <1>3, <2>2
    <3>. QED
      BY <2>1, <3>1 DEF Onward
  <2>. QED
    BY <1>2, <2>1, <2>2 DEF Onward
<1>5. ASSUME NEW s \in Known, Waits(s), s # Head(search.queue).id
      PROVE  Waits(s)'
  <2>1. PICK i \in DOMAIN search.queue : search.queue[i].id = s
    BY <1>5 DEF Waits
  <2>2. i - 1 \in DOMAIN search'.queue /\ search'.queue[i - 1].id = s
    BY <1>2, <1>5, <2>1
  <2>. QED
    BY <2>2 DEF Waits
<1>6. \A s \in Known : IsDone(s) => IsDone(s)'
  BY <1>1 DEF IsDone
<1>7. /\ Head(search.queue).id \in Known /\ Head(search.queue).depth \in Nat
      /\ Head(search.queue).depth <= ask.max
      /\ Dist(ask, Head(search.queue).id, Head(search.queue).depth)
  <2>1. Head(search.queue).depth \in Nat
    BY <1>2 DEF Entries
  <2>. QED
    BY <1>2, <2>1 DEF Onward
<1>. QED
  BY <1>1, <1>4, <1>5, <1>6, <1>7

LEMMA TakeStep ==
  ASSUME PathInv, Take
  PROVE  PathInv'
<1>1. /\ Typed /\ CrumbsLead /\ search.pc = "take" /\ Onward /\ search.route = <<>>
      /\ Sources(ask) \subseteq Known
  BY DEF PathInv, Take
<1>2. CASE search.queue = <<>>
  <2>1. /\ Typed' /\ ask' = ask /\ search'.pc = "done" /\ search'.parents = search.parents
        /\ search'.route = search.route
    BY <1>1, <1>2, TakeEnds
  <2>2. CrumbsLead'
    BY <1>1, <2>1, SameCrumbs
  <2>3. \A n \in Nat, t \in Symbols : n <= ask.max /\ Reaches(ask, t, n) => t \in Known
    BY <1>1, <1>2, Ball, Fields
  <2>4. NoneBefore(ask, ask.max + 1)
    BY <1>1, <2>3, Fields DEF NoneBefore, Onward
  <2>5. RouteShortest'
    BY <1>1, <2>1, <2>4 DEF RouteShortest
  <2>. QED
    BY <2>1, <2>2, <2>5 DEF PathInv
<1>3. CASE search.queue # <<>> /\ Head(search.queue).depth >= ask.max
  <2>1. /\ Typed' /\ ask' = ask /\ search'.pc = "take" /\ search'.queue = Tail(search.queue)
        /\ search'.parents = search.parents /\ search'.route = search.route
    BY <1>1, <1>3, TakeSkips
  <2>2. Known' = Known /\ CrumbsLead'
    BY <1>1, <2>1, SameCrumbs
  <2>3. PICK e : e = Head(search.queue)
    OBVIOUS
  <2>4. IsDone(e.id)'
    <3>1. e.depth = ask.max
      BY <1>1, <1>3, <2>1, <2>3, HeadLeaves, Fields
    <3>2. Dist(ask, e.id, ask.max)
      BY <1>1, <1>3, <2>1, <2>3, <3>1, HeadLeaves
    <3>. QED
      BY <2>1, <3>2 DEF IsDone
  <2>5. \A s \in Known : Waits(s)' \/ IsDone(s)'
    BY <1>1, <1>3, <2>1, <2>3, <2>4, HeadLeaves DEF Onward
  <2>6. Onward'
    <3>1. \A i \in DOMAIN search'.queue :
            /\ search'.queue[i].id \in Known /\ search'.queue[i].depth <= ask.max
            /\ Dist(ask, search'.queue[i].id, search'.queue[i].depth)
            /\ \A j \in DOMAIN search'.queue : i <= j =>
                 /\ search'.queue[i].depth <= search'.queue[j].depth
                 /\ search'.queue[j].depth <= search'.queue[i].depth + 1
      BY <1>1, <1>3, <2>1, HeadLeaves
    <3>. QED
      BY <1>1, <2>1, <2>2, <2>5, <3>1 DEF Onward
  <2>7. RouteShortest'
    BY <2>1 DEF RouteShortest
  <2>. QED
    BY <1>1, <2>1, <2>2, <2>6, <2>7 DEF PathInv
<1>4. CASE search.queue # <<>> /\ ~(Head(search.queue).depth >= ask.max)
  <2>1. /\ Typed' /\ ask' = ask /\ search'.pc = "read" /\ search'.queue = Tail(search.queue)
        /\ search'.at = Head(search.queue) /\ search'.rows = ask.hops[Head(search.queue).id]
        /\ search'.parents = search.parents /\ search'.route = search.route
    BY <1>1, <1>4, TakeReads
  <2>2. Known' = Known /\ CrumbsLead'
    BY <1>1, <2>1, SameCrumbs
  <2>3. \A s \in Known : Waits(s)' \/ IsDone(s)' \/ s = search'.at.id
    BY <1>1, <1>4, <2>1, HeadLeaves DEF Onward
  <2>4. \A i \in DOMAIN search'.queue :
          /\ search'.queue[i].id \in Known /\ search'.queue[i].depth <= ask.max
          /\ Dist(ask, search'.queue[i].id, search'.queue[i].depth)
          /\ search'.at.depth <= search'.queue[i].depth
          /\ search'.queue[i].depth <= search'.at.depth + 1
          /\ \A j \in DOMAIN search'.queue : i <= j =>
               /\ search'.queue[i].depth <= search'.queue[j].depth
               /\ search'.queue[j].depth <= search'.queue[i].depth + 1
    BY <1>1, <1>4, <2>1, HeadLeaves
  <2>5. Onward'
    BY <1>1, <2>1, <2>2, <2>3, <2>4 DEF Onward
  <2>6. /\ search'.at.id \in Known /\ search'.at.depth < ask.max
        /\ Dist(ask, search'.at.id, search'.at.depth)
    BY <1>1, <1>4, <2>1, HeadLeaves, Fields
  <2>7. ask.hops[search'.at.id] \in Seq(Row)
    BY <1>1, <2>6, Fields
  <2>8. \A i \in DOMAIN search'.rows :
          HopBy(ask, search'.at.id, search'.rows[i].to, search'.rows[i].kind)
    <3>1. ASSUME NEW i \in DOMAIN ask.hops[search'.at.id]
          PROVE  HopBy(ask, search'.at.id, ask.hops[search'.at.id][i].to, ask.hops[search'.at.id][i].kind)
      <4>1. ask.hops[search'.at.id][i] \in Row
        BY <2>7
      <4>. QED
        BY <4>1 DEF HopBy, Row
    <3>. QED
      BY <2>1, <3>1
  <2>9. \A t \in Symbols : Hop(ask, search'.at.id, t) => \E i \in DOMAIN search'.rows : search'.rows[i].to = t
    BY <2>1 DEF Hop, HopBy
  <2>10. Reading'
    BY <2>1, <2>2, <2>4, <2>6, <2>8, <2>9 DEF Reading
  <2>11. RouteShortest'
    BY <2>1 DEF RouteShortest
  <2>. QED
    BY <1>1, <2>1, <2>2, <2>5, <2>10, <2>11 DEF PathInv
<1>. QED
  BY <1>2, <1>3, <1>4
-----------------------------------------------------------------------------
(* The rows.                                                               *)

\* What the first row leads to, if it is new, is one hop further than the
\* entry that is being read, and all nearer symbols are known.
LEMMA RowIsNext ==
  ASSUME Typed, CrumbsLead, Onward, Reading, search.pc = "read", Sources(ask) \subseteq Known,
         search.rows # <<>>, NEW t \in Symbols, t = Head(search.rows).to, t \notin Known,
         ask' = ask,
         search'.parents = Marked(search.parents, t, CrumbOf(Head(search.rows)))
  PROVE  /\ Dist(ask, t, search.at.depth + 1)
         /\ \A n \in Nat, s \in Symbols : n <= search.at.depth /\ Reaches(ask, s, n) => s \in Known
         /\ Known' = Known \cup {t} /\ CrumbsLead'
<1>1. search.at.depth \in Nat /\ ask.max \in Nat /\ search.at.id \in Known /\ Known \subseteq Symbols
  BY Fields DEF Reading
<1>2. PICK h \in Row : h = Head(search.rows) /\ HopBy(ask, search.at.id, h.to, h.kind)
  BY Fields, Shorter DEF Reading
<1>3. h.kind \in Kinds /\ h.kind # "SEED"
  BY DEF Row, Kinds
<1>4. Hop(ask, search.at.id, t)
  BY <1>2, <1>3 DEF Hop
<1>5. \A n \in Nat, s \in Symbols : n <= search.at.depth /\ Reaches(ask, s, n) => s \in Known
  <2>1. search.at.depth <= ask.max /\ \A i \in DOMAIN search.queue : search.at.depth <= search.queue[i].depth
    BY <1>1 DEF Reading
  <2>. QED
    BY <1>1, <2>1, Ball DEF Reading
<1>6. Dist(ask, t, search.at.depth + 1)
  <2>1. Reaches(ask, t, search.at.depth + 1)
    BY <1>1, <1>4, WalkOn DEF Reading, Dist
  <2>2. ASSUME NEW m \in Nat, m < search.at.depth + 1 PROVE ~Reaches(ask, t, m)
    BY <1>1, <1>5, <2>2
  <2>. QED
    BY <2>1, <2>2 DEF Dist
<1>7. Known' = Known \cup {t} /\ CrumbsLead'
  <2>1. CrumbOf(h) \in Crumbs /\ CrumbOf(h).kind = h.kind /\ CrumbOf(h).parent = search.at.id
    BY <1>2, CrumbOfRow DEF CrumbOf
  <2>2. /\ search.at.depth + 1 \in Nat /\ search.at.depth + 1 > 0
        /\ (search.at.depth + 1) - 1 = search.at.depth
    BY <1>1
  <2>3. Dist(ask, CrumbOf(h).parent, (search.at.depth + 1) - 1)
    BY <2>1, <2>2 DEF Reading
  <2>4. HopBy(ask, CrumbOf(h).parent, t, CrumbOf(h).kind)
    BY <1>2, <2>1
  <2>5. search'.parents = Marked(search.parents, t, CrumbOf(h))
    BY <1>2
  <2>. HIDE DEF CrumbOf
  <2>. QED
    BY <1>1, <1>3, <1>6, <2>1, <2>2, <2>3, <2>4, <2>5, CrumbAdded
<1>. QED
  BY <1>5, <1>6, <1>7

LEMMA ReadStep ==
  ASSUME PathInv, Read
  PROVE  PathInv'
<1>1. /\ Typed /\ CrumbsLead /\ search.pc = "read" /\ Onward /\ Reading /\ search.route = <<>>
      /\ Sources(ask) \subseteq Known
  BY DEF PathInv, Read
<1>2. CASE search.rows = <<>>
  <2>1. /\ Typed' /\ ask' = ask /\ search'.pc = "take" /\ search'.queue = search.queue
        /\ search'.parents = search.parents /\ search'.route = search.route
    BY <1>1, <1>2, ReadEnds
  <2>2. Known' = Known /\ CrumbsLead'
    BY <1>1, <2>1, SameCrumbs
  <2>3. IsDone(search.at.id)
    BY <1>1, <1>2 DEF Reading, IsDone
  <2>4. \A s \in Known : Waits(s)' \/ IsDone(s)'
    <3>1. \A s \in Known : (Waits(s) => Waits(s)') /\ (IsDone(s) => IsDone(s)')
      BY <2>1, <2>2 DEF Waits, IsDone
    <3>. QED
      BY <1>1, <2>3, <3>1 DEF Onward
  <2>5. Onward'
    BY <1>1, <2>1, <2>2, <2>4 DEF Onward
  <2>6. RouteShortest'
    BY <2>1 DEF RouteShortest
  <2>. QED
    BY <1>1, <2>1, <2>2, <2>5, <2>6 DEF PathInv
<1>3. CASE search.rows # <<>> /\ Head(search.rows).to \in Known
  <2>1. /\ Typed' /\ ask' = ask /\ search'.pc = "read" /\ search'.queue = search.queue
        /\ search'.at = search.at /\ search'.rows = Tail(search.rows)
        /\ search'.parents = search.parents /\ search'.route = search.route
    BY <1>1, <1>3, ReadKnown
  <2>2. Known' = Known /\ CrumbsLead'
    BY <1>1, <2>1, SameCrumbs
  <2>3. \A s \in Known : (Waits(s) => Waits(s)') /\ (IsDone(s) => IsDone(s)')
    BY <2>1, <2>2 DEF Waits, IsDone
  <2>4. Onward'
    BY <1>1, <2>1, <2>2, <2>3 DEF Onward
  <2>5. /\ \A i \in DOMAIN search'.rows : \E j \in DOMAIN search.rows : search'.rows[i] = search.rows[j]
        /\ \A i \in DOMAIN search.rows : search.rows[i].to \notin Known =>
             \E j \in DOMAIN search'.rows : search'.rows[j] = search.rows[i]
    <3>1. search.rows \in Seq(Row) /\ search.rows # <<>>
      BY <1>1, <1>3, Fields
    <3>2. /\ \A i \in DOMAIN Tail(search.rows) : \E j \in DOMAIN search.rows : Tail(search.rows)[i] = search.rows[j]
          /\ \A i \in DOMAIN search.rows :
               \/ search.rows[i] = Head(search.rows)
               \/ \E j \in DOMAIN Tail(search.rows) : Tail(search.rows)[j] = search.rows[i]
      BY <3>1, HeadOrTail
    <3>. QED
      BY <1>3, <2>1, <3>2
  <2>6. Reading'
    BY <1>1, <2>1, <2>2, <2>5 DEF Reading
  <2>7. RouteShortest'
    BY <2>1 DEF RouteShortest
  <2>. QED
    BY <1>1, <2>1, <2>2, <2>4, <2>6, <2>7 DEF PathInv
<1>4. CASE search.rows # <<>> /\ Head(search.rows).to \notin Known /\ Head(search.rows).to \in ask.goals
  <2>0. PICK t \in Symbols : t = Head(search.rows).to
    BY <1>1, <1>4, CrumbOfRow DEF Row
  <2>1. /\ Typed' /\ ask' = ask /\ search'.pc = "trail" /\ search'.cursor = t
        /\ search'.parents = Marked(search.parents, t, CrumbOf(Head(search.rows)))
        /\ search'.route = search.route
    BY <1>1, <1>4, <2>0, ReadGoal
  <2>2. /\ Dist(ask, t, search.at.depth + 1)
        /\ \A n \in Nat, s \in Symbols : n <= search.at.depth /\ Reaches(ask, s, n) => s \in Known
        /\ Known' = Known \cup {t} /\ CrumbsLead'
    BY <1>1, <1>4, <2>0, <2>1, RowIsNext
  <2>3. PICK n \in Nat : n = search.at.depth + 1 /\ n <= ask.max
    <3>1. search.at.depth \in Nat /\ ask.max \in Nat
      BY <1>1, Fields
    <3>2. search.at.depth + 1 \in Nat /\ search.at.depth + 1 <= ask.max
      BY <1>1, <3>1 DEF Reading
    <3>. QED
      BY <3>2
  <2>4. NoneBefore(ask, n)
    <3>1. ask.goals \subseteq Symbols /\ ask.goals \cap Known = {} /\ search.at.depth \in Nat
      BY <1>1, Fields DEF Onward
    <3>2. ASSUME NEW m \in 0 .. n, m < n, NEW g \in ask.goals PROVE ~Reaches(ask, g, m)
      <4>1. m \in Nat /\ m <= search.at.depth
        BY <2>3, <3>1, <3>2
      <4>. QED
        BY <2>2, <3>1, <4>1
    <3>. QED
      BY <3>2 DEF NoneBefore
  <2>5. Len(<<>>) = 0 /\ n + 0 = n /\ 2 .. 0 = {}
    OBVIOUS
  <2>6. Tracing'
    BY <1>1, <1>4, <2>0, <2>1, <2>2, <2>3, <2>4, <2>5 DEF Tracing
  <2>7. RouteShortest'
    BY <2>1 DEF RouteShortest
  <2>. QED
    BY <2>1, <2>2, <2>6, <2>7 DEF PathInv
<1>5. CASE search.rows # <<>> /\ Head(search.rows).to \notin Known /\ Head(search.rows).to \notin ask.goals
  <2>0. PICK t \in Symbols : t = Head(search.rows).to
    BY <1>1, <1>5, CrumbOfRow DEF Row
  <2>. DEFINE e == [id |-> t, depth |-> search.at.depth + 1]
              new == Len(search.queue) + 1
  <2>1. /\ Typed' /\ ask' = ask /\ search'.pc = "read" /\ search'.queue = Append(search.queue, e)
        /\ search'.at = search.at /\ search'.rows = Tail(search.rows)
        /\ search'.parents = Marked(search.parents, t, CrumbOf(Head(search.rows)))
        /\ search'.route = search.route
    BY <1>1, <1>5, <2>0, ReadQueued
  <2>2. Dist(ask, t, search.at.depth + 1) /\ Known' = Known \cup {t} /\ CrumbsLead'
    BY <1>1, <1>5, <2>0, <2>1, RowIsNext
  <2>3. /\ e \in Entries /\ search.at.depth \in Nat /\ search.at.depth + 1 <= ask.max
        /\ Known \subseteq Symbols /\ search.queue \in Seq(Entries)
    <3>1. search.at.depth \in Nat /\ ask.max \in Nat /\ Known \subseteq Symbols /\ search.queue \in Seq(Entries)
      BY <1>1, Fields
    <3>. QED
      BY <1>1, <3>1 DEF Reading, Entries
  <2>4. /\ DOMAIN search'.queue = DOMAIN search.queue \cup {new}
        /\ search'.queue[new] = e
        /\ \A i \in DOMAIN search.queue : search'.queue[i] = search.queue[i] /\ i <= Len(search.queue)
    BY <2>1, <2>3, Longer
  <2>5. \A s \in Known' : Waits(s)' \/ IsDone(s)' \/ s = search'.at.id
    <3>1. Waits(t)'
      BY <2>4 DEF Waits
    <3>2. \A s \in Known : (Waits(s) => Waits(s)') /\ (IsDone(s) => IsDone(s)')
      BY <2>1, <2>2, <2>4 DEF Waits, IsDone
    <3>. QED
      BY <1>1, <2>1, <2>2, <3>1, <3>2 DEF Onward
  <2>6. \A i \in DOMAIN search'.queue :
          /\ search'.queue[i].id \in Known' /\ search'.queue[i].depth <= ask.max
          /\ Dist(ask, search'.queue[i].id, search'.queue[i].depth)
          /\ search'.at.depth <= search'.queue[i].depth
          /\ search'.queue[i].depth <= search'.at.depth + 1
          /\ search'.queue[i].depth \in Nat
    <3>1. ASSUME NEW i \in DOMAIN search.queue
          PROVE  /\ search.queue[i].id \in Known' /\ search.queue[i].depth <= ask.max
                 /\ Dist(ask, search.queue[i].id, search.queue[i].depth)
                 /\ search.at.depth <= search.queue[i].depth
                 /\ search.queue[i].depth <= search.at.depth + 1
                 /\ search.queue[i].depth \in Nat
      <4>1. search.queue[i] \in Entries
        BY <2>3
      <4>. QED
        BY <1>1, <2>2, <4>1 DEF Onward, Reading, Entries
    <3>2. /\ e.id \in Known' /\ e.depth <= ask.max /\ Dist(ask, e.id, e.depth)
          /\ search.at.depth <= e.depth /\ e.depth <= search.at.depth + 1 /\ e.depth \in Nat
      BY <2>2, <2>3
    <3>. QED
      BY <2>1, <2>4, <3>1, <3>2
  <2>7. \A i, j \in DOMAIN search'.queue : i <= j =>
          /\ search'.queue[i].depth <= search'.queue[j].depth
          /\ search'.queue[j].depth <= search'.queue[i].depth + 1
    <3>1. ASSUME NEW i \in DOMAIN search.queue, NEW j \in DOMAIN search.queue, i <= j
          PROVE  /\ search.queue[i].depth <= search.queue[j].depth
                 /\ search.queue[j].depth <= search.queue[i].depth + 1
      BY <1>1, <3>1 DEF Onward
    <3>2. ASSUME NEW i \in DOMAIN search'.queue
          PROVE  /\ search'.queue[i].depth <= search'.queue[new].depth
                 /\ search'.queue[new].depth <= search'.queue[i].depth + 1
      BY <2>1, <2>3, <2>4, <2>6
    <3>3. \A i \in DOMAIN search.queue : i <= Len(search.queue) /\ ~(new <= i)
      BY <2>3
    <3>. QED
      BY <2>4, <3>1, <3>2, <3>3
  <2>8. Onward'
    <3>1. Known' \cap ask'.goals = {}
      BY <1>1, <1>5, <2>0, <2>1, <2>2 DEF Onward
    <3>. QED
      BY <2>1, <2>5, <2>6, <2>7, <3>1 DEF Onward
  <2>9. /\ \A i \in DOMAIN search'.rows : \E j \in DOMAIN search.rows : search'.rows[i] = search.rows[j]
        /\ \A i \in DOMAIN search.rows : search.rows[i].to # t =>
             \E j \in DOMAIN search'.rows : search'.rows[j] = search.rows[i]
    <3>1. search.rows \in Seq(Row) /\ search.rows # <<>>
      BY <1>1, <1>5, Fields
    <3>2. /\ \A i \in DOMAIN Tail(search.rows) : \E j \in DOMAIN search.rows : Tail(search.rows)[i] = search.rows[j]
          /\ \A i \in DOMAIN search.rows :
               \/ search.rows[i] = Head(search.rows)
               \/ \E j \in DOMAIN Tail(search.rows) : Tail(search.rows)[j] = search.rows[i]
      BY <3>1, HeadOrTail
    <3>. QED
      BY <1>5, <2>0, <2>1, <3>2
  <2>10. Reading'
    BY <1>1, <2>1, <2>2, <2>6, <2>9 DEF Reading
  <2>11. RouteShortest'
    BY <2>1 DEF RouteShortest
  <2>. QED
    BY <1>1, <2>1, <2>2, <2>8, <2>10, <2>11 DEF PathInv
<1>. QED
  BY <1>2, <1>3, <1>4, <1>5
-----------------------------------------------------------------------------
(* The way back.                                                           *)

\* A route that begins at the cursor is a route.
LEMMA StepsBack ==
  ASSUME Typed, Tracing
  PROVE  LET route == <<StepBack>> \o search.route IN
         /\ route \in Seq(Steps) /\ Len(route) = Len(search.route) + 1
         /\ Len(search.route) \in Nat /\ route # <<>>
         /\ route[1] = StepBack /\ StepBack.id = search.cursor
         /\ route[Len(route)].id \in ask.goals
         /\ \A i \in 2 .. Len(route) : HopBy(ask, route[i - 1].id, route[i].id, route[i].kind)
<1>. DEFINE old == search.route
            route == <<StepBack>> \o old
<1>1. old \in Seq(Steps) /\ route \in Seq(Steps) /\ StepBack.id = search.cursor
  BY Fields, LongerRoute DEF Tracing, StepBack
<1>2. /\ Len(old) \in Nat /\ Len(route) = Len(old) + 1 /\ route # <<>> /\ route[1] = StepBack
      /\ \A i \in 1 .. Len(old) : route[i + 1] = old[i]
  BY <1>1
<1>. HIDE DEF route
<1>3. route[Len(route)].id \in ask.goals
  <2>1. CASE old = <<>>
    BY <1>1, <1>2, <2>1 DEF Tracing
  <2>2. CASE old # <<>>
    <3>1. Len(old) \in 1 .. Len(old)
      BY <1>1, <2>2
    <3>. QED
      BY <1>2, <2>2, <3>1 DEF Tracing
  <2>. QED
    BY <2>1, <2>2
<1>4. ASSUME NEW i \in 2 .. Len(route)
      PROVE  HopBy(ask, route[i - 1].id, route[i].id, route[i].kind)
  <2>1. i - 1 \in 1 .. Len(old) /\ route[i] = old[i - 1]
    <3>1. i - 1 \in 1 .. Len(old) /\ (i - 1) + 1 = i
      BY <1>2
    <3>. QED
      BY <1>2, <3>1
  <2>2. CASE i = 2
    <3>1. old # <<>> /\ route[i] = old[1] /\ route[i - 1].id = search.cursor
      BY <1>1, <1>2, <2>1, <2>2
    <3>. QED
      BY <3>1 DEF Tracing
  <2>3. CASE i # 2
    <3>1. i - 1 \in 2 .. Len(old) /\ i - 2 \in 1 .. Len(old) /\ (i - 2) + 1 = i - 1 /\ (i - 1) - 1 = i - 2
      BY <1>2, <2>1, <2>3
    <3>2. route[i - 1] = old[(i - 1) - 1]
      BY <1>2, <3>1
    <3>. QED
      BY <2>1, <3>1, <3>2 DEF Tracing
  <2>. QED
    BY <2>2, <2>3
<1>. QED
  BY <1>1, <1>2, <1>3, <1>4 DEF route

\* A symbol has one distance.
LEMMA DistUnique ==
  ASSUME NEW q, NEW s, NEW m \in Nat, NEW n \in Nat, Dist(q, s, m), Dist(q, s, n)
  PROVE  m = n
BY DEF Dist

LEMMA TraceStep ==
  ASSUME PathInv, Trace
  PROVE  PathInv'
<1>1. Typed /\ CrumbsLead /\ search.pc = "trail" /\ Tracing /\ search.cursor \in Known
  BY DEF PathInv, Trace, Tracing
<1>2. PICK n \in Nat : /\ Dist(ask, search.cursor, n) /\ n + Len(search.route) <= ask.max
                      /\ NoneBefore(ask, n + Len(search.route))
  BY <1>1 DEF Tracing
<1>3. Traced(search.cursor, n)
  BY <1>1, <1>2, DistUnique DEF CrumbsLead
<1>. DEFINE route == <<StepBack>> \o search.route
<1>4. /\ route \in Seq(Steps) /\ Len(route) = Len(search.route) + 1
      /\ Len(search.route) \in Nat /\ route # <<>>
      /\ route[1] = StepBack /\ StepBack.id = search.cursor
      /\ route[Len(route)].id \in ask.goals
      /\ \A i \in 2 .. Len(route) : HopBy(ask, route[i - 1].id, route[i].id, route[i].kind)
  BY <1>1, StepsBack
<1>5. StepBack.kind = search.parents[search.cursor].kind /\ ask.max \in Nat
  BY <1>1, Fields DEF StepBack
<1>6. CASE search.parents[search.cursor].kind = "SEED"
  <2>1. /\ Typed' /\ ask' = ask /\ search'.pc = "done" /\ search'.parents = search.parents
        /\ search'.route = route
    BY <1>1, <1>6, TraceEnds
  <2>. HIDE DEF route
  <2>2. CrumbsLead'
    BY <1>1, <2>1, SameCrumbs
  <2>3. n = 0 /\ search.cursor \in Sources(ask)
    BY <1>3, <1>6 DEF Traced
  <2>4. IsRoute(ask, route)
    BY <1>4, <2>3 DEF IsRoute
  <2>5. Len(route) <= ask.max + 1 /\ NoneBefore(ask, Len(route) - 1)
    <3>1. Len(route) - 1 = n + Len(search.route)
      BY <1>4, <2>3
    <3>. QED
      BY <1>2, <1>4, <1>5, <2>3, <3>1
  <2>6. RouteShortest'
    BY <1>4, <2>1, <2>4, <2>5 DEF RouteShortest
  <2>. QED
    BY <2>1, <2>2, <2>6 DEF PathInv
<1>7. CASE search.parents[search.cursor].kind # "SEED"
  <2>. DEFINE up == search.parents[search.cursor].parent
  <2>1. /\ Typed' /\ ask' = ask /\ search'.pc = "trail" /\ search'.cursor = up
        /\ search'.parents = search.parents /\ search'.route = route
    BY <1>1, <1>7, TraceOn
  <2>. HIDE DEF route
  <2>2. Known' = Known /\ CrumbsLead'
    BY <1>1, <2>1, SameCrumbs
  <2>3. /\ up \in Known /\ HopBy(ask, up, search.cursor, search.parents[search.cursor].kind)
        /\ n > 0 /\ Dist(ask, up, n - 1)
    BY <1>3, <1>7 DEF Traced
  <2>4. n - 1 \in Nat /\ (n - 1) + Len(route) = n + Len(search.route)
    BY <1>4, <2>3
  <2>5. Tracing'
    <3>1. \E m \in Nat : /\ Dist(ask, up, m) /\ m + Len(route) <= ask.max
                         /\ NoneBefore(ask, m + Len(route))
      BY <1>2, <2>3, <2>4
    <3>2. HopBy(ask, up, route[1].id, route[1].kind)
      BY <1>4, <1>5, <2>3
    <3>. HIDE DEF up
    <3>. QED
      BY <1>4, <2>1, <2>2, <2>3, <3>1, <3>2 DEF Tracing
  <2>6. RouteShortest'
    BY <2>1 DEF RouteShortest
  <2>. QED
    BY <2>1, <2>2, <2>5, <2>6 DEF PathInv
<1>. QED
  BY <1>6, <1>7
-----------------------------------------------------------------------------
LEMMA PathInvStep == PathInv /\ [PathNext]_pathVars => PathInv'
<1>. SUFFICES ASSUME PathInv, [PathNext]_pathVars PROVE PathInv'
  OBVIOUS
<1>1. CASE PathNext
  BY <1>1, SeedStep, TakeStep, ReadStep, TraceStep DEF PathNext
<1>2. CASE UNCHANGED pathVars
  BY <1>2 DEF pathVars, PathInv, Typed, CrumbsLead, Traced, Known, Onward, Waits, IsDone, Seeding,
             Reading, Tracing, RouteShortest
<1>. QED
  BY <1>1, <1>2

\* pathBetween (queries.ts:401-534): whatever the graph, the names and the depth,
\* its answer is a path of calls and flows between the names that no path is
\* shorter than, and null means that there is none up to that depth.
THEOREM PathsAreShortest == PathSpec => []RouteShortest
<1>1. PathInv => RouteShortest
  BY DEF PathInv
<1>. QED
  BY <1>1, InitPathInv, PathInvStep, PTL DEF PathSpec
-----------------------------------------------------------------------------
(* The trees of callers and callees: the inductive invariant.              *)

AllTopics == [seeds : Seq(Nodes), rows : [Nodes -> Seq(TreeRow)], max : Nat \ {0}]

Frame == [of : Nodes, at : Keys \cup {Root}, left : Nat, rows : Seq(TreeRow)]

TreeStates == [parent : UNION {[D -> Keys \cup {Root}] : D \in SUBSET Keys},
               nodes : Seq(Keys), visited : SUBSET Nodes, todo : Seq(Nodes), stack : Seq(Frame)]

IsFirst(q, s) == q.seeds # <<>> /\ s = q.seeds[1]

\* A call is of a symbol that is as far from the seeds as depth was spent, and
\* the first seed's has all of it.
FrameFits(q, t, f) ==
  /\ f.of \in t.visited /\ f.left \in 1 .. q.max
  /\ f.at = Root \/ f.at \in DOMAIN t.parent
  /\ \A j \in DOMAIN f.rows : f.rows[j] \in RowsOf(q, f.of)
  /\ StandsFor(q, f.at, f.of) /\ f.of \in Met(q, q.max - f.left)
  /\ IsFirst(q, f.of) => f.left = q.max

\* A row of s that a call has yet to read.
Pending(t, s, row) ==
  \E i \in DOMAIN t.stack : t.stack[i].of = s /\ \E j \in DOMAIN t.stack[i].rows : t.stack[i].rows[j] = row

\* The rows of a visited symbol have their nodes, or will be read.
RowsKept(q, t) ==
  \A s \in t.visited : \A row \in RowsOf(q, s) : row.key \in DOMAIN t.parent \/ Pending(t, s, row)

\* So have those of the first seed led on, but to x.
LedOnBut(q, t, x) ==
  \A s \in t.visited : IsFirst(q, s) /\ q.max > 1 =>
    \A row \in RowsOf(q, s) : row.next \in t.visited \cup {Nowhere, x} \/ Pending(t, s, row)

LedOn(q, t) == LedOnBut(q, t, Nowhere)

TreeSound(q, t) ==
  /\ IsTree(t) /\ Grounded(q, t) /\ RowsKept(q, t)
  /\ \A i \in DOMAIN t.stack : FrameFits(q, t, t.stack[i])

\* The seeds come in their order.
SeedsKept(q, t) ==
  /\ \A i \in DOMAIN t.todo : t.todo[i] \in AskedFor(q)
  /\ \A s \in AskedFor(q) : s \in t.visited \/ \E i \in DOMAIN t.todo : t.todo[i] = s
  /\ \A s \in Nodes : IsFirst(q, s) =>
       s \in t.visited \/ (t.todo = q.seeds /\ t.stack = <<>> /\ t.visited = {})

TreeGrows(q, t) == t \in TreeStates /\ TreeSound(q, t) /\ LedOn(q, t) /\ SeedsKept(q, t)

TreeInv == topic \in AllTopics /\ TreeGrows(topic, tree)
-----------------------------------------------------------------------------
(* What some rows lead to.                                                 *)

LEMMA RowsIn ==
  ASSUME NEW q \in AllTopics, NEW s \in Nodes
  PROVE  /\ q.rows[s] \in Seq(TreeRow)
         /\ \A row \in RowsOf(q, s) :
              /\ row \in TreeRow /\ row.key \in Keys /\ row.key # Root
              /\ row.next \in Nodes \cup {Nowhere}
<1>1. q.rows[s] \in Seq(TreeRow)
  BY DEF AllTopics
<1>2. ASSUME NEW row \in RowsOf(q, s) PROVE row \in TreeRow
  BY <1>1, <1>2 DEF RowsOf
<1>3. ASSUME NEW row \in TreeRow
      PROVE  row.key \in Keys /\ row.key # Root /\ row.next \in Nodes \cup {Nowhere}
  BY <1>3, TopicsAssumption DEF TreeRow
<1>. QED
  BY <1>1, <1>2, <1>3

LEMMA SeedsMet ==
  ASSUME NEW q \in AllTopics, NEW s \in AskedFor(q)
  PROVE  s \in Nodes /\ s \in Met(q, 0)
<1>1. s \in Nodes
  BY DEF AllTopics, AskedFor
<1>. DEFINE p == [i \in 0 .. 0 |-> s]
<1>2. p \in [0 .. 0 -> Nodes] /\ p[0] = s
  BY <1>1
<1>3. IsTrail(q, p, 0)
  <2>. HIDE DEF p
  <2>. QED
    BY <1>2 DEF IsTrail
<1>. HIDE DEF p
<1>. QED
  BY <1>1, <1>2, <1>3 DEF Met

\* A row leads one farther.
LEMMA MetOn ==
  ASSUME NEW q \in AllTopics, NEW n \in Nat, NEW s \in Met(q, n),
         NEW row \in RowsOf(q, s), row.next \in Nodes
  PROVE  row.next \in Met(q, n + 1)
<1>1. PICK p \in [0 .. n -> Nodes] : IsTrail(q, p, n) /\ p[n] = s
  BY DEF Met
<1>. DEFINE g == row.next
            r == [i \in 0 .. (n + 1) |-> IF i = n + 1 THEN g ELSE p[i]]
<1>2. r \in [0 .. (n + 1) -> Nodes] /\ r[n + 1] = g /\ r[0] = p[0]
  OBVIOUS
<1>3. ASSUME NEW i \in 1 .. (n + 1) PROVE \E x \in RowsOf(q, r[i - 1]) : x.next = r[i]
  <2>1. CASE i = n + 1
    <3>1. r[i - 1] = s /\ r[i] = g
      BY <1>1, <2>1
    <3>. QED
      BY <3>1
  <2>2. CASE i # n + 1
    <3>1. i \in 1 .. n /\ r[i - 1] = p[i - 1] /\ r[i] = p[i]
      BY <2>2
    <3>. QED
      BY <1>1, <3>1 DEF IsTrail
  <2>. QED
    BY <2>1, <2>2
<1>4. IsTrail(q, r, n + 1)
  <2>. HIDE DEF r
  <2>. QED
    BY <1>1, <1>2, <1>3 DEF IsTrail
<1>. HIDE DEF r
<1>. QED
  BY <1>2, <1>4 DEF Met

LEMMA MetIn ==
  ASSUME NEW q, NEW n, NEW s \in Met(q, n)
  PROVE  n \in Nat => s \in Nodes
BY DEF Met
-----------------------------------------------------------------------------
(* Calls.                                                                  *)

\* v is t with one more call, for symbol s.
Calls(q, t, v, s, left, at) ==
  /\ v \in TreeStates /\ v.parent = t.parent /\ v.nodes = t.nodes /\ v.todo = t.todo
  /\ s \in Nodes \ t.visited /\ v.visited = t.visited \cup {s}
  /\ Len(v.stack) = Len(t.stack) + 1 /\ \A i \in DOMAIN t.stack : v.stack[i] = t.stack[i]
  /\ v.stack[Len(t.stack) + 1] = [of |-> s, at |-> at, left |-> left, rows |-> q.rows[s]]

LEMMA Entered ==
  ASSUME NEW q \in AllTopics, NEW t \in TreeStates, NEW s \in Nodes \cup {Nowhere},
         NEW left \in Nat, NEW at \in Keys \cup {Root}
  PROVE  \/ Enter(q, t, s, left, at) = t /\ (left = 0 \/ s \in t.visited \cup {Nowhere})
         \/ left # 0 /\ Calls(q, t, Enter(q, t, s, left, at), s, left, at)
<1>. DEFINE v == Enter(q, t, s, left, at)
            f == [of |-> s, at |-> at, left |-> left, rows |-> q.rows[s]]
<1>1. CASE left = 0 \/ s \in t.visited \cup {Nowhere}
  BY <1>1 DEF Enter
<1>2. CASE ~(left = 0 \/ s \in t.visited \cup {Nowhere})
  <2>1. v = [t EXCEPT !.visited = @ \cup {s}, !.stack = Append(@, f)]
    BY <1>2 DEF Enter
  <2>2. s \in Nodes /\ q.rows[s] \in Seq(TreeRow)
    BY <1>2, RowsIn
  <2>3. f \in Frame
    BY <2>2 DEF Frame
  <2>4. t.stack \in Seq(Frame) /\ t.visited \in SUBSET Nodes
    BY DEF TreeStates
  <2>. HIDE DEF f
  <2>5. /\ Append(t.stack, f) \in Seq(Frame) /\ Len(Append(t.stack, f)) = Len(t.stack) + 1
        /\ \A i \in DOMAIN t.stack : Append(t.stack, f)[i] = t.stack[i]
        /\ Append(t.stack, f)[Len(t.stack) + 1] = f
    BY <2>3, <2>4
  <2>6. v \in TreeStates
    BY <2>1, <2>2, <2>4, <2>5 DEF TreeStates
  <2>7. /\ v.parent = t.parent /\ v.nodes = t.nodes /\ v.todo = t.todo
        /\ v.visited = t.visited \cup {s} /\ v.stack = Append(t.stack, f)
    BY <2>1 DEF TreeStates
  <2>. HIDE DEF v
  <2>8. Calls(q, t, v, s, left, at)
    BY <1>2, <2>2, <2>5, <2>6, <2>7 DEF Calls, f
  <2>. QED
    BY <1>2, <2>8 DEF v
<1>. QED
  BY <1>1, <1>2

LEMMA CallKeeps ==
  ASSUME NEW q \in AllTopics, NEW t \in TreeStates, NEW v, NEW s, NEW left \in 1 .. q.max,
         NEW at, Calls(q, t, v, s, left, at), TreeSound(q, t), LedOnBut(q, t, s),
         at = Root \/ at \in DOMAIN t.parent, StandsFor(q, at, s), s \in Met(q, q.max - left),
         IsFirst(q, s) => left = q.max
  PROVE  TreeSound(q, v) /\ LedOn(q, v)
<1>. DEFINE n == Len(t.stack) + 1
<1>1. /\ t.stack \in Seq(Frame) /\ v.stack \in Seq(Frame)
      /\ DOMAIN v.stack = DOMAIN t.stack \cup {n} /\ n \in DOMAIN v.stack
  BY DEF TreeStates, Calls
<1>2. /\ v.stack[n] = [of |-> s, at |-> at, left |-> left, rows |-> q.rows[s]]
      /\ \A i \in DOMAIN t.stack : v.stack[i] = t.stack[i]
      /\ s \in Nodes /\ v.visited = t.visited \cup {s} /\ v.parent = t.parent /\ v.nodes = t.nodes
  BY DEF Calls
<1>. HIDE DEF n
<1>3. IsTree(v) /\ Grounded(q, v)
  BY <1>2 DEF TreeSound, IsTree, Grounded
<1>4. ASSUME NEW x, NEW row, Pending(t, x, row) PROVE Pending(v, x, row)
  BY <1>1, <1>2, <1>4 DEF Pending
<1>5. ASSUME NEW row \in RowsOf(q, s) PROVE Pending(v, s, row)
  <2>1. PICK j \in DOMAIN q.rows[s] : q.rows[s][j] = row
    BY DEF RowsOf
  <2>2. v.stack[n].of = s /\ v.stack[n].rows = q.rows[s]
    BY <1>2
  <2>. QED
    BY <1>1, <2>1, <2>2 DEF Pending
<1>6. RowsKept(q, v)
  BY <1>2, <1>4, <1>5 DEF TreeSound, RowsKept
<1>7. LedOn(q, v)
  BY <1>2, <1>4, <1>5 DEF LedOn, LedOnBut
<1>8. FrameFits(q, v, v.stack[n])
  <2>1. /\ v.stack[n].of = s /\ v.stack[n].rows = q.rows[s] /\ v.stack[n].left = left
        /\ v.stack[n].at = at
    BY <1>2
  <2>2. \A j \in DOMAIN q.rows[s] : q.rows[s][j] \in RowsOf(q, s)
    BY DEF RowsOf
  <2>. QED
    BY <1>2, <2>1, <2>2 DEF FrameFits
<1>9. ASSUME NEW i \in DOMAIN t.stack PROVE FrameFits(q, v, v.stack[i])
  <2>1. FrameFits(q, t, t.stack[i])
    BY DEF TreeSound
  <2>. QED
    BY <1>2, <2>1 DEF FrameFits
<1>. QED
  BY <1>1, <1>3, <1>6, <1>7, <1>8, <1>9 DEF TreeSound

\* What a call leaves, whether its symbol is visited or not.
LEMMA EnterKeeps ==
  ASSUME NEW q \in AllTopics, NEW t \in TreeStates, NEW s \in Nodes \cup {Nowhere},
         NEW left \in 0 .. q.max, NEW at \in Keys \cup {Root}, NEW v, v = Enter(q, t, s, left, at),
         TreeSound(q, t), LedOnBut(q, t, s), left = 0 => LedOn(q, t),
         at = Root \/ at \in DOMAIN t.parent,
         s \in Nodes /\ left # 0 => StandsFor(q, at, s) /\ s \in Met(q, q.max - left),
         IsFirst(q, s) /\ s \notin t.visited => left = q.max
  PROVE  /\ v \in TreeStates /\ TreeSound(q, v) /\ LedOn(q, v)
         /\ v.todo = t.todo /\ t.visited \subseteq v.visited
         /\ left = 0 \/ s \in v.visited \cup {Nowhere}
<1>0. q.max \in Nat /\ left \in Nat
  BY DEF AllTopics
<1>1. CASE v = t /\ (left = 0 \/ s \in t.visited \cup {Nowhere})
  <2>1. LedOn(q, t)
    <3>1. CASE left = 0
      BY <3>1
    <3>2. CASE s \in t.visited \cup {Nowhere}
      BY <3>2 DEF LedOn, LedOnBut
    <3>. QED
      BY <1>1, <3>1, <3>2
  <2>. QED
    BY <1>1, <2>1
<1>2. CASE left # 0 /\ Calls(q, t, v, s, left, at)
  <2>1. s \in Nodes /\ s \notin t.visited /\ left \in 1 .. q.max
    BY <1>0, <1>2 DEF Calls
  <2>2. TreeSound(q, v) /\ LedOn(q, v)
    BY <1>2, <2>1, CallKeeps
  <2>. QED
    BY <1>2, <2>2 DEF Calls
<1>. QED
  BY <1>0, <1>1, <1>2, Entered
-----------------------------------------------------------------------------
(* Seeds and returns.                                                      *)

LEMMA StartTreeGrows ==
  ASSUME NEW q \in AllTopics
  PROVE  TreeGrows(q, StartTree(q))
<1>. DEFINE t == StartTree(q)
<1>1. t = [parent |-> <<>>, nodes |-> <<>>, visited |-> {}, todo |-> q.seeds, stack |-> <<>>]
  BY DEF StartTree
<1>2. q.seeds \in Seq(Nodes) /\ DOMAIN q.seeds = 1 .. Len(q.seeds)
  BY DEF AllTopics
<1>3. <<>> \in [{} -> Keys \cup {Root}] /\ <<>> \in Seq(Keys) /\ <<>> \in Seq(Frame)
      /\ DOMAIN <<>> = {}
  OBVIOUS
<1>. HIDE DEF t
<1>4. t \in TreeStates
  <2>1. <<>> \in UNION {[D -> Keys \cup {Root}] : D \in SUBSET Keys}
    BY <1>3
  <2>. QED
    BY <1>1, <1>2, <1>3, <2>1 DEF TreeStates
<1>5. TreeSound(q, t)
  BY <1>1 DEF TreeSound, IsTree, Grounded, RowsKept
<1>6. LedOn(q, t)
  BY <1>1 DEF LedOn, LedOnBut
<1>7. SeedsKept(q, t)
  BY <1>1, <1>2 DEF SeedsKept, AskedFor
<1>. QED
  BY <1>4, <1>5, <1>6, <1>7 DEF TreeGrows, t

LEMMA TreeSeedStep ==
  ASSUME NEW q \in AllTopics, NEW t, TreeGrows(q, t), t.todo # <<>>, t.stack = <<>>
  PROVE  TreeGrows(q, SeedNode(q, t))
<1>. DEFINE s == Head(t.todo)
            u == [t EXCEPT !.todo = Tail(@)]
            v == Enter(q, u, s, q.max, Root)
<1>1. /\ t \in TreeStates /\ t.todo \in Seq(Nodes) /\ q.max \in Nat \ {0} /\ q.seeds \in Seq(Nodes)
  BY DEF TreeGrows, TreeStates, AllTopics
<1>2. s \in Nodes /\ Tail(t.todo) \in Seq(Nodes) /\ s = t.todo[1] /\ 1 \in DOMAIN t.todo
  BY <1>1
<1>3. s \in AskedFor(q) /\ StandsFor(q, Root, s) /\ s \in Met(q, q.max - q.max)
  <2>1. s \in AskedFor(q)
    BY <1>2 DEF TreeGrows, SeedsKept
  <2>2. q.max - q.max = 0
    BY <1>1
  <2>. QED
    BY <2>1, <2>2, SeedsMet DEF StandsFor
<1>4. \A x, i : i \in DOMAIN t.todo /\ t.todo[i] = x =>
        x = s \/ \E j \in DOMAIN Tail(t.todo) : Tail(t.todo)[j] = x
  <2>1. ASSUME NEW x, NEW i \in DOMAIN t.todo, t.todo[i] = x, i # 1
        PROVE  \E j \in DOMAIN Tail(t.todo) : Tail(t.todo)[j] = x
    <3>1. i - 1 \in DOMAIN Tail(t.todo) /\ Tail(t.todo)[i - 1] = t.todo[i]
      BY <1>1, <2>1
    <3>. QED
      BY <2>1, <3>1
  <2>. QED
    BY <1>2, <2>1
<1>5. \A j \in DOMAIN Tail(t.todo) : Tail(t.todo)[j] \in AskedFor(q)
  <2>1. \A j \in DOMAIN Tail(t.todo) : j + 1 \in DOMAIN t.todo /\ Tail(t.todo)[j] = t.todo[j + 1]
    BY <1>1
  <2>. QED
    BY <2>1 DEF TreeGrows, SeedsKept
<1>. HIDE DEF s
<1>6. u \in TreeStates
  BY <1>1, <1>2 DEF TreeStates
<1>7. /\ u.parent = t.parent /\ u.nodes = t.nodes /\ u.visited = t.visited /\ u.stack = t.stack
      /\ u.todo = Tail(t.todo)
  BY <1>1 DEF TreeStates
<1>. HIDE DEF u
<1>8. TreeSound(q, u) /\ LedOnBut(q, u, s)
  <2>1. TreeSound(q, t) /\ LedOn(q, t)
    BY DEF TreeGrows
  <2>2. \A x, row : Pending(t, x, row) => Pending(u, x, row)
    BY <1>7 DEF Pending
  <2>3. IsTree(u) /\ Grounded(q, u)
    BY <1>7, <2>1 DEF TreeSound, IsTree, Grounded
  <2>4. RowsKept(q, u)
    BY <1>7, <2>1, <2>2 DEF TreeSound, RowsKept
  <2>5. \A i \in DOMAIN u.stack : FrameFits(q, u, u.stack[i])
    BY <1>7, <2>1 DEF TreeSound, FrameFits
  <2>6. LedOnBut(q, u, s)
    BY <1>7, <2>1, <2>2 DEF LedOn, LedOnBut
  <2>. QED
    BY <2>3, <2>4, <2>5, <2>6 DEF TreeSound
<1>9. /\ v \in TreeStates /\ TreeSound(q, v) /\ LedOn(q, v)
      /\ v.todo = u.todo /\ u.visited \subseteq v.visited /\ s \in v.visited
  <2>1. /\ q.max \in 0 .. q.max /\ q.max # 0 /\ s \in Nodes \cup {Nowhere} /\ s # Nowhere
        /\ Root \in Keys \cup {Root}
    BY <1>1, <1>2, TopicsAssumption
  <2>. HIDE DEF v
  <2>2. v = Enter(q, u, s, q.max, Root)
    BY DEF v
  <2>3. /\ v \in TreeStates /\ TreeSound(q, v) /\ LedOn(q, v)
        /\ v.todo = u.todo /\ u.visited \subseteq v.visited
        /\ q.max = 0 \/ s \in v.visited \cup {Nowhere}
    BY <1>3, <1>6, <1>8, <2>1, <2>2, EnterKeeps
  <2>. QED
    BY <2>1, <2>3
<1>10. SeedsKept(q, v)
  <2>. HIDE DEF v
  <2>1. ASSUME NEW x \in AskedFor(q)
        PROVE  x \in v.visited \/ \E i \in DOMAIN v.todo : v.todo[i] = x
    BY <1>4, <1>7, <1>9 DEF TreeGrows, SeedsKept
  <2>2. ASSUME NEW x \in Nodes, IsFirst(q, x) PROVE x \in v.visited
    <3>1. x \in t.visited \/ t.todo = q.seeds
      BY <2>2 DEF TreeGrows, SeedsKept
    <3>2. CASE x \in t.visited
      BY <1>7, <1>9, <3>2
    <3>3. CASE t.todo = q.seeds
      BY <1>2, <1>9, <2>2, <3>3 DEF IsFirst
    <3>. QED
      BY <3>1, <3>2, <3>3
  <2>. QED
    BY <1>5, <1>7, <1>9, <2>1, <2>2 DEF SeedsKept
<1>11. TreeGrows(q, v)
  BY <1>9, <1>10 DEF TreeGrows
<1>. QED
  BY <1>11 DEF SeedNode, u, s

LEMMA ReturnStep ==
  ASSUME NEW q \in AllTopics, NEW t, TreeGrows(q, t), t.stack # <<>>, Top(t).rows = <<>>
  PROVE  TreeGrows(q, Return(t))
<1>. DEFINE v == Return(t)
            n == Len(t.stack)
<1>1. t \in TreeStates /\ t.stack \in Seq(Frame) /\ n \in Nat \ {0} /\ DOMAIN t.stack = 1 .. n
  BY DEF TreeGrows, TreeStates
<1>2. v = [t EXCEPT !.stack = SubSeq(t.stack, 1, n - 1)]
  BY <1>1 DEF Return, TreeStates
<1>3. /\ SubSeq(t.stack, 1, n - 1) \in Seq(Frame) /\ DOMAIN SubSeq(t.stack, 1, n - 1) = 1 .. (n - 1)
      /\ \A i \in 1 .. (n - 1) : SubSeq(t.stack, 1, n - 1)[i] = t.stack[i]
  BY <1>1
<1>4. v \in TreeStates
  BY <1>1, <1>2, <1>3 DEF TreeStates
<1>5. /\ v.parent = t.parent /\ v.nodes = t.nodes /\ v.visited = t.visited /\ v.todo = t.todo
      /\ DOMAIN v.stack = 1 .. (n - 1) /\ \A i \in 1 .. (n - 1) : v.stack[i] = t.stack[i]
  BY <1>1, <1>2, <1>3 DEF TreeStates
<1>6. t.stack[n].rows = <<>> /\ 1 .. (n - 1) = 1 .. n \ {n}
  BY <1>1 DEF Top
<1>. HIDE DEF v, n
<1>7. \A x, row : Pending(t, x, row) => Pending(v, x, row)
  <2>1. DOMAIN <<>> = {}
    OBVIOUS
  <2>. QED
    BY <1>1, <1>5, <1>6, <2>1 DEF Pending
<1>8. TreeSound(q, v)
  <2>1. TreeSound(q, t)
    BY DEF TreeGrows
  <2>2. IsTree(v) /\ Grounded(q, v)
    BY <1>5, <2>1 DEF TreeSound, IsTree, Grounded
  <2>3. RowsKept(q, v)
    BY <1>5, <1>7, <2>1 DEF TreeSound, RowsKept
  <2>4. \A i \in DOMAIN v.stack : FrameFits(q, v, v.stack[i])
    BY <1>1, <1>5, <1>6, <2>1 DEF TreeSound, FrameFits
  <2>. QED
    BY <2>2, <2>3, <2>4 DEF TreeSound
<1>9. LedOn(q, v)
  BY <1>5, <1>7 DEF TreeGrows, LedOn, LedOnBut
<1>10. SeedsKept(q, v)
  BY <1>5 DEF TreeGrows, SeedsKept
<1>. QED
  BY <1>4, <1>8, <1>9, <1>10 DEF TreeGrows, v
-----------------------------------------------------------------------------
(* Rows.                                                                   *)

\* w is t with the first row of the last call read, and its node made.
RowTaken(t, w, row, at) ==
  /\ w \in TreeStates /\ w.visited = t.visited /\ w.todo = t.todo
  /\ DOMAIN w.parent = DOMAIN t.parent \cup {row.key}
  /\ \A k \in DOMAIN t.parent : w.parent[k] = t.parent[k]
  /\ IF row.key \in DOMAIN t.parent THEN w.nodes = t.nodes
     ELSE w.parent[row.key] = at /\ w.nodes = Append(t.nodes, row.key)
  /\ DOMAIN w.stack = DOMAIN t.stack
  /\ \A i \in DOMAIN t.stack :
       /\ w.stack[i].of = t.stack[i].of /\ w.stack[i].at = t.stack[i].at
       /\ w.stack[i].left = t.stack[i].left
       /\ IF i = Len(t.stack) THEN w.stack[i].rows = Tail(t.stack[i].rows)
          ELSE w.stack[i].rows = t.stack[i].rows

LEMMA RowIsTaken ==
  ASSUME NEW t \in TreeStates, t.stack # <<>>, Top(t).rows # <<>>
  PROVE  /\ Len(t.stack) \in DOMAIN t.stack /\ Top(t) = t.stack[Len(t.stack)] /\ Top(t) \in Frame
         /\ Head(Top(t).rows) \in TreeRow
         /\ RowTaken(t, WithNode([t EXCEPT !.stack[Len(t.stack)].rows = Tail(@)],
                                 Head(Top(t).rows).key, Top(t).at),
                     Head(Top(t).rows), Top(t).at)
<1>. DEFINE n == Len(t.stack)
            f == Top(t)
            row == Head(f.rows)
            g == [f EXCEPT !.rows = Tail(@)]
            r == [t EXCEPT !.stack[Len(t.stack)].rows = Tail(@)]
            w == WithNode(r, row.key, f.at)
<1>1. t.stack \in Seq(Frame) /\ n \in DOMAIN t.stack /\ f = t.stack[n] /\ f \in Frame
  BY DEF TreeStates, Top
<1>2. f.rows \in Seq(TreeRow) /\ f.at \in Keys \cup {Root} /\ f.of \in Nodes /\ f.left \in Nat
  BY <1>1 DEF Frame
<1>3. row \in TreeRow /\ Tail(f.rows) \in Seq(TreeRow)
  BY <1>2
<1>4. row.key \in Keys
  BY <1>3 DEF TreeRow
<1>5. /\ g \in Frame /\ g.of = f.of /\ g.at = f.at /\ g.left = f.left /\ g.rows = Tail(f.rows)
  BY <1>1, <1>2, <1>3 DEF Frame
<1>6. r = [t EXCEPT !.stack = [t.stack EXCEPT ![n] = g]]
  BY <1>1 DEF TreeStates
<1>. HIDE DEF g
<1>7. /\ [t.stack EXCEPT ![n] = g] \in Seq(Frame)
      /\ DOMAIN [t.stack EXCEPT ![n] = g] = DOMAIN t.stack
      /\ \A i \in DOMAIN t.stack : [t.stack EXCEPT ![n] = g][i] = IF i = n THEN g ELSE t.stack[i]
  BY <1>1, <1>5
<1>. HIDE DEF row, f, n, r
<1>8. r \in TreeStates
  BY <1>6, <1>7 DEF TreeStates
<1>9. /\ r.parent = t.parent /\ r.nodes = t.nodes /\ r.visited = t.visited /\ r.todo = t.todo
      /\ r.stack = [t.stack EXCEPT ![n] = g]
  BY <1>6 DEF TreeStates
<1>10. PICK D \in SUBSET Keys : t.parent \in [D -> Keys \cup {Root}]
  BY DEF TreeStates
<1>11. t.nodes \in Seq(Keys)
  BY DEF TreeStates
<1>12. /\ w \in TreeStates /\ w.visited = t.visited /\ w.todo = t.todo /\ w.stack = r.stack
       /\ DOMAIN w.parent = DOMAIN t.parent \cup {row.key}
       /\ \A k \in DOMAIN t.parent : w.parent[k] = t.parent[k]
       /\ IF row.key \in DOMAIN t.parent THEN w.nodes = t.nodes
          ELSE w.parent[row.key] = f.at /\ w.nodes = Append(t.nodes, row.key)
  <2>1. CASE row.key \in DOMAIN t.parent
    <3>1. w = r
      BY <1>9, <2>1 DEF WithNode
    <3>. QED
      BY <1>8, <1>9, <2>1, <3>1
  <2>2. CASE row.key \notin DOMAIN t.parent
    <3>. DEFINE p == Marked(t.parent, row.key, f.at)
    <3>1. w = [r EXCEPT !.parent = p, !.nodes = Append(@, row.key)]
      BY <1>9, <2>2 DEF WithNode
    <3>2. /\ p \in [D \cup {row.key} -> Keys \cup {Root}] /\ DOMAIN p = DOMAIN t.parent \cup {row.key}
          /\ \A k \in DOMAIN t.parent : p[k] = t.parent[k]
          /\ p[row.key] = f.at
      BY <1>2, <1>4, <1>10, <2>2 DEF Marked
    <3>. HIDE DEF p
    <3>3. p \in UNION {[E -> Keys \cup {Root}] : E \in SUBSET Keys}
      BY <1>4, <3>2
    <3>4. Append(t.nodes, row.key) \in Seq(Keys)
      BY <1>4, <1>11
    <3>5. w \in TreeStates
      BY <1>8, <1>9, <3>1, <3>3, <3>4 DEF TreeStates
    <3>6. /\ w.parent = p /\ w.nodes = Append(t.nodes, row.key) /\ w.visited = r.visited
          /\ w.todo = r.todo /\ w.stack = r.stack
      BY <1>8, <1>9, <3>1 DEF TreeStates
    <3>. QED
      BY <1>9, <2>2, <3>2, <3>5, <3>6
  <2>. QED
    BY <2>1, <2>2
<1>. HIDE DEF w
<1>13. RowTaken(t, w, row, f.at)
  BY <1>1, <1>5, <1>7, <1>9, <1>12 DEF RowTaken, n
<1>. QED
  BY <1>1, <1>3, <1>13 DEF w, r, row, f, n

LEMMA NodesKeep ==
  ASSUME NEW t \in TreeStates, NEW w, NEW row, NEW at \in Keys \cup {Root},
         RowTaken(t, w, row, at), row.key \in Keys,
         IsTree(t), at = Root \/ at \in DOMAIN t.parent
  PROVE  IsTree(w)
<1>1. t.nodes \in Seq(Keys) /\ DOMAIN t.nodes = 1 .. Len(t.nodes) /\ Len(t.nodes) \in Nat
  BY DEF TreeStates
<1>2. {t.nodes[i] : i \in DOMAIN t.nodes} = DOMAIN t.parent
  BY DEF IsTree
<1>3. ASSUME NEW i \in DOMAIN t.nodes
      PROVE  /\ t.nodes[i] \in DOMAIN t.parent /\ w.parent[t.nodes[i]] = t.parent[t.nodes[i]]
             /\ \/ t.parent[t.nodes[i]] = Root
                \/ \E j \in 1 .. (i - 1) : t.parent[t.nodes[i]] = t.nodes[j]
  BY <1>2 DEF IsTree, RowTaken
<1>4. CASE row.key \in DOMAIN t.parent
  <2>1. w.nodes = t.nodes /\ DOMAIN w.parent = DOMAIN t.parent
    BY <1>4 DEF RowTaken
  <2>. QED
    BY <1>2, <1>3, <2>1 DEF IsTree
<1>5. CASE row.key \notin DOMAIN t.parent
  <2>. DEFINE n == Len(t.nodes) + 1
  <2>1. /\ w.nodes = Append(t.nodes, row.key) /\ w.parent[row.key] = at
        /\ DOMAIN w.parent = DOMAIN t.parent \cup {row.key}
    BY <1>5 DEF RowTaken
  <2>2. /\ DOMAIN w.nodes = DOMAIN t.nodes \cup {n} /\ w.nodes[n] = row.key
        /\ \A i \in DOMAIN t.nodes : w.nodes[i] = t.nodes[i]
    BY <1>1, <2>1
  <2>3. {w.nodes[i] : i \in DOMAIN w.nodes} = DOMAIN w.parent
    <3>. HIDE DEF n
    <3>. QED
      BY <1>2, <2>1, <2>2
  <2>4. ASSUME NEW i \in DOMAIN t.nodes
        PROVE  \/ w.parent[w.nodes[i]] = Root
               \/ \E j \in 1 .. (i - 1) : w.parent[w.nodes[i]] = w.nodes[j]
    <3>1. w.parent[w.nodes[i]] = t.parent[t.nodes[i]]
      BY <1>3, <2>2
    <3>2. \A j \in 1 .. (i - 1) : j \in DOMAIN t.nodes
      BY <1>1
    <3>. HIDE DEF n
    <3>. QED
      BY <1>3, <2>2, <3>1, <3>2
  <2>5. \/ w.parent[w.nodes[n]] = Root
        \/ \E j \in 1 .. (n - 1) : w.parent[w.nodes[n]] = w.nodes[j]
    <3>1. CASE at = Root
      BY <2>1, <2>2, <3>1
    <3>2. CASE at \in DOMAIN t.parent
      <4>1. PICK j \in DOMAIN t.nodes : t.nodes[j] = at
        BY <1>2, <3>2
      <4>2. j \in 1 .. (n - 1)
        BY <1>1
      <4>. QED
        BY <2>1, <2>2, <4>1, <4>2
    <3>. QED
      BY <3>1, <3>2
  <2>. HIDE DEF n
  <2>. QED
    BY <2>2, <2>3, <2>4, <2>5 DEF IsTree
<1>. QED
  BY <1>4, <1>5

LEMMA RowKeeps ==
  ASSUME NEW q \in AllTopics, NEW t, TreeGrows(q, t), t.stack # <<>>,
         Top(t).rows # <<>>, NEW row, row = Head(Top(t).rows), NEW w, RowTaken(t, w, row, Top(t).at)
  PROVE  /\ row \in RowsOf(q, Top(t).of) /\ FrameFits(q, t, Top(t))
         /\ TreeSound(q, w) /\ LedOnBut(q, w, row.next)
         /\ Top(t).left = 1 => LedOn(q, w)
<1>. DEFINE n == Len(t.stack)
            f == Top(t)
<1>1. /\ t \in TreeStates /\ TreeSound(q, t) /\ LedOn(q, t)
  BY DEF TreeGrows
<1>2. n \in DOMAIN t.stack /\ f = t.stack[n] /\ f \in Frame
  BY <1>1, RowIsTaken
<1>3. /\ f.rows \in Seq(TreeRow) /\ f.at \in Keys \cup {Root} /\ f.of \in Nodes /\ f.left \in Nat
      /\ row = f.rows[1] /\ 1 \in DOMAIN f.rows
  BY <1>2 DEF Frame
<1>4. FrameFits(q, t, f)
  BY <1>1, <1>2 DEF TreeSound
<1>5. row \in RowsOf(q, f.of)
  BY <1>3, <1>4 DEF FrameFits
<1>6. /\ \A j \in DOMAIN f.rows : f.rows[j] = row \/ \E k \in DOMAIN Tail(f.rows) : Tail(f.rows)[k] = f.rows[j]
      /\ \A k \in DOMAIN Tail(f.rows) : \E j \in DOMAIN f.rows : f.rows[j] = Tail(f.rows)[k]
  <2>1. ASSUME NEW j \in DOMAIN f.rows, j # 1
        PROVE  \E k \in DOMAIN Tail(f.rows) : Tail(f.rows)[k] = f.rows[j]
    <3>1. j - 1 \in DOMAIN Tail(f.rows) /\ Tail(f.rows)[j - 1] = f.rows[j]
      BY <1>3, <2>1
    <3>. QED
      BY <3>1
  <2>2. ASSUME NEW k \in DOMAIN Tail(f.rows)
        PROVE  \E j \in DOMAIN f.rows : f.rows[j] = Tail(f.rows)[k]
    <3>1. k + 1 \in DOMAIN f.rows /\ Tail(f.rows)[k] = f.rows[k + 1]
      BY <1>3, <2>2
    <3>. QED
      BY <3>1
  <2>. QED
    BY <1>3, <2>1, <2>2
<1>. HIDE DEF n, f
<1>7. /\ w.visited = t.visited /\ DOMAIN w.parent = DOMAIN t.parent \cup {row.key}
      /\ \A k \in DOMAIN t.parent : w.parent[k] = t.parent[k]
      /\ row.key \notin DOMAIN t.parent => w.parent[row.key] = f.at
      /\ DOMAIN w.stack = DOMAIN t.stack
      /\ \A i \in DOMAIN t.stack :
           /\ w.stack[i].of = t.stack[i].of /\ w.stack[i].at = t.stack[i].at
           /\ w.stack[i].left = t.stack[i].left
           /\ i # n => w.stack[i].rows = t.stack[i].rows
      /\ w.stack[n].rows = Tail(f.rows)
  BY <1>2 DEF RowTaken, n, f
<1>8. ASSUME NEW x, NEW r, Pending(t, x, r)
      PROVE  Pending(w, x, r) \/ (x = f.of /\ r = row)
  <2>1. PICK i \in DOMAIN t.stack : t.stack[i].of = x /\ \E j \in DOMAIN t.stack[i].rows : t.stack[i].rows[j] = r
    BY <1>8 DEF Pending
  <2>2. CASE i # n
    BY <1>7, <2>1, <2>2 DEF Pending
  <2>3. CASE i = n
    <3>1. PICK j \in DOMAIN f.rows : f.rows[j] = r
      BY <1>2, <2>1, <2>3
    <3>2. r = row \/ \E k \in DOMAIN w.stack[n].rows : w.stack[n].rows[k] = r
      BY <1>6, <1>7, <3>1
    <3>. QED
      BY <1>2, <1>7, <2>1, <2>3, <3>2 DEF Pending
  <2>. QED
    BY <2>2, <2>3
<1>9. row.key \in Keys
  BY <1>3, <1>5, RowsIn
<1>10. IsTree(w)
  <2>1. IsTree(t) /\ (f.at = Root \/ f.at \in DOMAIN t.parent)
    BY <1>1, <1>4 DEF TreeSound, FrameFits
  <2>2. RowTaken(t, w, row, f.at)
    BY DEF f
  <2>. QED
    BY <1>1, <1>3, <1>9, <2>1, <2>2, NodesKeep
<1>11. Grounded(q, w)
  <2>1. ASSUME NEW k \in DOMAIN t.parent
        PROVE  \E m \in 0 .. (q.max - 1) : \E s \in Met(q, m) :
                 StandsFor(q, w.parent[k], s) /\ \E r \in RowsOf(q, s) : r.key = k
    BY <1>1, <1>7 DEF TreeSound, Grounded
  <2>2. ASSUME row.key \notin DOMAIN t.parent
        PROVE  \E m \in 0 .. (q.max - 1) : \E s \in Met(q, m) :
                 StandsFor(q, w.parent[row.key], s) /\ \E r \in RowsOf(q, s) : r.key = row.key
    <3>1. q.max - f.left \in 0 .. (q.max - 1)
      BY <1>3, <1>4 DEF FrameFits, AllTopics
    <3>2. f.of \in Met(q, q.max - f.left) /\ StandsFor(q, f.at, f.of)
      BY <1>4 DEF FrameFits
    <3>. QED
      BY <1>5, <1>7, <2>2, <3>1, <3>2
  <2>. QED
    BY <1>7, <2>1, <2>2 DEF Grounded
<1>12. RowsKept(q, w)
  <2>1. ASSUME NEW s \in w.visited, NEW r \in RowsOf(q, s)
        PROVE  r.key \in DOMAIN w.parent \/ Pending(w, s, r)
    <3>1. r.key \in DOMAIN t.parent \/ Pending(t, s, r)
      BY <1>1, <1>7, <2>1 DEF TreeSound, RowsKept
    <3>. QED
      BY <1>7, <1>8, <3>1
  <2>. QED
    BY <2>1 DEF RowsKept
<1>13. ASSUME NEW i \in DOMAIN w.stack PROVE FrameFits(q, w, w.stack[i])
  <2>1. FrameFits(q, t, t.stack[i])
    BY <1>1, <1>7 DEF TreeSound
  <2>2. ASSUME NEW j \in DOMAIN w.stack[i].rows PROVE w.stack[i].rows[j] \in RowsOf(q, w.stack[i].of)
    <3>1. CASE i # n
      BY <1>7, <2>1, <2>2, <3>1 DEF FrameFits
    <3>2. CASE i = n
      <4>0. j \in DOMAIN Tail(f.rows) /\ w.stack[n].rows[j] = Tail(f.rows)[j]
        BY <1>2, <1>7, <2>2, <3>2
      <4>1. PICK k \in DOMAIN f.rows : f.rows[k] = Tail(f.rows)[j]
        BY <1>6, <4>0
      <4>. QED
        BY <1>2, <1>4, <1>7, <3>2, <4>0, <4>1 DEF FrameFits
    <3>. QED
      BY <3>1, <3>2
  <2>. QED
    BY <1>7, <2>1, <2>2 DEF FrameFits
<1>14. TreeSound(q, w)
  BY <1>10, <1>11, <1>12, <1>13 DEF TreeSound
<1>15. ASSUME NEW s \in w.visited, IsFirst(q, s), q.max > 1, NEW r \in RowsOf(q, s)
       PROVE  /\ r.next \in w.visited \cup {Nowhere, row.next} \/ Pending(w, s, r)
              /\ f.left = 1 => r.next \in w.visited \cup {Nowhere} \/ Pending(w, s, r)
  <2>1. r.next \in t.visited \cup {Nowhere} \/ Pending(t, s, r)
    BY <1>1, <1>7, <1>15 DEF LedOn, LedOnBut
  <2>2. s = f.of => f.left > 1
    BY <1>4, <1>15 DEF FrameFits
  <2>. QED
    BY <1>7, <1>8, <2>1, <2>2
<1>16. LedOnBut(q, w, row.next) /\ (f.left = 1 => LedOn(q, w))
  BY <1>15 DEF LedOn, LedOnBut
<1>. QED
  BY <1>4, <1>5, <1>14, <1>16 DEF f

LEMMA RowStep ==
  ASSUME NEW q \in AllTopics, NEW t, TreeGrows(q, t), t.stack # <<>>, Top(t).rows # <<>>
  PROVE  TreeGrows(q, RowNode(q, t))
<1>. DEFINE f == Top(t)
            row == Head(f.rows)
            w == WithNode([t EXCEPT !.stack[Len(t.stack)].rows = Tail(@)], row.key, f.at)
            v == Enter(q, w, row.next, f.left - 1, row.key)
<1>1. t \in TreeStates
  BY DEF TreeGrows
<1>2. RowTaken(t, w, row, f.at) /\ f \in Frame
  BY <1>1, RowIsTaken
<1>3. v = RowNode(q, t)
  BY DEF RowNode
<1>. HIDE DEF w
<1>4. /\ row \in RowsOf(q, f.of) /\ FrameFits(q, t, f)
      /\ TreeSound(q, w) /\ LedOnBut(q, w, row.next) /\ (f.left = 1 => LedOn(q, w))
  <2>1. ASSUME NEW r, NEW u, r = Head(Top(t).rows), RowTaken(t, u, r, Top(t).at)
        PROVE  /\ r \in RowsOf(q, Top(t).of) /\ FrameFits(q, t, Top(t))
               /\ TreeSound(q, u) /\ LedOnBut(q, u, r.next) /\ (Top(t).left = 1 => LedOn(q, u))
    BY <2>1, RowKeeps
  <2>. QED
    BY <1>2, <2>1
<1>. HIDE DEF f, row, v
<1>5. f.of \in Nodes /\ f.left \in Nat /\ f.left \in 1 .. q.max /\ q.max \in Nat \ {0}
  BY <1>2, <1>4 DEF Frame, FrameFits, AllTopics
<1>6. row \in TreeRow /\ row.key \in Keys /\ row.key # Root /\ row.next \in Nodes \cup {Nowhere}
  BY <1>4, <1>5, RowsIn
<1>7. f.left - 1 \in 0 .. q.max /\ (f.left - 1 = 0 => f.left = 1)
  BY <1>5
<1>8. /\ w \in TreeStates /\ w.visited = t.visited /\ w.todo = t.todo /\ row.key \in DOMAIN w.parent
  BY <1>2 DEF RowTaken
<1>9. ASSUME row.next \in Nodes, f.left - 1 # 0
      PROVE  StandsFor(q, row.key, row.next) /\ row.next \in Met(q, q.max - (f.left - 1))
  <2>1. StandsFor(q, row.key, row.next)
    BY <1>4, <1>5, <1>6 DEF StandsFor
  <2>2. /\ q.max - f.left \in Nat /\ q.max - (f.left - 1) = (q.max - f.left) + 1
        /\ f.of \in Met(q, q.max - f.left)
    BY <1>4, <1>5 DEF FrameFits
  <2>. QED
    BY <1>4, <1>9, <2>1, <2>2, MetOn
<1>10. ASSUME NEW s \in Nodes, IsFirst(q, s) PROVE s \in t.visited
  BY <1>10 DEF TreeGrows, SeedsKept
<1>11. /\ v \in TreeStates /\ TreeSound(q, v) /\ LedOn(q, v)
       /\ v.todo = w.todo /\ w.visited \subseteq v.visited
  <2>1. IsFirst(q, row.next) /\ row.next \notin w.visited => f.left - 1 = q.max
    <3>1. IsFirst(q, row.next) => row.next \in Nodes
      BY DEF IsFirst, AllTopics
    <3>. QED
      BY <1>8, <1>10, <3>1
  <2>2. row.key \in Keys \cup {Root} /\ v = Enter(q, w, row.next, f.left - 1, row.key)
    BY <1>6 DEF v
  <2>3. ASSUME NEW x \in Nodes \cup {Nowhere}, NEW left \in 0 .. q.max, NEW at \in Keys \cup {Root},
               v = Enter(q, w, x, left, at), TreeSound(q, w), LedOnBut(q, w, x),
               left = 0 => LedOn(q, w), at \in DOMAIN w.parent,
               x \in Nodes /\ left # 0 => StandsFor(q, at, x) /\ x \in Met(q, q.max - left),
               IsFirst(q, x) /\ x \notin w.visited => left = q.max
        PROVE  /\ v \in TreeStates /\ TreeSound(q, v) /\ LedOn(q, v)
               /\ v.todo = w.todo /\ w.visited \subseteq v.visited
    BY <1>8, <2>3, EnterKeeps
  <2>4. f.left - 1 = 0 => LedOn(q, w)
    BY <1>4, <1>7
  <2>. HIDE DEF v
  <2>. QED
    BY <1>4, <1>6, <1>7, <1>8, <1>9, <2>1, <2>2, <2>3, <2>4
<1>12. SeedsKept(q, v)
  BY <1>8, <1>10, <1>11 DEF TreeGrows, SeedsKept
<1>. QED
  BY <1>3, <1>11, <1>12 DEF TreeGrows

LEMMA TreeInvStep == TreeInv /\ [TreeNext]_treeVars => TreeInv'
<1>. SUFFICES ASSUME TreeInv, [TreeNext]_treeVars PROVE TreeInv'
  OBVIOUS
<1>1. CASE TakeSeed
  BY <1>1, TreeSeedStep DEF TreeInv, TakeSeed
<1>2. CASE TakeRow
  BY <1>2, RowStep DEF TreeInv, TakeRow
<1>3. CASE Leave
  BY <1>3, ReturnStep DEF TreeInv, Leave
<1>4. CASE UNCHANGED treeVars
  BY <1>4 DEF TreeInv, treeVars
<1>. QED
  BY <1>1, <1>2, <1>3, <1>4 DEF TreeNext

LEMMA GrownIsExact ==
  ASSUME NEW q \in AllTopics, NEW t, TreeGrows(q, t), IsGrown(t)
  PROVE  IsTree(t) /\ Grounded(q, t) /\ NearComplete(q, t)
<1>1. TreeSound(q, t) /\ LedOn(q, t) /\ SeedsKept(q, t)
  BY DEF TreeGrows
<1>2. t.todo = <<>> /\ t.stack = <<>> /\ DOMAIN <<>> = {}
  BY DEF IsGrown
<1>3. \A s, row : ~Pending(t, s, row)
  BY <1>2 DEF Pending
<1>4. AskedFor(q) \subseteq t.visited
  BY <1>1, <1>2 DEF SeedsKept
<1>5. \A s \in t.visited : \A row \in RowsOf(q, s) : row.key \in DOMAIN t.parent
  BY <1>1, <1>3 DEF TreeSound, RowsKept
<1>6. ASSUME q.max > 1, q.seeds # <<>>, NEW near \in RowsOf(q, q.seeds[1]), near.next # Nowhere
      PROVE  near.next \in t.visited
  <2>1. q.seeds[1] \in AskedFor(q)
    BY <1>6 DEF AskedFor, AllTopics
  <2>. QED
    BY <1>1, <1>3, <1>4, <1>6, <2>1 DEF LedOn, LedOnBut, IsFirst
<1>7. NearComplete(q, t)
  BY <1>4, <1>5, <1>6 DEF NearComplete
<1>. QED
  BY <1>1, <1>7 DEF TreeSound

\* For any graph and depth, what callersOf and calleesOf answer is a tree whose
\* nodes call, or are called by, what they hang under, near enough to the name
\* asked for; its first level is complete, and for one symbol its second.
THEOREM TreesAreExact == TreeSpec => []TreeExact
<1>1. TreeInit => TreeInv
  <2>1. Topics \subseteq AllTopics
    BY TopicsAssumption DEF AllTopics
  <2>. QED
    BY <2>1, StartTreeGrows DEF TreeInit, TreeInv
<1>2. TreeInv => TreeExact
  BY GrownIsExact DEF TreeInv, TreeExact
<1>. QED
  BY <1>1, <1>2, TreeInvStep, PTL DEF TreeSpec
-----------------------------------------------------------------------------
(* The lines of a sequence of files.                                       *)

\* A set that has 0 and with every number the next has them all.
LEMMA AllNumbers ==
  ASSUME NEW S \in SUBSET Nat, 0 \in S, \A n \in S : n + 1 \in S
  PROVE  S = Nat
<1>1. SUFFICES ASSUME Nat \ S # {} PROVE FALSE
  OBVIOUS
<1>2. PICK n \in Nat \ S : \A m \in Nat \ S : n <= m
  BY <1>1, Least
<1>3. n # 0
  OBVIOUS
<1>4. n - 1 \in S
  BY <1>2, <1>3
<1>. QED
  BY <1>2, <1>4

\* t[n] are the lines of the first n files.
IsTotals(size, files, t) ==
  t = [n \in 0 .. Len(files) |-> IF n = 0 THEN 0 ELSE t[n - 1] + size[files[n]]]

LEMMA LocOfIs ==
  ASSUME NEW size, NEW files
  PROVE  LocOf(size, files) = (CHOOSE t : IsTotals(size, files, t))[Len(files)]
BY DEF LocOf, IsTotals

\* There are such totals.
LEMMA TotalsExist ==
  ASSUME NEW size \in [Files -> Nat], NEW files \in Seq(Files)
  PROVE  \E t \in [0 .. Len(files) -> Nat] : IsTotals(size, files, t)
<1>. DEFINE Upto(t, n) == t = [i \in 0 .. n |-> IF i = 0 THEN 0 ELSE t[i - 1] + size[files[i]]]
            S == {n \in Nat : n <= Len(files) => \E t \in [0 .. n -> Nat] : Upto(t, n)}
<1>1. 0 \in S
  <2>. DEFINE t == [i \in 0 .. 0 |-> 0]
  <2>1. t \in [0 .. 0 -> Nat] /\ t[0] = 0 /\ \A i \in 0 .. 0 : i = 0
    OBVIOUS
  <2>2. Upto(t, 0)
    <3>. HIDE DEF t
    <3>. QED
      BY <2>1
  <2>. QED
    <3>. HIDE DEF t, Upto
    <3>. QED
      BY <2>1, <2>2
<1>2. ASSUME NEW n \in S PROVE n + 1 \in S
  <2>0. n \in Nat /\ n + 1 \in Nat
    OBVIOUS
  <2>1. SUFFICES ASSUME n + 1 <= Len(files) PROVE \E t \in [0 .. (n + 1) -> Nat] : Upto(t, n + 1)
    <3>. HIDE DEF Upto
    <3>. QED
      BY <2>0
  <2>2. PICK u \in [0 .. n -> Nat] : Upto(u, n)
    BY <2>1
  <2>3. n + 1 \in 1 .. Len(files) /\ files[n + 1] \in Files /\ size[files[n + 1]] \in Nat
    BY <2>1
  <2>. DEFINE t == [i \in 0 .. (n + 1) |-> IF i = n + 1 THEN u[n] + size[files[n + 1]] ELSE u[i]]
  <2>4. t \in [0 .. (n + 1) -> Nat]
    BY <2>2, <2>3
  <2>5. ASSUME NEW i \in 0 .. (n + 1)
        PROVE  t[i] = IF i = 0 THEN 0 ELSE t[i - 1] + size[files[i]]
    <3>1. CASE i = n + 1
      <4>1. i # 0 /\ i - 1 = n /\ n \in 0 .. (n + 1) /\ n # n + 1
        BY <3>1
      <4>2. t[i - 1] = u[n] /\ t[i] = u[n] + size[files[n + 1]]
        BY <3>1, <4>1
      <4>. QED
        BY <3>1, <4>1, <4>2
    <3>2. CASE i # n + 1
      <4>1. i \in 0 .. n /\ t[i] = u[i] /\ (i # 0 => i - 1 \in 0 .. n /\ t[i - 1] = u[i - 1])
        BY <3>2
      <4>2. u[i] = IF i = 0 THEN 0 ELSE u[i - 1] + size[files[i]]
        BY <2>2, <4>1
      <4>. QED
        BY <4>1, <4>2
    <3>. QED
      BY <3>1, <3>2
  <2>6. Upto(t, n + 1)
    <3>. HIDE DEF t
    <3>. QED
      BY <2>4, <2>5
  <2>. QED
    <3>. HIDE DEF t, Upto
    <3>. QED
      BY <2>4, <2>6
<1>3. S = Nat
  <2>. HIDE DEF S
  <2>1. S \in SUBSET Nat
    BY DEF S
  <2>. QED
    BY <1>1, <1>2, <2>1, AllNumbers
<1>4. Len(files) \in S
  <2>. HIDE DEF S
  <2>. QED
    BY <1>3
<1>5. \E t \in [0 .. Len(files) -> Nat] : Upto(t, Len(files))
  <2>. HIDE DEF Upto
  <2>. QED
    BY <1>4
<1>. QED
  BY <1>5 DEF IsTotals

\* They depend on the files that they count only.
LEMMA TotalsAgree ==
  ASSUME NEW size \in [Files -> Nat], NEW files \in Seq(Files), NEW more \in Seq(Files),
         NEW t, NEW u, IsTotals(size, files, t), IsTotals(size, more, u), Len(files) <= Len(more),
         \A i \in 1 .. Len(files) : files[i] = more[i]
  PROVE  t[Len(files)] = u[Len(files)]
<1>. DEFINE S == {n \in Nat : n <= Len(files) => t[n] = u[n]}
<1>1. \A n \in 0 .. Len(files) :
        /\ t[n] = IF n = 0 THEN 0 ELSE t[n - 1] + size[files[n]]
        /\ u[n] = IF n = 0 THEN 0 ELSE u[n - 1] + size[more[n]]
  <2>1. TAKE n \in 0 .. Len(files)
  <2>2. n \in 0 .. Len(more)
    OBVIOUS
  <2>3. t[n] = IF n = 0 THEN 0 ELSE t[n - 1] + size[files[n]]
    BY ONLY IsTotals(size, files, t), n \in 0 .. Len(files) DEF IsTotals
  <2>4. u[n] = IF n = 0 THEN 0 ELSE u[n - 1] + size[more[n]]
    BY ONLY IsTotals(size, more, u), <2>2 DEF IsTotals
  <2>. QED
    BY <2>3, <2>4
<1>2. 0 \in S
  BY <1>1
<1>3. ASSUME NEW n \in S PROVE n + 1 \in S
  <2>1. SUFFICES ASSUME n + 1 <= Len(files) PROVE t[n + 1] = u[n + 1]
    OBVIOUS
  <2>2. n + 1 \in 0 .. Len(files) /\ n + 1 # 0 /\ (n + 1) - 1 = n /\ n + 1 \in 1 .. Len(files)
    BY <2>1
  <2>3. t[n + 1] = t[n] + size[files[n + 1]] /\ u[n + 1] = u[n] + size[more[n + 1]]
    BY <1>1, <2>2
  <2>. QED
    BY <2>1, <2>2, <2>3
<1>4. S = Nat
  <2>. HIDE DEF S
  <2>1. S \in SUBSET Nat
    BY DEF S
  <2>. QED
    BY <1>2, <1>3, <2>1, AllNumbers
<1>. QED
  BY <1>4

LEMMA LocOfTotals ==
  ASSUME NEW size \in [Files -> Nat], NEW files \in Seq(Files)
  PROVE  \E t \in [0 .. Len(files) -> Nat] :
           IsTotals(size, files, t) /\ LocOf(size, files) = t[Len(files)]
<1>1. PICK t \in [0 .. Len(files) -> Nat] : IsTotals(size, files, t)
  BY TotalsExist
<1>. DEFINE u == CHOOSE v : IsTotals(size, files, v)
<1>2. IsTotals(size, files, u)
  BY <1>1
<1>3. LocOf(size, files) = u[Len(files)]
  BY LocOfIs
<1>4. u[Len(files)] = t[Len(files)]
  <2>. HIDE DEF u
  <2>. QED
    BY <1>1, <1>2, TotalsAgree
<1>. QED
  BY <1>1, <1>3, <1>4

\* One more file has its own lines more.
LEMMA LocOfMore ==
  ASSUME NEW size \in [Files -> Nat], NEW files \in Seq(Files), NEW f \in Files
  PROVE  /\ LocOf(size, files) \in Nat
         /\ LocOf(size, Append(files, f)) = LocOf(size, files) + size[f]
<1>. DEFINE more == Append(files, f)
            n == Len(files)
<1>1. more \in Seq(Files) /\ Len(more) = n + 1 /\ more[n + 1] = f /\ n \in Nat
      /\ \A i \in 1 .. n : files[i] = more[i]
  OBVIOUS
<1>2. PICK t \in [0 .. n -> Nat] : IsTotals(size, files, t) /\ LocOf(size, files) = t[n]
  BY LocOfTotals
<1>. HIDE DEF more
<1>3. PICK u \in [0 .. (n + 1) -> Nat] :
        IsTotals(size, more, u) /\ LocOf(size, more) = u[n + 1]
  <2>1. PICK u \in [0 .. Len(more) -> Nat] :
          IsTotals(size, more, u) /\ LocOf(size, more) = u[Len(more)]
    BY <1>1, LocOfTotals
  <2>. QED
    BY <1>1, <2>1
<1>4. t[n] = u[n]
  <2>1. /\ Len(files) <= Len(more) /\ more \in Seq(Files)
        /\ \A i \in 1 .. Len(files) : files[i] = more[i]
    BY <1>1
  <2>2. IsTotals(size, files, t) /\ IsTotals(size, more, u)
    BY <1>2, <1>3
  <2>. HIDE DEF n
  <2>3. ASSUME NEW a, NEW b, IsTotals(size, files, a), IsTotals(size, more, b)
        PROVE  a[Len(files)] = b[Len(files)]
    BY <2>1, <2>3, TotalsAgree
  <2>4. t[Len(files)] = u[Len(files)]
    BY <2>2, <2>3
  <2>. QED
    BY <2>4 DEF n
<1>5. u[n + 1] = u[n] + size[f]
  <2>1. n + 1 \in 0 .. Len(more) /\ n + 1 # 0 /\ (n + 1) - 1 = n
    BY <1>1
  <2>2. u[n + 1] = IF n + 1 = 0 THEN 0 ELSE u[(n + 1) - 1] + size[more[n + 1]]
    BY ONLY <1>3, <2>1 DEF IsTotals
  <2>. QED
    BY <1>1, <2>1, <2>2
<1>. QED
  BY <1>2, <1>3, <1>4, <1>5 DEF more
-----------------------------------------------------------------------------
(* Members of sequences, and what some imports lead to.                    *)

LEMMA MembersAppend ==
  ASSUME NEW T, NEW s \in Seq(T), NEW x \in T
  PROVE  Append(s, x) \in Seq(T) /\ Members(Append(s, x)) = Members(s) \cup {x}
<1>. DEFINE r == Append(s, x)
<1>1. /\ r \in Seq(T) /\ DOMAIN r = 1 .. (Len(s) + 1) /\ DOMAIN s = 1 .. Len(s) /\ Len(s) \in Nat
      /\ r[Len(s) + 1] = x /\ \A i \in 1 .. Len(s) : r[i] = s[i]
  OBVIOUS
<1>. HIDE DEF r
<1>2. Members(r) \subseteq Members(s) \cup {x}
  BY <1>1 DEF Members
<1>3. Members(s) \cup {x} \subseteq Members(r)
  BY <1>1 DEF Members
<1>. QED
  BY <1>1, <1>2, <1>3 DEF r

LEMMA MembersSplit ==
  ASSUME NEW T, NEW s \in Seq(T), s # <<>>
  PROVE  /\ Head(s) \in T /\ Tail(s) \in Seq(T)
         /\ Members(s) = {Head(s)} \cup Members(Tail(s))
<1>. DEFINE r == Tail(s)
<1>1. /\ r \in Seq(T) /\ DOMAIN s = 1 .. Len(s) /\ DOMAIN r = 1 .. (Len(s) - 1) /\ Len(s) \in Nat
      /\ Len(s) > 0 /\ Head(s) = s[1] /\ s[1] \in T /\ \A i \in 1 .. (Len(s) - 1) : r[i] = s[i + 1]
  OBVIOUS
<1>. HIDE DEF r
<1>2. Members(r) \subseteq Members(s)
  <2>1. SUFFICES ASSUME NEW i \in 1 .. (Len(s) - 1) PROVE r[i] \in Members(s)
    BY <1>1 DEF Members
  <2>2. i + 1 \in DOMAIN s /\ r[i] = s[i + 1]
    BY <1>1
  <2>. QED
    BY <2>2 DEF Members
<1>3. ASSUME NEW i \in 1 .. Len(s) PROVE s[i] \in {Head(s)} \cup Members(r)
  <2>1. CASE i = 1
    BY <1>1, <2>1
  <2>2. CASE i # 1
    <3>1. i - 1 \in DOMAIN r /\ r[i - 1] = s[i]
      BY <1>1, <2>2
    <3>. QED
      BY <3>1 DEF Members
  <2>. QED
    BY <2>1, <2>2
<1>4. Members(s) \subseteq {Head(s)} \cup Members(r)
  BY <1>1, <1>3 DEF Members
<1>5. Head(s) \in Members(s)
  BY <1>1 DEF Members
<1>. QED
  BY <1>1, <1>2, <1>4, <1>5 DEF r

LEMMA MembersEmpty == Members(<<>>) = {}
BY DEF Members

LEMMA MembersIn ==
  ASSUME NEW T, NEW s \in Seq(T)
  PROVE  Members(s) \subseteq T
BY DEF Members

LEMMA HasIs ==
  ASSUME NEW s, NEW f
  PROVE  Has(s, f) <=> f \in Members(s)
BY DEF Has, Members

LEMMA ListedIs ==
  ASSUME NEW lists, NEW S, NEW f
  PROVE  f \in Listed(lists, S) <=> \E s \in S : f \in Members(lists[s])
BY DEF Listed

AllRequests ==
  {q \in [own : Seq(Files), seeds : Seq(Files), together : [Files -> Seq(Files)],
          imports : [Files -> Seq(Files)], importers : [Files -> Seq(Files)],
          size : [Files -> Nat], maxFiles : Nat, maxLoc : Nat, maxDepth : Nat] :
     IsSet(q.own) /\ Members(q.own) \subseteq Members(q.seeds)}

LEMMA ListsAreFiles ==
  ASSUME NEW lists \in [Files -> Seq(Files)], NEW S \in SUBSET Files
  PROVE  Listed(lists, S) \subseteq Files
BY MembersIn DEF Listed

LEMMA BaseIn ==
  ASSUME NEW q \in AllRequests
  PROVE  /\ Members(q.seeds) \subseteq Files /\ Members(q.own) \subseteq Files
         /\ Base(q) \subseteq AllSeeds(q) /\ AllSeeds(q) \subseteq Files
<1>1. q.seeds \in Seq(Files) /\ q.own \in Seq(Files) /\ q.together \in [Files -> Seq(Files)]
      /\ Members(q.own) \subseteq Members(q.seeds)
  BY DEF AllRequests
<1>2. Members(q.seeds) \subseteq Files /\ Members(q.own) \subseteq Files
  BY <1>1, MembersIn
<1>3. Listed(q.together, Members(q.seeds)) \subseteq Files
  BY <1>1, <1>2, ListsAreFiles
<1>. QED
  BY <1>1, <1>2, <1>3 DEF Base, AllSeeds

LEMMA EndsIn ==
  ASSUME NEW q, NEW n \in Nat
  PROVE  Ends(q, n) \subseteq Files
BY DEF Ends

LEMMA NearIn ==
  ASSUME NEW q, NEW n \in Nat
  PROVE  Near(q, n) \subseteq Files
BY EndsIn DEF Near

LEMMA NearMore ==
  ASSUME NEW q, NEW m \in Nat, NEW n \in Nat, m <= n
  PROVE  Near(q, m) \subseteq Near(q, n)
<1>1. \A k \in 0 .. m : k \in 0 .. n
  OBVIOUS
<1>. QED
  BY <1>1 DEF Near

LEMMA NearNone ==
  ASSUME NEW q \in AllRequests
  PROVE  Near(q, 0) = Base(q)
<1>1. \A k \in 0 .. 0 : k = 0
  OBVIOUS
<1>2. Near(q, 0) = Ends(q, 0)
  BY <1>1 DEF Near
<1>3. ASSUME NEW f \in Base(q) PROVE f \in Ends(q, 0)
  <2>. DEFINE p == [i \in 0 .. 0 |-> f]
  <2>1. p \in [0 .. 0 -> Files] /\ p[0] = f
    BY BaseIn
  <2>2. IsChain(q, p, 0)
    <3>. HIDE DEF p
    <3>. QED
      BY <2>1 DEF IsChain
  <2>. QED
    <3>. HIDE DEF p
    <3>. QED
      BY <2>1, <2>2 DEF Ends
<1>4. ASSUME NEW f \in Ends(q, 0) PROVE f \in Base(q)
  BY <1>4 DEF Ends, IsChain
<1>. QED
  BY <1>2, <1>3, <1>4

\* An import leads one farther.
LEMMA NearOn ==
  ASSUME NEW q \in AllRequests, NEW n \in Nat, NEW f \in Near(q, n),
         NEW g \in Members(q.imports[f])
  PROVE  g \in Near(q, n + 1)
<1>1. PICK m \in 0 .. n : f \in Ends(q, m)
  BY DEF Near
<1>2. PICK p \in [0 .. m -> Files] : IsChain(q, p, m) /\ p[m] = f
  BY <1>1 DEF Ends
<1>3. g \in Files
  <2>1. f \in Files /\ q.imports \in [Files -> Seq(Files)]
    BY NearIn DEF AllRequests
  <2>. QED
    BY <2>1, MembersIn
<1>. DEFINE r == [i \in 0 .. (m + 1) |-> IF i = m + 1 THEN g ELSE p[i]]
<1>4. r \in [0 .. (m + 1) -> Files] /\ r[m + 1] = g /\ r[0] = p[0]
  BY <1>3
<1>5. ASSUME NEW i \in 1 .. (m + 1) PROVE r[i] \in Members(q.imports[r[i - 1]])
  <2>1. CASE i = m + 1
    <3>1. r[i - 1] = f /\ r[i] = g
      BY <1>2, <2>1
    <3>. QED
      BY <3>1
  <2>2. CASE i # m + 1
    <3>1. i \in 1 .. m /\ r[i - 1] = p[i - 1] /\ r[i] = p[i]
      BY <2>2
    <3>. QED
      BY <1>2, <3>1 DEF IsChain
  <2>. QED
    BY <2>1, <2>2
<1>6. IsChain(q, r, m + 1)
  <2>. HIDE DEF r
  <2>. QED
    BY <1>2, <1>4, <1>5 DEF IsChain
<1>7. g \in Ends(q, m + 1)
  <2>. HIDE DEF r
  <2>. QED
    BY <1>4, <1>6 DEF Ends
<1>8. m + 1 \in 0 .. (n + 1)
  OBVIOUS
<1>. QED
  BY <1>7, <1>8 DEF Near

\* What is farther is imported by what is nearer.
LEMMA NearBack ==
  ASSUME NEW q \in AllRequests, NEW n \in Nat, NEW g \in Near(q, n + 1), g \notin Near(q, 0)
  PROVE  \E f \in Near(q, n) : g \in Members(q.imports[f])
<1>1. PICK k \in 0 .. (n + 1) : g \in Ends(q, k)
  BY DEF Near
<1>2. k # 0
  <2>1. 0 \in 0 .. 0
    OBVIOUS
  <2>. QED
    BY <1>1, <2>1 DEF Near
<1>3. PICK m \in 0 .. n : k = m + 1
  <2>1. k - 1 \in 0 .. n /\ k = (k - 1) + 1
    BY <1>2
  <2>. QED
    BY <2>1
<1>4. PICK p \in [0 .. (m + 1) -> Files] : IsChain(q, p, m + 1) /\ p[m + 1] = g
  BY <1>1, <1>3 DEF Ends
<1>. DEFINE r == [i \in 0 .. m |-> p[i]]
<1>5. r \in [0 .. m -> Files] /\ r[m] = p[m] /\ r[0] = p[0]
  OBVIOUS
<1>6. IsChain(q, r, m)
  <2>1. \A i \in 1 .. m : r[i - 1] = p[i - 1] /\ r[i] = p[i] /\ i \in 1 .. (m + 1)
    OBVIOUS
  <2>. HIDE DEF r
  <2>. QED
    BY <1>4, <1>5, <2>1 DEF IsChain
<1>7. p[m] \in Ends(q, m)
  <2>. HIDE DEF r
  <2>. QED
    BY <1>5, <1>6 DEF Ends
<1>8. g \in Members(q.imports[p[m]])
  <2>1. m + 1 \in 1 .. (m + 1) /\ (m + 1) - 1 = m
    OBVIOUS
  <2>. QED
    BY <1>4, <2>1 DEF IsChain
<1>. QED
  BY <1>7, <1>8 DEF Near

\* What has the base and all that its members import has everything.
LEMMA NearClosed ==
  ASSUME NEW q \in AllRequests, NEW S, Near(q, 0) \subseteq S,
         \A f \in S : Members(q.imports[f]) \subseteq S, NEW n \in Nat
  PROVE  Near(q, n) \subseteq S
<1>. DEFINE T == {k \in Nat : Near(q, k) \subseteq S}
<1>1. 0 \in T
  OBVIOUS
<1>2. ASSUME NEW k \in T PROVE k + 1 \in T
  <2>1. ASSUME NEW g \in Near(q, k + 1), g \notin Near(q, 0) PROVE g \in S
    <3>1. PICK f \in Near(q, k) : g \in Members(q.imports[f])
      BY <2>1, NearBack
    <3>. QED
      BY <3>1
  <2>. QED
    BY <2>1
<1>3. T = Nat
  <2>. HIDE DEF T
  <2>1. T \in SUBSET Nat
    BY DEF T
  <2>. QED
    BY <1>1, <1>2, <2>1, AllNumbers
<1>. QED
  BY <1>3
-----------------------------------------------------------------------------
(* The inductive invariant.                                                *)

Stages == {"together", "imports", "importers", "done"}

ScopeTypes(q) ==
  [pc : Stages, files : Seq(Files), loc : Nat, cap : {"none", "maxFiles", "maxLoc"},
   seeds : Seq(Files), ahead : Seq(Files), todo : Seq(Files), next : Seq(Files),
   left : 0 .. q.maxDepth]

\* What is so all the time.
Sound(q, w) ==
  /\ IsSet(w.files) /\ Members(q.own) \subseteq Members(w.files)
  /\ w.loc = LocOf(q.size, w.files)
  /\ WithinBudget(q, w)
  /\ Members(q.seeds) \subseteq Members(w.seeds)
  /\ Members(w.seeds) \subseteq Members(q.seeds) \cup (AllSeeds(q) \cap Members(w.files))
  /\ w.pc # "done" => w.cap = "none"

Together(q) == Listed(q.together, Members(q.seeds))

\* What changed with the seeds is in the scope, and a seed, or still to read.
TogetherInv(q, w) ==
  /\ w.left = q.maxDepth
  /\ Members(w.files) \subseteq Base(q) \cap Members(w.seeds)
  /\ Members(w.ahead) \subseteq Members(q.seeds) /\ Members(w.todo) \subseteq Together(q)
  /\ Together(q) \subseteq Members(w.files) \cup Members(w.todo) \cup Listed(q.together, Members(w.ahead))

\* Round d takes in what is d imports away.  What the scope's files import is in
\* it, or to be read in this round, or in the next.
ImportsInv(q, w) ==
  LET d == q.maxDepth - w.left
      all == Members(w.files)
  IN /\ Members(w.seeds) = AllSeeds(q)
     /\ Near(q, 0) \subseteq all /\ all \subseteq Near(q, d)
     /\ d = 0 => Members(w.next) = all /\ w.ahead = <<>> /\ w.todo = <<>>
     /\ d > 0 => /\ Near(q, d - 1) \subseteq all /\ Members(w.ahead) \subseteq Near(q, d - 1)
                 /\ Members(w.next) \cap Near(q, d - 1) = {}
     /\ Members(w.next) \subseteq all /\ Members(w.todo) \subseteq Near(q, d)
     /\ \A f \in all \ (Members(w.next) \cup Members(w.ahead)) :
          Members(q.imports[f]) \subseteq all \cup Members(w.todo)

ImportersInv(q, w) ==
  LET all == Members(w.files)
  IN /\ Members(w.seeds) = AllSeeds(q)
     /\ Near(q, q.maxDepth) \subseteq all /\ all \subseteq Wanted(q)
     /\ Members(w.ahead) \subseteq AllSeeds(q) /\ Members(w.todo) \subseteq Wanted(q)
     /\ \A s \in AllSeeds(q) \ Members(w.ahead) :
          Members(q.importers[s]) \subseteq all \cup Members(w.todo)

DoneInv(q, w) ==
  /\ Members(w.files) \subseteq Wanted(q) /\ CutForReason(q, w) /\ NearestFirst(q, w)

Grows(q, w) ==
  /\ q \in AllRequests /\ w \in ScopeTypes(q)
  /\ Sound(q, w)
  /\ w.pc = "together" => TogetherInv(q, w)
  /\ w.pc = "imports" => ImportsInv(q, w)
  /\ w.pc = "importers" => ImportersInv(q, w)
  /\ w.pc = "done" => DoneInv(q, w)

GrowthInv == Grows(wish, scope)
-----------------------------------------------------------------------------
(* addFile.                                                                *)

Same(w, v) ==
  /\ v.files = w.files /\ v.loc = w.loc /\ v.seeds = w.seeds /\ v.ahead = w.ahead
  /\ v.next = w.next /\ v.left = w.left

OfferKnows(w, v) ==
  /\ Head(w.todo) \in Members(w.files)
  /\ Same(w, v) /\ v.todo = Tail(w.todo) /\ v.cap = w.cap /\ v.pc = w.pc

OfferCuts(q, w, v) ==
  /\ Head(w.todo) \notin Members(w.files)
  /\ Same(w, v) /\ v.todo = w.todo /\ v.pc = "done"
  /\ \/ v.cap = "maxFiles" /\ Len(w.files) >= q.maxFiles
     \/ v.cap = "maxLoc" /\ w.loc + q.size[Head(w.todo)] > q.maxLoc

OfferTakes(q, w, v) ==
  /\ Head(w.todo) \notin Members(w.files)
  /\ Len(w.files) < q.maxFiles /\ w.loc + q.size[Head(w.todo)] <= q.maxLoc
  /\ v.files = Append(w.files, Head(w.todo)) /\ v.loc = w.loc + q.size[Head(w.todo)]
  /\ v.next = Append(w.next, Head(w.todo))
  /\ v.seeds = IF w.pc = "together" THEN Append(w.seeds, Head(w.todo)) ELSE w.seeds
  /\ v.ahead = w.ahead /\ v.left = w.left /\ v.todo = Tail(w.todo) /\ v.cap = w.cap /\ v.pc = w.pc

LEMMA Offered ==
  ASSUME NEW q \in AllRequests, NEW w \in ScopeTypes(q), w.todo # <<>>
  PROVE  /\ Head(w.todo) \in Files /\ Members(w.todo) = {Head(w.todo)} \cup Members(Tail(w.todo))
         /\ Offer(q, w) \in ScopeTypes(q)
         /\ \/ OfferKnows(w, Offer(q, w)) \/ OfferCuts(q, w, Offer(q, w))
            \/ OfferTakes(q, w, Offer(q, w))
<1>. DEFINE f == Head(w.todo)
            v == Offer(q, w)
            rest == [w EXCEPT !.todo = Tail(@)]
<1>1. /\ w.todo \in Seq(Files) /\ w.files \in Seq(Files) /\ w.next \in Seq(Files)
      /\ w.seeds \in Seq(Files) /\ w.loc \in Nat /\ q.size \in [Files -> Nat]
      /\ q.maxFiles \in Nat /\ q.maxLoc \in Nat /\ Len(w.files) \in Nat
  BY DEF ScopeTypes, AllRequests
<1>2. f \in Files /\ Tail(w.todo) \in Seq(Files) /\ Members(w.todo) = {f} \cup Members(Tail(w.todo))
  BY <1>1, MembersSplit
<1>3. q.size[f] \in Nat
  BY <1>1, <1>2
<1>4. CASE f \in Members(w.files)
  <2>1. v = rest
    BY <1>4, HasIs DEF Offer
  <2>2. v \in ScopeTypes(q)
    BY <1>2, <2>1 DEF ScopeTypes
  <2>3. OfferKnows(w, v)
    BY <1>4, <2>1 DEF OfferKnows, Same, ScopeTypes
  <2>. QED
    BY <1>2, <2>2, <2>3
<1>5. CASE f \notin Members(w.files) /\ Len(w.files) >= q.maxFiles
  <2>1. v = [w EXCEPT !.cap = "maxFiles", !.pc = "done"]
    BY <1>5, HasIs DEF Offer
  <2>2. v \in ScopeTypes(q)
    BY <2>1 DEF ScopeTypes, Stages
  <2>3. OfferCuts(q, w, v)
    BY <1>5, <2>1 DEF OfferCuts, Same, ScopeTypes
  <2>. QED
    BY <1>2, <2>2, <2>3
<1>6. CASE f \notin Members(w.files) /\ ~(Len(w.files) >= q.maxFiles) /\ w.loc + q.size[f] > q.maxLoc
  <2>1. v = [w EXCEPT !.cap = "maxLoc", !.pc = "done"]
    BY <1>6, HasIs DEF Offer
  <2>2. v \in ScopeTypes(q)
    BY <2>1 DEF ScopeTypes, Stages
  <2>3. OfferCuts(q, w, v)
    BY <1>6, <2>1 DEF OfferCuts, Same, ScopeTypes
  <2>. QED
    BY <1>2, <2>2, <2>3
<1>7. CASE f \notin Members(w.files) /\ ~(Len(w.files) >= q.maxFiles) /\ ~(w.loc + q.size[f] > q.maxLoc)
  <2>1. v = [rest EXCEPT !.files = Append(@, f), !.loc = @ + q.size[f], !.next = Append(@, f),
                         !.seeds = IF w.pc = "together" THEN Append(@, f) ELSE @]
    BY <1>7, HasIs DEF Offer
  <2>2. /\ Append(w.files, f) \in Seq(Files) /\ Append(w.next, f) \in Seq(Files)
        /\ Append(w.seeds, f) \in Seq(Files) /\ w.loc + q.size[f] \in Nat
    BY <1>1, <1>2, <1>3
  <2>3. v \in ScopeTypes(q)
    BY <1>2, <2>1, <2>2 DEF ScopeTypes
  <2>4. Len(w.files) < q.maxFiles /\ w.loc + q.size[f] <= q.maxLoc
    BY <1>1, <1>3, <1>7
  <2>5. OfferTakes(q, w, v)
    BY <1>7, <2>1, <2>4 DEF OfferTakes, ScopeTypes
  <2>. QED
    BY <1>2, <2>3, <2>5
<1>. QED
  BY <1>4, <1>5, <1>6, <1>7

LEMMA SetAppend ==
  ASSUME NEW s \in Seq(Files), NEW f \in Files, IsSet(s), f \notin Members(s)
  PROVE  IsSet(Append(s, f))
<1>. DEFINE r == Append(s, f)
<1>1. /\ DOMAIN r = 1 .. (Len(s) + 1) /\ DOMAIN s = 1 .. Len(s) /\ Len(s) \in Nat
      /\ r[Len(s) + 1] = f /\ \A i \in 1 .. Len(s) : r[i] = s[i]
  OBVIOUS
<1>. HIDE DEF r
<1>2. \A i \in 1 .. Len(s) : s[i] \in Members(s)
  BY <1>1 DEF Members
<1>3. SUFFICES ASSUME NEW i \in DOMAIN r, NEW j \in DOMAIN r, r[i] = r[j] PROVE i = j
  BY DEF IsSet, r
<1>4. CASE i # Len(s) + 1 /\ j # Len(s) + 1
  <2>1. i \in DOMAIN s /\ j \in DOMAIN s /\ s[i] = s[j]
    BY <1>1, <1>3, <1>4
  <2>. QED
    BY <2>1 DEF IsSet
<1>5. CASE i = Len(s) + 1 /\ j # Len(s) + 1
  <2>1. j \in 1 .. Len(s) /\ s[j] = f
    BY <1>1, <1>3, <1>5
  <2>. QED
    BY <1>2, <2>1
<1>6. CASE i # Len(s) + 1 /\ j = Len(s) + 1
  <2>1. i \in 1 .. Len(s) /\ s[i] = f
    BY <1>1, <1>3, <1>6
  <2>. QED
    BY <1>2, <2>1
<1>. QED
  BY <1>1, <1>4, <1>5, <1>6

\* Whatever addFile does, the scope stays sound.
LEMMA OfferSound ==
  ASSUME NEW q \in AllRequests, NEW w \in ScopeTypes(q), w.todo # <<>>, w.pc # "done",
         Sound(q, w), w.pc = "together" => Head(w.todo) \in AllSeeds(q)
  PROVE  Sound(q, Offer(q, w))
<1>. DEFINE f == Head(w.todo)
            v == Offer(q, w)
<1>0. Head(w.todo) \in Files /\ \/ OfferKnows(w, v) \/ OfferCuts(q, w, v) \/ OfferTakes(q, w, v)
  BY Offered
<1>. SUFFICES Sound(q, v)
  OBVIOUS
<1>. HIDE DEF v
<1>1. CASE OfferKnows(w, v)
  BY <1>1 DEF OfferKnows, Same, Sound, WithinBudget
<1>2. CASE OfferCuts(q, w, v)
  BY <1>2 DEF OfferCuts, Same, Sound, WithinBudget
<1>3. CASE OfferTakes(q, w, v)
  <2>1. /\ w.files \in Seq(Files) /\ w.seeds \in Seq(Files) /\ q.size \in [Files -> Nat]
        /\ q.maxFiles \in Nat /\ q.maxLoc \in Nat /\ Len(w.files) \in Nat
    BY DEF ScopeTypes, AllRequests
  <2>2. f \notin Members(w.files) /\ v.files = Append(w.files, f) /\ v.loc = w.loc + q.size[f]
        /\ Len(w.files) < q.maxFiles /\ w.loc + q.size[f] <= q.maxLoc
        /\ v.seeds = (IF w.pc = "together" THEN Append(w.seeds, f) ELSE w.seeds)
        /\ v.cap = w.cap /\ v.pc = w.pc
    BY <1>3 DEF OfferTakes
  <2>3. Members(v.files) = Members(w.files) \cup {f} /\ Len(v.files) = Len(w.files) + 1
    BY <1>0, <2>1, <2>2, MembersAppend
  <2>4. IsSet(v.files) /\ Members(q.own) \subseteq Members(v.files)
    BY <1>0, <2>1, <2>2, <2>3, SetAppend DEF Sound
  <2>5. v.loc = LocOf(q.size, v.files)
    BY <1>0, <2>1, <2>2, LocOfMore DEF Sound
  <2>6. WithinBudget(q, v)
    BY <2>1, <2>2, <2>3, <2>5 DEF WithinBudget
  <2>7. CASE w.pc = "together"
    <3>1. Members(v.seeds) = Members(w.seeds) \cup {f}
      BY <1>0, <2>1, <2>2, <2>7, MembersAppend
    <3>. QED
      BY <2>2, <2>3, <2>4, <2>5, <2>6, <2>7, <3>1 DEF Sound
  <2>8. CASE w.pc # "together"
    BY <2>2, <2>3, <2>4, <2>5, <2>6, <2>8 DEF Sound
  <2>. QED
    BY <2>7, <2>8
<1>. QED
  BY <1>0, <1>1, <1>2, <1>3

\* A scope that a wanted file cuts is right about the reason.
LEMMA CutReason ==
  ASSUME NEW q \in AllRequests, NEW w \in ScopeTypes(q), NEW v, OfferCuts(q, w, v),
         Sound(q, w), Head(w.todo) \in Wanted(q)
  PROVE  CutForReason(q, v)
<1>1. w.loc = LocOf(q.size, w.files) /\ v.files = w.files
  BY DEF Sound, OfferCuts, Same
<1>. QED
  BY <1>1 DEF CutForReason, OfferCuts
-----------------------------------------------------------------------------
(* The start.                                                              *)

LEMMA BaseNear ==
  ASSUME NEW q \in AllRequests, NEW n \in 0 .. q.maxDepth
  PROVE  /\ Base(q) \subseteq Near(q, n) /\ Near(q, n) \subseteq Near(q, q.maxDepth)
         /\ Near(q, n) \subseteq Wanted(q)
<1>1. q.maxDepth \in Nat /\ n \in Nat /\ 0 <= n /\ n <= q.maxDepth
  BY DEF AllRequests
<1>2. Near(q, 0) \subseteq Near(q, n) /\ Near(q, n) \subseteq Near(q, q.maxDepth)
  BY <1>1, NearMore
<1>. QED
  BY <1>2, NearNone DEF Wanted

LEMMA NoneUp == \A n \in Nat : 0 \in 0 .. n /\ n \in 0 .. n
OBVIOUS

LEMMA StartGrows ==
  ASSUME NEW q \in AllRequests
  PROVE  Grows(q, StartScope(q))
<1>. DEFINE w == StartScope(q)
            loc == LocOf(q.size, q.own)
            cap == IF loc >= q.maxLoc THEN "maxLoc"
                   ELSE IF Len(q.own) >= q.maxFiles THEN "maxFiles" ELSE "none"
<1>1. /\ q.own \in Seq(Files) /\ q.seeds \in Seq(Files) /\ q.size \in [Files -> Nat]
      /\ q.maxDepth \in Nat /\ IsSet(q.own) /\ Members(q.own) \subseteq Members(q.seeds)
  BY DEF AllRequests
<1>2. loc \in Nat
  <2>1. PICK t \in [0 .. Len(q.own) -> Nat] : loc = t[Len(q.own)]
    BY <1>1, LocOfTotals
  <2>2. Len(q.own) \in 0 .. Len(q.own)
    BY <1>1
  <2>. QED
    BY <2>1, <2>2
<1>3. w = [pc |-> IF cap = "none" THEN "together" ELSE "done", files |-> q.own, loc |-> loc,
           cap |-> cap, seeds |-> q.seeds, ahead |-> q.seeds, todo |-> <<>>, next |-> <<>>,
           left |-> q.maxDepth]
  BY DEF StartScope
<1>4. cap \in {"none", "maxFiles", "maxLoc"}
  OBVIOUS
<1>5. /\ cap = "maxLoc" => loc >= q.maxLoc
      /\ cap = "maxFiles" => Len(q.own) >= q.maxFiles
  OBVIOUS
<1>. HIDE DEF w, loc, cap
<1>6. w \in ScopeTypes(q)
  <2>1. <<>> \in Seq(Files)
    OBVIOUS
  <2>. QED
    BY <1>1, <1>2, <1>3, <1>4, <2>1, NoneUp DEF ScopeTypes, Stages
<1>7. Sound(q, w)
  BY <1>1, <1>3 DEF Sound, WithinBudget, loc
<1>8. Members(w.files) \subseteq Base(q)
  BY <1>3 DEF Base
<1>9. w.pc = "together" => TogetherInv(q, w)
  BY <1>1, <1>3, <1>8, MembersEmpty DEF TogetherInv, Together
<1>10. ASSUME w.pc = "done" PROVE DoneInv(q, w)
  <2>1. Members(w.files) \subseteq Wanted(q) /\ NearestFirst(q, w)
    BY <1>1, <1>8, BaseNear, NoneUp DEF NearestFirst
  <2>2. CutForReason(q, w)
    BY <1>3, <1>4, <1>5, <1>10 DEF CutForReason, loc
  <2>. QED
    BY <2>1, <2>2 DEF DoneInv
<1>11. w.pc \in {"together", "done"}
  BY <1>3
<1>12. Grows(q, w)
  BY <1>6, <1>7, <1>9, <1>10, <1>11 DEF Grows
<1>. QED
  BY <1>12 DEF w
-----------------------------------------------------------------------------
(* What changed with the seeds.                                            *)

LEMMA SoundStays ==
  ASSUME NEW q, NEW w, NEW v, Sound(q, w), v.files = w.files, v.loc = w.loc,
         v.seeds = w.seeds, v.cap = w.cap, w.pc # "done"
  PROVE  Sound(q, v)
BY DEF Sound, WithinBudget

IsRead(q, w, lists, v) ==
  /\ Head(w.ahead) \in Files
  /\ Members(w.ahead) = {Head(w.ahead)} \cup Members(v.ahead)
  /\ v.todo = lists[Head(w.ahead)]
  /\ v \in ScopeTypes(q)
  /\ v.files = w.files /\ v.loc = w.loc /\ v.seeds = w.seeds /\ v.cap = w.cap
  /\ v.next = w.next /\ v.left = w.left /\ v.pc = w.pc

LEMMA ListRead ==
  ASSUME NEW q \in AllRequests, NEW w \in ScopeTypes(q), w.ahead # <<>>,
         NEW lists \in [Files -> Seq(Files)]
  PROVE  IsRead(q, w, lists, ReadList(w, lists))
<1>. DEFINE v == ReadList(w, lists)
<1>1. w.ahead \in Seq(Files)
  BY DEF ScopeTypes
<1>2. /\ Head(w.ahead) \in Files /\ Tail(w.ahead) \in Seq(Files)
      /\ Members(w.ahead) = {Head(w.ahead)} \cup Members(Tail(w.ahead))
  BY <1>1, MembersSplit
<1>3. lists[Head(w.ahead)] \in Seq(Files)
  BY <1>2
<1>4. v = [w EXCEPT !.todo = lists[Head(w.ahead)], !.ahead = Tail(w.ahead)]
  BY DEF ReadList
<1>. QED
  BY <1>2, <1>3, <1>4 DEF ScopeTypes, IsRead

LEMMA TogetherStep ==
  ASSUME NEW q, NEW w, Grows(q, w), w.pc = "together"
  PROVE  Grows(q, TogetherNext(q, w))
<1>1. /\ q \in AllRequests /\ w \in ScopeTypes(q) /\ Sound(q, w) /\ TogetherInv(q, w)
      /\ q.together \in [Files -> Seq(Files)] /\ q.maxDepth \in Nat
  BY DEF Grows, AllRequests
<1>2. Together(q) \subseteq AllSeeds(q) /\ Together(q) \subseteq Base(q)
  BY DEF Together, AllSeeds, Base
<1>3. CASE w.todo # <<>>
  <2>. DEFINE f == Head(w.todo)
              v == Offer(q, w)
  <2>1. TogetherNext(q, w) = v
    BY <1>3 DEF TogetherNext
  <2>2. /\ f \in Files /\ Members(w.todo) = {f} \cup Members(Tail(w.todo)) /\ v \in ScopeTypes(q)
        /\ \/ OfferKnows(w, v) \/ OfferCuts(q, w, v) \/ OfferTakes(q, w, v)
    BY <1>1, <1>3, Offered
  <2>3. f \in Together(q)
    BY <1>1, <2>2 DEF TogetherInv
  <2>4. Sound(q, v)
    BY <1>1, <1>2, <1>3, <2>3, OfferSound
  <2>. SUFFICES Grows(q, v)
    BY <2>1
  <2>. HIDE DEF v, f
  <2>5. CASE OfferKnows(w, v)
    <3>1. TogetherInv(q, v)
      BY <1>1, <2>2, <2>5 DEF TogetherInv, OfferKnows, Same, f
    <3>. QED
      BY <1>1, <2>2, <2>4, <2>5, <3>1 DEF Grows, OfferKnows
  <2>6. CASE OfferCuts(q, w, v)
    <3>1. f \in Wanted(q) /\ Members(v.files) \subseteq Base(q)
      BY <1>1, <1>2, <2>3, <2>6, BaseNear, NoneUp DEF OfferCuts, Same, TogetherInv
    <3>2. CutForReason(q, v)
      BY <1>1, <2>6, <3>1, CutReason DEF f
    <3>3. Members(v.files) \subseteq Wanted(q) /\ NearestFirst(q, v)
      BY <1>1, <3>1, BaseNear, NoneUp DEF NearestFirst
    <3>. QED
      BY <1>1, <2>2, <2>4, <2>6, <3>2, <3>3 DEF Grows, OfferCuts, DoneInv
  <2>7. CASE OfferTakes(q, w, v)
    <3>1. Members(v.files) = Members(w.files) \cup {f} /\ Members(v.seeds) = Members(w.seeds) \cup {f}
      <4>1. w.files \in Seq(Files) /\ w.seeds \in Seq(Files)
        BY <1>1 DEF ScopeTypes
      <4>2. v.files = Append(w.files, f) /\ v.seeds = Append(w.seeds, f)
        BY <2>7, w.pc = "together" DEF OfferTakes, f
      <4>. QED
        BY <2>2, <4>1, <4>2, MembersAppend
    <3>2. v.ahead = w.ahead /\ v.left = w.left /\ v.todo = Tail(w.todo) /\ v.pc = w.pc
      BY <2>7 DEF OfferTakes
    <3>3. TogetherInv(q, v)
      BY <1>1, <1>2, <2>2, <2>3, <3>1, <3>2 DEF TogetherInv, f
    <3>. QED
      BY <1>1, <2>2, <2>4, <3>2, <3>3 DEF Grows
  <2>. QED
    BY <2>2, <2>5, <2>6, <2>7
<1>4. CASE w.todo = <<>> /\ w.ahead # <<>>
  <2>. DEFINE v == ReadList(w, q.together)
              s == Head(w.ahead)
  <2>1. TogetherNext(q, w) = v
    BY <1>4 DEF TogetherNext
  <2>. SUFFICES Grows(q, v)
    BY <2>1
  <2>2. /\ s \in Files /\ Members(w.ahead) = {s} \cup Members(v.ahead)
        /\ v.todo = q.together[s] /\ v \in ScopeTypes(q)
        /\ v.files = w.files /\ v.loc = w.loc /\ v.seeds = w.seeds /\ v.cap = w.cap
        /\ v.next = w.next /\ v.left = w.left /\ v.pc = w.pc
    <3>1. IsRead(q, w, q.together, ReadList(w, q.together))
      BY <1>1, <1>4, ListRead
    <3>. QED
      BY <3>1 DEF IsRead
  <2>. HIDE DEF v, s
  <2>3. Sound(q, v)
    BY <1>1, <2>2, SoundStays
  <2>4. Listed(q.together, Members(w.ahead)) = Members(v.todo) \cup Listed(q.together, Members(v.ahead))
    BY <2>2 DEF Listed
  <2>5. Members(v.todo) \subseteq Together(q)
    BY <1>1, <2>2 DEF TogetherInv, Together, Listed
  <2>6. TogetherInv(q, v)
    BY <1>1, <1>4, <2>2, <2>4, <2>5, MembersEmpty DEF TogetherInv
  <2>. QED
    BY <1>1, <2>2, <2>3, <2>6 DEF Grows
<1>5. CASE w.todo = <<>> /\ w.ahead = <<>>
  <2>. DEFINE v == [w EXCEPT !.pc = "imports", !.next = w.files]
  <2>1. TogetherNext(q, w) = v
    BY <1>5 DEF TogetherNext
  <2>. SUFFICES Grows(q, v)
    BY <2>1
  <2>2. v \in ScopeTypes(q) /\ v.pc = "imports"
    BY <1>1 DEF ScopeTypes, Stages
  <2>3. /\ v.files = w.files /\ v.loc = w.loc /\ v.seeds = w.seeds /\ v.cap = w.cap
        /\ v.next = w.files /\ v.left = w.left /\ v.ahead = <<>> /\ v.todo = <<>>
    BY <1>1, <1>5 DEF ScopeTypes
  <2>. HIDE DEF v
  <2>4. Sound(q, v)
    BY <1>1, <2>3, SoundStays
  <2>5. Together(q) \subseteq Members(w.files)
    BY <1>1, <1>5, MembersEmpty DEF TogetherInv, Listed
  <2>6. Members(w.files) = Near(q, 0)
    <3>1. Members(q.own) \subseteq Members(w.files)
      BY <1>1 DEF Sound
    <3>. QED
      BY <1>1, <2>5, <3>1, NearNone DEF TogetherInv, Base, Together
  <2>7. Members(v.seeds) = AllSeeds(q)
    BY <1>1, <2>3, <2>5 DEF TogetherInv, Sound, AllSeeds, Together
  <2>8. q.maxDepth - v.left = 0
    BY <1>1, <2>3 DEF TogetherInv
  <2>9. ImportsInv(q, v)
    BY <2>3, <2>6, <2>7, <2>8, MembersEmpty DEF ImportsInv
  <2>. QED
    BY <1>1, <2>2, <2>4, <2>9 DEF Grows
<1>. QED
  BY <1>3, <1>4, <1>5
-----------------------------------------------------------------------------
(* The imports.                                                            *)

\* The rounds done are as many as the distance reached.
LEMMA RoundIs ==
  ASSUME NEW q \in AllRequests, NEW w \in ScopeTypes(q)
  PROVE  /\ w.left \in Nat /\ q.maxDepth \in Nat /\ q.maxDepth - w.left \in 0 .. q.maxDepth
         /\ q.imports \in [Files -> Seq(Files)] /\ q.importers \in [Files -> Seq(Files)]
BY DEF AllRequests, ScopeTypes

LEMMA ImportsOffer ==
  ASSUME NEW q, NEW w, Grows(q, w), w.pc = "imports", w.todo # <<>>
  PROVE  Grows(q, Offer(q, w))
<1>. DEFINE f == Head(w.todo)
            v == Offer(q, w)
            d == q.maxDepth - w.left
<1>1. q \in AllRequests /\ w \in ScopeTypes(q) /\ Sound(q, w) /\ ImportsInv(q, w)
  BY DEF Grows
<1>2. d \in 0 .. q.maxDepth /\ q.maxDepth \in Nat
  BY <1>1, RoundIs
<1>3. /\ f \in Files /\ Members(w.todo) = {f} \cup Members(Tail(w.todo)) /\ v \in ScopeTypes(q)
      /\ \/ OfferKnows(w, v) \/ OfferCuts(q, w, v) \/ OfferTakes(q, w, v)
  BY <1>1, Offered
<1>. HIDE DEF d, f
<1>4. /\ Members(w.seeds) = AllSeeds(q)
      /\ Near(q, 0) \subseteq Members(w.files) /\ Members(w.files) \subseteq Near(q, d)
      /\ d = 0 => Members(w.next) = Members(w.files) /\ w.ahead = <<>> /\ w.todo = <<>>
      /\ d > 0 => /\ Near(q, d - 1) \subseteq Members(w.files)
                  /\ Members(w.ahead) \subseteq Near(q, d - 1)
                  /\ Members(w.next) \cap Near(q, d - 1) = {}
      /\ Members(w.next) \subseteq Members(w.files) /\ Members(w.todo) \subseteq Near(q, d)
      /\ \A g \in Members(w.files) \ (Members(w.next) \cup Members(w.ahead)) :
           Members(q.imports[g]) \subseteq Members(w.files) \cup Members(w.todo)
  BY <1>1 DEF ImportsInv, d
<1>5. d > 0
  BY <1>2, <1>4
<1>6. f \in Near(q, d)
  BY <1>3, <1>4
<1>7. Sound(q, v)
  BY <1>1, OfferSound
<1>. SUFFICES Grows(q, v)
  OBVIOUS
<1>. HIDE DEF v
<1>8. CASE OfferKnows(w, v)
  <2>1. /\ f \in Members(w.files) /\ v.files = w.files /\ v.seeds = w.seeds /\ v.ahead = w.ahead
        /\ v.next = w.next /\ v.left = w.left /\ v.todo = Tail(w.todo) /\ v.pc = w.pc
    BY <1>8 DEF OfferKnows, Same, f
  <2>2. Members(w.todo) = {f} \cup Members(v.todo) /\ q.maxDepth - v.left = d
    BY <1>3, <2>1 DEF d
  <2>3. ImportsInv(q, v)
    BY <1>4, <1>5, <2>1, <2>2 DEF ImportsInv
  <2>. QED
    BY <1>1, <1>3, <1>7, <2>1, <2>3 DEF Grows
<1>9. CASE OfferCuts(q, w, v)
  <2>1. v.files = w.files /\ v.pc = "done"
    BY <1>9 DEF OfferCuts, Same
  <2>2. Near(q, d) \subseteq Wanted(q)
    BY <1>1, <1>2, BaseNear
  <2>3. CutForReason(q, v)
    BY <1>1, <1>6, <1>9, <2>2, CutReason DEF f
  <2>4. NearestFirst(q, v)
    <3>1. SUFFICES ASSUME NEW n \in 0 .. q.maxDepth
                   PROVE  \/ Near(q, n) \subseteq Members(v.files)
                          \/ Members(v.files) \subseteq Near(q, n)
      BY DEF NearestFirst
    <3>2. CASE n >= d
      <4>1. Near(q, d) \subseteq Near(q, n)
        BY <1>2, <3>2, NearMore
      <4>. QED
        BY <1>4, <2>1, <4>1
    <3>3. CASE n < d
      <4>1. n \in Nat /\ d - 1 \in Nat /\ n <= d - 1
        BY <1>2, <3>3
      <4>2. Near(q, n) \subseteq Near(q, d - 1)
        BY <4>1, NearMore
      <4>. QED
        BY <1>4, <1>5, <2>1, <4>2
    <3>. QED
      BY <1>2, <3>2, <3>3
  <2>5. DoneInv(q, v)
    BY <1>4, <2>1, <2>2, <2>3, <2>4 DEF DoneInv
  <2>. QED
    BY <1>1, <1>3, <1>7, <2>1, <2>5 DEF Grows
<1>10. CASE OfferTakes(q, w, v)
  <2>1. /\ f \notin Members(w.files) /\ v.files = Append(w.files, f) /\ v.next = Append(w.next, f)
        /\ v.seeds = w.seeds /\ v.ahead = w.ahead
        /\ v.left = w.left /\ v.todo = Tail(w.todo) /\ v.pc = w.pc
    BY <1>10, w.pc = "imports" DEF OfferTakes, f
  <2>2. Members(w.todo) = {f} \cup Members(v.todo) /\ q.maxDepth - v.left = d
    BY <1>3, <2>1 DEF d
  <2>3. Members(v.files) = Members(w.files) \cup {f} /\ Members(v.next) = Members(w.next) \cup {f}
    <3>1. w.files \in Seq(Files) /\ w.next \in Seq(Files)
      BY <1>1 DEF ScopeTypes
    <3>. QED
      BY <1>3, <2>1, <3>1, MembersAppend
  <2>4. ImportsInv(q, v)
    BY <1>4, <1>5, <1>6, <2>1, <2>2, <2>3 DEF ImportsInv
  <2>. QED
    BY <1>1, <1>3, <1>7, <2>1, <2>4 DEF Grows
<1>. QED
  BY <1>3, <1>8, <1>9, <1>10

LEMMA ImportsRead ==
  ASSUME NEW q, NEW w, Grows(q, w), w.pc = "imports", w.todo = <<>>, w.ahead # <<>>
  PROVE  Grows(q, ReadList(w, q.imports))
<1>. DEFINE v == ReadList(w, q.imports)
            s == Head(w.ahead)
            d == q.maxDepth - w.left
<1>1. q \in AllRequests /\ w \in ScopeTypes(q) /\ Sound(q, w) /\ ImportsInv(q, w)
  BY DEF Grows
<1>2. d \in 0 .. q.maxDepth /\ q.maxDepth \in Nat /\ q.imports \in [Files -> Seq(Files)]
  BY <1>1, RoundIs
<1>3. /\ s \in Files /\ Members(w.ahead) = {s} \cup Members(v.ahead)
      /\ v.todo = q.imports[s] /\ v \in ScopeTypes(q)
      /\ v.files = w.files /\ v.loc = w.loc /\ v.seeds = w.seeds /\ v.cap = w.cap
      /\ v.next = w.next /\ v.left = w.left /\ v.pc = w.pc
  <2>1. IsRead(q, w, q.imports, ReadList(w, q.imports))
    BY <1>1, <1>2, ListRead
  <2>. QED
    BY <2>1 DEF IsRead
<1>. SUFFICES Grows(q, v)
  OBVIOUS
<1>. HIDE DEF v, s, d
<1>4. Sound(q, v)
  BY <1>1, <1>3, SoundStays, w.pc = "imports"
<1>5. d > 0 /\ s \in Near(q, d - 1)
  BY <1>1, <1>2, <1>3 DEF ImportsInv, d
<1>6. Members(v.todo) \subseteq Near(q, d)
  <2>1. d - 1 \in Nat /\ (d - 1) + 1 = d
    BY <1>2, <1>5
  <2>. QED
    BY <1>1, <1>3, <1>5, <2>1, NearOn
<1>7. ImportsInv(q, v)
  <2>1. \A g \in Members(w.files) \ (Members(w.next) \cup Members(w.ahead)) :
          Members(q.imports[g]) \subseteq Members(w.files)
    BY <1>1, MembersEmpty DEF ImportsInv
  <2>2. \A g \in Members(v.files) \ (Members(v.next) \cup Members(v.ahead)) :
          Members(q.imports[g]) \subseteq Members(v.files) \cup Members(v.todo)
    <3>1. TAKE g \in Members(v.files) \ (Members(v.next) \cup Members(v.ahead))
    <3>2. CASE g = s
      BY <1>3, <3>2
    <3>3. CASE g # s
      BY <1>3, <2>1, <3>3
    <3>. QED
      BY <3>2, <3>3
  <2>3. q.maxDepth - v.left = d /\ d # 0
    BY <1>2, <1>3, <1>5 DEF d
  <2>. QED
    BY <1>1, <1>3, <1>6, <2>2, <2>3 DEF ImportsInv, d
<1>. QED
  BY <1>1, <1>3, <1>4, <1>7 DEF Grows

LEMMA ImportsEnd ==
  ASSUME NEW q, NEW w, Grows(q, w), w.pc = "imports", w.todo = <<>>, w.ahead = <<>>,
         w.left = 0 \/ w.next = <<>>
  PROVE  Grows(q, [w EXCEPT !.pc = "importers", !.ahead = w.seeds])
<1>. DEFINE v == [w EXCEPT !.pc = "importers", !.ahead = w.seeds]
            d == q.maxDepth - w.left
<1>1. q \in AllRequests /\ w \in ScopeTypes(q) /\ Sound(q, w) /\ ImportsInv(q, w)
  BY DEF Grows
<1>2. d \in 0 .. q.maxDepth /\ q.maxDepth \in Nat /\ w.left \in Nat
  BY <1>1, RoundIs
<1>3. v \in ScopeTypes(q) /\ v.pc = "importers"
  BY <1>1 DEF ScopeTypes, Stages
<1>4. /\ v.files = w.files /\ v.loc = w.loc /\ v.seeds = w.seeds /\ v.cap = w.cap
      /\ v.ahead = w.seeds /\ v.todo = <<>>
  BY <1>1 DEF ScopeTypes
<1>. HIDE DEF v, d
<1>5. Sound(q, v)
  BY <1>1, <1>4, SoundStays, w.pc = "imports"
<1>6. /\ Members(w.seeds) = AllSeeds(q) /\ Near(q, 0) \subseteq Members(w.files)
      /\ Members(w.files) \subseteq Near(q, d)
      /\ d = 0 => Members(w.next) = Members(w.files)
      /\ d > 0 => /\ Near(q, d - 1) \subseteq Members(w.files)
                  /\ Members(w.next) \cap Near(q, d - 1) = {}
      /\ \A g \in Members(w.files) \ Members(w.next) : Members(q.imports[g]) \subseteq Members(w.files)
  BY <1>1, MembersEmpty DEF ImportsInv, d
<1>7. Near(q, q.maxDepth) \subseteq Members(w.files)
  <2>1. CASE w.next = <<>>
    BY <1>1, <1>2, <1>6, <2>1, MembersEmpty, NearClosed
  <2>2. CASE w.left = 0 /\ d = 0
    BY <1>2, <1>6, <2>2 DEF d
  <2>3. CASE w.left = 0 /\ d > 0
    <3>1. d = q.maxDepth /\ d - 1 \in Nat /\ (d - 1) + 1 = d
      BY <1>2, <2>3 DEF d
    <3>2. ASSUME NEW g \in Near(q, d), g \notin Near(q, 0) PROVE g \in Members(w.files)
      <4>1. PICK f \in Near(q, d - 1) : g \in Members(q.imports[f])
        BY <1>1, <3>1, <3>2, NearBack
      <4>2. f \in Members(w.files) \ Members(w.next)
        BY <1>6, <2>3, <4>1
      <4>. QED
        BY <1>6, <4>1, <4>2
    <3>. QED
      BY <1>6, <3>1, <3>2
  <2>. QED
    BY <1>2, <2>1, <2>2, <2>3
<1>8. Members(w.files) \subseteq Wanted(q)
  BY <1>1, <1>2, <1>6, BaseNear
<1>9. ImportersInv(q, v)
  BY <1>4, <1>6, <1>7, <1>8, MembersEmpty DEF ImportersInv
<1>10. Grows(q, v)
  BY <1>1, <1>3, <1>5, <1>9 DEF Grows
<1>. QED
  BY <1>10 DEF v

LEMMA ImportsRound ==
  ASSUME NEW q, NEW w, Grows(q, w), w.pc = "imports", w.todo = <<>>, w.ahead = <<>>,
         w.left # 0
  PROVE  Grows(q, [w EXCEPT !.left = @ - 1, !.ahead = w.next, !.next = <<>>])
<1>. DEFINE v == [w EXCEPT !.left = @ - 1, !.ahead = w.next, !.next = <<>>]
            d == q.maxDepth - w.left
<1>1. q \in AllRequests /\ w \in ScopeTypes(q) /\ Sound(q, w) /\ ImportsInv(q, w)
  BY DEF Grows
<1>2. d \in 0 .. q.maxDepth /\ q.maxDepth \in Nat /\ w.left \in Nat
  BY <1>1, RoundIs
<1>3. v \in ScopeTypes(q) /\ v.pc = "imports"
  <2>1. w.left - 1 \in 0 .. q.maxDepth /\ <<>> \in Seq(Files)
    BY <1>1, <1>2 DEF ScopeTypes
  <2>. QED
    BY <1>1, <2>1, w.pc = "imports" DEF ScopeTypes
<1>4. /\ v.files = w.files /\ v.loc = w.loc /\ v.seeds = w.seeds /\ v.cap = w.cap
      /\ v.left = w.left - 1 /\ v.ahead = w.next /\ v.next = <<>> /\ v.todo = <<>>
  BY <1>1 DEF ScopeTypes
<1>5. q.maxDepth - v.left = d + 1 /\ d + 1 > 0 /\ (d + 1) - 1 = d /\ d + 1 # 0 /\ d \in Nat
  BY <1>2, <1>4
<1>. HIDE DEF v, d
<1>6. Sound(q, v)
  BY <1>1, <1>4, SoundStays, w.pc = "imports"
<1>7. /\ Members(w.seeds) = AllSeeds(q) /\ Near(q, 0) \subseteq Members(w.files)
      /\ Members(w.files) \subseteq Near(q, d) /\ Members(w.next) \subseteq Members(w.files)
      /\ d = 0 => Members(w.next) = Members(w.files)
      /\ d > 0 => /\ Near(q, d - 1) \subseteq Members(w.files)
                  /\ Members(w.next) \cap Near(q, d - 1) = {}
      /\ \A g \in Members(w.files) \ Members(w.next) : Members(q.imports[g]) \subseteq Members(w.files)
  BY <1>1, MembersEmpty DEF ImportsInv, d
<1>8. Near(q, d) \subseteq Members(w.files)
  <2>1. CASE d = 0
    BY <1>7, <2>1
  <2>2. CASE d > 0
    <3>1. d - 1 \in Nat /\ (d - 1) + 1 = d
      BY <1>2, <2>2
    <3>2. ASSUME NEW g \in Near(q, d), g \notin Near(q, 0) PROVE g \in Members(w.files)
      <4>1. PICK f \in Near(q, d - 1) : g \in Members(q.imports[f])
        BY <1>1, <3>1, <3>2, NearBack
      <4>2. f \in Members(w.files) \ Members(w.next)
        BY <1>7, <2>2, <4>1
      <4>. QED
        BY <1>7, <4>1, <4>2
    <3>. QED
      BY <1>7, <3>2
  <2>. QED
    BY <1>5, <2>1, <2>2
<1>9. Near(q, d) \subseteq Near(q, d + 1)
  BY <1>5, NearMore
<1>10. ImportsInv(q, v)
  BY <1>4, <1>5, <1>7, <1>8, <1>9, MembersEmpty DEF ImportsInv
<1>11. Grows(q, v)
  BY <1>1, <1>3, <1>6, <1>10 DEF Grows
<1>. QED
  BY <1>11 DEF v

LEMMA ImportsStep ==
  ASSUME NEW q, NEW w, Grows(q, w), w.pc = "imports"
  PROVE  Grows(q, ImportsNext(q, w))
BY ImportsOffer, ImportsRead, ImportsEnd, ImportsRound DEF ImportsNext
-----------------------------------------------------------------------------
(* The importers.                                                          *)

LEMMA ImportersStep ==
  ASSUME NEW q, NEW w, Grows(q, w), w.pc = "importers"
  PROVE  Grows(q, ImportersNext(q, w))
<1>1. q \in AllRequests /\ w \in ScopeTypes(q) /\ Sound(q, w) /\ ImportersInv(q, w)
  BY DEF Grows
<1>2. q.importers \in [Files -> Seq(Files)] /\ q.maxDepth \in Nat
  BY <1>1, RoundIs
<1>3. /\ Members(w.seeds) = AllSeeds(q)
      /\ Near(q, q.maxDepth) \subseteq Members(w.files) /\ Members(w.files) \subseteq Wanted(q)
      /\ Members(w.ahead) \subseteq AllSeeds(q) /\ Members(w.todo) \subseteq Wanted(q)
      /\ \A s \in AllSeeds(q) \ Members(w.ahead) :
           Members(q.importers[s]) \subseteq Members(w.files) \cup Members(w.todo)
  BY <1>1 DEF ImportersInv
<1>4. \A n \in 0 .. q.maxDepth : Near(q, n) \subseteq Members(w.files)
  BY <1>1, <1>3, BaseNear
<1>5. CASE w.todo # <<>>
  <2>. DEFINE f == Head(w.todo)
              v == Offer(q, w)
  <2>1. ImportersNext(q, w) = v
    BY <1>5 DEF ImportersNext
  <2>2. /\ f \in Files /\ Members(w.todo) = {f} \cup Members(Tail(w.todo)) /\ v \in ScopeTypes(q)
        /\ \/ OfferKnows(w, v) \/ OfferCuts(q, w, v) \/ OfferTakes(q, w, v)
    BY <1>1, <1>5, Offered
  <2>3. Sound(q, v)
    BY <1>1, <1>5, OfferSound, w.pc = "importers"
  <2>. SUFFICES Grows(q, v)
    BY <2>1
  <2>. HIDE DEF v, f
  <2>4. CASE OfferKnows(w, v)
    <3>1. /\ f \in Members(w.files) /\ v.files = w.files /\ v.seeds = w.seeds /\ v.ahead = w.ahead
          /\ v.todo = Tail(w.todo) /\ v.pc = w.pc
      BY <2>4 DEF OfferKnows, Same, f
    <3>2. ImportersInv(q, v)
      BY <1>3, <2>2, <3>1 DEF ImportersInv
    <3>. QED
      BY <1>1, <2>2, <2>3, <3>1, <3>2 DEF Grows
  <2>5. CASE OfferCuts(q, w, v)
    <3>1. v.files = w.files /\ v.pc = "done"
      BY <2>5 DEF OfferCuts, Same
    <3>2. CutForReason(q, v)
      BY <1>1, <1>3, <2>2, <2>5, CutReason DEF f
    <3>3. DoneInv(q, v)
      BY <1>3, <1>4, <3>1, <3>2 DEF DoneInv, NearestFirst
    <3>. QED
      BY <1>1, <2>2, <2>3, <3>1, <3>3 DEF Grows
  <2>6. CASE OfferTakes(q, w, v)
    <3>1. /\ v.files = Append(w.files, f) /\ v.seeds = w.seeds /\ v.ahead = w.ahead
          /\ v.todo = Tail(w.todo) /\ v.pc = w.pc
      BY <2>6, w.pc = "importers" DEF OfferTakes, f
    <3>2. Members(v.files) = Members(w.files) \cup {f}
      <4>1. w.files \in Seq(Files)
        BY <1>1 DEF ScopeTypes
      <4>. QED
        BY <2>2, <3>1, <4>1, MembersAppend
    <3>3. ImportersInv(q, v)
      BY <1>3, <2>2, <3>1, <3>2 DEF ImportersInv
    <3>. QED
      BY <1>1, <2>2, <2>3, <3>1, <3>3 DEF Grows
  <2>. QED
    BY <2>2, <2>4, <2>5, <2>6
<1>6. CASE w.todo = <<>> /\ w.ahead # <<>>
  <2>. DEFINE v == ReadList(w, q.importers)
              s == Head(w.ahead)
  <2>1. ImportersNext(q, w) = v
    BY <1>6 DEF ImportersNext
  <2>. SUFFICES Grows(q, v)
    BY <2>1
  <2>2. /\ s \in Files /\ Members(w.ahead) = {s} \cup Members(v.ahead)
        /\ v.todo = q.importers[s] /\ v \in ScopeTypes(q)
        /\ v.files = w.files /\ v.loc = w.loc /\ v.seeds = w.seeds /\ v.cap = w.cap
        /\ v.next = w.next /\ v.left = w.left /\ v.pc = w.pc
    <3>1. IsRead(q, w, q.importers, ReadList(w, q.importers))
      BY <1>1, <1>2, <1>6, ListRead
    <3>. QED
      BY <3>1 DEF IsRead
  <2>. HIDE DEF v, s
  <2>3. Sound(q, v)
    BY <1>1, <2>2, SoundStays, w.pc = "importers"
  <2>4. Members(v.todo) \subseteq Wanted(q)
    BY <1>3, <2>2, ListedIs DEF Wanted
  <2>5. \A t \in AllSeeds(q) \ Members(v.ahead) :
          Members(q.importers[t]) \subseteq Members(v.files) \cup Members(v.todo)
    <3>1. TAKE t \in AllSeeds(q) \ Members(v.ahead)
    <3>2. CASE t = s
      BY <2>2, <3>2
    <3>3. CASE t # s
      BY <1>3, <1>6, <2>2, <3>3, MembersEmpty
    <3>. QED
      BY <3>2, <3>3
  <2>6. ImportersInv(q, v)
    BY <1>3, <2>2, <2>4, <2>5 DEF ImportersInv
  <2>. QED
    BY <1>1, <2>2, <2>3, <2>6 DEF Grows
<1>7. CASE w.todo = <<>> /\ w.ahead = <<>>
  <2>. DEFINE v == [w EXCEPT !.pc = "done"]
  <2>1. ImportersNext(q, w) = v
    BY <1>7 DEF ImportersNext
  <2>. SUFFICES Grows(q, v)
    BY <2>1
  <2>2. /\ v \in ScopeTypes(q) /\ v.pc = "done"
        /\ v.files = w.files /\ v.loc = w.loc /\ v.seeds = w.seeds /\ v.cap = w.cap
    BY <1>1 DEF ScopeTypes, Stages
  <2>. HIDE DEF v
  <2>3. Sound(q, v)
    BY <1>1, <2>2, SoundStays, w.pc = "importers"
  <2>4. Wanted(q) \subseteq Members(w.files)
    BY <1>3, <1>7, MembersEmpty, ListedIs DEF Wanted
  <2>5. v.cap = "none"
    BY <1>1, <2>2, w.pc = "importers" DEF Sound
  <2>6. DoneInv(q, v)
    BY <1>3, <1>4, <2>2, <2>4, <2>5 DEF DoneInv, CutForReason, NearestFirst
  <2>. QED
    BY <1>1, <2>2, <2>3, <2>6 DEF Grows
<1>. QED
  BY <1>5, <1>6, <1>7
-----------------------------------------------------------------------------
(* For every repository, request and budget: resolveScope's files are the  *)
(* ones asked for, or as many as fit, the nearest first.                   *)

LEMMA GrowthInvStep == GrowthInv /\ [GrowthNext]_scopeVars => GrowthInv'
<1>. SUFFICES ASSUME GrowthInv, [GrowthNext]_scopeVars PROVE GrowthInv'
  OBVIOUS
<1>1. CASE GrowTogether
  BY <1>1, TogetherStep DEF GrowthInv, GrowTogether
<1>2. CASE GrowImports
  BY <1>2, ImportsStep DEF GrowthInv, GrowImports
<1>3. CASE GrowImporters
  BY <1>3, ImportersStep DEF GrowthInv, GrowImporters
<1>4. CASE UNCHANGED scopeVars
  BY <1>4 DEF GrowthInv, scopeVars
<1>. QED
  BY <1>1, <1>2, <1>3, <1>4 DEF GrowthNext

\* A scope holds what its request names, what changed with that, what these
\* import up to the depth asked for and what imports the seeds: all of it, or
\* as much as the budget allows, and then nothing farther for what is nearer.
THEOREM ScopesAreExact == GrowthSpec => []ScopeExact
<1>1. GrowthInit => GrowthInv
  <2>1. Requests \subseteq AllRequests
    BY RequestsAssumption DEF AllRequests
  <2>. QED
    BY <2>1, StartGrows DEF GrowthInit, GrowthInv
<1>2. GrowthInv => ScopeExact
  BY DEF GrowthInv, Grows, Sound, DoneInv, ScopeExact
<1>. QED
  BY <1>1, <1>2, GrowthInvStep, PTL DEF GrowthSpec
=============================================================================
