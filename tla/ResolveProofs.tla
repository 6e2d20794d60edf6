---------------------------- MODULE ResolveProofs ----------------------------
(***************************************************************************)
(* What inserting, deleting and resolving do to a graph, for any code: they *)
(* keep its shape, and a link never points but to a symbol that is there    *)
(* and that the call's own file gives grounds for.                         *)
(***************************************************************************)
EXTENDS Resolve, FiniteSetTheorems, TLAPS

\* One link for every call of an indexed file.
Graph(d) ==
  /\ d = [rows |-> d.rows, bare |-> d.bare, link |-> d.link]
  /\ d.rows \in [Paths -> Versions \cup {None}]
  /\ d.bare \subseteq Indexed(d)
  /\ DOMAIN d.link = Edges(d.rows)
  /\ \A e \in DOMAIN d.link : "to" \in DOMAIN d.link[e]

Grounded(d) ==
  \A e \in DOMAIN d.link : d.link[e].to # None => d.link[e].to \in Grounds(d, e)

\* e's link is as in d, or one to what gives grounds for it where d has none.
Kept(d, e, to) ==
  to = d.link[e].to \/ (d.link[e].to = None /\ to \in Grounds(d, e))

\* n is d with some unresolved edges resolved.
Relinks(d, n) ==
  /\ n = [rows |-> d.rows, bare |-> d.bare, link |-> n.link]
  /\ DOMAIN n.link = DOMAIN d.link
  /\ \A e \in DOMAIN n.link :
       /\ "to" \in DOMAIN n.link[e]
       /\ Kept(d, e, n.link[e].to)

\* Symbols and grounds depend on the rows only.
LEMMA RowsDecide ==
  ASSUME NEW d, NEW n, n.rows = d.rows, n.bare = d.bare
  PROVE  /\ Indexed(n) = Indexed(d) /\ Symbols(n) = Symbols(d)
         /\ \A e : Grounds(n, e) = Grounds(d, e)
<1>1. Indexed(n) = Indexed(d) /\ \A p : FileSyms(n, p) = FileSyms(d, p)
  BY DEF Indexed, FileSyms
<1>2. Symbols(n) = Symbols(d)
  BY <1>1 DEF Symbols
<1>3. \A e : ImportsOf(n, e) = ImportsOf(d, e)
  BY DEF ImportsOf
<1> QED  BY <1>1, <1>2, <1>3 DEF Grounds

\* Relinking keeps a graph a graph, and its links grounded.
LEMMA RelinksKeeps ==
  ASSUME NEW d, NEW n, Graph(d), Relinks(d, n)
  PROVE  Graph(n) /\ n.rows = d.rows /\ (Grounded(d) => Grounded(n))
<1>1. n.rows = d.rows /\ n.bare = d.bare
  BY DEF Relinks
<1>2. Graph(n)
  BY <1>1, RowsDecide DEF Graph, Relinks
<1>3. ASSUME Grounded(d) PROVE Grounded(n)
  <2> SUFFICES ASSUME NEW e \in DOMAIN n.link, n.link[e].to # None
               PROVE  n.link[e].to \in Grounds(n, e)
    BY DEF Grounded
  <2>1. e \in DOMAIN d.link
    BY DEF Relinks
  <2>2. n.link[e].to \in Grounds(d, e)
    BY <1>3, <2>1 DEF Relinks, Kept, Grounded
  <2> QED  BY <1>1, <2>2, RowsDecide
<1> QED  BY <1>1, <1>2, <1>3

\* A set with one element has the element that is chosen from it.
LEMMA TheOne ==
  ASSUME NEW S, Cardinality(S) = 1
  PROVE  (CHOOSE s \in S : TRUE) \in S
<1>1. S # {}
  BY FS_EmptySet
<1> QED  BY <1>1

\* A pass gives the graph other links.
LEMMA NewLinks ==
  ASSUME NEW d, Graph(d), NEW L, DOMAIN L = DOMAIN d.link,
         \A e \in DOMAIN L : /\ "to" \in DOMAIN L[e]
                             /\ Kept(d, e, L[e].to)
  PROVE  Relinks(d, [d EXCEPT !.link = L])
<1>1. [d EXCEPT !.link = L] = [rows |-> d.rows, bare |-> d.bare, link |-> L]
  BY DEF Graph
<1> QED  BY <1>1 DEF Relinks

\* Passes compose.
LEMMA RelinksTransitive ==
  ASSUME NEW d, NEW n, NEW m, Graph(d), Relinks(d, n), Relinks(n, m)
  PROVE  Relinks(d, m)
<1>1. \A e : Grounds(n, e) = Grounds(d, e)
  BY RowsDecide DEF Relinks
<1> QED  BY <1>1 DEF Relinks, Kept
-----------------------------------------------------------------------------
\* Each pass only moves links to symbols their file gives grounds for.  A
\* symbol of the same file with the called name is one.
LEMMA SameFileRelinks ==
  ASSUME NEW d, Graph(d) PROVE Relinks(d, SameFile(d))
<1> DEFINE C(e) == {s \in Symbols(d) : s.path = e.path /\ s.sym.name = e.call.name}
           L == [e \in DOMAIN d.link |->
                   IF e \in Unresolved(d) /\ Cardinality(C(e)) = 1
                   THEN [d.link[e] EXCEPT !.to = CHOOSE s \in C(e) : TRUE]
                   ELSE d.link[e]]
<1>1. SameFile(d) = [d EXCEPT !.link = L]
  BY DEF SameFile, Bind
<1>2. \A e : C(e) \subseteq Grounds(d, e)
  BY DEF Grounds
<1>3. ASSUME NEW e \in DOMAIN L
      PROVE  "to" \in DOMAIN L[e] /\ Kept(d, e, L[e].to)
  <2> HIDE DEF C
  <2> QED  BY <1>2, <1>3, TheOne DEF Graph, Kept, Unresolved
<1> HIDE DEF L
<1>4. DOMAIN L = DOMAIN d.link
  BY DEF L
<1> QED  BY <1>1, <1>3, <1>4, NewLinks

\* A method of the caller's own class has the called name.
LEMMA OwnClassRelinks ==
  ASSUME NEW d, Graph(d) PROVE Relinks(d, OwnClass(d))
<1> DEFINE L == [e \in DOMAIN d.link |->
                   IF e \in {x \in UnresolvedCalls(d) : x.call.in # None} /\ Cardinality(OwnMethods(d, e)) = 1
                   THEN [d.link[e] EXCEPT !.to = CHOOSE s \in OwnMethods(d, e) : TRUE, !.conf = 10]
                   ELSE d.link[e]]
<1>1. OwnClass(d) = [d EXCEPT !.link = L]
  BY DEF OwnClass, Bind
<1>2. \A e : OwnMethods(d, e) \subseteq Grounds(d, e)
  BY DEF Grounds, OwnMethods
<1>3. ASSUME NEW e \in DOMAIN L
      PROVE  "to" \in DOMAIN L[e] /\ Kept(d, e, L[e].to)
  BY <1>2, <1>3, TheOne DEF Graph, Kept, UnresolvedCalls, Unresolved
<1> HIDE DEF L
<1>4. DOMAIN L = DOMAIN d.link
  BY DEF L
<1> QED  BY <1>1, <1>3, <1>4, NewLinks

\* So has the only method of that name.
LEMMA OnlyMethodRelinks ==
  ASSUME NEW d, Graph(d) PROVE Relinks(d, OnlyMethod(d))
<1> DEFINE L == [e \in DOMAIN d.link |->
                   IF e \in {x \in UnresolvedCalls(d) : x.call.in # None /\ OwnMethods(d, x) = {}} /\ Cardinality(AllMethods(d, e)) = 1
                   THEN [d.link[e] EXCEPT !.to = CHOOSE s \in AllMethods(d, e) : TRUE, !.conf = 7]
                   ELSE d.link[e]]
<1>1. OnlyMethod(d) = [d EXCEPT !.link = L]
  BY DEF OnlyMethod, Bind
<1>2. \A e : AllMethods(d, e) \subseteq Grounds(d, e)
  BY DEF Grounds, AllMethods
<1>3. ASSUME NEW e \in DOMAIN L
      PROVE  "to" \in DOMAIN L[e] /\ Kept(d, e, L[e].to)
  BY <1>2, <1>3, TheOne DEF Graph, Kept, UnresolvedCalls, Unresolved
<1> HIDE DEF L
<1>4. DOMAIN L = DOMAIN d.link
  BY DEF L
<1> QED  BY <1>1, <1>3, <1>4, NewLinks

\* An import names the file and the symbol it finds.
LEMMA ViaImportsRelinks ==
  ASSUME NEW d, Graph(d) PROVE Relinks(d, ViaImports(d))
<1> DEFINE L == [e \in DOMAIN d.link |->
                   IF e \in Unresolved(d) /\ Cardinality(Imported(d, e)) = 1
                   THEN [d.link[e] EXCEPT !.to = CHOOSE s \in Imported(d, e) : TRUE, !.conf = 10]
                   ELSE d.link[e]]
<1>1. ViaImports(d) = [d EXCEPT !.link = L]
  BY DEF ViaImports, Bind
<1>2. \A e : Imported(d, e) \subseteq Grounds(d, e)
  BY DEF Grounds, Imported, IsTarget
<1>3. ASSUME NEW e \in DOMAIN L
      PROVE  "to" \in DOMAIN L[e] /\ Kept(d, e, L[e].to)
  BY <1>2, <1>3, TheOne DEF Graph, Kept, UnresolvedCalls, Unresolved
<1> HIDE DEF L
<1>4. DOMAIN L = DOMAIN d.link
  BY DEF L
<1> QED  BY <1>1, <1>3, <1>4, NewLinks

\* A method of the receiver's class has the called name.
LEMMA ReceiverTypesRelinks ==
  ASSUME NEW d, Graph(d), NEW disk PROVE Relinks(d, ReceiverTypes(d, disk))
<1> DEFINE L == [e \in DOMAIN d.link |->
                   IF e \in {x \in UnresolvedCalls(d) : /\ d.link[x].why = "instance_method"
                                    /\ x.call.recv # None /\ LineHolds(disk, x)} /\ Cardinality(OfReceiver(d, e)) = 1
                   THEN [d.link[e] EXCEPT !.to = CHOOSE s \in OfReceiver(d, e) : TRUE, !.conf = 8, !.why = None]
                   ELSE d.link[e]]
<1>1. ReceiverTypes(d, disk) = [d EXCEPT !.link = L]
  BY DEF ReceiverTypes, Bind
<1>2. \A e : OfReceiver(d, e) \subseteq Grounds(d, e)
  BY DEF Grounds, OfReceiver
<1>3. ASSUME NEW e \in DOMAIN L
      PROVE  "to" \in DOMAIN L[e] /\ Kept(d, e, L[e].to)
  BY <1>2, <1>3, TheOne DEF Graph, Kept, UnresolvedCalls, Unresolved
<1> HIDE DEF L
<1>4. DOMAIN L = DOMAIN d.link
  BY DEF L
<1> QED  BY <1>1, <1>3, <1>4, NewLinks

\* Lowering a confidence moves no link,
LEMMA DemoteRelinks ==
  ASSUME NEW d, Graph(d) PROVE Relinks(d, Demote(d))
<1> DEFINE L == [e \in DOMAIN d.link |->
                   IF e \in UnresolvedCalls(d) /\ d.link[e].conf > 5
                   THEN [d.link[e] EXCEPT !.conf = 5]
                   ELSE d.link[e]]
<1>1. Demote(d) = [d EXCEPT !.link = L]
  BY DEF Demote
<1>2. \A e \in DOMAIN L : "to" \in DOMAIN L[e] /\ L[e].to = d.link[e].to
  BY DEF Graph
<1> HIDE DEF L
<1>3. DOMAIN L = DOMAIN d.link
  BY DEF L
<1> QED  BY <1>1, <1>2, <1>3, NewLinks DEF Kept

\* nor does classifying one,
LEMMA ClassifyRelinks ==
  ASSUME NEW d, Graph(d), NEW disk PROVE Relinks(d, Classify(d, disk))
<1> DEFINE L == [e \in DOMAIN d.link |->
                   IF e \in UnresolvedCalls(d)
                   THEN [d.link[e] EXCEPT !.why = Reason(d, disk, e)]
                   ELSE d.link[e]]
<1>1. Classify(d, disk) = [d EXCEPT !.link = L]
  BY DEF Classify
<1>2. \A e \in DOMAIN L : "to" \in DOMAIN L[e] /\ L[e].to = d.link[e].to
  BY DEF Graph
<1> HIDE DEF L
<1>3. DOMAIN L = DOMAIN d.link
  BY DEF L
<1> QED  BY <1>1, <1>2, <1>3, NewLinks DEF Kept

\* nor naming the source of an argument.
LEMMA ArgSourcesRelinks ==
  ASSUME NEW d, Graph(d) PROVE Relinks(d, ArgSources(d))
<1> DEFINE L == [e \in DOMAIN d.link |->
                   IF e.call.arg # None /\ d.link[e].arg = None /\ Source(d, e) # {}
                   THEN [d.link[e] EXCEPT !.arg = CHOOSE s \in Source(d, e) : TRUE]
                   ELSE d.link[e]]
<1>1. ArgSources(d) = [d EXCEPT !.link = L]
  BY DEF ArgSources
<1>2. \A e \in DOMAIN L : "to" \in DOMAIN L[e] /\ L[e].to = d.link[e].to
  BY DEF Graph
<1> HIDE DEF L
<1>3. DOMAIN L = DOMAIN d.link
  BY DEF L
<1> QED  BY <1>1, <1>2, <1>3, NewLinks DEF Kept
-----------------------------------------------------------------------------
\* resolveEdges as a whole: its passes one after the other.
THEOREM ResolveRelinks ==
  ASSUME NEW d, Graph(d), NEW disk PROVE Relinks(d, ResolveEdges(d, disk))
<1> DEFINE d1 == SameFile(d)
           d2 == OwnClass(d1)
           d3 == OnlyMethod(d2)
           d4 == ViaImports(d3)
           d5 == Demote(d4)
           d6 == Classify(d5, disk)
           d7 == ReceiverTypes(d6, disk)
           d8 == ArgSources(d7)
<1>1. ResolveEdges(d, disk) = d8
  BY DEF ResolveEdges, Pass
<1> HIDE DEF d1, d2, d3, d4, d5, d6, d7, d8
<1>2. Relinks(d, d1) /\ Graph(d1)
  BY SameFileRelinks, RelinksKeeps DEF d1
<1>3. Relinks(d, d2) /\ Graph(d2)
  BY <1>2, OwnClassRelinks, RelinksKeeps, RelinksTransitive DEF d2
<1>4. Relinks(d, d3) /\ Graph(d3)
  BY <1>3, OnlyMethodRelinks, RelinksKeeps, RelinksTransitive DEF d3
<1>5. Relinks(d, d4) /\ Graph(d4)
  BY <1>4, ViaImportsRelinks, RelinksKeeps, RelinksTransitive DEF d4
<1>6. Relinks(d, d5) /\ Graph(d5)
  BY <1>5, DemoteRelinks, RelinksKeeps, RelinksTransitive DEF d5
<1>7. Relinks(d, d6) /\ Graph(d6)
  BY <1>6, ClassifyRelinks, RelinksKeeps, RelinksTransitive DEF d6
<1>8. Relinks(d, d7) /\ Graph(d7)
  BY <1>7, ReceiverTypesRelinks, RelinksKeeps, RelinksTransitive DEF d7
<1>9. Relinks(d, d8)
  BY <1>8, ArgSourcesRelinks, RelinksTransitive DEF d8
<1> QED  BY <1>1, <1>9
-----------------------------------------------------------------------------
\* The members of Symbols and Edges.
LEMMA SymbolsOf ==
  ASSUME NEW d, NEW s
  PROVE  s \in Symbols(d) <=> \E q \in Indexed(d) : \E x \in FileSyms(d, q) :
                                 s = [path |-> q, sym |-> x]
BY DEF Symbols

\* An edge is a call of a file that has rows.
LEMMA EdgesOf ==
  ASSUME NEW rows, NEW e
  PROVE  e \in Edges(rows) <=> \E q \in DOMAIN rows : /\ rows[q] # None
                                 /\ \E c \in Code[rows[q]].calls : e = [path |-> q, call |-> c]
BY DEF Edges

\* The file of an edge and that of a symbol are indexed.
LEMMA PathsIndexed ==
  ASSUME NEW d, Graph(d)
  PROVE  /\ \A e \in DOMAIN d.link : e.path \in Indexed(d)
         /\ \A s \in Symbols(d) : s.path \in Indexed(d)
<1>1. ASSUME NEW e \in DOMAIN d.link PROVE e.path \in Indexed(d)
  BY EdgesOf DEF Graph, Indexed
<1>2. ASSUME NEW s \in Symbols(d) PROVE s.path \in Indexed(d)
  BY SymbolsOf
<1> QED  BY <1>1, <1>2

\* Grounds remain while the rows of both files do.
LEMMA GroundsRemain ==
  ASSUME NEW d, NEW n, NEW e, NEW s, s \in Grounds(d, e),
         n.rows[e.path] = d.rows[e.path], n.rows[s.path] = d.rows[s.path],
         s.path \in n.bare <=> s.path \in d.bare
  PROVE  s \in Grounds(n, e)
<1>1. PICK q \in Indexed(d) : \E x \in FileSyms(d, q) : s = [path |-> q, sym |-> x]
  BY SymbolsOf DEF Grounds
<1>2. s.path = q
  BY <1>1
<1>3. q \in Indexed(n) /\ FileSyms(n, q) = FileSyms(d, q)
  BY <1>2 DEF Indexed, FileSyms
<1>4. s \in Symbols(n)
  BY <1>1, <1>3, SymbolsOf
<1>5. ImportsOf(n, e) = ImportsOf(d, e)
  BY DEF ImportsOf
<1> QED  BY <1>4, <1>5 DEF Grounds

\* A link from and to other files than p.
Elsewhere(d, e, p) == d.link[e].to # None /\ e.path # p /\ d.link[e].to.path # p

Stays(d, n, e) == e \in DOMAIN n.link /\ n.link[e].to = d.link[e].to

\* Deleting a file takes its rows and every link to them, and no other.
THEOREM DeleteKeeps ==
  ASSUME NEW d, Graph(d), NEW p \in Paths
  PROVE  /\ Graph(Delete(d, p))
         /\ Delete(d, p).rows = [d.rows EXCEPT ![p] = None]
         /\ p \notin Indexed(Delete(d, p)) /\ Indexed(Delete(d, p)) \subseteq Indexed(d)
         /\ Grounded(d) => Grounded(Delete(d, p))
         /\ \A e \in DOMAIN d.link : Elsewhere(d, e, p) => Stays(d, Delete(d, p), e)
<1> DEFINE n == Delete(d, p)
           Cut(s) == IF s # None /\ s.path = p THEN None ELSE s
           E == {x \in DOMAIN d.link : x.path # p}
<1>1. /\ n = [rows |-> n.rows, bare |-> n.bare, link |-> n.link]
      /\ n.rows = [d.rows EXCEPT ![p] = None] /\ n.bare = d.bare \ {p}
      /\ n.link = [e \in E |-> [d.link[e] EXCEPT !.to = Cut(@), !.arg = Cut(@)]]
  BY DEF Delete
<1>2. \A e \in E : "to" \in DOMAIN n.link[e] /\ n.link[e].to = Cut(d.link[e].to)
  BY <1>1 DEF Graph
<1>3. DOMAIN n.link = E
  BY <1>1
<1> HIDE DEF n
<1>4. n.rows \in [Paths -> Versions \cup {None}]
  BY <1>1 DEF Graph
<1>5. Indexed(n) = Indexed(d) \ {p}
  BY <1>1 DEF Indexed, Graph
<1>6. n.bare \subseteq Indexed(n)
  BY <1>1, <1>5 DEF Graph
<1>7. E = Edges(n.rows)
  <2>0. /\ DOMAIN n.rows = Paths /\ DOMAIN d.rows = Paths /\ n.rows[p] = None
        /\ \A q \in Paths : q # p => n.rows[q] = d.rows[q]
    BY <1>1 DEF Graph
  <2>1. ASSUME NEW e \in E PROVE e \in Edges(n.rows)
    <3>1. e \in Edges(d.rows) /\ e.path # p
      BY DEF Graph
    <3>2. PICK q \in Paths : /\ d.rows[q] # None
                             /\ \E c \in Code[d.rows[q]].calls : e = [path |-> q, call |-> c]
      BY <2>0, <3>1, EdgesOf
    <3>3. q # p
      BY <3>1, <3>2
    <3> QED  BY <2>0, <3>2, <3>3, EdgesOf
  <2>2. ASSUME NEW e \in Edges(n.rows) PROVE e \in E
    <3>1. PICK q \in Paths : /\ n.rows[q] # None
                             /\ \E c \in Code[n.rows[q]].calls : e = [path |-> q, call |-> c]
      BY <2>0, EdgesOf
    <3>2. q # p /\ e.path = q
      BY <2>0, <3>1
    <3>3. e \in Edges(d.rows)
      BY <2>0, <3>1, <3>2, EdgesOf
    <3> QED  BY <3>2, <3>3 DEF Graph
  <2> QED  BY <2>1, <2>2
<1>8. Graph(n)
  BY <1>1, <1>2, <1>3, <1>4, <1>6, <1>7 DEF Graph
<1>9. ASSUME Grounded(d) PROVE Grounded(n)
  <2> SUFFICES ASSUME NEW e \in E, n.link[e].to # None
               PROVE  n.link[e].to \in Grounds(n, e)
    BY <1>3 DEF Grounded
  <2> DEFINE s == d.link[e].to
  <2>1. s # None /\ s.path # p /\ n.link[e].to = s /\ e.path # p
    BY <1>2
  <2>2. s \in Grounds(d, e)
    BY <1>9, <2>1 DEF Grounded
  <2>3. s.path \in Paths /\ e.path \in Paths
    BY <2>2, PathsIndexed DEF Indexed, Grounds
  <2> HIDE DEF s
  <2>4. n.rows[e.path] = d.rows[e.path] /\ n.rows[s.path] = d.rows[s.path]
    BY <1>1, <2>1, <2>3 DEF Graph
  <2>5. s.path \in n.bare <=> s.path \in d.bare
    BY <1>1, <2>1
  <2> QED  BY <2>1, <2>2, <2>4, <2>5, GroundsRemain
<1>10. \A e \in DOMAIN d.link : Elsewhere(d, e, p) => Stays(d, n, e)
  BY <1>2, <1>3 DEF Elsewhere, Stays
<1> QED  BY <1>1, <1>5, <1>8, <1>9, <1>10 DEF n

Inserted(d, new, X) == [InsertExtracted(d, new) EXCEPT !.bare = @ \cup X]

\* Inserting the rows of files that have none, X of them without parameters,
\* adds their links unresolved and leaves every other link its grounds.
THEOREM InsertKeeps ==
  ASSUME NEW d, Graph(d), NEW new, NEW X \in SUBSET Paths,
         DOMAIN new \subseteq Paths,
         \A p \in DOMAIN new : new[p] \in Versions \cup {None} /\ d.rows[p] = None,
         \A p \in X : p \in DOMAIN new /\ new[p] # None
  PROVE  /\ Graph(Inserted(d, new, X))
         /\ \A p \in Paths : Inserted(d, new, X).rows[p] =
                               IF p \in DOMAIN new THEN new[p] ELSE d.rows[p]
         /\ Grounded(d) => Grounded(Inserted(d, new, X))
         /\ \A e \in DOMAIN d.link : Stays(d, Inserted(d, new, X), e)
<1> DEFINE n == Inserted(d, new, X)
           rows == [p \in Paths |-> IF p \in DOMAIN new THEN new[p] ELSE d.rows[p]]
           link == [e \in DOMAIN d.link \cup Edges(new) |->
                      IF e \in DOMAIN d.link THEN d.link[e] ELSE Fresh]
<1>0. n = [rows |-> rows, bare |-> d.bare \cup X, link |-> link]
  <2>1. InsertExtracted(d, new) = [rows |-> rows, bare |-> d.bare, link |-> link]
    BY DEF InsertExtracted
  <2> HIDE DEF rows, link
  <2> QED  BY <2>1 DEF Inserted
<1> HIDE DEF n, rows, link
<1>1. /\ n = [rows |-> n.rows, bare |-> n.bare, link |-> n.link]
      /\ n.rows = [p \in Paths |-> IF p \in DOMAIN new THEN new[p] ELSE d.rows[p]]
      /\ n.bare = d.bare \cup X
      /\ n.link = [e \in DOMAIN d.link \cup Edges(new) |->
                     IF e \in DOMAIN d.link THEN d.link[e] ELSE Fresh]
  <2>1. n.rows = rows /\ n.bare = d.bare \cup X /\ n.link = link
    BY <1>0
  <2>2. n = [rows |-> n.rows, bare |-> n.bare, link |-> n.link]
    BY <1>0, <2>1
  <2> QED  BY <2>1, <2>2 DEF rows, link
<1>2. n.rows \in [Paths -> Versions \cup {None}]
  BY <1>1 DEF Graph
<1>3. Indexed(d) \subseteq Indexed(n) /\ n.bare \subseteq Indexed(n)
      /\ Indexed(d) \cap DOMAIN new = {}
  BY <1>1 DEF Indexed, Graph
<1>4. DOMAIN n.link = Edges(n.rows)
  <2>0. /\ DOMAIN n.rows = Paths /\ DOMAIN d.rows = Paths
        /\ \A q \in Paths : n.rows[q] = IF q \in DOMAIN new THEN new[q] ELSE d.rows[q]
    BY <1>1 DEF Graph
  <2>1. ASSUME NEW e \in Edges(d.rows) PROVE e \in Edges(n.rows)
    <3>1. PICK q \in Paths : /\ d.rows[q] # None
                             /\ \E c \in Code[d.rows[q]].calls : e = [path |-> q, call |-> c]
      BY <2>0, EdgesOf
    <3>2. n.rows[q] = d.rows[q]
      BY <2>0, <3>1
    <3> QED  BY <2>0, <3>1, <3>2, EdgesOf
  <2>2. ASSUME NEW e \in Edges(new) PROVE e \in Edges(n.rows)
    <3>1. PICK q \in DOMAIN new : /\ new[q] # None
                                  /\ \E c \in Code[new[q]].calls : e = [path |-> q, call |-> c]
      BY EdgesOf
    <3>2. q \in Paths /\ n.rows[q] = new[q]
      BY <2>0, <3>1
    <3> QED  BY <2>0, <3>1, <3>2, EdgesOf
  <2>3. ASSUME NEW e \in Edges(n.rows) PROVE e \in Edges(d.rows) \cup Edges(new)
    <3>1. PICK q \in Paths : /\ n.rows[q] # None
                             /\ \E c \in Code[n.rows[q]].calls : e = [path |-> q, call |-> c]
      BY <2>0, EdgesOf
    <3>2. CASE q \in DOMAIN new
      BY <2>0, <3>1, <3>2, EdgesOf
    <3>3. CASE q \notin DOMAIN new
      BY <2>0, <3>1, <3>3, EdgesOf
    <3> QED  BY <3>2, <3>3
  <2> QED  BY <1>1, <2>1, <2>2, <2>3 DEF Graph
<1>5. \A e \in DOMAIN n.link : "to" \in DOMAIN n.link[e]
  BY <1>1 DEF Graph, Fresh
<1>6. Graph(n)
  BY <1>1, <1>2, <1>3, <1>4, <1>5 DEF Graph
<1>7. ASSUME Grounded(d) PROVE Grounded(n)
  <2> SUFFICES ASSUME NEW e \in DOMAIN n.link, n.link[e].to # None
               PROVE  n.link[e].to \in Grounds(n, e)
    BY DEF Grounded
  <2>1. e \in DOMAIN d.link /\ n.link[e] = d.link[e]
    BY <1>1 DEF Fresh
  <2> DEFINE s == d.link[e].to
  <2>2. s \in Grounds(d, e)
    BY <1>7, <2>1 DEF Grounded
  <2>3. s.path \in Indexed(d) /\ e.path \in Indexed(d)
    BY <2>1, <2>2, PathsIndexed DEF Grounds
  <2> HIDE DEF s
  <2>4. n.rows[e.path] = d.rows[e.path] /\ n.rows[s.path] = d.rows[s.path]
    BY <1>1, <1>3, <2>3 DEF Indexed
  <2>5. s.path \in n.bare <=> s.path \in d.bare
    BY <1>1, <1>3, <2>3
  <2>6. s \in Grounds(n, e)
    BY <2>2, <2>4, <2>5, GroundsRemain
  <2> QED  BY <2>1, <2>6 DEF s
<1>8. \A e \in DOMAIN d.link : Stays(d, n, e)
  BY <1>1 DEF Stays
<1> QED  BY <1>1, <1>6, <1>7, <1>8 DEF n

\* Replacing the rows of one file.
THEOREM ReplaceKeeps ==
  ASSUME NEW d, Graph(d), NEW p \in Paths, NEW v \in Versions
  PROVE  /\ Graph(Replace(d, p, v))
         /\ Replace(d, p, v).rows = [d.rows EXCEPT ![p] = v]
         /\ Grounded(d) => Grounded(Replace(d, p, v))
         /\ \A e \in DOMAIN d.link : Elsewhere(d, e, p) => Stays(d, Replace(d, p, v), e)
<1> DEFINE gone == Delete(d, p)
           new == [q \in {p} |-> v]
           X == {p}
           n == Inserted(gone, new, X)
<1>1. Replace(d, p, v) = n
  BY DEF Replace, Inserted
<1>2. /\ Graph(gone) /\ gone.rows = [d.rows EXCEPT ![p] = None]
      /\ Grounded(d) => Grounded(gone)
      /\ \A e \in DOMAIN d.link : Elsewhere(d, e, p) => Stays(d, gone, e)
  BY DeleteKeeps
<1>3. gone.rows[p] = None
  BY <1>2 DEF Graph
<1>4. v # None
  BY NoneAssumption
<1>5. DOMAIN new = {p} /\ new[p] = v /\ X \in SUBSET Paths
  OBVIOUS
<1>6. \A q \in X : q \in DOMAIN new /\ new[q] # None
  BY <1>4
<1> HIDE DEF gone, new, X
<1>7. /\ Graph(n) /\ (Grounded(gone) => Grounded(n))
      /\ \A q \in Paths : n.rows[q] = IF q \in DOMAIN new THEN new[q] ELSE gone.rows[q]
      /\ \A e \in DOMAIN gone.link : Stays(gone, n, e)
  <2>1. /\ DOMAIN new \subseteq Paths
        /\ \A q \in DOMAIN new : new[q] \in Versions \cup {None} /\ gone.rows[q] = None
    BY <1>3, <1>4, <1>5
  <2> QED  BY <1>2, <1>5, <1>6, <2>1, InsertKeeps
<1> HIDE DEF n
<1>8. n.rows = [d.rows EXCEPT ![p] = v]
  BY <1>2, <1>5, <1>7 DEF Graph
<1>9. \A e \in DOMAIN d.link : Elsewhere(d, e, p) => Stays(d, n, e)
  BY <1>2, <1>7 DEF Stays
<1> QED  BY <1>1, <1>2, <1>7, <1>8, <1>9

\* The cleared tables.
LEMMA EmptyGraph == Graph(Empty) /\ Grounded(Empty) /\ Empty.rows = [p \in Paths |-> None]
<1>1. Edges([p \in Paths |-> None]) = {}
  BY EdgesOf
<1> QED  BY <1>1 DEF Empty, Graph, Grounded

\* A full index of any contents yields a graph of them.
THEOREM FullIndex ==
  ASSUME NEW new \in [Paths -> Versions \cup {None}]
  PROVE  /\ Graph(InsertExtracted(Empty, new)) /\ Grounded(InsertExtracted(Empty, new))
         /\ InsertExtracted(Empty, new).rows = new
<1> DEFINE n == InsertExtracted(Empty, new)
<1>1. Inserted(Empty, new, {}) = n
  BY DEF InsertExtracted, Inserted
<1> HIDE DEF n
<1>2. /\ Graph(n) /\ Grounded(n)
      /\ \A p \in Paths : n.rows[p] = IF p \in DOMAIN new THEN new[p] ELSE Empty.rows[p]
  BY <1>1, EmptyGraph, InsertKeeps, {} \in SUBSET Paths DEF n
<1>3. n.rows = new
  BY <1>2 DEF Graph
<1> QED  BY <1>2, <1>3 DEF n
-----------------------------------------------------------------------------
(* Resolving twice.  Each pass leaves the graph settled for itself: every   *)
(* link it would still move it has moved.  Later passes keep that so, since *)
(* they only ever resolve more.                                            *)

\* A row has its four columns.
Row(x) == x = [to |-> x.to, conf |-> x.conf, why |-> x.why, arg |-> x.arg]

Columns(d) ==
  /\ d.link = [e \in DOMAIN d.link |-> d.link[e]]
  /\ \A e \in DOMAIN d.link : Row(d.link[e])

Same(d, n) == n.rows = d.rows /\ n.bare = d.bare /\ DOMAIN n.link = DOMAIN d.link

\* A pass that binds changes only the links it binds.
Binds(d, n) ==
  Same(d, n) /\ \A e \in DOMAIN d.link : n.link[e].to = None => n.link[e] = d.link[e]

SameNames(d, e) == {s \in Symbols(d) : s.path = e.path /\ s.sym.name = e.call.name}

InMethod(d)   == {e \in UnresolvedCalls(d) : e.call.in # None}
Ownerless(d)  == {e \in UnresolvedCalls(d) : e.call.in # None /\ OwnMethods(d, e) = {}}
Received(d, disk) ==
  {e \in UnresolvedCalls(d) : /\ d.link[e].why = "instance_method"
                              /\ e.call.recv # None /\ LineHolds(disk, e)}

\* What each pass leaves behind.
Settled1(d) == \A e \in Unresolved(d) : Cardinality(SameNames(d, e)) # 1
Settled2(d) == \A e \in InMethod(d) : Cardinality(OwnMethods(d, e)) # 1
Settled3(d) == \A e \in Ownerless(d) : Cardinality(AllMethods(d, e)) # 1
Settled4(d) == \A e \in Unresolved(d) : Cardinality(Imported(d, e)) # 1
Settled5(d) == \A e \in UnresolvedCalls(d) : ~(d.link[e].conf > 5)
Settled6(d, disk) == \A e \in UnresolvedCalls(d) : d.link[e].why = Reason(d, disk, e)
Settled7(d, disk) == \A e \in Received(d, disk) : Cardinality(OfReceiver(d, e)) # 1
Settled8(d) ==
  \A e \in DOMAIN d.link :
    (e.call.arg # None /\ d.link[e].arg = None /\ Source(d, e) # {})
      => d.link[e].arg = CHOOSE s \in Source(d, e) : TRUE

\* Candidates and reasons depend on the rows only.
LEMMA CandidatesDecide ==
  ASSUME NEW d, NEW n, Same(d, n), NEW e, NEW disk
  PROVE  /\ SameNames(n, e) = SameNames(d, e) /\ OwnMethods(n, e) = OwnMethods(d, e)
         /\ AllMethods(n, e) = AllMethods(d, e) /\ Imported(n, e) = Imported(d, e)
         /\ OfReceiver(n, e) = OfReceiver(d, e) /\ Reason(n, disk, e) = Reason(d, disk, e)
<1>1. n.rows = d.rows /\ n.bare = d.bare
  BY DEF Same
<1>2. Symbols(n) = Symbols(d) /\ Indexed(n) = Indexed(d)
  BY <1>1, RowsDecide
<1>3. ImportsOf(n, e) = ImportsOf(d, e) /\ \A p : FileSyms(n, p) = FileSyms(d, p)
  BY <1>1 DEF ImportsOf, FileSyms
<1>4. Imported(n, e) = Imported(d, e)
  BY <1>2, <1>3 DEF Imported, IsTarget
<1>5. OfReceiver(n, e) = OfReceiver(d, e)
  BY <1>2, <1>3 DEF OfReceiver
<1> QED  BY <1>2, <1>3, <1>4, <1>5 DEF SameNames, OwnMethods, AllMethods, Reason

\* A symbol is not NULL.
LEMMA SymbolsAreThere ==
  ASSUME NEW d, Graph(d) PROVE None \notin Symbols(d)
<1> SUFFICES ASSUME NEW q \in Indexed(d), NEW x \in FileSyms(d, q), None = [path |-> q, sym |-> x]
             PROVE  FALSE
  BY SymbolsOf
<1>1. q \in Paths /\ d.rows[q] \in Versions
  BY DEF Indexed, Graph
<1>2. \A t \in Code[d.rows[q]].syms : t \in Symbol
  BY <1>1, CodeAssumption
<1>3. \A t \in Symbol : [t EXCEPT !.type = None] \in Symbol
  BY DEF Symbol
<1>4. x \in Symbol
  BY <1>2, <1>3 DEF FileSyms
<1>5. [path |-> q, sym |-> x] \in [path : Paths, sym : Symbol]
  BY <1>1, <1>4
<1> QED  BY <1>5, NoneAssumption

\* A pass that gives some links a symbol and leaves the others alone.
LEMMA NewBinds ==
  ASSUME NEW d, Graph(d), Columns(d), NEW L,
         L = [e \in DOMAIN d.link |-> L[e]],
         \A e \in DOMAIN d.link : Row(L[e]) /\ (L[e] = d.link[e] \/ L[e].to # None)
  PROVE  LET n == [d EXCEPT !.link = L]
         IN Binds(d, n) /\ Columns(n) /\ n.link = L
<1>1. [d EXCEPT !.link = L] = [rows |-> d.rows, bare |-> d.bare, link |-> L]
  BY DEF Graph
<1>2. DOMAIN L = DOMAIN d.link
  OBVIOUS
<1> QED  BY <1>1, <1>2 DEF Binds, Same, Columns

\* A pass that moves no link is the identity.
LEMMA NothingNew ==
  ASSUME NEW d, Graph(d), Columns(d), NEW L,
         L = [e \in DOMAIN d.link |-> L[e]],
         \A e \in DOMAIN d.link : L[e] = d.link[e]
  PROVE  [d EXCEPT !.link = L] = d
<1>1. L = d.link
  BY DEF Columns
<1> QED  BY <1>1 DEF Graph

\* Binding within the file settles it,
LEMMA SameFileSettles ==
  ASSUME NEW d, Graph(d), Columns(d)
  PROVE  LET n == SameFile(d)
         IN Binds(d, n) /\ Columns(n) /\ Settled1(n)
<1> DEFINE F(e) == IF e \in Unresolved(d) /\ Cardinality(SameNames(d, e)) = 1
                   THEN [d.link[e] EXCEPT !.to = CHOOSE s \in SameNames(d, e) : TRUE]
                   ELSE d.link[e]
           L == [e \in DOMAIN d.link |-> F(e)]
           n == [d EXCEPT !.link = L]
<1>1. SameFile(d) = n
  BY DEF SameFile, Bind, SameNames
<1>2. \A e : None \notin SameNames(d, e)
  BY SymbolsAreThere DEF SameNames
<1>3. ASSUME NEW e \in DOMAIN d.link
      PROVE  /\ Row(L[e])
             /\ \/ L[e] = d.link[e] /\ ~(e \in Unresolved(d) /\ Cardinality(SameNames(d, e)) = 1)
                \/ L[e].to # None
  <2>1. CASE e \in Unresolved(d) /\ Cardinality(SameNames(d, e)) = 1
    <3> DEFINE s == CHOOSE x \in SameNames(d, e) : TRUE
    <3>1. s \in SameNames(d, e)
      BY <2>1, TheOne
    <3>2. s # None
      BY <1>2, <3>1
    <3> HIDE DEF s
    <3>3. L[e] = [d.link[e] EXCEPT !.to = s]
      BY <2>1 DEF s
    <3>4. Row(d.link[e])
      BY DEF Columns
    <3> QED  BY <3>2, <3>3, <3>4 DEF Row
  <2>2. CASE ~(e \in Unresolved(d) /\ Cardinality(SameNames(d, e)) = 1)
    BY <2>2 DEF Columns
  <2> QED  BY <2>1, <2>2
<1>4. L = [e \in DOMAIN d.link |-> L[e]]
  <2> HIDE DEF F
  <2> QED  OBVIOUS
<1> HIDE DEF L
<1>5. Binds(d, n) /\ Columns(n) /\ n.link = L
  BY <1>3, <1>4, NewBinds
<1> HIDE DEF n
<1>6. ASSUME NEW e \in Unresolved(n) PROVE Cardinality(SameNames(n, e)) # 1
  <2>1. e \in DOMAIN d.link /\ n.link[e].to = None
    BY <1>5 DEF Binds, Same, Unresolved
  <2>2. L[e] = d.link[e] /\ ~(e \in Unresolved(d) /\ Cardinality(SameNames(d, e)) = 1)
    BY <1>3, <1>5, <2>1
  <2>3. e \in Unresolved(d)
    BY <1>5, <1>6, <2>1, <2>2, CandidatesDecide DEF Binds, Unresolved
  <2> QED  BY <1>5, <2>2, <2>3, CandidatesDecide DEF Binds
<1> QED  BY <1>1, <1>5, <1>6 DEF Settled1

\* and settled, the graph is left as it is.
LEMMA SameFileAgain ==
  ASSUME NEW d, Graph(d), Columns(d), Settled1(d)
  PROVE  SameFile(d) = d
<1> DEFINE F(e) == IF e \in Unresolved(d) /\ Cardinality(SameNames(d, e)) = 1
                   THEN [d.link[e] EXCEPT !.to = CHOOSE s \in SameNames(d, e) : TRUE]
                   ELSE d.link[e]
           L == [e \in DOMAIN d.link |-> F(e)]
<1>1. SameFile(d) = [d EXCEPT !.link = L]
  BY DEF SameFile, Bind, SameNames
<1>2. \A e \in DOMAIN d.link : L[e] = d.link[e]
  BY DEF Settled1
<1>3. L = [e \in DOMAIN d.link |-> L[e]]
  <2> HIDE DEF F
  <2> QED  OBVIOUS
<1> HIDE DEF L
<1> QED  BY <1>1, <1>2, <1>3, NothingNew

\* Binding within the class settles it,
LEMMA OwnClassSettles ==
  ASSUME NEW d, Graph(d), Columns(d)
  PROVE  LET n == OwnClass(d)
         IN Binds(d, n) /\ Columns(n) /\ Settled2(n)
<1> DEFINE F(e) == IF e \in InMethod(d) /\ Cardinality(OwnMethods(d, e)) = 1
                   THEN [d.link[e] EXCEPT !.to = CHOOSE s \in OwnMethods(d, e) : TRUE, !.conf = 10]
                   ELSE d.link[e]
           L == [e \in DOMAIN d.link |-> F(e)]
           n == [d EXCEPT !.link = L]
<1>1. OwnClass(d) = n
  BY DEF OwnClass, Bind, InMethod
<1>2. \A e : None \notin OwnMethods(d, e)
  BY SymbolsAreThere DEF OwnMethods
<1>3. ASSUME NEW e \in DOMAIN d.link
      PROVE  /\ Row(L[e])
             /\ \/ L[e] = d.link[e] /\ ~(e \in InMethod(d) /\ Cardinality(OwnMethods(d, e)) = 1)
                \/ L[e].to # None
  <2>1. CASE e \in InMethod(d) /\ Cardinality(OwnMethods(d, e)) = 1
    <3> DEFINE s == CHOOSE x \in OwnMethods(d, e) : TRUE
    <3>1. s \in OwnMethods(d, e)
      BY <2>1, TheOne
    <3>2. s # None
      BY <1>2, <3>1
    <3> HIDE DEF s
    <3>3. L[e] = [d.link[e] EXCEPT !.to = s, !.conf = 10]
      BY <2>1 DEF s
    <3>4. Row(d.link[e])
      BY DEF Columns
    <3> QED  BY <3>2, <3>3, <3>4 DEF Row
  <2>2. CASE ~(e \in InMethod(d) /\ Cardinality(OwnMethods(d, e)) = 1)
    BY <2>2 DEF Columns
  <2> QED  BY <2>1, <2>2
<1>4. L = [e \in DOMAIN d.link |-> L[e]]
  <2> HIDE DEF F
  <2> QED  OBVIOUS
<1> HIDE DEF L
<1>5. Binds(d, n) /\ Columns(n) /\ n.link = L
  BY <1>3, <1>4, NewBinds
<1> HIDE DEF n
<1>6. ASSUME NEW e \in InMethod(n) PROVE Cardinality(OwnMethods(n, e)) # 1
  <2>1. e \in DOMAIN d.link /\ n.link[e].to = None
    BY <1>5 DEF Binds, Same, Unresolved, UnresolvedCalls, InMethod
  <2>2. L[e] = d.link[e] /\ ~(e \in InMethod(d) /\ Cardinality(OwnMethods(d, e)) = 1)
    BY <1>3, <1>5, <2>1
  <2>3. e \in InMethod(d)
    BY <1>5, <1>6, <2>1, <2>2, CandidatesDecide DEF Binds, Unresolved, UnresolvedCalls, InMethod
  <2> QED  BY <1>5, <2>2, <2>3, CandidatesDecide DEF Binds
<1> QED  BY <1>1, <1>5, <1>6 DEF Settled2

\* and settled, the graph is left as it is.
LEMMA OwnClassAgain ==
  ASSUME NEW d, Graph(d), Columns(d), Settled2(d)
  PROVE  OwnClass(d) = d
<1> DEFINE F(e) == IF e \in InMethod(d) /\ Cardinality(OwnMethods(d, e)) = 1
                   THEN [d.link[e] EXCEPT !.to = CHOOSE s \in OwnMethods(d, e) : TRUE, !.conf = 10]
                   ELSE d.link[e]
           L == [e \in DOMAIN d.link |-> F(e)]
<1>1. OwnClass(d) = [d EXCEPT !.link = L]
  BY DEF OwnClass, Bind, InMethod
<1>2. \A e \in DOMAIN d.link : L[e] = d.link[e]
  BY DEF Settled2
<1>3. L = [e \in DOMAIN d.link |-> L[e]]
  <2> HIDE DEF F
  <2> QED  OBVIOUS
<1> HIDE DEF L
<1> QED  BY <1>1, <1>2, <1>3, NothingNew

\* Binding the only method of a name settles it,
LEMMA OnlyMethodSettles ==
  ASSUME NEW d, Graph(d), Columns(d)
  PROVE  LET n == OnlyMethod(d)
         IN Binds(d, n) /\ Columns(n) /\ Settled3(n)
<1> DEFINE F(e) == IF e \in Ownerless(d) /\ Cardinality(AllMethods(d, e)) = 1
                   THEN [d.link[e] EXCEPT !.to = CHOOSE s \in AllMethods(d, e) : TRUE, !.conf = 7]
                   ELSE d.link[e]
           L == [e \in DOMAIN d.link |-> F(e)]
           n == [d EXCEPT !.link = L]
<1>1. OnlyMethod(d) = n
  BY DEF OnlyMethod, Bind, Ownerless
<1>2. \A e : None \notin AllMethods(d, e)
  BY SymbolsAreThere DEF AllMethods
<1>3. ASSUME NEW e \in DOMAIN d.link
      PROVE  /\ Row(L[e])
             /\ \/ L[e] = d.link[e] /\ ~(e \in Ownerless(d) /\ Cardinality(AllMethods(d, e)) = 1)
                \/ L[e].to # None
  <2>1. CASE e \in Ownerless(d) /\ Cardinality(AllMethods(d, e)) = 1
    <3> DEFINE s == CHOOSE x \in AllMethods(d, e) : TRUE
    <3>1. s \in AllMethods(d, e)
      BY <2>1, TheOne
    <3>2. s # None
      BY <1>2, <3>1
    <3> HIDE DEF s
    <3>3. L[e] = [d.link[e] EXCEPT !.to = s, !.conf = 7]
      BY <2>1 DEF s
    <3>4. Row(d.link[e])
      BY DEF Columns
    <3> QED  BY <3>2, <3>3, <3>4 DEF Row
  <2>2. CASE ~(e \in Ownerless(d) /\ Cardinality(AllMethods(d, e)) = 1)
    BY <2>2 DEF Columns
  <2> QED  BY <2>1, <2>2
<1>4. L = [e \in DOMAIN d.link |-> L[e]]
  <2> HIDE DEF F
  <2> QED  OBVIOUS
<1> HIDE DEF L
<1>5. Binds(d, n) /\ Columns(n) /\ n.link = L
  BY <1>3, <1>4, NewBinds
<1> HIDE DEF n
<1>6. ASSUME NEW e \in Ownerless(n) PROVE Cardinality(AllMethods(n, e)) # 1
  <2>1. e \in DOMAIN d.link /\ n.link[e].to = None
    BY <1>5 DEF Binds, Same, Unresolved, UnresolvedCalls, Ownerless
  <2>2. L[e] = d.link[e] /\ ~(e \in Ownerless(d) /\ Cardinality(AllMethods(d, e)) = 1)
    BY <1>3, <1>5, <2>1
  <2>3. e \in Ownerless(d)
    BY <1>5, <1>6, <2>1, <2>2, CandidatesDecide DEF Binds, Unresolved, UnresolvedCalls, Ownerless
  <2> QED  BY <1>5, <2>2, <2>3, CandidatesDecide DEF Binds
<1> QED  BY <1>1, <1>5, <1>6 DEF Settled3

\* and settled, the graph is left as it is.
LEMMA OnlyMethodAgain ==
  ASSUME NEW d, Graph(d), Columns(d), Settled3(d)
  PROVE  OnlyMethod(d) = d
<1> DEFINE F(e) == IF e \in Ownerless(d) /\ Cardinality(AllMethods(d, e)) = 1
                   THEN [d.link[e] EXCEPT !.to = CHOOSE s \in AllMethods(d, e) : TRUE, !.conf = 7]
                   ELSE d.link[e]
           L == [e \in DOMAIN d.link |-> F(e)]
<1>1. OnlyMethod(d) = [d EXCEPT !.link = L]
  BY DEF OnlyMethod, Bind, Ownerless
<1>2. \A e \in DOMAIN d.link : L[e] = d.link[e]
  BY DEF Settled3
<1>3. L = [e \in DOMAIN d.link |-> L[e]]
  <2> HIDE DEF F
  <2> QED  OBVIOUS
<1> HIDE DEF L
<1> QED  BY <1>1, <1>2, <1>3, NothingNew

\* Binding imports settles them,
LEMMA ViaImportsSettles ==
  ASSUME NEW d, Graph(d), Columns(d)
  PROVE  LET n == ViaImports(d)
         IN Binds(d, n) /\ Columns(n) /\ Settled4(n)
<1> DEFINE F(e) == IF e \in Unresolved(d) /\ Cardinality(Imported(d, e)) = 1
                   THEN [d.link[e] EXCEPT !.to = CHOOSE s \in Imported(d, e) : TRUE, !.conf = 10]
                   ELSE d.link[e]
           L == [e \in DOMAIN d.link |-> F(e)]
           n == [d EXCEPT !.link = L]
<1>1. ViaImports(d) = n
  BY DEF ViaImports, Bind
<1>2. \A e : None \notin Imported(d, e)
  BY SymbolsAreThere DEF Imported
<1>3. ASSUME NEW e \in DOMAIN d.link
      PROVE  /\ Row(L[e])
             /\ \/ L[e] = d.link[e] /\ ~(e \in Unresolved(d) /\ Cardinality(Imported(d, e)) = 1)
                \/ L[e].to # None
  <2>1. CASE e \in Unresolved(d) /\ Cardinality(Imported(d, e)) = 1
    <3> DEFINE s == CHOOSE x \in Imported(d, e) : TRUE
    <3>1. s \in Imported(d, e)
      BY <2>1, TheOne
    <3>2. s # None
      BY <1>2, <3>1
    <3> HIDE DEF s
    <3>3. L[e] = [d.link[e] EXCEPT !.to = s, !.conf = 10]
      BY <2>1 DEF s
    <3>4. Row(d.link[e])
      BY DEF Columns
    <3> QED  BY <3>2, <3>3, <3>4 DEF Row
  <2>2. CASE ~(e \in Unresolved(d) /\ Cardinality(Imported(d, e)) = 1)
    BY <2>2 DEF Columns
  <2> QED  BY <2>1, <2>2
<1>4. L = [e \in DOMAIN d.link |-> L[e]]
  <2> HIDE DEF F
  <2> QED  OBVIOUS
<1> HIDE DEF L
<1>5. Binds(d, n) /\ Columns(n) /\ n.link = L
  BY <1>3, <1>4, NewBinds
<1> HIDE DEF n
<1>6. ASSUME NEW e \in Unresolved(n) PROVE Cardinality(Imported(n, e)) # 1
  <2>1. e \in DOMAIN d.link /\ n.link[e].to = None
    BY <1>5 DEF Binds, Same, Unresolved
  <2>2. L[e] = d.link[e] /\ ~(e \in Unresolved(d) /\ Cardinality(Imported(d, e)) = 1)
    BY <1>3, <1>5, <2>1
  <2>3. e \in Unresolved(d)
    BY <1>5, <1>6, <2>1, <2>2, CandidatesDecide DEF Binds, Unresolved
  <2> QED  BY <1>5, <2>2, <2>3, CandidatesDecide DEF Binds
<1> QED  BY <1>1, <1>5, <1>6 DEF Settled4

\* and settled, the graph is left as it is.
LEMMA ViaImportsAgain ==
  ASSUME NEW d, Graph(d), Columns(d), Settled4(d)
  PROVE  ViaImports(d) = d
<1> DEFINE F(e) == IF e \in Unresolved(d) /\ Cardinality(Imported(d, e)) = 1
                   THEN [d.link[e] EXCEPT !.to = CHOOSE s \in Imported(d, e) : TRUE, !.conf = 10]
                   ELSE d.link[e]
           L == [e \in DOMAIN d.link |-> F(e)]
<1>1. ViaImports(d) = [d EXCEPT !.link = L]
  BY DEF ViaImports, Bind
<1>2. \A e \in DOMAIN d.link : L[e] = d.link[e]
  BY DEF Settled4
<1>3. L = [e \in DOMAIN d.link |-> L[e]]
  <2> HIDE DEF F
  <2> QED  OBVIOUS
<1> HIDE DEF L
<1> QED  BY <1>1, <1>2, <1>3, NothingNew

\* Binding methods of the receiver settles them,
LEMMA ReceiverTypesSettles ==
  ASSUME NEW d, Graph(d), Columns(d), NEW disk
  PROVE  LET n == ReceiverTypes(d, disk)
         IN Binds(d, n) /\ Columns(n) /\ Settled7(n, disk)
<1> DEFINE F(e) == IF e \in Received(d, disk) /\ Cardinality(OfReceiver(d, e)) = 1
                   THEN [d.link[e] EXCEPT !.to = CHOOSE s \in OfReceiver(d, e) : TRUE, !.conf = 8, !.why = None]
                   ELSE d.link[e]
           L == [e \in DOMAIN d.link |-> F(e)]
           n == [d EXCEPT !.link = L]
<1>1. ReceiverTypes(d, disk) = n
  BY DEF ReceiverTypes, Bind, Received
<1>2. \A e : None \notin OfReceiver(d, e)
  BY SymbolsAreThere DEF OfReceiver
<1>3. ASSUME NEW e \in DOMAIN d.link
      PROVE  /\ Row(L[e])
             /\ \/ L[e] = d.link[e] /\ ~(e \in Received(d, disk) /\ Cardinality(OfReceiver(d, e)) = 1)
                \/ L[e].to # None
  <2>1. CASE e \in Received(d, disk) /\ Cardinality(OfReceiver(d, e)) = 1
    <3> DEFINE s == CHOOSE x \in OfReceiver(d, e) : TRUE
    <3>1. s \in OfReceiver(d, e)
      BY <2>1, TheOne
    <3>2. s # None
      BY <1>2, <3>1
    <3> HIDE DEF s
    <3>3. L[e] = [d.link[e] EXCEPT !.to = s, !.conf = 8, !.why = None]
      BY <2>1 DEF s
    <3>4. Row(d.link[e])
      BY DEF Columns
    <3> QED  BY <3>2, <3>3, <3>4 DEF Row
  <2>2. CASE ~(e \in Received(d, disk) /\ Cardinality(OfReceiver(d, e)) = 1)
    BY <2>2 DEF Columns
  <2> QED  BY <2>1, <2>2
<1>4. L = [e \in DOMAIN d.link |-> L[e]]
  <2> HIDE DEF F
  <2> QED  OBVIOUS
<1> HIDE DEF L
<1>5. Binds(d, n) /\ Columns(n) /\ n.link = L
  BY <1>3, <1>4, NewBinds
<1> HIDE DEF n
<1>6. ASSUME NEW e \in Received(n, disk) PROVE Cardinality(OfReceiver(n, e)) # 1
  <2>1. e \in DOMAIN d.link /\ n.link[e].to = None
    BY <1>5 DEF Binds, Same, Unresolved, UnresolvedCalls, Received
  <2>2. L[e] = d.link[e] /\ ~(e \in Received(d, disk) /\ Cardinality(OfReceiver(d, e)) = 1)
    BY <1>3, <1>5, <2>1
  <2>3. e \in Received(d, disk)
    BY <1>5, <1>6, <2>1, <2>2, CandidatesDecide DEF Binds, Unresolved, UnresolvedCalls, Received
  <2> QED  BY <1>5, <2>2, <2>3, CandidatesDecide DEF Binds
<1> QED  BY <1>1, <1>5, <1>6 DEF Settled7

\* and settled, the graph is left as it is.
LEMMA ReceiverTypesAgain ==
  ASSUME NEW d, Graph(d), Columns(d), NEW disk, Settled7(d, disk)
  PROVE  ReceiverTypes(d, disk) = d
<1> DEFINE F(e) == IF e \in Received(d, disk) /\ Cardinality(OfReceiver(d, e)) = 1
                   THEN [d.link[e] EXCEPT !.to = CHOOSE s \in OfReceiver(d, e) : TRUE, !.conf = 8, !.why = None]
                   ELSE d.link[e]
           L == [e \in DOMAIN d.link |-> F(e)]
<1>1. ReceiverTypes(d, disk) = [d EXCEPT !.link = L]
  BY DEF ReceiverTypes, Bind, Received
<1>2. \A e \in DOMAIN d.link : L[e] = d.link[e]
  BY DEF Settled7
<1>3. L = [e \in DOMAIN d.link |-> L[e]]
  <2> HIDE DEF F
  <2> QED  OBVIOUS
<1> HIDE DEF L
<1> QED  BY <1>1, <1>2, <1>3, NothingNew

\* Writing one column leaves the others.
LEMMA OneColumn ==
  ASSUME NEW x, Row(x), NEW c
  PROVE  /\ [x EXCEPT !.conf = c] = [to |-> x.to, conf |-> c, why |-> x.why, arg |-> x.arg]
         /\ [x EXCEPT !.why = c] = [to |-> x.to, conf |-> x.conf, why |-> c, arg |-> x.arg]
         /\ [x EXCEPT !.arg = c] = [to |-> x.to, conf |-> x.conf, why |-> x.why, arg |-> c]
BY DEF Row

\* A pass that writes other columns moves no link.
LEMMA NewColumns ==
  ASSUME NEW d, Graph(d), Columns(d), NEW L,
         L = [e \in DOMAIN d.link |-> L[e]],
         \A e \in DOMAIN d.link : Row(L[e])
  PROVE  LET n == [d EXCEPT !.link = L]
         IN Same(d, n) /\ Columns(n) /\ n.link = L
<1>1. [d EXCEPT !.link = L] = [rows |-> d.rows, bare |-> d.bare, link |-> L]
  BY DEF Graph
<1>2. DOMAIN L = DOMAIN d.link
  OBVIOUS
<1> QED  BY <1>1, <1>2 DEF Same, Columns

\* Demoting caps every unresolved call,
LEMMA DemoteSettles ==
  ASSUME NEW d, Graph(d), Columns(d)
  PROVE  LET n == Demote(d)
         IN /\ Same(d, n) /\ Columns(n) /\ Settled5(n)
            /\ \A e \in DOMAIN d.link : n.link[e].to = d.link[e].to
<1> DEFINE F(e) == IF e \in UnresolvedCalls(d) /\ d.link[e].conf > 5
                   THEN [d.link[e] EXCEPT !.conf = 5] ELSE d.link[e]
           L == [e \in DOMAIN d.link |-> F(e)]
           n == [d EXCEPT !.link = L]
<1>1. Demote(d) = n
  BY DEF Demote
<1>2. \A e \in DOMAIN d.link :
        /\ Row(L[e]) /\ L[e].to = d.link[e].to
        /\ e \in UnresolvedCalls(d) => ~(L[e].conf > 5)
  <2> SUFFICES ASSUME NEW e \in DOMAIN d.link
               PROVE  /\ Row(F(e)) /\ F(e).to = d.link[e].to
                      /\ e \in UnresolvedCalls(d) => ~(F(e).conf > 5)
    OBVIOUS
  <2>1. Row(d.link[e])
    BY DEF Columns
  <2>2. CASE e \in UnresolvedCalls(d) /\ d.link[e].conf > 5
    <3>1. F(e) = [d.link[e] EXCEPT !.conf = 5]
      BY <2>2
    <3> HIDE DEF F
    <3> QED  BY <2>1, <3>1, OneColumn DEF Row
  <2>3. CASE ~(e \in UnresolvedCalls(d) /\ d.link[e].conf > 5)
    BY <2>1, <2>3
  <2> QED  BY <2>2, <2>3
<1>3. L = [e \in DOMAIN d.link |-> L[e]]
  <2> HIDE DEF F
  <2> QED  OBVIOUS
<1> HIDE DEF L
<1>4. Same(d, n) /\ Columns(n) /\ n.link = L
  BY <1>2, <1>3, NewColumns
<1> HIDE DEF n
<1>5. UnresolvedCalls(n) = UnresolvedCalls(d)
  BY <1>2, <1>4 DEF UnresolvedCalls, Unresolved, Same
<1>6. UnresolvedCalls(d) \subseteq DOMAIN d.link
  BY DEF UnresolvedCalls, Unresolved
<1> QED  BY <1>1, <1>2, <1>4, <1>5, <1>6 DEF Settled5

LEMMA DemoteAgainLeaves ==
  ASSUME NEW d, Graph(d), Columns(d), Settled5(d)
  PROVE  Demote(d) = d
<1> DEFINE F(e) == IF e \in UnresolvedCalls(d) /\ d.link[e].conf > 5
                   THEN [d.link[e] EXCEPT !.conf = 5] ELSE d.link[e]
           L == [e \in DOMAIN d.link |-> F(e)]
<1>1. Demote(d) = [d EXCEPT !.link = L]
  BY DEF Demote
<1>2. \A e \in DOMAIN d.link : L[e] = d.link[e]
  BY DEF Settled5
<1>3. L = [e \in DOMAIN d.link |-> L[e]]
  <2> HIDE DEF F
  <2> QED  OBVIOUS
<1> HIDE DEF L
<1> QED  BY <1>1, <1>2, <1>3, NothingNew

\* classifying gives each its reason,
LEMMA ClassifySettles ==
  ASSUME NEW d, Graph(d), Columns(d), NEW disk
  PROVE  LET n == Classify(d, disk)
         IN /\ Same(d, n) /\ Columns(n) /\ Settled6(n, disk)
            /\ \A e \in DOMAIN d.link : /\ n.link[e].to = d.link[e].to
                                        /\ n.link[e].conf = d.link[e].conf
<1> DEFINE F(e) == IF e \in UnresolvedCalls(d)
                   THEN [d.link[e] EXCEPT !.why = Reason(d, disk, e)] ELSE d.link[e]
           L == [e \in DOMAIN d.link |-> F(e)]
           n == [d EXCEPT !.link = L]
<1>1. Classify(d, disk) = n
  BY DEF Classify
<1>2. \A e \in DOMAIN d.link :
        /\ Row(L[e]) /\ L[e].to = d.link[e].to /\ L[e].conf = d.link[e].conf
        /\ e \in UnresolvedCalls(d) => L[e].why = Reason(d, disk, e)
  <2> SUFFICES ASSUME NEW e \in DOMAIN d.link
               PROVE  /\ Row(F(e)) /\ F(e).to = d.link[e].to /\ F(e).conf = d.link[e].conf
                      /\ e \in UnresolvedCalls(d) => F(e).why = Reason(d, disk, e)
    OBVIOUS
  <2>1. Row(d.link[e])
    BY DEF Columns
  <2>2. CASE e \in UnresolvedCalls(d)
    <3>1. F(e) = [d.link[e] EXCEPT !.why = Reason(d, disk, e)]
      BY <2>2
    <3> HIDE DEF F
    <3> QED  BY <2>1, <3>1, OneColumn DEF Row
  <2>3. CASE e \notin UnresolvedCalls(d)
    BY <2>1, <2>3
  <2> QED  BY <2>2, <2>3
<1>3. L = [e \in DOMAIN d.link |-> L[e]]
  <2> HIDE DEF F
  <2> QED  OBVIOUS
<1> HIDE DEF L
<1>4. Same(d, n) /\ Columns(n) /\ n.link = L
  BY <1>2, <1>3, NewColumns
<1> HIDE DEF n
<1>5. UnresolvedCalls(n) = UnresolvedCalls(d)
  BY <1>2, <1>4 DEF UnresolvedCalls, Unresolved, Same
<1>6. UnresolvedCalls(d) \subseteq DOMAIN d.link
  BY DEF UnresolvedCalls, Unresolved
<1>7. Settled6(n, disk)
  BY <1>2, <1>4, <1>5, <1>6, CandidatesDecide DEF Settled6
<1> QED  BY <1>1, <1>2, <1>4, <1>7

LEMMA ClassifyAgain ==
  ASSUME NEW d, Graph(d), Columns(d), NEW disk, Settled6(d, disk)
  PROVE  Classify(d, disk) = d
<1> DEFINE F(e) == IF e \in UnresolvedCalls(d)
                   THEN [d.link[e] EXCEPT !.why = Reason(d, disk, e)] ELSE d.link[e]
           L == [e \in DOMAIN d.link |-> F(e)]
<1>1. Classify(d, disk) = [d EXCEPT !.link = L]
  BY DEF Classify
<1>2. \A e \in DOMAIN d.link : L[e] = d.link[e]
  <2> SUFFICES ASSUME NEW e \in UnresolvedCalls(d), e \in DOMAIN d.link
               PROVE  F(e) = d.link[e]
    OBVIOUS
  <2>1. Row(d.link[e]) /\ d.link[e].why = Reason(d, disk, e)
    BY DEF Columns, Settled6
  <2>2. F(e) = [d.link[e] EXCEPT !.why = Reason(d, disk, e)]
    OBVIOUS
  <2> HIDE DEF F
  <2> QED  BY <2>1, <2>2, OneColumn DEF Row
<1>3. L = [e \in DOMAIN d.link |-> L[e]]
  <2> HIDE DEF F
  <2> QED  OBVIOUS
<1> HIDE DEF L
<1> QED  BY <1>1, <1>2, <1>3, NothingNew

\* The source of an argument depends on rows and links only.
LEMMA SourceDecides ==
  ASSUME NEW d, NEW n, Same(d, n), \A e \in DOMAIN d.link : n.link[e].to = d.link[e].to, NEW e
  PROVE  Source(n, e) = Source(d, e)
<1>1. Symbols(n) = Symbols(d)
  BY RowsDecide DEF Same
<1>2. DOMAIN n.link \ Unresolved(n) = DOMAIN d.link \ Unresolved(d)
  BY DEF Same, Unresolved
<1> DEFINE V(m) == {m.link[x].to : x \in {y \in DOMAIN m.link \ Unresolved(m) :
                                            y.path = e.path /\ y.call.name = e.call.arg}}
<1>3. V(n) = V(d)
  BY <1>2
<1> QED  BY <1>1, <1>3 DEF Source

\* and naming the sources of arguments names every one that has any.
LEMMA ArgSourcesSettles ==
  ASSUME NEW d, Graph(d), Columns(d)
  PROVE  LET n == ArgSources(d)
         IN /\ Same(d, n) /\ Columns(n) /\ Settled8(n)
            /\ \A e \in DOMAIN d.link : /\ n.link[e].to = d.link[e].to
                                        /\ n.link[e].conf = d.link[e].conf
                                        /\ n.link[e].why = d.link[e].why
<1> DEFINE Pick(e) == CHOOSE s \in Source(d, e) : TRUE
           Open(e) == e.call.arg # None /\ d.link[e].arg = None /\ Source(d, e) # {}
           F(e) == IF Open(e) THEN [d.link[e] EXCEPT !.arg = Pick(e)] ELSE d.link[e]
           L == [e \in DOMAIN d.link |-> F(e)]
           n == [d EXCEPT !.link = L]
<1>1. ArgSources(d) = n
  BY DEF ArgSources
<1>2. \A e \in DOMAIN d.link :
        /\ Row(L[e]) /\ L[e].to = d.link[e].to
        /\ L[e].conf = d.link[e].conf /\ L[e].why = d.link[e].why
        /\ IF Open(e) THEN L[e].arg = Pick(e) ELSE L[e].arg = d.link[e].arg
  <2> SUFFICES ASSUME NEW e \in DOMAIN d.link
               PROVE  /\ Row(F(e)) /\ F(e).to = d.link[e].to
                      /\ F(e).conf = d.link[e].conf /\ F(e).why = d.link[e].why
                      /\ IF Open(e) THEN F(e).arg = Pick(e) ELSE F(e).arg = d.link[e].arg
    OBVIOUS
  <2>1. Row(d.link[e])
    BY DEF Columns
  <2> HIDE DEF Open, Pick
  <2>2. CASE Open(e)
    <3>1. F(e) = [d.link[e] EXCEPT !.arg = Pick(e)]
      BY <2>2
    <3> HIDE DEF F
    <3> QED  BY <2>1, <2>2, <3>1, OneColumn DEF Row
  <2>3. CASE ~Open(e)
    BY <2>1, <2>3
  <2> QED  BY <2>2, <2>3
<1>3. L = [e \in DOMAIN d.link |-> L[e]]
  <2> HIDE DEF F
  <2> QED  OBVIOUS
<1> HIDE DEF L
<1>4. Same(d, n) /\ Columns(n) /\ n.link = L
  BY <1>2, <1>3, NewColumns
<1> HIDE DEF n
<1>5. \A e : Source(n, e) = Source(d, e)
  BY <1>2, <1>4, SourceDecides
<1>6. Settled8(n)
  BY <1>2, <1>4, <1>5 DEF Settled8, Same
<1> QED  BY <1>1, <1>2, <1>4, <1>6

LEMMA ArgSourcesAgain ==
  ASSUME NEW d, Graph(d), Columns(d), Settled8(d)
  PROVE  ArgSources(d) = d
<1> DEFINE Pick(e) == CHOOSE s \in Source(d, e) : TRUE
           Open(e) == e.call.arg # None /\ d.link[e].arg = None /\ Source(d, e) # {}
           F(e) == IF Open(e) THEN [d.link[e] EXCEPT !.arg = Pick(e)] ELSE d.link[e]
           L == [e \in DOMAIN d.link |-> F(e)]
<1>1. ArgSources(d) = [d EXCEPT !.link = L]
  BY DEF ArgSources
<1>2. \A e \in DOMAIN d.link : Open(e) => d.link[e].arg = Pick(e)
  BY DEF Settled8
<1>3. \A e \in DOMAIN d.link : L[e] = d.link[e]
  <2> HIDE DEF Open, Pick
  <2> QED  BY <1>2, OneColumn DEF Columns, Row
<1>4. L = [e \in DOMAIN d.link |-> L[e]]
  <2> HIDE DEF F
  <2> QED  OBVIOUS
<1> HIDE DEF L
<1> QED  BY <1>1, <1>3, <1>4, NothingNew
-----------------------------------------------------------------------------
\* What a pass has settled stays so while links are only added,
LEMMA LinkedStays ==
  ASSUME NEW d, NEW n, Same(d, n),
         \A e \in DOMAIN d.link : n.link[e].to = None => d.link[e].to = None
  PROVE  /\ Settled1(d) => Settled1(n)
         /\ Settled2(d) => Settled2(n)
         /\ Settled3(d) => Settled3(n)
         /\ Settled4(d) => Settled4(n)
<1>1. Unresolved(n) \subseteq Unresolved(d)
  BY DEF Same, Unresolved
<1>2. InMethod(n) \subseteq InMethod(d) /\ Ownerless(n) \subseteq Ownerless(d)
  BY <1>1, CandidatesDecide DEF InMethod, Ownerless, UnresolvedCalls
<1> QED  BY <1>1, <1>2, CandidatesDecide DEF Settled1, Settled2, Settled3, Settled4

\* and what is not linked keeps its confidence,
LEMMA CappedStays ==
  ASSUME NEW d, NEW n, Same(d, n), Settled5(d),
         \A e \in DOMAIN d.link :
           n.link[e].to = None => d.link[e].to = None /\ n.link[e].conf = d.link[e].conf
  PROVE  Settled5(n)
BY DEF Same, Settled5, UnresolvedCalls, Unresolved

\* and its reason.
LEMMA ReasonStays ==
  ASSUME NEW d, NEW n, Same(d, n), NEW disk,
         \A e \in DOMAIN d.link :
           n.link[e].to = None => d.link[e].to = None /\ n.link[e].why = d.link[e].why
  PROVE  /\ Settled6(d, disk) => Settled6(n, disk)
         /\ Settled7(d, disk) => Settled7(n, disk)
<1>1. UnresolvedCalls(n) \subseteq UnresolvedCalls(d)
  BY DEF Same, UnresolvedCalls, Unresolved
<1>2. \A e \in UnresolvedCalls(n) : n.link[e].why = d.link[e].why
  BY DEF Same, UnresolvedCalls, Unresolved
<1>3. Received(n, disk) \subseteq Received(d, disk)
  BY <1>1, <1>2 DEF Received
<1> QED  BY <1>1, <1>2, <1>3, CandidatesDecide DEF Settled6, Settled7

Settled(d, disk) ==
  /\ Settled1(d) /\ Settled2(d) /\ Settled3(d) /\ Settled4(d)
  /\ Settled5(d) /\ Settled6(d, disk) /\ Settled7(d, disk) /\ Settled8(d)

\* resolveEdges settles the graph for every one of its passes,
LEMMA ResolveSettles ==
  ASSUME NEW d, Graph(d), Columns(d), NEW disk
  PROVE  LET n == ResolveEdges(d, disk)
         IN Graph(n) /\ Columns(n) /\ Settled(n, disk)
<1> DEFINE d1 == SameFile(d)
           d2 == OwnClass(d1)
           d3 == OnlyMethod(d2)
           d4 == ViaImports(d3)
           d5 == Demote(d4)
           d6 == Classify(d5, disk)
           d7 == ReceiverTypes(d6, disk)
           d8 == ArgSources(d7)
           Four(x) == Settled1(x) /\ Settled2(x) /\ Settled3(x) /\ Settled4(x)
<1>0. ResolveEdges(d, disk) = d8
  BY DEF ResolveEdges, Pass
<1>1. Graph(d1) /\ Columns(d1) /\ Settled1(d1)
  BY SameFileRelinks, RelinksKeeps, SameFileSettles
<1> HIDE DEF d1
<1>2. Graph(d2) /\ Columns(d2) /\ Settled1(d2) /\ Settled2(d2)
  BY <1>1, OwnClassRelinks, RelinksKeeps, OwnClassSettles, LinkedStays DEF Binds
<1> HIDE DEF d2
<1>3. Graph(d3) /\ Columns(d3) /\ Settled1(d3) /\ Settled2(d3) /\ Settled3(d3)
  BY <1>2, OnlyMethodRelinks, RelinksKeeps, OnlyMethodSettles, LinkedStays DEF Binds
<1> HIDE DEF d3
<1>4. Graph(d4) /\ Columns(d4) /\ Four(d4)
  BY <1>3, ViaImportsRelinks, RelinksKeeps, ViaImportsSettles, LinkedStays DEF Binds
<1> HIDE DEF d4
<1>5. Graph(d5) /\ Columns(d5) /\ Four(d5) /\ Settled5(d5)
  BY <1>4, DemoteRelinks, RelinksKeeps, DemoteSettles, LinkedStays
<1> HIDE DEF d5
<1>6. Graph(d6) /\ Columns(d6) /\ Four(d6) /\ Settled5(d6) /\ Settled6(d6, disk)
  BY <1>5, ClassifyRelinks, RelinksKeeps, ClassifySettles, LinkedStays, CappedStays
<1> HIDE DEF d6
<1>7. /\ Graph(d7) /\ Columns(d7) /\ Four(d7)
      /\ Settled5(d7) /\ Settled6(d7, disk) /\ Settled7(d7, disk)
  <2>1. Graph(d7)
    BY <1>6, ReceiverTypesRelinks, RelinksKeeps
  <2>2. Binds(d6, d7) /\ Columns(d7) /\ Settled7(d7, disk)
    BY <1>6, ReceiverTypesSettles
  <2> HIDE DEF d7
  <2> QED  BY <1>6, <2>1, <2>2, LinkedStays, CappedStays, ReasonStays DEF Binds
<1> HIDE DEF d7
<1>8. Graph(d8) /\ Columns(d8) /\ Settled(d8, disk)
  <2>1. Graph(d8)
    BY <1>7, ArgSourcesRelinks, RelinksKeeps
  <2>2. /\ Same(d7, d8) /\ Columns(d8) /\ Settled8(d8)
        /\ \A e \in DOMAIN d7.link : /\ d8.link[e].to = d7.link[e].to
                                     /\ d8.link[e].conf = d7.link[e].conf
                                     /\ d8.link[e].why = d7.link[e].why
    BY <1>7, ArgSourcesSettles
  <2> HIDE DEF d8
  <2> QED  BY <1>7, <2>1, <2>2, LinkedStays, CappedStays, ReasonStays DEF Settled
<1> QED  BY <1>0, <1>8

\* so that resolving a second time changes nothing, whatever the tables held
\* before the first.
THEOREM ResolveTwice ==
  ASSUME NEW d, Graph(d), Columns(d), NEW disk
  PROVE  ResolveEdges(ResolveEdges(d, disk), disk) = ResolveEdges(d, disk)
<1> DEFINE n == ResolveEdges(d, disk)
<1>1. Graph(n) /\ Columns(n) /\ Settled(n, disk)
  BY ResolveSettles
<1> HIDE DEF n
<1>2. /\ SameFile(n) = n /\ OwnClass(n) = n /\ OnlyMethod(n) = n /\ ViaImports(n) = n
      /\ Demote(n) = n /\ Classify(n, disk) = n /\ ReceiverTypes(n, disk) = n
      /\ ArgSources(n) = n
  BY <1>1, SameFileAgain, OwnClassAgain, OnlyMethodAgain, ViaImportsAgain, DemoteAgainLeaves,
     ClassifyAgain, ReceiverTypesAgain, ArgSourcesAgain DEF Settled
<1>3. ResolveEdges(n, disk) =
        ArgSources(ReceiverTypes(Classify(Demote(ViaImports(OnlyMethod(OwnClass(SameFile(n)))))
                                          , disk), disk))
  BY DEF ResolveEdges, Pass
<1> QED  BY <1>2, <1>3 DEF n

\* The writes keep the columns too: a new edge has all four, and losing its
\* symbols leaves one its row.
LEMMA InsertColumns ==
  ASSUME NEW d, Columns(d), NEW new
  PROVE  Columns(InsertExtracted(d, new))
BY DEF InsertExtracted, Columns, Fresh, Row

LEMMA TwoColumns ==
  ASSUME NEW x, Row(x), NEW a, NEW b
  PROVE  [x EXCEPT !.to = a, !.arg = b] = [to |-> a, conf |-> x.conf, why |-> x.why, arg |-> b]
<1> DEFINE y == [x EXCEPT !.to = a]
<1>1. y = [to |-> a, conf |-> x.conf, why |-> x.why, arg |-> x.arg]
  BY DEF Row
<1>2. [x EXCEPT !.to = a, !.arg = b] = [y EXCEPT !.arg = b]
  OBVIOUS
<1> HIDE DEF y
<1>3. [y EXCEPT !.arg = b] = [to |-> a, conf |-> x.conf, why |-> x.why, arg |-> b]
  BY <1>1
<1> QED  BY <1>2, <1>3

LEMMA DeleteColumns ==
  ASSUME NEW d, Columns(d), NEW p
  PROVE  Columns(Delete(d, p))
<1> DEFINE Cut(s) == IF s # None /\ s.path = p THEN None ELSE s
           E == {x \in DOMAIN d.link : x.path # p}
           G(e) == [d.link[e] EXCEPT !.to = Cut(@), !.arg = Cut(@)]
<1>1. Delete(d, p).link = [e \in E |-> G(e)]
  BY DEF Delete
<1>2. ASSUME NEW e \in E PROVE Row(G(e))
  <2> HIDE DEF Cut
  <2>1. Row(d.link[e])
    BY DEF Columns
  <2>2. G(e) = [to |-> Cut(d.link[e].to), conf |-> d.link[e].conf,
                why |-> d.link[e].why, arg |-> Cut(d.link[e].arg)]
    BY <2>1, TwoColumns
  <2> QED  BY <2>2 DEF Row
<1> HIDE DEF G
<1> QED  BY <1>1, <1>2 DEF Columns

LEMMA ReplaceColumns ==
  ASSUME NEW d, Columns(d), NEW p, NEW v
  PROVE  Columns(Replace(d, p, v))
<1> DEFINE n == InsertExtracted(Delete(d, p), [q \in {p} |-> v])
<1>1. Columns(n)
  BY DeleteColumns, InsertColumns
<1>2. Replace(d, p, v) = [n EXCEPT !.bare = @ \cup {p}]
  BY DEF Replace
<1>3. n = [rows |-> n.rows, bare |-> n.bare, link |-> n.link]
  BY DEF InsertExtracted
<1> HIDE DEF n
<1>4. Replace(d, p, v).link = n.link
  BY <1>2, <1>3
<1> QED  BY <1>1, <1>4 DEF Columns

LEMMA EmptyColumns == Columns(Empty)
BY DEF Columns, Empty
=============================================================================
