------------------------------- MODULE Resolve -------------------------------
(***************************************************************************)
(* The code graph of one repository: the tables files, symbols, edges and  *)
(* arg_bindings (graph/schema.sql), what inserting and deleting a file does *)
(* to them, and the passes of resolveEdges (graph/resolve.ts).             *)
(*                                                                         *)
(* A file's content is a version v; Code[v] is what extractFile returns    *)
(* for it.  A symbol row is named by its path and its extracted symbol, an  *)
(* edge row by its path and its call: both go when the file's rows go.     *)
(***************************************************************************)
EXTENDS Integers, Sequences, FiniteSets

CONSTANTS
  Paths, Versions, None,
  Code,      \* [Versions -> [syms, calls, imports]]
  Lookup,    \* the paths an import specifier may mean, in the order tried
  Relative,  \* the specifiers that start with "."
  Stdlib     \* isStdlibName

\* A symbol's `in` is the name of its class (methods) or function (params,
\* locals); its type the class its annotation names.
Symbol == [name : STRING, kind : {"function", "method", "class", "const", "param", "local"},
           in : STRING \cup {None}, type : STRING \cup {None}]

\* A call's `in` is the caller's class, recv the identifier before the dot,
\* arg the identifier it passes.
Call == [kind : {"CALLS", "EXTENDS"}, from : STRING, in : STRING \cup {None},
         name : STRING, recv : STRING \cup {None}, arg : STRING \cup {None}]

Import == [local : STRING, module : STRING, name : STRING]

ASSUME CodeAssumption ==
  /\ DOMAIN Code = Versions
  /\ \A v \in Versions :
       /\ \A s \in Code[v].syms : s \in Symbol
       /\ \A c \in Code[v].calls : c \in Call
       /\ \A i \in Code[v].imports : i \in Import
ASSUME NoneAssumption ==
  /\ None \notin Versions /\ None \notin STRING
  /\ None \notin [path : Paths, sym : Symbol]

(* A graph db is [rows, bare, link]: the content whose rows a path has, the *)
(* paths whose rows reExtractFile inserted, and the columns of each edge.   *)

Empty == [rows |-> [p \in Paths |-> None], bare |-> {}, link |-> <<>>]

Indexed(db) == {p \in Paths : db.rows[p] # None}

\* reExtractFile writes neither the parameters' symbols nor type_text.
FileSyms(db, p) ==
  IF p \in db.bare
  THEN {[s EXCEPT !.type = None] : s \in {t \in Code[db.rows[p]].syms : t.kind # "param"}}
  ELSE Code[db.rows[p]].syms

Symbols(db) ==
  UNION {{[path |-> p, sym |-> s] : s \in FileSyms(db, p)} : p \in Indexed(db)}

Edges(rows) ==
  UNION {{[path |-> p, call |-> c] : c \in Code[rows[p]].calls} :
         p \in {q \in DOMAIN rows : rows[q] # None}}

\* The columns of an edge: to_symbol_id, confidence (in tenths),
\* resolution_kind, and source_symbol_id of its argument.
Fresh == [to |-> None, conf |-> 10, why |-> None, arg |-> None]
-----------------------------------------------------------------------------
(* Writes.                                                                 *)

\* insertExtracted, all files in one transaction.
InsertExtracted(db, new) ==
  [rows |-> [p \in Paths |-> IF p \in DOMAIN new THEN new[p] ELSE db.rows[p]],
   bare |-> db.bare,
   link |-> [e \in DOMAIN db.link \cup Edges(new) |->
               IF e \in DOMAIN db.link THEN db.link[e] ELSE Fresh]]

\* Mutant: without foreign_keys = ON nothing is set to NULL.
DeleteDangling(db, p) ==
  [rows |-> [db.rows EXCEPT ![p] = None],
   bare |-> db.bare \ {p},
   link |-> [e \in {x \in DOMAIN db.link : x.path # p} |-> db.link[e]]]

\* DELETE FROM files: ON DELETE CASCADE, and SET NULL on what pointed there.
Delete(db, p) ==
  LET Cut(s) == IF s # None /\ s.path = p THEN None ELSE s
  IN [rows |-> [db.rows EXCEPT ![p] = None],
      bare |-> db.bare \ {p},
      link |-> [e \in {x \in DOMAIN db.link : x.path # p} |->
                  [db.link[e] EXCEPT !.to = Cut(@), !.arg = Cut(@)]]]

\* Mutant: the files row is updated in place, so nothing cascades.
ReplaceInPlace(db, p, v) ==
  LET new == InsertExtracted(db, [q \in {p} |-> v])
  IN [new EXCEPT !.bare = @ \cup {p}]

\* reExtractFile's transaction.
Replace(db, p, v) ==
  LET gone == Delete(db, p)
      new  == InsertExtracted(gone, [q \in {p} |-> v])
  IN [new EXCEPT !.bare = @ \cup {p}]
-----------------------------------------------------------------------------
(* resolveEdges.                                                           *)

Unresolved(db)      == {e \in DOMAIN db.link : db.link[e].to = None}
UnresolvedCalls(db) == {e \in Unresolved(db) : e.call.kind = "CALLS"}

\* UPDATE the edges of E that have exactly one candidate.
Bind(db, E, Candidates(_), Set(_, _)) ==
  [db EXCEPT !.link = [e \in DOMAIN db.link |->
     IF e \in E /\ Cardinality(Candidates(e)) = 1
     THEN Set(db.link[e], CHOOSE s \in Candidates(e) : TRUE)
     ELSE db.link[e]]]

\* 1. The one symbol of the file with the called name, whatever its kind.
SameFile(db) ==
  Bind(db, Unresolved(db),
       LAMBDA e : {s \in Symbols(db) : s.path = e.path /\ s.sym.name = e.call.name},
       LAMBDA l, s : [l EXCEPT !.to = s])

OwnMethods(db, e) ==
  {s \in Symbols(db) : /\ s.path = e.path /\ s.sym.kind = "method"
                       /\ s.sym.in = e.call.in /\ s.sym.name = e.call.name}

AllMethods(db, e) ==
  {s \in Symbols(db) : s.sym.kind = "method" /\ s.sym.name = e.call.name}

\* 2. A method called from a method: of the same class,
OwnClass(db) ==
  Bind(db, {e \in UnresolvedCalls(db) : e.call.in # None},
       LAMBDA e : OwnMethods(db, e),
       LAMBDA l, s : [l EXCEPT !.to = s, !.conf = 10])

\* else the only one of that name in the repository.
OnlyMethod(db) ==
  Bind(db, {e \in UnresolvedCalls(db) : e.call.in # None /\ OwnMethods(db, e) = {}},
       LAMBDA e : AllMethods(db, e),
       LAMBDA l, s : [l EXCEPT !.to = s, !.conf = 7])

\* The import a name is bound by, in the file of e.
ImportsOf(db, e) == {i \in Code[db.rows[e.path]].imports : i.local = e.call.name}

\* resolveImportTargetFileId: the first path the specifier may mean that is
\* indexed.
IsTarget(db, i, p) ==
  \E n \in DOMAIN Lookup[i.module] :
    /\ Lookup[i.module][n] = p
    /\ p \in Indexed(db)
    /\ \A m \in 1..(n-1) : Lookup[i.module][m] \notin Indexed(db)

Imported(db, e) ==
  {s \in Symbols(db) :
     /\ s.sym.in = None
     /\ \E i \in ImportsOf(db, e) :
          /\ IsTarget(db, i, s.path)
          /\ s.sym.name = IF i.name = "*" THEN e.call.name ELSE i.name}

\* Mutant: what is linked already is linked once more.
ViaImportsAnew(db) ==
  Bind(db, DOMAIN db.link, LAMBDA e : Imported(db, e),
       LAMBDA l, s : [l EXCEPT !.to = s, !.conf = 10])

\* 3. The top-level symbol an import binds the name to.
ViaImports(db) ==
  Bind(db, Unresolved(db), LAMBDA e : Imported(db, e),
       LAMBDA l, s : [l EXCEPT !.to = s, !.conf = 10])

\* Mutant: halves what is left instead of capping it.
DemoteAgain(db) ==
  [db EXCEPT !.link = [e \in DOMAIN db.link |->
     IF e \in UnresolvedCalls(db)
     THEN [db.link[e] EXCEPT !.conf = @ \div 2] ELSE db.link[e]]]

\* 4. Whatever is still unresolved.
Demote(db) ==
  [db EXCEPT !.link = [e \in DOMAIN db.link |->
     IF e \in UnresolvedCalls(db) /\ db.link[e].conf > 5
     THEN [db.link[e] EXCEPT !.conf = 5] ELSE db.link[e]]]

\* The call's line in the file as it is on disk now: that of another version
\* shows the receiver only if it holds the same call.
LineHolds(disk, e) == disk[e.path] # None /\ e.call \in Code[disk[e.path]].calls

Reason(db, disk, e) ==
  IF e.call.name \in Stdlib THEN "stdlib"
  ELSE IF \E i \in ImportsOf(db, e) : i.module \notin Relative THEN "external_module"
  ELSE IF e.call.recv # None /\ LineHolds(disk, e) THEN "instance_method"
  ELSE "unknown"

\* 5. Why it is unresolved.
Classify(db, disk) ==
  [db EXCEPT !.link = [e \in DOMAIN db.link |->
     IF e \in UnresolvedCalls(db)
     THEN [db.link[e] EXCEPT !.why = Reason(db, disk, e)] ELSE db.link[e]]]

\* The methods of the classes the receiver's annotation may mean.
OfReceiver(db, e) ==
  {m \in Symbols(db) :
     /\ m.sym.kind = "method" /\ m.sym.name = e.call.name
     /\ \E c \in Symbols(db) :
          /\ c.sym.kind = "class" /\ c.path = m.path /\ m.sym.in = c.sym.name
          /\ \E r \in FileSyms(db, e.path) :
               /\ r.kind \in {"param", "local"}
               /\ r.in = e.call.from /\ r.name = e.call.recv
               /\ r.type = c.sym.name}

\* 6. Receiver-type inference.
ReceiverTypes(db, disk) ==
  Bind(db,
       {e \in UnresolvedCalls(db) : /\ db.link[e].why = "instance_method"
                                    /\ e.call.recv # None /\ LineHolds(disk, e)},
       LAMBDA e : OfReceiver(db, e),
       LAMBDA l, s : [l EXCEPT !.to = s, !.conf = 8, !.why = None])

\* Where an argument comes from: a parameter, else a local of the caller, else
\* a top-level symbol of the file, else what a call of that name resolved to.
Source(db, e) ==
  LET Own(k) == {s \in Symbols(db) : /\ s.path = e.path /\ s.sym.kind = k
                                     /\ s.sym.in = e.call.from /\ s.sym.name = e.call.arg}
      top    == {s \in Symbols(db) : s.path = e.path /\ s.sym.in = None /\ s.sym.name = e.call.arg}
      via    == {db.link[x].to : x \in {y \in DOMAIN db.link \ Unresolved(db) :
                                          y.path = e.path /\ y.call.name = e.call.arg}}
  IN IF Own("param") # {} THEN Own("param")
     ELSE IF Own("local") # {} THEN Own("local")
     ELSE IF top # {} THEN top ELSE via

\* 7. resolveArgBindingSources.
ArgSources(db) ==
  [db EXCEPT !.link = [e \in DOMAIN db.link |->
     IF e.call.arg # None /\ db.link[e].arg = None /\ Source(db, e) # {}
     THEN [db.link[e] EXCEPT !.arg = CHOOSE s \in Source(db, e) : TRUE]
     ELSE db.link[e]]]

\* The value of F at d.  (Binding d as an element makes TLC evaluate it once.)
Pass(d, F(_)) == CHOOSE r \in {F(x) : x \in {d}} : TRUE

ResolveEdges(db, disk) ==
  LET local  == Pass(Pass(SameFile(db), OwnClass), OnlyMethod)
      linked == Pass(Pass(local, ViaImports), Demote)
      marked == Pass(linked, LAMBDA d : Classify(d, disk))
  IN Pass(Pass(marked, LAMBDA d : ReceiverTypes(d, disk)), ArgSources)

\* What a full index of these contents yields.
FullGraph(content) == ResolveEdges(InsertExtracted(Empty, content), content)

\* What a link may rest on: an own or imported symbol, a method of the caller's
\* class, of the receiver's, or of that name.
Grounds(db, e) ==
  {s \in Symbols(db) :
     \/ s.sym.name = e.call.name /\ (s.path = e.path \/ s.sym.kind = "method")
     \/ s.sym.in = None /\ \E i \in ImportsOf(db, e) :
          /\ \E n \in DOMAIN Lookup[i.module] : Lookup[i.module][n] = s.path
          /\ s.sym.name = IF i.name = "*" THEN e.call.name ELSE i.name}
=============================================================================
