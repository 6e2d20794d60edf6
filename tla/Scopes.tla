------------------------------- MODULE Scopes -------------------------------
(***************************************************************************)
(* The steps by which resolveScope (packages/core/src/graph/scope.ts)      *)
(* collects files: one file that addFile is called for, or one list of     *)
(* files that is read, in each.                                            *)
(*                                                                         *)
(* A request q is [own, seeds, together, imports, importers, size,         *)
(* maxFiles, maxLoc, maxDepth]: the files it names, with and without those *)
(* that no parser reads; what changed with a file, what its imports        *)
(* resolve to and which files import it, in the code's order and as far as *)
(* a parser reads them; their lines; and the budget.                       *)
(***************************************************************************)
EXTENDS Naturals, Sequences

\* The lines of the files.
LocOf(size, files) ==
  LET upTo[n \in 0 .. Len(files)] == IF n = 0 THEN 0 ELSE upTo[n - 1] + size[files[n]]
  IN upTo[Len(files)]

Has(files, f) == \E i \in DOMAIN files : files[i] = f

\* A scope w grows at pc.  files, loc, cap, seeds and next are the variables
\* of the code (next also while the first files come together); ahead are the
\* files whose lists its loops have left, todo what is left of the list being
\* read, and left the rounds.
StartScope(q) ==
  LET loc == LocOf(q.size, q.own)
      cap == IF loc >= q.maxLoc THEN "maxLoc"
             ELSE IF Len(q.own) >= q.maxFiles THEN "maxFiles" ELSE "none"
  IN [pc |-> IF cap = "none" THEN "together" ELSE "done", files |-> q.own, loc |-> loc,
      cap |-> cap, seeds |-> q.seeds, ahead |-> q.seeds, todo |-> <<>>, next |-> <<>>,
      left |-> q.maxDepth]

\* Mutant: a file that does not fit is only left out.
OfferForgetting(q, w) ==
  LET f == Head(w.todo)
      rest == [w EXCEPT !.todo = Tail(@)]
  IN IF Has(w.files, f) \/ Len(w.files) >= q.maxFiles \/ w.loc + q.size[f] > q.maxLoc THEN rest
     ELSE [rest EXCEPT !.files = Append(@, f), !.loc = @ + q.size[f], !.next = Append(@, f),
                       !.seeds = IF w.pc = "together" THEN Append(@, f) ELSE @]

\* addFile, and what its callers do with its answer: every loop ends at the
\* first file that does not fit.
Offer(q, w) ==
  LET f == Head(w.todo)
      rest == [w EXCEPT !.todo = Tail(@)]
  IN IF Has(w.files, f) THEN rest
     ELSE IF Len(w.files) >= q.maxFiles THEN [w EXCEPT !.cap = "maxFiles", !.pc = "done"]
     ELSE IF w.loc + q.size[f] > q.maxLoc THEN [w EXCEPT !.cap = "maxLoc", !.pc = "done"]
     ELSE [rest EXCEPT !.files = Append(@, f), !.loc = @ + q.size[f], !.next = Append(@, f),
                       !.seeds = IF w.pc = "together" THEN Append(@, f) ELSE @]

ReadList(w, lists) == [w EXCEPT !.todo = lists[Head(w.ahead)], !.ahead = Tail(@)]

\* What changed with the seeds; then all files there are are the frontier.
TogetherNext(q, w) ==
  IF w.todo # <<>> THEN Offer(q, w)
  ELSE IF w.ahead # <<>> THEN ReadList(w, q.together)
  ELSE [w EXCEPT !.pc = "imports", !.next = w.files]

\* A round reads the imports of the files that the one before it added.
ImportsNext(q, w) ==
  IF w.todo # <<>> THEN Offer(q, w)
  ELSE IF w.ahead # <<>> THEN ReadList(w, q.imports)
  ELSE IF w.left = 0 \/ w.next = <<>> THEN [w EXCEPT !.pc = "importers", !.ahead = w.seeds]
  ELSE [w EXCEPT !.left = @ - 1, !.ahead = w.next, !.next = <<>>]

ImportersNext(q, w) ==
  IF w.todo # <<>> THEN Offer(q, w)
  ELSE IF w.ahead # <<>> THEN ReadList(w, q.importers)
  ELSE [w EXCEPT !.pc = "done"]
=============================================================================
