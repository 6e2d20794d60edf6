----------------------------- MODULE PathSearch -----------------------------
(***************************************************************************)
(* pathBetween as a behaviour: the search for an answer to one question,   *)
(* step by step, and what the answer must be.                              *)
(***************************************************************************)
EXTENDS Paths

CONSTANTS
  Symbols,    \* of the graph
  Questions   \* what pathBetween is asked

Kinds == {"CALLS", "ARG_BIND"}
Row == [to : Symbols, kind : Kinds]

ASSUME QuestionsAssumption ==
  Questions \subseteq [seeds : Seq(Symbols), goals : SUBSET Symbols,
                       hops : [Symbols -> Seq(Row)], max : Nat]

VARIABLES
  ask,      \* the question
  search    \* where the search for its answer is

pathVars == <<ask, search>>

PathInit == ask \in Questions /\ search = StartSearch(ask)

Seed == search.pc = "seed" /\ search' = SeedNext(ask, search) /\ UNCHANGED ask
Take == search.pc = "take" /\ search' = TakeNext(ask, search) /\ UNCHANGED ask
Read == search.pc = "read" /\ search' = ReadNext(ask, search) /\ UNCHANGED ask
Trace == search.pc = "trail" /\ search' = TrailNext(ask, search) /\ UNCHANGED ask

PathNext == Seed \/ Take \/ Read \/ Trace

PathSpec == PathInit /\ [][PathNext]_pathVars
-----------------------------------------------------------------------------
(* What the answer must be.                                                *)

Sources(q) == {q.seeds[i] : i \in DOMAIN q.seeds}

\* A row of s leads to t, by a call or by a flow.
HopBy(q, s, t, kind) == \E i \in DOMAIN q.hops[s] : q.hops[s][i] = [to |-> t, kind |-> kind]
Hop(q, s, t) == \E kind \in Kinds : HopBy(q, s, t, kind)

\* A walk of n hops leads from a seed to s.
IsWalk(q, p, n) == p[0] \in Sources(q) /\ \A i \in 1..n : Hop(q, p[i - 1], p[i])
Reaches(q, s, n) == \E p \in [0..n -> Symbols] : IsWalk(q, p, n) /\ p[n] = s

\* No walk of fewer than n hops leads to a goal.
NoneBefore(q, n) == \A m \in 0..n : m < n => \A t \in q.goals : ~Reaches(q, t, m)

IsRoute(q, route) ==
  /\ route[1].id \in Sources(q) /\ route[Len(route)].id \in q.goals
  /\ \A i \in 2..Len(route) : HopBy(q, route[i - 1].id, route[i].id, route[i].kind)

\* pathBetween answers with a path along calls and flows, each step under its
\* own kind, from a symbol of the one name to one of the other, such that no
\* path is shorter; and with null only if there is no path up to the depth
\* asked for.
RouteShortest ==
  search.pc = "done" =>
    IF search.route = <<>> THEN NoneBefore(ask, ask.max + 1)
    ELSE /\ IsRoute(ask, search.route)
         /\ Len(search.route) <= ask.max + 1
         /\ NoneBefore(ask, Len(search.route) - 1)
=============================================================================
