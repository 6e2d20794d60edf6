------------------------------- MODULE Viewer -------------------------------
(***************************************************************************)
(* cgrca-view (packages/ui): viewer processes that publish where they      *)
(* listen in ~/.cgrca/bridge.json, share one selection with agents and     *)
(* browser tabs over /api/bridge, and show the RCA result a terminal left  *)
(* next to the session file.                                               *)
(*                                                                         *)
(* A selection is POSTed to a port and reaches whatever viewer listens     *)
(* there by then; the viewer stores it and sends it to every socket it     *)
(* has.  The POSTs of one tab travel on several connections and may        *)
(* overtake each other; a socket delivers in order.  RCA results are       *)
(* numbered in the order they are written; 0 is none.                      *)
(***************************************************************************)
EXTENDS Naturals, Sequences, SequencesExt, FiniteSets, FiniteSetsExt

CONSTANTS
  Viewers, Tabs, Symbols, None,
  Ports,      \* 7331..7340
  MaxPosts,   \* bound on a tab's POSTs under way
  MaxActs     \* bound on what users, agents and clocks do

ASSUME ViewerAssumption ==
  /\ None \notin Symbols \cup Viewers \cup Ports
  /\ Ports \subseteq Nat /\ MaxPosts \in Nat /\ MaxActs \in Nat

VARIABLES
  file,     \* the port in bridge.json, or None
  up,       \* each viewer: "off", "listening" (file not written yet), "up"
  port,     \* the port it listens on
  current,  \* BridgeState.current
  snapshot, \* SessionRecord.snapshot: the result read when the session was loaded
  sidecar,  \* the latest result on disk
  tab,      \* each browser tab
  out,      \* its POSTs under way
  inbox,    \* the events on its socket
  acts      \* counter for the bound

served  == <<file, up, port, current, snapshot, sidecar>>
viewing == <<tab, out, inbox>>
viewerVars == <<served, viewing, acts>>

\* The page a tab has open, by port; the store (state/session.ts); the viewer
\* at the other end of the mounted view's socket and what that view fetched.
\* "synced" is auxiliary: the socket has brought an event.
NoTab == [page |-> None, view |-> "graph", local |-> None, socket |-> None,
          shown |-> 0, live |-> FALSE, synced |-> FALSE]

ViewerInit ==
  /\ file = None
  /\ up = [v \in Viewers |-> "off"]
  /\ port = [v \in Viewers |-> None]
  /\ current = [v \in Viewers |-> None]
  /\ snapshot = [v \in Viewers |-> 0]
  /\ sidecar = 0
  /\ tab = [t \in Tabs |-> NoTab]
  /\ out = [t \in Tabs |-> <<>>]
  /\ inbox = [t \in Tabs |-> <<>>]
  /\ acts = 0

\* A bounded step of the world outside.
Act == acts < MaxActs /\ acts' = acts + 1

At(p) == {v \in Viewers : up[v] # "off" /\ port[v] = p}
-----------------------------------------------------------------------------
(* Processes and the lock file.                                            *)

\* createServer loads the sessions with their sidecars; listenWithFallback
\* takes the first port that is free.
Listen(v) ==
  /\ Act
  /\ up[v] = "off"
  /\ \E p \in Ports : At(p) = {}
  /\ port' = [port EXCEPT ![v] = Min({p \in Ports : At(p) = {}})]
  /\ up' = [up EXCEPT ![v] = "listening"]
  /\ current' = [current EXCEPT ![v] = None]
  /\ snapshot' = [snapshot EXCEPT ![v] = sidecar]
  /\ UNCHANGED <<file, sidecar, viewing>>

\* writeBridgeFile, over whatever is there.
Announce(v) ==
  /\ up[v] = "listening"
  /\ up' = [up EXCEPT ![v] = "up"]
  /\ file' = port[v]
  /\ UNCHANGED <<port, current, snapshot, sidecar, viewing, acts>>

\* The sockets of its tabs close, the pages stay; no view opens another socket.
Leave(v) ==
  /\ up' = [up EXCEPT ![v] = "off"]
  /\ port' = [port EXCEPT ![v] = None]
  /\ tab' = [t \in Tabs |-> IF tab[t].socket = v THEN [tab[t] EXCEPT !.socket = None]
                            ELSE tab[t]]
  /\ inbox' = [t \in Tabs |-> IF tab[t].socket = v THEN <<>> ELSE inbox[t]]
  /\ UNCHANGED <<current, snapshot, sidecar, out>>

\* shutdown: removeBridgeFile unlinks the file, whoever wrote it, and the same
\* turn of the event loop closes the server.
Shutdown(v) == Act /\ up[v] = "up" /\ file' = None /\ Leave(v)

Crash(v) == Act /\ up[v] # "off" /\ Leave(v) /\ UNCHANGED file
-----------------------------------------------------------------------------
(* The bridge.                                                             *)

\* broadcast: to the sockets of the views of one kind.
Sockets(v, view) == {t \in Tabs : tab[t].socket = v /\ tab[t].view = view}

Send(v, view, event) ==
  inbox' = [t \in Tabs |-> IF t \in Sockets(v, view)
                           THEN Append(inbox[t], event) ELSE inbox[t]]

\* POST /api/bridge/select at port p.  A port nobody listens on refuses.
Select(p, s) ==
  /\ \A v \in At(p) : /\ current' = [current EXCEPT ![v] = s]
                      /\ Send(v, "graph", [kind |-> "select", value |-> s])
  /\ At(p) = {} => UNCHANGED <<current, inbox>>

\* The browser opens the viewer's page: GraphView mounts with an empty store.
OpenTab(t, v) ==
  /\ Act
  /\ tab[t].page = None /\ up[v] # "off"
  /\ tab' = [tab EXCEPT ![t] = [NoTab EXCEPT !.page = port[v], !.socket = v]]
  /\ UNCHANGED <<served, out, inbox>>

\* selectSymbol: the store changes and the selection is published.
Publish(t, s) == out' = [out EXCEPT ![t] = Append(@, s)]

Click(t, s) ==
  /\ Act
  /\ tab[t].page # None
  /\ Len(out[t]) < MaxPosts
  /\ tab' = [tab EXCEPT ![t].local = s]
  /\ Publish(t, s)
  /\ UNCHANGED <<served, inbox>>

\* A candidate without a file or a line is selected in this tab only; the nodes
\* of the graph view have both.
ClickUnplaced(t, s) ==
  /\ Act
  /\ tab[t].page # None
  /\ tab[t].view = "rca"
  /\ tab' = [tab EXCEPT ![t].local = s]
  /\ UNCHANGED <<served, out, inbox>>

\* rcaMutation.onSuccess: the live result is shown from now on and the
\* selection is cleared.
Investigate(t) ==
  /\ Act
  /\ tab[t].page # None
  /\ tab[t].view = "rca"
  /\ Len(out[t]) < MaxPosts
  /\ tab' = [tab EXCEPT ![t].live = TRUE, ![t].local = None]
  /\ Publish(t, None)
  /\ UNCHANGED <<served, inbox>>

\* Mutant: a failed fetch shows nothing.
SnapshotOrNull(p, old) ==
  IF At(p) = {} THEN None ELSE snapshot[CHOOSE v \in At(p) : TRUE]

\* GET /api/session/:id/rca at port p, for a view that shows `old`.
Snapshot(p, old) == IF At(p) = {} THEN old ELSE snapshot[CHOOSE v \in At(p) : TRUE]

\* setView: one view unmounts, its socket closes, the other opens its own.
SwitchView(t) ==
  /\ Act
  /\ tab[t].page # None
  /\ LET to == IF tab[t].view = "graph" THEN "rca" ELSE "graph"
         there == At(tab[t].page)
     IN tab' = [tab EXCEPT
          ![t].view = to, ![t].synced = FALSE,
          ![t].socket = IF there = {} THEN None ELSE CHOOSE v \in there : TRUE,
          ![t].shown = IF to = "rca" THEN Snapshot(tab[t].page, @) ELSE @]
  /\ inbox' = [inbox EXCEPT ![t] = <<>>]
  /\ UNCHANGED <<served, out>>

Deliver(t) ==
  /\ \E i \in DOMAIN out[t] : /\ Select(tab[t].page, out[t][i])
                              /\ out' = [out EXCEPT ![t] = RemoveAt(@, i)]
  /\ UNCHANGED <<file, up, port, snapshot, sidecar, tab, acts>>

\* Mutant: what arrives is selected, and so published again.
ReceiveRepublishing(t) ==
  /\ inbox[t] # <<>> /\ Head(inbox[t]).kind = "select"
  /\ LET s == Head(inbox[t]).value
     IN /\ tab' = [tab EXCEPT ![t].local = s, ![t].synced = TRUE]
        /\ IF s # tab[t].local THEN Publish(t, s) ELSE UNCHANGED out
  /\ inbox' = [inbox EXCEPT ![t] = Tail(@)]
  /\ UNCHANGED <<served, acts>>

\* Mutant: what the user selected here is not replaced.
ReceiveIfNone(t) ==
  /\ inbox[t] # <<>> /\ Head(inbox[t]).kind = "select"
  /\ tab' = [tab EXCEPT ![t].synced = TRUE,
                        ![t].local = IF @ = None THEN Head(inbox[t]).value ELSE @]
  /\ inbox' = [inbox EXCEPT ![t] = Tail(@)]
  /\ UNCHANGED <<served, out, acts>>

\* GraphView's onMessage: the echo of the local selection is skipped, another
\* selection is applied without publishing it (applyBridgeSelection).
Receive(t) ==
  /\ inbox[t] # <<>> /\ Head(inbox[t]).kind = "select"
  /\ tab' = [tab EXCEPT ![t].local = Head(inbox[t]).value, ![t].synced = TRUE]
  /\ inbox' = [inbox EXCEPT ![t] = Tail(@)]
  /\ UNCHANGED <<served, out, acts>>
-----------------------------------------------------------------------------
(* RCA results.                                                            *)

\* `cgrca rca` writes the sidecar, then notifies the viewer that bridge.json
\* names; the viewer tells the sockets of the session's RCA views.  The graph
\* views are told too and ignore it.
TerminalRca ==
  /\ Act
  /\ sidecar' = sidecar + 1
  /\ \A v \in At(file) : Send(v, "rca", [kind |-> "rca-updated", value |-> sidecar + 1])
  /\ At(file) = {} => UNCHANGED inbox
  /\ UNCHANGED <<file, up, port, current, snapshot, tab, out>>

\* invalidateQueries: RcaView fetches the snapshot again.  The route returns
\* the one that was read when the viewer loaded the session.
Refetch(t) ==
  /\ inbox[t] # <<>> /\ Head(inbox[t]).kind = "rca-updated"
  /\ tab' = [tab EXCEPT ![t].shown = Snapshot(tab[t].page, @)]
  /\ inbox' = [inbox EXCEPT ![t] = Tail(@)]
  /\ UNCHANGED <<served, out, acts>>

ViewerStep ==
  \/ \E v \in Viewers : Listen(v) \/ Announce(v) \/ Shutdown(v) \/ Crash(v)
  \/ \E t \in Tabs :
       \/ \E v \in Viewers : OpenTab(t, v)
       \/ \E s \in Symbols : Click(t, s) \/ ClickUnplaced(t, s)
       \/ Investigate(t) \/ SwitchView(t) \/ Deliver(t) \/ Receive(t) \/ Refetch(t)
  \/ TerminalRca

ViewerSpec == ViewerInit /\ [][ViewerStep]_viewerVars
-----------------------------------------------------------------------------
Events == [kind : {"select"}, value : Symbols \cup {None}]
            \cup [kind : {"rca-updated"}, value : Nat]

ViewerTypeOK ==
  /\ file \in Ports \cup {None}
  /\ up \in [Viewers -> {"off", "listening", "up"}]
  /\ port \in [Viewers -> Ports \cup {None}]
  /\ current \in [Viewers -> Symbols \cup {None}]
  /\ snapshot \in [Viewers -> Nat] /\ sidecar \in Nat
  /\ tab \in [Tabs -> [page : Ports \cup {None}, view : {"graph", "rca"},
                       local : Symbols \cup {None}, socket : Viewers \cup {None},
                       shown : Nat, live : BOOLEAN, synced : BOOLEAN]]
  /\ out \in [Tabs -> Seq(Symbols \cup {None})]
  /\ inbox \in [Tabs -> Seq(Events)]
  /\ acts \in 0 .. MaxActs

\* No selection and no event is under way.
Quiet == \A t \in Tabs : out[t] = <<>> /\ inbox[t] = <<>>

\* When nothing is under way, every graph view whose socket has brought it an
\* event shows the selection that agents are told (bridge.ts: "there is exactly
\* one selection per cgrca-view process"), however clicks, agents' selections
\* and their echoes crossed.
TabsAgree ==
  Quiet => \A t \in Tabs :
    tab[t].socket # None /\ tab[t].view = "graph" /\ tab[t].synced
      => tab[t].local = current[tab[t].socket]

\* "the RCA tab reloads automatically" (ui/README.md:53): what an RCA view shows
\* after a notification is at least as new as what it was notified of, unless
\* the viewer is gone by then.
NotifiedShowsLatest ==
  [][\A t \in Tabs : inbox[t] # <<>> /\ Head(inbox[t]).kind = "rca-updated" /\ ~tab[t].live
                     /\ inbox'[t] = Tail(inbox[t]) /\ At(tab[t].page) # {}
                     /\ tab'[t].socket # None /\ tab'[t].view = "rca"
        => tab'[t].shown >= Head(inbox[t]).value]_viewerVars
=============================================================================
