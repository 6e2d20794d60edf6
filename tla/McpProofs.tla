----------------------------- MODULE McpProofs -----------------------------
(* That viewers, browser tabs and agents agree on the selection, and what the *)
(* MCP server's index cache keeps, for any number of each.                  *)
EXTENDS McpServer, WellFoundedInduction, SequenceTheorems, TLAPS

\* The least of some numbers is one of them.
LEMMA MinOfSome ==
  ASSUME NEW S \in SUBSET Nat, S # {}
  PROVE  Min(S) \in S
<1>. DEFINE R == {p \in Nat \X Nat : p[1] < p[2]}
<1>1. IsWellFoundedOn(R, Nat)
  BY NatLessThanWellFounded, Zenon DEF OpToRel
<1>2. PICK i \in S : \A j \in S : <<j, i>> \notin R
  <2>. HIDE DEF R
  <2>. QED
    BY <1>1, WFMin
<1>3. \A j \in S : ~(j < i)
  BY <1>2
<1>4. \A j \in S : i <= j
  BY <1>3
<1>. QED
  BY <1>4 DEF Min
-----------------------------------------------------------------------------
(* Types of the viewers' part.                                             *)

TabType == [page : Ports \cup {None}, view : {"graph", "rca"},
            local : Symbols \cup {None}, socket : Viewers \cup {None},
            shown : Nat, live : BOOLEAN, synced : BOOLEAN]

ProcessesOK ==
  /\ file \in Ports \cup {None}
  /\ up \in [Viewers -> {"off", "listening", "up"}]
  /\ port \in [Viewers -> Ports \cup {None}]
  /\ current \in [Viewers -> Symbols \cup {None}]

ResultsOK == snapshot \in [Viewers -> Nat] /\ sidecar \in Nat

TabsOK   == tab \in [Tabs -> TabType]
OutOK    == out \in [Tabs -> Seq(Symbols \cup {None})]
InboxOK  == inbox \in [Tabs -> Seq(Events)]
CountOK  == acts \in 0 .. MaxActs

LEMMA Parts ==
  ViewerTypeOK <=> ProcessesOK /\ ResultsOK /\ TabsOK /\ OutOK /\ InboxOK /\ CountOK
  BY DEF ViewerTypeOK, ProcessesOK, ResultsOK, TabsOK, OutOK, InboxOK, CountOK, TabType

LEMMA PartsNext ==
  ProcessesOK' /\ ResultsOK' /\ TabsOK' /\ OutOK' /\ InboxOK' /\ CountOK' => ViewerTypeOK'
  BY DEF ViewerTypeOK, ProcessesOK, ResultsOK, TabsOK, OutOK, InboxOK, CountOK, TabType

LEMMA ActBounded ==
  ASSUME CountOK, Act
  PROVE  CountOK'
  BY ViewerAssumption DEF CountOK, Act

LEMMA SendTyped ==
  ASSUME InboxOK, NEW v \in Viewers, NEW view \in {"graph", "rca"}, NEW e \in Events,
         Send(v, view, e)
  PROVE  InboxOK'
<1>1. \A t \in Tabs : Append(inbox[t], e) \in Seq(Events)
  BY DEF InboxOK
<1>. QED
  BY <1>1 DEF InboxOK, Send

LEMMA SelectTyped ==
  ASSUME ProcessesOK, InboxOK, NEW p, NEW s \in Symbols \cup {None}, Select(p, s)
  PROVE  current' \in [Viewers -> Symbols \cup {None}] /\ InboxOK'
<1>1. CASE At(p) = {}
  BY <1>1 DEF Select, ProcessesOK, InboxOK
<1>2. CASE At(p) # {}
  <2>1. PICK v \in Viewers : v \in At(p)
    BY <1>2 DEF At
  <2>2. [kind |-> "select", value |-> s] \in Events
    BY DEF Events
  <2>3. /\ current' = [current EXCEPT ![v] = s]
        /\ Send(v, "graph", [kind |-> "select", value |-> s])
    BY <2>1 DEF Select
  <2>. QED
    BY <2>2, <2>3, SendTyped DEF ProcessesOK
<1>. QED
  BY <1>1, <1>2

LEMMA SnapshotTyped ==
  ASSUME ResultsOK, NEW p, NEW old \in Nat
  PROVE  Snapshot(p, old) \in Nat
  BY DEF ResultsOK, Snapshot, At

LEMMA LeaveTyped ==
  ASSUME ViewerTypeOK, NEW v \in Viewers, Leave(v)
  PROVE  /\ up' \in [Viewers -> {"off", "listening", "up"}]
         /\ port' \in [Viewers -> Ports \cup {None}]
         /\ current' \in [Viewers -> Symbols \cup {None}]
         /\ ResultsOK' /\ TabsOK' /\ OutOK' /\ InboxOK'
<1>. ProcessesOK /\ ResultsOK /\ TabsOK /\ OutOK /\ InboxOK
  BY Parts
<1>1. TabsOK'
  <2>1. \A t \in Tabs : [tab[t] EXCEPT !.socket = None] \in TabType /\ tab[t] \in TabType
    BY DEF TabsOK, TabType
  <2>. QED
    BY <2>1 DEF Leave, TabsOK
<1>2. InboxOK'
  <2>1. <<>> \in Seq(Events)
    OBVIOUS
  <2>. QED
    BY <2>1 DEF Leave, InboxOK
<1>3. ResultsOK' /\ OutOK'
  BY DEF Leave, ResultsOK, OutOK
<1>. QED
  BY <1>1, <1>2, <1>3 DEF Leave, ProcessesOK

LEMMA ProcessTyped ==
  ASSUME ViewerTypeOK, NEW v \in Viewers,
         Listen(v) \/ Announce(v) \/ Shutdown(v) \/ Crash(v)
  PROVE  ViewerTypeOK'
<1>. ProcessesOK /\ ResultsOK /\ TabsOK /\ OutOK /\ InboxOK /\ CountOK
  BY Parts
<1>1. CASE Listen(v)
  <2>1. Min({p \in Ports : At(p) = {}}) \in Ports
    BY <1>1, MinOfSome, ViewerAssumption DEF Listen
  <2>2. /\ port' = [port EXCEPT ![v] = Min({p \in Ports : At(p) = {}})]
        /\ up' = [up EXCEPT ![v] = "listening"]
        /\ current' = [current EXCEPT ![v] = None]
        /\ snapshot' = [snapshot EXCEPT ![v] = sidecar]
        /\ UNCHANGED <<file, sidecar, viewing>> /\ Act
    BY <1>1 DEF Listen
  <2>3. ProcessesOK'
    BY <2>1, <2>2 DEF ProcessesOK
  <2>4. ResultsOK' /\ TabsOK' /\ OutOK' /\ InboxOK'
    BY <2>2 DEF ResultsOK, TabsOK, OutOK, InboxOK, viewing
  <2>. QED
    BY <2>2, <2>3, <2>4, ActBounded, PartsNext
<1>2. CASE Announce(v)
  <2>1. ProcessesOK'
    BY <1>2 DEF Announce, ProcessesOK, viewing
  <2>2. ResultsOK' /\ TabsOK' /\ OutOK' /\ InboxOK' /\ CountOK'
    BY <1>2 DEF Announce, ResultsOK, TabsOK, OutOK, InboxOK, CountOK, viewing
  <2>. QED
    BY <2>1, <2>2, PartsNext
<1>3. CASE Shutdown(v)
  <2>1. file' = None /\ Leave(v) /\ Act
    BY <1>3 DEF Shutdown
  <2>2. ProcessesOK'
    BY <2>1, LeaveTyped DEF ProcessesOK
  <2>. QED
    BY <2>1, <2>2, LeaveTyped, ActBounded, PartsNext
<1>4. CASE Crash(v)
  <2>1. file' = file /\ Leave(v) /\ Act
    BY <1>4 DEF Crash
  <2>2. ProcessesOK'
    BY <2>1, LeaveTyped DEF ProcessesOK
  <2>. QED
    BY <2>1, <2>2, LeaveTyped, ActBounded, PartsNext
<1>. QED
  BY <1>1, <1>2, <1>3, <1>4

LEMMA PublishTyped ==
  ASSUME OutOK, NEW t \in Tabs, NEW s \in Symbols \cup {None}, Publish(t, s)
  PROVE  OutOK'
<1>1. Append(out[t], s) \in Seq(Symbols \cup {None})
  BY DEF OutOK
<1>. QED
  BY <1>1 DEF OutOK, Publish

LEMMA TabTyped ==
  ASSUME ViewerTypeOK, NEW t \in Tabs,
         \/ \E v \in Viewers : OpenTab(t, v)
         \/ \E s \in Symbols : Click(t, s) \/ ClickUnplaced(t, s)
         \/ Investigate(t) \/ SwitchView(t)
  PROVE  ViewerTypeOK'
<1>. ProcessesOK /\ ResultsOK /\ TabsOK /\ OutOK /\ InboxOK /\ CountOK
  BY Parts
<1>1. UNCHANGED served /\ Act
  BY DEF OpenTab, Click, ClickUnplaced, Investigate, SwitchView
<1>2. ProcessesOK' /\ ResultsOK' /\ CountOK'
  BY <1>1, ActBounded DEF ProcessesOK, ResultsOK, served
<1>3. TabsOK'
  <2>1. ASSUME NEW v \in Viewers, OpenTab(t, v) PROVE TabsOK'
    <3>1. [NoTab EXCEPT !.page = port[v], !.socket = v] \in TabType
      BY DEF NoTab, TabType, ProcessesOK
    <3>. QED
      BY <2>1, <3>1 DEF OpenTab, TabsOK
  <2>2. ASSUME NEW s \in Symbols, Click(t, s) \/ ClickUnplaced(t, s) PROVE TabsOK'
    <3>1. [tab[t] EXCEPT !.local = s] \in TabType
      BY DEF TabsOK, TabType
    <3>. QED
      BY <2>2, <3>1 DEF Click, ClickUnplaced, TabsOK
  <2>3. ASSUME Investigate(t) PROVE TabsOK'
    <3>1. [tab[t] EXCEPT !.live = TRUE, !.local = None] \in TabType
      BY DEF TabsOK, TabType
    <3>. QED
      BY <2>3, <3>1 DEF Investigate, TabsOK
  <2>4. ASSUME SwitchView(t) PROVE TabsOK'
    <3>. DEFINE to == IF tab[t].view = "graph" THEN "rca" ELSE "graph"
                there == At(tab[t].page)
                socket == IF there = {} THEN None ELSE CHOOSE v \in there : TRUE
                shown == IF to = "rca" THEN Snapshot(tab[t].page, tab[t].shown) ELSE tab[t].shown
    <3>1. socket \in Viewers \cup {None} /\ to \in {"graph", "rca"}
      BY DEF At
    <3>2. shown \in Nat
      BY SnapshotTyped DEF TabsOK, TabType
    <3>3. tab' = [tab EXCEPT ![t].view = to, ![t].synced = FALSE, ![t].socket = socket,
                             ![t].shown = shown]
      BY <2>4 DEF SwitchView
    <3>. HIDE DEF to, there, socket, shown
    <3>4. [tab[t] EXCEPT !.view = to, !.synced = FALSE, !.socket = socket, !.shown = shown] \in TabType
      BY <3>1, <3>2 DEF TabsOK, TabType
    <3>. QED
      BY <3>3, <3>4 DEF TabsOK
  <2>. QED
    BY <2>1, <2>2, <2>3, <2>4
<1>4. OutOK'
  <2>1. ASSUME NEW v \in Viewers, OpenTab(t, v) PROVE OutOK'
    BY <2>1 DEF OpenTab, OutOK
  <2>2. CASE \E s \in Symbols \cup {None} : Publish(t, s)
    BY <2>2, PublishTyped
  <2>3. CASE SwitchView(t) \/ \E s \in Symbols : ClickUnplaced(t, s)
    BY <2>3 DEF SwitchView, ClickUnplaced, OutOK
  <2>. QED
    BY <2>1, <2>2, <2>3 DEF Click, Investigate
<1>5. InboxOK'
  <2>1. <<>> \in Seq(Events)
    OBVIOUS
  <2>. QED
    BY <2>1 DEF OpenTab, Click, ClickUnplaced, Investigate, SwitchView, InboxOK
<1>. QED
  BY <1>2, <1>3, <1>4, <1>5, PartsNext

LEMMA RemoveTyped ==
  ASSUME NEW S, NEW s \in Seq(S), NEW i \in DOMAIN s
  PROVE  RemoveAt(s, i) \in Seq(S)
<1>1. i \in 1 .. Len(s) /\ Len(s) \in Nat
  BY LenProperties
<1>2. /\ i - 1 \in Nat /\ 1 \in 1 .. Len(s) + 1 /\ i - 1 \in 1 - 1 .. Len(s)
      /\ i + 1 \in 1 .. Len(s) + 1 /\ Len(s) \in (i + 1) - 1 .. Len(s)
  BY <1>1
<1>3. SubSeq(s, 1, i - 1) \in Seq(S) /\ SubSeq(s, i + 1, Len(s)) \in Seq(S)
  BY <1>2, SubSeqProperties
<1>. QED
  BY <1>3, ConcatProperties DEF RemoveAt

LEMMA EventTyped ==
  ASSUME ViewerTypeOK, NEW t \in Tabs, Deliver(t) \/ Receive(t) \/ Refetch(t)
  PROVE  ViewerTypeOK'
<1>. ProcessesOK /\ ResultsOK /\ TabsOK /\ OutOK /\ InboxOK /\ CountOK
  BY Parts
<1>1. CASE Deliver(t)
  <2>1. PICK i \in DOMAIN out[t] : /\ Select(tab[t].page, out[t][i])
                                   /\ out' = [out EXCEPT ![t] = RemoveAt(@, i)]
    BY <1>1 DEF Deliver
  <2>2. out[t] \in Seq(Symbols \cup {None})
    BY DEF OutOK
  <2>3. out[t][i] \in Symbols \cup {None}
    BY <2>2, ElementOfSeq
  <2>4. OutOK'
    BY <2>1, <2>2, RemoveTyped DEF OutOK
  <2>5. current' \in [Viewers -> Symbols \cup {None}] /\ InboxOK'
    BY <2>1, <2>3, SelectTyped
  <2>6. ProcessesOK' /\ ResultsOK' /\ TabsOK' /\ CountOK'
    BY <1>1, <2>5 DEF Deliver, ProcessesOK, ResultsOK, TabsOK, CountOK
  <2>. QED
    BY <2>4, <2>5, <2>6, PartsNext
<1>2. CASE Receive(t) \/ Refetch(t)
  <2>1. inbox[t] \in Seq(Events) /\ inbox[t] # <<>>
    BY <1>2 DEF Receive, Refetch, InboxOK
  <2>2. Head(inbox[t]) \in Events /\ Tail(inbox[t]) \in Seq(Events)
    BY <2>1, HeadTailProperties
  <2>3. TabsOK'
    <3>1. CASE Receive(t)
      <4>1. Head(inbox[t]).kind = "select"
        BY <3>1 DEF Receive
      <4>2. Head(inbox[t]).value \in Symbols \cup {None}
        BY <2>2, <4>1 DEF Events
      <4>3. [tab[t] EXCEPT !.local = Head(inbox[t]).value, !.synced = TRUE] \in TabType
        BY <4>2 DEF TabsOK, TabType
      <4>. QED
        BY <3>1, <4>3 DEF Receive, TabsOK
    <3>2. CASE Refetch(t)
      <4>. DEFINE n == Snapshot(tab[t].page, tab[t].shown)
      <4>1. n \in Nat
        BY SnapshotTyped DEF TabsOK, TabType
      <4>2. tab' = [tab EXCEPT ![t].shown = n]
        BY <3>2 DEF Refetch
      <4>. HIDE DEF n
      <4>3. [tab[t] EXCEPT !.shown = n] \in TabType
        BY <4>1 DEF TabsOK, TabType
      <4>. QED
        BY <4>2, <4>3 DEF TabsOK
    <3>. QED
      BY <1>2, <3>1, <3>2
  <2>4. InboxOK'
    BY <1>2, <2>2 DEF Receive, Refetch, InboxOK
  <2>5. ProcessesOK' /\ ResultsOK' /\ OutOK' /\ CountOK'
    BY <1>2 DEF Receive, Refetch, served, ProcessesOK, ResultsOK, OutOK, CountOK
  <2>. QED
    BY <2>3, <2>4, <2>5, PartsNext
<1>. QED
  BY <1>1, <1>2

LEMMA TerminalTyped ==
  ASSUME ViewerTypeOK, TerminalRca
  PROVE  ViewerTypeOK'
<1>. ProcessesOK /\ ResultsOK /\ TabsOK /\ OutOK /\ InboxOK /\ CountOK
  BY Parts
<1>1. sidecar' \in Nat /\ [kind |-> "rca-updated", value |-> sidecar + 1] \in Events
  BY DEF TerminalRca, ResultsOK, Events
<1>2. InboxOK'
  <2>1. CASE At(file) = {}
    BY <2>1 DEF TerminalRca, InboxOK
  <2>2. CASE At(file) # {}
    <3>1. PICK v \in Viewers : v \in At(file)
      BY <2>2 DEF At
    <3>2. Send(v, "rca", [kind |-> "rca-updated", value |-> sidecar + 1])
      BY <3>1 DEF TerminalRca
    <3>. QED
      BY <1>1, <3>2, SendTyped
  <2>. QED
    BY <2>1, <2>2
<1>3. ProcessesOK' /\ ResultsOK' /\ TabsOK' /\ OutOK'
  BY <1>1 DEF TerminalRca, ProcessesOK, ResultsOK, TabsOK, OutOK
<1>4. CountOK'
  BY ActBounded DEF TerminalRca
<1>. QED
  BY <1>2, <1>3, <1>4, PartsNext

LEMMA ViewerTyped ==
  ASSUME ViewerTypeOK, ViewerStep
  PROVE  ViewerTypeOK'
  BY ProcessTyped, TabTyped, EventTyped, TerminalTyped DEF ViewerStep

LEMMA ViewerTypeInit == ViewerInit => ViewerTypeOK
<1>. SUFFICES ASSUME ViewerInit PROVE ViewerTypeOK
  OBVIOUS
<1>1. ProcessesOK /\ ResultsOK
  BY DEF ViewerInit, ProcessesOK, ResultsOK
<1>2. TabsOK
  BY DEF ViewerInit, TabsOK, TabType, NoTab
<1>3. OutOK /\ InboxOK
  BY DEF ViewerInit, OutOK, InboxOK
<1>4. CountOK
  BY ViewerAssumption DEF ViewerInit, CountOK
<1>. QED
  BY <1>1, <1>2, <1>3, <1>4, Parts
-----------------------------------------------------------------------------
(* Agreement on the selection.                                             *)

\* A viewer at work listens on a port, and a socket leads to the viewer at its
\* page's port.
PortsKnown == \A v \in Viewers : up[v] # "off" => port[v] \in Ports

SocketsLead ==
  \A t \in Tabs : tab[t].socket # None =>
    tab[t].socket \in At(tab[t].page) /\ tab[t].page \in Ports

\* No events without a socket.
EventsHaveSocket == \A t \in Tabs : tab[t].socket = None => inbox[t] = <<>>

\* A graph view gets selections only, and the last one on its way is the
\* viewer's; when none is, it shows the viewer's, unless it has been clicked and
\* that is still to be published.
OnlySelects ==
  \A t \in Tabs : tab[t].view = "graph" => \A n \in 1 .. Len(inbox[t]) : inbox[t][n].kind = "select"

Agrees(t) ==
  IF inbox[t] = <<>>
  THEN tab[t].synced /\ out[t] = <<>> => tab[t].local = current[tab[t].socket]
  ELSE inbox[t][Len(inbox[t])].value = current[tab[t].socket]

GraphsAgree == \A t \in Tabs : tab[t].socket # None /\ tab[t].view = "graph" => Agrees(t)

Agreement == PortsKnown /\ SocketsLead /\ EventsHaveSocket /\ OnlySelects /\ GraphsAgree

LEMMA AgreementInit == ViewerInit => Agreement
<1>. SUFFICES ASSUME ViewerInit PROVE Agreement
  OBVIOUS
<1>1. \A t \in Tabs : tab[t].socket = None /\ inbox[t] = <<>>
  BY DEF ViewerInit, NoTab
<1>2. PortsKnown
  BY DEF ViewerInit, PortsKnown
<1>3. OnlySelects
  BY <1>1 DEF OnlySelects
<1>. QED
  BY <1>1, <1>2, <1>3 DEF Agreement, SocketsLead, EventsHaveSocket, GraphsAgree

\* The conditions on one tab.
TabAgrees(t) ==
  /\ tab[t].socket # None => tab[t].socket \in At(tab[t].page) /\ tab[t].page \in Ports
  /\ tab[t].socket = None => inbox[t] = <<>>
  /\ tab[t].view = "graph" => \A n \in 1 .. Len(inbox[t]) : inbox[t][n].kind = "select"
  /\ tab[t].socket # None /\ tab[t].view = "graph" => Agrees(t)

LEMMA ByTab == Agreement <=> PortsKnown /\ \A t \in Tabs : TabAgrees(t)
  BY DEF Agreement, SocketsLead, EventsHaveSocket, OnlySelects, GraphsAgree, TabAgrees

LEMMA ByTabNext == PortsKnown' /\ (\A t \in Tabs : TabAgrees(t)') => Agreement'
  BY DEF Agreement, SocketsLead, EventsHaveSocket, OnlySelects, GraphsAgree, TabAgrees, Agrees

\* A tab nothing happens to, and whose viewer keeps its port and selection.
LEMMA TabUntouched ==
  ASSUME ViewerTypeOK, NEW t \in Tabs, TabAgrees(t),
         tab'[t] = tab[t], inbox'[t] = inbox[t], out'[t] = out[t],
         tab[t].socket # None => /\ tab[t].socket \in At(tab[t].page)'
                                 /\ current'[tab[t].socket] = current[tab[t].socket]
  PROVE  TabAgrees(t)'
<1>1. tab[t].socket # None => tab'[t].socket \in At(tab[t].page)' /\ tab'[t].page \in Ports
  BY DEF TabAgrees, At
<1>2. tab[t].socket # None /\ tab[t].view = "graph" => Agrees(t)'
  BY DEF TabAgrees, Agrees
<1>. QED
  BY <1>1, <1>2 DEF TabAgrees, At

\* Viewers come and go.
LEMMA ProcessAgrees ==
  ASSUME ViewerTypeOK, Agreement, NEW v \in Viewers,
         Listen(v) \/ Announce(v) \/ Shutdown(v) \/ Crash(v)
  PROVE  Agreement'
<1>. ProcessesOK /\ TabsOK /\ PortsKnown /\ \A t \in Tabs : TabAgrees(t)
  BY Parts, ByTab
<1>1. CASE Listen(v)
  <2>1. Min({p \in Ports : At(p) = {}}) \in Ports
    BY <1>1, MinOfSome, ViewerAssumption DEF Listen
  <2>2. /\ up[v] = "off"
        /\ port' = [port EXCEPT ![v] = Min({p \in Ports : At(p) = {}})]
        /\ up' = [up EXCEPT ![v] = "listening"]
        /\ current' = [current EXCEPT ![v] = None]
        /\ UNCHANGED <<tab, out, inbox>>
    BY <1>1 DEF Listen, viewing
  <2>3. PortsKnown'
    BY <2>1, <2>2 DEF PortsKnown, ProcessesOK
  <2>4. ASSUME NEW t \in Tabs PROVE TabAgrees(t)'
    <3>1. ASSUME tab[t].socket # None
          PROVE  /\ tab[t].socket \in At(tab[t].page)'
                 /\ current'[tab[t].socket] = current[tab[t].socket]
      <4>1. tab[t].socket \in At(tab[t].page)
        BY <3>1 DEF TabAgrees
      <4>2. tab[t].socket \in Viewers /\ tab[t].socket # v
        BY <2>2, <4>1 DEF At
      <4>. QED
        BY <2>2, <4>1, <4>2 DEF At, ProcessesOK
    <3>. QED
      BY <2>2, <3>1, TabUntouched
  <2>. QED
    BY <2>3, <2>4, ByTabNext
<1>2. CASE Announce(v)
  <2>1. /\ up[v] = "listening" /\ up' = [up EXCEPT ![v] = "up"]
        /\ UNCHANGED <<port, current, tab, out, inbox>>
    BY <1>2 DEF Announce, viewing
  <2>2. PortsKnown'
    BY <2>1 DEF PortsKnown, ProcessesOK
  <2>3. ASSUME NEW t \in Tabs PROVE TabAgrees(t)'
    <3>1. tab[t].socket # None => tab[t].socket \in At(tab[t].page)'
      BY <2>1 DEF TabAgrees, At, ProcessesOK
    <3>. QED
      BY <2>1, <3>1, TabUntouched
  <2>. QED
    BY <2>2, <2>3, ByTabNext
<1>3. CASE Shutdown(v) \/ Crash(v)
  <2>1. /\ up' = [up EXCEPT ![v] = "off"] /\ port' = [port EXCEPT ![v] = None]
        /\ tab' = [t \in Tabs |-> IF tab[t].socket = v THEN [tab[t] EXCEPT !.socket = None]
                                  ELSE tab[t]]
        /\ inbox' = [t \in Tabs |-> IF tab[t].socket = v THEN <<>> ELSE inbox[t]]
        /\ UNCHANGED <<current, out>>
    BY <1>3 DEF Shutdown, Crash, Leave
  <2>2. PortsKnown'
    BY <2>1 DEF PortsKnown, ProcessesOK
  <2>3. ASSUME NEW t \in Tabs PROVE TabAgrees(t)'
    <3>1. CASE tab[t].socket = v
      <4>1. tab'[t].socket = None /\ inbox'[t] = <<>>
        BY <2>1, <3>1 DEF TabsOK, TabType
      <4>. QED
        BY <4>1 DEF TabAgrees
    <3>2. CASE tab[t].socket # v
      <4>1. tab[t].socket # None => tab[t].socket \in At(tab[t].page)'
        BY <2>1, <3>2 DEF TabAgrees, At, ProcessesOK
      <4>. QED
        BY <2>1, <3>2, <4>1, TabUntouched
    <3>. QED
      BY <3>1, <3>2
  <2>. QED
    BY <2>2, <2>3, ByTabNext
<1>. QED
  BY <1>1, <1>2, <1>3

\* A selection that arrives at a port reaches every graph view there, as the
\* last event of its socket, together with the viewer.
LEMMA SelectAgrees ==
  ASSUME ViewerTypeOK, Agreement, NEW p, NEW s \in Symbols \cup {None}, Select(p, s),
         UNCHANGED <<up, port, tab>>,
         NEW t \in Tabs, out'[t] = out[t] \/ tab[t].page = p
  PROVE  TabAgrees(t)'
<1>. ProcessesOK /\ TabsOK /\ InboxOK /\ PortsKnown /\ TabAgrees(t)
  BY Parts, ByTab
<1>. DEFINE e == [kind |-> "select", value |-> s]
<1>0. tab'[t] = tab[t] /\ (tab[t].socket # None => tab'[t].socket \in At(tab[t].page)')
  BY DEF TabAgrees, At
<1>1. CASE tab[t].socket \in At(p)
  <2>. DEFINE v == tab[t].socket
  <2>1. /\ current' = [current EXCEPT ![v] = s]
        /\ Send(v, "graph", e)
    BY <1>1 DEF Select
  <2>2. v \in Viewers /\ v # None /\ current'[v] = s
    <3>1. v \in Viewers
      BY <1>1 DEF At
    <3>. QED
      BY <2>1, <3>1, ViewerAssumption DEF ProcessesOK
  <2>3. CASE tab[t].view = "graph"
    <3>1. inbox'[t] = Append(inbox[t], e)
      BY <2>1, <2>3 DEF Send, Sockets
    <3>2. inbox[t] \in Seq(Events) /\ e \in Events
      BY DEF InboxOK, Events
    <3>3. /\ inbox'[t] # <<>> /\ Len(inbox'[t]) = Len(inbox[t]) + 1
          /\ inbox'[t][Len(inbox'[t])] = e
          /\ \A n \in 1 .. Len(inbox[t]) : inbox'[t][n] = inbox[t][n]
          /\ Len(inbox[t]) \in Nat
      BY <3>1, <3>2, AppendProperties, LenProperties
    <3>4. \A n \in 1 .. Len(inbox'[t]) : inbox'[t][n].kind = "select"
      <4>1. SUFFICES ASSUME NEW n \in 1 .. Len(inbox[t]) + 1 PROVE inbox'[t][n].kind = "select"
        BY <3>3
      <4>2. CASE n = Len(inbox[t]) + 1
        BY <3>3, <4>2
      <4>3. CASE n \in 1 .. Len(inbox[t])
        BY <2>3, <3>3, <4>3 DEF TabAgrees
      <4>. QED
        BY <3>3, <4>2, <4>3
    <3>5. Agrees(t)'
      BY <1>0, <2>2, <3>3 DEF Agrees
    <3>. QED
      BY <1>0, <2>2, <3>4, <3>5 DEF TabAgrees, At
  <2>4. CASE tab[t].view # "graph"
    BY <1>0, <2>2, <2>4 DEF TabAgrees, At
  <2>. QED
    BY <2>3, <2>4
<1>2. CASE tab[t].socket \notin At(p)
  <2>1. inbox'[t] = inbox[t]
    <3>1. CASE At(p) = {}
      BY <3>1 DEF Select
    <3>2. CASE At(p) # {}
      <4>1. PICK v \in At(p) : Send(v, "graph", e)
        BY <3>2 DEF Select
      <4>. QED
        BY <1>2, <4>1 DEF Send, Sockets
    <3>. QED
      BY <3>1, <3>2
  <2>2. ASSUME tab[t].socket # None PROVE current'[tab[t].socket] = current[tab[t].socket]
    <3>1. tab[t].socket \in Viewers
      BY <2>2 DEF TabAgrees, At
    <3>2. CASE At(p) = {}
      BY <3>2 DEF Select
    <3>3. CASE At(p) # {}
      <4>1. PICK v \in At(p) : current' = [current EXCEPT ![v] = s]
        BY <3>3 DEF Select
      <4>. QED
        BY <1>2, <3>1, <4>1 DEF ProcessesOK
    <3>. QED
      BY <3>2, <3>3
  <2>3. CASE tab[t].socket # None
    <3>1. tab[t].page # p
      BY <1>2, <2>3 DEF TabAgrees
    <3>. QED
      BY <1>0, <2>1, <2>2, <2>3, <3>1, TabUntouched
  <2>4. CASE tab[t].socket = None
    BY <1>0, <2>1, <2>4 DEF TabAgrees, At
  <2>. QED
    BY <2>3, <2>4
<1>. QED
  BY <1>1, <1>2

\* A tab's own steps.
LEMMA TabStepAgrees ==
  ASSUME ViewerTypeOK, Agreement, NEW t \in Tabs,
         \/ \E v \in Viewers : OpenTab(t, v)
         \/ \E s \in Symbols : Click(t, s) \/ ClickUnplaced(t, s)
         \/ Investigate(t) \/ SwitchView(t)
  PROVE  Agreement'
<1>. ProcessesOK /\ TabsOK /\ OutOK /\ InboxOK /\ PortsKnown /\ \A u \in Tabs : TabAgrees(u)
  BY Parts, ByTab
<1>1. UNCHANGED <<up, port, current>>
  BY DEF OpenTab, Click, ClickUnplaced, Investigate, SwitchView, served
<1>2. PortsKnown'
  BY <1>1 DEF PortsKnown
<1>3. ASSUME NEW u \in Tabs, u # t PROVE TabAgrees(u)'
  <2>1. tab'[u] = tab[u] /\ inbox'[u] = inbox[u] /\ out'[u] = out[u]
    BY <1>3 DEF OpenTab, Click, ClickUnplaced, Investigate, SwitchView, Publish, TabsOK, OutOK, InboxOK
  <2>2. tab[u].socket # None => tab[u].socket \in At(tab[u].page)'
    BY <1>1, <2>1 DEF TabAgrees, At
  <2>. QED
    BY <1>1, <2>1, <2>2, TabUntouched
<1>4. TabAgrees(t)'
  <2>1. ASSUME NEW v \in Viewers, OpenTab(t, v) PROVE TabAgrees(t)'
    <3>1. /\ tab[t].page = None /\ up[v] # "off"
          /\ tab' = [tab EXCEPT ![t] = [NoTab EXCEPT !.page = port[v], !.socket = v]]
          /\ inbox' = inbox
      BY <2>1 DEF OpenTab
    <3>2. tab'[t].page = port[v] /\ tab'[t].socket = v /\ tab'[t].synced = FALSE
      BY <3>1 DEF TabsOK, NoTab
    <3>3. inbox[t] = <<>>
      BY <3>1, ViewerAssumption DEF TabAgrees
    <3>4. port[v] \in Ports /\ v # None
      BY <3>1, ViewerAssumption DEF PortsKnown
    <3>5. Agrees(t)'
      BY <3>1, <3>2, <3>3 DEF Agrees
    <3>6. v \in At(tab[t].page)'
      BY <1>1, <3>1, <3>2 DEF At
    <3>7. \A n \in 1 .. Len(inbox'[t]) : inbox'[t][n].kind = "select"
      BY <3>1, <3>3
    <3>. QED
      BY <3>2, <3>4, <3>5, <3>6, <3>7 DEF TabAgrees
  <2>2. ASSUME NEW s \in Symbols, Click(t, s) PROVE TabAgrees(t)'
    <3>1. /\ tab' = [tab EXCEPT ![t].local = s]
          /\ out' = [out EXCEPT ![t] = Append(@, s)] /\ inbox' = inbox
      BY <2>2 DEF Click, Publish
    <3>2. /\ tab'[t].page = tab[t].page /\ tab'[t].socket = tab[t].socket
          /\ tab'[t].view = tab[t].view
      BY <3>1 DEF TabsOK, TabType
    <3>3. out'[t] # <<>>
      <4>1. out[t] \in Seq(Symbols \cup {None}) /\ out'[t] = Append(out[t], s)
        BY <3>1 DEF OutOK
      <4>. QED
        BY <4>1, AppendProperties
    <3>4. tab[t].socket # None => tab'[t].socket \in At(tab[t].page)'
      BY <1>1, <3>2 DEF TabAgrees, At
    <3>5. tab[t].socket # None /\ tab[t].view = "graph" => Agrees(t)'
      BY <1>1, <3>1, <3>2, <3>3 DEF Agrees, TabAgrees
    <3>. QED
      BY <3>1, <3>2, <3>4, <3>5 DEF TabAgrees
  <2>3. ASSUME Investigate(t) \/ \E s \in Symbols : ClickUnplaced(t, s) PROVE TabAgrees(t)'
    <3>1. /\ tab[t].view = "rca" /\ inbox' = inbox
          /\ \/ tab' = [tab EXCEPT ![t].live = TRUE, ![t].local = None]
             \/ \E s \in Symbols : tab' = [tab EXCEPT ![t].local = s]
      BY <2>3 DEF Investigate, ClickUnplaced
    <3>2. /\ tab'[t].page = tab[t].page /\ tab'[t].socket = tab[t].socket
          /\ tab'[t].view = "rca"
      BY <3>1 DEF TabsOK, TabType
    <3>3. tab[t].socket # None => tab'[t].socket \in At(tab[t].page)'
      BY <1>1, <3>2 DEF TabAgrees, At
    <3>. QED
      BY <3>1, <3>2, <3>3 DEF TabAgrees
  <2>4. ASSUME SwitchView(t) PROVE TabAgrees(t)'
    <3>. DEFINE there == At(tab[t].page)
                socket == IF there = {} THEN None ELSE CHOOSE v \in there : TRUE
    <3>1. inbox'[t] = <<>> /\ tab[t].page # None
      BY <2>4 DEF SwitchView, InboxOK
    <3>2. tab'[t].socket = socket /\ tab'[t].page = tab[t].page /\ tab'[t].synced = FALSE
      BY <2>4 DEF SwitchView, TabsOK, TabType
    <3>3. socket # None => socket \in there
      OBVIOUS
    <3>4. tab[t].page \in Ports
      BY <3>1 DEF TabsOK, TabType
    <3>5. there = At(tab[t].page)'
      BY <1>1, <3>2 DEF At
    <3>6. Agrees(t)'
      BY <3>1, <3>2 DEF Agrees
    <3>7. \A n \in 1 .. Len(inbox'[t]) : inbox'[t][n].kind = "select"
      BY <3>1
    <3>. HIDE DEF there, socket
    <3>. QED
      BY <3>1, <3>2, <3>3, <3>4, <3>5, <3>6, <3>7 DEF TabAgrees
  <2>. QED
    BY <2>1, <2>2, <2>3, <2>4
<1>. QED
  BY <1>2, <1>3, <1>4, ByTabNext

LEMMA DeliverAgrees ==
  ASSUME ViewerTypeOK, Agreement, NEW t \in Tabs, Deliver(t)
  PROVE  Agreement'
<1>. OutOK /\ PortsKnown
  BY Parts, ByTab
<1>1. PICK i \in DOMAIN out[t] : /\ Select(tab[t].page, out[t][i])
                                 /\ out' = [out EXCEPT ![t] = RemoveAt(@, i)]
  BY DEF Deliver
<1>2. out[t][i] \in Symbols \cup {None}
  BY ElementOfSeq DEF OutOK
<1>3. UNCHANGED <<up, port, tab>>
  BY DEF Deliver
<1>4. ASSUME NEW u \in Tabs PROVE TabAgrees(u)'
  <2>1. out'[u] = out[u] \/ tab[u].page = tab[t].page
    BY <1>1 DEF OutOK
  <2>. QED
    BY <1>1, <1>2, <1>3, <2>1, SelectAgrees
<1>5. PortsKnown'
  BY <1>3 DEF PortsKnown
<1>. QED
  BY <1>4, <1>5, ByTabNext

LEMMA ArrivalAgrees ==
  ASSUME ViewerTypeOK, Agreement, NEW t \in Tabs, Receive(t) \/ Refetch(t)
  PROVE  Agreement'
<1>. TabsOK /\ InboxOK /\ PortsKnown /\ \A u \in Tabs : TabAgrees(u)
  BY Parts, ByTab
<1>1. /\ UNCHANGED <<up, port, current, out>>
      /\ inbox[t] # <<>> /\ inbox' = [inbox EXCEPT ![t] = Tail(@)]
  BY DEF Receive, Refetch, served
<1>2. PortsKnown'
  BY <1>1 DEF PortsKnown
<1>3. ASSUME NEW u \in Tabs, u # t PROVE TabAgrees(u)'
  <2>1. tab'[u] = tab[u] /\ inbox'[u] = inbox[u] /\ out'[u] = out[u]
    BY <1>1, <1>3 DEF Receive, Refetch, TabsOK, InboxOK
  <2>2. tab[u].socket # None => tab[u].socket \in At(tab[u].page)'
    BY <1>1, <2>1 DEF TabAgrees, At
  <2>. QED
    BY <1>1, <2>1, <2>2, TabUntouched
<1>4. TabAgrees(t)'
  <2>1. inbox[t] \in Seq(Events)
    BY DEF InboxOK
  <2>2. /\ inbox'[t] = Tail(inbox[t]) /\ Tail(inbox[t]) \in Seq(Events)
        /\ Len(inbox[t]) \in Nat \ {0} /\ Head(inbox[t]) = inbox[t][1]
        /\ Len(inbox'[t]) = Len(inbox[t]) - 1
        /\ \A n \in 1 .. Len(inbox'[t]) : inbox'[t][n] = inbox[t][n + 1]
    BY <1>1, <2>1, HeadTailProperties, LenProperties, EmptySeq DEF InboxOK
  <2>3. /\ tab'[t].page = tab[t].page /\ tab'[t].socket = tab[t].socket
        /\ tab'[t].view = tab[t].view
    BY DEF Receive, Refetch, TabsOK, TabType
  <2>4. tab[t].socket # None
    BY <1>1 DEF TabAgrees
  <2>5. tab'[t].socket \in At(tab[t].page)' /\ tab'[t].page \in Ports
    BY <1>1, <2>3, <2>4 DEF TabAgrees, At
  <2>6. ASSUME tab[t].view = "graph"
        PROVE  Agrees(t)' /\ \A n \in 1 .. Len(inbox'[t]) : inbox'[t][n].kind = "select"
    <3>1. \A n \in 1 .. Len(inbox[t]) : inbox[t][n].kind = "select"
      BY <2>6 DEF TabAgrees
    <3>2. \A n \in 1 .. Len(inbox'[t]) : inbox'[t][n].kind = "select"
      <4>1. \A n \in 1 .. Len(inbox'[t]) : n + 1 \in 1 .. Len(inbox[t])
        BY <2>2
      <4>. QED
        BY <2>2, <3>1, <4>1
    <3>3. Head(inbox[t]).kind = "select"
      BY <2>2, <3>1
    <3>4. tab'[t].local = inbox[t][1].value
      <4>1. Receive(t)
        BY <3>3 DEF Refetch
      <4>. QED
        BY <2>2, <4>1 DEF Receive, TabsOK, TabType
    <3>5. inbox[t][Len(inbox[t])].value = current[tab[t].socket]
      BY <1>1, <2>4, <2>6 DEF TabAgrees, Agrees
    <3>6. CASE inbox'[t] = <<>>
      <4>0. Len(inbox'[t]) = 0
        BY <3>6
      <4>1. Len(inbox[t]) = 1
        BY <2>2, <4>0
      <4>. QED
        BY <1>1, <2>3, <3>2, <3>4, <3>5, <3>6, <4>1 DEF Agrees
    <3>7. CASE inbox'[t] # <<>>
      <4>1. Len(inbox'[t]) # 0
        BY <2>2, <3>7, EmptySeq
      <4>2. inbox'[t][Len(inbox'[t])] = inbox[t][Len(inbox[t])]
        <5>1. Len(inbox'[t]) \in Nat /\ Len(inbox[t]) = Len(inbox'[t]) + 1
          BY <2>2
        <5>2. Len(inbox'[t]) \in 1 .. Len(inbox'[t])
          BY <4>1, <5>1
        <5>. QED
          BY <2>2, <5>1, <5>2
      <4>. QED
        BY <1>1, <2>3, <3>2, <3>5, <3>7, <4>2 DEF Agrees
    <3>. QED
      BY <3>6, <3>7
  <2>. QED
    BY <2>3, <2>4, <2>5, <2>6 DEF TabAgrees
<1>. QED
  BY <1>2, <1>3, <1>4, ByTabNext

\* A result that is announced reaches views of results only.
LEMMA TerminalAgrees ==
  ASSUME ViewerTypeOK, Agreement, TerminalRca
  PROVE  Agreement'
<1>. TabsOK /\ InboxOK /\ PortsKnown /\ \A u \in Tabs : TabAgrees(u)
  BY Parts, ByTab
<1>1. UNCHANGED <<up, port, current, tab, out>>
  BY DEF TerminalRca
<1>2. PortsKnown'
  BY <1>1 DEF PortsKnown
<1>3. ASSUME NEW t \in Tabs PROVE TabAgrees(t)'
  <2>1. tab[t].socket # None => tab[t].socket \in At(tab[t].page)'
    BY <1>1 DEF TabAgrees, At
  <2>2. CASE inbox'[t] = inbox[t]
    BY <1>1, <2>1, <2>2, TabUntouched
  <2>3. CASE inbox'[t] # inbox[t]
    <3>1. PICK v \in At(file) : Send(v, "rca", [kind |-> "rca-updated", value |-> sidecar + 1])
      BY <2>3 DEF TerminalRca
    <3>2. tab[t].view = "rca" /\ tab[t].socket = v
      BY <2>3, <3>1 DEF Send, Sockets
    <3>3. v # None
      BY ViewerAssumption DEF At
    <3>. QED
      BY <1>1, <2>1, <3>2, <3>3 DEF TabAgrees
  <2>. QED
    BY <2>2, <2>3
<1>. QED
  BY <1>2, <1>3, ByTabNext

LEMMA ViewerAgrees ==
  ASSUME ViewerTypeOK, Agreement, ViewerStep
  PROVE  Agreement'
  BY ProcessAgrees, TabStepAgrees, DeliverAgrees, ArrivalAgrees, TerminalAgrees DEF ViewerStep

LEMMA AgreementIsEnough == Agreement => TabsAgree
<1>. SUFFICES ASSUME Agreement, Quiet, NEW t \in Tabs,
                     tab[t].socket # None, tab[t].view = "graph", tab[t].synced
              PROVE  tab[t].local = current[tab[t].socket]
  BY DEF TabsAgree
<1>1. Agrees(t) /\ inbox[t] = <<>> /\ out[t] = <<>>
  BY DEF Agreement, GraphsAgree, Quiet
<1>. QED
  BY <1>1 DEF Agrees
-----------------------------------------------------------------------------
(* The MCP server beside the viewers.                                      *)

CallType  == [tool : ToolKinds, on : Indexes \cup {None},
              pc : {"idle", "daemon", "ensure", "wait", "own", "private", "use", "post", "again"}]
IndexType == [state : {"free", "running", "open", "failed", "closed"}, stale : BOOLEAN]

ServerOK ==
  /\ call \in [Calls -> CallType]
  /\ cache \in Indexes \cup {None}
  /\ index \in [Indexes -> IndexType]
  /\ lost \subseteq Indexes

LEMMA McpParts ==
  McpTypeOK <=> ViewerTypeOK /\ peer \in Ports \cup {None} /\ ServerOK
  BY DEF McpTypeOK, ServerOK, CallType, IndexType

LEMMA McpPartsNext ==
  ViewerTypeOK' /\ peer' \in Ports \cup {None} /\ ServerOK' => McpTypeOK'
  BY DEF McpTypeOK, ServerOK, CallType, IndexType

\* A call that awaits or uses an index has one, and only a tool that works on
\* the cached index queries again after its focus was published.
IndexAtHand ==
  \A c \in Calls :
    /\ call[c].tool \in AllTools
    /\ call[c].pc \in {"wait", "own", "use", "again"} => call[c].on \in Indexes
    /\ call[c].pc = "post" /\ call[c].tool.focus = "between" => call[c].on \in Indexes

\* A handle is closed only once its five minutes are over.
ClosedAreStale == \A i \in Indexes : index[i].state = "closed" => index[i].stale

ServerInv == IndexAtHand /\ ClosedAreStale /\ IndexesAccounted

LEMMA ToolsTyped == AllTools \subseteq ToolKinds
  BY DEF AllTools, ToolKinds, definitionOf, callersOf, calleesOf, recentlyChangedNear, symbolsInFile,
         rca, rcaPrompt, rcaWithReasoning, enrichCandidates, currentSelection, publishSelection

LEMMA OnlyWalksQueryAgain ==
  ASSUME NEW tool \in AllTools, tool.focus = "between"
  PROVE  InProcess(tool) # "post" /\ tool.focus # "any"
  BY DEF InProcess, AllTools, definitionOf, callersOf, calleesOf, recentlyChangedNear, symbolsInFile,
         rca, rcaPrompt, rcaWithReasoning, enrichCandidates, currentSelection, publishSelection

LEMMA InProcessTyped ==
  ASSUME NEW tool \in ToolKinds
  PROVE  InProcess(tool) \in {"private", "ensure", "post"}
  BY DEF ToolKinds, InProcess

LEMMA ReusableIndex ==
  ASSUME Reusable # {}
  PROVE  Min(Reusable) \in Reusable /\ Min(Reusable) \in Indexes
<1>1. Reusable \in SUBSET Nat
  BY McpAssumption DEF Reusable
<1>. QED
  BY <1>1, MinOfSome DEF Reusable

\* A new index goes into the cache; what it replaces is settled, or counted as lost.
LEMMA BeginKeeps ==
  ASSUME ServerOK, ServerInv, NEW c \in Calls, NEW db \in [Indexes -> IndexType],
         NEW old \in Indexes \cup {None}, BeginIndex(c, db, old),
         \A i \in Indexes : db[i].state = "closed" => db[i].stale,
         \A i \in Indexes : db[i].state \in {"running", "open"} => index[i].state = db[i].state /\ i # old
  PROVE  ServerOK' /\ ServerInv'
<1>. DEFINE n == Min(Reusable)
<1>1. n \in Indexes /\ n \in Reusable
  BY ReusableIndex DEF BeginIndex
<1>2. /\ index' = [db EXCEPT ![n] = [state |-> "running", stale |-> FALSE]]
      /\ call' = [call EXCEPT ![c].pc = "own", ![c].on = n]
      /\ cache' = n
      /\ lost' = IF cache \in {old, None} THEN lost ELSE lost \cup {cache}
  BY DEF BeginIndex
<1>. HIDE DEF n
<1>3. ServerOK'
  <2>1. [call[c] EXCEPT !.pc = "own", !.on = n] \in CallType
    BY <1>1 DEF ServerOK, CallType
  <2>2. call' \in [Calls -> CallType]
    BY <1>2, <2>1 DEF ServerOK
  <2>3. index' \in [Indexes -> IndexType]
    BY <1>1, <1>2 DEF IndexType
  <2>. QED
    BY <1>1, <1>2, <2>2, <2>3 DEF ServerOK
<1>4. IndexAtHand'
  BY <1>1, <1>2 DEF ServerOK, ServerInv, IndexAtHand, CallType
<1>5. ClosedAreStale'
  BY <1>1, <1>2 DEF ClosedAreStale
<1>6. IndexesAccounted'
  <2>1. SUFFICES ASSUME NEW i \in Indexes, i # n, index'[i].state \in {"running", "open"}
                 PROVE  i \in lost'
    BY <1>2 DEF IndexesAccounted
  <2>2. index'[i] = db[i]
    BY <1>2, <2>1
  <2>3. index[i].state \in {"running", "open"} /\ i # old
    BY <2>1, <2>2
  <2>4. i = cache \/ i \in lost
    BY <2>3 DEF ServerInv, IndexesAccounted
  <2>5. i # None
    BY McpAssumption
  <2>. QED
    BY <1>2, <2>3, <2>4, <2>5
<1>. QED
  BY <1>3, <1>4, <1>5, <1>6 DEF ServerInv

LEMMA EnsureKeeps ==
  ASSUME ServerOK, ServerInv, NEW c \in Calls, Ensure(c)
  PROVE  ServerOK' /\ ServerInv'
<1>1. CASE cache # None
  <2>1. /\ call' = [call EXCEPT ![c].pc = "wait", ![c].on = cache]
        /\ UNCHANGED <<cache, index, lost>>
    BY <1>1 DEF Ensure
  <2>2. cache \in Indexes
    BY <1>1 DEF ServerOK
  <2>3. [call[c] EXCEPT !.pc = "wait", !.on = cache] \in CallType
    BY <2>2 DEF ServerOK, CallType
  <2>4. ServerOK'
    BY <2>1, <2>3 DEF ServerOK
  <2>5. IndexAtHand'
    BY <2>1, <2>2 DEF ServerOK, ServerInv, IndexAtHand, CallType
  <2>. QED
    BY <2>1, <2>4, <2>5 DEF ServerInv, ClosedAreStale, IndexesAccounted
<1>2. CASE cache = None
  <2>1. BeginIndex(c, index, None)
    BY <1>2 DEF Ensure
  <2>2. \A i \in Indexes : i # None
    BY McpAssumption
  <2>. QED
    BY <2>1, <2>2, BeginKeeps DEF ServerOK, ServerInv, ClosedAreStale
<1>. QED
  BY <1>1, <1>2

LEMMA WokenKeeps ==
  ASSUME ServerOK, ServerInv, NEW c \in Calls, Woken(c)
  PROVE  ServerOK' /\ ServerInv'
<1>. DEFINE i == call[c].on
<1>1. i \in Indexes
  BY DEF Woken, ServerInv, IndexAtHand
<1>2. CASE Await(c, "use") /\ UNCHANGED <<cache, index, lost>>
  <2>1. call' = [call EXCEPT ![c].pc = "use"]
    BY <1>2 DEF Await
  <2>2. [call[c] EXCEPT !.pc = "use"] \in CallType
    BY DEF ServerOK, CallType
  <2>3. ServerOK'
    BY <1>2, <2>1, <2>2 DEF ServerOK
  <2>4. IndexAtHand'
    BY <1>1, <2>1 DEF ServerOK, ServerInv, IndexAtHand, CallType
  <2>. QED
    BY <1>2, <2>3, <2>4 DEF ServerInv, ClosedAreStale, IndexesAccounted
<1>3. CASE index[i].stale /\ BeginIndex(c, [index EXCEPT ![i].state = "closed"], i)
  <2>. DEFINE db == [index EXCEPT ![i].state = "closed"]
  <2>1. [index[i] EXCEPT !.state = "closed"] \in IndexType
    BY <1>1 DEF ServerOK, IndexType
  <2>2. db \in [Indexes -> IndexType]
    BY <2>1 DEF ServerOK
  <2>3. db[i].state = "closed" /\ db[i].stale /\ \A j \in Indexes \ {i} : db[j] = index[j]
    BY <1>1, <1>3 DEF ServerOK, IndexType
  <2>4. \A j \in Indexes : db[j].state = "closed" => db[j].stale
    BY <2>3 DEF ServerInv, ClosedAreStale
  <2>5. \A j \in Indexes : db[j].state \in {"running", "open"} => index[j].state = db[j].state /\ j # i
    BY <2>3
  <2>6. BeginIndex(c, db, i)
    BY <1>3
  <2>. HIDE DEF db, i
  <2>. QED
    BY <1>1, <2>2, <2>4, <2>5, <2>6, BeginKeeps
<1>4. CASE index[i].state = "failed" /\ BeginIndex(c, index, i)
  BY <1>1, <1>4, BeginKeeps DEF ServerOK, ServerInv, ClosedAreStale
<1>. QED
  BY <1>2, <1>3, <1>4 DEF Woken

LEMMA AwaitKeeps ==
  ASSUME ServerOK, ServerInv, NEW c \in Calls, UNCHANGED <<cache, index, lost>>,
         NEW pc \in {"ensure", "private", "use", "post", "again"}, Await(c, pc),
         pc \in {"use", "again"} => call[c].on \in Indexes,
         pc = "post" /\ call[c].tool.focus = "between" => call[c].on \in Indexes
  PROVE  ServerOK' /\ ServerInv'
<1>1. [call[c] EXCEPT !.pc = pc] \in CallType
  BY DEF ServerOK, CallType
<1>2. ServerOK'
  BY <1>1 DEF ServerOK, Await
<1>3. IndexAtHand'
  BY DEF ServerOK, ServerInv, IndexAtHand, CallType, Await
<1>. QED
  BY <1>2, <1>3 DEF ServerInv, ClosedAreStale, IndexesAccounted

LEMMA ReturnKeeps ==
  ASSUME ServerOK, ServerInv, NEW c \in Calls, UNCHANGED <<cache, index, lost>>, Return(c)
  PROVE  ServerOK' /\ ServerInv'
<1>1. Idle \in CallType /\ Idle.tool \in AllTools /\ Idle.pc = "idle"
  <2>1. symbolsInFile \in AllTools
    BY DEF AllTools
  <2>. QED
    BY <2>1, ToolsTyped DEF Idle, CallType
<1>2. ServerOK'
  BY <1>1 DEF ServerOK, Return
<1>3. IndexAtHand'
  BY <1>1 DEF ServerOK, ServerInv, IndexAtHand, Return
<1>. QED
  BY <1>2, <1>3 DEF ServerInv, ClosedAreStale, IndexesAccounted

LEMMA AskKeeps ==
  ASSUME ServerOK, ServerInv, NEW c \in Calls, NEW tool \in Tools, Ask(c, tool)
  PROVE  ServerOK' /\ ServerInv'
<1>. DEFINE pc == IF tool.daemon THEN "daemon" ELSE InProcess(tool)
<1>1. tool \in AllTools /\ tool \in ToolKinds
  BY McpAssumption, ToolsTyped
<1>2. pc \in {"daemon", "private", "ensure", "post"}
  BY <1>1, InProcessTyped
<1>3. tool.focus = "between" => pc # "post"
  BY <1>1, OnlyWalksQueryAgain
<1>4. /\ call' = [call EXCEPT ![c] = [tool |-> tool, on |-> None, pc |-> pc]]
      /\ UNCHANGED <<cache, index, lost>>
  BY DEF Ask
<1>. HIDE DEF pc
<1>5. [tool |-> tool, on |-> None, pc |-> pc] \in CallType
  BY <1>1, <1>2 DEF CallType
<1>6. ServerOK'
  BY <1>4, <1>5 DEF ServerOK
<1>7. IndexAtHand'
  BY <1>1, <1>2, <1>3, <1>4 DEF ServerOK, ServerInv, IndexAtHand
<1>. QED
  BY <1>4, <1>6, <1>7 DEF ServerInv, ClosedAreStale, IndexesAccounted

LEMMA ContinueKeeps ==
  ASSUME ServerOK, ServerInv, NEW c \in Calls, Continue(c)
  PROVE  ServerOK' /\ ServerInv'
<1>0. call[c].tool \in AllTools /\ call[c].tool \in ToolKinds
  BY ToolsTyped DEF ServerInv, IndexAtHand
<1>1. CASE Own(c)
  BY <1>1, AwaitKeeps, ReturnKeeps DEF Own, ServerInv, IndexAtHand
<1>2. CASE NoDaemon(c)
  <2>1. InProcess(call[c].tool) \in {"private", "ensure", "post"}
    BY <1>0, InProcessTyped
  <2>2. call[c].tool.focus = "between" => InProcess(call[c].tool) # "post"
    BY <1>0, OnlyWalksQueryAgain
  <2>. QED
    BY <1>2, <2>1, <2>2, AwaitKeeps DEF NoDaemon
<1>3. CASE Daemon(c)
  BY <1>0, <1>3, OnlyWalksQueryAgain, AwaitKeeps, ReturnKeeps DEF Daemon
<1>4. CASE Private(c) \/ Again(c)
  BY <1>4, ReturnKeeps DEF Private, Again
<1>5. CASE Use(c)
  BY <1>5, AwaitKeeps, ReturnKeeps DEF Use, ServerInv, IndexAtHand
<1>6. CASE Reply(c) \/ NoReply(c)
  <2>1. call[c].pc = "post" /\ AfterPost(c) /\ UNCHANGED <<cache, index, lost>>
    BY <1>6 DEF Reply, NoReply
  <2>2. CASE call[c].tool.focus = "between"
    BY <2>1, <2>2, AwaitKeeps DEF AfterPost, ServerInv, IndexAtHand
  <2>3. CASE call[c].tool.focus # "between"
    BY <2>1, <2>3, ReturnKeeps DEF AfterPost
  <2>. QED
    BY <2>2, <2>3
<1>. QED
  BY <1>1, <1>2, <1>3, <1>4, <1>5, <1>6, EnsureKeeps, WokenKeeps DEF Continue

LEMMA IndexKeeps ==
  ASSUME ServerOK, ServerInv, NEW i \in Indexes,
         Expire(i) \/ \E how \in {"open", "failed"} : Settle(i, how)
  PROVE  ServerOK' /\ ServerInv'
<1>1. CASE Expire(i)
  <2>1. /\ index[i].state = "open" /\ index' = [index EXCEPT ![i].stale = TRUE]
        /\ UNCHANGED <<call, cache, lost>>
    BY <1>1 DEF Expire
  <2>2. [index[i] EXCEPT !.stale = TRUE] \in IndexType
    BY DEF ServerOK, IndexType
  <2>3. ServerOK'
    BY <2>1, <2>2 DEF ServerOK
  <2>4. \A j \in Indexes : index'[j].state = index[j].state /\ (index[j].stale => index'[j].stale)
    BY <2>1 DEF ServerOK, IndexType
  <2>. QED
    BY <2>1, <2>3, <2>4 DEF ServerInv, IndexAtHand, ClosedAreStale, IndexesAccounted
<1>2. ASSUME NEW how \in {"open", "failed"}, Settle(i, how)
      PROVE  ServerOK' /\ ServerInv'
  <2>1. /\ index[i].state = "running" /\ index' = [index EXCEPT ![i].state = how]
        /\ cache' = IF how = "failed" /\ cache = i THEN None ELSE cache
        /\ UNCHANGED <<call, lost>>
    BY <1>2 DEF Settle
  <2>2. [index[i] EXCEPT !.state = how] \in IndexType
    BY DEF ServerOK, IndexType
  <2>3. ServerOK'
    BY <2>1, <2>2 DEF ServerOK
  <2>4. index'[i].state = how /\ \A j \in Indexes \ {i} : index'[j] = index[j]
    BY <2>1 DEF ServerOK, IndexType
  <2>. QED
    BY <2>1, <2>3, <2>4 DEF ServerInv, IndexAtHand, ClosedAreStale, IndexesAccounted
<1>. QED
  BY <1>1, <1>2

\* What the server does to the viewers: it starts selections, and that is all.
LEMMA ServerBeside ==
  ASSUME ViewerTypeOK, Agreement, peer \in Ports \cup {None}, McpStep
  PROVE  ViewerTypeOK' /\ Agreement' /\ peer' \in Ports \cup {None}
<1>. ProcessesOK /\ ResultsOK /\ TabsOK /\ OutOK /\ InboxOK /\ CountOK
  BY Parts
<1>1. peer' \in Ports \cup {None}
  BY DEF McpStep, Connect, Continue, Ensure, Woken, Own, NoDaemon, Daemon, Private, Use, Reply,
         NoReply, Again, Ask, Expire, Settle, ProcessesOK
<1>2. ASSUME NEW c \in Calls, Reply(c), NEW s \in Symbols, Select(peer, s)
      PROVE  ViewerTypeOK' /\ Agreement'
  <2>1. UNCHANGED <<file, up, port, snapshot, sidecar, tab, out, acts>>
    BY <1>2 DEF Reply
  <2>2. current' \in [Viewers -> Symbols \cup {None}] /\ InboxOK'
    BY <1>2, SelectTyped
  <2>3. ProcessesOK' /\ ResultsOK' /\ TabsOK' /\ OutOK' /\ CountOK'
    BY <2>1, <2>2 DEF ProcessesOK, ResultsOK, TabsOK, OutOK, CountOK
  <2>4. PortsKnown'
    BY <2>1, ByTab DEF PortsKnown
  <2>5. \A t \in Tabs : TabAgrees(t)'
    BY <1>2, <2>1, SelectAgrees
  <2>. QED
    BY <2>2, <2>3, <2>4, <2>5, PartsNext, ByTabNext
<1>3. CASE UNCHANGED <<served, viewing>> /\ (Act \/ UNCHANGED acts)
  <2>1. UNCHANGED <<file, up, port, current, snapshot, sidecar, tab, out, inbox>>
    BY <1>3 DEF served, viewing
  <2>2. CountOK'
    BY <1>3, ActBounded DEF CountOK
  <2>3. ProcessesOK' /\ ResultsOK' /\ TabsOK' /\ OutOK' /\ InboxOK'
    BY <2>1 DEF ProcessesOK, ResultsOK, TabsOK, OutOK, InboxOK
  <2>4. PortsKnown'
    BY <2>1, ByTab DEF PortsKnown
  <2>5. ASSUME NEW t \in Tabs PROVE TabAgrees(t)'
    <3>1. TabAgrees(t)
      BY ByTab
    <3>2. tab[t].socket # None => tab[t].socket \in At(tab[t].page)'
      BY <2>1, <3>1 DEF TabAgrees, At
    <3>. QED
      BY <2>1, <3>1, <3>2, TabUntouched
  <2>. QED
    BY <1>1, <2>2, <2>3, <2>4, <2>5, PartsNext, ByTabNext
<1>4. ASSUME NEW c \in Calls, Continue(c)
      PROVE  \/ UNCHANGED viewerVars
             \/ Reply(c) /\ \E s \in Symbols : Select(peer, s)
  <2>1. CASE Reply(c)
    BY <2>1 DEF Reply, viewerVars, served, viewing
  <2>. QED
    BY <1>4, <2>1 DEF Continue, Ensure, Woken, Own, NoDaemon, Daemon, Private, Use, NoReply, Again
<1>5. CASE Connect \/ (\E c \in Calls, tool \in Tools : Ask(c, tool)) \/ \E i \in Indexes : Expire(i)
  BY <1>3, <1>5 DEF Connect, Ask, Expire
<1>6. CASE \E c \in Calls : Continue(c)
  BY <1>1, <1>2, <1>3, <1>4, <1>6 DEF viewerVars
<1>7. CASE \E i \in Indexes, how \in {"open", "failed"} : Settle(i, how)
  BY <1>3, <1>7 DEF Settle, viewerVars
<1>. QED
  BY <1>1, <1>5, <1>6, <1>7 DEF McpStep

LEMMA ServerBegins == McpInit => McpTypeOK /\ Agreement /\ ServerInv
<1>. SUFFICES ASSUME McpInit PROVE McpTypeOK /\ Agreement /\ ServerInv
  OBVIOUS
<1>1. ViewerTypeOK /\ Agreement
  BY ViewerTypeInit, AgreementInit DEF McpInit
<1>2. Idle \in CallType /\ Idle.tool \in AllTools /\ Idle.pc = "idle"
  <2>1. symbolsInFile \in AllTools
    BY DEF AllTools
  <2>. QED
    BY <2>1, ToolsTyped DEF Idle, CallType
<1>3. ServerOK
  BY <1>2 DEF McpInit, ServerOK, IndexType
<1>4. ServerInv
  BY <1>2 DEF McpInit, ServerInv, IndexAtHand, ClosedAreStale, IndexesAccounted
<1>. QED
  BY <1>1, <1>3, <1>4, McpParts DEF McpInit

LEMMA McpKeeps ==
  ASSUME McpTypeOK, Agreement, ServerInv, [McpNext]_mcpVars
  PROVE  McpTypeOK' /\ Agreement' /\ ServerInv'
<1>0. ViewerTypeOK /\ peer \in Ports \cup {None} /\ ServerOK
  BY McpParts
<1>1. CASE McpStep
  <2>1. ViewerTypeOK' /\ Agreement' /\ peer' \in Ports \cup {None}
    BY <1>0, <1>1, ServerBeside
  <2>2. ServerOK' /\ ServerInv'
    <3>1. CASE Connect
      BY <1>0, <3>1 DEF Connect, ServerOK, ServerInv, IndexAtHand, ClosedAreStale, IndexesAccounted
    <3>. QED
      BY <1>0, <1>1, <3>1, ContinueKeeps, AskKeeps, IndexKeeps DEF McpStep
  <2>. QED
    BY <2>1, <2>2, McpPartsNext
<1>2. CASE ViewerStep /\ UNCHANGED mcp
  <2>1. ViewerTypeOK' /\ Agreement'
    BY <1>0, <1>2, ViewerTyped, ViewerAgrees
  <2>2. UNCHANGED <<peer, call, cache, index, lost>>
    BY <1>2 DEF mcp
  <2>3. ServerOK' /\ ServerInv'
    BY <1>0, <2>2 DEF ServerOK, ServerInv, IndexAtHand, ClosedAreStale, IndexesAccounted
  <2>. QED
    BY <1>0, <2>1, <2>2, <2>3, McpPartsNext
<1>3. CASE UNCHANGED mcpVars
  <2>1. /\ UNCHANGED <<file, up, port, current, snapshot, sidecar, tab, out, inbox, acts>>
        /\ UNCHANGED <<peer, call, cache, index, lost>>
    BY <1>3 DEF mcpVars, viewerVars, served, viewing, mcp
  <2>2. ServerOK' /\ ServerInv'
    BY <1>0, <2>1 DEF ServerOK, ServerInv, IndexAtHand, ClosedAreStale, IndexesAccounted
  <2>3. ViewerTypeOK'
    BY <1>0, <2>1 DEF ViewerTypeOK
  <2>4. Agreement'
    BY <2>1 DEF Agreement, PortsKnown, SocketsLead, EventsHaveSocket, OnlySelects, GraphsAgree, Agrees, At
  <2>. QED
    BY <1>0, <2>1, <2>2, <2>3, <2>4, McpPartsNext
<1>. QED
  BY <1>1, <1>2, <1>3 DEF McpNext

LEMMA McpInvariant == McpSpec => [](McpTypeOK /\ Agreement /\ ServerInv)
  BY ServerBegins, McpKeeps, PTL DEF McpSpec
-----------------------------------------------------------------------------
(* The theorems.                                                           *)

\* Viewers, tabs, tool calls and cached indexes keep their types, whatever
\* order POSTs, events and awaits come in (bridge.ts, server.ts).
THEOREM McpTypeCorrect == McpSpec => []McpTypeOK
  BY McpInvariant, PTL

\* When nothing is under way, the graph views that have heard from their viewer
\* all show its selection, for any number of viewers, tabs and agents, and
\* however POSTs overtake each other and viewers come and go (routes/bridge.ts).
THEOREM GraphViewsAgree == McpSpec => []TabsAgree
  BY McpInvariant, AgreementIsEnough, PTL

\* The same of viewers without an MCP server.
THEOREM ViewersAloneAgree == ViewerSpec => []TabsAgree
<1>1. ViewerInit => ViewerTypeOK /\ Agreement
  BY ViewerTypeInit, AgreementInit
<1>2. ViewerTypeOK /\ Agreement /\ [ViewerStep]_viewerVars => ViewerTypeOK' /\ Agreement'
  <2>1. ASSUME ViewerTypeOK, Agreement, UNCHANGED viewerVars PROVE ViewerTypeOK' /\ Agreement'
    <3>1. UNCHANGED <<file, up, port, current, snapshot, sidecar, tab, out, inbox, acts>>
      BY <2>1 DEF viewerVars, served, viewing
    <3>2. ViewerTypeOK'
      BY <2>1, <3>1 DEF ViewerTypeOK
    <3>3. Agreement'
      BY <2>1, <3>1 DEF Agreement, PortsKnown, SocketsLead, EventsHaveSocket, OnlySelects,
                        GraphsAgree, Agrees, At
    <3>. QED
      BY <3>2, <3>3
  <2>. QED
    BY <2>1, ViewerTyped, ViewerAgrees
<1>. QED
  BY <1>1, <1>2, AgreementIsEnough, PTL DEF ViewerSpec

\* No call that is about to query a handle finds it closed, unless that handle's
\* five minutes are over (server.ts, ensureIndex).
THEOREM HandlesStayOpen == McpSpec => []ClosedOnlyWhenStale
<1>1. ServerInv => ClosedOnlyWhenStale
  BY DEF ServerInv, ClosedAreStale, IndexAtHand, ClosedOnlyWhenStale
<1>. QED
  BY <1>1, McpInvariant, PTL

\* One index at a time, and no open handle out of reach, unless a second caller
\* deleted the promise of the first (server.ts, ensureIndex).
THEOREM EveryIndexAccounted == McpSpec => []IndexesAccounted
<1>1. ServerInv => IndexesAccounted
  BY DEF ServerInv
<1>. QED
  BY <1>1, McpInvariant, PTL
=============================================================================
