-------------------------- MODULE GitHubAppProofs --------------------------
(* What the GitHub app keeps, for any deliveries, pull requests, incidents,   *)
(* pages, failures and people.                                              *)
EXTENDS GitHubApp, WellFoundedInduction, FiniteSetTheorems, TLAPS

\* A handler at work knows its key, and only reviews come as webhooks.
KeyKnown == \A h \in Handlers : pc[h] # "idle" => job[h].key \in Keys
ViaFits  == \A h \in Handlers : pc[h] # "idle" /\ job[h].via = "webhook" => kind = "review"

\* The document a handler is about to edit has its key's marker.
FoundIsOurs ==
  \A h \in Handlers : pc[h] = "update" =>
    found[h] \in 1 .. size /\ docs[found[h]].marker = job[h].key

\* A clone is made on the way into the analysis and removed on every way out.
CloneStates == {"analyze", "list", "update", "create", "killed"}
ClonesOwned == \A h \in dirs : pc[h] \in CloneStates

\* What is answered "ok" for an incident is filed; a handler is answered after it began.
Filed ==
  \A h \in Handlers : kind = "incident" /\ reply[h] = "ok" =>
    pc[h] # "idle" /\ \E i \in 1 .. size : docs[i].marker = job[h].key

Inv == KeyKnown /\ ViaFits /\ FoundIsOurs /\ ClonesOwned /\ Filed /\ SuccessIsWritten

\* What a step does to the documents: none goes away, none changes its marker,
\* and no body gets older unless that is excused.
DocsKept ==
  /\ size <= size' /\ excuses \subseteq excuses'
  /\ \A i \in 1 .. size :
       /\ docs'[i].marker = docs[i].marker
       /\ "stale edit" \notin excuses' => docs'[i].body >= docs[i].body
-----------------------------------------------------------------------------
(* The first match of a page.                                              *)

LEMMA Smallest ==
  ASSUME NEW S \in SUBSET Nat, S # {}
  PROVE  \E i \in S : \A j \in S : i <= j
<1>. DEFINE R == {p \in Nat \X Nat : p[1] < p[2]}
<1>1. IsWellFoundedOn(R, Nat)
  BY NatLessThanWellFounded, Zenon DEF OpToRel
<1>2. PICK i \in S : \A j \in S : <<j, i>> \notin R
  <2>. HIDE DEF R
  <2>. QED
    BY <1>1, WFMin
<1>3. \A j \in S : ~(j < i)
  BY <1>2
<1>. QED
  BY <1>3

LEMMA Greatest ==
  ASSUME NEW n \in Nat, NEW S \in SUBSET (1 .. n), S # {}
  PROVE  \E i \in S : \A j \in S : j <= i
<1>. DEFINE T == {k \in Nat : n - k \in S}
<1>1. T \in SUBSET Nat /\ T # {}
  <2>1. PICK j \in S : TRUE
    OBVIOUS
  <2>2. n - j \in T
    <3>1. n - j \in Nat /\ n - (n - j) = j
      OBVIOUS
    <3>. QED
      BY <3>1
  <2>. QED
    BY <2>2
<1>2. PICK m \in T : \A j \in T : m <= j
  <2>. HIDE DEF T
  <2>. QED
    BY <1>1, Smallest
<1>3. PICK i \in S : m = n - i
  <2>1. n - m \in S /\ m = n - (n - m)
    BY <1>2
  <2>. QED
    BY <2>1
<1>4. ASSUME NEW j \in S PROVE j <= i
  <2>1. n - j \in T
    <3>1. n - j \in Nat /\ n - (n - j) = j
      OBVIOUS
    <3>. QED
      BY <3>1
  <2>2. n - i <= n - j
    BY <1>2, <1>3, <2>1
  <2>. QED
    BY <2>2
<1>. QED
  BY <1>4

\* Some element of a set of documents is first, oldest or newest.
LEMMA FirstIs ==
  ASSUME size \in Nat, NEW S \in SUBSET (1 .. size), S # {}
  PROVE  \E i \in S : \A j \in S \ {i} : Before(i, j)
<1>1. CASE kind = "review"
  <2>1. PICK i \in S : \A j \in S : i <= j
    BY Smallest
  <2>. QED
    BY <1>1, <2>1 DEF Before
<1>2. CASE kind # "review"
  <2>1. PICK i \in S : \A j \in S : j <= i
    BY Greatest
  <2>. QED
    BY <1>2, <2>1 DEF Before
<1>. QED
  BY <1>1, <1>2

LEMMA FirstExists ==
  ASSUME size \in Nat, NEW S \in SUBSET (1 .. size), S # {}
  PROVE  FirstOf(S) \in S
  BY FirstIs DEF FirstOf

\* What a handler finds is a document with its key's marker.
LEMMA FoundMatches ==
  ASSUME TypeOK, NEW h \in Handlers, Matches(h) # {}
  PROVE  FirstOf(Matches(h)) \in 1 .. size /\ docs[FirstOf(Matches(h))].marker = job[h].key
<1>1. Matches(h) \in SUBSET (1 .. size)
  BY DEF Matches, OnPage, Listed
<1>2. size \in Nat
  <2>1. size \in 0 .. MaxDocs
    BY DEF TypeOK
  <2>. QED
    BY <2>1, NumbersAssumption
<1>3. FirstOf(Matches(h)) \in Matches(h)
  BY <1>1, <1>2, FirstExists
<1>. QED
  BY <1>1, <1>3 DEF Matches
-----------------------------------------------------------------------------
(* Types.                                                                  *)

\* The part of the state a handler's turn may change, and what it is called for.
TurnOK ==
  /\ kind \in {"review", "incident"}
  /\ pc \in [Handlers -> {"idle", "auth", "files", "rca", "analyze", "list", "update",
                          "create", "done", "failed", "killed"}]
  /\ job \in [Handlers -> [key : Keys \cup {None}, rev : Nat,
                       via : {"webhook", "action", "alert", None}]]
  /\ attempt \in [Handlers -> 0 .. MaxRetries]
  /\ dirs \subseteq Handlers
  /\ reply \in [Handlers -> {"none", "ok", "error"}]
  /\ faults \in 0 .. MaxFaults

\* The rest of the state.
PlaceOK ==
  /\ docs \in [Ids -> Doc] /\ size \in 0 .. MaxDocs
  /\ latest \in [Keys -> Nat]
  /\ page \in [Handlers -> 1 .. MaxPages]
  /\ found \in [Handlers -> 0 .. MaxDocs]
  /\ acts \in 0 .. MaxActs
  /\ excuses \subseteq {"depth", "lost answer", "race", "shift", "reopen", "stale edit"}

LEMMA TypeParts == TypeOK <=> TurnOK /\ PlaceOK
  BY DEF TypeOK, TurnOK, PlaceOK

LEMMA TypePartsNext == TurnOK' /\ PlaceOK' => TypeOK'
  BY DEF TypeOK, TurnOK, PlaceOK

LEMMA FaultCounts ==
  ASSUME TurnOK, Fault
  PROVE  faults' \in 0 .. MaxFaults
  BY NumbersAssumption DEF TurnOK, Fault

LEMMA TryAgain ==
  ASSUME TurnOK, NEW h \in Handlers, Retry(h)
  PROVE  /\ attempt' \in [Handlers -> 0 .. MaxRetries]
         /\ pc' \in [Handlers -> {"idle", "auth", "files", "rca", "analyze", "list", "update",
                                  "create", "done", "failed", "killed"}]
         /\ dirs' \subseteq Handlers
         /\ reply' \in [Handlers -> {"none", "ok", "error"}]
<1>1. CASE attempt[h] < MaxRetries
  <2>1. attempt[h] + 1 \in 0 .. MaxRetries
    BY <1>1, NumbersAssumption DEF TurnOK
  <2>. QED
    BY <1>1, <2>1 DEF TurnOK, Retry
<1>2. CASE ~(attempt[h] < MaxRetries)
  BY <1>2 DEF TurnOK, Retry, End
<1>. QED
  BY <1>1, <1>2

\* A handler's turn keeps its part well-typed.
LEMMA TurnTyped ==
  ASSUME TypeOK, NEW h \in Handlers, Step(h)
  PROVE  TurnOK'
<1>. TurnOK
  BY TypeParts
<1>. USE NumbersAssumption DEF TurnOK, outside
<1>1. CASE Authenticate(h)
  <2>1. CASE GoTo(h, "files") /\ UNCHANGED faults
    BY <1>1, <2>1 DEF Authenticate, GoTo
  <2>2. CASE GoTo(h, "rca") /\ UNCHANGED faults
    BY <1>1, <2>2 DEF Authenticate, GoTo
  <2>3. CASE /\ Fault
             /\ pc' = [pc EXCEPT ![h] = "failed"]
             /\ reply' = [reply EXCEPT ![h] = "error"]
             /\ UNCHANGED <<attempt, dirs>>
    <3>1. UNCHANGED <<kind, job>>
      BY <1>1 DEF Authenticate
    <3>. QED
      BY <2>3, <3>1, FaultCounts
  <2>. QED
    BY <1>1, <2>1, <2>2, <2>3 DEF Authenticate
<1>2. CASE Prepare(h)
  BY <1>2, FaultCounts DEF Prepare, End
<1>3. CASE Analyze(h)
  BY <1>3, FaultCounts DEF Analyze, End, GoTo
<1>4. CASE Triage(h)
  BY <1>4 DEF Triage, GoTo
<1>5. CASE List(h)
  BY <1>5 DEF List, GoTo
<1>6. CASE Update(h)
  <2>1. CASE Fault /\ Retry(h)
    BY <1>6, <2>1, FaultCounts, TryAgain DEF Update
  <2>2. CASE \E ok \in BOOLEAN : End(h, ok) /\ UNCHANGED <<attempt, faults>>
    BY <1>6, <2>2 DEF Update, End
  <2>. QED
    BY <1>6, <2>1, <2>2 DEF Update, Answered
<1>7. CASE Create(h)
  <2>1. CASE Fault /\ Retry(h)
    BY <1>7, <2>1, FaultCounts, TryAgain DEF Create
  <2>2. CASE End(h, TRUE) /\ UNCHANGED <<attempt, faults>>
    BY <1>7, <2>2 DEF Create, End
  <2>. QED
    BY <1>7, <2>1, <2>2 DEF Create, Answered
<1>8. CASE CallFails(h)
  <2>1. CASE Retry(h)
    BY <1>8, <2>1, FaultCounts, TryAgain DEF CallFails
  <2>2. CASE End(h, FALSE) /\ UNCHANGED attempt
    BY <1>8, <2>2, FaultCounts DEF CallFails, End
  <2>. QED
    BY <1>8, <2>1, <2>2 DEF CallFails
<1>. QED
  BY <1>1, <1>2, <1>3, <1>4, <1>5, <1>6, <1>7, <1>8 DEF Step

\* A handler's turn finds, edits and adds documents of their type.
LEMMA PlaceTyped ==
  ASSUME TypeOK, KeyKnown, FoundIsOurs, NEW h \in Handlers, Step(h)
  PROVE  PlaceOK'
<1>. TurnOK
  BY TypeParts
<1>a. /\ docs \in [Ids -> Doc]
      /\ latest \in [Keys -> Nat]
      /\ excuses \subseteq {"depth", "lost answer", "race", "shift", "reopen", "stale edit"}
  BY TypeParts DEF PlaceOK
<1>b. size \in 0 .. MaxDocs /\ acts \in 0 .. MaxActs
  BY TypeParts DEF PlaceOK
<1>c. page \in [Handlers -> 1 .. MaxPages] /\ found \in [Handlers -> 0 .. MaxDocs]
  BY TypeParts DEF PlaceOK
<1>d. \A i \in 1 .. size : i \in Ids /\ docs[i] \in Doc
  <2>1. \A i \in 1 .. size : i \in Ids
    BY <1>b, NumbersAssumption DEF Ids
  <2>. QED
    BY <1>a, <2>1
<1>1. CASE Authenticate(h) \/ Prepare(h) \/ Analyze(h) \/ Triage(h) \/ CallFails(h)
  BY <1>1, <1>a, <1>b, <1>c DEF Authenticate, Prepare, Analyze, Triage, CallFails, outside, PlaceOK
<1>2. CASE List(h)
  <2>1. excuses' \subseteq {"depth", "lost answer", "race", "shift", "reopen", "stale edit"}
    BY <1>2, <1>a DEF List
  <2>2. page' \in [Handlers -> 1 .. MaxPages] /\ found' \in [Handlers -> 0 .. MaxDocs]
    <3>1. CASE Matches(h) # {}
      <4>1. FirstOf(Matches(h)) \in 0 .. MaxDocs
        BY <3>1, <1>b, FoundMatches, NumbersAssumption
      <4>. QED
        BY <1>2, <1>c, <3>1, <4>1 DEF List
    <3>2. CASE Matches(h) = {} /\ LastPage(h)
      BY <1>2, <1>c, <3>2 DEF List
    <3>3. CASE Matches(h) = {} /\ ~LastPage(h)
      <4>1. page[h] # MaxPages
        BY <3>3 DEF LastPage
      <4>2. page[h] + 1 \in 1 .. MaxPages
        BY <4>1, <1>c, NumbersAssumption
      <4>. QED
        BY <1>2, <1>c, <3>3, <4>2 DEF List
    <3>. QED
      BY <3>1, <3>2, <3>3
  <2>. QED
    BY <1>2, <1>a, <1>b, <2>1, <2>2 DEF List, outside, PlaceOK
<1>3. CASE Update(h)
  <2>1. excuses' \subseteq {"depth", "lost answer", "race", "shift", "reopen", "stale edit"}
    BY <1>3, <1>a DEF Update
  <2>2. found[h] \in 1 .. size
    BY <1>3 DEF Update, FoundIsOurs
  <2>3. Edited(docs[found[h]], Body(h)) \in Doc
    BY <1>d, <2>2 DEF Edited, Body, Doc, TurnOK
  <2>4. docs' \in [Ids -> Doc]
    BY <1>3, <1>a, <1>d, <2>2, <2>3 DEF Update
  <2>. QED
    BY <1>3, <1>a, <1>b, <1>c, <2>1, <2>4 DEF Update, outside, PlaceOK
<1>4. CASE Create(h)
  <2>1. excuses' \subseteq {"depth", "lost answer", "race", "shift", "reopen", "stale edit"}
    BY <1>4, <1>a DEF Create
  <2>2. job[h].key \in Keys /\ job[h].rev \in Nat
    BY <1>4 DEF Create, KeyKnown, TurnOK
  <2>3. Posted(h, Body(h)) \in Doc
    BY <2>2 DEF Posted, Body, Doc
  <2>4. docs' \in [Ids -> Doc]
    BY <1>4, <1>a, <2>3 DEF Create
  <2>5. size' \in 0 .. MaxDocs
    <3>1. size < MaxDocs /\ size' = size + 1
      BY <1>4 DEF Create
    <3>. QED
      BY <3>1, <1>b, NumbersAssumption
  <2>. QED
    BY <1>4, <1>a, <1>b, <1>c, <2>1, <2>4, <2>5 DEF Create, outside, PlaceOK
<1>. QED
  BY <1>1, <1>2, <1>3, <1>4 DEF Step

LEMMA TypeInit == Init => TypeOK
<1>. SUFFICES ASSUME Init PROVE TypeOK
  OBVIOUS
<1>1. TurnOK
  BY NumbersAssumption DEF Init, TurnOK
<1>2. docs \in [Ids -> Doc]
  <2>1. (CHOOSE k \in Keys : TRUE) \in Keys
    BY KeysAssumption
  <2>. QED
    BY <2>1 DEF Init, Doc
<1>3. /\ size \in 0 .. MaxDocs
      /\ latest \in [Keys -> Nat]
      /\ page \in [Handlers -> 1 .. MaxPages]
      /\ found \in [Handlers -> 0 .. MaxDocs]
      /\ acts \in 0 .. MaxActs
      /\ excuses \subseteq {"depth", "lost answer", "race", "shift", "reopen", "stale edit"}
  BY NumbersAssumption DEF Init
<1>. QED
  BY <1>1, <1>2, <1>3, TypeParts DEF PlaceOK

\* A delivery, and what people do, keep the state well-typed.
LEMMA DeliveryTyped ==
  ASSUME TypeOK, NEW h \in Handlers, NEW k \in Keys, NEW via \in {"webhook", "action", "alert"},
         NEW where \in {"auth", "files"}, Delivered(h, k, via, where)
  PROVE  TypeOK'
<1>1. latest[k] \in Nat
  BY DEF TypeOK
<1>2. [key |-> k, rev |-> latest[k] + 1, via |-> via]
        \in [key : Keys \cup {None}, rev : Nat, via : {"webhook", "action", "alert", None}]
  BY <1>1
<1>3. TurnOK'
  BY <1>2, TypeParts DEF Delivered, TurnOK
<1>4. latest' \in [Keys -> Nat]
  <2>1. latest[k] + 1 \in Nat
    BY <1>1
  <2>. QED
    BY <2>1, TypeParts DEF Delivered, PlaceOK
<1>5. PlaceOK'
  BY <1>4, TypeParts DEF Delivered, PlaceOK
<1>. QED
  BY <1>3, <1>5, TypePartsNext

LEMMA ActCounts ==
  ASSUME TypeOK, PeopleAct
  PROVE  acts' \in 0 .. MaxActs
<1>1. acts \in 0 .. MaxActs
  BY DEF TypeOK
<1>. QED
  BY <1>1, NumbersAssumption DEF PeopleAct

LEMMA PeopleTyped ==
  ASSUME TypeOK,
         \/ \E k \in Keys : Write(k)
         \/ \E i \in Ids : Close(i) \/ Reopen(i)
  PROVE  TypeOK'
<1>0. docs \in [Ids -> Doc] /\ size \in 0 .. MaxDocs
  BY DEF TypeOK
<1>1. UNCHANGED <<kind, latest, work, dirs, reply, faults>> /\ PeopleAct
  BY DEF Write, Close, Reopen
<1>2. TurnOK'
  BY <1>1, TypeParts DEF TurnOK, work
<1>3. docs' \in [Ids -> Doc]
  <2>1. CASE \E k \in Keys : Write(k)
    <3>1. PICK k \in Keys : Write(k)
      BY <2>1
    <3>2. [on |-> k, marker |-> None, body |-> 0, open |-> TRUE] \in Doc
      BY DEF Doc
    <3>. QED
      BY <1>0, <3>1, <3>2 DEF Write
  <2>2. CASE \E i \in Ids : Close(i) \/ Reopen(i)
    <3>1. PICK i \in Ids : Close(i) \/ Reopen(i)
      BY <2>2
    <3>2. \A b \in BOOLEAN : [docs[i] EXCEPT !.open = b] \in Doc
      BY <1>0 DEF Doc
    <3>3. \E b \in BOOLEAN : docs' = [docs EXCEPT ![i] = [docs[i] EXCEPT !.open = b]]
      BY <3>1 DEF Close, Reopen
    <3>. QED
      BY <1>0, <3>2, <3>3
  <2>. QED
    BY <2>1, <2>2
<1>4. size' \in 0 .. MaxDocs
  <2>1. size' = size \/ (size < MaxDocs /\ size' = size + 1)
    BY DEF Write, Close, Reopen
  <2>. QED
    BY <1>0, <2>1, NumbersAssumption
<1>5. excuses' \subseteq {"depth", "lost answer", "race", "shift", "reopen", "stale edit"}
  <2>1. excuses \subseteq {"depth", "lost answer", "race", "shift", "reopen", "stale edit"}
    BY DEF TypeOK
  <2>. QED
    BY <2>1 DEF Write, Close, Reopen
<1>6. PlaceOK'
  BY <1>1, <1>3, <1>4, <1>5, ActCounts, TypeParts DEF PlaceOK, work
<1>. QED
  BY <1>2, <1>6, TypePartsNext

LEMMA KillTyped ==
  ASSUME TypeOK, NEW h \in Handlers, Kill(h)
  PROVE  TypeOK'
<1>1. TurnOK'
  BY TypeParts DEF TurnOK, Kill
<1>2. PlaceOK'
  BY ActCounts, TypeParts DEF PlaceOK, Kill
<1>. QED
  BY <1>1, <1>2, TypePartsNext

LEMMA TypeStep ==
  ASSUME TypeOK, KeyKnown, FoundIsOurs, [Next]_vars
  PROVE  TypeOK'
<1>1. ASSUME NEW h \in Handlers, NEW k \in Keys, Webhook(h, k) \/ ActionRun(h, k) \/ Alert(h, k)
      PROVE  TypeOK'
  <2>1. \E via \in {"webhook", "action", "alert"}, where \in {"auth", "files"} :
          Delivered(h, k, via, where)
    BY <1>1 DEF Webhook, ActionRun, Alert
  <2>. QED
    BY <2>1, DeliveryTyped
<1>2. ASSUME NEW h \in Handlers, Step(h) PROVE TypeOK'
  BY <1>2, TurnTyped, PlaceTyped, TypePartsNext
<1>3. CASE UNCHANGED vars
  BY <1>3 DEF TypeOK, vars, work, Ids, Doc
<1>. QED
  BY <1>1, <1>2, <1>3, PeopleTyped, KillTyped DEF Next

-----------------------------------------------------------------------------
(* The invariant.                                                          *)

LEMMA InvInit == Init => Inv
<1>. SUFFICES ASSUME Init PROVE Inv
  OBVIOUS
<1>1. \A h \in Handlers : pc[h] = "idle" /\ reply[h] = "none"
  BY DEF Init
<1>2. KeyKnown /\ ViaFits /\ FoundIsOurs /\ Filed /\ SuccessIsWritten
  BY <1>1 DEF KeyKnown, ViaFits, FoundIsOurs, Filed, SuccessIsWritten
<1>3. ClonesOwned
  BY DEF Init, ClonesOwned
<1>. QED
  BY <1>2, <1>3 DEF Inv

\* A document with the marker of h reports what h was called for, or something later.
Written(h) ==
  \E i \in 1 .. size' : docs'[i].marker = job[h].key /\ docs'[i].body >= job[h].rev

\* What a handler's turn does to handlers: nothing to the others; and it edits,
\* keeps a clone, ends and answers only where it may.
Turn(h) ==
  /\ UNCHANGED <<kind, job>>
  /\ \A g \in Handlers \ {h} :
       /\ pc'[g] = pc[g] /\ found'[g] = found[g] /\ reply'[g] = reply[g]
       /\ g \in dirs' => g \in dirs
  /\ pc[h] # "idle" /\ pc'[h] # "idle"
  /\ pc'[h] = "update" => found'[h] \in 1 .. size /\ docs[found'[h]].marker = job[h].key
  /\ h \in dirs' => pc'[h] \in CloneStates
  /\ pc'[h] = "done" => Written(h)
  /\ kind = "incident" /\ reply'[h] = "ok" => reply[h] = "ok" \/ Written(h)

\* A turn that keeps the documents keeps the invariant.
LEMMA TurnKeeps ==
  ASSUME TypeOK, TypeOK', Inv, NEW h \in Handlers, Turn(h), DocsKept
  PROVE  Inv'
<1>0. /\ job' = job /\ kind' = kind
      /\ dirs' \subseteq Handlers
      /\ size \in Nat /\ size' \in Nat /\ size <= size'
      /\ \A i \in 1 .. size : docs'[i].marker = docs[i].marker
  <2>1. size \in 0 .. MaxDocs /\ size' \in 0 .. MaxDocs /\ dirs' \subseteq Handlers
    BY DEF TypeOK
  <2>2. size \in Nat /\ size' \in Nat
    BY <2>1, NumbersAssumption
  <2>. QED
    BY <2>1, <2>2 DEF Turn, DocsKept
<1>1. KeyKnown'
  BY <1>0 DEF Inv, KeyKnown, Turn
<1>2. ViaFits'
  BY <1>0 DEF Inv, ViaFits, Turn
<1>3. FoundIsOurs'
  <2>1. SUFFICES ASSUME NEW g \in Handlers, pc'[g] = "update"
                 PROVE  found'[g] \in 1 .. size' /\ docs'[found'[g]].marker = job[g].key
    BY <1>0 DEF FoundIsOurs
  <2>2. found'[g] \in 1 .. size /\ docs[found'[g]].marker = job[g].key
    BY <2>1 DEF Inv, FoundIsOurs, Turn
  <2>3. found'[g] \in 1 .. size'
    BY <2>2, <1>0
  <2>. QED
    BY <2>2, <2>3, <1>0
<1>4. ClonesOwned'
  BY <1>0 DEF Inv, ClonesOwned, Turn
<1>5. Filed'
  <2>1. SUFFICES ASSUME NEW g \in Handlers, kind = "incident", reply'[g] = "ok"
                 PROVE  pc'[g] # "idle" /\ \E i \in 1 .. size' : docs'[i].marker = job[g].key
    BY <1>0 DEF Filed
  <2>2. CASE reply[g] = "ok"
    <3>1. pc[g] # "idle" /\ \E i \in 1 .. size : docs[i].marker = job[g].key
      BY <2>1, <2>2 DEF Inv, Filed
    <3>2. PICK i \in 1 .. size : docs[i].marker = job[g].key
      BY <3>1
    <3>3. i \in 1 .. size' /\ docs'[i].marker = job[g].key
      BY <3>2, <1>0
    <3>4. pc'[g] # "idle"
      BY <3>1 DEF Turn
    <3>. QED
      BY <3>3, <3>4
  <2>3. CASE reply[g] # "ok"
    <3>1. g = h
      BY <2>1, <2>3 DEF Turn
    <3>2. pc'[h] # "idle" /\ Written(h)
      BY <2>1, <2>3, <3>1 DEF Turn
    <3>. QED
      BY <3>1, <3>2 DEF Written
  <2>. QED
    BY <2>2, <2>3
<1>6. SuccessIsWritten'
  <2>1. SUFFICES ASSUME "stale edit" \notin excuses', NEW g \in Handlers, pc'[g] = "done"
                 PROVE  \E i \in 1 .. size' : docs'[i].marker = job[g].key /\ docs'[i].body >= job[g].rev
    BY <1>0 DEF SuccessIsWritten
  <2>2. CASE g = h
    BY <2>1, <2>2 DEF Turn, Written
  <2>3. CASE g # h
    <3>1. pc[g] = "done"
      BY <2>1, <2>3 DEF Turn
    <3>2. "stale edit" \notin excuses
      BY <2>1 DEF DocsKept
    <3>3. PICK i \in 1 .. size : docs[i].marker = job[g].key /\ docs[i].body >= job[g].rev
      BY <3>1, <3>2 DEF Inv, SuccessIsWritten
    <3>4. i \in 1 .. size' /\ docs'[i].marker = job[g].key
      BY <3>3, <1>0
    <3>5. docs'[i].body >= docs[i].body
      BY <2>1 DEF DocsKept
    <3>6. i \in Ids
      <4>1. size \in 0 .. MaxDocs
        BY DEF TypeOK
      <4>. QED
        BY <4>1, NumbersAssumption DEF Ids
    <3>7. docs[i].body \in Nat /\ docs'[i].body \in Nat
      BY <3>6 DEF TypeOK, Doc
    <3>8. job[g].rev \in Nat
      BY DEF TypeOK
    <3>9. docs'[i].body >= job[g].rev
      BY <3>3, <3>5, <3>7, <3>8
    <3>. QED
      BY <3>4, <3>9
  <2>. QED
    BY <2>2, <2>3
<1>. QED
  BY <1>1, <1>2, <1>3, <1>4, <1>5, <1>6 DEF Inv

\* Every turn of a handler is one, and keeps the documents.
LEMMA QuietTurn ==
  ASSUME TypeOK, Inv, NEW h \in Handlers, Turn(h),
         Authenticate(h) \/ Prepare(h) \/ Analyze(h) \/ Triage(h) \/ List(h) \/ CallFails(h)
  PROVE  DocsKept
<1>1. UNCHANGED <<docs, size>> /\ excuses \subseteq excuses'
  BY DEF Authenticate, Prepare, Analyze, Triage, List, CallFails
<1>2. size \in 0 .. MaxDocs /\ \A i \in Ids : docs[i].body \in Nat
  BY DEF TypeOK, Doc
<1>3. \A i \in 1 .. size : i \in Ids
  BY <1>2, NumbersAssumption DEF Ids
<1>4. size <= size'
  BY <1>1, <1>2, NumbersAssumption
<1>5. \A i \in 1 .. size : docs'[i].marker = docs[i].marker /\ docs'[i].body >= docs[i].body
  BY <1>1, <1>2, <1>3
<1>. QED
  BY <1>1, <1>4, <1>5 DEF DocsKept

LEMMA EarlyTurn ==
  ASSUME TypeOK, Inv, NEW h \in Handlers,
         Authenticate(h) \/ Prepare(h) \/ Analyze(h) \/ Triage(h)
  PROVE  Turn(h)
<1>. USE DEF TypeOK, Turn, Inv, outside, CloneStates
<1>1. CASE Authenticate(h)
  <2>1. h \notin dirs
    BY <1>1 DEF Authenticate, ClonesOwned
  <2>. QED
    BY <1>1, <2>1 DEF Authenticate, GoTo
<1>2. CASE Prepare(h)
  BY <1>2 DEF Prepare, End, ViaFits
<1>3. CASE Analyze(h)
  BY <1>3 DEF Analyze, End, GoTo, ViaFits
<1>4. CASE Triage(h)
  BY <1>4 DEF Triage, GoTo
<1>. QED
  BY <1>1, <1>2, <1>3, <1>4

LEMMA ListTurn ==
  ASSUME TypeOK, Inv, NEW h \in Handlers, List(h)
  PROVE  Turn(h)
<1>. USE DEF TypeOK, Turn, outside, CloneStates
<1>1. CASE Matches(h) # {}
  <2>. DEFINE i == FirstOf(Matches(h))
  <2>1. i \in 1 .. size /\ docs[i].marker = job[h].key
    BY <1>1, FoundMatches
  <2>2. /\ pc[h] = "list" /\ pc' = [pc EXCEPT ![h] = "update"]
        /\ found' = [found EXCEPT ![h] = i]
        /\ UNCHANGED <<kind, job, dirs, reply>>
    BY <1>1 DEF List, GoTo
  <2>. HIDE DEF i
  <2>. QED
    BY <2>1, <2>2
<1>2. CASE Matches(h) = {}
  BY <1>2 DEF List, GoTo
<1>. QED
  BY <1>1, <1>2

LEMMA FailTurn ==
  ASSUME TypeOK, Inv, NEW h \in Handlers, CallFails(h)
  PROVE  Turn(h)
<1>. USE DEF TypeOK, Turn, Inv, outside, CloneStates
<1>1. CASE End(h, FALSE)
  BY <1>1 DEF CallFails, End, ViaFits
<1>2. CASE Retry(h)
  <2>1. CASE End(h, FALSE)
    BY <1>1, <2>1
  <2>2. CASE UNCHANGED <<pc, dirs, reply>>
    BY <1>2, <2>2 DEF CallFails, FoundIsOurs
  <2>. QED
    BY <1>2, <2>1, <2>2 DEF Retry
<1>. QED
  BY <1>1, <1>2 DEF CallFails

\* An answer that was lost is a turn too, and so is one that came.
LEMMA AnswerTurn ==
  ASSUME TypeOK, Inv, NEW h \in Handlers, pc[h] \in {"update", "create"}, Answered(h),
         UNCHANGED <<kind, job, found>>, Written(h)
  PROVE  Turn(h)
<1>. USE DEF TypeOK, Turn, Inv, CloneStates
<1>1. CASE \E ok \in BOOLEAN : End(h, ok)
  BY <1>1 DEF End
<1>2. CASE UNCHANGED <<pc, dirs, reply>>
  BY <1>2 DEF FoundIsOurs
<1>. QED
  BY <1>1, <1>2 DEF Answered, Retry

\* An edit keeps every marker, since the handler found its own there.
LEMMA UpdateTurn ==
  ASSUME TypeOK, TypeOK', Inv, NEW h \in Handlers, Update(h)
  PROVE  Turn(h) /\ DocsKept
<1>. DEFINE i == found[h]
<1>0. /\ size \in 0 .. MaxDocs
      /\ docs \in [Ids -> Doc]
      /\ job[h].rev \in Nat
      /\ \A j \in Ids : docs[j].body \in Nat
  BY DEF TypeOK, Doc
<1>1. i \in 1 .. size /\ docs[i].marker = job[h].key
  BY DEF Update, Inv, FoundIsOurs
<1>2. \A j \in 1 .. size : j \in Ids
  BY <1>0, NumbersAssumption DEF Ids
<1>3. size' = size /\ UNCHANGED <<kind, job, found>> /\ excuses \subseteq excuses'
  BY DEF Update, outside
<1>4. size <= size
  BY <1>0, NumbersAssumption
<1>5. CASE /\ docs' = [docs EXCEPT ![i] = Edited(@, Body(h))]
           /\ Answered(h)
           /\ excuses' = IF docs[i].body > job[h].rev
                         THEN excuses \cup {"stale edit"} ELSE excuses
  <2>1. docs'[i].marker = job[h].key /\ docs'[i].body = job[h].rev
    BY <1>0, <1>1, <1>2, <1>5 DEF Edited, Body, Doc
  <2>2. \A j \in Ids : j # i => docs'[j] = docs[j]
    BY <1>0, <1>5
  <2>3. Written(h)
    BY <1>0, <1>1, <1>3, <2>1 DEF Written
  <2>4. \A j \in 1 .. size : docs'[j].marker = docs[j].marker
    BY <1>1, <1>2, <2>1, <2>2
  <2>5. ASSUME NEW j \in 1 .. size, "stale edit" \notin excuses'
        PROVE  docs'[j].body >= docs[j].body
    <3>1. CASE j = i
      <4>1. ~(docs[i].body > job[h].rev)
        BY <1>5, <2>5
      <4>2. docs[i].body \in Nat
        BY <1>0, <1>1, <1>2
      <4>. QED
        BY <1>0, <2>1, <3>1, <4>1, <4>2
    <3>2. CASE j # i
      BY <1>0, <1>2, <2>2, <3>2
    <3>. QED
      BY <3>1, <3>2
  <2>6. Turn(h)
    BY <1>3, <1>5, <2>3, AnswerTurn DEF Update
  <2>. QED
    BY <1>3, <1>4, <2>4, <2>5, <2>6 DEF DocsKept
<1>6. CASE /\ End(h, FALSE)
           /\ kind = "review"
           /\ UNCHANGED <<docs, attempt, faults, excuses>>
  <2>1. Turn(h)
    BY <1>3, <1>6 DEF Turn, TypeOK, End, Update
  <2>2. \A j \in 1 .. size : docs'[j].marker = docs[j].marker /\ docs'[j].body >= docs[j].body
    BY <1>0, <1>2, <1>6
  <2>. QED
    BY <1>3, <1>4, <2>1, <2>2 DEF DocsKept
<1>. QED
  BY <1>5, <1>6 DEF Update

LEMMA CreateTurn ==
  ASSUME TypeOK, Inv, NEW h \in Handlers, Create(h)
  PROVE  Turn(h) /\ DocsKept
<1>0. /\ size \in 0 .. MaxDocs
      /\ docs \in [Ids -> Doc]
      /\ job[h].rev \in Nat
      /\ \A j \in Ids : docs[j].body \in Nat
  BY DEF TypeOK, Doc
<1>1. /\ size < MaxDocs /\ size' = size + 1
      /\ docs' = [docs EXCEPT ![size + 1] = Posted(h, Body(h))]
      /\ Answered(h)
      /\ UNCHANGED <<kind, job, found>>
      /\ pc[h] = "create" /\ excuses \subseteq excuses'
  BY DEF Create, outside
<1>2. /\ size <= size' /\ size + 1 \in Ids /\ size + 1 \in 1 .. size'
      /\ \A j \in 1 .. size : j \in Ids /\ j # size + 1
  BY <1>0, <1>1, NumbersAssumption DEF Ids
<1>3. docs'[size + 1].marker = job[h].key /\ docs'[size + 1].body = job[h].rev
  BY <1>0, <1>1, <1>2 DEF Posted, Body
<1>4. Written(h)
  <2>1. docs'[size + 1].body >= job[h].rev
    BY <1>0, <1>3
  <2>. QED
    BY <1>2, <1>3, <2>1 DEF Written
<1>5. Turn(h)
  BY <1>1, <1>4, AnswerTurn
<1>6. \A j \in 1 .. size : docs'[j] = docs[j]
  BY <1>0, <1>1, <1>2
<1>7. \A j \in 1 .. size : docs'[j].marker = docs[j].marker /\ docs'[j].body >= docs[j].body
  BY <1>0, <1>2, <1>6
<1>. QED
  BY <1>1, <1>2, <1>5, <1>7 DEF DocsKept

LEMMA StepKeeps ==
  ASSUME TypeOK, TypeOK', Inv, NEW h \in Handlers, Step(h)
  PROVE  Inv' /\ DocsKept
<1>1. Turn(h) /\ DocsKept
  BY EarlyTurn, ListTurn, FailTurn, QuietTurn, UpdateTurn, CreateTurn DEF Step
<1>. QED
  BY <1>1, TurnKeeps

\* A delivery starts a handler that had found, cloned and answered nothing.
LEMMA DeliveryKeeps ==
  ASSUME TypeOK, Inv, NEW h \in Handlers, NEW k \in Keys,
         Webhook(h, k) \/ ActionRun(h, k) \/ Alert(h, k)
  PROVE  Inv'
<1>1. PICK via \in {"webhook", "action", "alert"}, where \in {"auth", "files"} :
        Delivered(h, k, via, where) /\ (via = "webhook" => kind = "review")
  BY DEF Webhook, ActionRun, Alert
<1>2. /\ UNCHANGED <<kind, docs, size, found, dirs, reply, excuses>>
      /\ pc[h] = "idle" /\ pc'[h] = where
      /\ job'[h].key = k /\ job'[h].via = via
      /\ \A g \in Handlers \ {h} : pc'[g] = pc[g] /\ job'[g] = job[g]
  BY <1>1 DEF Delivered, TypeOK
<1>. USE DEF Inv
<1>3. KeyKnown' /\ ViaFits'
  BY <1>1, <1>2 DEF KeyKnown, ViaFits
<1>4. FoundIsOurs'
  BY <1>2 DEF FoundIsOurs
<1>5. ClonesOwned'
  BY <1>2 DEF ClonesOwned, CloneStates, TypeOK
<1>6. Filed'
  BY <1>2 DEF Filed
<1>7. SuccessIsWritten'
  BY <1>2 DEF SuccessIsWritten
<1>. QED
  BY <1>3, <1>4, <1>5, <1>6, <1>7

LEMMA PeopleKeep ==
  ASSUME TypeOK, TypeOK', Inv,
         \/ \E k \in Keys : Write(k)
         \/ \E i \in Ids : Close(i) \/ Reopen(i)
  PROVE  Inv' /\ DocsKept
<1>1. UNCHANGED <<kind, pc, job, found, dirs, reply>> /\ excuses \subseteq excuses'
  BY DEF Write, Close, Reopen, work
<1>2. /\ size \in 0 .. MaxDocs /\ docs \in [Ids -> Doc]
      /\ \A j \in Ids : docs[j].body \in Nat
  BY DEF TypeOK, Doc
<1>3. \A j \in 1 .. size : j \in Ids /\ j # size + 1
  BY <1>2, NumbersAssumption DEF Ids
<1>4. size <= size'
  <2>1. size' = size \/ size' = size + 1
    BY DEF Write, Close, Reopen
  <2>. QED
    BY <1>2, <2>1, NumbersAssumption
<1>5. \A j \in 1 .. size : docs'[j].marker = docs[j].marker /\ docs'[j].body = docs[j].body
  <2>1. ASSUME NEW k \in Keys, Write(k), NEW j \in 1 .. size PROVE docs'[j] = docs[j]
    BY <1>2, <1>3, <2>1 DEF Write
  <2>2. ASSUME NEW i \in Ids, Close(i) \/ Reopen(i), NEW j \in 1 .. size
        PROVE  docs'[j].marker = docs[j].marker /\ docs'[j].body = docs[j].body
    BY <1>2, <1>3, <2>2 DEF Close, Reopen, Doc
  <2>. QED
    BY <2>1, <2>2
<1>6. DocsKept
  <2>1. \A j \in 1 .. size : docs'[j].body >= docs[j].body
    BY <1>2, <1>3, <1>5
  <2>. QED
    BY <1>1, <1>4, <1>5, <2>1 DEF DocsKept
<1>7. \A i \in 1 .. size : i \in 1 .. size'
  <2>1. size' \in 0 .. MaxDocs
    BY DEF TypeOK
  <2>. QED
    BY <1>2, <1>4, <2>1, NumbersAssumption
<1>. USE DEF Inv
<1>8. KeyKnown' /\ ViaFits' /\ ClonesOwned'
  BY <1>1 DEF KeyKnown, ViaFits, ClonesOwned
<1>9. FoundIsOurs'
  BY <1>1, <1>5, <1>7 DEF FoundIsOurs
<1>10. Filed'
  BY <1>1, <1>5, <1>7 DEF Filed
<1>11. SuccessIsWritten'
  BY <1>1, <1>5, <1>7 DEF SuccessIsWritten
<1>. QED
  BY <1>6, <1>8, <1>9, <1>10, <1>11

LEMMA KillKeeps ==
  ASSUME TypeOK, Inv, NEW h \in Handlers, Kill(h)
  PROVE  Inv'
<1>1. /\ UNCHANGED <<kind, docs, size, job, found, dirs, reply, excuses>>
      /\ pc[h] # "idle" /\ pc'[h] = "killed"
      /\ \A g \in Handlers \ {h} : pc'[g] = pc[g]
  BY DEF Kill, Active, TypeOK
<1>. USE DEF Inv
<1>2. KeyKnown' /\ ViaFits'
  BY <1>1 DEF KeyKnown, ViaFits
<1>3. FoundIsOurs'
  BY <1>1 DEF FoundIsOurs
<1>4. ClonesOwned'
  BY <1>1 DEF ClonesOwned, CloneStates, TypeOK
<1>5. Filed'
  BY <1>1 DEF Filed
<1>6. SuccessIsWritten'
  BY <1>1 DEF SuccessIsWritten
<1>. QED
  BY <1>2, <1>3, <1>4, <1>5, <1>6

LEMMA NextKeeps ==
  ASSUME TypeOK, Inv, [Next]_vars
  PROVE  TypeOK' /\ Inv'
<1>1. TypeOK'
  BY TypeStep DEF Inv
<1>2. CASE UNCHANGED vars
  <2>1. UNCHANGED <<kind, docs, size, pc, job, found, dirs, reply, excuses>>
    BY <1>2 DEF vars, work
  <2>2. KeyKnown' /\ ViaFits' /\ FoundIsOurs' /\ ClonesOwned'
    BY <2>1 DEF Inv, KeyKnown, ViaFits, FoundIsOurs, ClonesOwned
  <2>3. Filed' /\ SuccessIsWritten'
    BY <2>1 DEF Inv, Filed, SuccessIsWritten
  <2>. QED
    BY <1>1, <2>2, <2>3 DEF Inv
<1>3. CASE Next
  <2>1. CASE \E h \in Handlers : Step(h)
    BY <1>1, <2>1, StepKeeps
  <2>2. CASE \E h \in Handlers, k \in Keys : Webhook(h, k) \/ ActionRun(h, k) \/ Alert(h, k)
    BY <1>1, <2>2, DeliveryKeeps
  <2>3. CASE (\E k \in Keys : Write(k)) \/ (\E i \in Ids : Close(i) \/ Reopen(i))
    BY <1>1, <2>3, PeopleKeep
  <2>4. CASE \E h \in Handlers : Kill(h)
    BY <1>1, <2>4, KillKeeps
  <2>. QED
    BY <1>3, <2>1, <2>2, <2>3, <2>4 DEF Next
<1>. QED
  BY <1>1, <1>2, <1>3

LEMMA Invariant == Spec => [](TypeOK /\ Inv)
  BY TypeInit, InvInit, NextKeeps, PTL DEF Spec
-----------------------------------------------------------------------------
(* The theorems.                                                           *)

\* Every call is tried 1 + MaxRetries times at most, a scan stays within its
\* pages, and ids, counters and replies keep their types (retry.ts, idempotency.ts).
THEOREM TypeCorrect == Spec => []TypeOK
  BY Invariant, PTL

\* A temporary clone belongs to a review at work or to a killed process,
\* whichever call of the handler fails (handler.ts, the finally).
THEOREM ClonesAreRemoved == Spec => []ClonesRemoved
<1>1. Inv => ClonesRemoved
  BY DEF Inv, ClonesOwned, CloneStates, ClonesRemoved, Active
<1>. QED
  BY <1>1, Invariant, PTL

\* An incident answered with 200 has an issue with its marker, however GitHub
\* and its users behave, and what a handler that succeeded reported, or something
\* later, is on GitHub, unless an older delivery's edit came after a newer one's
\* (incident-handler.ts, idempotency.ts, retry.ts).
THEOREM SuccessesAreTrue == Spec => []SuccessIsTrue
<1>1. Inv => SuccessIsTrue
  BY DEF Inv, Filed, SuccessIsTrue, AnsweredIsFiled
<1>. QED
  BY <1>1, Invariant, PTL

\* Only an edit changes the body or the marker of a document that is there.
LEMMA OnlyUpdateEdits ==
  ASSUME TypeOK, Next, NEW i \in Ids, i <= size,
         docs'[i].body # docs[i].body \/ docs'[i].marker # docs[i].marker
  PROVE  \E h \in Handlers : Update(h) /\ found[h] = i
<1>0. /\ docs \in [Ids -> Doc] /\ size \in 0 .. MaxDocs
  BY DEF TypeOK
<1>1. i # size + 1
  BY <1>0, NumbersAssumption DEF Ids
<1>2. ASSUME NEW h \in Handlers, NEW k \in Keys, Webhook(h, k) \/ ActionRun(h, k) \/ Alert(h, k)
      PROVE  FALSE
  BY <1>2 DEF Webhook, ActionRun, Alert, Delivered
<1>3. ASSUME NEW h \in Handlers, Step(h) PROVE Update(h) /\ found[h] = i
  <2>1. CASE Update(h)
    BY <1>0, <2>1 DEF Update
  <2>2. CASE Create(h)
    BY <1>0, <1>1, <2>2 DEF Create
  <2>3. CASE Authenticate(h) \/ Prepare(h) \/ Analyze(h) \/ Triage(h) \/ List(h) \/ CallFails(h)
    BY <2>3 DEF Authenticate, Prepare, Analyze, Triage, List, CallFails
  <2>. QED
    BY <1>3, <2>1, <2>2, <2>3 DEF Step
<1>4. ASSUME NEW h \in Handlers, Kill(h) PROVE FALSE
  BY <1>4 DEF Kill
<1>5. ASSUME NEW k \in Keys, Write(k) PROVE FALSE
  BY <1>0, <1>1, <1>5 DEF Write
<1>6. ASSUME NEW j \in Ids, Close(j) \/ Reopen(j) PROVE FALSE
  BY <1>0, <1>6 DEF Close, Reopen, Doc
<1>. QED
  BY <1>2, <1>3, <1>4, <1>5, <1>6 DEF Next

\* The app edits only documents that already bear the marker of the key it works
\* on, so no document changes hands and people's comments and issues stay as they
\* are (idempotency.ts).
THEOREM OthersAreUntouched == Spec => OthersUntouched
<1>1. ASSUME TypeOK, Inv, [Next]_vars
      PROVE  [\A i \in Ids : i =< size =>
                /\ docs'[i].marker = docs[i].marker
                /\ docs[i].marker = None => docs'[i].body = docs[i].body]_vars
  <2>1. CASE Next
    <3>1. SUFFICES ASSUME NEW i \in Ids, i <= size,
                          docs'[i].body # docs[i].body \/ docs'[i].marker # docs[i].marker
                   PROVE  docs[i].marker = docs'[i].marker /\ docs[i].marker # None
      OBVIOUS
    <3>2. PICK h \in Handlers : Update(h) /\ found[h] = i
      BY <2>1, <1>1, <3>1, OnlyUpdateEdits
    <3>3. i \in 1 .. size /\ docs[i].marker = job[h].key /\ job[h].key \in Keys
      BY <1>1, <3>2 DEF Update, Inv, FoundIsOurs, KeyKnown
    <3>4. docs'[i].marker = docs[i].marker
      <4>1. TypeOK'
        BY <1>1, NextKeeps
      <4>. QED
        BY <1>1, <3>2, <3>3, <4>1, UpdateTurn DEF DocsKept
    <3>. QED
      BY <3>3, <3>4, KeysAssumption
  <2>2. CASE UNCHANGED vars
    BY <2>2
  <2>. QED
    BY <1>1, <2>1, <2>2
<1>. QED
  BY <1>1, Invariant, PTL DEF Spec, OthersUntouched
-----------------------------------------------------------------------------
(* Places in a list.                                                       *)

\* The pages of a list partition the places.
LEMMA NextPage ==
  ASSUME NEW n \in Nat \ {0}, NEW p \in Nat \ {0}, NEW r \in Nat,
         r >= n * (p - 1), r \div n # p - 1
  PROVE  r >= n * p
  OBVIOUS

LEMMA InPage ==
  ASSUME NEW n \in Nat \ {0}, NEW p \in Nat \ {0}, NEW r \in Nat, r >= n * (p - 1), r < n * p
  PROVE  r \div n = p - 1
  OBVIOUS

\* Oldest first and newest first are both strict total orders.
LEMMA BeforeOrders ==
  /\ \A i \in Nat : ~Before(i, i)
  /\ \A i, j \in Nat : i = j \/ Before(i, j) \/ Before(j, i)
  /\ \A i, j \in Nat : ~(Before(i, j) /\ Before(j, i))
  /\ \A i, j, k \in Nat : Before(i, j) /\ Before(j, k) => Before(i, k)
  BY DEF Before

\* Some element of a set of documents is last.
LEMMA LastExists ==
  ASSUME size \in Nat, NEW S \in SUBSET (1 .. size), S # {}
  PROVE  \E i \in S : \A j \in S \ {i} : Before(j, i)
<1>1. CASE kind = "review"
  <2>1. PICK i \in S : \A j \in S : j <= i
    BY Greatest
  <2>. QED
    BY <1>1, <2>1 DEF Before
<1>2. CASE kind # "review"
  <2>1. PICK i \in S : \A j \in S : i <= j
    BY Smallest
  <2>. QED
    BY <1>2, <2>1 DEF Before
<1>. QED
  BY <1>1, <1>2

\* The numbers a scan works with.
LEMMA Numbers ==
  ASSUME TypeOK
  PROVE  /\ PageSize \in Nat \ {0} /\ MaxPages \in Nat /\ size \in Nat
         /\ docs \in [Ids -> Doc] /\ \A j \in 1 .. size : j \in Ids
         /\ \A h \in Handlers : page[h] \in Nat \ {0} /\ page[h] <= MaxPages
<1>1. size \in 0 .. MaxDocs /\ docs \in [Ids -> Doc] /\ page \in [Handlers -> 1 .. MaxPages]
  BY DEF TypeOK
<1>2. \A h \in Handlers : page[h] \in 1 .. MaxPages
  BY <1>1
<1>3. \A j \in 1 .. size : j \in 1 .. MaxDocs
  BY <1>1, NumbersAssumption
<1>. QED
  BY <1>1, <1>2, <1>3, NumbersAssumption DEF Ids

\* What is listed is finite, and so is what is listed before a document.
LEMMA Counted ==
  ASSUME TypeOK, NEW h \in Handlers
  PROVE  /\ size \in Nat /\ Listed(h) \in SUBSET (1 .. size)
         /\ IsFiniteSet(Listed(h))
         /\ \A S \in SUBSET Listed(h) : IsFiniteSet(S) /\ Cardinality(S) \in Nat
         /\ \A i : Rank(h, i) \in Nat
<1>1. size \in Nat
  <2>1. size \in 0 .. MaxDocs
    BY DEF TypeOK
  <2>. QED
    BY <2>1, NumbersAssumption
<1>2. Listed(h) \in SUBSET (1 .. size)
  BY DEF Listed
<1>3. IsFiniteSet(1 .. size)
  BY <1>1, FS_Interval
<1>4. IsFiniteSet(Listed(h))
  BY <1>2, <1>3, FS_Subset
<1>5. ASSUME NEW S \in SUBSET Listed(h) PROVE IsFiniteSet(S) /\ Cardinality(S) \in Nat
  BY <1>4, FS_Subset, FS_CardinalityType
<1>6. ASSUME NEW i PROVE Rank(h, i) \in Nat
  <2>1. {j \in Listed(h) : Before(j, i)} \in SUBSET Listed(h)
    OBVIOUS
  <2>. QED
    BY <1>5, <2>1 DEF Rank
<1>. QED
  BY <1>1, <1>2, <1>4, <1>5, <1>6

\* A document's place is within the list.
LEMMA RankBelow ==
  ASSUME TypeOK, NEW h \in Handlers, NEW i \in Listed(h)
  PROVE  Rank(h, i) < Cardinality(Listed(h))
<1>. DEFINE S == {j \in Listed(h) : Before(j, i)}
<1>1. IsFiniteSet(Listed(h)) /\ Cardinality(Listed(h)) \in Nat /\ i \in Nat
  BY Counted
<1>2. S \subseteq Listed(h) \ {i}
  BY <1>1, BeforeOrders
<1>3. IsFiniteSet(Listed(h) \ {i}) /\ Cardinality(Listed(h) \ {i}) = Cardinality(Listed(h)) - 1
  BY <1>1, FS_RemoveElement
<1>4. Cardinality(S) <= Cardinality(Listed(h) \ {i})
  BY <1>2, <1>3, FS_Subset
<1>5. Cardinality(S) \in Nat
  BY Counted
<1>. QED
  BY <1>1, <1>3, <1>4, <1>5 DEF Rank

\* No place before a document is empty.
LEMMA RankReached ==
  ASSUME TypeOK, NEW h \in Handlers, NEW i \in Listed(h), NEW r \in Nat, r < Rank(h, i)
  PROVE  \E j \in Listed(h) : Rank(h, j) = r
<1>. DEFINE S    == {j \in Listed(h) : Rank(h, j) >= r}
            P(j) == {k \in Listed(h) : Before(k, j)}
<1>0. /\ size \in Nat /\ Listed(h) \in SUBSET (1 .. size)
      /\ \A j : Rank(h, j) \in Nat
      /\ \A j \in Listed(h) : j \in Nat
  BY Counted
<1>1. PICK j \in S : \A k \in S \ {j} : Before(j, k)
  <2>1. S \in SUBSET (1 .. size) /\ S # {}
    BY <1>0
  <2>. HIDE DEF S
  <2>. QED
    BY <1>0, <2>1, FirstIs
<1>2. CASE Rank(h, j) # r
  <2>1. Rank(h, j) > r
    BY <1>0, <1>1, <1>2
  <2>2. P(j) # {}
    <3>1. Rank(h, j) # 0
      BY <1>0, <2>1
    <3>. QED
      BY <3>1, FS_EmptySet DEF Rank
  <2>3. PICK k \in P(j) : \A m \in P(j) \ {k} : Before(m, k)
    BY <1>0, <2>2, LastExists
  <2>4. P(k) = P(j) \ {k}
    BY <1>0, <2>3, BeforeOrders
  <2>5. IsFiniteSet(P(j))
    BY Counted
  <2>6. Cardinality(P(k)) = Cardinality(P(j)) - 1
    BY <2>3, <2>4, <2>5, FS_RemoveElement
  <2>7. Rank(h, k) >= r
    BY <1>0, <2>1, <2>6 DEF Rank
  <2>8. k \in S /\ k # j /\ Before(k, j)
    BY <1>0, <2>3, <2>7, BeforeOrders
  <2>. QED
    BY <1>0, <1>1, <2>8, BeforeOrders
<1>. QED
  BY <1>1, <1>2

\* A page that does not reach to a document is full.
LEMMA FullPage ==
  ASSUME TypeOK, NEW h \in Handlers, NEW i \in Listed(h), Rank(h, i) >= PageSize * page[h]
  PROVE  Cardinality(OnPage(h)) >= PageSize
<1>. DEFINE lo == PageSize * (page[h] - 1)
            hi == PageSize * page[h]
            T  == lo .. (hi - 1)
            S  == {j \in Listed(h) : Rank(h, j) \in T}
            f  == [j \in S |-> Rank(h, j)]
<1>0. /\ PageSize \in Nat \ {0} /\ page[h] \in Nat \ {0}
      /\ \A j : Rank(h, j) \in Nat
  BY Counted, Numbers
<1>1. lo \in Nat /\ hi \in Nat /\ hi = lo + PageSize
  BY <1>0
<1>2. Cardinality(T) = PageSize
  <2>. HIDE DEF lo, hi
  <2>1. lo <= hi - 1
    BY <1>0, <1>1
  <2>2. Cardinality(T) = (hi - 1) - lo + 1
    BY <1>1, <2>1, FS_Interval
  <2>. QED
    BY <1>0, <1>1, <2>2
<1>3. f \in Surjection(S, T)
  <2>1. ASSUME NEW r \in T PROVE \E j \in S : f[j] = r
    <3>1. r \in Nat /\ r < Rank(h, i)
      BY <1>0, <1>1, <2>1
    <3>2. PICK j \in Listed(h) : Rank(h, j) = r
      BY <3>1, RankReached
    <3>3. j \in S
      BY <2>1, <3>2
    <3>. QED
      BY <3>2, <3>3
  <2>2. f \in [S -> T]
    OBVIOUS
  <2>. HIDE DEF f, S, T
  <2>. QED
    BY <2>1, <2>2 DEF Surjection
<1>4. S \subseteq OnPage(h)
  <2>1. SUFFICES ASSUME NEW j \in S PROVE j \in OnPage(h)
    OBVIOUS
  <2>2. Rank(h, j) >= PageSize * (page[h] - 1) /\ Rank(h, j) < PageSize * page[h]
    BY <1>0, <1>1
  <2>. QED
    BY <1>0, <2>2, InPage DEF OnPage
<1>5. IsFiniteSet(S) /\ IsFiniteSet(OnPage(h))
  BY Counted DEF OnPage
<1>6. Cardinality(T) <= Cardinality(S)
  <2>. HIDE DEF f, S, T
  <2>. QED
    BY <1>3, <1>5, FS_Surjection
<1>7. Cardinality(S) <= Cardinality(OnPage(h))
  BY <1>4, <1>5, FS_Subset
<1>8. Cardinality(S) \in Nat /\ Cardinality(OnPage(h)) \in Nat
  BY <1>5, FS_CardinalityType
<1>. QED
  BY <1>0, <1>2, <1>6, <1>7, <1>8
-----------------------------------------------------------------------------
(* One document.                                                           *)

\* Nothing has happened that may leave two documents.
Clean == excuses \subseteq {"stale edit"}

\* A document bears the marker of what it is on.
MarkerOn == \A i \in 1 .. size : docs[i].marker \in Keys => docs[i].on = docs[i].marker

\* A handler that has not begun to scan will begin with the first page.
EarlyStates == {"idle", "auth", "files", "rca", "analyze"}
PageOne == \A h \in Handlers : pc[h] \in EarlyStates => page[h] = 1

\* A key has one document; none when somebody is about to create it; and none on
\* the pages a scan has left behind.
Unique      == \A k \in Keys : \A i, j \in Marked(k) : i = j
CreateAlone == \A h \in Handlers : pc[h] = "create" => Marked(job[h].key) = {}
Unscanned   ==
  \A h \in Handlers : pc[h] = "list" =>
    \A i \in Marked(job[h].key) : Rank(h, i) >= PageSize * (page[h] - 1)

OneInv == MarkerOn /\ PageOne /\ (Clean => Unique /\ CreateAlone /\ Unscanned)

LEMMA OneInit == Init => OneInv
<1>. SUFFICES ASSUME Init PROVE OneInv
  OBVIOUS
<1>1. size = 0 /\ \A h \in Handlers : pc[h] = "idle" /\ page[h] = 1
  BY DEF Init
<1>2. \A k : Marked(k) = {}
  BY <1>1 DEF Marked
<1>. QED
  BY <1>1, <1>2 DEF OneInv, MarkerOn, PageOne, Unique, CreateAlone, Unscanned

\* A key's document is in the list a handler of that key reads.
LEMMA MarkedIsListed ==
  ASSUME MarkerOn, NEW h \in Handlers, job[h].key \in Keys
  PROVE  Marked(job[h].key) \subseteq Listed(h)
  BY DEF MarkerOn, Marked, Listed

\* What is added to a list moves nothing forward.
LEMMA RankGrows ==
  ASSUME TypeOK, TypeOK', NEW h \in Handlers, kind' = kind, Listed(h) \subseteq Listed(h)', NEW i
  PROVE  Rank(h, i)' \in Nat /\ Rank(h, i) <= Rank(h, i)'
<1>. DEFINE S == {j \in Listed(h) : Before(j, i)}
            T == {j \in Listed(h)' : Before(j, i)}
<1>1. IsFiniteSet(Listed(h)')
  <2>1. size' \in Nat
    <3>1. size' \in 0 .. MaxDocs
      BY DEF TypeOK
    <3>. QED
      BY <3>1, NumbersAssumption
  <2>2. Listed(h)' \subseteq 1 .. size'
    BY DEF Listed
  <2>3. IsFiniteSet(1 .. size')
    BY <2>1, FS_Interval
  <2>. QED
    BY <2>2, <2>3, FS_Subset
<1>2. S \subseteq T /\ T \subseteq Listed(h)'
  OBVIOUS
<1>3. Cardinality(S) <= Cardinality(T)
  BY <1>1, <1>2, FS_Subset
<1>4. Rank(h, i) = Cardinality(S)
  BY DEF Rank
<1>5. Rank(h, i)' = Cardinality(T)
  BY DEF Rank, Before
<1>6. Cardinality(T) \in Nat
  BY <1>1, <1>2, FS_Subset, FS_CardinalityType
<1>. QED
  BY <1>3, <1>4, <1>5, <1>6

\* A step leaves a scan or a creation alone when the handler's list only grows
\* and no document of its key comes up.
Undisturbed(g) ==
  /\ job'[g] = job[g] /\ page'[g] = page[g]
  /\ Listed(g) \subseteq Listed(g)'
  /\ Marked(job[g].key)' \subseteq Marked(job[g].key)

\* A step that starts no scan but on the first page, begins no creation and
\* leaves the scans and creations alone keeps the invariant.
LEMMA ScansKept ==
  ASSUME TypeOK, TypeOK', KeyKnown, OneInv, kind' = kind, excuses \subseteq excuses', MarkerOn', PageOne',
         Clean' => Unique',
         Clean' => \A g \in Handlers : pc'[g] \in {"list", "create"} => Undisturbed(g),
         \A g \in Handlers : pc'[g] = "create" => pc[g] = "create",
         \A g \in Handlers : pc'[g] = "list" => pc[g] = "list" \/ page'[g] = 1
  PROVE  OneInv'
<1>. SUFFICES ASSUME Clean' PROVE CreateAlone' /\ Unscanned'
  BY DEF OneInv
<1>1. Unique /\ CreateAlone /\ Unscanned
  BY DEF OneInv, Clean
<1>2. CreateAlone'
  BY <1>1 DEF CreateAlone, Undisturbed
<1>3. Unscanned'
  <2>1. SUFFICES ASSUME NEW g \in Handlers, pc'[g] = "list", NEW i \in Marked(job[g].key)'
                 PROVE  Rank(g, i)' >= PageSize * (page'[g] - 1)
    BY DEF Unscanned
  <2>2. Undisturbed(g)
    BY <2>1
  <2>3. /\ PageSize \in Nat /\ page'[g] \in Nat
        /\ Rank(g, i) \in Nat /\ Rank(g, i)' \in Nat
    <3>1. Rank(g, i) \in Nat
      BY Counted
    <3>2. Rank(g, i)' \in Nat
      BY <2>2, RankGrows DEF Undisturbed
    <3>3. page'[g] \in 1 .. MaxPages
      BY DEF TypeOK
    <3>. QED
      BY <3>1, <3>2, <3>3, NumbersAssumption
  <2>4. CASE page'[g] = 1
    BY <2>3, <2>4
  <2>5. CASE page'[g] # 1
    <3>1. pc[g] = "list" /\ i \in Marked(job[g].key)
      BY <2>1, <2>2, <2>5 DEF Undisturbed
    <3>2. Rank(g, i) >= PageSize * (page[g] - 1)
      BY <1>1, <3>1 DEF Unscanned
    <3>3. Rank(g, i) <= Rank(g, i)'
      BY <2>2, RankGrows DEF Undisturbed
    <3>4. page'[g] = page[g]
      BY <2>2 DEF Undisturbed
    <3>. QED
      BY <2>3, <3>2, <3>3, <3>4
  <2>. QED
    BY <2>4, <2>5
<1>. QED
  BY <1>2, <1>3

\* A step that only moves handlers, and no list.
LEMMA QuietOne ==
  ASSUME TypeOK, TypeOK', KeyKnown, OneInv, UNCHANGED <<kind, docs, size, excuses>>,
         PageOne',
         \A g \in Handlers : pc'[g] \in {"list", "create"} => job'[g] = job[g] /\ page'[g] = page[g],
         \A g \in Handlers : pc'[g] = "create" => pc[g] = "create",
         \A g \in Handlers : pc'[g] = "list" => pc[g] = "list" \/ page'[g] = 1
  PROVE  OneInv'
<1>1. MarkerOn'
  BY DEF OneInv, MarkerOn
<1>2. Clean' => Unique'
  <2>1. \A k : Marked(k)' = Marked(k)
    BY DEF Marked
  <2>2. Clean' => Unique
    BY DEF OneInv, Clean
  <2>. QED
    BY <2>1, <2>2 DEF Unique
<1>3. \A g \in Handlers : pc'[g] \in {"list", "create"} => Undisturbed(g)
  BY DEF Undisturbed, Listed, Marked
<1>. QED
  BY <1>1, <1>2, <1>3, ScansKept

\* What a handler's call does where no list and no document is touched.
LEMMA WorkOne ==
  ASSUME TypeOK, TypeOK', KeyKnown, OneInv, NEW h \in Handlers,
         Authenticate(h) \/ Prepare(h) \/ Analyze(h) \/ Triage(h) \/ CallFails(h)
  PROVE  OneInv'
<1>1. UNCHANGED <<kind, docs, size, excuses, job, page>>
  BY DEF Authenticate, Prepare, Analyze, Triage, CallFails, outside
<1>2. /\ \A g \in Handlers \ {h} : pc'[g] = pc[g]
      /\ pc'[h] \in EarlyStates => pc[h] \in EarlyStates
      /\ pc'[h] = "create" => pc[h] = "create"
      /\ pc'[h] = "list" => pc[h] \in {"list", "analyze", "rca"}
  <2>. USE DEF EarlyStates, TypeOK
  <2>1. CASE Authenticate(h)
    BY <2>1 DEF Authenticate, GoTo
  <2>2. CASE Prepare(h)
    BY <2>2 DEF Prepare, End
  <2>3. CASE Analyze(h)
    BY <2>3 DEF Analyze, GoTo, End
  <2>4. CASE Triage(h)
    BY <2>4 DEF Triage, GoTo
  <2>5. CASE CallFails(h)
    BY <2>5 DEF CallFails, Retry, End
  <2>. QED
    BY <2>1, <2>2, <2>3, <2>4, <2>5
<1>3. PageOne'
  BY <1>1, <1>2 DEF OneInv, PageOne
<1>4. \A g \in Handlers : pc'[g] = "list" => pc[g] = "list" \/ page'[g] = 1
  BY <1>1, <1>2 DEF OneInv, PageOne, EarlyStates
<1>5. \A g \in Handlers : pc'[g] = "create" => pc[g] = "create"
  BY <1>2
<1>. QED
  BY <1>1, <1>3, <1>4, <1>5, QuietOne

\* A page without the key's document lets the scan go on, or shows that there is none.
LEMMA ListOne ==
  ASSUME TypeOK, TypeOK', KeyKnown, OneInv, NEW h \in Handlers, List(h)
  PROVE  OneInv'
<1>1. /\ UNCHANGED <<kind, docs, size, job>> /\ excuses \subseteq excuses'
      /\ pc[h] = "list" /\ pc'[h] \in {"update", "create", "list"}
      /\ \A g \in Handlers \ {h} : pc'[g] = pc[g] /\ page'[g] = page[g]
      /\ job[h].key \in Keys
  BY DEF List, GoTo, outside, KeyKnown, TypeOK
<1>2. MarkerOn' /\ PageOne'
  BY <1>1 DEF OneInv, MarkerOn, PageOne, EarlyStates
<1>. SUFFICES ASSUME Clean' PROVE Unique' /\ CreateAlone' /\ Unscanned'
  BY <1>2 DEF OneInv
<1>3. Unique /\ CreateAlone /\ Unscanned
  BY <1>1 DEF OneInv, Clean
<1>4. /\ \A k : Marked(k)' = Marked(k)
      /\ \A g, i : Rank(g, i)' = Rank(g, i)
  BY <1>1 DEF Marked, Rank, Listed, Before
<1>5. /\ PageSize \in Nat \ {0} /\ page[h] \in Nat \ {0} /\ page[h] <= MaxPages /\ MaxPages \in Nat
      /\ \A i : Rank(h, i) \in Nat
  BY Counted, Numbers
<1>6. ASSUME NEW i \in Marked(job[h].key), Matches(h) = {}
      PROVE  i \in Listed(h) /\ Rank(h, i) >= PageSize * page[h]
  <2>1. i \in Listed(h)
    BY <1>1, MarkedIsListed DEF OneInv
  <2>2. Rank(h, i) >= PageSize * (page[h] - 1)
    BY <1>1, <1>3 DEF Unscanned
  <2>3. Rank(h, i) \div PageSize # page[h] - 1
    BY <1>6, <2>1 DEF Matches, OnPage, Marked
  <2>. QED
    BY <1>5, <2>1, <2>2, <2>3, NextPage
<1>7. Unique'
  BY <1>3, <1>4 DEF Unique
<1>8. CreateAlone'
  <2>1. SUFFICES ASSUME pc'[h] = "create", NEW i \in Marked(job[h].key) PROVE FALSE
    BY <1>1, <1>3, <1>4 DEF CreateAlone
  <2>2. Matches(h) = {} /\ LastPage(h)
    BY <1>1, <2>1 DEF List, GoTo, TypeOK
  <2>3. i \in Listed(h) /\ Rank(h, i) >= PageSize * page[h]
    BY <1>6, <2>2
  <2>4. Cardinality(Listed(h)) <= PageSize * MaxPages
    <3>1. ~(Cardinality(Listed(h)) > PageSize * MaxPages)
      BY DEF List, Clean
    <3>2. Cardinality(Listed(h)) \in Nat /\ PageSize * MaxPages \in Nat
      BY <1>5, Counted
    <3>. QED
      BY <3>1, <3>2
  <2>5. Rank(h, i) < Cardinality(Listed(h)) /\ Cardinality(Listed(h)) \in Nat
    BY <2>3, RankBelow, Counted
  <2>6. Cardinality(OnPage(h)) >= PageSize /\ Cardinality(OnPage(h)) \in Nat
    BY <2>3, FullPage, Counted DEF OnPage
  <2>7. page[h] = MaxPages
    BY <1>5, <2>2, <2>6 DEF LastPage
  <2>. QED
    BY <1>5, <2>3, <2>4, <2>5, <2>7
<1>9. Unscanned'
  <2>1. SUFFICES ASSUME pc'[h] = "list", NEW i \in Marked(job[h].key)
                 PROVE  Rank(h, i) >= PageSize * (page'[h] - 1)
    BY <1>1, <1>3, <1>4 DEF Unscanned
  <2>2. Matches(h) = {} /\ page'[h] = page[h] + 1
    BY <1>1, <2>1 DEF List, GoTo, TypeOK
  <2>3. page'[h] - 1 = page[h]
    BY <1>5, <2>2
  <2>. QED
    BY <1>6, <2>2, <2>3
<1>. QED
  BY <1>7, <1>8, <1>9

\* An answer ends the handler, or has it make the same call again.
LEMMA AnswerEnds ==
  ASSUME TypeOK, NEW h \in Handlers, pc[h] \in {"update", "create"}, Answered(h)
  PROVE  /\ \A g \in Handlers \ {h} : pc'[g] = pc[g]
         /\ pc'[h] \in {"done", "failed", pc[h]}
  BY DEF Answered, Retry, End, TypeOK

\* An edit keeps the lists as they are.
LEMMA UpdateOne ==
  ASSUME TypeOK, TypeOK', Inv, OneInv, NEW h \in Handlers, Update(h)
  PROVE  OneInv'
<1>. DEFINE i == found[h]
<1>1. /\ UNCHANGED <<kind, size, job, page>> /\ excuses \subseteq excuses' /\ pc[h] = "update"
      /\ job[h].key \in Keys /\ i \in 1 .. size /\ docs[i].marker = job[h].key
  BY DEF Update, outside, Inv, FoundIsOurs, KeyKnown
<1>2. docs \in [Ids -> Doc] /\ \A j \in 1 .. size : j \in Ids
  BY Numbers
<1>3. \A j \in 1 .. size :
        docs'[j].open = docs[j].open /\ docs'[j].on = docs[j].on /\ docs'[j].marker = docs[j].marker
  <2>1. CASE docs' = [docs EXCEPT ![i] = Edited(@, Body(h))]
    <3>1. /\ docs'[i].open = docs[i].open /\ docs'[i].on = docs[i].on
          /\ docs'[i].marker = job[h].key
      BY <1>1, <1>2, <2>1 DEF Edited, Body, Doc
    <3>2. \A j \in 1 .. size : j # i => docs'[j] = docs[j]
      BY <1>2, <2>1
    <3>. QED
      BY <1>1, <3>1, <3>2
  <2>2. CASE docs' = docs
    BY <2>2
  <2>. QED
    BY <2>1, <2>2 DEF Update
<1>4. /\ \A g \in Handlers \ {h} : pc'[g] = pc[g]
      /\ pc'[h] \in {"done", "failed", "update"}
  <2>1. CASE Answered(h)
    BY <1>1, <2>1, AnswerEnds
  <2>2. CASE End(h, FALSE)
    BY <2>2 DEF End, TypeOK
  <2>. QED
    BY <2>1, <2>2 DEF Update
<1>5. MarkerOn' /\ PageOne'
  BY <1>1, <1>3, <1>4 DEF OneInv, MarkerOn, PageOne, EarlyStates
<1>6. \A k : Marked(k)' = Marked(k)
  BY <1>1, <1>3 DEF Marked
<1>7. \A g \in Handlers : Undisturbed(g)
  BY <1>1, <1>3, <1>6 DEF Undisturbed, Listed
<1>8. Clean' => Unique'
  BY <1>1, <1>6 DEF OneInv, Clean, Unique
<1>. QED
  BY <1>1, <1>4, <1>5, <1>7, <1>8, ScansKept DEF Inv

\* A creation that is answered, and that no other handler of the key can see
\* coming, is of the key's only document.
LEMMA CreateOne ==
  ASSUME TypeOK, TypeOK', Inv, OneInv, NEW h \in Handlers, Create(h)
  PROVE  OneInv'
<1>. DEFINE n == size + 1
            k == job[h].key
<1>1. /\ UNCHANGED <<kind, job, page>> /\ excuses \subseteq excuses' /\ pc[h] = "create"
      /\ k \in Keys /\ size' = n /\ Answered(h)
      /\ docs' = [docs EXCEPT ![n] = Posted(h, Body(h))]
  BY DEF Create, outside, Inv, KeyKnown
<1>2. /\ size \in Nat /\ n \in Ids /\ docs \in [Ids -> Doc]
      /\ 1 .. size' = (1 .. size) \cup {n} /\ n \notin 1 .. size
      /\ \A j \in 1 .. size : j \in Ids
  <2>1. size < MaxDocs
    BY DEF Create
  <2>2. size \in Nat /\ docs \in [Ids -> Doc] /\ \A j \in 1 .. size : j \in Ids
    BY Numbers
  <2>3. n \in 1 .. MaxDocs /\ 1 .. n = (1 .. size) \cup {n} /\ n \notin 1 .. size
    BY <2>1, <2>2, NumbersAssumption
  <2>. QED
    BY <1>1, <2>2, <2>3 DEF Ids
<1>3. /\ \A j \in 1 .. size : docs'[j] = docs[j]
      /\ docs'[n].on = k /\ docs'[n].marker = k
  BY <1>1, <1>2 DEF Posted, Body
<1>4. /\ \A g \in Handlers \ {h} : pc'[g] = pc[g]
      /\ pc'[h] \in {"done", "failed", "create"}
  BY <1>1, AnswerEnds
<1>5. MarkerOn' /\ PageOne'
  BY <1>1, <1>2, <1>3, <1>4 DEF OneInv, MarkerOn, PageOne, EarlyStates
<1>6. /\ \A l : l # k => Marked(l)' = Marked(l)
      /\ Marked(k)' \subseteq Marked(k) \cup {n}
      /\ \A g \in Handlers : Listed(g) \subseteq Listed(g)'
  BY <1>1, <1>2, <1>3 DEF Marked, Listed
<1>7. ASSUME Clean'
      PROVE  /\ pc'[h] = "done" /\ Marked(k) = {} /\ Unique
             /\ \A g \in Handlers \ {h} : pc[g] \in {"list", "create"} => job[g].key # k
  <2>1. Unique /\ CreateAlone
    BY <1>1, <1>7 DEF OneInv, Clean
  <2>2. pc'[h] = "done"
    BY <1>7 DEF Create, Clean
  <2>3. \A g \in Handlers \ {h} : pc[g] \in {"list", "create"} => job[g].key # k
    BY <1>7 DEF Create, Clean
  <2>. QED
    BY <1>1, <2>1, <2>2, <2>3 DEF CreateAlone
<1>8. Clean' => Unique'
  <2>1. SUFFICES ASSUME Clean', NEW l \in Keys, NEW a \in Marked(l)', NEW b \in Marked(l)'
                 PROVE  a = b
    BY DEF Unique
  <2>2. CASE l = k
    BY <1>1, <1>6, <1>7, <2>1, <2>2
  <2>3. CASE l # k
    <3>1. a \in Marked(l) /\ b \in Marked(l)
      BY <1>6, <2>1, <2>3
    <3>. QED
      BY <1>7, <2>1, <3>1 DEF Unique
  <2>. QED
    BY <2>2, <2>3
<1>9. Clean' => \A g \in Handlers : pc'[g] \in {"list", "create"} => Undisturbed(g)
  <2>1. SUFFICES ASSUME Clean', NEW g \in Handlers, pc'[g] \in {"list", "create"}
                 PROVE  Undisturbed(g)
    OBVIOUS
  <2>2. g # h /\ job[g].key # k
    BY <1>4, <1>7, <2>1
  <2>3. Marked(job[g].key)' = Marked(job[g].key)
    BY <1>1, <1>6, <2>2
  <2>. QED
    BY <1>1, <1>6, <2>3 DEF Undisturbed
<1>10. \A g \in Handlers : (pc'[g] = "create" => pc[g] = "create") /\ (pc'[g] = "list" => pc[g] = "list")
  BY <1>1, <1>4
<1>. QED
  BY <1>1, <1>5, <1>8, <1>9, <1>10, ScansKept DEF Inv

\* Somebody's own document has no key's marker.
LEMMA WriteOne ==
  ASSUME TypeOK, TypeOK', Inv, OneInv, NEW w \in Keys, Write(w)
  PROVE  OneInv'
<1>. DEFINE n == size + 1
<1>1. /\ UNCHANGED <<kind, job, page, pc, excuses>> /\ size' = n
      /\ docs' = [docs EXCEPT ![n] = [on |-> w, marker |-> None, body |-> 0, open |-> TRUE]]
  BY DEF Write, work
<1>2. /\ size \in Nat /\ n \in Ids /\ docs \in [Ids -> Doc]
      /\ 1 .. size' = (1 .. size) \cup {n} /\ n \notin 1 .. size
      /\ \A j \in 1 .. size : j \in Ids
  <2>1. size < MaxDocs
    BY DEF Write
  <2>2. size \in Nat /\ docs \in [Ids -> Doc] /\ \A j \in 1 .. size : j \in Ids
    BY Numbers
  <2>3. n \in 1 .. MaxDocs /\ 1 .. n = (1 .. size) \cup {n} /\ n \notin 1 .. size
    BY <2>1, <2>2, NumbersAssumption
  <2>. QED
    BY <1>1, <2>2, <2>3 DEF Ids
<1>3. /\ \A j \in 1 .. size : docs'[j] = docs[j]
      /\ docs'[n].marker = None
  BY <1>1, <1>2
<1>4. MarkerOn' /\ PageOne'
  BY <1>1, <1>2, <1>3, KeysAssumption DEF OneInv, MarkerOn, PageOne
<1>5. /\ \A k \in Keys : Marked(k)' = Marked(k)
      /\ \A g \in Handlers : Listed(g) \subseteq Listed(g)'
  BY <1>1, <1>2, <1>3, KeysAssumption DEF Marked, Listed
<1>6. Clean' => Unique'
  BY <1>1, <1>5 DEF OneInv, Clean, Unique
<1>7. \A g \in Handlers : pc'[g] \in {"list", "create"} => Undisturbed(g)
  BY <1>1, <1>5 DEF Undisturbed, Inv, KeyKnown
<1>. QED
  BY <1>1, <1>4, <1>6, <1>7, ScansKept DEF Inv

\* What leaves the list while every scan is on its first page moves nothing past a scan.
LEMMA CloseOne ==
  ASSUME TypeOK, TypeOK', OneInv, NEW i \in Ids, Close(i)
  PROVE  OneInv'
<1>1. /\ UNCHANGED <<kind, size, job, page, pc>> /\ excuses \subseteq excuses'
      /\ docs' = [docs EXCEPT ![i].open = FALSE] /\ docs \in [Ids -> Doc]
      /\ \A j \in 1 .. size : j \in Ids
  BY Numbers DEF Close, work
<1>2. \A j \in 1 .. size :
        /\ docs'[j].on = docs[j].on /\ docs'[j].marker = docs[j].marker
        /\ docs'[j].open => docs[j].open
  BY <1>1 DEF Doc
<1>3. MarkerOn' /\ PageOne'
  BY <1>1, <1>2 DEF OneInv, MarkerOn, PageOne
<1>. SUFFICES ASSUME Clean' PROVE Unique' /\ CreateAlone' /\ Unscanned'
  BY <1>3 DEF OneInv
<1>4. Unique /\ CreateAlone
  BY <1>1 DEF OneInv, Clean
<1>5. \A k : Marked(k)' \subseteq Marked(k)
  BY <1>1, <1>2 DEF Marked
<1>6. \A g \in Handlers : pc[g] = "list" => page[g] = 1
  <2>1. ASSUME NEW g \in Handlers, pc[g] = "list" PROVE ~(page[g] > 1)
    BY <2>1 DEF Close, Clean
  <2>2. \A g \in Handlers : page[g] \in 1 .. MaxPages
    BY DEF TypeOK
  <2>. QED
    BY <2>1, <2>2, NumbersAssumption
<1>7. Unscanned'
  <2>1. ASSUME NEW g \in Handlers, NEW j PROVE Rank(g, j)' \in Nat
    <3>1. size' \in Nat
      <4>1. size' \in 0 .. MaxDocs
        BY DEF TypeOK
      <4>. QED
        BY <4>1, NumbersAssumption
    <3>2. IsFiniteSet(Listed(g)')
      <4>1. IsFiniteSet(1 .. size') /\ Listed(g)' \subseteq 1 .. size'
        BY <3>1, FS_Interval DEF Listed
      <4>. QED
        BY <4>1, FS_Subset
    <3>3. Rank(g, j)' = Cardinality({m \in Listed(g)' : Before(m, j)})
      BY <1>1 DEF Rank, Before
    <3>. QED
      BY <3>2, <3>3, FS_Subset, FS_CardinalityType
  <2>. QED
    BY <1>1, <1>6, <2>1, NumbersAssumption DEF Unscanned
<1>. QED
  BY <1>1, <1>4, <1>5, <1>7 DEF Unique, CreateAlone

LEMMA ReopenOne ==
  ASSUME TypeOK, OneInv, NEW i \in Ids, Reopen(i)
  PROVE  OneInv'
<1>1. /\ UNCHANGED <<kind, size, job, page, pc>> /\ "reopen" \in excuses'
      /\ docs' = [docs EXCEPT ![i].open = TRUE] /\ docs \in [Ids -> Doc]
      /\ \A j \in 1 .. size : j \in Ids
  BY Numbers DEF Reopen, work
<1>2. \A j \in 1 .. size : docs'[j].on = docs[j].on /\ docs'[j].marker = docs[j].marker
  BY <1>1 DEF Doc
<1>. QED
  BY <1>1, <1>2 DEF OneInv, MarkerOn, PageOne, Clean

LEMMA DeliveryOne ==
  ASSUME TypeOK, TypeOK', Inv, OneInv, NEW h \in Handlers, NEW k \in Keys,
         Webhook(h, k) \/ ActionRun(h, k) \/ Alert(h, k)
  PROVE  OneInv'
<1>1. /\ UNCHANGED <<kind, docs, size, page, excuses>>
      /\ pc[h] = "idle" /\ pc'[h] \in {"auth", "files"}
      /\ \A g \in Handlers \ {h} : pc'[g] = pc[g] /\ job'[g] = job[g]
  BY DEF Webhook, ActionRun, Alert, Delivered, TypeOK
<1>2. PageOne'
  BY <1>1 DEF OneInv, PageOne, EarlyStates
<1>. QED
  BY <1>1, <1>2, QuietOne DEF Inv

LEMMA KillOne ==
  ASSUME TypeOK, TypeOK', Inv, OneInv, NEW h \in Handlers, Kill(h)
  PROVE  OneInv'
<1>1. /\ UNCHANGED <<kind, docs, size, job, page, excuses>>
      /\ pc'[h] = "killed" /\ \A g \in Handlers \ {h} : pc'[g] = pc[g]
  BY DEF Kill, TypeOK
<1>2. PageOne'
  BY <1>1 DEF OneInv, PageOne, EarlyStates
<1>. QED
  BY <1>1, <1>2, QuietOne DEF Inv

LEMMA OneKept ==
  ASSUME TypeOK, TypeOK', Inv, OneInv, [Next]_vars
  PROVE  OneInv'
<1>0. KeyKnown
  BY DEF Inv
<1>1. CASE UNCHANGED vars
  <2>1. UNCHANGED <<kind, docs, size, excuses, pc, job, page>>
    BY <1>1 DEF vars, work
  <2>2. PageOne'
    BY <2>1 DEF OneInv, PageOne
  <2>. QED
    BY <1>0, <2>1, <2>2, QuietOne
<1>2. ASSUME NEW h \in Handlers, Step(h) PROVE OneInv'
  BY <1>0, <1>2, WorkOne, ListOne, UpdateOne, CreateOne DEF Step
<1>3. ASSUME NEW h \in Handlers, NEW k \in Keys, Webhook(h, k) \/ ActionRun(h, k) \/ Alert(h, k)
      PROVE  OneInv'
  BY <1>3, DeliveryOne
<1>4. ASSUME NEW h \in Handlers, Kill(h) PROVE OneInv'
  BY <1>4, KillOne
<1>5. ASSUME NEW k \in Keys, Write(k) PROVE OneInv'
  BY <1>5, WriteOne
<1>6. ASSUME NEW i \in Ids, Close(i) \/ Reopen(i) PROVE OneInv'
  BY <1>6, CloseOne, ReopenOne
<1>. QED
  BY <1>1, <1>2, <1>3, <1>4, <1>5, <1>6 DEF Next

\* The rest of the theorem: a set without two elements has at most one.
LEMMA UniqueIsOne ==
  ASSUME OneInv
  PROVE  OneDocument
<1>. SUFFICES ASSUME Clean, NEW k \in Keys PROVE Cardinality(Marked(k)) <= 1
  BY DEF OneDocument, Clean
<1>1. CASE Marked(k) = {}
  <2>1. Cardinality(Marked(k)) = 0
    BY <1>1, FS_EmptySet
  <2>. QED
    BY <2>1
<1>2. CASE Marked(k) # {}
  <2>1. PICK i \in Marked(k) : TRUE
    BY <1>2
  <2>2. Marked(k) = {i}
    BY <2>1 DEF OneInv, Unique
  <2>3. Cardinality(Marked(k)) = 1
    BY <2>2, FS_Singleton
  <2>. QED
    BY <2>3
<1>. QED
  BY <1>1, <1>2

\* A pull request has one review comment, and an incident one open issue,
\* however many deliveries, people and pages there are, unless one of the named
\* excuses happened (idempotency.ts, incident-handler.ts: update the one found,
\* else create).
THEOREM DocumentIsOne == Spec => []OneDocument
<1>1. Init => TypeOK /\ Inv /\ OneInv
  BY TypeInit, InvInit, OneInit
<1>2. (TypeOK /\ Inv /\ OneInv) /\ [Next]_vars => (TypeOK /\ Inv /\ OneInv)'
  BY NextKeeps, OneKept
<1>. QED
  BY <1>1, <1>2, UniqueIsOne, PTL DEF Spec
=============================================================================
