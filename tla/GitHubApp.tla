------------------------------ MODULE GitHubApp ------------------------------
(***************************************************************************)
(* The GitHub app (packages/github-app): pull_request webhooks and Action  *)
(* runs that upsert one review comment (handler.ts, idempotency.ts), and   *)
(* incidents that open or update one issue (incident-handler.ts), against  *)
(* GitHub's paged, fallible API (retry.ts), while people comment, close and *)
(* delete.                                                                 *)
(*                                                                         *)
(* Both are one protocol: scan the pages of a list for a document with the *)
(* key's marker, edit the first one found, else create one.  Every API call *)
(* is one action, since the handler awaits it; what GitHub does for a call *)
(* whose answer is lost is done.  A body is the number of the push or the  *)
(* firing of the incident it reports.                                      *)
(***************************************************************************)
EXTENDS Integers, FiniteSets

CONSTANTS
  Handlers,    \* deliveries: handlePullRequest or handleIncident calls
  Keys,        \* pull requests, or incident ids
  None,
  PageSize,    \* per_page: 100
  MaxPages,    \* pages scanned: 4
  MaxRetries,  \* withRetry's maxRetries: 3
  MaxDocs,     \* bound on comments and issues
  MaxFaults,   \* bound on API and git failures
  MaxActs      \* bound on what people do

ASSUME KeysAssumption == Keys # {} /\ None \notin Keys
ASSUME NumbersAssumption ==
  /\ PageSize \in Nat \ {0} /\ MaxPages \in Nat \ {0}
  /\ MaxRetries \in Nat /\ MaxDocs \in Nat /\ MaxFaults \in Nat /\ MaxActs \in Nat

VARIABLES
  kind,     \* "review" or "incident": the surface at work
  docs,     \* GitHub's comments or issues, by id
  size,     \* how many there are; ids count up
  latest,   \* pushes to the pull request, or firings of the incident, so far
  pc,       \* what each handler awaits
  job,      \* its key, the push or firing it was called for, and how it was called
  page, attempt,  \* of the API call it is making
  found,    \* the document it will edit
  dirs,     \* handlers whose temporary clone is on disk
  reply,    \* what the sender of the webhook was answered
  faults, acts,   \* counters for the bounds
  excuses   \* auxiliary: what has happened that may leave two documents

work    == <<pc, job, page, attempt, found>>
outside == <<kind, latest, acts>>
vars    == <<kind, docs, size, latest, work, dirs, reply, faults, acts, excuses>>

Ids == 1 .. MaxDocs
Doc == [on : Keys, marker : Keys \cup {None}, body : Nat, open : BOOLEAN]

\* A document with the marker of k that is neither deleted nor closed.
Marked(k) == {i \in 1 .. size : docs[i].open /\ docs[i].marker = k}

Active(h) == pc[h] \in {"auth", "files", "rca", "analyze", "list", "update", "create"}

Init ==
  /\ kind \in {"review", "incident"}
  /\ docs = [i \in Ids |-> [on |-> CHOOSE k \in Keys : TRUE, marker |-> None,
                            body |-> 0, open |-> FALSE]]
  /\ size = 0
  /\ latest = [k \in Keys |-> 0]
  /\ pc = [h \in Handlers |-> "idle"]
  /\ job = [h \in Handlers |-> [key |-> None, rev |-> 0, via |-> None]]
  /\ page = [h \in Handlers |-> 1]
  /\ attempt = [h \in Handlers |-> 0]
  /\ found = [h \in Handlers |-> 0]
  /\ dirs = {}
  /\ reply = [h \in Handlers |-> "none"]
  /\ faults = 0 /\ acts = 0
  /\ excuses = {}
-----------------------------------------------------------------------------
\* Mutant: the clone is removed only when the review was posted.
EndKeeping(h, ok) ==
  /\ pc' = [pc EXCEPT ![h] = IF ok THEN "done" ELSE "failed"]
  /\ dirs' = IF ok THEN dirs \ {h} ELSE dirs
  /\ reply' = [reply EXCEPT ![h] = IF ok \/ job[h].via = "webhook" THEN "ok" ELSE "error"]

\* handlePullRequest's finally, and the answer: the webhook only logs a failed
\* review; an Action run exits with 1, an incident is answered with an error.
End(h, ok) ==
  /\ pc' = [pc EXCEPT ![h] = IF ok THEN "done" ELSE "failed"]
  /\ dirs' = dirs \ {h}
  /\ reply' = [reply EXCEPT ![h] = IF ok \/ job[h].via = "webhook" THEN "ok" ELSE "error"]

GoTo(h, where) ==
  /\ pc' = [pc EXCEPT ![h] = where]
  /\ attempt' = [attempt EXCEPT ![h] = 0]
  /\ UNCHANGED <<dirs, reply>>

Fault == faults < MaxFaults /\ faults' = faults + 1

\* Mutant: the last error is swallowed, and undefined returned.
RetrySwallowing(h) ==
  IF attempt[h] < MaxRetries
  THEN attempt' = [attempt EXCEPT ![h] = @ + 1] /\ UNCHANGED <<pc, dirs, reply>>
  ELSE End(h, TRUE) /\ UNCHANGED attempt

\* Mutant: no limit on the attempts.
RetryForever(h) ==
  attempt' = [attempt EXCEPT ![h] = @ + 1] /\ UNCHANGED <<pc, dirs, reply>>

\* withRetry after a transient error: sleep and call again, or throw the last.
Retry(h) ==
  IF attempt[h] < MaxRetries
  THEN attempt' = [attempt EXCEPT ![h] = @ + 1] /\ UNCHANGED <<pc, dirs, reply>>
  ELSE End(h, FALSE) /\ UNCHANGED attempt

\* The call failed and nothing was done: 429, 5xx or a broken connection, which
\* withRetry retries, or any other error, which it does not.
CallFails(h) ==
  /\ pc[h] \in {"list", "update", "create"}
  /\ Fault
  /\ \/ Retry(h)
     \/ End(h, FALSE) /\ UNCHANGED attempt
  /\ UNCHANGED <<outside, docs, size, job, page, found, excuses>>
-----------------------------------------------------------------------------
(* A delivery.                                                             *)

Delivered(h, k, via, where) ==
  /\ pc[h] = "idle"
  /\ latest' = [latest EXCEPT ![k] = @ + 1]
  /\ job' = [job EXCEPT ![h] = [key |-> k, rev |-> latest[k] + 1, via |-> via]]
  /\ pc' = [pc EXCEPT ![h] = where]
  /\ UNCHANGED <<kind, docs, size, page, attempt, found, dirs, reply, faults, acts, excuses>>

\* POST /webhook: pull_request opened or synchronize.
Webhook(h, k) == kind = "review" /\ Delivered(h, k, "webhook", "auth")

\* cgrca-pr-review in a workflow run: the token is at hand.
ActionRun(h, k) == kind = "review" /\ Delivered(h, k, "action", "files")

\* POST /sentry or /incident: the incident fires.
Alert(h, k) == kind = "incident" /\ Delivered(h, k, "alert", "auth")

\* octokitFactory: outside the handler's try, so a failure is always answered.
Authenticate(h) ==
  /\ pc[h] = "auth"
  /\ \/ /\ GoTo(h, IF kind = "review" THEN "files" ELSE "rca")
        /\ UNCHANGED faults
     \/ /\ Fault
        /\ pc' = [pc EXCEPT ![h] = "failed"]
        /\ reply' = [reply EXCEPT ![h] = "error"]
        /\ UNCHANGED <<attempt, dirs>>
  /\ UNCHANGED <<outside, docs, size, job, page, found, excuses>>

\* fetchChangedFiles, whose calls are not retried, and in the same turn
\* clonePrHead, which removes its directory itself when it fails.  An Action run
\* uses the workflow's checkout.
Prepare(h) ==
  /\ pc[h] = "files"
  /\ \/ /\ pc' = [pc EXCEPT ![h] = "analyze"]
        /\ dirs' = IF job[h].via = "webhook" THEN dirs \cup {h} ELSE dirs
        /\ UNCHANGED <<reply, faults>>
     \/ Fault /\ End(h, FALSE)
  /\ UNCHANGED <<outside, docs, size, job, page, attempt, found, excuses>>

\* analyzeWorktree: whether symbols changed decides the text, not the upsert; a
\* runRca that fails is skipped, an indexScope that fails ends the handler.
Analyze(h) ==
  /\ pc[h] = "analyze"
  /\ \/ GoTo(h, "list") /\ UNCHANGED faults
     \/ Fault /\ End(h, FALSE) /\ UNCHANGED attempt
  /\ UNCHANGED <<outside, docs, size, job, page, found, excuses>>

\* runRca for an incident; when it fails the error is what is filed.
Triage(h) ==
  /\ pc[h] = "rca"
  /\ GoTo(h, "list")
  /\ UNCHANGED <<outside, docs, size, job, page, found, faults, excuses>>
-----------------------------------------------------------------------------
(* upsertPrComment, handleIncident.                                        *)

\* What listComments returns, or listForRepo with state "open".
Listed(h) == {i \in 1 .. size : docs[i].open /\ (kind = "review" => docs[i].on = job[h].key)}

\* Comments are listed oldest first, issues newest first.
Before(i, j) == IF kind = "review" THEN i < j ELSE i > j

Rank(h, i) == Cardinality({j \in Listed(h) : Before(j, i)})
OnPage(h)  == {i \in Listed(h) : Rank(h, i) \div PageSize = page[h] - 1}

\* Mutant: any document of the app will do.
MatchesAnyMarker(h) == {i \in OnPage(h) : docs[i].marker # None}

\* The documents of this page whose body includes the marker.
Matches(h) == {i \in OnPage(h) : docs[i].marker = job[h].key}

FirstOf(S) == CHOOSE i \in S : \A j \in S \ {i} : Before(i, j)

\* Mutant: a full page is taken for the last one.
LastPageEarly(h) == page[h] = MaxPages \/ Cardinality(OnPage(h)) =< PageSize

\* An empty or short page ends the scan, and so does the page limit.
LastPage(h) == page[h] = MaxPages \/ Cardinality(OnPage(h)) < PageSize

\* Mutant: the loop asks for the same page again.
ListSamePage(h) ==
  /\ pc[h] = "list"
  /\ IF Matches(h) # {}
     THEN GoTo(h, "update") /\ found' = [found EXCEPT ![h] = FirstOf(Matches(h))] /\ UNCHANGED page
     ELSE GoTo(h, IF OnPage(h) = {} THEN "create" ELSE "list") /\ UNCHANGED <<found, page>>
  /\ UNCHANGED <<outside, docs, size, job, dirs, faults, reply, excuses>>

\* findExistingComment, findExistingIssue: one page.
List(h) ==
  /\ pc[h] = "list"
  /\ IF Matches(h) # {}
     THEN GoTo(h, "update") /\ found' = [found EXCEPT ![h] = FirstOf(Matches(h))] /\ UNCHANGED page
     ELSE IF LastPage(h)
     THEN GoTo(h, "create") /\ UNCHANGED <<found, page>>
     ELSE GoTo(h, "list") /\ page' = [page EXCEPT ![h] = @ + 1] /\ UNCHANGED found
  /\ excuses' = IF Cardinality(Listed(h)) > PageSize * MaxPages
                THEN excuses \cup {"depth"} ELSE excuses
  /\ UNCHANGED <<outside, docs, size, job, dirs, faults, reply>>

\* The call was made but its answer was lost: a broken connection.
Answered(h) ==
  \/ End(h, TRUE) /\ UNCHANGED <<attempt, faults>>
  \/ Fault /\ Retry(h)

\* What is rendered: the marker, and what was found out.
Body(h) == [marker |-> job[h].key, body |-> job[h].rev]

Edited(doc, text) == [doc EXCEPT !.marker = text.marker, !.body = text.body]
Posted(h, text)   == [on |-> job[h].key, marker |-> text.marker, body |-> text.body, open |-> TRUE]

\* updateComment, issues.update: also edits an issue closed meanwhile; a deleted
\* comment is a 404.
Update(h) ==
  LET i == found[h] IN
  /\ pc[h] = "update"
  /\ \/ /\ kind = "incident" \/ docs[i].open
        /\ docs' = [docs EXCEPT ![i] = Edited(@, Body(h))]
        /\ Answered(h)
        /\ excuses' = IF docs[i].body > job[h].rev
                      THEN excuses \cup {"stale edit"} ELSE excuses
     \/ /\ kind = "review" /\ ~docs[i].open
        /\ End(h, FALSE)
        /\ UNCHANGED <<docs, attempt, faults, excuses>>
  /\ UNCHANGED <<outside, size, job, page, found>>

\* createComment, issues.create.
Create(h) ==
  /\ pc[h] = "create"
  /\ size < MaxDocs
  /\ size' = size + 1
  /\ docs' = [docs EXCEPT ![size + 1] = Posted(h, Body(h))]
  /\ Answered(h)
  /\ excuses' = excuses
       \cup (IF pc'[h] # "done" THEN {"lost answer"} ELSE {})
       \cup (IF \E g \in Handlers \ {h} : job[g].key = job[h].key /\ pc[g] \in {"list", "create"}
             THEN {"race"} ELSE {})
  /\ UNCHANGED <<outside, job, page, found>>
-----------------------------------------------------------------------------
(* People, and the operating system.                                       *)

PeopleAct == acts < MaxActs /\ acts' = acts + 1

\* Somebody comments on the pull request, or opens an issue.
Write(k) ==
  /\ PeopleAct
  /\ size < MaxDocs
  /\ size' = size + 1
  /\ docs' = [docs EXCEPT ![size + 1] = [on |-> k, marker |-> None, body |-> 0, open |-> TRUE]]
  /\ excuses' = excuses
  /\ UNCHANGED <<kind, latest, work, dirs, reply, faults>>

\* Somebody deletes a comment, or closes an issue: what follows it in a list
\* moves up, past the pages already scanned.
Close(i) ==
  /\ PeopleAct
  /\ docs[i].open
  /\ docs' = [docs EXCEPT ![i].open = FALSE]
  /\ excuses' = IF \E h \in Handlers : pc[h] = "list" /\ page[h] > 1
                THEN excuses \cup {"shift"} ELSE excuses
  /\ UNCHANGED <<kind, size, latest, work, dirs, reply, faults>>

\* Somebody reopens an issue after the incident has been filed anew.
Reopen(i) ==
  /\ kind = "incident"
  /\ PeopleAct
  /\ i =< size /\ ~docs[i].open
  /\ docs' = [docs EXCEPT ![i].open = TRUE]
  /\ excuses' = excuses \cup {"reopen"}
  /\ UNCHANGED <<kind, size, latest, work, dirs, reply, faults>>

\* The process is killed: a cancelled workflow, a restarted server.
Kill(h) ==
  /\ PeopleAct
  /\ Active(h)
  /\ pc' = [pc EXCEPT ![h] = "killed"]
  /\ UNCHANGED <<kind, docs, size, latest, job, page, attempt, found, dirs, reply, faults, excuses>>

Step(h) ==
  \/ Authenticate(h) \/ Prepare(h) \/ Analyze(h) \/ Triage(h)
  \/ List(h) \/ Update(h) \/ Create(h) \/ CallFails(h)

Next ==
  \/ \E h \in Handlers, k \in Keys : Webhook(h, k) \/ ActionRun(h, k) \/ Alert(h, k)
  \/ \E h \in Handlers : Step(h)
  \/ \E h \in Handlers : Kill(h)
  \/ \E k \in Keys : Write(k)
  \/ \E i \in Ids : Close(i) \/ Reopen(i)

Spec     == Init /\ [][Next]_vars
FairSpec == Spec /\ \A h \in Handlers : WF_vars(Step(h))
-----------------------------------------------------------------------------
(* Properties.                                                             *)

\* The state is well-typed; a call is tried 1 + MaxRetries times at most and a
\* scan reads MaxPages pages at most.
TypeOK ==
  /\ kind \in {"review", "incident"}
  /\ docs \in [Ids -> Doc] /\ size \in 0 .. MaxDocs
  /\ latest \in [Keys -> Nat]
  /\ pc \in [Handlers -> {"idle", "auth", "files", "rca", "analyze", "list", "update",
                          "create", "done", "failed", "killed"}]
  /\ job \in [Handlers -> [key : Keys \cup {None}, rev : Nat,
                       via : {"webhook", "action", "alert", None}]]
  /\ page \in [Handlers -> 1 .. MaxPages]
  /\ attempt \in [Handlers -> 0 .. MaxRetries]
  /\ found \in [Handlers -> 0 .. MaxDocs]
  /\ dirs \subseteq Handlers
  /\ reply \in [Handlers -> {"none", "ok", "error"}]
  /\ faults \in 0 .. MaxFaults /\ acts \in 0 .. MaxActs
  /\ excuses \subseteq {"depth", "lost answer", "race", "shift", "reopen", "stale edit"}

\* "Idempotent: repeated calls on synchronize events update the same comment":
\* a pull request has one review comment and an incident one open issue,
\* unless a creation's answer was lost, two first deliveries raced, a
\* document left the list during a scan, the list is longer than the scan, or
\* somebody reopened an issue.
OneDocument == excuses \subseteq {"stale edit"} => \A k \in Keys : Cardinality(Marked(k)) =< 1

\* A temporary clone belongs to a review at work, or to a process that was
\* killed: every error path of the handler removes it.
ClonesRemoved == \A h \in dirs : Active(h) \/ pc[h] = "killed"

\* An incident that was answered 200 is filed.
AnsweredIsFiled ==
  kind = "incident" =>
    \A h \in Handlers : reply[h] = "ok" => \E i \in 1 .. size : docs[i].marker = job[h].key

\* What a handler that succeeded reported, or a later report, is written, unless
\* an older delivery that was still at work has edited that document after a
\* newer one.
SuccessIsWritten ==
  "stale edit" \notin excuses =>
    \A h \in Handlers : pc[h] = "done" =>
      \E i \in 1 .. size : docs[i].marker = job[h].key /\ docs[i].body >= job[h].rev

\* No success is reported that is none, in the answer to the sender or in the
\* handler's own end: the document is there, with its key's marker, and says
\* what was reported; retry.ts: "re-raises the last error" rather than
\* "silently succeeding on bad data".
SuccessIsTrue == AnsweredIsFiled /\ SuccessIsWritten

\* The app never takes over a document: what carries the marker of one key
\* carries it for good, and what people wrote never changes.
OthersUntouched ==
  [][\A i \in Ids : i =< size =>
       /\ docs'[i].marker = docs[i].marker
       /\ docs[i].marker = None => docs'[i].body = docs[i].body]_vars

\* Every delivery comes to an end, however GitHub fails.
DeliveriesEnd == \A h \in Handlers : Active(h) ~> ~Active(h)
=============================================================================
