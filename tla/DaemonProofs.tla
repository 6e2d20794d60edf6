---------------------------- MODULE DaemonProofs ----------------------------
(***************************************************************************)
(* What holds of the daemon's request loop for any number of requests,     *)
(* connections and files.  The scheduler (mtq, waiting, burst) only        *)
(* restricts the order of the continuations, so every invariant below is   *)
(* about the stage each request is suspended in and the handles.           *)
(***************************************************************************)
EXTENDS Daemon, FiniteSetTheorems, TLAPS

UsesHandle == \A r \in Reqs : stage[r] = "eval" => use[r] \in Reqs

TypeInv == TypeOK /\ UsesHandle

\* The continuation after the inserted rows is one of three.
LEMMA AfterIndexStage ==
  ASSUME NEW r \in Reqs
  PROVE  AfterIndex(r) \in {"adopt", "swap", "analyse"}
BY DEF AfterIndex

\* A request task and a batch task are tasks; a queue stays one when its
\* head leaves or a task joins.
LEMMA QueueTypes ==
  ASSUME NEW r \in Reqs, mtq \in Seq(Tasks)
  PROVE  /\ Request(r) \in Tasks /\ Batch(r) \in Tasks
         /\ Append(mtq, Request(r)) \in Seq(Tasks)
         /\ Append(mtq, Batch(r)) \in Seq(Tasks)
         /\ mtq # <<>> => /\ Tail(mtq) \in Seq(Tasks)
                          /\ Append(Tail(mtq), Request(r)) \in Seq(Tasks)
         /\ <<Request(r)>> \in Seq(Tasks) /\ <<Batch(r)>> \in Seq(Tasks)
<1>1. Request(r) \in Tasks /\ Batch(r) \in Tasks
  BY DEF Request, Batch, Tasks
<1> QED  BY <1>1

\* A request is not busy before it is accepted nor after it is done.
LEMMA InitTypeInv == Init => TypeInv
<1> SUFFICES ASSUME Init PROVE TypeInv
  OBVIOUS
<1>1. FlagType
  BY DEF Init, FlagType
<1>2. RequestType /\ ServerType /\ UsesHandle
  BY DEF Init, RequestType, ServerType, UsesHandle, Stages
<1>3. LoopType
  BY BoundsAssumption DEF Init, LoopType
<1> QED
  BY <1>1, <1>2, <1>3 DEF TypeInv, TypeOK

\* The flags stay Boolean.
LEMMA StepFlagType == TypeInv /\ [Next]_vars => FlagType'
<1> SUFFICES ASSUME TypeInv, [Next]_vars PROVE FlagType'
  OBVIOUS
<1> USE DEF TypeInv, TypeOK
<1>1. ASSUME NEW r \in Reqs, NEW t \in {Request(r), Batch(r)}, LoadDone(t)
      PROVE  FlagType'
  BY <1>1 DEF FlagType, LoadDone, Macrotask, dbVars, reqVars, srvVars
<1>2. ASSUME NEW r \in Reqs, ExtractNext(r)
      PROVE  FlagType'
  BY <1>2 DEF FlagType, ExtractNext, Continuation, Resuspend, AwaitLoad, CanLoad, dbVars, srvVars
<1>3. ASSUME NEW r \in Reqs, InsertRows(r)
      PROVE  FlagType'
  BY <1>3 DEF FlagType, InsertRows, Continuation, Resuspend, Finish
<1>4. ASSUME NEW c \in Conns, NEW r \in Reqs, NEW k \in Kinds, AcceptControl(c, r, k)
      PROVE  FlagType'
  BY <1>4 DEF FlagType, AcceptControl, Accept, Suspend, dbVars
<1>5. ASSUME NEW c \in Conns, NEW r \in Reqs, AcceptQuery(c, r)
      PROVE  FlagType'
  BY <1>5 DEF FlagType, AcceptQuery, Accept, Suspend, dbVars
<1>6. ASSUME NEW c \in Conns, NEW r \in Reqs, AcceptFirstQuery(c, r)
      PROVE  FlagType'
  BY <1>6 DEF FlagType, AcceptFirstQuery, Accept, BeginIndex, Suspend, AwaitLoad, CanLoad
<1>7. ASSUME NEW c \in Conns, NEW r \in Reqs, AcceptIndex(c, r)
      PROVE  FlagType'
  BY <1>7 DEF FlagType, AcceptIndex, Accept, BeginIndex, Suspend, AwaitLoad, CanLoad
<1>8. ASSUME NEW c \in Conns, NEW r \in Reqs, AcceptRca(c, r)
      PROVE  FlagType'
  BY <1>8 DEF FlagType, AcceptRca, Accept, BeginIndex, Suspend, AwaitLoad, CanLoad
<1>9. ASSUME NEW r \in Reqs, Answer(r)
      PROVE  FlagType'
  BY <1>9 DEF FlagType, Answer, Continuation, Finish, dbVars
<1>10. ASSUME NEW r \in Reqs, Adopt(r)
      PROVE  FlagType'
  BY <1>10 DEF FlagType, Adopt, Continuation, Resuspend, srvVars
<1>11. ASSUME NEW r \in Reqs, Evaluate(r)
      PROVE  FlagType'
  BY <1>11 DEF FlagType, Evaluate, Continuation, Finish, dbVars
<1>12. ASSUME NEW r \in Reqs, Swap(r)
      PROVE  FlagType'
  BY <1>12 DEF FlagType, Swap, Continuation, Finish
<1>13. ASSUME NEW r \in Reqs, Analyse(r)
      PROVE  FlagType'
  BY <1>13 DEF FlagType, Analyse, Continuation, Finish
<1>14. ASSUME NEW w \in Reqs, NEW f \in Files, Flush(w, f)
      PROVE  FlagType'
  BY <1>14 DEF FlagType, Flush, Macrotask, Suspend, AwaitLoad, CanLoad, reqVars, srvVars
<1>15. ASSUME NEW w \in Reqs, WriteBatch(w)
      PROVE  FlagType'
  BY <1>15 DEF FlagType, WriteBatch, Continuation, reqVars, srvVars
<1>16. ASSUME NEW c \in Conns, Connect(c) \/ Disconnect(c)
      PROVE  FlagType'
  BY <1>16 DEF FlagType, Connect, Disconnect, Macrotask, queues, dbVars, reqVars
<1>17. ASSUME Signal \/ Tick
      PROVE  FlagType'
  BY <1>17 DEF FlagType, Signal, Tick, Macrotask, queues, dbVars, reqVars
<1>18. ASSUME StopAsked \/ IdlePoll
      PROVE  FlagType'
  BY <1>18 DEF FlagType, StopAsked, IdlePoll, BeginStop, Macrotask, queues, dbVars, reqVars
<1>19. ASSUME EndStop
      PROVE  FlagType'
  BY <1>19 DEF FlagType, EndStop, Macrotask, queues, reqVars
<1>20. ASSUME UNCHANGED vars
      PROVE  FlagType'
  BY <1>20 DEF FlagType, vars, queues, dbVars, reqVars, srvVars
<1> QED
  BY <1>1, <1>2, <1>3, <1>4, <1>5, <1>6, <1>7, <1>8, <1>9, <1>10, <1>11, <1>12, <1>13, <1>14, <1>15, <1>16, <1>17, <1>18, <1>19, <1>20
  DEF Next, Work, Resume, Stop, Dispatch

\* The event loop stays well typed.
LEMMA StepLoopType == TypeInv /\ [Next]_vars => LoopType'
<1> SUFFICES ASSUME TypeInv, [Next]_vars PROVE LoopType'
  OBVIOUS
<1> USE DEF TypeInv, TypeOK
<1>1. ASSUME NEW r \in Reqs, NEW t \in {Request(r), Batch(r)}, LoadDone(t)
      PROVE  LoopType'
  BY <1>1, QueueTypes, BoundsAssumption
  DEF LoopType, LoadDone, Macrotask, dbVars, reqVars, srvVars
<1>2. ASSUME NEW r \in Reqs, ExtractNext(r)
      PROVE  LoopType'
  BY <1>2, QueueTypes, BoundsAssumption
  DEF LoopType, ExtractNext, Continuation, Resuspend, AwaitLoad, CanLoad, dbVars, srvVars
<1>3. ASSUME NEW r \in Reqs, InsertRows(r)
      PROVE  LoopType'
  BY <1>3, QueueTypes, BoundsAssumption
  DEF LoopType, InsertRows, Continuation, Resuspend, Finish
<1>4. ASSUME NEW c \in Conns, NEW r \in Reqs, NEW k \in Kinds, AcceptControl(c, r, k)
      PROVE  LoopType'
  BY <1>4, QueueTypes, BoundsAssumption
  DEF LoopType, AcceptControl, Accept, Suspend, dbVars
<1>5. ASSUME NEW c \in Conns, NEW r \in Reqs, AcceptQuery(c, r)
      PROVE  LoopType'
  BY <1>5, QueueTypes, BoundsAssumption
  DEF LoopType, AcceptQuery, Accept, Suspend, dbVars
<1>6. ASSUME NEW c \in Conns, NEW r \in Reqs, AcceptFirstQuery(c, r)
      PROVE  LoopType'
  BY <1>6, QueueTypes, BoundsAssumption
  DEF LoopType, AcceptFirstQuery, Accept, BeginIndex, Suspend, AwaitLoad, CanLoad
<1>7. ASSUME NEW c \in Conns, NEW r \in Reqs, AcceptIndex(c, r)
      PROVE  LoopType'
  BY <1>7, QueueTypes, BoundsAssumption
  DEF LoopType, AcceptIndex, Accept, BeginIndex, Suspend, AwaitLoad, CanLoad
<1>8. ASSUME NEW c \in Conns, NEW r \in Reqs, AcceptRca(c, r)
      PROVE  LoopType'
  BY <1>8, QueueTypes, BoundsAssumption
  DEF LoopType, AcceptRca, Accept, BeginIndex, Suspend, AwaitLoad, CanLoad
<1>9. ASSUME NEW r \in Reqs, Answer(r)
      PROVE  LoopType'
  BY <1>9, QueueTypes, BoundsAssumption
  DEF LoopType, Answer, Continuation, Finish, dbVars
<1>10. ASSUME NEW r \in Reqs, Adopt(r)
      PROVE  LoopType'
  BY <1>10, QueueTypes, BoundsAssumption
  DEF LoopType, Adopt, Continuation, Resuspend, srvVars
<1>11. ASSUME NEW r \in Reqs, Evaluate(r)
      PROVE  LoopType'
  BY <1>11, QueueTypes, BoundsAssumption
  DEF LoopType, Evaluate, Continuation, Finish, dbVars
<1>12. ASSUME NEW r \in Reqs, Swap(r)
      PROVE  LoopType'
  BY <1>12, QueueTypes, BoundsAssumption
  DEF LoopType, Swap, Continuation, Finish
<1>13. ASSUME NEW r \in Reqs, Analyse(r)
      PROVE  LoopType'
  BY <1>13, QueueTypes, BoundsAssumption
  DEF LoopType, Analyse, Continuation, Finish
<1>14. ASSUME NEW w \in Reqs, NEW f \in Files, Flush(w, f)
      PROVE  LoopType'
  BY <1>14, QueueTypes, BoundsAssumption
  DEF LoopType, Flush, Macrotask, Suspend, AwaitLoad, CanLoad, reqVars, srvVars
<1>15. ASSUME NEW w \in Reqs, WriteBatch(w)
      PROVE  LoopType'
  BY <1>15, QueueTypes, BoundsAssumption
  DEF LoopType, WriteBatch, Continuation, reqVars, srvVars
<1>16. ASSUME NEW c \in Conns, Connect(c) \/ Disconnect(c)
      PROVE  LoopType'
  BY <1>16, QueueTypes, BoundsAssumption
  DEF LoopType, Connect, Disconnect, Macrotask, queues, dbVars, reqVars
<1>17. ASSUME Signal \/ Tick
      PROVE  LoopType'
  BY <1>17, QueueTypes, BoundsAssumption
  DEF LoopType, Signal, Tick, Macrotask, queues, dbVars, reqVars
<1>18. ASSUME StopAsked \/ IdlePoll
      PROVE  LoopType'
  BY <1>18, QueueTypes, BoundsAssumption
  DEF LoopType, StopAsked, IdlePoll, BeginStop, Macrotask, queues, dbVars, reqVars
<1>19. ASSUME EndStop
      PROVE  LoopType'
  BY <1>19, QueueTypes, BoundsAssumption
  DEF LoopType, EndStop, Macrotask, queues, reqVars
<1>20. ASSUME UNCHANGED vars
      PROVE  LoopType'
  BY <1>20, QueueTypes, BoundsAssumption
  DEF LoopType, vars, queues, dbVars, reqVars, srvVars
<1> QED
  BY <1>1, <1>2, <1>3, <1>4, <1>5, <1>6, <1>7, <1>8, <1>9, <1>10, <1>11, <1>12, <1>13, <1>14, <1>15, <1>16, <1>17, <1>18, <1>19, <1>20
  DEF Next, Work, Resume, Stop, Dispatch

IndexTypes ==
  /\ handle' \in [Reqs -> {"none", "open"} \cup Ends]
  /\ graph' \subseteq Files
  /\ left' \in [Reqs -> Nat]
  /\ stage' \in [Reqs -> Stages]
  /\ \A q \in Reqs : stage'[q] = "eval" => stage[q] = "eval"

\* Beginning an index keeps the four variables it assigns well typed, and
\* leaves its request suspended before something else than a query's end.
LEMMA BeginIndexType ==
  ASSUME TypeOK, NEW r \in Reqs, NEW rows \in SUBSET Files,
         NEW after \in Stages \ {"eval"}, BeginIndex(r, rows, after)
  PROVE  IndexTypes
BY BoundsAssumption DEF TypeOK, RequestType, ServerType, BeginIndex, Stages, IndexTypes

\* The server, the requests and the handles stay well typed.
LEMMA StepStateType == TypeInv /\ [Next]_vars => RequestType' /\ UsesHandle' /\ ServerType'
<1> SUFFICES ASSUME TypeInv, [Next]_vars PROVE RequestType' /\ UsesHandle' /\ ServerType'
  OBVIOUS
<1> USE DEF TypeInv, TypeOK
<1>1. ASSUME NEW r \in Reqs, NEW t \in {Request(r), Batch(r)}, LoadDone(t)
      PROVE  RequestType' /\ UsesHandle' /\ ServerType'
  BY <1>1, AfterIndexStage, ScopeAssumption, BoundsAssumption
  DEF RequestType, ServerType, UsesHandle, Stages, Ends, Target, LoadDone, Macrotask, dbVars, reqVars, srvVars
<1>2. ASSUME NEW r \in Reqs, ExtractNext(r)
      PROVE  RequestType' /\ UsesHandle' /\ ServerType'
  BY <1>2, AfterIndexStage, ScopeAssumption, BoundsAssumption
  DEF RequestType, ServerType, UsesHandle, Stages, Ends, Target, ExtractNext, Continuation, Resuspend, AwaitLoad, CanLoad, dbVars, srvVars
<1>3. ASSUME NEW r \in Reqs, InsertRows(r)
      PROVE  RequestType' /\ UsesHandle' /\ ServerType'
  <2>1. RequestType' /\ UsesHandle'
    BY <1>3, AfterIndexStage DEF RequestType, UsesHandle, Stages, InsertRows, Finish
  <2>2. Target(r) \subseteq Files
    BY ScopeAssumption DEF Target
  <2>3. ServerType'
    BY <1>3, <2>2 DEF ServerType, InsertRows, Finish
  <2> QED
    BY <2>1, <2>3
<1>4. ASSUME NEW c \in Conns, NEW r \in Reqs, NEW k \in Kinds, AcceptControl(c, r, k)
      PROVE  RequestType' /\ UsesHandle' /\ ServerType'
  BY <1>4, AfterIndexStage, ScopeAssumption, BoundsAssumption
  DEF RequestType, ServerType, UsesHandle, Stages, Ends, Target, AcceptControl, Accept, Suspend, dbVars
<1>5. ASSUME NEW c \in Conns, NEW r \in Reqs, AcceptQuery(c, r)
      PROVE  RequestType' /\ UsesHandle' /\ ServerType'
  BY <1>5, AfterIndexStage, ScopeAssumption, BoundsAssumption
  DEF RequestType, ServerType, UsesHandle, Stages, Ends, Target, AcceptQuery, Accept, Suspend, dbVars
<1>6. ASSUME NEW c \in Conns, NEW r \in Reqs, AcceptFirstQuery(c, r)
      PROVE  RequestType' /\ UsesHandle' /\ ServerType'
  <2>1. BeginIndex(r, Files, "adopt") /\ "adopt" \in Stages \ {"eval"}
    BY <1>6 DEF AcceptFirstQuery, Stages
  <2>2. IndexTypes
    BY <2>1, BeginIndexType
  <2>3. RequestType' /\ UsesHandle'
    BY <1>6, <2>2, ScopeAssumption DEF IndexTypes, RequestType, UsesHandle, AcceptFirstQuery, Accept
  <2>4. ServerType'
    BY <1>6, <2>2 DEF IndexTypes, ServerType, AcceptFirstQuery, Accept
  <2> QED
    BY <2>3, <2>4
<1>7. ASSUME NEW c \in Conns, NEW r \in Reqs, AcceptIndex(c, r)
      PROVE  RequestType' /\ UsesHandle' /\ ServerType'
  <2>1. BeginIndex(r, Files, "swap") /\ "swap" \in Stages \ {"eval"}
    BY <1>7 DEF AcceptIndex, Stages
  <2>2. IndexTypes
    BY <2>1, BeginIndexType
  <2>3. RequestType' /\ UsesHandle'
    BY <1>7, <2>2, ScopeAssumption DEF IndexTypes, RequestType, UsesHandle, AcceptIndex, Accept
  <2>4. ServerType'
    BY <1>7, <2>2 DEF IndexTypes, ServerType, AcceptIndex, Accept
  <2> QED
    BY <2>3, <2>4
<1>8. ASSUME NEW c \in Conns, NEW r \in Reqs, AcceptRca(c, r)
      PROVE  RequestType' /\ UsesHandle' /\ ServerType'
  <2>1. CASE BeginIndex(r, ScopeFiles, "analyse")
    <3>1. "analyse" \in Stages \ {"eval"}
      BY DEF Stages
    <3>2. IndexTypes
      BY <2>1, <3>1, BeginIndexType, ScopeAssumption
    <3>3. RequestType' /\ UsesHandle'
      BY <1>8, <3>2, ScopeAssumption DEF IndexTypes, RequestType, UsesHandle, AcceptRca, Accept
    <3>4. ServerType'
      BY <1>8, <3>2 DEF IndexTypes, ServerType, AcceptRca, Accept
    <3> QED
      BY <3>3, <3>4
  <2>2. CASE stage' = [stage EXCEPT ![r] = "answer"] /\ UNCHANGED <<left, handle, graph>>
    BY <1>8, <2>2, ScopeAssumption DEF RequestType, ServerType, UsesHandle, Stages, AcceptRca, Accept
  <2> QED
    BY <1>8, <2>1, <2>2 DEF AcceptRca
<1>9. ASSUME NEW r \in Reqs, Answer(r)
      PROVE  RequestType' /\ UsesHandle' /\ ServerType'
  BY <1>9, AfterIndexStage, ScopeAssumption, BoundsAssumption
  DEF RequestType, ServerType, UsesHandle, Stages, Ends, Target, Answer, Continuation, Finish, dbVars
<1>10. ASSUME NEW r \in Reqs, Adopt(r)
      PROVE  RequestType' /\ UsesHandle' /\ ServerType'
  BY <1>10, AfterIndexStage, ScopeAssumption, BoundsAssumption
  DEF RequestType, ServerType, UsesHandle, Stages, Ends, Target, Adopt, Continuation, Resuspend, srvVars
<1>11. ASSUME NEW r \in Reqs, Evaluate(r)
      PROVE  RequestType' /\ UsesHandle' /\ ServerType'
  BY <1>11, AfterIndexStage, ScopeAssumption, BoundsAssumption
  DEF RequestType, ServerType, UsesHandle, Stages, Ends, Target, Evaluate, Continuation, Finish, dbVars
<1>12. ASSUME NEW r \in Reqs, Swap(r)
      PROVE  RequestType' /\ UsesHandle' /\ ServerType'
  BY <1>12, AfterIndexStage, ScopeAssumption, BoundsAssumption
  DEF RequestType, ServerType, UsesHandle, Stages, Ends, Target, Swap, Continuation, Finish
<1>13. ASSUME NEW r \in Reqs, Analyse(r)
      PROVE  RequestType' /\ UsesHandle' /\ ServerType'
  BY <1>13, AfterIndexStage, ScopeAssumption, BoundsAssumption
  DEF RequestType, ServerType, UsesHandle, Stages, Ends, Target, Analyse, Continuation, Finish
<1>14. ASSUME NEW w \in Reqs, NEW f \in Files, Flush(w, f)
      PROVE  RequestType' /\ UsesHandle' /\ ServerType'
  BY <1>14, AfterIndexStage, ScopeAssumption, BoundsAssumption
  DEF RequestType, ServerType, UsesHandle, Stages, Ends, Target, Flush, Macrotask, Suspend, AwaitLoad, CanLoad, reqVars, srvVars
<1>15. ASSUME NEW w \in Reqs, WriteBatch(w)
      PROVE  RequestType' /\ UsesHandle' /\ ServerType'
  BY <1>15, AfterIndexStage, ScopeAssumption, BoundsAssumption
  DEF RequestType, ServerType, UsesHandle, Stages, Ends, Target, WriteBatch, Continuation, reqVars, srvVars
<1>16. ASSUME NEW c \in Conns, Connect(c) \/ Disconnect(c)
      PROVE  RequestType' /\ UsesHandle' /\ ServerType'
  BY <1>16, AfterIndexStage, ScopeAssumption, BoundsAssumption
  DEF RequestType, ServerType, UsesHandle, Stages, Ends, Target, Connect, Disconnect, Macrotask, queues, dbVars, reqVars
<1>17. ASSUME Signal \/ Tick
      PROVE  RequestType' /\ UsesHandle' /\ ServerType'
  BY <1>17, AfterIndexStage, ScopeAssumption, BoundsAssumption
  DEF RequestType, ServerType, UsesHandle, Stages, Ends, Target, Signal, Tick, Macrotask, queues, dbVars, reqVars
<1>18. ASSUME StopAsked \/ IdlePoll
      PROVE  RequestType' /\ UsesHandle' /\ ServerType'
  BY <1>18, AfterIndexStage, ScopeAssumption, BoundsAssumption
  DEF RequestType, ServerType, UsesHandle, Stages, Ends, Target, StopAsked, IdlePoll, BeginStop, Macrotask, queues, dbVars, reqVars
<1>19. ASSUME EndStop
      PROVE  RequestType' /\ UsesHandle' /\ ServerType'
  BY <1>19, AfterIndexStage, ScopeAssumption, BoundsAssumption
  DEF RequestType, ServerType, UsesHandle, Stages, Ends, Target, EndStop, Macrotask, queues, reqVars
<1>20. ASSUME UNCHANGED vars
      PROVE  RequestType' /\ UsesHandle' /\ ServerType'
  BY <1>20, AfterIndexStage, ScopeAssumption, BoundsAssumption
  DEF RequestType, ServerType, UsesHandle, Stages, Ends, Target, vars, queues, dbVars, reqVars, srvVars
<1> QED
  BY <1>1, <1>2, <1>3, <1>4, <1>5, <1>6, <1>7, <1>8, <1>9, <1>10, <1>11, <1>12, <1>13, <1>14, <1>15, <1>16, <1>17, <1>18, <1>19, <1>20
  DEF Next, Work, Resume, Stop, Dispatch

\* Every step of the loop, of a client or of the clock keeps the types.
LEMMA StepTypeInv == TypeInv /\ [Next]_vars => TypeInv'
BY StepFlagType, StepLoopType, StepStateType DEF TypeInv, TypeOK

\* The types hold throughout every behaviour of the daemon.
LEMMA AlwaysTypeInv == Spec => []TypeInv
BY InitTypeInv, StepTypeInv, PTL DEF Spec

\* The request loop is type-correct for every number of requests, connections
\* and files: nothing is mapped, queued or evaluated that was not opened.
THEOREM TypeCorrect == Spec => []TypeOK
BY AlwaysTypeInv, PTL DEF TypeInv
-----------------------------------------------------------------------------
(* Handles.  A request between openDb and the map holds an open handle that *)
(* is not mapped yet; a mapped one is open and its request is past that     *)
(* point.  Without the second half index could close the handle it is about *)
(* to map.                                                                  *)

Indexing == {"extract", "adopt", "swap", "analyse"}
Mapped   == {"eval", "done"}

HandleInv ==
  /\ \A r \in Reqs : stage[r] \in Indexing => handle[r] = "open"
  /\ repo # None => stage[repo] \in Mapped /\ handle[repo] = "open"
  /\ watcher # None => /\ watcher \in live
                       /\ stage[watcher] \in Mapped /\ handle[watcher] = "open"

\* No interleaving of the requests' continuations closes a mapped handle.
LEMMA StepHandleInv == TypeInv /\ HandleInv /\ [Next]_vars => HandleInv'
<1> SUFFICES ASSUME TypeInv, HandleInv, [Next]_vars PROVE HandleInv'
  OBVIOUS
<1> USE DEF TypeInv, TypeOK, RequestType, ServerType, HandleInv, Indexing, Mapped
<1>1. ASSUME NEW r \in Reqs, NEW t \in {Request(r), Batch(r)}, LoadDone(t)
      PROVE  HandleInv'
  BY <1>1, AfterIndexStage, NamesAssumption DEF LoadDone, Macrotask, dbVars, reqVars, srvVars
<1>2. ASSUME NEW r \in Reqs, ExtractNext(r)
      PROVE  HandleInv'
  BY <1>2, AfterIndexStage, NamesAssumption DEF ExtractNext, Continuation, Resuspend, AwaitLoad, CanLoad, dbVars, srvVars
<1>3. ASSUME NEW r \in Reqs, InsertRows(r)
      PROVE  HandleInv'
  BY <1>3, AfterIndexStage, NamesAssumption DEF InsertRows, Continuation, Resuspend, Finish
<1>4. ASSUME NEW c \in Conns, NEW r \in Reqs, NEW k \in Kinds, AcceptControl(c, r, k)
      PROVE  HandleInv'
  BY <1>4, AfterIndexStage, NamesAssumption DEF AcceptControl, Accept, Suspend, dbVars
<1>5. ASSUME NEW c \in Conns, NEW r \in Reqs, AcceptQuery(c, r)
      PROVE  HandleInv'
  BY <1>5, AfterIndexStage, NamesAssumption DEF AcceptQuery, Accept, Suspend, dbVars
<1>6. ASSUME NEW c \in Conns, NEW r \in Reqs, AcceptFirstQuery(c, r)
      PROVE  HandleInv'
  BY <1>6, AfterIndexStage, NamesAssumption DEF AcceptFirstQuery, Accept, BeginIndex, Suspend, AwaitLoad, CanLoad
<1>7. ASSUME NEW c \in Conns, NEW r \in Reqs, AcceptIndex(c, r)
      PROVE  HandleInv'
  BY <1>7, AfterIndexStage, NamesAssumption DEF AcceptIndex, Accept, BeginIndex, Suspend, AwaitLoad, CanLoad
<1>8. ASSUME NEW c \in Conns, NEW r \in Reqs, AcceptRca(c, r)
      PROVE  HandleInv'
  BY <1>8, AfterIndexStage, NamesAssumption DEF AcceptRca, Accept, BeginIndex, Suspend, AwaitLoad, CanLoad
<1>9. ASSUME NEW r \in Reqs, Answer(r)
      PROVE  HandleInv'
  BY <1>9, AfterIndexStage, NamesAssumption DEF Answer, Continuation, Finish, dbVars
<1>10. ASSUME NEW r \in Reqs, Adopt(r)
      PROVE  HandleInv'
  BY <1>10, AfterIndexStage, NamesAssumption DEF Adopt, Continuation, Resuspend, srvVars
<1>11. ASSUME NEW r \in Reqs, Evaluate(r)
      PROVE  HandleInv'
  BY <1>11, AfterIndexStage, NamesAssumption DEF Evaluate, Continuation, Finish, dbVars
<1>12. ASSUME NEW r \in Reqs, Swap(r)
      PROVE  HandleInv'
  BY <1>12, AfterIndexStage, NamesAssumption DEF Swap, Continuation, Finish
<1>13. ASSUME NEW r \in Reqs, Analyse(r)
      PROVE  HandleInv'
  BY <1>13, AfterIndexStage, NamesAssumption DEF Analyse, Continuation, Finish
<1>14. ASSUME NEW w \in Reqs, NEW f \in Files, Flush(w, f)
      PROVE  HandleInv'
  BY <1>14, AfterIndexStage, NamesAssumption DEF Flush, Macrotask, Suspend, AwaitLoad, CanLoad, reqVars, srvVars
<1>15. ASSUME NEW w \in Reqs, WriteBatch(w)
      PROVE  HandleInv'
  BY <1>15, AfterIndexStage, NamesAssumption DEF WriteBatch, Continuation, reqVars, srvVars
<1>16. ASSUME NEW c \in Conns, Connect(c) \/ Disconnect(c)
      PROVE  HandleInv'
  BY <1>16, AfterIndexStage, NamesAssumption DEF Connect, Disconnect, Macrotask, queues, dbVars, reqVars
<1>17. ASSUME Signal \/ Tick
      PROVE  HandleInv'
  BY <1>17, AfterIndexStage, NamesAssumption DEF Signal, Tick, Macrotask, queues, dbVars, reqVars
<1>18. ASSUME StopAsked \/ IdlePoll
      PROVE  HandleInv'
  BY <1>18, AfterIndexStage, NamesAssumption DEF StopAsked, IdlePoll, BeginStop, Macrotask, queues, dbVars, reqVars
<1>19. ASSUME EndStop
      PROVE  HandleInv'
  BY <1>19, AfterIndexStage, NamesAssumption DEF EndStop, Macrotask, queues, reqVars
<1>20. ASSUME UNCHANGED vars
      PROVE  HandleInv'
  BY <1>20, AfterIndexStage, NamesAssumption DEF vars, queues, dbVars, reqVars, srvVars
<1> QED
  BY <1>1, <1>2, <1>3, <1>4, <1>5, <1>6, <1>7, <1>8, <1>9, <1>10, <1>11, <1>12, <1>13, <1>14, <1>15, <1>16, <1>17, <1>18, <1>19, <1>20
  DEF Next, Work, Resume, Stop, Dispatch

\* A daemon that starts has mapped nothing.
LEMMA InitHandleInv == Init => HandleInv
BY NamesAssumption DEF Init, HandleInv, Indexing

\* So both hold throughout every behaviour.
LEMMA AlwaysHandleInv == Spec => [](TypeInv /\ HandleInv)
BY InitTypeInv, StepTypeInv, InitHandleInv, StepHandleInv, PTL DEF Spec

\* Whatever queries, re-indexings, analyses, edits, hang-ups and shutdowns
\* interleave, `repos` maps an open handle or nothing, and a mapped watcher is
\* listening and writes through an open handle.
THEOREM MappedOnesWork == Spec => []MapsWork
<1>1. HandleInv => MapsWork
  BY DEF HandleInv, MapsWork
<1> QED
  BY <1>1, AlwaysHandleInv, PTL
-----------------------------------------------------------------------------
(* Shutdown.  Handles are closed by stop only when every connection has     *)
(* ended, and no connection is made after that.                             *)

StopInv ==
  /\ phase = "closed" => \A c \in Conns : conn[c] # "open"
  /\ \A r \in Reqs : handle[r] = "byStop" => phase = "closed"
  /\ \A r \in Reqs : stage[r] # "new" => on[r] \in Conns /\ conn[on[r]] # "none"
  /\ \A r \in Reqs : stage[r] = "new" => outcome[r] = "none"

\* No step ends a shutdown under a client that is still connected.
LEMMA StepStopInv == TypeInv /\ StopInv /\ [Next]_vars => StopInv'
<1> SUFFICES ASSUME TypeInv, StopInv, [Next]_vars PROVE StopInv'
  OBVIOUS
<1> USE DEF TypeInv, TypeOK, RequestType, ServerType, UsesHandle, StopInv
<1>1. ASSUME NEW r \in Reqs, NEW t \in {Request(r), Batch(r)}, LoadDone(t)
      PROVE  StopInv'
  BY <1>1, AfterIndexStage, NamesAssumption DEF LoadDone, Macrotask, dbVars, reqVars, srvVars
<1>2. ASSUME NEW r \in Reqs, ExtractNext(r)
      PROVE  StopInv'
  BY <1>2, AfterIndexStage, NamesAssumption DEF ExtractNext, Continuation, Resuspend, AwaitLoad, CanLoad, dbVars, srvVars
<1>3. ASSUME NEW r \in Reqs, InsertRows(r)
      PROVE  StopInv'
  BY <1>3, AfterIndexStage, NamesAssumption DEF InsertRows, Continuation, Resuspend, Finish
<1>4. ASSUME NEW c \in Conns, NEW r \in Reqs, NEW k \in Kinds, AcceptControl(c, r, k)
      PROVE  StopInv'
  BY <1>4, AfterIndexStage, NamesAssumption DEF AcceptControl, Accept, Suspend, dbVars
<1>5. ASSUME NEW c \in Conns, NEW r \in Reqs, AcceptQuery(c, r)
      PROVE  StopInv'
  BY <1>5, AfterIndexStage, NamesAssumption DEF AcceptQuery, Accept, Suspend, dbVars
<1>6. ASSUME NEW c \in Conns, NEW r \in Reqs, AcceptFirstQuery(c, r)
      PROVE  StopInv'
  BY <1>6, AfterIndexStage, NamesAssumption DEF AcceptFirstQuery, Accept, BeginIndex, Suspend, AwaitLoad, CanLoad
<1>7. ASSUME NEW c \in Conns, NEW r \in Reqs, AcceptIndex(c, r)
      PROVE  StopInv'
  BY <1>7, AfterIndexStage, NamesAssumption DEF AcceptIndex, Accept, BeginIndex, Suspend, AwaitLoad, CanLoad
<1>8. ASSUME NEW c \in Conns, NEW r \in Reqs, AcceptRca(c, r)
      PROVE  StopInv'
  BY <1>8, AfterIndexStage, NamesAssumption DEF AcceptRca, Accept, BeginIndex, Suspend, AwaitLoad, CanLoad
<1>9. ASSUME NEW r \in Reqs, Answer(r)
      PROVE  StopInv'
  BY <1>9, AfterIndexStage, NamesAssumption DEF Answer, Continuation, Finish, dbVars
<1>10. ASSUME NEW r \in Reqs, Adopt(r)
      PROVE  StopInv'
  BY <1>10, AfterIndexStage, NamesAssumption DEF Adopt, Continuation, Resuspend, srvVars
<1>11. ASSUME NEW r \in Reqs, Evaluate(r)
      PROVE  StopInv'
  BY <1>11, AfterIndexStage, NamesAssumption DEF Evaluate, Continuation, Finish, dbVars
<1>12. ASSUME NEW r \in Reqs, Swap(r)
      PROVE  StopInv'
  BY <1>12, AfterIndexStage, NamesAssumption DEF Swap, Continuation, Finish
<1>13. ASSUME NEW r \in Reqs, Analyse(r)
      PROVE  StopInv'
  BY <1>13, AfterIndexStage, NamesAssumption DEF Analyse, Continuation, Finish
<1>14. ASSUME NEW w \in Reqs, NEW f \in Files, Flush(w, f)
      PROVE  StopInv'
  BY <1>14, AfterIndexStage, NamesAssumption DEF Flush, Macrotask, Suspend, AwaitLoad, CanLoad, reqVars, srvVars
<1>15. ASSUME NEW w \in Reqs, WriteBatch(w)
      PROVE  StopInv'
  BY <1>15, AfterIndexStage, NamesAssumption DEF WriteBatch, Continuation, reqVars, srvVars
<1>16. ASSUME NEW c \in Conns, Connect(c) \/ Disconnect(c)
      PROVE  StopInv'
  BY <1>16, AfterIndexStage, NamesAssumption DEF Connect, Disconnect, Macrotask, queues, dbVars, reqVars
<1>17. ASSUME Signal \/ Tick
      PROVE  StopInv'
  BY <1>17, AfterIndexStage, NamesAssumption DEF Signal, Tick, Macrotask, queues, dbVars, reqVars
<1>18. ASSUME StopAsked \/ IdlePoll
      PROVE  StopInv'
  BY <1>18, AfterIndexStage, NamesAssumption DEF StopAsked, IdlePoll, BeginStop, Macrotask, queues, dbVars, reqVars
<1>19. ASSUME EndStop
      PROVE  StopInv'
  BY <1>19, AfterIndexStage, NamesAssumption DEF EndStop, Macrotask, queues, reqVars
<1>20. ASSUME UNCHANGED vars
      PROVE  StopInv'
  BY <1>20, AfterIndexStage, NamesAssumption DEF vars, queues, dbVars, reqVars, srvVars
<1> QED
  BY <1>1, <1>2, <1>3, <1>4, <1>5, <1>6, <1>7, <1>8, <1>9, <1>10, <1>11, <1>12, <1>13, <1>14, <1>15, <1>16, <1>17, <1>18, <1>19, <1>20
  DEF Next, Work, Resume, Stop, Dispatch

\* A daemon that starts has closed nothing and accepted nobody.
LEMMA InitStopInv == Init => StopInv
BY DEF Init, StopInv

\* The second half is about the event loop.  A query that has its handle is in
\* the microtask queue, so the macrotask that ends a shutdown finds none.
Queued(q, t) == \E i \in 1..Len(q) : q[i] = t

SpareInv ==
  /\ \A r \in Reqs : stage[r] = "eval" => Queued(mtq, Request(r)) /\ handle[use[r]] # "byStop"
  /\ \A r \in Reqs : outcome[r] # "byStop"

\* A task stays in the queue when another joins, and when another one that is
\* at the head leaves.
LEMMA QueuedAppend ==
  ASSUME NEW q \in Seq(Tasks), NEW x \in Tasks
  PROVE  /\ Queued(Append(q, x), x)
         /\ \A t : Queued(q, t) => Queued(Append(q, x), t)
<1>1. Len(Append(q, x)) = Len(q) + 1 /\ Append(q, x)[Len(q) + 1] = x /\ Len(q) \in Nat
  OBVIOUS
<1>2. \A i \in 1..Len(q) : Append(q, x)[i] = q[i]
  OBVIOUS
<1> QED
  BY <1>1, <1>2 DEF Queued

LEMMA QueuedTail ==
  ASSUME NEW q \in Seq(Tasks), q # <<>>, NEW t, Queued(q, t), Head(q) # t
  PROVE  Queued(Tail(q), t)
<1>1. PICK i \in 1..Len(q) : q[i] = t
  BY DEF Queued
<1>2. i # 1
  BY <1>1
<1>3. i - 1 \in 1..Len(Tail(q)) /\ Tail(q)[i - 1] = t
  BY <1>1, <1>2
<1> QED
  BY <1>3 DEF Queued

\* What every step but a macrotask does to a task that is not at the head.
LEMMA QueuedStays ==
  ASSUME mtq \in Seq(Tasks), NEW t, Queued(mtq, t),
         \/ UNCHANGED mtq
         \/ \E x \in Tasks : mtq' = Append(mtq, x)
         \/ /\ mtq # <<>> /\ Head(mtq) # t
            /\ mtq' = Tail(mtq) \/ \E x \in Tasks : mtq' = Append(Tail(mtq), x)
  PROVE  Queued(mtq', t)
<1>1. mtq # <<>> => Tail(mtq) \in Seq(Tasks)
  OBVIOUS
<1>2. CASE \E x \in Tasks : mtq' = Append(mtq, x)
  BY <1>2, QueuedAppend
<1>3. CASE mtq # <<>> /\ Head(mtq) # t
           /\ (mtq' = Tail(mtq) \/ \E x \in Tasks : mtq' = Append(Tail(mtq), x))
  <2>1. Tail(mtq) \in Seq(Tasks) /\ Queued(Tail(mtq), t)
    BY <1>1, <1>3, QueuedTail
  <2> QED
    BY <1>3, <2>1, QueuedAppend
<1> QED
  BY <1>2, <1>3

\* Nothing is queued when a macrotask runs, so no query holds a handle then.
LEMMA MacrotaskIsAlone ==
  ASSUME SpareInv, Macrotask
  PROVE  \A r \in Reqs : stage[r] # "eval"
BY DEF SpareInv, Macrotask, Queued

LEMMA TasksDiffer ==
  ASSUME NEW r \in Reqs, NEW p \in Reqs
  PROVE  (Request(r) = Request(p) => r = p) /\ Batch(r) # Request(p)
<1>1. Request(r).id = r /\ Request(p).id = p
  BY DEF Request
<1>2. Batch(r).task # Request(p).task
  BY DEF Request, Batch
<1> QED
  BY <1>1, <1>2

\* No step puts a query out of the queue, or closes its handle for good.
LEMMA StepSpareInv == TypeInv /\ HandleInv /\ SpareInv /\ [Next]_vars => SpareInv'
<1> SUFFICES ASSUME TypeInv, HandleInv, SpareInv, [Next]_vars PROVE SpareInv'
  OBVIOUS
<1> USE DEF TypeInv, TypeOK, RequestType, ServerType, LoopType, UsesHandle
<1>0. ASSUME \A r \in Reqs : stage[r] # "eval", UNCHANGED <<stage, outcome>>
      PROVE  SpareInv'
  BY <1>0 DEF SpareInv
<1>1. ASSUME NEW r \in Reqs, NEW t \in {Request(r), Batch(r)}, LoadDone(t)
      PROVE  SpareInv'
  <2>1. Macrotask /\ UNCHANGED <<stage, outcome>>
    BY <1>1 DEF LoadDone, dbVars, reqVars, srvVars
  <2> QED
    BY <2>1, <1>0, MacrotaskIsAlone
<1>2. ASSUME NEW w \in Reqs, NEW f \in Files, Flush(w, f)
      PROVE  SpareInv'
  <2>1. Macrotask /\ UNCHANGED <<stage, outcome>>
    BY <1>2 DEF Flush, reqVars, srvVars
  <2> QED
    BY <2>1, <1>0, MacrotaskIsAlone
<1>3. ASSUME NEW c \in Conns, Connect(c) \/ Disconnect(c)
      PROVE  SpareInv'
  <2>1. Macrotask /\ UNCHANGED <<stage, outcome>>
    BY <1>3 DEF Connect, Disconnect, queues, dbVars, reqVars
  <2> QED
    BY <2>1, <1>0, MacrotaskIsAlone
<1>4. ASSUME Signal \/ Tick
      PROVE  SpareInv'
  <2>1. Macrotask /\ UNCHANGED <<stage, outcome>>
    BY <1>4 DEF Signal, Tick, queues, dbVars, reqVars
  <2> QED
    BY <2>1, <1>0, MacrotaskIsAlone
<1>5. ASSUME StopAsked \/ IdlePoll
      PROVE  SpareInv'
  <2>1. Macrotask /\ UNCHANGED <<stage, outcome>>
    BY <1>5 DEF StopAsked, IdlePoll, BeginStop, queues, dbVars, reqVars
  <2> QED
    BY <2>1, <1>0, MacrotaskIsAlone
<1>6. ASSUME EndStop
      PROVE  SpareInv'
  <2>1. Macrotask /\ UNCHANGED <<stage, outcome>>
    BY <1>6 DEF EndStop, queues, reqVars
  <2> QED
    BY <2>1, <1>0, MacrotaskIsAlone
<1>7. ASSUME NEW r \in Reqs, ExtractNext(r)
      PROVE  SpareInv'
  <2>1. Head(mtq) = Request(r) /\ mtq # <<>> /\ Tail(mtq) \in Seq(Tasks)
    BY <1>7, QueueTypes DEF ExtractNext, Continuation
  <2>2. mtq' = Tail(mtq) \/ mtq' = Append(Tail(mtq), Request(r))
    BY <1>7 DEF ExtractNext, Continuation, Resuspend, AwaitLoad, dbVars, srvVars
  <2>3. \A p \in Reqs \ {r} : Queued(mtq, Request(p)) => Queued(mtq', Request(p))
    BY <2>1, <2>2, QueuedStays, QueueTypes, TasksDiffer
  <2>4. ASSUME NEW p \in Reqs, stage'[p] = "eval"
        PROVE  Queued(mtq', Request(p)) /\ handle'[use'[p]] # "byStop"
    <3>1. p # r /\ stage[p] = "eval"
      BY <1>7, <2>4, AfterIndexStage DEF ExtractNext, Continuation, Resuspend, AwaitLoad, dbVars, srvVars
    <3>2. handle'[use'[p]] # "byStop"
      BY <1>7, <3>1 DEF SpareInv, ExtractNext, Continuation, Resuspend, AwaitLoad, dbVars, srvVars
    <3> QED
      BY <2>3, <3>1, <3>2 DEF SpareInv
  <2>5. \A p \in Reqs : outcome'[p] # "byStop"
    BY <1>7 DEF SpareInv, ExtractNext, Continuation, Resuspend, AwaitLoad, dbVars, srvVars
  <2> QED
    BY <2>4, <2>5 DEF SpareInv
<1>8. ASSUME NEW r \in Reqs, InsertRows(r)
      PROVE  SpareInv'
  <2>1. Head(mtq) = Request(r) /\ mtq # <<>> /\ Tail(mtq) \in Seq(Tasks)
    BY <1>8, QueueTypes DEF InsertRows, Continuation
  <2>2. mtq' = Tail(mtq) \/ mtq' = Append(Tail(mtq), Request(r))
    BY <1>8 DEF InsertRows, Continuation, Resuspend, Finish
  <2>3. \A p \in Reqs \ {r} : Queued(mtq, Request(p)) => Queued(mtq', Request(p))
    BY <2>1, <2>2, QueuedStays, QueueTypes, TasksDiffer
  <2>4. ASSUME NEW p \in Reqs, stage'[p] = "eval"
        PROVE  Queued(mtq', Request(p)) /\ handle'[use'[p]] # "byStop"
    <3>1. p # r /\ stage[p] = "eval"
      BY <1>8, <2>4, AfterIndexStage DEF InsertRows, Continuation, Resuspend, Finish
    <3>2. handle'[use'[p]] # "byStop"
      BY <1>8, <3>1 DEF SpareInv, InsertRows, Continuation, Resuspend, Finish
    <3> QED
      BY <2>3, <3>1, <3>2 DEF SpareInv
  <2>5. \A p \in Reqs : outcome'[p] # "byStop"
    BY <1>8 DEF SpareInv, InsertRows, Continuation, Resuspend, Finish
  <2> QED
    BY <2>4, <2>5 DEF SpareInv
<1>9. ASSUME NEW r \in Reqs, Answer(r)
      PROVE  SpareInv'
  <2>1. Head(mtq) = Request(r) /\ mtq # <<>> /\ Tail(mtq) \in Seq(Tasks)
    BY <1>9, QueueTypes DEF Answer, Continuation
  <2>2. mtq' = Tail(mtq) \/ mtq' = Append(Tail(mtq), Request(r))
    BY <1>9 DEF Answer, Continuation, Finish, dbVars
  <2>3. \A p \in Reqs \ {r} : Queued(mtq, Request(p)) => Queued(mtq', Request(p))
    BY <2>1, <2>2, QueuedStays, QueueTypes, TasksDiffer
  <2>4. ASSUME NEW p \in Reqs, stage'[p] = "eval"
        PROVE  Queued(mtq', Request(p)) /\ handle'[use'[p]] # "byStop"
    <3>1. p # r /\ stage[p] = "eval"
      BY <1>9, <2>4, AfterIndexStage DEF Answer, Continuation, Finish, dbVars
    <3>2. handle'[use'[p]] # "byStop"
      BY <1>9, <3>1 DEF SpareInv, Answer, Continuation, Finish, dbVars
    <3> QED
      BY <2>3, <3>1, <3>2 DEF SpareInv
  <2>5. \A p \in Reqs : outcome'[p] # "byStop"
    BY <1>9 DEF SpareInv, Answer, Continuation, Finish, dbVars
  <2> QED
    BY <2>4, <2>5 DEF SpareInv
<1>10. ASSUME NEW r \in Reqs, Adopt(r)
      PROVE  SpareInv'
  <2>1. Head(mtq) = Request(r) /\ mtq # <<>> /\ Tail(mtq) \in Seq(Tasks)
    BY <1>10, QueueTypes DEF Adopt, Continuation
  <2>2. mtq' = Append(Tail(mtq), Request(r))
    BY <1>10 DEF Adopt, Continuation, Resuspend, srvVars
  <2>3. \A p \in Reqs \ {r} : Queued(mtq, Request(p)) => Queued(mtq', Request(p))
    BY <2>1, <2>2, QueuedStays, QueueTypes, TasksDiffer
  <2>4. ASSUME NEW p \in Reqs, stage'[p] = "eval"
        PROVE  Queued(mtq', Request(p)) /\ handle'[use'[p]] # "byStop"
    <3>1. CASE p = r
      <4>1. handle[r] = "open" /\ use'[r] = r /\ handle' = handle
        BY <1>10 DEF Adopt, HandleInv, Indexing
      <4>2. Queued(mtq', Request(r))
        BY <2>1, <2>2, QueuedAppend, QueueTypes DEF Adopt
      <4> QED
        BY <3>1, <4>1, <4>2
    <3>2. CASE p # r
      <4>1. stage[p] = "eval" /\ use'[p] = use[p] /\ handle' = handle
        BY <1>10, <2>4, <3>2 DEF Adopt
      <4> QED
        BY <2>3, <3>2, <4>1 DEF SpareInv
    <3> QED
      BY <3>1, <3>2
  <2>5. \A p \in Reqs : outcome'[p] # "byStop"
    BY <1>10 DEF SpareInv, Adopt, Continuation, Resuspend, srvVars
  <2> QED
    BY <2>4, <2>5 DEF SpareInv
<1>11. ASSUME NEW r \in Reqs, Evaluate(r)
      PROVE  SpareInv'
  <2>1. Head(mtq) = Request(r) /\ mtq # <<>> /\ Tail(mtq) \in Seq(Tasks)
    BY <1>11, QueueTypes DEF Evaluate, Continuation
  <2>2. mtq' = Tail(mtq) \/ mtq' = Append(Tail(mtq), Request(r))
    BY <1>11 DEF Evaluate, Continuation, Finish, dbVars
  <2>3. \A p \in Reqs \ {r} : Queued(mtq, Request(p)) => Queued(mtq', Request(p))
    BY <2>1, <2>2, QueuedStays, QueueTypes, TasksDiffer
  <2>4. ASSUME NEW p \in Reqs, stage'[p] = "eval"
        PROVE  Queued(mtq', Request(p)) /\ handle'[use'[p]] # "byStop"
    <3>1. p # r /\ stage[p] = "eval"
      BY <1>11, <2>4, AfterIndexStage DEF Evaluate, Continuation, Finish, dbVars
    <3>2. handle'[use'[p]] # "byStop"
      BY <1>11, <3>1 DEF SpareInv, Evaluate, Continuation, Finish, dbVars
    <3> QED
      BY <2>3, <3>1, <3>2 DEF SpareInv
  <2>5. \A p \in Reqs : outcome'[p] # "byStop"
    BY <1>11 DEF SpareInv, Evaluate, Continuation, Finish, dbVars
  <2> QED
    BY <2>4, <2>5 DEF SpareInv
<1>12. ASSUME NEW r \in Reqs, Swap(r)
      PROVE  SpareInv'
  <2>1. Head(mtq) = Request(r) /\ mtq # <<>> /\ Tail(mtq) \in Seq(Tasks)
    BY <1>12, QueueTypes DEF Swap, Continuation
  <2>2. mtq' = Tail(mtq) \/ mtq' = Append(Tail(mtq), Request(r))
    BY <1>12 DEF Swap, Continuation, Finish
  <2>3. \A p \in Reqs \ {r} : Queued(mtq, Request(p)) => Queued(mtq', Request(p))
    BY <2>1, <2>2, QueuedStays, QueueTypes, TasksDiffer
  <2>4. ASSUME NEW p \in Reqs, stage'[p] = "eval"
        PROVE  Queued(mtq', Request(p)) /\ handle'[use'[p]] # "byStop"
    <3>1. p # r /\ stage[p] = "eval"
      BY <1>12, <2>4, AfterIndexStage DEF Swap, Continuation, Finish
    <3>2. handle'[use'[p]] # "byStop"
      BY <1>12, <3>1 DEF SpareInv, Swap, Continuation, Finish
    <3> QED
      BY <2>3, <3>1, <3>2 DEF SpareInv
  <2>5. \A p \in Reqs : outcome'[p] # "byStop"
    BY <1>12 DEF SpareInv, Swap, Continuation, Finish
  <2> QED
    BY <2>4, <2>5 DEF SpareInv
<1>13. ASSUME NEW r \in Reqs, Analyse(r)
      PROVE  SpareInv'
  <2>1. Head(mtq) = Request(r) /\ mtq # <<>> /\ Tail(mtq) \in Seq(Tasks)
    BY <1>13, QueueTypes DEF Analyse, Continuation
  <2>2. mtq' = Tail(mtq) \/ mtq' = Append(Tail(mtq), Request(r))
    BY <1>13 DEF Analyse, Continuation, Finish
  <2>3. \A p \in Reqs \ {r} : Queued(mtq, Request(p)) => Queued(mtq', Request(p))
    BY <2>1, <2>2, QueuedStays, QueueTypes, TasksDiffer
  <2>4. ASSUME NEW p \in Reqs, stage'[p] = "eval"
        PROVE  Queued(mtq', Request(p)) /\ handle'[use'[p]] # "byStop"
    <3>1. p # r /\ stage[p] = "eval"
      BY <1>13, <2>4, AfterIndexStage DEF Analyse, Continuation, Finish
    <3>2. handle'[use'[p]] # "byStop"
      BY <1>13, <3>1 DEF SpareInv, Analyse, Continuation, Finish
    <3> QED
      BY <2>3, <3>1, <3>2 DEF SpareInv
  <2>5. \A p \in Reqs : outcome'[p] # "byStop"
    BY <1>13 DEF SpareInv, Analyse, Continuation, Finish
  <2> QED
    BY <2>4, <2>5 DEF SpareInv
<1>14. ASSUME NEW c \in Conns, NEW r \in Reqs, NEW k \in Kinds, AcceptControl(c, r, k)
      PROVE  SpareInv'
  <2>1. mtq' = mtq \/ mtq' = Append(mtq, Request(r))
    BY <1>14 DEF AcceptControl, Accept, Suspend, dbVars
  <2>2. \A p \in Reqs : Queued(mtq, Request(p)) => Queued(mtq', Request(p))
    BY <2>1, QueuedStays, QueueTypes
  <2>3. outcome' = outcome
    BY <1>14 DEF AcceptControl, Accept, Suspend, dbVars
  <2>4. ASSUME NEW p \in Reqs, stage'[p] = "eval"
        PROVE  Queued(mtq', Request(p)) /\ handle'[use'[p]] # "byStop"
    <3>1. p # r /\ stage[p] = "eval"
      BY <1>14, <2>4 DEF AcceptControl, Accept, Suspend, dbVars
    <3>2. handle'[use'[p]] # "byStop"
      BY <1>14, <3>1 DEF SpareInv, AcceptControl, Accept, Suspend, dbVars
    <3> QED
      BY <2>2, <3>1, <3>2 DEF SpareInv
  <2> QED
    BY <2>3, <2>4 DEF SpareInv
<1>15. ASSUME NEW c \in Conns, NEW r \in Reqs, AcceptQuery(c, r)
      PROVE  SpareInv'
  <2>1. mtq' = mtq \/ mtq' = Append(mtq, Request(r))
    BY <1>15 DEF AcceptQuery, Accept, Suspend, dbVars
  <2>2. \A p \in Reqs : Queued(mtq, Request(p)) => Queued(mtq', Request(p))
    BY <2>1, QueuedStays, QueueTypes
  <2>3. outcome' = outcome
    BY <1>15 DEF AcceptQuery, Accept, Suspend, dbVars
  <2>4. ASSUME NEW p \in Reqs, stage'[p] = "eval"
        PROVE  Queued(mtq', Request(p)) /\ handle'[use'[p]] # "byStop"
    <3>1. CASE p = r
      <4>1. use'[r] = repo /\ handle' = handle /\ handle[repo] = "open"
        BY <1>15 DEF HandleInv, AcceptQuery, Accept, Suspend, dbVars
      <4>2. Queued(mtq', Request(r))
        BY <1>15, QueuedAppend, QueueTypes DEF AcceptQuery, Suspend
      <4> QED
        BY <3>1, <4>1, <4>2
    <3>2. CASE p # r
      BY <1>15, <2>2, <2>4, <3>2 DEF SpareInv, AcceptQuery, Accept, Suspend, dbVars
    <3> QED
      BY <3>1, <3>2
  <2> QED
    BY <2>3, <2>4 DEF SpareInv
<1>16. ASSUME NEW c \in Conns, NEW r \in Reqs, AcceptFirstQuery(c, r)
      PROVE  SpareInv'
  <2>1. mtq' = mtq \/ mtq' = Append(mtq, Request(r))
    BY <1>16 DEF AcceptFirstQuery, Accept, BeginIndex, Suspend, AwaitLoad
  <2>2. \A p \in Reqs : Queued(mtq, Request(p)) => Queued(mtq', Request(p))
    BY <2>1, QueuedStays, QueueTypes
  <2>3. outcome' = outcome
    BY <1>16 DEF AcceptFirstQuery, Accept, BeginIndex, Suspend, AwaitLoad
  <2>4. ASSUME NEW p \in Reqs, stage'[p] = "eval"
        PROVE  Queued(mtq', Request(p)) /\ handle'[use'[p]] # "byStop"
    <3>1. p # r /\ stage[p] = "eval"
      BY <1>16, <2>4 DEF AcceptFirstQuery, Accept, BeginIndex, Suspend, AwaitLoad
    <3>2. handle'[use'[p]] # "byStop"
      BY <1>16, <3>1 DEF SpareInv, AcceptFirstQuery, Accept, BeginIndex, Suspend, AwaitLoad
    <3> QED
      BY <2>2, <3>1, <3>2 DEF SpareInv
  <2> QED
    BY <2>3, <2>4 DEF SpareInv
<1>17. ASSUME NEW c \in Conns, NEW r \in Reqs, AcceptIndex(c, r)
      PROVE  SpareInv'
  <2>1. mtq' = mtq \/ mtq' = Append(mtq, Request(r))
    BY <1>17 DEF AcceptIndex, Accept, BeginIndex, Suspend, AwaitLoad
  <2>2. \A p \in Reqs : Queued(mtq, Request(p)) => Queued(mtq', Request(p))
    BY <2>1, QueuedStays, QueueTypes
  <2>3. outcome' = outcome
    BY <1>17 DEF AcceptIndex, Accept, BeginIndex, Suspend, AwaitLoad
  <2>4. ASSUME NEW p \in Reqs, stage'[p] = "eval"
        PROVE  Queued(mtq', Request(p)) /\ handle'[use'[p]] # "byStop"
    <3>1. p # r /\ stage[p] = "eval"
      BY <1>17, <2>4 DEF AcceptIndex, Accept, BeginIndex, Suspend, AwaitLoad
    <3>2. handle'[use'[p]] # "byStop"
      BY <1>17, <3>1 DEF SpareInv, AcceptIndex, Accept, BeginIndex, Suspend, AwaitLoad
    <3> QED
      BY <2>2, <3>1, <3>2 DEF SpareInv
  <2> QED
    BY <2>3, <2>4 DEF SpareInv
<1>18. ASSUME NEW c \in Conns, NEW r \in Reqs, AcceptRca(c, r)
      PROVE  SpareInv'
  <2>1. mtq' = mtq \/ mtq' = Append(mtq, Request(r))
    BY <1>18 DEF AcceptRca, Accept, BeginIndex, Suspend, AwaitLoad
  <2>2. \A p \in Reqs : Queued(mtq, Request(p)) => Queued(mtq', Request(p))
    BY <2>1, QueuedStays, QueueTypes
  <2>3. outcome' = outcome
    BY <1>18 DEF AcceptRca, Accept, BeginIndex, Suspend, AwaitLoad
  <2>4. ASSUME NEW p \in Reqs, stage'[p] = "eval"
        PROVE  Queued(mtq', Request(p)) /\ handle'[use'[p]] # "byStop"
    <3>1. p # r /\ stage[p] = "eval"
      BY <1>18, <2>4 DEF AcceptRca, Accept, BeginIndex, Suspend, AwaitLoad
    <3>2. handle'[use'[p]] # "byStop"
      BY <1>18, <3>1 DEF SpareInv, AcceptRca, Accept, BeginIndex, Suspend, AwaitLoad
    <3> QED
      BY <2>2, <3>1, <3>2 DEF SpareInv
  <2> QED
    BY <2>3, <2>4 DEF SpareInv
<1>19. ASSUME NEW w \in Reqs, WriteBatch(w)
      PROVE  SpareInv'
  <2>1. Head(mtq) = Batch(w) /\ mtq # <<>> /\ mtq' = Tail(mtq)
    BY <1>19 DEF WriteBatch, Continuation
  <2>2. \A p \in Reqs : Queued(mtq, Request(p)) => Queued(mtq', Request(p))
    BY <2>1, QueuedStays, TasksDiffer
  <2> QED
    BY <1>19, <2>2 DEF SpareInv, WriteBatch, reqVars, srvVars
<1>20. ASSUME UNCHANGED vars
      PROVE  SpareInv'
  BY <1>20 DEF SpareInv, vars, queues, dbVars, reqVars, srvVars
<1> QED
  BY <1>1, <1>2, <1>3, <1>4, <1>5, <1>6, <1>7, <1>8, <1>9, <1>10, <1>11, <1>12, <1>13, <1>14, <1>15, <1>16, <1>17, <1>18, <1>19, <1>20
  DEF Next, Work, Resume, Stop, Dispatch

\* A daemon that starts has no query.
LEMMA InitSpareInv == Init => SpareInv
BY DEF Init, SpareInv

\* However long a client waits for its answer, shutdown ends only once that
\* client has hung up; and no query, abandoned or not, finds its handle closed
\* by shutdown.
THEOREM StopSparesClients == Spec => []StopSparesRequests
<1>1. TypeInv /\ StopInv /\ SpareInv => StopSparesRequests
  BY DEF StopInv, SpareInv, StopSparesRequests, Busy, TypeInv, TypeOK, ServerType
<1>2. Spec => []StopInv
  BY InitTypeInv, StepTypeInv, InitStopInv, StepStopInv, PTL DEF Spec
<1>3. Spec => []SpareInv
  BY AlwaysHandleInv, InitSpareInv, StepSpareInv, PTL DEF Spec
<1> QED
  BY <1>1, <1>2, <1>3, AlwaysTypeInv, PTL
-----------------------------------------------------------------------------
(* The idle poller.  Every step adds one request to those in progress and  *)
(* to inflight, takes one from both, or leaves both alone.                 *)

Joins(r)  == r \notin Busy /\ Busy' = Busy \cup {r} /\ inflight' = inflight + 1
Leaves(r) == r \in Busy /\ Busy' = Busy \ {r} /\ inflight' = inflight - 1
Same      == Busy' = Busy /\ inflight' = inflight

\* The `finally` of handleFrame runs once for each request that inflight
\* counted, on the answer and on every error path.
LEMMA StepBusy ==
  TypeInv /\ [Next]_vars => Same \/ \E r \in Reqs : Joins(r) \/ Leaves(r)
<1> SUFFICES ASSUME TypeInv, [Next]_vars PROVE Same \/ \E r \in Reqs : Joins(r) \/ Leaves(r)
  OBVIOUS
<1> USE DEF TypeInv, TypeOK, RequestType, ServerType
<1>1. ASSUME NEW r \in Reqs, NEW t \in {Request(r), Batch(r)}, LoadDone(t)
      PROVE  Same
  BY <1>1 DEF Same, Busy, LoadDone, dbVars, reqVars, srvVars
<1>2. ASSUME NEW r \in Reqs, ExtractNext(r)
      PROVE  Same
  BY <1>2 DEF Same, Busy, ExtractNext, dbVars, srvVars
<1>3. ASSUME NEW r \in Reqs, InsertRows(r)
      PROVE  Same \/ Leaves(r)
  BY <1>3, AfterIndexStage DEF Same, Leaves, Busy, InsertRows, Finish
<1>4. ASSUME NEW c \in Conns, NEW r \in Reqs, NEW k \in Kinds, AcceptControl(c, r, k)
      PROVE  Joins(r)
  BY <1>4 DEF Joins, Busy, AcceptControl, Accept, dbVars
<1>5. ASSUME NEW c \in Conns, NEW r \in Reqs, AcceptQuery(c, r)
      PROVE  Joins(r)
  BY <1>5 DEF Joins, Busy, AcceptQuery, Accept, dbVars
<1>6. ASSUME NEW c \in Conns, NEW r \in Reqs, AcceptFirstQuery(c, r)
      PROVE  Joins(r)
  BY <1>6 DEF Joins, Busy, AcceptFirstQuery, Accept, BeginIndex
<1>7. ASSUME NEW c \in Conns, NEW r \in Reqs, AcceptIndex(c, r)
      PROVE  Joins(r)
  BY <1>7 DEF Joins, Busy, AcceptIndex, Accept, BeginIndex
<1>8. ASSUME NEW c \in Conns, NEW r \in Reqs, AcceptRca(c, r)
      PROVE  Joins(r)
  BY <1>8 DEF Joins, Busy, AcceptRca, Accept, BeginIndex
<1>9. ASSUME NEW r \in Reqs, Answer(r)
      PROVE  Leaves(r)
  BY <1>9 DEF Leaves, Busy, Answer, Finish, dbVars
<1>10. ASSUME NEW r \in Reqs, Adopt(r)
      PROVE  Same
  BY <1>10 DEF Same, Busy, Adopt, srvVars
<1>11. ASSUME NEW r \in Reqs, Evaluate(r)
      PROVE  Leaves(r)
  BY <1>11 DEF Leaves, Busy, Evaluate, Finish, dbVars
<1>12. ASSUME NEW r \in Reqs, Swap(r)
      PROVE  Leaves(r)
  BY <1>12 DEF Leaves, Busy, Swap, Finish
<1>13. ASSUME NEW r \in Reqs, Analyse(r)
      PROVE  Leaves(r)
  BY <1>13 DEF Leaves, Busy, Analyse, Finish
<1>14. ASSUME NEW w \in Reqs, NEW f \in Files, Flush(w, f)
      PROVE  Same
  BY <1>14 DEF Same, Busy, Flush, reqVars, srvVars
<1>15. ASSUME NEW w \in Reqs, WriteBatch(w)
      PROVE  Same
  BY <1>15 DEF Same, Busy, WriteBatch, reqVars, srvVars
<1>16. ASSUME NEW c \in Conns, Connect(c) \/ Disconnect(c)
      PROVE  Same
  BY <1>16 DEF Same, Busy, Connect, Disconnect, queues, dbVars, reqVars
<1>17. ASSUME Signal \/ Tick
      PROVE  Same
  BY <1>17 DEF Same, Busy, Signal, Tick, queues, dbVars, reqVars
<1>18. ASSUME StopAsked \/ IdlePoll
      PROVE  Same
  BY <1>18 DEF Same, Busy, StopAsked, IdlePoll, BeginStop, queues, dbVars, reqVars
<1>19. ASSUME EndStop
      PROVE  Same
  BY <1>19 DEF Same, Busy, EndStop, queues, reqVars
<1>20. ASSUME UNCHANGED vars
      PROVE  Same
  BY <1>20 DEF Same, Busy, vars, queues, dbVars, reqVars, srvVars
<1> QED
  BY <1>1, <1>2, <1>3, <1>4, <1>5, <1>6, <1>7, <1>8, <1>9, <1>10, <1>11, <1>12, <1>13, <1>14, <1>15, <1>16, <1>17, <1>18, <1>19, <1>20
  DEF Next, Work, Resume, Stop, Dispatch

\* inflight is the number of requests in progress.
LEMMA AlwaysInflightExact == Spec => [](TypeInv /\ InflightExact)
<1>1. Init => InflightExact
  <2> SUFFICES ASSUME Init PROVE InflightExact
    OBVIOUS
  <2>1. Busy = {} /\ inflight = 0
    BY DEF Init, Busy
  <2> QED
    BY <2>1, FS_EmptySet DEF InflightExact
<1>2. TypeInv /\ InflightExact /\ [Next]_vars => InflightExact'
  <2> SUFFICES ASSUME TypeInv, InflightExact, [Next]_vars PROVE InflightExact'
    OBVIOUS
  <2>1. IsFiniteSet(Busy) /\ inflight \in Int
    BY RequestsAssumption, FS_Subset DEF Busy, TypeInv, TypeOK, ServerType
  <2>2. CASE Same
    BY <2>2 DEF Same, InflightExact
  <2>3. ASSUME NEW r \in Reqs, Joins(r) PROVE InflightExact'
    BY <2>1, <2>3, FS_AddElement DEF Joins, InflightExact
  <2>4. ASSUME NEW r \in Reqs, Leaves(r) PROVE InflightExact'
    BY <2>1, <2>4, FS_RemoveElement DEF Leaves, InflightExact
  <2> QED
    BY <2>2, <2>3, <2>4, StepBusy
<1> QED
  BY <1>1, <1>2, InitTypeInv, StepTypeInv, PTL DEF Spec

\* The idle poller never begins a shutdown while a request is in progress, for
\* any number of clients and whatever becomes of their requests.
THEOREM IdleIsIdle == Spec => IdleNeverInterrupts
<1>1. TypeInv /\ InflightExact /\ [Next]_vars =>
        (phase = "up" /\ phase' = "closing" /\ Busy # {} => asked)
  <2> SUFFICES ASSUME TypeInv, InflightExact, [Next]_vars,
                      phase = "up", phase' = "closing", Busy # {}
               PROVE  asked
    OBVIOUS
  <2>1. inflight # 0
    BY RequestsAssumption, FS_Subset, FS_EmptySet DEF Busy, InflightExact
  <2>2. StopAsked \/ IdlePoll \/ EndStop
    BY DEF Next, Work, Resume, Stop, Dispatch, vars, srvVars, LoadDone, ExtractNext, InsertRows,
           AcceptControl, AcceptQuery, AcceptFirstQuery, AcceptIndex, AcceptRca, Accept,
           Answer, Adopt, Evaluate, Swap, Analyse, Flush, WriteBatch, Connect, Disconnect,
           Signal, Tick
  <2> QED
    BY <2>1, <2>2 DEF StopAsked, IdlePoll, EndStop
<1> QED
  BY <1>1, AlwaysInflightExact, PTL DEF Spec, IdleNeverInterrupts
-----------------------------------------------------------------------------
(* Watching.  Only index unmaps a watcher, and only an index that fails    *)
(* ends without mapping one.                                               *)

WatchInv ==
  /\ \A r \in Reqs : kind[r] = "index" => stage[r] \in {"extract", "swap", "done"}
  /\ OnlyIndexUnwatches

\* An index continues with the swap.
LEMMA AfterIndexOfIndex ==
  ASSUME NEW r \in Reqs, kind[r] = "index"
  PROVE  AfterIndex(r) = "swap"
BY DEF AfterIndex

\* No step but an index's own leaves a served repository without a watcher.
LEMMA StepWatchInv == TypeInv /\ WatchInv /\ [Next]_vars => WatchInv'
<1> SUFFICES ASSUME TypeInv, WatchInv, [Next]_vars PROVE WatchInv'
  OBVIOUS
<1> USE DEF TypeInv, TypeOK, RequestType, ServerType, WatchInv, OnlyIndexUnwatches, Busy
<1>1. ASSUME NEW r \in Reqs, NEW t \in {Request(r), Batch(r)}, LoadDone(t)
      PROVE  WatchInv'
  BY <1>1, NamesAssumption DEF LoadDone, dbVars, reqVars, srvVars
<1>2. ASSUME NEW r \in Reqs, ExtractNext(r)
      PROVE  WatchInv'
  BY <1>2, NamesAssumption DEF ExtractNext, dbVars, srvVars
<1>3. ASSUME NEW r \in Reqs, InsertRows(r)
      PROVE  WatchInv'
  BY <1>3, NamesAssumption, AfterIndexOfIndex DEF InsertRows, Finish
<1>4. ASSUME NEW c \in Conns, NEW r \in Reqs, NEW k \in Kinds, AcceptControl(c, r, k)
      PROVE  WatchInv'
  BY <1>4, NamesAssumption DEF AcceptControl, Accept, dbVars
<1>5. ASSUME NEW c \in Conns, NEW r \in Reqs, AcceptQuery(c, r)
      PROVE  WatchInv'
  BY <1>5, NamesAssumption DEF AcceptQuery, Accept, dbVars
<1>6. ASSUME NEW c \in Conns, NEW r \in Reqs, AcceptFirstQuery(c, r)
      PROVE  WatchInv'
  BY <1>6, NamesAssumption DEF AcceptFirstQuery, Accept, BeginIndex
<1>7. ASSUME NEW c \in Conns, NEW r \in Reqs, AcceptIndex(c, r)
      PROVE  WatchInv'
  BY <1>7, NamesAssumption DEF AcceptIndex, Accept, BeginIndex
<1>8. ASSUME NEW c \in Conns, NEW r \in Reqs, AcceptRca(c, r)
      PROVE  WatchInv'
  BY <1>8, NamesAssumption DEF AcceptRca, Accept, BeginIndex
<1>9. ASSUME NEW r \in Reqs, Answer(r)
      PROVE  WatchInv'
  BY <1>9, NamesAssumption DEF Answer, Finish, dbVars
<1>10. ASSUME NEW r \in Reqs, Adopt(r)
      PROVE  WatchInv'
  BY <1>10, NamesAssumption DEF Adopt, srvVars
<1>11. ASSUME NEW r \in Reqs, Evaluate(r)
      PROVE  WatchInv'
  BY <1>11, NamesAssumption DEF Evaluate, Finish, dbVars
<1>12. ASSUME NEW r \in Reqs, Swap(r)
      PROVE  WatchInv'
  BY <1>12, NamesAssumption DEF Swap, Finish
<1>13. ASSUME NEW r \in Reqs, Analyse(r)
      PROVE  WatchInv'
  BY <1>13, NamesAssumption DEF Analyse, Finish
<1>14. ASSUME NEW w \in Reqs, NEW f \in Files, Flush(w, f)
      PROVE  WatchInv'
  BY <1>14, NamesAssumption DEF Flush, reqVars, srvVars
<1>15. ASSUME NEW w \in Reqs, WriteBatch(w)
      PROVE  WatchInv'
  BY <1>15, NamesAssumption DEF WriteBatch, reqVars, srvVars
<1>16. ASSUME NEW c \in Conns, Connect(c) \/ Disconnect(c)
      PROVE  WatchInv'
  BY <1>16, NamesAssumption DEF Connect, Disconnect, queues, dbVars, reqVars
<1>17. ASSUME Signal \/ Tick
      PROVE  WatchInv'
  BY <1>17, NamesAssumption DEF Signal, Tick, queues, dbVars, reqVars
<1>18. ASSUME StopAsked \/ IdlePoll
      PROVE  WatchInv'
  BY <1>18, NamesAssumption DEF StopAsked, IdlePoll, BeginStop, queues, dbVars, reqVars
<1>19. ASSUME EndStop
      PROVE  WatchInv'
  BY <1>19, NamesAssumption DEF EndStop, queues, reqVars
<1>20. ASSUME UNCHANGED vars
      PROVE  WatchInv'
  BY <1>20, NamesAssumption DEF vars, queues, dbVars, reqVars, srvVars
<1> QED
  BY <1>1, <1>2, <1>3, <1>4, <1>5, <1>6, <1>7, <1>8, <1>9, <1>10, <1>11, <1>12, <1>13, <1>14, <1>15, <1>16, <1>17, <1>18, <1>19, <1>20
  DEF Next, Work, Resume, Stop, Dispatch

\* A repository the daemon serves is watched unless an index is at work on it
\* or has failed, however requests, edits and shutdown interleave.
THEOREM ServedIsWatched == Spec => []OnlyIndexUnwatches
<1>1. Init => WatchInv
  BY NamesAssumption DEF Init, WatchInv, OnlyIndexUnwatches, AllKinds
<1>2. WatchInv => OnlyIndexUnwatches
  BY DEF WatchInv
<1> QED
  BY <1>1, <1>2, InitTypeInv, StepTypeInv, StepWatchInv, PTL DEF Spec
-----------------------------------------------------------------------------
(* Taking turns.  With one request in progress at a time, clients that wait *)
(* for their answers and no edits, each request finds the maps and the      *)
(* sqlite file as the one before it has left them.                          *)

TakeTurns == MaxBusy = 1 /\ ~Impatient /\ ~Edits

\* One request is in progress, and its client is connected.
TurnInv == /\ \A r, q \in Busy : r = q
           /\ \A r \in Busy : conn[on[r]] = "open"

\* Before a request is accepted none is in progress.
LEMMA BusyIsNone ==
  ASSUME TakeTurns, NEW c \in Conns, NEW r \in Reqs, NEW k, Accept(c, r, k)
  PROVE  \A q \in Reqs : stage[q] \in {"new", "done"}
<1>1. IsFiniteSet(Busy)
  BY RequestsAssumption, FS_Subset DEF Busy
<1>2. Cardinality(Busy) = 0
  BY <1>1, FS_CardinalityType DEF TakeTurns, Accept
<1>3. Busy = {}
  BY <1>1, <1>2, FS_EmptySet
<1> QED
  BY <1>3 DEF Busy

\* Only an answer lets the next request in.
LEMMA StepTurnInv == TakeTurns /\ TypeInv /\ StopInv /\ TurnInv /\ [Next]_vars => TurnInv'
<1> SUFFICES ASSUME TakeTurns, TypeInv, StopInv, TurnInv, [Next]_vars PROVE TurnInv'
  OBVIOUS
<1> USE DEF TypeInv, TypeOK, RequestType, ServerType, TurnInv, Busy
<1>1. ASSUME NEW r \in Reqs, NEW t \in {Request(r), Batch(r)}, LoadDone(t)
      PROVE  TurnInv'
  BY <1>1, AfterIndexStage DEF LoadDone, Macrotask, dbVars, reqVars, srvVars
<1>2. ASSUME NEW r \in Reqs, ExtractNext(r)
      PROVE  TurnInv'
  BY <1>2, AfterIndexStage DEF ExtractNext, dbVars, srvVars
<1>3. ASSUME NEW r \in Reqs, InsertRows(r)
      PROVE  TurnInv'
  <2>1. /\ \A q \in Reqs \ {r} : stage'[q] = stage[q]
        /\ r \in Busy /\ UNCHANGED <<on, conn>>
    BY <1>3 DEF InsertRows, Finish
  <2> QED
    BY <2>1
<1>4. ASSUME NEW c \in Conns, NEW r \in Reqs, NEW k \in Kinds, AcceptControl(c, r, k)
      PROVE  TurnInv'
  <2>1. \A q \in Reqs : stage[q] \in {"new", "done"}
    BY <1>4, BusyIsNone DEF AcceptControl
  <2> QED
    BY <1>4, <2>1 DEF AcceptControl, Accept, dbVars
<1>5. ASSUME NEW c \in Conns, NEW r \in Reqs, AcceptQuery(c, r)
      PROVE  TurnInv'
  <2>1. \A q \in Reqs : stage[q] \in {"new", "done"}
    BY <1>5, BusyIsNone DEF AcceptQuery
  <2> QED
    BY <1>5, <2>1 DEF AcceptQuery, Accept, dbVars
<1>6. ASSUME NEW c \in Conns, NEW r \in Reqs, AcceptFirstQuery(c, r)
      PROVE  TurnInv'
  <2>1. \A q \in Reqs : stage[q] \in {"new", "done"}
    BY <1>6, BusyIsNone DEF AcceptFirstQuery
  <2>2. /\ \A q \in Reqs \ {r} : stage'[q] = stage[q] /\ on'[q] = on[q]
        /\ on'[r] = c /\ conn[c] = "open" /\ conn' = conn
    BY <1>6 DEF AcceptFirstQuery, Accept, BeginIndex
  <2> QED
    BY <2>1, <2>2
<1>7. ASSUME NEW c \in Conns, NEW r \in Reqs, AcceptIndex(c, r)
      PROVE  TurnInv'
  <2>1. \A q \in Reqs : stage[q] \in {"new", "done"}
    BY <1>7, BusyIsNone DEF AcceptIndex
  <2> QED
    BY <1>7, <2>1 DEF AcceptIndex, Accept, BeginIndex
<1>8. ASSUME NEW c \in Conns, NEW r \in Reqs, AcceptRca(c, r)
      PROVE  TurnInv'
  <2>1. \A q \in Reqs : stage[q] \in {"new", "done"}
    BY <1>8, BusyIsNone DEF AcceptRca
  <2>2. /\ \A q \in Reqs \ {r} : stage'[q] = stage[q] /\ on'[q] = on[q]
        /\ on'[r] = c /\ conn[c] = "open" /\ conn' = conn
    BY <1>8 DEF AcceptRca, Accept, BeginIndex
  <2> QED
    BY <2>1, <2>2
<1>9. ASSUME NEW r \in Reqs, Answer(r)
      PROVE  TurnInv'
  BY <1>9, AfterIndexStage DEF Answer, Finish, dbVars
<1>10. ASSUME NEW r \in Reqs, Adopt(r)
      PROVE  TurnInv'
  BY <1>10, AfterIndexStage DEF Adopt, srvVars
<1>11. ASSUME NEW r \in Reqs, Evaluate(r)
      PROVE  TurnInv'
  BY <1>11, AfterIndexStage DEF Evaluate, Finish, dbVars
<1>12. ASSUME NEW r \in Reqs, Swap(r)
      PROVE  TurnInv'
  BY <1>12, AfterIndexStage DEF Swap, Finish
<1>13. ASSUME NEW r \in Reqs, Analyse(r)
      PROVE  TurnInv'
  BY <1>13, AfterIndexStage DEF Analyse, Finish
<1>14. ASSUME NEW w \in Reqs, NEW f \in Files, Flush(w, f)
      PROVE  TurnInv'
  BY <1>14, AfterIndexStage DEF Flush, reqVars, srvVars
<1>15. ASSUME NEW w \in Reqs, WriteBatch(w)
      PROVE  TurnInv'
  <2>1. UNCHANGED <<stage, on, conn>>
    BY <1>15 DEF WriteBatch, reqVars, srvVars
  <2> QED
    BY <2>1
<1>16. ASSUME NEW c \in Conns, Connect(c) \/ Disconnect(c)
      PROVE  TurnInv'
  <2>1. /\ UNCHANGED <<stage, on>> /\ \A r \in Busy : on[r] # c \/ conn'[c] = "open"
        /\ conn' \in [Conns -> {"none", "open", "gone"}] /\ \A d \in Conns \ {c} : conn'[d] = conn[d]
    BY <1>16 DEF Connect, Disconnect, TakeTurns, queues, dbVars, reqVars
  <2>2. \A r \in Busy' : r \in Busy
    BY <2>1
  <2>3. \A r \in Busy : on[r] \in Conns
    BY NamesAssumption DEF StopInv
  <2> QED
    BY <2>1, <2>2, <2>3
<1>17. ASSUME Signal \/ Tick
      PROVE  TurnInv'
  BY <1>17, AfterIndexStage DEF Signal, Tick, queues, dbVars, reqVars
<1>18. ASSUME StopAsked \/ IdlePoll
      PROVE  TurnInv'
  BY <1>18, AfterIndexStage DEF StopAsked, IdlePoll, BeginStop, queues, dbVars, reqVars
<1>19. ASSUME EndStop
      PROVE  TurnInv'
  BY <1>19, AfterIndexStage DEF EndStop, queues, reqVars
<1>20. ASSUME UNCHANGED vars
      PROVE  TurnInv'
  BY <1>20, AfterIndexStage DEF vars, queues, dbVars, reqVars, srvVars
<1> QED
  BY <1>1, <1>2, <1>3, <1>4, <1>5, <1>6, <1>7, <1>8, <1>9, <1>10, <1>11, <1>12, <1>13, <1>14, <1>15, <1>16, <1>17, <1>18, <1>19, <1>20
  DEF Next, Work, Resume, Stop, Dispatch

\* The maps own every open handle and every live watch but those of an index at
\* work; an index that is about to fill a map finds it empty, and the file too.
OwnInv ==
  /\ \A r \in Reqs : handle[r] = "open" => r = repo \/ stage[r] \in Indexing
  /\ live \subseteq {watcher}
  /\ \A r \in Reqs : stage[r] = "swap" \/ (stage[r] = "extract" /\ kind[r] = "index") => watcher = None
  /\ \A r \in Reqs : stage[r] = "adopt" \/ (stage[r] = "extract" /\ kind[r] = "query") => repo = None
  /\ \A r \in Reqs : stage[r] = "extract" => graph = {}
  /\ \A w \in Reqs : batch[w] = None
  /\ phase = "closed" => repo = None /\ watcher = None

\* No turn leaves a handle or a watch that nobody will close.
LEMMA StepOwnInv ==
  TakeTurns /\ TypeInv /\ StopInv /\ TurnInv /\ OwnInv /\ [Next]_vars => OwnInv'
<1> SUFFICES ASSUME TakeTurns, TypeInv, StopInv, TurnInv, OwnInv, [Next]_vars PROVE OwnInv'
  OBVIOUS
<1>0. phase = "closed" => Busy = {}
  BY DEF StopInv, TurnInv, Busy
<1> USE NamesAssumption
    DEF TypeInv, TypeOK, RequestType, ServerType, TurnInv, OwnInv, Busy, Indexing
<1>1. ASSUME NEW r \in Reqs, NEW t \in {Request(r), Batch(r)}, LoadDone(t)
      PROVE  OwnInv'
  BY <1>1, <1>0 DEF LoadDone, Macrotask, dbVars, reqVars, srvVars
<1>2. ASSUME NEW r \in Reqs, ExtractNext(r)
      PROVE  OwnInv'
  BY <1>2, <1>0 DEF ExtractNext, dbVars, srvVars
<1>3. ASSUME NEW r \in Reqs, InsertRows(r)
      PROVE  OwnInv'
  <2>1. AfterIndex(r) \in {"adopt", "swap", "analyse"}
        /\ (AfterIndex(r) = "adopt" <=> kind[r] = "query")
        /\ (AfterIndex(r) = "swap" <=> kind[r] = "index")
    BY DEF AfterIndex
  <2>2. graph \cap Target(r) = {}
    BY <1>3 DEF InsertRows
  <2> QED
    BY <1>0, <1>3, <2>1, <2>2 DEF InsertRows
<1>4. ASSUME NEW c \in Conns, NEW r \in Reqs, NEW k \in Kinds, AcceptControl(c, r, k)
      PROVE  OwnInv'
  <2>1. \A q \in Reqs : stage[q] \in {"new", "done"}
    BY <1>4, BusyIsNone DEF AcceptControl
  <2>2. phase # "closed"
    BY <1>4 DEF AcceptControl, Accept, dbVars, StopInv
  <2> QED
    BY <1>4, <2>1, <2>2 DEF AcceptControl, Accept, dbVars
<1>5. ASSUME NEW c \in Conns, NEW r \in Reqs, AcceptQuery(c, r)
      PROVE  OwnInv'
  <2>1. \A q \in Reqs : stage[q] \in {"new", "done"}
    BY <1>5, BusyIsNone DEF AcceptQuery
  <2>2. phase # "closed"
    BY <1>5 DEF AcceptQuery, Accept, dbVars, StopInv
  <2> QED
    BY <1>5, <2>1, <2>2 DEF AcceptQuery, Accept, dbVars
<1>6. ASSUME NEW c \in Conns, NEW r \in Reqs, AcceptFirstQuery(c, r)
      PROVE  OwnInv'
  <2>1. /\ \A q \in Reqs : stage[q] \in {"new", "done"}
        /\ phase # "closed"
    BY <1>6, BusyIsNone DEF AcceptFirstQuery, Accept, StopInv
  <2>2. /\ repo = None /\ kind'[r] = "query" /\ UNCHANGED <<repo, watcher, live, batch, phase>>
        /\ \A q \in Reqs \ {r} : stage'[q] = stage[q] /\ handle'[q] = handle[q]
    BY <1>6 DEF AcceptFirstQuery, Accept, BeginIndex
  <2>3. \/ stage'[r] = "adopt" \/ (stage'[r] = "extract" /\ graph' = {})
    BY <1>6 DEF AcceptFirstQuery, Accept, BeginIndex
  <2>4. \A q \in Reqs : stage[q] # "extract" /\ (handle[q] = "open" => q = repo)
    BY <2>1
  <2> QED
    BY <2>1, <2>2, <2>3, <2>4
<1>7. ASSUME NEW c \in Conns, NEW r \in Reqs, AcceptIndex(c, r)
      PROVE  OwnInv'
  <2>1. /\ \A q \in Reqs : stage[q] \in {"new", "done"}
        /\ phase # "closed"
    BY <1>7, BusyIsNone DEF AcceptIndex, Accept, StopInv
  <2>2. /\ watcher' = None /\ live' = live \ {watcher} /\ kind'[r] = "index" /\ UNCHANGED <<repo, batch, phase>>
        /\ \A q \in Reqs \ {r} : stage'[q] = stage[q] /\ handle'[q] = handle[q]
    BY <1>7 DEF AcceptIndex, Accept, BeginIndex
  <2>3. \/ stage'[r] = "swap" \/ (stage'[r] = "extract" /\ graph' = {})
    BY <1>7 DEF AcceptIndex, Accept, BeginIndex
  <2>4. \A q \in Reqs : stage[q] # "extract" /\ (handle[q] = "open" => q = repo)
    BY <2>1
  <2> QED
    BY <2>1, <2>2, <2>3, <2>4
<1>8. ASSUME NEW c \in Conns, NEW r \in Reqs, AcceptRca(c, r)
      PROVE  OwnInv'
  <2>1. /\ \A q \in Reqs : stage[q] \in {"new", "done"}
        /\ phase # "closed"
    BY <1>8, BusyIsNone DEF AcceptRca, Accept, StopInv
  <2>2. /\ kind'[r] = "rca" /\ UNCHANGED <<repo, watcher, live, batch, phase>>
        /\ \A q \in Reqs \ {r} : stage'[q] = stage[q] /\ handle'[q] = handle[q]
    BY <1>8 DEF AcceptRca, Accept, BeginIndex
  <2>3. \/ stage'[r] = "analyse" \/ (stage'[r] = "extract" /\ graph' = {}) \/ (stage'[r] = "answer" /\ handle' = handle)
    BY <1>8 DEF AcceptRca, Accept, BeginIndex
  <2>4. \A q \in Reqs : stage[q] # "extract" /\ (handle[q] = "open" => q = repo)
    BY <2>1
  <2> QED
    BY <2>1, <2>2, <2>3, <2>4
<1>9. ASSUME NEW r \in Reqs, Answer(r)
      PROVE  OwnInv'
  BY <1>9, <1>0 DEF Answer, Finish, dbVars
<1>10. ASSUME NEW r \in Reqs, Adopt(r)
      PROVE  OwnInv'
  BY <1>10, <1>0 DEF Adopt, srvVars
<1>11. ASSUME NEW r \in Reqs, Evaluate(r)
      PROVE  OwnInv'
  <2>1. /\ \A q \in Reqs \ {r} : stage'[q] = stage[q]
        /\ stage[r] = "eval" /\ stage'[r] = "done"
        /\ UNCHANGED <<kind, handle, repo, watcher, live, batch, graph, phase>>
    BY <1>11 DEF Evaluate, Finish, dbVars
  <2> QED
    BY <2>1
<1>12. ASSUME NEW r \in Reqs, Swap(r)
      PROVE  OwnInv'
  <2>1. /\ \A q \in Reqs \ {r} : stage'[q] = stage[q]
        /\ stage[r] = "swap" /\ stage'[r] = "done"
        /\ repo' = r /\ watcher' = r /\ live' = live \cup {r}
        /\ UNCHANGED <<kind, batch, graph, phase>>
    BY <1>12 DEF Swap, Finish
  <2>2. \A q \in Reqs : handle'[q] = "open" => q # repo /\ handle[q] = "open"
    BY <1>12 DEF Swap
  <2>3. live = {} /\ phase # "closed" /\ \A q \in Reqs \ {r} : stage[q] \in {"new", "done"}
    BY <1>0, <2>1
  <2> QED
    BY <2>1, <2>2, <2>3
<1>13. ASSUME NEW r \in Reqs, Analyse(r)
      PROVE  OwnInv'
  BY <1>13, <1>0 DEF Analyse, Finish
<1>14. ASSUME NEW w \in Reqs, NEW f \in Files, Flush(w, f)
      PROVE  OwnInv'
  BY <1>14, <1>0 DEF Flush, TakeTurns, reqVars, srvVars
<1>15. ASSUME NEW w \in Reqs, WriteBatch(w)
      PROVE  OwnInv'
  BY <1>15, <1>0 DEF WriteBatch, reqVars, srvVars
<1>16. ASSUME NEW c \in Conns, Connect(c) \/ Disconnect(c)
      PROVE  OwnInv'
  BY <1>16, <1>0 DEF Connect, Disconnect, queues, dbVars, reqVars
<1>17. ASSUME Signal \/ Tick
      PROVE  OwnInv'
  BY <1>17, <1>0 DEF Signal, Tick, queues, dbVars, reqVars
<1>18. ASSUME StopAsked \/ IdlePoll
      PROVE  OwnInv'
  BY <1>18, <1>0 DEF StopAsked, IdlePoll, BeginStop, queues, dbVars, reqVars
<1>19. ASSUME EndStop
      PROVE  OwnInv'
  BY <1>19, <1>0 DEF EndStop, queues, reqVars
<1>20. ASSUME UNCHANGED vars
      PROVE  OwnInv'
  BY <1>20, <1>0 DEF vars, queues, dbVars, reqVars, srvVars
<1> QED
  BY <1>1, <1>2, <1>3, <1>4, <1>5, <1>6, <1>7, <1>8, <1>9, <1>10, <1>11, <1>12, <1>13, <1>14, <1>15, <1>16, <1>17, <1>18, <1>19, <1>20
  DEF Next, Work, Resume, Stop, Dispatch

LEMMA InitOwnInv == Init => TurnInv /\ OwnInv
BY NamesAssumption DEF Init, TurnInv, OwnInv, Busy

LEMMA AlwaysOwnInv ==
  ASSUME TakeTurns
  PROVE  Spec => [](TypeInv /\ HandleInv /\ StopInv /\ TurnInv /\ OwnInv)
<1>1. Init => TypeInv /\ HandleInv /\ StopInv /\ TurnInv /\ OwnInv
  BY InitTypeInv, InitHandleInv, InitStopInv, InitOwnInv
<1>2. (TypeInv /\ HandleInv /\ StopInv /\ TurnInv /\ OwnInv) /\ [Next]_vars
        => (TypeInv /\ HandleInv /\ StopInv /\ TurnInv /\ OwnInv)'
  BY StepTypeInv, StepHandleInv, StepStopInv, StepTurnInv, StepOwnInv
<1> QED
  BY <1>1, <1>2, PTL DEF Spec

\* With clients that take turns and files that stay as they are, stop leaves no
\* handle open and no file watch behind, whatever was asked for before.
THEOREM StopLeavesNothing ==
  ASSUME TakeTurns
  PROVE  Spec => []StopClosesEverything
<1>1. TypeInv /\ OwnInv => StopClosesEverything
  BY NamesAssumption DEF TypeInv, TypeOK, ServerType, OwnInv, StopClosesEverything, Busy, Indexing
<1> QED
  BY <1>1, AlwaysOwnInv, PTL

\* Without rca every index is of the whole repository: what is about to be
\* mapped, what is mapped while no index is at work, and what a query was given
\* have all its rows.
WholeInv ==
  /\ \A r \in Reqs : stage[r] \in Indexing => kind[r] \in {"query", "index"}
  /\ \A r \in Reqs : stage[r] \in {"adopt", "swap"} => graph = Files
  /\ \A r \in Reqs : stage[r] # "analyse"
  /\ \A r \in Reqs : stage[r] = "eval" => repo # None /\ use[r] = repo
  /\ repo # None /\ (\A r \in Reqs : stage[r] # "extract") => graph = Files
  /\ ServedInTurn

\* No turn serves a part of the repository.
LEMMA StepWholeInv ==
  TakeTurns /\ "rca" \notin Kinds /\ TypeInv /\ HandleInv /\ StopInv /\ TurnInv /\ OwnInv
    /\ WholeInv /\ [Next]_vars => WholeInv'
<1> SUFFICES ASSUME TakeTurns, "rca" \notin Kinds,
                    TypeInv, HandleInv, StopInv, TurnInv, OwnInv, WholeInv, [Next]_vars
             PROVE  WholeInv'
  OBVIOUS
<1>b. \A r \in Busy : \A q \in Reqs \ {r} : stage[q] \in {"new", "done"}
  BY DEF TurnInv, Busy
<1>c. \A w \in Reqs : batch[w] = None
  BY DEF OwnInv
<1> USE NamesAssumption
    DEF TypeInv, TypeOK, RequestType, ServerType, WholeInv, ServedInTurn, Busy, Indexing
<1>1. ASSUME NEW r \in Reqs, NEW t \in {Request(r), Batch(r)}, LoadDone(t)
      PROVE  WholeInv'
  BY <1>1, <1>b DEF LoadDone, Macrotask, dbVars, reqVars, srvVars
<1>2. ASSUME NEW r \in Reqs, ExtractNext(r)
      PROVE  WholeInv'
  BY <1>2, <1>b DEF ExtractNext, dbVars, srvVars
<1>3. ASSUME NEW r \in Reqs, InsertRows(r)
      PROVE  WholeInv'
  <2>1. r \in Busy /\ graph = {} /\ kind[r] \in {"query", "index"}
    BY <1>3 DEF InsertRows, OwnInv
  <2>2. Target(r) = Files /\ AfterIndex(r) \in {"adopt", "swap"}
    BY <2>1 DEF Target, AfterIndex
  <2>3. /\ \A q \in Reqs \ {r} : stage'[q] = stage[q]
        /\ stage'[r] \in {"adopt", "swap"} /\ graph' = Files
        /\ UNCHANGED <<kind, use, repo, outcome>>
    BY <1>3, <2>1, <2>2 DEF InsertRows
  <2> QED
    BY <1>b, <2>1, <2>3
<1>4. ASSUME NEW c \in Conns, NEW r \in Reqs, NEW k \in Kinds, AcceptControl(c, r, k)
      PROVE  WholeInv'
  <2>1. \A q \in Reqs : stage[q] \in {"new", "done"}
    BY <1>4, BusyIsNone DEF AcceptControl
  <2>2. /\ stage'[r] = "answer" /\ UNCHANGED <<graph, repo, use, outcome>>
        /\ \A q \in Reqs \ {r} : stage'[q] = stage[q] /\ kind'[q] = kind[q]
    BY <1>4 DEF AcceptControl, Accept, dbVars
  <2> QED
    BY <2>1, <2>2
<1>5. ASSUME NEW c \in Conns, NEW r \in Reqs, AcceptQuery(c, r)
      PROVE  WholeInv'
  <2>1. \A q \in Reqs : stage[q] \in {"new", "done"}
    BY <1>5, BusyIsNone DEF AcceptQuery
  <2>2. /\ stage'[r] = "eval" /\ repo # None /\ use'[r] = repo /\ UNCHANGED <<graph, repo, outcome>>
        /\ \A q \in Reqs \ {r} : stage'[q] = stage[q] /\ kind'[q] = kind[q]
    BY <1>5 DEF AcceptQuery, Accept, dbVars
  <2> QED
    BY <2>1, <2>2
<1>6. ASSUME NEW c \in Conns, NEW r \in Reqs, AcceptFirstQuery(c, r)
      PROVE  WholeInv'
  <2>1. \A q \in Reqs : stage[q] \in {"new", "done"}
    BY <1>6, BusyIsNone DEF AcceptFirstQuery
  <2>2. /\ repo = None /\ kind'[r] = "query" /\ UNCHANGED <<repo, use, outcome>>
        /\ \A q \in Reqs \ {r} : stage'[q] = stage[q] /\ kind'[q] = kind[q]
    BY <1>6 DEF AcceptFirstQuery, Accept, BeginIndex
  <2>3. (stage'[r] = "adopt" /\ graph' = Files) \/ stage'[r] = "extract"
    BY <1>6 DEF AcceptFirstQuery, Accept, BeginIndex
  <2> QED
    BY <2>1, <2>2, <2>3
<1>7. ASSUME NEW c \in Conns, NEW r \in Reqs, AcceptIndex(c, r)
      PROVE  WholeInv'
  <2>1. \A q \in Reqs : stage[q] \in {"new", "done"}
    BY <1>7, BusyIsNone DEF AcceptIndex
  <2>2. /\ kind'[r] = "index" /\ UNCHANGED <<repo, use, outcome>>
        /\ \A q \in Reqs \ {r} : stage'[q] = stage[q] /\ kind'[q] = kind[q]
    BY <1>7 DEF AcceptIndex, Accept, BeginIndex
  <2>3. (stage'[r] = "swap" /\ graph' = Files) \/ stage'[r] = "extract"
    BY <1>7 DEF AcceptIndex, Accept, BeginIndex
  <2> QED
    BY <2>1, <2>2, <2>3
<1>8. ASSUME NEW c \in Conns, NEW r \in Reqs, AcceptRca(c, r)
      PROVE  WholeInv'
  BY <1>8 DEF AcceptRca, Accept
<1>9. ASSUME NEW r \in Reqs, Answer(r)
      PROVE  WholeInv'
  BY <1>9, <1>b DEF Answer, Finish, dbVars
<1>10. ASSUME NEW r \in Reqs, Adopt(r)
      PROVE  WholeInv'
  <2>1. /\ stage[r] = "adopt" /\ stage'[r] = "eval" /\ repo' = r /\ use'[r] = r
        /\ \A q \in Reqs \ {r} : stage'[q] = stage[q] /\ use'[q] = use[q]
        /\ UNCHANGED <<kind, graph, outcome>>
    BY <1>10 DEF Adopt, srvVars
  <2> QED
    BY <1>b, <2>1
<1>11. ASSUME NEW r \in Reqs, Evaluate(r)
      PROVE  WholeInv'
  <2>1. /\ stage[r] = "eval" /\ stage'[r] = "done"
        /\ \A q \in Reqs \ {r} : stage'[q] = stage[q] /\ outcome'[q] = outcome[q]
        /\ UNCHANGED <<kind, graph, use, repo>>
    BY <1>11 DEF Evaluate, Finish, dbVars
  <2>2. graph = Files /\ handle[use[r]] = "open"
    BY <1>b, <2>1 DEF HandleInv
  <2>3. outcome'[r] = "ok"
    BY <1>11, <2>2 DEF Evaluate, Finish
  <2> QED
    BY <1>b, <2>1, <2>3
<1>12. ASSUME NEW r \in Reqs, Swap(r)
      PROVE  WholeInv'
  <2>1. /\ stage[r] = "swap" /\ stage'[r] = "done" /\ outcome'[r] = "ok" /\ repo' = r
        /\ \A q \in Reqs \ {r} : stage'[q] = stage[q] /\ outcome'[q] = outcome[q]
        /\ UNCHANGED <<kind, graph, use>>
    BY <1>12 DEF Swap, Finish
  <2> QED
    BY <1>b, <2>1
<1>13. ASSUME NEW r \in Reqs, Analyse(r)
      PROVE  WholeInv'
  BY <1>13 DEF Analyse
<1>14. ASSUME NEW w \in Reqs, NEW f \in Files, Flush(w, f)
      PROVE  WholeInv'
  BY <1>14 DEF Flush, TakeTurns
<1>15. ASSUME NEW w \in Reqs, WriteBatch(w)
      PROVE  WholeInv'
  BY <1>15, <1>c DEF WriteBatch
<1>16. ASSUME NEW c \in Conns, Connect(c) \/ Disconnect(c)
      PROVE  WholeInv'
  BY <1>16, <1>b DEF Connect, Disconnect, queues, dbVars, reqVars
<1>17. ASSUME Signal \/ Tick
      PROVE  WholeInv'
  BY <1>17, <1>b DEF Signal, Tick, queues, dbVars, reqVars
<1>18. ASSUME StopAsked \/ IdlePoll
      PROVE  WholeInv'
  BY <1>18, <1>b DEF StopAsked, IdlePoll, BeginStop, queues, dbVars, reqVars
<1>19. ASSUME EndStop
      PROVE  WholeInv'
  <2>1. repo' = None /\ UNCHANGED <<stage, kind, graph, use, outcome>>
    BY <1>19 DEF EndStop, reqVars
  <2>2. \A r \in Reqs : stage[r] # "eval"
    BY <1>19 DEF EndStop, TurnInv, StopInv
  <2> QED
    BY <2>1, <2>2
<1>20. ASSUME UNCHANGED vars
      PROVE  WholeInv'
  BY <1>20, <1>b DEF vars, queues, dbVars, reqVars, srvVars
<1> QED
  BY <1>1, <1>2, <1>3, <1>4, <1>5, <1>6, <1>7, <1>8, <1>9, <1>10, <1>11, <1>12, <1>13, <1>14, <1>15, <1>16, <1>17, <1>18, <1>19, <1>20
  DEF Next, Work, Resume, Stop, Dispatch

\* Clients that take turns and ask for no rca are answered, each from the whole
\* repository, for any number of requests, connections and files and whatever
\* re-indexings, idle shutdowns and signals lie between them.
THEOREM TurnsAreServed ==
  ASSUME TakeTurns, "rca" \notin Kinds
  PROVE  Spec => []ServedInTurn
<1> DEFINE Inv == TypeInv /\ HandleInv /\ StopInv /\ TurnInv /\ OwnInv
<1>1. Init => WholeInv
  BY NamesAssumption DEF Init, WholeInv, ServedInTurn, Indexing
<1>2. Inv /\ WholeInv /\ [Next]_vars => WholeInv'
  BY StepWholeInv
<1>3. Spec => []Inv
  BY AlwaysOwnInv
<1>4. WholeInv => ServedInTurn
  BY DEF WholeInv
<1> HIDE DEF Inv
<1> QED
  BY <1>1, <1>2, <1>3, <1>4, PTL DEF Spec
=============================================================================
