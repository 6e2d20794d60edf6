-------------------------- MODULE DaemonLockProofs --------------------------
(***************************************************************************)
(* The lock of cgrcad for any set of processes.  Without an assumption:    *)
(* type correctness, and that a daemon that stopped by itself leaves none  *)
(* of its files behind.  When starts are serialised: mutual exclusion,     *)
(* reachability of the running daemon, refusal only for a live daemon, and *)
(* the refinement of SingleDaemon.                                         *)
(***************************************************************************)
EXTENDS DaemonLock, TLAPS

\* A process inside acquireLock's loop has an attempt left: without this,
\* the counter's bound in TypeOK is not inductive.
AttemptLeft ==
  \A p \in Procs : pc[p] \in Acquiring \cup {"unborn"} => attempt[p] < MaxAttempts

TypeInv == TypeOK /\ AttemptLeft

LEMMA InitTypeInv == Init => TypeInv
<1> SUFFICES ASSUME Init PROVE TypeInv
  OBVIOUS
<1>1. pc \in [Procs -> Labels]
  BY DEF Init, Labels
<1>2. seen \in [Procs -> Procs \cup {None}]
  BY DEF Init
<1>3. attempt \in [Procs -> 0..MaxAttempts]
  BY DEF Init, MaxAttempts
<1>4. AttemptLeft
  BY DEF Init, AttemptLeft, MaxAttempts
<1> QED
  BY <1>1, <1>2, <1>3, <1>4 DEF Init, TypeInv, TypeOK

LEMMA StepTypeInv == TypeInv /\ [Next]_vars => TypeInv'
<1> SUFFICES ASSUME TypeInv, [Next]_vars PROVE TypeInv'
  OBVIOUS
<1> USE ProcsAssumption
    DEF TypeInv, TypeOK, AttemptLeft, Labels, Acquiring, Serving, Ended,
        MaxAttempts, Goto
<1>1. ASSUME NEW p \in Procs, Start(p) PROVE TypeInv'
  BY <1>1 DEF Start
<1>2. ASSUME NEW p \in Procs, OpenExclusive(p) PROVE TypeInv'
  BY <1>2 DEF OpenExclusive
<1>3. ASSUME NEW p \in Procs, WritePid(p) PROVE TypeInv'
  BY <1>3 DEF WritePid
<1>4. ASSUME NEW p \in Procs, ReadLock(p) PROVE TypeInv'
  BY <1>4 DEF ReadLock
<1>5. ASSUME NEW p \in Procs, ProbePid(p) PROVE TypeInv'
  BY <1>5 DEF ProbePid
<1>6. ASSUME NEW p \in Procs, Reclaim(p) PROVE TypeInv'
  <2>1. attempt[p] \in 0..1 /\ attempt[p] + 1 \in 0..2
    BY <1>6 DEF Reclaim
  <2>2. TypeOK'
    BY <1>6, <2>1 DEF Reclaim
  <2>3. AttemptLeft'
    BY <1>6, <2>1 DEF Reclaim
  <2> QED BY <2>2, <2>3
<1>7. ASSUME NEW p \in Procs, ClearSocket(p) PROVE TypeInv'
  BY <1>7 DEF ClearSocket
<1>8. ASSUME NEW p \in Procs, Listen(p) PROVE TypeInv'
  BY <1>8 DEF Listen
<1>9. ASSUME NEW p \in Procs, StopListening(p) PROVE TypeInv'
  BY <1>9 DEF StopListening
<1>10. ASSUME NEW p \in Procs, Drained(p) PROVE TypeInv'
  BY <1>10 DEF Drained
<1>11. ASSUME NEW p \in Procs, RemoveSocket(p) PROVE TypeInv'
  BY <1>11 DEF RemoveSocket
<1>12. ASSUME NEW p \in Procs, ReleaseLock(p) PROVE TypeInv'
  BY <1>12 DEF ReleaseLock
<1>13. ASSUME NEW p \in Procs, Crash(p) PROVE TypeInv'
  BY <1>13 DEF Crash
<1>14. ASSUME NEW p \in Procs, ReusePid(p) PROVE TypeInv'
  BY <1>14 DEF ReusePid
<1>15. CASE UNCHANGED vars
  BY <1>15 DEF vars
<1> QED
  BY <1>1, <1>2, <1>3, <1>4, <1>5, <1>6, <1>7, <1>8, <1>9, <1>10, <1>11,
     <1>12, <1>13, <1>14, <1>15 DEF Next, Step

\* TypeOK of DaemonLock: every variable stays in its set, and acquireLock's
\* loop makes at most MaxAttempts attempts, however many processes start.
THEOREM TypeCorrect == Spec => []TypeOK
<1>1. TypeInv => TypeOK
  BY DEF TypeInv
<1> QED
  BY <1>1, InitTypeInv, StepTypeInv, PTL DEF Spec
-----------------------------------------------------------------------------
\* Who can still have a file of its own at the two paths.  Nobody but p ever
\* puts p's lockfile or p's socket there, and p does it before it serves.
FileOwners ==
  \A p \in Procs :
    /\ lockFile = p => pc[p] \in Serving \cup {"write", "failed", "dead"}
    /\ sock = p => pc[p] \in {"running", "dead"}

LEMMA StepFileOwners == TypeOK /\ FileOwners /\ [Next]_vars => FileOwners'
<1> SUFFICES ASSUME TypeOK, FileOwners, [Next]_vars PROVE FileOwners'
  OBVIOUS
<1> USE ProcsAssumption DEF TypeOK, FileOwners, Acquiring, Serving, Ended, Goto
<1>1. ASSUME NEW p \in Procs, Start(p) PROVE FileOwners'
  BY <1>1 DEF Start
<1>2. ASSUME NEW p \in Procs, OpenExclusive(p) PROVE FileOwners'
  BY <1>2 DEF OpenExclusive
<1>3. ASSUME NEW p \in Procs, WritePid(p) PROVE FileOwners'
  BY <1>3 DEF WritePid
<1>4. ASSUME NEW p \in Procs, ReadLock(p) PROVE FileOwners'
  BY <1>4 DEF ReadLock
<1>5. ASSUME NEW p \in Procs, ProbePid(p) PROVE FileOwners'
  BY <1>5 DEF ProbePid
<1>6. ASSUME NEW p \in Procs, Reclaim(p) PROVE FileOwners'
  BY <1>6 DEF Reclaim
<1>7. ASSUME NEW p \in Procs, ClearSocket(p) PROVE FileOwners'
  BY <1>7 DEF ClearSocket
<1>8. ASSUME NEW p \in Procs, Listen(p) PROVE FileOwners'
  BY <1>8 DEF Listen
<1>9. ASSUME NEW p \in Procs, StopListening(p) PROVE FileOwners'
  BY <1>9 DEF StopListening
<1>10. ASSUME NEW p \in Procs, Drained(p) PROVE FileOwners'
  BY <1>10 DEF Drained
<1>11. ASSUME NEW p \in Procs, RemoveSocket(p) PROVE FileOwners'
  BY <1>11 DEF RemoveSocket
<1>12. ASSUME NEW p \in Procs, ReleaseLock(p) PROVE FileOwners'
  BY <1>12 DEF ReleaseLock
<1>13. ASSUME NEW p \in Procs, Crash(p) PROVE FileOwners'
  BY <1>13 DEF Crash
<1>14. ASSUME NEW p \in Procs, ReusePid(p) PROVE FileOwners'
  BY <1>14 DEF ReusePid
<1>15. CASE UNCHANGED vars
  BY <1>15 DEF vars
<1> QED
  BY <1>1, <1>2, <1>3, <1>4, <1>5, <1>6, <1>7, <1>8, <1>9, <1>10, <1>11,
     <1>12, <1>13, <1>14, <1>15 DEF Next, Step

\* However starts, stops, crashes and pid reuse interleave, a daemon whose
\* stop() has run to its end, and one that was refused, own neither the
\* lockfile nor the socket file.
THEOREM NothingLeft == Spec => []CleanStopLeavesNothing
<1>1. Init => FileOwners
  BY ProcsAssumption DEF Init, FileOwners
<1>2. FileOwners => CleanStopLeavesNothing
  BY DEF FileOwners, CleanStopLeavesNothing, Serving
<1> QED
  BY <1>1, <1>2, StepFileOwners, TypeCorrect, PTL DEF Spec
-----------------------------------------------------------------------------
(***************************************************************************)
(* Serialised starts.  The argument: the lockfile always names its holder, *)
(* with its pid written except during the window between creation and      *)
(* write, and the only process that could then look at it is the holder.   *)
(* A starter that has come as far as "unlink" has therefore seen that      *)
(* there is no holder, and none can appear behind its back.                *)
(***************************************************************************)
OneStarter ==
  \A p, q \in Procs : pc[p] \in Acquiring /\ pc[q] \in Acquiring => p = q

HolderOnFile ==
  \A p \in Procs : Holds(p) => lockFile = p /\ (pc[p] # "write" => lockText)

StarterKnows ==
  \A p, q \in Procs :
    Holds(q) => /\ pc[p] # "unlink"
                /\ pc[p] = "probe" => seen[p] = q

LockInv == OneStarter /\ HolderOnFile /\ StarterKnows

LEMMA LockInvExcludes == LockInv => MutualExclusion
BY DEF LockInv, HolderOnFile, MutualExclusion

LEMMA StepLockInv ==
  ASSUME SerialStarts
  PROVE  TypeOK /\ LockInv /\ [Next]_vars => LockInv'
<1> SUFFICES ASSUME TypeOK, LockInv, [Next]_vars PROVE LockInv'
  OBVIOUS
<1> USE SerialStarts, ProcsAssumption
    DEF TypeOK, LockInv, OneStarter, HolderOnFile, StarterKnows, Holds,
        Acquiring, Serving, Ended, Goto
<1>1. ASSUME NEW p \in Procs, Start(p) PROVE LockInv'
  BY <1>1 DEF Start
<1>2. ASSUME NEW p \in Procs, OpenExclusive(p) PROVE LockInv'
  BY <1>2 DEF OpenExclusive
<1>3. ASSUME NEW p \in Procs, WritePid(p) PROVE LockInv'
  BY <1>3 DEF WritePid
<1>4. ASSUME NEW p \in Procs, ReadLock(p) PROVE LockInv'
  BY <1>4 DEF ReadLock
<1>5. ASSUME NEW p \in Procs, ProbePid(p) PROVE LockInv'
  BY <1>5 DEF ProbePid, Alive
<1>6. ASSUME NEW p \in Procs, Reclaim(p) PROVE LockInv'
  BY <1>6 DEF Reclaim
<1>7. ASSUME NEW p \in Procs, ClearSocket(p) PROVE LockInv'
  BY <1>7 DEF ClearSocket
<1>8. ASSUME NEW p \in Procs, Listen(p) PROVE LockInv'
  BY <1>8 DEF Listen
<1>9. ASSUME NEW p \in Procs, StopListening(p) PROVE LockInv'
  BY <1>9 DEF StopListening
<1>10. ASSUME NEW p \in Procs, Drained(p) PROVE LockInv'
  BY <1>10 DEF Drained
<1>11. ASSUME NEW p \in Procs, RemoveSocket(p) PROVE LockInv'
  BY <1>11 DEF RemoveSocket
<1>12. ASSUME NEW p \in Procs, ReleaseLock(p) PROVE LockInv'
  BY <1>12 DEF ReleaseLock
<1>13. ASSUME NEW p \in Procs, Crash(p) PROVE LockInv'
  BY <1>13 DEF Crash
<1>14. ASSUME NEW p \in Procs, ReusePid(p) PROVE LockInv'
  BY <1>14 DEF ReusePid
<1>15. CASE UNCHANGED vars
  BY <1>15 DEF vars
<1> QED
  BY <1>1, <1>2, <1>3, <1>4, <1>5, <1>6, <1>7, <1>8, <1>9, <1>10, <1>11,
     <1>12, <1>13, <1>14, <1>15 DEF Next, Step

LEMMA InitLockInv == Init => LockInv
BY DEF Init, LockInv, OneStarter, HolderOnFile, StarterKnows, Holds,
       Acquiring, Serving

LEMMA AlwaysLockInv ==
  ASSUME SerialStarts
  PROVE  Spec => []LockInv
BY SerialStarts, InitLockInv, StepLockInv, TypeCorrect, PTL DEF Spec

\* When no two daemons are started at the same time, at most one process
\* holds the lock, whatever crashes, stops and pid reuse happen around it.
THEOREM OneDaemon ==
  ASSUME SerialStarts
  PROVE  Spec => []MutualExclusion
BY SerialStarts, AlwaysLockInv, LockInvExcludes, PTL

\* The running daemon keeps SOCKET_PATH: only a holder of the lock changes the
\* socket file, so with one holder nobody takes the path away from it.
THEOREM OneDaemonReachable ==
  ASSUME SerialStarts
  PROVE  Spec => []RunningIsReachable
<1>1. Init => RunningIsReachable
  BY DEF Init, RunningIsReachable
<1>2. TypeOK /\ MutualExclusion /\ RunningIsReachable /\ [Next]_vars
        => RunningIsReachable'
  <2> SUFFICES ASSUME TypeOK, MutualExclusion, RunningIsReachable, [Next]_vars
               PROVE  RunningIsReachable'
    OBVIOUS
  <2> USE DEF TypeOK, MutualExclusion, RunningIsReachable, Holds, Serving, Goto
  <2>1. ASSUME NEW p \in Procs, ClearSocket(p) PROVE RunningIsReachable'
    BY <2>1 DEF ClearSocket
  <2>2. ASSUME NEW p \in Procs, Listen(p) PROVE RunningIsReachable'
    BY <2>2 DEF Listen
  <2>3. ASSUME NEW p \in Procs, StopListening(p) PROVE RunningIsReachable'
    BY <2>3 DEF StopListening
  <2>4. ASSUME NEW p \in Procs, RemoveSocket(p) PROVE RunningIsReachable'
    BY <2>4 DEF RemoveSocket
  <2>5. ASSUME NEW p \in Procs,
               \/ Start(p) \/ OpenExclusive(p) \/ WritePid(p) \/ ReadLock(p)
               \/ ProbePid(p) \/ Reclaim(p) \/ Drained(p) \/ ReleaseLock(p)
               \/ Crash(p) \/ ReusePid(p)
        PROVE  RunningIsReachable'
    BY <2>5 DEF Start, OpenExclusive, WritePid, ReadLock, ProbePid, Reclaim,
                Drained, ReleaseLock, Crash, ReusePid
  <2>6. CASE UNCHANGED vars
    BY <2>6 DEF vars
  <2> QED
    BY <2>1, <2>2, <2>3, <2>4, <2>5, <2>6 DEF Next, Step
<1> QED
  BY SerialStarts, <1>1, <1>2, TypeCorrect, OneDaemon, PTL DEF Spec

\* What a starter knows on its way to a refusal: its first attempt is the only
\* one that can find a lockfile, and the pid it read there is not its own.
RefusalInv ==
  \A p \in Procs :
    /\ pc[p] \in {"unborn", "read", "probe", "unlink"} => attempt[p] = 0
    /\ pc[p] = "open" /\ attempt[p] # 0 => lockFile = None
    /\ pc[p] = "probe" => seen[p] \in Procs \ {p}

LEMMA StepRefusalInv ==
  ASSUME SerialStarts
  PROVE  TypeOK /\ FileOwners /\ LockInv /\ RefusalInv /\ [Next]_vars => RefusalInv'
<1> SUFFICES ASSUME TypeOK, FileOwners, OneStarter, RefusalInv, [Next]_vars
             PROVE  RefusalInv'
  BY DEF LockInv
<1> USE SerialStarts, ProcsAssumption
    DEF TypeOK, OneStarter, RefusalInv, Acquiring, Goto
<1>1. ASSUME NEW p \in Procs, Start(p) PROVE RefusalInv'
  BY <1>1 DEF Start
<1>2. ASSUME NEW p \in Procs, OpenExclusive(p) PROVE RefusalInv'
  BY <1>2 DEF OpenExclusive
<1>3. ASSUME NEW p \in Procs, WritePid(p) PROVE RefusalInv'
  BY <1>3 DEF WritePid
<1>4. ASSUME NEW p \in Procs, ReadLock(p) PROVE RefusalInv'
  BY <1>4 DEF ReadLock, FileOwners, Serving
<1>5. ASSUME NEW p \in Procs, ProbePid(p) PROVE RefusalInv'
  BY <1>5 DEF ProbePid
<1>6. ASSUME NEW p \in Procs, Reclaim(p) PROVE RefusalInv'
  BY <1>6 DEF Reclaim
<1>7. ASSUME NEW p \in Procs, ClearSocket(p) PROVE RefusalInv'
  BY <1>7 DEF ClearSocket
<1>8. ASSUME NEW p \in Procs, Listen(p) PROVE RefusalInv'
  BY <1>8 DEF Listen
<1>9. ASSUME NEW p \in Procs, StopListening(p) PROVE RefusalInv'
  BY <1>9 DEF StopListening
<1>10. ASSUME NEW p \in Procs, Drained(p) PROVE RefusalInv'
  BY <1>10 DEF Drained
<1>11. ASSUME NEW p \in Procs, RemoveSocket(p) PROVE RefusalInv'
  BY <1>11 DEF RemoveSocket
<1>12. ASSUME NEW p \in Procs, ReleaseLock(p) PROVE RefusalInv'
  BY <1>12 DEF ReleaseLock
<1>13. ASSUME NEW p \in Procs, Crash(p) PROVE RefusalInv'
  BY <1>13 DEF Crash
<1>14. ASSUME NEW p \in Procs, ReusePid(p) PROVE RefusalInv'
  BY <1>14 DEF ReusePid
<1>15. CASE UNCHANGED vars
  BY <1>15 DEF vars
<1> QED
  BY <1>1, <1>2, <1>3, <1>4, <1>5, <1>6, <1>7, <1>8, <1>9, <1>10, <1>11,
     <1>12, <1>13, <1>14, <1>15 DEF Next, Step

\* A start is refused only while another process holds the lock, or a stranger
\* carries a dead daemon's pid (kill(pid, 0) cannot tell them apart).
THEOREM RefusalIsJustified ==
  ASSUME SerialStarts
  PROVE  Spec => RefusedOnlyForLive
<1> DEFINE Justified ==
      \A p \in Procs : pc[p] # "refused" /\ pc'[p] = "refused"
        => \E q \in Procs \ {p} : Holds(q) \/ q \in reused
<1>1. Init => RefusalInv
  BY DEF Init, RefusalInv
<1>2. TypeOK /\ OneStarter /\ RefusalInv /\ [Next]_vars => [Justified]_vars
  <2> SUFFICES ASSUME TypeOK, OneStarter, RefusalInv, [Next]_vars,
                      NEW p \in Procs, pc[p] # "refused", pc'[p] = "refused"
               PROVE  \E q \in Procs \ {p} : Holds(q) \/ q \in reused
    OBVIOUS
  <2> USE DEF TypeOK, Goto
  <2>1. ProbePid(p) \/ Reclaim(p)
    <3>1. ASSUME NEW q \in Procs,
                 \/ Start(q) \/ OpenExclusive(q) \/ WritePid(q) \/ ReadLock(q)
                 \/ ClearSocket(q) \/ Listen(q) \/ StopListening(q) \/ Drained(q)
                 \/ RemoveSocket(q) \/ ReleaseLock(q) \/ Crash(q) \/ ReusePid(q)
          PROVE  FALSE
      BY <3>1 DEF Start, OpenExclusive, WritePid, ReadLock, ClearSocket, Listen,
                  StopListening, Drained, RemoveSocket, ReleaseLock, Crash, ReusePid
    <3>2. ASSUME NEW q \in Procs, ProbePid(q) \/ Reclaim(q) PROVE q = p
      BY <3>2 DEF ProbePid, Reclaim
    <3>3. ~UNCHANGED vars
      BY DEF vars
    <3> QED
      BY <3>1, <3>2, <3>3 DEF Next, Step
  <2>2. CASE Reclaim(p)
    \* A reclaimer is on its first attempt, and goes on to its second.
    BY <2>2 DEF Reclaim, RefusalInv, MaxAttempts
  <2>3. CASE ProbePid(p)
    <3>1. Alive(seen[p]) /\ seen[p] \in Procs \ {p}
      BY <2>3 DEF ProbePid, RefusalInv
    <3>2. pc[seen[p]] \in Serving \/ seen[p] \in reused
      <4>1. pc[p] = "probe"
        BY <2>3 DEF ProbePid
      <4>2. pc[seen[p]] \notin Acquiring
        BY <3>1, <4>1 DEF OneStarter, Acquiring
      <4> QED
        BY <3>1, <4>2 DEF Alive
    <3> QED
      BY <3>1, <3>2 DEF Holds
  <2> QED
    BY <2>1, <2>2, <2>3
<1>3. Spec => []FileOwners
  <2>1. Init => FileOwners
    BY ProcsAssumption DEF Init, FileOwners
  <2> QED
    BY <2>1, StepFileOwners, TypeCorrect, PTL DEF Spec
<1>4. Spec => []RefusalInv
  BY SerialStarts, <1>1, <1>3, StepRefusalInv, AlwaysLockInv,
     TypeCorrect, PTL DEF Spec
<1>5. LockInv => OneStarter
  BY DEF LockInv
<1> QED
  BY SerialStarts, <1>2, <1>4, <1>5, AlwaysLockInv, TypeCorrect, PTL
     DEF Spec, RefusedOnlyForLive
-----------------------------------------------------------------------------
\* Owner, the refinement mapping, is the holder of the lock.
LEMMA OwnerOfHolder ==
  ASSUME MutualExclusion
  PROVE  /\ \A p \in Procs : Holds(p) => Owner = p
         /\ (\A p \in Procs : ~Holds(p)) => Owner = None
<1>1. ASSUME NEW p \in Procs, Holds(p) PROVE Owner = p
  <2>1. \A q \in Procs : Holds(q) <=> q = p
    BY <1>1 DEF MutualExclusion
  <2>2. (CHOOSE q \in Procs : Holds(q)) = p
    BY <1>1, <2>1
  <2> QED
    BY <1>1, <2>2 DEF Owner
<1> QED
  BY <1>1 DEF Owner

LEMMA NextOwnerOfHolder ==
  ASSUME MutualExclusion'
  PROVE  /\ \A p \in Procs : Holds(p)' => Owner' = p
         /\ (\A p \in Procs : ~Holds(p)') => Owner' = None
<1>1. ASSUME NEW p \in Procs, Holds(p)' PROVE Owner' = p
  <2>1. \A q \in Procs : Holds(q)' <=> q = p
    BY <1>1 DEF MutualExclusion
  <2>2. (CHOOSE q \in Procs : Holds(q)') = p
    BY <1>1, <2>1
  <2> QED
    BY <1>1, <2>2 DEF Owner
<1> QED
  BY <1>1 DEF Owner

\* The lock and socket files of serialised starts implement SingleDaemon:
\* creating the lockfile acquires, listening serves, and a released lock, a
\* failed bind or a death gives the ownership up.
THEOREM LockImplementsSingleDaemon ==
  ASSUME SerialStarts
  PROVE  Spec => ImplementsSingleDaemon
<1>1. Init => Abstract!AInit
  BY DEF Init, Abstract!AInit, Owner, Holds, Serving
<1>2. TypeOK /\ LockInv /\ LockInv' /\ [Next]_vars => [Abstract!ANext]_(Abstract!avars)
  <2> SUFFICES ASSUME TypeOK, LockInv, LockInv', [Next]_vars
               PROVE  [Abstract!ANext]_(Abstract!avars)
    OBVIOUS
  <2>1. MutualExclusion /\ MutualExclusion'
    BY LockInvExcludes, PTL
  <2>2. /\ \A p \in Procs : Holds(p) => Owner = p
        /\ (\A p \in Procs : ~Holds(p)) => Owner = None
        /\ \A p \in Procs : Holds(p)' => Owner' = p
        /\ (\A p \in Procs : ~Holds(p)') => Owner' = None
    BY <2>1, OwnerOfHolder, NextOwnerOfHolder
  <2> DEFINE SameOwner == \A p \in Procs : Holds(p)' <=> Holds(p)
  <2>3. SameOwner => Owner' = Owner
    BY <2>2
  <2> USE DEF TypeOK, Goto, Serving, Acquiring, Ended
  <2>4. ASSUME NEW p \in Procs,
               \/ Start(p) \/ WritePid(p) \/ ReadLock(p) \/ ProbePid(p)
               \/ Reclaim(p) \/ Drained(p) \/ ReusePid(p)
        PROVE  Owner' = Owner /\ sock' = sock
    <3>1. SameOwner /\ sock' = sock
      BY <2>4 DEF Holds, Start, WritePid, ReadLock, ProbePid, Reclaim, Drained,
                  ReusePid
    <3> QED BY <2>3, <3>1
  <2>5. ASSUME NEW p \in Procs, OpenExclusive(p)
        PROVE  \/ Owner' = Owner /\ sock' = sock
               \/ Abstract!Acquire(p)
    <3>1. CASE lockFile = None
      <4>1. \A q \in Procs : ~Holds(q)
        BY <3>1, ProcsAssumption DEF LockInv, HolderOnFile
      <4>2. Holds(p)' /\ sock' = sock
        BY <2>5, <3>1 DEF OpenExclusive, Holds
      <4> QED BY <2>2, <4>1, <4>2 DEF Abstract!Acquire
    <3>2. CASE lockFile # None
      <4>1. SameOwner /\ sock' = sock
        BY <2>5, <3>2 DEF OpenExclusive, Holds
      <4> QED BY <2>3, <4>1
    <3> QED BY <3>1, <3>2
  <2>6. ASSUME NEW p \in Procs, ClearSocket(p) \/ RemoveSocket(p) \/ StopListening(p)
        PROVE  Abstract!Clear(p)
    <3>1. SameOwner /\ Holds(p) /\ sock' = None
      BY <2>6 DEF ClearSocket, RemoveSocket, StopListening, Holds
    <3> QED BY <2>2, <2>3, <3>1 DEF Abstract!Clear
  <2>7. ASSUME NEW p \in Procs, ReleaseLock(p)
        PROVE  Abstract!Leave(p)
    <3>1. Holds(p) /\ ~Holds(p)' /\ sock' = sock
      BY <2>7 DEF ReleaseLock, Holds
    <3>2. \A q \in Procs : ~Holds(q)'
      BY <2>1, <2>7, <3>1 DEF ReleaseLock, Holds, MutualExclusion
    <3> QED BY <2>2, <3>1, <3>2 DEF Abstract!Leave
  <2>8. ASSUME NEW p \in Procs, Listen(p)
        PROVE  Abstract!Serve(p) \/ Abstract!Leave(p)
    <3>1. Holds(p)
      BY <2>8 DEF Listen, Holds
    <3>2. CASE sock = None
      <4>1. SameOwner /\ sock' = p
        BY <2>8, <3>2 DEF Listen, Holds
      <4> QED BY <2>2, <2>3, <3>1, <3>2, <4>1 DEF Abstract!Serve
    <3>3. CASE sock # None
      <4>1. ~Holds(p)' /\ sock' = sock
        BY <2>8, <3>3 DEF Listen, Holds
      <4>2. \A q \in Procs : ~Holds(q)'
        BY <2>1, <2>8, <3>1, <3>3, <4>1 DEF Listen, Holds, MutualExclusion
      <4> QED BY <2>2, <3>1, <4>1, <4>2 DEF Abstract!Leave
    <3> QED BY <3>2, <3>3
  <2>9. ASSUME NEW p \in Procs, Crash(p)
        PROVE  \/ Owner' = Owner /\ sock' = sock
               \/ Abstract!Leave(p)
    <3>1. CASE Holds(p)
      <4>1. ~Holds(p)' /\ sock' = sock
        BY <2>9, <3>1 DEF Crash, Holds
      <4>2. \A q \in Procs : ~Holds(q)'
        BY <2>1, <2>9, <3>1, <4>1 DEF Crash, Holds, MutualExclusion
      <4> QED BY <2>2, <3>1, <4>1, <4>2 DEF Abstract!Leave
    <3>2. CASE ~Holds(p)
      <4>1. SameOwner /\ sock' = sock
        BY <2>9, <3>2 DEF Crash, Holds
      <4> QED BY <2>3, <4>1
    <3> QED BY <3>1, <3>2
  <2>10. CASE UNCHANGED vars
    <3>1. SameOwner /\ sock' = sock
      BY <2>10 DEF vars, Holds
    <3> QED BY <2>3, <3>1 DEF Abstract!avars
  <2> QED
    BY <2>4, <2>5, <2>6, <2>7, <2>8, <2>9, <2>10
       DEF Next, Step, Abstract!ANext, Abstract!avars
<1> QED
  BY SerialStarts, <1>1, <1>2, AlwaysLockInv, TypeCorrect, PTL
     DEF Spec, ImplementsSingleDaemon, Abstract!ASpec
=============================================================================
