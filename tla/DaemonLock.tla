----------------------------- MODULE DaemonLock -----------------------------
(***************************************************************************)
(* The single-daemon lock of cgrcad: acquireLock, isLiveLock and           *)
(* releaseLock of packages/core/src/daemon/lockfile.ts, with the part of   *)
(* startDaemon and stop (server.ts) that takes the lock, replaces the      *)
(* socket file, listens, and gives both back.                              *)
(*                                                                         *)
(* Every file system call is a step of its own, so that steps of several   *)
(* starting processes interleave, and a process may die between any two.   *)
(* A process is started at most once; its pid is its name.                 *)
(***************************************************************************)
EXTENDS FiniteSets, Naturals

CONSTANTS
  Procs,          \* the processes `cgrca daemon start` may spawn
  None,           \* "no file", "no pid"
  SerialStarts,   \* TRUE: no start begins while another is inside acquireLock
  PidReuse        \* TRUE: the system may give a dead daemon's pid to a stranger

ASSUME ProcsAssumption == None \notin Procs
ASSUME ModeAssumption == SerialStarts \in BOOLEAN /\ PidReuse \in BOOLEAN

VARIABLES
  pc,        \* where each process is
  lockFile,  \* the process that created the file now at LOCK_PATH, or None
  lockText,  \* TRUE iff {pid, startedAt} has been written into that file
  seen,      \* the pid each process read from the lockfile, or None
  attempt,   \* acquireLock's loop counter
  sock,      \* the process whose socket file is at SOCKET_PATH, or None
  reused     \* pids of ended daemons that belong to an unrelated process now

vars == <<pc, lockFile, lockText, seen, attempt, sock, reused>>

MaxAttempts == 2

Acquiring == {"open", "write", "read", "probe", "unlink"}
Serving   == {"clear", "listen", "running", "drain", "unsock", "release"}
Ended     == {"exited", "refused", "failed", "dead"}

\* p returned true from acquireLock, or is about to: it created the lockfile.
Holds(p) == pc[p] \in Serving \cup {"write"}

\* kill(pid, 0) does not throw ESRCH.
Alive(p) == pc[p] \in Acquiring \cup Serving \/ p \in reused

Goto(p, l) == pc' = [pc EXCEPT ![p] = l]

Init == /\ pc = [p \in Procs |-> "unborn"]
        /\ lockFile = None
        /\ lockText = FALSE
        /\ seen = [p \in Procs |-> None]
        /\ attempt = [p \in Procs |-> 0]
        /\ sock = None
        /\ reused = {}

\* `__daemon-run` calls startDaemon. The launcher's isDaemonUp check is no
\* guard: it also fails for a live daemon too busy to answer within 500 ms.
Start(p) ==
  /\ pc[p] = "unborn"
  /\ SerialStarts => \A q \in Procs : pc[q] \notin Acquiring
  /\ Goto(p, "open")
  /\ UNCHANGED <<lockFile, lockText, seen, attempt, sock, reused>>

\* Mutant: opened with "w", an existing file is truncated and taken over.
OpenTruncating(p) ==
  /\ pc[p] = "open"
  /\ lockFile' = p
  /\ lockText' = FALSE
  /\ Goto(p, "write")
  /\ UNCHANGED <<seen, attempt, sock, reused>>

\* openSync(LOCK_PATH, "wx")
OpenExclusive(p) ==
  /\ pc[p] = "open"
  /\ IF lockFile = None
     THEN /\ lockFile' = p
          /\ lockText' = FALSE
          /\ Goto(p, "write")
     ELSE /\ Goto(p, "read")
          /\ UNCHANGED <<lockFile, lockText>>
  /\ UNCHANGED <<seen, attempt, sock, reused>>

\* writeSync goes to the file this process opened, linked or not.
WritePid(p) ==
  /\ pc[p] = "write"
  /\ lockText' = (lockText \/ lockFile = p)
  /\ Goto(p, "clear")
  /\ UNCHANGED <<lockFile, seen, attempt, sock, reused>>

\* readLock: a missing or empty file yields null, which is "not live".
ReadLock(p) ==
  /\ pc[p] = "read"
  /\ IF lockFile # None /\ lockText
     THEN seen' = [seen EXCEPT ![p] = lockFile] /\ Goto(p, "probe")
     ELSE Goto(p, "unlink") /\ UNCHANGED seen
  /\ UNCHANGED <<lockFile, lockText, attempt, sock, reused>>

\* Mutant: any readable pid counts as live.
ProbeNever(p) ==
  /\ pc[p] = "probe"
  /\ Goto(p, "refused")
  /\ UNCHANGED <<lockFile, lockText, seen, attempt, sock, reused>>

\* Mutant: the outcome of the probe is inverted.
ProbeInverted(p) ==
  /\ pc[p] = "probe"
  /\ Goto(p, IF Alive(seen[p]) THEN "unlink" ELSE "refused")
  /\ UNCHANGED <<lockFile, lockText, seen, attempt, sock, reused>>

\* Mutant: a stale lockfile is retried, not reclaimed.
ProbeRetrying(p) ==
  /\ pc[p] = "probe"
  /\ attempt' = [attempt EXCEPT ![p] = IF Alive(seen[p]) THEN @ ELSE @ + 1]
  /\ Goto(p, IF Alive(seen[p]) THEN "refused" ELSE "open")
  /\ UNCHANGED <<lockFile, lockText, seen, sock, reused>>

\* process.kill(info.pid, 0)
ProbePid(p) ==
  /\ pc[p] = "probe"
  /\ Goto(p, IF Alive(seen[p]) THEN "refused" ELSE "unlink")
  /\ UNCHANGED <<lockFile, lockText, seen, attempt, sock, reused>>

\* unlinkSync removes whatever file is at the path by now; then `continue`.
Reclaim(p) ==
  /\ pc[p] = "unlink"
  /\ lockFile' = None
  /\ lockText' = FALSE
  /\ attempt' = [attempt EXCEPT ![p] = @ + 1]
  /\ Goto(p, IF attempt[p] + 1 < MaxAttempts THEN "open" ELSE "refused")
  /\ UNCHANGED <<seen, sock, reused>>

\* Mutant: the stale socket file is left where it is.
KeepSocket(p) ==
  /\ pc[p] = "clear"
  /\ Goto(p, "listen")
  /\ UNCHANGED <<lockFile, lockText, seen, attempt, sock, reused>>

\* A socket file left by a crashed run is removed before bind.
ClearSocket(p) ==
  /\ pc[p] = "clear"
  /\ sock' = None
  /\ Goto(p, "listen")
  /\ UNCHANGED <<lockFile, lockText, seen, attempt, reused>>

\* server.listen; on EADDRINUSE `ready` rejects, the process ends by itself
\* and leaves the lockfile where it is.
Listen(p) ==
  /\ pc[p] = "listen"
  /\ IF sock = None
     THEN sock' = p /\ Goto(p, "running")
     ELSE Goto(p, "failed") /\ UNCHANGED sock
  /\ UNCHANGED <<lockFile, lockText, seen, attempt, reused>>

\* stop(): server.close() takes the socket file off the path at once.
StopListening(p) ==
  /\ pc[p] = "running"
  /\ sock' = None
  /\ Goto(p, "drain")
  /\ UNCHANGED <<lockFile, lockText, seen, attempt, reused>>

\* Mutant: stop() releases the lock before it removes the socket.
DrainedReleasingEarly(p) ==
  /\ pc[p] = "drain"
  /\ lockFile' = None
  /\ lockText' = FALSE
  /\ Goto(p, "unsock")
  /\ UNCHANGED <<seen, attempt, sock, reused>>

\* server.close() has called back: watchers and handles are closed.
Drained(p) ==
  /\ pc[p] = "drain"
  /\ Goto(p, "unsock")
  /\ UNCHANGED <<lockFile, lockText, seen, attempt, sock, reused>>

RemoveSocket(p) ==
  /\ pc[p] = "unsock"
  /\ sock' = None
  /\ Goto(p, "release")
  /\ UNCHANGED <<lockFile, lockText, seen, attempt, reused>>

\* Mutant: stop() forgets the lock.
KeepLock(p) ==
  /\ pc[p] = "release"
  /\ Goto(p, "exited")
  /\ UNCHANGED <<lockFile, lockText, seen, attempt, sock, reused>>

\* releaseLock unlinks LOCK_PATH without looking whose file it is.
ReleaseLock(p) ==
  /\ pc[p] = "release"
  /\ lockFile' = None
  /\ lockText' = FALSE
  /\ Goto(p, "exited")
  /\ UNCHANGED <<seen, attempt, sock, reused>>

\* SIGKILL, out of memory, power: the files stay.
Crash(p) ==
  /\ pc[p] \in Acquiring \cup Serving
  /\ Goto(p, "dead")
  /\ UNCHANGED <<lockFile, lockText, seen, attempt, sock, reused>>

\* The system hands the pid of an ended daemon to some other program.
ReusePid(p) ==
  /\ PidReuse
  /\ pc[p] \in Ended
  /\ reused' = reused \cup {p}
  /\ UNCHANGED <<pc, lockFile, lockText, seen, attempt, sock>>

\* What a process does by itself once started.
Step(p) ==
  \/ OpenExclusive(p) \/ WritePid(p) \/ ReadLock(p) \/ ProbePid(p)
  \/ Reclaim(p) \/ ClearSocket(p) \/ Listen(p)
  \/ RemoveSocket(p) \/ ReleaseLock(p)

Next == \E p \in Procs :
  \/ Start(p) \/ Step(p) \/ StopListening(p) \/ Drained(p)
  \/ Crash(p) \/ ReusePid(p)

Spec == Init /\ [][Next]_vars

\* A started process runs on. That it is started, stopped or killed, and that
\* server.close() ever calls back (it waits for the clients), is not assumed.
FairSpec == Spec /\ \A p \in Procs : WF_vars(Step(p))
-----------------------------------------------------------------------------
Labels == {"unborn"} \cup Acquiring \cup Serving \cup Ended

TypeOK == /\ pc \in [Procs -> Labels]
          /\ lockFile \in Procs \cup {None}
          /\ lockText \in BOOLEAN
          /\ seen \in [Procs -> Procs \cup {None}]
          /\ attempt \in [Procs -> 0..MaxAttempts]
          /\ sock \in Procs \cup {None}
          /\ reused \in SUBSET Procs

\* lockfile.ts:16 and server.ts:64: acquireLock succeeds for one process at a
\* time, from the creation of its lockfile until it has released or died.
MutualExclusion == \A p, q \in Procs : Holds(p) /\ Holds(q) => p = q

\* The daemon that is up is the one clients reach at SOCKET_PATH: neither a
\* later daemon nor the tail of an earlier one's stop() takes its socket away.
RunningIsReachable == \A p \in Procs : pc[p] = "running" => sock = p

\* A daemon that stopped by itself leaves neither a lockfile nor a socket
\* file of its own behind, however its stop interleaved with other starts.
CleanStopLeavesNothing ==
  \A p \in Procs : pc[p] \in {"exited", "refused"} => lockFile # p /\ sock # p

\* lockfile.ts:16: acquireLock returns false only for a live daemon, or when a
\* stranger runs under the pid of a dead one.
RefusedOnlyForLive ==
  [][\A p \in Procs : pc[p] # "refused" /\ pc'[p] = "refused"
        => \E q \in Procs \ {p} : Holds(q) \/ q \in reused]_vars

\* "Stale lockfiles are reclaimed transparently": a start that begins when no
\* daemon holds the lock ends up serving, unless it is killed on the way or a
\* stranger gets the pid of a dead daemon.
StaleLockNeverBlocks ==
  \A p \in Procs :
    pc[p] = "open" /\ (\A q \in Procs : ~Holds(q))
      ~> pc[p] \in {"running", "dead"} \/ reused # {}

Owner == IF \E p \in Procs : Holds(p) THEN CHOOSE p \in Procs : Holds(p) ELSE None

Abstract == INSTANCE SingleDaemon WITH owner <- Owner, reachable <- sock

\* The lock and socket protocol implements the single-daemon specification.
ImplementsSingleDaemon == Abstract!ASpec
=============================================================================
