---------------------------- MODULE SingleDaemon ----------------------------
(***************************************************************************)
(* What the lockfile of the cgrca daemon promises, without the lockfile:   *)
(* one owner at a time, and only the owner puts its socket on, or takes a  *)
(* socket off, the well known path.                                        *)
(***************************************************************************)
CONSTANTS Procs, None

VARIABLES owner,     \* the process that is the daemon, or None
          reachable  \* the process whose socket is at SOCKET_PATH, or None

avars == <<owner, reachable>>

AInit == owner = None /\ reachable = None

Acquire(p) == /\ owner = None
              /\ owner' = p
              /\ UNCHANGED reachable

\* The owner removes what an earlier, crashed daemon left at the path.
Clear(p) == /\ owner = p
            /\ reachable' = None
            /\ UNCHANGED owner

Serve(p) == /\ owner = p
            /\ reachable = None
            /\ reachable' = p
            /\ UNCHANGED owner

\* A daemon stops, or dies: a dead daemon leaves its socket file behind.
Leave(p) == /\ owner = p
            /\ owner' = None
            /\ UNCHANGED reachable

ANext == \E p \in Procs : Acquire(p) \/ Clear(p) \/ Serve(p) \/ Leave(p)

ASpec == AInit /\ [][ANext]_avars
=============================================================================
