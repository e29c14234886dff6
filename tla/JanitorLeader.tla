---------------------------- MODULE JanitorLeader ----------------------------
(***************************************************************************)
(* Which server does the periodic tasks: the one that holds the janitor's  *)
(* lock in Redis.  A server takes it with SETNX for a minute and renews it *)
(* every half minute, in the loop that also runs the tasks: while a task   *)
(* runs nothing is renewed, and a task that takes long goes on after the   *)
(* lock has expired and another server leads.                              *)
(*                                                                         *)
(* What the leader does is in the modules that extend this one.            *)
(***************************************************************************)
EXTENDS Naturals, FiniteSets

CONSTANTS
    Server,      \* servers
    MaxTerms     \* bound: times the lock is taken

VARIABLES
    leader,      \* every server's loop: where it is, the value it set and the one it keeps
    lease,       \* the value of the lock in Redis, 0 when it is free
    terms,       \* values used so far
    mishaps      \* the kinds of things that went wrong

leaderVars == <<leader, lease, terms, mishaps>>

Follower == [at |-> "follow", won |-> 0, val |-> 0]

LeaderInit ==
    /\ leader = [s \in Server |-> Follower]
    /\ lease = 0
    /\ terms = 0
    /\ mishaps = {}

Leading(s) == leader[s].at \in {"lead", "task"}

Stand(s, place) == leader' = [leader EXCEPT ![s].at = place]

-----------------------------------------------------------------------------
(* StartJanitor: SETNX, then the value is kept for renewal and shutdown.   *)
TakeLease(s) ==
    /\ terms' = terms + 1
    /\ lease' = terms'
    /\ leader' = [leader EXCEPT ![s].at = "won", ![s].won = terms']

\* Variant with a bug: SET instead of SETNX.
AcquireJanitorLeaderLockSet(s) ==
    /\ leader[s].at = "follow"
    /\ terms < MaxTerms
    /\ TakeLease(s)
    /\ UNCHANGED mishaps

AcquireJanitorLeaderLock(s) ==
    /\ leader[s].at = "follow"
    /\ terms < MaxTerms
    /\ lease = 0
    /\ TakeLease(s)
    /\ UNCHANGED mishaps

StartJanitor(s) ==
    /\ leader[s].at = "won"
    /\ leader' = [leader EXCEPT ![s].at = "lead", ![s].val = leader[s].won]
    /\ UNCHANGED <<lease, terms, mishaps>>

\* The renewal finds another value, no value, or Redis does not answer.
RenewFails(s) ==
    /\ leader[s].at = "lead"
    /\ mishaps' = IF lease = leader[s].val THEN mishaps \cup {"error"} ELSE mishaps
    /\ Stand(s, "follow")
    /\ UNCHANGED <<lease, terms>>

\* A minute without renewal.  A loop that is at its select renews in time.
LeaseExpires ==
    /\ lease # 0
    /\ \A s \in Server : leader[s].at = "lead" => leader[s].val # lease
    /\ lease' = 0
    /\ mishaps' = mishaps \cup {"lease"}
    /\ UNCHANGED <<leader, terms>>

\* Shutdown gives the lock back before it ends the loop's context: the process
\* goes on for a while, and the loop may even take the lock again.
ShutdownReleases(s) ==
    /\ leader[s].at # "gone"
    /\ lease = leader[s].val
    /\ lease # 0
    /\ lease' = 0
    /\ mishaps' = mishaps \cup {"stop"}
    /\ UNCHANGED <<leader, terms>>

\* The process is gone, after Shutdown or without it.
Gone(s) ==
    /\ leader[s].at # "gone"
    /\ Stand(s, "gone")
    /\ UNCHANGED <<lease, terms>>

\* A server that starts.
Restart(s) ==
    /\ leader[s].at = "gone"
    /\ leader' = [leader EXCEPT ![s] = Follower]
    /\ UNCHANGED <<lease, terms, mishaps>>

LeaderNext ==
    \/ LeaseExpires
    \/ \E s \in Server :
          \/ AcquireJanitorLeaderLock(s) \/ StartJanitor(s) \/ RenewFails(s)
          \/ ShutdownReleases(s) \/ Restart(s)

LeaderTypeOK ==
    /\ leader \in [Server -> [at : {"follow", "won", "lead", "task", "gone"},
                              won : 0 .. MaxTerms, val : 0 .. MaxTerms]]
    /\ lease \in 0 .. terms
    /\ terms \in 0 .. MaxTerms
    /\ mishaps \subseteq {"lease", "stop", "error", "ackwait"}
=============================================================================
