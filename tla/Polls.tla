------------------------------- MODULE Polls -------------------------------
(***************************************************************************)
(* The polls of one room id in Redis: the hash of the polls and, for each  *)
(* poll, the set of users who voted, the list of ballots and the counters. *)
(* Handlers on any replica create and close polls and submit ballots while *)
(* the cleanup of an ended session removes everything.                     *)
(*                                                                         *)
(* Each action is one Redis command, or one pipeline, taken as one step:   *)
(* the only long one is the cleanup's, and what is said to hold is said of *)
(* the time before it.  The commands AddPollResponse and ClosePoll give on *)
(* the tx of WATCH are sent at once: nothing queues them for an EXEC, so   *)
(* the watched key is never compared.                                      *)
(***************************************************************************)
EXTENDS Naturals, FiniteSets

CONSTANTS
    Poll,       \* poll ids (uuid.NewString)
    User,       \* users, who may submit from two tabs at once
    Option,     \* options to choose from
    MaxVotes    \* bound: submissions that are made

VARIABLES
    list,    \* pnm:polls:<room>: what the hash says of each poll
    voted,   \* ...:voted_users of each poll
    ballots, \* ...:all_respondents of each poll
    total,   \* total_resp of each poll
    count,   \* <option>_count of each poll
    pc,      \* the next command of each request
    sweep,   \* CleanUpPolls of the session: not begun, going on, or over
    ids,     \* the poll ids it read
    seen     \* history: submissions that succeeded before each one began

vars == <<list, voted, ballots, total, count, pc, sweep, ids, seen>>

Vote == [user : User, poll : Poll, option : Option]
Admin == [task : {"create", "close"}, poll : Poll]
Request == Vote \cup Admin

VoteSteps == {"mark", "record", "total", "option"}
Busy(r) == pc[r] \notin {"new", "success", "error"}

Init ==
    /\ list = [p \in Poll |-> "none"]
    /\ voted = [p \in Poll |-> {}]
    /\ ballots = [p \in Poll |-> {}]
    /\ total = [p \in Poll |-> 0]
    /\ count = [p \in Poll |-> [o \in Option |-> 0]]
    /\ pc = [r \in Request |-> "new"]
    /\ sweep = "no"
    /\ ids = {}
    /\ seen = [v \in Vote |-> {}]

-----------------------------------------------------------------------------
Goto(r, step) == pc' = [pc EXCEPT ![r] = step]

(* Users keep sending requests until the session is cleaned up.            *)
Begins(r) == pc[r] = "new" /\ sweep # "done"

(* CreatePoll: one HSET of a poll that runs.                               *)
CreatePoll(p) ==
    LET r == [task |-> "create", poll |-> p]
    IN /\ Begins(r)
       /\ list' = [list EXCEPT ![p] = "running"]
       /\ Goto(r, "success")
       /\ UNCHANGED <<voted, ballots, total, count, sweep, ids, seen>>

(* ClosePoll: HGET, which fails for a poll that is gone, and HSET.         *)
CloseRead(p) ==
    LET r == [task |-> "close", poll |-> p]
    IN /\ Begins(r)
       /\ pc[[task |-> "create", poll |-> p]] = "success"
       /\ Goto(r, IF list[p] = "none" THEN "error" ELSE "write")
       /\ UNCHANGED <<list, voted, ballots, total, count, sweep, ids, seen>>

CloseWrite(p) ==
    LET r == [task |-> "close", poll |-> p]
    IN /\ pc[r] = "write"
       /\ list' = [list EXCEPT ![p] = "closed"]
       /\ Goto(r, "success")
       /\ UNCHANGED <<voted, ballots, total, count, sweep, ids, seen>>

-----------------------------------------------------------------------------
(* AddPollResponse, command by command.                                    *)

(* SISMEMBER.  Whether there is such a poll, and it runs, is not asked.    *)
VoteCheck(v) ==
    /\ Begins(v)
    /\ pc[[task |-> "create", poll |-> v.poll]] = "success"
    /\ Cardinality({w \in Vote : pc[w] # "new"}) < MaxVotes
    /\ Goto(v, IF v.user \in voted[v.poll] THEN "error" ELSE "mark")
    /\ seen' = [seen EXCEPT ![v] = {w \in Vote : pc[w] = "success"}]
    /\ UNCHANGED <<list, voted, ballots, total, count, sweep, ids>>

(* Variant with a bug: the user of a closed poll is not marked.            *)
VoteMarkRunning(v) ==
    /\ pc[v] = "mark"
    /\ voted' = IF list[v.poll] = "closed" THEN voted
                ELSE [voted EXCEPT ![v.poll] = @ \cup {v.user}]
    /\ Goto(v, "record")
    /\ UNCHANGED <<list, ballots, total, count, sweep, ids, seen>>

VoteMark(v) ==
    /\ pc[v] = "mark"
    /\ voted' = [voted EXCEPT ![v.poll] = @ \cup {v.user}]
    /\ Goto(v, "record")
    /\ UNCHANGED <<list, ballots, total, count, sweep, ids, seen>>

VoteRecord(v) ==
    /\ pc[v] = "record"
    /\ ballots' = [ballots EXCEPT ![v.poll] = @ \cup {v}]
    /\ Goto(v, "total")
    /\ UNCHANGED <<list, voted, total, count, sweep, ids, seen>>

VoteTotal(v) ==
    /\ pc[v] = "total"
    /\ total' = [total EXCEPT ![v.poll] = @ + 1]
    /\ Goto(v, "option")
    /\ UNCHANGED <<list, voted, ballots, count, sweep, ids, seen>>

(* Variants with a bug: a closed poll is noticed too late; the counter     *)
(* goes down.                                                              *)
VoteOptionRunning(v) ==
    /\ pc[v] = "option"
    /\ count' = IF list[v.poll] = "closed" THEN count
                ELSE [count EXCEPT ![v.poll][v.option] = @ + 1]
    /\ Goto(v, "success")
    /\ UNCHANGED <<list, voted, ballots, total, sweep, ids, seen>>

VoteOption(v) ==
    /\ pc[v] = "option"
    /\ count' = [count EXCEPT ![v.poll][v.option] = @ + 1]
    /\ Goto(v, "success")
    /\ UNCHANGED <<list, voted, ballots, total, sweep, ids, seen>>

-----------------------------------------------------------------------------
(* CleanUpPolls, in the cleanup of the session.                            *)

(* HKEYS; nothing to do without polls.                                     *)
SweepRead ==
    /\ sweep = "no"
    /\ ids' = {p \in Poll : list[p] # "none"}
    /\ sweep' = IF ids' = {} THEN "done" ELSE "delete"
    /\ UNCHANGED <<list, voted, ballots, total, count, pc, seen>>

(* The pipeline of DELs: three keys of each poll and the hash.             *)
SweepDelete ==
    /\ sweep = "delete"
    /\ list' = [p \in Poll |-> "none"]
    /\ voted' = [p \in Poll |-> IF p \in ids THEN {} ELSE voted[p]]
    /\ ballots' = [p \in Poll |-> IF p \in ids THEN {} ELSE ballots[p]]
    /\ total' = [p \in Poll |-> IF p \in ids THEN 0 ELSE total[p]]
    /\ count' = [p \in Poll |-> IF p \in ids THEN [o \in Option |-> 0] ELSE count[p]]
    /\ sweep' = "done"
    /\ UNCHANGED <<pc, ids, seen>>

-----------------------------------------------------------------------------
Submit(v) ==
    VoteCheck(v) \/ VoteMark(v) \/ VoteRecord(v) \/ VoteTotal(v) \/ VoteOption(v)

Next ==
    \/ \E p \in Poll : CreatePoll(p) \/ CloseRead(p) \/ CloseWrite(p)
    \/ \E v \in Vote : Submit(v)
    \/ SweepRead \/ SweepDelete

Spec == Init /\ [][Next]_vars

-----------------------------------------------------------------------------
(* Properties.                                                             *)

(* Every variable keeps its shape.                                         *)
PollsTypeOK ==
    /\ list \in [Poll -> {"none", "running", "closed"}]
    /\ voted \in [Poll -> SUBSET User]
    /\ ballots \in [Poll -> SUBSET Vote]
    /\ total \in [Poll -> Nat]
    /\ count \in [Poll -> [Option -> Nat]]
    /\ pc \in [Request -> {"new", "write", "success", "error"} \cup VoteSteps]
    /\ sweep \in {"no", "delete", "done"}
    /\ ids \subseteq Poll
    /\ seen \in [Vote -> SUBSET Vote]

(* However submissions interleave, the five keys of a poll tell one story  *)
(* when none is under way: voters, ballots and counters agree, closed or   *)
(* not (services/redis/poll_create.go:48-78).                              *)
TalliesAgree ==
    sweep = "no" =>
      \A p \in Poll :
        (\A v \in Vote : v.poll = p => ~Busy(v)) =>
          /\ total[p] = Cardinality(ballots[p])
          /\ \A o \in Option :
               count[p][o] = Cardinality({v \in ballots[p] : v.option = o})
          /\ voted[p] = {v.user : v \in ballots[p]}

(* Who was told that the vote is in is refused from then on: a submission  *)
(* that begins later than a success of the same user is never counted.     *)
NoSecondVoteLater ==
    sweep = "no" =>
      \A v \in Vote : pc[v] \in VoteSteps \cup {"success"} =>
        \A w \in seen[v] : ~(w.user = v.user /\ w.poll = v.poll)

(* What these rest on: each key tells how far the submissions are, and who *)
(* succeeded before a submission began is not about to vote again.         *)
Through(p, steps) == {v \in Vote : v.poll = p /\ pc[v] \in steps}

KeysTellSteps ==
    \A p \in Poll :
      /\ voted[p] = {v.user : v \in Through(p, {"record", "total", "option", "success"})}
      /\ ballots[p] = Through(p, {"total", "option", "success"})
      /\ total[p] = Cardinality(Through(p, {"option", "success"}))
      /\ \A o \in Option :
           count[p][o] = Cardinality({v \in Through(p, {"success"}) : v.option = o})

SeenAreOver ==
    \A v \in Vote : pc[v] \in VoteSteps \cup {"success"} =>
      \A w \in seen[v] : pc[w] = "success" /\ ~(w.user = v.user /\ w.poll = v.poll)

PollsInvariant ==
    /\ PollsTypeOK
    /\ IsFiniteSet({v \in Vote : pc[v] # "new"})
    /\ sweep = "no" => KeysTellSteps /\ SeenAreOver

(* A user has one ballot in a poll (poll_create.go:40: "Used for O(1)      *)
(* check to see if a user has already voted").                             *)
OneBallotEach ==
    \A p \in Poll : \A v, w \in ballots[p] : v.user = w.user => v = w

(* Refuted: when the session is cleaned up and its requests are through, no*)
(* poll is left for the next session (room_end.go:197: "Clean up any polls *)
(* created during the session").                                           *)
PollsCleanedUp ==
    sweep = "done" /\ (\A r \in Request : ~Busy(r)) =>
      \A p \in Poll : list[p] = "none" /\ ballots[p] = {}
=============================================================================
