--------------------------- MODULE MCSessionData ---------------------------
(* What the server keeps of a session, for TLC: the cached copies of the   *)
(* room, the registered webhooks, and the polls.  None of them reads what  *)
(* another writes, so a behaviour follows the one that active names.  TLC  *)
(* pays for each variable of each state: but for the cache the components  *)
(* take theirs from one set of cells, and those the active one leaves over *)
(* stay empty.                                                             *)
EXTENDS NatsRoomCache, TLC

CONSTANTS
    Sids,              \* sessions; the users of one, too
    PollIds,
    MaxBusy, MaxVotes

VARIABLES active, c1, c2, c3, c4, c5, c6, c7, c8, c9

N == INSTANCE WebhookRegistry WITH
        phase <- c1, reg <- c2, notifier <- c3, workers <- c4, cleanup <- c5, pc <- c6,
        my <- c7, swept <- c8, lost <- c9,
        Sid <- Sids, Calls <- {"room_created", "room_finished", "delete"}
P == INSTANCE Polls WITH
        list <- c1, voted <- c2, ballots <- c3, total <- c4, count <- c5, pc <- c6,
        sweep <- c7, ids <- c8, seen <- c9,
        Poll <- PollIds, User <- Sids, Option <- Server

(* A cached notifier is not taken for none.                                *)
ASSUME NotifierAssumption == None \notin N!Notifier

cells == <<c1, c2, c3, c4, c5, c6, c7, c8, c9>>

DataInit ==
    /\ Init
    /\ \/ active = "cache" /\ c1 = None /\ c2 = None /\ c3 = None /\ c4 = None
          /\ c5 = None /\ c6 = None /\ c7 = None /\ c8 = None /\ c9 = None
       \/ active = "webhooks" /\ N!Init
       \/ active = "polls" /\ P!Init

DataNext ==
    \/ active = "cache" /\ Next /\ UNCHANGED <<active, cells>>
    \/ active = "webhooks" /\ N!Next /\ UNCHANGED <<active, vars>>
    \/ active = "polls" /\ P!Next /\ UNCHANGED <<active, vars>>

DataSpec == DataInit /\ [][DataNext]_<<active, vars, cells>>

Symmetry == Permutations(Server) \cup Permutations(Sids)

-----------------------------------------------------------------------------
(* The properties of the component that is active, as its module has them; *)
(* those of the cache are NatsRoomCache's own.                             *)

(* Every variable keeps its shape.                                         *)
TypesOK ==
    /\ CacheTypeOK
    /\ active = "webhooks" => N!RegistryTypeOK
    /\ active = "polls" => P!PollsTypeOK

(* Each worker goroutine belongs to the cached notifier or to the task     *)
(* that works on it, and none that is cached is killed, whatever creations *)
(* and cleanups race on a server (webhook_notifier.go:131-144).            *)
NotifiersOwnWorkers ==
    active = "webhooks" => N!WorkersAreOwned /\ N!NoLossWithoutCleanup

(* Voters, ballots and counters of a poll agree when no submission is      *)
(* under way, and who was told that the vote is in does not get in another *)
(* one later (services/redis/poll_create.go:48-78).                        *)
VotesAreCounted ==
    active = "polls" => P!TalliesAgree /\ P!NoSecondVoteLater
=============================================================================
