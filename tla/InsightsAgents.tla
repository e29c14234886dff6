---------------------------- MODULE InsightsAgents ----------------------------
(***************************************************************************)
(* Which server runs the insights agent of a room.  A request is published *)
(* to every server; one that has the agent answers, otherwise the one that *)
(* takes the Redis lock joins the room, keeps the agent in its map and     *)
(* supervises it, renewing the lock.  One room, one service.               *)
(*                                                                         *)
(* A server's subscription handles one message after another, so its map   *)
(* is written by the handler and by supervisors only; the branches for     *)
(* "another goroutine created the agent" are never taken and left out.     *)
(* What an agent does in the room is in RoomAgent.                         *)
(***************************************************************************)
EXTENDS Naturals, Sequences, FiniteSets

CONSTANTS
    Host,        \* servers
    MaxRequests, \* bound: requests of the clients of the room
    MaxAgents,   \* bound: agents that are begun
    MaxFaults    \* bound: restarts, locks that expire under a holder, Redis errors

VARIABLES
    bus,      \* messages published so far
    seen,     \* how many of them each server is done with
    hand,     \* each server's handler: where it is, and the agent it works on
    reg,      \* roomAgents of each server: the agent, 0 for none
    agent,    \* every agent: its server and its life
    sup,      \* its supervisor: where it is, and the agent it shuts down
    lease,    \* the Redis lock of the agent's key: its holder, 0 when free
    live,     \* the room has not ended
    faults    \* faults so far

agentsVars == <<bus, seen, hand, reg, agent, sup, lease, live, faults>>

AgentId == 1 .. MaxAgents
TheRoom == "room"
NoRoom == ""

Idle == [at |-> "idle", agent |-> 0]

AgentsInit ==
    /\ bus = <<>>
    /\ seen = [s \in Host |-> 0]
    /\ hand = [s \in Host |-> Idle]
    /\ reg = [s \in Host |-> 0]
    /\ agent = [a \in AgentId |-> [state |-> "none", on |-> CHOOSE s \in Host : TRUE]]
    /\ sup = [a \in AgentId |-> [at |-> "none", agent |-> 0]]
    /\ lease = 0
    /\ live = TRUE
    /\ faults = 0

-----------------------------------------------------------------------------
(* ConfigureAgent and EndRoomAgentTaskByServiceName publish to everybody.  *)
Message(task, room) == [task |-> task, room |-> room]

Request(task) ==
    /\ live
    /\ Len(bus) < MaxRequests
    /\ bus' = Append(bus, Message(task, TheRoom))
    /\ UNCHANGED <<seen, hand, reg, agent, sup, lease, live, faults>>

(* OnAfterRoomEnded: the message to end all agents, which carries no room. *)
RoomEnds ==
    /\ live
    /\ live' = FALSE
    /\ bus' = Append(bus, Message("endall", NoRoom))
    /\ UNCHANGED <<seen, hand, reg, agent, sup, lease, faults>>

-----------------------------------------------------------------------------
(* HandleIncomingAgentTask on server s.                                    *)

Now(s) == bus[seen[s] + 1]
Unread(s) == hand[s] = Idle /\ seen[s] < Len(bus)
Next1(s) == seen' = [seen EXCEPT ![s] = @ + 1]
GoTo(s, at, a) == hand' = [hand EXCEPT ![s] = [at |-> at, agent |-> a]]

(* The server has the agent: it is updated.                                *)
HandleConfigure(s) ==
    /\ Unread(s)
    /\ Now(s).task = "configure"
    /\ IF reg[s] # 0
       THEN Next1(s) /\ UNCHANGED hand
       ELSE GoTo(s, "jitter", 0) /\ UNCHANGED seen
    /\ UNCHANGED <<bus, reg, agent, sup, lease, live, faults>>

(* removeAgentForRoom and removeAgentsForRoom: the agent leaves the map.   *)
HandleEnd(s) ==
    /\ Unread(s)
    /\ Now(s).task \in {"end", "endall"}
    /\ IF reg[s] # 0 /\ Now(s).room = TheRoom
       THEN /\ GoTo(s, "closing", reg[s])
            /\ reg' = [reg EXCEPT ![s] = 0]
            /\ UNCHANGED seen
       ELSE Next1(s) /\ UNCHANGED <<hand, reg>>
    /\ UNCHANGED <<bus, agent, sup, lease, live, faults>>

NewAgent == Cardinality({a \in AgentId : agent[a].state # "none"}) + 1

(* Variant with a bug: the lock is set whether or not there is one.        *)
TryLockSet(s) ==
    /\ hand[s].at = "jitter"
    /\ NewAgent \in AgentId
    /\ lease' = NewAgent
    /\ agent' = [agent EXCEPT ![NewAgent] = [state |-> "joining", on |-> s]]
    /\ GoTo(s, "joining", NewAgent)
    /\ UNCHANGED <<seen, bus, reg, sup, live, faults>>

(* TryLock after the jitter.                                               *)
TryLock(s) ==
    /\ hand[s].at = "jitter"
    /\ IF lease = 0
       THEN /\ NewAgent \in AgentId
            /\ lease' = NewAgent
            /\ agent' = [agent EXCEPT ![NewAgent] = [state |-> "joining", on |-> s]]
            /\ GoTo(s, "joining", NewAgent)
            /\ UNCHANGED seen
       ELSE Next1(s) /\ GoTo(s, "idle", 0) /\ UNCHANGED <<lease, agent>>
    /\ UNCHANGED <<bus, reg, sup, live, faults>>

TryLockFails(s) ==
    /\ hand[s].at = "jitter"
    /\ faults < MaxFaults
    /\ faults' = faults + 1
    /\ Next1(s)
    /\ GoTo(s, "idle", 0)
    /\ UNCHANGED <<bus, reg, agent, sup, lease, live>>

Unlocked(a) == IF lease = a THEN 0 ELSE lease

(* NewRoomAgent: no task, no token, or LiveKit lets nobody in.            *)
JoinFails(s) ==
    LET a == hand[s].agent IN
    /\ hand[s].at = "joining"
    /\ agent' = [agent EXCEPT ![a].state = "done"]
    /\ lease' = Unlocked(a)
    /\ Next1(s)
    /\ GoTo(s, "idle", 0)
    /\ UNCHANGED <<bus, reg, sup, live, faults>>

Join(s) ==
    /\ hand[s].at = "joining"
    /\ live
    /\ agent' = [agent EXCEPT ![hand[s].agent].state = "live"]
    /\ GoTo(s, "storing", hand[s].agent)
    /\ UNCHANGED <<bus, seen, reg, sup, lease, live, faults>>

(* The agent is stored, its supervisor begins, and the agent that is in    *)
(* the map is set up (RoomAgent).                                          *)
Store(s) ==
    LET a == hand[s].agent IN
    /\ hand[s].at = "storing"
    /\ reg' = [reg EXCEPT ![s] = a]
    /\ sup' = [sup EXCEPT ![a].at = "watch"]
    /\ Next1(s)
    /\ GoTo(s, "idle", 0)
    /\ UNCHANGED <<bus, agent, lease, live, faults>>

(* shutdownAndRemoveAgent goes on: Shutdown ends the agent's context, and  *)
(* the metadata of the room are told (RoomRequests, BroadcastEnd).          *)
HandleShutdown(s) ==
    /\ hand[s].at = "closing"
    /\ agent' = [agent EXCEPT ![hand[s].agent].state = "done"]
    /\ Next1(s)
    /\ GoTo(s, "idle", 0)
    /\ UNCHANGED <<bus, reg, sup, lease, live, faults>>

-----------------------------------------------------------------------------
(* superviseAgent, and what happens to an agent in its room.               *)

(* onDisconnected.                                                         *)
Disconnected(a) ==
    /\ agent[a].state = "live"
    /\ agent' = [agent EXCEPT ![a].state = "done"]
    /\ UNCHANGED <<bus, seen, hand, reg, sup, lease, live, faults>>

Watch(a, at, victim) == sup' = [sup EXCEPT ![a] = [at |-> at, agent |-> victim]]
Leave(s) == reg' = [reg EXCEPT ![s] = 0]

(* Variant with a bug: leadership is given up without a shutdown.          *)
LostLeadershipOnly(a) ==
    /\ sup[a].at = "watch"
    /\ lease # a
    /\ Watch(a, "over", 0)
    /\ Leave(agent[a].on)
    /\ UNCHANGED <<bus, seen, hand, agent, lease, live, faults>>

(* Refresh fails: the lock is another's, or gone.                          *)
LostLeadership(a) ==
    /\ sup[a].at = "watch"
    /\ lease # a
    /\ Watch(a, "closing", reg[agent[a].on])
    /\ Leave(agent[a].on)
    /\ UNCHANGED <<bus, seen, hand, agent, lease, live, faults>>

(* Refresh fails because Redis cannot be reached: the lock is still there. *)
RefreshFails(a) ==
    /\ sup[a].at = "watch"
    /\ lease = a
    /\ faults < MaxFaults
    /\ faults' = faults + 1
    /\ Watch(a, "closing", reg[agent[a].on])
    /\ Leave(agent[a].on)
    /\ UNCHANGED <<bus, seen, hand, agent, lease, live>>

(* The agent's context is done: the lock is given back, ...                *)
ContextEnded(a) ==
    /\ sup[a].at = "watch"
    /\ agent[a].state = "done"
    /\ lease' = Unlocked(a)
    /\ Watch(a, "unlocked", 0)
    /\ UNCHANGED <<bus, seen, hand, reg, agent, live, faults>>

(* ... and then whatever agent the map has under the key is taken out.     *)
RemoveByKey(a) ==
    /\ sup[a].at = "unlocked"
    /\ Watch(a, "closing", reg[agent[a].on])
    /\ Leave(agent[a].on)
    /\ UNCHANGED <<bus, seen, hand, agent, lease, live, faults>>

SupervisorShutdown(a) ==
    LET v == sup[a].agent IN
    /\ sup[a].at = "closing"
    /\ agent' = IF v = 0 THEN agent ELSE [agent EXCEPT ![v].state = "done"]
    /\ Watch(a, "over", 0)
    /\ UNCHANGED <<bus, seen, hand, reg, lease, live, faults>>

(* The 30 s of a lock that nobody renews are over.                         *)
Renewed(a) == sup[a].at = "watch" \/ \E s \in Host : hand[s] \in
                  {[at |-> "joining", agent |-> a], [at |-> "storing", agent |-> a]}

LeaseExpires ==
    /\ lease # 0
    /\ ~Renewed(lease)
    /\ lease' = 0
    /\ UNCHANGED <<bus, seen, hand, reg, agent, sup, live, faults>>

(* A join that takes longer than the lock, or a supervisor that is late.   *)
LeaseExpiresEarly ==
    /\ lease # 0
    /\ Renewed(lease)
    /\ faults < MaxFaults
    /\ faults' = faults + 1
    /\ lease' = 0
    /\ UNCHANGED <<bus, seen, hand, reg, agent, sup, live>>

(* A server restarts: its agents are gone, and it has missed what was      *)
(* published before.                                                       *)
Restart(s) ==
    LET mine == {a \in AgentId : agent[a].state # "none" /\ agent[a].on = s} IN
    /\ faults < MaxFaults
    /\ faults' = faults + 1
    /\ hand' = [hand EXCEPT ![s] = Idle]
    /\ seen' = [seen EXCEPT ![s] = Len(bus)]
    /\ reg' = [reg EXCEPT ![s] = 0]
    /\ agent' = [a \in AgentId |->
                    IF a \in mine THEN [agent[a] EXCEPT !.state = "done"] ELSE agent[a]]
    /\ sup' = [a \in AgentId |-> IF a \in mine THEN [at |-> "over", agent |-> 0] ELSE sup[a]]
    /\ UNCHANGED <<bus, lease, live>>

-----------------------------------------------------------------------------
HandlerStep(s) ==
    \/ HandleConfigure(s) \/ HandleEnd(s) \/ TryLock(s) \/ JoinFails(s)
    \/ Join(s) \/ Store(s) \/ HandleShutdown(s)

SupervisorStep(a) ==
    \/ LostLeadership(a) \/ ContextEnded(a) \/ RemoveByKey(a)
    \/ SupervisorShutdown(a)

AgentsNext ==
    \/ \E task \in {"configure", "end"} : Request(task)
    \/ \E s \in Host : HandlerStep(s) \/ TryLockFails(s) \/ Restart(s)
    \/ \E a \in AgentId : SupervisorStep(a) \/ RefreshFails(a) \/ Disconnected(a)
    \/ RoomEnds \/ LeaseExpires \/ LeaseExpiresEarly

(* Handlers and supervisors go on, Redis drops a lock that has expired,    *)
(* and LiveKit disconnects everybody from a room that has ended.           *)
RoomDisconnects(a) == ~live /\ Disconnected(a)
AgentsFairness ==
    /\ \A s \in Host : WF_agentsVars(HandlerStep(s))
    /\ \A a \in AgentId : /\ WF_agentsVars(SupervisorStep(a))
                          /\ WF_agentsVars(RoomDisconnects(a))
    /\ WF_agentsVars(LeaseExpires)

AgentsSpec == AgentsInit /\ [][AgentsNext]_agentsVars /\ AgentsFairness

-----------------------------------------------------------------------------
AgentsTypeOK ==
    /\ bus \in Seq([task : {"configure", "end", "endall"}, room : {TheRoom, NoRoom}])
    /\ seen \in [Host -> 0 .. Len(bus)]
    /\ hand \in [Host -> [at : {"idle", "jitter", "joining", "storing", "closing"},
                          agent : 0 .. MaxAgents]]
    /\ reg \in [Host -> 0 .. MaxAgents]
    /\ agent \in [AgentId -> [state : {"none", "joining", "live", "done"}, on : Host]]
    /\ sup \in [AgentId -> [at : {"none", "watch", "unlocked", "closing", "over"},
                            agent : 0 .. MaxAgents]]
    /\ lease \in 0 .. MaxAgents
    /\ live \in BOOLEAN
    /\ faults \in 0 .. MaxFaults

LiveAgents == {a \in AgentId : agent[a].state = "live"}

BeingClosed(a) == \/ \E s \in Host : hand[s].at \in {"storing", "closing"} /\ hand[s].agent = a
                  \/ \E b \in AgentId : sup[b].at = "closing" /\ sup[b].agent = a

(* No agent is left in the room out of reach: one that is connected is in  *)
(* its server's map, where the end of the service, the end of its lock and *)
(* the server's shutdown find it, or is being stored or shut down, however *)
(* often the lock was lost and another server took over.                   *)
ConnectedIsReachable ==
    \A a \in LiveAgents : reg[agent[a].on] = a \/ BeingClosed(a)

(* As long as no lock expires under its holder and nothing fails, the room *)
(* never has two agents, over any number of ends and new beginnings: the   *)
(* lock is given back only after the agent's context has ended.            *)
OneAgentWithoutFaults == faults = 0 => Cardinality(LiveAgents) <= 1

(* What these rest on.  Agents are numbered as they are begun; who has an  *)
(* agent in hand, in the map or to shut down is on the agent's server; a   *)
(* server that is about to have an agent has none; and a handler works on  *)
(* a message.                                                              *)
AgentsAreNumbered ==
    \E n \in 0 .. MaxAgents : \A a \in AgentId : agent[a].state # "none" <=> a <= n

At(s, a, states) == a \in AgentId /\ agent[a].on = s /\ agent[a].state \in states

AgentsAreAtHome ==
    /\ \A s \in Host :
          LET h == hand[s] IN
          /\ reg[s] # 0 => At(s, reg[s], {"live", "done"})
          /\ h.at \in {"jitter", "joining", "storing"} => reg[s] = 0
          /\ h.at = "joining" => At(s, h.agent, {"joining"})
          /\ h.at \in {"storing", "closing"} => At(s, h.agent, {"live", "done"})
          /\ h.at \in {"joining", "storing"} => sup[h.agent].at = "none"
    /\ \A a \in AgentId :
          /\ sup[a].at # "none" => agent[a].state \in {"live", "done"}
          /\ sup[a].at = "closing" /\ sup[a].agent # 0 =>
                At(agent[a].on, sup[a].agent, {"live", "done"})

HandlersHaveMessages == \A s \in Host : hand[s] # Idle => seen[s] < Len(bus)

(* Without faults the lock is that of the agent that joins or is connected *)
(* and its handler, or its supervisor, renews it.                          *)
LeaseIsOfTheAgent ==
    \A a \in AgentId :
        LET h == hand[agent[a].on] IN
        /\ agent[a].state \in {"joining", "live"} => lease = a
        /\ agent[a].state = "joining" => h = [at |-> "joining", agent |-> a]
        /\ agent[a].state = "live" => h = [at |-> "storing", agent |-> a] \/ sup[a].at = "watch"

AgentsInvariant ==
    /\ AgentsTypeOK /\ HandlersHaveMessages /\ AgentsAreNumbered /\ AgentsAreAtHome
    /\ ConnectedIsReachable
    /\ faults = 0 => LeaseIsOfTheAgent

(* When a lock did expire under its holder and a second server took over,  *)
(* the room is back to one agent in the end.                               *)
Several == Cardinality(LiveAgents) > 1
AgentsConverge == Several ~> ~Several

(* Refuted: the message that a room ended closes every agent of it         *)
(* (models/insights.go:192: "EndRoomAllAgentTasks will close everything    *)
(* for this room").                                                        *)
EndAllCloses ==
    [][\A s \in Host : Unread(s) /\ Now(s).task = "endall" /\ seen'[s] = seen[s] + 1
           => reg'[s] = 0]_agentsVars
=============================================================================
