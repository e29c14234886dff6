---------------------------- MODULE RoomSession ----------------------------
(***************************************************************************)
(* What the handlers of one room id promise to their callers and to the    *)
(* integrators that listen to the webhooks: sessions come one after the    *)
(* other.  A session is opened when no other one is open, it is announced  *)
(* as ended once, and then closed for good.                                *)
(***************************************************************************)
CONSTANT Sid
VARIABLE phase

Init == phase = [s \in Sid |-> "fresh"]

(* CreateRoom stores a new sid.                                            *)
Open(s) ==
    /\ phase[s] = "fresh"
    /\ \A t \in Sid : phase[t] \in {"fresh", "closed"}
    /\ phase' = [phase EXCEPT ![s] = "open"]

(* The session_ended notification.                                         *)
Announce(s) ==
    /\ phase[s] = "open"
    /\ phase' = [phase EXCEPT ![s] = "announced"]

(* The last resource of the session is gone.                               *)
Close(s) ==
    /\ phase[s] = "announced"
    /\ phase' = [phase EXCEPT ![s] = "closed"]

Next == \E s \in Sid : Open(s) \/ Announce(s) \/ Close(s)

(* An end that was announced is carried through.                           *)
Spec == Init /\ [][Next]_phase /\ \A s \in Sid : WF_phase(Close(s))
=============================================================================
