-------------------------- MODULE AdmissionQueue ---------------------------
(***************************************************************************)
(* What the admission controller promises (spec §4.1), without sessions,   *)
(* sockets or the world loop: a set of active sessions, a FIFO wait-queue  *)
(* and a capacity.  A player arriving while the active sessions fill the   *)
(* capacity waits at the back of the queue; privileged sessions and any    *)
(* arrival under the capacity become active.  When a session leaves, the  *)
(* head of the queue takes a freed slot.  A reconnect is a departure of    *)
(* the old session followed by the arrival of the new one, in one step.   *)
(***************************************************************************)
EXTENDS Integers, Sequences, FiniteSets, SequencesExt

CONSTANTS
    Sessions,       \* the sessions
    Privileged,     \* sessions above SEC_PLAYER: never queued
    Cap             \* the capacity; 0 means unlimited

VARIABLES active, waiting

vars == <<active, waiting>>

Present(st) == st.active \cup ToSet(st.waiting)

HasRoom(act) == Cap = 0 \/ Cardinality(act) < Cap

(* s arrives in state st.                                                   *)
Arrive(st, s) ==
    IF s \in Privileged \/ HasRoom(st.active)
    THEN [st EXCEPT !.active = @ \cup {s}]
    ELSE [st EXCEPT !.waiting = Append(@, s)]

(* s leaves state st; the head of the queue is promoted if there is room.  *)
Depart(st, s) ==
    LET act == st.active \ {s}
        w   == SelectSeq(st.waiting, LAMBDA x : x # s)
    IN  IF w # <<>> /\ HasRoom(act)
        THEN [active |-> act \cup {Head(w)}, waiting |-> Tail(w)]
        ELSE [active |-> act, waiting |-> w]

State == [active |-> active, waiting |-> waiting]

Init == active = {} /\ waiting = <<>>

Admit(s) ==
    /\ s \notin Present(State)
    /\ LET st == Arrive(State, s) IN active' = st.active /\ waiting' = st.waiting

Leave(s) ==
    /\ s \in Present(State)
    /\ LET st == Depart(State, s) IN active' = st.active /\ waiting' = st.waiting

Reconnect(old, new) ==
    /\ old \in Present(State) /\ new \notin Present(State)
    /\ LET st == Arrive(Depart(State, old), new)
       IN  active' = st.active /\ waiting' = st.waiting

Next ==
    \/ \E s \in Sessions : Admit(s) \/ Leave(s)
    \/ \E old, new \in Sessions : Reconnect(old, new)

Spec == Init /\ [][Next]_vars

=============================================================================
