------------------------------ MODULE Requests ------------------------------
(***************************************************************************)
(* What a client context keeps of its promises about the requests queued   *)
(* on it: every one ends in at most one way, that outcome is final, and it *)
(* is reported, unless the request was still compounded behind another one *)
(* when that one timed out or the context was destroyed.                   *)
(***************************************************************************)
EXTENDS FiniteSets

CONSTANT Reqs     \* the requests an application issues

VARIABLES
    state,        \* what has become of each request
    behind,       \* behind[r]: the requests compounded behind r and not sent
    open          \* the context has not been destroyed

vars == <<state, behind, open>>

States == {"idle", "pending", "REPLY", "IO_TIMEOUT", "SHUTDOWN",
           "cancelled", "dropped"}

In(st) == {r \in Reqs : state[r] = st}

Become(S, st) == [r \in Reqs |-> IF r \in S THEN st ELSE state[r]]

(* The requests that share the fate of r: they are sent, cancelled and     *)
(* given up together.                                                      *)
Compound(r) == {r} \cup behind[r]

(* r is itself compounded behind another request. *)
Tied(r) == \E h \in Reqs : r \in behind[h]

(* Nothing is behind r any more. *)
Alone(r) == [h \in Reqs |-> IF h = r THEN {} ELSE behind[h]]

TypeInvariant ==
    /\ state \in [Reqs -> States]
    /\ behind \in [Reqs -> SUBSET Reqs]
    /\ open \in BOOLEAN

Init ==
    /\ state = [r \in Reqs |-> "idle"]
    /\ behind = [r \in Reqs |-> {}]
    /\ open = TRUE

(* A request, with what is behind it, is put behind another. *)
Join(h, q) ==
    /\ open
    /\ h # q /\ {h, q} \subseteq In("idle")
    /\ behind' = [r \in Reqs |-> IF r = h THEN behind[h] \cup Compound(q)
                                 ELSE IF r = q THEN {} ELSE behind[r]]
    /\ UNCHANGED <<state, open>>

(* A compound is submitted, and may be sent at once. *)
Submit(h) ==
    /\ open
    /\ Compound(h) \subseteq In("idle")
    /\ state' = Become(Compound(h), "pending")
    /\ behind' = behind \/ behind' = Alone(h)
    /\ UNCHANGED open

(* A compound is sent: its requests will be answered one by one. *)
Send(h) ==
    /\ open
    /\ Compound(h) \subseteq In("pending")
    /\ behind' = Alone(h)
    /\ UNCHANGED <<state, open>>

(* The server's answer to a request that was sent is given its callback. *)
Reply(r) ==
    /\ open
    /\ r \in In("pending") /\ behind[r] = {} /\ ~Tied(r)
    /\ state' = Become({r}, "REPLY")
    /\ UNCHANGED <<behind, open>>

(* A request times out; the requests still behind it are dropped. *)
TimeOut(r) ==
    /\ open
    /\ Compound(r) \subseteq In("pending") /\ ~Tied(r)
    /\ state' = [Become(behind[r], "dropped") EXCEPT ![r] = "IO_TIMEOUT"]
    /\ behind' = Alone(r)
    /\ UNCHANGED open

(* The application cancels a request or compound. *)
Cancel(r) ==
    /\ open
    /\ Compound(r) \subseteq In("idle") \cup In("pending")
    /\ state' = Become(Compound(r), "cancelled")
    /\ behind' = Alone(r)
    /\ UNCHANGED open

(* The context is destroyed: no request stays pending; those still behind  *)
(* another are dropped, every other one is told.                           *)
Shutdown ==
    /\ open
    /\ state' = [r \in Reqs |-> IF state[r] # "pending" THEN state[r]
                                ELSE IF Tied(r) THEN "dropped"
                                ELSE "SHUTDOWN"]
    /\ behind' = [r \in Reqs |-> IF state[r] = "pending" THEN {}
                                                         ELSE behind[r]]
    /\ open' = FALSE

Next ==
    \/ \E h, q \in Reqs : Join(h, q)
    \/ \E h \in Reqs : Submit(h) \/ Send(h)
    \/ \E r \in Reqs : Reply(r) \/ TimeOut(r) \/ Cancel(r)
    \/ Shutdown

Spec == Init /\ [][Next]_vars
=============================================================================
