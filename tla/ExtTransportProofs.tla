------------------------- MODULE ExtTransportProofs -------------------------
(***************************************************************************)
(* Proofs about the external transport, for any number of requests,        *)
(* handles, connections and nested callbacks: the application's handle is  *)
(* used only while it is open and closed at most once, the application is  *)
(* woken for every deadline, and the requests reach the wire whole and in  *)
(* order, whatever their vectors and however send cuts them.               *)
(***************************************************************************)
EXTENDS ExtTransport, SeqLemmas

(* The callbacks and the handle the context has been given: it is open     *)
(* while ext_connected is set, and was not closed while ext.close is.      *)
ExtSound ==
    /\ handle \in Seq({"new", "open", "closed"})
    /\ ext \in [type : {"tcp", "ext"}, close : BOOLEAN, handle : Nat]
    /\ ext_connected \in BOOLEAN
    /\ ext.type = "ext" => ext.handle \in DOMAIN handle
    /\ ext.type = "tcp" => ~ext.close /\ ~ext_connected
    /\ ext_connected => handle[ext.handle] = "open"
    /\ ext.close => handle[ext.handle] \in {"new", "open"}

(* A handle is open only while the context uses it and can close it, or    *)
(* when it was connected again after its close.                            *)
OpenSound ==
    \A h \in DOMAIN handle : handle[h] = "open" =>
        h \in reopened \/ (ext_connected /\ ext.close /\ h = ext.handle)

(* Where the engine is says what may have happened to the transport: no    *)
(* callback runs while the application sleeps, a write goes back to where  *)
(* it was called, and a context that is being destroyed has been closed.   *)
Ending == {"destroying", "draining", "destroyed"}
ControlSound ==
    /\ depth \in Nat
    /\ pc \in {"polling", "destroyed"} => depth = 0
    /\ pc = "sending" => ext_connected
    /\ InWrite => back \notin {"sending", "writing", "polling", "destroyed"}
    /\ pc \in Ending \/ (InWrite /\ back \in Ending) => ~ext_connected /\ ~ext.close

HandleInv == ExtSound /\ OpenSound /\ ControlSound /\ OnOpenHandles

(* The requests: their vectors, how much was sent and their deadlines.     *)
Pdus == [id : Nat, iov : Shapes, num_done : Nat, timeout : Nat]

QueuesSound ==
    /\ outqueue \in Seq(Pdus) /\ waitqueue \in Seq(Pdus)
    /\ queued \in Nat /\ timeout \in Nat /\ now \in Nat /\ wake \in Int
    /\ wr = [iov |-> wr.iov, total |-> wr.total] /\ wr.total \in Nat

(* The time poll() returns at is no later than any deadline, unless it has *)
(* come already.                                                           *)
WakeInv ==
    /\ QueuesSound
    /\ pc = "polling" => depth = 0
    /\ pc = "sending" => outqueue # <<>>
    /\ pc = "polling" =>
           \A p \in Pending : p.timeout # 0 =>
               wake # -1 /\ (wake <= p.timeout \/ wake <= now)

-----------------------------------------------------------------------------
(* The handle. *)

(* A step of the engine that does not touch the transport.                 *)
LEMMA QuietHandle ==
    ASSUME HandleInv, UNCHANGED <<ext, ext_connected, handle, calls, reopened>>, ControlSound'
    PROVE  HandleInv'
  BY DEF HandleInv, ExtSound, OpenSound, OnOpenHandles

(* A call of send or recv, on a transport that is connected.               *)
LEMMA CallHandle ==
    ASSUME HandleInv, NEW op \in {"send", "recv"}, ext_connected, Called(op),
           UNCHANGED <<ext, ext_connected, handle, reopened>>, ControlSound'
    PROVE  HandleInv'
<1>1. handle[ext.handle] = "open"
  BY DEF HandleInv, ExtSound
<1>2. OnOpenHandles'
  BY <1>1 DEF HandleInv, OnOpenHandles, Called
<1>3. ExtSound' /\ OpenSound'
  BY DEF HandleInv, ExtSound, OpenSound
<1> QED BY <1>2, <1>3 DEF HandleInv

(* ext_close, from a callback, the application's loop or the teardown.     *)
LEMMA CloseHandle ==
    ASSUME HandleInv, ext.type = "ext", ext_close, depth' = depth, back' = back,
           pc' = pc \/ pc' = "destroying", ~InWrite
    PROVE  HandleInv'
<1>0. ExtSound /\ OpenSound /\ ControlSound /\ OnOpenHandles
  BY DEF HandleInv
<1>1. /\ ext' = [ext EXCEPT !.close = FALSE] /\ ext_connected' = FALSE /\ reopened' = reopened
      /\ ext.close => /\ calls' = calls \cup {<<"close", handle[ext.handle]>>}
                      /\ handle' = [handle EXCEPT ![ext.handle] = "closed"]
      /\ ~ext.close => UNCHANGED <<calls, handle>>
  BY DEF ext_close, Called
<1>2. /\ ext' \in [type : {"tcp", "ext"}, close : BOOLEAN, handle : Nat]
      /\ ext'.type = "ext" /\ ext'.handle = ext.handle /\ ext'.close = FALSE
  BY <1>0, <1>1 DEF ExtSound
<1>3. /\ handle \in Seq({"new", "open", "closed"}) /\ ext.handle \in DOMAIN handle
      /\ Len(handle) \in Nat /\ DOMAIN handle = 1..Len(handle)
      /\ handle \in [1..Len(handle) -> {"new", "open", "closed"}]
  BY <1>0, SeqElements, LenProperties DEF ExtSound
<1>4. /\ handle' \in Seq({"new", "open", "closed"}) /\ DOMAIN handle' = DOMAIN handle
      /\ \A h \in DOMAIN handle :
             handle'[h] = IF ext.close /\ h = ext.handle THEN "closed" ELSE handle[h]
  <2>1. CASE ext.close
    <3>1. handle' \in [1..Len(handle) -> {"new", "open", "closed"}]
      BY <1>1, <1>3, <2>1
    <3> QED BY <1>1, <1>3, <2>1, <3>1, IsASeq
  <2>2. CASE ~ext.close
    BY <1>1, <1>3, <2>2
  <2> QED BY <2>1, <2>2
<1>5. ExtSound'
  BY <1>1, <1>2, <1>3, <1>4 DEF ExtSound
<1>6. OpenSound'
  BY <1>0, <1>1, <1>4 DEF OpenSound
<1>7. ControlSound'
  BY <1>0, <1>1, <1>2 DEF ControlSound, InWrite, Ending
<1>8. OnOpenHandles'
  <2>1. CASE ext.close
    <3>1. handle[ext.handle] \in {"new", "open"}
      BY <1>0, <2>1 DEF ExtSound
    <3> QED BY <1>0, <1>1, <2>1, <3>1 DEF OnOpenHandles
  <2>2. CASE ~ext.close
    BY <1>0, <1>1, <2>2 DEF OnOpenHandles
  <2> QED BY <2>1, <2>2
<1> QED BY <1>5, <1>6, <1>7, <1>8 DEF HandleInv

(* ext_connect, and the callback it runs. *)
LEMMA ConnectHandle ==
    ASSUME HandleInv, ext_connect
    PROVE  HandleInv'
<1>0. ExtSound /\ OpenSound /\ ControlSound /\ OnOpenHandles
  BY DEF HandleInv
<1>1. /\ ext.type = "ext" /\ ~ext_connected /\ InApp /\ pc \notin {"destroying", "draining"}
      /\ handle' = [handle EXCEPT ![ext.handle] = "open"]
      /\ reopened' = IF ext.close THEN reopened ELSE reopened \cup {ext.handle}
      /\ ext_connected' = TRUE /\ depth' = depth + 1 /\ UNCHANGED <<ext, calls, pc, back>>
  BY DEF ext_connect
<1>2. /\ handle \in Seq({"new", "open", "closed"}) /\ ext.handle \in DOMAIN handle
      /\ Len(handle) \in Nat /\ DOMAIN handle = 1..Len(handle)
      /\ handle \in [1..Len(handle) -> {"new", "open", "closed"}]
  BY <1>0, <1>1, SeqElements, LenProperties DEF ExtSound
<1>3. /\ handle' \in Seq({"new", "open", "closed"}) /\ DOMAIN handle' = DOMAIN handle
      /\ \A h \in DOMAIN handle :
             handle'[h] = IF h = ext.handle THEN "open" ELSE handle[h]
  <2>1. handle' \in [1..Len(handle) -> {"new", "open", "closed"}]
    BY <1>1, <1>2
  <2> QED BY <1>1, <1>2, <2>1, IsASeq
<1>4. ExtSound'
  BY <1>0, <1>1, <1>2, <1>3 DEF ExtSound
<1>5. OpenSound'
  BY <1>0, <1>1, <1>3 DEF OpenSound
<1>6. ControlSound'
  BY <1>0, <1>1 DEF ControlSound, InApp, InLoop, InCallback, InWrite, Ending
<1>7. OnOpenHandles'
  BY <1>0, <1>1 DEF OnOpenHandles
<1> QED BY <1>4, <1>5, <1>6, <1>7 DEF HandleInv

(* smb2_set_transport. *)
LEMMA SetHandle ==
    ASSUME HandleInv, smb2_set_transport_tcp \/ smb2_set_transport_ext
    PROVE  HandleInv'
<1>0. ExtSound /\ OpenSound /\ ControlSound /\ OnOpenHandles
  BY DEF HandleInv
<1>1. /\ handle \in Seq({"new", "open", "closed"})
      /\ Len(handle) \in Nat /\ DOMAIN handle = 1..Len(handle)
  BY <1>0, SeqElements DEF ExtSound
<1>2. CASE smb2_set_transport_tcp
  <2>1. /\ ext' = [type |-> "tcp", close |-> FALSE, handle |-> 0] /\ ext_connected' = FALSE
        /\ ~ext_connected /\ pc = "loop" /\ UNCHANGED <<handle, calls, reopened, pc, back, depth>>
    BY <1>2 DEF smb2_set_transport_tcp, InLoop, app
  <2> QED BY <1>0, <2>1 DEF HandleInv, ExtSound, OpenSound, ControlSound, OnOpenHandles, InWrite, Ending
<1>3. CASE smb2_set_transport_ext
  <2>1. /\ ext' = [type |-> "ext", close |-> TRUE, handle |-> Len(handle) + 1]
        /\ handle' = Append(handle, "new") /\ ext_connected' = FALSE
        /\ ~ext_connected /\ pc = "loop" /\ UNCHANGED <<calls, reopened, pc, back, depth>>
    BY <1>3 DEF smb2_set_transport_ext, InLoop
  <2>2. /\ handle' \in Seq({"new", "open", "closed"})
        /\ Len(handle) + 1 \in DOMAIN handle' /\ handle'[Len(handle) + 1] = "new"
        /\ \A h \in DOMAIN handle : handle'[h] = handle[h]
        /\ \A h \in DOMAIN handle' : h \in DOMAIN handle \/ h = Len(handle) + 1
    BY <1>1, <2>1, AppendIndex
  <2>3. ExtSound'
    <3>1. /\ ext' \in [type : {"tcp", "ext"}, close : BOOLEAN, handle : Nat]
          /\ ext'.type = "ext" /\ ext'.handle = Len(handle) + 1
      BY <1>1, <2>1
    <3> QED BY <2>1, <2>2, <3>1 DEF ExtSound
  <2>4. OpenSound'
    BY <1>0, <2>1, <2>2 DEF OpenSound
  <2>5. ControlSound' /\ OnOpenHandles'
    BY <1>0, <2>1 DEF ControlSound, OnOpenHandles, InWrite, Ending
  <2> QED BY <2>3, <2>4, <2>5 DEF HandleInv
<1> QED BY <1>2, <1>3

(* Every step of the application and of the engine.                        *)
LEMMA NextHandle ==
    ASSUME HandleInv, [Next]_vars
    PROVE  HandleInv'
<1>0. ControlSound /\ ExtSound
  BY DEF HandleInv
<1>1. CASE smb2_set_transport_tcp \/ smb2_set_transport_ext
  BY <1>1, SetHandle
<1>2. CASE ext_connect
  BY <1>2, ConnectHandle
<1>3. CASE smb2_close_context
  <2>1. /\ ext.type = "ext" /\ ext_close /\ depth' = depth /\ pc' = pc /\ back' = back
        /\ ~InWrite
    BY <1>3 DEF smb2_close_context, InApp, InLoop, InCallback, InWrite
  <2> QED BY <2>1, CloseHandle
<1>4. CASE smb2_destroy_context
  <2>1. /\ ext.type = "ext" /\ ext_close /\ depth' = depth /\ pc' = "destroying"
        /\ back' = back /\ ~InWrite
    BY <1>4 DEF smb2_destroy_context, InLoop, InWrite
  <2> QED BY <2>1, CloseHandle
<1>5. CASE smb2_queue_pdu \/ smb2_set_timeout \/ CallbackReturns \/ Poll \/ Tick \/ Woken
  <2>1. UNCHANGED <<ext, ext_connected, handle, calls, reopened>>
    BY <1>5 DEF smb2_queue_pdu, smb2_set_timeout, CallbackReturns, Poll, Tick, Woken, app
  <2>2. ControlSound'
    BY <1>0, <1>5, <2>1 DEF smb2_queue_pdu, smb2_set_timeout, CallbackReturns, Poll, Tick,
       Woken, InLoop, InApp, InCallback, InWrite, Ending, ControlSound
  <2> QED BY <2>1, <2>2, QuietHandle
<1>6. CASE ext_service \/ smb2_service_timeout \/ WriteEnds \/ SkipVector \/ Sent
  <2>1. UNCHANGED <<ext, ext_connected, handle, calls, reopened>>
    BY <1>6 DEF ext_service, smb2_service_timeout, WriteEnds, SkipVector, Sent, app
  <2>2. ControlSound'
    BY <1>0, <1>6, <2>1 DEF ext_service, smb2_service_timeout, WriteEnds, SkipVector, Sent,
       Sending, Writing, InLoop, InWrite, Ending, ControlSound
  <2> QED BY <2>1, <2>2, QuietHandle
<1>7. CASE WriteBegins
  <2>1. UNCHANGED <<ext, ext_connected, handle, calls, reopened>>
    BY <1>7 DEF WriteBegins, app
  <2>2. ControlSound'
    <3>1. /\ ext_connected /\ UNCHANGED <<depth, back>>
          /\ pc = "writing" /\ pc' = "sending"
      BY <1>7, Zenon DEF WriteBegins, Writing, MaySend
    <3> QED BY <1>0, <2>1, <3>1 DEF ControlSound, InWrite, Ending
  <2> QED BY <2>1, <2>2, QuietHandle
<1>8. CASE SweepStep \/ SweepEnds \/ DestroyStep \/ DestroyEnds
  <2>1. UNCHANGED <<ext, ext_connected, handle, calls, reopened>>
    BY <1>8 DEF SweepStep, SweepEnds, DestroyStep, DestroyEnds, app
  <2>2. ControlSound'
    BY <1>0, <1>8, <2>1 DEF SweepStep, SweepEnds, DestroyStep, DestroyEnds, Sweeping, InWrite, Ending,
       ControlSound
  <2> QED BY <2>1, <2>2, QuietHandle
<1>9. CASE SendVector \/ SendFails
  <2>1. /\ UNCHANGED <<ext, ext_connected, handle, reopened, depth, back>> /\ Called("send")
        /\ pc = "sending" /\ pc' \in {pc, back}
    BY <1>9 DEF SendVector, SendFails, Sending
  <2>2. ControlSound' /\ ext_connected
    BY <1>0, <2>1 DEF ControlSound, InWrite, Ending
  <2> QED BY <2>1, <2>2, CallHandle
<1>10. CASE \/ smb2_recv_again \/ smb2_recv_fails \/ smb2_recv_part \/ smb2_recv_header
            \/ smb2_recv_late \/ smb2_recv_rest \/ smb2_recv_reply
  <2>1. /\ UNCHANGED <<ext, ext_connected, handle, reopened>>
        /\ \/ ext_connected /\ Called("recv")
           \/ UNCHANGED calls
        /\ pc \in {"reading", "readonly"} /\ pc' \in {pc, "writing", "sweeping"}
        /\ depth' \in {depth, 1} /\ (pc' = "writing" => back' = "sweeping")
    BY <1>10 DEF smb2_recv_again, smb2_recv_fails, smb2_recv_part, smb2_recv_header,
       smb2_recv_late, smb2_recv_rest, smb2_recv_reply, Reading, MayRecv, AfterRead
  <2>2. ControlSound'
    BY <1>0, <2>1 DEF ControlSound, InWrite, Ending
  <2>3. CASE ext_connected /\ Called("recv")
    BY <2>1, <2>2, <2>3, CallHandle
  <2>4. CASE UNCHANGED calls
    BY <2>1, <2>2, <2>4, QuietHandle
  <2> QED BY <2>1, <2>3, <2>4
<1>11. CASE UNCHANGED vars
  <2>1. UNCHANGED <<ext, ext_connected, handle, calls, reopened, pc, back, depth>>
    BY <1>11 DEF vars, app
  <2>2. ControlSound'
    BY <1>0, <2>1 DEF ControlSound, InWrite, Ending
  <2> QED BY <2>1, <2>2, QuietHandle
<1> QED BY <1>1, <1>2, <1>3, <1>4, <1>5, <1>6, <1>7, <1>8, <1>9, <1>10, <1>11 DEF Next

-----------------------------------------------------------------------------
(* The deadlines. *)

(* A step that leaves the queues, the clock and the sleeper alone.         *)
LEMMA QuietWake ==
    ASSUME WakeInv, UNCHANGED <<outqueue, waitqueue, queued, timeout, now, wake, wr>>,
           pc' \in {"polling", "sending"} => pc' = pc /\ depth' = depth
    PROVE  WakeInv'
<1>1. QueuesSound'
  BY DEF WakeInv, QueuesSound
<1>2. Pending' = Pending
  BY DEF Pending
<1> QED BY <1>1, <1>2 DEF WakeInv

(* A step that changes the queues, when nobody sleeps and nothing is being *)
(* sent.                                                                   *)
LEMMA BusyWake ==
    ASSUME QueuesSound', pc' \notin {"polling", "sending"}
    PROVE  WakeInv'
  BY DEF WakeInv

(* The state of a request is that of its queue.                            *)
LEMMA QueueTypes ==
    ASSUME NEW q \in Seq(Pdus)
    PROVE  /\ Len(q) \in Nat /\ DOMAIN q = 1..Len(q) /\ Range(q) \subseteq Pdus
           /\ \A i \in DOMAIN q : q[i] \in Pdus /\ RemoveAt(q, i) \in Seq(Pdus)
           /\ q # <<>> => Head(q) \in Pdus /\ Tail(q) \in Seq(Pdus)
           /\ \A p \in Pdus : /\ Append(q, p) \in Seq(Pdus)
                              /\ <<p>> \o q \in Seq(Pdus) /\ <<p>> \o q # <<>>
<1>1. Len(q) \in Nat /\ DOMAIN q = 1..Len(q) /\ Range(q) \subseteq Pdus
  BY SeqElements
<1>2. \A i \in DOMAIN q : q[i] \in Pdus /\ RemoveAt(q, i) \in Seq(Pdus)
  BY <1>1, RemoveAtSeq
<1>3. q # <<>> => Head(q) \in Pdus /\ Tail(q) \in Seq(Pdus)
  BY TailSeq
<1>4. ASSUME NEW p \in Pdus
      PROVE  Append(q, p) \in Seq(Pdus) /\ <<p>> \o q \in Seq(Pdus) /\ <<p>> \o q # <<>>
  <2>1. Append(q, p) \in Seq(Pdus)
    BY AppendIndex
  <2>2. PICK u \in Seq(Pdus) : u = <<p>> /\ u # <<>>
    BY SmallSeq
  <2>3. u \o q \in Seq(Pdus) /\ u \o q # <<>>
    BY <2>2, ConcatSeq
  <2> QED BY <2>1, <2>2, <2>3
<1> QED BY <1>1, <1>2, <1>3, <1>4

(* smb2_next_timeout_ms: poll() returns no later than the first deadline,  *)
(* and at once when it has passed.                                         *)
LEMMA PollWake ==
    ASSUME WakeInv, Poll
    PROVE  WakeInv'
<1>0. /\ now \in Nat /\ Pending \subseteq Pdus /\ MaxPoll \in Nat
  <2>1. outqueue \in Seq(Pdus) /\ waitqueue \in Seq(Pdus) /\ now \in Nat
    BY DEF WakeInv, QueuesSound
  <2> QED BY <2>1, QueueTypes, ExtAssumption DEF Pending
<1>1. /\ UNCHANGED <<outqueue, waitqueue, queued, timeout, now, wr, depth>>
      /\ pc' = "polling" /\ depth = 0
      /\ wake' = IF smb2_next_timeout_ms < 0 THEN -1 ELSE now + smb2_next_timeout_ms
  BY DEF Poll, InLoop, queues
<1> DEFINE D == {p.timeout : p \in {q \in Pending : q.timeout # 0}}
<1>2. D \in SUBSET Nat /\ 0 \notin D /\ \A p \in Pending : p.timeout # 0 => p.timeout \in D
  BY <1>0 DEF Pdus
<1>3. smb2_earliest_deadline = IF D = {} THEN 0 ELSE Min(D)
  BY DEF smb2_earliest_deadline
<1> HIDE DEF D
<1>4. CASE D = {}
  <2>1. smb2_next_timeout_ms = -1
    BY <1>3, <1>4 DEF smb2_next_timeout_ms
  <2>2. wake' \in Int /\ \A p \in Pending : p.timeout = 0
    BY <1>1, <1>2, <1>4, <2>1
  <2>3. Pending' = Pending
    BY <1>1 DEF Pending
  <2>4. QueuesSound'
    BY <1>1, <2>2 DEF WakeInv, QueuesSound
  <2> QED BY <1>1, <2>2, <2>3, <2>4 DEF WakeInv
<1>5. CASE D # {}
  <2>1. PICK d \in Nat : d = Min(D)
    BY <1>2, <1>5, MinNat
  <2>2. d # 0 /\ \A p \in Pending : p.timeout # 0 => d <= p.timeout
    BY <1>2, <1>5, <2>1, MinNat
  <2>3. smb2_earliest_deadline = d
    BY <1>3, <1>5, <2>1
  <2>4. CASE d <= now
    <3>1. smb2_next_timeout_ms = 0
      BY <2>2, <2>3, <2>4 DEF smb2_next_timeout_ms
    <3>2. wake' = now
      BY <1>0, <1>1, <3>1
    <3>3. Pending' = Pending
      BY <1>1 DEF Pending
    <3>4. QueuesSound'
      BY <1>0, <1>1, <3>2 DEF WakeInv, QueuesSound
    <3> QED BY <1>0, <1>1, <3>2, <3>3, <3>4 DEF WakeInv
  <2>5. CASE ~(d <= now)
    <3>1. PICK m \in Nat : m = Min({d - now, MaxPoll}) /\ m <= d - now
      <4> DEFINE P == {d - now, MaxPoll}
      <4>1. P \in SUBSET Nat /\ P # {} /\ d - now \in P
        BY <1>0, <2>1, <2>5
      <4> HIDE DEF P
      <4>2. Min(P) \in Nat /\ Min(P) <= d - now
        BY <4>1, MinNat
      <4> QED BY <4>2 DEF P
    <3>2. smb2_next_timeout_ms = m
      BY <2>2, <2>3, <2>5, <3>1 DEF smb2_next_timeout_ms
    <3>3. wake' = now + m
      BY <1>0, <1>1, <3>1, <3>2
    <3>4. wake' \in Nat /\ wake' <= d
      BY <1>0, <2>1, <3>1, <3>3
    <3>5. Pending' = Pending
      BY <1>1 DEF Pending
    <3>6. QueuesSound'
      BY <1>1, <3>4 DEF WakeInv, QueuesSound
    <3>7. \A p \in Pending : p.timeout # 0 => wake' # -1 /\ wake' <= p.timeout
      <4> SUFFICES ASSUME NEW p \in Pending, p.timeout # 0
                   PROVE  wake' # -1 /\ wake' <= p.timeout
        OBVIOUS
      <4>1. p.timeout \in Nat /\ d <= p.timeout
        BY <1>0, <2>2 DEF Pdus
      <4> QED BY <2>1, <3>4, <4>1
    <3> QED BY <1>1, <3>5, <3>6, <3>7 DEF WakeInv
  <2> QED BY <2>4, <2>5
<1> QED BY <1>4, <1>5

(* Time passes. *)
LEMMA TickWake ==
    ASSUME WakeInv, Tick
    PROVE  WakeInv'
<1>1. /\ now' = now + 1 /\ UNCHANGED <<outqueue, waitqueue, queued, timeout, wr, wake, pc, depth>>
  BY DEF Tick, queues
<1>2. now \in Nat /\ wake \in Int
  BY DEF WakeInv, QueuesSound
<1>3. QueuesSound'
  BY <1>1, <1>2 DEF WakeInv, QueuesSound
<1>4. Pending' = Pending
  BY <1>1 DEF Pending
<1>5. pc = "polling" =>
        \A p \in Pending : p.timeout # 0 =>
            wake # -1 /\ (wake <= p.timeout \/ wake <= now + 1)
  BY <1>2 DEF WakeInv
<1> QED BY <1>1, <1>3, <1>4, <1>5 DEF WakeInv

(* smb2_queue_pdu and smb2_set_timeout. *)
LEMMA CallWake ==
    ASSUME WakeInv, ControlSound, smb2_queue_pdu \/ smb2_set_timeout
    PROVE  WakeInv'
<1>0. QueuesSound
  BY DEF WakeInv
<1>1. pc \notin {"polling", "sending"}
  BY DEF ControlSound, smb2_queue_pdu, smb2_set_timeout, InApp, InLoop, InCallback, InWrite
<1>2. CASE smb2_queue_pdu
  <2>1. /\ queued' = queued + 1 /\ UNCHANGED <<waitqueue, timeout, now, wr, wake>>
        /\ pc' \in {pc, "writing"}
    BY <1>2 DEF smb2_queue_pdu
  <2>2. PICK s \in Shapes :
          outqueue' = Append(outqueue, [id |-> queued', iov |-> s, num_done |-> 0,
                               timeout |-> IF timeout = 0 THEN 0 ELSE now + timeout])
    BY <1>2 DEF smb2_queue_pdu
  <2>3. PICK p \in Pdus : outqueue' = Append(outqueue, p)
    <3>1. [id |-> queued', iov |-> s, num_done |-> 0,
           timeout |-> IF timeout = 0 THEN 0 ELSE now + timeout] \in Pdus
      BY <1>0, <2>1 DEF Pdus, QueuesSound
    <3> QED BY <2>2, <3>1
  <2>4. outqueue' \in Seq(Pdus)
    BY <1>0, <2>3, QueueTypes DEF QueuesSound
  <2>5. QueuesSound'
    BY <1>0, <2>1, <2>4 DEF QueuesSound
  <2> QED BY <1>1, <2>1, <2>5, BusyWake
<1>3. CASE smb2_set_timeout
  <2>1. /\ timeout' \in Timeouts /\ UNCHANGED <<outqueue, waitqueue, queued, now, pc, wr, wake>>
    BY <1>3 DEF smb2_set_timeout, queues
  <2>2. QueuesSound'
    BY <1>0, <2>1, ExtAssumption DEF QueuesSound
  <2> QED BY <1>1, <2>1, <2>2, BusyWake
<1> QED BY <1>2, <1>3

(* The write of one request. *)
LEMMA WriteWake ==
    ASSUME WakeInv, ControlSound, WriteBegins \/ SendVector \/ SkipVector \/ SendFails \/ Sent
    PROVE  WakeInv'
<1>0. QueuesSound /\ outqueue \in Seq(Pdus) /\ waitqueue \in Seq(Pdus)
  BY DEF WakeInv, QueuesSound
<1>1. CASE WriteBegins
  <2>1. /\ UNCHANGED <<outqueue, waitqueue, queued, timeout, now, wake, depth>>
        /\ pc' = "sending" /\ outqueue # <<>>
        /\ wr' = [iov |-> Unsent(Head(outqueue).iov, Head(outqueue).num_done), total |-> 0]
    BY <1>1, Zenon DEF WriteBegins, Writing, CanSend, queues
  <2>2. PICK v : wr' = [iov |-> v, total |-> 0]
    BY <2>1, Zenon
  <2>3. wr' = [iov |-> wr'.iov, total |-> wr'.total] /\ wr'.total \in Nat
    BY <2>2
  <2>4. UNCHANGED <<outqueue, waitqueue, queued, timeout, now, wake, depth>>
    BY <2>1, Zenon
  <2>5. pc' = "sending" /\ outqueue # <<>>
    BY <2>1, Zenon
  <2>6. QueuesSound'
    BY <1>0, <2>3, <2>4 DEF QueuesSound
  <2> QED BY <2>4, <2>5, <2>6 DEF WakeInv
<1>2. CASE SendVector \/ SkipVector \/ SendFails
  <2>1. /\ UNCHANGED <<outqueue, waitqueue, queued, timeout, now, wake, depth>>
        /\ pc = "sending" /\ pc' \in {"sending", back} /\ back \notin {"polling", "sending"}
    BY <1>2 DEF SendVector, SkipVector, SendFails, Sending, queues, ControlSound, InWrite
  <2>2. wr' = [iov |-> wr'.iov, total |-> wr'.total] /\ wr'.total \in Nat
    <3>1. wr = [iov |-> wr.iov, total |-> wr.total] /\ wr.total \in Nat
      BY <1>0 DEF QueuesSound
    <3>2. CASE SendVector
      <4>1. PICK n \in 0..Head(wr.iov) :
              wr' = [iov |-> IF n < Head(wr.iov) THEN <<>> ELSE Tail(wr.iov),
                     total |-> wr.total + n]
        BY <3>2, Zenon DEF SendVector
      <4>2. PICK v : wr' = [iov |-> v, total |-> wr.total + n]
        BY <4>1, Zenon
      <4>3. n \in Nat
        OBVIOUS
      <4> QED BY <3>1, <4>2, <4>3
    <3>3. CASE SkipVector
      <4>1. PICK v : wr' = [wr EXCEPT !.iov = v]
        BY <3>3 DEF SkipVector
      <4> QED BY <3>1, <4>1
    <3>4. CASE SendFails
      <4>1. wr' = NoWrite \/ \E v : wr' = [wr EXCEPT !.iov = v]
        BY <3>4 DEF SendFails
      <4>2. CASE wr' = NoWrite
        BY <4>2 DEF NoWrite
      <4>3. ASSUME NEW v, wr' = [wr EXCEPT !.iov = v]
            PROVE  wr' = [iov |-> wr'.iov, total |-> wr'.total] /\ wr'.total \in Nat
        BY <3>1, <4>3
      <4> QED BY <4>1, <4>2, <4>3
    <3> QED BY <1>2, <3>2, <3>3, <3>4
  <2>3. QueuesSound'
    BY <1>0, <2>1, <2>2 DEF QueuesSound
  <2> QED BY <2>1, <2>3 DEF WakeInv
<1>3. CASE Sent
  <2> DEFINE p == [Head(outqueue) EXCEPT !.num_done = @ + wr.total]
  <2>1. /\ pc = "sending" /\ pc' = "writing" /\ UNCHANGED <<queued, timeout, now, wake>>
        /\ wr' = NoWrite
        /\ \/ outqueue' = Tail(outqueue) /\ waitqueue' = Append(waitqueue, p)
           \/ outqueue' = <<p>> \o Tail(outqueue) /\ waitqueue' = waitqueue
    BY <1>3 DEF Sent, Sending
  <2>2. outqueue # <<>>
    BY <2>1 DEF WakeInv
  <2>3. Head(outqueue) \in Pdus /\ Tail(outqueue) \in Seq(Pdus)
    BY <1>0, <2>2, QueueTypes
  <2>4. p \in Pdus
    <3>1. wr.total \in Nat
      BY <1>0 DEF QueuesSound
    <3>2. PICK h \in Pdus : h = Head(outqueue)
      BY <2>3
    <3>3. [h EXCEPT !.num_done = @ + wr.total] \in Pdus
      BY <3>1, <3>2 DEF Pdus
    <3> QED BY <3>2, <3>3
  <2> HIDE DEF p
  <2>5. outqueue' \in Seq(Pdus) /\ waitqueue' \in Seq(Pdus)
    BY <1>0, <2>1, <2>3, <2>4, QueueTypes
  <2>6. QueuesSound'
    BY <1>0, <2>1, <2>5 DEF QueuesSound, NoWrite
  <2> QED BY <2>1, <2>6, BusyWake
<1> QED BY <1>1, <1>2, <1>3

(* The sweep, a reply and the teardown take requests out of their queues.  *)
LEMMA RemoveWake ==
    ASSUME WakeInv, smb2_recv_header \/ SweepStep \/ DestroyStep
    PROVE  WakeInv'
<1>0. QueuesSound /\ outqueue \in Seq(Pdus) /\ waitqueue \in Seq(Pdus)
  BY DEF WakeInv, QueuesSound
<1>1. /\ UNCHANGED <<queued, timeout, now, wake, wr>>
      /\ pc' \notin {"polling", "sending"}
  BY DEF smb2_recv_header, SweepStep, DestroyStep, Reading, Sweeping
<1>2. outqueue' \in Seq(Pdus) /\ waitqueue' \in Seq(Pdus)
  <2>1. CASE smb2_recv_header
    <3>1. outqueue' = outqueue /\ \E i \in DOMAIN waitqueue : waitqueue' = RemoveAt(waitqueue, i)
      BY <2>1 DEF smb2_recv_header
    <3> QED BY <1>0, <3>1, QueueTypes
  <2>2. CASE SweepStep
    <3>1. \A q \in Seq(Pdus) : Expired(q) # {} => RemoveAt(q, Min(Expired(q))) \in Seq(Pdus)
      <4> SUFFICES ASSUME NEW q \in Seq(Pdus), Expired(q) # {}
                   PROVE  RemoveAt(q, Min(Expired(q))) \in Seq(Pdus)
        OBVIOUS
      <4>1. Expired(q) \subseteq DOMAIN q
        BY DEF Expired
      <4>2. Expired(q) \in SUBSET Nat
        BY <4>1, QueueTypes
      <4>3. Min(Expired(q)) \in DOMAIN q
        BY <4>1, <4>2, MinNat
      <4> QED BY <4>3, QueueTypes
    <3> QED BY <1>0, <2>2, <3>1 DEF SweepStep
  <2>3. CASE DestroyStep
    <3>1. \/ outqueue # <<>> /\ outqueue' = Tail(outqueue) /\ waitqueue' = waitqueue
          \/ UNCHANGED <<outqueue, waitqueue>>
          \/ waitqueue # <<>> /\ waitqueue' = Tail(waitqueue) /\ outqueue' = outqueue
      BY <2>3 DEF DestroyStep
    <3> QED BY <1>0, <3>1, QueueTypes
  <2> QED BY <2>1, <2>2, <2>3
<1>3. QueuesSound'
  BY <1>0, <1>1, <1>2 DEF QueuesSound
<1> QED BY <1>1, <1>3, BusyWake

(* Every step of the application and of the engine.                        *)
LEMMA NextWake ==
    ASSUME WakeInv, ControlSound, [Next]_vars
    PROVE  WakeInv'
<1>1. CASE Poll
  BY <1>1, PollWake
<1>2. CASE Tick
  BY <1>2, TickWake
<1>3. CASE smb2_queue_pdu \/ smb2_set_timeout
  BY <1>3, CallWake
<1>4. CASE WriteBegins \/ SendVector \/ SkipVector \/ SendFails \/ Sent
  BY <1>4, WriteWake
<1>5. CASE smb2_recv_header \/ SweepStep \/ DestroyStep
  BY <1>5, RemoveWake
<1>6. CASE smb2_set_transport_tcp \/ smb2_set_transport_ext \/ smb2_close_context
  BY <1>6, QuietWake DEF smb2_set_transport_tcp, smb2_set_transport_ext, smb2_close_context,
     queues
<1>7. CASE ext_connect \/ CallbackReturns
  <2>1. /\ UNCHANGED <<outqueue, waitqueue, queued, timeout, now, wake, wr, pc>>
        /\ pc \notin {"polling", "sending"}
    BY <1>7 DEF ext_connect, CallbackReturns, InApp, InLoop, InCallback, InWrite, queues,
       ControlSound
  <2> QED BY <2>1, QuietWake
<1>8. CASE ext_service \/ smb2_service_timeout \/ WriteEnds
  <2>1. /\ UNCHANGED <<outqueue, waitqueue, queued, timeout, now, wake, wr>>
        /\ pc' \notin {"polling", "sending"}
    BY <1>8 DEF ext_service, smb2_service_timeout, WriteEnds, Writing, InWrite, queues,
       ControlSound
  <2> QED BY <2>1, QuietWake
<1>9. CASE \/ smb2_recv_again \/ smb2_recv_fails \/ smb2_recv_part
           \/ smb2_recv_late \/ smb2_recv_rest \/ smb2_recv_reply
  <2>1. /\ UNCHANGED <<outqueue, waitqueue, queued, timeout, now, wake, wr>>
        /\ pc' \notin {"polling", "sending"}
    BY <1>9 DEF smb2_recv_again, smb2_recv_fails, smb2_recv_part, smb2_recv_late,
       smb2_recv_rest, smb2_recv_reply, Reading, AfterRead, queues
  <2> QED BY <2>1, QuietWake
<1>10. CASE Woken
  <2>1. /\ UNCHANGED <<outqueue, waitqueue, queued, timeout, now, wr>>
        /\ wake' = 0 /\ pc' = "loop"
    BY <1>10 DEF Woken, queues
  <2>2. QueuesSound'
    BY <2>1 DEF WakeInv, QueuesSound
  <2> QED BY <2>1, <2>2, BusyWake
<1>11. CASE SweepEnds \/ smb2_destroy_context \/ DestroyEnds
  <2>1. /\ UNCHANGED <<outqueue, waitqueue, queued, timeout, now, wake, wr>>
        /\ pc' \notin {"polling", "sending"}
    BY <1>11 DEF SweepEnds, smb2_destroy_context, DestroyEnds, queues
  <2> QED BY <2>1, QuietWake
<1>12. CASE UNCHANGED vars
  <2>1. UNCHANGED <<outqueue, waitqueue, queued, timeout, now, wake, wr, pc, depth>>
    BY <1>12 DEF vars, queues
  <2> QED BY <2>1, QuietWake
<1> QED BY <1>1, <1>2, <1>3, <1>4, <1>5, <1>6, <1>7, <1>8, <1>9, <1>10, <1>11, <1>12 DEF Next

-----------------------------------------------------------------------------
(* The lengths of vectors. *)

(* Total is the last of the sums of the first k lengths.                   *)
LEMMA TotalSums ==
    ASSUME NEW v \in Seq(Nat)
    PROVE  (\E g : SumsUp(g, v)) /\ (\A g : SumsUp(g, v) => Total(v) = g[Len(v)])
<1>1. FoldLeft(+, 0, v) = Total(v)
  BY DEF Total
<1>2. (\E g : SumsUp(g, v)) /\ (\A g : SumsUp(g, v) => FoldLeft(+, 0, v) = g[Len(v)])
  BY SumSeq
<1> QED BY <1>1, <1>2

(* Total is a number, and that of vectors one after the other adds up.     *)
LEMMA TotalConcat ==
    ASSUME NEW s \in Seq(Nat), NEW t \in Seq(Nat)
    PROVE  /\ Total(s) \in Nat /\ Total(t) \in Nat
           /\ s \o t \in Seq(Nat) /\ Total(s \o t) = Total(s) + Total(t)
<1>1. PICK g : SumsUp(g, s)
  BY TotalSums
<1>2. PICK h : SumsUp(h, t)
  BY TotalSums
<1> DEFINE m == Len(s)
           n == Len(t)
           u == s \o t
           f == [k \in 0..(m + n) |-> IF k <= m THEN g[k] ELSE g[m] + h[k - m]]
<1>3. m \in Nat /\ n \in Nat
  BY SeqElements
<1>4. u \in Seq(Nat) /\ Len(u) = m + n
      /\ \A i \in 1..(m + n) : u[i] = IF i <= m THEN s[i] ELSE t[i - m]
  BY ConcatProperties
<1>5. Total(s) = g[m] /\ Total(t) = h[n] /\ g[m] \in Nat /\ h[n] \in Nat
  <2>1. Total(s) = g[m] /\ Total(t) = h[n]
    BY <1>1, <1>2, TotalSums
  <2>2. m \in 0..m /\ n \in 0..n
    BY <1>3
  <2>3. g[m] \in Nat /\ h[n] \in Nat
    BY <1>1, <1>2, <2>2 DEF SumsUp
  <2> QED BY <2>1, <2>3
<1>6. /\ g[0] = 0 /\ h[0] = 0
      /\ \A k \in 0..m : g[k] \in Nat
      /\ \A k \in 0..n : h[k] \in Nat
      /\ \A k \in 1..m : g[k] = g[k - 1] + s[k]
      /\ \A k \in 1..n : h[k] = h[k - 1] + t[k]
  BY <1>1, <1>2 DEF SumsUp
<1> HIDE DEF m, n, u
<1>7. f \in [0..(m + n) -> Nat] /\ f[0] = 0
  BY <1>3, <1>6
<1>8. ASSUME NEW k \in 1..(m + n) PROVE f[k] = f[k - 1] + u[k]
  <2>1. CASE k <= m
    <3>1. k \in 1..m /\ k \in 0..(m + n) /\ k - 1 \in 0..(m + n) /\ k - 1 <= m
      BY <1>3, <2>1
    <3>2. f[k] = g[k] /\ f[k - 1] = g[k - 1] /\ u[k] = s[k]
      BY <1>4, <2>1, <3>1
    <3> QED BY <1>6, <3>1, <3>2
  <2>2. CASE ~(k <= m)
    <3>1. k - m \in 1..n /\ k \in 0..(m + n) /\ k - 1 \in 0..(m + n)
      BY <1>3, <2>2
    <3>2. f[k] = g[m] + h[k - m] /\ u[k] = t[k - m]
      BY <1>4, <2>2, <3>1
    <3>3. f[k - 1] = g[m] + h[(k - m) - 1]
      <4>1. CASE k - 1 = m
        BY <1>3, <1>5, <1>6, <3>1, <4>1
      <4>2. CASE k - 1 # m
        <5>1. ~(k - 1 <= m) /\ (k - 1) - m = (k - m) - 1
          BY <1>3, <2>2, <4>2
        <5> QED BY <3>1, <5>1
      <4> QED BY <4>1, <4>2
    <3> DEFINE j == k - m
    <3>4. /\ j \in 1..n /\ f[k] = g[m] + h[j] /\ f[k - 1] = g[m] + h[j - 1]
          /\ u[k] = t[j]
      BY <3>1, <3>2, <3>3
    <3> HIDE DEF j, f
    <3>5. h[j] = h[j - 1] + t[j] /\ h[j] \in Nat /\ h[j - 1] \in Nat /\ t[j] \in Nat
      <4>1. t[j] \in Nat
        BY <3>4 DEF n
      <4>2. j \in 0..n /\ j - 1 \in 0..n
        BY <1>3, <3>4
      <4> QED BY <1>6, <3>4, <4>1, <4>2
    <3> QED BY <1>5, <3>4, <3>5
  <2> QED BY <2>1, <2>2
<1>9. SumsUp(f, u)
  <2> HIDE DEF f
  <2> QED BY <1>4, <1>7, <1>8 DEF SumsUp
<1>10. f[m + n] = g[m] + h[n]
  <2>1. CASE n = 0
    BY <1>3, <1>5, <1>6, <2>1
  <2>2. CASE n # 0
    <3>1. ~(m + n <= m) /\ (m + n) - m = n /\ m + n \in 0..(m + n)
      BY <1>3, <2>2
    <3> QED BY <3>1
  <2> QED BY <2>1, <2>2
<1> HIDE DEF f
<1>11. Total(u) = f[m + n]
  BY <1>4, <1>9, TotalSums
<1> QED BY <1>4, <1>5, <1>10, <1>11 DEF u

(* No vector, one vector, and the first vector of several.                 *)
LEMMA TotalHead ==
    ASSUME NEW v \in Seq(Nat)
    PROVE  /\ Total(v) \in Nat /\ Total(<<>>) = 0
           /\ \A x \in Nat : Total(<<x>>) = x
           /\ v # <<>> => /\ Head(v) \in Nat /\ Tail(v) \in Seq(Nat)
                          /\ Total(Tail(v)) \in Nat /\ Total(v) = Head(v) + Total(Tail(v))
<1>1. Total(v) \in Nat
  BY TotalConcat
<1>2. Total(<<>>) = 0
  <2> DEFINE e == <<>>
             g == [k \in 0..0 |-> 0]
  <2>1. e \in Seq(Nat) /\ Len(e) = 0
    OBVIOUS
  <2>2. SumsUp(g, e)
    BY <2>1 DEF SumsUp
  <2>3. g[0] = 0
    OBVIOUS
  <2> HIDE DEF e, g
  <2>4. Total(e) = g[Len(e)]
    BY <2>1, <2>2, TotalSums
  <2> QED BY <2>1, <2>3, <2>4 DEF e
<1>3. ASSUME NEW x \in Nat PROVE Total(<<x>>) = x
  <2> DEFINE e == <<x>>
             g == [k \in 0..1 |-> IF k = 0 THEN 0 ELSE x]
  <2>1. e \in Seq(Nat) /\ Len(e) = 1 /\ e[1] = x
    OBVIOUS
  <2>2. g \in [0..1 -> Nat] /\ g[0] = 0 /\ g[1] = x
    OBVIOUS
  <2> HIDE DEF e, g
  <2>3. SumsUp(g, e)
    <3>1. \A k \in 1..1 : k = 1 /\ k - 1 = 0
      OBVIOUS
    <3>2. \A k \in 1..1 : g[k] = g[k - 1] + e[k]
      BY <2>1, <2>2, <3>1
    <3> QED BY <2>1, <2>2, <3>2 DEF SumsUp
  <2>4. Total(e) = g[Len(e)]
    BY <2>1, <2>3, TotalSums
  <2> QED BY <2>1, <2>2, <2>4 DEF e
<1>4. ASSUME v # <<>>
      PROVE  /\ Head(v) \in Nat /\ Tail(v) \in Seq(Nat)
             /\ Total(Tail(v)) \in Nat /\ Total(v) = Head(v) + Total(Tail(v))
  <2>1. Head(v) \in Nat /\ Tail(v) \in Seq(Nat)
    BY <1>4
  <2>2. v = <<Head(v)>> \o Tail(v)
    BY <1>4
  <2> DEFINE e == <<Head(v)>>
             t == Tail(v)
  <2>3. e \in Seq(Nat) /\ t \in Seq(Nat) /\ v = e \o t /\ Total(e) = Head(v)
    BY <1>3, <2>1, <2>2
  <2> HIDE DEF e, t
  <2>4. Total(t) \in Nat /\ Total(v) = Total(e) + Total(t)
    BY <2>3, TotalConcat
  <2> QED BY <2>1, <2>3, <2>4 DEF t
<1> QED BY <1>1, <1>2, <1>3, <1>4

(* smb2_write_to_socket goes on where the last call stopped: what is left  *)
(* of the vectors are the bytes not yet sent.                              *)
LEMMA UnsentTotal ==
    ASSUME NEW v \in Seq(Nat), NEW n \in Nat, n <= Total(v)
    PROVE  Unsent(v, n) \in Seq(Nat) /\ Total(Unsent(v, n)) = Total(v) - n
<1> DEFINE K == {k \in 0..Len(v) : Total(SubSeq(v, 1, k)) <= n}
           w == Max(K)
<1>1. Len(v) \in Nat /\ DOMAIN v = 1..Len(v) /\ Total(v) \in Nat /\ Total(<<>>) = 0
  BY SeqElements, TotalHead
<1>2. 0 \in K
  <2>1. SubSeq(v, 1, 0) = <<>>
    BY SubSeqEmpty
  <2>2. Total(SubSeq(v, 1, 0)) = 0
    BY <1>1, <2>1, Zenon
  <2> QED BY <1>1, <2>2
<1>3. K \in SUBSET (0..Len(v))
  OBVIOUS
<1>4. w \in K /\ \A k \in K : k <= w
  <2> HIDE DEF K
  <2> QED BY <1>1, <1>2, <1>3, MaxNat
<1>5. Unsent(v, n) = IF w = Len(v) THEN <<>>
                     ELSE <<Total(SubSeq(v, 1, w + 1)) - n>> \o SubSeq(v, w + 2, Len(v))
  BY DEF Unsent
<1> HIDE DEF w
<1>6. w \in 0..Len(v) /\ Total(SubSeq(v, 1, w)) <= n
  BY <1>4
<1>7. CASE w = Len(v)
  <2>1. SubSeq(v, 1, Len(v)) = v
    BY SubSeqFull
  <2>2. Total(v) <= n
    BY <1>6, <1>7, <2>1
  <2>3. Total(v) - n = 0
    BY <1>1, <2>2
  <2> QED BY <1>1, <1>5, <1>7, <2>3
<1>8. CASE w # Len(v)
  <2> DEFINE j == w + 1
             a == SubSeq(v, 1, j)
             r == SubSeq(v, j + 1, Len(v))
  <2>1. j \in 1..Len(v) /\ w + 2 = j + 1 /\ j \notin K
    <3>1. j \in 1..Len(v) /\ w + 2 = j + 1 /\ ~(j <= w)
      <4>1. \A l \in Nat : \A i \in 0..l : i # l =>
                i + 1 \in 1..l /\ i + 2 = (i + 1) + 1 /\ ~(i + 1 <= i)
        OBVIOUS
      <4>2. w \in 0..Len(v) /\ Len(v) \in Nat
        BY <1>1, <1>6
      <4> QED BY <1>8, <4>1, <4>2
    <3> HIDE DEF K, j
    <3> QED BY <1>4, <3>1
  <2> HIDE DEF j
  <2>2. j \in 0..Len(v) /\ ~(Total(a) <= n)
    BY <1>1, <2>1
  <2>3. a \in Seq(Nat) /\ r \in Seq(Nat)
    <3>1. \A i \in 1..j : v[i] \in Nat
      BY <1>1, <2>1
    <3>2. \A i \in (j + 1)..Len(v) : v[i] \in Nat
      BY <1>1, <2>1
    <3>3. j \in Int /\ j + 1 \in Int /\ Len(v) \in Int
      BY <1>1, <2>1
    <3> QED BY <3>1, <3>2, <3>3, SubSeqProperties
  <2>4. a \o r = v
    <3>1. 1 \in 1..(Len(v) + 1) /\ j \in 0..Len(v) /\ Len(v) \in j..Len(v) /\ 1 - 1 = 0
      BY <1>1, <2>1
    <3>2. a \o r = SubSeq(v, 1, Len(v))
      BY <3>1, ConcatAdjacentSubSeq
    <3> QED BY <3>2, SubSeqFull
  <2> HIDE DEF a, r
  <2>5. Total(a) \in Nat /\ Total(r) \in Nat /\ Total(v) = Total(a) + Total(r)
    BY <2>3, <2>4, TotalConcat
  <2> DEFINE x == Total(a) - n
             e == <<x>>
  <2>6. x \in Nat
    BY <2>2, <2>5
  <2>7. e \in Seq(Nat) /\ Total(e) = x
    BY <2>6, TotalHead
  <2>8. Unsent(v, n) = e \o r
    BY <1>5, <1>8, <2>1 DEF a, r, j
  <2> HIDE DEF e
  <2>9. e \o r \in Seq(Nat) /\ Total(e \o r) = Total(e) + Total(r)
    BY <2>3, <2>7, TotalConcat
  <2> QED BY <2>5, <2>7, <2>8, <2>9
<1> QED BY <1>7, <1>8

-----------------------------------------------------------------------------
(* What is on the wire. *)

(* A byte of a request: the request, its place in it and how long it is.   *)
Byte(p, k, n) == [id |-> p, off |-> k, size |-> n]
Bytes == {Byte(p, k, n) : p \in Nat, k \in Nat \ {0}, n \in Nat}

(* It ends a request, or the request was given up.                         *)
EndsIn(b, x) == b.off = b.size \/ b.id \in x

(* What WireWhole says of the byte i of connection c.                      *)
Fits(w, x, c, i) ==
    LET b == w[c][i]
        a == [b EXCEPT !.off = @ - 1]
    IN  IF b.off > 1
        THEN IF i = 1 THEN \E d \in 1..c - 1 : \E j \in DOMAIN w[d] : w[d][j] = a
             ELSE w[c][i - 1] = a
        ELSE i = 1 \/ EndsIn(w[c][i - 1], x)

(* The wires w, the requests x given up and the last byte that was sent of *)
(* the request in progress, if there is one: it is on some wire, and it is *)
(* the last byte of the connection unless that is new.  When no request is *)
(* in progress the connection ends with a whole request or one given up.   *)
WireSound(w, x, M) ==
    /\ w \in Seq(Seq(Bytes))
    /\ \A b \in M : \E d \in DOMAIN w : \E j \in DOMAIN w[d] : w[d][j] = b
    /\ w # <<>> /\ w[Len(w)] # <<>> =>
           LET b == w[Len(w)][Len(w[Len(w)])] IN IF M = {} THEN EndsIn(b, x) ELSE b \in M
    /\ \A c \in DOMAIN w : \A i \in DOMAIN w[c] : Fits(w, x, c, i)

(* Requests are given up, or the request in progress ends.                 *)
LEMMA QuietSound ==
    ASSUME NEW w, NEW x, NEW M, WireSound(w, x, M), NEW y, x \subseteq y, NEW N,
           N = M \/ (N = {} /\ \A b \in M : EndsIn(b, y))
    PROVE  WireSound(w, y, N)
<1>1. \A b : EndsIn(b, x) => EndsIn(b, y)
  BY DEF EndsIn
<1>2. \A c, i : Fits(w, x, c, i) => Fits(w, y, c, i)
  BY <1>1 DEF Fits
<1> QED BY <1>1, <1>2 DEF WireSound

(* A new connection, with nothing on it. *)
LEMMA ConnectSound ==
    ASSUME NEW w, NEW x, NEW M, WireSound(w, x, M)
    PROVE  WireSound(Append(w, <<>>), x, M)
<1> DEFINE L == Len(w)
           v == Append(w, <<>>)
<1>0. <<>> \in Seq(Bytes) /\ w \in Seq(Seq(Bytes))
  BY DEF WireSound
<1>1. /\ v \in Seq(Seq(Bytes)) /\ Len(v) = L + 1 /\ v # <<>>
      /\ L \in Nat /\ DOMAIN w = 1..L /\ DOMAIN v = 1..(L + 1)
      /\ \A c \in DOMAIN w : c \in DOMAIN v /\ v[c] = w[c]
      /\ \A c \in DOMAIN v : c \in DOMAIN w \/ c = L + 1
      /\ v[L + 1] = <<>>
  BY <1>0, AppendIndex
<1>2. DOMAIN <<>> = {}
  OBVIOUS
<1> HIDE DEF v, L
<1>3. ASSUME NEW c \in DOMAIN v, NEW i \in DOMAIN v[c] PROVE Fits(v, x, c, i)
  <2>1. c \in DOMAIN w /\ v[c] = w[c] /\ c \in 1..L
    BY <1>1, <1>2
  <2>2. Fits(w, x, c, i)
    BY <2>1 DEF WireSound
  <2>3. \A d \in 1..c - 1 : v[d] = w[d]
    <3>1. \A d \in 1..c - 1 : d \in 1..L
      BY <1>1, <2>1
    <3> QED BY <1>1, <3>1
  <2> QED BY <2>1, <2>2, <2>3 DEF Fits
<1>4. ASSUME NEW b \in M PROVE \E d \in DOMAIN v : \E j \in DOMAIN v[d] : v[d][j] = b
  BY <1>1 DEF WireSound
<1>5. v[Len(v)] = <<>>
  BY <1>1
<1>6. WireSound(v, x, M)
  BY <1>1, <1>3, <1>4, <1>5 DEF WireSound
<1> QED BY <1>6 DEF v

(* u are the wires w with n more bytes on the last one, which had m.       *)
Grown(w, u, L, m, n) ==
    /\ w \in Seq(Seq(Bytes)) /\ Len(w) = L /\ Len(w[L]) = m
    /\ u \in Seq(Seq(Bytes)) /\ Len(u) = L /\ Len(u[L]) = m + n
    /\ \A c \in 1..L : c # L => u[c] = w[c]
    /\ \A i \in 1..m : u[L][i] = w[L][i]

(* What the last byte of the first k of a request is, if there is one.     *)
Marks(p, k, z) == IF k > 0 THEN {Byte(p, k, z)} ELSE {}

(* n more bytes of the request in progress, of which k have been sent.     *)
LEMMA PutBytes ==
    ASSUME NEW x, NEW p \in Nat, NEW z \in Nat, NEW k \in Nat, NEW n \in Nat,
           NEW L \in Nat, L # 0, NEW m \in Nat, NEW w, NEW u, Grown(w, u, L, m, n),
           WireSound(w, x, Marks(p, k, z)),
           \A j \in 1..n : u[L][m + j] = Byte(p, k + j, z)
    PROVE  WireSound(u, x, Marks(p, k + n, z))
<1> DEFINE M == Marks(p, k, z)
           N == Marks(p, k + n, z)
<1>1. /\ DOMAIN w = 1..L /\ DOMAIN u = 1..L /\ L \in 1..L
      /\ w[L] \in Seq(Bytes) /\ u[L] \in Seq(Bytes)
  <2>1. w \in Seq(Seq(Bytes)) /\ Len(w) = L /\ u \in Seq(Seq(Bytes)) /\ Len(u) = L
    BY DEF Grown
  <2>2. DOMAIN w = 1..L /\ DOMAIN u = 1..L /\ L \in 1..L
    BY <2>1, SeqElements
  <2> QED BY <2>1, <2>2
<1>2. /\ DOMAIN w[L] = 1..m /\ DOMAIN u[L] = 1..(m + n)
      /\ (w[L] = <<>>) <=> (m = 0)
      /\ (u[L] = <<>>) <=> (m + n = 0)
  <2>1. Len(w[L]) = m /\ Len(u[L]) = m + n
    BY DEF Grown
  <2> HIDE DEF Grown
  <2> QED BY <1>1, <2>1, SeqElements
<1>3. /\ \A c \in 1..L : c # L => u[c] = w[c]
      /\ \A i \in 1..m : u[L][i] = w[L][i]
  BY DEF Grown
<1>4. /\ M = {} \/ M = {Byte(p, k, z)}
      /\ k > 0 => M = {Byte(p, k, z)}
      /\ ~(k > 0) => M = {}
      /\ k + n > 0 => N = {Byte(p, k + n, z)}
  BY DEF Marks
<1>5. WireSound(w, x, M)
  OBVIOUS
<1> HIDE DEF M, N
<1>6. /\ \A b \in M : \E d \in DOMAIN w : \E j \in DOMAIN w[d] : w[d][j] = b
      /\ m # 0 => IF M = {} THEN EndsIn(w[L][m], x) ELSE w[L][m] \in M
      /\ \A c \in DOMAIN w : \A i \in DOMAIN w[c] : Fits(w, x, c, i)
  <2>1. Len(w) = L /\ Len(w[L]) = m /\ (m # 0 => w # <<>> /\ w[L] # <<>>)
    <3>1. w # <<>>
      BY <1>1
    <3> QED BY <1>2, <3>1 DEF Grown
  <2> QED BY <1>5, <2>1 DEF WireSound
<1>7. \A d \in 1..L - 1 : d \in 1..L /\ d # L /\ u[d] = w[d]
  <2> SUFFICES ASSUME NEW d \in 1..L - 1 PROVE d \in 1..L /\ d # L /\ u[d] = w[d]
    OBVIOUS
  <2>1. d \in 1..L /\ d # L
    OBVIOUS
  <2> QED BY <1>3, <2>1
<1>8. ASSUME NEW c \in 1..L, NEW i \in DOMAIN u[c], c # L PROVE Fits(u, x, c, i)
  <2>1. u[c] = w[c] /\ Fits(w, x, c, i)
    BY <1>1, <1>3, <1>6, <1>8
  <2>2. \A d \in 1..c - 1 : d \in 1..L - 1
    OBVIOUS
  <2>3. \A d \in 1..c - 1 : u[d] = w[d]
    BY <1>7, <2>2
  <2> QED BY <2>1, <2>3 DEF Fits
<1>9. ASSUME NEW i \in 1..m PROVE Fits(u, x, L, i)
  <2>1. Fits(w, x, L, i) /\ u[L][i] = w[L][i]
    BY <1>1, <1>2, <1>3, <1>6
  <2>2. i # 1 => u[L][i - 1] = w[L][i - 1]
    <3>1. i # 1 => i - 1 \in 1..m
      OBVIOUS
    <3> QED BY <1>3, <3>1
  <2> QED BY <1>7, <2>1, <2>2 DEF Fits
<1>10. ASSUME NEW j \in 1..n PROVE Fits(u, x, L, m + j)
  <2>1. PICK b : b = Byte(p, k + j, z)
    OBVIOUS
  <2>2. u[L][m + j] = b
    BY <2>1
  <2>3. b.off = k + j /\ [b EXCEPT !.off = @ - 1] = Byte(p, (k + j) - 1, z)
    BY <2>1 DEF Byte
  <2>4. CASE j # 1
    <3>1. j - 1 \in 1..n /\ m + (j - 1) = (m + j) - 1 /\ k + (j - 1) = (k + j) - 1
      BY <2>4
    <3>2. u[L][m + (j - 1)] = Byte(p, k + (j - 1), z)
      BY <3>1
    <3>3. u[L][(m + j) - 1] = Byte(p, (k + j) - 1, z)
      BY <3>1, <3>2
    <3>4. k + j > 1 /\ m + j # 1
      BY <2>4
    <3> QED BY <2>2, <2>3, <3>3, <3>4 DEF Fits
  <2>5. CASE j = 1 /\ k > 0
    <3>1. k + j > 1 /\ (k + j) - 1 = k /\ (m + j) - 1 = m /\ M = {Byte(p, k, z)}
      BY <1>4, <2>5
    <3>2. CASE m = 0
      <4>1. PICK d \in 1..L : \E i \in DOMAIN w[d] : w[d][i] = Byte(p, k, z)
        BY <1>1, <1>6, <3>1
      <4>2. 1..m = {}
        BY <3>2
      <4>3. d # L
        BY <1>2, <4>1, <4>2
      <4>4. d \in 1..L - 1 /\ m + j = 1
        BY <2>5, <3>2, <4>3
      <4>5. u[d] = w[d]
        BY <1>7, <4>4
      <4>6. \E i \in DOMAIN u[d] : u[d][i] = [b EXCEPT !.off = @ - 1]
        BY <2>3, <3>1, <4>1, <4>5
      <4> QED BY <2>2, <2>3, <3>1, <4>4, <4>6 DEF Fits
    <3>3. CASE m # 0
      <4>1. m \in 1..m /\ m + j # 1
        BY <2>5, <3>3
      <4>2. w[L][m] = Byte(p, k, z)
        BY <1>6, <3>1, <3>3
      <4>3. u[L][(m + j) - 1] = Byte(p, k, z)
        BY <1>3, <3>1, <4>1, <4>2
      <4> QED BY <2>2, <2>3, <3>1, <4>1, <4>3 DEF Fits
    <3> QED BY <3>2, <3>3
  <2>6. CASE j = 1 /\ ~(k > 0)
    <3>1. ~(k + j > 1) /\ (m + j) - 1 = m /\ M = {}
      BY <1>4, <2>6
    <3>2. CASE m = 0
      <4>1. m + j = 1
        BY <2>6, <3>2
      <4> QED BY <2>2, <2>3, <3>1, <4>1 DEF Fits
    <3>3. CASE m # 0
      <4>1. m \in 1..m
        BY <3>3
      <4>2. EndsIn(w[L][m], x)
        BY <1>6, <3>1, <3>3
      <4>3. EndsIn(u[L][(m + j) - 1], x)
        BY <1>3, <3>1, <4>1, <4>2
      <4> QED BY <2>2, <2>3, <3>1, <4>3 DEF Fits
    <3> QED BY <3>2, <3>3
  <2> QED BY <2>4, <2>5, <2>6
<1>11. ASSUME NEW c \in DOMAIN u, NEW i \in DOMAIN u[c] PROVE Fits(u, x, c, i)
  <2>1. c \in 1..L
    BY <1>1
  <2>2. CASE c # L
    BY <1>8, <2>1, <2>2
  <2>3. CASE c = L
    <3>1. i \in 1..(m + n)
      BY <1>2, <2>3
    <3>2. CASE i <= m
      <4>1. i \in 1..m
        BY <3>1, <3>2
      <4> QED BY <1>9, <2>3, <4>1
    <3>3. CASE ~(i <= m)
      <4>1. PICK j \in 1..n : i = m + j
        <5>1. i - m \in 1..n /\ i = m + (i - m)
          BY <3>1, <3>3
        <5> QED BY <5>1
      <4> QED BY <1>10, <2>3, <4>1
    <3> QED BY <3>2, <3>3
  <2> QED BY <2>2, <2>3
<1>12. u \in Seq(Seq(Bytes)) /\ Len(u) = L /\ Len(u[L]) = m + n
  BY DEF Grown
<1>13. CASE n = 0
  <2>1. m + n = m /\ k + n = k
    BY <1>13
  <2>2. N = M
    BY <2>1 DEF M, N
  <2>3. ASSUME NEW b \in M PROVE \E d \in DOMAIN u : \E j \in DOMAIN u[d] : u[d][j] = b
    <3>1. PICK d \in 1..L : \E j \in DOMAIN w[d] : w[d][j] = b
      BY <1>1, <1>6
    <3>2. CASE d = L
      BY <1>1, <1>2, <1>3, <2>1, <3>1, <3>2
    <3>3. CASE d # L
      BY <1>1, <1>3, <3>1, <3>3
    <3> QED BY <3>2, <3>3
  <2>4. m # 0 => u[L][m] = w[L][m]
    <3>1. m # 0 => m \in 1..m
      OBVIOUS
    <3> QED BY <1>3, <3>1
  <2>5. u[L] # <<>> => IF N = {} THEN EndsIn(u[L][m + n], x) ELSE u[L][m + n] \in N
    BY <1>2, <1>6, <2>1, <2>2, <2>4
  <2>6. WireSound(u, x, N)
    BY <1>11, <1>12, <2>2, <2>3, <2>5 DEF WireSound
  <2> QED BY <2>6 DEF N
<1>14. CASE n # 0
  <2>1. k + n > 0 /\ n \in 1..n /\ m + n \in 1..(m + n)
    BY <1>14
  <2>2. N = {Byte(p, k + n, z)}
    BY <1>4, <2>1
  <2>3. u[L][m + n] = Byte(p, k + n, z)
    BY <2>1
  <2>4. \A b \in N : \E d \in DOMAIN u : \E j \in DOMAIN u[d] : u[d][j] = b
    BY <1>1, <1>2, <2>1, <2>2, <2>3
  <2>5. u[L][m + n] \in N /\ N # {}
    BY <2>2, <2>3
  <2>6. WireSound(u, x, N)
    BY <1>11, <1>12, <2>4, <2>5 DEF WireSound
  <2> QED BY <2>6 DEF N
<1> QED BY <1>13, <1>14

(* The bytes of the first request that have been sent, the call of send in *)
(* progress included.                                                      *)
Done == Head(outqueue).num_done + wr.total
Progress ==
    IF outqueue = <<>> THEN {}
    ELSE Marks(Head(outqueue).id, Done, Size(Head(outqueue)))

(* The vectors ext_queue_write has left are those of the bytes not yet     *)
(* sent, and only the first request has been sent in part.                 *)
WriteInv ==
    /\ wr.iov \in Seq(Nat)
    /\ pc # "sending" => wr = NoWrite
    /\ outqueue # <<>> => Done <= Size(Head(outqueue))
    /\ wr.iov # <<>> => Total(wr.iov) = Size(Head(outqueue)) - Done
    /\ \A i \in DOMAIN outqueue : i > 1 => outqueue[i].num_done = 0

WireInv ==
    /\ WireSound(wire, cut, Progress)
    /\ ext_connected => wire # <<>>

(* The vectors of a request, and its length.                               *)
LEMMA PduSize ==
    ASSUME NEW p \in Pdus
    PROVE  p.iov \in Seq(Nat) /\ Size(p) \in Nat /\ p.num_done \in Nat /\ p.id \in Nat
<1>1. p.iov \in Shapes /\ p.num_done \in Nat /\ p.id \in Nat
  BY DEF Pdus
<1>2. p.iov \in Seq(Nat)
  BY <1>1, ExtAssumption
<1>3. Total(p.iov) \in Nat
  BY <1>2, TotalHead
<1> QED BY <1>1, <1>2, <1>3 DEF Size

(* The first request of the queue. *)
LEMMA FirstPdu ==
    ASSUME QueuesSound
    PROVE  /\ Len(outqueue) \in Nat /\ DOMAIN outqueue = 1..Len(outqueue)
           /\ outqueue # <<>> =>
                 /\ 1 \in DOMAIN outqueue /\ Head(outqueue) = outqueue[1]
                 /\ Head(outqueue) \in Pdus /\ Head(outqueue).iov \in Seq(Nat)
                 /\ Size(Head(outqueue)) \in Nat /\ Head(outqueue).id \in Nat
                 /\ Head(outqueue).num_done \in Nat /\ Done \in Nat
<1>1. outqueue \in Seq(Pdus) /\ wr.total \in Nat
  BY DEF QueuesSound
<1>2. /\ Len(outqueue) \in Nat /\ DOMAIN outqueue = 1..Len(outqueue)
      /\ (outqueue = <<>>) <=> (Len(outqueue) = 0)
  BY <1>1, SeqElements
<1>3. ASSUME outqueue # <<>>
      PROVE  /\ 1 \in DOMAIN outqueue /\ Head(outqueue) = outqueue[1]
             /\ Head(outqueue) \in Pdus /\ Head(outqueue).iov \in Seq(Nat)
             /\ Size(Head(outqueue)) \in Nat /\ Head(outqueue).id \in Nat
             /\ Head(outqueue).num_done \in Nat /\ Done \in Nat
  <2>1. Head(outqueue) = outqueue[1] /\ Head(outqueue) \in Pdus
    BY <1>1, <1>3, TailSeq
  <2>2. 1 \in DOMAIN outqueue
    BY <1>2, <1>3
  <2>3. /\ Head(outqueue).iov \in Seq(Nat) /\ Size(Head(outqueue)) \in Nat
        /\ Head(outqueue).id \in Nat /\ Head(outqueue).num_done \in Nat
    BY <2>1, PduSize
  <2> QED BY <1>1, <2>1, <2>2, <2>3 DEF Done
<1> QED BY <1>2, <1>3

(* A step that puts nothing on the wire: the request in progress is the    *)
(* same, or it ended and its last byte ends it or it was given up.         *)
LEMMA QuietWire ==
    ASSUME WireInv, wire' = wire, ext_connected' => ext_connected, cut \subseteq cut',
           Progress' = Progress \/ (Progress' = {} /\ \A b \in Progress : EndsIn(b, cut'))
    PROVE  WireInv'
<1>1. WireSound(wire, cut, Progress) /\ (ext_connected => wire # <<>>)
  BY DEF WireInv
<1>2. WireSound(wire, cut', Progress')
  BY <1>1, QuietSound
<1>3. WireSound(wire, cut, Progress)' = WireSound(wire', cut', Progress')
  OBVIOUS
<1>4. WireSound(wire', cut', Progress')
  BY <1>2
<1> QED BY <1>1, <1>4 DEF WireInv

(* A step of the application or the engine away from the write.            *)
LEMMA QuietStep ==
    ASSUME WriteInv, WireInv, UNCHANGED <<outqueue, wr, cut, wire>>,
           ext_connected' => ext_connected, pc' # "sending" => pc # "sending"
    PROVE  WriteInv' /\ WireInv'
<1>1. Done' = Done /\ Head(outqueue)' = Head(outqueue) /\ Size(Head(outqueue))' = Size(Head(outqueue))
  BY DEF Done, Size
<1>2. Progress' = Progress
  BY <1>1 DEF Progress, Marks
<1>3. WriteInv'
  BY <1>1 DEF WriteInv
<1> QED BY <1>2, <1>3, QuietWire

(* ext_connect *)
LEMMA ConnectStep ==
    ASSUME WriteInv, WireInv, ext_connect
    PROVE  WriteInv' /\ WireInv'
<1>1. wire' = Append(wire, <<>>) /\ UNCHANGED <<outqueue, wr, cut, pc>>
  BY DEF ext_connect, queues
<1>2. Done' = Done /\ Head(outqueue)' = Head(outqueue) /\ Size(Head(outqueue))' = Size(Head(outqueue))
  BY <1>1 DEF Done, Size
<1>3. Progress' = Progress
  BY <1>1, <1>2 DEF Progress, Marks
<1>4. WriteInv'
  BY <1>1, <1>2 DEF WriteInv
<1>5. WireSound(Append(wire, <<>>), cut, Progress) /\ wire \in Seq(Seq(Bytes))
  <2>1. WireSound(wire, cut, Progress)
    BY DEF WireInv
  <2>2. WireSound(Append(wire, <<>>), cut, Progress)
    BY <2>1, ConnectSound
  <2>3. wire \in Seq(Seq(Bytes))
    BY <2>1 DEF WireSound
  <2> QED BY <2>2, <2>3
<1>6. <<>> \in Seq(Bytes)
  OBVIOUS
<1>7. wire' # <<>>
  BY <1>1, <1>5, <1>6, AppendIndex
<1>8. WireSound(wire', cut', Progress')
  BY <1>1, <1>3, <1>5
<1> QED BY <1>4, <1>7, <1>8 DEF WireInv

(* smb2_queue_pdu *)
LEMMA QueueStep ==
    ASSUME QueuesSound, QueuesSound', WriteInv, WireInv, pc # "sending", smb2_queue_pdu
    PROVE  WriteInv' /\ WireInv'
<1>1. /\ UNCHANGED <<ext_connected, wire, cut, wr>> /\ outqueue \in Seq(Pdus)
      /\ wr = NoWrite /\ pc' # "sending"
  BY DEF smb2_queue_pdu, app, QueuesSound, WriteInv
<1>2. PICK p : outqueue' = Append(outqueue, p) /\ p \in Pdus /\ p.num_done = 0
  <2>1. PICK s \in Shapes :
          outqueue' = Append(outqueue, [id |-> queued', iov |-> s, num_done |-> 0,
                               timeout |-> IF timeout = 0 THEN 0 ELSE now + timeout])
    BY DEF smb2_queue_pdu
  <2> DEFINE r == [id |-> queued', iov |-> s, num_done |-> 0,
                   timeout |-> IF timeout = 0 THEN 0 ELSE now + timeout]
  <2>2. r \in Pdus /\ r.num_done = 0
    BY DEF Pdus, QueuesSound
  <2> QED BY <2>1, <2>2
<1>3. /\ outqueue' \in Seq(Pdus) /\ outqueue' # <<>>
      /\ DOMAIN outqueue = 1..Len(outqueue) /\ Len(outqueue) \in Nat
      /\ \A j \in DOMAIN outqueue : outqueue'[j] = outqueue[j]
      /\ \A j \in DOMAIN outqueue' : j \in DOMAIN outqueue \/ j = Len(outqueue) + 1
      /\ outqueue'[Len(outqueue) + 1] = p
  BY <1>1, <1>2, AppendIndex
<1>4. Head(outqueue') = outqueue'[1]
  BY <1>3, TailSeq
<1>5. \A i \in DOMAIN outqueue' : i > 1 => outqueue'[i].num_done = 0
  BY <1>2, <1>3 DEF WriteInv
<1>6. wr.total = 0 /\ wr.iov = <<>> /\ wr' = wr
  BY <1>1 DEF NoWrite
<1>7. CASE outqueue = <<>>
  <2>1. Len(outqueue) + 1 = 1
    BY <1>7
  <2>2. Head(outqueue') = p
    BY <1>3, <1>4, <2>1
  <2>3. Done' = 0
    BY <1>2, <1>6, <2>2 DEF Done
  <2>4. Size(Head(outqueue'))  \in Nat
    BY <1>2, <2>2, PduSize
  <2>5. Progress' = {} /\ Progress = {}
    BY <1>7, <2>3 DEF Progress, Marks
  <2>6. WriteInv'
    <3>1. Size(Head(outqueue))' = Size(Head(outqueue'))
      BY DEF Size
    <3> QED BY <1>1, <1>5, <1>6, <2>3, <2>4, <3>1 DEF WriteInv
  <2>7. WireInv'
    BY <1>1, <2>5, QuietWire
  <2> QED BY <2>6, <2>7
<1>8. CASE outqueue # <<>>
  <2>1. 1 \in DOMAIN outqueue /\ Head(outqueue) = outqueue[1]
    BY <1>8, FirstPdu
  <2>2. Head(outqueue') = Head(outqueue)
    BY <1>3, <1>4, <2>1
  <2>3. Done' = Done /\ Size(Head(outqueue))' = Size(Head(outqueue))
    BY <1>6, <2>2 DEF Done, Size
  <2>4. Progress' = Progress
    BY <1>3, <1>8, <2>2, <2>3 DEF Progress, Marks
  <2>5. WriteInv'
    BY <1>1, <1>5, <1>6, <1>8, <2>3 DEF WriteInv
  <2>6. WireInv'
    BY <1>1, <2>4, QuietWire
  <2> QED BY <2>5, <2>6
<1> QED BY <1>7, <1>8

(* smb2_write_to_socket calls ext_queue_write. *)
LEMMA BeginStep ==
    ASSUME QueuesSound, WriteInv, WireInv, WriteBegins
    PROVE  WriteInv' /\ WireInv'
<1>1. /\ UNCHANGED <<ext_connected, wire, cut, outqueue>> /\ pc = "writing" /\ pc' = "sending"
      /\ outqueue # <<>>
      /\ wr' = [iov |-> Unsent(Head(outqueue).iov, Head(outqueue).num_done), total |-> 0]
  BY Zenon DEF WriteBegins, Writing, CanSend, app, queues
<1>2. PICK h \in Pdus : h = Head(outqueue)
  BY <1>1, FirstPdu
<1>3. h.iov \in Seq(Nat) /\ h.num_done \in Nat /\ Size(h) = Total(h.iov) /\ Size(h) \in Nat
  BY <1>2, PduSize DEF Size
<1>4. wr = NoWrite /\ wr.total = 0
  BY <1>1 DEF WriteInv, NoWrite
<1>5. Done = h.num_done
  BY <1>2, <1>3, <1>4 DEF Done
<1>6. h.num_done <= Total(h.iov)
  BY <1>1, <1>2, <1>3, <1>5 DEF WriteInv
<1> DEFINE v == Unsent(h.iov, h.num_done)
<1>7. v \in Seq(Nat) /\ Total(v) = Size(h) - h.num_done
  BY <1>3, <1>6, UnsentTotal
<1>8. wr' = [iov |-> v, total |-> 0]
  BY <1>1, <1>2
<1> HIDE DEF v
<1>9. wr'.iov = v /\ wr'.total = 0
  BY <1>8
<1>10. Head(outqueue)' = h /\ Size(Head(outqueue))' = Size(h)
  BY <1>1, <1>2 DEF Size
<1>11. Done' = h.num_done
  BY <1>1, <1>2, <1>3, <1>9 DEF Done
<1>12. Progress' = Progress
  BY <1>1, <1>2, <1>5, <1>10, <1>11 DEF Progress, Marks
<1>13. WriteInv'
  <2>1. \A i \in DOMAIN outqueue' : i > 1 => outqueue'[i].num_done = 0
    BY <1>1 DEF WriteInv
  <2> QED BY <1>1, <1>3, <1>6, <1>7, <1>9, <1>10, <1>11, <2>1 DEF WriteInv
<1> QED BY <1>1, <1>12, <1>13, QuietWire

(* The application's send takes n bytes of the first vector left.          *)
LEMMA PutWire ==
    ASSUME QueuesSound, WriteInv, WireInv, wire # <<>>, outqueue # <<>>,
           wr.iov # <<>>, NEW n \in Nat, Put(n),
           UNCHANGED <<outqueue, cut>>, wr'.total = wr.total + n
    PROVE  WireInv'
<1>1. PICK h \in Pdus : h = Head(outqueue)
  BY FirstPdu
<1>2. h.id \in Nat /\ Size(h) \in Nat /\ h.num_done \in Nat /\ wr.total \in Nat
  BY <1>1, PduSize DEF QueuesSound
<1> DEFINE p == h.id
           z == Size(h)
           k == Done
           L == Len(wire)
           m == Len(wire[L])
           t == [j \in 1..n |-> Byte(p, k + j, z)]
           e == wire[L] \o t
<1>3. p \in Nat /\ z \in Nat /\ k \in Nat
  BY <1>1, <1>2 DEF Done
<1>4. wire \in Seq(Seq(Bytes)) /\ WireSound(wire, cut, Marks(p, k, z))
  <2>1. WireSound(wire, cut, Progress) /\ Progress = Marks(p, k, z)
    BY <1>1 DEF WireInv, Progress
  <2> QED BY <2>1 DEF WireSound
<1>5. L \in Nat /\ L # 0 /\ DOMAIN wire = 1..L
  BY <1>4, SeqElements
<1>6. L \in 1..L /\ wire[L] \in Seq(Bytes)
  BY <1>4, <1>5
<1>7. m \in Nat
  BY <1>6, SeqElements
<1>8. wire' = [wire EXCEPT ![L] = e]
  <2>1. Total(wr.iov) = z - k
    BY <1>1 DEF WriteInv
  <2>2. z - Total(wr.iov) = k
    BY <1>3, <2>1
  <2>3. wire' = [wire EXCEPT ![L] = wire[L] \o
                   [j \in 1..n |-> [id |-> p, off |-> (z - Total(wr.iov)) + j, size |-> z]]]
    BY <1>1 DEF Put
  <2> QED BY <2>2, <2>3 DEF Byte
<1> HIDE DEF p, z, k
<1>9. /\ t \in Seq(Bytes) /\ Len(t) = n /\ \A j \in 1..n : t[j] = Byte(p, k + j, z)
  <2>1. \A j \in 1..n : Byte(p, k + j, z) \in Bytes
    <3> SUFFICES ASSUME NEW j \in 1..n PROVE Byte(p, k + j, z) \in Bytes
      OBVIOUS
    <3>1. k + j \in Nat \ {0}
      BY <1>3
    <3> QED BY <1>3, <3>1 DEF Bytes
  <2>2. t \in [1..n -> Bytes]
    BY <2>1
  <2>3. t \in Seq(Bytes) /\ Len(t) = n
    BY <2>2, IsASeq
  <2>4. \A j \in 1..n : t[j] = Byte(p, k + j, z)
    OBVIOUS
  <2> QED BY <2>3, <2>4
<1> HIDE DEF t
<1>10. /\ e \in Seq(Bytes) /\ Len(e) = m + n
       /\ \A i \in 1..(m + n) : e[i] = IF i <= m THEN wire[L][i] ELSE t[i - m]
  BY <1>6, <1>9, ConcatProperties
<1> HIDE DEF e, m
<1>11. \A i \in 1..m : e[i] = wire[L][i]
  <2>1. \A i \in 1..m : i \in 1..(m + n) /\ i <= m
    BY <1>7
  <2> QED BY <1>10, <2>1
<1>12. \A j \in 1..n : e[m + j] = Byte(p, k + j, z)
  <2>1. \A j \in 1..n : m + j \in 1..(m + n) /\ ~(m + j <= m) /\ (m + j) - m = j
    BY <1>7
  <2> QED BY <1>9, <1>10, <2>1
<1> HIDE DEF L
<1>13. /\ wire' \in Seq(Seq(Bytes)) /\ Len(wire') = L
       /\ wire'[L] = e /\ \A c \in 1..L : c # L => wire'[c] = wire[c]
  <2>1. wire \in [1..L -> Seq(Bytes)]
    BY <1>4, LenProperties DEF L
  <2>2. /\ wire' \in [1..L -> Seq(Bytes)] /\ wire'[L] = e
        /\ \A c \in 1..L : c # L => wire'[c] = wire[c]
    BY <1>6, <1>8, <1>10, <2>1
  <2> DEFINE S == Seq(Bytes)
  <2> HIDE DEF S
  <2>3. PICK u : u = wire'
    OBVIOUS
  <2>4. u \in [1..L -> S]
    BY <2>2, <2>3 DEF S
  <2>5. u \in Seq(S) /\ Len(u) = L
    BY <1>5, <2>4, IsASeq
  <2> QED BY <2>2, <2>3, <2>5 DEF S
<1>14. PICK u : u = wire'
  OBVIOUS
<1>15. Grown(wire, u, L, m, n)
  <2>1. Len(wire) = L /\ Len(wire[L]) = m
    BY DEF L, m
  <2> QED BY <1>4, <1>10, <1>11, <1>13, <1>14, <2>1 DEF Grown
<1>16. \A j \in 1..n : u[L][m + j] = Byte(p, k + j, z)
  BY <1>12, <1>13, <1>14
<1>17. WireSound(u, cut, Marks(p, k + n, z))
  BY <1>3, <1>4, <1>5, <1>7, <1>15, <1>16, PutBytes
<1>18. Progress' = Marks(p, k + n, z)
  <2>1. Head(outqueue)' = h /\ Size(Head(outqueue))' = z
    BY <1>1 DEF Size, z
  <2>2. Done' = k + n
    BY <1>1, <1>2 DEF Done, k
  <2> QED BY <2>1, <2>2 DEF Progress, p
<1>19. WireSound(wire', cut', Progress') /\ wire' # <<>>
  <2>1. wire' # <<>>
    BY <1>5, <1>13
  <2> QED BY <1>14, <1>17, <1>18, <2>1
<1> QED BY <1>19 DEF WireInv

(* A vector is sent, in part or whole, skipped or refused.                 *)
LEMMA VectorStep ==
    ASSUME QueuesSound, WriteInv, WireInv, ext_connected, outqueue # <<>>,
           SendVector \/ SkipVector \/ SendFails
    PROVE  WriteInv' /\ WireInv'
<1>1. /\ UNCHANGED <<ext_connected, cut, outqueue>> /\ pc = "sending" /\ wr.iov # <<>>
  BY DEF SendVector, SkipVector, SendFails, Sending, app, queues
<1>2. PICK h \in Pdus : h = Head(outqueue)
  BY FirstPdu
<1>3. /\ h.id \in Nat /\ Size(h) \in Nat /\ h.num_done \in Nat /\ wr.total \in Nat
      /\ wr = [iov |-> wr.iov, total |-> wr.total] /\ Done \in Nat
  BY <1>2, PduSize, FirstPdu DEF QueuesSound
<1>4. /\ Head(outqueue)' = h /\ Size(Head(outqueue))' = Size(h)
      /\ \A i \in DOMAIN outqueue' : i > 1 => outqueue'[i].num_done = 0
  BY <1>1, <1>2 DEF Size, WriteInv
<1>5. wr.iov \in Seq(Nat) /\ Total(wr.iov) = Size(h) - Done /\ Done = h.num_done + wr.total
  BY <1>1, <1>2 DEF WriteInv, Done
<1>6. /\ Head(wr.iov) \in Nat /\ Tail(wr.iov) \in Seq(Nat) /\ Total(Tail(wr.iov)) \in Nat
      /\ Total(wr.iov) = Head(wr.iov) + Total(Tail(wr.iov))
  BY <1>1, <1>5, TotalHead
<1>7. Done' = h.num_done + wr'.total
  BY <1>4 DEF Done
<1>8. CASE SendVector
  <2>1. PICK n \in 0..Head(wr.iov) :
          /\ Put(n)
          /\ wr' = [iov |-> IF n < Head(wr.iov) THEN <<>> ELSE Tail(wr.iov),
                    total |-> wr.total + n]
    BY <1>8, Zenon DEF SendVector
  <2>2. n \in Nat /\ n <= Head(wr.iov)
    BY <1>6
  <2>3. /\ wr'.total = wr.total + n
        /\ wr'.iov = IF n < Head(wr.iov) THEN <<>> ELSE Tail(wr.iov)
    BY <2>1
  <2>4. pc' = "sending"
    BY <1>1, <1>8 DEF SendVector
  <2>5. Done' = Done + n
    BY <1>3, <1>5, <1>7, <2>2, <2>3
  <2>6. Done' <= Size(h) /\ (n = Head(wr.iov) => Total(Tail(wr.iov)) = Size(h) - Done')
    <3>1. \A d, z, a, r, k \in Nat : a + r = z - d /\ k <= a =>
              d + k <= z /\ (k = a => r = z - (d + k))
      OBVIOUS
    <3>2. Head(wr.iov) + Total(Tail(wr.iov)) = Size(h) - Done
      BY <1>5, <1>6
    <3>3. Done + n <= Size(h) /\ (n = Head(wr.iov) => Total(Tail(wr.iov)) = Size(h) - (Done + n))
      BY <1>3, <1>6, <2>2, <3>1, <3>2
    <3> QED BY <2>5, <3>3
  <2>7. wr'.iov \in Seq(Nat) /\ (wr'.iov # <<>> => Total(wr'.iov) = Size(h) - Done')
    <3>1. CASE n < Head(wr.iov)
      BY <2>3, <3>1
    <3>2. CASE ~(n < Head(wr.iov))
      <4>1. n = Head(wr.iov) /\ wr'.iov = Tail(wr.iov)
        BY <1>6, <2>2, <2>3, <3>2
      <4> QED BY <1>6, <2>6, <4>1
    <3> QED BY <3>1, <3>2
  <2>8. WriteInv'
    BY <1>4, <2>4, <2>6, <2>7 DEF WriteInv
  <2>9. wire # <<>>
    BY DEF WireInv
  <2>10. WireInv'
    BY <1>1, <2>1, <2>2, <2>3, <2>9, PutWire
  <2> QED BY <2>8, <2>10
<1>9. CASE SkipVector
  <2>1. wr' = [wr EXCEPT !.iov = Tail(@)] /\ wire' = wire /\ pc' = pc /\ Head(wr.iov) = 0
    BY <1>9 DEF SkipVector, app
  <2>2. wr'.iov = Tail(wr.iov) /\ wr'.total = wr.total
    BY <1>3, <2>1
  <2>3. Done' = Done
    BY <1>5, <1>7, <2>2
  <2>4. WriteInv'
    <3>1. Total(Tail(wr.iov)) = Size(h) - Done
      BY <1>5, <1>6, <2>1
    <3>2. Done <= Size(h)
      BY <1>2 DEF WriteInv
    <3> QED BY <1>1, <1>4, <1>6, <2>1, <2>2, <2>3, <3>1, <3>2 DEF WriteInv
  <2>5. Progress' = Progress
    BY <1>1, <1>2, <1>4, <2>3 DEF Progress, Marks
  <2> QED BY <1>1, <2>1, <2>4, <2>5, QuietWire
<1>10. CASE SendFails
  <2>1. /\ wire' = wire
        /\ \/ wr' = [wr EXCEPT !.iov = <<>>] /\ pc' = pc
           \/ wr' = NoWrite /\ pc' = back /\ ~(wr.total > 0)
    BY <1>10 DEF SendFails
  <2>2. wr'.iov = <<>> /\ wr'.total = wr.total
    BY <1>3, <2>1 DEF NoWrite
  <2>3. Done' = Done
    BY <1>5, <1>7, <2>2
  <2>4. WriteInv'
    <3>1. Done <= Size(h)
      BY <1>2 DEF WriteInv
    <3>2. <<>> \in Seq(Nat)
      OBVIOUS
    <3> QED BY <1>1, <1>4, <2>1, <2>2, <2>3, <3>1, <3>2 DEF WriteInv
  <2>5. Progress' = Progress
    BY <1>1, <1>2, <1>4, <2>3 DEF Progress, Marks
  <2> QED BY <1>1, <2>1, <2>4, <2>5, QuietWire
<1> QED BY <1>8, <1>9, <1>10

(* The first request is gone: nothing of the next ones has been sent.      *)
LEMMA FreshQueue ==
    ASSUME QueuesSound', wr' = NoWrite,
           \A i \in DOMAIN outqueue' : outqueue'[i].num_done = 0
    PROVE  WriteInv' /\ Progress' = {}
<1>1. wr'.iov = <<>> /\ wr'.total = 0 /\ wr'.iov \in Seq(Nat)
  BY DEF NoWrite
<1>2. outqueue' \in Seq(Pdus)
  BY DEF QueuesSound
<1>3. ASSUME outqueue' # <<>>
      PROVE  Done' = 0 /\ Size(Head(outqueue))' \in Nat
  <2>1. Head(outqueue') = outqueue'[1] /\ Head(outqueue') \in Pdus /\ 1 \in DOMAIN outqueue'
    <3>1. Head(outqueue') = outqueue'[1] /\ Head(outqueue') \in Pdus
      BY <1>2, <1>3, TailSeq
    <3>2. 1 \in DOMAIN outqueue'
      BY <1>2, <1>3, SeqElements
    <3> QED BY <3>1, <3>2
  <2>2. Size(Head(outqueue')) \in Nat
    BY <2>1, PduSize
  <2>3. Size(Head(outqueue))' = Size(Head(outqueue'))
    BY DEF Size
  <2>4. Done' = 0
    BY <1>1, <2>1 DEF Done
  <2> QED BY <2>2, <2>3, <2>4
<1>4. Progress' = {}
  BY <1>3 DEF Progress, Marks
<1>5. outqueue' # <<>> => Done' <= Size(Head(outqueue))'
  BY <1>3
<1>6. WriteInv'
  BY <1>1, <1>5 DEF WriteInv
<1> QED BY <1>4, <1>6

(* The first request leaves the queue: it was sent whole, or what was sent *)
(* of it is a fragment that was given up.                                  *)
LEMMA HeadLeaves ==
    ASSUME QueuesSound, QueuesSound', WriteInv, WireInv, outqueue # <<>>,
           wr' = NoWrite, UNCHANGED <<wire, ext_connected>>, cut \subseteq cut',
           \A i \in DOMAIN outqueue' :
               \E j \in DOMAIN outqueue : j > 1 /\ outqueue'[i] = outqueue[j],
           \/ Done = Size(Head(outqueue))
           \/ Done > 0 => Head(outqueue).id \in cut'
    PROVE  WriteInv' /\ WireInv'
<1>1. \A i \in DOMAIN outqueue' : outqueue'[i].num_done = 0
  BY DEF WriteInv
<1>2. WriteInv' /\ Progress' = {}
  BY <1>1, FreshQueue
<1>3. \A b \in Progress : EndsIn(b, cut')
  BY DEF Progress, Marks, Byte, EndsIn
<1> QED BY <1>2, <1>3, QuietWire

(* ext_queue_write returns. *)
LEMMA SentStep ==
    ASSUME QueuesSound, QueuesSound', WriteInv, WireInv, outqueue # <<>>, Sent
    PROVE  WriteInv' /\ WireInv'
<1>1. /\ UNCHANGED <<wire, ext_connected, cut>> /\ wr' = NoWrite /\ pc' = "writing"
      /\ outqueue \in Seq(Pdus)
  BY DEF Sent, app, QueuesSound
<1>2. PICK h \in Pdus : h = Head(outqueue)
  BY FirstPdu
<1> DEFINE p == [h EXCEPT !.num_done = @ + wr.total]
<1>3. /\ h.num_done \in Nat /\ wr.total \in Nat /\ Done = h.num_done + wr.total
      /\ Size(h) \in Nat /\ h.iov \in Shapes
  BY <1>2, PduSize DEF QueuesSound, Done, Pdus
<1>4. p \in Pdus /\ p.num_done = Done /\ p.id = h.id /\ p.iov = h.iov
  BY <1>3 DEF Pdus
<1>5. Size(p) = Size(h)
  BY <1>4 DEF Size
<1>6. IF p.num_done = Size(p) THEN outqueue' = Tail(outqueue)
      ELSE outqueue' = <<p>> \o Tail(outqueue)
  BY <1>2 DEF Sent
<1> HIDE DEF p
<1>7. PICK t \in Seq(Pdus) : /\ t = Tail(outqueue) /\ Len(t) = Len(outqueue) - 1
                             /\ \A i \in 1..(Len(outqueue) - 1) : t[i] = outqueue[i + 1]
  <2>1. /\ Tail(outqueue) \in Seq(Pdus) /\ Len(Tail(outqueue)) = Len(outqueue) - 1
        /\ \A i \in 1..(Len(outqueue) - 1) : Tail(outqueue)[i] = outqueue[i + 1]
    BY <1>1, HeadTailProperties
  <2> QED BY <2>1
<1>8. Len(outqueue) \in Nat /\ DOMAIN outqueue = 1..Len(outqueue) /\ DOMAIN t = 1..Len(t)
  BY <1>1, <1>7, SeqElements
<1>9. \A i \in DOMAIN t : \E j \in DOMAIN outqueue : j > 1 /\ t[i] = outqueue[j]
  <2> SUFFICES ASSUME NEW i \in DOMAIN t
               PROVE  \E j \in DOMAIN outqueue : j > 1 /\ t[i] = outqueue[j]
    OBVIOUS
  <2>1. i \in 1..(Len(outqueue) - 1) /\ i + 1 \in 1..Len(outqueue) /\ i + 1 > 1
    BY <1>7, <1>8
  <2> QED BY <1>7, <1>8, <2>1
<1>10. CASE p.num_done = Size(p)
  <2>1. outqueue' = t /\ Done = Size(Head(outqueue))
    BY <1>2, <1>4, <1>5, <1>6, <1>7, <1>10
  <2>2. \A i \in DOMAIN outqueue' :
            \E j \in DOMAIN outqueue : j > 1 /\ outqueue'[i] = outqueue[j]
    BY <1>9, <2>1
  <2> QED BY <1>1, <2>1, <2>2, HeadLeaves
<1>11. CASE p.num_done # Size(p)
  <2>1. PICK q \in Seq(Pdus) : /\ q = <<p>> /\ Len(q) = 1 /\ q[1] = p
    BY <1>4, SmallSeq
  <2>2. outqueue' = q \o t
    BY <1>6, <1>7, <1>11, <2>1
  <2>3. /\ q \o t \in Seq(Pdus) /\ Len(q \o t) = 1 + Len(t)
        /\ \A i \in 1..(1 + Len(t)) : (q \o t)[i] = IF i <= 1 THEN q[i] ELSE t[i - 1]
    BY <2>1, ConcatProperties
  <2>4. PICK u \in Seq(Pdus) : u = outqueue'
    BY <2>2, <2>3
  <2>5. /\ Len(u) = 1 + Len(t) /\ DOMAIN u = 1..(1 + Len(t)) /\ Len(t) \in Nat
        /\ \A i \in 1..(1 + Len(t)) : u[i] = IF i <= 1 THEN q[i] ELSE t[i - 1]
    BY <1>7, <2>2, <2>3, <2>4, SeqElements
  <2>6. 1 \in 1..(1 + Len(t)) /\ u # <<>>
    BY <2>5
  <2>7. Head(u) = p
    <3>1. Head(u) = u[1] /\ u[1] = q[1]
      BY <2>5, <2>6, TailSeq
    <3> QED BY <2>1, <3>1
  <2>8. \A i \in DOMAIN u : i > 1 => u[i].num_done = 0
    <3> SUFFICES ASSUME NEW i \in DOMAIN u, i > 1 PROVE u[i].num_done = 0
      OBVIOUS
    <3>1. i \in 1..(1 + Len(t)) /\ ~(i <= 1) /\ i - 1 \in 1..Len(t)
      BY <2>5
    <3>2. u[i] = t[i - 1] /\ i - 1 \in DOMAIN t
      BY <1>8, <2>5, <3>1
    <3> QED BY <1>9, <3>2 DEF WriteInv
  <2>9. wr'.iov = <<>> /\ wr'.total = 0 /\ wr'.iov \in Seq(Nat)
    BY <1>1 DEF NoWrite
  <2>10. /\ Done' = Done /\ Head(outqueue)' = p /\ Size(Head(outqueue))' = Size(h)
         /\ outqueue' # <<>>
    <3>1. Head(outqueue)' = p /\ outqueue' # <<>>
      BY <2>4, <2>6, <2>7
    <3>2. Size(Head(outqueue))' = Size(p)
      BY <3>1 DEF Size
    <3>3. Done' = p.num_done + 0
      BY <2>9, <3>1 DEF Done
    <3> QED BY <1>3, <1>4, <1>5, <3>1, <3>2, <3>3
  <2>11. Progress' = Progress
    BY <1>2, <1>4, <2>10 DEF Progress
  <2>12. WriteInv'
    <3>1. Done <= Size(h)
      BY <1>2 DEF WriteInv
    <3> QED BY <1>1, <2>4, <2>8, <2>9, <2>10, <3>1 DEF WriteInv
  <2> QED BY <1>1, <2>11, <2>12, QuietWire
<1> QED BY <1>10, <1>11

(* smb2_timeout_pdus gives up a request of outqueue.                       *)
LEMMA SweepOut ==
    ASSUME QueuesSound, QueuesSound', WriteInv, WireInv, wr' = wr, wr = NoWrite,
           UNCHANGED <<wire, ext_connected>>, NEW k \in DOMAIN outqueue,
           outqueue' = RemoveAt(outqueue, k), GivenUp(outqueue[k])
    PROVE  WriteInv' /\ WireInv'
<1>1. outqueue \in Seq(Pdus)
  BY DEF QueuesSound
<1>2. /\ Len(outqueue) \in Nat /\ DOMAIN outqueue = 1..Len(outqueue) /\ k \in 1..Len(outqueue)
      /\ outqueue # <<>>
  BY <1>1, SeqElements
<1>3. PICK u \in Seq(Pdus) :
         /\ u = outqueue' /\ Len(u) = Len(outqueue) - 1 /\ DOMAIN u = 1..(Len(outqueue) - 1)
         /\ \A j \in 1..(Len(outqueue) - 1) : u[j] = IF j < k THEN outqueue[j] ELSE outqueue[j + 1]
  <2>1. /\ outqueue' \in Seq(Pdus) /\ Len(outqueue') = Len(outqueue) - 1
        /\ \A j \in 1..(Len(outqueue) - 1) :
              outqueue'[j] = IF j < k THEN outqueue[j] ELSE outqueue[j + 1]
    BY <1>1, <1>2, RemoveAtSeq
  <2>2. DOMAIN outqueue' = 1..Len(outqueue')
    BY <2>1, SeqElements
  <2> QED BY <2>1, <2>2
<1>4. cut \subseteq cut' /\ (outqueue[k].num_done > 0 => outqueue[k].id \in cut')
  BY DEF GivenUp
<1>5. wr.total = 0 /\ wr.iov = <<>>
  BY DEF NoWrite
<1>6. /\ 1 \in DOMAIN outqueue /\ Head(outqueue) = outqueue[1]
      /\ Head(outqueue).num_done \in Nat /\ Done = Head(outqueue).num_done
  <2>1. /\ 1 \in DOMAIN outqueue /\ Head(outqueue) = outqueue[1]
        /\ Head(outqueue).num_done \in Nat
    BY <1>2, FirstPdu
  <2> QED BY <1>5, <2>1 DEF Done
<1>7. CASE k = 1
  <2>1. \A i \in DOMAIN u : \E j \in DOMAIN outqueue : j > 1 /\ u[i] = outqueue[j]
    <3> SUFFICES ASSUME NEW i \in DOMAIN u
                 PROVE  \E j \in DOMAIN outqueue : j > 1 /\ u[i] = outqueue[j]
      OBVIOUS
    <3>1. i \in 1..(Len(outqueue) - 1) /\ ~(i < k) /\ i + 1 \in 1..Len(outqueue) /\ i + 1 > 1
      BY <1>2, <1>3, <1>7
    <3> QED BY <1>2, <1>3, <3>1
  <2>2. Done > 0 => Head(outqueue).id \in cut'
    BY <1>4, <1>6, <1>7
  <2>3. \A i \in DOMAIN outqueue' :
            \E j \in DOMAIN outqueue : j > 1 /\ outqueue'[i] = outqueue[j]
    BY <1>3, <2>1
  <2> QED BY <1>2, <1>4, <2>2, <2>3, HeadLeaves
<1>8. CASE k # 1
  <2>1. 1 \in 1..(Len(outqueue) - 1) /\ 1 < k
    BY <1>2, <1>8
  <2>2. u # <<>> /\ u[1] = outqueue[1]
    BY <1>3, <2>1
  <2>3. Head(outqueue') = Head(outqueue) /\ outqueue' # <<>>
    BY <1>3, <1>6, <2>2, TailSeq
  <2>4. Done' = Done /\ Size(Head(outqueue))' = Size(Head(outqueue))
    BY <2>3 DEF Done, Size
  <2>5. Progress' = Progress
    BY <1>2, <2>3, <2>4 DEF Progress
  <2>6. \A i \in DOMAIN u : i > 1 => u[i].num_done = 0
    <3> SUFFICES ASSUME NEW i \in DOMAIN u, i > 1 PROVE u[i].num_done = 0
      OBVIOUS
    <3>1. i \in 1..(Len(outqueue) - 1) /\ i \in DOMAIN outqueue /\ i + 1 \in DOMAIN outqueue
          /\ i + 1 > 1
      BY <1>2, <1>3
    <3>2. u[i] = outqueue[i] \/ u[i] = outqueue[i + 1]
      BY <1>3, <3>1
    <3> QED BY <3>1, <3>2 DEF WriteInv
  <2>7. \A i \in DOMAIN outqueue' : i > 1 => outqueue'[i].num_done = 0
    BY <1>3, <2>6
  <2>8. WriteInv'
    <3>1. wr'.iov = <<>> /\ wr'.iov \in Seq(Nat) /\ wr' = NoWrite
      BY <1>5
    <3> QED BY <1>2, <2>3, <2>4, <2>7, <3>1 DEF WriteInv
  <2> QED BY <1>4, <2>5, <2>8, QuietWire
<1> QED BY <1>7, <1>8

(* smb2_timeout_pdus and the teardown of smb2_destroy_context.             *)
LEMMA GiveUpStep ==
    ASSUME QueuesSound, QueuesSound', WriteInv, WireInv, SweepStep \/ DestroyStep
    PROVE  WriteInv' /\ WireInv'
<1>1. /\ UNCHANGED <<wire, ext_connected, wr>> /\ pc # "sending" /\ wr = NoWrite
      /\ outqueue \in Seq(Pdus)
  BY DEF SweepStep, DestroyStep, Sweeping, app, WriteInv, QueuesSound
<1>2. CASE UNCHANGED <<outqueue, cut>>
  BY <1>1, <1>2, QuietStep
<1>3. CASE SweepStep /\ ~UNCHANGED <<outqueue, cut>>
  <2>1. /\ Expired(outqueue) # {} /\ outqueue' = RemoveAt(outqueue, Min(Expired(outqueue)))
        /\ GivenUp(outqueue[Min(Expired(outqueue))])
    BY <1>3 DEF SweepStep
  <2>2. Expired(outqueue) \subseteq DOMAIN outqueue
    BY DEF Expired
  <2>3. Expired(outqueue) \in SUBSET Nat
    BY <1>1, <2>2, SeqElements
  <2>4. PICK k \in DOMAIN outqueue : k = Min(Expired(outqueue))
    BY <2>1, <2>2, <2>3, MinNat
  <2> QED BY <1>1, <2>1, <2>4, SweepOut
<1>4. CASE DestroyStep /\ ~UNCHANGED <<outqueue, cut>>
  <2>1. outqueue # <<>> /\ outqueue' = Tail(outqueue) /\ GivenUp(Head(outqueue))
    BY <1>4 DEF DestroyStep
  <2>2. PICK t : /\ t = Tail(outqueue) /\ DOMAIN t = 1..(Len(outqueue) - 1)
                 /\ \A i \in 1..(Len(outqueue) - 1) : t[i] = outqueue[i + 1]
    <3>1. /\ Tail(outqueue) \in Seq(Pdus) /\ Len(Tail(outqueue)) = Len(outqueue) - 1
          /\ \A i \in 1..(Len(outqueue) - 1) : Tail(outqueue)[i] = outqueue[i + 1]
      BY <1>1, <2>1, HeadTailProperties
    <3>2. DOMAIN Tail(outqueue) = 1..Len(Tail(outqueue))
      BY <3>1, SeqElements
    <3> QED BY <3>1, <3>2
  <2>3. Len(outqueue) \in Nat /\ DOMAIN outqueue = 1..Len(outqueue)
    BY <1>1, SeqElements
  <2>4. \A i \in DOMAIN t : \E j \in DOMAIN outqueue : j > 1 /\ t[i] = outqueue[j]
    <3> SUFFICES ASSUME NEW i \in DOMAIN t
                 PROVE  \E j \in DOMAIN outqueue : j > 1 /\ t[i] = outqueue[j]
      OBVIOUS
    <3>1. i \in 1..(Len(outqueue) - 1) /\ i + 1 \in 1..Len(outqueue) /\ i + 1 > 1
      BY <2>2, <2>3
    <3> QED BY <2>2, <2>3, <3>1
  <2>5. \A i \in DOMAIN outqueue' :
            \E j \in DOMAIN outqueue : j > 1 /\ outqueue'[i] = outqueue[j]
    BY <2>1, <2>2, <2>4
  <2>6. wr.total = 0 /\ Head(outqueue).num_done \in Nat
    BY <1>1, <2>1, FirstPdu DEF NoWrite
  <2>7. cut \subseteq cut' /\ (Done > 0 => Head(outqueue).id \in cut')
    BY <2>1, <2>6 DEF GivenUp, Done
  <2> QED BY <1>1, <2>1, <2>5, <2>7, HeadLeaves
<1> QED BY <1>2, <1>3, <1>4

(* Every step of the application and of the engine.                        *)
LEMMA NextWire ==
    ASSUME HandleInv, WakeInv, WakeInv', WriteInv, WireInv, [Next]_vars
    PROVE  WriteInv' /\ WireInv'
<1>0. /\ QueuesSound /\ QueuesSound' /\ depth \in Nat
      /\ pc = "sending" => outqueue # <<>> /\ ext_connected
  BY DEF HandleInv, ControlSound, WakeInv
<1>1. CASE ext_connect
  BY <1>1, ConnectStep
<1>2. CASE smb2_queue_pdu
  <2>1. pc # "sending"
    BY <1>0, <1>2 DEF smb2_queue_pdu, InApp, InLoop, InCallback, InWrite
  <2> QED BY <1>0, <1>2, <2>1, QueueStep
<1>3. CASE WriteBegins
  BY <1>0, <1>3, BeginStep
<1>4. CASE SendVector \/ SkipVector \/ SendFails \/ Sent
  <2>1. pc = "sending"
    BY <1>4 DEF SendVector, SkipVector, SendFails, Sent, Sending
  <2> QED BY <1>0, <1>4, <2>1, VectorStep, SentStep
<1>5. CASE SweepStep \/ DestroyStep
  BY <1>0, <1>5, GiveUpStep
<1>6. CASE smb2_set_transport_tcp \/ smb2_set_transport_ext \/ smb2_close_context
           \/ smb2_set_timeout \/ CallbackReturns \/ Tick
  <2>1. UNCHANGED <<outqueue, wr, cut, wire, pc>> /\ (ext_connected' => ext_connected)
    BY <1>6 DEF smb2_set_transport_tcp, smb2_set_transport_ext, smb2_close_context, ext_close,
       smb2_set_timeout, CallbackReturns, Tick, app, queues
  <2> QED BY <2>1, QuietStep
<1>7. CASE Poll \/ Woken \/ ext_service \/ smb2_service_timeout \/ WriteEnds \/ SweepEnds
           \/ smb2_destroy_context \/ DestroyEnds
  <2>1. /\ UNCHANGED <<outqueue, wr, cut, wire>> /\ (ext_connected' => ext_connected)
        /\ pc # "sending"
    BY <1>7 DEF Poll, Woken, ext_service, smb2_service_timeout, WriteEnds, Writing, SweepEnds,
       Sweeping, smb2_destroy_context, ext_close, DestroyEnds, InLoop, app, queues
  <2> QED BY <2>1, QuietStep
<1>8. CASE \/ smb2_recv_again \/ smb2_recv_fails \/ smb2_recv_part \/ smb2_recv_header
           \/ smb2_recv_late \/ smb2_recv_rest \/ smb2_recv_reply
  <2>1. /\ UNCHANGED <<outqueue, wr, cut, wire, ext_connected>> /\ pc # "sending"
    BY <1>8 DEF smb2_recv_again, smb2_recv_fails, smb2_recv_part, smb2_recv_header,
       smb2_recv_late, smb2_recv_rest, smb2_recv_reply, Reading, queues
  <2> QED BY <2>1, QuietStep
<1>9. CASE UNCHANGED vars
  <2>1. UNCHANGED <<outqueue, wr, cut, wire, ext_connected, pc>>
    BY <1>9 DEF vars, app, queues
  <2> QED BY <2>1, QuietStep
<1> QED BY <1>1, <1>2, <1>3, <1>4, <1>5, <1>6, <1>7, <1>8, <1>9 DEF Next

-----------------------------------------------------------------------------
(* The theorems. *)

ExtInv == HandleInv /\ WakeInv /\ WriteInv /\ WireInv

(* The invariant of the external transport and of the timer interface.     *)
THEOREM ExtInvariant == Spec => []ExtInv
<1>1. Init => ExtInv
  <2> SUFFICES ASSUME Init PROVE ExtInv
    OBVIOUS
  <2>1. ExtSound
    <3>1. ext = [type |-> "tcp", close |-> FALSE, handle |-> 0]
          /\ ext_connected = FALSE /\ handle = <<>>
      BY DEF Init
    <3>2. ext \in [type : {"tcp", "ext"}, close : BOOLEAN, handle : Nat]
      BY <3>1
    <3>3. handle \in Seq({"new", "open", "closed"})
      BY <3>1
    <3>4. ext.type # "ext" /\ ~ext.close /\ ~ext_connected /\ ext_connected \in BOOLEAN
      BY <3>1
    <3> QED BY <3>2, <3>3, <3>4, Zenon DEF ExtSound
  <2>2. OpenSound /\ ControlSound /\ OnOpenHandles
    BY DEF Init, OpenSound, ControlSound, OnOpenHandles, InWrite, Ending
  <2>3. QueuesSound
    BY DEF Init, QueuesSound, NoWrite
  <2>4. WakeInv
    BY <2>3 DEF Init, WakeInv
  <2>5. WriteInv /\ Progress = {}
    <3>1. wr.iov = <<>> /\ wr = NoWrite /\ outqueue = <<>>
      BY DEF Init, NoWrite
    <3> QED BY <3>1 DEF WriteInv, Progress
  <2>6. WireInv
    BY <2>5 DEF Init, WireInv, WireSound
  <2> QED BY <2>1, <2>2, <2>4, <2>5, <2>6 DEF ExtInv, HandleInv
<1>2. ExtInv /\ [Next]_vars => ExtInv'
  <2> SUFFICES ASSUME ExtInv, [Next]_vars PROVE ExtInv'
    OBVIOUS
  <2>1. HandleInv /\ WakeInv /\ ControlSound /\ WriteInv /\ WireInv
    BY DEF ExtInv, HandleInv
  <2>2. HandleInv' /\ WakeInv'
    BY <2>1, NextHandle, NextWake
  <2>3. WriteInv' /\ WireInv'
    BY <2>1, <2>2, NextWire
  <2> QED BY <2>2, <2>3 DEF ExtInv
<1> QED BY <1>1, <1>2, PTL DEF Spec

(* No send and no recv is made on a handle that is not open and none is    *)
(* closed twice, whichever callback closes the context under the drain     *)
(* loop, the write or the teardown; and smb2_destroy_context leaves none   *)
(* open but those connected again after their close.                       *)
THEOREM ExtHandleRespected == Spec => []HandleRespected
<1>1. ExtInv => HandleRespected
  <2> SUFFICES ASSUME HandleInv PROVE HandleRespected
    BY DEF ExtInv
  <2>1. NoneLeftOpen
    BY DEF HandleInv, OpenSound, ControlSound, NoneLeftOpen, Ending
  <2> QED BY <2>1 DEF HandleInv, HandleRespected
<1> QED BY <1>1, ExtInvariant, PTL

(* The application, asking smb2_next_timeout_ms how long to wait, never    *)
(* sleeps past the deadline of a request in a queue.                       *)
THEOREM ExtWakesInTime == Spec => []WakesInTime
<1>1. ExtInv => WakesInTime
  <2> SUFFICES ASSUME WakeInv, pc = "polling", NEW p \in Pending, p.timeout # 0
               PROVE  now <= p.timeout \/ (wake # -1 /\ wake <= now)
    BY DEF ExtInv, WakesInTime
  <2>1. wake # -1 /\ (wake <= p.timeout \/ wake <= now)
    BY DEF WakeInv
  <2>2. now \in Nat /\ wake \in Int /\ p.timeout \in Nat
    <3>1. /\ now \in Nat /\ wake \in Int
          /\ outqueue \in Seq(Pdus) /\ waitqueue \in Seq(Pdus)
      BY DEF WakeInv, QueuesSound
    <3>2. p \in Pdus
      BY <3>1, QueueTypes DEF Pending
    <3> QED BY <3>1, <3>2 DEF Pdus
  <2> QED BY <2>1, <2>2
<1> QED BY <1>1, ExtInvariant, PTL

(* What is sent on a connection is whole requests one after the other,     *)
(* however ext_queue_write and the application's send cut them, for        *)
(* requests of any number of vectors of any length: a byte follows the one *)
(* before it in its request, and a request begins where another ends.  A   *)
(* request that timed out in part is the only fragment, and one whose      *)
(* connection was closed goes on in a later one.                           *)
THEOREM ExtWireWhole == Spec => []WireWhole
<1>1. ExtInv => WireWhole
  <2> SUFFICES ASSUME WireInv PROVE WireWhole
    BY DEF ExtInv
  <2>1. \A c \in DOMAIN wire : \A i \in DOMAIN wire[c] : Fits(wire, cut, c, i)
    BY DEF WireInv, WireSound
  <2> QED BY <2>1 DEF WireWhole, BeforeOn, Fits, EndsIn
<1> QED BY <1>1, ExtInvariant, PTL
=============================================================================
