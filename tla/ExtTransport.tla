---------------------------- MODULE ExtTransport ----------------------------
(***************************************************************************)
(* The external transport (transport-external.c, the ext parts of          *)
(* socket.c and init.c) and the timer interface (timer.c).  The            *)
(* application supplies connect, send, recv and close and drives the       *)
(* engine from its own loop: it asks for the next deadline, waits no       *)
(* longer than that, and calls smb2_service and smb2_service_timeout.      *)
(* Every callback of the application is a step of its own; while a         *)
(* completion callback of a request runs it may queue requests, close the  *)
(* context and connect it again.                                           *)
(***************************************************************************)
EXTENDS Integers, FiniteSets, SequencesExt

CONSTANTS
    Shapes,       \* frames: the lengths of the vectors of a request, the SPL first
    Timeouts,     \* values given to smb2_set_timeout
    MaxRequests,  \* bound: requests queued
    MaxHandles,   \* bound: calls of smb2_set_transport with an external transport
    MaxConns,     \* bound: successful calls of the connect callback
    MaxDepth,     \* bound: callbacks nested in callbacks
    MaxNow,       \* bound: the clock
    MaxPoll       \* INT_MAX / 1000: the longest poll timeout, in seconds

ASSUME ExtAssumption ==
    /\ \A s \in Shapes : s # <<>> /\ s \in Seq(Nat)
    /\ \E s \in Shapes : TRUE
    /\ Timeouts \subseteq Nat
    /\ {MaxRequests, MaxHandles, MaxConns, MaxDepth, MaxNow, MaxPoll} \subseteq Nat

VARIABLES
    ext,            \* [type, close, handle]: transport_type, ext.close # NULL, ext.userdata
    ext_connected,
    handle,         \* the application's handles: "new", "open" or "closed"
    calls,          \* history: what was called on a handle, and its state then
    reopened,       \* history: handles connected when ext.close was NULL
    outqueue, waitqueue,  \* requests, oldest first
    pdu,            \* smb2->pdu: the request whose reply is being read, or none
    queued,         \* the number of requests queued so far
    cut,            \* history: requests given up with a part of them sent
    credits,
    wire,           \* for every connection the bytes sent on it
    in,             \* smb2->in: "empty", part of a "header", of a "body" or of one to
                    \* "discard"
    timeout,        \* smb2->timeout, in seconds
    now,
    pc,             \* what the engine is doing
    back,           \* what it goes on with when smb2_write_to_socket returns
    wr,             \* ext_queue_write: the vectors to send and the total so far
    depth,          \* callbacks on the stack
    wake            \* when poll() returns at the latest, -1 for never

app == <<handle, calls, reopened, wire>>
queues == <<outqueue, waitqueue, pdu, queued, credits, cut>>
vars == <<ext, ext_connected, app, queues, in, timeout, now, pc, back, wr, depth, wake>>

NoWrite == [iov |-> <<>>, total |-> 0]

Init ==
    /\ ext = [type |-> "tcp", close |-> FALSE, handle |-> 0]
    /\ ext_connected = FALSE
    /\ handle = <<>> /\ calls = {} /\ reopened = {} /\ wire = <<>>
    /\ outqueue = <<>> /\ waitqueue = <<>> /\ pdu = <<>> /\ queued = 0 /\ credits = 1
    /\ cut = {}
    /\ in = "empty" /\ timeout = 0 /\ now = 1
    /\ pc = "loop" /\ back = "loop" /\ wr = NoWrite /\ depth = 0 /\ wake = 0

(* The application has control: it is in its loop, or in a callback.  A    *)
(* send callback makes no call of the library.                             *)
InWrite == pc \in {"writing", "sending"}
InLoop == pc = "loop" /\ depth = 0
InCallback == depth > 0 /\ ~InWrite
InApp == InLoop \/ InCallback

Total(v) == FoldLeft(+, 0, v)
Size(p) == Total(p.iov)

-----------------------------------------------------------------------------
(* Calls of the application. *)

(* SMB2_TRANSPORT_TCP, or AUTO without ext: the callbacks are dropped. *)
smb2_set_transport_tcp ==
    /\ InLoop /\ ~ext_connected /\ ext.type # "tcp"
    /\ ext' = [type |-> "tcp", close |-> FALSE, handle |-> 0]
    /\ ext_connected' = FALSE
    /\ UNCHANGED <<app, queues, in, timeout, now, pc, back, wr, depth, wake>>

(* SMB2_TRANSPORT_QUIC, or AUTO with all four callbacks.  The application  *)
(* does not change the transport of an established connection.             *)
smb2_set_transport_ext ==
    /\ InLoop /\ ~ext_connected /\ Len(handle) < MaxHandles
    /\ ext' = [type |-> "ext", close |-> TRUE, handle |-> Len(handle) + 1]
    /\ handle' = Append(handle, "new")
    /\ ext_connected' = FALSE
    /\ UNCHANGED <<calls, reopened, wire, queues, in, timeout, now, pc, back, wr, depth, wake>>

Called(op) == calls' = calls \cup {<<op, handle[ext.handle]>>}

(* The connection is up as soon as connect returns; connect_cb runs at     *)
(* once.  When connect fails nothing changes.                              *)
ext_connect ==
    /\ InApp /\ pc \notin {"destroying", "draining"} /\ ext.type = "ext" /\ ~ext_connected
    /\ depth < MaxDepth /\ Len(wire) < MaxConns
    /\ handle' = [handle EXCEPT ![ext.handle] = "open"]
    /\ reopened' = IF ext.close THEN reopened ELSE reopened \cup {ext.handle}
    /\ wire' = Append(wire, <<>>)
    /\ ext_connected' = TRUE
    /\ depth' = depth + 1
    /\ UNCHANGED <<ext, calls, queues, in, timeout, now, pc, back, wr, wake>>

(* ext.close is cleared before it is called, so it is called once.         *)
ext_close ==
    /\ IF ext.close
       THEN /\ Called("close")
            /\ handle' = [handle EXCEPT ![ext.handle] = "closed"]
       ELSE UNCHANGED <<calls, handle>>
    /\ ext' = [ext EXCEPT !.close = FALSE]
    /\ ext_connected' = FALSE
    /\ UNCHANGED <<reopened, wire>>

(* The queues and what has been read of a reply stay as they are. *)
smb2_close_context ==
    /\ InApp /\ ext.type = "ext"
    /\ ext_close
    /\ UNCHANGED <<queues, in, timeout, now, pc, back, wr, depth, wake>>

(* A request that is alone in outqueue is written at once, from wherever   *)
(* it was queued.                                                          *)
smb2_queue_pdu ==
    /\ InApp /\ queued < MaxRequests
    /\ queued' = queued + 1
    /\ \E s \in Shapes :
         outqueue' = Append(outqueue, [id |-> queued', iov |-> s, num_done |-> 0,
                               timeout |-> IF timeout = 0 THEN 0 ELSE now + timeout])
    /\ IF outqueue = <<>> /\ ext.type = "ext"
       THEN pc' = "writing" /\ back' = pc
       ELSE UNCHANGED <<pc, back>>
    /\ UNCHANGED <<ext, ext_connected, app, waitqueue, pdu, credits, cut, in, timeout, now,
                   wr, depth, wake>>

smb2_set_timeout ==
    /\ InLoop
    /\ \E t \in Timeouts \ {timeout} : timeout' = t
    /\ UNCHANGED <<ext, ext_connected, app, queues, in, now, pc, back, wr, depth, wake>>

(* A callback of the application returns to the engine. *)
CallbackReturns ==
    /\ InCallback
    /\ depth' = depth - 1
    /\ UNCHANGED <<ext, ext_connected, app, queues, in, timeout, now, pc, back, wr, wake>>

-----------------------------------------------------------------------------
(* Waiting: the deadline of a request is the only timer of this backend.   *)

Pending == Range(outqueue) \cup Range(waitqueue)
smb2_earliest_deadline_waiting ==
    LET set == {p.timeout : p \in {q \in Range(waitqueue) : q.timeout # 0}}
    IN  IF set = {} THEN 0 ELSE Min(set)

smb2_earliest_deadline ==
    LET set == {p.timeout : p \in {q \in Pending : q.timeout # 0}}
    IN  IF set = {} THEN 0 ELSE Min(set)

smb2_next_timeout_ms ==
    LET deadline == smb2_earliest_deadline
    IN  CASE deadline = 0 -> -1
          [] deadline # 0 /\ deadline <= now -> 0
          [] OTHER -> Min({deadline - now, MaxPoll})

(* smb2_get_fds: this backend alone would wait for ever.  The application polls. *)
Poll ==
    /\ InLoop /\ ext.type = "ext"
    /\ pc' = "polling"
    /\ wake' = IF smb2_next_timeout_ms < 0 THEN -1 ELSE now + smb2_next_timeout_ms
    /\ UNCHANGED <<ext, ext_connected, app, queues, in, timeout, now, back, wr, depth>>

(* Time passes; a poll returns when its timeout has passed.  A sweep reads *)
(* the clock once, so that it stands still meanwhile.                      *)
InSweep == pc = "sweeping" \/ (InWrite /\ depth > 0 /\ back = "sweeping")

Tick ==
    /\ now < MaxNow /\ ~InSweep
    /\ pc = "polling" /\ wake # -1 => now < wake
    /\ now' = now + 1
    /\ UNCHANGED <<ext, ext_connected, app, queues, in, timeout, pc, back, wr, depth, wake>>

Woken ==
    /\ pc = "polling"
    /\ pc' = "loop" /\ wake' = 0
    /\ UNCHANGED <<ext, ext_connected, app, queues, in, timeout, now, back, wr, depth>>

-----------------------------------------------------------------------------
(* smb2_service: ext_service reads, writes and sweeps. *)

CanSend == outqueue # <<>> /\ credits > 0
ext_which_events == {"POLLIN"} \cup (IF CanSend THEN {"POLLOUT"} ELSE {})

ext_service ==
    /\ InLoop /\ ext.type = "ext"
    /\ pc' = IF "POLLOUT" \in ext_which_events THEN "reading" ELSE "readonly"
    /\ UNCHANGED <<ext, ext_connected, app, queues, in, timeout, now, back, wr, depth, wake>>

Reading == depth = 0 /\ pc \in {"reading", "readonly"}
AfterRead == IF pc = "reading" THEN "writing" ELSE "sweeping"

(* Nothing is read on a transport that has been closed. *)
MayRecv_always == TRUE

MayRecv == ext_connected

(* The drain loop ends: nothing to read yet, or the transport is closed. *)
smb2_recv_again ==
    /\ Reading
    /\ IF MayRecv THEN Called("recv") ELSE UNCHANGED calls
    /\ pc' = AfterRead
    /\ back' = "sweeping"
    /\ UNCHANGED <<ext, ext_connected, handle, reopened, wire, queues, in, timeout, now,
                   wr, depth, wake>>

(* Peer close, an error, more bytes than asked for, or a reply that cannot *)
(* be used: the service fails, after the sweep.                            *)
smb2_recv_fails ==
    /\ Reading /\ MayRecv
    /\ Called("recv")
    /\ pc' = "sweeping"
    /\ UNCHANGED <<ext, ext_connected, handle, reopened, wire, queues, in, timeout, now,
                   back, wr, depth, wake>>

(* recv returns part of a frame. *)
smb2_recv_part ==
    /\ Reading /\ MayRecv /\ in = "empty"
    /\ Called("recv")
    /\ in' = "header"
    /\ UNCHANGED <<ext, ext_connected, handle, reopened, wire, queues, timeout, now,
                   pc, back, wr, depth, wake>>

(* The rest of a header, with a credit.  Its request leaves waitqueue and  *)
(* is in smb2->pdu alone from here on.                                     *)
smb2_recv_header ==
    /\ Reading /\ MayRecv /\ in = "header"
    /\ Called("recv")
    /\ \E i \in DOMAIN waitqueue : /\ pdu' = <<waitqueue[i]>>
                                   /\ waitqueue' = RemoveAt(waitqueue, i)
    /\ credits' = credits + 1
    /\ in' = "body"
    /\ UNCHANGED <<ext, ext_connected, handle, reopened, wire, outqueue, queued, cut,
                   timeout, now, pc, back, wr, depth, wake>>

(* The header of a reply that comes late: its request has been given up    *)
(* since it was sent, with the one credit it took.                         *)
smb2_recv_late ==
    /\ Reading /\ MayRecv /\ in = "header"
    /\ 1 - credits > Len(waitqueue)
    /\ Called("recv")
    /\ credits' = credits + 1
    /\ in' = "discard"
    /\ UNCHANGED <<ext, ext_connected, handle, reopened, wire, outqueue, waitqueue, pdu,
                   queued, cut, timeout, now, pc, back, wr, depth, wake>>

(* The last bytes of a late reply. *)
smb2_recv_rest ==
    /\ Reading /\ MayRecv /\ in = "discard"
    /\ Called("recv")
    /\ in' = "empty"
    /\ UNCHANGED <<ext, ext_connected, handle, reopened, wire, queues, timeout, now,
                   pc, back, wr, depth, wake>>

(* The last bytes of a reply: the callback of its request runs, with the    *)
(* drain loop on the stack.  Another reply may follow in the same frame.    *)
smb2_recv_reply ==
    /\ Reading /\ MayRecv /\ in = "body"
    /\ Called("recv")
    /\ pdu' = <<>>
    /\ in' \in {"empty", "header"}
    /\ depth' = 1
    /\ UNCHANGED <<ext, ext_connected, handle, reopened, wire, outqueue, waitqueue, queued,
                   credits, cut, timeout, now, pc, back, wr, wake>>

-----------------------------------------------------------------------------
(* smb2_write_to_socket, and ext_queue_write one vector at a time. *)

Writing == pc = "writing"

(* The vectors of a request that are left after n bytes: those that have   *)
(* been sent whole are dropped, and the first of the others is shortened.  *)
Unsent(v, n) ==
    LET whole == Max({k \in 0..Len(v) : Total(SubSeq(v, 1, k)) <= n})
    IN  IF whole = Len(v) THEN <<>>
        ELSE <<Total(SubSeq(v, 1, whole + 1)) - n>> \o SubSeq(v, whole + 2, Len(v))

(* The queue is empty, the credits are used up, or the transport is closed: *)
(* ext_queue_write reports would-block.                                     *)
MaySend == ext_connected

WriteEnds ==
    /\ Writing
    /\ ~CanSend \/ ~MaySend
    /\ pc' = back
    /\ UNCHANGED <<ext, ext_connected, app, queues, in, timeout, now, back, wr, depth, wake>>

WriteBegins ==
    /\ Writing /\ CanSend /\ MaySend
    /\ pc' = "sending"
    /\ wr' = [iov |-> Unsent(Head(outqueue).iov, Head(outqueue).num_done), total |-> 0]
    /\ UNCHANGED <<ext, ext_connected, app, queues, in, timeout, now, back, depth, wake>>

Sending == pc = "sending"

(* The next n bytes of the request, those behind them in wr.iov, reach the wire. *)
Put(n) ==
    LET p == Head(outqueue)
        from == Size(p) - Total(wr.iov)
    IN  wire' = [wire EXCEPT ![Len(wire)] = @ \o
                   [k \in 1..n |-> [id |-> p.id, off |-> from + k, size |-> Size(p)]]]

SendVector_goes_on ==
    /\ Sending /\ wr.iov # <<>> /\ Head(wr.iov) > 0
    /\ \E n \in 0..Head(wr.iov) :
         /\ Put(n)
         /\ wr' = [iov |-> Tail(wr.iov), total |-> wr.total + n]
    /\ Called("send")
    /\ UNCHANGED <<ext, ext_connected, handle, reopened, queues, in, timeout, now, pc, back, depth, wake>>

(* send takes n bytes of the next vector.  A short write ends the call. *)
SendVector ==
    /\ Sending /\ wr.iov # <<>> /\ Head(wr.iov) > 0
    /\ \E n \in 0..Head(wr.iov) :
         /\ Put(n)
         /\ wr' = [iov |-> IF n < Head(wr.iov) THEN <<>> ELSE Tail(wr.iov),
                   total |-> wr.total + n]
    /\ Called("send")
    /\ UNCHANGED <<ext, ext_connected, handle, reopened, queues, in, timeout, now, pc, back, depth, wake>>

(* Empty vectors are skipped. *)
SkipVector ==
    /\ Sending /\ wr.iov # <<>> /\ Head(wr.iov) = 0
    /\ wr' = [wr EXCEPT !.iov = Tail(@)]
    /\ UNCHANGED <<ext, ext_connected, app, queues, in, timeout, now, pc, back, depth, wake>>

(* send fails, would block or claims too much: what was sent before counts; *)
(* if that is nothing the write ends, with an error or until the next call. *)
SendFails ==
    /\ Sending /\ wr.iov # <<>> /\ Head(wr.iov) > 0
    /\ Called("send")
    /\ IF wr.total > 0
       THEN wr' = [wr EXCEPT !.iov = <<>>] /\ pc' = pc
       ELSE wr' = NoWrite /\ pc' = back
    /\ UNCHANGED <<ext, ext_connected, handle, reopened, wire, queues, in, timeout, now,
                   back, depth, wake>>

(* ext_queue_write returns: the request is on the wire, or its rest stays.  *)
Sent ==
    /\ Sending /\ wr.iov = <<>>
    /\ LET p == [Head(outqueue) EXCEPT !.num_done = @ + wr.total]
       IN  IF p.num_done = Size(p)
           THEN /\ outqueue' = Tail(outqueue)
                /\ waitqueue' = Append(waitqueue, p)
                /\ credits' = credits - 1
           ELSE /\ outqueue' = <<p>> \o Tail(outqueue)
                /\ UNCHANGED <<waitqueue, credits>>
    /\ wr' = NoWrite /\ pc' = "writing"
    /\ UNCHANGED <<ext, ext_connected, app, pdu, queued, cut, in, timeout, now, back, depth, wake>>

-----------------------------------------------------------------------------
(* smb2_timeout_pdus, from ext_service or from smb2_service_timeout and    *)
(* ext_timer: expired requests leave their queue and are called back.      *)

smb2_service_timeout ==
    /\ InLoop /\ ext.type = "ext"
    /\ pc' = "sweeping"
    /\ UNCHANGED <<ext, ext_connected, app, queues, in, timeout, now, back, wr, depth, wake>>

Sweeping == depth = 0 /\ pc = "sweeping"
Due(p) == p.timeout # 0 /\ p.timeout < now
Expired(q) == {i \in DOMAIN q : Due(q[i])}

GivenUp(p) == cut' = IF p.num_done > 0 THEN cut \cup {p.id} ELSE cut

SweepStep ==
    /\ Sweeping /\ timeout # 0
    /\ \/ /\ Expired(outqueue) # {}
          /\ outqueue' = RemoveAt(outqueue, Min(Expired(outqueue)))
          /\ GivenUp(outqueue[Min(Expired(outqueue))])
          /\ UNCHANGED waitqueue
       \/ /\ Expired(outqueue) = {} /\ Expired(waitqueue) # {}
          /\ waitqueue' = RemoveAt(waitqueue, Min(Expired(waitqueue)))
          /\ UNCHANGED <<outqueue, cut>>
    /\ depth' = 1
    /\ UNCHANGED <<ext, ext_connected, app, pdu, queued, credits, in, timeout, now, pc, back, wr, wake>>

SweepEnds ==
    /\ Sweeping
    /\ timeout = 0 \/ Expired(outqueue) \cup Expired(waitqueue) = {}
    /\ pc' = "loop"
    /\ UNCHANGED <<ext, ext_connected, app, queues, in, timeout, now, back, wr, depth, wake>>

-----------------------------------------------------------------------------
(* smb2_destroy_context closes the transport and then ends every request.  *)
(* The callback of a request may close the context again.                  *)
smb2_destroy_context ==
    /\ InLoop /\ ext.type = "ext"
    /\ ext_close
    /\ pc' = "destroying"
    /\ UNCHANGED <<queues, in, timeout, now, back, wr, depth, wake>>

DestroyStep ==
    /\ depth = 0
    /\ \/ /\ pc = "destroying" /\ outqueue # <<>>
          /\ outqueue' = Tail(outqueue) /\ GivenUp(Head(outqueue))
          /\ UNCHANGED <<waitqueue, pdu, pc>>
       \/ /\ pc = "destroying" /\ outqueue = <<>> /\ pdu # <<>>
          /\ pdu' = <<>> /\ pc' = "draining"
          /\ UNCHANGED <<outqueue, waitqueue, cut>>
       \/ /\ waitqueue # <<>>
          /\ pc = "draining" \/ (pc = "destroying" /\ outqueue = <<>> /\ pdu = <<>>)
          /\ waitqueue' = Tail(waitqueue) /\ pc' = "draining"
          /\ UNCHANGED <<outqueue, pdu, cut>>
    /\ depth' = 1
    /\ UNCHANGED <<ext, ext_connected, app, queued, credits, in, timeout, now, back, wr, wake>>

(* A request that the callbacks of the last ones queued stays behind.      *)
DestroyEnds ==
    /\ depth = 0 /\ waitqueue = <<>>
    /\ pc = "draining" \/ (pc = "destroying" /\ outqueue = <<>> /\ pdu = <<>>)
    /\ pc' = "destroyed"
    /\ UNCHANGED <<ext, ext_connected, app, queues, in, timeout, now, back, wr, depth, wake>>

-----------------------------------------------------------------------------
Next ==
    \/ smb2_set_transport_tcp \/ smb2_set_transport_ext
    \/ ext_connect \/ smb2_close_context
    \/ smb2_queue_pdu \/ smb2_set_timeout \/ CallbackReturns
    \/ Poll \/ Tick \/ Woken
    \/ ext_service \/ smb2_service_timeout
    \/ smb2_recv_again \/ smb2_recv_fails \/ smb2_recv_part \/ smb2_recv_header
    \/ smb2_recv_late \/ smb2_recv_rest \/ smb2_recv_reply
    \/ WriteEnds \/ WriteBegins \/ SendVector \/ SkipVector \/ SendFails \/ Sent
    \/ SweepStep \/ SweepEnds
    \/ smb2_destroy_context \/ DestroyStep \/ DestroyEnds

Spec == Init /\ [][Next]_vars

-----------------------------------------------------------------------------
OnOpenHandles ==
    calls \subseteq {<<"send", "open">>, <<"recv", "open">>,
                     <<"close", "open">>, <<"close", "new">>}
NoneLeftOpen ==
    pc = "destroyed" => \A h \in DOMAIN handle : handle[h] = "open" => h \in reopened

(* The application may free its handle in close: no send and no recv is    *)
(* ever made on a handle that is not open, and none is closed twice,       *)
(* whichever callback closes the context and whatever the drain loop, the  *)
(* write and the teardown do afterwards.  And a context that has been      *)
(* destroyed leaves no connection open, but for one that was connected     *)
(* again after a close, for which the close callback has been forgotten.   *)
HandleRespected == OnOpenHandles /\ NoneLeftOpen

(* What is sent on a connection is whole requests one after the other,     *)
(* however the application's send cuts them: a byte that is not the first  *)
(* of its request follows the one before it, and a request begins where    *)
(* another ends.  Two cases apart: a request that timed out with a part    *)
(* written stays a fragment, and one whose connection was closed in the    *)
(* middle goes on in the next connection.                                  *)
BeforeOn(b, d) == \E i \in DOMAIN wire[d] : wire[d][i] = [b EXCEPT !.off = @ - 1]
WireWhole ==
    \A c \in DOMAIN wire : \A i \in DOMAIN wire[c] :
      LET b == wire[c][i]
          a == wire[c][i - 1]
      IN  IF b.off > 1
          THEN IF i = 1 THEN \E d \in 1..c - 1 : BeforeOn(b, d) ELSE a = [b EXCEPT !.off = @ - 1]
          ELSE i = 1 \/ a.off = a.size \/ a.id \in cut

(* The application never sleeps past the deadline of a request in a queue: *)
(* poll ends at the latest when the first one is reached.  The request     *)
(* whose reply is half read is in no queue, and nothing wakes the          *)
(* application for its deadline.                                           *)
WakesInTime ==
    pc = "polling" =>
      \A p \in Pending : p.timeout # 0 => now <= p.timeout \/ (wake # -1 /\ wake <= now)

=============================================================================
