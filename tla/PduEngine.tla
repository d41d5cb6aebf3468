----------------------------- MODULE PduEngine -----------------------------
(***************************************************************************)
(* The request engine of a libsmb2 client context: allocation, compounding *)
(* and queueing of PDUs (lib/pdu.c), the write and receive paths           *)
(* (lib/socket.c), the timeout sweep (smb2_timeout_pdus), cancellation     *)
(* through smb2_free_pdu and the teardown in smb2_destroy_context.         *)
(*                                                                         *)
(* Data is abstracted: a PDU is an identity, its bytes are "not, partly or *)
(* entirely written"; a received frame (one SPL) is a sequence of replies, *)
(* each of which has a header and a body.  The control is the code's: a    *)
(* step is what runs between two points at which the library returns to    *)
(* the event loop (EAGAIN) or calls the application back.                  *)
(*                                                                         *)
(* A definition introduced as "Variant" is a wrong version of the one that *)
(* follows it.  Nothing uses it: it serves to show that a property fails   *)
(* when the code is wrong in that way.                                     *)
(***************************************************************************)
EXTENDS Integers, FiniteSetsExt, SequencesExt

CONSTANTS
    Pdus,         \* PDU structures the application may allocate, each once
    Negotiates,   \* those allocated with command SMB2_NEGOTIATE
    CallerFrees,  \* those whose caller_frees_pdu flag is set
    Charges,      \* credit charges the command marshallers compute
    Dialects,     \* outcomes of the negotiation: 1 is 0x0202, 2 is later
    Timeout,      \* smb2->timeout in seconds, 0 for none
    Grants,       \* credits the server may grant in one reply
    Liberties,    \* documented liberties the application takes, see below
    NoPdu,        \* the null pointer
    BreakPdu,     \* the PDU smb2_read_data allocates for an oplock break
    MaxFrame,     \* bound: replies chained in one frame
    MaxCredits,   \* bound: credits the server lets accumulate
    MaxMid,       \* bound: message ids
    MaxTime       \* bound: seconds on the clock

(***************************************************************************)
(* What the header documentation lets the application do with a PDU that   *)
(* it has been handed, each of which can be granted or withheld:           *)
(*  - "cancel_receiving": free a PDU whose reply is being read;            *)
(*  - "cancel_in_sweep": free any other PDU from a timeout callback;       *)
(*  - "free_after_abort": free a caller-freed PDU after its callback has   *)
(*    reported a timeout.                                                  *)
(***************************************************************************)
AllLiberties == {"cancel_receiving", "cancel_in_sweep", "free_after_abort"}

ASSUME EngineAssumption ==
    /\ Negotiates \subseteq Pdus
    /\ CallerFrees \subseteq Pdus
    /\ Charges \subseteq Nat \ {0}
    /\ Dialects \subseteq {1, 2}
    /\ Timeout \in Nat
    /\ Grants \subseteq Nat
    /\ Liberties \subseteq AllLiberties
    /\ NoPdu \notin Pdus /\ BreakPdu \notin Pdus /\ NoPdu # BreakPdu
    /\ MaxFrame \in Nat /\ MaxCredits \in Nat /\ MaxMid \in Nat
    /\ MaxTime \in Nat

VARIABLES
    live,        \* PDUs allocated and not freed
    freed,       \* PDUs freed
    chain,       \* chain[h]: h and the PDUs linked to it by next_compound
    charge,      \* header.credit_charge
    mid,         \* header.message_id, NoMid until queued
    prevMid,     \* prev_compound_mid, 0 for none
    deadline,    \* pdu->timeout, 0 for none
    outqueue,    \* heads of the chains still to be written
    waitqueue,   \* PDUs written and not answered
    partial,     \* some bytes of the head of outqueue have been written
    pdu,         \* smb2->pdu, the PDU whose reply is being read
    recv_state,  \* receive state machine
    frame,       \* replies of the current frame not yet consumed
    credits,     \* smb2->credits
    message_id,  \* smb2->message_id
    dialect,     \* smb2->dialect: 0 before NEGOTIATE is answered
    ctx,         \* the context: usable, failed in smb2_service, destroyed
    sweep,       \* progress of smb2_timeout_pdus
    now,         \* time(NULL)
    owed,        \* server: message ids received and not finally answered
    window,      \* server: credits granted and not yet consumed
    desync,      \* a partly written frame was abandoned
    calls,       \* calls[p]: statuses pdu->cb was invoked with
    cancelled,   \* PDUs freed by the application before their callback
    faults       \* accesses to freed memory: what was done to which PDU

pduVars   == <<live, freed, chain>>
hdrVars   == <<charge, mid, prevMid, deadline>>
queueVars == <<outqueue, waitqueue, partial>>
recvVars  == <<pdu, recv_state, frame>>
peerVars  == <<owed, window>>
ctxVars   == <<credits, message_id, dialect, ctx>>
histVars  == <<calls, cancelled, faults>>
vars == <<pduVars, hdrVars, queueVars, recvVars, ctxVars, sweep, now,
          peerVars, desync, histVars>>

NoMid == -1

Statuses == {"REPLY", "IO_TIMEOUT", "SHUTDOWN"}

(* A reply on the wire: the final answer to a request, an interim          *)
(* STATUS_PENDING answer, or an unsolicited oplock break notification.     *)
Replies(mids) ==
    [kind : {"final", "pending"}, mid : mids, grant : Grants]
        \cup [kind : {"break"}, mid : {NoMid}, grant : Grants]

Finals(f) == {f[i].mid : i \in {j \in DOMAIN f : f[j].kind = "final"}}

(* Chained final replies to some of the requests, in any order.            *)
FinalFrames(mids) ==
    UNION {{[i \in DOMAIN s |-> [kind |-> "final", mid |-> s[i], grant |-> g[i]]]
               : g \in [DOMAIN s -> Grants]}
           : s \in UNION {SetToSeqs(S) : S \in {T \in SUBSET mids :
                                            Cardinality(T) \in 1..MaxFrame}}}

(* A frame the server may send next.  Only final replies are chained.      *)
Frames(mids) ==
    {<<r>> : r \in {x \in Replies(mids) : x.kind # "final"}}
        \cup FinalFrames(mids)

Init ==
    /\ live = {} /\ freed = {}
    /\ chain = [p \in Pdus |-> <<>>]
    /\ charge = [p \in Pdus |-> 0]
    /\ mid = [p \in Pdus |-> NoMid]
    /\ prevMid = [p \in Pdus |-> 0]
    /\ deadline = [p \in Pdus |-> 0]
    /\ outqueue = <<>> /\ waitqueue = <<>> /\ partial = FALSE
    /\ pdu = NoPdu /\ recv_state = "SPL" /\ frame = <<>>
    /\ credits = 0 /\ message_id = 0 /\ dialect = 0 /\ ctx = "active"
    /\ sweep = [phase |-> "idle", next |-> NoPdu, cb |-> FALSE]
    /\ now = 1
    /\ owed = {} /\ window = 0 /\ desync = FALSE
    /\ calls = [p \in Pdus |-> <<>>]
    /\ cancelled = {} /\ faults = {}

-----------------------------------------------------------------------------
(* Guards. *)

(* The context may be used: smb2_service has not reported an error.        *)
Active == ctx = "active" /\ faults = {}

(* No smb2_timeout_pdus call is on the stack, so the event loop may run.   *)
Idle == sweep.phase = "idle"

(* The application runs: outside the library, or in a timeout callback.    *)
AppRuns == Active /\ (Idle \/ sweep.cb)

(* p is the head of a chain the application still holds and has not        *)
(* handed to smb2_queue_pdu.                                               *)
Unqueued(p) == p \in live /\ chain[p] # <<>> /\ mid[p] = NoMid

-----------------------------------------------------------------------------
(* Allocation and compounding. *)

(* The credit charge in the header: 0 for dialect 0x0202 and for NEGOTIATE *)
(* and otherwise the number of 64k units of the command.                   *)
HeaderCharge(p, c) == IF dialect = 1 \/ p \in Negotiates THEN 0 ELSE c

(* smb2_allocate_pdu and the command marshaller that follows it.  Commands *)
(* other than NEGOTIATE are issued once the dialect is known.              *)
AllocatePdu(p, c) ==
    /\ AppRuns
    /\ p \notin live \cup freed
    /\ dialect = 0 <=> p \in Negotiates
    /\ now + Timeout < MaxTime
    /\ live' = live \cup {p}
    /\ chain' = [chain EXCEPT ![p] = <<p>>]
    /\ charge' = [charge EXCEPT ![p] = HeaderCharge(p, c)]
    /\ deadline' = [deadline EXCEPT ![p] = IF Timeout = 0 THEN 0
                                                        ELSE now + Timeout]
    /\ UNCHANGED <<freed, mid, prevMid, queueVars, recvVars, ctxVars, sweep,
                   now, peerVars, desync, histVars>>

(* smb2_add_compound_pdu(h, q): q becomes the last PDU of h's chain.       *)
AddCompoundPdu(h, q) ==
    /\ AppRuns
    /\ h # q /\ Unqueued(h) /\ Unqueued(q)
    /\ chain' = [chain EXCEPT ![h] = @ \o chain[q], ![q] = <<>>]
    /\ UNCHANGED <<live, freed, hdrVars, queueVars, recvVars, ctxVars, sweep,
                   now, peerVars, desync, histVars>>

-----------------------------------------------------------------------------
(* Writing. *)

(* smb2_get_real_credit_charge_for_one_pdu. *)
RealCharge(p) ==
    charge[p] + IF p \notin Negotiates /\ dialect <= 1 THEN 1 ELSE 0

(* Variant: the rest of the chain is not charged. *)
HeadCharge(h) == RealCharge(h)

(* smb2_get_credit_charge: the charge of a whole chain. *)
CreditCharge(h) == MapThenSumSet(RealCharge, Range(chain[h]))

(* What the server charges for the requests of a chain: every one counts   *)
(* for its header's credit charge, and for one credit when that is zero.   *)
ServerCharge(h) ==
    MapThenSumSet(LAMBDA p : IF p \in Negotiates THEN 0
                             ELSE IF charge[p] = 0 THEN 1 ELSE charge[p],
                  Range(chain[h]))

(* Variant: no credit gate. *)
Ungated(h) == h \in Pdus

(* Only a chain the credits suffice for is written. *)
MayWrite(h) == CreditCharge(h) \in 0..credits

(* One round of the loop of smb2_write_to_socket, for the chain h at the   *)
(* head of the queue, with q behind it: the transport takes some of the    *)
(* bytes, or the last of them.  A transport that takes none changes        *)
(* nothing.  Once the last byte is written the chain is dissolved and its  *)
(* PDUs wait for their replies one by one.                                 *)
WriteChain(h, q) ==
    /\ MayWrite(h)
    /\ \/ /\ outqueue' = <<h>> \o q
          /\ partial' = TRUE
          /\ UNCHANGED <<chain, waitqueue, credits, peerVars>>
       \/ /\ outqueue' = q
          /\ partial' = FALSE
          /\ chain' = [p \in Pdus |-> IF p \in Range(chain[h]) THEN <<p>>
                                                              ELSE chain[p]]
          /\ waitqueue' = waitqueue \o chain[h]
          /\ credits' = credits - CreditCharge(h)
          /\ IF desync THEN UNCHANGED peerVars
             ELSE /\ owed' = owed \cup {mid'[p] : p \in Range(chain[h])}
                  /\ window' = window - ServerCharge(h)

(* smb2_write_to_socket, called by smb2_service when the transport is      *)
(* writable.                                                               *)
WriteToSocket ==
    /\ Active /\ Idle
    /\ outqueue # <<>>
    /\ UNCHANGED hdrVars
    /\ WriteChain(Head(outqueue), Tail(outqueue))
    /\ UNCHANGED <<live, freed, recvVars, message_id, dialect, ctx, sweep,
                   now, desync, histVars>>

(* Variant: a multi-credit request takes one message id. *)
StepOne(p) == 1

(* How far smb2_encode_header advances message_id for p.                   *)
MidStep(p) == IF charge[p] > 1 THEN charge[p] ELSE 1

(* The message ids the loop of smb2_queue_pdu gives to the chain c.        *)
MidsFrom(c, ms) ==
    /\ ms[1] = message_id
    /\ \A i \in 1..(Len(c) - 1) : ms[i + 1] = ms[i] + MidStep(c[i])

Position(c, p) == CHOOSE i \in DOMAIN c : c[i] = p

(* smb2_queue_pdu: number the chain, append it to outqueue and, if it is   *)
(* alone there, try to write it at once (smb2_add_to_outqueue).            *)
QueuePdu(h) ==
    /\ AppRuns
    /\ Unqueued(h)
    /\ \E ms \in [1..Len(chain[h]) -> 0..MaxMid] :
        /\ MidsFrom(chain[h], ms)
        /\ message_id' = ms[Len(chain[h])] + MidStep(Last(chain[h]))
        /\ mid' = [p \in Pdus |-> IF p \in Range(chain[h])
                                  THEN ms[Position(chain[h], p)] ELSE mid[p]]
        /\ prevMid' = [p \in Pdus |->
                          IF p \in Range(chain[h]) /\ p # h
                          THEN ms[Position(chain[h], p) - 1] ELSE prevMid[p]]
    /\ \/ /\ outqueue' = Append(outqueue, h)
          /\ UNCHANGED <<chain, waitqueue, partial, credits, peerVars>>
       \/ /\ outqueue = <<>>
          /\ WriteChain(h, <<>>)
    /\ UNCHANGED <<live, freed, charge, deadline, recvVars, dialect, ctx,
                   sweep, now, desync, histVars>>

-----------------------------------------------------------------------------
(* Freeing. *)

(* Variant: the PDU stays linked in waitqueue. *)
FreeLinked(p) ==
    /\ outqueue' = RemoveFirst(outqueue, p)
    /\ live' = live \ Range(chain[p])
    /\ freed' = freed \cup Range(chain[p])
    /\ chain' = [chain EXCEPT ![p] = <<>>]
    /\ UNCHANGED <<waitqueue, partial, desync>>

(* smb2_free_pdu(p): p leaves both queues; p and the chain behind it are   *)
(* freed, no callback is invoked.  Bytes of p that are already on the wire *)
(* stay there.                                                             *)
FreePdu(p) ==
    LET abandoned == partial /\ outqueue # <<>> /\ Head(outqueue) = p IN
    /\ outqueue' = RemoveFirst(outqueue, p)
    /\ waitqueue' = RemoveFirst(waitqueue, p)
    /\ live' = live \ Range(chain[p])
    /\ freed' = freed \cup Range(chain[p])
    /\ chain' = [chain EXCEPT ![p] = <<>>]
    /\ partial' = (partial /\ ~abandoned)
    /\ desync' = (desync \/ abandoned)

(* The application cancels a request by freeing the PDU it was handed.     *)
Cancel(p) ==
    /\ AppRuns
    /\ p \in live /\ chain[p] # <<>> /\ calls[p] = <<>>
    /\ pdu = p => "cancel_receiving" \in Liberties
    /\ sweep.next = p => "cancel_in_sweep" \in Liberties
    /\ FreePdu(p)
    /\ cancelled' = cancelled \cup Range(chain[p])
    /\ UNCHANGED <<hdrVars, recvVars, ctxVars, sweep, now, peerVars, calls,
                   faults>>

(* The application frees a PDU that its callback told it to free.          *)
FreeCalled(p) ==
    /\ AppRuns
    /\ p \in live \cap CallerFrees /\ calls[p] # <<>>
    /\ FreePdu(p)
    /\ UNCHANGED <<hdrVars, recvVars, ctxVars, sweep, now, peerVars,
                   histVars>>

(* The same call for a PDU whose callback reported a timeout, which        *)
(* smb2_timeout_pdus has freed already.                                    *)
FreeAborted(p) ==
    /\ AppRuns
    /\ "free_after_abort" \in Liberties
    /\ p \in freed \cap CallerFrees /\ calls[p] = <<"IO_TIMEOUT">>
    /\ faults' = faults \cup {<<"double_free", p>>}
    /\ UNCHANGED <<pduVars, hdrVars, queueVars, recvVars, ctxVars, sweep, now,
                   peerVars, desync, calls, cancelled>>

-----------------------------------------------------------------------------
(* Receiving. *)

(* The server's next frame reaches the client: its SPL has been read.  A   *)
(* server that can no longer follow a cut stream still answers what it     *)
(* received before the cut.                                                *)
RecvSpl(f) ==
    /\ Active /\ Idle
    /\ recv_state = "SPL"
    /\ recv_state' = "HEADER"
    /\ frame' = f
    /\ owed' = owed \ Finals(f)
    /\ window' = window + FoldLeft(LAMBDA n, r : n + r.grant, 0, f)
    /\ window' \in 0..MaxCredits
    /\ UNCHANGED <<pduVars, hdrVars, queueVars, pdu, ctxVars, sweep, now,
                   desync, histVars>>

(* smb2_find_pdu: the PDUs waiting for the reply with message id m.        *)
FindPdu(m) == {p \in Range(waitqueue) : mid[p] = m}

(* The rest of the frame is not wanted: an interim reply, or a reply that  *)
(* matches no request.                                                     *)
DiscardRest ==
    /\ recv_state' = "DISCARD"
    /\ UNCHANGED <<waitqueue, pdu, ctx>>

(* Variant: the PDU stays in waitqueue while its reply is read. *)
TakeLinked(p) ==
    /\ pdu' = p
    /\ recv_state' = "BODY"
    /\ UNCHANGED <<waitqueue, ctx>>

(* Variant: the order of a compound is not verified. *)
TakeUnordered(p) ==
    /\ pdu' = p
    /\ waitqueue' = RemoveFirst(waitqueue, p)
    /\ recv_state' = "BODY"
    /\ UNCHANGED ctx

(* Variant: the service does not fail on a reply out of order. *)
TakeAndKeepOn(p) ==
    /\ pdu' = p
    /\ IF prevMid[p] # 0 /\ FindPdu(prevMid[p]) # {}
       THEN UNCHANGED <<waitqueue, recv_state, ctx>>
       ELSE /\ waitqueue' = RemoveFirst(waitqueue, p)
            /\ recv_state' = "BODY"
            /\ UNCHANGED ctx

(* The request p of a reply has been found.  If the previous request of    *)
(* its compound still waits, smb2_read_data fails and p stays queued.      *)
TakePdu(p) ==
    /\ pdu' = p
    /\ IF prevMid[p] # 0 /\ FindPdu(prevMid[p]) # {}
       THEN ctx' = "failed" /\ UNCHANGED <<waitqueue, recv_state>>
       ELSE /\ waitqueue' = RemoveFirst(waitqueue, p)
            /\ recv_state' = "BODY"
            /\ UNCHANGED ctx

(* SMB2_RECV_HEADER: collect the granted credits and find the PDU.         *)
RecvHeader ==
    /\ Active /\ Idle
    /\ recv_state = "HEADER"
    /\ LET r == Head(frame) IN
       /\ credits' = credits + r.grant
       /\ \/ r.kind = "pending" /\ DiscardRest
          \/ /\ r.kind = "break"
             /\ pdu' = BreakPdu
             /\ recv_state' = "BODY"
             /\ UNCHANGED <<waitqueue, ctx>>
          \/ r.kind = "final" /\ FindPdu(r.mid) = {} /\ DiscardRest
          \/ r.kind = "final" /\ \E p \in FindPdu(r.mid) : TakePdu(p)
    /\ UNCHANGED <<pduVars, hdrVars, outqueue, partial, frame, message_id,
                   dialect, sweep, now, peerVars, desync, histVars>>

(* SMB2_RECV_UNKNOWN, and SMB2_RECV_PAD after a STATUS_PENDING header.     *)
RecvDiscard ==
    /\ Active /\ Idle
    /\ recv_state = "DISCARD"
    /\ recv_state' = "SPL"
    /\ frame' = <<>>
    /\ UNCHANGED <<pduVars, hdrVars, queueVars, pdu, ctxVars, sweep, now,
                   peerVars, desync, histVars>>

(* The body has been read (SMB2_RECV_FIXED, VARIABLE, PAD): invoke the     *)
(* callback, free the PDU unless its caller does, and go on with the next  *)
(* reply of the frame.  The callback of NEGOTIATE sets the dialect.  What  *)
(* else the callback does are the steps of the application that follow:    *)
(* the PDU is on no queue and is no longer the application's to free, so   *)
(* it makes no difference to them that the code frees it when the callback *)
(* has returned.                                                           *)
RecvBody ==
    /\ Active /\ Idle
    /\ recv_state = "BODY"
    /\ IF pdu \in freed
       THEN /\ faults' = faults \cup {<<"use_after_free", pdu>>}
            /\ UNCHANGED <<pduVars, queueVars, recvVars, dialect, desync, calls>>
       ELSE /\ pdu' = NoPdu
            /\ frame' = Tail(frame)
            /\ recv_state' = IF Tail(frame) = <<>> THEN "SPL" ELSE "HEADER"
            /\ calls' = [p \in Pdus |-> IF p = pdu THEN Append(calls[p], "REPLY")
                                                  ELSE calls[p]]
            /\ IF pdu \in Pdus \ CallerFrees
               THEN FreePdu(pdu)
               ELSE UNCHANGED <<pduVars, queueVars, desync>>
            /\ IF pdu \in Negotiates THEN dialect' \in Dialects
                                     ELSE UNCHANGED dialect
            /\ UNCHANGED faults
    /\ UNCHANGED <<hdrVars, credits, message_id, ctx, sweep, now, peerVars,
                   cancelled>>

(* Any other error of the receive or write path: the peer closed, a read   *)
(* or write failed, a reply could not be parsed or verified.               *)
ServiceFails ==
    /\ Active /\ Idle
    /\ ctx' = "failed"
    /\ UNCHANGED <<pduVars, hdrVars, queueVars, recvVars, credits, message_id,
                   dialect, sweep, now, peerVars, desync, histVars>>

-----------------------------------------------------------------------------
(* Timeouts. *)

Tick ==
    /\ Idle
    /\ now < MaxTime
    /\ now' = now + 1
    /\ UNCHANGED <<pduVars, hdrVars, queueVars, recvVars, ctxVars, sweep,
                   peerVars, desync, histVars>>

(* Variant: only unsent requests time out. *)
ExpiredUnsent(p) ==
    p \in Range(outqueue) /\ deadline[p] # 0 /\ deadline[p] < now

Expired(p) == deadline[p] # 0 /\ deadline[p] < now

First(q) == IF q = <<>> THEN NoPdu ELSE Head(q)

(* smb2_timeout_pdus is entered.  A sweep that finds nothing expired has   *)
(* no effect and is left out.                                              *)
SweepBegin ==
    /\ Active /\ Idle
    /\ Timeout # 0
    /\ \E p \in Range(outqueue) \cup Range(waitqueue) : Expired(p)
    /\ sweep' = [phase |-> "out", next |-> First(outqueue), cb |-> FALSE]
    /\ UNCHANGED <<pduVars, hdrVars, queueVars, recvVars, ctxVars, now,
                   peerVars, desync, histVars>>

(* The walk over the queue q continues at the PDU it saved before the last *)
(* callback: up to the next expired one, which is unlinked, called back    *)
(* and freed with its chain.  The callback's own requests are the steps of *)
(* the application that follow; they cannot tell that the code frees the   *)
(* unlinked chain only after them.                                         *)
SweepQueue(q) ==
    LET from == Position(q, sweep.next)
        hits == {i \in DOMAIN q : i >= from /\ Expired(q[i])}
    IN
    /\ sweep.next \in Range(q)
    /\ \/ /\ hits = {}
          /\ sweep' = [sweep EXCEPT !.next = NoPdu, !.cb = FALSE]
          /\ UNCHANGED <<pduVars, queueVars, desync, calls>>
       \/ \E i \in hits :
          /\ \A j \in hits : i <= j
          /\ sweep' = [sweep EXCEPT !.cb = TRUE,
                                    !.next = IF i < Len(q) THEN q[i + 1]
                                                           ELSE NoPdu]
          /\ calls' = [calls EXCEPT ![q[i]] = Append(@, "IO_TIMEOUT")]
          /\ FreePdu(q[i])

(* One round of smb2_timeout_pdus; the application's callback runs at its  *)
(* end and may queue and cancel requests before the next round.            *)
SweepStep ==
    /\ Active /\ ~Idle
    /\ \/ /\ sweep.next = NoPdu
          /\ sweep' = IF sweep.phase = "out"
                      THEN [phase |-> "wait", next |-> First(waitqueue),
                            cb |-> FALSE]
                      ELSE [phase |-> "idle", next |-> NoPdu, cb |-> FALSE]
          /\ UNCHANGED <<pduVars, queueVars, desync, calls, faults>>
       \/ /\ sweep.next \in freed
          /\ faults' = faults \cup {<<"use_after_free", sweep.next>>}
          /\ UNCHANGED <<pduVars, queueVars, sweep, desync, calls>>
       \/ /\ sweep.next \notin freed
          /\ \/ sweep.phase = "out" /\ SweepQueue(outqueue)
             \/ sweep.phase = "wait" /\ SweepQueue(waitqueue)
          /\ UNCHANGED faults
    /\ UNCHANGED <<hdrVars, recvVars, ctxVars, now, peerVars, cancelled>>

-----------------------------------------------------------------------------
(* Teardown. *)

(* A callback with SMB2_STATUS_SHUTDOWN, if there is one.                  *)
Shutdown(called) == IF called THEN <<"SHUTDOWN">> ELSE <<>>

(* Variant: smb2->pdu stays linked in waitqueue. *)
WaitingWithPdu == waitqueue

(* Variant: waitqueue is not looked at. *)
WaitingForgotten == <<>>

(* What is left in waitqueue once smb2->pdu has been freed. *)
WaitingAtShutdown == RemoveFirst(waitqueue, pdu)

(* smb2_destroy_context: the heads of outqueue, then smb2->pdu, then the   *)
(* PDUs of waitqueue are called back and freed; freeing smb2->pdu unlinks  *)
(* it from waitqueue if it is still there.                                 *)
DestroyContext ==
    /\ ctx # "destroyed" /\ faults = {} /\ Idle
    /\ ctx' = "destroyed"
    /\ LET waiting == WaitingAtShutdown
           gone == (UNION {Range(chain[h]) : h \in Range(outqueue)})
                   \cup ({pdu} \cap Pdus) \cup Range(waiting)
       IN
       /\ calls' = [p \in Pdus |-> calls[p]
                                   \o Shutdown(p \in Range(outqueue))
                                   \o Shutdown(p = pdu /\ p \notin freed)
                                   \o Shutdown(p \in Range(waiting))]
       /\ live' = live \ gone
       /\ freed' = freed \cup gone
       /\ chain' = [p \in Pdus |-> IF p \in gone THEN <<>> ELSE chain[p]]
       /\ faults' = IF pdu \in freed
                    THEN faults \cup {<<"use_after_free", pdu>>} ELSE faults
    /\ outqueue' = <<>> /\ waitqueue' = <<>> /\ partial' = FALSE
    /\ pdu' = NoPdu
    /\ UNCHANGED <<hdrVars, recv_state, frame, credits, message_id, dialect,
                   sweep, now, peerVars, desync, cancelled>>

-----------------------------------------------------------------------------
Application ==
    \/ \E p \in Pdus, c \in Charges : AllocatePdu(p, c)
    \/ \E h, q \in Pdus : AddCompoundPdu(h, q)
    \/ \E h \in Pdus : QueuePdu(h)
    \/ \E p \in Pdus : Cancel(p)
    \/ \E p \in Pdus : FreeCalled(p)
    \/ \E p \in Pdus : FreeAborted(p)

Service ==
    \/ WriteToSocket
    \/ \E f \in Frames(owed) : RecvSpl(f)
    \/ RecvHeader
    \/ RecvDiscard
    \/ RecvBody
    \/ ServiceFails
    \/ SweepBegin
    \/ SweepStep
    \/ Tick

Next == Application \/ Service \/ DestroyContext

Spec == Init /\ [][Next]_vars

(***************************************************************************)
(* Fairness.  The event loop calls smb2_service at least once a second, as *)
(* smb2_set_timeout requires, and destroys a context whose service failed. *)
(* Nothing is assumed of the server's willingness to answer, or to finish  *)
(* a frame it has begun, nor of the transport's to write.                  *)
(***************************************************************************)
Fairness ==
    /\ WF_vars(Tick)
    /\ WF_vars(SweepBegin)
    /\ WF_vars(SweepStep)
    /\ WF_vars(ctx = "failed" /\ DestroyContext)

FairSpec == Spec /\ Fairness

-----------------------------------------------------------------------------
(* The engine's state keeps its types; above all the credits of the client *)
(* do not wrap below zero when a chain is written (smb2->credits -=).      *)
TypeOK ==
    /\ live \subseteq Pdus /\ freed \subseteq Pdus
    /\ chain \in [Pdus -> Seq(Pdus)]
    /\ charge \in [Pdus -> Nat]
    /\ mid \in [Pdus -> Int]
    /\ prevMid \in [Pdus -> Nat]
    /\ deadline \in [Pdus -> Nat]
    /\ outqueue \in Seq(Pdus) /\ waitqueue \in Seq(Pdus)
    /\ partial \in BOOLEAN
    /\ pdu \in Pdus \cup {NoPdu, BreakPdu}
    /\ recv_state \in {"SPL", "HEADER", "BODY", "DISCARD"}
    /\ frame \in Seq(Replies(Int))
    /\ credits \in Nat /\ message_id \in Nat /\ dialect \in 0..2
    /\ ctx \in {"active", "failed", "destroyed"}
    /\ sweep \in [phase : {"idle", "out", "wait"}, next : Pdus \cup {NoPdu},
                 cb : BOOLEAN]
    /\ now \in Nat
    /\ owed \subseteq Int /\ desync \in BOOLEAN
    /\ calls \in [Pdus -> Seq(Statuses)]
    /\ cancelled \subseteq Pdus
    /\ faults \subseteq {"use_after_free", "double_free"} \X Pdus

(* The PDUs the engine holds: the chains of outqueue, waitqueue, and the   *)
(* one being received.                                                     *)
Held ==
    (UNION {Range(chain[h]) : h \in Range(outqueue)})
        \cup Range(waitqueue) \cup ({pdu} \cap Pdus)

(* Every request is called back at most once, and a request that was       *)
(* cancelled is never called back, whatever order replies, timeouts,       *)
(* cancellations and the teardown come in.                                 *)
CallbackOnce ==
    \A p \in Pdus : /\ Len(calls[p]) <= 1
                    /\ p \in cancelled => calls[p] = <<>>

(* The engine holds no freed PDU, but for a smb2->pdu the application has  *)
(* cancelled, and none that was called back; and it holds each in one      *)
(* place: the queues are disjoint and without repetition, and smb2->pdu is *)
(* on a queue only after a compound reply that came out of order has made  *)
(* the service fail.                                                       *)
QueuesSound ==
    /\ Held \ ({pdu} \cap cancelled) \subseteq live
    /\ live \cap freed = {}
    /\ \A p \in Held : calls[p] = <<>>
    /\ IsInjective(outqueue) /\ IsInjective(waitqueue)
    /\ \A h \in Range(outqueue) :
           /\ Range(chain[h]) \cap Range(waitqueue) = {}
           /\ pdu \notin Range(chain[h])
           /\ \A g \in Range(outqueue) \ {h} :
                  Range(chain[h]) \cap Range(chain[g]) = {}
    /\ pdu \in Range(waitqueue) => ctx = "failed"

(* Whatever liberties the application takes, the engine touches freed      *)
(* memory only in a PDU that the application freed to cancel it, never in  *)
(* one that it freed itself after a reply, a timeout or with its chain;    *)
(* and nothing is freed twice but a PDU its caller frees whose callback    *)
(* reported a timeout.                                                     *)
MemorySafe ==
    \A f \in faults :
        \/ f[1] = "use_after_free" /\ f[2] \in cancelled
        \/ /\ f[1] = "double_free" /\ f[2] \in CallerFrees
           /\ calls[f[2]] = <<"IO_TIMEOUT">>

(* Between two replies nothing is being received, so the branch of         *)
(* smb2_read_data that frees a left-over smb2->pdu is never taken.         *)
NoLeftover == Active /\ recv_state \in {"SPL", "HEADER"} => pdu = NoPdu

(* The client never spends a credit the server did not grant: the server's *)
(* own count stays at or above zero whatever is compounded, partly         *)
(* written, timed out or granted in between.                               *)
CreditWindow == 0 <= window /\ credits <= window

(* The message id ranges of two requests never overlap.                    *)
MidsDisjoint ==
    \A p, q \in Pdus :
        (p # q /\ mid[p] # NoMid /\ mid[q] # NoMid) =>
            /\ mid[p] # mid[q]
            /\ mid[p] < mid[q] => mid[p] + charge[p] <= mid[q]

(* A request of a compound is answered only after the one before it has    *)
(* been answered, timed out or was cancelled.                              *)
CompoundInOrder ==
    \A p, q \in Pdus :
        /\ calls[p] = <<"REPLY">> /\ prevMid[p] # 0
        /\ mid[q] = prevMid[p]
        => q \notin Held

(* With a timeout set, a request stays in the engine for ever only if the  *)
(* server never finishes the reply to it that it has begun: smb2->pdu is   *)
(* on no queue that a sweep looks at.  Every other request is answered,    *)
(* times out, is cancelled or shut down, unless a liberty of the           *)
(* application has crashed the process.                                    *)
EventuallyReleased ==
    \A p \in Pdus :
        (p \in Held) ~> (p \notin Held \/ faults # {} \/ [](pdu = p))

(* A request that exceeds smb2_set_timeout() is reported to its callback:  *)
(* what the engine has freed was called back, unless the application       *)
(* cancelled it.                                                           *)
TimeoutReported ==
    ctx # "destroyed" => \A p \in freed \ cancelled : calls[p] # <<>>

(* A request may be cancelled at any time before its callback: the engine  *)
(* then does not touch it any more.                                        *)
CancelSafe == \A p \in cancelled : <<"use_after_free", p>> \notin faults

(* The remainder of a short write is never abandoned.                      *)
RemainderWritten == ~desync
-----------------------------------------------------------------------------
(* The inductive invariant behind CallbackOnce, QueuesSound and MemorySafe.*)

(* Chains: disjoint, of live PDUs, each begins with its head.              *)
ChainsSound ==
    /\ live \cap freed = {}
    /\ \A h \in Pdus :
           /\ IsInjective(chain[h])
           /\ Range(chain[h]) \subseteq live
           /\ chain[h] # <<>> => chain[h][1] = h
    /\ \A h, g \in Pdus : h # g => Range(chain[h]) \cap Range(chain[g]) = {}

(* Callbacks: only queued requests are called, once, and not if cancelled; *)
(* a chain is queued as a whole, and of a chain only its head is called.   *)
CallsSound ==
    /\ \A p \in Pdus :
           /\ Len(calls[p]) <= 1
           /\ mid[p] = NoMid => calls[p] = <<>>
           /\ p \in cancelled => p \in freed /\ calls[p] = <<>>
    /\ \A h \in Pdus : \A p \in Range(chain[h]) :
           /\ mid[p] = NoMid <=> mid[h] = NoMid
           /\ p # h => calls[p] = <<>>

(* What is linked into a queue, or pointed to by smb2->pdu and not         *)
(* cancelled, is a numbered request that awaits its callback; once written *)
(* it is on its own.                                                       *)
Awaits(p) == chain[p] # <<>> /\ mid[p] # NoMid /\ calls[p] = <<>>

LinksSound ==
    /\ IsInjective(outqueue) /\ IsInjective(waitqueue)
    /\ Range(outqueue) \cap Range(waitqueue) = {}
    /\ \A h \in Range(outqueue) : Awaits(h)
    /\ \A w \in Range(waitqueue) : Awaits(w) /\ chain[w] = <<w>>
    /\ pdu \in Pdus \ cancelled =>
           /\ Awaits(pdu) /\ chain[pdu] = <<pdu>>
           /\ pdu \notin Range(outqueue)
           /\ pdu \in Range(waitqueue) => ctx = "failed"

(* The receive state machine has a PDU only while it reads a body.         *)
RecvSound ==
    /\ recv_state # "SPL" => frame # <<>>
    /\ (ctx = "active" /\ recv_state # "BODY") => pdu = NoPdu

(* The PDU a timeout sweep will look at next, unless it was cancelled, is  *)
(* linked in the queue it is sweeping.                                     *)
SweepSound ==
    /\ sweep.phase = "idle" => sweep.next = NoPdu
    /\ (sweep.next \in Pdus \ cancelled /\ sweep.phase = "out") =>
           sweep.next \in Range(outqueue)
    /\ (sweep.next \in Pdus \ cancelled /\ sweep.phase = "wait") =>
           sweep.next \in Range(waitqueue)

IInv ==
    /\ TypeOK
    /\ ChainsSound
    /\ CallsSound
    /\ LinksSound
    /\ RecvSound
    /\ SweepSound
    /\ MemorySafe

-----------------------------------------------------------------------------
(* What has become of request p, in the terms of module Requests.          *)
RequestState(p) ==
    IF calls[p] # <<>>
    THEN IF Len(calls[p]) = 1 THEN calls[p][1] ELSE "called again"
    ELSE IF p \in cancelled THEN "cancelled"
    ELSE IF p \in freed THEN "dropped"
    ELSE IF mid[p] # NoMid THEN "pending" ELSE "idle"

Promise == INSTANCE Requests WITH
    Reqs <- Pdus,
    state <- [p \in Pdus |-> RequestState(p)],
    behind <- [p \in Pdus |-> Range(chain[p]) \ {p}],
    open <- ctx # "destroyed"

(* The engine implements the promise: a request gets at most one outcome,  *)
(* an outcome is final, no request is lost without a callback but one      *)
(* still compounded behind another that times out or is shut down, and     *)
(* destroying the context leaves none pending.                             *)
KeepsPromise == Promise!Spec
=============================================================================
