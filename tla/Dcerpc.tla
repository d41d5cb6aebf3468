------------------------------- MODULE Dcerpc -------------------------------
(***************************************************************************)
(* A remote procedure call over a pipe (dcerpc.c), as smb2_share_enum_async *)
(* makes it (smb2-share-enum.c): the pipe is opened, the interface bound,   *)
(* the request sent, and the reply put together from its fragments and      *)
(* decoded.  Four blocks of memory are handed from callback to callback.    *)
(* The pipe, the server behind it and its NDR coder are external: a peer    *)
(* that follows the standard.                                               *)
(***************************************************************************)
EXTENDS Ndr

CONSTANTS
    Calls,      \* calls that are tried: [req, rep, level], messages as [t, v]
    FragmentSizes \* lengths a server cuts the stub of a reply into

(* The stub of a fragment that is not the last is a multiple of eight bytes. *)
ASSUME FragmentSizesAssumption == \A f \in FragmentSizes : f > 0 /\ f % 8 = 0

VARIABLES
    ndr,        \* smb2->ndr: 0 offers both transfer syntaxes, 1 and 2 one of them
    call,       \* the call that is made
    phase,
    live,       \* blocks that are allocated
    misused,    \* history: a block was used or freed when it was not allocated
    told,       \* history: what the caller's callback was given
    eof,        \* history: requests that were refused with END_OF_FILE
    acks,       \* the results in the BIND_ACK
    tctx_id,    \* dce->tctx_id
    wire,       \* what the encoder of the message in flight left behind
    decoded     \* what the decoder made of the reply

vars == <<ndr, call, phase, live, misused, told, eof, acks, tctx_id, wire, decoded>>

Init ==
    /\ ndr \in 0..2 /\ call \in Calls
    /\ phase = "idle" /\ live = {} /\ misused = FALSE /\ told = <<>>
    /\ eof = {}
    /\ acks = <<>> /\ tctx_id = 0 /\ wire = NULL /\ decoded = NULL

-----------------------------------------------------------------------------
(* What a callback does with the blocks, one step after the other. *)

Use(b) == <<"use", b>>
Free(b) == <<"free", b>>
New(b) == <<"new", b>>
Tell(r) == <<"tell", r>>

Perform(steps) ==
    LET Step(m, x) ==
          CASE x[1] = "new" -> [m EXCEPT !.live = @ \cup {x[2]}]
            [] x[1] = "tell" -> [m EXCEPT !.told = Append(@, x[2])]
            [] OTHER -> [m EXCEPT !.misused = @ \/ x[2] \notin m.live,
                                  !.live = IF x[1] = "free" THEN @ \ {x[2]} ELSE @]
        end == FoldLeft(Step, [live |-> live, misused |-> misused, told |-> told], steps)
    IN  live' = end.live /\ misused' = end.misused /\ told' = end.told

(* The payload belongs to the pdu until it is given away. *)
dcerpc_free_pdu == <<Use("pdu"), Use("dce"), Free("pdu")>>
dcerpc_destroy_context == <<Use("dce"), Free("dce")>>
nse_free == <<Use("nse"), Free("nse")>>

(* The block of the callback is saved, the pdu freed, and only then the    *)
(* callback called, which destroys the context.                            *)
dcerpc_send_pdu_cb_first(callback) == <<Use("pdu")>> \o callback \o dcerpc_free_pdu

dcerpc_send_pdu_cb_and_free(callback) == <<Use("pdu")>> \o dcerpc_free_pdu \o callback

(* share_enum_bind_cb and srvsvc_ioctl_cb when the call has ended. *)
Finish(r) == <<Use("nse"), Tell(r)>> \o nse_free \o dcerpc_destroy_context

(* dcerpc_bind_cb, and smb2_open_cb when it gives up. *)
WithData(steps) == <<Use("data")>> \o steps \o <<Free("data")>>

-----------------------------------------------------------------------------
(* smb2_share_enum_async, dcerpc_connect_context_async, dcerpc_open_async. *)
smb2_share_enum_async ==
    /\ phase = "idle"
    /\ \/ /\ phase' = "opening"
          /\ Perform(<<New("dce"), New("nse"), New("data")>>)
       \/ \* an allocation fails: the caller is told by the return value
          /\ phase' = "refused"
          /\ \E blocks \in {<<>>, <<"dce">>, <<"dce", "nse">>, <<"dce", "nse", "data">>} :
               Perform([i \in DOMAIN blocks |-> New(blocks[i])] \o
                       [i \in DOMAIN blocks |-> Free(blocks[Len(blocks) + 1 - i])])
    /\ UNCHANGED <<ndr, call, eof, acks, tctx_id, wire, decoded>>

dcerpc_bind_async ==
    /\ phase' = "binding"
    /\ Perform(<<Use("data"), Use("dce"), New("pdu")>>)

(* The contexts of a BIND: NDR32 has id 0, NDR64 id 1. *)
Offered == CASE ndr = 0 -> <<0, 1>> [] ndr = 1 -> <<0>> [] OTHER -> <<1>>

(* A BIND_ACK has a result for each of them. *)
BindAcks == [DOMAIN Offered -> BOOLEAN]

ChosenContext_index(i) == i - 1

ChosenContext(i) == IF ndr = 0 THEN i - 1 ELSE ndr - 1

(* A message with its stub behind the header.  level: the Level of the     *)
(* request, which the coder of a NetrShareGetInfo reply looks up.          *)
Encode(tctx, m, level, peer) ==
    Code([Pdu("encode", tctx, <<>>, peer) EXCEPT !.switch_is = level], m.t, m.v)

Decode(tctx, m, level, peer, buf) ==
    Code([Pdu("decode", tctx, buf, peer) EXCEPT !.switch_is = level], m.t, NULL)

(* smb2_bind_cb frees its pdu and calls dcerpc_bind_cb. *)
Bound(steps) == dcerpc_send_pdu_cb_and_free(WithData(steps))

(* The request is sent, or the call returns an error, on which             *)
(* share_enum_bind_cb reports it: the pdu or the IOCTL is not allocated,   *)
(* or the request cannot be encoded, and then its pdu is not freed.        *)
(* It is made from dcerpc_bind_cb, within smb2_bind_cb or, bound being     *)
(* FALSE, within smb2_open_cb.                                             *)
dcerpc_call_async(bound) ==
    LET Within(steps) == IF bound THEN Bound(steps) ELSE WithData(steps) IN
    \/ /\ phase' = "calling"
       /\ wire' = Encode(tctx_id', call.req, 0, FALSE)
       /\ Perform(Within(<<Use("nse"), Use("dce"), New("pdu")>>))
    \/ /\ phase' = "done"
       /\ Perform(Within(Finish("error")))
       /\ UNCHANGED wire
    \/ /\ phase' = "done"
       /\ Perform(Within(<<New("pdu")>> \o Finish("unencoded")))
       /\ UNCHANGED wire

(* The pipe is open and a BIND sent, or either of them fails.              *)
(* nterror_to_errno makes 0 of END_OF_FILE: the callback takes the pipe    *)
(* for bound.                                                              *)
smb2_open_cb ==
    /\ phase = "opening"
    /\ \/ dcerpc_bind_async /\ UNCHANGED <<eof, wire>>
       \/ phase' = "done" /\ Perform(WithData(Finish("error"))) /\ UNCHANGED <<eof, wire>>
       \/ eof' = eof \cup {"open"} /\ tctx_id' = tctx_id /\ dcerpc_call_async(FALSE)
    /\ UNCHANGED <<ndr, call, acks, tctx_id, decoded>>

(* The first context that was accepted is the one of the call. *)
smb2_bind_cb ==
    /\ phase = "binding"
    /\ acks' \in BindAcks
    /\ LET accepted == {i \in DOMAIN acks' : acks'[i]}
       IN  IF accepted = {}
           THEN /\ phase' = "done"
                /\ Perform(Bound(Finish("error")))
                /\ UNCHANGED <<tctx_id, wire>>
           ELSE tctx_id' = ChosenContext(Min(accepted)) /\ dcerpc_call_async(TRUE)
    /\ UNCHANGED <<ndr, call, eof, decoded>>

(* No BIND_ACK, or one that cannot be read.  A BIND refused with           *)
(* END_OF_FILE has status 0, on which the call is made.                    *)
smb2_bind_cb_fails ==
    /\ phase = "binding"
    /\ \/ phase' = "done" /\ Perform(Bound(Finish("error"))) /\ UNCHANGED <<eof, wire>>
       \/ eof' = eof \cup {"bind"} /\ tctx_id' = tctx_id /\ dcerpc_call_async(TRUE)
    /\ UNCHANGED <<ndr, call, acks, tctx_id, decoded>>

-----------------------------------------------------------------------------
(* A reply with a stub of n bytes is sent in fragments of f bytes: the       *)
(* lengths of their stubs, and the words of buf once every fragment has got *)
(* a header of its own.                                                      *)
Cut(n, f) == [i \in 1..Max({1, (n + f - 1) \div f}) |-> Min({f, n - f * (i - 1)})]

Fragmented(buf, f) ==
    LET raw(o) == o + Header * ((o - Header) \div f)
        words == {raw(o) : o \in DOMAIN buf}
    IN  [x \in words |-> buf[CHOOSE o \in DOMAIN buf : raw(o) = x]]

(* dce_unfragment_ioctl: the stub of each later fragment, of c[i] bytes,     *)
(* moves up to the end of those before it.                                   *)
dce_unfragment_ioctl(raw, c) ==
    LET Move(m, len) ==
          LET from == m.offset + Header
              moved == {o \in DOMAIN m.mem : o >= from /\ o < from + len}
              kept == {o \in DOMAIN m.mem : o < m.unfragment_len \/ o >= m.unfragment_len + len}
              by == from - m.unfragment_len
          IN  [mem |-> [x \in kept \cup {o - by : o \in moved} |->
                          IF x + by \in moved THEN m.mem[x + by] ELSE m.mem[x]],
               unfragment_len |-> m.unfragment_len + len,
               offset |-> from + len]
    IN  FoldLeft(Move, [mem |-> raw, unfragment_len |-> Header + c[1], offset |-> Header + c[1]],
                 Tail(c)).mem

(* dcerpc_call_cb on a RESPONSE. *)
dcerpc_call_cb ==
    /\ phase = "calling"
    /\ LET w == Encode(tctx_id, call.rep, call.level, TRUE)
       IN  \E f \in FragmentSizes :
             LET buf == dce_unfragment_ioctl(Fragmented(w.buf, f), Cut(w.off - Header, f))
                 d == Decode(tctx_id, call.rep, call.level, FALSE, buf)
             IN  /\ wire' = w
                 /\ decoded' = d
                 /\ Perform(dcerpc_send_pdu_cb_and_free(Finish(IF d.ok THEN "reply" ELSE "error")))
    /\ phase' = "done"
    /\ UNCHANGED <<ndr, call, eof, acks, tctx_id>>

(* The IOCTL fails, or its output is not a RESPONSE.  END_OF_FILE has      *)
(* status 0, on which srvsvc_ioctl_cb reads a reply that is NULL.          *)
dcerpc_call_cb_fails ==
    /\ phase = "calling"
    /\ \/ /\ phase' = "done"
          /\ Perform(dcerpc_send_pdu_cb_and_free(Finish("error")))
          /\ UNCHANGED eof
       \/ /\ phase' = "crashed" /\ eof' = eof \cup {"call"}
          /\ Perform(dcerpc_send_pdu_cb_and_free(<<Use("nse")>>))
    /\ UNCHANGED <<ndr, call, acks, tctx_id, wire, decoded>>

Next ==
    \/ smb2_share_enum_async \/ smb2_open_cb
    \/ smb2_bind_cb \/ smb2_bind_cb_fails
    \/ dcerpc_call_cb \/ dcerpc_call_cb_fails

Spec == Init /\ [][Next]_vars

-----------------------------------------------------------------------------
(* Every call that was started ends in one call of the caller's callback,   *)
(* no callback touches a block that another one has freed, and nothing is   *)
(* left behind, but for the pdu of a request that could not be encoded.     *)
(* The one call that never ends: its IOCTL was refused with END_OF_FILE,    *)
(* and srvsvc_ioctl_cb dereferences NULL before it calls back.              *)
CallEndsOnce ==
    /\ ~misused
    /\ phase = "crashed" => "call" \in eof
    /\ phase = "done" => Len(told) = 1 /\ live \subseteq {b \in {"pdu"} : told = <<"unencoded">>}
    /\ phase = "refused" => told = <<>> /\ live = {}
    /\ phase \notin {"done", "refused"} => told = <<>>

(* The call is made, and its reply decoded, in a transfer syntax that was   *)
(* offered and that the server accepted.  The exception is a CREATE or a    *)
(* BIND that was refused with END_OF_FILE: the call is then made in context *)
(* 0 of a pipe that is not open, or not bound.                              *)
ContextAccepted ==
    phase = "calling" =>
        \/ \E i \in DOMAIN acks : acks[i] /\ tctx_id = Offered[i]
        \/ eof # {} /\ acks = <<>> /\ tctx_id = 0

(* A peer that marshals the referents of a pointer depth first and aligns   *)
(* every structure by its type, as the standard has it, reads of a request  *)
(* what was written to it, and what it writes in a reply, in however many   *)
(* fragments, is what is read of it.                                        *)
Understood ==
    /\ phase = "calling" =>
         LET d == Decode(tctx_id, call.req, 0, TRUE, wire.buf)
         IN  d.ok /\ d.got = wire.got /\ d.off = wire.off
    /\ decoded # NULL => decoded.ok /\ decoded.got = wire.got /\ decoded.off = wire.off
=============================================================================
