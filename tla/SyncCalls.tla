----------------------------- MODULE SyncCalls -----------------------------
(***************************************************************************)
(* The synchronous API (lib/sync.c).  Each function starts an asynchronous *)
(* operation with a block of type sync_cb_data, and runs wait_for_reply    *)
(* until the callback has set is_finished in it or the loop gives up.  A   *)
(* call that gave up has returned, but its operation is still in the       *)
(* engine: its callback comes later, in the loop of another call or when   *)
(* the context is destroyed.  Who frees the block differs from function to *)
(* function; a kind is a set of functions that do it alike:                *)
(*                                                                         *)
(*   single    pread, pwrite, read, write, fstat, ftruncate, echo          *)
(*   compound  unlink, rmdir, mkdir, stat, rename, statvfs, truncate,      *)
(*             readlink: reported by the last request of a chain           *)
(*   fsync, close     reported through the callback the handle holds       *)
(*   open, opendir, notify, enum     as their names say                    *)
(*   connect, disconnect             use smb2->connect_cb_data             *)
(*                                                                         *)
(* The engine below the operations is the subject of module PduEngine.     *)
(***************************************************************************)
EXTENDS Integers

CONSTANTS
    NCalls,     \* bound: calls of the API, one after the other
    Kinds,      \* what the application calls
    Timeout     \* smb2_set_timeout has been called

AllKinds == {"single", "compound", "fsync", "close", "open", "opendir",
             "notify", "enum", "connect", "disconnect"}

ASSUME SyncAssumption ==
    /\ Kinds \subseteq AllKinds
    /\ NCalls \in Nat
    /\ Timeout \in BOOLEAN

Calls == 1..NCalls
Static == 0     \* the block smb2->connect_cb_data
Blocks == Calls \cup {Static}
StaticKinds == {"connect", "disconnect"}
HandleKinds == {"fsync", "close"}
NoCall == Static

VARIABLES
    kind,       \* what a call is
    phase,      \* idle, waiting in wait_for_reply, returned
    result,     \* what it returned
    block,      \* the memory of each block and what is in it
    op,         \* the operation in the engine
    outcome,    \* what its callback said
    holder,     \* call whose callback the file handle holds
    handle,     \* the file handle: open or freed
    connected,  \* smb2_transport_is_connected
    ctx,        \* active, failed in smb2_service, closing, destroyed
    misused,    \* calls whose callback touched a freed block or handle
    pdu,        \* the first PDU of smb2_open and smb2_opendir, their own to
                \* free: live, freed, freed twice
    turn        \* where the loop of wait_for_reply ran a callback last: its
                \* sweep, smb2_service; top before the first turn

vars == <<kind, phase, result, block, op, outcome, holder, handle, connected,
          ctx, misused, pdu, turn>>

Block(c) == IF kind[c] \in StaticKinds THEN Static ELSE c

Fresh == [mem |-> "live", finished |-> FALSE, status |-> "zero"]

Init ==
    /\ kind = [c \in Calls |-> "none"]
    /\ phase = [c \in Calls |-> "idle"]
    /\ result = [c \in Calls |-> "none"]
    /\ block = [b \in Blocks |-> IF b = Static THEN Fresh
                                 ELSE [Fresh EXCEPT !.mem = "none"]]
    /\ op = [c \in Calls |-> "none"]
    /\ outcome = [c \in Calls |-> "none"]
    /\ holder = NoCall
    /\ handle = "open"
    /\ connected = FALSE
    /\ ctx = "active"
    /\ misused = {}
    /\ pdu = [c \in Calls |-> "none"]
    /\ turn = "top"

Waiting == {c \in Calls : phase[c] = "waiting"}
Pending == {c \in Calls : op[c] \in {"first", "later"}}
OpenKinds == {"open", "opendir"}

(* The loop tests is_finished at the top of a turn only.  A turn sweeps    *)
(* the queues first and then runs smb2_service, so the callback that       *)
(* finishes the wait may have others after it, and an error as well.       *)
Finished(c) == block[Block(c)].finished
Sweeping == Waiting # {} /\ \A c \in Waiting : Finished(c) => turn = "sweep"
Serving == Waiting # {} /\ \A c \in Waiting : Finished(c) => turn # "top"

-----------------------------------------------------------------------------
(* The callbacks.                                                          *)

(* The call whose callback is made when the operation of c ends.  fsync_cb *)
(* and close_cb take it from the handle.                                   *)
Target(c) == IF kind[c] \in HandleKinds THEN holder ELSE c

(* Variant: sync_opendir_cb does nothing at any failure. *)
IgnoresFailure(k, st) == st # "ok" /\ k \in {"close", "opendir"}

(* sync_close_cb and sync_opendir_cb do nothing at shutdown. *)
Ignores(k, st) == st = "shutdown" /\ k \in {"close", "opendir"}

(* The callback is made, and what it touches has been freed.               *)
Misuses(c, st) ==
    \/ kind[c] \in HandleKinds /\ handle = "freed"
    \/ /\ ~Ignores(kind[Target(c)], st)
       /\ block[Block(Target(c))].mem = "freed"

(* Variant: the callback of an abandoned call does not free the block. *)
NoneFreed == {}

(* The kinds whose callback frees the block of an abandoned call.          *)
FreedByCallback == {"single", "compound", "fsync", "close", "enum"}

(* Variant: the status is not stored, so that the block keeps the zero of  *)
(* success.                                                                *)
StatusForgotten(st) == "ok"

(* The status a callback stores: what the operation makes of st.           *)
StoredStatus(st) == IF st = "ok" THEN "ok" ELSE "error"

(* What the callback of a call of kind k leaves in its block m.            *)
CalledBack(m, k, st) ==
    IF Ignores(k, st) \/ m.mem = "freed" THEN m
    ELSE IF m.status = "cancelled" /\ k \notin {"open", "opendir"}
    THEN [m EXCEPT !.mem = IF k \in FreedByCallback THEN "freed" ELSE @]
    ELSE [m EXCEPT !.finished = TRUE, !.status = StoredStatus(st)]

(* The operation of c ends with st.                                        *)
Deliver(c, st) ==
    /\ op' = [op EXCEPT ![c] = "done"]
    /\ outcome' = [outcome EXCEPT ![c] = st]
    /\ block' = [block EXCEPT ![Block(Target(c))] =
                    CalledBack(@, kind[Target(c)], st)]
    /\ misused' = misused \cup (IF Misuses(c, st) THEN {c} ELSE {})
    /\ handle' = IF kind[c] = "close" THEN "freed" ELSE handle

-----------------------------------------------------------------------------
(* The calls.                                                              *)

MayStart(c, k) ==
    /\ ctx = "active"
    /\ phase[c] = "idle" /\ Waiting = {}
    /\ \A d \in 1..(c - 1) : phase[d] # "idle"
    /\ k \in HandleKinds =>
            /\ handle = "open"
            /\ \A d \in Calls : kind[d] # "close"
    /\ k \in StaticKinds => \A d \in Pending : kind[d] \notin StaticKinds

(* The operation cannot be started: the block is freed again.              *)
StartFails(c, k) ==
    /\ MayStart(c, k)
    /\ kind' = [kind EXCEPT ![c] = k]
    /\ phase' = [phase EXCEPT ![c] = "returned"]
    /\ result' = [result EXCEPT ![c] = "error"]
    /\ block' = IF k \in StaticKinds THEN block
                ELSE [block EXCEPT ![c] = [Fresh EXCEPT !.mem = "freed"]]
    /\ UNCHANGED <<op, outcome, holder, handle, connected, ctx, misused, pdu,
                   turn>>

(* The block a call waits with.  smb2->connect_cb_data is not cleared.     *)
BlockAtStart(c, k) ==
    IF k \in StaticKinds THEN block ELSE [block EXCEPT ![c] = Fresh]

(* The operation is started.  connect and disconnect are refused when the  *)
(* transport is in the wrong state.                                        *)
Start(c, k) ==
    /\ MayStart(c, k)
    /\ k = "connect" => ~connected
    /\ k \in {"disconnect", "enum"} => connected
    /\ kind' = [kind EXCEPT ![c] = k]
    /\ phase' = [phase EXCEPT ![c] = "waiting"]
    /\ block' = BlockAtStart(c, k)
    /\ op' = [op EXCEPT ![c] = "first"]
    /\ holder' = IF k \in HandleKinds THEN c ELSE holder
    /\ pdu' = IF k \in OpenKinds THEN [pdu EXCEPT ![c] = "live"] ELSE pdu
    /\ turn' = "top"
    /\ UNCHANGED <<result, outcome, handle, connected, ctx, misused>>

(* Variant: the block is freed although the operation goes on. *)
FreedTooSoon(m, k) ==
    [m EXCEPT !.status = "cancelled",
              !.mem = IF k \in StaticKinds THEN @ ELSE "freed"]

(* What a call of kind k does with its block when wait_for_reply fails.    *)
Abandoned(m, k) ==
    CASE k \in {"single", "compound", "fsync"} \cup StaticKinds
             -> [m EXCEPT !.status = "cancelled"]
      [] k \in {"close", "notify"}
             -> [m EXCEPT !.status = "cancelled", !.mem = "freed"]
      [] k = "opendir" -> [m EXCEPT !.mem = "freed"]
      [] k \in {"enum", "open"} -> m

(* smb2_free_pdu at the end of smb2_open and smb2_opendir.  The sweep has  *)
(* freed a PDU that timed out, although the call is to free it.            *)
PduFreed(c) ==
    IF kind[c] \in OpenKinds
    THEN [pdu EXCEPT ![c] = IF @ = "live" THEN "freed" ELSE "twice"]
    ELSE pdu

(* wait_for_reply returns -1.  smb2_open and smb2_opendir free their first *)
(* PDU, which ends an operation that has no other.  The callback of c may  *)
(* have run in the same turn of the loop: the block is marked all the same.*)
GiveUp(c) ==
    /\ c \in Waiting
    /\ phase' = [phase EXCEPT ![c] = "returned"]
    /\ result' = [result EXCEPT ![c] = "error"]
    /\ block' = [block EXCEPT ![Block(c)] = Abandoned(@, kind[c])]
    /\ op' = IF kind[c] \in OpenKinds /\ op[c] = "first"
             THEN [op EXCEPT ![c] = "cancelled"] ELSE op
    /\ pdu' = PduFreed(c)
    /\ UNCHANGED <<kind, outcome, holder, handle, connected, misused, turn>>

(* poll fails, for one because a signal arrived. *)
PollFails(c) == ~Finished(c) /\ GiveUp(c) /\ ctx = "active" /\ UNCHANGED ctx

(* Too much time has passed without a connection.  The sweep of this turn  *)
(* comes before.                                                           *)
NoConnection(c) ==
    /\ ~connected
    /\ Finished(c) => turn = "sweep"
    /\ GiveUp(c) /\ ctx = "active" /\ UNCHANGED ctx

(* smb2_service fails, after the callbacks it has made so far. *)
ServiceFails(c) ==
    /\ Finished(c) => turn # "top"
    /\ GiveUp(c) /\ ctx = "active" /\ ctx' = "failed"

(* What a call of kind k does with its block when wait_for_reply is done:  *)
(* smb2_open keeps it, and smb2_opendir gives it to the directory.         *)
Returned(m, k) ==
    IF \/ k \in StaticKinds \cup {"open"}
       \/ k = "opendir" /\ m.status = "ok"
    THEN m ELSE [m EXCEPT !.mem = "freed"]

(* wait_for_reply returns 0: the function returns what is in its block.    *)
Return(c) ==
    /\ c \in Waiting /\ Finished(c)
    /\ phase' = [phase EXCEPT ![c] = "returned"]
    /\ result' = [result EXCEPT ![c] =
                    IF block[Block(c)].status = "ok" THEN "ok" ELSE "error"]
    /\ block' = [block EXCEPT ![Block(c)] = Returned(@, kind[c])]
    /\ pdu' = PduFreed(c)
    /\ UNCHANGED <<kind, op, outcome, holder, handle, connected, ctx, misused,
                   turn>>

-----------------------------------------------------------------------------
(* The engine, which runs inside the loop of the call that waits.          *)

(* The callback that ends c closes the transport: smb2_close_context when  *)
(* a connect fails, disconnect_cb_2 after a LOGOFF.                        *)
Closes(c, st) ==
    \/ kind[c] = "connect" /\ st # "ok"
    \/ kind[c] = "disconnect" /\ st = "ok"

(* A reply ends the operation of c, be c waiting or abandoned.  The first  *)
(* PDU of smb2_open and smb2_opendir stays: caller_frees_pdu.              *)
Reply(c, st) ==
    /\ ctx = "active" /\ Serving /\ c \in Pending
    /\ connected \/ (kind[c] = "connect" /\ st = "error")
    /\ st \in {"ok", "error"}
    /\ Deliver(c, st)
    /\ connected' = (connected /\ ~Closes(c, st))
    /\ turn' = "service"
    /\ UNCHANGED <<kind, phase, result, holder, ctx, pdu>>

(* A chain that is still unsent is freed without a callback to the caller. *)
Dropped(c) ==
    /\ kind[c] = "compound"
    /\ op' = [op EXCEPT ![c] = "lost"]
    /\ UNCHANGED <<outcome, block, misused, handle>>

(* The sweep and smb2_destroy_context free the PDU they call back. *)
PduSwept(c) ==
    IF kind[c] \in OpenKinds /\ op[c] = "first"
    THEN [pdu EXCEPT ![c] = "freed"] ELSE pdu

(* smb2_timeout_pdus ends it.  disconnect_cb_2 reports success also when   *)
(* the LOGOFF timed out.                                                   *)
TimesOut(c) ==
    /\ Timeout
    /\ ctx = "active" /\ Sweeping /\ c \in Pending
    /\ kind[c] = "connect" => connected
    /\ \/ \E st \in {"ok", "error"} :
             /\ st = "ok" => kind[c] = "disconnect"
             /\ Deliver(c, st)
             /\ connected' = (connected /\ ~Closes(c, st))
       \/ Dropped(c) /\ UNCHANGED connected
    /\ pdu' = PduSwept(c)
    /\ turn' = "sweep"
    /\ UNCHANGED <<kind, phase, result, holder, ctx>>

(* smb2_opendir goes on with another request.                              *)
NextRequest(c) ==
    /\ ctx = "active" /\ Serving /\ connected
    /\ kind[c] = "opendir" /\ op[c] = "first"
    /\ op' = [op EXCEPT ![c] = "later"]
    /\ turn' = "service"
    /\ UNCHANGED <<kind, phase, result, block, outcome, holder, handle,
                   connected, ctx, misused, pdu>>

(* The TCP connection of a connect is there.                               *)
TransportUp ==
    /\ ctx = "active" /\ Serving /\ ~connected
    /\ \E c \in Pending : kind[c] = "connect"
    /\ connected' = TRUE
    /\ turn' = "service"
    /\ UNCHANGED <<kind, phase, result, block, op, outcome, holder, handle,
                   ctx, misused, pdu>>

(* smb2_destroy_context closes the transport and then calls back every     *)
(* operation, except for chains that are still unsent.                     *)
DestroyContext ==
    /\ ctx \in {"active", "failed"} /\ Waiting = {}
    /\ ctx' = "closing"
    /\ connected' = FALSE
    /\ UNCHANGED <<kind, phase, result, block, op, outcome, holder, handle,
                   misused, pdu, turn>>

Shutdown(c) ==
    /\ ctx = "closing" /\ c \in Pending
    /\ \/ Deliver(c, "shutdown")
       \/ Dropped(c)
    /\ pdu' = PduSwept(c)
    /\ UNCHANGED <<kind, phase, result, holder, connected, ctx, turn>>

ContextFreed ==
    /\ ctx = "closing" /\ Pending = {}
    /\ ctx' = "destroyed"
    /\ UNCHANGED <<kind, phase, result, block, op, outcome, holder, handle,
                   connected, misused, pdu, turn>>

Next ==
    \/ \E c \in Calls, k \in Kinds : Start(c, k) \/ StartFails(c, k)
    \/ \E c \in Calls : \/ PollFails(c) \/ NoConnection(c) \/ ServiceFails(c)
                        \/ Return(c)
                        \/ \E st \in {"ok", "error"} : Reply(c, st)
                        \/ TimesOut(c) \/ NextRequest(c) \/ Shutdown(c)
    \/ TransportUp
    \/ DestroyContext
    \/ ContextFreed

Spec == Init /\ [][Next]_vars

(* The loop keeps turning: it looks at is_finished and at the clock, and   *)
(* sweeps the queues once a second.                                        *)
Fairness ==
    /\ \A c \in Calls : WF_vars(Return(c)) /\ WF_vars(TimesOut(c))
    /\ \A c \in Calls : WF_vars(NoConnection(c))

FairSpec == Spec /\ Fairness

-----------------------------------------------------------------------------
(* The state of the calls of sync.c keeps its types.                       *)
TypeOK ==
    /\ kind \in [Calls -> AllKinds \cup {"none"}]
    /\ phase \in [Calls -> {"idle", "waiting", "returned"}]
    /\ result \in [Calls -> {"none", "ok", "error"}]
    /\ block \in [Blocks -> [mem : {"none", "live", "freed"},
                             finished : BOOLEAN,
                             status : {"zero", "ok", "error", "cancelled"}]]
    /\ op \in [Calls -> {"none", "first", "later", "done", "lost",
                         "cancelled"}]
    /\ outcome \in [Calls -> {"none", "ok", "error", "shutdown"}]
    /\ holder \in Calls \cup {NoCall}
    /\ handle \in {"open", "freed"}
    /\ connected \in BOOLEAN
    /\ ctx \in {"active", "failed", "closing", "destroyed"}
    /\ misused \subseteq Calls
    /\ pdu \in [Calls -> {"none", "live", "freed", "twice"}]
    /\ turn \in {"top", "sweep", "service"}

(* No callback touches a block that has been freed, however late it comes, *)
(* and no call waits with one.                                             *)
(* smb2_close, smb2_opendir and smb2_notify_change free their block when   *)
(* they give up, and an fsync that was given up finds the block of the     *)
(* close in its handle, so these four are left out.                        *)
BlocksSafe ==
    /\ \A c \in misused : kind[c] \in HandleKinds \cup {"opendir", "notify"}
    /\ \A c \in Waiting : block[Block(c)].mem = "live"

(* The callback of c ran, and in the same turn of the loop the wait failed *)
(* all the same: the block is marked for a callback that has been made.    *)
MarkedTooLate(c) ==
    block[c].finished /\ block[c].status = "cancelled" /\ op[c] = "done"

(* When the context is gone every block has been freed.  smb2_open never   *)
(* frees its own, smb2_share_enum_sync does not mark the one it gives up,  *)
(* a directory keeps its own, the handle forgets the block of an fsync     *)
(* when it is used again, a chain that was dropped unsent has no callback  *)
(* that could, and a call that is given up in the turn its callback ran in *)
(* marks its block too late.                                               *)
BlocksFreed ==
    ctx = "destroyed" =>
        \A c \in Calls : block[c].mem = "live" =>
            \/ kind[c] \in {"open", "opendir", "enum", "fsync"}
            \/ op[c] = "lost"
            \/ MarkedTooLate(c)

(* A call that reports success reports the success of its own operation,   *)
(* and not of one that was given up before.  Left out are the calls that   *)
(* share a handle or smb2->connect_cb_data.                                *)
OwnSuccess ==
    \A c \in Calls :
        (result[c] = "ok" /\ kind[c] \notin StaticKinds \cup HandleKinds)
            => outcome[c] = "ok"

(* smb2_disconnect_share returns 0 when the share is disconnected.         *)
DisconnectWaits ==
    \A c \in Calls : (result[c] = "ok" /\ kind[c] = "disconnect")
        => outcome[c] = "ok"

(* With a timeout set every call returns, unless its chain was dropped     *)
(* unsent, or smb2->connect_cb_data is still marked as cancelled by an     *)
(* earlier connect or disconnect.                                          *)
EventuallyReturns ==
    \A c \in Calls : phase[c] = "waiting" ~>
        \/ phase[c] = "returned"
        \/ op[c] = "lost"
        \/ kind[c] \in StaticKinds /\ block[Static].status = "cancelled"
=============================================================================
