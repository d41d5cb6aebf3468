------------------------------- MODULE FileOps -------------------------------
(***************************************************************************)
(* The file operations of the asynchronous API (libsmb2.c): each is one    *)
(* request, a compound of related requests, or, for a directory, a         *)
(* sequence of requests, and keeps what it needs until its report in a     *)
(* block of its own, in the file handle or in the directory.  Several are  *)
(* in flight at a time.  The request engine (PduEngine) is taken by what   *)
(* it does to an operation: it calls back each request once, with the      *)
(* reply or, when it aborts the request, without one.                      *)
(***************************************************************************)
EXTENDS Integers, FiniteSetsExt, SequencesExt

CONSTANTS
    Ops,          \* operations the application may have in flight
    Handles,      \* file handles (struct smb2fh)
    Counts,       \* byte counts the application asks for
    Credits,      \* values of smb2->credits when it asks
    MaxSize,      \* max_read_size and max_write_size of the server
    DirSize,      \* bound: entries in a directory
    MaxOffset,    \* length of a file, in units the server transfers
    NULL

ASSUME FileOpsAssumption ==
    /\ Counts \subseteq Nat /\ Credits \subseteq Nat
    /\ MaxSize \in Nat \ {0} /\ DirSize \in Nat /\ MaxOffset \in Nat
    /\ NULL \notin Ops \cup Handles
    /\ NULL \notin {"unlink", "mkdir", "getinfo", "truncate", "rename", "readlink", "echo",
                    "open", "fsync", "close", "pread", "pwrite", "fstat", "ftruncate",
                    "notify", "opendir", "refused", "ok", "freed handle"}

VARIABLES
    op,        \* the operations
    fh,        \* the file handles
    dir,       \* the directory of an opendir
    did        \* server: the requests of each operation it has carried out,
               \* and Eof once it has refused one with END_OF_FILE

vars == <<op, fh, dir, did>>

(* kind: what was called.  cmds: its requests, a compound when there is    *)
(* more than one; next: index of the first one not called back.  block:    *)
(* the memory behind cb_data.  status: what the block remembers.  calls:   *)
(* calls of the application's callback; result: what the last one said, or *)
(* "refused" for a negative return value.  length: what a READ or WRITE    *)
(* asks for, at offset, of count bytes wanted with credits at hand.        *)
(* fault: undefined behaviour its callback ran into.                       *)
NoOp == [kind |-> NULL, cmds |-> <<>>, next |-> 1, block |-> "none",
         status |-> "ok", calls |-> 0, result |-> NULL, h |-> NULL,
         count |-> 0, credits |-> 0, length |-> 0, offset |-> 0, loop |-> FALSE,
         fault |-> NULL]

Eof == 0

NoFh  == [state |-> "none", owner |-> NULL, offset |-> 0, end_of_file |-> 0]

(* entries: the list; current: the rest of the list from current_entry on. *)
NoDir == [state |-> "none", owner |-> NULL, entries |-> <<>>, current |-> <<>>,
          index |-> 0, size |-> 0, sent |-> 0]

Init ==
    /\ op = [o \in Ops |-> NoOp]
    /\ fh = [h \in Handles |-> NoFh]
    /\ dir = NoDir
    /\ did = [o \in Ops |-> {}]

-----------------------------------------------------------------------------
(* Starting an operation. *)

Free(o) == op[o].kind = NULL

Started(o, kind, cmds) ==
    [NoOp EXCEPT !.kind = kind, !.cmds = cmds, !.block = "live"]

Start(o, kind, cmds) ==
    /\ Free(o)
    /\ op' = [op EXCEPT ![o] = Started(o, kind, cmds)]
    /\ UNCHANGED <<fh, dir, did>>

(* Memory runs out while the requests are built: the call returns an       *)
(* error, with the block in the state the code leaves it in and calls      *)
(* calls of the callback.                                                  *)
NoMemory(o, block, calls) ==
    /\ Free(o)
    /\ op' = [op EXCEPT ![o] = [NoOp EXCEPT !.kind = "refused", !.block = block,
                                            !.calls = calls, !.result = "refused"]]
    /\ UNCHANGED <<fh, dir, did>>

(* smb2_unlink_async and smb2_rmdir_async *)
smb2_unlink_internal(o) ==
    \/ Start(o, "unlink", <<"CREATE", "CLOSE">>)
    \/ NoMemory(o, "leaked", 0)
    \/ NoMemory(o, "freed", 0)

smb2_mkdir_async(o) ==
    \/ Start(o, "mkdir", <<"CREATE", "CLOSE">>)
    \/ NoMemory(o, "leaked", 0)
    \/ NoMemory(o, "freed", 0)

(* smb2_stat_async and smb2_statvfs_async *)
smb2_getinfo_async(o) ==
    \/ Start(o, "getinfo", <<"CREATE", "QUERY_INFO", "CLOSE">>)
    \/ \E calls \in 0..1 : NoMemory(o, "freed", calls)

smb2_truncate_async(o) ==
    \/ Start(o, "truncate", <<"CREATE", "SET_INFO", "CLOSE">>)
    \/ \E calls \in 0..1 : NoMemory(o, "freed", calls)

smb2_rename_async(o) ==
    \/ Start(o, "rename", <<"CREATE", "SET_INFO", "CLOSE">>)
    \/ \E calls \in 0..1 : NoMemory(o, "freed", calls)

smb2_readlink_async(o) ==
    \/ Start(o, "readlink", <<"CREATE", "IOCTL", "CLOSE">>)
    \/ NoMemory(o, "freed", 0)

smb2_echo_async(o) ==
    \/ Start(o, "echo", <<"ECHO">>)
    \/ NoMemory(o, "freed", 0)

(* _smb2_open_async_with_oplock_or_lease: the handle is the block. *)
smb2_open_async(o, h) ==
    /\ fh[h].state = "none"
    /\ \/ /\ Free(o)
          /\ op' = [op EXCEPT ![o] = [Started(o, "open", <<"CREATE">>) EXCEPT
                                        !.h = h, !.block = "none"]]
          /\ fh' = [fh EXCEPT ![h] = [NoFh EXCEPT !.state = "opening", !.owner = o]]
          /\ UNCHANGED <<dir, did>>
       \/ NoMemory(o, "freed", 0)

(* Requests in flight on the handle. *)
Busy(h, kinds) ==
    \E p \in Ops : /\ op[p].h = h /\ op[p].kind \in kinds
                   /\ op[p].next <= Len(op[p].cmds)

(* How an application may use a handle: nothing is started on it while it  *)
(* is being closed, and a handle that is watched is used for nothing else. *)
Usable(h) == fh[h].state = "open" /\ ~Busy(h, {"close", "notify"})

(* An operation on an open handle that has a block of its own. *)
OnHandle(o, h, kind, cmd, lost) ==
    /\ Usable(h)
    /\ \/ /\ Free(o)
          /\ op' = [op EXCEPT ![o] = [Started(o, kind, <<cmd>>) EXCEPT !.h = h]]
          /\ UNCHANGED <<fh, dir, did>>
       \/ NoMemory(o, lost, 0)

smb2_fstat_async(o, h) == OnHandle(o, h, "fstat", "QUERY_INFO", "freed")

smb2_ftruncate_async(o, h) == OnHandle(o, h, "ftruncate", "SET_INFO", "leaked")

(* smb2_fsync_async and smb2_close_async keep their callback in the        *)
(* handle; the application does not start one while another of them is in  *)
(* flight, and closes a handle when nothing else is in flight on it.       *)
InHandle(o, h, kind, cmd) ==
    /\ Usable(h)
    /\ fh' = [fh EXCEPT ![h].owner = o]
    /\ \/ /\ Free(o)
          /\ op' = [op EXCEPT ![o] = [Started(o, kind, <<cmd>>) EXCEPT
                                        !.h = h, !.block = "none"]]
          /\ UNCHANGED <<dir, did>>
       \/ /\ Free(o)
          /\ op' = [op EXCEPT ![o] = [NoOp EXCEPT !.kind = "refused",
                                                  !.result = "refused"]]
          /\ UNCHANGED <<dir, did>>

smb2_fsync_async(o, h) ==
    /\ ~Busy(h, {"fsync", "close"})
    /\ InHandle(o, h, "fsync", "FLUSH")

AllKinds == {"fsync", "close", "pread", "pwrite", "fstat", "ftruncate", "notify"}

smb2_close_async(o, h) ==
    /\ ~Busy(h, AllKinds)
    /\ InHandle(o, h, "close", "CLOSE")

-----------------------------------------------------------------------------
(* Reads and writes: how much is asked for. *)

Unit == 65536

MAX_CREDITS == 1024

(* (count - 1) / 65536 + 1 in unsigned 32 bits. *)
needed_credits(count) ==
    IF count = 0 THEN 65536 ELSE (count - 1) \div Unit + 1

(* Variant: one credit more than there are at hand. *)
transfer_length_late(count, credits, multi) ==
    LET a == Min({count, MaxSize}) IN
    IF ~multi THEN Min({a, Unit})
    ELSE IF needed_credits(a) >= credits THEN (credits + 1) * Unit ELSE a

(* The length of a READ or WRITE; multi: the dialect is above 2.02. *)
transfer_length(count, credits, multi) ==
    LET a == Min({count, MaxSize})
        b == IF needed_credits(a) > MAX_CREDITS - 16 THEN (MAX_CREDITS - 16) * Unit
             ELSE a
    IN  IF ~multi THEN Min({a, Unit})
        ELSE IF needed_credits(b) > credits THEN credits * Unit ELSE b

Transfer(o, h, kind, cmd, offset, lost) ==
    /\ Usable(h)
    /\ \/ /\ Free(o)
          /\ \E count \in Counts, credits \in Credits, multi \in BOOLEAN :
                op' = [op EXCEPT ![o] =
                         [Started(o, kind, <<cmd>>) EXCEPT
                             !.h = h, !.count = count, !.offset = offset,
                             !.credits = IF multi THEN credits ELSE 1,
                             !.length = transfer_length(count, credits, multi)]]
          /\ UNCHANGED <<fh, dir, did>>
       \/ NoMemory(o, lost, 0)

(* smb2_read_async reads at the offset of the handle, smb2_pread_async     *)
(* anywhere.                                                               *)
smb2_pread_async(o, h) == Transfer(o, h, "pread", "READ", fh[h].offset, "leaked")

smb2_pwrite_async(o, h) == Transfer(o, h, "pwrite", "WRITE", fh[h].offset, "leaked")

(* SEEK_SET, SEEK_CUR and SEEK_END; SEEK_END moves the offset to the end   *)
(* even when the result would be negative and the call is refused.         *)
smb2_lseek(h, whence, offset) ==
    LET from == CASE whence = "SEEK_SET" -> 0
                  [] whence = "SEEK_CUR" -> fh[h].offset
                  [] whence = "SEEK_END" -> fh[h].end_of_file
    IN  /\ fh[h].state = "open" /\ from + offset <= MaxOffset
        /\ fh' = [fh EXCEPT ![h].offset =
                    IF from + offset >= 0 THEN from + offset
                    ELSE IF whence = "SEEK_END" THEN from ELSE @]
        /\ UNCHANGED <<op, dir, did>>

-----------------------------------------------------------------------------
(* smb2_notify_change_filehandle_async, on a handle opened for it. *)
smb2_notify_change_async(o, h) ==
    /\ fh[h].state = "open" /\ ~Busy(h, AllKinds)
    /\ \/ /\ Free(o)
          /\ \E loop \in BOOLEAN :
                op' = [op EXCEPT ![o] =
                         [Started(o, "notify", <<"CHANGE_NOTIFY">>) EXCEPT
                             !.h = h, !.loop = loop]]
          /\ UNCHANGED <<fh, dir, did>>
       \/ NoMemory(o, "freed", 0)

smb2_opendir_async(o) ==
    /\ dir.state = "none"
    /\ \/ /\ Free(o)
          /\ op' = [op EXCEPT ![o] = [Started(o, "opendir", <<"CREATE">>) EXCEPT
                                        !.block = "none"]]
          /\ dir' = [NoDir EXCEPT !.state = "filling", !.owner = o]
          /\ UNCHANGED <<fh, did>>
       \/ NoMemory(o, "freed", 0)

-----------------------------------------------------------------------------
(* The callbacks.  st is the status of the request that is called back:    *)
(* "ok", "error", "eof" (SMB2_STATUS_END_OF_FILE), "nomore", or "aborted"  *)
(* when there is no reply.                                                 *)

InFlight(o) == op[o].next <= Len(op[o].cmds)

AtLast(o) == op[o].next = Len(op[o].cmds)

(* The server: a request behind the CREATE of a compound uses the file it  *)
(* opened, and fails when there is none; an aborted request may have been  *)
(* carried out.  The end of the file is an answer to a READ or WRITE; any  *)
(* other request is refused with it.                                       *)
AtEnd(o, st) == st = "eof" /\ op[o].kind \in {"pread", "pwrite"}

ServerDid(o, st) ==
    LET all == did[o] \cup {op[o].next} IN
    /\ InFlight(o)
    /\ \/ /\ st \in {"ok", "nomore", "aborted"} \/ AtEnd(o, st)
          /\ op[o].next = 1 \/ 1 \in did[o]
          /\ did' = [did EXCEPT ![o] = all]
       \/ /\ st \in {"error", "aborted"}
          /\ UNCHANGED did
       \/ /\ st = "eof" /\ ~AtEnd(o, st)
          /\ did' = [did EXCEPT ![o] = @ \cup {Eof}]

(* What the application is told: -nterror_to_errno(status), which is 0 for *)
(* SMB2_STATUS_END_OF_FILE as for SMB2_STATUS_SUCCESS.                     *)
nterror_to_errno(st) == IF st \in {"ok", "eof"} THEN "ok" ELSE "error"

(* The callback of the application is called and the block freed, with     *)
(* what it held.                                                           *)
Reported(r, st) ==
    [r EXCEPT !.calls = @ + 1, !.next = @ + 1,
              !.result = nterror_to_errno(st),
              !.block = IF @ = "none" THEN @ ELSE "freed",
              !.status = "ok", !.count = 0, !.credits = 0, !.length = 0, !.offset = 0]

Report(o, st) == op' = [op EXCEPT ![o] = Reported(@, st)]

Advance(o, st) == op' = [op EXCEPT ![o].next = @ + 1, ![o].status = st]

(* Variant: the status of the last request wins. *)
LastStatus(o, st) == st

FirstError(o, st) == IF op[o].status = "ok" THEN st ELSE op[o].status

(* create_cb_1 only sets the error text; create_cb_2 reports. *)
create_cb(o, st) ==
    /\ op[o].kind \in {"unlink", "mkdir"} /\ ServerDid(o, st)
    /\ IF AtLast(o) THEN Report(o, st) ELSE Advance(o, "ok")
    /\ UNCHANGED <<fh, dir>>

(* getinfo_cb_1, _2 and _3 *)
getinfo_cb(o, st) ==
    /\ op[o].kind = "getinfo" /\ ServerDid(o, st)
    /\ IF AtLast(o) THEN Report(o, FirstError(o, st)) ELSE Advance(o, FirstError(o, st))
    /\ UNCHANGED <<fh, dir>>

(* trunc_cb_1, _2 and _3 *)
trunc_cb(o, st) ==
    /\ op[o].kind = "truncate" /\ ServerDid(o, st)
    /\ IF AtLast(o) THEN Report(o, FirstError(o, st)) ELSE Advance(o, FirstError(o, st))
    /\ UNCHANGED <<fh, dir>>

(* rename_cb_1, _2 and _3 *)
rename_cb(o, st) ==
    /\ op[o].kind = "rename" /\ ServerDid(o, st)
    /\ IF AtLast(o) THEN Report(o, FirstError(o, st)) ELSE Advance(o, FirstError(o, st))
    /\ UNCHANGED <<fh, dir>>

(* readlink_cb_1, _2 and _3: the status of the CLOSE is not used. *)
readlink_cb(o, st) ==
    /\ op[o].kind = "readlink" /\ ServerDid(o, st)
    /\ IF AtLast(o) THEN Report(o, op[o].status) ELSE Advance(o, FirstError(o, st))
    /\ UNCHANGED <<fh, dir>>

(* A compound that times out before it is sent: smb2_timeout_pdus calls    *)
(* back its head, and frees the others with it.                            *)
AbortUnsent(o) ==
    /\ op[o].next = 1 /\ Len(op[o].cmds) > 1 /\ op[o].kind # "opendir"
    /\ op' = [op EXCEPT ![o].next = Len(op[o].cmds) + 1, ![o].status = "aborted"]
    /\ UNCHANGED <<fh, dir, did>>

(* echo_cb and ftrunc_cb_1 *)
ftrunc_cb(o, st) ==
    /\ op[o].kind \in {"echo", "ftruncate"} /\ ServerDid(o, st)
    /\ Report(o, st)
    /\ UNCHANGED <<fh, dir>>

(* The reply is read before the status: there is none in an abort. *)
fstat_cb(o, st) ==
    /\ op[o].kind = "fstat" /\ ServerDid(o, st)
    /\ op' = [op EXCEPT ![o] =
                 [Reported(@, st) EXCEPT
                    !.fault = IF st = "aborted" THEN "null reply" ELSE NULL]]
    /\ UNCHANGED <<fh, dir>>

open_cb(o, st) ==
    /\ op[o].kind = "open" /\ ServerDid(o, st)
    /\ Report(o, st)
    /\ fh' = [fh EXCEPT ![op[o].h] =
                 IF st = "ok" THEN [@ EXCEPT !.state = "open", !.end_of_file = MaxOffset]
                 ELSE NoFh]
    /\ UNCHANGED <<dir>>

(* The callback called is the one in the handle. *)
ReportOwner(o, st) ==
    LET w == fh[op[o].h].owner
        q == [op EXCEPT ![w] = Reported(@, st)]
    IN  op' = IF w = o THEN q ELSE [q EXCEPT ![o].next = @ + 1]

close_cb(o, st) ==
    /\ op[o].kind = "close" /\ ServerDid(o, st)
    /\ ReportOwner(o, st)
    /\ fh' = [fh EXCEPT ![op[o].h] = NoFh]
    /\ UNCHANGED <<dir>>

(* Variant: the handle is freed as in close_cb. *)
fsync_cb_frees(o, st) ==
    /\ op[o].kind = "fsync" /\ ServerDid(o, st)
    /\ ReportOwner(o, st)
    /\ fh' = IF st = "ok" THEN fh ELSE [fh EXCEPT ![op[o].h] = NoFh]
    /\ UNCHANGED <<dir>>

fsync_cb(o, st) ==
    /\ op[o].kind = "fsync" /\ ServerDid(o, st)
    /\ ReportOwner(o, st)
    /\ UNCHANGED <<fh, dir>>

(* read_cb and write_cb: a success moves the offset of the handle behind   *)
(* what was transferred; the end of the file is a transfer of nothing.     *)
read_cb(o, st) ==
    LET h == op[o].h IN
    /\ op[o].kind \in {"pread", "pwrite"} /\ ServerDid(o, st)
    /\ IF st = "ok"
       THEN \E got \in 0..1 :
              /\ op[o].offset + got <= MaxOffset
              /\ fh' = [fh EXCEPT ![h].offset = op[o].offset + got]
       ELSE UNCHANGED fh
    /\ op' = [op EXCEPT ![o] =
                 [Reported(@, st) EXCEPT
                    !.fault = IF st = "ok" /\ fh[h].state # "open"
                              THEN "freed handle" ELSE NULL]]
    /\ UNCHANGED dir

(* A failure is passed on as it is, without nterror_to_errno.  A watch     *)
(* that loops starts over with a new block (unless memory runs out); one   *)
(* that does not closes its handle with the synchronous smb2_close, from   *)
(* inside the callback.                                                    *)
notify_change_cb(o, st) ==
    LET h == op[o].h IN
    /\ op[o].kind = "notify" /\ ServerDid(o, st)
    /\ \/ /\ st # "ok"
          /\ Report(o, "error")
          /\ UNCHANGED fh
       \/ /\ st = "ok" /\ op[o].loop
          /\ Report(o, "ok")
          /\ UNCHANGED fh
       \/ /\ st = "ok" /\ op[o].loop
          /\ op' = [op EXCEPT ![o] = [Started(o, "notify", <<"CHANGE_NOTIFY">>)
                                        EXCEPT !.h = h, !.loop = TRUE]]
          /\ UNCHANGED fh
       \/ /\ st = "ok" /\ ~op[o].loop
          /\ op' = [op EXCEPT ![o] = [Reported(@, st) EXCEPT
                                        !.fault = "nested service"]]
          /\ fh' = [fh EXCEPT ![h] = NoFh]
    /\ UNCHANGED dir

-----------------------------------------------------------------------------
(* Directories. *)

(* free_smb2dir *)
EndDir(o, st) == Report(o, st) /\ dir' = NoDir

(* The next request of the opendir, unless memory runs out. *)
Then(o, cmd) == op' = [op EXCEPT ![o].next = @ + 1, ![o].cmds = Append(@, cmd)]

opendir_cb(o, st) ==
    /\ op[o].kind = "opendir" /\ op[o].next = 1 /\ ServerDid(o, st)
    /\ \/ EndDir(o, IF st = "ok" THEN "error" ELSE st)
       \/ /\ st = "ok"
          /\ Then(o, "QUERY_DIRECTORY")
          /\ \E n \in 0..DirSize : dir' = [dir EXCEPT !.size = n]
    /\ UNCHANGED <<fh>>

(* Variant: each reply starts a new list. *)
decode_dirents_anew(k) == Reverse([i \in 1..k |-> dir.sent + i])

(* decode_dirents adds the k entries of a reply, each in front of the list. *)
decode_dirents(k) ==
    Reverse([i \in 1..k |-> dir.sent + i]) \o dir.entries

Query(o) == op[o].kind = "opendir" /\ InFlight(o) /\ op[o].cmds[op[o].next] = "QUERY_DIRECTORY"

(* A reply that does not decode, a failed request and memory that runs out *)
(* end the opendir; the file that was opened is not closed then.           *)
query_cb(o, st) ==
    /\ Query(o) /\ ServerDid(o, st)
    /\ \/ EndDir(o, IF st = "ok" THEN "error" ELSE st)
       \/ /\ st = "ok"
          /\ \E k \in 1..(dir.size - dir.sent) :
                dir' = [dir EXCEPT !.entries = decode_dirents(k), !.sent = @ + k]
          /\ Then(o, "QUERY_DIRECTORY")
       \/ /\ st = "nomore" /\ dir.sent = dir.size
          /\ Then(o, "CLOSE")
          /\ UNCHANGED dir
    /\ UNCHANGED <<fh>>

od_close_cb(o, st) ==
    /\ op[o].kind = "opendir" /\ op[o].next > 1 /\ InFlight(o) /\ ~Query(o)
    /\ ServerDid(o, st)
    /\ IF st # "ok" THEN EndDir(o, st)
       ELSE /\ Report(o, st)
            /\ dir' = [dir EXCEPT !.state = "open", !.current = dir.entries, !.index = 0]
    /\ UNCHANGED <<fh>>

smb2_readdir ==
    /\ dir.state = "open" /\ dir.current # <<>>
    /\ dir' = [dir EXCEPT !.current = Tail(@), !.index = @ + 1]
    /\ UNCHANGED <<op, fh, did>>

(* A negative loc walks to the end. *)
smb2_seekdir(loc) ==
    /\ dir.state = "open"
    /\ LET n == IF loc < 0 THEN Len(dir.entries) ELSE Min({loc, Len(dir.entries)})
       IN  dir' = [dir EXCEPT !.current = SubSeq(dir.entries, n + 1, Len(dir.entries)),
                              !.index = n]
    /\ UNCHANGED <<op, fh, did>>

smb2_rewinddir ==
    /\ dir.state = "open"
    /\ dir' = [dir EXCEPT !.current = dir.entries, !.index = 0]
    /\ UNCHANGED <<op, fh, did>>

smb2_closedir ==
    /\ dir.state = "open"
    /\ dir' = NoDir
    /\ UNCHANGED <<op, fh, did>>

-----------------------------------------------------------------------------
(* The application is done with an operation it has heard of. *)
Forget(o) ==
    /\ op[o].result # NULL /\ ~InFlight(o)
    /\ op' = [op EXCEPT ![o] = NoOp] /\ did' = [did EXCEPT ![o] = {}]
    /\ UNCHANGED <<fh, dir>>

Call(o) ==
    \/ smb2_unlink_internal(o)
    \/ smb2_mkdir_async(o)
    \/ smb2_getinfo_async(o)
    \/ smb2_truncate_async(o)
    \/ smb2_rename_async(o)
    \/ smb2_readlink_async(o)
    \/ smb2_echo_async(o)
    \/ smb2_opendir_async(o)

CallOn(o, h) ==
    \/ smb2_open_async(o, h)
    \/ smb2_close_async(o, h)
    \/ smb2_fsync_async(o, h)
    \/ smb2_pread_async(o, h)
    \/ smb2_pwrite_async(o, h)
    \/ smb2_fstat_async(o, h)
    \/ smb2_ftruncate_async(o, h)
    \/ smb2_notify_change_async(o, h)

(* The seeks that are tried: to a place, back over the start, and over the *)
(* start from the end; to a negative location, one inside and one beyond.  *)
Seeks     == {<<"SEEK_SET", 1>>, <<"SEEK_CUR", -1>>, <<"SEEK_END", -2>>}
Locations == {-1, 1, DirSize + 1}

Statuses(o) ==
    {"ok", "error", "eof", "aborted"}
        \cup (IF Query(o) THEN {"nomore"} ELSE {})

Callback(o, st) ==
    \/ create_cb(o, st)
    \/ getinfo_cb(o, st)
    \/ trunc_cb(o, st)
    \/ rename_cb(o, st)
    \/ readlink_cb(o, st)
    \/ ftrunc_cb(o, st)
    \/ fstat_cb(o, st)
    \/ open_cb(o, st)
    \/ close_cb(o, st)
    \/ fsync_cb(o, st)
    \/ read_cb(o, st)
    \/ notify_change_cb(o, st)
    \/ opendir_cb(o, st)
    \/ query_cb(o, st)
    \/ od_close_cb(o, st)

Next ==
    \/ \E o \in Ops : Call(o)
    \/ \E o \in Ops, h \in Handles : CallOn(o, h)
    \/ \E o \in Ops : \E st \in Statuses(o) : Callback(o, st)
    \/ \E o \in Ops : AbortUnsent(o)
    \/ \E o \in Ops : Forget(o)
    \/ \E h \in Handles, seek \in Seeks : smb2_lseek(h, seek[1], seek[2])
    \/ smb2_readdir
    \/ \E loc \in Locations : smb2_seekdir(loc)
    \/ smb2_rewinddir
    \/ smb2_closedir

Spec == Init /\ [][Next]_vars

-----------------------------------------------------------------------------
(* No request in flight refers to memory that is gone: its block, its      *)
(* handle or its directory lives until its callback has run, and the       *)
(* callback of an operation is called at most once (the *_cb functions).   *)
MemoryHeld ==
    \A o \in Ops :
        /\ op[o].calls <= 1 /\ op[o].fault # "freed handle"
        /\ InFlight(o) =>
              /\ op[o].block # "freed" /\ op[o].calls = 0
              /\ op[o].h # NULL => fh[op[o].h].state \in {"opening", "open"}
              /\ op[o].kind = "opendir" => dir.state = "filling" /\ dir.owner = o

(* An operation that reports success has been carried out by the server,   *)
(* every request of it, however requests of a compound fail or are aborted *)
(* one by one (getinfo_cb_3, trunc_cb_3, rename_cb_3, create_cb_2, ...).   *)
(* Two exceptions: readlink does not care about its CLOSE; and a request   *)
(* refused with SMB2_STATUS_END_OF_FILE, which nterror_to_errno takes for  *)
(* a success, lets its operation report one.                               *)
SuccessIsTrue ==
    \A o \in Ops :
        op[o].result = "ok" =>
            \/ (1..Len(op[o].cmds)) \ did[o] \subseteq
                   (IF op[o].kind = "readlink" THEN {3} ELSE {})
            \/ Eof \in did[o]

(* A directory handed to the application lists every entry the server sent *)
(* exactly once, whatever the replies they came in, and its cursor and the *)
(* location smb2_telldir returns agree (decode_dirents, smb2_readdir).     *)
ListingWhole ==
    dir.state = "open" =>
        /\ Len(dir.entries) = dir.size
        /\ ToSet(dir.entries) = 1..dir.size
        /\ dir.current = SubSeq(dir.entries, dir.index + 1, Len(dir.entries))

(* A READ or WRITE of at least one byte asks for no more than the caller   *)
(* has room for and than the server takes, and its credit charge is        *)
(* covered by the credits at hand unless there are none                    *)
(* (smb2_pread_async, smb2_pwrite_async).                                  *)
TransferFits ==
    \A o \in Ops :
        op[o].kind \in {"pread", "pwrite"} /\ op[o].count > 0 =>
            /\ op[o].length <= op[o].count /\ op[o].length <= MaxSize
            /\ op[o].length > 0 => needed_credits(op[o].length) <= op[o].credits

(* A READ asks for no more than the caller has room for, 0 bytes included. *)
(* "Command_data is struct smb2_read_cb_data, which holds the arguments    *)
(* that were given to smb2_pread_async" (libsmb2.h), count among them.     *)
RoomForReply ==
    \A o \in Ops : op[o].kind \in {"pread", "pwrite"} => op[o].length <= op[o].count

(* No callback looks at a reply that is not there: "the unconditional      *)
(* rep->output dereference below SEGVs whenever a watcher is torn down     *)
(* with a notify request still outstanding" (notify_change_cb).            *)
ReplyIsThere == \A o \in Ops : op[o].fault # "null reply"
=============================================================================
