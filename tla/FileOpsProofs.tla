--------------------------- MODULE FileOpsProofs ---------------------------
(***************************************************************************)
(* Proofs about the file operations, for any number of operations and      *)
(* handles: what a callback reaches is there, a success that is reported   *)
(* was the server's, a READ or WRITE asks for no more than it may, and a   *)
(* directory lists what the server sent.                                   *)
(***************************************************************************)
EXTENDS FileOps, SeqLemmas

(* The operations on a handle; those of one request; and the compounds     *)
(* that remember the first error.                                          *)
HandleKinds == AllKinds \cup {"open"}
SingleKinds == HandleKinds \cup {"echo"}
ErrorKinds  == {"getinfo", "truncate", "rename", "readlink"}
PairKinds   == {"unlink", "mkdir"}

Kinds == {"refused", "opendir"} \cup SingleKinds \cup PairKinds \cup ErrorKinds

Commands == {"CREATE", "CLOSE", "QUERY_INFO", "SET_INFO", "IOCTL", "ECHO", "FLUSH", "READ",
             "WRITE", "CHANGE_NOTIFY", "QUERY_DIRECTORY"}

States == {"ok", "error", "eof", "nomore", "aborted"}

(* What an operation may remember of its requests. *)
Kept == {"ok", "error", "eof", "aborted"}

OpType ==
    [kind : Kinds \cup {NULL}, cmds : Seq(Commands), next : Nat \ {0},
     block : {"none", "live", "freed", "leaked"}, status : Kept, calls : Nat,
     result : {"ok", "error", "refused", NULL}, h : Handles \cup {NULL}, count : Nat,
     credits : Nat, length : Int, offset : Int, loop : BOOLEAN,
     fault : {"null reply", "freed handle", "nested service", NULL}]

FhType == [state : {"none", "opening", "open"}, owner : Ops \cup {NULL}, offset : Int,
           end_of_file : Int]

DirType ==
    [state : {"none", "filling", "open"}, owner : Ops \cup {NULL}, entries : Seq(Nat), current : Seq(Nat),
     index : Nat, size : Nat, sent : Nat]

Types ==
    /\ op \in [Ops -> OpType]
    /\ fh \in [Handles -> FhType]
    /\ dir \in DirType
    /\ did \in [Ops -> SUBSET Nat]

(* Requests of r are in flight. *)
Open(r) == r.next <= Len(r.cmds)

(* An operation has the requests of its kind; while some are in flight its *)
(* block lives and it has not been reported.                               *)
Shaped(r) ==
    /\ r.kind \in {NULL, "refused"} => Len(r.cmds) = 0
    /\ r.kind \in SingleKinds => Len(r.cmds) = 1
    /\ r.kind \in PairKinds => Len(r.cmds) = 2
    /\ r.kind \in ErrorKinds => Len(r.cmds) = 3
    /\ r.kind = "opendir" /\ Open(r) => r.next = Len(r.cmds)
    /\ Open(r) => /\ r.block # "freed" /\ r.calls = 0 /\ r.result = NULL
                  /\ r.h # NULL <=> r.kind \in HandleKinds
    /\ r.calls <= 1 /\ r.fault # "freed handle"

(* The requests of r have been carried out, those in d, or one has been    *)
(* refused with END_OF_FILE.                                               *)
Done(r, d) ==
    \/ (1..Len(r.cmds)) \ d \subseteq (IF r.kind = "readlink" THEN {3} ELSE {})
    \/ Eof \in d

(* The requests called back so far were carried out, those in d, unless    *)
(* the operation remembers an error; an END_OF_FILE it remembers was the   *)
(* server's.                                                               *)
Carried(r, d) ==
    /\ Open(r) /\ (r.kind = "opendir" \/ (r.kind \in ErrorKinds /\ r.status = "ok")) =>
           1..(r.next - 1) \subseteq d
    /\ Open(r) /\ r.kind \in ErrorKinds /\ r.status = "eof" => Eof \in d
    /\ r.result = "ok" => Done(r, d)

(* What a status that nterror_to_errno takes for a success says of the     *)
(* requests in d, after the callback of the next one.                      *)
Answered(o, st, d) ==
    st \in {"ok", "eof", "nomore"} =>
        \/ op[o].next \in d /\ 1 \in d
        \/ st = "eof" /\ Eof \in d

(* Compounds have no READ or WRITE: END_OF_FILE refuses a request of one.  *)
Refused(o, st, d) == op[o].kind \in ErrorKinds /\ st = "eof" => Eof \in d

OpsSound == \A o \in Ops : Shaped(op[o]) /\ Carried(op[o], did[o])

(* A handle with requests in flight is there; the callback it keeps is the *)
(* one of the request in flight that will call it; and whoever closes it   *)
(* is alone on it.                                                         *)
HandlesSound ==
    \A o \in Ops : Open(op[o]) /\ op[o].h # NULL =>
        /\ fh[op[o].h].state = IF op[o].kind = "open" THEN "opening" ELSE "open"
        /\ op[o].kind \in {"open", "fsync", "close"} => fh[op[o].h].owner = o
        /\ op[o].kind \in {"close", "notify"} =>
               \A p \in Ops \ {o} : Open(op[p]) => op[p].h # op[o].h

(* The directory belongs to the opendir that fills it, which closes it     *)
(* when it has all entries.                                                *)
FillerSound ==
    \A o \in Ops : Open(op[o]) /\ op[o].kind = "opendir" =>
        /\ dir.state = "filling" /\ dir.owner = o
        /\ op[o].next = 1 => dir.sent = 0
        /\ op[o].next > 1 /\ op[o].cmds[op[o].next] # "QUERY_DIRECTORY" => dir.sent = dir.size

(* The list of a directory holds what was sent; of one that is open, all,  *)
(* and its cursor is at its index.                                         *)
ListSound(x) ==
    /\ Len(x.entries) = x.sent
    /\ ToSet(x.entries) = 1..x.sent
    /\ x.state = "open" =>
           /\ x.sent = x.size /\ x.index \in 0..Len(x.entries)
           /\ x.current = SubSeq(x.entries, x.index + 1, Len(x.entries))

DirSound == ListSound(dir)

(* A READ or WRITE asks for what it may, as in TransferFits. *)
Fits(r) ==
    r.kind \in {"pread", "pwrite"} /\ r.count > 0 =>
        /\ r.length <= r.count /\ r.length <= MaxSize
        /\ r.length > 0 => needed_credits(r.length) <= r.credits

OpsFit == \A o \in Ops : Fits(op[o])

IInv == Types /\ OpsSound /\ HandlesSound /\ FillerSound /\ DirSound /\ OpsFit

-----------------------------------------------------------------------------
(* Records of operations. *)

(* The requests of an operation are counted. *)
LEMMA CountFacts ==
    ASSUME NEW r \in OpType
    PROVE  r.next \in Nat \ {0} /\ r.cmds \in Seq(Commands) /\ Len(r.cmds) \in Nat
<1>1. r.next \in Nat \ {0} /\ r.cmds \in Seq(Commands)
  BY DEF OpType
<1> QED BY <1>1, SeqElements

(* The record of an operation that is not there, or was refused.           *)
LEMMA NoOpFacts ==
    /\ NoOp \in OpType /\ ~Open(NoOp) /\ Shaped(NoOp) /\ Fits(NoOp)
    /\ \A d : Carried(NoOp, d)
    /\ \A block \in {"freed", "leaked", "none"}, calls \in 0..1 : \A r :
           r = [NoOp EXCEPT !.kind = "refused", !.block = block, !.calls = calls,
                            !.result = "refused"] =>
               r \in OpType /\ ~Open(r) /\ Shaped(r) /\ Fits(r) /\ \A d : Carried(r, d)
<1>1. <<>> \in Seq(Commands) /\ Len(<<>>) = 0
  BY SmallSeq
<1>2. NULL \notin Kinds /\ NULL # "ok" /\ NULL # "freed handle"
  BY FileOpsAssumption
     DEF Kinds, SingleKinds, HandleKinds, AllKinds, PairKinds, ErrorKinds
<1>3. "pread" \in Kinds /\ "pwrite" \in Kinds /\ "refused" \in Kinds
  BY DEF Kinds, SingleKinds, HandleKinds, AllKinds
<1>4. ASSUME NEW r \in OpType, r.kind \in {NULL, "refused"}, r.cmds = <<>>, r.next = 1,
             r.calls \in 0..1, r.fault = NULL, r.result \in {NULL, "refused"}
      PROVE  ~Open(r) /\ Shaped(r) /\ Fits(r) /\ \A d : Carried(r, d)
  <2>1. ~Open(r)
    BY <1>1, <1>4 DEF Open
  <2>2. r.kind \notin SingleKinds \cup PairKinds \cup ErrorKinds
    <3>1. CASE r.kind = NULL
      BY <1>2, <3>1 DEF Kinds
    <3>2. CASE r.kind = "refused"
      BY <3>2 DEF SingleKinds, HandleKinds, AllKinds, PairKinds, ErrorKinds
    <3> QED BY <1>4, <3>1, <3>2
  <2>3. r.calls <= 1 /\ Len(r.cmds) = 0 /\ r.fault # "freed handle"
    <3>1. r.calls <= 1
      BY <1>4
    <3>2. Len(r.cmds) = 0
      BY <1>1, <1>4
    <3>3. r.fault # "freed handle"
      BY <1>2, <1>4
    <3> QED BY <3>1, <3>2, <3>3
  <2>4. Shaped(r)
    BY <2>1, <2>2, <2>3 DEF Shaped
  <2>5. r.kind \notin {"pread", "pwrite"} /\ r.result # "ok"
    BY <1>2, <1>3, <1>4
  <2> QED BY <2>1, <2>4, <2>5 DEF Fits, Carried
<1>5. "ok" \in Kept
  BY DEF Kept
<1>6. /\ NoOp \in OpType /\ NoOp.kind = NULL /\ NoOp.cmds = <<>> /\ NoOp.next = 1
      /\ NoOp.calls = 0 /\ NoOp.fault = NULL /\ NoOp.result = NULL
  BY <1>1, <1>5 DEF NoOp, OpType
<1>7. ASSUME NEW block \in {"freed", "leaked", "none"}, NEW calls \in 0..1, NEW r,
             r = [NoOp EXCEPT !.kind = "refused", !.block = block, !.calls = calls,
                              !.result = "refused"]
      PROVE  r \in OpType /\ ~Open(r) /\ Shaped(r) /\ Fits(r) /\ \A d : Carried(r, d)
  <2>1. r = [kind |-> "refused", cmds |-> <<>>, next |-> 1, block |-> block, status |-> "ok",
             calls |-> calls, result |-> "refused", h |-> NULL, count |-> 0, credits |-> 0,
             length |-> 0, offset |-> 0, loop |-> FALSE, fault |-> NULL]
    BY <1>7 DEF NoOp
  <2>2. r \in OpType
    BY <1>1, <1>3, <1>5, <2>1 DEF OpType
  <2>3. /\ r.kind = "refused" /\ r.cmds = <<>> /\ r.next = 1
        /\ r.calls = calls /\ r.fault = NULL /\ r.result = "refused"
    BY <2>1
  <2> QED BY <1>4, <2>2, <2>3
<1> QED BY <1>4, <1>6, <1>7

(* The record of an operation that has been started.                       *)
LEMMA StartedFacts ==
    ASSUME NEW o, NEW kind \in Kinds, NEW cmds \in Seq(Commands), NEW r, r = Started(o, kind, cmds)
    PROVE  /\ r \in OpType /\ r.kind = kind /\ r.cmds = cmds /\ r.next = 1
           /\ r.block = "live" /\ r.status = "ok" /\ r.calls = 0 /\ r.result = NULL
           /\ r.h = NULL /\ r.fault = NULL
<1>1. <<>> \in Seq(Commands)
  BY SmallSeq
<1>2. r = [kind |-> kind, cmds |-> cmds, next |-> 1, block |-> "live", status |-> "ok",
           calls |-> 0, result |-> NULL, h |-> NULL, count |-> 0, credits |-> 0,
           length |-> 0, offset |-> 0, loop |-> FALSE, fault |-> NULL]
  BY DEF Started, NoOp
<1> QED BY <1>1, <1>2 DEF OpType, Kept

(* A request of its own that has been started.                             *)
LEMMA StartedOne ==
    ASSUME NEW o, NEW kind \in Kinds, NEW cmd \in Commands, NEW s, s = Started(o, kind, <<cmd>>)
    PROVE  /\ s \in OpType /\ s.kind = kind /\ s.cmds = <<cmd>> /\ s.next = 1
           /\ s.block = "live" /\ s.status = "ok" /\ s.calls = 0 /\ s.result = NULL
           /\ s.h = NULL /\ s.fault = NULL
<1>1. PICK cs : cs = <<cmd>>
  OBVIOUS
<1>2. cs \in Seq(Commands)
  BY <1>1, SmallSeq
<1>3. s = Started(o, kind, cs)
  BY <1>1
<1>4. /\ s \in OpType /\ s.kind = kind /\ s.cmds = cs /\ s.next = 1
      /\ s.block = "live" /\ s.status = "ok" /\ s.calls = 0 /\ s.result = NULL
      /\ s.h = NULL /\ s.fault = NULL
  <2> HIDE <1>1
  <2> QED BY <1>2, <1>3, StartedFacts
<1> QED BY <1>1, <1>4

(* The record of an operation whose last callback reports.                 *)
LEMMA ReportedFacts ==
    ASSUME NEW r \in OpType, NEW st \in States, Shaped(r), Open(r), r.next = Len(r.cmds), NEW q,
           q = Reported(r, st)
    PROVE  /\ q \in OpType /\ ~Open(q) /\ Shaped(q)
           /\ q.kind = r.kind /\ q.cmds = r.cmds /\ q.h = r.h
           /\ q.fault = r.fault /\ q.next = r.next + 1 /\ q.calls = r.calls + 1
           /\ q.result = "ok" => st \in {"ok", "eof"}
           /\ q.result \in {"ok", "error"}
           /\ Fits(q)
<1> DEFINE result == nterror_to_errno(st)
           block == IF r.block = "none" THEN r.block ELSE "freed"
<1>0. q = [kind |-> r.kind, cmds |-> r.cmds, next |-> r.next + 1, block |-> block,
           status |-> "ok", calls |-> r.calls + 1, result |-> result, h |-> r.h,
           count |-> 0, credits |-> 0, length |-> 0, offset |-> 0,
           loop |-> r.loop, fault |-> r.fault]
  BY DEF Reported, OpType
<1>00. result = IF st \in {"ok", "eof"} THEN "ok" ELSE "error"
  BY DEF nterror_to_errno
<1>1. /\ q \in OpType
      /\ q.kind = r.kind /\ q.cmds = r.cmds /\ q.h = r.h
      /\ q.fault = r.fault /\ q.next = r.next + 1 /\ q.calls = r.calls + 1
      /\ q.result = result
      /\ q.count = 0
  <2>1. result \in {"ok", "error", "refused", NULL} /\ block \in {"none", "live", "freed", "leaked"}
    BY <1>00
  <2>2. PICK next, calls : next = r.next + 1 /\ calls = r.calls + 1
    OBVIOUS
  <2>3. r.next \in Nat \ {0} /\ r.calls \in Nat
    BY DEF OpType
  <2>4. next \in Nat \ {0} /\ calls \in Nat
    BY <2>2, <2>3
  <2> HIDE DEF result, block
  <2>5. PICK zero : zero = 0 /\ zero \in Nat /\ zero \in Int
    OBVIOUS
  <2>6. PICK x : x = [r EXCEPT !.calls = calls, !.next = next, !.result = result,
                               !.block = block]
    OBVIOUS
  <2>7. x \in OpType
    BY <2>1, <2>4, <2>6 DEF OpType
  <2>8. PICK y : y = [x EXCEPT !.status = "ok", !.count = zero, !.credits = zero,
                               !.length = zero, !.offset = zero]
    OBVIOUS
  <2>9. y \in OpType
    <3> HIDE <2>6
    <3> QED BY <2>5, <2>7, <2>8 DEF OpType, Kept
  <2>10. q = y
    <3>1. y = [kind |-> r.kind, cmds |-> r.cmds, next |-> next, block |-> block,
               status |-> "ok", calls |-> calls, result |-> result, h |-> r.h,
               count |-> zero, credits |-> zero, length |-> zero, offset |-> zero,
               loop |-> r.loop, fault |-> r.fault]
      BY <2>6, <2>8 DEF OpType
    <3> QED BY <1>0, <2>2, <2>5, <3>1
  <2> QED BY <1>0, <2>9, <2>10
<1>2. r.next \in Nat /\ Len(r.cmds) \in Nat /\ r.calls = 0
  BY DEF OpType, Shaped
<1>3. ~Open(q)
  BY <1>1, <1>2 DEF Open
<1>4. q.calls <= 1
  BY <1>1, <1>2
<1>5. Shaped(q)
  BY <1>1, <1>3, <1>4 DEF Shaped
<1>6. Fits(q)
  BY <1>1 DEF Fits
<1> QED BY <1>00, <1>1, <1>3, <1>5, <1>6

-----------------------------------------------------------------------------
(* Steps of one operation. *)

(* An operation that changes keeps the others as they are.                 *)
LEMMA OpsKept ==
    ASSUME IInv, NEW o \in Ops, NEW r \in OpType, NEW d \in SUBSET Nat,
           op' = [op EXCEPT ![o] = r], did' = [did EXCEPT ![o] = d],
           Shaped(r), Carried(r, d), Fits(r)
    PROVE  /\ op' \in [Ops -> OpType] /\ did' \in [Ops -> SUBSET Nat]
           /\ OpsSound' /\ OpsFit'
           /\ op'[o] = r /\ \A p \in Ops \ {o} : op'[p] = op[p]
<1>1. /\ op \in [Ops -> OpType] /\ did \in [Ops -> SUBSET Nat]
  BY DEF IInv, Types
<1>2. /\ op'[o] = r /\ did'[o] = d
      /\ \A p \in Ops \ {o} : op'[p] = op[p] /\ did'[p] = did[p]
      /\ op' \in [Ops -> OpType] /\ did' \in [Ops -> SUBSET Nat]
  BY <1>1
<1>3. OpsSound'
  <2> SUFFICES ASSUME NEW p \in Ops PROVE Shaped(op'[p]) /\ Carried(op'[p], did'[p])
    BY DEF OpsSound
  <2> QED BY <1>2 DEF IInv, OpsSound
<1>4. OpsFit'
  <2> SUFFICES ASSUME NEW p \in Ops PROVE Fits(op'[p])
    BY DEF OpsFit
  <2> QED BY <1>2 DEF IInv, OpsFit
<1> QED BY <1>2, <1>3, <1>4

(* A directory that does not change stays sound, as does the one that      *)
(* fills it, when no opendir is started or goes on.                        *)
LEMMA FillerKept ==
    ASSUME IInv, NEW o \in Ops, dir' = dir,
           Open(op'[o]) => op'[o].kind # "opendir",
           \A p \in Ops \ {o} : op'[p] = op[p]
    PROVE  FillerSound' /\ DirSound'
<1>1. DirSound'
  BY DEF IInv, DirSound
<1>2. FillerSound'
  <2> SUFFICES ASSUME NEW p \in Ops, Open(op'[p]), op'[p].kind = "opendir"
               PROVE  /\ dir.state = "filling" /\ dir.owner = p
                      /\ op'[p].next = 1 => dir.sent = 0
                      /\ op'[p].next > 1 /\ op'[p].cmds[op'[p].next] # "QUERY_DIRECTORY"
                             => dir.sent = dir.size
    BY DEF FillerSound
  <2>1. p # o /\ op'[p] = op[p]
    OBVIOUS
  <2> QED BY <2>1 DEF IInv, FillerSound
<1> QED BY <1>1, <1>2

(* Handles keep what is in flight on them, when their state and owner do   *)
(* not change and nothing is started on one.                               *)
LEMMA HandlesKept ==
    ASSUME IInv, NEW o \in Ops, Open(op'[o]) => op'[o].h = NULL,
           \A p \in Ops \ {o} : op'[p] = op[p],
           \A h \in Handles : fh'[h].state = fh[h].state /\ fh'[h].owner = fh[h].owner
    PROVE  HandlesSound'
<1> SUFFICES ASSUME NEW p \in Ops, Open(op'[p]), op'[p].h # NULL
             PROVE  /\ fh'[op'[p].h].state = IF op'[p].kind = "open" THEN "opening" ELSE "open"
                    /\ op'[p].kind \in {"open", "fsync", "close"} => fh'[op'[p].h].owner = p
                    /\ op'[p].kind \in {"close", "notify"} =>
                           \A q \in Ops \ {p} : Open(op'[q]) => op'[q].h # op'[p].h
  BY DEF HandlesSound
<1>1. p # o /\ op'[p] = op[p]
  OBVIOUS
<1>2. op[p].h \in Handles
  BY <1>1 DEF IInv, Types, OpType
<1>3. /\ fh[op[p].h].state = IF op[p].kind = "open" THEN "opening" ELSE "open"
      /\ op[p].kind \in {"open", "fsync", "close"} => fh[op[p].h].owner = p
      /\ op[p].kind \in {"close", "notify"} =>
             \A q \in Ops \ {p} : Open(op[q]) => op[q].h # op[p].h
  BY <1>1 DEF IInv, HandlesSound
<1>4. ASSUME NEW q \in Ops \ {p}, Open(op'[q]), op[p].kind \in {"close", "notify"}
      PROVE  op'[q].h # op[p].h
  <2>1. CASE q = o
    BY <1>1, <1>4, <2>1
  <2>2. CASE q # o
    BY <1>3, <1>4, <2>2
  <2> QED BY <2>1, <2>2
<1> QED BY <1>1, <1>2, <1>3, <1>4

(* A step that starts nothing on a handle and fills no directory.          *)
LEMMA LocalStep ==
    ASSUME IInv, NEW o \in Ops, NEW r \in OpType, NEW d \in SUBSET Nat,
           op' = [op EXCEPT ![o] = r], did' = [did EXCEPT ![o] = d],
           Shaped(r), Carried(r, d), Fits(r),
           Open(r) => r.h = NULL /\ r.kind # "opendir",
           UNCHANGED <<fh, dir>>
    PROVE  IInv'
<1>1. /\ op' \in [Ops -> OpType] /\ did' \in [Ops -> SUBSET Nat]
      /\ OpsSound' /\ OpsFit'
      /\ op'[o] = r /\ \A p \in Ops \ {o} : op'[p] = op[p]
  BY OpsKept
<1>2. FillerSound' /\ DirSound'
  BY <1>1, FillerKept
<1>3. HandlesSound'
  BY <1>1, HandlesKept
<1>4. Types'
  BY <1>1 DEF IInv, Types
<1> QED BY <1>1, <1>2, <1>3, <1>4 DEF IInv

-----------------------------------------------------------------------------
(* Calls. *)

(* What IInv says of an operation. *)
LEMMA OpFacts ==
    ASSUME IInv, NEW o \in Ops
    PROVE  /\ op[o] \in OpType /\ Shaped(op[o]) /\ Carried(op[o], did[o]) /\ Fits(op[o])
           /\ did[o] \in SUBSET Nat /\ did = [did EXCEPT ![o] = did[o]]
<1>1. op \in [Ops -> OpType] /\ did \in [Ops -> SUBSET Nat]
  BY DEF IInv, Types
<1>2. did = [did EXCEPT ![o] = did[o]]
  BY <1>1
<1> QED BY <1>1, <1>2 DEF IInv, OpsSound, OpsFit

(* A call that is refused. *)
LEMMA RefusedKeeps ==
    ASSUME IInv, NEW o \in Ops, NEW block \in {"freed", "leaked", "none"}, NEW calls \in 0..1,
           NoMemory(o, block, calls)
    PROVE  IInv'
<1>1. PICK r : r = [NoOp EXCEPT !.kind = "refused", !.block = block, !.calls = calls,
                                !.result = "refused"]
  OBVIOUS
<1>2. op' = [op EXCEPT ![o] = r] /\ UNCHANGED <<fh, dir, did>>
  BY <1>1 DEF NoMemory
<1>3. r \in OpType /\ ~Open(r) /\ Shaped(r) /\ Fits(r) /\ Carried(r, did[o])
  BY <1>1, NoOpFacts
<1> QED BY <1>2, <1>3, OpFacts, LocalStep

(* A call that starts requests on no handle and for no directory.          *)
LEMMA StartKeeps ==
    ASSUME IInv, NEW o \in Ops, NEW kind \in Kinds, NEW cmds \in Seq(Commands),
           Start(o, kind, cmds),
           \/ kind \in PairKinds /\ Len(cmds) = 2
           \/ kind \in ErrorKinds /\ Len(cmds) = 3
           \/ kind = "echo" /\ Len(cmds) = 1
    PROVE  IInv'
<1>1. PICK r : r = Started(o, kind, cmds)
  OBVIOUS
<1>2. op' = [op EXCEPT ![o] = r] /\ UNCHANGED <<fh, dir, did>>
  BY <1>1 DEF Start
<1>3. /\ r \in OpType /\ r.kind = kind /\ r.cmds = cmds /\ r.next = 1
      /\ r.block = "live" /\ r.status = "ok" /\ r.calls = 0 /\ r.result = NULL
      /\ r.h = NULL /\ r.fault = NULL
  BY <1>1, StartedFacts
<1>4. kind \notin HandleKinds \cup {"opendir", "refused", "pread", "pwrite"}
  BY DEF SingleKinds, HandleKinds, AllKinds, PairKinds, ErrorKinds
<1>5. NULL # "ok" /\ NULL # "freed handle" /\ NULL \notin Kinds
  BY FileOpsAssumption
     DEF Kinds, SingleKinds, HandleKinds, AllKinds, PairKinds, ErrorKinds
<1>6. /\ kind \in SingleKinds => Len(cmds) = 1
      /\ kind \in PairKinds => Len(cmds) = 2
      /\ kind \in ErrorKinds => Len(cmds) = 3
  BY DEF SingleKinds, HandleKinds, AllKinds, PairKinds, ErrorKinds
<1>7. Shaped(r)
  <2>1. r.fault # "freed handle" /\ r.block # "freed"
    BY <1>3, <1>5, Zenon
  <2>2. r.calls <= 1
    BY <1>3
  <2> QED BY <1>3, <1>4, <1>5, <1>6, <2>1, <2>2 DEF Shaped
<1>8. Carried(r, did[o]) /\ Fits(r)
  <2>1. r.result # "ok" /\ r.kind # "opendir" /\ r.kind \notin {"pread", "pwrite"}
    BY <1>3, <1>4, <1>5, Zenon
  <2>2. 1..(r.next - 1) = {} /\ r.status # "eof"
    BY <1>3
  <2> QED BY <2>1, <2>2 DEF Carried, Fits
<1> QED BY <1>2, <1>3, <1>4, <1>7, <1>8, OpFacts, LocalStep

(* The calls that use neither a handle nor a directory. *)
LEMMA CallKeeps ==
    ASSUME IInv, NEW o \in Ops, Call(o), ~smb2_opendir_async(o)
    PROVE  IInv'
<1>1. \A block \in {"freed", "leaked", "none"}, calls \in 0..1 :
          NoMemory(o, block, calls) => IInv'
  BY RefusedKeeps
<1>2. /\ <<"CREATE", "CLOSE">> \in Seq(Commands) /\ Len(<<"CREATE", "CLOSE">>) = 2
      /\ <<"CREATE", "QUERY_INFO", "CLOSE">> \in Seq(Commands)
      /\ Len(<<"CREATE", "QUERY_INFO", "CLOSE">>) = 3
      /\ <<"CREATE", "SET_INFO", "CLOSE">> \in Seq(Commands)
      /\ Len(<<"CREATE", "SET_INFO", "CLOSE">>) = 3
      /\ <<"CREATE", "IOCTL", "CLOSE">> \in Seq(Commands)
      /\ Len(<<"CREATE", "IOCTL", "CLOSE">>) = 3
      /\ <<"ECHO">> \in Seq(Commands) /\ Len(<<"ECHO">>) = 1
  BY DEF Commands
<1>3. /\ PairKinds = {"unlink", "mkdir"}
      /\ ErrorKinds = {"getinfo", "truncate", "rename", "readlink"}
      /\ PairKinds \subseteq Kinds /\ ErrorKinds \subseteq Kinds /\ "echo" \in Kinds
  BY DEF PairKinds, ErrorKinds, Kinds, SingleKinds
<1>4. /\ Start(o, "unlink", <<"CREATE", "CLOSE">>) => IInv'
      /\ Start(o, "mkdir", <<"CREATE", "CLOSE">>) => IInv'
  BY <1>2, <1>3, StartKeeps
<1>5. /\ Start(o, "getinfo", <<"CREATE", "QUERY_INFO", "CLOSE">>) => IInv'
      /\ Start(o, "truncate", <<"CREATE", "SET_INFO", "CLOSE">>) => IInv'
      /\ Start(o, "rename", <<"CREATE", "SET_INFO", "CLOSE">>) => IInv'
      /\ Start(o, "readlink", <<"CREATE", "IOCTL", "CLOSE">>) => IInv'
  BY <1>2, <1>3, StartKeeps
<1>6. Start(o, "echo", <<"ECHO">>) => IInv'
  BY <1>2, <1>3, StartKeeps
<1>7. 0 \in 0..1
  OBVIOUS
<1> QED BY <1>1, <1>4, <1>5, <1>6, <1>7
        DEF Call, smb2_unlink_internal, smb2_mkdir_async, smb2_getinfo_async,
            smb2_truncate_async, smb2_rename_async, smb2_readlink_async, smb2_echo_async

-----------------------------------------------------------------------------
(* Handles. *)

(* Something is in flight on the handle h: what Busy sees of it.           *)
LEMMA BusyFacts ==
    ASSUME IInv, NEW h \in Handles, NEW p \in Ops, Open(op[p]), op[p].h = h
    PROVE  /\ op[p].kind \in HandleKinds
           /\ \A kinds : op[p].kind \in kinds => Busy(h, kinds)
           /\ op[p].kind # "open" => fh[h].state = "open" /\ op[p].kind \in AllKinds
           /\ op[p].kind = "open" => fh[h].state = "opening" /\ fh[h].owner = p
           /\ op[p].kind \in {"fsync", "close"} => fh[h].owner = p
           /\ op[p].kind \in {"close", "notify"} =>
                  \A q \in Ops \ {p} : Open(op[q]) => op[q].h # h
<1>1. h # NULL
  BY FileOpsAssumption
<1>2. op[p].kind \in HandleKinds
  BY <1>1, OpFacts DEF Shaped
<1>3. /\ fh[h].state = IF op[p].kind = "open" THEN "opening" ELSE "open"
      /\ op[p].kind \in {"open", "fsync", "close"} => fh[h].owner = p
      /\ op[p].kind \in {"close", "notify"} =>
             \A q \in Ops \ {p} : Open(op[q]) => op[q].h # h
  BY <1>1 DEF IInv, HandlesSound
<1>4. \A kinds : op[p].kind \in kinds => Busy(h, kinds)
  BY DEF Busy, Open
<1> QED BY <1>2, <1>3, <1>4 DEF HandleKinds

(* A call on a handle that is open and not being closed or watched: what   *)
(* is started, or refused, keeps the others on the handle.  The owner of   *)
(* the handle changes only when no other request will look for it.         *)
LEMMA HandleStep ==
    ASSUME IInv, NEW o \in Ops, NEW h \in Handles, NEW r \in OpType, ~Open(op[o]), Usable(h),
           op' = [op EXCEPT ![o] = r], UNCHANGED <<dir, did>>,
           Shaped(r), Carried(r, did[o]), Fits(r),
           Open(r) => r.h = h /\ r.kind \in AllKinds,
           fh' = fh \/ (fh' = [fh EXCEPT ![h].owner = o] /\ ~Busy(h, {"fsync", "close"})),
           Open(r) /\ r.kind \in {"fsync", "close"} => fh' = [fh EXCEPT ![h].owner = o],
           Open(r) /\ r.kind \in {"close", "notify"} => ~Busy(h, AllKinds)
    PROVE  IInv'
<1>1. did[o] \in SUBSET Nat /\ did' = [did EXCEPT ![o] = did[o]]
  BY OpFacts
<1>2. /\ op' \in [Ops -> OpType] /\ did' \in [Ops -> SUBSET Nat]
      /\ OpsSound' /\ OpsFit'
      /\ op'[o] = r /\ \A p \in Ops \ {o} : op'[p] = op[p]
  BY <1>1, OpsKept
<1>3. "opendir" \notin AllKinds /\ "open" \notin AllKinds
  BY DEF AllKinds
<1>4. FillerSound' /\ DirSound'
  BY <1>2, <1>3, FillerKept
<1>5. fh \in [Handles -> FhType]
  BY DEF IInv, Types
<1>6. /\ fh' \in [Handles -> FhType]
      /\ \A g \in Handles : fh'[g].state = fh[g].state
      /\ \A g \in Handles \ {h} : fh'[g] = fh[g]
      /\ fh' = fh \/ fh'[h].owner = o
  <2>1. CASE fh' = fh
    BY <1>5, <2>1
  <2>2. CASE fh' = [fh EXCEPT ![h].owner = o]
    BY <1>5, <2>2 DEF FhType
  <2> QED BY <2>1, <2>2
<1>7. fh[h].state = "open" /\ ~Busy(h, {"close", "notify"})
  BY DEF Usable
<1>8. ASSUME NEW p \in Ops, Open(op'[p]), op'[p].h # NULL
      PROVE  /\ fh'[op'[p].h].state = IF op'[p].kind = "open" THEN "opening" ELSE "open"
             /\ op'[p].kind \in {"open", "fsync", "close"} => fh'[op'[p].h].owner = p
             /\ op'[p].kind \in {"close", "notify"} =>
                    \A q \in Ops \ {p} : Open(op'[q]) => op'[q].h # op'[p].h
  <2>1. CASE p = o
    <3>1. op'[p] = r /\ r.h = h /\ r.kind \in AllKinds /\ r.kind # "open"
      BY <1>2, <1>3, <1>8, <2>1
    <3>2. r.kind \in {"fsync", "close"} => fh'[h].owner = o
      BY <1>5, <1>8, <2>1, <3>1 DEF FhType
    <3>3. ASSUME r.kind \in {"close", "notify"}, NEW q \in Ops \ {p}, Open(op'[q])
          PROVE  op'[q].h # h
      <4>1. op'[q] = op[q] /\ Open(op[q])
        BY <1>2, <2>1, <3>3
      <4>2. ~Busy(h, AllKinds)
        BY <1>8, <3>1, <3>3
      <4>3. CASE op[q].h = h
        BY <1>7, <4>1, <4>2, <4>3, BusyFacts
      <4> QED BY <4>1, <4>3
    <3> QED BY <1>6, <1>7, <2>1, <3>1, <3>2, <3>3
  <2>2. CASE p # o
    <3>1. op'[p] = op[p] /\ op[p].h \in Handles
      BY <1>2, <1>8, <2>2, OpFacts DEF OpType
    <3>2. PICK g \in Handles : g = op[p].h
      BY <3>1
    <3>3. /\ op[p].kind # "open" => fh[g].state = "open"
          /\ op[p].kind = "open" => fh[g].state = "opening" /\ fh[g].owner = p
          /\ op[p].kind \in {"fsync", "close"} => fh[g].owner = p
          /\ op[p].kind \in {"close", "notify"} =>
                 \A q \in Ops \ {p} : Open(op[q]) => op[q].h # g
          /\ \A kinds : op[p].kind \in kinds => Busy(g, kinds)
      BY <1>8, <3>1, <3>2, BusyFacts
    <3>4. op[p].kind \in {"open", "fsync", "close"} => fh'[g].owner = p
      <4>1. CASE g = h
        <5>1. op[p].kind # "open" /\ op[p].kind # "close"
          BY <1>7, <3>3, <4>1
        <5>2. op[p].kind = "fsync" => fh' = fh
          BY <3>3, <4>1
        <5> QED BY <3>3, <5>1, <5>2
      <4>2. CASE g # h
        BY <1>6, <3>3, <4>2
      <4> QED BY <4>1, <4>2
    <3>5. ASSUME op[p].kind \in {"close", "notify"}, NEW q \in Ops \ {p}, Open(op'[q])
          PROVE  op'[q].h # g
      <4>1. CASE q = o
        <5>1. op'[q].h = h
          BY <1>2, <3>5, <4>1
        <5>2. g # h
          BY <1>7, <3>3, <3>5
        <5> QED BY <5>1, <5>2
      <4>2. CASE q # o
        BY <1>2, <3>3, <3>5, <4>2
      <4> QED BY <4>1, <4>2
    <3> QED BY <1>6, <3>1, <3>2, <3>3, <3>4, <3>5
  <2> QED BY <2>1, <2>2
<1>9. HandlesSound'
  BY <1>8 DEF HandlesSound
<1>10. Types'
  BY <1>2, <1>6 DEF IInv, Types
<1> QED BY <1>2, <1>4, <1>9, <1>10 DEF IInv

(* The record of a request that has just been started on a handle.         *)
LEMMA FreshFacts ==
    ASSUME NEW r \in OpType, NEW h \in Handles, NEW cmd \in Commands, r.kind \in HandleKinds,
           r.cmds = <<cmd>>, r.next = 1, r.block \in {"live", "none"}, r.calls = 0,
           r.result = NULL, r.h = h, r.fault = NULL
    PROVE  Open(r) /\ Shaped(r) /\ \A d : Carried(r, d)
<1>1. Len(r.cmds) = 1 /\ Open(r)
  BY SmallSeq DEF Open
<1>2. /\ r.kind \in SingleKinds
      /\ r.kind \notin {"refused", "opendir"} \cup PairKinds \cup ErrorKinds
  BY DEF SingleKinds, HandleKinds, AllKinds, PairKinds, ErrorKinds
<1>3. NULL # "ok" /\ NULL # "freed handle" /\ NULL \notin HandleKinds /\ h # NULL
  BY FileOpsAssumption DEF HandleKinds, AllKinds
<1>4. r.fault # "freed handle" /\ r.block # "freed" /\ r.result # "ok"
  <2>1. r.block # "freed"
    OBVIOUS
  <2>2. r.fault # "freed handle" /\ r.result # "ok"
    BY <1>3, Zenon
  <2> QED BY <2>1, <2>2
<1>5. r.calls <= 1
  OBVIOUS
<1>6. Shaped(r)
  BY <1>1, <1>2, <1>3, <1>4, <1>5 DEF Shaped
<1>7. 1..(r.next - 1) = {} /\ r.kind \notin ErrorKinds
  BY <1>2
<1> QED BY <1>1, <1>4, <1>6, <1>7 DEF Carried

(* A slot that is free has nothing in flight. *)
LEMMA FreeFacts ==
    ASSUME IInv, NEW o \in Ops, Free(o)
    PROVE  ~Open(op[o])
<1>1. op[o].next \in Nat \ {0} /\ Len(op[o].cmds) = 0
  BY OpFacts DEF Free, Shaped, OpType
<1> QED BY <1>1 DEF Open

(* A refused call is one of a local step. *)
LEMMA RefusedOn ==
    ASSUME IInv, NEW o \in Ops, NEW block \in {"freed", "leaked"}, NoMemory(o, block, 0)
    PROVE  IInv'
<1>1. 0 \in 0..1 /\ block \in {"freed", "leaked", "none"}
  OBVIOUS
<1> QED BY <1>1, RefusedKeeps

(* smb2_fstat_async and smb2_ftruncate_async *)
LEMMA OnHandleKeeps ==
    ASSUME IInv, NEW o \in Ops, NEW h \in Handles, NEW kind \in AllKinds, NEW cmd \in Commands,
           NEW lost \in {"freed", "leaked"}, OnHandle(o, h, kind, cmd, lost),
           kind \in {"fstat", "ftruncate"}
    PROVE  IInv'
<1>1. CASE NoMemory(o, lost, 0)
  BY <1>1, RefusedOn
<1>2. CASE /\ Free(o) /\ Usable(h)
           /\ op' = [op EXCEPT ![o] = [Started(o, kind, <<cmd>>) EXCEPT !.h = h]]
           /\ UNCHANGED <<fh, dir, did>>
  <2>1. <<cmd>> \in Seq(Commands) /\ kind \in Kinds /\ kind \in HandleKinds
    BY DEF Kinds, SingleKinds, HandleKinds
  <2>2. PICK s : s = Started(o, kind, <<cmd>>)
    OBVIOUS
  <2>3. PICK r : r = [s EXCEPT !.h = h]
    OBVIOUS
  <2>4. /\ s \in OpType /\ s.kind = kind /\ s.cmds = <<cmd>> /\ s.next = 1
        /\ s.block = "live" /\ s.calls = 0 /\ s.result = NULL /\ s.fault = NULL
    BY <2>1, <2>2, StartedOne
  <2>5. /\ r \in OpType /\ r.kind = kind /\ r.cmds = <<cmd>> /\ r.next = 1
        /\ r.block = "live" /\ r.calls = 0 /\ r.result = NULL /\ r.h = h /\ r.fault = NULL
    BY <2>3, <2>4 DEF OpType
  <2>6. r.block \in {"live", "none"}
    BY <2>5
  <2>7. Shaped(r) /\ Carried(r, did[o])
    BY <2>1, <2>5, <2>6, FreshFacts
  <2>8. r.kind \notin {"pread", "pwrite", "fsync", "close", "notify"}
    BY <2>5
  <2>9. Fits(r)
    BY <2>8 DEF Fits
  <2>10. op' = [op EXCEPT ![o] = r]
    BY <1>2, <2>2, <2>3
  <2> QED BY <1>2, <2>5, <2>7, <2>8, <2>9, <2>10, FreeFacts, HandleStep
<1> QED BY <1>1, <1>2 DEF OnHandle

(* smb2_fsync_async and smb2_close_async *)
LEMMA InHandleKeeps ==
    ASSUME IInv, NEW o \in Ops, NEW h \in Handles, NEW kind \in {"fsync", "close"},
           NEW cmd \in Commands, InHandle(o, h, kind, cmd), ~Busy(h, {"fsync", "close"}),
           kind = "close" => ~Busy(h, AllKinds)
    PROVE  IInv'
<1>1. CASE /\ Free(o) /\ Usable(h) /\ fh' = [fh EXCEPT ![h].owner = o]
           /\ op' = [op EXCEPT ![o] = [NoOp EXCEPT !.kind = "refused", !.result = "refused"]]
           /\ UNCHANGED <<dir, did>>
  <2>1. PICK r : r = [NoOp EXCEPT !.kind = "refused", !.block = "none", !.calls = 0,
                                  !.result = "refused"]
    OBVIOUS
  <2>2. r = [NoOp EXCEPT !.kind = "refused", !.result = "refused"]
    <3>1. NoOp.block = "none" /\ NoOp.calls = 0
      BY DEF NoOp
    <3> QED BY <2>1, <3>1, Zenon
  <2>3. "none" \in {"freed", "leaked", "none"} /\ 0 \in 0..1
    OBVIOUS
  <2>4. r \in OpType /\ ~Open(r) /\ Shaped(r) /\ Fits(r) /\ Carried(r, did[o])
    BY <2>1, <2>3, NoOpFacts
  <2>5. op' = [op EXCEPT ![o] = r]
    BY <1>1, <2>2
  <2> QED BY <1>1, <2>4, <2>5, FreeFacts, HandleStep
<1>2. CASE /\ Free(o) /\ Usable(h) /\ fh' = [fh EXCEPT ![h].owner = o]
           /\ op' = [op EXCEPT ![o] = [Started(o, kind, <<cmd>>) EXCEPT
                                          !.h = h, !.block = "none"]]
           /\ UNCHANGED <<dir, did>>
  <2>1. <<cmd>> \in Seq(Commands) /\ kind \in Kinds /\ kind \in HandleKinds /\ kind \in AllKinds
    BY DEF Kinds, SingleKinds, HandleKinds, AllKinds
  <2>2. PICK s : s = Started(o, kind, <<cmd>>)
    OBVIOUS
  <2>3. PICK r : r = [s EXCEPT !.h = h, !.block = "none"]
    OBVIOUS
  <2>4. /\ s \in OpType /\ s.kind = kind /\ s.cmds = <<cmd>> /\ s.next = 1
        /\ s.calls = 0 /\ s.result = NULL /\ s.fault = NULL
    BY <2>1, <2>2, StartedOne
  <2>5. /\ r \in OpType /\ r.kind = kind /\ r.cmds = <<cmd>> /\ r.next = 1
        /\ r.block = "none" /\ r.calls = 0 /\ r.result = NULL /\ r.h = h /\ r.fault = NULL
    BY <2>3, <2>4 DEF OpType
  <2>6. r.block \in {"live", "none"}
    BY <2>5
  <2>7. Shaped(r) /\ Carried(r, did[o])
    BY <2>1, <2>5, <2>6, FreshFacts
  <2>8. r.kind \notin {"pread", "pwrite", "notify"}
    BY <2>5
  <2>9. Fits(r)
    BY <2>8 DEF Fits
  <2>10. op' = [op EXCEPT ![o] = r]
    BY <1>2, <2>2, <2>3
  <2>11. r.kind \in {"close", "notify"} => ~Busy(h, AllKinds)
    BY <2>5
  <2> QED BY <1>2, <2>1, <2>5, <2>7, <2>9, <2>10, <2>11, FreeFacts, HandleStep
<1> QED BY <1>1, <1>2 DEF InHandle

(* smb2_notify_change_filehandle_async *)
LEMMA NotifyKeeps ==
    ASSUME IInv, NEW o \in Ops, NEW h \in Handles, smb2_notify_change_async(o, h)
    PROVE  IInv'
<1>1. CASE NoMemory(o, "freed", 0)
  BY <1>1, RefusedOn
<1>2. ASSUME NEW loop \in BOOLEAN, Free(o), fh[h].state = "open", ~Busy(h, AllKinds),
             op' = [op EXCEPT ![o] = [Started(o, "notify", <<"CHANGE_NOTIFY">>) EXCEPT
                                         !.h = h, !.loop = loop]],
             UNCHANGED <<fh, dir, did>>
      PROVE  IInv'
  <2>1. /\ "CHANGE_NOTIFY" \in Commands /\ <<"CHANGE_NOTIFY">> \in Seq(Commands)
        /\ "notify" \in Kinds /\ "notify" \in HandleKinds /\ "notify" \in AllKinds
    BY DEF Kinds, SingleKinds, HandleKinds, AllKinds, Commands
  <2>2. PICK s : s = Started(o, "notify", <<"CHANGE_NOTIFY">>)
    OBVIOUS
  <2>3. PICK r : r = [s EXCEPT !.h = h, !.loop = loop]
    OBVIOUS
  <2>4. /\ s \in OpType /\ s.kind = "notify" /\ s.cmds = <<"CHANGE_NOTIFY">> /\ s.next = 1
        /\ s.block = "live" /\ s.calls = 0 /\ s.result = NULL /\ s.fault = NULL
    BY <2>1, <2>2, StartedOne
  <2>5. /\ r \in OpType /\ r.kind = "notify" /\ r.cmds = <<"CHANGE_NOTIFY">> /\ r.next = 1
        /\ r.block = "live" /\ r.calls = 0 /\ r.result = NULL /\ r.h = h /\ r.fault = NULL
    BY <2>3, <2>4 DEF OpType
  <2>6. r.block \in {"live", "none"} /\ r.kind \in HandleKinds /\ r.kind \in AllKinds
    BY <2>1, <2>5
  <2>7. Shaped(r) /\ Carried(r, did[o])
    BY <2>1, <2>5, <2>6, FreshFacts
  <2>8. r.kind \notin {"pread", "pwrite", "fsync", "close"}
    BY <2>5
  <2>9. Fits(r)
    BY <2>8 DEF Fits
  <2>10. op' = [op EXCEPT ![o] = r]
    BY <1>2, <2>2, <2>3
  <2>11. Usable(h)
    BY <1>2 DEF Usable, Busy, AllKinds
  <2> QED BY <1>2, <2>5, <2>6, <2>7, <2>8, <2>9, <2>10, <2>11, FreeFacts, HandleStep
<1> QED BY <1>1, <1>2 DEF smb2_notify_change_async

-----------------------------------------------------------------------------
(* Reads and writes. *)

(* n bytes need as many credits as there are units of 64 KB in them.       *)
LEMMA NeededCredits ==
    ASSUME NEW n \in Nat \ {0}
    PROVE  /\ needed_credits(n) \in Nat \ {0}
           /\ \A c \in Nat : needed_credits(n) <= c <=> n <= c * Unit
<1>1. PICK m \in Nat : n = m + 1
  <2>1. n - 1 \in Nat /\ n = (n - 1) + 1
    OBVIOUS
  <2> QED BY <2>1
<1>2. PICK k : k = m \div 65536
  OBVIOUS
<1>3. k \in Nat /\ 65536 * k <= m /\ m < 65536 * k + 65536
  BY <1>1, <1>2
<1>4. needed_credits(n) = k + 1
  BY <1>1, <1>2 DEF needed_credits, Unit
<1>5. ASSUME NEW c \in Nat
      PROVE  k + 1 <= c <=> n <= c * Unit
  BY <1>1, <1>3 DEF Unit
<1> QED BY <1>3, <1>4, <1>5

(* The length asked for is a number of bytes; of at least one byte wanted  *)
(* it is at most as many as are wanted, as the server takes and as there   *)
(* are credits for.                                                        *)
LEMMA TransferLength ==
    ASSUME NEW count \in Nat, NEW credits \in Nat, NEW multi \in BOOLEAN, NEW n, NEW c,
           n = transfer_length(count, credits, multi), c = (IF multi THEN credits ELSE 1)
    PROVE  /\ n \in Int /\ c \in Nat
           /\ count > 0 => /\ n <= count /\ n <= MaxSize
                           /\ n > 0 => needed_credits(n) <= c
<1> DEFINE most == (MAX_CREDITS - 16) * Unit
<1>1. MaxSize \in Nat \ {0}
  BY FileOpsAssumption
<1>2. PICK a : a = Min({count, MaxSize})
  OBVIOUS
<1>3. a \in Nat /\ a <= count /\ a <= MaxSize /\ (count > 0 => a > 0)
  <2>1. {count, MaxSize} \in SUBSET Nat /\ {count, MaxSize} # {}
    BY <1>1
  <2>2. a \in {count, MaxSize} /\ \A y \in {count, MaxSize} : a <= y
    BY <1>2, <2>1, MinNat
  <2> QED BY <1>1, <2>2
<1>4. PICK b : b = IF needed_credits(a) > MAX_CREDITS - 16 THEN most ELSE a
  OBVIOUS
<1>5. most \in Nat /\ MAX_CREDITS - 16 \in Nat /\ most > 0
  BY DEF MAX_CREDITS, Unit
<1>6. b \in Nat /\ (count > 0 => b <= a /\ b > 0)
  <2>1. ASSUME count > 0, needed_credits(a) > MAX_CREDITS - 16
        PROVE  most <= a
    <3>1. needed_credits(a) \in Nat /\ ~(a <= most)
      BY <1>3, <1>5, <2>1, NeededCredits
    <3> QED BY <1>3, <1>5, <3>1
  <2> QED BY <1>3, <1>4, <1>5, <2>1
<1>7. CASE ~multi
  <2>1. n = Min({a, Unit}) /\ c = 1
    BY <1>2, <1>7 DEF transfer_length
  <2>2. {a, Unit} \in SUBSET Nat /\ {a, Unit} # {}
    BY <1>3 DEF Unit
  <2>3. n \in Nat /\ n <= a /\ n <= Unit
    BY <2>1, <2>2, MinNat
  <2>4. n > 0 => needed_credits(n) <= 1
    BY <2>3, NeededCredits DEF Unit
  <2>5. n <= count /\ n <= MaxSize
    BY <1>1, <1>3, <2>3
  <2> QED BY <2>1, <2>3, <2>4, <2>5
<1>8. CASE multi
  <2>1. n = (IF needed_credits(b) > credits THEN credits * Unit ELSE b) /\ c = credits
    BY <1>2, <1>4, <1>8 DEF transfer_length
  <2>2. credits * Unit \in Nat
    BY DEF Unit
  <2>3. n \in Nat
    BY <1>6, <2>1, <2>2
  <2>4. ASSUME count > 0
        PROVE  n <= b /\ (n > 0 => needed_credits(n) <= c)
    <3>1. b \in Nat \ {0} /\ needed_credits(b) \in Nat
      BY <1>6, <2>4, NeededCredits
    <3>2. CASE needed_credits(b) > credits
      <4>1. n = credits * Unit
        BY <2>1, <3>2
      <4>2. ~(b <= credits * Unit)
        BY <3>1, <3>2, NeededCredits
      <4>3. n <= b
        BY <2>2, <3>1, <4>1, <4>2
      <4>4. n > 0 => needed_credits(n) <= credits
        BY <2>3, <4>1, NeededCredits
      <4> QED BY <2>1, <4>3, <4>4
    <3>3. CASE ~(needed_credits(b) > credits)
      BY <2>1, <3>1, <3>3
    <3> QED BY <3>2, <3>3
  <2>5. count > 0 => n <= count /\ n <= MaxSize
    BY <1>1, <1>3, <1>6, <2>3, <2>4
  <2> QED BY <2>1, <2>3, <2>4, <2>5
<1> QED BY <1>7, <1>8

(* smb2_pread_async and smb2_pwrite_async *)
LEMMA TransferKeeps ==
    ASSUME IInv, NEW o \in Ops, NEW h \in Handles, NEW kind \in {"pread", "pwrite"},
           NEW cmd \in Commands, NEW lost \in {"freed", "leaked"},
           Transfer(o, h, kind, cmd, fh[h].offset, lost)
    PROVE  IInv'
<1>1. CASE NoMemory(o, lost, 0)
  BY <1>1, RefusedOn
<1>2. ASSUME NEW count \in Counts, NEW credits \in Credits, NEW multi \in BOOLEAN, Free(o),
             Usable(h),
             op' = [op EXCEPT ![o] =
                      [Started(o, kind, <<cmd>>) EXCEPT
                          !.h = h, !.count = count, !.offset = fh[h].offset,
                          !.credits = IF multi THEN credits ELSE 1,
                          !.length = transfer_length(count, credits, multi)]],
             UNCHANGED <<fh, dir, did>>
      PROVE  IInv'
  <2>1. kind \in Kinds /\ kind \in HandleKinds /\ kind \in AllKinds
    BY DEF Kinds, SingleKinds, HandleKinds, AllKinds
  <2>2. PICK n, c, x : /\ n = transfer_length(count, credits, multi)
                       /\ c = IF multi THEN credits ELSE 1
                       /\ x = fh[h].offset
    OBVIOUS
  <2>3. count \in Nat /\ credits \in Nat /\ x \in Int
    BY <2>2, FileOpsAssumption DEF IInv, Types, FhType
  <2>4. /\ n \in Int /\ c \in Nat
        /\ count > 0 => n <= count /\ n <= MaxSize /\ (n > 0 => needed_credits(n) <= c)
    BY <2>2, <2>3, TransferLength
  <2>5. PICK s : s = Started(o, kind, <<cmd>>)
    OBVIOUS
  <2>6. PICK r : r = [s EXCEPT !.h = h, !.count = count, !.offset = x, !.credits = c, !.length = n]
    OBVIOUS
  <2>7. /\ s \in OpType /\ s.kind = kind /\ s.cmds = <<cmd>> /\ s.next = 1
        /\ s.block = "live" /\ s.calls = 0 /\ s.result = NULL /\ s.fault = NULL
    BY <2>1, <2>5, StartedOne
  <2>8. /\ r \in OpType /\ r.kind = kind /\ r.cmds = <<cmd>> /\ r.next = 1
        /\ r.block = "live" /\ r.calls = 0 /\ r.result = NULL /\ r.h = h /\ r.fault = NULL
        /\ r.count = count /\ r.credits = c /\ r.length = n
    BY <2>3, <2>4, <2>6, <2>7 DEF OpType
  <2>9. r.block \in {"live", "none"}
    BY <2>8
  <2>10. Shaped(r) /\ Carried(r, did[o])
    BY <2>1, <2>8, <2>9, FreshFacts
  <2>11. Fits(r)
    BY <2>4, <2>8 DEF Fits
  <2>12. op' = [op EXCEPT ![o] = r]
    BY <1>2, <2>2, <2>5, <2>6
  <2>13. r.kind \notin {"fsync", "close", "notify"}
    BY <2>8
  <2> QED BY <1>2, <2>1, <2>8, <2>10, <2>11, <2>12, <2>13, FreeFacts, HandleStep
<1> QED BY <1>1, <1>2 DEF Transfer

-----------------------------------------------------------------------------
(* Steps of an operation that is alone on its handle, or leaves handles as *)
(* they are.                                                               *)

(* An operation changes the handle h, on which nobody else is.             *)
LEMMA AloneStep ==
    ASSUME IInv, NEW o \in Ops, NEW h \in Handles, NEW r \in OpType, NEW d \in SUBSET Nat,
           NEW x \in FhType,
           op' = [op EXCEPT ![o] = r], did' = [did EXCEPT ![o] = d],
           fh' = [fh EXCEPT ![h] = x], dir' = dir,
           Shaped(r), Carried(r, d), Fits(r),
           \A p \in Ops \ {o} : Open(op[p]) => op[p].h # h,
           Open(r) => /\ r.h = h /\ r.kind # "opendir"
                      /\ x.state = IF r.kind = "open" THEN "opening" ELSE "open"
                      /\ r.kind \in {"open", "fsync", "close"} => x.owner = o
    PROVE  IInv'
<1>1. /\ op' \in [Ops -> OpType] /\ did' \in [Ops -> SUBSET Nat]
      /\ OpsSound' /\ OpsFit'
      /\ op'[o] = r /\ \A p \in Ops \ {o} : op'[p] = op[p]
  BY OpsKept
<1>2. FillerSound' /\ DirSound'
  BY <1>1, FillerKept
<1>3. /\ fh' \in [Handles -> FhType] /\ fh'[h] = x
      /\ \A g \in Handles \ {h} : fh'[g] = fh[g]
  BY DEF IInv, Types
<1>4. ASSUME NEW p \in Ops, Open(op'[p]), op'[p].h # NULL
      PROVE  /\ fh'[op'[p].h].state = IF op'[p].kind = "open" THEN "opening" ELSE "open"
             /\ op'[p].kind \in {"open", "fsync", "close"} => fh'[op'[p].h].owner = p
             /\ op'[p].kind \in {"close", "notify"} =>
                    \A q \in Ops \ {p} : Open(op'[q]) => op'[q].h # op'[p].h
  <2>1. CASE p = o
    <3>1. op'[p] = r /\ r.h = h
      BY <1>1, <1>4, <2>1
    <3>2. \A q \in Ops \ {p} : Open(op'[q]) => op'[q].h # h
      BY <1>1, <2>1
    <3> QED BY <1>3, <1>4, <2>1, <3>1, <3>2
  <2>2. CASE p # o
    <3>1. op'[p] = op[p] /\ op[p].h \in Handles \ {h}
      BY <1>1, <1>4, <2>2, OpFacts DEF OpType
    <3>2. PICK g \in Handles \ {h} : g = op[p].h
      BY <3>1
    <3>3. /\ fh[g].state = IF op[p].kind = "open" THEN "opening" ELSE "open"
          /\ op[p].kind \in {"open", "fsync", "close"} => fh[g].owner = p
          /\ op[p].kind \in {"close", "notify"} =>
                 \A q \in Ops \ {p} : Open(op[q]) => op[q].h # g
      BY <1>4, <3>1, <3>2 DEF IInv, HandlesSound
    <3>4. ASSUME op[p].kind \in {"close", "notify"}, NEW q \in Ops \ {p}, Open(op'[q])
          PROVE  op'[q].h # g
      <4>1. CASE q = o
        BY <1>1, <3>2, <3>4, <4>1
      <4>2. CASE q # o
        BY <1>1, <3>3, <3>4, <4>2
      <4> QED BY <4>1, <4>2
    <3> QED BY <1>3, <3>1, <3>2, <3>3, <3>4
  <2> QED BY <2>1, <2>2
<1>5. HandlesSound'
  BY <1>4 DEF HandlesSound
<1>6. Types'
  BY <1>1, <1>3 DEF IInv, Types
<1> QED BY <1>1, <1>2, <1>5, <1>6 DEF IInv

(* An operation ends and at most moves the offset of a handle.             *)
LEMMA EndStep ==
    ASSUME IInv, NEW o \in Ops, NEW r \in OpType, NEW d \in SUBSET Nat,
           op' = [op EXCEPT ![o] = r], did' = [did EXCEPT ![o] = d], dir' = dir,
           Shaped(r), Carried(r, d), Fits(r), ~Open(r),
           fh' \in [Handles -> FhType],
           \A h \in Handles : fh'[h].state = fh[h].state /\ fh'[h].owner = fh[h].owner
    PROVE  IInv'
<1>1. /\ op' \in [Ops -> OpType] /\ did' \in [Ops -> SUBSET Nat]
      /\ OpsSound' /\ OpsFit'
      /\ op'[o] = r /\ \A p \in Ops \ {o} : op'[p] = op[p]
  BY OpsKept
<1>2. FillerSound' /\ DirSound'
  BY <1>1, FillerKept
<1>3. HandlesSound'
  BY <1>1, HandlesKept
<1>4. Types'
  BY <1>1 DEF IInv, Types
<1> QED BY <1>1, <1>2, <1>3, <1>4 DEF IInv

(* smb2_open_async: nobody is on a handle that is not there yet.           *)
LEMMA OpenKeeps ==
    ASSUME IInv, NEW o \in Ops, NEW h \in Handles, smb2_open_async(o, h)
    PROVE  IInv'
<1>1. CASE NoMemory(o, "freed", 0)
  BY <1>1, RefusedOn
<1>2. CASE /\ Free(o) /\ fh[h].state = "none"
           /\ op' = [op EXCEPT ![o] = [Started(o, "open", <<"CREATE">>) EXCEPT
                                         !.h = h, !.block = "none"]]
           /\ fh' = [fh EXCEPT ![h] = [NoFh EXCEPT !.state = "opening", !.owner = o]]
           /\ UNCHANGED <<dir, did>>
  <2>1. "open" \in Kinds /\ "open" \in HandleKinds
    BY DEF Kinds, SingleKinds, HandleKinds
  <2>2. "CREATE" \in Commands
    BY DEF Commands
  <2>3. PICK s : s = Started(o, "open", <<"CREATE">>)
    OBVIOUS
  <2>4. PICK r : r = [s EXCEPT !.h = h, !.block = "none"]
    OBVIOUS
  <2>5. PICK x : x = [NoFh EXCEPT !.state = "opening", !.owner = o]
    OBVIOUS
  <2>6. x \in FhType /\ x.state = "opening" /\ x.owner = o
    <3>1. x = [state |-> "opening", owner |-> o, offset |-> 0, end_of_file |-> 0]
      BY <2>5 DEF NoFh
    <3> QED BY <3>1 DEF FhType
  <2>7. /\ s \in OpType /\ s.kind = "open" /\ s.cmds = <<"CREATE">> /\ s.next = 1
        /\ s.calls = 0 /\ s.result = NULL /\ s.fault = NULL
    BY <2>1, <2>2, <2>3, StartedOne
  <2>8. /\ r \in OpType /\ r.kind = "open" /\ r.cmds = <<"CREATE">> /\ r.next = 1
        /\ r.block = "none" /\ r.calls = 0 /\ r.result = NULL /\ r.h = h /\ r.fault = NULL
    BY <2>4, <2>7 DEF OpType
  <2>9. r.block \in {"live", "none"} /\ r.kind \in HandleKinds
    BY <2>1, <2>8
  <2>10. Shaped(r) /\ Carried(r, did[o])
    BY <2>2, <2>8, <2>9, FreshFacts
  <2>11. Fits(r) /\ r.kind # "opendir"
    BY <2>8 DEF Fits
  <2>12. \A p \in Ops \ {o} : Open(op[p]) => op[p].h # h
    BY <1>2, BusyFacts
  <2>13. op' = [op EXCEPT ![o] = r] /\ fh' = [fh EXCEPT ![h] = x]
    BY <1>2, <2>3, <2>4, <2>5
  <2>14. did' = [did EXCEPT ![o] = did[o]] /\ did[o] \in SUBSET Nat
    BY <1>2, OpFacts
  <2>15. /\ r.h = h /\ r.kind # "opendir" /\ dir' = dir
         /\ x.state = IF r.kind = "open" THEN "opening" ELSE "open"
         /\ x.owner = o
    BY <1>2, <2>6, <2>8
  <2>16. r \in OpType /\ x \in FhType
    BY <2>6, <2>8
  <2>17. Open(r) => /\ r.h = h /\ r.kind # "opendir"
                    /\ x.state = IF r.kind = "open" THEN "opening" ELSE "open"
                    /\ r.kind \in {"open", "fsync", "close"} => x.owner = o
    BY <2>15
  <2>18. PICK d : d = did[o]
    OBVIOUS
  <2>19. did' = [did EXCEPT ![o] = d] /\ d \in SUBSET Nat /\ Carried(r, d)
    BY <2>10, <2>14, <2>18
  <2> HIDE <2>18
  <2> QED BY <2>10, <2>11, <2>12, <2>13, <2>15, <2>16, <2>17, <2>19, AloneStep, ZenonT(60)
<1> QED BY <1>1, <1>2 DEF smb2_open_async

(* The calls on a handle. *)
LEMMA CallOnKeeps ==
    ASSUME IInv, NEW o \in Ops, NEW h \in Handles, CallOn(o, h)
    PROVE  IInv'
<1>1. {"QUERY_INFO", "SET_INFO", "FLUSH", "CLOSE", "READ", "WRITE"} \subseteq Commands
  BY DEF Commands
<1>2. "fstat" \in AllKinds /\ "ftruncate" \in AllKinds
  BY DEF AllKinds
<1>3. CASE smb2_open_async(o, h)
  BY <1>3, OpenKeeps
<1>4. CASE smb2_close_async(o, h)
  <2>1. ~Busy(h, {"fsync", "close"})
    BY <1>4 DEF smb2_close_async, Busy, AllKinds
  <2> QED BY <1>1, <1>4, <2>1, InHandleKeeps DEF smb2_close_async
<1>5. CASE smb2_fsync_async(o, h)
  BY <1>1, <1>5, InHandleKeeps DEF smb2_fsync_async
<1>6. CASE smb2_pread_async(o, h)
  BY <1>1, <1>6, TransferKeeps DEF smb2_pread_async
<1>7. CASE smb2_pwrite_async(o, h)
  BY <1>1, <1>7, TransferKeeps DEF smb2_pwrite_async
<1>8. CASE smb2_fstat_async(o, h)
  BY <1>1, <1>2, <1>8, OnHandleKeeps DEF smb2_fstat_async
<1>9. CASE smb2_ftruncate_async(o, h)
  BY <1>1, <1>2, <1>9, OnHandleKeeps DEF smb2_ftruncate_async
<1>10. CASE smb2_notify_change_async(o, h)
  BY <1>10, NotifyKeeps
<1> QED BY <1>3, <1>4, <1>5, <1>6, <1>7, <1>8, <1>9, <1>10 DEF CallOn

-----------------------------------------------------------------------------
(* Callbacks. *)

(* What the server has done when a request is called back.                 *)
LEMMA ServerFacts ==
    ASSUME IInv, NEW o \in Ops, NEW st \in States, ServerDid(o, st)
    PROVE  /\ Open(op[o])
           /\ \E d \in SUBSET Nat :
                  /\ did' = [did EXCEPT ![o] = d] /\ did[o] \subseteq d
                  /\ Answered(o, st, d) /\ Refused(o, st, d)
<1>1. Open(op[o])
  BY DEF ServerDid, InFlight, Open
<1>2. op[o].next \in Nat /\ did[o] \in SUBSET Nat /\ did = [did EXCEPT ![o] = did[o]]
  BY OpFacts DEF OpType
<1>3. CASE /\ st \in {"ok", "nomore", "aborted"} \/ AtEnd(o, st)
           /\ op[o].next = 1 \/ 1 \in did[o]
           /\ did' = [did EXCEPT ![o] = did[o] \cup {op[o].next}]
  <2>1. PICK d : d = did[o] \cup {op[o].next}
    OBVIOUS
  <2>2. d \in SUBSET Nat /\ did[o] \subseteq d /\ op[o].next \in d /\ 1 \in d
    BY <1>2, <1>3, <2>1
  <2>3. Answered(o, st, d)
    BY <2>2 DEF Answered
  <2>4. Refused(o, st, d)
    BY <1>3 DEF Refused, AtEnd, ErrorKinds
  <2> QED BY <1>1, <1>3, <2>1, <2>2, <2>3, <2>4
<1>4. CASE st \in {"error", "aborted"} /\ UNCHANGED did
  <2>1. PICK d : d = did[o]
    OBVIOUS
  <2>2. did' = [did EXCEPT ![o] = d] /\ d \in SUBSET Nat /\ did[o] \subseteq d
    BY <1>2, <1>4, <2>1
  <2>3. st \notin {"ok", "eof", "nomore"}
    BY <1>4
  <2> QED BY <1>1, <2>2, <2>3 DEF Answered, Refused
<1>5. CASE st = "eof" /\ did' = [did EXCEPT ![o] = did[o] \cup {Eof}]
  <2>1. PICK d : d = did[o] \cup {Eof}
    OBVIOUS
  <2>2. d \in SUBSET Nat /\ did[o] \subseteq d /\ Eof \in d
    BY <1>2, <2>1 DEF Eof
  <2> QED BY <1>1, <1>5, <2>1, <2>2 DEF Answered, Refused
<1> QED BY <1>3, <1>4, <1>5 DEF ServerDid

(* The record of an operation that is reported with the status s, when     *)
(* the server has carried out the requests in d: a success is true.        *)
LEMMA ReportFacts ==
    ASSUME IInv, NEW o \in Ops, NEW d \in SUBSET Nat, NEW s \in States, Open(op[o]),
           op[o].next = Len(op[o].cmds), NEW q, q = Reported(op[o], s),
           s \in {"ok", "eof"} => Done(op[o], d)
    PROVE  /\ q \in OpType /\ ~Open(q) /\ Shaped(q) /\ Fits(q) /\ Carried(q, d)
           /\ q.kind = op[o].kind /\ q.h = op[o].h /\ q.cmds = op[o].cmds
<1>1. PICK r : r = op[o]
  OBVIOUS
<1>2. r \in OpType /\ Shaped(r) /\ Fits(r) /\ Open(r) /\ r.next = Len(r.cmds) /\ q = Reported(r, s)
  BY <1>1, OpFacts
<1>3. s \in {"ok", "eof"} => Done(r, d)
  BY <1>1
<1> SUFFICES /\ q \in OpType /\ ~Open(q) /\ Shaped(q) /\ Fits(q) /\ Carried(q, d)
             /\ q.kind = r.kind /\ q.h = r.h /\ q.cmds = r.cmds
  BY <1>1
<1> HIDE <1>1
<1>4. /\ q \in OpType /\ ~Open(q) /\ Shaped(q)
      /\ q.kind = r.kind /\ q.cmds = r.cmds /\ q.h = r.h
      /\ q.result = "ok" => s \in {"ok", "eof"}
      /\ Fits(q)
  BY <1>2, ReportedFacts
<1>5. Carried(q, d)
  BY <1>3, <1>4 DEF Carried, Done
<1> QED BY <1>4, <1>5

(* An operation of one request: its callback reports what the server said. *)
LEMMA SingleReport ==
    ASSUME IInv, NEW o \in Ops, NEW st \in States, ServerDid(o, st), op[o].kind \in SingleKinds,
           NEW q, q = Reported(op[o], st)
    PROVE  \E d \in SUBSET Nat :
               /\ did' = [did EXCEPT ![o] = d]
               /\ q \in OpType /\ ~Open(q) /\ Shaped(q) /\ Fits(q) /\ Carried(q, d)
               /\ q.kind = op[o].kind /\ q.h = op[o].h
<1>1. PICK d \in SUBSET Nat :
          /\ did' = [did EXCEPT ![o] = d] /\ did[o] \subseteq d
          /\ Answered(o, st, d) /\ Refused(o, st, d)
  BY ServerFacts
<1>2. Open(op[o]) /\ Len(op[o].cmds) = 1 /\ op[o].next \in Nat \ {0}
  BY ServerFacts, OpFacts DEF Shaped, OpType
<1>3. op[o].next = 1
  BY <1>2 DEF Open
<1>4. st \in {"ok", "eof"} => Done(op[o], d)
  BY <1>1, <1>2 DEF Done, Answered
<1>5. op[o].next = Len(op[o].cmds)
  BY <1>2, <1>3
<1>6. Open(op[o])
  BY <1>2
<1>7. /\ q \in OpType /\ ~Open(q) /\ Shaped(q) /\ Fits(q) /\ Carried(q, d)
      /\ q.kind = op[o].kind /\ q.h = op[o].h
  BY <1>4, <1>5, <1>6, ReportFacts, ZenonT(30)
<1> QED BY <1>1, <1>7

(* A fault other than the use of a freed handle changes nothing else.      *)
LEMMA FaultFacts ==
    ASSUME NEW q \in OpType, NEW d, NEW f \in {"null reply", "nested service", NULL},
           ~Open(q), Shaped(q), Fits(q), Carried(q, d), NEW r, r = [q EXCEPT !.fault = f]
    PROVE  r \in OpType /\ ~Open(r) /\ Shaped(r) /\ Fits(r) /\ Carried(r, d)
<1>1. NULL # "freed handle"
  BY FileOpsAssumption
<1>2. f # "freed handle"
  BY <1>1
<1>3. /\ r \in OpType /\ r.kind = q.kind /\ r.cmds = q.cmds /\ r.next = q.next /\ r.block = q.block
      /\ r.status = q.status /\ r.calls = q.calls /\ r.result = q.result /\ r.h = q.h
      /\ r.count = q.count /\ r.credits = q.credits /\ r.length = q.length /\ r.fault = f
  BY DEF OpType
<1>4. ~Open(r)
  BY <1>3 DEF Open
<1>5. Shaped(r)
  BY <1>2, <1>3, <1>4 DEF Shaped
<1>6. Fits(r)
  BY <1>3 DEF Fits
<1>7. Carried(r, d)
  BY <1>3, <1>4 DEF Carried, Done
<1> QED BY <1>3, <1>4, <1>5, <1>6, <1>7

(* echo_cb, ftrunc_cb_1 and fstat_cb_1 *)
LEMMA PlainCallbacks ==
    ASSUME IInv, NEW o \in Ops, NEW st \in States, ftrunc_cb(o, st) \/ fstat_cb(o, st)
    PROVE  IInv'
<1>1. op[o].kind \in SingleKinds /\ ServerDid(o, st) /\ UNCHANGED <<fh, dir>>
  BY DEF ftrunc_cb, fstat_cb, SingleKinds, HandleKinds, AllKinds
<1>2. PICK q : q = Reported(op[o], st)
  OBVIOUS
<1>3. PICK d \in SUBSET Nat :
          /\ did' = [did EXCEPT ![o] = d]
          /\ q \in OpType /\ ~Open(q) /\ Shaped(q) /\ Fits(q) /\ Carried(q, d)
  BY <1>1, <1>2, SingleReport
<1>4. CASE op' = [op EXCEPT ![o] = q]
  BY <1>1, <1>3, <1>4, LocalStep
<1>5. ASSUME NEW f \in {"null reply", NULL}, op' = [op EXCEPT ![o] = [q EXCEPT !.fault = f]]
      PROVE  IInv'
  <2>1. PICK r : r = [q EXCEPT !.fault = f]
    OBVIOUS
  <2>2. r \in OpType /\ ~Open(r) /\ Shaped(r) /\ Fits(r) /\ Carried(r, d)
    BY <1>3, <1>5, <2>1, FaultFacts
  <2>3. op' = [op EXCEPT ![o] = r]
    BY <1>5, <2>1
  <2> QED BY <1>1, <1>3, <2>2, <2>3, LocalStep
<1>6. CASE ftrunc_cb(o, st)
  BY <1>2, <1>4, <1>6 DEF ftrunc_cb, Report
<1>7. CASE fstat_cb(o, st)
  <2>1. PICK f : f = IF st = "aborted" THEN "null reply" ELSE NULL
    OBVIOUS
  <2>2. f \in {"null reply", NULL}
    BY <2>1
  <2>3. op' = [op EXCEPT ![o] = [q EXCEPT !.fault = f]]
    BY <1>2, <1>7, <2>1 DEF fstat_cb
  <2> QED BY <1>5, <2>2, <2>3
<1> QED BY <1>6, <1>7

(* read_cb and write_cb: the handle is still there.                        *)
LEMMA ReadCallback ==
    ASSUME IInv, NEW o \in Ops, NEW st \in States, read_cb(o, st)
    PROVE  IInv'
<1>1. op[o].kind \in {"pread", "pwrite"} /\ ServerDid(o, st) /\ dir' = dir
  BY DEF read_cb
<1>2. op[o].kind \in SingleKinds /\ op[o].kind \in HandleKinds /\ op[o].kind # "open"
  BY <1>1 DEF SingleKinds, HandleKinds, AllKinds
<1>3. PICK q : q = Reported(op[o], st)
  OBVIOUS
<1>4. PICK d \in SUBSET Nat :
          /\ did' = [did EXCEPT ![o] = d]
          /\ q \in OpType /\ ~Open(q) /\ Shaped(q) /\ Fits(q) /\ Carried(q, d)
  BY <1>1, <1>2, <1>3, SingleReport
<1>5. Open(op[o]) /\ op[o] \in OpType /\ op[o].h # NULL
  BY <1>1, <1>2, ServerFacts, OpFacts DEF Shaped
<1>6. op[o].h \in Handles /\ op[o].offset \in Int
  BY <1>5 DEF OpType
<1>7. PICK h \in Handles : h = op[o].h
  BY <1>6
<1>8. fh[h].state = "open"
  BY <1>2, <1>5, <1>7 DEF IInv, HandlesSound
<1>9. PICK r : r = [q EXCEPT !.fault = NULL]
  OBVIOUS
<1>10. op' = [op EXCEPT ![o] = r]
  BY <1>3, <1>7, <1>8, <1>9 DEF read_cb
<1>11. NULL \in {"null reply", "nested service", NULL}
  OBVIOUS
<1>12. r \in OpType /\ ~Open(r) /\ Shaped(r) /\ Fits(r) /\ Carried(r, d)
  BY <1>4, <1>9, <1>11, FaultFacts
<1>13. /\ fh' \in [Handles -> FhType]
       /\ \A g \in Handles : fh'[g].state = fh[g].state /\ fh'[g].owner = fh[g].owner
  <2>1. fh \in [Handles -> FhType]
    BY DEF IInv, Types
  <2>2. CASE fh' = fh
    BY <2>1, <2>2
  <2>3. ASSUME NEW n \in Int, fh' = [fh EXCEPT ![h].offset = n]
        PROVE  <1>13!:
    BY <2>1, <2>3 DEF FhType
  <2>4. \/ fh' = fh
        \/ \E n \in Int : fh' = [fh EXCEPT ![h].offset = n]
    <3>1. \A got \in 0..1 : op[o].offset + got \in Int
      BY <1>6
    <3> QED BY <1>7, <3>1 DEF read_cb
  <2> QED BY <2>2, <2>3, <2>4
<1> QED BY <1>1, <1>4, <1>10, <1>12, <1>13, EndStep

(* fsync_cb, and close_cb and open_cb, which end a handle or make it: the  *)
(* callback they find in the handle is their own.                          *)
LEMMA OwnerCallbacks ==
    ASSUME IInv, NEW o \in Ops, NEW st \in States,
           fsync_cb(o, st) \/ close_cb(o, st) \/ open_cb(o, st)
    PROVE  IInv'
<1>1. op[o].kind \in {"open", "fsync", "close"} /\ ServerDid(o, st) /\ dir' = dir
  BY DEF fsync_cb, close_cb, open_cb
<1>2. op[o].kind \in SingleKinds /\ op[o].kind \in HandleKinds
  BY <1>1 DEF SingleKinds, HandleKinds, AllKinds
<1>3. PICK q : q = Reported(op[o], st)
  OBVIOUS
<1>4. PICK d \in SUBSET Nat :
          /\ did' = [did EXCEPT ![o] = d]
          /\ q \in OpType /\ ~Open(q) /\ Shaped(q) /\ Fits(q) /\ Carried(q, d)
  BY <1>1, <1>2, <1>3, SingleReport
<1>5. Open(op[o]) /\ op[o] \in OpType /\ op[o].h # NULL
  BY <1>1, <1>2, ServerFacts, OpFacts DEF Shaped
<1>6. op[o].h \in Handles
  BY <1>5 DEF OpType
<1>7. PICK h \in Handles : h = op[o].h
  BY <1>6
<1>8. /\ fh[h].owner = o
      /\ fh[h].state = IF op[o].kind = "open" THEN "opening" ELSE "open"
      /\ op[o].kind = "close" => \A p \in Ops \ {o} : Open(op[p]) => op[p].h # h
  BY <1>1, <1>5, <1>7 DEF IInv, HandlesSound
<1>9. ReportOwner(o, st) => op' = [op EXCEPT ![o] = q]
  BY <1>3, <1>7, <1>8 DEF ReportOwner
<1>10. fh \in [Handles -> FhType]
  BY DEF IInv, Types
<1>11. CASE fsync_cb(o, st)
  <2>1. op' = [op EXCEPT ![o] = q] /\ UNCHANGED <<fh, dir>>
    BY <1>9, <1>11 DEF fsync_cb
  <2> QED BY <1>4, <2>1, LocalStep
<1>12. NoFh \in FhType
  BY DEF NoFh, FhType
<1>13. CASE close_cb(o, st)
  <2>1. op' = [op EXCEPT ![o] = q] /\ fh' = [fh EXCEPT ![h] = NoFh] /\ op[o].kind = "close"
    BY <1>7, <1>9, <1>13 DEF close_cb
  <2> QED BY <1>1, <1>4, <1>8, <1>12, <2>1, AloneStep
<1>14. CASE open_cb(o, st)
  <2>1. PICK x : x = IF st = "ok" THEN [fh[h] EXCEPT !.state = "open", !.end_of_file = MaxOffset]
                     ELSE NoFh
    OBVIOUS
  <2>2. op' = [op EXCEPT ![o] = q] /\ fh' = [fh EXCEPT ![h] = x] /\ op[o].kind = "open"
    BY <1>3, <1>7, <1>14, <2>1 DEF open_cb, Report
  <2>3. x \in FhType
    <3>1. MaxOffset \in Nat
      BY FileOpsAssumption
    <3>2. MaxOffset \in Int
      BY <3>1
    <3>3. PICK f \in FhType : f = fh[h]
      BY <1>10
    <3>4. [f EXCEPT !.state = "open", !.end_of_file = MaxOffset] \in FhType
      BY <3>2 DEF FhType
    <3> QED BY <1>12, <2>1, <3>3, <3>4
  <2>4. ASSUME NEW p \in Ops \ {o}, Open(op[p]), op[p].h = h
        PROVE  FALSE
    <3>1. fh[h].state = "opening"
      BY <1>8, <2>2
    <3>2. fh[h].owner = p
      BY <2>4, <3>1, BusyFacts
    <3> QED BY <1>8, <2>4, <3>2
  <2> QED BY <1>1, <1>4, <2>2, <2>3, <2>4, AloneStep
<1> QED BY <1>11, <1>13, <1>14

(* notify_change_cb: whoever watches a handle is alone on it.              *)
LEMMA NotifyCallback ==
    ASSUME IInv, NEW o \in Ops, NEW st \in States, notify_change_cb(o, st)
    PROVE  IInv'
<1>1. op[o].kind = "notify" /\ ServerDid(o, st) /\ dir' = dir
  BY DEF notify_change_cb
<1>2. /\ op[o].kind \in SingleKinds /\ op[o].kind \in HandleKinds
      /\ "notify" \in Kinds /\ "notify" \in HandleKinds
  BY <1>1 DEF Kinds, SingleKinds, HandleKinds, AllKinds
<1>3. PICK q : q = Reported(op[o], st)
  OBVIOUS
<1>4. PICK d \in SUBSET Nat :
          /\ did' = [did EXCEPT ![o] = d]
          /\ q \in OpType /\ ~Open(q) /\ Shaped(q) /\ Fits(q) /\ Carried(q, d)
  BY <1>1, <1>2, <1>3, SingleReport
<1>5. Open(op[o]) /\ op[o] \in OpType /\ op[o].h # NULL
  BY <1>1, <1>2, ServerFacts, OpFacts DEF Shaped
<1>6. op[o].h \in Handles
  BY <1>5 DEF OpType
<1>7. PICK h \in Handles : h = op[o].h
  BY <1>6
<1>8. fh[h].state = "open" /\ \A p \in Ops \ {o} : Open(op[p]) => op[p].h # h
  BY <1>1, <1>5, <1>7 DEF IInv, HandlesSound
<1>9. fh \in [Handles -> FhType]
  BY DEF IInv, Types
<1>10. CASE op' = [op EXCEPT ![o] = q] /\ fh' = fh
  BY <1>1, <1>4, <1>10, LocalStep
<1>11. CASE /\ op' = [op EXCEPT ![o] = [q EXCEPT !.fault = "nested service"]]
            /\ fh' = [fh EXCEPT ![h] = NoFh]
  <2>1. PICK r : r = [q EXCEPT !.fault = "nested service"]
    OBVIOUS
  <2>2. "nested service" \in {"null reply", "nested service", NULL}
    OBVIOUS
  <2>3. r \in OpType /\ ~Open(r) /\ Shaped(r) /\ Fits(r) /\ Carried(r, d)
    BY <1>4, <2>1, <2>2, FaultFacts
  <2>4. op' = [op EXCEPT ![o] = r]
    BY <1>11, <2>1
  <2>5. NoFh \in FhType
    BY DEF NoFh, FhType
  <2> QED BY <1>1, <1>4, <1>8, <1>11, <2>3, <2>4, <2>5, AloneStep
<1>12. CASE /\ op' = [op EXCEPT ![o] = [Started(o, "notify", <<"CHANGE_NOTIFY">>)
                                          EXCEPT !.h = h, !.loop = TRUE]]
            /\ fh' = fh
  <2>1. "CHANGE_NOTIFY" \in Commands
    BY DEF Commands
  <2>2. PICK s : s = Started(o, "notify", <<"CHANGE_NOTIFY">>)
    OBVIOUS
  <2>3. PICK r : r = [s EXCEPT !.h = h, !.loop = TRUE]
    OBVIOUS
  <2>4. /\ s \in OpType /\ s.kind = "notify" /\ s.cmds = <<"CHANGE_NOTIFY">> /\ s.next = 1
        /\ s.block = "live" /\ s.calls = 0 /\ s.result = NULL /\ s.fault = NULL
    BY <1>2, <2>1, <2>2, StartedOne
  <2>5. /\ r \in OpType /\ r.kind = "notify" /\ r.cmds = <<"CHANGE_NOTIFY">> /\ r.next = 1
        /\ r.block = "live" /\ r.calls = 0 /\ r.result = NULL /\ r.h = h /\ r.fault = NULL
    BY <2>3, <2>4 DEF OpType
  <2>6. r.block \in {"live", "none"} /\ r.kind \in HandleKinds
    BY <1>2, <2>5
  <2>7. Shaped(r) /\ Carried(r, d)
    BY <2>1, <2>5, <2>6, FreshFacts
  <2>8. Fits(r) /\ r.kind \notin {"opendir", "open", "fsync", "close"}
    BY <2>5 DEF Fits
  <2>9. op' = [op EXCEPT ![o] = r]
    BY <1>12, <2>2, <2>3
  <2>10. PICK x : x = fh[h]
    OBVIOUS
  <2>11. x \in FhType /\ x.state = "open" /\ fh' = [fh EXCEPT ![h] = x]
    BY <1>8, <1>9, <1>12, <2>10
  <2>12. Open(r) => /\ r.h = h /\ r.kind # "opendir"
                    /\ x.state = IF r.kind = "open" THEN "opening" ELSE "open"
                    /\ r.kind \in {"open", "fsync", "close"} => x.owner = o
    BY <2>5, <2>8, <2>11
  <2>13. r \in OpType
    BY <2>5
  <2> HIDE <2>10
  <2> QED BY <1>1, <1>4, <1>8, <2>7, <2>8, <2>9, <2>11, <2>12, <2>13, AloneStep, ZenonT(60)
<1>13. CASE op' = [op EXCEPT ![o] = Reported(op[o], "error")] /\ fh' = fh
  <2>1. op[o].next = Len(op[o].cmds)
    <3>1. Len(op[o].cmds) = 1 /\ op[o].next \in Nat \ {0}
      BY <1>2, OpFacts DEF Shaped, OpType
    <3> QED BY <1>5, <3>1 DEF Open
  <2>2. PICK r : r = Reported(op[o], "error")
    OBVIOUS
  <2>3. "error" \in States /\ "error" \notin {"ok", "eof"}
    BY DEF States
  <2>4. r \in OpType /\ ~Open(r) /\ Shaped(r) /\ Fits(r) /\ Carried(r, d)
    BY <1>5, <2>1, <2>2, <2>3, ReportFacts, ZenonT(30)
  <2>5. op' = [op EXCEPT ![o] = r]
    BY <1>13, <2>2
  <2> QED BY <1>1, <1>4, <1>13, <2>4, <2>5, LocalStep
<1>14. \/ <1>10!1 \/ <1>11!1 \/ <1>12!1 \/ <1>13!1
  <2>1. CASE st # "ok"
    BY <1>7, <2>1 DEF notify_change_cb, Report
  <2>2. CASE st = "ok"
    BY <1>3, <1>7, <2>2 DEF notify_change_cb, Report
  <2> QED BY <2>1, <2>2
<1> QED BY <1>10, <1>11, <1>12, <1>13, <1>14

-----------------------------------------------------------------------------
(* Compounds. *)

(* A request of a compound, not its last, has been called back and the     *)
(* operation remembers s: that nothing failed only when nothing did.       *)
LEMMA AdvanceFacts ==
    ASSUME IInv, NEW o \in Ops, NEW d \in SUBSET Nat, NEW s \in Kept, Open(op[o]),
           op[o].next < Len(op[o].cmds), op[o].kind \in PairKinds \cup ErrorKinds,
           op[o].kind \in ErrorKinds /\ s = "ok" => 1..op[o].next \subseteq d,
           op[o].kind \in ErrorKinds /\ s = "eof" => Eof \in d,
           NEW q, q = [op[o] EXCEPT !.next = @ + 1, !.status = s]
    PROVE  /\ q \in OpType /\ Shaped(q) /\ Fits(q) /\ Carried(q, d)
           /\ q.h = NULL /\ q.kind # "opendir"
<1>1. PICK r : r = op[o]
  OBVIOUS
<1>2. r \in OpType /\ Shaped(r) /\ Fits(r) /\ Open(r) /\ r.next < Len(r.cmds)
  BY <1>1, OpFacts
<1>3. /\ r.kind \in PairKinds \cup ErrorKinds
      /\ r.kind \in ErrorKinds /\ s = "ok" => 1..r.next \subseteq d
      /\ r.kind \in ErrorKinds /\ s = "eof" => Eof \in d
      /\ q = [r EXCEPT !.next = @ + 1, !.status = s]
  BY <1>1
<1> HIDE <1>1
<1>4. PICK n : n = r.next + 1
  OBVIOUS
<1>5. n \in Nat \ {0} /\ n <= Len(r.cmds) /\ r.next = n - 1
  BY <1>2, <1>4, CountFacts
<1>6. q = [r EXCEPT !.next = n, !.status = s]
  BY <1>3, <1>4
<1>7. /\ q \in OpType /\ q.kind = r.kind /\ q.cmds = r.cmds /\ q.next = n /\ q.block = r.block
      /\ q.status = s /\ q.calls = r.calls /\ q.result = r.result /\ q.h = r.h
      /\ q.count = r.count /\ q.credits = r.credits /\ q.length = r.length /\ q.fault = r.fault
  <2>1. q \in OpType
    BY <1>2, <1>5, <1>6 DEF OpType
  <2> QED BY <1>2, <1>6, <2>1 DEF OpType
<1>8. r.kind \notin HandleKinds \cup {"opendir"}
  BY <1>3 DEF PairKinds, ErrorKinds, HandleKinds, AllKinds
<1>9. r.h = NULL /\ r.result = NULL
  BY <1>2, <1>8 DEF Shaped
<1>10. Shaped(q)
  BY <1>2, <1>7, <1>8 DEF Shaped
<1>11. Fits(q)
  BY <1>2, <1>7 DEF Fits
<1>12. NULL # "ok"
  BY FileOpsAssumption
<1>13. q.result # "ok"
  BY <1>7, <1>9, <1>12
<1>14. Carried(q, d)
  BY <1>3, <1>5, <1>7, <1>8, <1>13 DEF Carried
<1> QED BY <1>7, <1>8, <1>9, <1>10, <1>11, <1>14

(* The callbacks of a compound: the last one reports, the others advance.  *)
(* All they need is that what they remember, and say, is true.             *)
LEMMA CompoundStep ==
    ASSUME IInv, NEW o \in Ops, NEW st \in States, NEW s, NEW f, ServerDid(o, st),
           op[o].kind \in PairKinds \cup ErrorKinds, UNCHANGED <<fh, dir>>,
           IF AtLast(o) THEN Report(o, f) ELSE Advance(o, s),
           AtLast(o) => f \in States,
           ~AtLast(o) => s \in Kept,
           \A d \in SUBSET Nat :
               /\ did[o] \subseteq d
               /\ Answered(o, st, d) /\ Refused(o, st, d)
               => /\ AtLast(o) /\ f \in {"ok", "eof"} => Done(op[o], d)
                  /\ ~AtLast(o) /\ op[o].kind \in ErrorKinds /\ s = "ok" => 1..op[o].next \subseteq d
                  /\ ~AtLast(o) /\ op[o].kind \in ErrorKinds /\ s = "eof" => Eof \in d
    PROVE  IInv'
<1>1. Open(op[o])
  BY ServerFacts
<1>2. PICK d \in SUBSET Nat :
          /\ did' = [did EXCEPT ![o] = d] /\ did[o] \subseteq d
          /\ Answered(o, st, d) /\ Refused(o, st, d)
  BY ServerFacts
<1>3. CASE AtLast(o)
  <2>1. op[o].next = Len(op[o].cmds) /\ (f \in {"ok", "eof"} => Done(op[o], d)) /\ f \in States
    BY <1>2, <1>3 DEF AtLast
  <2>2. PICK q : q = Reported(op[o], f)
    OBVIOUS
  <2>3. q \in OpType /\ ~Open(q) /\ Shaped(q) /\ Fits(q) /\ Carried(q, d)
    BY <1>1, <2>1, <2>2, ReportFacts, ZenonT(30)
  <2>4. op' = [op EXCEPT ![o] = q]
    BY <1>3, <2>2 DEF Report
  <2> QED BY <1>2, <2>3, <2>4, LocalStep
<1>4. CASE ~AtLast(o)
  <2>1. op[o].next < Len(op[o].cmds)
    <3>1. op[o].next \in Nat /\ Len(op[o].cmds) \in Nat
      BY OpFacts, CountFacts
    <3> QED BY <1>1, <1>4, <3>1 DEF AtLast, Open
  <2>2. /\ s \in Kept
        /\ op[o].kind \in ErrorKinds /\ s = "ok" => 1..op[o].next \subseteq d
        /\ op[o].kind \in ErrorKinds /\ s = "eof" => Eof \in d
    BY <1>2, <1>4
  <2>3. PICK q : q = [op[o] EXCEPT !.next = @ + 1, !.status = s]
    OBVIOUS
  <2>4. /\ q \in OpType /\ Shaped(q) /\ Fits(q) /\ Carried(q, d)
        /\ q.h = NULL /\ q.kind # "opendir"
    BY <1>1, <2>1, <2>2, <2>3, AdvanceFacts, ZenonT(30)
  <2>5. op' = [op EXCEPT ![o] = q]
    <3>1. op \in [Ops -> OpType]
      BY DEF IInv, Types
    <3>2. op' = [op EXCEPT ![o].next = @ + 1, ![o].status = s]
      BY <1>4 DEF Advance
    <3> QED BY <2>3, <3>1, <3>2 DEF OpType
  <2> QED BY <1>2, <2>4, <2>5, LocalStep
<1> QED BY <1>3, <1>4

(* create_cb_1 and create_cb_2 *)
LEMMA PairCallbacks ==
    ASSUME IInv, NEW o \in Ops, NEW st \in Kept, create_cb(o, st)
    PROVE  IInv'
<1>1. /\ op[o].kind \in PairKinds /\ ServerDid(o, st) /\ UNCHANGED <<fh, dir>>
      /\ IF AtLast(o) THEN Report(o, st) ELSE Advance(o, "ok")
  BY DEF create_cb, PairKinds
<1>2. st \in States /\ "ok" \in Kept /\ op[o].kind \notin ErrorKinds
  BY <1>1 DEF States, Kept, PairKinds, ErrorKinds
<1>3. ASSUME NEW d \in SUBSET Nat, AtLast(o), st \in {"ok", "eof"},
             Answered(o, st, d)
      PROVE  Done(op[o], d)
  <2>1. Len(op[o].cmds) = 2
    BY <1>1, OpFacts DEF Shaped
  <2> QED BY <1>3, <2>1 DEF Done, AtLast, Answered
<1>4. op[o].kind \in PairKinds \cup ErrorKinds
  BY <1>1
<1> QED BY <1>1, <1>2, <1>3, <1>4, CompoundStep

(* getinfo_cb, trunc_cb, rename_cb and readlink_cb: the first error is     *)
(* remembered.                                                             *)
LEMMA ErrorCallbacks ==
    ASSUME IInv, NEW o \in Ops, NEW st \in Kept,
           getinfo_cb(o, st) \/ trunc_cb(o, st) \/ rename_cb(o, st) \/ readlink_cb(o, st)
    PROVE  IInv'
<1> DEFINE s == FirstError(o, st)
<1>1. /\ op[o].kind \in ErrorKinds /\ ServerDid(o, st) /\ UNCHANGED <<fh, dir>>
      /\ op[o].kind \in PairKinds \cup ErrorKinds
  BY DEF getinfo_cb, trunc_cb, rename_cb, readlink_cb, ErrorKinds
<1>2. PICK f : f = IF op[o].kind = "readlink" THEN op[o].status ELSE s
  OBVIOUS
<1>3. IF AtLast(o) THEN Report(o, f) ELSE Advance(o, s)
  BY <1>2 DEF getinfo_cb, trunc_cb, rename_cb, readlink_cb
<1>4. op[o].status \in Kept /\ Len(op[o].cmds) = 3 /\ Open(op[o]) /\ op[o].next \in Nat \ {0}
  BY <1>1, OpFacts, ServerFacts DEF OpType, Shaped, ServerDid, InFlight, Open
<1>5. s \in Kept /\ f \in Kept /\ (s = "ok" => op[o].status = "ok" /\ st = "ok")
  BY <1>2, <1>4 DEF FirstError
<1>6. st \in States /\ f \in States
  BY <1>5 DEF States, Kept
<1>7. /\ op[o].status = "ok" => 1..(op[o].next - 1) \subseteq did[o]
      /\ op[o].status = "eof" => Eof \in did[o]
  BY <1>1, <1>4, OpFacts DEF Carried
<1>8. ASSUME NEW d \in SUBSET Nat, did[o] \subseteq d,
             Answered(o, st, d), Refused(o, st, d)
      PROVE  /\ AtLast(o) /\ f \in {"ok", "eof"} => Done(op[o], d)
             /\ s = "ok" => 1..op[o].next \subseteq d
             /\ s = "eof" => Eof \in d
  <2>1. ASSUME s = "ok" PROVE 1..op[o].next \subseteq d
    <3>1. 1..(op[o].next - 1) \subseteq d /\ op[o].next \in d
      BY <1>5, <1>7, <1>8, <2>1 DEF Answered
    <3> QED BY <1>4, <3>1
  <2>4. ASSUME s = "eof" PROVE Eof \in d
    <3>1. op[o].status = "eof" \/ st = "eof"
      BY <2>4 DEF FirstError
    <3> QED BY <1>1, <1>7, <1>8, <3>1 DEF Refused
  <2>2. ASSUME AtLast(o), f \in {"ok", "eof"} PROVE Done(op[o], d)
    <3>0. CASE f = "eof"
      <4>1. Eof \in d
        BY <1>2, <1>7, <1>8, <2>4, <3>0
      <4> QED BY <4>1 DEF Done
    <3> SUFFICES ASSUME f # "eof" PROVE Done(op[o], d)
      BY <3>0
    <3>1. f = "ok" /\ op[o].next = 3
      BY <1>4, <1>5, <2>2 DEF AtLast
    <3>2. CASE op[o].kind = "readlink"
      <4>1. 1..2 \subseteq d
        BY <1>2, <1>7, <1>8, <3>1, <3>2
      <4> QED BY <1>4, <3>2, <4>1 DEF Done
    <3>3. CASE op[o].kind # "readlink"
      BY <1>2, <1>4, <2>1, <3>1, <3>3 DEF Done
    <3> QED BY <3>2, <3>3
  <2> QED BY <2>1, <2>2, <2>4
<1> HIDE DEF s
<1> QED BY <1>1, <1>3, <1>5, <1>6, <1>8, CompoundStep

(* A compound that is given up before it is sent says nothing any more.    *)
LEMMA AbortKeeps ==
    ASSUME IInv, NEW o \in Ops, AbortUnsent(o)
    PROVE  IInv'
<1>1. PICK r : r = op[o]
  OBVIOUS
<1>2. PICK n : n = Len(r.cmds) + 1
  OBVIOUS
<1>3. PICK q : q = [r EXCEPT !.next = n, !.status = "aborted"]
  OBVIOUS
<1>4. /\ r \in OpType /\ Shaped(r) /\ Fits(r) /\ r.next = 1 /\ Len(r.cmds) > 1
  BY <1>1, OpFacts DEF AbortUnsent
<1>5. Len(r.cmds) \in Nat /\ Open(r)
  BY <1>4, CountFacts DEF Open
<1>6. n \in Nat \ {0} /\ ~(n <= Len(r.cmds)) /\ "aborted" \in Kept
  BY <1>2, <1>5 DEF Kept
<1>7. op' = [op EXCEPT ![o] = q] /\ UNCHANGED <<fh, dir, did>>
  <2>1. op \in [Ops -> OpType]
    BY DEF IInv, Types
  <2> QED BY <1>1, <1>2, <1>3, <2>1 DEF AbortUnsent, OpType
<1> HIDE <1>1, <1>2
<1>8. q \in OpType
  BY <1>3, <1>4, <1>6 DEF OpType
<1>9. /\ q.kind = r.kind /\ q.cmds = r.cmds /\ q.next = n
      /\ q.calls = r.calls /\ q.result = r.result /\ q.count = r.count
      /\ q.credits = r.credits /\ q.length = r.length /\ q.fault = r.fault
  BY <1>3, <1>4 DEF OpType
<1>10. ~Open(q)
  BY <1>6, <1>9 DEF Open
<1>11. Shaped(q) /\ Fits(q)
  BY <1>4, <1>9, <1>10 DEF Shaped, Fits
<1>12. Carried(q, did[o])
  <2>1. NULL # "ok"
    BY FileOpsAssumption
  <2>2. r.result = NULL
    BY <1>4, <1>5 DEF Shaped
  <2>3. q.result # "ok"
    BY <1>9, <2>1, <2>2
  <2> QED BY <1>10, <2>3 DEF Carried
<1> QED BY <1>7, <1>8, <1>10, <1>11, <1>12, OpFacts, LocalStep

(* An operation that has been heard of is forgotten. *)
LEMMA ForgetKeeps ==
    ASSUME IInv, NEW o \in Ops, Forget(o)
    PROVE  IInv'
<1>1. PICK r, d : r = NoOp /\ d = {}
  OBVIOUS
<1>2. op' = [op EXCEPT ![o] = r] /\ did' = [did EXCEPT ![o] = d] /\ UNCHANGED <<fh, dir>>
  BY <1>1 DEF Forget
<1>3. r \in OpType /\ ~Open(r) /\ Shaped(r) /\ Fits(r) /\ Carried(r, d) /\ d \in SUBSET Nat
  BY <1>1, NoOpFacts
<1> HIDE <1>1
<1> QED BY <1>2, <1>3, LocalStep

(* smb2_lseek moves an offset and nothing else. *)
LEMMA SeekKeeps ==
    ASSUME IInv, NEW h \in Handles, NEW w \in {"SEEK_SET", "SEEK_CUR", "SEEK_END"},
           NEW n \in Int, smb2_lseek(h, w, n)
    PROVE  IInv'
<1>1. fh \in [Handles -> FhType]
  BY DEF IInv, Types
<1>2. fh[h].offset \in Int /\ fh[h].end_of_file \in Int
  BY <1>1 DEF FhType
<1>3. PICK from \in Int :
          fh' = [fh EXCEPT ![h].offset =
                    IF from + n >= 0 THEN from + n ELSE IF w = "SEEK_END" THEN from ELSE @]
  <2>1. CASE w = "SEEK_SET"
    <3>1. fh' = [fh EXCEPT ![h].offset =
                    IF 0 + n >= 0 THEN 0 + n ELSE IF w = "SEEK_END" THEN 0 ELSE @]
      BY <2>1 DEF smb2_lseek
    <3> WITNESS 0 \in Int
    <3> QED BY <3>1
  <2>2. CASE w = "SEEK_CUR"
    BY <1>2, <2>2 DEF smb2_lseek
  <2>3. CASE w = "SEEK_END"
    BY <1>2, <2>3 DEF smb2_lseek
  <2> QED BY <2>1, <2>2, <2>3
<1>4. PICK x : x = IF from + n >= 0 THEN from + n
                   ELSE IF w = "SEEK_END" THEN from ELSE fh[h].offset
  OBVIOUS
<1>5. x \in Int
  BY <1>2, <1>3, <1>4
<1>6. fh' = [fh EXCEPT ![h].offset = x]
  BY <1>3, <1>4
<1>7. /\ fh' \in [Handles -> FhType]
      /\ \A g \in Handles : fh'[g].state = fh[g].state /\ fh'[g].owner = fh[g].owner
  BY <1>1, <1>5, <1>6 DEF FhType
<1>8. UNCHANGED <<op, dir, did>>
  BY DEF smb2_lseek
<1>9. HandlesSound'
  <2> SUFFICES ASSUME NEW p \in Ops, Open(op[p]), op[p].h # NULL
               PROVE  /\ fh'[op[p].h].state = IF op[p].kind = "open" THEN "opening" ELSE "open"
                      /\ op[p].kind \in {"open", "fsync", "close"} => fh'[op[p].h].owner = p
                      /\ op[p].kind \in {"close", "notify"} =>
                             \A q \in Ops \ {p} : Open(op[q]) => op[q].h # op[p].h
    BY <1>8 DEF HandlesSound
  <2>1. op[p].h \in Handles
    BY OpFacts DEF OpType
  <2> QED BY <1>7, <2>1 DEF IInv, HandlesSound
<1>10. Types' /\ OpsSound' /\ OpsFit' /\ FillerSound' /\ DirSound'
  BY <1>7, <1>8 DEF IInv, Types, OpsSound, OpsFit, FillerSound, DirSound
<1> QED BY <1>9, <1>10 DEF IInv

-----------------------------------------------------------------------------
(* Directories. *)

(* The k entries of a reply, which follow the n that came before, from the *)
(* last to the first.                                                      *)
LEMMA Reversed ==
    ASSUME NEW n \in Nat, NEW k \in Nat
    PROVE  /\ Reverse([i \in 1..k |-> n + i]) \in Seq(Nat)
           /\ Len(Reverse([i \in 1..k |-> n + i])) = k
           /\ Range(Reverse([i \in 1..k |-> n + i])) = (n + 1)..(n + k)
<1> DEFINE f == [i \in 1..k |-> n + i]
           g == Reverse(f)
<1>1. f \in Seq(Nat) /\ Len(f) = k
  OBVIOUS
<1>2. g = [i \in 1..k |-> n + (k - i + 1)]
  <2>1. g = [i \in 1..Len(f) |-> f[(Len(f) - i) + 1]]
    BY DEF Reverse
  <2>2. \A i \in 1..k : f[(k - i) + 1] = n + (k - i + 1)
    OBVIOUS
  <2> HIDE DEF f, g
  <2> QED BY <1>1, <2>1, <2>2
<1> HIDE DEF f, g
<1>3. g \in Seq(Nat) /\ Len(g) = k
  BY <1>2
<1>4. Range(g) = (n + 1)..(n + k)
  <2>1. \A x : x \in Range(g) <=> \E i \in 1..k : g[i] = x
    BY <1>3, SeqElements
  <2>2. ASSUME NEW x \in (n + 1)..(n + k)
        PROVE  \E i \in 1..k : g[i] = x
    <3>1. PICK i \in 1..k : x = n + (k - i + 1)
      <4>1. (n + k + 1) - x \in 1..k /\ x = n + (k - ((n + k + 1) - x) + 1)
        OBVIOUS
      <4> QED BY <4>1
    <3> QED BY <1>2, <3>1
  <2>3. ASSUME NEW i \in 1..k
        PROVE  g[i] \in (n + 1)..(n + k)
    BY <1>2
  <2> QED BY <2>1, <2>2, <2>3
<1> QED BY <1>3, <1>4 DEF f, g

(* The list grows by the entries of a reply, in front.                     *)
LEMMA Decoded ==
    ASSUME NEW n \in Nat, NEW k \in Nat, NEW e \in Seq(Nat), Len(e) = n, ToSet(e) = 1..n,
           NEW g \in Seq(Nat), Len(g) = k, Range(g) = (n + 1)..(n + k)
    PROVE  g \o e \in Seq(Nat) /\ Len(g \o e) = n + k /\ ToSet(g \o e) = 1..(n + k)
<1>1. g \o e \in Seq(Nat) /\ Range(g \o e) = Range(g) \cup Range(e)
  BY ConcatSeq
<1>2. Len(g \o e) = n + k
  OBVIOUS
<1>3. ToSet(g \o e) = Range(g \o e) /\ Range(e) = 1..n
  BY DEF ToSet, Range
<1>4. (n + 1)..(n + k) \cup 1..n = 1..(n + k)
  OBVIOUS
<1> QED BY <1>1, <1>2, <1>3, <1>4

(* A list without entries. *)
LEMMA EmptyList == <<>> \in Seq(Nat) /\ Len(<<>>) = 0 /\ ToSet(<<>>) = {} /\ 1..0 = {}
<1>1. <<>> \in Seq(Nat) /\ Range(<<>>) = {}
  BY SmallSeq
<1>2. Len(<<>>) = 0 /\ 1..0 = {}
  OBVIOUS
<1>3. ToSet(<<>>) = Range(<<>>)
  BY DEF ToSet, Range
<1> QED BY <1>1, <1>2, <1>3

(* An empty directory, and one that an opendir begins to fill.             *)
LEMMA NoDirFacts ==
    /\ NoDir \in DirType /\ NoDir.state = "none" /\ NoDir.sent = 0 /\ NoDir.entries = <<>>
    /\ \A o \in Ops : \A x : x = [NoDir EXCEPT !.state = "filling", !.owner = o] =>
           /\ x \in DirType /\ x.state = "filling" /\ x.owner = o /\ x.sent = 0
           /\ x.entries = <<>>
<1>1. NoDir \in DirType /\ NoDir.state = "none" /\ NoDir.sent = 0 /\ NoDir.entries = <<>>
  BY EmptyList DEF NoDir, DirType
<1>2. ASSUME NEW o \in Ops, NEW x, x = [NoDir EXCEPT !.state = "filling", !.owner = o]
      PROVE  /\ x \in DirType /\ x.state = "filling" /\ x.owner = o /\ x.sent = 0
             /\ x.entries = <<>>
  <2>1. x = [state |-> "filling", owner |-> o, entries |-> <<>>, current |-> <<>>,
             index |-> 0, size |-> 0, sent |-> 0]
    BY <1>2 DEF NoDir
  <2> QED BY <2>1, EmptyList DEF DirType
<1> QED BY <1>1, <1>2

(* A step of the operation o and the directory, when no other operation    *)
(* fills it.                                                               *)
LEMMA DirStep ==
    ASSUME IInv, NEW o \in Ops, NEW r \in OpType, NEW d \in SUBSET Nat, NEW x \in DirType,
           op' = [op EXCEPT ![o] = r], did' = [did EXCEPT ![o] = d], fh' = fh, dir' = x,
           Shaped(r), Carried(r, d), Fits(r), ListSound(x),
           \A p \in Ops \ {o} : Open(op[p]) => op[p].kind # "opendir",
           Open(r) => r.h = NULL /\ x.state = "filling" /\ x.owner = o,
           Open(r) /\ r.next = 1 => x.sent = 0,
           Open(r) /\ r.next > 1 /\ r.cmds[r.next] # "QUERY_DIRECTORY" => x.sent = x.size
    PROVE  IInv'
<1>1. /\ op' \in [Ops -> OpType] /\ did' \in [Ops -> SUBSET Nat]
      /\ OpsSound' /\ OpsFit'
      /\ op'[o] = r /\ \A p \in Ops \ {o} : op'[p] = op[p]
  BY OpsKept
<1>2. HandlesSound'
  BY <1>1, HandlesKept
<1>3. DirSound'
  BY DEF DirSound
<1>4. FillerSound'
  <2> SUFFICES ASSUME NEW p \in Ops, Open(op'[p]), op'[p].kind = "opendir"
               PROVE  /\ x.state = "filling" /\ x.owner = p
                      /\ op'[p].next = 1 => x.sent = 0
                      /\ op'[p].next > 1 /\ op'[p].cmds[op'[p].next] # "QUERY_DIRECTORY"
                             => x.sent = x.size
    BY DEF FillerSound
  <2>1. p = o
    BY <1>1
  <2> QED BY <1>1, <2>1
<1>5. Types'
  BY <1>1 DEF IInv, Types
<1> QED BY <1>1, <1>2, <1>3, <1>4, <1>5 DEF IInv

(* The application looks through a directory, or closes it: none is filled *)
(* meanwhile.                                                              *)
LEMMA LookStep ==
    ASSUME IInv, NEW x \in DirType, dir.state = "open", dir' = x, UNCHANGED <<op, fh, did>>,
           ListSound(x)
    PROVE  IInv'
<1>1. \A p \in Ops : Open(op[p]) => op[p].kind # "opendir"
  <2>1. dir.state # "filling"
    OBVIOUS
  <2> QED BY <2>1 DEF IInv, FillerSound
<1>2. FillerSound' /\ DirSound'
  BY <1>1 DEF FillerSound, DirSound
<1>3. Types' /\ OpsSound' /\ OpsFit' /\ HandlesSound'
  BY DEF IInv, Types, OpsSound, OpsFit, HandlesSound
<1> QED BY <1>2, <1>3 DEF IInv

(* smb2_opendir_async *)
LEMMA OpendirKeeps ==
    ASSUME IInv, NEW o \in Ops, smb2_opendir_async(o)
    PROVE  IInv'
<1>1. CASE NoMemory(o, "freed", 0)
  BY <1>1, RefusedOn
<1>2. CASE /\ Free(o) /\ dir.state = "none"
           /\ op' = [op EXCEPT ![o] = [Started(o, "opendir", <<"CREATE">>) EXCEPT
                                         !.block = "none"]]
           /\ dir' = [NoDir EXCEPT !.state = "filling", !.owner = o]
           /\ UNCHANGED <<fh, did>>
  <2>1. "opendir" \in Kinds /\ "CREATE" \in Commands
    BY DEF Kinds, Commands
  <2>2. PICK s : s = Started(o, "opendir", <<"CREATE">>)
    OBVIOUS
  <2>3. PICK r : r = [s EXCEPT !.block = "none"]
    OBVIOUS
  <2>4. PICK x : x = [NoDir EXCEPT !.state = "filling", !.owner = o]
    OBVIOUS
  <2>5. /\ s \in OpType /\ s.kind = "opendir" /\ s.cmds = <<"CREATE">> /\ s.next = 1
        /\ s.calls = 0 /\ s.result = NULL /\ s.fault = NULL /\ s.h = NULL
    BY <2>1, <2>2, StartedOne
  <2>6. /\ r \in OpType /\ r.kind = "opendir" /\ r.cmds = <<"CREATE">> /\ r.next = 1
        /\ r.block = "none" /\ r.calls = 0 /\ r.result = NULL /\ r.fault = NULL /\ r.h = NULL
    BY <2>3, <2>5 DEF OpType
  <2>7. Len(r.cmds) = 1 /\ Open(r)
    BY <2>1, <2>6, SmallSeq DEF Open
  <2>8. NULL # "ok" /\ NULL # "freed handle" /\ NULL # "opendir"
    BY FileOpsAssumption
  <2>9. "opendir" \notin {"refused"} \cup SingleKinds \cup PairKinds \cup ErrorKinds
    BY DEF SingleKinds, HandleKinds, AllKinds, PairKinds, ErrorKinds
  <2>10. r.fault # "freed handle" /\ r.result # "ok" /\ r.kind # NULL /\ r.block # "freed"
    BY <2>6, <2>8, Zenon
  <2>11. r.calls <= 1
    BY <2>6
  <2>12. Shaped(r)
    BY <2>6, <2>7, <2>9, <2>10, <2>11 DEF Shaped, SingleKinds
  <2>13. 1..(r.next - 1) = {}
    BY <2>6
  <2>14. Carried(r, did[o]) /\ Fits(r)
    BY <2>6, <2>9, <2>10, <2>13 DEF Carried, Fits
  <2>15. x \in DirType /\ x.state = "filling" /\ x.owner = o /\ x.sent = 0 /\ x.entries = <<>>
    BY <2>4, NoDirFacts
  <2>16. ListSound(x)
    BY <2>15, EmptyList DEF ListSound
  <2>17. \A p \in Ops \ {o} : Open(op[p]) => op[p].kind # "opendir"
    BY <1>2 DEF IInv, FillerSound
  <2>18. op' = [op EXCEPT ![o] = r] /\ dir' = x /\ fh' = fh
    BY <1>2, <2>2, <2>3, <2>4
  <2>19. PICK d : d = did[o]
    OBVIOUS
  <2>20. did' = [did EXCEPT ![o] = d] /\ d \in SUBSET Nat /\ Carried(r, d)
    BY <1>2, <2>14, <2>19, OpFacts
  <2>21. ~(r.next > 1)
    BY <2>6
  <2> HIDE <2>2, <2>3, <2>4, <2>19
  <2> QED BY <2>6, <2>12, <2>14, <2>15, <2>16, <2>17, <2>18, <2>20, <2>21, DirStep
<1> QED BY <1>1, <1>2 DEF smb2_opendir_async

(* An opendir whose request has been called back: it fills the directory,  *)
(* alone, and what it has asked for so far was done.                       *)
LEMMA FillerFacts ==
    ASSUME IInv, NEW o \in Ops, NEW st \in States, op[o].kind = "opendir", ServerDid(o, st)
    PROVE  /\ Open(op[o]) /\ op[o].next = Len(op[o].cmds) /\ op[o].h = NULL
           /\ dir.state = "filling" /\ dir.owner = o /\ dir \in DirType /\ ListSound(dir)
           /\ \A p \in Ops \ {o} : Open(op[p]) => op[p].kind # "opendir"
           /\ \E d \in SUBSET Nat :
                  /\ did' = [did EXCEPT ![o] = d] /\ 1..(op[o].next - 1) \subseteq d
                  /\ Answered(o, st, d)
<1>1. Open(op[o])
  BY ServerFacts
<1>2. "opendir" \notin HandleKinds
  BY DEF HandleKinds, AllKinds
<1>3. op[o].next = Len(op[o].cmds) /\ op[o].h = NULL
  BY <1>1, <1>2, OpFacts DEF Shaped
<1>4. dir.state = "filling" /\ dir.owner = o
  BY <1>1 DEF IInv, FillerSound
<1>5. \A p \in Ops \ {o} : Open(op[p]) => op[p].kind # "opendir"
  BY <1>4 DEF IInv, FillerSound
<1>6. dir \in DirType /\ ListSound(dir)
  BY DEF IInv, Types, DirSound
<1>7. 1..(op[o].next - 1) \subseteq did[o]
  BY <1>1, OpFacts DEF Carried
<1>8. PICK d \in SUBSET Nat :
          /\ did' = [did EXCEPT ![o] = d] /\ did[o] \subseteq d
          /\ Answered(o, st, d) /\ Refused(o, st, d)
  BY ServerFacts
<1>9. 1..(op[o].next - 1) \subseteq d
  BY <1>7, <1>8
<1> QED BY <1>1, <1>3, <1>4, <1>5, <1>6, <1>8, <1>9

(* free_smb2dir: the opendir ends in a failure, which may be reported as a *)
(* success, and takes its directory with it.                               *)
LEMMA EndDirKeeps ==
    ASSUME IInv, NEW o \in Ops, NEW st \in States, op[o].kind = "opendir", ServerDid(o, st),
           NEW f \in {"error", st}, f # "ok", EndDir(o, f), fh' = fh
    PROVE  IInv'
<1>1. /\ Open(op[o]) /\ op[o].next = Len(op[o].cmds)
      /\ \A p \in Ops \ {o} : Open(op[p]) => op[p].kind # "opendir"
  BY FillerFacts
<1>2. PICK d \in SUBSET Nat :
          /\ did' = [did EXCEPT ![o] = d] /\ 1..(op[o].next - 1) \subseteq d
          /\ Answered(o, st, d)
  BY FillerFacts
<1>3. PICK q : q = Reported(op[o], f)
  OBVIOUS
<1>4. f \in States /\ (f \in {"ok", "eof"} => Done(op[o], d))
  <2>1. f \in States
    BY DEF States
  <2>2. ASSUME f = "eof" PROVE Done(op[o], d)
    <3>1. op[o].next \in d \/ Eof \in d
      BY <1>2, <2>2 DEF Answered
    <3>2. op[o].next \in Nat \ {0}
      BY OpFacts, CountFacts
    <3> QED BY <1>1, <1>2, <3>1, <3>2 DEF Done
  <2> QED BY <2>1, <2>2
<1>5. q \in OpType /\ ~Open(q) /\ Shaped(q) /\ Fits(q) /\ Carried(q, d)
  BY <1>1, <1>3, <1>4, ReportFacts, ZenonT(30)
<1>6. PICK x : x = NoDir
  OBVIOUS
<1>7. op' = [op EXCEPT ![o] = q] /\ dir' = x
  BY <1>3, <1>6 DEF EndDir, Report
<1>8. x \in DirType /\ x.state = "none" /\ x.sent = 0 /\ x.entries = <<>>
  BY <1>6, NoDirFacts
<1>9. ListSound(x)
  BY <1>8, EmptyList DEF ListSound
<1> HIDE <1>3, <1>6
<1> QED BY <1>1, <1>2, <1>5, <1>7, <1>8, <1>9, DirStep

(* An opendir that goes on with its next request. *)
LEMMA ThenFacts ==
    ASSUME IInv, NEW o \in Ops, NEW d \in SUBSET Nat, NEW cmd \in Commands, Open(op[o]),
           op[o].kind = "opendir", op[o].next = Len(op[o].cmds),
           1..(op[o].next - 1) \subseteq d, op[o].next \in d, Then(o, cmd)
    PROVE  \E q \in OpType :
               /\ op' = [op EXCEPT ![o] = q] /\ Shaped(q) /\ Fits(q) /\ Carried(q, d)
               /\ q.h = NULL /\ q.next > 1 /\ q.cmds[q.next] = cmd
<1>1. PICK r : r = op[o]
  OBVIOUS
<1>2. /\ r \in OpType /\ Shaped(r) /\ Fits(r) /\ Open(r) /\ r.next = Len(r.cmds)
      /\ r.kind = "opendir" /\ 1..(r.next - 1) \subseteq d /\ r.next \in d
  BY <1>1, OpFacts
<1>3. PICK n, c : n = r.next + 1 /\ c = Append(r.cmds, cmd)
  OBVIOUS
<1>4. PICK q : q = [r EXCEPT !.next = n, !.cmds = c]
  OBVIOUS
<1>5. op' = [op EXCEPT ![o] = q]
  <2>1. op \in [Ops -> OpType]
    BY DEF IInv, Types
  <2> QED BY <1>1, <1>3, <1>4, <2>1 DEF Then, OpType
<1>6. /\ r.next \in Nat \ {0} /\ n \in Nat \ {0} /\ n > 1 /\ n = r.next + 1
      /\ c \in Seq(Commands) /\ Len(c) = n /\ c[n] = cmd
  <2>1. r.next \in Nat \ {0} /\ r.cmds \in Seq(Commands)
    BY <1>2, CountFacts
  <2>2. /\ c \in Seq(Commands) /\ Len(c) = Len(r.cmds) + 1 /\ c[Len(r.cmds) + 1] = cmd
    BY <1>3, <2>1, AppendIndex
  <2> QED BY <1>2, <1>3, <2>1, <2>2
<1> HIDE <1>1, <1>3
<1>7. q \in OpType
  BY <1>2, <1>4, <1>6 DEF OpType
<1>8. /\ q.kind = r.kind /\ q.cmds = c /\ q.next = n /\ q.block = r.block
      /\ q.calls = r.calls /\ q.result = r.result /\ q.h = r.h /\ q.count = r.count
      /\ q.fault = r.fault
  BY <1>2, <1>4 DEF OpType
<1>9. /\ "opendir" \notin {"refused", "pread", "pwrite"} \cup SingleKinds \cup PairKinds \cup ErrorKinds
      /\ "opendir" \notin HandleKinds
  BY DEF SingleKinds, HandleKinds, AllKinds, PairKinds, ErrorKinds
<1>10. NULL # "opendir" /\ NULL # "ok"
  BY FileOpsAssumption
<1>11. r.h = NULL /\ r.result = NULL
  BY <1>2, <1>9 DEF Shaped
<1>12. q.kind \notin {NULL, "refused"} /\ q.result # "ok"
  BY <1>2, <1>8, <1>9, <1>10, <1>11
<1>13. Shaped(q)
  BY <1>2, <1>6, <1>8, <1>9, <1>12 DEF Shaped
<1>14. Fits(q)
  BY <1>2, <1>8, <1>9 DEF Fits
<1>15. 1..(q.next - 1) \subseteq d
  BY <1>2, <1>6, <1>8
<1>16. Carried(q, d)
  BY <1>2, <1>8, <1>9, <1>12, <1>15 DEF Carried
<1> QED BY <1>5, <1>6, <1>7, <1>8, <1>11, <1>13, <1>14, <1>16

(* The opendir goes on with cmd, and the directory becomes x. *)
LEMMA ThenKeeps ==
    ASSUME IInv, NEW o \in Ops, NEW st \in {"ok", "nomore"}, NEW cmd \in Commands,
           NEW x \in DirType, op[o].kind = "opendir", ServerDid(o, st), Then(o, cmd),
           fh' = fh, dir' = x, ListSound(x), x.state = "filling", x.owner = o,
           cmd # "QUERY_DIRECTORY" => x.sent = x.size
    PROVE  IInv'
<1>1. st \in States /\ st \in {"ok", "eof", "nomore"}
  BY DEF States
<1>2. /\ Open(op[o]) /\ op[o].next = Len(op[o].cmds)
      /\ \A p \in Ops \ {o} : Open(op[p]) => op[p].kind # "opendir"
  BY <1>1, FillerFacts
<1>3. PICK d \in SUBSET Nat :
          did' = [did EXCEPT ![o] = d] /\ 1..(op[o].next - 1) \subseteq d /\ op[o].next \in d
  BY <1>1, FillerFacts DEF Answered
<1>4. PICK q \in OpType :
          /\ op' = [op EXCEPT ![o] = q] /\ Shaped(q) /\ Fits(q) /\ Carried(q, d)
          /\ q.h = NULL /\ q.next > 1 /\ q.cmds[q.next] = cmd
  BY <1>2, <1>3, ThenFacts
<1>5. q.next # 1
  <2>1. q.next \in Nat
    BY CountFacts
  <2> QED BY <1>4, <2>1
<1>6. did' = [did EXCEPT ![o] = d]
  BY <1>3
<1> QED BY <1>2, <1>4, <1>5, <1>6, DirStep

(* opendir_cb *)
LEMMA OpendirCallback ==
    ASSUME IInv, NEW o \in Ops, NEW st \in States, opendir_cb(o, st)
    PROVE  IInv'
<1>1. op[o].kind = "opendir" /\ ServerDid(o, st) /\ fh' = fh
  BY DEF opendir_cb
<1>2. CASE EndDir(o, IF st = "ok" THEN "error" ELSE st)
  BY <1>1, <1>2, EndDirKeeps
<1>3. ASSUME NEW n \in 0..DirSize, st = "ok", Then(o, "QUERY_DIRECTORY"),
             dir' = [dir EXCEPT !.size = n]
      PROVE  IInv'
  <2>1. dir.state = "filling" /\ dir.owner = o /\ dir \in DirType /\ ListSound(dir)
    BY <1>1, FillerFacts
  <2>2. PICK x : x = [dir EXCEPT !.size = n]
    OBVIOUS
  <2>3. n \in Nat
    OBVIOUS
  <2>4. /\ x \in DirType /\ x.state = dir.state /\ x.owner = dir.owner /\ x.sent = dir.sent
        /\ x.entries = dir.entries
    BY <2>1, <2>2, <2>3 DEF DirType
  <2>5. ListSound(x)
    BY <2>1, <2>4 DEF ListSound
  <2>6. "QUERY_DIRECTORY" \in Commands /\ st \in {"ok", "nomore"} /\ dir' = x
    BY <1>3, <2>2 DEF Commands
  <2> QED BY <1>1, <1>3, <2>1, <2>4, <2>5, <2>6, ThenKeeps
<1> QED BY <1>2, <1>3 DEF opendir_cb

(* query_cb: the entries of a reply are added to the list. *)
LEMMA QueryCallback ==
    ASSUME IInv, NEW o \in Ops, NEW st \in States, query_cb(o, st)
    PROVE  IInv'
<1>1. op[o].kind = "opendir" /\ ServerDid(o, st) /\ fh' = fh
  BY DEF query_cb, Query
<1>2. "QUERY_DIRECTORY" \in Commands /\ "CLOSE" \in Commands
  BY DEF Commands
<1>3. dir.state = "filling" /\ dir.owner = o /\ dir \in DirType /\ ListSound(dir)
  BY <1>1, FillerFacts
<1>4. CASE EndDir(o, IF st = "ok" THEN "error" ELSE st)
  BY <1>1, <1>4, EndDirKeeps
<1>5. ASSUME NEW k \in 1..(dir.size - dir.sent), st = "ok", Then(o, "QUERY_DIRECTORY"),
             dir' = [dir EXCEPT !.entries = decode_dirents(k), !.sent = @ + k]
      PROVE  IInv'
  <2>1. PICK m, w : m = dir.sent + k /\ w = decode_dirents(k)
    OBVIOUS
  <2>2. PICK x : x = [dir EXCEPT !.entries = w, !.sent = m]
    OBVIOUS
  <2>3. dir.sent \in Nat /\ dir.size \in Nat /\ dir.entries \in Seq(Nat)
    BY <1>3 DEF DirType
  <2>4. k \in Nat /\ m \in Nat
    BY <2>1, <2>3
  <2>5. w \in Seq(Nat) /\ Len(w) = m /\ ToSet(w) = 1..m
    <3>1. PICK g : g = Reverse([i \in 1..k |-> dir.sent + i])
      OBVIOUS
    <3>2. g \in Seq(Nat) /\ Len(g) = k /\ Range(g) = (dir.sent + 1)..(dir.sent + k)
      BY <2>3, <2>4, <3>1, Reversed
    <3>3. w = g \o dir.entries
      BY <2>1, <3>1 DEF decode_dirents
    <3>4. Len(dir.entries) = dir.sent /\ ToSet(dir.entries) = 1..dir.sent
      BY <1>3 DEF ListSound
    <3>5. PICK n, e : n = dir.sent /\ e = dir.entries
      OBVIOUS
    <3>6. /\ n \in Nat /\ e \in Seq(Nat) /\ Len(e) = n /\ ToSet(e) = 1..n
          /\ Range(g) = (n + 1)..(n + k) /\ w = g \o e /\ m = n + k
      BY <2>1, <2>3, <3>2, <3>3, <3>4, <3>5
    <3> HIDE <3>1, <3>5
    <3>7. g \o e \in Seq(Nat) /\ Len(g \o e) = n + k /\ ToSet(g \o e) = 1..(n + k)
      BY <2>4, <3>2, <3>6, Decoded
    <3> QED BY <3>6, <3>7
  <2>6. dir' = x
    BY <1>5, <2>1, <2>2
  <2> HIDE <2>1
  <2>7. /\ x \in DirType /\ x.state = dir.state /\ x.owner = dir.owner /\ x.sent = m
        /\ x.entries = w
    BY <1>3, <2>2, <2>4, <2>5 DEF DirType
  <2>8. ListSound(x)
    BY <1>3, <2>5, <2>7 DEF ListSound
  <2>9. st \in {"ok", "nomore"}
    BY <1>5
  <2> QED BY <1>1, <1>2, <1>3, <1>5, <2>6, <2>7, <2>8, <2>9, ThenKeeps
<1>6. CASE /\ st = "nomore" /\ dir.sent = dir.size /\ Then(o, "CLOSE") /\ dir' = dir
  <2>1. PICK x : x = dir
    OBVIOUS
  <2>2. /\ x \in DirType /\ dir' = x /\ ListSound(x) /\ x.state = "filling" /\ x.owner = o
        /\ x.sent = x.size /\ st \in {"ok", "nomore"}
    BY <1>3, <1>6, <2>1
  <2> HIDE <2>1
  <2> QED BY <1>1, <1>2, <1>6, <2>2, ThenKeeps
<1> QED BY <1>4, <1>5, <1>6 DEF query_cb

(* od_close_cb: the directory has all entries when it is handed over.      *)
LEMMA CloseDirCallback ==
    ASSUME IInv, NEW o \in Ops, NEW st \in States, od_close_cb(o, st)
    PROVE  IInv'
<1>1. op[o].kind = "opendir" /\ ServerDid(o, st) /\ fh' = fh /\ op[o].next > 1 /\ ~Query(o)
  BY DEF od_close_cb
<1>2. /\ Open(op[o]) /\ op[o].next = Len(op[o].cmds)
      /\ dir.state = "filling" /\ dir.owner = o /\ dir \in DirType /\ ListSound(dir)
      /\ \A p \in Ops \ {o} : Open(op[p]) => op[p].kind # "opendir"
  BY <1>1, FillerFacts
<1>3. CASE st # "ok"
  BY <1>1, <1>3, EndDirKeeps DEF od_close_cb
<1>4. CASE st = "ok"
  <2>1. PICK d \in SUBSET Nat :
            did' = [did EXCEPT ![o] = d] /\ 1..(op[o].next - 1) \subseteq d /\ op[o].next \in d
    BY <1>1, <1>4, FillerFacts DEF Answered
  <2>2. op[o].cmds[op[o].next] # "QUERY_DIRECTORY"
    BY <1>1, <1>2 DEF Query, InFlight, Open
  <2>3. dir.sent = dir.size
    BY <1>1, <1>2, <2>2 DEF IInv, FillerSound
  <2>4. op[o].next \in Nat \ {0}
    BY OpFacts, CountFacts
  <2>5. Done(op[o], d)
    BY <1>2, <2>1, <2>4 DEF Done
  <2>6. PICK q : q = Reported(op[o], st)
    OBVIOUS
  <2>7. q \in OpType /\ ~Open(q) /\ Shaped(q) /\ Fits(q) /\ Carried(q, d)
    BY <1>2, <2>5, <2>6, ReportFacts, ZenonT(30)
  <2>8. PICK e : e = dir.entries
    OBVIOUS
  <2>9. PICK x : x = [dir EXCEPT !.state = "open", !.current = e, !.index = 0]
    OBVIOUS
  <2>10. op' = [op EXCEPT ![o] = q] /\ dir' = x
    BY <1>4, <2>6, <2>8, <2>9 DEF od_close_cb, Report
  <2>11. e \in Seq(Nat) /\ Len(e) = dir.sent /\ ToSet(e) = 1..dir.sent /\ dir.sent \in Nat
    BY <1>2, <2>8 DEF DirType, ListSound
  <2>12. SubSeq(e, 0 + 1, Len(e)) = e
    BY <2>11
  <2>13. /\ x \in DirType /\ x.entries = e /\ x.current = e /\ x.index = 0 /\ x.sent = dir.sent
         /\ x.size = dir.size
    BY <1>2, <2>8, <2>9, <2>11 DEF DirType
  <2>14. ListSound(x)
    <3>1. x.index \in 0..Len(x.entries)
      BY <2>11, <2>13
    <3> QED BY <2>3, <2>11, <2>12, <2>13, <3>1 DEF ListSound
  <2>15. did' = [did EXCEPT ![o] = d] /\ fh' = fh /\ x \in DirType
    BY <1>1, <2>1, <2>13
  <2> HIDE <2>6, <2>8, <2>9
  <2> QED BY <1>2, <2>7, <2>10, <2>14, <2>15, DirStep
<1> QED BY <1>3, <1>4

(* smb2_readdir, smb2_seekdir, smb2_rewinddir and smb2_closedir *)
LEMMA LookKeeps ==
    ASSUME IInv, \/ smb2_readdir \/ smb2_rewinddir \/ smb2_closedir
                 \/ \E loc \in Locations : smb2_seekdir(loc)
    PROVE  IInv'
<1>1. dir.state = "open" /\ UNCHANGED <<op, fh, did>>
  BY DEF smb2_readdir, smb2_rewinddir, smb2_closedir, smb2_seekdir
<1>2. dir \in DirType /\ ListSound(dir)
  BY DEF IInv, Types, DirSound
<1>3. PICK e, i : e = dir.entries /\ i = dir.index
  OBVIOUS
<1>4. /\ e \in Seq(Nat) /\ Len(e) \in Nat /\ i \in 0..Len(e) /\ dir.sent \in Nat
      /\ dir.current = SubSeq(e, i + 1, Len(e)) /\ Len(e) = dir.sent
      /\ ToSet(e) = 1..dir.sent /\ dir.sent = dir.size
  BY <1>1, <1>2, <1>3 DEF DirType, ListSound
<1>5. ASSUME NEW n \in 0..Len(e), NEW c, c = SubSeq(e, n + 1, Len(e)),
             dir' = [dir EXCEPT !.current = c, !.index = n]
      PROVE  IInv'
  <2>1. c \in Seq(Nat)
    <3>1. n + 1 \in Int /\ Len(e) \in Int /\ \A j \in (n + 1)..Len(e) : e[j] \in Nat
      BY <1>4
    <3> QED BY <1>5, <3>1, SubSeqProperties
  <2>2. n \in Nat
    BY <1>4
  <2>3. PICK x : x = [dir EXCEPT !.current = c, !.index = n]
    OBVIOUS
  <2>4. /\ x \in DirType /\ x.entries = e /\ x.current = c /\ x.index = n /\ x.sent = dir.sent
        /\ x.size = dir.size
    BY <1>2, <1>3, <2>1, <2>2, <2>3 DEF DirType
  <2>5. ListSound(x)
    BY <1>4, <1>5, <2>4 DEF ListSound
  <2>6. dir' = x
    BY <1>5, <2>3
  <2> QED BY <1>1, <2>4, <2>5, <2>6, LookStep
<1>6. CASE smb2_readdir
  <2>1. dir.current # <<>> /\ dir' = [dir EXCEPT !.current = Tail(dir.current), !.index = i + 1]
    BY <1>3, <1>6 DEF smb2_readdir
  <2>2. i < Len(e)
    <3>1. SubSeq(e, i + 1, Len(e)) # <<>>
      BY <1>4, <2>1
    <3>2. CASE i = Len(e)
      BY <1>4, <3>1, <3>2
    <3> QED BY <1>4, <3>2
  <2>3. Tail(SubSeq(e, i + 1, Len(e))) = SubSeq(e, (i + 1) + 1, Len(e))
    <3>1. i + 1 \in 1..Len(e) /\ Len(e) \in (i + 1)..Len(e)
      BY <1>4, <2>2
    <3> QED BY <1>4, <3>1, HeadTailOfSubSeq
  <2>4. i + 1 \in 0..Len(e)
    BY <1>4, <2>2
  <2> QED BY <1>4, <1>5, <2>1, <2>3, <2>4
<1>7. CASE smb2_rewinddir
  <2>1. e = SubSeq(e, 0 + 1, Len(e)) /\ 0 \in 0..Len(e)
    BY <1>4
  <2>2. dir' = [dir EXCEPT !.current = e, !.index = 0]
    BY <1>3, <1>7 DEF smb2_rewinddir
  <2> QED BY <1>5, <2>1, <2>2
<1>8. CASE smb2_closedir
  <2>1. PICK x : x = NoDir
    OBVIOUS
  <2>2. dir' = x
    BY <1>8, <2>1 DEF smb2_closedir
  <2>3. x \in DirType /\ x.state = "none" /\ x.sent = 0 /\ x.entries = <<>>
    BY <2>1, NoDirFacts
  <2>4. ListSound(x)
    BY <2>3, EmptyList DEF ListSound
  <2> QED BY <1>1, <2>2, <2>3, <2>4, LookStep
<1>9. ASSUME NEW loc \in Locations, smb2_seekdir(loc)
      PROVE  IInv'
  <2>1. PICK n : n = IF loc < 0 THEN Len(e) ELSE Min({loc, Len(e)})
    OBVIOUS
  <2>2. n \in 0..Len(e)
    <3>1. DirSize \in Nat
      BY FileOpsAssumption
    <3>0. loc \in Int
      BY <3>1 DEF Locations
    <3>2. CASE loc < 0
      BY <1>4, <2>1, <3>2
    <3>3. CASE ~(loc < 0)
      <4>1. loc \in Nat
        BY <3>0, <3>3
      <4>2. {loc, Len(e)} \in SUBSET Nat /\ {loc, Len(e)} # {} /\ n = Min({loc, Len(e)})
        BY <1>4, <2>1, <3>3, <4>1
      <4>3. n \in {loc, Len(e)} /\ n <= Len(e)
        BY <4>2, MinNat
      <4> QED BY <1>4, <4>2, <4>3
    <3> QED BY <3>2, <3>3
  <2>3. dir' = [dir EXCEPT !.current = SubSeq(e, n + 1, Len(e)), !.index = n]
    BY <1>3, <1>9, <2>1 DEF smb2_seekdir
  <2> QED BY <1>5, <2>2, <2>3
<1> QED BY <1>6, <1>7, <1>8, <1>9

-----------------------------------------------------------------------------
(* The invariant. *)

(* Nothing has been started. *)
LEMMA InitIInv == Init => IInv
<1> SUFFICES ASSUME Init PROVE IInv
  OBVIOUS
<1>1. op = [o \in Ops |-> NoOp] /\ fh = [h \in Handles |-> NoFh] /\ dir = NoDir
      /\ did = [o \in Ops |-> {}]
  BY DEF Init
<1>2. NoFh \in FhType
  BY DEF NoFh, FhType
<1>3. NoOp \in OpType /\ ~Open(NoOp) /\ Shaped(NoOp) /\ Fits(NoOp) /\ \A d : Carried(NoOp, d)
  BY NoOpFacts
<1>4. dir \in DirType /\ ListSound(dir)
  BY <1>1, NoDirFacts, EmptyList DEF ListSound
<1>5. Types
  BY <1>1, <1>2, <1>3, <1>4 DEF Types
<1>6. \A o \in Ops : op[o] = NoOp
  BY <1>1
<1>7. OpsSound /\ OpsFit /\ HandlesSound /\ FillerSound
  BY <1>3, <1>6 DEF OpsSound, OpsFit, HandlesSound, FillerSound
<1> QED BY <1>4, <1>5, <1>7 DEF IInv, DirSound

(* What a request may be called back with. *)
LEMMA StatusFacts ==
    ASSUME IInv, NEW o \in Ops, NEW st \in Statuses(o)
    PROVE  /\ st \in States
           /\ op[o].kind \in PairKinds \cup ErrorKinds => st \in Kept
<1>1. st \in States
  BY DEF Statuses, States
<1>2. ASSUME op[o].kind \in PairKinds \cup ErrorKinds
      PROVE  op[o].kind \notin {"pread", "pwrite", "opendir"}
  BY <1>2 DEF PairKinds, ErrorKinds
<1>3. op[o].kind \in PairKinds \cup ErrorKinds => st \in Kept
  BY <1>2 DEF Statuses, Query, Kept
<1> QED BY <1>1, <1>3

(* Every callback keeps it. *)
LEMMA CallbackKeeps ==
    ASSUME IInv, NEW o \in Ops, NEW st \in Statuses(o), Callback(o, st)
    PROVE  IInv'
<1>1. st \in States /\ (op[o].kind \in PairKinds \cup ErrorKinds => st \in Kept)
  BY StatusFacts
<1>2. CASE create_cb(o, st)
  <2>1. st \in Kept
    BY <1>1, <1>2 DEF create_cb, PairKinds
  <2> QED BY <1>2, <2>1, PairCallbacks
<1>3. CASE getinfo_cb(o, st) \/ trunc_cb(o, st) \/ rename_cb(o, st) \/ readlink_cb(o, st)
  <2>1. st \in Kept
    BY <1>1, <1>3 DEF getinfo_cb, trunc_cb, rename_cb, readlink_cb, ErrorKinds
  <2> QED BY <1>3, <2>1, ErrorCallbacks
<1>4. CASE ftrunc_cb(o, st) \/ fstat_cb(o, st)
  BY <1>1, <1>4, PlainCallbacks
<1>5. CASE fsync_cb(o, st) \/ close_cb(o, st) \/ open_cb(o, st)
  BY <1>1, <1>5, OwnerCallbacks
<1>6. CASE read_cb(o, st)
  BY <1>1, <1>6, ReadCallback
<1>7. CASE notify_change_cb(o, st)
  BY <1>1, <1>7, NotifyCallback
<1>8. CASE opendir_cb(o, st)
  BY <1>1, <1>8, OpendirCallback
<1>9. CASE query_cb(o, st)
  BY <1>1, <1>9, QueryCallback
<1>10. CASE od_close_cb(o, st)
  BY <1>1, <1>10, CloseDirCallback
<1> QED BY <1>2, <1>3, <1>4, <1>5, <1>6, <1>7, <1>8, <1>9, <1>10 DEF Callback

(* Every step keeps it. *)
LEMMA NextIInv == IInv /\ [Next]_vars => IInv'
<1> SUFFICES ASSUME IInv, [Next]_vars PROVE IInv'
  OBVIOUS
<1>1. ASSUME NEW o \in Ops, Call(o) PROVE IInv'
  <2>1. CASE smb2_opendir_async(o)
    BY <2>1, OpendirKeeps
  <2>2. CASE ~smb2_opendir_async(o)
    BY <1>1, <2>2, CallKeeps
  <2> QED BY <2>1, <2>2
<1>2. ASSUME NEW o \in Ops, NEW h \in Handles, CallOn(o, h) PROVE IInv'
  BY <1>2, CallOnKeeps
<1>3. ASSUME NEW o \in Ops, NEW st \in Statuses(o), Callback(o, st) PROVE IInv'
  BY <1>3, CallbackKeeps
<1>4. ASSUME NEW o \in Ops, AbortUnsent(o) PROVE IInv'
  BY <1>4, AbortKeeps
<1>5. ASSUME NEW o \in Ops, Forget(o) PROVE IInv'
  BY <1>5, ForgetKeeps
<1>6. ASSUME NEW h \in Handles, NEW seek \in Seeks, smb2_lseek(h, seek[1], seek[2]) PROVE IInv'
  <2>1. seek[1] \in {"SEEK_SET", "SEEK_CUR", "SEEK_END"} /\ seek[2] \in Int
    BY DEF Seeks
  <2> QED BY <1>6, <2>1, SeekKeeps
<1>7. CASE \/ smb2_readdir \/ smb2_rewinddir \/ smb2_closedir
           \/ \E loc \in Locations : smb2_seekdir(loc)
  BY <1>7, LookKeeps
<1>8. CASE UNCHANGED vars
  BY <1>8 DEF vars, IInv, Types, OpsSound, OpsFit, HandlesSound, FillerSound, DirSound
<1> QED BY <1>1, <1>2, <1>3, <1>4, <1>5, <1>6, <1>7, <1>8 DEF Next

-----------------------------------------------------------------------------
(* The theorems. *)

(* The invariant of the file operations: every operation has the requests  *)
(* of its kind, a handle and the directory belong to whoever is in flight  *)
(* on them, and what an operation remembers of its requests is true.       *)
THEOREM FileOpsInvariant == Spec => []IInv
<1>1. Init => IInv
  BY InitIInv
<1>2. IInv /\ [Next]_vars => IInv'
  BY NextIInv
<1> QED BY <1>1, <1>2, PTL DEF Spec

(* No request in flight refers to memory that is gone, and the callback of *)
(* an operation is called at most once.                                    *)
THEOREM FileMemoryHeld == Spec => []MemoryHeld
<1>1. IInv => MemoryHeld
  <2> SUFFICES ASSUME IInv, NEW o \in Ops
               PROVE  /\ op[o].calls <= 1 /\ op[o].fault # "freed handle"
                      /\ InFlight(o) =>
                            /\ op[o].block # "freed" /\ op[o].calls = 0
                            /\ op[o].h # NULL => fh[op[o].h].state \in {"opening", "open"}
                            /\ op[o].kind = "opendir" => dir.state = "filling" /\ dir.owner = o
    BY DEF MemoryHeld
  <2>1. InFlight(o) = Open(op[o])
    BY DEF InFlight, Open
  <2>2. Shaped(op[o])
    BY OpFacts
  <2>3. Open(op[o]) /\ op[o].h # NULL => fh[op[o].h].state \in {"opening", "open"}
    BY DEF IInv, HandlesSound
  <2>4. Open(op[o]) /\ op[o].kind = "opendir" => dir.state = "filling" /\ dir.owner = o
    BY DEF IInv, FillerSound
  <2> QED BY <2>1, <2>2, <2>3, <2>4 DEF Shaped
<1> QED BY <1>1, FileOpsInvariant, PTL

(* An operation that reports success has been carried out by the server,   *)
(* every request of it but the CLOSE of a readlink, unless it has refused  *)
(* one with END_OF_FILE.                                                   *)
THEOREM FileSuccessIsTrue == Spec => []SuccessIsTrue
<1>1. IInv => SuccessIsTrue
  BY OpFacts DEF SuccessIsTrue, Carried, Done
<1> QED BY <1>1, FileOpsInvariant, PTL

(* A READ or WRITE of at least one byte asks for no more than the caller   *)
(* wants, than the server takes and than there are credits for.            *)
THEOREM FileTransferFits == Spec => []TransferFits
<1>1. IInv => TransferFits
  BY DEF IInv, OpsFit, Fits, TransferFits
<1> QED BY <1>1, FileOpsInvariant, PTL

(* A directory handed to the application lists every entry once, and its   *)
(* cursor is where smb2_telldir says.                                      *)
THEOREM FileListingWhole == Spec => []ListingWhole
<1>1. IInv => ListingWhole
  BY DEF IInv, DirSound, ListSound, ListingWhole
<1> QED BY <1>1, FileOpsInvariant, PTL
=============================================================================
