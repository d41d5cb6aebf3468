--------------------------- MODULE SessionProofs ---------------------------
(***************************************************************************)
(* Proofs about session establishment, for any number of operations,       *)
(* connections, trees and rounds of authentication: every operation ends   *)
(* once, keys are derived from the messages of their own connection and    *)
(* sign only there, replies find their requests, and the stack of tree ids *)
(* holds connected trees.                                                  *)
(***************************************************************************)
EXTENDS Session, SeqLemmas

(* The commands of a connect and of a disconnect, and the raw ones.        *)
ConnectCmds == {"NEGOTIATE", "SESSION_SETUP", "TREE_CONNECT"}
DisconnectCmds == {"TREE_DISCONNECT", "LOGOFF"}
RawCmds == {"ECHO", "TREE_CONNECT", "TREE_DISCONNECT"}

(* Operations start in order, one at a time; what is under way is the last *)
(* one started, and is what smb2->connect_data points to if anything is.   *)
OpSound(o) ==
    /\ kind[o] = "none" => data[o] = "none" /\ \A p \in (o + 1)..MaxOps : kind[p] = "none"
    /\ Len(reports[o]) = IF data[o] = "freed" THEN 1 ELSE 0
    /\ data[o] = "live" => \A p \in (o + 1)..MaxOps : kind[p] = "none"

ConnectSound ==
    /\ connect_data # NoOp => data[connect_data] = "live"
    /\ connect_cb => connect_data # NoOp /\ kind[connect_data] = "connect"

(* The request e of an operation is of the right kind, and the operation   *)
(* is under way.                                                           *)
RequestSound(e) ==
    IF e.owner = NoOp THEN e.cmd \in RawCmds
    ELSE /\ data[e.owner] = "live" /\ ~connect_cb
         /\ \/ e.cmd \in ConnectCmds /\ kind[e.owner] = "connect"
            \/ e.cmd \in DisconnectCmds /\ kind[e.owner] = "disconnect"

CarrierSound ==
    /\ \A i, j \in DOMAIN waitqueue :
           waitqueue[i].owner # NoOp /\ waitqueue[j].owner # NoOp => i = j
    /\ \A o \in Ops : data[o] = "live" =>
           \/ connect_cb /\ connect_data = o
           \/ \E i \in DOMAIN waitqueue : waitqueue[i].owner = o

OpsInv ==
    /\ misused = {}
    /\ \A o \in Ops : OpSound(o)
    /\ \A o, p \in Ops : data[o] = "live" /\ data[p] = "live" => o = p
    /\ ConnectSound
    /\ \A i \in DOMAIN waitqueue : RequestSound(waitqueue[i])
    /\ CarrierSound
    /\ ctx = "destroyed" => waitqueue = <<>> /\ ~connect_cb

(* Until message ids start anew with requests waiting, no two are alike.   *)
MidsInv ==
    /\ mixup => leftover
    /\ ~leftover =>
           /\ \A i \in DOMAIN waitqueue : waitqueue[i].mid < message_id
           /\ \A i, j \in DOMAIN waitqueue : waitqueue[i].mid = waitqueue[j].mid => i = j

(* While a connection is being set up the two sides have hashed the same   *)
(* messages, and no key has been derived in it.                            *)
Handshake(e) == e.cmd \in {"NEGOTIATE", "SESSION_SETUP"}

KeysInv ==
    /\ sec.signing_key.conn <= conn /\ sec.session_key <= conn
    /\ KeysAgree
    /\ \A i \in DOMAIN waitqueue :
           Handshake(waitqueue[i]) /\ waitqueue[i].conn = conn =>
               /\ preauth = transcript
               /\ sec.signing_key = NoKey \/ sec.signing_key.conn # conn

(* The context would sign with a key of this connection, or not at all, or *)
(* it signs TREE_CONNECT only and this is one of the connections k without *)
(* a session key.                                                          *)
OwnKeyOr(s, k) ==
    s.signing_key.conn = conn \/ (~s.sign /\ (s.dialect # 311 \/ conn \in k))
OwnKey(s) == OwnKeyOr(s, keyless)
SignedOr(e, k) ==
    \/ e.key = Unsigned \/ e.key = e.conn
    \/ e.cmd = "TREE_CONNECT" /\ e.conn \in k

(* The last connect that was accepted has succeeded.                       *)
LastOk ==
    \E o \in Ops :
        /\ kind[o] = "connect" /\ reports[o] = <<"ok">>
        /\ \A p \in (o + 1)..MaxOps : kind[p] = "connect" => data[p] = "refused"

SignInv ==
    /\ SignedWithOwn
    /\ LastOk /\ link = "up" => OwnKey(sec)
    /\ \A i \in DOMAIN waitqueue :
           waitqueue[i].owner # NoOp /\ ~Handshake(waitqueue[i]) /\ waitqueue[i].conn = conn
               => OwnKey(sec)

AllInv == TypeOK /\ OpsInv /\ MidsInv /\ KeysInv /\ SignInv /\ TreesConnected

-----------------------------------------------------------------------------
(* Types. *)

Messages == {"request", "reply"} \X Nat
Cmds == ConnectCmds \cup DisconnectCmds \cup RawCmds
Owners == Ops \cup {NoOp}
SecType == [dialect : Dialects \cup {0}, sign : BOOLEAN, seal : BOOLEAN,
            session_id : Nat, session_key : Nat, signing_key : Keys]

(* Numbers of operations are not the null pointer.                         *)
LEMMA OpFacts ==
    /\ NoOp \notin Ops /\ NoOp \in Owners /\ Ops \subseteq Owners
    /\ \A o \in Owners : o \in Int /\ (o # NoOp => o \in Ops)
    /\ \A o \in Ops : o \in Nat /\ o >= 1 /\ o <= MaxOps
    /\ MaxOps \in Nat
  BY SessionAssumption DEF Ops, NoOp, Owners

(* A request as smb2_allocate_pdu and smb2_queue_pdu make it.              *)
LEMMA RequestType ==
    ASSUME TypeOK, NEW cmd \in Cmds, NEW o \in Owners, NEW s \in SecType, NEW n \in Nat
    PROVE  /\ Request(cmd, o, s, n) \in Requests
           /\ Request(cmd, o, s, n).cmd = cmd /\ Request(cmd, o, s, n).owner = o
           /\ Request(cmd, o, s, n).mid = message_id /\ Request(cmd, o, s, n).conn = n
           /\ Request(cmd, o, s, n).key = SigningConn(cmd, s)
<1>1. SigningConn(cmd, s) \in Nat \cup {Unsigned}
  BY DEF SigningConn, SecType, Keys
<1>2. CurrentTree \in TreeIds \cup {NoTree}
  BY DEF TypeOK, CurrentTree
<1>3. message_id \in Nat
  BY DEF TypeOK
<1> QED BY <1>1, <1>2, <1>3
       DEF Request, Requests, Cmds, Owners, ConnectCmds, DisconnectCmds, RawCmds

(* The types of what the callback of an operation changes.                 *)
LEMMA ReportType ==
    ASSUME TypeOK, NEW o \in Owners, NEW st \in {"ok", "error"}, NEW r \in Owners,
           Report(o, st, r)
    PROVE  /\ kind' \in [Ops -> {"none", "connect", "disconnect"}]
           /\ data' \in [Ops -> {"none", "live", "freed", "refused"}]
           /\ reports' \in [Ops -> Seq({"ok", "error"})]
           /\ misused' \subseteq Ops \cup {NoOp}
           /\ connect_data' \in Ops \cup {NoOp}
<1>1. kind' \in [Ops -> {"none", "connect", "disconnect"}]
  BY DEF TypeOK, Report
<1>2. data' \in [Ops -> {"none", "live", "freed", "refused"}]
  BY DEF TypeOK, Report
<1>3. reports' \in [Ops -> Seq({"ok", "error"})]
  <2>1. \A x \in Ops : Append(reports[x], st) \in Seq({"ok", "error"})
    BY AppendProperties DEF TypeOK
  <2> QED BY <2>1 DEF TypeOK, Report
<1>4. misused' \subseteq Ops \cup {NoOp} /\ connect_data' \in Ops \cup {NoOp}
  BY DEF TypeOK, Report, FreeCData, Owners
<1> QED BY <1>1, <1>2, <1>3, <1>4

(* What is left of the queue without the request that was answered.        *)
LEMMA RestType ==
    ASSUME TypeOK, NEW i \in DOMAIN waitqueue
    PROVE  /\ Rest(i) \in Seq(Requests) /\ waitqueue[i] \in Requests
           /\ waitqueue[i].owner \in Owners /\ waitqueue[i].mid \in Nat
           /\ waitqueue[i].conn \in Nat /\ waitqueue[i].cmd \in Cmds
           /\ waitqueue[i].tree \in TreeIds \cup {NoTree}
<1>1. waitqueue \in Seq(Requests)
  BY DEF TypeOK
<1>2. Rest(i) \in Seq(Requests)
  BY <1>1, RemoveAtIndex DEF Rest
<1>3. waitqueue[i] \in Requests
  BY <1>1
<1> QED BY <1>2, <1>3
       DEF Requests, Cmds, Owners, ConnectCmds, DisconnectCmds, RawCmds

(* The types of the security state the callbacks pass on.                  *)
LEMMA SecTypes ==
    ASSUME TypeOK
    PROVE  /\ sec \in SecType /\ NoKey \in Keys
           /\ \A s \in SecType : Forgotten(s) \in SecType
           /\ \A rep \in NegotiateReplies :
                  /\ Negotiated(rep) \in SecType
                  /\ [sec EXCEPT !.dialect = rep.dialect] \in SecType
           /\ [sec EXCEPT !.session_id = conn] \in SecType
           /\ \A b \in BOOLEAN : [sec EXCEPT !.seal = @ \/ b] \in SecType
           /\ \A s \in SecType : SigningKey(s) \in Keys
<1>1. sec \in SecType /\ conn \in Nat /\ preauth \in Seq(Messages)
  BY DEF TypeOK, SecType, Messages
<1>2. NoKey \in Keys
  BY DEF NoKey, Keys
<1>3. \A s \in SecType : Forgotten(s) \in SecType
  BY <1>2 DEF Forgotten, SecType
<1>4. ASSUME NEW rep \in NegotiateReplies
      PROVE  Negotiated(rep) \in SecType /\ [sec EXCEPT !.dialect = rep.dialect] \in SecType
  <2>1. rep.dialect \in Dialects
    BY DEF NegotiateReplies
  <2>2. ((sec.sign \/ rep.signing = "required") /\ ~sec.seal) \in BOOLEAN
    OBVIOUS
  <2> QED BY <1>1, <2>1, <2>2 DEF Negotiated, SecType
<1>5. [sec EXCEPT !.session_id = conn] \in SecType
  BY <1>1 DEF SecType
<1>6. \A b \in BOOLEAN : [sec EXCEPT !.seal = @ \/ b] \in SecType
  BY <1>1 DEF SecType
<1>7. \A s \in SecType : SigningKey(s) \in Keys
  BY <1>1 DEF SigningKey, SecType, Keys, Messages
<1> QED BY <1>1, <1>2, <1>3, <1>4, <1>5, <1>6, <1>7

(* The security state session_setup_cb leaves. *)
Granted(encrypt) ==
    [sec EXCEPT !.session_id = conn, !.seal = @ \/ encrypt, !.sign = @ /\ ~encrypt]
Needed(s) == s.sign \/ s.seal \/ s.dialect = 311
Had(s, key) == [s EXCEPT !.session_key = IF key = "none" THEN @ ELSE conn]
Keyed(s, key) ==
    IF Needed(s)
    THEN [Had(s, key) EXCEPT !.signing_key = SigningKey(Had(s, key))]
    ELSE s
KeySorts == {"valid", "zero", "none"}
Refused(s, key) == s.sign /\ key # "valid"

(* Its type, whatever the server ordered.                                  *)
LEMMA KeyedType ==
    ASSUME TypeOK, NEW encrypt \in BOOLEAN, NEW key \in KeySorts
    PROVE  Granted(encrypt) \in SecType /\ Keyed(Granted(encrypt), key) \in SecType
<1>1. sec \in SecType /\ conn \in Nat /\ \A s \in SecType : SigningKey(s) \in Keys
  BY SecTypes DEF TypeOK
<1>2. Granted(encrypt) \in SecType
  BY <1>1 DEF Granted, SecType
<1>3. ASSUME NEW s \in SecType PROVE Keyed(s, key) \in SecType
  <2>1. Had(s, key) \in SecType
    BY <1>1 DEF Had, SecType
  <2>2. SigningKey(Had(s, key)) \in Keys
    BY <1>1, <2>1
  <2> QED BY <2>1, <2>2 DEF Keyed, SecType
<1> QED BY <1>2, <1>3

(* One more message in the hash of a connection.                           *)
LEMMA HashType ==
    ASSUME NEW h \in Seq(Messages), NEW m \in Nat, NEW n \in Nat
    PROVE  /\ h \o <<Received(m)>> \in Seq(Messages)
           /\ h \o <<Received(m)>> \o <<Sent(n)>> \in Seq(Messages)
           /\ Append(h, Sent(n)) \in Seq(Messages)
           /\ <<>> \in Seq(Messages) /\ <<Sent(n)>> \in Seq(Messages)
           /\ Append(<<>>, Sent(n)) = <<Sent(n)>>
<1>1. Received(m) \in Messages /\ Sent(n) \in Messages
  BY DEF Received, Sent, Messages
<1>2. <<Received(m)>> \in Seq(Messages) /\ <<Sent(n)>> \in Seq(Messages)
  BY <1>1
<1>3. h \o <<Received(m)>> \in Seq(Messages)
  BY <1>2, ConcatProperties
<1>4. h \o <<Received(m)>> \o <<Sent(n)>> \in Seq(Messages)
  BY <1>2, <1>3, ConcatProperties
<1>5. Append(h, Sent(n)) \in Seq(Messages) /\ Append(<<>>, Sent(n)) = <<Sent(n)>>
  BY <1>1, AppendProperties
<1> QED BY <1>2, <1>3, <1>4, <1>5

-----------------------------------------------------------------------------
(* Operations. *)

(* The callback of the operation that is under way is called.              *)
LEMMA ReportOps ==
    ASSUME TypeOK, OpsInv, NEW o \in Ops, data[o] = "live",
           NEW st \in {"ok", "error"}, NEW r \in Owners, Report(o, st, r)
    PROVE  /\ misused' = {}
           /\ \A x \in Ops : OpSound(x)'
           /\ \A x \in Ops : data'[x] = "live" <=> (x = r /\ r # NoOp)
           /\ connect_data' = r
           /\ r # NoOp => kind'[r] = "connect"
           /\ \A x \in Ops : kind[x] # "none" => kind'[x] = kind[x]
           /\ reports'[o] = <<st>> /\ data'[o] = "freed" /\ kind'[o] = kind[o]
           /\ \A x \in Ops : x # o => reports'[x] = reports[x]
           /\ \A x \in Ops : x # o /\ x # r => data'[x] = data[x]
<1>1. /\ \A x \in Ops : OpSound(x) /\ kind[x] \in {"none", "connect", "disconnect"}
      /\ \A x \in Ops : reports[x] \in Seq({"ok", "error"})
      /\ \A x \in Ops : data[x] = "live" => x = o
      /\ misused = {}
  BY DEF OpsInv, TypeOK
<1>2. /\ \A x \in Ops : kind'[x] = IF x = r THEN "connect" ELSE kind[x]
      /\ \A x \in Ops : data'[x] = IF x = o THEN "freed"
                                   ELSE IF x = r THEN "live" ELSE data[x]
      /\ \A x \in Ops : reports'[x] = IF x = o THEN Append(reports[x], st) ELSE reports[x]
      /\ misused' = IF o \in Live THEN misused ELSE misused \cup {o}
      /\ r # NoOp => IsNext(r)
  BY DEF Report
<1>3. misused' = {}
  BY <1>1, <1>2 DEF Live
<1>4. kind[o] # "none" /\ (r # NoOp => r \in Ops /\ r # o /\ kind[r] = "none" /\ data[r] = "none")
  BY <1>1, <1>2, OpFacts DEF OpSound, IsNext
<1>5. Len(reports[o]) = 0 /\ reports[o] = <<>> /\ reports'[o] = <<st>> /\ Len(<<st>>) = 1
  <2>1. Len(reports[o]) = 0
    BY <1>1 DEF OpSound
  <2>2. reports[o] = <<>>
    BY <1>1, <2>1, SeqElements
  <2>3. reports'[o] = Append(<<>>, st)
    BY <1>2, <2>2
  <2> QED BY <2>1, <2>2, <2>3
<1>6. connect_data' = r
  <2>1. connect_data' = FreeCData(IF r # NoOp THEN r ELSE connect_data, o)
    BY DEF Report
  <2>2. connect_data = NoOp \/ connect_data = o
    BY <1>1, OpFacts DEF OpsInv, ConnectSound, TypeOK
  <2>3. o # NoOp
    BY OpFacts
  <2> QED BY <1>4, <2>1, <2>2, <2>3 DEF FreeCData
<1>7. ASSUME NEW x \in Ops
      PROVE  OpSound(x)'
  <2>1. OpSound(x) /\ x \in Int
    BY <1>1, OpFacts
  <2>2. r # NoOp => \A p \in 1..(r - 1) : kind[p] # "none"
    BY <1>2 DEF IsNext
  <2>3. \A p \in (x + 1)..MaxOps : p \in Ops
    BY OpFacts DEF Ops
  <2>4. kind'[x] = "none" => data'[x] = "none" /\ \A p \in (x + 1)..MaxOps : kind'[p] = "none"
    <3> SUFFICES ASSUME kind'[x] = "none"
                 PROVE  data'[x] = "none" /\ \A p \in (x + 1)..MaxOps : kind'[p] = "none"
      OBVIOUS
    <3>1. x # r /\ kind[x] = "none" /\ x # o
      BY <1>2, <1>4
    <3>2. data'[x] = "none"
      BY <1>2, <2>1, <3>1 DEF OpSound
    <3>3. \A p \in (x + 1)..MaxOps : p # r
      <4> SUFFICES ASSUME NEW p \in (x + 1)..MaxOps, p = r PROVE FALSE
        OBVIOUS
      <4>1. r \in Ops /\ r # NoOp /\ x \in 1..(r - 1)
        BY <2>3, OpFacts
      <4> QED BY <2>2, <3>1, <4>1
    <3> QED BY <1>2, <2>1, <2>3, <3>1, <3>2, <3>3 DEF OpSound
  <2>5. Len(reports'[x]) = IF data'[x] = "freed" THEN 1 ELSE 0
    <3>1. CASE x = o
      <4>1. data'[x] = "freed"
        BY <1>2, <3>1
      <4>2. reports'[x] = <<st>>
        BY <1>5, <3>1
      <4> QED BY <1>5, <4>1, <4>2
    <3>2. CASE x # o
      BY <1>2, <1>4, <2>1, <3>2, OpFacts DEF OpSound
    <3> QED BY <3>1, <3>2
  <2>6. data'[x] = "live" => \A p \in (x + 1)..MaxOps : kind'[p] = "none"
    <3> SUFFICES ASSUME data'[x] = "live", NEW p \in (x + 1)..MaxOps
                 PROVE  kind'[p] = "none"
      OBVIOUS
    <3>1. x = r
      BY <1>1, <1>2
    <3>2. kind[p] = "none" /\ p # r
      BY <1>1, <1>4, <2>1, <3>1, OpFacts DEF OpSound
    <3> QED BY <1>2, <2>3, <3>2
  <2> QED BY <2>4, <2>5, <2>6 DEF OpSound
<1>8. \A x \in Ops : data'[x] = "live" <=> (x = r /\ r # NoOp)
  BY <1>1, <1>2, <1>4, OpFacts
<1>9. /\ r # NoOp => kind'[r] = "connect"
      /\ \A x \in Ops : kind[x] # "none" => kind'[x] = kind[x]
      /\ data'[o] = "freed" /\ kind'[o] = kind[o]
      /\ \A x \in Ops : x # o => reports'[x] = reports[x]
      /\ \A x \in Ops : x # o /\ x # r => data'[x] = data[x]
  BY <1>2, <1>4, OpFacts
<1> QED BY <1>3, <1>5, <1>6, <1>7, <1>8, <1>9

(* The other requests, when the one that carries the operation is gone.    *)
LEMMA OthersRaw ==
    ASSUME TypeOK, OpsInv, NEW i \in DOMAIN waitqueue, waitqueue[i].owner # NoOp
    PROVE  /\ waitqueue[i].owner \in Ops /\ data[waitqueue[i].owner] = "live"
           /\ ~connect_cb /\ ctx # "destroyed"
           /\ \A j \in DOMAIN Rest(i) :
                  /\ Rest(i)[j].owner = NoOp /\ Rest(i)[j].cmd \in RawCmds
<1>1. RequestSound(waitqueue[i]) /\ waitqueue \in Seq(Requests)
  BY DEF OpsInv, TypeOK
<1>2. waitqueue[i].owner \in Ops
  BY RestType, OpFacts
<1>3. waitqueue # <<>>
  <2>1. DOMAIN waitqueue = 1..Len(waitqueue) /\ Len(waitqueue) \in Nat
    BY <1>1, SeqElements
  <2> QED BY <2>1
<1>4. ctx # "destroyed"
  BY <1>3 DEF OpsInv
<1>5. ASSUME NEW j \in DOMAIN Rest(i)
      PROVE  Rest(i)[j].owner = NoOp /\ Rest(i)[j].cmd \in RawCmds
  <2>1. PICK k \in DOMAIN waitqueue : k # i /\ Rest(i)[j] = waitqueue[k]
    <3>1. LeavesOut(Rest(i), waitqueue, i)
      BY <1>1, RemoveAtIndex DEF Rest
    <3> QED BY <3>1 DEF LeavesOut
  <2>2. waitqueue[k].owner = NoOp
    BY <2>1 DEF OpsInv, CarrierSound
  <2>3. RequestSound(waitqueue[k])
    BY DEF OpsInv
  <2> QED BY <2>1, <2>2, <2>3 DEF RequestSound
<1> QED BY <1>1, <1>2, <1>4, <1>5 DEF RequestSound

(* An operation is reported by the request that carries it; r is the       *)
(* connect its callback starts, if any.                                    *)
LEMMA ReportKeeps ==
    ASSUME TypeOK, OpsInv, NEW i \in DOMAIN waitqueue, waitqueue[i].owner # NoOp,
           NEW st \in {"ok", "error"}, NEW r \in Owners,
           Report(waitqueue[i].owner, st, r),
           waitqueue' = Rest(i), connect_cb' = (r # NoOp), ctx' \in {ctx, "failed"}
    PROVE  OpsInv'
<1> DEFINE o == waitqueue[i].owner
<1>1. /\ o \in Ops /\ data[o] = "live" /\ ctx # "destroyed"
      /\ \A j \in DOMAIN waitqueue' : /\ waitqueue'[j].owner = NoOp
                                     /\ waitqueue'[j].cmd \in RawCmds
  BY OthersRaw
<1>2. /\ misused' = {}
      /\ \A x \in Ops : OpSound(x)'
      /\ \A x \in Ops : data'[x] = "live" <=> (x = r /\ r # NoOp)
      /\ connect_data' = r
      /\ r # NoOp => kind'[r] = "connect"
  BY <1>1, ReportOps
<1> HIDE DEF o
<1>3. ConnectSound'
  BY <1>2, OpFacts DEF ConnectSound
<1>4. \A j \in DOMAIN waitqueue' : RequestSound(waitqueue[j])'
  BY <1>1 DEF RequestSound
<1>5. CarrierSound'
  BY <1>1, <1>2 DEF CarrierSound
<1>6. ctx' # "destroyed"
  BY <1>1
<1> QED BY <1>2, <1>3, <1>4, <1>5, <1>6 DEF OpsInv

(* The request that carries an operation is answered by the next one.      *)
LEMMA ChainKeeps ==
    ASSUME TypeOK, OpsInv, NEW i \in DOMAIN waitqueue, waitqueue[i].owner # NoOp,
           NEW e \in Requests, e.owner = waitqueue[i].owner,
           \/ e.cmd \in ConnectCmds /\ waitqueue[i].cmd \in ConnectCmds
           \/ e.cmd \in DisconnectCmds /\ waitqueue[i].cmd \in DisconnectCmds,
           waitqueue' = Append(Rest(i), e),
           UNCHANGED <<opVars, linkVars, ctx>>
    PROVE  OpsInv'
<1> DEFINE o == waitqueue[i].owner
           q == Rest(i)
<1>1. /\ o \in Ops /\ data[o] = "live" /\ ctx # "destroyed" /\ ~connect_cb
      /\ \A j \in DOMAIN q : q[j].owner = NoOp /\ q[j].cmd \in RawCmds
  BY OthersRaw
<1>2. q \in Seq(Requests) /\ RequestSound(waitqueue[i])
  BY RestType DEF OpsInv
<1>3. UNCHANGED <<kind, data, reports, misused, connect_data, connect_cb, ctx>>
  BY DEF opVars, linkVars
<1>4. /\ \A j \in DOMAIN waitqueue' :
             \/ j \in DOMAIN q /\ waitqueue'[j] = q[j]
             \/ j = Len(q) + 1 /\ waitqueue'[j] = e
      /\ Len(q) + 1 \in DOMAIN waitqueue' /\ waitqueue'[Len(q) + 1] = e
  BY <1>2, AppendIndex
<1>5. RequestSound(e)'
  <2>1. RequestSound(e)
    BY <1>2, <1>1 DEF RequestSound, ConnectCmds, DisconnectCmds
  <2> QED BY <1>3, <2>1 DEF RequestSound
<1> HIDE DEF q
<1>6. \A j \in DOMAIN waitqueue' : RequestSound(waitqueue[j])'
  <2> SUFFICES ASSUME NEW j \in DOMAIN waitqueue' PROVE RequestSound(waitqueue[j])'
    OBVIOUS
  <2>1. CASE j \in DOMAIN q /\ waitqueue'[j] = q[j]
    BY <1>1, <2>1 DEF RequestSound
  <2>2. CASE waitqueue'[j] = e
    BY <1>5, <2>2 DEF RequestSound
  <2> QED BY <1>4, <2>1, <2>2
<1>7. CarrierSound'
  <2>1. \A j \in DOMAIN waitqueue' : waitqueue'[j].owner # NoOp => j = Len(q) + 1
    BY <1>1, <1>4
  <2>2. \A x \in Ops : data'[x] = "live" => x = o
    BY <1>1, <1>3 DEF OpsInv
  <2>3. waitqueue'[Len(q) + 1].owner = o
    BY <1>4
  <2> QED BY <1>4, <2>1, <2>2, <2>3 DEF CarrierSound
<1>8. \A x \in Ops : OpSound(x)'
  BY <1>3 DEF OpsInv, OpSound
<1>9. ConnectSound'
  BY <1>3 DEF OpsInv, ConnectSound
<1> QED BY <1>1, <1>3, <1>6, <1>7, <1>8, <1>9 DEF OpsInv

(* A request of no operation leaves the queue, or nothing does.            *)
LEMMA RawGoneKeeps ==
    ASSUME TypeOK, OpsInv,
           \/ waitqueue' = waitqueue
           \/ \E i \in DOMAIN waitqueue : waitqueue[i].owner = NoOp /\ waitqueue' = Rest(i),
           UNCHANGED <<kind, data, reports, misused, connect_data, connect_cb>>,
           ctx' = ctx \/ (ctx' = "failed" /\ ctx # "destroyed")
    PROVE  OpsInv'
<1>1. PICK f \in [DOMAIN waitqueue' -> DOMAIN waitqueue] :
          /\ \A j \in DOMAIN waitqueue' : waitqueue'[j] = waitqueue[f[j]]
          /\ \A j, k \in DOMAIN waitqueue' : f[j] = f[k] => j = k
          /\ \A k \in DOMAIN waitqueue : waitqueue[k].owner # NoOp =>
                 \E j \in DOMAIN waitqueue' : f[j] = k
  <2>1. CASE waitqueue' = waitqueue
    <3> DEFINE g == [j \in DOMAIN waitqueue |-> j]
    <3>1. g \in [DOMAIN waitqueue' -> DOMAIN waitqueue]
      BY <2>1
    <3>2. \A j \in DOMAIN waitqueue : g[j] = j
      OBVIOUS
    <3> HIDE DEF g
    <3>3. /\ \A j \in DOMAIN waitqueue' : waitqueue'[j] = waitqueue[g[j]]
          /\ \A j, k \in DOMAIN waitqueue' : g[j] = g[k] => j = k
          /\ \A k \in DOMAIN waitqueue : waitqueue[k].owner # NoOp =>
                 \E j \in DOMAIN waitqueue' : g[j] = k
      BY <2>1, <3>2
    <3> QED BY <3>1, <3>3
  <2>2. CASE \E i \in DOMAIN waitqueue : waitqueue[i].owner = NoOp /\ waitqueue' = Rest(i)
    <3>1. PICK i \in DOMAIN waitqueue : waitqueue[i].owner = NoOp /\ waitqueue' = Rest(i)
      BY <2>2
    <3>2. waitqueue \in Seq(Requests)
      BY DEF TypeOK
    <3>3. PICK g \in [DOMAIN waitqueue' -> DOMAIN waitqueue] :
            /\ \A j \in DOMAIN waitqueue' : g[j] # i /\ waitqueue'[j] = waitqueue[g[j]]
            /\ \A j, k \in DOMAIN waitqueue' : g[j] = g[k] => j = k
            /\ \A k \in DOMAIN waitqueue : k # i => \E j \in DOMAIN waitqueue' : g[j] = k
      <4>1. waitqueue' = RemoveAt(waitqueue, i)
        BY <3>1 DEF Rest
      <4>2. LeavesOut(waitqueue', waitqueue, i)
        BY <3>2, <4>1, RemoveAtIndex
      <4> QED BY <4>2 DEF LeavesOut
    <3> QED BY <3>1, <3>3
  <2> QED BY <2>1, <2>2
<1>2. \A x \in Ops : OpSound(x)'
  BY DEF OpsInv, OpSound
<1>3. ConnectSound'
  BY DEF OpsInv, ConnectSound
<1>4. \A j \in DOMAIN waitqueue' : RequestSound(waitqueue[j])'
  <2> SUFFICES ASSUME NEW j \in DOMAIN waitqueue' PROVE RequestSound(waitqueue[j])'
    OBVIOUS
  <2>1. RequestSound(waitqueue[f[j]])
    BY <1>1 DEF OpsInv
  <2> QED BY <1>1, <2>1 DEF RequestSound
<1>5. CarrierSound'
  <2>1. \A j, k \in DOMAIN waitqueue' :
            waitqueue'[j].owner # NoOp /\ waitqueue'[k].owner # NoOp => j = k
    BY <1>1 DEF OpsInv, CarrierSound
  <2>2. ASSUME NEW o \in Ops, data'[o] = "live"
        PROVE  \/ connect_cb' /\ connect_data' = o
               \/ \E j \in DOMAIN waitqueue' : waitqueue'[j].owner = o
    <3>1. CASE connect_cb /\ connect_data = o
      BY <3>1
    <3>2. CASE \E k \in DOMAIN waitqueue : waitqueue[k].owner = o
      <4>1. PICK k \in DOMAIN waitqueue : waitqueue[k].owner = o
        BY <3>2
      <4>2. PICK j \in DOMAIN waitqueue' : f[j] = k
        BY <1>1, <4>1, OpFacts
      <4> QED BY <1>1, <4>1, <4>2
    <3> QED BY <2>2, <3>1, <3>2 DEF OpsInv, CarrierSound
  <2> QED BY <2>1, <2>2 DEF CarrierSound
<1>6. ctx' = "destroyed" => waitqueue' = <<>> /\ ~connect_cb'
  <2> SUFFICES ASSUME ctx' = "destroyed" PROVE waitqueue' = <<>> /\ ~connect_cb'
    OBVIOUS
  <2>1. waitqueue = <<>> /\ ~connect_cb
    BY DEF OpsInv
  <2>2. waitqueue' = waitqueue
    <3>1. DOMAIN waitqueue = {}
      BY <2>1
    <3> QED BY <3>1
  <2> QED BY <2>1, <2>2
<1> QED BY <1>2, <1>3, <1>4, <1>5, <1>6 DEF OpsInv

(* A request joins the queue: a raw one, the first one of a disconnect     *)
(* that has just been accepted, or the NEGOTIATE of a connect.             *)
LEMMA AddKeeps ==
    ASSUME TypeOK, OpsInv, NEW e \in Requests, ctx # "destroyed", ctx' = ctx,
           waitqueue' = Append(waitqueue, e),
           \A x \in Ops : OpSound(x)', misused' = {},
           \A x, y \in Ops : data'[x] = "live" /\ data'[y] = "live" => x = y,
           ConnectSound', RequestSound(e)',
           \/ /\ e.owner = NoOp
              /\ UNCHANGED <<kind, data, connect_data, connect_cb>>
           \/ /\ e.owner \in Ops /\ data'[e.owner] = "live"
              /\ \A j \in DOMAIN waitqueue : waitqueue[j].owner = NoOp
    PROVE  OpsInv'
<1>1. waitqueue \in Seq(Requests)
  BY DEF TypeOK
<1> DEFINE n == Len(waitqueue) + 1
<1>2. /\ \A j \in DOMAIN waitqueue' :
             \/ j \in DOMAIN waitqueue /\ waitqueue'[j] = waitqueue[j]
             \/ j = n /\ waitqueue'[j] = e
      /\ n \in DOMAIN waitqueue' /\ waitqueue'[n] = e
      /\ \A j \in DOMAIN waitqueue : j \in DOMAIN waitqueue' /\ waitqueue'[j] = waitqueue[j]
  BY <1>1, AppendIndex
<1> HIDE DEF n
<1>3. \A j \in DOMAIN waitqueue' : RequestSound(waitqueue[j])'
  <2> SUFFICES ASSUME NEW j \in DOMAIN waitqueue' PROVE RequestSound(waitqueue[j])'
    OBVIOUS
  <2>1. CASE j \in DOMAIN waitqueue /\ waitqueue'[j] = waitqueue[j]
    <3>1. RequestSound(waitqueue[j])
      BY <2>1 DEF OpsInv
    <3> QED BY <2>1, <3>1 DEF RequestSound
  <2>2. CASE waitqueue'[j] = e
    BY <2>2 DEF RequestSound
  <2> QED BY <1>2, <2>1, <2>2
<1>4. CarrierSound'
  <2>1. CASE e.owner = NoOp /\ UNCHANGED <<kind, data, connect_data, connect_cb>>
    <3>1. \A j \in DOMAIN waitqueue' : waitqueue'[j].owner # NoOp =>
              j \in DOMAIN waitqueue /\ waitqueue'[j] = waitqueue[j]
      BY <1>2, <2>1
    <3> QED BY <1>2, <2>1, <3>1 DEF OpsInv, CarrierSound
  <2>2. CASE /\ e.owner \in Ops /\ data'[e.owner] = "live"
             /\ \A j \in DOMAIN waitqueue : waitqueue[j].owner = NoOp
    <3>1. \A j \in DOMAIN waitqueue' : waitqueue'[j].owner # NoOp => j = n
      BY <1>2, <2>2
    <3> QED BY <1>2, <2>2, <3>1 DEF CarrierSound
  <2> QED BY <2>1, <2>2
<1> QED BY <1>3, <1>4 DEF OpsInv

-----------------------------------------------------------------------------
(* Queues, message ids, keys and signatures. *)

(* Where the requests of a queue come from. *)
LEMMA RestElements ==
    ASSUME TypeOK, NEW i \in DOMAIN waitqueue
    PROVE  /\ Rest(i) \in Seq(Requests) /\ LeavesOut(Rest(i), waitqueue, i)
           /\ \A j \in DOMAIN Rest(i) : \E k \in DOMAIN waitqueue :
                  k # i /\ Rest(i)[j] = waitqueue[k]
<1>1. waitqueue \in Seq(Requests)
  BY DEF TypeOK
<1>2. Rest(i) \in Seq(Requests) /\ LeavesOut(Rest(i), waitqueue, i)
  BY <1>1, RemoveAtIndex DEF Rest
<1>3. \A j \in DOMAIN Rest(i) : \E k \in DOMAIN waitqueue :
          k # i /\ Rest(i)[j] = waitqueue[k]
  BY <1>2 DEF LeavesOut
<1> QED BY <1>2, <1>3

(* The message ids of q are below m and all different.                     *)
MidsFine(q, m) ==
    /\ \A i \in DOMAIN q : q[i].mid < m
    /\ \A i, j \in DOMAIN q : q[i].mid = q[j].mid => i = j

(* They are too when a request has left the queue.                         *)
LEMMA MidsRest ==
    ASSUME TypeOK, MidsInv, NEW i \in DOMAIN waitqueue
    PROVE  ~leftover => MidsFine(Rest(i), message_id)
<1> SUFFICES ASSUME ~leftover PROVE MidsFine(Rest(i), message_id)
  OBVIOUS
<1>1. MidsFine(waitqueue, message_id)
  BY DEF MidsInv, MidsFine
<1>2. LeavesOut(Rest(i), waitqueue, i)
  BY RestElements
<1>3. PICK f \in [DOMAIN Rest(i) -> DOMAIN waitqueue] :
        /\ \A j \in DOMAIN Rest(i) : f[j] # i /\ Rest(i)[j] = waitqueue[f[j]]
        /\ \A j, k \in DOMAIN Rest(i) : f[j] = f[k] => j = k
  BY <1>2 DEF LeavesOut
<1> QED BY <1>1, <1>3 DEF MidsFine

(* The queue loses a request, or none.                                     *)
LEMMA MidsShrink ==
    ASSUME TypeOK, MidsInv, UNCHANGED <<message_id, leftover, mixup>>,
           waitqueue' = waitqueue \/ \E i \in DOMAIN waitqueue : waitqueue' = Rest(i)
    PROVE  MidsInv'
<1>1. ~leftover => MidsFine(waitqueue', message_id)
  <2>1. CASE waitqueue' = waitqueue
    BY <2>1 DEF MidsInv, MidsFine
  <2>2. ASSUME NEW i \in DOMAIN waitqueue, waitqueue' = Rest(i)
        PROVE  ~leftover => MidsFine(waitqueue', message_id)
    BY <2>2, MidsRest
  <2> QED BY <2>1, <2>2
<1> QED BY <1>1 DEF MidsInv, MidsFine

(* A request with the next message id joins what is left of the queue.     *)
LEMMA MidsGrow ==
    ASSUME TypeOK, MidsInv, UNCHANGED <<leftover, mixup>>,
           NEW q \in Seq(Requests), ~leftover => MidsFine(q, message_id),
           NEW e \in Requests, e.mid = message_id,
           waitqueue' = Append(q, e), message_id' = message_id + 1
    PROVE  MidsInv'
<1>0. message_id \in Nat /\ \A j \in DOMAIN q : q[j].mid \in Nat
  <2>1. message_id \in Nat
    BY DEF TypeOK
  <2>2. \A j \in DOMAIN q : q[j] \in Requests
    OBVIOUS
  <2>3. \A f \in Requests : f.mid \in Nat
    BY DEF Requests
  <2> QED BY <2>1, <2>2, <2>3
<1>1. /\ \A j \in DOMAIN waitqueue' :
             \/ j \in DOMAIN q /\ waitqueue'[j] = q[j]
             \/ j = Len(q) + 1 /\ waitqueue'[j] = e
  BY AppendIndex
<1>2. ~leftover => MidsFine(waitqueue', message_id + 1)
  BY <1>0, <1>1 DEF MidsFine
<1> QED BY <1>2 DEF MidsInv, MidsFine

(* smb2_close_context starts the message ids anew.                         *)
LEMMA MidsAnew ==
    ASSUME TypeOK, MidsInv, UNCHANGED mixup,
           leftover' = (leftover \/ waitqueue' # <<>>)
    PROVE  MidsInv'
<1>1. ~leftover' => waitqueue' = <<>> /\ ~leftover
  OBVIOUS
<1>2. mixup' => leftover'
  BY DEF MidsInv
<1>3. ~leftover' => MidsFine(waitqueue', message_id')
  BY <1>1 DEF MidsFine
<1> QED BY <1>2, <1>3 DEF MidsInv, MidsFine

(* Handshake requests are requests of an operation.                        *)
LEMMA HandshakeOwned ==
    ASSUME OpsInv, NEW i \in DOMAIN waitqueue, Handshake(waitqueue[i])
    PROVE  /\ waitqueue[i].owner # NoOp
           /\ kind[waitqueue[i].owner] = "connect"
  BY DEF OpsInv, RequestSound, Handshake, RawCmds, DisconnectCmds

(* Keys and hashes stay, and no handshake request comes.                   *)
LEMMA KeysKeep ==
    ASSUME KeysInv, UNCHANGED <<conn, preauth, transcript>>,
           sec'.signing_key = sec.signing_key, sec'.session_key = sec.session_key,
           \A j \in DOMAIN waitqueue' :
               \/ ~Handshake(waitqueue'[j])
               \/ \E k \in DOMAIN waitqueue : waitqueue'[j] = waitqueue[k]
    PROVE  KeysInv'
  BY DEF KeysInv, KeysAgree, Handshake

(* The keys are forgotten, and no handshake is under way.                  *)
LEMMA KeysForgotten ==
    ASSUME TypeOK, UNCHANGED conn, sec'.signing_key = NoKey, sec'.session_key = 0,
           \A j \in DOMAIN waitqueue' : ~Handshake(waitqueue'[j])
    PROVE  KeysInv'
<1>1. NoKey.conn = 0 /\ conn \in Nat
  BY DEF NoKey, TypeOK
<1> QED BY <1>1 DEF KeysInv, KeysAgree, Handshake

(* smb2_pdu_add_signature with a key of this connection, or with none, or  *)
(* in one of the connections k.                                            *)
LEMMA SignedRequest ==
    ASSUME TypeOK, NEW cmd, NEW o, NEW s \in SecType, NEW k, OwnKeyOr(s, k)
    PROVE  SignedOr(Request(cmd, o, s, conn), k)
<1>1. \/ SigningConn(cmd, s) = Unsigned \/ SigningConn(cmd, s) = conn
      \/ cmd = "TREE_CONNECT" /\ conn \in k
  BY DEF SigningConn, OwnKeyOr, SecType
<1>2. /\ Request(cmd, o, s, conn).cmd = cmd /\ Request(cmd, o, s, conn).conn = conn
      /\ Request(cmd, o, s, conn).key = SigningConn(cmd, s)
  BY DEF Request
<1> QED BY <1>1, <1>2 DEF SignedOr

(* Signatures of a queue all of whose requests but e were there before.    *)
LEMMA SignedKeep ==
    ASSUME SignInv, NEW e, e.cmd = "NEGOTIATE" \/ SignedOr(e, keyless'),
           keyless \subseteq keyless',
           \A j \in DOMAIN waitqueue' :
               \/ waitqueue'[j] = e
               \/ \E k \in DOMAIN waitqueue : waitqueue'[j] = waitqueue[k]
    PROVE  SignedWithOwn'
  BY DEF SignInv, SignedWithOwn, SignedOr

(* Signatures of a queue all of whose requests were there before.          *)
LEMMA SignedShrink ==
    ASSUME SignInv, keyless \subseteq keyless',
           \A j \in DOMAIN waitqueue' :
               \E k \in DOMAIN waitqueue : waitqueue'[j] = waitqueue[k]
    PROVE  SignedWithOwn'
  BY DEF SignInv, SignedWithOwn

(* While a connect is under way the last one has not succeeded.            *)
LEMMA NotYetOk ==
    ASSUME TypeOK, OpsInv, NEW o \in Ops, kind[o] = "connect", data[o] = "live"
    PROVE  ~LastOk
<1> SUFFICES ASSUME NEW x \in Ops, kind[x] = "connect", reports[x] = <<"ok">>,
                    \A p \in (x + 1)..MaxOps : kind[p] = "connect" => data[p] = "refused"
             PROVE  FALSE
  BY DEF LastOk
<1>1. Len(reports[x]) = 1 /\ OpSound(x) /\ OpSound(o)
  BY DEF OpsInv
<1>2. data[x] = "freed"
  BY <1>1 DEF OpSound
<1>3. CASE x < o
  <2>1. o \in (x + 1)..MaxOps
    BY <1>3, OpFacts
  <2> QED BY <2>1
<1>4. CASE o < x
  <2>1. x \in (o + 1)..MaxOps
    BY <1>4, OpFacts
  <2> QED BY <1>1, <2>1 DEF OpSound
<1> QED BY <1>2, <1>3, <1>4, OpFacts

(* Nor has it when it has just failed.                                     *)
LEMMA NotOk ==
    ASSUME TypeOK, OpsInv, NEW o \in Ops, kind[o] = "connect", data[o] = "live",
           Report(o, "error", NoOp)
    PROVE  ~LastOk'
<1>0. NoOp \in Owners
  BY OpFacts
<1>1. /\ reports'[o] = <<"error">> /\ data'[o] = "freed" /\ kind'[o] = "connect"
      /\ \A x \in Ops : kind[x] # "none" => kind'[x] = kind[x]
  BY <1>0, ReportOps
<1>2. kind' = kind
  BY OpFacts DEF Report, TypeOK
<1> SUFFICES ASSUME NEW x \in Ops, kind'[x] = "connect", reports'[x] = <<"ok">>,
                    \A p \in (x + 1)..MaxOps : kind'[p] = "connect" => data'[p] = "refused"
             PROVE  FALSE
  BY DEF LastOk
<1>3. CASE x < o
  <2>1. o \in (x + 1)..MaxOps
    BY <1>3, OpFacts
  <2> QED BY <1>1, <2>1
<1>4. CASE o < x
  <2>1. x \in (o + 1)..MaxOps /\ OpSound(o)
    BY <1>4, OpFacts DEF OpsInv
  <2> QED BY <1>2, <2>1 DEF OpSound
<1>5. CASE x = o
  <2>1. <<"ok">>[1] = <<"error">>[1]
    BY <1>1, <1>5
  <2> QED BY <2>1
<1> QED BY <1>3, <1>4, <1>5, OpFacts

(* The report of a disconnect changes nothing about the last connect.      *)
LEMMA StillOk ==
    ASSUME TypeOK, OpsInv, NEW o \in Ops, kind[o] = "disconnect", data[o] = "live",
           NEW st \in {"ok", "error"}, Report(o, st, NoOp), LastOk'
    PROVE  LastOk
<1>0. NoOp \in Owners
  BY OpFacts
<1>1. /\ kind'[o] = "disconnect"
      /\ \A x \in Ops : x # o => reports'[x] = reports[x]
      /\ \A x \in Ops : x # o /\ x # NoOp => data'[x] = data[x]
  BY <1>0, ReportOps
<1>2. kind' = kind
  BY OpFacts DEF Report, TypeOK
<1>3. PICK x \in Ops : /\ kind'[x] = "connect" /\ reports'[x] = <<"ok">>
                       /\ \A p \in (x + 1)..MaxOps : kind'[p] = "connect" => data'[p] = "refused"
  BY DEF LastOk
<1>4. kind[x] = "connect" /\ reports[x] = <<"ok">>
  BY <1>1, <1>2, <1>3
<1>5. \A p \in (x + 1)..MaxOps : p \in Ops /\ p # NoOp
  BY OpFacts DEF Ops
<1>6. \A p \in (x + 1)..MaxOps : kind[p] = "connect" => data[p] = "refused"
  BY <1>1, <1>2, <1>3, <1>5
<1> QED BY <1>4, <1>6 DEF LastOk

-----------------------------------------------------------------------------
(* One lemma per action. *)

(* The callbacks of a connect end it when something went wrong: whatever   *)
(* they have hashed and negotiated, smb2_close_context leaves a clean      *)
(* context, from which the callback may connect anew.                      *)
LEMMA FailStep ==
    ASSUME AllInv, NEW i \in DOMAIN waitqueue, waitqueue[i].owner # NoOp,
           NEW s \in SecType, NEW c \in {ctx, "failed"},
           preauth' \in Seq(Messages), transcript' \in Seq(Messages),
           keyless \subseteq keyless', keyless' \subseteq Nat,
           Fail(waitqueue[i].owner, s, Rest(i), c)
    PROVE  AllInv'
<1>0. TypeOK /\ OpsInv /\ MidsInv /\ KeysInv /\ SignInv
  BY DEF AllInv
<1>1. PICK r \in Owners : /\ Report(waitqueue[i].owner, "error", r)
                          /\ link' = IF r = NoOp THEN "closed" ELSE "connecting"
                          /\ connect_cb' = (r # NoOp)
  BY DEF Fail, Owners
<1>2. /\ message_id' = 0 /\ sec' = Forgotten(s)
      /\ tree_id' = <<>> /\ tree_id_cur' = 0
      /\ trees' = {} /\ executed' = {} /\ gone' = {}
      /\ leftover' = (leftover \/ Rest(i) # <<>>)
      /\ waitqueue' = Rest(i) /\ ctx' = c /\ UNCHANGED <<conn, passthrough, mixup>>
  BY DEF Fail, CloseContext
<1>3. /\ waitqueue[i].owner \in Ops /\ waitqueue[i].owner \in Owners
      /\ \A j \in DOMAIN waitqueue' : /\ waitqueue'[j].owner = NoOp
                                     /\ waitqueue'[j].cmd \in RawCmds
      /\ \A j \in DOMAIN waitqueue' : \E k \in DOMAIN waitqueue : waitqueue'[j] = waitqueue[k]
      /\ waitqueue' \in Seq(Requests)
  BY <1>0, <1>2, OthersRaw, RestElements, OpFacts
<1>4. TypeOK'
  <2>1. /\ kind' \in [Ops -> {"none", "connect", "disconnect"}]
        /\ data' \in [Ops -> {"none", "live", "freed", "refused"}]
        /\ reports' \in [Ops -> Seq({"ok", "error"})]
        /\ misused' \subseteq Ops \cup {NoOp}
        /\ connect_data' \in Ops \cup {NoOp}
    BY <1>0, <1>1, <1>3, ReportType
  <2>2. /\ sec' \in SecType
        /\ preauth' \in Seq({"request", "reply"} \X Nat)
        /\ transcript' \in Seq({"request", "reply"} \X Nat)
    BY <1>0, <1>2, SecTypes DEF Messages
  <2>3. tree_id' \in Seq(TreeIds) /\ Len(tree_id') = 0 /\ Len(tree_id') < MaxTree
    BY <1>2, SessionAssumption
  <2>4. /\ connect_cb' \in BOOLEAN /\ link' \in {"closed", "connecting", "up"}
        /\ conn' \in Nat /\ message_id' \in Nat /\ passthrough' \in BOOLEAN
        /\ tree_id_cur' \in 0..Len(tree_id')
        /\ trees' \subseteq TreeIds /\ gone' \subseteq TreeIds /\ executed' \subseteq Nat
        /\ ctx' \in {"active", "failed", "destroyed"}
        /\ leftover' \in BOOLEAN /\ mixup' \in BOOLEAN
    BY <1>0, <1>1, <1>2, <2>3 DEF TypeOK
  <2> QED BY <1>3, <2>1, <2>2, <2>3, <2>4 DEF TypeOK, SecType
<1>5. OpsInv'
  BY <1>0, <1>1, <1>2, ReportKeeps
<1>6. MidsInv'
  BY <1>0, <1>2, MidsAnew
<1>7. KeysInv'
  <2>1. sec'.signing_key = NoKey /\ sec'.session_key = 0
    BY <1>2 DEF Forgotten, SecType
  <2>2. \A j \in DOMAIN waitqueue' : ~Handshake(waitqueue'[j])
    BY <1>3 DEF Handshake, RawCmds
  <2> QED BY <1>0, <1>2, <2>1, <2>2, KeysForgotten
<1>8. SignInv'
  <2>1. SignedWithOwn'
    BY <1>0, <1>3, SignedShrink
  <2> QED BY <1>1, <1>3, <2>1 DEF SignInv
<1>9. TreesConnected'
  BY <1>2, SmallSeq DEF TreesConnected
<1> QED BY <1>4, <1>5, <1>6, <1>7, <1>8, <1>9 DEF AllInv

(* A request of no operation ends. *)
LEMMA RawStep ==
    ASSUME AllInv, NEW i \in DOMAIN waitqueue, RawEnds(i)
    PROVE  AllInv'
<1>0. TypeOK /\ OpsInv /\ MidsInv /\ KeysInv /\ SignInv /\ TreesConnected
  BY DEF AllInv
<1>1. /\ waitqueue' = Rest(i) /\ waitqueue[i].owner = NoOp
      /\ UNCHANGED <<kind, data, reports, misused>>
      /\ UNCHANGED <<connect_data, connect_cb, link, conn>>
      /\ UNCHANGED <<message_id, leftover, mixup, sec, preauth, transcript, passthrough, keyless>>
      /\ UNCHANGED <<tree_id, tree_id_cur, trees, executed, gone, ctx>>
  BY DEF RawEnds, opVars, linkVars, secVars, treeVars
<1>2. /\ waitqueue' \in Seq(Requests)
      /\ \A j \in DOMAIN waitqueue' : \E k \in DOMAIN waitqueue : waitqueue'[j] = waitqueue[k]
  BY <1>0, <1>1, RestElements
<1>3. TypeOK'
  BY <1>0, <1>1, <1>2 DEF TypeOK
<1>4. OpsInv'
  BY <1>0, <1>1, RawGoneKeeps
<1>5. MidsInv'
  BY <1>0, <1>1, MidsShrink
<1>6. KeysInv'
  BY <1>0, <1>1, <1>2, KeysKeep
<1>7. SignInv'
  <2>1. SignedWithOwn'
    BY <1>0, <1>1, <1>2, SignedShrink
  <2> QED BY <1>0, <1>1, <1>2, <2>1 DEF SignInv, LastOk, OwnKey, OwnKeyOr, Handshake
<1>8. TreesConnected'
  BY <1>0, <1>1 DEF TreesConnected
<1> QED BY <1>3, <1>4, <1>5, <1>6, <1>7, <1>8 DEF AllInv

(* smb2_connect_share_async. *)
LEMMA ConnectStep ==
    ASSUME AllInv, NEW o \in Ops, Connect(o)
    PROVE  AllInv'
<1>0. TypeOK /\ OpsInv /\ MidsInv /\ KeysInv /\ SignInv /\ TreesConnected
  BY DEF AllInv
<1>1. /\ ctx = "active" /\ Live = {} /\ IsNext(o)
      /\ kind' = [kind EXCEPT ![o] = "connect"]
      /\ UNCHANGED <<reports, misused, conn, waitqueue, message_id, leftover, mixup>>
      /\ UNCHANGED <<sec, preauth, transcript, passthrough, keyless>>
      /\ UNCHANGED <<tree_id, tree_id_cur, trees, executed, gone, ctx>>
  BY DEF Connect, Idle, reqVars, secVars, treeVars
<1>2. \A x \in Ops : data[x] # "live"
  BY <1>1 DEF Live
<1>3. \A j \in DOMAIN waitqueue : waitqueue[j].owner = NoOp /\ waitqueue[j].cmd \in RawCmds
  <2> SUFFICES ASSUME NEW j \in DOMAIN waitqueue
               PROVE  waitqueue[j].owner = NoOp /\ waitqueue[j].cmd \in RawCmds
    OBVIOUS
  <2>1. RequestSound(waitqueue[j]) /\ waitqueue[j].owner \in Owners
    BY <1>0, RestType DEF OpsInv
  <2> QED BY <1>2, <2>1, OpFacts DEF RequestSound
<1>4. /\ kind[o] = "none" /\ data[o] = "none" /\ reports[o] = <<>>
      /\ \A p \in 1..(o - 1) : kind[p] # "none"
      /\ \A p \in (o + 1)..MaxOps : kind[p] = "none"
  <2>1. OpSound(o) /\ reports[o] \in Seq({"ok", "error"})
    BY <1>0 DEF OpsInv, TypeOK
  <2>2. kind[o] = "none" /\ data[o] = "none" /\ Len(reports[o]) = 0
    BY <1>1, <2>1 DEF IsNext, OpSound
  <2>3. reports[o] = <<>>
    BY <2>1, <2>2, SeqElements
  <2> QED BY <1>1, <2>1, <2>2, <2>3 DEF IsNext, OpSound
<1>5. PICK d \in {"live", "refused"} :
        /\ data' = [data EXCEPT ![o] = d]
        /\ \/ d = "refused" /\ UNCHANGED <<connect_data, connect_cb, link>>
           \/ d = "live" /\ connect_data' = o /\ connect_cb' = TRUE /\ link' = "connecting"
  BY DEF Connect
<1>6. /\ \A x \in Ops : x # o => kind'[x] = kind[x] /\ data'[x] = data[x]
      /\ kind'[o] = "connect" /\ data'[o] = d
  BY <1>0, <1>1, <1>5 DEF TypeOK
<1>7. TypeOK'
  BY <1>0, <1>1, <1>5 DEF TypeOK
<1>8. OpsInv'
  <2>1. ASSUME NEW x \in Ops PROVE OpSound(x)'
    <3>1. OpSound(x) /\ x \in Nat /\ o \in Nat /\ \A p \in (x + 1)..MaxOps : p \in Ops
      BY <1>0, OpFacts DEF OpsInv, Ops
    <3>2. CASE x = o
      <4>1. \A p \in (o + 1)..MaxOps : p \in Ops /\ p # o
        BY <3>1, <3>2
      <4> QED BY <1>1, <1>4, <1>6, <3>2, <4>1 DEF OpSound
    <3>3. CASE x # o
      <4>1. kind[x] = "none" => \A p \in (x + 1)..MaxOps : p # o
        <5> SUFFICES ASSUME kind[x] = "none", o \in (x + 1)..MaxOps PROVE FALSE
          OBVIOUS
        <5>1. x \in 1..(o - 1)
          BY <3>1, OpFacts
        <5> QED BY <1>4, <5>1
      <4> QED BY <1>1, <1>2, <1>6, <3>1, <3>3, <4>1 DEF OpSound
    <3> QED BY <3>2, <3>3
  <2>2. \A x, y \in Ops : data'[x] = "live" /\ data'[y] = "live" => x = y
    BY <1>2, <1>6
  <2>3. connect_data = NoOp /\ ~connect_cb
    BY <1>0, <1>2, OpFacts DEF OpsInv, ConnectSound, TypeOK
  <2>4. ConnectSound'
    BY <1>5, <1>6, <2>3, OpFacts DEF ConnectSound
  <2>5. \A j \in DOMAIN waitqueue' : RequestSound(waitqueue[j])'
    BY <1>1, <1>3 DEF RequestSound
  <2>6. CarrierSound'
    BY <1>1, <1>2, <1>3, <1>5, <1>6 DEF CarrierSound
  <2>7. misused' = {} /\ ctx' # "destroyed"
    BY <1>0, <1>1 DEF OpsInv
  <2> QED BY <2>1, <2>2, <2>4, <2>5, <2>6, <2>7 DEF OpsInv
<1>9. MidsInv'
  BY <1>0, <1>1, MidsShrink
<1>10. KeysInv'
  BY <1>0, <1>1, KeysKeep
<1>11. SignInv'
  <2>1. SignedWithOwn'
    BY <1>0, <1>1, SignedShrink
  <2>2. LastOk' => LastOk
    <3> SUFFICES ASSUME NEW x \in Ops, kind'[x] = "connect", reports'[x] = <<"ok">>,
                        \A p \in (x + 1)..MaxOps : kind'[p] = "connect" => data'[p] = "refused"
                 PROVE  LastOk
      BY DEF LastOk
    <3>1. x # o
      <4>1. Len(<<"ok">>) = 1 /\ Len(<<>>) = 0
        OBVIOUS
      <4> QED BY <1>1, <1>4, <4>1
    <3>2. \A p \in (x + 1)..MaxOps : p \in Ops
      BY OpFacts DEF Ops
    <3>3. \A p \in (x + 1)..MaxOps : kind[p] = "connect" => data[p] = "refused"
      BY <1>4, <1>6, <3>2
    <3> QED BY <1>1, <1>6, <3>1, <3>3 DEF LastOk
  <2>3. link' = "up" => link = "up"
    BY <1>5
  <2>4. OwnKey(sec)' <=> OwnKey(sec)
    BY <1>1 DEF OwnKey, OwnKeyOr
  <2>5. LastOk' /\ link' = "up" => OwnKey(sec)'
    BY <1>0, <2>2, <2>3, <2>4 DEF SignInv
  <2>6. \A j \in DOMAIN waitqueue' : waitqueue'[j].owner = NoOp
    BY <1>1, <1>3
  <2> QED BY <2>1, <2>5, <2>6 DEF SignInv
<1>12. TreesConnected'
  BY <1>0, <1>1 DEF TreesConnected
<1> QED BY <1>7, <1>8, <1>9, <1>10, <1>11, <1>12 DEF AllInv

(* smb2_select_tree_id, the failure of a service, a step of the server and *)
(* one of something else: what the invariant speaks of stays, but for      *)
(* tree_id_cur, ctx and trees that are gone.                               *)
LEMMA QuietStep ==
    ASSUME AllInv, UNCHANGED <<opVars, linkVars, reqVars, secVars, tree_id>>,
           trees' \subseteq TreeIds, gone' \subseteq TreeIds, executed' \subseteq Nat,
           trees \cup gone \subseteq trees' \cup gone',
           tree_id_cur' \in 0..Len(tree_id),
           ctx' = ctx \/ (ctx' = "failed" /\ ctx # "destroyed")
    PROVE  AllInv'
<1>0. TypeOK /\ OpsInv /\ MidsInv /\ KeysInv /\ SignInv /\ TreesConnected
  BY DEF AllInv
<1>1. /\ UNCHANGED <<kind, data, reports, misused>>
      /\ UNCHANGED <<connect_data, connect_cb, link, conn>>
      /\ UNCHANGED <<waitqueue, message_id, leftover, mixup, sec, preauth, transcript, passthrough, keyless>>
      /\ UNCHANGED tree_id
  BY DEF opVars, linkVars, reqVars, secVars
<1>2. TypeOK'
  BY <1>0, <1>1 DEF TypeOK
<1>3. OpsInv'
  BY <1>0, <1>1, RawGoneKeeps
<1>4. MidsInv'
  BY <1>0, <1>1, MidsShrink
<1>5. KeysInv'
  BY <1>0, <1>1, KeysKeep
<1>6. SignInv'
  <2>1. SignedWithOwn'
    BY <1>0, <1>1, SignedShrink
  <2> QED BY <1>0, <1>1, <2>1 DEF SignInv, LastOk, OwnKey, OwnKeyOr, Handshake
<1>7. TreesConnected'
  BY <1>0, <1>1 DEF TreesConnected
<1> QED BY <1>2, <1>3, <1>4, <1>5, <1>6, <1>7 DEF AllInv

(* While the message ids differ, smb2_find_pdu finds the request a reply   *)
(* answers.                                                                *)
LEMMA FindsOwn ==
    ASSUME TypeOK, MidsInv, ~leftover, NEW i \in DOMAIN waitqueue
    PROVE  FindPdu(waitqueue[i].mid) = i
<1>1. DOMAIN waitqueue = 1..Len(waitqueue) /\ Len(waitqueue) \in Nat
  BY SeqElements DEF TypeOK
<1> DEFINE I == {j \in 1..Len(waitqueue) : waitqueue[j].mid = waitqueue[i].mid}
<1>2. I = {i}
  BY <1>1 DEF MidsInv
<1>3. Min(I) = i
  <2>1. i \in I /\ \A y \in I : i <= y
    BY <1>1, <1>2
  <2>2. \A x \in I : x = i
    BY <1>2
  <2> QED BY <2>1, <2>2 DEF Min
<1>4. FindPdu(waitqueue[i].mid) = IF I # {} THEN Min(I) ELSE 0
  BY DEF FindPdu, SelectInSeq
<1> HIDE DEF I
<1> QED BY <1>2, <1>3, <1>4

(* A reply is matched with another request. *)
LEMMA MixupStep ==
    ASSUME AllInv, NEW i \in DOMAIN waitqueue, Mixup(i)
    PROVE  AllInv'
<1>0. TypeOK /\ OpsInv /\ MidsInv /\ KeysInv /\ SignInv /\ TreesConnected
  BY DEF AllInv
<1>1. /\ UNCHANGED <<kind, data, reports, misused>>
      /\ UNCHANGED <<connect_data, connect_cb, link, conn>>
      /\ UNCHANGED <<waitqueue, message_id, leftover, sec, preauth, transcript, passthrough, keyless>>
      /\ UNCHANGED <<tree_id, tree_id_cur, trees, executed, gone>>
      /\ ctx = "active" /\ ctx' = "failed" /\ mixup' = TRUE
      /\ FindPdu(waitqueue[i].mid) # i
  BY DEF Mixup, opVars, linkVars, secVars, treeVars
<1>2. leftover
  BY <1>0, <1>1, FindsOwn
<1>3. TypeOK'
  BY <1>0, <1>1 DEF TypeOK
<1>4. OpsInv'
  BY <1>0, <1>1, RawGoneKeeps
<1>5. MidsInv'
  BY <1>1, <1>2 DEF MidsInv
<1>6. KeysInv'
  BY <1>0, <1>1, KeysKeep
<1>7. SignInv'
  <2>1. SignedWithOwn'
    BY <1>0, <1>1, SignedShrink
  <2> QED BY <1>0, <1>1, <2>1 DEF SignInv, LastOk, OwnKey, OwnKeyOr, Handshake
<1>8. TreesConnected'
  BY <1>0, <1>1 DEF TreesConnected
<1> QED BY <1>3, <1>4, <1>5, <1>6, <1>7, <1>8 DEF AllInv

(* With nothing under way no request of an operation waits.                *)
LEMMA IdleQueue ==
    ASSUME TypeOK, OpsInv, Live = {}
    PROVE  /\ \A x \in Ops : data[x] # "live"
           /\ \A j \in DOMAIN waitqueue :
                  waitqueue[j].owner = NoOp /\ waitqueue[j].cmd \in RawCmds
           /\ connect_data = NoOp /\ ~connect_cb
<1>1. \A x \in Ops : data[x] # "live"
  BY DEF Live
<1>2. ASSUME NEW j \in DOMAIN waitqueue
      PROVE  waitqueue[j].owner = NoOp /\ waitqueue[j].cmd \in RawCmds
  <2>1. RequestSound(waitqueue[j]) /\ waitqueue[j].owner \in Owners
    BY RestType DEF OpsInv
  <2> QED BY <1>1, <2>1, OpFacts DEF RequestSound
<1>3. connect_data = NoOp /\ ~connect_cb
  BY <1>1, OpFacts DEF OpsInv, ConnectSound, TypeOK
<1> QED BY <1>1, <1>2, <1>3

(* A request joins the queue behind those of q.                            *)
LEMMA QueueElements ==
    ASSUME NEW q \in Seq(Requests), NEW e \in Requests, waitqueue' = Append(q, e)
    PROVE  /\ waitqueue' \in Seq(Requests)
           /\ \A j \in DOMAIN waitqueue' :
                  waitqueue'[j] = e \/ \E k \in DOMAIN q : waitqueue'[j] = q[k]
<1>1. /\ Append(q, e) \in Seq(Requests)
      /\ \A j \in DOMAIN q : Append(q, e)[j] = q[j]
      /\ \A j \in DOMAIN Append(q, e) : j \in DOMAIN q \/ j = Len(q) + 1
      /\ Append(q, e)[Len(q) + 1] = e
  BY AppendIndex
<1> QED BY <1>1

(* The application uses the raw interface. *)
LEMMA RawRequestStep ==
    ASSUME AllInv, NEW cmd \in RawCmds, RawRequest(cmd)
    PROVE  AllInv'
<1>0. TypeOK /\ OpsInv /\ MidsInv /\ KeysInv /\ SignInv /\ TreesConnected
  BY DEF AllInv
<1>1. /\ UNCHANGED <<kind, data, reports, misused>>
      /\ UNCHANGED <<connect_data, connect_cb, link, conn>>
      /\ UNCHANGED <<leftover, mixup, sec, preauth, transcript, passthrough, keyless>>
      /\ UNCHANGED <<tree_id, tree_id_cur, trees, executed, gone, ctx>>
      /\ Usable
  BY DEF RawRequest, Queue, opVars, linkVars, secVars, treeVars
<1>2. ctx = "active" /\ link = "up" /\ LastOk
  BY <1>1 DEF Usable, Idle, LastOk
<1>3. OwnKey(sec)
  BY <1>0, <1>2 DEF SignInv
<1>4. /\ sec \in SecType /\ conn \in Nat /\ NoOp \in Owners /\ cmd \in Cmds
      /\ waitqueue \in Seq(Requests)
  BY <1>0, OpFacts DEF TypeOK, SecType, Cmds
<1>5. PICK e \in Requests :
        /\ e.owner = NoOp /\ e.cmd = cmd /\ e.mid = message_id /\ e.conn = conn
        /\ SignedOr(e, keyless)
        /\ waitqueue' = Append(waitqueue, e) /\ message_id' = message_id + 1
  BY <1>0, <1>3, <1>4, RequestType, SignedRequest DEF RawRequest, Queue, OwnKey
<1>6. /\ waitqueue' \in Seq(Requests)
      /\ \A j \in DOMAIN waitqueue' :
             waitqueue'[j] = e \/ \E k \in DOMAIN waitqueue : waitqueue'[j] = waitqueue[k]
  BY <1>4, <1>5, QueueElements
<1>7. TypeOK'
  <2>1. message_id' \in Nat
    BY <1>0, <1>5 DEF TypeOK
  <2> QED BY <1>0, <1>1, <1>6, <2>1 DEF TypeOK
<1>8. OpsInv'
  <2>1. \A x \in Ops : OpSound(x)'
    BY <1>0, <1>1 DEF OpsInv, OpSound
  <2>2. /\ misused' = {}
        /\ \A x, y \in Ops : data'[x] = "live" /\ data'[y] = "live" => x = y
    BY <1>0, <1>1 DEF OpsInv
  <2>3. ConnectSound'
    BY <1>0, <1>1 DEF OpsInv, ConnectSound
  <2>4. RequestSound(e)'
    BY <1>5 DEF RequestSound
  <2> QED BY <1>0, <1>1, <1>2, <1>5, <2>1, <2>2, <2>3, <2>4, AddKeeps
<1>9. MidsInv'
  <2>1. ~leftover => MidsFine(waitqueue, message_id)
    BY <1>0 DEF MidsInv, MidsFine
  <2> QED BY <1>0, <1>1, <1>4, <1>5, <2>1, MidsGrow
<1>10. KeysInv'
  <2>1. ~Handshake(e)
    BY <1>5 DEF Handshake, RawCmds
  <2> QED BY <1>0, <1>1, <1>6, <2>1, KeysKeep
<1>11. SignInv'
  <2>1. SignedWithOwn'
    BY <1>0, <1>1, <1>5, <1>6, SignedKeep
  <2>2. OwnKey(sec)'
    BY <1>1, <1>3 DEF OwnKey, OwnKeyOr
  <2> QED BY <2>1, <2>2 DEF SignInv
<1>12. TreesConnected'
  BY <1>0, <1>1 DEF TreesConnected
<1> QED BY <1>7, <1>8, <1>9, <1>10, <1>11, <1>12 DEF AllInv

(* smb2_disconnect_share_async. *)
LEMMA DisconnectStep ==
    ASSUME AllInv, NEW o \in Ops, Disconnect(o)
    PROVE  AllInv'
<1>0. TypeOK /\ OpsInv /\ MidsInv /\ KeysInv /\ SignInv /\ TreesConnected
  BY DEF AllInv
<1>1. /\ ctx = "active" /\ Live = {} /\ IsNext(o)
      /\ kind' = [kind EXCEPT ![o] = "disconnect"]
      /\ UNCHANGED <<reports, misused, connect_data, connect_cb, link, conn>>
      /\ UNCHANGED <<leftover, mixup, sec, preauth, transcript, passthrough, keyless>>
      /\ UNCHANGED <<tree_id, tree_id_cur, trees, executed, gone, ctx>>
  BY DEF Disconnect, Idle, linkVars, secVars, treeVars
<1>2. /\ \A x \in Ops : data[x] # "live"
      /\ \A j \in DOMAIN waitqueue : waitqueue[j].owner = NoOp /\ waitqueue[j].cmd \in RawCmds
      /\ connect_data = NoOp /\ ~connect_cb
  BY <1>0, <1>1, IdleQueue
<1>3. /\ kind[o] = "none" /\ data[o] = "none" /\ reports[o] = <<>>
      /\ \A p \in 1..(o - 1) : kind[p] # "none"
      /\ \A p \in (o + 1)..MaxOps : kind[p] = "none"
  <2>1. OpSound(o) /\ reports[o] \in Seq({"ok", "error"})
    BY <1>0 DEF OpsInv, TypeOK
  <2>2. kind[o] = "none" /\ data[o] = "none" /\ Len(reports[o]) = 0
    BY <1>1, <2>1 DEF IsNext, OpSound
  <2>3. reports[o] = <<>>
    BY <2>1, <2>2, SeqElements
  <2> QED BY <1>1, <2>1, <2>2, <2>3 DEF IsNext, OpSound
<1>request. PICK e \in Requests :
        /\ e = Request("TREE_DISCONNECT", o, sec, conn)
        /\ e.owner = o /\ e.cmd = "TREE_DISCONNECT" /\ e.mid = message_id /\ e.conn = conn
        /\ OwnKey(sec) => SignedOr(e, keyless)
  <2>1. sec \in SecType /\ conn \in Nat /\ o \in Owners /\ "TREE_DISCONNECT" \in Cmds
    BY <1>0, OpFacts DEF TypeOK, SecType, Cmds, RawCmds
  <2> QED BY <1>0, <2>1, RequestType, SignedRequest DEF OwnKey
<1>4. PICK d \in {"live", "refused"} :
        /\ data' = [data EXCEPT ![o] = d]
        /\ \/ /\ d = "refused" /\ UNCHANGED <<waitqueue, message_id>>
           \/ /\ d = "live" /\ link = "up" /\ Usable
              /\ waitqueue' = Append(waitqueue, e) /\ message_id' = message_id + 1
  BY <1>request DEF Disconnect, Queue
<1>5. /\ \A x \in Ops : x # o => kind'[x] = kind[x] /\ data'[x] = data[x]
      /\ kind'[o] = "disconnect" /\ data'[o] = d
  BY <1>0, <1>1, <1>4 DEF TypeOK
<1>6. waitqueue \in Seq(Requests)
  BY <1>0 DEF TypeOK
<1>7. d = "live" => OwnKey(sec) /\ SignedOr(e, keyless)
  <2> SUFFICES ASSUME d = "live" PROVE OwnKey(sec) /\ SignedOr(e, keyless)
    OBVIOUS
  <2>1. LastOk /\ link = "up"
    BY <1>4 DEF Usable, LastOk
  <2>2. OwnKey(sec)
    BY <1>0, <2>1 DEF SignInv
  <2> QED BY <1>request, <2>2
<1>8. /\ waitqueue' \in Seq(Requests)
      /\ \A j \in DOMAIN waitqueue' :
             \/ d = "live" /\ waitqueue'[j] = e
             \/ \E k \in DOMAIN waitqueue : waitqueue'[j] = waitqueue[k]
  <2>1. CASE d = "refused"
    BY <1>4, <1>6, <2>1
  <2>2. CASE d = "live"
    BY <1>4, <1>6, <2>2, QueueElements
  <2> QED BY <2>1, <2>2
<1>9. TypeOK'
  <2>1. message_id' \in Nat
    BY <1>0, <1>4 DEF TypeOK
  <2>2. /\ kind' \in [Ops -> {"none", "connect", "disconnect"}]
        /\ data' \in [Ops -> {"none", "live", "freed", "refused"}]
    BY <1>0, <1>1, <1>4 DEF TypeOK
  <2> QED BY <1>0, <1>1, <1>8, <2>1, <2>2 DEF TypeOK
<1>10. OpsInv'
  <2>1. ASSUME NEW x \in Ops PROVE OpSound(x)'
    <3>1. OpSound(x) /\ x \in Nat /\ o \in Nat /\ \A p \in (x + 1)..MaxOps : p \in Ops
      BY <1>0, OpFacts DEF OpsInv, Ops
    <3>2. CASE x = o
      <4>1. \A p \in (o + 1)..MaxOps : p \in Ops /\ p # o
        BY <3>1, <3>2
      <4> QED BY <1>1, <1>3, <1>5, <3>2, <4>1 DEF OpSound
    <3>3. CASE x # o
      <4>1. kind[x] = "none" => \A p \in (x + 1)..MaxOps : p # o
        <5> SUFFICES ASSUME kind[x] = "none", o \in (x + 1)..MaxOps PROVE FALSE
          OBVIOUS
        <5>1. x \in 1..(o - 1)
          BY <3>1, OpFacts
        <5> QED BY <1>3, <5>1
      <4> QED BY <1>1, <1>2, <1>5, <3>1, <3>3, <4>1 DEF OpSound
    <3> QED BY <3>2, <3>3
  <2>2. \A x, y \in Ops : data'[x] = "live" /\ data'[y] = "live" => x = y
    BY <1>2, <1>5
  <2>3. ConnectSound' /\ misused' = {} /\ ctx' # "destroyed"
    BY <1>0, <1>1, <1>2 DEF ConnectSound, OpsInv
  <2>4. CASE d = "live"
    <3>1. RequestSound(e)'
      BY <1>1, <1>2, <1>5, <1>request, <2>4, OpFacts DEF RequestSound, DisconnectCmds
    <3>2. waitqueue' = Append(waitqueue, e)
      BY <1>4, <2>4
    <3>3. e.owner \in Ops /\ data'[e.owner] = "live"
      BY <1>5, <1>request, <2>4
    <3> QED BY <1>0, <1>1, <1>2, <2>1, <2>2, <2>3, <3>1, <3>2, <3>3, AddKeeps
  <2>5. CASE d = "refused"
    <3>1. waitqueue' = waitqueue
      BY <1>4, <2>5
    <3>2. \A j \in DOMAIN waitqueue' : RequestSound(waitqueue[j])'
      BY <1>2, <3>1 DEF RequestSound
    <3>3. CarrierSound'
      BY <1>2, <1>5, <2>5, <3>1 DEF CarrierSound
    <3> QED BY <2>1, <2>2, <2>3, <3>2, <3>3 DEF OpsInv
  <2> QED BY <2>4, <2>5
<1>11. MidsInv'
  <2>1. CASE d = "refused"
    BY <1>0, <1>1, <1>4, <2>1, MidsShrink
  <2>2. CASE d = "live"
    <3>1. ~leftover => MidsFine(waitqueue, message_id)
      BY <1>0 DEF MidsInv, MidsFine
    <3> QED BY <1>0, <1>1, <1>4, <1>6, <1>request, <2>2, <3>1, MidsGrow
  <2> QED BY <2>1, <2>2
<1>12. KeysInv'
  <2>1. ~Handshake(e)
    BY <1>request DEF Handshake
  <2> QED BY <1>0, <1>1, <1>8, <2>1, KeysKeep
<1>13. SignInv'
  <2>1. SignedWithOwn'
    <3>1. CASE d = "refused"
      BY <1>0, <1>1, <1>8, <3>1, SignedShrink
    <3>2. CASE d = "live"
      BY <1>0, <1>1, <1>7, <1>8, <3>2, SignedKeep
    <3> QED BY <3>1, <3>2
  <2>2. LastOk' => LastOk
    <3> SUFFICES ASSUME NEW x \in Ops, kind'[x] = "connect", reports'[x] = <<"ok">>,
                        \A p \in (x + 1)..MaxOps : kind'[p] = "connect" => data'[p] = "refused"
                 PROVE  LastOk
      BY DEF LastOk
    <3>1. x # o
      BY <1>5
    <3>2. \A p \in (x + 1)..MaxOps : p \in Ops
      BY OpFacts DEF Ops
    <3>3. \A p \in (x + 1)..MaxOps : kind[p] = "connect" => data[p] = "refused"
      BY <1>3, <1>5, <3>2
    <3> QED BY <1>1, <1>5, <3>1, <3>3 DEF LastOk
  <2>3. OwnKey(sec)' <=> OwnKey(sec)
    BY <1>1 DEF OwnKey, OwnKeyOr
  <2>4. LastOk' /\ link' = "up" => OwnKey(sec)'
    BY <1>0, <1>1, <2>2, <2>3 DEF SignInv
  <2>5. \A j \in DOMAIN waitqueue' : waitqueue'[j].owner # NoOp => OwnKey(sec)'
    BY <1>2, <1>7, <1>8, <2>3
  <2> QED BY <2>1, <2>4, <2>5 DEF SignInv
<1>15. TreesConnected'
  BY <1>0, <1>1 DEF TreesConnected
<1> QED BY <1>9, <1>10, <1>11, <1>12, <1>13, <1>15 DEF AllInv

(* While the transport is connecting every request is a raw one.           *)
LEMMA ConnectingQueue ==
    ASSUME TypeOK, OpsInv, connect_cb
    PROVE  /\ connect_data \in Ops /\ kind[connect_data] = "connect"
           /\ data[connect_data] = "live" /\ ctx # "destroyed"
           /\ \A j \in DOMAIN waitqueue :
                  waitqueue[j].owner = NoOp /\ waitqueue[j].cmd \in RawCmds
<1>1. /\ connect_data \in Ops /\ kind[connect_data] = "connect"
      /\ data[connect_data] = "live" /\ ctx # "destroyed"
  BY DEF OpsInv, ConnectSound, TypeOK
<1>2. \A j \in DOMAIN waitqueue : RequestSound(waitqueue[j])
  BY DEF OpsInv
<1>3. \A j \in DOMAIN waitqueue :
          waitqueue[j].owner = NoOp /\ waitqueue[j].cmd \in RawCmds
  BY <1>2 DEF RequestSound
<1> QED BY <1>1, <1>3

(* An attempt to connect is reported as failed by connect_cb itself.       *)
LEMMA ConnectReported ==
    ASSUME TypeOK, OpsInv, connect_cb, Report(connect_data, "error", NoOp),
           waitqueue' = waitqueue, connect_cb' = FALSE, ctx' \in {ctx, "failed"}
    PROVE  OpsInv' /\ ~LastOk'
<1>1. /\ connect_data \in Ops /\ kind[connect_data] = "connect"
      /\ data[connect_data] = "live" /\ ctx # "destroyed"
      /\ \A j \in DOMAIN waitqueue :
             waitqueue[j].owner = NoOp /\ waitqueue[j].cmd \in RawCmds
  BY ConnectingQueue
<1>2. PICK o \in Ops : o = connect_data
  BY <1>1
<1>3. /\ misused' = {}
      /\ \A x \in Ops : OpSound(x)'
      /\ \A x \in Ops : data'[x] # "live"
      /\ connect_data' = NoOp
  BY <1>1, <1>2, OpFacts, ReportOps
<1>4. ConnectSound'
  BY <1>3 DEF ConnectSound
<1>5. \A j \in DOMAIN waitqueue' : RequestSound(waitqueue[j])'
  BY <1>1 DEF RequestSound
<1>6. CarrierSound'
  BY <1>1, <1>3 DEF CarrierSound
<1>7. OpsInv'
  BY <1>1, <1>3, <1>4, <1>5, <1>6 DEF OpsInv
<1>8. ~LastOk'
  BY <1>1, <1>2, NotOk
<1> QED BY <1>7, <1>8

(* connect_cb with an error. *)
LEMMA ConnectCbFailsStep ==
    ASSUME AllInv, ConnectCbFails
    PROVE  AllInv'
<1>0. TypeOK /\ OpsInv /\ MidsInv /\ KeysInv /\ SignInv /\ TreesConnected
  BY DEF AllInv
<1>1. /\ connect_cb /\ Report(connect_data, "error", NoOp)
      /\ connect_cb' = FALSE /\ link' = "closed" /\ ctx' = "failed"
      /\ UNCHANGED <<conn, waitqueue, message_id, leftover, mixup>>
      /\ UNCHANGED <<sec, preauth, transcript, passthrough, keyless>>
      /\ UNCHANGED <<tree_id, tree_id_cur, trees, executed, gone>>
  BY DEF ConnectCbFails, reqVars, secVars, treeVars
<1>2. OpsInv' /\ ~LastOk'
  BY <1>0, <1>1, ConnectReported
<1>3. TypeOK'
  <2>1. connect_data \in Owners /\ NoOp \in Owners
    BY <1>0, OpFacts DEF TypeOK, Owners
  <2>2. /\ kind' \in [Ops -> {"none", "connect", "disconnect"}]
        /\ data' \in [Ops -> {"none", "live", "freed", "refused"}]
        /\ reports' \in [Ops -> Seq({"ok", "error"})]
        /\ misused' \subseteq Ops \cup {NoOp}
        /\ connect_data' \in Ops \cup {NoOp}
    BY <1>0, <1>1, <2>1, ReportType
  <2> QED BY <1>0, <1>1, <2>2 DEF TypeOK
<1>4. MidsInv'
  BY <1>0, <1>1, MidsShrink
<1>5. KeysInv'
  BY <1>0, <1>1, KeysKeep
<1>6. SignInv'
  <2>1. SignedWithOwn'
    BY <1>0, <1>1, SignedShrink
  <2>2. \A j \in DOMAIN waitqueue' : waitqueue'[j].owner = NoOp
    BY <1>0, <1>1, ConnectingQueue
  <2> QED BY <1>2, <2>1, <2>2 DEF SignInv
<1>7. TreesConnected'
  BY <1>0, <1>1 DEF TreesConnected
<1> QED BY <1>2, <1>3, <1>4, <1>5, <1>6, <1>7 DEF AllInv

(* connect_cb of a transport that is connected. *)
LEMMA ConnectCbStep ==
    ASSUME AllInv, ConnectCb
    PROVE  AllInv'
<1>0. TypeOK /\ OpsInv /\ MidsInv /\ KeysInv /\ SignInv /\ TreesConnected
  BY DEF AllInv
<1>1. /\ connect_cb /\ conn' = conn + 1 /\ link' = "up" /\ connect_cb' = FALSE
      /\ UNCHANGED <<leftover, mixup, sec, passthrough, keyless>>
      /\ executed' = {} /\ UNCHANGED <<tree_id, tree_id_cur, trees, gone, ctx>>
  BY DEF ConnectCb
<1>2. /\ connect_data \in Ops /\ kind[connect_data] = "connect"
      /\ data[connect_data] = "live" /\ ctx # "destroyed"
      /\ \A j \in DOMAIN waitqueue :
             waitqueue[j].owner = NoOp /\ waitqueue[j].cmd \in RawCmds
  BY <1>0, <1>1, ConnectingQueue
<1>3. /\ conn \in Nat /\ message_id \in Nat /\ sec \in SecType /\ waitqueue \in Seq(Requests)
      /\ sec.signing_key.conn \in Nat /\ sec.signing_key.conn <= conn
      /\ sec.session_key \in Nat /\ sec.session_key <= conn
  BY <1>0 DEF TypeOK, SecType, Keys, KeysInv
<1>4. CASE /\ Queue(waitqueue, Request("NEGOTIATE", connect_data, sec, conn + 1))
           /\ preauth' = Append(InitHash(preauth), Sent(message_id))
           /\ transcript' = <<Sent(message_id)>>
           /\ UNCHANGED <<opVars, connect_data>>
  <2>1. PICK e \in Requests :
          /\ e.cmd = "NEGOTIATE" /\ e.owner = connect_data /\ e.mid = message_id
          /\ waitqueue' = Append(waitqueue, e) /\ message_id' = message_id + 1
    <3>1. conn + 1 \in Nat /\ connect_data \in Owners /\ "NEGOTIATE" \in Cmds
      BY <1>2, <1>3 DEF Owners, Cmds, ConnectCmds
    <3> DEFINE f == Request("NEGOTIATE", connect_data, sec, conn + 1)
    <3>2. /\ f \in Requests
          /\ f.cmd = "NEGOTIATE" /\ f.owner = connect_data /\ f.mid = message_id
      BY <1>0, <1>3, <3>1, RequestType
    <3>3. waitqueue' = Append(waitqueue, f) /\ message_id' = message_id + 1
      BY <1>4 DEF Queue
    <3> HIDE DEF f
    <3> QED BY <3>2, <3>3
  <2>2. UNCHANGED <<kind, data, reports, misused, connect_data>>
    BY <1>4 DEF opVars
  <2>3. /\ preauth' = transcript'
        /\ preauth' \in Seq(Messages) /\ transcript' \in Seq(Messages)
    <3>1. <<>> \in Seq(Messages)
      OBVIOUS
    <3> QED BY <1>3, <1>4, <3>1, HashType DEF InitHash
  <2>4. /\ waitqueue' \in Seq(Requests)
        /\ \A j \in DOMAIN waitqueue' :
               waitqueue'[j] = e \/ \E k \in DOMAIN waitqueue : waitqueue'[j] = waitqueue[k]
    BY <1>3, <2>1, QueueElements
  <2>5. TypeOK'
    <3>1. conn' \in Nat /\ message_id' \in Nat
      BY <1>1, <1>3, <2>1
    <3> QED BY <1>0, <1>1, <2>2, <2>3, <2>4, <3>1 DEF TypeOK, Messages
  <2>6. OpsInv'
    <3>1. \A x \in Ops : OpSound(x)'
      BY <1>0, <2>2 DEF OpsInv, OpSound
    <3>2. /\ misused' = {}
          /\ \A x, y \in Ops : data'[x] = "live" /\ data'[y] = "live" => x = y
      BY <1>0, <2>2 DEF OpsInv
    <3>3. ConnectSound'
      BY <1>0, <1>1, <2>2 DEF OpsInv, ConnectSound
    <3>4. RequestSound(e)'
      BY <1>1, <1>2, <2>1, <2>2, OpFacts DEF RequestSound, ConnectCmds
    <3> QED BY <1>0, <1>1, <1>2, <2>1, <2>2, <3>1, <3>2, <3>3, <3>4, AddKeeps
  <2>7. MidsInv'
    <3>1. ~leftover => MidsFine(waitqueue, message_id)
      BY <1>0 DEF MidsInv, MidsFine
    <3> QED BY <1>0, <1>1, <1>3, <2>1, <3>1, MidsGrow
  <2>8. KeysInv'
    <3>1. /\ sec'.signing_key.conn <= conn' /\ sec'.signing_key.conn # conn'
          /\ sec'.session_key <= conn'
      BY <1>1, <1>3
    <3> QED BY <2>3, <3>1 DEF KeysInv, KeysAgree
  <2>9. SignInv'
    <3>1. SignedWithOwn'
      BY <1>0, <1>1, <2>1, <2>4, SignedKeep
    <3>2. ~LastOk
      BY <1>0, <1>2, NotYetOk
    <3>3. ~LastOk'
      BY <2>2, <3>2 DEF LastOk
    <3>4. \A j \in DOMAIN waitqueue' : waitqueue'[j].owner = NoOp \/ Handshake(waitqueue'[j])
      BY <1>2, <2>1, <2>4 DEF Handshake
    <3> QED BY <3>1, <3>3, <3>4 DEF SignInv, Handshake
  <2>10. TreesConnected'
    BY <1>0, <1>1, <2>2 DEF TreesConnected
  <2> QED BY <2>5, <2>6, <2>7, <2>8, <2>9, <2>10 DEF AllInv
<1>5. CASE /\ Report(connect_data, "error", NoOp)
           /\ preauth' = InitHash(preauth)
           /\ UNCHANGED <<waitqueue, message_id, transcript>>
  <2>1. OpsInv' /\ ~LastOk'
    BY <1>0, <1>1, <1>5, ConnectReported
  <2>2. TypeOK'
    <3>1. connect_data \in Owners /\ NoOp \in Owners
      BY <1>0, OpFacts DEF TypeOK, Owners
    <3>2. /\ kind' \in [Ops -> {"none", "connect", "disconnect"}]
          /\ data' \in [Ops -> {"none", "live", "freed", "refused"}]
          /\ reports' \in [Ops -> Seq({"ok", "error"})]
          /\ misused' \subseteq Ops \cup {NoOp}
          /\ connect_data' \in Ops \cup {NoOp}
      BY <1>0, <1>5, <3>1, ReportType
    <3>3. preauth' \in Seq({"request", "reply"} \X Nat) /\ conn' \in Nat
      BY <1>1, <1>3, <1>5 DEF InitHash
    <3> QED BY <1>0, <1>1, <1>5, <3>2, <3>3 DEF TypeOK
  <2>3. MidsInv'
    BY <1>0, <1>1, <1>5, MidsShrink
  <2>4. KeysInv'
    <3>1. /\ sec'.signing_key.conn <= conn' /\ sec'.signing_key.conn # conn'
          /\ sec'.session_key <= conn'
      BY <1>1, <1>3
    <3>2. \A j \in DOMAIN waitqueue' : ~Handshake(waitqueue'[j])
      BY <1>2, <1>5 DEF Handshake, RawCmds
    <3> QED BY <3>1, <3>2 DEF KeysInv, KeysAgree, Handshake
  <2>5. SignInv'
    <3>1. SignedWithOwn'
      BY <1>0, <1>1, <1>5, SignedShrink
    <3>2. \A j \in DOMAIN waitqueue' : waitqueue'[j].owner = NoOp
      BY <1>2, <1>5
    <3> QED BY <2>1, <3>1, <3>2 DEF SignInv
  <2>6. TreesConnected'
    BY <1>0, <1>1 DEF TreesConnected
  <2> QED BY <2>1, <2>2, <2>3, <2>4, <2>5, <2>6 DEF AllInv
<1> QED BY <1>4, <1>5 DEF ConnectCb

(* send_session_setup_request, when the reply before has been hashed.      *)
LEMMA SendStep ==
    ASSUME AllInv, NEW i \in DOMAIN waitqueue, Handshake(waitqueue[i]),
           waitqueue[i].conn = conn, NEW s \in SecType, s.signing_key = sec.signing_key,
           s.session_key = sec.session_key,
           SendSessionSetup(waitqueue[i].owner, s, Rest(i), <<Received(waitqueue[i].mid)>>)
    PROVE  AllInv'
<1>0. TypeOK /\ OpsInv /\ MidsInv /\ KeysInv /\ SignInv /\ TreesConnected
  BY DEF AllInv
<1> DEFINE m == <<Received(waitqueue[i].mid)>>
<1>1. /\ UNCHANGED <<kind, data, reports, misused>>
      /\ UNCHANGED <<connect_data, connect_cb, link, conn>>
      /\ UNCHANGED <<leftover, mixup, passthrough, keyless>>
      /\ UNCHANGED <<tree_id, tree_id_cur, trees, executed, gone, ctx>>
      /\ sec' = s
      /\ preauth' = preauth \o m \o <<Sent(message_id)>>
      /\ transcript' = transcript \o m \o <<Sent(message_id)>>
  BY DEF SendSessionSetup, opVars, linkVars, treeVars
<1>2. /\ waitqueue[i].owner # NoOp /\ waitqueue[i].owner \in Ops
      /\ kind[waitqueue[i].owner] = "connect" /\ data[waitqueue[i].owner] = "live"
      /\ \A j \in DOMAIN Rest(i) : Rest(i)[j].owner = NoOp /\ Rest(i)[j].cmd \in RawCmds
  BY <1>0, HandshakeOwned, OthersRaw
<1>3. /\ Rest(i) \in Seq(Requests) /\ conn \in Nat /\ message_id \in Nat
      /\ waitqueue[i].mid \in Nat
      /\ preauth \in Seq(Messages) /\ transcript \in Seq(Messages)
      /\ \A j \in DOMAIN Rest(i) : \E k \in DOMAIN waitqueue : Rest(i)[j] = waitqueue[k]
  <2>1. /\ Rest(i) \in Seq(Requests) /\ waitqueue[i].mid \in Nat
        /\ \A j \in DOMAIN Rest(i) : \E k \in DOMAIN waitqueue : Rest(i)[j] = waitqueue[k]
    BY <1>0, RestElements, RestType
  <2>2. /\ conn \in Nat /\ message_id \in Nat
        /\ preauth \in Seq(Messages) /\ transcript \in Seq(Messages)
    BY <1>0 DEF TypeOK, Messages
  <2> QED BY <2>1, <2>2
<1>4. PICK e \in Requests :
        /\ e.cmd = "SESSION_SETUP" /\ e.owner = waitqueue[i].owner /\ e.mid = message_id
        /\ SignedOr(e, keyless)
        /\ waitqueue' = Append(Rest(i), e) /\ message_id' = message_id + 1
  <2> DEFINE f == Request("SESSION_SETUP", waitqueue[i].owner, s, conn)
  <2>1. waitqueue[i].owner \in Owners /\ "SESSION_SETUP" \in Cmds
    BY <1>2 DEF Owners, Cmds, ConnectCmds
  <2>2. /\ f \in Requests
        /\ f.cmd = "SESSION_SETUP" /\ f.owner = waitqueue[i].owner /\ f.mid = message_id
        /\ f.key = SigningConn("SESSION_SETUP", s)
    BY <1>0, <1>3, <2>1, RequestType
  <2>3. waitqueue' = Append(Rest(i), f) /\ message_id' = message_id + 1
    BY DEF SendSessionSetup, Queue
  <2>4. SigningConn("SESSION_SETUP", s) = Unsigned
    BY DEF SigningConn
  <2> HIDE DEF f
  <2> QED BY <2>2, <2>3, <2>4 DEF SignedOr
<1>5. /\ waitqueue' \in Seq(Requests)
      /\ \A j \in DOMAIN waitqueue' :
             waitqueue'[j] = e \/ \E k \in DOMAIN Rest(i) : waitqueue'[j] = Rest(i)[k]
  BY <1>3, <1>4, QueueElements
<1>6. preauth' \in Seq(Messages) /\ transcript' \in Seq(Messages)
  BY <1>1, <1>3, HashType
<1>7. preauth = transcript /\ (sec.signing_key = NoKey \/ sec.signing_key.conn # conn)
  BY <1>0 DEF KeysInv
<1>8. TypeOK'
  <2>1. message_id' \in Nat
    BY <1>3, <1>4
  <2> QED BY <1>0, <1>1, <1>5, <1>6, <2>1 DEF TypeOK, SecType, Messages
<1>9. OpsInv'
  <2>1. e.cmd \in ConnectCmds /\ waitqueue[i].cmd \in ConnectCmds
    BY <1>4 DEF ConnectCmds, Handshake
  <2>2. UNCHANGED <<opVars, linkVars, ctx>>
    BY <1>1 DEF opVars, linkVars
  <2> QED BY <1>0, <1>2, <1>4, <2>1, <2>2, ChainKeeps
<1>10. MidsInv'
  <2>1. ~leftover => MidsFine(Rest(i), message_id)
    BY <1>0, MidsRest
  <2> QED BY <1>0, <1>1, <1>3, <1>4, <2>1, MidsGrow
<1>11. KeysInv'
  <2>1. preauth' = transcript'
    BY <1>1, <1>7
  <2>2. /\ sec'.signing_key = sec.signing_key /\ sec'.session_key = sec.session_key
        /\ conn' = conn
    BY <1>1
  <2>3. sec'.signing_key.conn <= conn' /\ sec'.session_key <= conn'
    BY <1>0, <2>2 DEF KeysInv
  <2> QED BY <1>7, <2>1, <2>2, <2>3 DEF KeysInv, KeysAgree
<1>12. SignInv'
  <2>1. SignedWithOwn'
    <3>1. \A j \in DOMAIN waitqueue' :
              waitqueue'[j] = e \/ \E k \in DOMAIN waitqueue : waitqueue'[j] = waitqueue[k]
      BY <1>3, <1>5
    <3> QED BY <1>0, <1>1, <1>4, <3>1, SignedKeep
  <2>2. ~LastOk
    BY <1>0, <1>2, NotYetOk
  <2>3. ~LastOk'
    BY <1>1, <2>2 DEF LastOk
  <2>4. \A j \in DOMAIN waitqueue' : waitqueue'[j].owner = NoOp \/ Handshake(waitqueue'[j])
    BY <1>2, <1>4, <1>5 DEF Handshake
  <2> QED BY <2>1, <2>3, <2>4 DEF SignInv, Handshake
<1>13. TreesConnected'
  BY <1>0, <1>1 DEF TreesConnected
<1> QED BY <1>8, <1>9, <1>10, <1>11, <1>12, <1>13 DEF AllInv

(* A request that is answered is one of the current connection.            *)
LEMMA OwedFacts ==
    ASSUME AllInv, NEW i \in DOMAIN waitqueue, NEW cmd, Owed(i, cmd)
    PROVE  /\ ctx = "active" /\ link = "up" /\ waitqueue[i].conn = conn
           /\ waitqueue[i].cmd = cmd
           /\ cmd \in {"NEGOTIATE", "SESSION_SETUP"} =>
                  /\ Handshake(waitqueue[i]) /\ waitqueue[i].owner # NoOp
                  /\ kind[waitqueue[i].owner] = "connect"
           /\ preauth \o <<Received(waitqueue[i].mid)>> \in Seq(Messages)
           /\ transcript \o <<Received(waitqueue[i].mid)>> \in Seq(Messages)
<1>1. /\ ctx = "active" /\ link = "up" /\ waitqueue[i].conn = conn
      /\ waitqueue[i].cmd = cmd
  BY DEF Owed
<1>2. TypeOK /\ OpsInv
  BY DEF AllInv
<1>3. cmd \in {"NEGOTIATE", "SESSION_SETUP"} =>
          /\ Handshake(waitqueue[i]) /\ waitqueue[i].owner # NoOp
          /\ kind[waitqueue[i].owner] = "connect"
  <2>1. cmd \in {"NEGOTIATE", "SESSION_SETUP"} => Handshake(waitqueue[i])
    BY <1>1 DEF Handshake
  <2> QED BY <1>2, <2>1, HandshakeOwned
<1>4. /\ preauth \in Seq(Messages) /\ transcript \in Seq(Messages)
      /\ waitqueue[i].mid \in Nat /\ 0 \in Nat
  BY <1>2, RestType DEF TypeOK, Messages
<1>5. /\ preauth \o <<Received(waitqueue[i].mid)>> \in Seq(Messages)
      /\ transcript \o <<Received(waitqueue[i].mid)>> \in Seq(Messages)
  BY <1>4, HashType
<1> QED BY <1>1, <1>3, <1>5

(* negotiate_cb. *)
LEMMA NegotiateStep ==
    ASSUME AllInv, NEW i \in DOMAIN waitqueue, NegotiateCb(i)
    PROVE  AllInv'
<1> DEFINE e == waitqueue[i]
           m == <<Received(e.mid)>>
<1>0. TypeOK
  BY DEF AllInv
<1>1. /\ Handshake(e) /\ e.owner # NoOp /\ e.conn = conn
      /\ preauth \o m \in Seq(Messages) /\ transcript \o m \in Seq(Messages)
  BY OwedFacts DEF NegotiateCb
<1>2. ASSUME NEW s \in SecType, FailReading(e.owner, s, Rest(i)),
             preauth' = preauth \o m, transcript' = transcript \o m, UNCHANGED keyless
      PROVE  AllInv'
  <2>1. Fail(e.owner, s, Rest(i), "failed")
    BY <1>2 DEF FailReading
  <2>2. keyless' \subseteq Nat /\ keyless \subseteq keyless'
    BY <1>0, <1>2 DEF TypeOK
  <2> QED BY <1>1, <1>2, <2>1, <2>2, FailStep
<1>3. ASSUME NEW rep \in NegotiateReplies,
             SendSessionSetup(e.owner, Negotiated(rep), Rest(i), m)
      PROVE  AllInv'
  <2>1. /\ Negotiated(rep) \in SecType /\ Negotiated(rep).signing_key = sec.signing_key
        /\ Negotiated(rep).session_key = sec.session_key
    BY <1>0, SecTypes DEF Negotiated, SecType
  <2> QED BY <1>1, <1>3, <2>1, SendStep
<1>4. /\ sec \in SecType
      /\ \A rep \in NegotiateReplies :
             /\ Negotiated(rep) \in SecType /\ [sec EXCEPT !.dialect = rep.dialect] \in SecType
  BY <1>0, SecTypes
<1>5. \/ \E rep \in NegotiateReplies :
            \/ /\ preauth' = preauth \o m /\ transcript' = transcript \o m /\ UNCHANGED keyless
               /\ FailReading(e.owner, [sec EXCEPT !.dialect = rep.dialect], Rest(i))
            \/ SendSessionSetup(e.owner, Negotiated(rep), Rest(i), m)
            \/ /\ preauth' = preauth \o m /\ transcript' = transcript \o m /\ UNCHANGED keyless
               /\ FailReading(e.owner, Negotiated(rep), Rest(i))
      \/ /\ preauth' = preauth \o m /\ transcript' = transcript \o m /\ UNCHANGED keyless
         /\ FailReading(e.owner, sec, Rest(i))
  BY DEF NegotiateCb
<1> HIDE DEF e, m
<1> QED BY <1>2, <1>3, <1>4, <1>5

(* session_setup_cb, when the exchange goes on. *)
LEMMA SetupMoreStep ==
    ASSUME AllInv, NEW i \in DOMAIN waitqueue, SessionSetupMore(i)
    PROVE  AllInv'
<1> DEFINE e == waitqueue[i]
           m == <<Received(e.mid)>>
           s == [sec EXCEPT !.session_id = conn]
<1>0. TypeOK
  BY DEF AllInv
<1>1. /\ Handshake(e) /\ e.owner # NoOp /\ e.conn = conn
      /\ preauth \o m \in Seq(Messages) /\ transcript \o m \in Seq(Messages)
  BY OwedFacts DEF SessionSetupMore
<1>2. s \in SecType /\ s.signing_key = sec.signing_key /\ s.session_key = sec.session_key
  BY <1>0, SecTypes DEF SecType
<1>3. CASE SendSessionSetup(e.owner, s, Rest(i), m)
  BY <1>1, <1>2, <1>3, SendStep
<1>4. CASE /\ preauth' = preauth \o m /\ transcript' = transcript \o m
           /\ FailReading(e.owner, s, Rest(i)) /\ UNCHANGED keyless
  <2>1. Fail(e.owner, s, Rest(i), "failed")
    BY <1>4 DEF FailReading
  <2>2. keyless' \subseteq Nat /\ keyless \subseteq keyless'
    BY <1>0, <1>4 DEF TypeOK
  <2> QED BY <1>1, <1>2, <1>4, <2>1, <2>2, FailStep
<1> QED BY <1>3, <1>4 DEF SessionSetupMore

(* A connect is ended by the reply or the timeout of a later request.      *)
LEMMA EndStep ==
    ASSUME AllInv, NEW i \in DOMAIN waitqueue, waitqueue[i].owner # NoOp,
           NEW s \in SecType, NEW c \in {ctx, "failed"},
           Fail(waitqueue[i].owner, s, Rest(i), c), UNCHANGED <<preauth, transcript>>,
           keyless \subseteq keyless', keyless' \subseteq Nat
    PROVE  AllInv'
<1>1. preauth' \in Seq(Messages) /\ transcript' \in Seq(Messages)
  BY DEF AllInv, TypeOK, Messages
<1> QED BY <1>1, FailStep

(* The connections without a session key, after session_setup_cb with s.   *)
KeylessAfter(s, key) ==
    IF Needed(s) /\ key = "none" THEN keyless \cup {conn} ELSE keyless

(* The keys session_setup_cb derives, when it does not give up: of this    *)
(* connection, over the messages both sides have hashed, or, when only the *)
(* TREE_CONNECT is signed with it, of whatever session key there is.       *)
LEMMA KeyedFacts ==
    ASSUME AllInv, NEW i \in DOMAIN waitqueue, Handshake(waitqueue[i]),
           waitqueue[i].conn = conn, NEW encrypt \in BOOLEAN, NEW key \in KeySorts,
           ~Refused(Granted(encrypt), key),
           NEW s, s = Keyed(Granted(encrypt), key),
           sec' = s, UNCHANGED <<conn, preauth, transcript>>,
           keyless' = KeylessAfter(Granted(encrypt), key),
           \A j \in DOMAIN waitqueue' : ~Handshake(waitqueue'[j])
    PROVE  s \in SecType /\ OwnKeyOr(s, keyless') /\ OwnKey(sec)' /\ KeysInv'
<1>0. TypeOK /\ KeysInv /\ conn \in Nat
  BY DEF AllInv, TypeOK
<1> DEFINE g == Granted(encrypt)
           h == Had(g, key)
<1>1. s \in SecType /\ g \in SecType /\ sec \in SecType
  BY <1>0, KeyedType DEF TypeOK, SecType
<1>2. preauth = transcript /\ (sec.signing_key = NoKey \/ sec.signing_key.conn # conn)
  BY <1>0 DEF KeysInv
<1>3. /\ g.signing_key = sec.signing_key /\ g.session_key = sec.session_key
      /\ g.sign \in BOOLEAN
  BY <1>1 DEF Granted, SecType
<1>4. /\ sec.signing_key.conn \in Nat /\ sec.signing_key.conn <= conn
      /\ sec.session_key \in Nat /\ sec.session_key <= conn
  BY <1>0, <1>1 DEF SecType, Keys, KeysInv
<1>same. OwnKeyOr(s, keyless') => OwnKey(sec)'
  BY DEF OwnKey, OwnKeyOr
<1>5. CASE Needed(g)
  <2>1. /\ h \in SecType /\ h.sign = g.sign /\ h.dialect = g.dialect
        /\ h.signing_key = sec.signing_key
        /\ h.session_key = IF key = "none" THEN sec.session_key ELSE conn
    BY <1>0, <1>1, <1>3 DEF Had, SecType
  <2>2. /\ s.signing_key = SigningKey(h) /\ s.sign = h.sign
        /\ s.session_key = h.session_key
    BY <1>5, <2>1 DEF Keyed, SecType
  <2> HIDE DEF g, h
  <2>3. \/ h.session_key = 0 /\ s.signing_key = sec.signing_key
        \/ s.signing_key = [conn |-> h.session_key, hash |-> preauth]
    BY <2>1, <2>2 DEF SigningKey
  <2>4. KeysInv'
    <3>1. CASE h.session_key = 0 /\ s.signing_key = sec.signing_key
      <4>1. s.signing_key.conn <= conn /\ s.session_key <= conn
        BY <1>0, <1>4, <2>2, <3>1
      <4> QED BY <1>2, <3>1, <4>1 DEF KeysInv, KeysAgree, Handshake
    <3>2. CASE s.signing_key = [conn |-> h.session_key, hash |-> preauth]
      <4>1. s.signing_key.conn = h.session_key /\ s.signing_key.hash = transcript
        BY <1>2, <3>2
      <4>2. s.signing_key.conn <= conn /\ s.session_key <= conn
        BY <1>0, <1>4, <2>1, <2>2, <4>1
      <4> QED BY <4>1, <4>2 DEF KeysInv, KeysAgree, Handshake
    <3> QED BY <2>3, <3>1, <3>2
  <2>5. OwnKeyOr(s, keyless')
    <3>1. CASE key = "none"
      <4>1. ~s.sign
        BY <2>1, <2>2, <3>1 DEF g, Refused
      <4>2. conn \in keyless'
        BY <1>5, <3>1 DEF KeylessAfter, g
      <4> QED BY <4>1, <4>2 DEF OwnKeyOr
    <3>2. CASE key # "none"
      <4>1. h.session_key = conn
        BY <2>1, <3>2
      <4>2. s.signing_key.conn = conn
        <5>1. CASE h.session_key = 0 /\ s.signing_key = sec.signing_key
          BY <1>0, <1>4, <4>1, <5>1
        <5>2. CASE s.signing_key = [conn |-> h.session_key, hash |-> preauth]
          BY <4>1, <5>2
        <5> QED BY <2>3, <5>1, <5>2
      <4> QED BY <4>2 DEF OwnKeyOr
    <3> QED BY <3>1, <3>2
  <2> QED BY <1>1, <1>same, <2>4, <2>5
<1>6. CASE ~Needed(g)
  <2>1. s = g
    BY <1>6 DEF Keyed
  <2>2. ~s.sign /\ s.dialect # 311
    BY <1>6, <2>1 DEF Needed
  <2>3. KeysInv'
    BY <1>0, <1>3, <2>1 DEF KeysInv, KeysAgree, Handshake
  <2> QED BY <1>1, <1>same, <2>2, <2>3 DEF OwnKeyOr
<1> QED BY <1>5, <1>6

(* session_setup_cb reports the operation and keeps the transport: the     *)
(* signature was wrong, or in passthrough mode everything is in order.     *)
LEMMA SetupReportStep ==
    ASSUME AllInv, NEW i \in DOMAIN waitqueue, Handshake(waitqueue[i]),
           waitqueue[i].conn = conn, NEW encrypt \in BOOLEAN, NEW key \in KeySorts,
           ~Refused(Granted(encrypt), key),
           keyless' = KeylessAfter(Granted(encrypt), key),
           NEW st \in {"ok", "error"}, Report(waitqueue[i].owner, st, NoOp),
           sec' = Keyed(Granted(encrypt), key), waitqueue' = Rest(i),
           UNCHANGED <<connect_cb, link, conn, message_id, leftover, mixup>>,
           UNCHANGED <<preauth, transcript, passthrough, treeVars, ctx>>
    PROVE  AllInv'
<1>0. TypeOK /\ OpsInv /\ MidsInv /\ KeysInv /\ SignInv /\ TreesConnected
  BY DEF AllInv
<1>1. /\ waitqueue[i].owner # NoOp /\ waitqueue[i].owner \in Ops
      /\ kind[waitqueue[i].owner] = "connect" /\ data[waitqueue[i].owner] = "live"
      /\ ~connect_cb /\ ctx # "destroyed"
      /\ \A j \in DOMAIN waitqueue' : /\ waitqueue'[j].owner = NoOp
                                     /\ waitqueue'[j].cmd \in RawCmds
  BY <1>0, HandshakeOwned, OthersRaw
<1>2. /\ waitqueue' \in Seq(Requests)
      /\ \A j \in DOMAIN waitqueue' : \E k \in DOMAIN waitqueue : waitqueue'[j] = waitqueue[k]
  BY <1>0, RestElements
<1>3. \A j \in DOMAIN waitqueue' : ~Handshake(waitqueue'[j])
  BY <1>1 DEF Handshake, RawCmds
<1>4. sec' \in SecType /\ OwnKey(sec)' /\ KeysInv'
  BY <1>3, KeyedFacts
<1>5. /\ UNCHANGED <<tree_id, tree_id_cur, trees, executed, gone>>
      /\ NoOp \in Owners /\ waitqueue[i].owner \in Owners
  BY <1>1, OpFacts DEF treeVars
<1>less. keyless \subseteq keyless' /\ keyless' \subseteq Nat
  BY <1>0 DEF KeylessAfter, TypeOK
<1>6. TypeOK'
  <2>1. /\ kind' \in [Ops -> {"none", "connect", "disconnect"}]
        /\ data' \in [Ops -> {"none", "live", "freed", "refused"}]
        /\ reports' \in [Ops -> Seq({"ok", "error"})]
        /\ misused' \subseteq Ops \cup {NoOp}
        /\ connect_data' \in Ops \cup {NoOp}
    BY <1>0, <1>5, ReportType
  <2> QED BY <1>0, <1>2, <1>4, <1>5, <1>less, <2>1 DEF TypeOK, SecType
<1>7. OpsInv'
  <2>1. connect_cb' = (NoOp # NoOp)
    BY <1>0, <1>1 DEF TypeOK
  <2> QED BY <1>0, <1>1, <1>5, <2>1, ReportKeeps
<1>8. MidsInv'
  BY <1>0, MidsShrink
<1>9. SignInv'
  <2>1. SignedWithOwn'
    BY <1>0, <1>2, <1>less, SignedShrink
  <2> QED BY <1>4, <2>1 DEF SignInv
<1>10. TreesConnected'
  BY <1>0, <1>5 DEF TreesConnected
<1> QED BY <1>4, <1>6, <1>7, <1>8, <1>9, <1>10 DEF AllInv

(* session_setup_cb goes on with TREE_CONNECT. *)
LEMMA SetupChainStep ==
    ASSUME AllInv, NEW i \in DOMAIN waitqueue, Handshake(waitqueue[i]),
           waitqueue[i].conn = conn, NEW encrypt \in BOOLEAN, NEW key \in KeySorts,
           ~Refused(Granted(encrypt), key),
           keyless' = KeylessAfter(Granted(encrypt), key),
           NEW s, s = Keyed(Granted(encrypt), key), sec' = s,
           Queue(Rest(i), Request("TREE_CONNECT", waitqueue[i].owner, s, conn)),
           UNCHANGED <<opVars, linkVars, leftover, mixup>>,
           UNCHANGED <<preauth, transcript, passthrough, treeVars, ctx>>
    PROVE  AllInv'
<1>0. TypeOK /\ OpsInv /\ MidsInv /\ KeysInv /\ SignInv /\ TreesConnected
  BY DEF AllInv
<1>1. /\ waitqueue[i].owner # NoOp /\ waitqueue[i].owner \in Ops
      /\ kind[waitqueue[i].owner] = "connect" /\ data[waitqueue[i].owner] = "live"
      /\ \A j \in DOMAIN Rest(i) : Rest(i)[j].owner = NoOp /\ Rest(i)[j].cmd \in RawCmds
  BY <1>0, HandshakeOwned, OthersRaw
<1>2. /\ Rest(i) \in Seq(Requests) /\ message_id \in Nat /\ conn \in Nat
      /\ \A j \in DOMAIN Rest(i) : \E k \in DOMAIN waitqueue : Rest(i)[j] = waitqueue[k]
  BY <1>0, RestElements DEF TypeOK
<1>3. UNCHANGED <<kind, data, reports, misused, connect_data, connect_cb, link, conn,
                  tree_id, tree_id_cur, trees, executed, gone>>
  BY DEF opVars, linkVars, treeVars
<1>4. s \in SecType
  BY <1>0, KeyedType
<1>less. keyless \subseteq keyless' /\ keyless' \subseteq Nat
  BY <1>0 DEF KeylessAfter, TypeOK
<1>5. PICK e \in Requests :
        /\ e = Request("TREE_CONNECT", waitqueue[i].owner, s, conn)
        /\ e.cmd = "TREE_CONNECT" /\ e.owner = waitqueue[i].owner /\ e.mid = message_id
        /\ waitqueue' = Append(Rest(i), e) /\ message_id' = message_id + 1
  <2> DEFINE f == Request("TREE_CONNECT", waitqueue[i].owner, s, conn)
  <2>1. waitqueue[i].owner \in Owners /\ "TREE_CONNECT" \in Cmds
    BY <1>1 DEF Owners, Cmds, ConnectCmds
  <2>2. /\ f \in Requests
        /\ f.cmd = "TREE_CONNECT" /\ f.owner = waitqueue[i].owner /\ f.mid = message_id
    BY <1>0, <1>2, <1>4, <2>1, RequestType
  <2>3. waitqueue' = Append(Rest(i), f) /\ message_id' = message_id + 1
    BY DEF Queue
  <2> QED BY <2>2, <2>3
<1>6. /\ waitqueue' \in Seq(Requests)
      /\ \A j \in DOMAIN waitqueue' :
             waitqueue'[j] = e \/ \E k \in DOMAIN Rest(i) : waitqueue'[j] = Rest(i)[k]
  BY <1>2, <1>5, QueueElements
<1>7. \A j \in DOMAIN waitqueue' : ~Handshake(waitqueue'[j])
  BY <1>1, <1>5, <1>6 DEF Handshake, RawCmds
<1>8. OwnKeyOr(s, keyless') /\ OwnKey(sec)' /\ KeysInv'
  BY <1>3, <1>7, KeyedFacts
<1>9. TypeOK'
  <2>1. message_id' \in Nat
    BY <1>2, <1>5
  <2> QED BY <1>0, <1>3, <1>4, <1>6, <1>less, <2>1 DEF TypeOK, SecType
<1>10. OpsInv'
  <2>1. e.cmd \in ConnectCmds /\ waitqueue[i].cmd \in ConnectCmds
    BY <1>5 DEF ConnectCmds, Handshake
  <2>2. UNCHANGED <<opVars, linkVars, ctx>>
    OBVIOUS
  <2> QED BY <1>0, <1>1, <1>5, <2>1, <2>2, ChainKeeps
<1>11. MidsInv'
  <2>1. ~leftover => MidsFine(Rest(i), message_id)
    BY <1>0, MidsRest
  <2> QED BY <1>0, <1>2, <1>5, <2>1, MidsGrow
<1>12. SignInv'
  <2>1. SignedOr(e, keyless')
    BY <1>0, <1>4, <1>5, <1>8, SignedRequest
  <2>2. SignedWithOwn'
    <3>1. \A j \in DOMAIN waitqueue' :
              waitqueue'[j] = e \/ \E k \in DOMAIN waitqueue : waitqueue'[j] = waitqueue[k]
      BY <1>2, <1>6
    <3> QED BY <1>0, <1>less, <2>1, <3>1, SignedKeep
  <2> QED BY <1>8, <2>2 DEF SignInv
<1>13. TreesConnected'
  BY <1>0, <1>3 DEF TreesConnected
<1> QED BY <1>8, <1>9, <1>10, <1>11, <1>12, <1>13 DEF AllInv

(* session_setup_cb, when the session is granted. *)
LEMMA SetupDoneStep ==
    ASSUME AllInv, NEW i \in DOMAIN waitqueue, SessionSetupDone(i)
    PROVE  AllInv'
<1> DEFINE o == waitqueue[i].owner
<1>0. TypeOK
  BY DEF AllInv
<1>1. Handshake(waitqueue[i]) /\ o # NoOp /\ waitqueue[i].conn = conn
  BY OwedFacts DEF SessionSetupDone
<1>2. PICK encrypt \in BOOLEAN, signatureok \in BOOLEAN, key \in KeySorts :
        /\ \/ /\ Needed(Granted(encrypt)) /\ Refused(Granted(encrypt), key)
              /\ FailReading(o, Granted(encrypt), Rest(i))
              /\ UNCHANGED <<preauth, transcript>>
           \/ /\ Needed(Granted(encrypt)) /\ ~Refused(Granted(encrypt), key) /\ ~signatureok
              /\ Report(o, "error", NoOp)
              /\ sec' = Keyed(Granted(encrypt), key) /\ waitqueue' = Rest(i)
              /\ UNCHANGED <<connect_cb, link, conn, message_id, leftover, mixup,
                             preauth, transcript, passthrough, treeVars, ctx>>
           \/ /\ Needed(Granted(encrypt)) => signatureok /\ ~Refused(Granted(encrypt), key)
              /\ ~passthrough
              /\ FailReading(o, Keyed(Granted(encrypt), key), Rest(i))
              /\ UNCHANGED <<preauth, transcript>>
           \/ /\ Needed(Granted(encrypt)) => signatureok /\ ~Refused(Granted(encrypt), key)
              /\ sec' = Keyed(Granted(encrypt), key)
              /\ IF passthrough
                 THEN /\ Report(o, "ok", NoOp)
                      /\ waitqueue' = Rest(i)
                      /\ UNCHANGED <<connect_cb, link, conn, message_id>>
                 ELSE /\ Queue(Rest(i), Request("TREE_CONNECT", o, Keyed(Granted(encrypt), key), conn))
                      /\ UNCHANGED <<opVars, linkVars>>
              /\ UNCHANGED <<leftover, mixup, preauth, transcript, passthrough,
                             treeVars, ctx>>
        /\ keyless' = KeylessAfter(Granted(encrypt), key)
  BY DEF SessionSetupDone, Granted, Needed, Refused, Had, Keyed, KeylessAfter, KeySorts
<1>3. Granted(encrypt) \in SecType /\ Keyed(Granted(encrypt), key) \in SecType
  BY <1>0, KeyedType
<1>sign. (Needed(Granted(encrypt)) => ~Refused(Granted(encrypt), key))
             => ~Refused(Granted(encrypt), key)
  BY DEF Needed, Refused
<1>less. keyless \subseteq keyless' /\ keyless' \subseteq Nat
  BY <1>0, <1>2 DEF KeylessAfter, TypeOK
<1>4. ASSUME NEW s \in SecType, FailReading(o, s, Rest(i)), UNCHANGED <<preauth, transcript>>
      PROVE  AllInv'
  <2>1. Fail(o, s, Rest(i), "failed")
    BY <1>4 DEF FailReading
  <2> QED BY <1>1, <1>4, <1>less, <2>1, EndStep
<1>5. CASE FailReading(o, Granted(encrypt), Rest(i)) /\ UNCHANGED <<preauth, transcript>>
  BY <1>3, <1>4, <1>5
<1>6. CASE FailReading(o, Keyed(Granted(encrypt), key), Rest(i)) /\ UNCHANGED <<preauth, transcript>>
  BY <1>3, <1>4, <1>6
<1>7. ASSUME NEW st \in {"ok", "error"}, Report(o, st, NoOp),
             ~Refused(Granted(encrypt), key),
             sec' = Keyed(Granted(encrypt), key), waitqueue' = Rest(i),
             UNCHANGED <<connect_cb, link, conn, message_id, leftover, mixup>>,
             UNCHANGED <<preauth, transcript, passthrough, treeVars, ctx>>
      PROVE  AllInv'
  BY <1>1, <1>2, <1>7, SetupReportStep
<1>8. CASE /\ ~Refused(Granted(encrypt), key)
           /\ Queue(Rest(i), Request("TREE_CONNECT", o, Keyed(Granted(encrypt), key), conn))
           /\ sec' = Keyed(Granted(encrypt), key)
           /\ UNCHANGED <<opVars, linkVars, leftover, mixup>>
           /\ UNCHANGED <<preauth, transcript, passthrough, treeVars, ctx>>
  <2>1. PICK s : s = Keyed(Granted(encrypt), key)
    OBVIOUS
  <2>2. sec' = s /\ Queue(Rest(i), Request("TREE_CONNECT", o, s, conn))
    BY <1>8, <2>1
  <2>3. keyless' = KeylessAfter(Granted(encrypt), key)
    BY <1>2
  <2> QED BY <1>1, <1>8, <2>1, <2>2, <2>3, SetupChainStep
<1> HIDE DEF o
<1> QED BY <1>2, <1>5, <1>6, <1>7, <1>8, <1>sign

(* smb2_connect_tree_id. *)
LEMMA ConnectedTree ==
    ASSUME TypeOK, NEW t \in TreeIds \ trees, TreeConnected(t)
    PROVE  /\ tree_id' \in Seq(TreeIds) /\ Len(tree_id') < MaxTree
           /\ tree_id_cur' \in 0..Len(tree_id')
           /\ Range(tree_id') \subseteq Range(tree_id) \cup {t}
<1>0. /\ tree_id \in Seq(TreeIds) /\ Len(tree_id) \in Nat /\ Len(tree_id) < MaxTree
      /\ tree_id_cur \in 0..Len(tree_id) /\ MaxTree \in Nat
  BY SessionAssumption, SeqElements DEF TypeOK
<1>1. CASE Len(tree_id) < MaxTree - 1
  <2>1. tree_id' = Append(tree_id, t) /\ tree_id_cur' = Len(tree_id) + 1
    BY <1>1 DEF TreeConnected
  <2>2. Append(tree_id, t) \in Seq(TreeIds) /\ Len(Append(tree_id, t)) = Len(tree_id) + 1
    BY <1>0, AppendIndex
  <2>3. Range(tree_id') \subseteq Range(tree_id) \cup {t}
    <3>1. \A j \in DOMAIN tree_id' : tree_id'[j] = t \/ (j \in DOMAIN tree_id /\ tree_id'[j] = tree_id[j])
      BY <1>0, <2>1, AppendIndex
    <3> QED BY <3>1 DEF Range
  <2> QED BY <1>0, <1>1, <2>1, <2>2, <2>3
<1>2. CASE ~(Len(tree_id) < MaxTree - 1)
  <2>1. UNCHANGED <<tree_id, tree_id_cur>>
    BY <1>2 DEF TreeConnected
  <2> QED BY <1>0, <2>1
<1> QED BY <1>1, <1>2

(* smb2_disconnect_tree_id. *)
LEMMA DisconnectedTree ==
    ASSUME TypeOK, NEW t, TreeDisconnected(t)
    PROVE  /\ tree_id' \in Seq(TreeIds) /\ Len(tree_id') < MaxTree
           /\ tree_id_cur' \in 0..Len(tree_id')
           /\ Range(tree_id) \subseteq trees \cup gone =>
                  Range(tree_id') \subseteq trees \cup StillGone(t)
<1>0. /\ tree_id \in Seq(TreeIds) /\ Len(tree_id) \in Nat /\ Len(tree_id) < MaxTree
      /\ tree_id_cur \in 0..Len(tree_id) /\ MaxTree \in Nat
      /\ DOMAIN tree_id = 1..Len(tree_id)
      /\ \A x : x \in Range(tree_id) <=> \E j \in 1..Len(tree_id) : tree_id[j] = x
  BY SessionAssumption, SeqElements DEF TypeOK
<1>1. PICK i : i = IndexOf(tree_id, t)
  OBVIOUS
<1>2. IF i # 0
      THEN tree_id' = RemoveAt(tree_id, i) /\ tree_id_cur' = CurAfter(Len(tree_id) - 1)
      ELSE UNCHANGED <<tree_id, tree_id_cur>>
  BY <1>1 DEF TreeDisconnected, IndexOf
<1>3. CASE i = 0 /\ t \notin Range(tree_id)
  BY <1>0, <1>2, <1>3 DEF StillGone
<1>4. CASE i # 0 /\ i \in DOMAIN tree_id /\ tree_id[i] = t
  <2>1. tree_id' = RemoveAt(tree_id, i) /\ tree_id_cur' = CurAfter(Len(tree_id) - 1)
    BY <1>2, <1>4
  <2>2. tree_id' \in Seq(TreeIds) /\ Len(tree_id') = Len(tree_id) - 1
    BY <1>0, <1>4, <2>1, RemoveAtSeq
  <2>3. tree_id_cur' \in 0..Len(tree_id')
    BY <1>0, <1>4, <2>1, <2>2 DEF CurAfter
  <2>4. ASSUME Range(tree_id) \subseteq trees \cup gone, NEW x \in Range(tree_id')
        PROVE  x \in trees \cup StillGone(t)
    <3>1. LeavesOut(tree_id', tree_id, i)
      BY <1>0, <1>4, <2>1, RemoveAtIndex
    <3>2. PICK j \in DOMAIN tree_id' : tree_id'[j] = x
      BY DEF Range
    <3>3. PICK k \in DOMAIN tree_id : k # i /\ tree_id[k] = x
      BY <3>1, <3>2 DEF LeavesOut
    <3>4. x \in trees \cup gone
      BY <2>4, <3>3 DEF Range
    <3> QED BY <1>4, <3>3, <3>4 DEF StillGone
  <2> QED BY <1>0, <2>2, <2>3, <2>4
<1>5. \/ i = 0 /\ t \notin Range(tree_id)
      \/ i # 0 /\ i \in DOMAIN tree_id /\ tree_id[i] = t
  BY <1>0, <1>1, IndexOfEntry
<1> QED BY <1>3, <1>4, <1>5

(* A request of an operation reports it, and leaves keys and connection as *)
(* they are: what holds of everything but the trees.                       *)
LEMMA ReportStep ==
    ASSUME AllInv, NEW i \in DOMAIN waitqueue, waitqueue[i].owner # NoOp,
           NEW st \in {"ok", "error"}, Report(waitqueue[i].owner, st, NoOp),
           waitqueue' = Rest(i), ctx' \in {ctx, "failed"}, link' \in {link, "closed"},
           UNCHANGED <<connect_cb, conn, message_id, leftover, mixup>>,
           UNCHANGED <<preauth, transcript, passthrough, keyless, executed>>,
           sec' \in SecType, sec'.signing_key = sec.signing_key,
           sec'.session_key = sec.session_key,
           OwnKey(sec) => OwnKey(sec)',
           \/ kind[waitqueue[i].owner] = "disconnect"
           \/ OwnKey(sec) /\ st = "ok",
           tree_id' \in Seq(TreeIds) /\ Len(tree_id') < MaxTree,
           tree_id_cur' \in 0..Len(tree_id'), trees' \subseteq TreeIds,
           gone' \subseteq TreeIds
    PROVE  /\ TypeOK' /\ OpsInv' /\ MidsInv' /\ KeysInv' /\ SignInv'
           /\ ctx # "destroyed"
<1>0. TypeOK /\ OpsInv /\ MidsInv /\ KeysInv /\ SignInv
  BY DEF AllInv
<1>1. PICK o \in Ops : o = waitqueue[i].owner
  BY <1>0, OthersRaw
<1>2. /\ data[o] = "live" /\ ~connect_cb /\ ctx # "destroyed"
      /\ \A j \in DOMAIN waitqueue' : /\ waitqueue'[j].owner = NoOp
                                     /\ waitqueue'[j].cmd \in RawCmds
  BY <1>0, <1>1, OthersRaw
<1>3. /\ waitqueue' \in Seq(Requests)
      /\ \A j \in DOMAIN waitqueue' : \E k \in DOMAIN waitqueue : waitqueue'[j] = waitqueue[k]
  BY <1>0, RestElements
<1>4. NoOp \in Owners /\ o \in Owners /\ Report(o, st, NoOp)
  BY <1>1, OpFacts
<1>5. TypeOK'
  <2>1. /\ kind' \in [Ops -> {"none", "connect", "disconnect"}]
        /\ data' \in [Ops -> {"none", "live", "freed", "refused"}]
        /\ reports' \in [Ops -> Seq({"ok", "error"})]
        /\ misused' \subseteq Ops \cup {NoOp}
        /\ connect_data' \in Ops \cup {NoOp}
    BY <1>0, <1>4, ReportType
  <2> QED BY <1>0, <1>3, <2>1 DEF TypeOK, SecType
<1>6. OpsInv'
  <2>1. connect_cb' = (NoOp # NoOp)
    BY <1>0, <1>2 DEF TypeOK
  <2> QED BY <1>0, <1>4, <2>1, ReportKeeps
<1>7. MidsInv'
  BY <1>0, MidsShrink
<1>8. KeysInv'
  BY <1>0, <1>3, KeysKeep
<1>9. SignInv'
  <2>1. SignedWithOwn'
    BY <1>0, <1>3, SignedShrink
  <2>2. LastOk' /\ link' = "up" => OwnKey(sec)'
    <3>1. CASE kind[waitqueue[i].owner] = "disconnect"
      <4>1. LastOk' => LastOk
        BY <1>0, <1>1, <1>2, <1>4, <3>1, StillOk
      <4>2. link' = "up" => link = "up"
        OBVIOUS
      <4> QED BY <1>0, <4>1, <4>2 DEF SignInv
    <3>2. CASE OwnKey(sec)
      BY <3>2
    <3> QED BY <3>1, <3>2
  <2> QED BY <1>2, <2>1, <2>2 DEF SignInv
<1> QED BY <1>2, <1>5, <1>6, <1>7, <1>8, <1>9

(* tree_connect_cb, and the reply to a raw TREE_CONNECT. *)
LEMMA TreeConnectStep ==
    ASSUME AllInv, NEW i \in DOMAIN waitqueue, TreeConnectCb(i)
    PROVE  AllInv'
<1>0. TypeOK /\ OpsInv /\ MidsInv /\ KeysInv /\ SignInv /\ TreesConnected /\ sec \in SecType
  BY DEF AllInv, TypeOK, SecType
<1>1. ctx = "active" /\ link = "up" /\ waitqueue[i].conn = conn /\ waitqueue[i].cmd = "TREE_CONNECT"
  BY OwedFacts DEF TreeConnectCb
<1>2. PICK t \in TreeIds \ trees, encrypt \in BOOLEAN :
        /\ TreeConnected(t) /\ trees' = trees \cup {t}
        /\ sec' = [sec EXCEPT !.seal = @ \/ encrypt]
  BY DEF TreeConnectCb
<1>3. /\ waitqueue' = Rest(i)
      /\ UNCHANGED <<connect_cb, link, conn, message_id, leftover, mixup>>
      /\ UNCHANGED <<preauth, transcript, passthrough, keyless, executed, gone, ctx>>
  BY DEF TreeConnectCb
<1>4. /\ sec' \in SecType /\ sec'.signing_key = sec.signing_key
      /\ sec'.session_key = sec.session_key
      /\ sec'.sign = sec.sign /\ sec'.dialect = sec.dialect
  <2>1. sec' \in SecType
    BY <1>0, <1>2, SecTypes
  <2> QED BY <1>0, <1>2, <2>1 DEF SecType
<1>5. OwnKey(sec)' <=> OwnKey(sec)
  BY <1>3, <1>4 DEF OwnKey, OwnKeyOr
<1>6. /\ tree_id' \in Seq(TreeIds) /\ Len(tree_id') < MaxTree
      /\ tree_id_cur' \in 0..Len(tree_id')
      /\ trees' \subseteq TreeIds /\ gone' \subseteq TreeIds
      /\ TreesConnected'
  BY <1>0, <1>2, <1>3, ConnectedTree DEF TypeOK, TreesConnected
<1>7. CASE waitqueue[i].owner = NoOp
  <2>1. UNCHANGED <<kind, data, reports, misused, connect_data>>
    BY <1>7 DEF TreeConnectCb, opVars
  <2>2. /\ waitqueue' \in Seq(Requests)
        /\ \A j \in DOMAIN waitqueue' : \E k \in DOMAIN waitqueue : waitqueue'[j] = waitqueue[k]
    BY <1>0, <1>3, RestElements
  <2>3. TypeOK'
    BY <1>0, <1>3, <1>4, <1>6, <2>1, <2>2 DEF TypeOK, SecType
  <2>4. OpsInv'
    BY <1>0, <1>3, <1>7, <2>1, RawGoneKeeps
  <2>5. MidsInv'
    BY <1>0, <1>3, MidsShrink
  <2>6. KeysInv'
    BY <1>0, <1>3, <1>4, <2>2, KeysKeep
  <2>7. SignInv'
    <3>1. SignedWithOwn'
      BY <1>0, <1>3, <2>2, SignedShrink
    <3>2. LastOk' /\ link' = "up" => OwnKey(sec)'
      BY <1>0, <1>3, <1>5, <2>1 DEF SignInv, LastOk
    <3> QED BY <1>0, <1>3, <1>5, <2>2, <3>1, <3>2 DEF SignInv, Handshake
  <2> QED BY <1>6, <2>3, <2>4, <2>5, <2>6, <2>7 DEF AllInv
<1>8. CASE waitqueue[i].owner # NoOp
  <2>1. Report(waitqueue[i].owner, "ok", NoOp)
    BY <1>8 DEF TreeConnectCb
  <2>2. OwnKey(sec)
    BY <1>0, <1>1, <1>8 DEF SignInv, Handshake
  <2>3. TypeOK' /\ OpsInv' /\ MidsInv' /\ KeysInv' /\ SignInv'
    BY <1>3, <1>4, <1>5, <1>6, <1>8, <2>1, <2>2, ReportStep
  <2> QED BY <1>6, <2>3 DEF AllInv
<1> QED BY <1>7, <1>8

(* tree_connect_cb with an error. *)
LEMMA TreeConnectFailsStep ==
    ASSUME AllInv, NEW i \in DOMAIN waitqueue, TreeConnectFails(i)
    PROVE  AllInv'
<1>1. CASE waitqueue[i].owner = NoOp
  BY <1>1, RawStep DEF TreeConnectFails
<1>2. CASE waitqueue[i].owner # NoOp
  <2>1. /\ Fail(waitqueue[i].owner, sec, Rest(i), "failed")
        /\ UNCHANGED <<preauth, transcript, keyless>>
    BY <1>2 DEF TreeConnectFails, FailReading
  <2>2. sec \in SecType /\ keyless \subseteq Nat
    BY DEF AllInv, TypeOK, SecType
  <2> QED BY <1>2, <2>1, <2>2, EndStep
<1> QED BY <1>1, <1>2

(* session_setup_cb with an error. *)
LEMMA SetupFailsStep ==
    ASSUME AllInv, NEW i \in DOMAIN waitqueue, SessionSetupFails(i)
    PROVE  AllInv'
<1>1. /\ Fail(waitqueue[i].owner, sec, Rest(i), "failed")
      /\ UNCHANGED <<preauth, transcript, keyless>>
  BY DEF SessionSetupFails, FailReading
<1>2. waitqueue[i].owner # NoOp
  BY OwedFacts DEF SessionSetupFails
<1>3. sec \in SecType /\ keyless \subseteq Nat
  BY DEF AllInv, TypeOK, SecType
<1> QED BY <1>1, <1>2, <1>3, EndStep

(* The owner of a TREE_DISCONNECT or a LOGOFF is a disconnect.             *)
LEMMA DisconnectOwned ==
    ASSUME AllInv, NEW i \in DOMAIN waitqueue, waitqueue[i].owner # NoOp,
           waitqueue[i].cmd \in DisconnectCmds
    PROVE  kind[waitqueue[i].owner] = "disconnect"
<1>1. RequestSound(waitqueue[i])
  BY DEF AllInv, OpsInv
<1> QED BY <1>1 DEF RequestSound, ConnectCmds, DisconnectCmds

(* disconnect_cb_1 with an error. *)
LEMMA DisconnectFailsStep ==
    ASSUME AllInv, NEW i \in DOMAIN waitqueue, waitqueue[i].cmd = "TREE_DISCONNECT",
           DisconnectFails(i)
    PROVE  AllInv'
<1>0. TypeOK /\ TreesConnected /\ sec \in SecType
  BY DEF AllInv, TypeOK, SecType
<1>1. /\ waitqueue[i].owner # NoOp /\ waitqueue' = Rest(i)
      /\ Report(waitqueue[i].owner, "error", NoOp)
      /\ UNCHANGED <<connect_cb, link, conn, message_id, leftover, mixup>>
      /\ UNCHANGED <<sec, preauth, transcript, passthrough, keyless>>
      /\ UNCHANGED <<tree_id, tree_id_cur, trees, executed, gone, ctx>>
  BY DEF DisconnectFails, secVars, treeVars
<1>2. kind[waitqueue[i].owner] = "disconnect"
  BY <1>1, DisconnectOwned DEF DisconnectCmds
<1>3. OwnKey(sec) => OwnKey(sec)'
  BY <1>1 DEF OwnKey, OwnKeyOr
<1>4. /\ tree_id' \in Seq(TreeIds) /\ Len(tree_id') < MaxTree
      /\ tree_id_cur' \in 0..Len(tree_id') /\ trees' \subseteq TreeIds
      /\ gone' \subseteq TreeIds
  BY <1>0, <1>1 DEF TypeOK
<1>5. TypeOK' /\ OpsInv' /\ MidsInv' /\ KeysInv' /\ SignInv'
  BY <1>0, <1>1, <1>2, <1>3, <1>4, ReportStep
<1>6. TreesConnected'
  BY <1>0, <1>1 DEF TreesConnected
<1> QED BY <1>5, <1>6 DEF AllInv

(* disconnect_cb_2: the share is left, and the tree ids with it.           *)
LEMMA DisconnectCb2Step ==
    ASSUME AllInv, NEW i \in DOMAIN waitqueue, waitqueue[i].cmd = "LOGOFF",
           DisconnectCb2(i), ctx' \in {ctx, "failed"}
    PROVE  AllInv'
<1>0. TypeOK /\ OpsInv /\ TreesConnected /\ sec \in SecType
  BY DEF AllInv, TypeOK, SecType
<1>1. /\ waitqueue' = Rest(i) /\ link' = "closed" /\ trees' = {} /\ gone' = gone \cup trees
      /\ Report(waitqueue[i].owner, "ok", NoOp)
      /\ UNCHANGED <<connect_cb, conn, message_id, leftover, mixup>>
      /\ UNCHANGED <<sec, preauth, transcript, passthrough, keyless>>
      /\ UNCHANGED <<tree_id, tree_id_cur, executed>>
  BY DEF DisconnectCb2, secVars
<1>2. waitqueue[i].owner # NoOp
  BY <1>0 DEF OpsInv, RequestSound, RawCmds
<1>3. kind[waitqueue[i].owner] = "disconnect"
  BY <1>2, DisconnectOwned DEF DisconnectCmds
<1>4. OwnKey(sec) => OwnKey(sec)'
  BY <1>1 DEF OwnKey, OwnKeyOr
<1>5. /\ tree_id' \in Seq(TreeIds) /\ Len(tree_id') < MaxTree
      /\ tree_id_cur' \in 0..Len(tree_id') /\ trees' \subseteq TreeIds
      /\ gone' \subseteq TreeIds
  BY <1>0, <1>1 DEF TypeOK
<1>6. TypeOK' /\ OpsInv' /\ MidsInv' /\ KeysInv' /\ SignInv'
  BY <1>0, <1>1, <1>2, <1>3, <1>4, <1>5, ReportStep
<1>7. TreesConnected'
  BY <1>0, <1>1 DEF TreesConnected
<1> QED BY <1>6, <1>7 DEF AllInv

(* disconnect_cb_1, and the reply to a raw TREE_DISCONNECT. *)
LEMMA DisconnectCb1Step ==
    ASSUME AllInv, NEW i \in DOMAIN waitqueue, DisconnectCb1(i)
    PROVE  AllInv'
<1>0. /\ TypeOK /\ OpsInv /\ MidsInv /\ KeysInv /\ SignInv /\ TreesConnected
      /\ sec \in SecType /\ conn \in Nat /\ message_id \in Nat
  BY DEF AllInv, TypeOK, SecType
<1>1. /\ ctx = "active" /\ link = "up" /\ waitqueue[i].conn = conn
      /\ waitqueue[i].cmd = "TREE_DISCONNECT"
  BY OwedFacts DEF DisconnectCb1
<1>2. /\ TreeDisconnected(waitqueue[i].tree) /\ gone' = StillGone(waitqueue[i].tree)
      /\ UNCHANGED <<leftover, mixup, sec, preauth, transcript, passthrough, keyless>>
      /\ UNCHANGED <<trees, executed, ctx>>
  BY DEF DisconnectCb1, secVars
<1>3. /\ tree_id' \in Seq(TreeIds) /\ Len(tree_id') < MaxTree
      /\ tree_id_cur' \in 0..Len(tree_id')
      /\ trees' \subseteq TreeIds /\ gone' \subseteq TreeIds
      /\ TreesConnected'
  <2>1. trees' \subseteq TreeIds /\ gone' \subseteq TreeIds
    BY <1>0, <1>2 DEF TypeOK, StillGone
  <2> QED BY <1>0, <1>2, <2>1, DisconnectedTree DEF TreesConnected
<1>4. CASE /\ waitqueue[i].owner = NoOp /\ waitqueue' = Rest(i)
           /\ UNCHANGED <<opVars, linkVars, message_id>>
  <2>1. UNCHANGED <<kind, data, reports, misused, connect_data, connect_cb, link, conn>>
    BY <1>4 DEF opVars, linkVars
  <2>2. /\ waitqueue' \in Seq(Requests)
        /\ \A j \in DOMAIN waitqueue' : \E k \in DOMAIN waitqueue : waitqueue'[j] = waitqueue[k]
    BY <1>0, <1>4, RestElements
  <2>3. TypeOK'
    BY <1>0, <1>2, <1>3, <1>4, <2>1, <2>2 DEF TypeOK
  <2>4. OpsInv'
    BY <1>0, <1>2, <1>4, <2>1, RawGoneKeeps
  <2>5. MidsInv'
    BY <1>0, <1>2, <1>4, MidsShrink
  <2>6. KeysInv'
    BY <1>0, <1>2, <2>1, <2>2, KeysKeep
  <2>7. SignInv'
    <3>1. SignedWithOwn'
      BY <1>0, <1>2, <2>2, SignedShrink
    <3> QED BY <1>0, <1>2, <2>1, <2>2, <3>1 DEF SignInv, LastOk, OwnKey, OwnKeyOr, Handshake
  <2> QED BY <1>3, <2>3, <2>4, <2>5, <2>6, <2>7 DEF AllInv
<1>5. CASE /\ waitqueue[i].owner # NoOp
           /\ Queue(Rest(i), Request("LOGOFF", waitqueue[i].owner, sec, conn))
           /\ UNCHANGED <<opVars, linkVars>>
  <2>1. UNCHANGED <<kind, data, reports, misused, connect_data, connect_cb, link, conn>>
    BY <1>5 DEF opVars, linkVars
  <2>2. /\ waitqueue[i].owner \in Ops
        /\ \A j \in DOMAIN Rest(i) : Rest(i)[j].owner = NoOp /\ Rest(i)[j].cmd \in RawCmds
    BY <1>0, <1>5, OthersRaw
  <2>3. /\ Rest(i) \in Seq(Requests)
        /\ \A j \in DOMAIN Rest(i) : \E k \in DOMAIN waitqueue : Rest(i)[j] = waitqueue[k]
    BY <1>0, RestElements
  <2>4. OwnKey(sec)
    BY <1>0, <1>1, <1>5 DEF SignInv, Handshake
  <2>5. PICK e \in Requests :
          /\ e.cmd = "LOGOFF" /\ e.owner = waitqueue[i].owner /\ e.mid = message_id
          /\ SignedOr(e, keyless)
          /\ waitqueue' = Append(Rest(i), e) /\ message_id' = message_id + 1
    <3> DEFINE f == Request("LOGOFF", waitqueue[i].owner, sec, conn)
    <3>1. waitqueue[i].owner \in Owners /\ "LOGOFF" \in Cmds
      BY <2>2 DEF Owners, Cmds, DisconnectCmds
    <3>2. /\ f \in Requests
          /\ f.cmd = "LOGOFF" /\ f.owner = waitqueue[i].owner /\ f.mid = message_id
      BY <1>0, <3>1, RequestType
    <3>3. SignedOr(f, keyless)
      BY <1>0, <2>4, SignedRequest DEF OwnKey
    <3>4. waitqueue' = Append(Rest(i), f) /\ message_id' = message_id + 1
      BY <1>5 DEF Queue
    <3> HIDE DEF f
    <3> QED BY <3>2, <3>3, <3>4
  <2>6. /\ waitqueue' \in Seq(Requests)
        /\ \A j \in DOMAIN waitqueue' :
               waitqueue'[j] = e \/ \E k \in DOMAIN Rest(i) : waitqueue'[j] = Rest(i)[k]
    BY <2>3, <2>5, QueueElements
  <2>7. \A j \in DOMAIN waitqueue' :
            waitqueue'[j] = e \/ \E k \in DOMAIN waitqueue : waitqueue'[j] = waitqueue[k]
    BY <2>3, <2>6
  <2>8. TypeOK'
    <3>1. message_id' \in Nat
      BY <1>0, <2>5
    <3> QED BY <1>0, <1>2, <1>3, <2>1, <2>6, <3>1 DEF TypeOK
  <2>9. OpsInv'
    <3>1. e.cmd \in DisconnectCmds /\ waitqueue[i].cmd \in DisconnectCmds
      BY <1>1, <2>5 DEF DisconnectCmds
    <3>2. UNCHANGED <<opVars, linkVars, ctx>>
      BY <1>2, <1>5
    <3> QED BY <1>0, <1>5, <2>5, <3>1, <3>2, ChainKeeps
  <2>10. MidsInv'
    <3>1. ~leftover => MidsFine(Rest(i), message_id)
      BY <1>0, MidsRest
    <3> QED BY <1>0, <1>2, <2>3, <2>5, <3>1, MidsGrow
  <2>11. KeysInv'
    <3>1. ~Handshake(e)
      BY <2>5 DEF Handshake
    <3> QED BY <1>0, <1>2, <2>1, <2>7, <3>1, KeysKeep
  <2>12. SignInv'
    <3>1. SignedWithOwn'
      BY <1>0, <1>2, <2>5, <2>7, SignedKeep
    <3>2. OwnKey(sec)'
      BY <1>2, <2>1, <2>4 DEF OwnKey, OwnKeyOr
    <3> QED BY <3>1, <3>2 DEF SignInv
  <2> QED BY <1>3, <2>8, <2>9, <2>10, <2>11, <2>12 DEF AllInv
<1>6. CASE /\ waitqueue[i].owner # NoOp /\ waitqueue' = Rest(i)
           /\ Report(waitqueue[i].owner, "error", NoOp)
           /\ UNCHANGED <<connect_cb, link, conn, message_id>>
  <2>1. kind[waitqueue[i].owner] = "disconnect"
    BY <1>1, <1>6, DisconnectOwned DEF DisconnectCmds
  <2>2. OwnKey(sec) => OwnKey(sec)'
    BY <1>2, <1>6 DEF OwnKey, OwnKeyOr
  <2>3. TypeOK' /\ OpsInv' /\ MidsInv' /\ KeysInv' /\ SignInv'
    BY <1>0, <1>2, <1>3, <1>6, <2>1, <2>2, ReportStep
  <2> QED BY <1>3, <2>3 DEF AllInv
<1> QED BY <1>4, <1>5, <1>6 DEF DisconnectCb1

(* smb2_timeout_pdus. *)
LEMMA TimesOutStep ==
    ASSUME AllInv, NEW i \in DOMAIN waitqueue, TimesOut(i)
    PROVE  AllInv'
<1>0. sec \in SecType /\ keyless \subseteq Nat
  BY DEF AllInv, TypeOK, SecType
<1>1. CASE waitqueue[i].owner = NoOp /\ RawEnds(i)
  BY <1>1, RawStep
<1>2. CASE waitqueue[i].cmd = "TREE_DISCONNECT" /\ DisconnectFails(i)
  BY <1>2, DisconnectFailsStep
<1>3. CASE waitqueue[i].cmd = "LOGOFF" /\ DisconnectCb2(i) /\ UNCHANGED ctx
  BY <1>3, DisconnectCb2Step
<1>4. CASE /\ waitqueue[i].owner # NoOp
           /\ Fail(waitqueue[i].owner, sec, Rest(i), ctx)
           /\ UNCHANGED <<preauth, transcript, keyless>>
  BY <1>0, <1>4, EndStep
<1> QED BY <1>1, <1>2, <1>3, <1>4 DEF TimesOut

(* smb2_destroy_context: what is under way is what waits or connects.      *)
LEMMA DestroyStep ==
    ASSUME AllInv, DestroyContext
    PROVE  AllInv'
<1>0. TypeOK /\ OpsInv /\ MidsInv /\ TreesConnected /\ sec \in SecType
  BY DEF AllInv, TypeOK, SecType
<1> DEFINE waiting == {e \in Range(waitqueue) : e.owner # NoOp}
           ended == {e.owner : e \in waiting} \cup (IF connect_cb THEN {connect_data} ELSE {})
           ok == {e.owner : e \in {f \in waiting : f.cmd = "LOGOFF"}}
<1>1. /\ reports' = [o \in Ops |-> IF o \in ok THEN Append(reports[o], "ok")
                                   ELSE IF o \in ended THEN Append(reports[o], "error")
                                   ELSE reports[o]]
      /\ misused' = misused \cup (ended \ Live)
      /\ data' = [o \in Ops |-> IF o \in ended \cup {connect_data} THEN "freed" ELSE data[o]]
  BY DEF DestroyContext
<1>2. /\ waitqueue' = <<>> /\ connect_cb' = FALSE /\ connect_data' = NoOp
      /\ link' = "closed" /\ trees' = {} /\ gone' = gone \cup trees
      /\ sec' = Forgotten(sec) /\ ctx' = "destroyed"
      /\ UNCHANGED <<kind, conn, message_id, leftover, mixup>>
      /\ UNCHANGED <<preauth, transcript, passthrough, keyless>>
      /\ UNCHANGED <<tree_id, tree_id_cur, executed>>
  BY DEF DestroyContext
<1>3. \A e \in waiting : e.owner \in Ops /\ data[e.owner] = "live"
  <2> SUFFICES ASSUME NEW e \in Range(waitqueue), e.owner # NoOp
               PROVE  e.owner \in Ops /\ data[e.owner] = "live"
    OBVIOUS
  <2>1. PICK i \in DOMAIN waitqueue : waitqueue[i] = e
    BY DEF Range
  <2> QED BY <1>0, <2>1, OthersRaw
<1>4. \A o \in Ops : o \in ended <=> data[o] = "live"
  <2>1. \A o \in ended : o \in Ops /\ data[o] = "live"
    BY <1>0, <1>3 DEF OpsInv, ConnectSound, TypeOK
  <2>2. ASSUME NEW o \in Ops, data[o] = "live" PROVE o \in ended
    <3>1. CASE connect_cb /\ connect_data = o
      BY <3>1
    <3>2. CASE \E i \in DOMAIN waitqueue : waitqueue[i].owner = o
      <4>1. PICK i \in DOMAIN waitqueue : waitqueue[i].owner = o
        BY <3>2
      <4>2. waitqueue[i] \in waiting
        BY <4>1, OpFacts DEF Range
      <4> QED BY <4>1, <4>2
    <3> QED BY <1>0, <2>2, <3>1, <3>2 DEF OpsInv, CarrierSound
  <2> QED BY <2>1, <2>2
<1>5. /\ ended \subseteq Ops /\ ok \subseteq ended
      /\ connect_data # NoOp => connect_data \in ended
  <2>1. ended \subseteq Ops
    BY <1>0, <1>3 DEF OpsInv, ConnectSound, TypeOK
  <2>2. ok \subseteq ended
    OBVIOUS
  <2>3. connect_data # NoOp => connect_data \in ended
    BY <1>0, <1>4 DEF OpsInv, ConnectSound, TypeOK
  <2> QED BY <2>1, <2>2, <2>3
<1> HIDE DEF ended, ok, waiting
<1>6. \A o \in Ops : data'[o] = IF data[o] = "live" THEN "freed" ELSE data[o]
  BY <1>1, <1>4, <1>5, OpFacts
<1>7. misused' = {}
  <2>1. ended \subseteq Live
    BY <1>4, <1>5 DEF Live
  <2> QED BY <1>0, <1>1, <2>1 DEF OpsInv
<1>8. /\ reports' \in [Ops -> Seq({"ok", "error"})]
      /\ \A o \in Ops : Len(reports'[o]) = IF data'[o] = "freed" THEN 1 ELSE 0
  <2>1. ASSUME NEW o \in Ops
        PROVE  /\ reports'[o] \in Seq({"ok", "error"})
               /\ Len(reports'[o]) = IF data'[o] = "freed" THEN 1 ELSE 0
    <3>1. reports[o] \in Seq({"ok", "error"}) /\ OpSound(o)
      BY <1>0 DEF TypeOK, OpsInv
    <3>2. Len(reports[o]) = IF data[o] = "freed" THEN 1 ELSE 0
      BY <3>1 DEF OpSound
    <3>3. \A st \in {"ok", "error"} : /\ Append(reports[o], st) \in Seq({"ok", "error"})
                                      /\ Len(Append(reports[o], st)) = Len(reports[o]) + 1
      BY <3>1, AppendIndex
    <3>4. CASE data[o] = "live"
      <4>1. reports'[o] \in {Append(reports[o], "ok"), Append(reports[o], "error")}
        BY <1>1, <1>4, <1>5, <3>4
      <4>2. PICK st \in {"ok", "error"} : reports'[o] = Append(reports[o], st)
        BY <4>1
      <4>3. Len(reports[o]) = 0 /\ data'[o] = "freed"
        BY <1>6, <3>2, <3>4
      <4>4. Len(reports'[o]) = 1 /\ reports'[o] \in Seq({"ok", "error"})
        BY <3>3, <4>2, <4>3
      <4> QED BY <4>3, <4>4
    <3>5. CASE data[o] # "live"
      <4>1. reports'[o] = reports[o] /\ data'[o] = data[o]
        BY <1>1, <1>4, <1>5, <1>6, <3>5
      <4> QED BY <3>1, <3>2, <4>1
    <3> QED BY <3>4, <3>5
  <2>2. reports' = [o \in Ops |-> reports'[o]]
    BY <1>1
  <2> QED BY <2>1, <2>2
<1>9. TypeOK'
  <2>1. data' \in [Ops -> {"none", "live", "freed", "refused"}]
    BY <1>0, <1>1 DEF TypeOK
  <2>2. sec' \in SecType
    BY <1>0, <1>2, SecTypes
  <2>3. waitqueue' \in Seq(Requests)
    BY <1>2
  <2> QED BY <1>0, <1>2, <1>7, <1>8, <2>1, <2>2, <2>3 DEF TypeOK, SecType
<1>10. OpsInv'
  <2>1. \A o \in Ops : data'[o] # "live"
    BY <1>6
  <2>2. ASSUME NEW o \in Ops PROVE OpSound(o)'
    <3>1. OpSound(o)
      BY <1>0 DEF OpsInv
    <3> QED BY <1>2, <1>6, <1>8, <2>1, <3>1 DEF OpSound
  <2>3. ConnectSound' /\ CarrierSound'
    BY <1>2, <2>1 DEF ConnectSound, CarrierSound
  <2> QED BY <1>2, <1>7, <2>1, <2>2, <2>3 DEF OpsInv
<1>11. MidsInv'
  BY <1>0, <1>2 DEF MidsInv
<1>12. KeysInv'
  <2>1. sec'.signing_key = NoKey /\ sec'.session_key = 0
    BY <1>0, <1>2 DEF Forgotten, SecType
  <2> QED BY <1>0, <1>2, <2>1, KeysForgotten
<1>13. SignInv'
  BY <1>2 DEF SignInv, SignedWithOwn
<1>14. TreesConnected'
  BY <1>0, <1>2 DEF TreesConnected
<1> QED BY <1>9, <1>10, <1>11, <1>12, <1>13, <1>14 DEF AllInv

(* The server executes a TREE_DISCONNECT or a LOGOFF. *)
LEMMA ServerEndsStep ==
    ASSUME AllInv, NEW i \in DOMAIN waitqueue, ServerEnds(i)
    PROVE  AllInv'
<1>0. TypeOK /\ waitqueue[i].mid \in Nat
  BY RestType DEF AllInv
<1>1. PICK ended \in SUBSET trees :
        /\ executed' = executed \cup {waitqueue[i].mid}
        /\ trees' = trees \ ended /\ gone' = gone \cup ended
  <2> DEFINE d == IF waitqueue[i].cmd = "LOGOFF" THEN trees ELSE {waitqueue[i].tree} \cap trees
  <2>1. d \in SUBSET trees
    OBVIOUS
  <2>2. /\ executed' = executed \cup {waitqueue[i].mid}
        /\ trees' = trees \ d /\ gone' = gone \cup d
    BY DEF ServerEnds
  <2> QED BY <2>1, <2>2
<1>2. /\ UNCHANGED <<opVars, linkVars, reqVars, secVars, tree_id>>
      /\ tree_id_cur' = tree_id_cur /\ ctx' = ctx
  BY DEF ServerEnds
<1>3. /\ trees' \subseteq TreeIds /\ gone' \subseteq TreeIds /\ executed' \subseteq Nat
      /\ trees \cup gone \subseteq trees' \cup gone'
      /\ tree_id_cur' \in 0..Len(tree_id)
  BY <1>0, <1>1, <1>2 DEF TypeOK
<1> QED BY <1>2, <1>3, QuietStep

-----------------------------------------------------------------------------
(* The theorems. *)

(* A new context satisfies the invariant (smb2_init_context).              *)
LEMMA InitAllInv ==
    ASSUME Init
    PROVE  AllInv
<1>1. /\ waitqueue = <<>> /\ DOMAIN waitqueue = {}
      /\ \A o \in Ops : kind[o] = "none" /\ data[o] = "none" /\ reports[o] = <<>>
      /\ \A o \in Ops : \A p \in (o + 1)..MaxOps : kind[p] = "none"
  <2>1. \A o \in Ops : \A p \in (o + 1)..MaxOps : p \in Ops
    BY OpFacts DEF Ops
  <2> QED BY <2>1 DEF Init
<1>2. NoKey \in Keys /\ NoKey.conn = 0
  BY DEF NoKey, Keys
<1>3. TypeOK
  <2>1. sec \in SecType
    BY <1>2 DEF Init, SecType
  <2>2. tree_id \in Seq(TreeIds) /\ Len(tree_id) = 0 /\ Len(tree_id) < MaxTree
    BY SessionAssumption DEF Init
  <2>3. /\ kind \in [Ops -> {"none", "connect", "disconnect"}]
        /\ data \in [Ops -> {"none", "live", "freed", "refused"}]
        /\ reports \in [Ops -> Seq({"ok", "error"})]
    BY DEF Init
  <2>4. /\ misused \subseteq Ops \cup {NoOp} /\ connect_data \in Ops \cup {NoOp}
        /\ connect_cb \in BOOLEAN /\ link \in {"closed", "connecting", "up"} /\ conn \in Nat
        /\ message_id \in Nat
    BY DEF Init
  <2>7. /\ waitqueue \in Seq(Requests)
        /\ preauth \in Seq({"request", "reply"} \X Nat)
        /\ transcript \in Seq({"request", "reply"} \X Nat)
    <3>1. waitqueue = <<>> /\ preauth = <<>> /\ transcript = <<>>
      BY DEF Init
    <3> QED BY <3>1, SmallSeq
  <2>5. /\ passthrough \in BOOLEAN /\ trees \subseteq TreeIds /\ gone \subseteq TreeIds
        /\ executed \subseteq Nat /\ keyless \subseteq Nat
        /\ ctx \in {"active", "failed", "destroyed"}
        /\ leftover \in BOOLEAN /\ mixup \in BOOLEAN
    BY DEF Init
  <2>6. tree_id_cur \in 0..Len(tree_id)
    BY <2>2 DEF Init
  <2> QED BY <2>1, <2>2, <2>3, <2>4, <2>5, <2>6, <2>7 DEF TypeOK, SecType
<1>4. OpsInv
  <2>1. \A o \in Ops : OpSound(o)
    BY <1>1 DEF OpSound
  <2> QED BY <1>1, <2>1 DEF Init, OpsInv, ConnectSound, CarrierSound
<1>5. MidsInv
  BY <1>1 DEF Init, MidsInv
<1>6. KeysInv
  <2>1. sec.signing_key = NoKey /\ sec.session_key = 0 /\ conn = 0
    BY DEF Init
  <2> QED BY <1>1, <1>2, <2>1 DEF KeysInv, KeysAgree
<1>7. SignInv
  BY <1>1 DEF Init, SignInv, SignedWithOwn
<1>8. TreesConnected
  BY SmallSeq DEF Init, TreesConnected
<1> QED BY <1>3, <1>4, <1>5, <1>6, <1>7, <1>8 DEF AllInv

(* Every callback, call and timeout keeps it. *)
LEMMA NextAllInv ==
    ASSUME AllInv, [Next]_vars
    PROVE  AllInv'
<1>0. TypeOK
  BY DEF AllInv
<1>1. ASSUME NEW o \in Ops, Connect(o) \/ Disconnect(o) PROVE AllInv'
  BY <1>1, ConnectStep, DisconnectStep
<1>2. ASSUME NEW cmd \in RawCmds, RawRequest(cmd) PROVE AllInv'
  BY <1>2, RawRequestStep
<1>3. ASSUME NEW t \in TreeIds, SelectTree(t) PROVE AllInv'
  <2>1. tree_id \in Seq(TreeIds) /\ Len(tree_id) \in Nat /\ DOMAIN tree_id = 1..Len(tree_id)
    BY <1>0, SeqElements DEF TypeOK
  <2>2. tree_id_cur' = IndexOf(tree_id, t)
    BY <1>3 DEF SelectTree, IndexOf
  <2>3. tree_id_cur' \in 0..Len(tree_id)
    <3>1. tree_id_cur' = 0 \/ tree_id_cur' \in DOMAIN tree_id
      BY <2>1, <2>2, IndexOfEntry
    <3> QED BY <2>1, <3>1
  <2>4. /\ UNCHANGED <<opVars, linkVars, reqVars, secVars, tree_id>> /\ ctx' = ctx
        /\ UNCHANGED <<trees, executed, gone>>
    BY <1>3 DEF SelectTree
  <2>5. trees \subseteq TreeIds /\ gone \subseteq TreeIds /\ executed \subseteq Nat
    BY <1>0 DEF TypeOK
  <2> QED BY <2>3, <2>4, <2>5, QuietStep
<1>4. CASE ConnectCb \/ ConnectCbFails
  BY <1>4, ConnectCbStep, ConnectCbFailsStep
<1>5. ASSUME NEW i \in DOMAIN waitqueue, Answer(i) PROVE AllInv'
  <2>1. CASE NegotiateCb(i) \/ SessionSetupMore(i) \/ SessionSetupDone(i) \/ SessionSetupFails(i)
    BY <2>1, NegotiateStep, SetupMoreStep, SetupDoneStep, SetupFailsStep
  <2>2. CASE TreeConnectCb(i) \/ TreeConnectFails(i) \/ DisconnectCb1(i)
    BY <2>2, TreeConnectStep, TreeConnectFailsStep, DisconnectCb1Step
  <2>3. CASE DisconnectRefused(i)
    <3>1. waitqueue[i].cmd = "TREE_DISCONNECT"
      BY <2>3 DEF DisconnectRefused, Owed
    <3>2. RawEnds(i) \/ DisconnectFails(i)
      BY <2>3 DEF DisconnectRefused
    <3> QED BY <3>1, <3>2, RawStep, DisconnectFailsStep
  <2>4. CASE LogoffReply(i)
    <3>1. waitqueue[i].cmd = "LOGOFF" /\ DisconnectCb2(i) /\ ctx' = "failed"
      BY <2>4 DEF LogoffReply, Owed
    <3> QED BY <3>1, DisconnectCb2Step
  <2>5. CASE RawReply(i) \/ Mixup(i)
    BY <2>5, RawStep, MixupStep DEF RawReply
  <2> QED BY <1>5, <2>1, <2>2, <2>3, <2>4, <2>5 DEF Answer
<1>6. ASSUME NEW i \in DOMAIN waitqueue, TimesOut(i) PROVE AllInv'
  BY <1>6, TimesOutStep
<1>10. ASSUME NEW i \in DOMAIN waitqueue, ServerEnds(i) PROVE AllInv'
  BY <1>10, ServerEndsStep
<1>7. CASE ServiceFails
  <2>1. /\ UNCHANGED <<opVars, linkVars, reqVars, secVars, tree_id>>
        /\ UNCHANGED <<tree_id_cur, trees, executed, gone>>
        /\ ctx = "active" /\ ctx' = "failed"
    BY <1>7 DEF ServiceFails, treeVars
  <2>2. /\ tree_id_cur' \in 0..Len(tree_id)
        /\ trees \subseteq TreeIds /\ gone \subseteq TreeIds /\ executed \subseteq Nat
    BY <1>0, <2>1 DEF TypeOK
  <2> QED BY <2>1, <2>2, QuietStep
<1>8. CASE DestroyContext
  BY <1>8, DestroyStep
<1>9. CASE UNCHANGED vars
  <2>1. /\ UNCHANGED <<opVars, linkVars, reqVars, secVars, tree_id>>
        /\ UNCHANGED <<tree_id_cur, trees, executed, gone, ctx>>
    BY <1>9 DEF vars, treeVars
  <2>2. /\ tree_id_cur' \in 0..Len(tree_id)
        /\ trees \subseteq TreeIds /\ gone \subseteq TreeIds /\ executed \subseteq Nat
    BY <1>0, <2>1 DEF TypeOK
  <2> QED BY <2>1, <2>2, QuietStep
<1> QED BY <1>1, <1>2, <1>3, <1>4, <1>5, <1>6, <1>7, <1>8, <1>9, <1>10 DEF Next, RawCmds

(* The invariant from which the theorems below follow, of the callbacks of *)
(* lib/libsmb2.c over any number of connections of one context.            *)
THEOREM SessionInvariant == Spec => []AllInv
<1>1. Init => AllInv
  BY InitAllInv
<1>2. AllInv /\ [Next]_vars => AllInv'
  BY NextAllInv
<1> QED BY <1>1, <1>2, PTL DEF Spec

(* The state of session establishment keeps its types: the indices into    *)
(* smb2->tree_id stay within the array, whatever is connected and selected.*)
THEOREM SessionTypes == Spec => []TypeOK
<1>1. AllInv => TypeOK
  BY DEF AllInv
<1> QED BY <1>1, SessionInvariant, PTL

(* An operation has ended once, or exactly one thing will end it.          *)
LEMMA InvEndsOnce ==
    ASSUME TypeOK, OpsInv
    PROVE  EndsOnce
<1>1. misused = {}
  BY DEF OpsInv
<1>2. ASSUME NEW o \in Ops
      PROVE  Len(reports[o]) = IF data[o] = "freed" THEN 1 ELSE 0
  BY DEF OpsInv, OpSound
<1>3. ASSUME NEW o \in Ops, data[o] = "live", connect_cb, connect_data = o
      PROVE  Carriers(o) = {}
  <2>1. \A j \in DOMAIN waitqueue : waitqueue[j].owner = NoOp
    BY <1>3, ConnectingQueue
  <2> QED BY <2>1, OpFacts DEF Carriers
<1>4. ASSUME NEW o \in Ops, data[o] = "live", ~(connect_cb /\ connect_data = o)
      PROVE  \E i \in Carriers(o) : Carriers(o) = {i}
  <2>1. PICK i \in DOMAIN waitqueue : waitqueue[i].owner = o
    BY <1>4 DEF OpsInv, CarrierSound
  <2>2. \A j \in DOMAIN waitqueue : waitqueue[j].owner = o => j = i
    BY <2>1, OpFacts DEF OpsInv, CarrierSound
  <2> QED BY <2>1, <2>2 DEF Carriers
<1>5. ctx = "destroyed" => Live = {}
  <2> SUFFICES ASSUME ctx = "destroyed", NEW o \in Ops, data[o] = "live" PROVE FALSE
    BY DEF Live
  <2>1. waitqueue = <<>> /\ ~connect_cb
    BY DEF OpsInv
  <2> QED BY <2>1 DEF OpsInv, CarrierSound
<1> QED BY <1>1, <1>2, <1>3, <1>4, <1>5 DEF EndsOnce

(* Every accepted connect and disconnect is reported once: on whichever of *)
(* its callbacks it fails, times out or is shut down, its data is freed    *)
(* with the report, is not used again, and until then exactly one request  *)
(* or the transport will report it.                                        *)
THEOREM SessionEndsOnce == Spec => []EndsOnce
<1>1. AllInv => EndsOnce
  BY InvEndsOnce DEF AllInv
<1> QED BY <1>1, SessionInvariant, PTL

(* Both sides derive the signing key of a session from the same messages,  *)
(* those of its own connection (smb3_init_preauth_hash in connect_cb).     *)
THEOREM SessionKeysAgree == Spec => []KeysAgree
<1>1. AllInv => KeysAgree
  BY DEF AllInv, KeysInv
<1> QED BY <1>1, SessionInvariant, PTL

(* A request other than NEGOTIATE is signed with the key of the session it *)
(* belongs to, however often the context was connected before and whatever *)
(* session key disconnect_cb_2 left.  The exception is the TREE_CONNECT of *)
(* a session whose authentication gave no session key.                     *)
THEOREM SessionSignedWithOwn == Spec => []SignedWithOwn
<1>1. AllInv => SignedWithOwn
  BY DEF AllInv, SignInv
<1> QED BY <1>1, SessionInvariant, PTL

(* smb2_find_pdu never matches a reply with a request of an earlier        *)
(* connection, unless smb2_close_context was called with requests waiting. *)
THEOREM SessionRepliesMatched == Spec => []RepliesMatched
<1>1. AllInv => RepliesMatched
  BY DEF AllInv, MidsInv, RepliesMatched
<1> QED BY <1>1, SessionInvariant, PTL

(* The stack of smb2_connect_tree_id and smb2_disconnect_tree_id holds     *)
(* trees the server has connected, and some that ended without the library *)
(* having been told: the reply is on its way or timed out, or the tree     *)
(* went with the connection.                                               *)
THEOREM SessionTreesConnected == Spec => []TreesConnected
<1>1. AllInv => TreesConnected
  BY DEF AllInv
<1> QED BY <1>1, SessionInvariant, PTL
=============================================================================
