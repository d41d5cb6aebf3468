---------------------------- MODULE ServerProofs ----------------------------
(***************************************************************************)
(* Proofs about the server, for any number of connections, requests, trees *)
(* and sessions: every reply answers a request that was read, no request   *)
(* is forgotten, and handlers run with the tree of their request selected. *)
(***************************************************************************)
EXTENDS Server, SeqLemmas, FiniteSetTheorems

-----------------------------------------------------------------------------
(* Types. *)

(* What comes once a client has logged in.                                 *)
Handled ==
    {"LOGOFF", "TREE_CONNECT", "TREE_DISCONNECT", "CREATE", "CLOSE", "FLUSH", "READ", "WRITE",
     "OPLOCK_BREAK", "LOCK", "IOCTL", "CANCEL", "ECHO", "QUERY_DIRECTORY", "CHANGE_NOTIFY",
     "QUERY_INFO", "SET_INFO"}
Cmds == Handled \cup Login
Hellos == {"smb1", "smb2", "empty"}
Tokens == {"negotiate", "authenticate"}
Statuses == {"ok", "error", "again", "more", "pending"}

ReqType == [mid : Nat, cmd : Cmds, msg : Hellos \cup Tokens \cup {NULL}, tree : Nat, async : Nat]
WaitType == [mid : Nat, cmd : Cmds, tree : Nat, async : Nat]
RepType == [mid : Int, cmd : Cmds, status : Statuses, tree : Nat, async : Nat]
DueType ==
    {r \in [mid : Nat, cmd : Cmds, ret : {"later", "unmade"}] :
        r.ret = "unmade" => r.cmd \in Refusable}

ConnType ==
    [state : {"none", "open", "closed", "gone"},
     expect : {"NEGOTIATE", "SESSION_SETUP", "TREE_CONNECT", NULL},
     message_id : Nat, session_id : Nat, trees : Seq(Nat), cur : Nat,
     waitqueue : Seq(WaitType), async_id : Nat, deferred : SUBSET DueType,
     out : Seq(RepType), astray : BOOLEAN, full : BOOLEAN]

ClientType ==
    [phase : {"start", "negotiated", "challenged", "in"}, sent : Seq(ReqType), got : Nat,
     seen : Nat, trees : SUBSET Nat, next : Nat, logins : Nat, requests : Nat]

-----------------------------------------------------------------------------
(* The invariant.  q, d and out are the waitqueue, the deferred requests   *)
(* and the replies of a connection, sent and got those of its client.  X   *)
(* are the message ids of the requests that are being handled; none is     *)
(* between two steps.                                                      *)

(* The request m is the i-th.                                              *)
IsRequest(sent, i, m) == sent[i].mid = m /\ sent[i].cmd # "CANCEL"

(* A client numbers its requests; a CANCEL has the number of another one.  *)
SentSound(sent, got, next) ==
    /\ got <= Len(sent)
    /\ \A i, j \in DOMAIN sent :
           sent[i].cmd # "CANCEL" /\ IsRequest(sent, j, sent[i].mid) => i = j
    /\ \A i \in DOMAIN sent :
           /\ sent[i].mid < next
           /\ sent[i].mid = 0 => sent[i].cmd = "NEGOTIATE"
           /\ sent[i].cmd # "CANCEL" => sent[i].async = 0
           /\ sent[i].msg = "smb1" => sent[i].mid = 0
           /\ sent[i].cmd = "CANCEL" =>
                  \E j \in 1..(i - 1) : /\ IsRequest(sent, j, sent[i].mid)
                                        /\ sent[j].tree = sent[i].tree

(* What is on the waitqueue was read, and has its tree unless its header   *)
(* has the async id there.                                                 *)
QueueSound(q, sent, got) ==
    \A a \in DOMAIN q : \E i \in 1..got :
        /\ IsRequest(sent, i, q[a].mid)
        /\ q[a].cmd \in {sent[i].cmd, "CANCEL"}
        /\ q[a].async = 0 => q[a].tree = sent[i].tree
        /\ q[a].async # 0 => q[a].cmd \notin {"TREE_CONNECT", "CANCEL"}

(* A request comes before its CANCELs, so that smb2_find_pdu finds it.     *)
OrderSound(q) ==
    \A a, b \in DOMAIN q : q[a].mid = q[b].mid /\ q[a].cmd # "CANCEL" => a <= b

Mids(d) == {r.mid : r \in d}

(* What waits will be answered, and has had an interim reply at most.      *)
WaitSound(q, d, out, X) ==
    \A a \in DOMAIN q : q[a].cmd # "CANCEL" =>
        /\ q[a].mid \in Mids(d) \cup X
        /\ \A o \in DOMAIN out : out[o].mid = q[a].mid =>
               ~Final(out[o]) /\ out[o].async = q[a].async /\ q[a].async # 0

(* What will be answered was read, has not been answered but for refused   *)
(* CANCELs, and the answer will find it or a CANCEL of it.                 *)
DueSound(q, d, out, sent, got, X) ==
    /\ Mids(d) \cap X = {}
    /\ \A m \in Mids(d) \cup X :
           /\ \E a \in DOMAIN q : q[a].mid = m
           /\ \A o \in DOMAIN out : out[o].mid = m /\ Final(out[o]) => out[o].cmd = "CANCEL"
    /\ \A r \in d : /\ r.cmd \notin Login \cup {"CANCEL"}
                    /\ \E i \in 1..got : sent[i].mid = r.mid /\ sent[i].cmd = r.cmd
                    /\ \A x \in d : x.mid = r.mid => x = r

(* What was read waits or has been answered.                               *)
NoneSkipped(q, out, sent, got) ==
    \A i \in 1..got : sent[i].cmd # "CANCEL" =>
        \/ \E a \in DOMAIN q : q[a].mid = sent[i].mid /\ q[a].cmd # "CANCEL"
        \/ \E o \in DOMAIN out : out[o].mid = sent[i].mid /\ Final(out[o])

(* A reply has the message id and the tree of a request that was read.     *)
AnswerSound(out, sent, got) ==
    \A o \in DOMAIN out : out[o].mid # BREAK_ID =>
        \E i \in 1..got :
            /\ IsRequest(sent, i, out[o].mid)
            /\ \/ out[o].async # 0 \/ out[o].cmd \in {"TREE_CONNECT", "CANCEL"}
               \/ out[o].tree = sent[i].tree

(* One answer apart from refused CANCELs, an interim reply first, and      *)
(* without refused CANCELs all with the same async id.                     *)
RepliesSound(out) ==
    \A o, p \in DOMAIN out : out[o].mid = out[p].mid /\ out[o].mid # BREAK_ID /\ o < p =>
        /\ ~(/\ Final(out[o]) /\ out[o].cmd # "CANCEL"
             /\ Final(out[p]) /\ out[p].cmd # "CANCEL")
        /\ Final(out[p])
        /\ \/ out[o].async = out[p].async
           \/ \E c \in DOMAIN out : out[c].mid = out[p].mid /\ out[c].cmd = "CANCEL"

Core(q, d, out, sent, got, X) ==
    /\ QueueSound(q, sent, got)
    /\ OrderSound(q)
    /\ WaitSound(q, d, out, X)
    /\ DueSound(q, d, out, sent, got, X)
    /\ NoneSkipped(q, out, sent, got)
    /\ AnswerSound(out, sent, got)
    /\ RepliesSound(out)

(* How far the client has logged in once it has read the reply p.          *)
PhaseAfter(phase, p) ==
    CASE p.cmd = "NEGOTIATE" /\ p.status = "ok" -> "negotiated"
      [] p.cmd = "SESSION_SETUP" /\ p.status = "more" -> "challenged"
      [] p.cmd = "SESSION_SETUP" /\ p.status = "ok" -> "in"
      [] p.cmd = "SESSION_SETUP" /\ p.status = "error" -> "negotiated"
      [] OTHER -> phase

Ahead(k, u) == IF u.seen < Len(k.out) THEN PhaseAfter(u.phase, k.out[Len(k.out)]) ELSE u.phase

(* What the server expects is what the client will send in that phase.     *)
ExpectSound(expect, phase, sent, got) ==
    /\ phase = "start" => expect = "NEGOTIATE"
    /\ phase = "challenged" => expect = "SESSION_SETUP"
    /\ phase = "negotiated" =>
           \/ expect = "SESSION_SETUP"
           \/ expect = "TREE_CONNECT" /\ got < Len(sent) /\ sent[Len(sent)].cmd = "LOGOFF"
    /\ phase = "in" =>
           /\ expect = "TREE_CONNECT"
           /\ \A i \in (got + 1)..Len(sent) : sent[i].cmd # "LOGOFF"

(* A request that has not been read is the one that is expected.           *)
UnreadSound(expect, phase, sent, got) ==
    \A i \in (got + 1)..Len(sent) :
        \/ /\ expect = "NEGOTIATE" /\ phase = "start" /\ i = got + 1 /\ i = Len(sent)
           /\ sent[i].cmd = "NEGOTIATE" /\ sent[i].msg \in Hellos
        \/ /\ expect = "SESSION_SETUP" /\ i = got + 1 /\ i = Len(sent)
           /\ sent[i].cmd = "SESSION_SETUP"
           /\ \/ sent[i].msg = "negotiate" /\ phase = "negotiated"
              \/ sent[i].msg = "authenticate" /\ phase = "challenged"
        \/ /\ expect = "TREE_CONNECT" /\ sent[i].cmd \in Handled /\ sent[i].msg = NULL
           /\ sent[i].cmd = "LOGOFF" => i = Len(sent)

StageSound(k, u) ==
    /\ u.seen <= Len(k.out) /\ Len(k.out) <= u.seen + 1
    /\ ExpectSound(k.expect, Ahead(k, u), u.sent, u.got)
    /\ UnreadSound(k.expect, Ahead(k, u), u.sent, u.got)
    /\ Ahead(k, u) # "in" /\ u.sent # <<>> => u.sent[Len(u.sent)].cmd # "CANCEL"
    /\ \A o \in DOMAIN k.out : k.out[o].cmd = "SESSION_SETUP" =>
           k.out[o].status \in {"more", "ok", "error"}
    /\ u.next = 0 => u.phase = "start" /\ u.sent = <<>> /\ k.out = <<>> /\ k.message_id = 0
    /\ \A i \in (u.got + 1)..Len(u.sent) : u.sent[i].msg = "smb1" => k.message_id = 0

(* The tree t is not about to be disconnected by requests up to the i-th.  *)
Stays(u, t, i) ==
    \A j \in (u.got + 1)..i : ~(u.sent[j].cmd = "TREE_DISCONNECT" /\ u.sent[j].tree = t)

TreeIdsSound(k, u, s) ==
    /\ k.trees # <<>> => k.cur \in 1..Len(k.trees)
    /\ \A i \in DOMAIN k.trees : k.trees[i] < s
    /\ \A i \in DOMAIN u.sent : u.sent[i].tree < s
    /\ \A t \in u.trees : t < s
    /\ \A o \in DOMAIN k.out :
           k.out[o].cmd = "TREE_CONNECT" /\ k.out[o].status = "ok" => k.out[o].tree < s

(* As long as there is room, the trees of a client, the one it is about to *)
(* be told of, and those of requests under way are connected.              *)
TreesSound(k, u) ==
    /\ \A t \in u.trees : t \in Range(k.trees) /\ Stays(u, t, Len(u.sent))
    /\ u.seen < Len(k.out) =>
           LET p == k.out[Len(k.out)]
           IN  p.cmd = "TREE_CONNECT" /\ p.status = "ok" =>
                   p.tree \in Range(k.trees) /\ Stays(u, p.tree, Len(u.sent))
    /\ \A i \in (u.got + 1)..Len(u.sent) : u.sent[i].cmd \notin NoTree \cup {"CANCEL"} =>
           u.sent[i].tree \in Range(k.trees) /\ Stays(u, u.sent[i].tree, i - 1)

OpenInv(k, u, s) ==
    /\ SentSound(u.sent, u.got, u.next)
    /\ Core(k.waitqueue, k.deferred, k.out, u.sent, u.got, {})
    /\ StageSound(k, u)
    /\ TreeIdsSound(k, u, s)
    /\ ~k.full => TreesSound(k, u)

ConnInv(k, u, s) ==
    /\ k \in ConnType /\ u \in ClientType
    /\ k.state = "open" => OpenInv(k, u, s)
    /\ k.state = "none" => k = NoConn /\ u = NoClient
    /\ k.state # "open" => k.out = <<>>
    /\ k.astray => k.full

IInv ==
    /\ conn \in [Conns -> ConnType] /\ client \in [Conns -> ClientType]
    /\ s_tree_id \in Nat \ {0} /\ session_counter \in Nat /\ kind \in FileCommands
    /\ \A c \in Conns : ConnInv(conn[c], client[c], s_tree_id)

-----------------------------------------------------------------------------
(* Queues. *)

(* smb2_find_pdu stops at the first entry with the message id.             *)
IsFirst(q, m, i) ==
    i \in DOMAIN q /\ q[i].mid = m /\ \A a \in DOMAIN q : q[a].mid = m => i <= a

LEMMA FindPdu ==
    ASSUME NEW k \in ConnType, NEW m, NEW i, i = smb2_find_pdu(k, m)
    PROVE  \/ i = 0 /\ \A a \in DOMAIN k.waitqueue : k.waitqueue[a].mid # m
           \/ i # 0 /\ IsFirst(k.waitqueue, m, i)
<1> DEFINE q == k.waitqueue
           I == {j \in 1..Len(q) : q[j].mid = m}
<1>1. q \in Seq(WaitType)
  BY DEF ConnType
<1>2. Len(q) \in Nat /\ DOMAIN q = 1..Len(q)
  BY <1>1, SeqElements
<1>3. i = IF I # {} THEN Min(I) ELSE 0
  BY DEF smb2_find_pdu, SelectInSeq
<1>4. CASE I = {}
  BY <1>2, <1>3, <1>4
<1>5. CASE I # {}
  <2>1. I \in SUBSET Nat
    BY <1>2
  <2>2. Min(I) \in I /\ \A y \in I : Min(I) <= y
    BY <1>5, <2>1, MinNat
  <2> QED BY <1>2, <1>3, <1>5, <2>2 DEF IsFirst
<1> QED BY <1>4, <1>5

(* r has the entries of q in their order, but for the i-th.                *)
Without(r, q, i) ==
    \E f \in [DOMAIN r -> DOMAIN q] :
        /\ \A j \in DOMAIN r : f[j] # i /\ r[j] = q[f[j]]
        /\ \A j, k \in DOMAIN r : f[j] <= f[k] => j <= k
        /\ \A k \in DOMAIN q : k # i => \E j \in DOMAIN r : f[j] = k

LEMMA RemoveInOrder ==
    ASSUME NEW S, NEW q \in Seq(S), NEW i \in DOMAIN q, NEW r, r = RemoveAt(q, i)
    PROVE  r \in Seq(S) /\ Without(r, q, i)
<1> DEFINE n == Len(q)
           f == [j \in 1..(n - 1) |-> IF j < i THEN j ELSE j + 1]
<1>1. n \in Nat /\ DOMAIN q = 1..n /\ i \in 1..n
  BY SeqElements
<1>2. /\ r \in Seq(S) /\ Len(r) = n - 1
      /\ \A j \in 1..(n - 1) : r[j] = IF j < i THEN q[j] ELSE q[j + 1]
  BY <1>1, RemoveAtSeq
<1>3. DOMAIN r = 1..(n - 1)
  BY <1>2, SeqElements
<1> HIDE DEF n
<1>4. f \in [1..(n - 1) -> 1..n]
  BY <1>1
<1>5. \A j \in 1..(n - 1) : f[j] # i /\ r[j] = q[f[j]]
  BY <1>1, <1>2
<1>6. \A j, k \in 1..(n - 1) : f[j] <= f[k] => j <= k
  BY <1>1
<1>7. ASSUME NEW k \in 1..n, k # i
      PROVE  \E j \in 1..(n - 1) : f[j] = k
  <2>1. CASE k < i
    <3>1. k \in 1..(n - 1) /\ f[k] = k
      BY <1>1, <2>1
    <3> QED BY <3>1
  <2>2. CASE k > i
    <3>1. k - 1 \in 1..(n - 1) /\ ~(k - 1 < i) /\ (k - 1) + 1 = k
      BY <1>1, <2>2
    <3>2. f[k - 1] = k
      BY <3>1
    <3> QED BY <3>1, <3>2
  <2> QED BY <1>1, <1>7, <2>1, <2>2
<1> HIDE DEF f
<1>8. /\ f \in [DOMAIN r -> DOMAIN q]
      /\ \A j \in DOMAIN r : f[j] # i /\ r[j] = q[f[j]]
      /\ \A j, k \in DOMAIN r : f[j] <= f[k] => j <= k
      /\ \A k \in DOMAIN q : k # i => \E j \in DOMAIN r : f[j] = k
  BY <1>1, <1>3, <1>4, <1>5, <1>6, <1>7
<1>9. Without(r, q, i)
  BY <1>8, Zenon DEF Without
<1> QED BY <1>2, <1>9

Lists(q, d, out, sent, got) ==
    /\ q \in Seq(WaitType) /\ d \in SUBSET DueType /\ out \in Seq(RepType)
    /\ sent \in Seq(ReqType) /\ got \in Nat

(* Every request has a natural number, which that of a notification is not. *)
LEMMA ListFacts ==
    ASSUME NEW q, NEW d, NEW out, NEW sent, NEW got, Lists(q, d, out, sent, got)
    PROVE  /\ Len(q) \in Nat /\ DOMAIN q = 1..Len(q) /\ Len(out) \in Nat
           /\ DOMAIN out = 1..Len(out) /\ Len(sent) \in Nat /\ DOMAIN sent = 1..Len(sent)
           /\ \A a \in DOMAIN q : q[a] \in WaitType /\ q[a].mid \in Nat /\ q[a].mid # BREAK_ID
           /\ \A o \in DOMAIN out : out[o] \in RepType
           /\ \A i \in DOMAIN sent : sent[i] \in ReqType /\ sent[i].mid \in Nat
           /\ \A r \in d : r \in DueType /\ r.mid \in Nat
           /\ \A m \in Mids(d) : m \in Nat /\ \E r \in d : r.mid = m
           /\ \A r \in d : r.mid \in Mids(d)
<1>1. /\ q \in Seq(WaitType) /\ d \in SUBSET DueType /\ out \in Seq(RepType)
      /\ sent \in Seq(ReqType) /\ got \in Nat
  BY DEF Lists
<1>2. /\ Len(q) \in Nat /\ DOMAIN q = 1..Len(q) /\ \A a \in DOMAIN q : q[a] \in WaitType
  BY <1>1, SeqElements, ElementOfSeq
<1>3. /\ Len(out) \in Nat /\ DOMAIN out = 1..Len(out) /\ \A a \in DOMAIN out : out[a] \in RepType
  BY <1>1, SeqElements, ElementOfSeq
<1>4. /\ Len(sent) \in Nat /\ DOMAIN sent = 1..Len(sent)
      /\ \A a \in DOMAIN sent : sent[a] \in ReqType
  BY <1>1, SeqElements, ElementOfSeq
<1>5. \A w \in WaitType : w.mid \in Nat /\ w.mid # BREAK_ID
  BY DEF WaitType, BREAK_ID
<1>6. \A w \in ReqType : w.mid \in Nat
  BY DEF ReqType
<1>7. \A w \in DueType : w.mid \in Nat
  BY DEF DueType
<1>8. /\ \A r \in d : r \in DueType /\ r.mid \in Nat
      /\ \A m \in Mids(d) : m \in Nat /\ \E r \in d : r.mid = m
      /\ \A r \in d : r.mid \in Mids(d)
  BY <1>1, <1>7 DEF Mids
<1> QED BY <1>2, <1>3, <1>4, <1>5, <1>6, <1>8

-----------------------------------------------------------------------------
(* What a reply adds. *)

(* p may follow the replies before it.                                     *)
Follows(p, out) ==
    \A o \in DOMAIN out : out[o].mid = p.mid /\ p.mid # BREAK_ID =>
        /\ ~(Final(out[o]) /\ out[o].cmd # "CANCEL" /\ Final(p) /\ p.cmd # "CANCEL")
        /\ Final(p)
        /\ \/ out[o].async = p.async \/ p.cmd = "CANCEL"
           \/ \E c \in DOMAIN out : out[c].mid = p.mid /\ out[c].cmd = "CANCEL"

LEMMA AppendReplies ==
    ASSUME NEW out \in Seq(RepType), NEW p \in RepType, RepliesSound(out), Follows(p, out)
    PROVE  RepliesSound(Append(out, p))
<1> DEFINE t == Append(out, p)
           n == Len(out) + 1
<1>1. /\ t \in Seq(RepType) /\ Len(out) \in Nat /\ DOMAIN out = 1..Len(out)
      /\ DOMAIN t = 1..n /\ n \in DOMAIN t /\ t[n] = p
      /\ \A j \in DOMAIN out : j \in DOMAIN t /\ t[j] = out[j]
      /\ \A j \in DOMAIN t : j \in DOMAIN out \/ j = n
  BY AppendIndex
<1> HIDE DEF t
<1>2. ASSUME NEW o \in DOMAIN t, NEW x \in DOMAIN t, t[o].mid = t[x].mid, t[o].mid # BREAK_ID, o < x
      PROVE  /\ ~(Final(t[o]) /\ t[o].cmd # "CANCEL" /\ Final(t[x]) /\ t[x].cmd # "CANCEL")
             /\ Final(t[x])
             /\ \/ t[o].async = t[x].async
                \/ \E c \in DOMAIN t : t[c].mid = t[x].mid /\ t[c].cmd = "CANCEL"
  <2>1. o \in DOMAIN out /\ t[o] = out[o]
    BY <1>1, <1>2
  <2>2. CASE x = n
    <3>1. t[x] = p
      BY <1>1, <2>2
    <3>2. /\ ~(Final(out[o]) /\ out[o].cmd # "CANCEL" /\ Final(p) /\ p.cmd # "CANCEL")
          /\ Final(p)
          /\ \/ out[o].async = p.async \/ p.cmd = "CANCEL"
             \/ \E c \in DOMAIN out : out[c].mid = p.mid /\ out[c].cmd = "CANCEL"
      BY <1>2, <2>1, <3>1 DEF Follows
    <3>3. (\E c \in DOMAIN out : out[c].mid = p.mid /\ out[c].cmd = "CANCEL")
              => \E c \in DOMAIN t : t[c].mid = p.mid /\ t[c].cmd = "CANCEL"
      BY <1>1
    <3>4. p.cmd = "CANCEL" => \E c \in DOMAIN t : t[c].mid = p.mid /\ t[c].cmd = "CANCEL"
      BY <1>1
    <3> QED BY <2>1, <3>1, <3>2, <3>3, <3>4
  <2>3. CASE x # n
    <3>1. x \in DOMAIN out /\ t[x] = out[x]
      BY <1>1, <2>3
    <3>2. /\ ~(Final(out[o]) /\ out[o].cmd # "CANCEL" /\ Final(out[x]) /\ out[x].cmd # "CANCEL")
          /\ Final(out[x])
          /\ \/ out[o].async = out[x].async
             \/ \E c \in DOMAIN out : out[c].mid = out[x].mid /\ out[c].cmd = "CANCEL"
      BY <1>2, <2>1, <3>1 DEF RepliesSound
    <3>3. (\E c \in DOMAIN out : out[c].mid = out[x].mid /\ out[c].cmd = "CANCEL")
              => \E c \in DOMAIN t : t[c].mid = out[x].mid /\ t[c].cmd = "CANCEL"
      BY <1>1
    <3> QED BY <2>1, <3>1, <3>2, <3>3
  <2> QED BY <2>2, <2>3
<1>3. RepliesSound(t)
  BY <1>2 DEF RepliesSound
<1> QED BY <1>3 DEF t

(* p answers a request that was read.                                      *)
Answers(p, sent, got) ==
    p.mid # BREAK_ID =>
        \E i \in 1..got :
            /\ IsRequest(sent, i, p.mid)
            /\ \/ p.async # 0 \/ p.cmd \in {"TREE_CONNECT", "CANCEL"} \/ p.tree = sent[i].tree

LEMMA AppendAnswers ==
    ASSUME NEW out \in Seq(RepType), NEW p \in RepType, NEW sent, NEW got,
           AnswerSound(out, sent, got), Answers(p, sent, got)
    PROVE  AnswerSound(Append(out, p), sent, got)
<1> DEFINE t == Append(out, p)
           n == Len(out) + 1
<1>1. /\ n \in DOMAIN t /\ t[n] = p
      /\ \A j \in DOMAIN out : j \in DOMAIN t /\ t[j] = out[j]
      /\ \A j \in DOMAIN t : j \in DOMAIN out \/ j = n
  BY AppendIndex
<1> HIDE DEF t, n
<1>2. AnswerSound(t, sent, got)
  <2> SUFFICES ASSUME NEW o \in DOMAIN t, t[o].mid # BREAK_ID
               PROVE  \E i \in 1..got :
                         /\ IsRequest(sent, i, t[o].mid)
                         /\ \/ t[o].async # 0 \/ t[o].cmd \in {"TREE_CONNECT", "CANCEL"}
                            \/ t[o].tree = sent[i].tree
    BY DEF AnswerSound
  <2>1. CASE o = n
    BY <1>1, <2>1 DEF Answers
  <2>2. CASE o \in DOMAIN out
    BY <1>1, <2>2 DEF AnswerSound
  <2> QED BY <1>1, <2>1, <2>2
<1> QED BY <1>2 DEF t

(* A request whose entry is removed has a final reply.                     *)
LEMMA AppendSkipped ==
    ASSUME NEW q, NEW d, NEW out, NEW sent, NEW got, Lists(q, d, out, sent, got),
           NoneSkipped(q, out, sent, got), NEW p \in RepType, NEW i \in DOMAIN q,
           NEW r, Without(r, q, i), q[i].mid = p.mid, Final(p)
    PROVE  NoneSkipped(r, Append(out, p), sent, got)
<1> DEFINE t == Append(out, p)
           n == Len(out) + 1
<1>1. /\ n \in DOMAIN t /\ t[n] = p
      /\ \A j \in DOMAIN out : j \in DOMAIN t /\ t[j] = out[j]
  BY AppendIndex DEF Lists
<1> HIDE DEF t, n
<1>2. PICK f \in [DOMAIN r -> DOMAIN q] :
        /\ \A j \in DOMAIN r : f[j] # i /\ r[j] = q[f[j]]
        /\ \A k \in DOMAIN q : k # i => \E j \in DOMAIN r : f[j] = k
  BY DEF Without
<1>3. ASSUME NEW x \in 1..got, sent[x].cmd # "CANCEL"
      PROVE  \/ \E a \in DOMAIN r : r[a].mid = sent[x].mid /\ r[a].cmd # "CANCEL"
             \/ \E o \in DOMAIN t : t[o].mid = sent[x].mid /\ Final(t[o])
  <2>1. CASE \E o \in DOMAIN out : out[o].mid = sent[x].mid /\ Final(out[o])
    BY <1>1, <2>1
  <2>2. CASE \E a \in DOMAIN q : q[a].mid = sent[x].mid /\ q[a].cmd # "CANCEL"
    <3>1. PICK a \in DOMAIN q : q[a].mid = sent[x].mid /\ q[a].cmd # "CANCEL"
      BY <2>2
    <3>2. CASE a = i
      BY <1>1, <3>1, <3>2
    <3>3. CASE a # i
      <4>1. PICK j \in DOMAIN r : f[j] = a
        BY <1>2, <3>3
      <4> QED BY <1>2, <3>1, <4>1
    <3> QED BY <3>2, <3>3
  <2> QED BY <1>3, <2>1, <2>2 DEF NoneSkipped
<1>4. NoneSkipped(r, t, sent, got)
  BY <1>3 DEF NoneSkipped
<1> QED BY <1>4 DEF t

(* An entry that is removed leaves the others as they are.                 *)
LEMMA RemoveQueued ==
    ASSUME NEW q, NEW sent, NEW got, NEW i \in DOMAIN q, NEW r, Without(r, q, i),
           QueueSound(q, sent, got), OrderSound(q)
    PROVE  QueueSound(r, sent, got) /\ OrderSound(r)
<1>1. PICK f \in [DOMAIN r -> DOMAIN q] :
        /\ \A j \in DOMAIN r : f[j] # i /\ r[j] = q[f[j]]
        /\ \A j, k \in DOMAIN r : f[j] <= f[k] => j <= k
  BY DEF Without
<1>2. \A j \in DOMAIN r : f[j] \in DOMAIN q
  OBVIOUS
<1>3. QueueSound(r, sent, got)
  BY <1>1, <1>2 DEF QueueSound
<1>4. OrderSound(r)
  BY <1>1, <1>2 DEF OrderSound
<1> QED BY <1>3, <1>4

-----------------------------------------------------------------------------
(* Requests and replies, as the lists see them. *)

(* A request is answered: its entry goes, the reply is queued.             *)
LEMMA CoreAnswer ==
    ASSUME NEW q, NEW d, NEW out, NEW sent, NEW got, Lists(q, d, out, sent, got),
           NEW m \in Nat, Core(q, d, out, sent, got, {m}),
           NEW i, IsFirst(q, m, i), NEW p \in RepType, p.mid = m, Final(p), p.cmd # "CANCEL",
           p.async = q[i].async,
           p.async # 0 \/ p.cmd = "TREE_CONNECT" \/ p.tree = q[i].tree
    PROVE  Core(RemoveAt(q, i), d, Append(out, p), sent, got, {})
<1> DEFINE r == RemoveAt(q, i)
           t == Append(out, p)
           n == Len(out) + 1
<1>1. /\ QueueSound(q, sent, got) /\ OrderSound(q) /\ WaitSound(q, d, out, {m})
      /\ DueSound(q, d, out, sent, got, {m}) /\ NoneSkipped(q, out, sent, got)
      /\ AnswerSound(out, sent, got) /\ RepliesSound(out)
  BY DEF Core
<1>2. i \in DOMAIN q /\ q[i].mid = m /\ \A a \in DOMAIN q : q[a].mid = m => i <= a
  BY DEF IsFirst
<1>3. r \in Seq(WaitType) /\ Without(r, q, i)
  BY <1>2, RemoveInOrder DEF Lists
<1>4. PICK f \in [DOMAIN r -> DOMAIN q] :
        /\ \A j \in DOMAIN r : f[j] # i /\ r[j] = q[f[j]]
        /\ \A k \in DOMAIN q : k # i => \E j \in DOMAIN r : f[j] = k
  BY <1>3 DEF Without
<1>5. /\ n \in DOMAIN t /\ t[n] = p
      /\ \A j \in DOMAIN out : j \in DOMAIN t /\ t[j] = out[j]
      /\ \A j \in DOMAIN t : j \in DOMAIN out \/ j = n
  BY AppendIndex DEF Lists
<1>6. m # BREAK_ID /\ \A a \in DOMAIN q : a \in Nat
  BY ListFacts DEF BREAK_ID
<1>7. \A a \in DOMAIN q : q[a].mid = m /\ q[a].cmd # "CANCEL" => a = i
  BY <1>1, <1>2, <1>6 DEF OrderSound
<1> HIDE DEF r, t, n
<1>8. QueueSound(r, sent, got) /\ OrderSound(r)
  BY <1>1, <1>2, <1>3, RemoveQueued
<1>9. WaitSound(r, d, t, {})
  <2> SUFFICES ASSUME NEW j \in DOMAIN r, r[j].cmd # "CANCEL"
               PROVE  /\ r[j].mid \in Mids(d)
                      /\ \A o \in DOMAIN t : t[o].mid = r[j].mid =>
                            ~Final(t[o]) /\ t[o].async = r[j].async /\ r[j].async # 0
    BY DEF WaitSound
  <2>1. f[j] \in DOMAIN q /\ f[j] # i /\ r[j] = q[f[j]]
    BY <1>4
  <2>2. r[j].mid # m
    BY <1>7, <2>1
  <2>3. /\ r[j].mid \in Mids(d)
        /\ \A o \in DOMAIN out : out[o].mid = r[j].mid =>
              ~Final(out[o]) /\ out[o].async = r[j].async /\ r[j].async # 0
    BY <1>1, <2>1, <2>2 DEF WaitSound
  <2> QED BY <1>5, <2>2, <2>3
<1>10. DueSound(r, d, t, sent, got, {})
  <2>1. ASSUME NEW x \in Mids(d)
        PROVE  /\ \E a \in DOMAIN r : r[a].mid = x
               /\ \A o \in DOMAIN t : t[o].mid = x /\ Final(t[o]) => t[o].cmd = "CANCEL"
    <3>1. x # m
      BY <1>1 DEF DueSound
    <3>2. /\ \E a \in DOMAIN q : q[a].mid = x
          /\ \A o \in DOMAIN out : out[o].mid = x /\ Final(out[o]) => out[o].cmd = "CANCEL"
      BY <1>1 DEF DueSound
    <3>3. PICK a \in DOMAIN q : q[a].mid = x
      BY <3>2
    <3>4. a # i
      BY <1>2, <3>1, <3>3
    <3>5. PICK j \in DOMAIN r : f[j] = a
      BY <1>4, <3>4
    <3>6. r[j].mid = x
      BY <1>4, <3>3, <3>5
    <3> QED BY <1>5, <3>1, <3>2, <3>6
  <2> QED BY <1>1, <2>1 DEF DueSound
<1>11. NoneSkipped(r, t, sent, got)
  BY <1>1, <1>2, <1>3, AppendSkipped DEF t
<1>12. AnswerSound(t, sent, got)
  <2>1. PICK x \in 1..got : /\ IsRequest(sent, x, q[i].mid)
                            /\ q[i].async = 0 => q[i].tree = sent[x].tree
    BY <1>1, <1>2 DEF QueueSound
  <2>2. Answers(p, sent, got)
    BY <1>2, <2>1 DEF Answers
  <2> QED BY <1>1, <2>2, AppendAnswers DEF t, Lists
<1>13. RepliesSound(t)
  <2>1. ASSUME NEW o \in DOMAIN out, out[o].mid = m
        PROVE  /\ ~(Final(out[o]) /\ out[o].cmd # "CANCEL")
               /\ \/ out[o].async = p.async
                  \/ \E c \in DOMAIN out : out[c].mid = m /\ out[c].cmd = "CANCEL"
    <3>1. ~(Final(out[o]) /\ out[o].cmd # "CANCEL")
      BY <1>1, <2>1 DEF DueSound
    <3>2. CASE q[i].cmd # "CANCEL"
      BY <1>1, <1>2, <2>1, <3>1, <3>2 DEF WaitSound
    <3>3. CASE q[i].cmd = "CANCEL"
      <4>1. ~\E a \in DOMAIN q : q[a].mid = m /\ q[a].cmd # "CANCEL"
        BY <1>7, <3>3
      <4>2. PICK x \in 1..got : IsRequest(sent, x, m)
        BY <1>1, <1>2 DEF QueueSound
      <4>3. PICK c \in DOMAIN out : out[c].mid = m /\ Final(out[c])
        BY <1>1, <4>1, <4>2 DEF NoneSkipped, IsRequest
      <4>4. out[c].cmd = "CANCEL"
        BY <1>1, <4>3 DEF DueSound
      <4> QED BY <3>1, <4>3, <4>4
    <3> QED BY <3>2, <3>3
  <2>2. Follows(p, out)
    BY <2>1 DEF Follows
  <2> QED BY <1>1, <2>2, AppendReplies DEF t, Lists
<1>14. Core(r, d, t, sent, got, {})
  BY <1>8, <1>9, <1>10, <1>11, <1>12, <1>13 DEF Core
<1> QED BY <1>14 DEF r, t

(* A CANCEL is refused: the reply takes the entry of the request, and the  *)
(* CANCEL stays for the answer to come.                                    *)
LEMMA CoreRefuse ==
    ASSUME NEW q, NEW d, NEW out, NEW sent, NEW got, Lists(q, d, out, sent, got),
           NEW m \in Nat, Core(q, d, out, sent, got, {}),
           NEW i, IsFirst(q, m, i), NEW p \in RepType, p.mid = m, Final(p), p.cmd = "CANCEL",
           m \in Mids(d) => \E a \in DOMAIN q : q[a].mid = m /\ a # i
    PROVE  Core(RemoveAt(q, i), d, Append(out, p), sent, got, {})
<1> DEFINE r == RemoveAt(q, i)
           t == Append(out, p)
           n == Len(out) + 1
<1>1. /\ QueueSound(q, sent, got) /\ OrderSound(q) /\ WaitSound(q, d, out, {})
      /\ DueSound(q, d, out, sent, got, {}) /\ NoneSkipped(q, out, sent, got)
      /\ AnswerSound(out, sent, got) /\ RepliesSound(out)
  BY DEF Core
<1>2. i \in DOMAIN q /\ q[i].mid = m /\ \A a \in DOMAIN q : q[a].mid = m => i <= a
  BY DEF IsFirst
<1>3. r \in Seq(WaitType) /\ Without(r, q, i)
  BY <1>2, RemoveInOrder DEF Lists
<1>4. PICK f \in [DOMAIN r -> DOMAIN q] :
        /\ \A j \in DOMAIN r : f[j] # i /\ r[j] = q[f[j]]
        /\ \A k \in DOMAIN q : k # i => \E j \in DOMAIN r : f[j] = k
  BY <1>3 DEF Without
<1>5. /\ n \in DOMAIN t /\ t[n] = p
      /\ \A j \in DOMAIN out : j \in DOMAIN t /\ t[j] = out[j]
      /\ \A j \in DOMAIN t : j \in DOMAIN out \/ j = n
  BY AppendIndex DEF Lists
<1>6. m # BREAK_ID /\ \A a \in DOMAIN q : a \in Nat
  BY ListFacts DEF BREAK_ID
<1>7. \A a \in DOMAIN q : q[a].mid = m /\ q[a].cmd # "CANCEL" => a = i
  BY <1>1, <1>2, <1>6 DEF OrderSound
<1> HIDE DEF r, t, n
<1>8. QueueSound(r, sent, got) /\ OrderSound(r)
  BY <1>1, <1>2, <1>3, RemoveQueued
<1>9. WaitSound(r, d, t, {})
  <2> SUFFICES ASSUME NEW j \in DOMAIN r, r[j].cmd # "CANCEL"
               PROVE  /\ r[j].mid \in Mids(d)
                      /\ \A o \in DOMAIN t : t[o].mid = r[j].mid =>
                            ~Final(t[o]) /\ t[o].async = r[j].async /\ r[j].async # 0
    BY DEF WaitSound
  <2>1. f[j] \in DOMAIN q /\ f[j] # i /\ r[j] = q[f[j]]
    BY <1>4
  <2>2. r[j].mid # m
    BY <1>7, <2>1
  <2>3. /\ r[j].mid \in Mids(d)
        /\ \A o \in DOMAIN out : out[o].mid = r[j].mid =>
              ~Final(out[o]) /\ out[o].async = r[j].async /\ r[j].async # 0
    BY <1>1, <2>1, <2>2 DEF WaitSound
  <2> QED BY <1>5, <2>2, <2>3
<1>10. DueSound(r, d, t, sent, got, {})
  <2>1. ASSUME NEW x \in Mids(d)
        PROVE  /\ \E a \in DOMAIN r : r[a].mid = x
               /\ \A o \in DOMAIN t : t[o].mid = x /\ Final(t[o]) => t[o].cmd = "CANCEL"
    <3>1. /\ \E a \in DOMAIN q : q[a].mid = x
          /\ \A o \in DOMAIN out : out[o].mid = x /\ Final(out[o]) => out[o].cmd = "CANCEL"
      BY <1>1 DEF DueSound
    <3>2. PICK a \in DOMAIN q : q[a].mid = x /\ a # i
      BY <1>2, <3>1
    <3>3. PICK j \in DOMAIN r : f[j] = a
      BY <1>4, <3>2
    <3>4. r[j].mid = x
      BY <1>4, <3>2, <3>3
    <3> QED BY <1>5, <3>1, <3>4
  <2> QED BY <1>1, <2>1 DEF DueSound
<1>11. NoneSkipped(r, t, sent, got)
  BY <1>1, <1>2, <1>3, AppendSkipped DEF t
<1>12. AnswerSound(t, sent, got)
  <2>1. PICK x \in 1..got : IsRequest(sent, x, q[i].mid)
    BY <1>1, <1>2 DEF QueueSound
  <2>2. Answers(p, sent, got)
    BY <1>2, <2>1 DEF Answers
  <2> QED BY <1>1, <2>2, AppendAnswers DEF t, Lists
<1>13. RepliesSound(t)
  <2>1. Follows(p, out)
    BY DEF Follows
  <2> QED BY <1>1, <2>1, AppendReplies DEF t, Lists
<1>14. Core(r, d, t, sent, got, {})
  BY <1>8, <1>9, <1>10, <1>11, <1>12, <1>13 DEF Core
<1> QED BY <1>14 DEF r, t

(* An interim reply: the entry stays, with the async id in its header.     *)
LEMMA CoreInterim ==
    ASSUME NEW q, NEW d, NEW out, NEW sent, NEW got, Lists(q, d, out, sent, got),
           Core(q, d, out, sent, got, {}),
           NEW i \in DOMAIN q, q[i].async = 0, q[i].cmd \notin {"TREE_CONNECT", "CANCEL"},
           NEW p \in RepType, p.mid = q[i].mid, ~Final(p), p.async # 0,
           NEW r, DOMAIN r = DOMAIN q, \A a \in DOMAIN q : a # i => r[a] = q[a],
           r[i].mid = q[i].mid, r[i].cmd = q[i].cmd, r[i].async = p.async
    PROVE  Core(r, d, Append(out, p), sent, got, {})
<1> DEFINE t == Append(out, p)
           n == Len(out) + 1
           m == q[i].mid
<1>1. /\ QueueSound(q, sent, got) /\ OrderSound(q) /\ WaitSound(q, d, out, {})
      /\ DueSound(q, d, out, sent, got, {}) /\ NoneSkipped(q, out, sent, got)
      /\ AnswerSound(out, sent, got) /\ RepliesSound(out)
  BY DEF Core
<1>2. /\ n \in DOMAIN t /\ t[n] = p
      /\ \A j \in DOMAIN out : j \in DOMAIN t /\ t[j] = out[j]
      /\ \A j \in DOMAIN t : j \in DOMAIN out \/ j = n
  BY AppendIndex DEF Lists
<1>3. \A a \in DOMAIN q : a \in Nat
  BY ListFacts
<1>4. \A a \in DOMAIN q : q[a].mid = m /\ q[a].cmd # "CANCEL" => a = i
  BY <1>1, <1>3 DEF OrderSound
<1>5. \A o \in DOMAIN out : out[o].mid # m
  BY <1>1 DEF WaitSound
<1>6. \A a \in DOMAIN q : r[a].mid = q[a].mid /\ r[a].cmd = q[a].cmd
  OBVIOUS
<1> HIDE DEF t, n
<1>7. QueueSound(r, sent, got)
  <2> SUFFICES ASSUME NEW a \in DOMAIN q
               PROVE  \E x \in 1..got :
                         /\ IsRequest(sent, x, r[a].mid)
                         /\ r[a].cmd \in {sent[x].cmd, "CANCEL"}
                         /\ r[a].async = 0 => r[a].tree = sent[x].tree
                         /\ r[a].async # 0 => r[a].cmd \notin {"TREE_CONNECT", "CANCEL"}
    BY DEF QueueSound
  <2>1. PICK x \in 1..got : /\ IsRequest(sent, x, q[a].mid)
                            /\ q[a].cmd \in {sent[x].cmd, "CANCEL"}
                            /\ q[a].async = 0 => q[a].tree = sent[x].tree
                            /\ q[a].async # 0 => q[a].cmd \notin {"TREE_CONNECT", "CANCEL"}
    BY <1>1 DEF QueueSound
  <2>2. CASE a = i
    BY <1>6, <2>1, <2>2
  <2>3. CASE a # i
    BY <2>1, <2>3
  <2> QED BY <2>2, <2>3
<1>8. OrderSound(r)
  BY <1>1, <1>6 DEF OrderSound
<1>9. WaitSound(r, d, t, {})
  <2> SUFFICES ASSUME NEW a \in DOMAIN q, r[a].cmd # "CANCEL"
               PROVE  /\ r[a].mid \in Mids(d)
                      /\ \A o \in DOMAIN t : t[o].mid = r[a].mid =>
                            ~Final(t[o]) /\ t[o].async = r[a].async /\ r[a].async # 0
    BY DEF WaitSound
  <2>1. /\ q[a].mid \in Mids(d)
        /\ \A o \in DOMAIN out : out[o].mid = q[a].mid =>
              ~Final(out[o]) /\ out[o].async = q[a].async /\ q[a].async # 0
    BY <1>1, <1>6 DEF WaitSound
  <2>2. CASE a = i
    BY <1>2, <1>5, <1>6, <2>1, <2>2
  <2>3. CASE a # i
    <3>1. q[a].mid # m
      BY <1>4, <1>6, <2>3
    <3> QED BY <1>2, <1>6, <2>1, <2>3, <3>1
  <2> QED BY <2>2, <2>3
<1>10. DueSound(r, d, t, sent, got, {})
  <2>1. ASSUME NEW x \in Mids(d)
        PROVE  /\ \E a \in DOMAIN r : r[a].mid = x
               /\ \A o \in DOMAIN t : t[o].mid = x /\ Final(t[o]) => t[o].cmd = "CANCEL"
    BY <1>1, <1>2, <1>6 DEF DueSound
  <2> QED BY <1>1, <2>1 DEF DueSound
<1>11. NoneSkipped(r, t, sent, got)
  BY <1>1, <1>2, <1>6 DEF NoneSkipped
<1>12. AnswerSound(t, sent, got)
  <2>1. PICK x \in 1..got : IsRequest(sent, x, q[i].mid)
    BY <1>1 DEF QueueSound
  <2>2. Answers(p, sent, got)
    BY <2>1 DEF Answers
  <2> QED BY <1>1, <2>2, AppendAnswers DEF t, Lists
<1>13. RepliesSound(t)
  <2>1. Follows(p, out)
    BY <1>5 DEF Follows
  <2> QED BY <1>1, <2>1, AppendReplies DEF t, Lists
<1>14. Core(r, d, t, sent, got, {})
  BY <1>7, <1>8, <1>9, <1>10, <1>11, <1>12, <1>13 DEF Core
<1> QED BY <1>14 DEF t

(* A notification answers nothing.                                         *)
LEMMA CoreNotify ==
    ASSUME NEW q, NEW d, NEW out, NEW sent, NEW got, Lists(q, d, out, sent, got),
           Core(q, d, out, sent, got, {}), NEW p \in RepType, p.mid = BREAK_ID
    PROVE  Core(q, d, Append(out, p), sent, got, {})
<1> DEFINE t == Append(out, p)
           n == Len(out) + 1
<1>1. /\ QueueSound(q, sent, got) /\ OrderSound(q) /\ WaitSound(q, d, out, {})
      /\ DueSound(q, d, out, sent, got, {}) /\ NoneSkipped(q, out, sent, got)
      /\ AnswerSound(out, sent, got) /\ RepliesSound(out)
  BY DEF Core
<1>2. /\ n \in DOMAIN t /\ t[n] = p
      /\ \A j \in DOMAIN out : j \in DOMAIN t /\ t[j] = out[j]
      /\ \A j \in DOMAIN t : j \in DOMAIN out \/ j = n
  BY AppendIndex DEF Lists
<1>3. /\ \A a \in DOMAIN q : q[a].mid # BREAK_ID
      /\ \A m \in Mids(d) : m # BREAK_ID
  BY ListFacts DEF BREAK_ID
<1> HIDE DEF t, n
<1>4. WaitSound(q, d, t, {})
  BY <1>1, <1>2, <1>3 DEF WaitSound
<1>5. DueSound(q, d, t, sent, got, {})
  <2>1. ASSUME NEW x \in Mids(d)
        PROVE  /\ \E a \in DOMAIN q : q[a].mid = x
               /\ \A o \in DOMAIN t : t[o].mid = x /\ Final(t[o]) => t[o].cmd = "CANCEL"
    BY <1>1, <1>2, <1>3 DEF DueSound
  <2> QED BY <1>1, <2>1 DEF DueSound
<1>6. NoneSkipped(q, t, sent, got)
  BY <1>1, <1>2 DEF NoneSkipped
<1>7. AnswerSound(t, sent, got)
  <2>1. Answers(p, sent, got)
    BY DEF Answers
  <2> QED BY <1>1, <2>1, AppendAnswers DEF t, Lists
<1>8. RepliesSound(t)
  <2>1. Follows(p, out)
    BY DEF Follows
  <2> QED BY <1>1, <2>1, AppendReplies DEF t, Lists
<1>9. Core(q, d, t, sent, got, {})
  BY <1>1, <1>4, <1>5, <1>6, <1>7, <1>8 DEF Core
<1> QED BY <1>9 DEF t

(* A request is read and put on the waitqueue, to be handled.              *)
LEMMA CoreRead ==
    ASSUME NEW q, NEW d, NEW out, NEW sent, NEW got, Lists(q, d, out, sent, got),
           Core(q, d, out, sent, got, {}), NEW next, SentSound(sent, got, next),
           got < Len(sent), sent[got + 1].cmd # "CANCEL",
           NEW w \in WaitType, w.mid = sent[got + 1].mid, w.cmd = sent[got + 1].cmd,
           w.tree = sent[got + 1].tree, w.async = 0
    PROVE  Core(Append(q, w), d, out, sent, got + 1, {w.mid})
<1> DEFINE r == Append(q, w)
           n == Len(q) + 1
           g == got + 1
           m == w.mid
<1>1. /\ QueueSound(q, sent, got) /\ OrderSound(q) /\ WaitSound(q, d, out, {})
      /\ DueSound(q, d, out, sent, got, {}) /\ NoneSkipped(q, out, sent, got)
      /\ AnswerSound(out, sent, got) /\ RepliesSound(out)
  BY DEF Core
<1>2. /\ n \in DOMAIN r /\ r[n] = w /\ Len(q) \in Nat /\ DOMAIN q = 1..Len(q)
      /\ \A j \in DOMAIN q : j \in DOMAIN r /\ r[j] = q[j]
      /\ \A j \in DOMAIN r : j \in DOMAIN q \/ j = n
  BY AppendIndex DEF Lists
<1>3. /\ got \in Nat /\ g \in 1..g /\ 1..got \subseteq 1..g /\ Len(sent) \in Nat
      /\ 1..g \subseteq DOMAIN sent /\ \A i \in 1..g : i \in 1..got \/ i = g
      /\ g \notin 1..got /\ m # BREAK_ID
  BY ListFacts DEF Lists, WaitType, BREAK_ID
<1>4. \A i \in 1..got : ~IsRequest(sent, i, m)
  <2> SUFFICES ASSUME NEW i \in 1..got, IsRequest(sent, i, m) PROVE FALSE
    OBVIOUS
  <2>1. i \in DOMAIN sent /\ g \in DOMAIN sent
    BY <1>3
  <2>2. g = i
    BY <2>1 DEF SentSound
  <2> QED BY <1>3, <2>2
<1>5. \A a \in DOMAIN q : q[a].mid # m
  BY <1>1, <1>4 DEF QueueSound
<1>6. m \notin Mids(d)
  <2> SUFFICES ASSUME NEW x \in d, x.mid = m PROVE FALSE
    BY DEF Mids
  <2> QED BY <1>1, <1>4 DEF DueSound, IsRequest
<1>7. \A o \in DOMAIN out : out[o].mid # m
  BY <1>1, <1>3, <1>4 DEF AnswerSound
<1>8. IsRequest(sent, g, m) /\ w.cmd = sent[g].cmd /\ w.tree = sent[g].tree
  BY DEF IsRequest
<1> HIDE DEF r, n, g, m
<1>9. QueueSound(r, sent, g)
  BY <1>1, <1>2, <1>3, <1>8 DEF QueueSound, m
<1>10. OrderSound(r)
  <2> SUFFICES ASSUME NEW a \in DOMAIN r, NEW b \in DOMAIN r, r[a].mid = r[b].mid,
                      r[a].cmd # "CANCEL"
               PROVE  a <= b
    BY DEF OrderSound
  <2>1. CASE a \in DOMAIN q /\ b \in DOMAIN q
    BY <1>1, <1>2, <2>1 DEF OrderSound
  <2>2. CASE a = n /\ b = n
    BY <1>2, <2>2 DEF n
  <2>3. CASE a = n /\ b \in DOMAIN q
    BY <1>2, <1>5, <2>3 DEF m
  <2>4. CASE a \in DOMAIN q /\ b = n
    BY <1>2, <1>5, <2>4 DEF m
  <2> QED BY <1>2, <2>1, <2>2, <2>3, <2>4
<1>11. WaitSound(r, d, out, {m})
  <2> SUFFICES ASSUME NEW a \in DOMAIN r, r[a].cmd # "CANCEL"
               PROVE  /\ r[a].mid \in Mids(d) \cup {m}
                      /\ \A o \in DOMAIN out : out[o].mid = r[a].mid =>
                            ~Final(out[o]) /\ out[o].async = r[a].async /\ r[a].async # 0
    BY DEF WaitSound
  <2>1. CASE a \in DOMAIN q
    BY <1>1, <1>2, <2>1 DEF WaitSound
  <2>2. CASE a = n
    BY <1>2, <1>7, <2>2 DEF m
  <2> QED BY <1>2, <2>1, <2>2
<1>12. DueSound(r, d, out, sent, g, {m})
  <2>1. Mids(d) \cap {m} = {}
    BY <1>6
  <2>2. ASSUME NEW x \in Mids(d) \cup {m}
        PROVE  /\ \E a \in DOMAIN r : r[a].mid = x
               /\ \A o \in DOMAIN out : out[o].mid = x /\ Final(out[o]) => out[o].cmd = "CANCEL"
    <3>1. CASE x = m
      BY <1>2, <1>7, <3>1 DEF m
    <3>2. CASE x \in Mids(d)
      BY <1>1, <1>2, <3>2 DEF DueSound
    <3> QED BY <3>1, <3>2
  <2> QED BY <1>1, <1>3, <2>1, <2>2 DEF DueSound
<1>13. NoneSkipped(r, out, sent, g)
  <2> SUFFICES ASSUME NEW i \in 1..g, sent[i].cmd # "CANCEL"
               PROVE  \/ \E a \in DOMAIN r : r[a].mid = sent[i].mid /\ r[a].cmd # "CANCEL"
                      \/ \E o \in DOMAIN out : out[o].mid = sent[i].mid /\ Final(out[o])
    BY DEF NoneSkipped
  <2>1. CASE i \in 1..got
    BY <1>1, <1>2, <2>1 DEF NoneSkipped
  <2>2. CASE i = g
    BY <1>2, <1>8, <2>2 DEF IsRequest, m
  <2> QED BY <1>3, <2>1, <2>2
<1>14. AnswerSound(out, sent, g)
  BY <1>1, <1>3 DEF AnswerSound
<1>15. Core(r, d, out, sent, g, {m})
  BY <1>1, <1>9, <1>10, <1>11, <1>12, <1>13, <1>14 DEF Core
<1> QED BY <1>15 DEF r, g, m

(* A CANCEL is read and put on the waitqueue behind its request.           *)
LEMMA CoreReadCancel ==
    ASSUME NEW q, NEW d, NEW out, NEW sent, NEW got, Lists(q, d, out, sent, got),
           Core(q, d, out, sent, got, {}), NEW next, SentSound(sent, got, next),
           got < Len(sent), sent[got + 1].cmd = "CANCEL",
           NEW w \in WaitType, w.mid = sent[got + 1].mid, w.cmd = "CANCEL",
           w.tree = sent[got + 1].tree, w.async = 0
    PROVE  Core(Append(q, w), d, out, sent, got + 1, {})
<1> DEFINE r == Append(q, w)
           n == Len(q) + 1
           g == got + 1
<1>1. /\ QueueSound(q, sent, got) /\ OrderSound(q) /\ WaitSound(q, d, out, {})
      /\ DueSound(q, d, out, sent, got, {}) /\ NoneSkipped(q, out, sent, got)
      /\ AnswerSound(out, sent, got) /\ RepliesSound(out)
  BY DEF Core
<1>2. /\ n \in DOMAIN r /\ r[n] = w /\ Len(q) \in Nat /\ DOMAIN q = 1..Len(q)
      /\ \A j \in DOMAIN q : j \in DOMAIN r /\ r[j] = q[j] /\ j <= n
      /\ \A j \in DOMAIN r : j \in DOMAIN q \/ j = n
  BY AppendIndex DEF Lists
<1>3. /\ got \in Nat /\ g \in 1..g /\ 1..got \subseteq 1..g /\ Len(sent) \in Nat
      /\ g \in DOMAIN sent /\ \A i \in 1..g : i \in 1..got \/ i = g
      /\ 1..(g - 1) = 1..got
  BY ListFacts DEF Lists
<1>4. PICK x \in 1..got : IsRequest(sent, x, w.mid) /\ sent[x].tree = w.tree
  BY <1>3 DEF SentSound
<1>5. sent[g].cmd = "CANCEL"
  OBVIOUS
<1> HIDE DEF r, n, g
<1>6. QueueSound(r, sent, g)
  <2> SUFFICES ASSUME NEW a \in DOMAIN r
               PROVE  \E i \in 1..g :
                         /\ IsRequest(sent, i, r[a].mid)
                         /\ r[a].cmd \in {sent[i].cmd, "CANCEL"}
                         /\ r[a].async = 0 => r[a].tree = sent[i].tree
                         /\ r[a].async # 0 => r[a].cmd \notin {"TREE_CONNECT", "CANCEL"}
    BY DEF QueueSound
  <2>1. CASE a \in DOMAIN q
    BY <1>1, <1>2, <1>3, <2>1 DEF QueueSound
  <2>2. CASE a = n
    BY <1>2, <1>3, <1>4, <2>2
  <2> QED BY <1>2, <2>1, <2>2
<1>7. OrderSound(r)
  <2> SUFFICES ASSUME NEW a \in DOMAIN r, NEW b \in DOMAIN r, r[a].mid = r[b].mid,
                      r[a].cmd # "CANCEL"
               PROVE  a <= b
    BY DEF OrderSound
  <2>1. a \in DOMAIN q
    BY <1>2
  <2> QED BY <1>1, <1>2, <2>1 DEF OrderSound
<1>8. WaitSound(r, d, out, {})
  <2> SUFFICES ASSUME NEW a \in DOMAIN r, r[a].cmd # "CANCEL"
               PROVE  /\ r[a].mid \in Mids(d)
                      /\ \A o \in DOMAIN out : out[o].mid = r[a].mid =>
                            ~Final(out[o]) /\ out[o].async = r[a].async /\ r[a].async # 0
    BY DEF WaitSound
  <2>1. a \in DOMAIN q
    BY <1>2
  <2> QED BY <1>1, <1>2, <2>1 DEF WaitSound
<1>9. DueSound(r, d, out, sent, g, {})
  <2>1. ASSUME NEW x1 \in Mids(d)
        PROVE  /\ \E a \in DOMAIN r : r[a].mid = x1
               /\ \A o \in DOMAIN out : out[o].mid = x1 /\ Final(out[o]) => out[o].cmd = "CANCEL"
    BY <1>1, <1>2 DEF DueSound
  <2> QED BY <1>1, <1>3, <2>1 DEF DueSound
<1>10. NoneSkipped(r, out, sent, g)
  <2> SUFFICES ASSUME NEW i \in 1..g, sent[i].cmd # "CANCEL"
               PROVE  \/ \E a \in DOMAIN r : r[a].mid = sent[i].mid /\ r[a].cmd # "CANCEL"
                      \/ \E o \in DOMAIN out : out[o].mid = sent[i].mid /\ Final(out[o])
    BY DEF NoneSkipped
  <2>1. i \in 1..got
    BY <1>3, <1>5
  <2> QED BY <1>1, <1>2, <2>1 DEF NoneSkipped
<1>11. AnswerSound(out, sent, g)
  BY <1>1, <1>3 DEF AnswerSound
<1>12. Core(r, d, out, sent, g, {})
  BY <1>1, <1>6, <1>7, <1>8, <1>9, <1>10, <1>11 DEF Core
<1> QED BY <1>12 DEF r, g

(* The application puts the answer off.                                    *)
LEMMA CoreDefer ==
    ASSUME NEW q, NEW d, NEW out, NEW sent, NEW got, Lists(q, d, out, sent, got),
           NEW r \in DueType, Core(q, d, out, sent, got, {r.mid}),
           r.cmd \notin Login \cup {"CANCEL"},
           \E i \in 1..got : sent[i].mid = r.mid /\ sent[i].cmd = r.cmd
    PROVE  Core(q, d \cup {r}, out, sent, got, {})
<1>1. /\ QueueSound(q, sent, got) /\ OrderSound(q) /\ WaitSound(q, d, out, {r.mid})
      /\ DueSound(q, d, out, sent, got, {r.mid}) /\ NoneSkipped(q, out, sent, got)
      /\ AnswerSound(out, sent, got) /\ RepliesSound(out)
  BY DEF Core
<1>2. Mids(d \cup {r}) = Mids(d) \cup {r.mid}
  BY DEF Mids
<1>3. WaitSound(q, d \cup {r}, out, {})
  BY <1>1, <1>2 DEF WaitSound
<1>4. DueSound(q, d \cup {r}, out, sent, got, {})
  <2>1. \A x \in d : x.mid # r.mid
    BY <1>1 DEF DueSound, Mids
  <2> QED BY <1>1, <1>2, <2>1 DEF DueSound
<1> QED BY <1>1, <1>3, <1>4 DEF Core

(* It turns to a request it has put off.                                   *)
LEMMA CoreUndefer ==
    ASSUME NEW q, NEW d, NEW out, NEW sent, NEW got, Lists(q, d, out, sent, got),
           Core(q, d, out, sent, got, {}), NEW next, SentSound(sent, got, next), NEW r \in d
    PROVE  Core(q, d \ {r}, out, sent, got, {r.mid})
<1>1. /\ QueueSound(q, sent, got) /\ OrderSound(q) /\ WaitSound(q, d, out, {})
      /\ DueSound(q, d, out, sent, got, {}) /\ NoneSkipped(q, out, sent, got)
      /\ AnswerSound(out, sent, got) /\ RepliesSound(out)
  BY DEF Core
<1>2. \A x \in d : x.mid = r.mid => x = r
  BY <1>1 DEF DueSound
<1>3. Mids(d \ {r}) = Mids(d) \ {r.mid} /\ r.mid \in Mids(d)
  BY <1>2 DEF Mids
<1>4. WaitSound(q, d \ {r}, out, {r.mid})
  BY <1>1, <1>3 DEF WaitSound
<1>5. DueSound(q, d \ {r}, out, sent, got, {r.mid})
  BY <1>1, <1>3 DEF DueSound
<1> QED BY <1>1, <1>4, <1>5 DEF Core

(* A request that is sent is not there for the server until it is read.    *)
LEMMA CoreSend ==
    ASSUME NEW q, NEW d, NEW out, NEW sent, NEW got, Lists(q, d, out, sent, got),
           Core(q, d, out, sent, got, {}), got <= Len(sent), NEW r \in ReqType
    PROVE  Core(q, d, out, Append(sent, r), got, {})
<1> DEFINE t == Append(sent, r)
<1>1. /\ QueueSound(q, sent, got) /\ OrderSound(q) /\ WaitSound(q, d, out, {})
      /\ DueSound(q, d, out, sent, got, {}) /\ NoneSkipped(q, out, sent, got)
      /\ AnswerSound(out, sent, got) /\ RepliesSound(out)
  BY DEF Core
<1>2. \A j \in 1..got : t[j] = sent[j]
  <2>1. /\ \A j \in DOMAIN sent : t[j] = sent[j]
        /\ DOMAIN sent = 1..Len(sent) /\ Len(sent) \in Nat
    BY AppendIndex DEF Lists
  <2> QED BY <2>1 DEF Lists
<1> HIDE DEF t
<1>3. QueueSound(q, t, got)
  BY <1>1, <1>2 DEF QueueSound, IsRequest
<1>4. DueSound(q, d, out, t, got, {})
  BY <1>1, <1>2 DEF DueSound
<1>5. NoneSkipped(q, out, t, got)
  BY <1>1, <1>2 DEF NoneSkipped
<1>6. AnswerSound(out, t, got)
  BY <1>1, <1>2 DEF AnswerSound, IsRequest
<1>7. Core(q, d, out, t, got, {})
  BY <1>1, <1>3, <1>4, <1>5, <1>6 DEF Core
<1> QED BY <1>7 DEF t

(* A client numbers its requests one after the other; next is the number   *)
(* it will use after r.                                                    *)
LEMMA SentSend ==
    ASSUME NEW sent \in Seq(ReqType), NEW got \in Nat, NEW next \in Nat,
           SentSound(sent, got, next), NEW r \in ReqType, NEW after \in Nat,
           \/ /\ r.cmd # "CANCEL" /\ r.mid = next /\ after = next + 1 /\ r.async = 0
              /\ r.mid = 0 => r.cmd = "NEGOTIATE"
              /\ r.msg = "smb1" => r.mid = 0
           \/ /\ r.cmd = "CANCEL" /\ after = next /\ r.mid # 0 /\ r.msg # "smb1"
              /\ \E j \in DOMAIN sent : IsRequest(sent, j, r.mid) /\ sent[j].tree = r.tree
    PROVE  SentSound(Append(sent, r), got, after)
<1> DEFINE t == Append(sent, r)
           n == Len(sent) + 1
<1>1. /\ n \in DOMAIN t /\ t[n] = r /\ Len(sent) \in Nat /\ DOMAIN sent = 1..Len(sent)
      /\ Len(t) = n
      /\ \A j \in DOMAIN sent : j \in DOMAIN t /\ t[j] = sent[j]
      /\ \A j \in DOMAIN t : j \in DOMAIN sent \/ j = n
  BY AppendIndex
<1>2. \A i \in DOMAIN sent : sent[i] \in ReqType
  BY <1>1, ElementOfSeq
<1>3. \A i \in DOMAIN sent : sent[i].mid \in Nat /\ sent[i].mid < next
  BY <1>2 DEF SentSound, ReqType
<1> HIDE DEF t, n
<1>4. got <= Len(t)
  BY <1>1 DEF SentSound, n
<1>5. ASSUME NEW i \in DOMAIN t, NEW j \in DOMAIN t, t[i].cmd # "CANCEL",
             IsRequest(t, j, t[i].mid)
      PROVE  i = j
  <2>1. CASE i \in DOMAIN sent /\ j \in DOMAIN sent
    BY <1>1, <1>5, <2>1 DEF SentSound, IsRequest
  <2>2. CASE i = n /\ j \in DOMAIN sent
    BY <1>1, <1>3, <1>5, <2>2 DEF IsRequest
  <2>3. CASE i \in DOMAIN sent /\ j = n
    BY <1>1, <1>3, <1>5, <2>3 DEF IsRequest
  <2> QED BY <1>1, <2>1, <2>2, <2>3
<1>6. ASSUME NEW i \in DOMAIN t
      PROVE  /\ t[i].mid < after
             /\ t[i].mid = 0 => t[i].cmd = "NEGOTIATE"
             /\ t[i].cmd # "CANCEL" => t[i].async = 0
             /\ t[i].msg = "smb1" => t[i].mid = 0
             /\ t[i].cmd = "CANCEL" =>
                    \E j \in 1..(i - 1) : IsRequest(t, j, t[i].mid) /\ t[j].tree = t[i].tree
  <2>1. CASE i \in DOMAIN sent
    <3>1. /\ sent[i].mid = 0 => sent[i].cmd = "NEGOTIATE"
          /\ sent[i].cmd # "CANCEL" => sent[i].async = 0
          /\ sent[i].msg = "smb1" => sent[i].mid = 0
          /\ sent[i].cmd = "CANCEL" =>
                    \E j \in 1..(i - 1) : IsRequest(sent, j, sent[i].mid) /\ sent[j].tree = sent[i].tree
      BY <2>1 DEF SentSound
    <3>2. sent[i].mid < after
      BY <1>3, <2>1
    <3>3. \A j \in 1..(i - 1) : t[j] = sent[j]
      BY <1>1, <2>1
    <3> QED BY <1>1, <2>1, <3>1, <3>2, <3>3 DEF IsRequest
  <2>2. CASE i = n
    <3>1. t[i] = r /\ DOMAIN sent = 1..(i - 1)
      BY <1>1, <2>2 DEF n
    <3>2. r.mid < after
      <4>1. CASE r.cmd # "CANCEL"
        BY <4>1
      <4>2. CASE r.cmd = "CANCEL"
        BY <1>3, <4>2 DEF IsRequest
      <4> QED BY <4>1, <4>2
    <3> QED BY <1>1, <3>1, <3>2 DEF IsRequest
  <2> QED BY <1>1, <2>1, <2>2
<1>7. SentSound(t, got, after)
  BY <1>4, <1>5, <1>6 DEF SentSound
<1> QED BY <1>7 DEF t

-----------------------------------------------------------------------------
(* smb2_queue_pdu. *)

(* k2 is k once the reply x has taken the i-th entry of its waitqueue.     *)
Replied(k, k2, i, x) ==
    /\ k2 \in ConnType /\ x \in RepType
    /\ k2 = [k EXCEPT !.waitqueue = RemoveAt(@, i), !.out = Append(@, x)]
    /\ x.async = k.waitqueue[i].async
    /\ x.async # 0 \/ x.cmd = "TREE_CONNECT" \/ x.tree = k.waitqueue[i].tree

(* The fields a reply leaves as they are.                                  *)
Untouched(k, k2) ==
    /\ k2.state = k.state /\ k2.expect = k.expect /\ k2.message_id = k.message_id
    /\ k2.trees = k.trees /\ k2.cur = k.cur /\ k2.deferred = k.deferred
    /\ k2.astray = k.astray /\ k2.full = k.full

LEMMA RepliedFields ==
    ASSUME NEW k \in ConnType, NEW k2, NEW i, NEW x, Replied(k, k2, i, x)
    PROVE  /\ Untouched(k, k2)
           /\ k2.waitqueue = RemoveAt(k.waitqueue, i) /\ k2.out = Append(k.out, x)
  BY DEF Replied, Untouched, ConnType

(* A final reply to a request that is waiting.                             *)
LEMMA QueueReply ==
    ASSUME NEW k \in ConnType, NEW m \in Nat, NEW cmd \in Cmds, NEW st \in Statuses \ {"pending"},
           NEW tree, cmd = "TREE_CONNECT" => tree \in Nat, m # 0 \/ cmd = "NEGOTIATE",
           NEW p, p = [mid |-> m, cmd |-> cmd, status |-> st, async |-> 0, tree |-> tree],
           \E a \in DOMAIN k.waitqueue : k.waitqueue[a].mid = m
    PROVE  \E i, x :
               /\ IsFirst(k.waitqueue, m, i)
               /\ x.mid = m /\ x.cmd = cmd /\ x.status = st
               /\ cmd = "TREE_CONNECT" /\ k.waitqueue[i].async = 0 => x.tree = tree
               /\ Replied(k, smb2_queue_pdu(k, p), i, x)
<1> DEFINE i == smb2_find_pdu(k, m)
           w == k.waitqueue[i]
           tr == IF w.async = 0 THEN reply_tree(p, w) ELSE 0
           x == [p EXCEPT !.tree = tr, !.async = w.async]
<1>1. i # 0 /\ IsFirst(k.waitqueue, m, i)
  <2> HIDE DEF i
  <2>1. \/ i = 0 /\ \A a \in DOMAIN k.waitqueue : k.waitqueue[a].mid # m
        \/ i # 0 /\ IsFirst(k.waitqueue, m, i)
    BY FindPdu DEF i
  <2> QED BY <2>1
<1>2. k.waitqueue \in Seq(WaitType) /\ i \in DOMAIN k.waitqueue
  BY <1>1 DEF ConnType, IsFirst
<1>3. w \in WaitType
  BY <1>2, SeqElements, ElementOfSeq
<1>4. smb2_queue_pdu(k, p) = [k EXCEPT !.waitqueue = RemoveAt(@, i), !.out = Append(@, x)]
  <2>1. smb2_queue_pdu(k, p) = smb2_correlate_reply(k, p)
    BY DEF smb2_queue_pdu
  <2>2. ends_request(p) /\ p.mid = m
    BY DEF ends_request
  <2> QED BY <1>1, <2>1, <2>2 DEF smb2_correlate_reply
<1> HIDE DEF i, w, tr
<1>5. x = [mid |-> m, cmd |-> cmd, status |-> st, async |-> w.async, tree |-> tr]
  <2>1. PICK y : y = [p EXCEPT !.tree = tr]
    OBVIOUS
  <2>2. y = [mid |-> m, cmd |-> cmd, status |-> st, async |-> 0, tree |-> tr]
    BY <2>1
  <2>3. x = [y EXCEPT !.async = w.async]
    BY <2>1
  <2> QED BY <2>2, <2>3
<1>6. tr = IF w.async = 0 THEN IF cmd = "TREE_CONNECT" THEN tree ELSE w.tree ELSE 0
  BY DEF tr, reply_tree
<1> HIDE DEF x
<1>7. w.tree \in Nat /\ w.async \in Nat
  BY <1>3 DEF WaitType
<1>8. x \in RepType
  BY <1>5, <1>6, <1>7 DEF RepType
<1>9. /\ x.mid = m /\ x.cmd = cmd /\ x.status = st /\ x.async = w.async
      /\ w.async = 0 => x.tree = IF cmd = "TREE_CONNECT" THEN tree ELSE w.tree
  BY <1>5, <1>6
<1>10. RemoveAt(k.waitqueue, i) \in Seq(WaitType) /\ Append(k.out, x) \in Seq(RepType)
  BY <1>2, <1>8, RemoveInOrder, AppendIndex DEF ConnType
<1>11. smb2_queue_pdu(k, p) \in ConnType
  BY <1>4, <1>10 DEF ConnType
<1>12. Replied(k, smb2_queue_pdu(k, p), i, x)
  BY <1>4, <1>7, <1>8, <1>9, <1>11 DEF Replied, w
<1> QED BY <1>1, <1>9, <1>12 DEF w

(* The i-th entry of r has got the async id of x.                          *)
Marked(q, r, i, x) ==
    /\ DOMAIN r = DOMAIN q /\ \A a \in DOMAIN q : a # i => r[a] = q[a]
    /\ r[i].mid = q[i].mid /\ r[i].cmd = q[i].cmd /\ r[i].async = x.async

LEMMA CoreMarked ==
    ASSUME NEW q, NEW d, NEW out, NEW sent, NEW got, Lists(q, d, out, sent, got),
           Core(q, d, out, sent, got, {}),
           NEW i \in DOMAIN q, q[i].async = 0, q[i].cmd \notin {"TREE_CONNECT", "CANCEL"},
           NEW p \in RepType, p.mid = q[i].mid, ~Final(p), p.async # 0,
           NEW r, Marked(q, r, i, p)
    PROVE  Core(r, d, Append(out, p), sent, got, {})
  BY CoreInterim DEF Marked

(* An interim reply to a request that is waiting.                          *)
LEMMA QueueInterim ==
    ASSUME NEW k \in ConnType, NEW m \in Nat \ {0}, NEW cmd \in Cmds, NEW tree,
           NEW p, p = [mid |-> m, cmd |-> cmd, status |-> "pending", async |-> 0, tree |-> tree],
           NEW i, i = smb2_find_pdu(k, m), i # 0, NEW k2, k2 = smb2_queue_pdu(k, p)
    PROVE  /\ k2 \in ConnType /\ Untouched(k, k2)
           /\ IsFirst(k.waitqueue, m, i)
           /\ \E x \in RepType :
                 /\ x.mid = m /\ x.cmd = cmd /\ x.status = "pending" /\ x.async # 0
                 /\ k2.out = Append(k.out, x)
                 /\ Marked(k.waitqueue, k2.waitqueue, i, x)
<1> DEFINE q == k.waitqueue
           n == k.async_id + 1
           x == [p EXCEPT !.tree = 0, !.async = n]
           k1 == [k EXCEPT !.waitqueue[i].async = n, !.waitqueue[i].tree = 0]
<1>1. IsFirst(q, m, i)
  BY FindPdu
<1>2. q \in Seq(WaitType) /\ i \in DOMAIN q
  BY <1>1 DEF ConnType, IsFirst
<1>3. q[i] \in WaitType /\ DOMAIN q = 1..Len(q) /\ q \in [1..Len(q) -> WaitType]
  BY <1>2, SeqElements, ElementOfSeq, LenProperties
<1>4. n \in Nat /\ n # 0
  BY DEF ConnType
<1>5. k2 = [k EXCEPT !.async_id = n, !.waitqueue[i].async = n, !.waitqueue[i].tree = 0,
                     !.out = Append(@, x)]
  <2>1. k2 = smb2_correlate_reply(k, p)
    BY DEF smb2_queue_pdu
  <2>2. ~ends_request(p) /\ p.mid = m
    BY DEF ends_request
  <2> QED BY <2>1, <2>2 DEF smb2_correlate_reply
<1>6. x = [mid |-> m, cmd |-> cmd, status |-> "pending", async |-> n, tree |-> 0]
  <2>1. PICK y : y = [p EXCEPT !.tree = 0]
    OBVIOUS
  <2>2. y = [mid |-> m, cmd |-> cmd, status |-> "pending", async |-> 0, tree |-> 0]
    BY <2>1
  <2>3. x = [y EXCEPT !.async = n]
    BY <2>1
  <2> QED BY <2>2, <2>3
<1> HIDE DEF x, n
<1>7. x \in RepType
  BY <1>4, <1>6 DEF RepType, Statuses
<1>8. PICK w : w = [mid |-> q[i].mid, cmd |-> q[i].cmd, tree |-> 0, async |-> n]
  OBVIOUS
<1>9. w \in WaitType
  BY <1>3, <1>4, <1>8 DEF WaitType
<1>10. k2.waitqueue = [q EXCEPT ![i] = w]
  <2>1. k2.waitqueue = [[q EXCEPT ![i].async = n] EXCEPT ![i].tree = 0]
    <3>1. PICK ka : ka = [k EXCEPT !.async_id = n]
      OBVIOUS
    <3>2. PICK kb : kb = [ka EXCEPT !.waitqueue[i].async = n]
      OBVIOUS
    <3>3. PICK kc : kc = [kb EXCEPT !.waitqueue[i].tree = 0]
      OBVIOUS
    <3>4. k2 = [kc EXCEPT !.out = Append(@, x)]
      BY <1>5, <3>1, <3>2, <3>3
    <3>5. "waitqueue" \in DOMAIN k /\ "waitqueue" \in DOMAIN ka /\ ka.waitqueue = q
      BY <3>1 DEF ConnType
    <3>6. "waitqueue" \in DOMAIN kb /\ kb.waitqueue = [q EXCEPT ![i].async = n]
      BY <3>2, <3>5
    <3>7. "waitqueue" \in DOMAIN kc /\ kc.waitqueue = [[q EXCEPT ![i].async = n] EXCEPT ![i].tree = 0]
      BY <3>3, <3>6
    <3> QED BY <3>4, <3>7
  <2>2. PICK v : v = [q[i] EXCEPT !.async = n]
    OBVIOUS
  <2>3. v = [mid |-> q[i].mid, cmd |-> q[i].cmd, tree |-> q[i].tree, async |-> n]
    BY <1>3, <2>2 DEF WaitType
  <2>4. [v EXCEPT !.tree = 0] = w
    BY <1>8, <2>3
  <2>5. [q EXCEPT ![i].async = n] = [q EXCEPT ![i] = v]
    BY <2>2
  <2>6. [[q EXCEPT ![i] = v] EXCEPT ![i].tree = 0] = [q EXCEPT ![i] = w]
    BY <1>2, <1>3, <2>4
  <2> QED BY <2>1, <2>5, <2>6
<1>11. [q EXCEPT ![i] = w] \in Seq(WaitType)
  BY <1>2, <1>9, ExceptSeq
<1>12. Append(k.out, x) \in Seq(RepType)
  BY <1>7, AppendIndex DEF ConnType
<1>13. /\ k2 = [k EXCEPT !.async_id = n, !.waitqueue = [q EXCEPT ![i] = w],
                         !.out = Append(@, x)]
  BY <1>5, <1>10 DEF ConnType
<1>14. k2 \in ConnType /\ Untouched(k, k2) /\ k2.out = Append(k.out, x)
  BY <1>4, <1>11, <1>12, <1>13 DEF ConnType, Untouched
<1>15. /\ DOMAIN k2.waitqueue = DOMAIN q /\ k2.waitqueue[i] = w
       /\ \A a \in DOMAIN q : a # i => k2.waitqueue[a] = q[a]
  BY <1>2, <1>10
<1>16. /\ x.mid = m /\ x.cmd = cmd /\ x.status = "pending" /\ x.async = n
       /\ w.mid = q[i].mid /\ w.cmd = q[i].cmd /\ w.async = n
  BY <1>6, <1>8
<1> QED BY <1>1, <1>4, <1>7, <1>14, <1>15, <1>16 DEF Marked

(* A notification.                                                         *)
LEMMA QueueNotify ==
    ASSUME NEW k \in ConnType, NEW tree, NEW k2,
           NEW p, p = [mid |-> BREAK_ID, cmd |-> "OPLOCK_BREAK", status |-> "ok", async |-> 0,
                       tree |-> tree],
           k2 = smb2_queue_pdu(k, p)
    PROVE  /\ k2 \in ConnType /\ Untouched(k, k2) /\ k2.waitqueue = k.waitqueue
           /\ \E x \in RepType : /\ x.mid = BREAK_ID /\ x.cmd = "OPLOCK_BREAK"
                                 /\ k2.out = Append(k.out, x)
<1> DEFINE x == [p EXCEPT !.mid = BREAK_ID, !.tree = 0]
           i == smb2_find_pdu(k, BREAK_ID)
<1>1. i = 0
  <2> HIDE DEF i
  <2>1. \/ i = 0 /\ \A a \in DOMAIN k.waitqueue : k.waitqueue[a].mid # BREAK_ID
        \/ i # 0 /\ IsFirst(k.waitqueue, BREAK_ID, i)
    BY FindPdu DEF i
  <2>2. k.waitqueue \in Seq(WaitType)
    BY DEF ConnType
  <2>3. \A w \in WaitType : w.mid # BREAK_ID
    BY DEF WaitType, BREAK_ID
  <2>4. \A a \in DOMAIN k.waitqueue : k.waitqueue[a] \in WaitType
    BY <2>2, SeqElements, ElementOfSeq
  <2> QED BY <2>1, <2>3, <2>4 DEF IsFirst
<1>2. k2 = [k EXCEPT !.out = Append(@, x)]
  <2>1. p.mid = BREAK_ID /\ p.cmd = "OPLOCK_BREAK" /\ BREAK_ID # 0
    BY DEF BREAK_ID
  <2>2. k2 = smb2_correlate_reply(k, p)
    BY <2>1 DEF smb2_queue_pdu
  <2> QED BY <1>1, <2>1, <2>2 DEF smb2_correlate_reply
<1> HIDE DEF i
<1>3. x = [mid |-> BREAK_ID, cmd |-> "OPLOCK_BREAK", status |-> "ok", async |-> 0, tree |-> 0]
  <2>1. PICK y : y = [p EXCEPT !.mid = BREAK_ID]
    OBVIOUS
  <2>2. y = [mid |-> BREAK_ID, cmd |-> "OPLOCK_BREAK", status |-> "ok", async |-> 0, tree |-> tree]
    BY <2>1
  <2>3. x = [y EXCEPT !.tree = 0]
    BY <2>1
  <2> QED BY <2>2, <2>3
<1> HIDE DEF x
<1>4. x \in RepType /\ x.mid = BREAK_ID /\ x.cmd = "OPLOCK_BREAK"
  BY <1>3 DEF RepType, Statuses, Cmds, Handled, BREAK_ID
<1>5. Append(k.out, x) \in Seq(RepType)
  BY <1>4, AppendIndex DEF ConnType
<1>6. /\ k2 \in ConnType /\ Untouched(k, k2) /\ k2.waitqueue = k.waitqueue
      /\ k2.out = Append(k.out, x)
  BY <1>2, <1>5 DEF ConnType, Untouched
<1> QED BY <1>4, <1>6

-----------------------------------------------------------------------------
(* The stack of trees. *)

CurSound(k) == k.trees # <<>> => k.cur \in 1..Len(k.trees)

(* What the operations on trees leave as it is.                            *)
SameLists(k, k2) ==
    /\ k2.state = k.state /\ k2.expect = k.expect /\ k2.message_id = k.message_id
    /\ k2.waitqueue = k.waitqueue /\ k2.deferred = k.deferred /\ k2.out = k.out
    /\ k2.astray = k.astray

LEMMA SelectTree ==
    ASSUME NEW k \in ConnType, CurSound(k), NEW id, NEW k2, k2 = smb2_select_tree_id(k, id)
    PROVE  /\ k2 \in ConnType /\ CurSound(k2) /\ SameLists(k, k2)
           /\ k2.trees = k.trees /\ k2.full = k.full
           /\ id \in Range(k.trees) => smb2_tree_id(k2) = id
<1> DEFINE I == {i \in DOMAIN k.trees : k.trees[i] = id}
<1>1. /\ k.trees \in Seq(Nat) /\ DOMAIN k.trees = 1..Len(k.trees) /\ Len(k.trees) \in Nat
      /\ \A x : x \in Range(k.trees) <=> \E i \in 1..Len(k.trees) : k.trees[i] = x
      /\ (k.trees = <<>>) <=> (Len(k.trees) = 0)
  <2>1. k.trees \in Seq(Nat)
    BY DEF ConnType
  <2> QED BY <2>1, SeqElements
<1>2. CASE I = {}
  <2>1. k2 = k /\ id \notin Range(k.trees)
    BY <1>1, <1>2 DEF smb2_select_tree_id
  <2> QED BY <2>1 DEF SameLists
<1>3. CASE I # {}
  <2>1. I \in SUBSET Nat
    BY <1>1
  <2>2. Min(I) \in I
    BY <1>3, <2>1, MinNat
  <2>3. k2 = [k EXCEPT !.cur = Min(I)]
    BY <1>3 DEF smb2_select_tree_id
  <2> HIDE DEF I
  <2>4. Min(I) \in 1..Len(k.trees) /\ k.trees[Min(I)] = id /\ Min(I) \in Nat
    BY <1>1, <2>2 DEF I
  <2>5. k2 \in ConnType /\ SameLists(k, k2) /\ k2.trees = k.trees /\ k2.full = k.full
        /\ k2.cur = Min(I)
    BY <2>3, <2>4 DEF ConnType, SameLists
  <2>6. k2.trees # <<>>
    BY <1>1, <2>4, <2>5
  <2> QED BY <2>4, <2>5, <2>6 DEF CurSound, smb2_tree_id
<1> QED BY <1>2, <1>3

(* The tree id is on the stack of k2, or there was no room.                *)
Stacked(k, k2, id) ==
    \/ /\ k2.trees = Append(k.trees, id) /\ smb2_tree_id(k2) = id /\ k2.full = k.full
    \/ k2.trees = k.trees /\ k2.full = TRUE

LEMMA ConnectTreeId ==
    ASSUME NEW k \in ConnType, CurSound(k), NEW id \in Nat, NEW k2, k2 = smb2_connect_tree_id(k, id)
    PROVE  /\ k2 \in ConnType /\ CurSound(k2) /\ SameLists(k, k2) /\ smb2_tree_id(k2) \in Nat
           /\ smb2_tree_id(k2) \in Range(k2.trees)
           /\ Stacked(k, k2, id)
<1>1. k.trees \in Seq(Nat) /\ k.cur \in Nat /\ MaxNest \in Nat \ {0}
  BY ServerAssumption DEF ConnType
<1>2. /\ DOMAIN k.trees = 1..Len(k.trees) /\ Len(k.trees) \in Nat
      /\ \A x : x \in Range(k.trees) <=> \E i \in 1..Len(k.trees) : k.trees[i] = x
      /\ (k.trees = <<>>) <=> (Len(k.trees) = 0)
      /\ Range(k.trees) \subseteq Nat
  BY <1>1, SeqElements
<1>3. CASE Len(k.trees) < MaxNest
  <2> DEFINE t == Append(k.trees, id)
             n == Len(k.trees) + 1
  <2>1. /\ t \in Seq(Nat) /\ Len(t) = n /\ t[n] = id /\ t # <<>> /\ n \in Nat /\ n \in 1..n
    BY <1>1, <1>2, AppendIndex
  <2>3. k2 = [k EXCEPT !.trees = t, !.cur = n]
    BY <1>3 DEF smb2_connect_tree_id
  <2> HIDE DEF t, n
  <2>2. id \in Range(t)
    <3>1. \A y : y \in Range(t) <=> \E i \in 1..Len(t) : t[i] = y
      BY <2>1, SeqElements
    <3> QED BY <2>1, <3>1
  <2>4. /\ k2 \in ConnType /\ SameLists(k, k2) /\ k2.trees = t /\ k2.full = k.full /\ k2.cur = n
    BY <2>1, <2>3 DEF ConnType, SameLists
  <2>5. CurSound(k2)
    BY <2>1, <2>4 DEF CurSound
  <2>6. smb2_tree_id(k2) = id
    BY <2>1, <2>4 DEF smb2_tree_id
  <2> QED BY <2>2, <2>4, <2>5, <2>6 DEF t, Stacked
<1>4. CASE ~(Len(k.trees) < MaxNest)
  <2>1. k2 = [k EXCEPT !.full = TRUE]
    BY <1>4 DEF smb2_connect_tree_id
  <2>2. k2 \in ConnType /\ SameLists(k, k2) /\ k2.trees = k.trees /\ k2.full = TRUE /\ k2.cur = k.cur
    BY <2>1 DEF ConnType, SameLists
  <2>3. k.trees # <<>>
    BY <1>1, <1>2, <1>4
  <2>4. k.cur \in 1..Len(k.trees)
    BY <2>3 DEF CurSound
  <2>5. CurSound(k2)
    BY <2>2, <2>4 DEF CurSound
  <2>6. smb2_tree_id(k2) = k.trees[k.cur]
    BY <2>2, <2>3 DEF smb2_tree_id
  <2>7. k.trees[k.cur] \in Range(k.trees)
    BY <1>2, <2>4
  <2> QED BY <1>2, <2>2, <2>5, <2>6, <2>7 DEF Stacked
<1> QED BY <1>3, <1>4

LEMMA DisconnectTreeId ==
    ASSUME NEW k \in ConnType, CurSound(k), NEW id, NEW k2, k2 = smb2_disconnect_tree_id(k, id)
    PROVE  /\ k2 \in ConnType /\ CurSound(k2) /\ SameLists(k, k2) /\ k2.full = k.full
           /\ Range(k2.trees) \subseteq Range(k.trees)
           /\ \A t \in Range(k.trees) : t # id => t \in Range(k2.trees)
<1> DEFINE I == {i \in DOMAIN k.trees : k.trees[i] = id}
<1>1. k.trees \in Seq(Nat) /\ k.cur \in Nat
  BY DEF ConnType
<1>2. /\ DOMAIN k.trees = 1..Len(k.trees) /\ Len(k.trees) \in Nat
      /\ \A x : x \in Range(k.trees) <=> \E i \in 1..Len(k.trees) : k.trees[i] = x
      /\ (k.trees = <<>>) <=> (Len(k.trees) = 0)
  BY <1>1, SeqElements
<1>3. CASE I = {}
  <2>1. k2 = k
    BY <1>3 DEF smb2_disconnect_tree_id
  <2> QED BY <2>1 DEF SameLists
<1>4. CASE I # {}
  <2> DEFINE i == Min(I)
             t == RemoveAt(k.trees, i)
             c == Min({k.cur, Len(t)})
  <2>1. i \in I
    <3>1. I \in SUBSET Nat
      BY <1>2
    <3> QED BY <1>4, <3>1, MinNat
  <2>2. i \in DOMAIN k.trees /\ k.trees[i] = id
    BY <2>1
  <2>3. k2 = [k EXCEPT !.trees = t, !.cur = c]
    BY <1>4 DEF smb2_disconnect_tree_id
  <2> HIDE DEF i, I
  <2>4. t \in Seq(Nat) /\ Len(t) = Len(k.trees) - 1 /\ LeavesOut(t, k.trees, i)
    BY <1>1, <2>2, RemoveAtIndex
  <2>5. /\ DOMAIN t = 1..Len(t) /\ Len(t) \in Nat
        /\ \A x : x \in Range(t) <=> \E j \in 1..Len(t) : t[j] = x
        /\ (t = <<>>) <=> (Len(t) = 0)
    BY <2>4, SeqElements
  <2> HIDE DEF t
  <2>6. c \in {k.cur, Len(t)} /\ c <= k.cur /\ c <= Len(t) /\ c \in Nat
    <3>1. {k.cur, Len(t)} \in SUBSET Nat /\ {k.cur, Len(t)} # {}
      BY <1>1, <2>5
    <3>2. c \in {k.cur, Len(t)} /\ \A y \in {k.cur, Len(t)} : c <= y
      BY <3>1, MinNat
    <3> QED BY <1>1, <2>5, <3>2
  <2> HIDE DEF c
  <2>7. k2 \in ConnType /\ SameLists(k, k2) /\ k2.full = k.full /\ k2.trees = t /\ k2.cur = c
    BY <2>3, <2>4, <2>6 DEF ConnType, SameLists
  <2>8. CurSound(k2)
    <3> SUFFICES ASSUME t # <<>> PROVE c \in 1..Len(t)
      BY <2>7 DEF CurSound
    <3>1. Len(t) \in Nat \ {0} /\ k.trees # <<>>
      BY <1>2, <2>2, <2>5
    <3>2. k.cur \in 1..Len(k.trees)
      BY <3>1 DEF CurSound
    <3> QED BY <1>1, <1>2, <2>6, <3>1, <3>2
  <2>9. PICK f \in [DOMAIN t -> DOMAIN k.trees] :
          /\ \A j \in DOMAIN t : t[j] = k.trees[f[j]]
          /\ \A x \in DOMAIN k.trees : x # i => \E j \in DOMAIN t : f[j] = x
    BY <2>4 DEF LeavesOut
  <2>10. Range(t) \subseteq Range(k.trees)
    BY <1>2, <2>5, <2>9
  <2>11. \A x \in Range(k.trees) : x # id => x \in Range(t)
    BY <1>2, <2>2, <2>5, <2>9
  <2> QED BY <2>7, <2>8, <2>10, <2>11
<1> QED BY <1>3, <1>4

-----------------------------------------------------------------------------
(* A step of the server, as its client sees it: at most one request more   *)
(* has been read, and at most one reply more is there.                     *)

Kept(u, u2) ==
    /\ u2.phase = u.phase /\ u2.sent = u.sent /\ u2.seen = u.seen /\ u2.trees = u.trees
    /\ u2.next = u.next

LEMMA SamePhase ==
    ASSUME NEW k \in ConnType, NEW k2 \in ConnType, NEW u, NEW u2, Kept(u, u2),
           u.seen = Len(k.out),
           \/ k2.out = k.out
           \/ \E x \in RepType : k2.out = Append(k.out, x) /\ x.cmd \notin Login
    PROVE  Ahead(k, u) = u.phase /\ Ahead(k2, u2) = u.phase
<1>1. k.out \in Seq(RepType) /\ Len(k.out) \in Nat
  <2>1. k.out \in Seq(RepType)
    BY DEF ConnType
  <2> QED BY <2>1, SeqElements
<1>2. Ahead(k, u) = u.phase
  BY <1>1 DEF Ahead
<1>3. CASE k2.out = k.out
  BY <1>1, <1>3 DEF Ahead, Kept
<1>4. ASSUME NEW x \in RepType, k2.out = Append(k.out, x), x.cmd \notin Login
      PROVE  Ahead(k2, u2) = u.phase
  <2>1. Len(k2.out) = Len(k.out) + 1 /\ k2.out[Len(k.out) + 1] = x
    BY <1>1, <1>4, AppendIndex
  <2>2. Ahead(k2, u2) = PhaseAfter(u.phase, x)
    BY <1>1, <2>1 DEF Ahead, Kept
  <2> QED BY <1>4, <2>2 DEF PhaseAfter, Login
<1> QED BY <1>2, <1>3, <1>4

LEMMA LastReply ==
    ASSUME NEW k \in ConnType, NEW k2, NEW u, NEW u2, Kept(u, u2),
           u.seen = Len(k.out), NEW x \in RepType, k2.out = Append(k.out, x)
    PROVE  Ahead(k2, u2) = PhaseAfter(u.phase, x)
<1>1. k.out \in Seq(RepType) /\ Len(k.out) \in Nat
  <2>1. k.out \in Seq(RepType)
    BY DEF ConnType
  <2> QED BY <2>1, SeqElements
<1>2. Len(k2.out) = Len(k.out) + 1 /\ k2.out[Len(k.out) + 1] = x
  BY <1>1, AppendIndex
<1> QED BY <1>1, <1>2 DEF Ahead, Kept

SetupStatus(x) == x.cmd = "SESSION_SETUP" => x.status \in {"more", "ok", "error"}

LEMMA StageStep ==
    ASSUME NEW k \in ConnType, NEW k2 \in ConnType, NEW u \in ClientType, NEW u2 \in ClientType,
           Kept(u, u2), u.seen = Len(k.out), u.next # 0, StageSound(k, u),
           \/ k2.out = k.out
           \/ \E x \in RepType : k2.out = Append(k.out, x) /\ SetupStatus(x),
           ExpectSound(k2.expect, Ahead(k2, u2), u.sent, u2.got),
           UnreadSound(k2.expect, Ahead(k2, u2), u.sent, u2.got),
           Ahead(k2, u2) # "in" /\ u.sent # <<>> => u.sent[Len(u.sent)].cmd # "CANCEL",
           \A i \in (u2.got + 1)..Len(u.sent) : u.sent[i].msg = "smb1" => k2.message_id = 0
    PROVE  StageSound(k2, u2)
<1>1. k.out \in Seq(RepType) /\ Len(k.out) \in Nat
  <2>1. k.out \in Seq(RepType)
    BY DEF ConnType
  <2> QED BY <2>1, SeqElements
<1>2. /\ Len(k2.out) \in {Len(k.out), Len(k.out) + 1}
      /\ \A o \in DOMAIN k2.out : SetupStatus(k2.out[o])
  <2>1. \A o \in DOMAIN k.out : SetupStatus(k.out[o])
    BY DEF StageSound, SetupStatus
  <2>2. CASE k2.out = k.out
    BY <2>1, <2>2
  <2>3. ASSUME NEW x \in RepType, k2.out = Append(k.out, x), SetupStatus(x)
        PROVE  /\ Len(k2.out) = Len(k.out) + 1
               /\ \A o \in DOMAIN k2.out : SetupStatus(k2.out[o])
    <3>1. /\ Len(k2.out) = Len(k.out) + 1 /\ k2.out[Len(k.out) + 1] = x
          /\ \A j \in DOMAIN k.out : k2.out[j] = k.out[j]
          /\ \A j \in DOMAIN k2.out : j \in DOMAIN k.out \/ j = Len(k.out) + 1
      BY <1>1, <2>3, AppendIndex
    <3> QED BY <2>1, <2>3, <3>1
  <2> QED BY <2>2, <2>3
<1>3. u2.seen <= Len(k2.out) /\ Len(k2.out) <= u2.seen + 1
  BY <1>1, <1>2 DEF Kept
<1>4. u2.next # 0 /\ u2.sent = u.sent
  BY DEF Kept
<1> QED BY <1>2, <1>3, <1>4 DEF StageSound, SetupStatus

LEMMA TreeIdsStep ==
    ASSUME NEW k \in ConnType, NEW k2 \in ConnType, NEW u \in ClientType, NEW u2 \in ClientType,
           NEW s \in Nat, NEW s2 \in Nat, s <= s2,
           Kept(u, u2), TreeIdsSound(k, u, s), CurSound(k2),
           \A t \in Range(k2.trees) : t \in Range(k.trees) \/ t < s2,
           \/ k2.out = k.out
           \/ \E x \in RepType : /\ k2.out = Append(k.out, x)
                                 /\ x.cmd = "TREE_CONNECT" /\ x.status = "ok" => x.tree < s2
    PROVE  TreeIdsSound(k2, u2, s2)
<1>1. /\ k.out \in Seq(RepType) /\ k.trees \in Seq(Nat) /\ k2.trees \in Seq(Nat)
      /\ u.sent \in Seq(ReqType) /\ u.trees \in SUBSET Nat
  BY DEF ConnType, ClientType
<1>2. \A i \in DOMAIN k2.trees : k2.trees[i] < s2
  <2> TAKE i \in DOMAIN k2.trees
  <2>1. k2.trees[i] \in Range(k2.trees) /\ k2.trees[i] \in Nat
    BY <1>1, SeqElements, ElementOfSeq
  <2>2. CASE k2.trees[i] \in Range(k.trees)
    <3>1. /\ DOMAIN k.trees = 1..Len(k.trees)
          /\ \A x : x \in Range(k.trees) <=> \E j \in 1..Len(k.trees) : k.trees[j] = x
      BY <1>1, SeqElements
    <3>2. PICK j \in DOMAIN k.trees : k.trees[j] = k2.trees[i]
      BY <2>2, <3>1
    <3> QED BY <2>1, <3>2 DEF TreeIdsSound
  <2> QED BY <2>1, <2>2
<1>3. \A i \in DOMAIN u.sent : u.sent[i].tree < s2
  <2> TAKE i \in DOMAIN u.sent
  <2>1. u.sent[i] \in ReqType
    BY <1>1, ElementOfSeq, SeqElements
  <2>2. u.sent[i].tree \in Nat /\ u.sent[i].tree < s
    BY <2>1 DEF TreeIdsSound, ReqType
  <2> QED BY <2>2
<1>4. \A t \in u.trees : t < s2
  BY <1>1 DEF TreeIdsSound
<1>5. \A o \in DOMAIN k.out :
        k.out[o].cmd = "TREE_CONNECT" /\ k.out[o].status = "ok" => k.out[o].tree < s2
  <2> TAKE o \in DOMAIN k.out
  <2>1. k.out[o] \in RepType
    BY <1>1, ElementOfSeq, SeqElements
  <2>2. k.out[o].tree \in Nat
    BY <2>1 DEF RepType
  <2> QED BY <2>2 DEF TreeIdsSound
<1>6. \A o \in DOMAIN k2.out :
        k2.out[o].cmd = "TREE_CONNECT" /\ k2.out[o].status = "ok" => k2.out[o].tree < s2
  <2>1. CASE k2.out = k.out
    BY <1>5, <2>1
  <2>2. ASSUME NEW x \in RepType, k2.out = Append(k.out, x),
               x.cmd = "TREE_CONNECT" /\ x.status = "ok" => x.tree < s2
        PROVE  \A o \in DOMAIN k2.out :
                 k2.out[o].cmd = "TREE_CONNECT" /\ k2.out[o].status = "ok" => k2.out[o].tree < s2
    <3>1. /\ k2.out[Len(k.out) + 1] = x
          /\ \A j \in DOMAIN k.out : k2.out[j] = k.out[j]
          /\ \A j \in DOMAIN k2.out : j \in DOMAIN k.out \/ j = Len(k.out) + 1
      BY <1>1, <2>2, AppendIndex
    <3> QED BY <1>5, <2>2, <3>1
  <2> QED BY <2>1, <2>2
<1> QED BY <1>2, <1>3, <1>4, <1>6 DEF TreeIdsSound, Kept, CurSound

LEMMA TreesStep ==
    ASSUME NEW k \in ConnType, NEW k2 \in ConnType, NEW u \in ClientType, NEW u2 \in ClientType,
           NEW s \in Nat, Kept(u, u2), u.seen = Len(k.out), u2.got \in {u.got, u.got + 1},
           TreeIdsSound(k, u, s), TreesSound(k, u),
           \A t \in Range(k.trees) :
               \/ t \in Range(k2.trees)
               \/ /\ u2.got = u.got + 1 /\ u2.got <= Len(u.sent)
                  /\ u.sent[u2.got].cmd = "TREE_DISCONNECT" /\ u.sent[u2.got].tree = t,
           \/ k2.out = k.out
           \/ \E x \in RepType :
                 /\ k2.out = Append(k.out, x)
                 /\ x.cmd = "TREE_CONNECT" /\ x.status = "ok" =>
                        x.tree = s /\ s \in Range(k2.trees)
    PROVE  TreesSound(k2, u2)
<1>1. /\ k.out \in Seq(RepType) /\ k.trees \in Seq(Nat) /\ k2.trees \in Seq(Nat)
      /\ u.sent \in Seq(ReqType) /\ u.trees \in SUBSET Nat /\ u.got \in Nat
  BY DEF ConnType, ClientType
<1>2. /\ Len(u.sent) \in Nat /\ DOMAIN u.sent = 1..Len(u.sent) /\ Len(k.out) \in Nat
      /\ u2.sent = u.sent /\ u2.trees = u.trees /\ u2.got \in Nat /\ u.got <= u2.got
      /\ u2.seen = Len(k.out)
  BY <1>1, SeqElements DEF Kept
<1>3. ASSUME NEW t, NEW i \in Int, Stays(u, t, i)
      PROVE  Stays(u2, t, i)
  BY <1>1, <1>2, <1>3 DEF Stays
<1>4. ASSUME NEW t \in Range(k.trees), NEW i \in Int, Stays(u, t, i), u2.got <= i
      PROVE  t \in Range(k2.trees)
  BY <1>1, <1>2, <1>4 DEF Stays
<1>5. ASSUME NEW t \in u.trees
      PROVE  t \in Range(k2.trees) /\ Stays(u2, t, Len(u.sent))
  <2>1. t \in Range(k.trees) /\ Stays(u, t, Len(u.sent))
    BY DEF TreesSound
  <2>2. CASE u2.got <= Len(u.sent)
    BY <1>2, <1>3, <1>4, <2>1, <2>2
  <2>3. CASE ~(u2.got <= Len(u.sent))
    BY <1>2, <1>3, <2>1, <2>3
  <2> QED BY <2>2, <2>3
<1>6. ASSUME NEW i \in (u2.got + 1)..Len(u.sent), u.sent[i].cmd \notin NoTree \cup {"CANCEL"}
      PROVE  u.sent[i].tree \in Range(k2.trees) /\ Stays(u2, u.sent[i].tree, i - 1)
  <2>1. i \in (u.got + 1)..Len(u.sent) /\ i - 1 \in Int /\ u2.got <= i - 1
    BY <1>1, <1>2
  <2>2. u.sent[i].tree \in Range(k.trees) /\ Stays(u, u.sent[i].tree, i - 1)
    BY <1>6, <2>1 DEF TreesSound
  <2> QED BY <1>3, <1>4, <2>1, <2>2
<1>7. ASSUME u2.seen < Len(k2.out), k2.out[Len(k2.out)].cmd = "TREE_CONNECT",
             k2.out[Len(k2.out)].status = "ok"
      PROVE  /\ k2.out[Len(k2.out)].tree \in Range(k2.trees)
             /\ Stays(u2, k2.out[Len(k2.out)].tree, Len(u.sent))
  <2>1. k2.out # k.out
    BY <1>2, <1>7
  <2>2. PICK x \in RepType :
          /\ k2.out = Append(k.out, x)
          /\ x.cmd = "TREE_CONNECT" /\ x.status = "ok" => x.tree = s /\ s \in Range(k2.trees)
    BY <2>1
  <2>3. Len(k2.out) = Len(k.out) + 1 /\ k2.out[Len(k.out) + 1] = x
    BY <1>1, <2>2, AppendIndex
  <2>4. x.tree = s /\ s \in Range(k2.trees)
    BY <1>7, <2>2, <2>3
  <2>5. \A j \in DOMAIN u.sent : u.sent[j].tree # s
    <3> TAKE j \in DOMAIN u.sent
    <3>1. u.sent[j] \in ReqType
      BY <1>1, ElementOfSeq, SeqElements
    <3>2. u.sent[j].tree \in Nat /\ u.sent[j].tree < s
      BY <3>1 DEF TreeIdsSound, ReqType
    <3> QED BY <3>2
  <2>6. \A j \in (u2.got + 1)..Len(u.sent) : j \in DOMAIN u.sent
    BY <1>2
  <2>7. Stays(u2, s, Len(u.sent))
    BY <1>2, <2>5, <2>6 DEF Stays
  <2> QED BY <2>3, <2>4, <2>7
<1> QED BY <1>2, <1>5, <1>6, <1>7 DEF TreesSound

-----------------------------------------------------------------------------
(* Replies, as the connection sees them. *)

(* k2 is k once the first entry for m has been answered with x.            *)
AnsweredWith(k, k2, m, x) ==
    \E i : /\ IsFirst(k.waitqueue, m, i)
           /\ k2.waitqueue = RemoveAt(k.waitqueue, i) /\ k2.out = Append(k.out, x)
           /\ k2.deferred = k.deferred
           /\ x \in RepType /\ x.mid = m /\ x.async = k.waitqueue[i].async
           /\ x.async # 0 \/ x.cmd = "TREE_CONNECT" \/ x.tree = k.waitqueue[i].tree

NamesTree(k, m, x, tree) ==
    (\A a \in DOMAIN k.waitqueue : k.waitqueue[a].mid = m => k.waitqueue[a].async = 0)
        => x.tree = tree

LEMMA AnswerPdu ==
    ASSUME NEW k \in ConnType, NEW m \in Nat, NEW cmd \in Cmds, NEW st \in Statuses \ {"pending"},
           NEW tree, cmd = "TREE_CONNECT" => tree \in Nat, m # 0 \/ cmd = "NEGOTIATE",
           NEW p, p = [mid |-> m, cmd |-> cmd, status |-> st, async |-> 0, tree |-> tree],
           \E a \in DOMAIN k.waitqueue : k.waitqueue[a].mid = m,
           NEW k2, k2 = smb2_queue_pdu(k, p)
    PROVE  /\ k2 \in ConnType /\ Untouched(k, k2)
           /\ \E x \in RepType :
                 /\ AnsweredWith(k, k2, m, x) /\ x.cmd = cmd /\ x.status = st
                 /\ cmd = "TREE_CONNECT" => NamesTree(k, m, x, tree)
<1>1. PICK i, x : /\ IsFirst(k.waitqueue, m, i)
                  /\ x.mid = m /\ x.cmd = cmd /\ x.status = st
                  /\ cmd = "TREE_CONNECT" /\ k.waitqueue[i].async = 0 => x.tree = tree
                  /\ Replied(k, k2, i, x)
  BY QueueReply
<1>2. /\ Untouched(k, k2)
      /\ k2.waitqueue = RemoveAt(k.waitqueue, i) /\ k2.out = Append(k.out, x)
  BY <1>1, RepliedFields
<1>3. k2 \in ConnType /\ x \in RepType /\ x.async = k.waitqueue[i].async
      /\ (x.async # 0 \/ x.cmd = "TREE_CONNECT" \/ x.tree = k.waitqueue[i].tree)
  BY <1>1 DEF Replied
<1>4. AnsweredWith(k, k2, m, x)
  BY <1>1, <1>2, <1>3 DEF AnsweredWith, Untouched
<1>5. cmd = "TREE_CONNECT" => NamesTree(k, m, x, tree)
  BY <1>1 DEF IsFirst, NamesTree
<1> QED BY <1>1, <1>2, <1>3, <1>4, <1>5

(* smb2_allocate_pdu leaves the tree of a TREE_CONNECT to its caller.      *)
LEMMA NewPduFields ==
    ASSUME NEW k, NEW m, NEW cmd, NEW st
    PROVE  \E tree : /\ NewPdu(k, m, cmd, st) = [mid |-> m, cmd |-> cmd, status |-> st,
                                                 async |-> 0, tree |-> tree]
                     /\ cmd = "TREE_CONNECT" => tree = 0
<1> DEFINE tree == IF cmd \in NoTree THEN 0 ELSE smb2_tree_id(k)
<1>1. NewPdu(k, m, cmd, st) = [mid |-> m, cmd |-> cmd, status |-> st, async |-> 0, tree |-> tree]
  BY DEF NewPdu
<1>2. cmd = "TREE_CONNECT" => tree = 0
  BY DEF NoTree
<1> HIDE DEF tree
<1> QED BY <1>1, <1>2

LEMMA SendNewPdu ==
    ASSUME NEW k \in ConnType, NEW m \in Nat, NEW cmd \in Cmds, NEW st \in Statuses \ {"pending"},
           m # 0 \/ cmd = "NEGOTIATE",
           \E a \in DOMAIN k.waitqueue : k.waitqueue[a].mid = m,
           NEW k2, k2 = smb2_queue_pdu(k, NewPdu(k, m, cmd, st))
    PROVE  /\ k2 \in ConnType /\ Untouched(k, k2)
           /\ \E x \in RepType : AnsweredWith(k, k2, m, x) /\ x.cmd = cmd /\ x.status = st
<1>1. PICK tree : /\ NewPdu(k, m, cmd, st) = [mid |-> m, cmd |-> cmd, status |-> st,
                                              async |-> 0, tree |-> tree]
                  /\ cmd = "TREE_CONNECT" => tree = 0
  BY NewPduFields
<1>2. PICK p : p = NewPdu(k, m, cmd, st)
  OBVIOUS
<1>3. /\ p = [mid |-> m, cmd |-> cmd, status |-> st, async |-> 0, tree |-> tree]
      /\ k2 = smb2_queue_pdu(k, p) /\ (cmd = "TREE_CONNECT" => tree \in Nat)
  BY <1>1, <1>2
<1> HIDE DEF Cmds, Statuses
<1>4. /\ k2 \in ConnType /\ Untouched(k, k2)
      /\ \E x \in RepType : AnsweredWith(k, k2, m, x) /\ x.cmd = cmd /\ x.status = st
  BY <1>3, AnswerPdu
<1> QED BY <1>4

(* A connection whose lists have their types.                              *)
LEMMA ConnLists ==
    ASSUME NEW k \in ConnType, NEW u \in ClientType
    PROVE  Lists(k.waitqueue, k.deferred, k.out, u.sent, u.got)
  BY DEF ConnType, ClientType, Lists

LEMMA CoreAnswered ==
    ASSUME NEW k \in ConnType, NEW sent \in Seq(ReqType), NEW got \in Nat, NEW m \in Nat,
           Core(k.waitqueue, k.deferred, k.out, sent, got, {m}),
           NEW k2, NEW x, AnsweredWith(k, k2, m, x), Final(x), x.cmd # "CANCEL"
    PROVE  Core(k2.waitqueue, k2.deferred, k2.out, sent, got, {})
<1>1. PICK i : /\ IsFirst(k.waitqueue, m, i)
               /\ k2.waitqueue = RemoveAt(k.waitqueue, i) /\ k2.out = Append(k.out, x)
               /\ k2.deferred = k.deferred
               /\ x \in RepType /\ x.mid = m /\ x.async = k.waitqueue[i].async
               /\ x.async # 0 \/ x.cmd = "TREE_CONNECT" \/ x.tree = k.waitqueue[i].tree
  BY DEF AnsweredWith
<1>2. Lists(k.waitqueue, k.deferred, k.out, sent, got)
  BY DEF ConnType, Lists
<1>3. Core(RemoveAt(k.waitqueue, i), k.deferred, Append(k.out, x), sent, got, {})
  BY <1>1, <1>2, CoreAnswer
<1> QED BY <1>1, <1>3

(* A TREE_CONNECT that waits has no async id.                              *)
LEMMA TreeConnectWaits ==
    ASSUME NEW q, NEW sent, NEW got, NEW next, QueueSound(q, sent, got),
           SentSound(sent, got, next), NEW j \in 1..got, 1..got \subseteq DOMAIN sent,
           sent[j].cmd = "TREE_CONNECT"
    PROVE  \A a \in DOMAIN q : q[a].mid = sent[j].mid => q[a].async = 0
<1> SUFFICES ASSUME NEW a \in DOMAIN q, q[a].mid = sent[j].mid, q[a].async # 0
             PROVE  FALSE
  OBVIOUS
<1>1. PICK i \in 1..got : /\ IsRequest(sent, i, q[a].mid)
                          /\ q[a].cmd \in {sent[i].cmd, "CANCEL"}
                          /\ q[a].async # 0 => q[a].cmd \notin {"TREE_CONNECT", "CANCEL"}
  BY DEF QueueSound
<1>2. j = i
  BY <1>1 DEF SentSound, IsRequest
<1> QED BY <1>1, <1>2

(* A tree is connected, and the reply names it or, without room, another.  *)
TreeMade(k, k2, x, s) ==
    /\ x.tree \in Range(k2.trees)
    /\ \/ k2.full = TRUE /\ k2.trees = k.trees
       \/ k2.full = k.full /\ k2.trees = Append(k.trees, s) /\ x.tree = s

LEMMA TreeConnected ==
    ASSUME NEW k \in ConnType, CurSound(k), NEW m \in Nat \ {0}, s_tree_id \in Nat,
           \E a \in DOMAIN k.waitqueue : k.waitqueue[a].mid = m,
           \A a \in DOMAIN k.waitqueue : k.waitqueue[a].mid = m => k.waitqueue[a].async = 0,
           NEW k2, k2 = ConnectTree(k, m)
    PROVE  /\ k2 \in ConnType /\ CurSound(k2) /\ k2.state = k.state /\ k2.expect = k.expect
           /\ k2.message_id = k.message_id /\ k2.astray = k.astray
           /\ \E x \in RepType :
                 /\ AnsweredWith(k, k2, m, x) /\ x.cmd = "TREE_CONNECT" /\ x.status = "ok"
                 /\ TreeMade(k, k2, x, s_tree_id)
<1>1. PICK k1 : k1 = smb2_connect_tree_id(k, s_tree_id)
  OBVIOUS
<1>2. /\ k1 \in ConnType /\ CurSound(k1) /\ SameLists(k, k1) /\ smb2_tree_id(k1) \in Nat
      /\ smb2_tree_id(k1) \in Range(k1.trees)
      /\ Stacked(k, k1, s_tree_id)
  BY <1>1, ConnectTreeId
<1>3. PICK tree : tree = smb2_tree_id(k1)
  OBVIOUS
<1>4. PICK t0 : NewPdu(k, m, "TREE_CONNECT", "ok") =
                  [mid |-> m, cmd |-> "TREE_CONNECT", status |-> "ok", async |-> 0, tree |-> t0]
  BY NewPduFields
<1>5. PICK p : p = [mid |-> m, cmd |-> "TREE_CONNECT", status |-> "ok", async |-> 0,
                    tree |-> tree]
  OBVIOUS
<1>6. [NewPdu(k, m, "TREE_CONNECT", "ok") EXCEPT !.tree = tree] = p
  BY <1>4, <1>5
<1>7. k2 = smb2_queue_pdu(k1, p)
  BY <1>1, <1>3, <1>6, Zenon DEF ConnectTree
<1>8. /\ k1.waitqueue = k.waitqueue /\ k1.out = k.out /\ k1.deferred = k.deferred
      /\ k1.state = k.state /\ k1.expect = k.expect /\ k1.message_id = k.message_id
      /\ k1.astray = k.astray
  BY <1>2 DEF SameLists
<1>9. "TREE_CONNECT" \in Cmds /\ "ok" \in Statuses \ {"pending"} /\ tree \in Nat /\ m # 0 /\ m \in Nat
  BY <1>2, <1>3 DEF Cmds, Handled, Statuses
<1> HIDE DEF Cmds, Statuses
<1>10. /\ k2 \in ConnType /\ Untouched(k1, k2)
       /\ \E x \in RepType :
             /\ AnsweredWith(k1, k2, m, x) /\ x.cmd = "TREE_CONNECT" /\ x.status = "ok"
             /\ x.tree = tree
  <2>1. /\ \E a \in DOMAIN k1.waitqueue : k1.waitqueue[a].mid = m
        /\ \A a \in DOMAIN k1.waitqueue : k1.waitqueue[a].mid = m => k1.waitqueue[a].async = 0
    BY <1>8
  <2>2. "TREE_CONNECT" = "TREE_CONNECT" => tree \in Nat
    BY <1>9
  <2>3. /\ k2 \in ConnType /\ Untouched(k1, k2)
        /\ \E x \in RepType :
              /\ AnsweredWith(k1, k2, m, x) /\ x.cmd = "TREE_CONNECT" /\ x.status = "ok"
              /\ NamesTree(k1, m, x, tree)
    BY <1>2, <1>5, <1>7, <1>9, <2>1, <2>2, AnswerPdu
  <2> QED BY <2>1, <2>3 DEF NamesTree
<1>11. PICK x \in RepType :
          /\ AnsweredWith(k1, k2, m, x) /\ x.cmd = "TREE_CONNECT" /\ x.status = "ok"
          /\ x.tree = tree
  BY <1>10
<1>12. AnsweredWith(k, k2, m, x)
  BY <1>8, <1>11 DEF AnsweredWith
<1>13. k2.trees = k1.trees /\ k2.cur = k1.cur /\ k2.full = k1.full
  BY <1>10 DEF Untouched
<1>14. CurSound(k2)
  BY <1>2, <1>13 DEF CurSound
<1>15. /\ k2.state = k.state /\ k2.expect = k.expect
       /\ k2.message_id = k.message_id /\ k2.astray = k.astray
  BY <1>8, <1>10 DEF Untouched
<1>16. TreeMade(k, k2, x, s_tree_id)
  BY <1>2, <1>3, <1>11, <1>13 DEF Stacked, TreeMade
<1> QED BY <1>10, <1>11, <1>12, <1>14, <1>15, <1>16

(* What a step may do to the trees: those of k stay and those of k2 are    *)
(* less than s2; the tree s is new when a reply names it.                  *)
TreesAllowed(k, k2, x, s, s2) ==
    /\ \A t \in Range(k2.trees) : t \in Range(k.trees) \/ t < s2
    /\ x.cmd = "TREE_CONNECT" /\ x.status = "ok" => x.tree < s2
    /\ k.full => k2.full
    /\ ~k2.full =>
           /\ \A t \in Range(k.trees) : t \in Range(k2.trees)
           /\ x.cmd = "TREE_CONNECT" /\ x.status = "ok" => x.tree = s /\ s \in Range(k2.trees)

LEMMA TreeAdded ==
    ASSUME NEW k \in ConnType, NEW k2 \in ConnType, NEW u, NEW s \in Nat, TreeIdsSound(k, u, s),
           NEW x, TreeMade(k, k2, x, s)
    PROVE  TreesAllowed(k, k2, x, s, s + 1)
<1>1. k.trees \in Seq(Nat) /\ k2.trees \in Seq(Nat)
  BY DEF ConnType
<1>2. /\ DOMAIN k.trees = 1..Len(k.trees) /\ Len(k.trees) \in Nat /\ Range(k.trees) \subseteq Nat
      /\ \A t : t \in Range(k.trees) <=> \E i \in 1..Len(k.trees) : k.trees[i] = t
  BY <1>1, SeqElements
<1>3. \A t \in Range(k.trees) : t \in Nat /\ t < s
  BY <1>2 DEF TreeIdsSound
<1>4. /\ DOMAIN k2.trees = 1..Len(k2.trees)
      /\ \A t : t \in Range(k2.trees) <=> \E i \in 1..Len(k2.trees) : k2.trees[i] = t
  BY <1>1, SeqElements
<1>5. CASE k2.full = TRUE /\ k2.trees = k.trees
  BY <1>3, <1>5 DEF TreesAllowed, TreeMade
<1>6. CASE k2.full = k.full /\ k2.trees = Append(k.trees, s) /\ x.tree = s
  <2>1. /\ k2.trees[Len(k.trees) + 1] = s
        /\ \A j \in DOMAIN k.trees : j \in DOMAIN k2.trees /\ k2.trees[j] = k.trees[j]
        /\ \A j \in DOMAIN k2.trees : j \in DOMAIN k.trees \/ j = Len(k.trees) + 1
    BY <1>1, <1>6, AppendIndex
  <2>2. \A t \in Range(k2.trees) : t \in Range(k.trees) \/ t = s
    BY <1>2, <1>4, <2>1
  <2>3. \A t \in Range(k.trees) : t \in Range(k2.trees)
    BY <1>2, <1>4, <2>1
  <2>4. /\ \A t \in Range(k2.trees) : t \in Range(k.trees) \/ t < s + 1
        /\ x.tree < s + 1 /\ s \in Range(k2.trees)
    BY <1>6, <2>2 DEF TreeMade
  <2> QED BY <1>6, <2>3, <2>4 DEF TreesAllowed
<1> QED BY <1>5, <1>6 DEF TreeMade

LEMMA TreesUntouched ==
    ASSUME NEW k, NEW k2, k2.trees = k.trees, k2.full = k.full, NEW x, NEW s, NEW s2,
           ~(x.cmd = "TREE_CONNECT" /\ x.status = "ok")
    PROVE  TreesAllowed(k, k2, x, s, s2)
  BY DEF TreesAllowed

-----------------------------------------------------------------------------
(* The application. *)

(* A reply is queued, nothing is read.                                     *)
LEMMA LaterStep ==
    ASSUME NEW k \in ConnType, NEW k2 \in ConnType, NEW u \in ClientType,
           NEW s \in Nat, NEW s2 \in Nat, s <= s2, OpenInv(k, u, s),
           u.seen = Len(k.out), u.next # 0, k2.expect = k.expect, k2.message_id = k.message_id,
           Core(k2.waitqueue, k2.deferred, k2.out, u.sent, u.got, {}), CurSound(k2),
           NEW x \in RepType, k2.out = Append(k.out, x), x.cmd \notin Login,
           TreesAllowed(k, k2, x, s, s2)
    PROVE  OpenInv(k2, u, s2)
<1>1. /\ SentSound(u.sent, u.got, u.next) /\ StageSound(k, u) /\ TreeIdsSound(k, u, s)
      /\ ~k.full => TreesSound(k, u)
  BY DEF OpenInv
<1>2. Kept(u, u) /\ u.got \in {u.got, u.got + 1} /\ SetupStatus(x)
  BY DEF Kept, SetupStatus, Login
<1>3. Ahead(k, u) = u.phase /\ Ahead(k2, u) = u.phase
  BY <1>2, SamePhase
<1>4. StageSound(k2, u)
  <2>1. /\ ExpectSound(k2.expect, Ahead(k2, u), u.sent, u.got)
        /\ UnreadSound(k2.expect, Ahead(k2, u), u.sent, u.got)
        /\ Ahead(k2, u) # "in" /\ u.sent # <<>> => u.sent[Len(u.sent)].cmd # "CANCEL"
        /\ \A i \in (u.got + 1)..Len(u.sent) : u.sent[i].msg = "smb1" => k2.message_id = 0
    BY <1>1, <1>3 DEF StageSound
  <2> QED BY <1>1, <1>2, <2>1, StageStep
<1>5. TreeIdsSound(k2, u, s2)
  BY <1>1, <1>2, TreeIdsStep DEF TreesAllowed
<1>6. ASSUME ~k2.full PROVE TreesSound(k2, u)
  <2>1. /\ TreesSound(k, u) /\ \A t \in Range(k.trees) : t \in Range(k2.trees)
        /\ x.cmd = "TREE_CONNECT" /\ x.status = "ok" => x.tree = s /\ s \in Range(k2.trees)
    BY <1>1, <1>6 DEF TreesAllowed
  <2> QED BY <1>1, <1>2, <2>1, TreesStep
<1> QED BY <1>1, <1>4, <1>5, <1>6 DEF OpenInv

(* What was read has a number, and only the first may have zero.           *)
LEMMA DueFacts ==
    ASSUME NEW k \in ConnType, NEW u \in ClientType, NEW s, OpenInv(k, u, s),
           NEW r \in k.deferred
    PROVE  /\ r.mid \in Nat \ {0} /\ r.cmd \in Cmds /\ r.cmd \notin Login \cup {"CANCEL"}
           /\ u.next # 0
           /\ \E a \in DOMAIN k.waitqueue : k.waitqueue[a].mid = r.mid
           /\ r.cmd = "TREE_CONNECT" =>
                 \A a \in DOMAIN k.waitqueue : k.waitqueue[a].mid = r.mid => k.waitqueue[a].async = 0
<1>1. /\ QueueSound(k.waitqueue, u.sent, u.got)
      /\ DueSound(k.waitqueue, k.deferred, k.out, u.sent, u.got, {})
      /\ SentSound(u.sent, u.got, u.next)
  BY DEF OpenInv, Core
<1>2. /\ k.deferred \in SUBSET DueType /\ u.sent \in Seq(ReqType) /\ u.got \in Nat /\ u.next \in Nat
  BY DEF ConnType, ClientType
<1>3. Len(u.sent) \in Nat /\ DOMAIN u.sent = 1..Len(u.sent)
  BY <1>2, SeqElements
<1>4. PICK i \in 1..u.got : u.sent[i].mid = r.mid /\ u.sent[i].cmd = r.cmd
  BY <1>1 DEF DueSound
<1>5. r.cmd \notin Login \cup {"CANCEL"}
  BY <1>1 DEF DueSound
<1>6. i \in DOMAIN u.sent /\ 1..u.got \subseteq DOMAIN u.sent
  BY <1>1, <1>2, <1>3 DEF SentSound
<1>7. r.mid \in Nat /\ r.cmd \in Cmds
  BY <1>2 DEF DueType
<1>8. r.mid # 0 /\ r.mid < u.next
  BY <1>1, <1>4, <1>5, <1>6 DEF SentSound, Login
<1>9. \E a \in DOMAIN k.waitqueue : k.waitqueue[a].mid = r.mid
  <2>1. r.mid \in Mids(k.deferred)
    BY DEF Mids
  <2> QED BY <1>1, <2>1 DEF DueSound
<1>10. ASSUME r.cmd = "TREE_CONNECT"
       PROVE  \A a \in DOMAIN k.waitqueue : k.waitqueue[a].mid = r.mid => k.waitqueue[a].async = 0
  BY <1>1, <1>4, <1>6, <1>10, TreeConnectWaits
<1> QED BY <1>2, <1>5, <1>7, <1>8, <1>9, <1>10

(* A deferred request is about to be answered.                             *)
Undue(k, r) == [k EXCEPT !.deferred = @ \ {r}]

SameButDue(k0, k) ==
    /\ k.waitqueue = k0.waitqueue /\ k.out = k0.out
    /\ k.state = k0.state /\ k.expect = k0.expect /\ k.message_id = k0.message_id
    /\ k.trees = k0.trees /\ k.astray = k0.astray /\ k.full = k0.full

LEMMA Undeferred ==
    ASSUME NEW k0 \in ConnType, NEW u \in ClientType, NEW s \in Nat, OpenInv(k0, u, s),
           NEW r \in k0.deferred, NEW k, k = Undue(k0, r)
    PROVE  /\ k \in ConnType /\ Core(k.waitqueue, k.deferred, k.out, u.sent, u.got, {r.mid})
           /\ CurSound(k) /\ TreeIdsSound(k, u, s)
           /\ SameButDue(k0, k)
<1>1. k \in ConnType
  BY DEF ConnType, Undue
<1>2. /\ k.waitqueue = k0.waitqueue /\ k.out = k0.out /\ k.deferred = k0.deferred \ {r}
      /\ k.state = k0.state /\ k.expect = k0.expect /\ k.message_id = k0.message_id
      /\ k.trees = k0.trees /\ k.cur = k0.cur /\ k.astray = k0.astray /\ k.full = k0.full
  BY DEF ConnType, Undue
<1>3. Core(k.waitqueue, k.deferred, k.out, u.sent, u.got, {r.mid})
  <2>1. Lists(k0.waitqueue, k0.deferred, k0.out, u.sent, u.got)
    BY ConnLists
  <2>2. /\ Core(k0.waitqueue, k0.deferred, k0.out, u.sent, u.got, {})
        /\ SentSound(u.sent, u.got, u.next)
    BY DEF OpenInv
  <2>3. Core(k0.waitqueue, k0.deferred \ {r}, k0.out, u.sent, u.got, {r.mid})
    BY <2>1, <2>2, CoreUndefer
  <2> QED BY <1>2, <2>3
<1>4. CurSound(k) /\ TreeIdsSound(k, u, s)
  BY <1>2 DEF OpenInv, TreeIdsSound, CurSound
<1> QED BY <1>1, <1>2, <1>3, <1>4 DEF SameButDue

(* What a step on an open connection leads to.                             *)
Good(k, k2, u2, s2) ==
    /\ k2 \in ConnType /\ u2 \in ClientType /\ OpenInv(k2, u2, s2) /\ k2.state = k.state
    /\ k2.astray = k.astray /\ (k.full => k2.full)

LEMMA AnswerNewTree ==
    ASSUME NEW k0 \in ConnType, NEW u \in ClientType, s_tree_id \in Nat \ {0},
           OpenInv(k0, u, s_tree_id), u.seen = Len(k0.out),
           NEW r \in k0.deferred, r.cmd = "TREE_CONNECT",
           NEW k, k = Undue(k0, r), NEW k2, k2 = ConnectTree(k, r.mid)
    PROVE  Good(k0, k2, u, s_tree_id + 1)
<1>1. /\ r.mid \in Nat \ {0} /\ u.next # 0
      /\ \E a \in DOMAIN k0.waitqueue : k0.waitqueue[a].mid = r.mid
      /\ \A a \in DOMAIN k0.waitqueue : k0.waitqueue[a].mid = r.mid => k0.waitqueue[a].async = 0
  BY DueFacts
<1>a. /\ k \in ConnType /\ Core(k.waitqueue, k.deferred, k.out, u.sent, u.got, {r.mid})
      /\ CurSound(k) /\ TreeIdsSound(k, u, s_tree_id) /\ SameButDue(k0, k)
  <2>1. s_tree_id \in Nat
    OBVIOUS
  <2> QED BY <2>1, Undeferred
<1>2. /\ k \in ConnType /\ Core(k.waitqueue, k.deferred, k.out, u.sent, u.got, {r.mid})
      /\ CurSound(k) /\ TreeIdsSound(k, u, s_tree_id)
      /\ k.waitqueue = k0.waitqueue /\ k.out = k0.out
      /\ k.state = k0.state /\ k.expect = k0.expect /\ k.message_id = k0.message_id
      /\ k.trees = k0.trees /\ k.astray = k0.astray /\ k.full = k0.full
  BY <1>a DEF SameButDue
<1>3. u.sent \in Seq(ReqType) /\ u.got \in Nat /\ r.mid \in Nat /\ s_tree_id \in Nat
  BY <1>1 DEF ClientType
<1>4. /\ \E a \in DOMAIN k.waitqueue : k.waitqueue[a].mid = r.mid
      /\ \A a \in DOMAIN k.waitqueue : k.waitqueue[a].mid = r.mid => k.waitqueue[a].async = 0
  BY <1>1, <1>2
<1>5. /\ k2 \in ConnType /\ CurSound(k2) /\ k2.state = k.state /\ k2.expect = k.expect
      /\ k2.message_id = k.message_id /\ k2.astray = k.astray
      /\ \E x \in RepType :
            /\ AnsweredWith(k, k2, r.mid, x) /\ x.cmd = "TREE_CONNECT" /\ x.status = "ok"
            /\ TreeMade(k, k2, x, s_tree_id)
  BY <1>1, <1>2, <1>3, <1>4, TreeConnected
<1>6. PICK x \in RepType :
         /\ AnsweredWith(k, k2, r.mid, x) /\ x.cmd = "TREE_CONNECT" /\ x.status = "ok"
         /\ TreeMade(k, k2, x, s_tree_id)
  BY <1>5
<1>7. Core(k2.waitqueue, k2.deferred, k2.out, u.sent, u.got, {})
  BY <1>2, <1>3, <1>6, CoreAnswered DEF Final
<1>8. k2.out = Append(k0.out, x) /\ x.cmd \notin Login
  BY <1>2, <1>6 DEF AnsweredWith, Login
<1>9. TreesAllowed(k, k2, x, s_tree_id, s_tree_id + 1)
  BY <1>2, <1>3, <1>5, <1>6, TreeAdded
<1>10. TreesAllowed(k0, k2, x, s_tree_id, s_tree_id + 1) /\ (k0.full => k2.full)
  BY <1>2, <1>9 DEF TreesAllowed
<1>11. PICK s2 : s2 = s_tree_id + 1
  OBVIOUS
<1>12. s2 \in Nat /\ s_tree_id <= s2 /\ TreesAllowed(k0, k2, x, s_tree_id, s2)
  BY <1>3, <1>10, <1>11
<1>13. k2.expect = k0.expect /\ k2.message_id = k0.message_id
  BY <1>2, <1>5
<1>14. OpenInv(k2, u, s2)
  BY <1>1, <1>3, <1>5, <1>7, <1>8, <1>12, <1>13, LaterStep
<1> QED BY <1>2, <1>5, <1>10, <1>11, <1>14 DEF Good

LEMMA AnswerDue ==
    ASSUME NEW k0 \in ConnType, NEW u \in ClientType, NEW s \in Nat \ {0},
           OpenInv(k0, u, s), u.seen = Len(k0.out),
           NEW r \in k0.deferred, NEW status \in {"ok", "error"},
           ~(r.cmd = "TREE_CONNECT" /\ status = "ok"),
           NEW k, k = Undue(k0, r),
           NEW k2, k2 = smb2_queue_pdu(k, NewPdu(k, r.mid, r.cmd, status))
    PROVE  Good(k0, k2, u, s)
<1>1. /\ r.mid \in Nat \ {0} /\ r.cmd \in Cmds /\ r.cmd \notin Login \cup {"CANCEL"}
      /\ u.next # 0
      /\ \E a \in DOMAIN k0.waitqueue : k0.waitqueue[a].mid = r.mid
  BY DueFacts
<1>a. /\ k \in ConnType /\ Core(k.waitqueue, k.deferred, k.out, u.sent, u.got, {r.mid})
      /\ CurSound(k) /\ TreeIdsSound(k, u, s) /\ SameButDue(k0, k)
  <2>1. s \in Nat
    OBVIOUS
  <2> QED BY <2>1, Undeferred
<1>2. /\ k \in ConnType /\ Core(k.waitqueue, k.deferred, k.out, u.sent, u.got, {r.mid})
      /\ CurSound(k) /\ TreeIdsSound(k, u, s)
      /\ k.waitqueue = k0.waitqueue /\ k.out = k0.out
      /\ k.state = k0.state /\ k.expect = k0.expect /\ k.message_id = k0.message_id
      /\ k.trees = k0.trees /\ k.astray = k0.astray /\ k.full = k0.full
  BY <1>a DEF SameButDue
<1>3. u.sent \in Seq(ReqType) /\ u.got \in Nat /\ r.mid \in Nat /\ s \in Nat
  BY <1>1 DEF ClientType
<1>4. status \in Statuses \ {"pending"} /\ (r.mid # 0 \/ r.cmd = "NEGOTIATE")
  BY <1>1 DEF Statuses
<1>5. /\ k2 \in ConnType /\ Untouched(k, k2)
      /\ \E x \in RepType : AnsweredWith(k, k2, r.mid, x) /\ x.cmd = r.cmd /\ x.status = status
  <2>1. \E a \in DOMAIN k.waitqueue : k.waitqueue[a].mid = r.mid
    BY <1>1, <1>2
  <2> QED BY <1>1, <1>2, <1>3, <1>4, <2>1, SendNewPdu
<1>6. PICK x \in RepType :
         AnsweredWith(k, k2, r.mid, x) /\ x.cmd = r.cmd /\ x.status = status
  BY <1>5
<1>7. Core(k2.waitqueue, k2.deferred, k2.out, u.sent, u.got, {})
  BY <1>1, <1>2, <1>3, <1>4, <1>6, CoreAnswered DEF Final
<1>8. k2.out = Append(k0.out, x) /\ x.cmd \notin Login /\ ~(x.cmd = "TREE_CONNECT" /\ x.status = "ok")
  BY <1>1, <1>2, <1>6 DEF AnsweredWith
<1>9. /\ k2.trees = k0.trees /\ k2.cur = k.cur /\ k2.trees = k.trees /\ k2.full = k0.full
      /\ k2.expect = k0.expect /\ k2.message_id = k0.message_id /\ k2.state = k0.state
      /\ k2.astray = k0.astray
  BY <1>2, <1>5 DEF Untouched
<1>10. CurSound(k2) /\ TreesAllowed(k0, k2, x, s, s) /\ s <= s
  BY <1>2, <1>3, <1>8, <1>9, TreesUntouched DEF CurSound
<1>11. OpenInv(k2, u, s)
  BY <1>1, <1>3, <1>5, <1>7, <1>8, <1>9, <1>10, LaterStep
<1> QED BY <1>5, <1>9, <1>11 DEF Good

(* An interim reply.                                                       *)
LEMMA AnswerInterim ==
    ASSUME NEW k \in ConnType, NEW u \in ClientType, NEW s \in Nat \ {0},
           OpenInv(k, u, s), u.seen = Len(k.out), NEW r \in k.deferred, r.cmd # "TREE_CONNECT",
           NEW i, i = smb2_find_pdu(k, r.mid), i # 0,
           k.waitqueue[i].cmd = r.cmd, k.waitqueue[i].async = 0,
           NEW k2, k2 = smb2_queue_pdu(k, NewPdu(k, r.mid, r.cmd, "pending"))
    PROVE  Good(k, k2, u, s)
<1>1. /\ r.mid \in Nat \ {0} /\ r.cmd \in Cmds /\ r.cmd \notin Login \cup {"CANCEL"}
      /\ u.next # 0
  BY DueFacts
<1>2. PICK tree : tree = IF r.cmd \in NoTree THEN 0 ELSE smb2_tree_id(k)
  OBVIOUS
<1>3. PICK p : p = NewPdu(k, r.mid, r.cmd, "pending")
  OBVIOUS
<1>4. /\ p = [mid |-> r.mid, cmd |-> r.cmd, status |-> "pending", async |-> 0, tree |-> tree]
      /\ k2 = smb2_queue_pdu(k, p)
  BY <1>2, <1>3 DEF NewPdu
<1>5. /\ k2 \in ConnType /\ Untouched(k, k2)
      /\ IsFirst(k.waitqueue, r.mid, i)
      /\ \E x \in RepType :
            /\ x.mid = r.mid /\ x.cmd = r.cmd /\ x.status = "pending" /\ x.async # 0
            /\ k2.out = Append(k.out, x)
            /\ Marked(k.waitqueue, k2.waitqueue, i, x)
  BY <1>1, <1>4, QueueInterim
<1>6. PICK x \in RepType :
         /\ x.mid = r.mid /\ x.cmd = r.cmd /\ x.status = "pending" /\ x.async # 0
         /\ k2.out = Append(k.out, x)
         /\ Marked(k.waitqueue, k2.waitqueue, i, x)
  BY <1>5
<1>7. /\ k2.trees = k.trees /\ k2.cur = k.cur /\ k2.full = k.full /\ k2.deferred = k.deferred
      /\ k2.expect = k.expect /\ k2.message_id = k.message_id /\ k2.state = k.state
      /\ k2.astray = k.astray
  BY <1>5 DEF Untouched
<1>8. Core(k2.waitqueue, k2.deferred, k2.out, u.sent, u.got, {})
  <2>1. Lists(k.waitqueue, k.deferred, k.out, u.sent, u.got)
    BY ConnLists
  <2>2. Core(k.waitqueue, k.deferred, k.out, u.sent, u.got, {})
    BY DEF OpenInv
  <2>3. /\ i \in DOMAIN k.waitqueue /\ x.mid = k.waitqueue[i].mid /\ ~Final(x)
        /\ k.waitqueue[i].cmd \notin {"TREE_CONNECT", "CANCEL"}
    BY <1>1, <1>5, <1>6 DEF IsFirst, Final
  <2>4. Core(k2.waitqueue, k.deferred, Append(k.out, x), u.sent, u.got, {})
    BY <1>6, <2>1, <2>2, <2>3, CoreMarked
  <2> QED BY <1>6, <1>7, <2>4
<1>9. x.cmd \notin Login /\ ~(x.cmd = "TREE_CONNECT" /\ x.status = "ok")
  BY <1>1, <1>6
<1>10. CurSound(k2) /\ TreesAllowed(k, k2, x, s, s) /\ s <= s /\ s \in Nat
  BY <1>7, <1>9, TreesUntouched DEF CurSound, OpenInv, TreeIdsSound
<1>11. OpenInv(k2, u, s)
  BY <1>1, <1>5, <1>6, <1>7, <1>8, <1>9, <1>10, LaterStep
<1> QED BY <1>5, <1>7, <1>11 DEF Good

(* A notification.                                                         *)
LEMMA NotifyBreak ==
    ASSUME NEW k \in ConnType, NEW u \in ClientType, NEW s \in Nat \ {0},
           OpenInv(k, u, s), u.seen = Len(k.out), u.phase = "in",
           NEW k2, k2 = smb2_queue_pdu(k, NewPdu(k, BREAK_ID, "OPLOCK_BREAK", "ok"))
    PROVE  Good(k, k2, u, s)
<1>1. u.next # 0
  BY DEF OpenInv, StageSound
<1>2. PICK tree : NewPdu(k, BREAK_ID, "OPLOCK_BREAK", "ok") =
                     [mid |-> BREAK_ID, cmd |-> "OPLOCK_BREAK", status |-> "ok", async |-> 0,
                      tree |-> tree]
  BY NewPduFields
<1>3. PICK p : p = NewPdu(k, BREAK_ID, "OPLOCK_BREAK", "ok")
  OBVIOUS
<1>4. /\ p = [mid |-> BREAK_ID, cmd |-> "OPLOCK_BREAK", status |-> "ok", async |-> 0,
              tree |-> tree]
      /\ k2 = smb2_queue_pdu(k, p)
  BY <1>2, <1>3
<1>5. /\ k2 \in ConnType /\ Untouched(k, k2) /\ k2.waitqueue = k.waitqueue
      /\ \E x \in RepType : /\ x.mid = BREAK_ID /\ x.cmd = "OPLOCK_BREAK"
                            /\ k2.out = Append(k.out, x)
  BY <1>4, QueueNotify
<1>6. PICK x \in RepType : /\ x.mid = BREAK_ID /\ x.cmd = "OPLOCK_BREAK"
                           /\ k2.out = Append(k.out, x)
  BY <1>5
<1>7. /\ k2.trees = k.trees /\ k2.cur = k.cur /\ k2.full = k.full /\ k2.deferred = k.deferred
      /\ k2.expect = k.expect /\ k2.message_id = k.message_id /\ k2.state = k.state
      /\ k2.astray = k.astray
  BY <1>5 DEF Untouched
<1>8. Core(k2.waitqueue, k2.deferred, k2.out, u.sent, u.got, {})
  <2>1. Lists(k.waitqueue, k.deferred, k.out, u.sent, u.got)
    BY ConnLists
  <2>2. Core(k.waitqueue, k.deferred, k.out, u.sent, u.got, {})
    BY DEF OpenInv
  <2>3. Core(k.waitqueue, k.deferred, Append(k.out, x), u.sent, u.got, {})
    BY <1>6, <2>1, <2>2, CoreNotify
  <2> QED BY <1>5, <1>6, <1>7, <2>3
<1>9. x.cmd \notin Login /\ ~(x.cmd = "TREE_CONNECT" /\ x.status = "ok")
  BY <1>6 DEF Login
<1>10. CurSound(k2) /\ TreesAllowed(k, k2, x, s, s) /\ s <= s /\ s \in Nat
  BY <1>7, <1>9, TreesUntouched DEF CurSound, OpenInv, TreeIdsSound
<1>11. OpenInv(k2, u, s)
  BY <1>1, <1>5, <1>6, <1>7, <1>8, <1>9, <1>10, LaterStep
<1> QED BY <1>5, <1>7, <1>11 DEF Good

-----------------------------------------------------------------------------
(* The client sends. *)

(* u2 is u once it has sent r.                                             *)
Sent(u, u2, r) ==
    /\ u2.sent = Append(u.sent, r) /\ u2.got = u.got /\ u2.seen = u.seen
    /\ u2.trees \subseteq u.trees

LEMMA SentIndex ==
    ASSUME NEW u \in ClientType, NEW u2, NEW r \in ReqType, Sent(u, u2, r)
    PROVE  /\ Len(u.sent) \in Nat /\ DOMAIN u.sent = 1..Len(u.sent) /\ u.got \in Nat
           /\ Len(u2.sent) = Len(u.sent) + 1 /\ DOMAIN u2.sent = 1..(Len(u.sent) + 1)
           /\ u2.sent[Len(u.sent) + 1] = r /\ u2.got = u.got
           /\ \A i \in 1..Len(u.sent) : u2.sent[i] = u.sent[i]
           /\ u2.sent # <<>>
<1>1. u.sent \in Seq(ReqType) /\ u.got \in Nat
  BY DEF ClientType
<1>2. /\ Len(u2.sent) = Len(u.sent) + 1 /\ DOMAIN u.sent = 1..Len(u.sent) /\ Len(u.sent) \in Nat
      /\ DOMAIN u2.sent = 1..(Len(u.sent) + 1)
      /\ \A j \in DOMAIN u.sent : u2.sent[j] = u.sent[j]
      /\ u2.sent[Len(u.sent) + 1] = r /\ u2.sent # <<>>
  BY <1>1, AppendIndex DEF Sent
<1> QED BY <1>1, <1>2 DEF Sent

LEMMA TreeIdsSend ==
    ASSUME NEW k, NEW u \in ClientType, NEW u2, NEW r \in ReqType, NEW s, Sent(u, u2, r),
           TreeIdsSound(k, u, s), r.tree < s
    PROVE  TreeIdsSound(k, u2, s)
<1>1. \A i \in DOMAIN u2.sent : u2.sent[i].tree < s
  <2> TAKE i \in DOMAIN u2.sent
  <2>1. CASE i = Len(u.sent) + 1
    BY <2>1, SentIndex
  <2>2. CASE i # Len(u.sent) + 1
    <3>1. i \in DOMAIN u.sent /\ u2.sent[i] = u.sent[i]
      BY <2>2, SentIndex
    <3> QED BY <3>1 DEF TreeIdsSound
  <2> QED BY <2>1, <2>2
<1> QED BY <1>1 DEF TreeIdsSound, Sent

LEMMA TreesSend ==
    ASSUME NEW k, NEW u \in ClientType, NEW u2, NEW r \in ReqType, Sent(u, u2, r),
           TreesSound(k, u), u.got <= Len(u.sent), u.seen = Len(k.out), Len(k.out) \in Nat,
           r.cmd = "TREE_DISCONNECT" => r.tree \notin u2.trees,
           r.cmd \notin NoTree \cup {"CANCEL"} => r.tree \in u.trees
    PROVE  TreesSound(k, u2)
<1> DEFINE n == Len(u.sent)
<1>1. /\ n \in Nat /\ u.got \in Nat /\ Len(u2.sent) = n + 1 /\ u2.sent[n + 1] = r
      /\ u2.got = u.got /\ \A i \in 1..n : u2.sent[i] = u.sent[i]
  BY SentIndex
<1>2. u2.trees \subseteq u.trees /\ ~(u2.seen < Len(k.out)) /\ u.got <= n
  BY DEF Sent
<1> HIDE DEF n
<1>3. ASSUME NEW t, NEW i \in Int, i <= n, Stays(u, t, i)
      PROVE  Stays(u2, t, i)
  <2> SUFFICES ASSUME NEW j \in (u2.got + 1)..i
               PROVE  ~(u2.sent[j].cmd = "TREE_DISCONNECT" /\ u2.sent[j].tree = t)
    BY DEF Stays
  <2>1. j \in (u.got + 1)..i /\ j \in 1..n
    BY <1>1, <1>3
  <2>2. u2.sent[j] = u.sent[j]
    BY <1>1, <2>1
  <2> QED BY <1>3, <2>1, <2>2 DEF Stays
<1>4. ASSUME NEW t \in u2.trees
      PROVE  t \in Range(k.trees) /\ Stays(u2, t, n + 1)
  <2>1. t \in Range(k.trees) /\ Stays(u, t, n)
    BY <1>2 DEF TreesSound, n
  <2>2. Stays(u2, t, n)
    BY <1>1, <1>3, <2>1
  <2>3. ~(r.cmd = "TREE_DISCONNECT" /\ r.tree = t)
    OBVIOUS
  <2>4. Stays(u2, t, n + 1)
    <3> SUFFICES ASSUME NEW j \in (u2.got + 1)..(n + 1)
                 PROVE  ~(u2.sent[j].cmd = "TREE_DISCONNECT" /\ u2.sent[j].tree = t)
      BY DEF Stays
    <3>1. CASE j = n + 1
      BY <1>1, <2>3, <3>1
    <3>2. CASE j # n + 1
      <4>1. j \in (u2.got + 1)..n
        BY <1>1, <3>2
      <4> QED BY <2>2, <4>1 DEF Stays
    <3> QED BY <3>1, <3>2
  <2> QED BY <2>1, <2>4
<1>5. ASSUME NEW i \in (u2.got + 1)..(n + 1), u2.sent[i].cmd \notin NoTree \cup {"CANCEL"}
      PROVE  u2.sent[i].tree \in Range(k.trees) /\ Stays(u2, u2.sent[i].tree, i - 1)
  <2>1. CASE i = n + 1
    <3>1. r.tree \in u.trees
      BY <1>1, <1>5, <2>1
    <3>2. r.tree \in Range(k.trees) /\ Stays(u, r.tree, n)
      BY <3>1 DEF TreesSound, n
    <3>3. Stays(u2, r.tree, n) /\ i - 1 = n
      BY <1>1, <1>3, <2>1, <3>2
    <3> QED BY <1>1, <2>1, <3>2, <3>3
  <2>2. CASE i # n + 1
    <3>1. i \in (u.got + 1)..n /\ u2.sent[i] = u.sent[i] /\ i - 1 \in Int /\ i - 1 <= n
      BY <1>1, <2>2
    <3>2. u.sent[i].tree \in Range(k.trees) /\ Stays(u, u.sent[i].tree, i - 1)
      BY <1>5, <3>1 DEF TreesSound, n
    <3> QED BY <1>3, <3>1, <3>2
  <2> QED BY <2>1, <2>2
<1> QED BY <1>1, <1>2, <1>4, <1>5 DEF TreesSound

(* What SentSend asks of a request.                                        *)
Numbered(u, r, after) ==
    \/ /\ r.cmd # "CANCEL" /\ r.mid = u.next /\ after = u.next + 1 /\ r.async = 0
       /\ r.mid = 0 => r.cmd = "NEGOTIATE"
       /\ r.msg = "smb1" => r.mid = 0
    \/ /\ r.cmd = "CANCEL" /\ after = u.next /\ r.mid # 0 /\ r.msg # "smb1"
       /\ \E j \in DOMAIN u.sent : IsRequest(u.sent, j, r.mid) /\ u.sent[j].tree = r.tree

LEMMA SendStep ==
    ASSUME NEW k \in ConnType, NEW u \in ClientType, NEW u2 \in ClientType, NEW r \in ReqType,
           NEW s, OpenInv(k, u, s), u.seen = Len(k.out), Sent(u, u2, r),
           Numbered(u, r, u2.next), u2.next # 0, r.tree < s,
           ExpectSound(k.expect, u2.phase, u2.sent, u.got),
           UnreadSound(k.expect, u2.phase, u2.sent, u.got),
           u2.phase # "in" => r.cmd # "CANCEL", r.msg = "smb1" => k.message_id = 0,
           r.cmd = "TREE_DISCONNECT" => r.tree \notin u2.trees,
           r.cmd \notin NoTree \cup {"CANCEL"} => r.tree \in u.trees
    PROVE  OpenInv(k, u2, s)
<1>1. /\ SentSound(u.sent, u.got, u.next) /\ StageSound(k, u) /\ TreeIdsSound(k, u, s)
      /\ Core(k.waitqueue, k.deferred, k.out, u.sent, u.got, {})
      /\ ~k.full => TreesSound(k, u)
  BY DEF OpenInv
<1>2. /\ u.sent \in Seq(ReqType) /\ u.got \in Nat /\ u.next \in Nat /\ u2.next \in Nat
      /\ k.out \in Seq(RepType)
  BY DEF ClientType, ConnType
<1>3. Len(k.out) \in Nat
  BY <1>2, SeqElements
<1>4. u2.sent = Append(u.sent, r) /\ u2.got = u.got /\ u2.seen = u.seen
  BY DEF Sent
<1>5. u.got <= Len(u.sent)
  BY <1>1 DEF SentSound
<1>6. SentSound(u2.sent, u2.got, u2.next)
  <2>1. SentSound(Append(u.sent, r), u.got, u2.next)
    BY <1>1, <1>2, SentSend DEF Numbered
  <2> QED BY <1>4, <2>1
<1>7. Core(k.waitqueue, k.deferred, k.out, u2.sent, u2.got, {})
  <2>1. Lists(k.waitqueue, k.deferred, k.out, u.sent, u.got)
    BY ConnLists
  <2>2. Core(k.waitqueue, k.deferred, k.out, Append(u.sent, r), u.got, {})
    BY <1>1, <1>5, <2>1, CoreSend
  <2> QED BY <1>4, <2>2
<1>8. StageSound(k, u2)
  <2>1. Ahead(k, u2) = u2.phase /\ u2.seen <= Len(k.out) /\ Len(k.out) <= u2.seen + 1
    BY <1>3, <1>4 DEF Ahead
  <2>2. u2.sent[Len(u2.sent)] = r /\ Len(u2.sent) = Len(u.sent) + 1 /\ Len(u.sent) \in Nat
    BY SentIndex
  <2>3. \A i \in (u2.got + 1)..Len(u2.sent) : u2.sent[i].msg = "smb1" => k.message_id = 0
    <3> SUFFICES ASSUME NEW i \in (u2.got + 1)..Len(u2.sent), u2.sent[i].msg = "smb1"
                 PROVE  k.message_id = 0
      OBVIOUS
    <3>1. CASE i = Len(u2.sent)
      BY <2>2, <3>1
    <3>2. CASE i # Len(u2.sent)
      <4>1. i \in (u.got + 1)..Len(u.sent) /\ u2.sent[i] = u.sent[i]
        BY <1>2, <1>4, <2>2, <3>2, SentIndex
      <4> QED BY <1>1, <4>1 DEF StageSound
    <3> QED BY <3>1, <3>2
  <2>4. \A o \in DOMAIN k.out : k.out[o].cmd = "SESSION_SETUP" =>
           k.out[o].status \in {"more", "ok", "error"}
    BY <1>1 DEF StageSound
  <2> QED BY <1>4, <2>1, <2>2, <2>3, <2>4 DEF StageSound
<1>9. TreeIdsSound(k, u2, s)
  BY <1>1, TreeIdsSend
<1>10. ASSUME ~k.full PROVE TreesSound(k, u2)
  BY <1>1, <1>3, <1>5, <1>10, TreesSend
<1> QED BY <1>6, <1>7, <1>8, <1>9, <1>10 DEF OpenInv

(* Once it is logged in, a client may send anything.                       *)
LEMMA SendIn ==
    ASSUME NEW k \in ConnType, NEW u \in ClientType, NEW u2 \in ClientType, NEW r \in ReqType,
           NEW s, OpenInv(k, u, s), u.seen = Len(k.out), u.phase = "in", Sent(u, u2, r),
           r.cmd \in Handled, r.msg = NULL,
           \/ r.cmd # "LOGOFF" /\ u2.phase = "in"
           \/ r.cmd = "LOGOFF" /\ u2.phase = "negotiated"
    PROVE  /\ ExpectSound(k.expect, u2.phase, u2.sent, u.got)
           /\ UnreadSound(k.expect, u2.phase, u2.sent, u.got)
           /\ u.next # 0 /\ r.msg # "smb1"
<1> DEFINE n == Len(u.sent)
<1>1. /\ n \in Nat /\ u.got \in Nat /\ Len(u2.sent) = n + 1 /\ u2.sent[n + 1] = r
      /\ \A i \in 1..n : u2.sent[i] = u.sent[i]
  BY SentIndex
<1>2. /\ SentSound(u.sent, u.got, u.next) /\ StageSound(k, u)
  BY DEF OpenInv
<1>3. u.got <= n
  BY <1>2 DEF SentSound
<1>4. Ahead(k, u) = "in"
  <2>1. k.out \in Seq(RepType)
    BY DEF ConnType
  <2>2. Len(k.out) \in Nat
    BY <2>1, SeqElements
  <2> QED BY <2>2 DEF Ahead
<1>5. /\ ExpectSound(k.expect, "in", u.sent, u.got) /\ UnreadSound(k.expect, "in", u.sent, u.got)
  BY <1>2, <1>4 DEF StageSound
<1>6. /\ k.expect = "TREE_CONNECT"
      /\ \A i \in (u.got + 1)..n : u.sent[i].cmd # "LOGOFF"
  BY <1>5 DEF ExpectSound
<1>7. \A i \in (u.got + 1)..n : u.sent[i].cmd \in Handled /\ u.sent[i].msg = NULL
  BY <1>5, <1>6 DEF UnreadSound
<1> HIDE DEF n
<1>8. ASSUME NEW i \in (u.got + 1)..(n + 1)
      PROVE  /\ u2.sent[i].cmd \in Handled /\ u2.sent[i].msg = NULL
             /\ u2.sent[i].cmd = "LOGOFF" => i = n + 1 /\ r.cmd = "LOGOFF"
  <2>1. CASE i = n + 1
    BY <1>1, <2>1
  <2>2. CASE i # n + 1
    <3>1. i \in (u.got + 1)..n /\ u2.sent[i] = u.sent[i]
      BY <1>1, <2>2
    <3> QED BY <1>6, <1>7, <3>1
  <2> QED BY <2>1, <2>2
<1>9. UnreadSound(k.expect, u2.phase, u2.sent, u.got)
  BY <1>1, <1>6, <1>8 DEF UnreadSound
<1>10. ExpectSound(k.expect, u2.phase, u2.sent, u.got)
  BY <1>1, <1>3, <1>6, <1>8 DEF ExpectSound
<1>11. u.next # 0 /\ r.msg # "smb1"
  BY <1>2, ServerAssumption DEF StageSound
<1> QED BY <1>9, <1>10, <1>11

-----------------------------------------------------------------------------
(* The steps. *)

LEMMA ConnMono ==
    ASSUME NEW k, NEW u, NEW s \in Nat, NEW s2 \in Nat, s <= s2, ConnInv(k, u, s)
    PROVE  ConnInv(k, u, s2)
<1>1. k \in ConnType /\ u \in ClientType
  BY DEF ConnInv
<1>2. ASSUME OpenInv(k, u, s) PROVE OpenInv(k, u, s2)
  <2>1. TreeIdsSound(k, u, s) /\ CurSound(k) /\ Kept(u, u)
    BY <1>2 DEF OpenInv, TreeIdsSound, CurSound, Kept
  <2>2. TreeIdsSound(k, u, s2)
    BY <1>1, <2>1, TreeIdsStep
  <2> QED BY <1>2, <2>2 DEF OpenInv
<1> QED BY <1>2 DEF ConnInv

(* A step of one connection and its client.                                *)
LEMMA StepInv ==
    ASSUME IInv, NEW c \in Conns, NEW k2, NEW u2, NEW s2 \in Nat,
           conn' = [conn EXCEPT ![c] = k2], client' = [client EXCEPT ![c] = u2],
           s_tree_id' = s2, s_tree_id <= s2, session_counter' \in Nat,
           kind' = kind, ConnInv(k2, u2, s2)
    PROVE  IInv'
<1>1. /\ conn \in [Conns -> ConnType] /\ client \in [Conns -> ClientType]
      /\ s_tree_id \in Nat \ {0} /\ kind \in FileCommands
      /\ \A d \in Conns : ConnInv(conn[d], client[d], s_tree_id)
  BY DEF IInv
<1>2. /\ conn' \in [Conns -> ConnType] /\ client' \in [Conns -> ClientType]
      /\ s2 \in Nat \ {0} /\ kind' \in FileCommands
  <2>1. k2 \in ConnType /\ u2 \in ClientType
    BY DEF ConnInv
  <2> QED BY <1>1, <2>1
<1>3. ASSUME NEW d \in Conns
      PROVE  ConnInv(conn'[d], client'[d], s2)
  <2>1. CASE d = c
    <3>1. conn'[d] = k2 /\ client'[d] = u2
      BY <1>1, <2>1
    <3> QED BY <3>1
  <2>2. CASE d # c
    <3>1. conn'[d] = conn[d] /\ client'[d] = client[d]
      BY <1>1, <2>2
    <3>2. ConnInv(conn[d], client[d], s_tree_id) /\ s_tree_id \in Nat
      BY <1>1
    <3>3. ConnInv(conn[d], client[d], s2)
      BY <3>2, ConnMono
    <3> QED BY <3>1, <3>3
  <2> QED BY <2>1, <2>2
<1>4. \A d \in Conns : ConnInv(conn'[d], client'[d], s_tree_id')
  BY <1>3
<1> QED BY <1>2, <1>4 DEF IInv

(* The same when the server's counters stay.                               *)
LEMMA StepSame ==
    ASSUME IInv, NEW c \in Conns, NEW k2, NEW u2,
           conn' = [conn EXCEPT ![c] = k2], client' = [client EXCEPT ![c] = u2],
           UNCHANGED <<session_counter, s_tree_id, kind>>, ConnInv(k2, u2, s_tree_id)
    PROVE  IInv'
<1>1. s_tree_id \in Nat /\ session_counter \in Nat
  BY DEF IInv
<1>2. PICK s2 : s2 = s_tree_id
  OBVIOUS
<1>3. /\ s2 \in Nat /\ s_tree_id' = s2 /\ s_tree_id <= s2 /\ session_counter' \in Nat
      /\ kind' = kind /\ ConnInv(k2, u2, s2)
  BY <1>1, <1>2
<1> QED BY <1>3, StepInv

LEMMA ConnFacts ==
    ASSUME IInv, NEW c \in Conns
    PROVE  /\ conn[c] \in ConnType /\ client[c] \in ClientType /\ s_tree_id \in Nat \ {0}
           /\ session_counter \in Nat
           /\ ConnInv(conn[c], client[c], s_tree_id)
           /\ conn[c].state = "open" => OpenInv(conn[c], client[c], s_tree_id)
           /\ conn[c].astray => conn[c].full
           /\ conn = [conn EXCEPT ![c] = conn[c]] /\ client = [client EXCEPT ![c] = client[c]]
<1>1. /\ conn \in [Conns -> ConnType] /\ client \in [Conns -> ClientType]
      /\ ConnInv(conn[c], client[c], s_tree_id)
  BY DEF IInv
<1>2. s_tree_id \in Nat \ {0} /\ session_counter \in Nat
  BY DEF IInv
<1>3. conn = [conn EXCEPT ![c] = conn[c]] /\ client = [client EXCEPT ![c] = client[c]]
  BY <1>1
<1> QED BY <1>1, <1>2, <1>3 DEF ConnInv

LEMMA GoodConn ==
    ASSUME NEW k, NEW k2, NEW u2, NEW s2, k.state = "open", k.astray => k.full,
           Good(k, k2, u2, s2)
    PROVE  ConnInv(k2, u2, s2)
  BY DEF Good, ConnInv

LEMMA NoConnType == NoConn \in ConnType /\ NoClient \in ClientType
<1>1. <<>> \in Seq(Nat) /\ <<>> \in Seq(WaitType) /\ <<>> \in Seq(RepType) /\ <<>> \in Seq(ReqType)
  BY EmptySeq
<1>2. NoConn \in ConnType
  BY <1>1 DEF NoConn, ConnType
<1>3. NoClient \in ClientType
  BY <1>1 DEF NoClient, ClientType
<1> QED BY <1>2, <1>3

LEMMA AcceptStep ==
    ASSUME IInv, NEW c \in Conns, Accept(c)
    PROVE  IInv'
<1> DEFINE k2 == [[NoConn EXCEPT !.state = "open"] EXCEPT !.expect = "NEGOTIATE"]
<1>1. conn[c] = NoConn /\ client[c] = NoClient /\ s_tree_id \in Nat \ {0}
  BY DEF IInv, Accept, ConnInv
<1>2. conn' = [conn EXCEPT ![c] = k2]
  BY <1>1 DEF Accept, NoConn, IInv
<1>3. client' = [client EXCEPT ![c] = NoClient]
  BY <1>1, ConnFacts DEF Accept
<1>4. k2 \in ConnType /\ NoClient \in ClientType
  BY NoConnType DEF ConnType
<1>5. /\ k2.state = "open" /\ k2.expect = "NEGOTIATE" /\ k2.message_id = 0 /\ k2.trees = <<>>
      /\ k2.waitqueue = <<>> /\ k2.deferred = {} /\ k2.out = <<>> /\ k2.astray = FALSE
  BY DEF NoConn
<1>6. /\ NoClient.phase = "start" /\ NoClient.sent = <<>> /\ NoClient.got = 0 /\ NoClient.seen = 0
      /\ NoClient.trees = {} /\ NoClient.next = 0
  BY DEF NoClient
<1> HIDE DEF k2
<1>7. Len(<<>>) = 0 /\ DOMAIN <<>> = {} /\ 1..0 = {} /\ (0 + 1)..0 = {}
  BY EmptySeq
<1>8. SentSound(<<>>, 0, 0)
  BY <1>7 DEF SentSound
<1>9. Core(<<>>, {}, <<>>, <<>>, 0, {})
  BY <1>7 DEF Core, QueueSound, OrderSound, WaitSound, DueSound, Mids, NoneSkipped, AnswerSound,
              RepliesSound
<1>10. StageSound(k2, NoClient)
  <2>1. Ahead(k2, NoClient) = "start"
    BY <1>5, <1>6, <1>7 DEF Ahead
  <2>2. ExpectSound("NEGOTIATE", "start", <<>>, 0) /\ UnreadSound("NEGOTIATE", "start", <<>>, 0)
    BY <1>7 DEF ExpectSound, UnreadSound
  <2> QED BY <1>5, <1>6, <1>7, <2>1, <2>2 DEF StageSound
<1>11. TreeIdsSound(k2, NoClient, s_tree_id)
  BY <1>5, <1>6, <1>7 DEF TreeIdsSound
<1>12. TreesSound(k2, NoClient)
  BY <1>5, <1>6, <1>7 DEF TreesSound
<1>13. OpenInv(k2, NoClient, s_tree_id)
  BY <1>5, <1>6, <1>8, <1>9, <1>10, <1>11, <1>12 DEF OpenInv
<1>14. ConnInv(k2, NoClient, s_tree_id)
  BY <1>4, <1>5, <1>13 DEF ConnInv
<1>15. UNCHANGED <<session_counter, s_tree_id, kind>>
  BY DEF Accept
<1> QED BY <1>2, <1>3, <1>14, <1>15, StepSame

LEMMA ClosedConn ==
    ASSUME NEW k \in ConnType, k.astray => k.full, NEW s
    PROVE  ConnInv(smb2_close_context(k), NoClient, s)
<1> DEFINE k2 == smb2_close_context(k)
<1>1. <<>> \in Seq(Nat) /\ <<>> \in Seq(RepType)
  BY EmptySeq
<1>2. /\ k2 \in ConnType /\ k2.state = "closed" /\ k2.out = <<>> /\ k2.astray = k.astray
      /\ k2.full = k.full
  BY <1>1 DEF smb2_close_context, ConnType
<1> HIDE DEF k2
<1>3. ConnInv(k2, NoClient, s)
  BY <1>2, NoConnType DEF ConnInv
<1> QED BY <1>3 DEF k2

LEMMA GoneConn ==
    ASSUME NEW s
    PROVE  ConnInv([NoConn EXCEPT !.state = "gone"], NoClient, s)
<1> DEFINE k2 == [NoConn EXCEPT !.state = "gone"]
<1>1. k2 \in ConnType /\ k2.state = "gone" /\ k2.out = <<>> /\ k2.astray = FALSE
  BY NoConnType DEF ConnType, NoConn
<1> HIDE DEF k2
<1>2. ConnInv(k2, NoClient, s)
  BY <1>1, NoConnType DEF ConnInv
<1> QED BY <1>2 DEF k2

LEMMA ServiceFailsStep ==
    ASSUME IInv, NEW c \in Conns, ServiceFails(c)
    PROVE  IInv'
<1>1. ConnInv(smb2_close_context(conn[c]), NoClient, s_tree_id)
  BY ConnFacts, ClosedConn
<1>2. PICK k2 : k2 = smb2_close_context(conn[c])
  OBVIOUS
<1>3. /\ conn' = [conn EXCEPT ![c] = k2] /\ client' = [client EXCEPT ![c] = NoClient]
      /\ UNCHANGED <<session_counter, s_tree_id, kind>>
  BY <1>2 DEF ServiceFails
<1> QED BY <1>1, <1>2, <1>3, StepSame

LEMMA CullStep ==
    ASSUME IInv, NEW c \in Conns, Cull(c)
    PROVE  IInv'
<1>1. PICK k2 : k2 = [NoConn EXCEPT !.state = "gone"]
  OBVIOUS
<1>2. /\ conn' = [conn EXCEPT ![c] = k2] /\ client' = [client EXCEPT ![c] = NoClient]
      /\ UNCHANGED <<session_counter, s_tree_id, kind>>
  BY <1>1 DEF Cull
<1>3. ConnInv(k2, NoClient, s_tree_id)
  BY <1>1, GoneConn
<1> QED BY <1>2, <1>3, StepSame

LEMMA AcceptFailsStep ==
    ASSUME IInv, AcceptFails
    PROVE  IInv'
<1>1. /\ conn' = [c \in Conns |-> [NoConn EXCEPT !.state = "gone"]]
      /\ client' = [c \in Conns |-> NoClient]
      /\ UNCHANGED <<session_counter, s_tree_id, kind>>
  BY DEF AcceptFails
<1>2. PICK k2 : k2 = [NoConn EXCEPT !.state = "gone"]
  OBVIOUS
<1>3. ConnInv(k2, NoClient, s_tree_id)
  BY <1>2, GoneConn
<1>4. /\ conn' \in [Conns -> ConnType] /\ client' \in [Conns -> ClientType]
      /\ \A c \in Conns : conn'[c] = k2 /\ client'[c] = NoClient
  <2>1. k2 \in ConnType /\ NoClient \in ClientType
    BY <1>3 DEF ConnInv
  <2> QED BY <1>1, <1>2, <2>1
<1>5. \A c \in Conns : ConnInv(conn'[c], client'[c], s_tree_id')
  BY <1>1, <1>3, <1>4
<1> QED BY <1>1, <1>4, <1>5 DEF IInv

LEMMA AnswerLaterStep ==
    ASSUME IInv, NEW c \in Conns, NEW r \in conn[c].deferred, NEW st \in {"ok", "error"},
           AnswerLater(c, r, st)
    PROVE  IInv'
<1> DEFINE k == Undue(conn[c], r)
<1>1. /\ conn[c] \in ConnType /\ client[c] \in ClientType /\ s_tree_id \in Nat \ {0}
      /\ session_counter \in Nat /\ client = [client EXCEPT ![c] = client[c]]
      /\ conn[c].astray => conn[c].full
      /\ conn[c].state = "open" => OpenInv(conn[c], client[c], s_tree_id)
  BY ConnFacts
<1>2. /\ conn[c].state = "open" /\ client[c].seen = Len(conn[c].out)
      /\ client' = client /\ session_counter' = session_counter /\ kind' = kind
  BY DEF AnswerLater, UpToDate
<1>3. CASE r.cmd = "TREE_CONNECT" /\ st = "ok"
  <2>1. PICK k2 : k2 = ConnectTree(k, r.mid)
    OBVIOUS
  <2>2. conn' = [conn EXCEPT ![c] = k2] /\ s_tree_id' = s_tree_id + 1
    BY <1>3, <2>1 DEF AnswerLater, Undue
  <2> HIDE DEF k
  <2>3. Good(conn[c], k2, client[c], s_tree_id + 1)
    BY <1>1, <1>2, <1>3, <2>1, AnswerNewTree DEF k
  <2>4. PICK s2 : s2 = s_tree_id + 1
    OBVIOUS
  <2>5. ConnInv(k2, client[c], s2)
    BY <1>1, <1>2, <2>3, <2>4, GoodConn
  <2>6. /\ s2 \in Nat /\ s_tree_id <= s2 /\ s_tree_id' = s2
        /\ client' = [client EXCEPT ![c] = client[c]] /\ session_counter' \in Nat
    BY <1>1, <1>2, <2>2, <2>4
  <2> QED BY <1>2, <2>2, <2>5, <2>6, StepInv
<1>4. CASE ~(r.cmd = "TREE_CONNECT" /\ st = "ok")
  <2>1. PICK k2 : k2 = smb2_queue_pdu(k, NewPdu(k, r.mid, r.cmd, st))
    OBVIOUS
  <2>2. conn' = [conn EXCEPT ![c] = k2] /\ s_tree_id' = s_tree_id
    <3>1. conn' = [conn EXCEPT ![c] = k2]
      BY <1>4, <2>1 DEF AnswerLater, Undue
    <3>2. s_tree_id' = s_tree_id + 0
      BY <1>4 DEF AnswerLater
    <3> QED BY <1>1, <3>1, <3>2
  <2> HIDE DEF k
  <2>3. Good(conn[c], k2, client[c], s_tree_id)
    BY <1>1, <1>2, <1>4, <2>1, AnswerDue DEF k
  <2>4. ConnInv(k2, client[c], s_tree_id)
    BY <1>1, <1>2, <2>3, GoodConn
  <2>5. client' = [client EXCEPT ![c] = client[c]] /\ UNCHANGED <<session_counter, s_tree_id, kind>>
    BY <1>1, <1>2, <2>2
  <2> QED BY <2>2, <2>4, <2>5, StepSame
<1> QED BY <1>3, <1>4

LEMMA AnswerPendingStep ==
    ASSUME IInv, NEW c \in Conns, NEW r \in conn[c].deferred, AnswerPending(c, r)
    PROVE  IInv'
<1>1. /\ conn[c] \in ConnType /\ client[c] \in ClientType /\ s_tree_id \in Nat \ {0}
      /\ client = [client EXCEPT ![c] = client[c]]
      /\ conn[c].astray => conn[c].full
      /\ conn[c].state = "open" => OpenInv(conn[c], client[c], s_tree_id)
  BY ConnFacts
<1>2. PICK k2, i : /\ k2 = smb2_queue_pdu(conn[c], NewPdu(conn[c], r.mid, r.cmd, "pending"))
                   /\ i = smb2_find_pdu(conn[c], r.mid)
  OBVIOUS
<1>3. /\ conn[c].state = "open" /\ client[c].seen = Len(conn[c].out) /\ r.cmd # "TREE_CONNECT"
      /\ i # 0 /\ conn[c].waitqueue[i].cmd = r.cmd /\ conn[c].waitqueue[i].async = 0
      /\ conn' = [conn EXCEPT ![c] = k2] /\ client' = client
      /\ UNCHANGED <<session_counter, s_tree_id, kind>>
  BY <1>2 DEF AnswerPending, UpToDate
<1>4. Good(conn[c], k2, client[c], s_tree_id)
  BY <1>1, <1>2, <1>3, AnswerInterim
<1>5. ConnInv(k2, client[c], s_tree_id)
  BY <1>1, <1>3, <1>4, GoodConn
<1>6. client' = [client EXCEPT ![c] = client[c]]
  BY <1>1, <1>3
<1> QED BY <1>3, <1>5, <1>6, StepSame

LEMMA BreakOplockStep ==
    ASSUME IInv, NEW c \in Conns, BreakOplock(c)
    PROVE  IInv'
<1>1. /\ conn[c] \in ConnType /\ client[c] \in ClientType /\ s_tree_id \in Nat \ {0}
      /\ client = [client EXCEPT ![c] = client[c]]
      /\ conn[c].astray => conn[c].full
      /\ conn[c].state = "open" => OpenInv(conn[c], client[c], s_tree_id)
  BY ConnFacts
<1>2. PICK k2 : k2 = smb2_queue_pdu(conn[c], NewPdu(conn[c], BREAK_ID, "OPLOCK_BREAK", "ok"))
  OBVIOUS
<1>3. /\ conn[c].state = "open" /\ client[c].seen = Len(conn[c].out) /\ client[c].phase = "in"
      /\ conn' = [conn EXCEPT ![c] = k2] /\ client' = client
      /\ UNCHANGED <<session_counter, s_tree_id, kind>>
  BY <1>2 DEF BreakOplock, UpToDate
<1>4. Good(conn[c], k2, client[c], s_tree_id)
  BY <1>1, <1>2, <1>3, NotifyBreak
<1>5. ConnInv(k2, client[c], s_tree_id)
  BY <1>1, <1>3, <1>4, GoodConn
<1>6. client' = [client EXCEPT ![c] = client[c]]
  BY <1>1, <1>3
<1> QED BY <1>3, <1>5, <1>6, StepSame

(* The client after it has sent r.                                         *)
LEMMA SendingFields ==
    ASSUME NEW u \in ClientType, NEW r \in ReqType, NEW u2, u2 = Sending(u, r)
    PROVE  /\ u2 \in ClientType /\ Sent(u, u2, r) /\ u2.phase = u.phase /\ u2.trees = u.trees
           /\ u2.next = IF r.cmd = "CANCEL" THEN u.next ELSE u.next + 1
<1>1. u.sent \in Seq(ReqType) /\ u.next \in Nat /\ u.logins \in Nat /\ u.requests \in Nat
  BY DEF ClientType
<1>2. PICK q, n, l, m : /\ q = Append(u.sent, r)
                        /\ n = IF r.cmd = "CANCEL" THEN u.next ELSE u.next + 1
                        /\ l = IF r.cmd \in Login THEN u.logins + 1 ELSE u.logins
                        /\ m = IF r.cmd \in Login THEN u.requests ELSE u.requests + 1
  OBVIOUS
<1>3. q \in Seq(ReqType) /\ n \in Nat /\ l \in Nat /\ m \in Nat
  BY <1>1, <1>2, AppendIndex
<1>4. u2 = [u EXCEPT !.sent = q, !.next = n, !.logins = l, !.requests = m]
  BY <1>2 DEF Sending
<1>5. /\ u2 \in ClientType /\ u2.sent = q /\ u2.next = n /\ u2.phase = u.phase
      /\ u2.trees = u.trees /\ u2.got = u.got /\ u2.seen = u.seen
  BY <1>3, <1>4 DEF ClientType
<1> QED BY <1>2, <1>5 DEF Sent

(* A client that has changed, on an open connection.                       *)
LEMMA ClientStep ==
    ASSUME IInv, NEW c \in Conns, conn[c].state = "open", NEW u2 \in ClientType,
           client' = [client EXCEPT ![c] = u2], OpenInv(conn[c], u2, s_tree_id),
           UNCHANGED <<conn, session_counter, s_tree_id, kind>>
    PROVE  IInv'
<1>1. /\ conn[c] \in ConnType /\ conn = [conn EXCEPT ![c] = conn[c]]
      /\ conn[c].astray => conn[c].full
  BY ConnFacts
<1>2. ConnInv(conn[c], u2, s_tree_id)
  BY <1>1 DEF ConnInv
<1>3. conn' = [conn EXCEPT ![c] = conn[c]] /\ UNCHANGED <<session_counter, s_tree_id, kind>>
  BY <1>1
<1> QED BY <1>2, <1>3, StepSame

(* When everything is answered, everything has been read.                  *)
LEMMA QuietRead ==
    ASSUME NEW k \in ConnType, NEW u \in ClientType, NEW s, OpenInv(k, u, s),
           u.seen = Len(k.out), u.phase # "in",
           \A r \in ToSet(u.sent) : \E o \in 1..u.seen : k.out[o].mid = r.mid
    PROVE  u.got = Len(u.sent)
<1> DEFINE n == Len(u.sent)
<1>1. u.sent \in Seq(ReqType) /\ u.got \in Nat /\ k.out \in Seq(RepType)
  BY DEF ClientType, ConnType
<1>2. /\ n \in Nat /\ DOMAIN u.sent = 1..n /\ Len(k.out) \in Nat /\ DOMAIN k.out = 1..Len(k.out)
      /\ (u.sent = <<>>) <=> (n = 0)
  BY <1>1, SeqElements
<1>3. /\ SentSound(u.sent, u.got, u.next) /\ StageSound(k, u)
      /\ AnswerSound(k.out, u.sent, u.got)
  BY DEF OpenInv, Core
<1>4. Ahead(k, u) = u.phase
  BY <1>2 DEF Ahead
<1>5. CASE n = 0
  BY <1>1, <1>2, <1>3, <1>5 DEF SentSound
<1>6. CASE n # 0
  <2>1. n \in DOMAIN u.sent /\ u.sent[n].cmd # "CANCEL"
    BY <1>2, <1>3, <1>4, <1>6 DEF StageSound
  <2>2. u.sent[n] \in ToSet(u.sent)
    BY <2>1 DEF ToSet
  <2>3. PICK o \in DOMAIN k.out : k.out[o].mid = u.sent[n].mid
    BY <1>2, <2>2
  <2>4. u.sent[n].mid # BREAK_ID
    <3>1. u.sent[n] \in ReqType
      BY <1>1, <2>1, ElementOfSeq, SeqElements
    <3> QED BY <3>1 DEF ReqType, BREAK_ID
  <2>5. PICK i \in 1..u.got : IsRequest(u.sent, i, u.sent[n].mid)
    BY <1>3, <2>3, <2>4 DEF AnswerSound
  <2>6. u.got <= n
    BY <1>3 DEF SentSound
  <2>7. i \in DOMAIN u.sent
    BY <1>1, <1>2, <2>6
  <2>8. n = i
    BY <1>3, <2>1, <2>5, <2>7 DEF SentSound
  <2> QED BY <1>1, <1>2, <2>6, <2>8
<1> QED BY <1>5, <1>6

(* A message to log in.                                                    *)
LEMMA SendHello ==
    ASSUME NEW k \in ConnType, NEW u \in ClientType, NEW s \in Nat \ {0}, OpenInv(k, u, s),
           u.seen = Len(k.out), u.got = Len(u.sent), NEW r \in ReqType,
           r.mid = u.next, r.async = 0, r.tree = 0, NEW u2, u2 = Sending(u, r),
           \/ /\ u.phase = "start" /\ r.cmd = "NEGOTIATE" /\ r.msg \in Hellos
              /\ u.next # 0 => r.msg = "smb2"
           \/ u.phase = "negotiated" /\ r.cmd = "SESSION_SETUP" /\ r.msg = "negotiate"
           \/ u.phase = "challenged" /\ r.cmd = "SESSION_SETUP" /\ r.msg = "authenticate"
    PROVE  u2 \in ClientType /\ OpenInv(k, u2, s)
<1> DEFINE n == Len(u.sent)
<1>1. /\ u2 \in ClientType /\ Sent(u, u2, r) /\ u2.phase = u.phase
      /\ u2.next = IF r.cmd = "CANCEL" THEN u.next ELSE u.next + 1
  BY SendingFields
<1>2. /\ n \in Nat /\ u.got = n /\ Len(u2.sent) = n + 1 /\ u2.sent[n + 1] = r
  BY <1>1, SentIndex
<1>3. u.next \in Nat /\ k.out \in Seq(RepType)
  BY DEF ClientType, ConnType
<1>4. Len(k.out) \in Nat
  BY <1>3, SeqElements
<1>5. StageSound(k, u)
  BY DEF OpenInv
<1>6. ExpectSound(k.expect, u.phase, u.sent, u.got)
  BY <1>4, <1>5 DEF StageSound, Ahead
<1>7. /\ u.phase = "start" => k.expect = "NEGOTIATE"
      /\ u.phase \in {"negotiated", "challenged"} => k.expect = "SESSION_SETUP"
  BY <1>2, <1>6 DEF ExpectSound
<1>8. ExpectSound(k.expect, u2.phase, u2.sent, u.got)
  BY <1>1, <1>7 DEF ExpectSound
<1>9. UnreadSound(k.expect, u2.phase, u2.sent, u.got)
  <2> SUFFICES ASSUME NEW i \in (u.got + 1)..Len(u2.sent)
               PROVE  \/ /\ k.expect = "NEGOTIATE" /\ u2.phase = "start" /\ i = u.got + 1
                         /\ i = Len(u2.sent) /\ u2.sent[i].cmd = "NEGOTIATE"
                         /\ u2.sent[i].msg \in Hellos
                      \/ /\ k.expect = "SESSION_SETUP" /\ i = u.got + 1 /\ i = Len(u2.sent)
                         /\ u2.sent[i].cmd = "SESSION_SETUP"
                         /\ \/ u2.sent[i].msg = "negotiate" /\ u2.phase = "negotiated"
                            \/ u2.sent[i].msg = "authenticate" /\ u2.phase = "challenged"
    BY DEF UnreadSound
  <2>1. i = n + 1
    BY <1>2
  <2>2. i = u.got + 1 /\ i = Len(u2.sent) /\ u2.sent[i] = r
    BY <1>2, <2>1
  <2> QED BY <1>1, <1>7, <2>2
<1>10. /\ r.msg = "smb1" => k.message_id = 0
       /\ u.next = 0 => u.phase = "start"
  BY <1>5 DEF StageSound, Hellos
<1>11. r.cmd # "CANCEL" /\ u2.next = u.next + 1 /\ u2.next # 0
  BY <1>1, <1>3
<1>12. Numbered(u, r, u2.next)
  BY <1>3, <1>10, <1>11 DEF Numbered
<1>13. r.cmd # "TREE_DISCONNECT" /\ r.cmd \in NoTree /\ r.tree < s
  BY DEF NoTree
<1> QED BY <1>1, <1>8, <1>9, <1>10, <1>11, <1>12, <1>13, SendStep

LEMMA RequestType ==
    ASSUME NEW c, client[c] \in ClientType, NEW cmd \in Cmds,
           NEW msg \in Hellos \cup Tokens \cup {NULL}, NEW tree \in Nat,
           NEW r, r = Request(c, cmd, msg, tree)
    PROVE  /\ r \in ReqType /\ r.mid = client[c].next /\ r.cmd = cmd /\ r.msg = msg
           /\ r.tree = tree /\ r.async = 0
<1>1. client[c].next \in Nat
  BY DEF ClientType
<1> QED BY <1>1 DEF Request, ReqType

LEMMA RequestNull ==
    ASSUME NEW c, client[c] \in ClientType, NEW cmd \in Cmds, NEW tree \in Nat,
           NEW r, r = Request(c, cmd, NULL, tree)
    PROVE  /\ r \in ReqType /\ r.mid = client[c].next /\ r.cmd = cmd /\ r.msg = NULL
           /\ r.tree = tree /\ r.async = 0
<1>1. client[c].next \in Nat
  BY DEF ClientType
<1> QED BY <1>1 DEF Request, ReqType

LEMMA SendLoginStep ==
    ASSUME IInv, NEW c \in Conns, SendLogin(c)
    PROVE  IInv'
<1>1. /\ conn[c] \in ConnType /\ client[c] \in ClientType /\ s_tree_id \in Nat \ {0}
      /\ conn[c].state = "open" => OpenInv(conn[c], client[c], s_tree_id)
  BY ConnFacts
<1>2. /\ UpToDate(c) /\ \A r \in ToSet(client[c].sent) : Answered(c, r.mid)
  BY DEF SendLogin, Quiet
<1>3. PICK cmd \in Cmds, msg \in Hellos \cup Tokens \cup {NULL} :
         /\ Send(c, Request(c, cmd, msg, 0))
         /\ \/ /\ client[c].phase = "start" /\ cmd = "NEGOTIATE" /\ msg \in Hellos
               /\ client[c].next # 0 => msg = "smb2"
            \/ client[c].phase = "negotiated" /\ cmd = "SESSION_SETUP" /\ msg = "negotiate"
            \/ client[c].phase = "challenged" /\ cmd = "SESSION_SETUP" /\ msg = "authenticate"
  <2>1. "NEGOTIATE" \in Cmds /\ "SESSION_SETUP" \in Cmds
    BY DEF Cmds, Login
  <2>2. CASE /\ client[c].phase = "start"
             /\ \E msg \in {"smb2"} \cup (IF client[c].next = 0 THEN {"smb1", "empty"} ELSE {}) :
                   Send(c, Request(c, "NEGOTIATE", msg, 0))
    <3>1. PICK msg \in {"smb2"} \cup (IF client[c].next = 0 THEN {"smb1", "empty"} ELSE {}) :
             Send(c, Request(c, "NEGOTIATE", msg, 0))
      BY <2>2
    <3>2. msg \in Hellos /\ (client[c].next # 0 => msg = "smb2")
      BY DEF Hellos
    <3> QED BY <2>1, <2>2, <3>1, <3>2
  <2>3. CASE client[c].phase = "negotiated" /\ Send(c, Request(c, "SESSION_SETUP", "negotiate", 0))
    BY <2>1, <2>3 DEF Tokens
  <2>4. CASE client[c].phase = "challenged"
             /\ Send(c, Request(c, "SESSION_SETUP", "authenticate", 0))
    BY <2>1, <2>4 DEF Tokens
  <2> QED BY <2>2, <2>3, <2>4 DEF SendLogin
<1>4. PICK r : r = Request(c, cmd, msg, 0)
  OBVIOUS
<1>5. /\ r \in ReqType /\ r.mid = client[c].next /\ r.cmd = cmd /\ r.msg = msg
      /\ r.tree = 0 /\ r.async = 0
  BY <1>1, <1>4, RequestType
<1>6. /\ conn[c].state = "open" /\ client' = [client EXCEPT ![c] = Sending(client[c], r)]
      /\ UNCHANGED <<conn, session_counter, s_tree_id, kind>>
  BY <1>3, <1>4 DEF Send, MaySend
<1>7. client[c].seen = Len(conn[c].out) /\ client[c].phase # "in"
  BY <1>2, <1>3 DEF UpToDate
<1>8. client[c].got = Len(client[c].sent)
  BY <1>1, <1>2, <1>6, <1>7, QuietRead DEF Answered
<1>9. PICK u2 : u2 = Sending(client[c], r)
  OBVIOUS
<1>10. u2 \in ClientType /\ OpenInv(conn[c], u2, s_tree_id)
  BY <1>1, <1>3, <1>5, <1>6, <1>7, <1>8, <1>9, SendHello
<1> QED BY <1>6, <1>9, <1>10, ClientStep

(* A request of a client that is logged in.                                *)
LEMMA SendHandled ==
    ASSUME NEW k \in ConnType, NEW u \in ClientType, NEW s \in Nat \ {0}, OpenInv(k, u, s),
           u.seen = Len(k.out), u.phase = "in", NEW r \in ReqType, NEW u2 \in ClientType,
           Sent(u, u2, r), r.cmd \in Handled, r.msg = NULL,
           \/ r.cmd # "CANCEL" /\ r.mid = u.next /\ r.async = 0 /\ u2.next = u.next + 1
           \/ /\ r.cmd = "CANCEL" /\ r.mid # 0 /\ u2.next = u.next
              /\ \E j \in DOMAIN u.sent : IsRequest(u.sent, j, r.mid) /\ u.sent[j].tree = r.tree,
           \/ r.cmd # "LOGOFF" /\ u2.phase = "in"
           \/ r.cmd = "LOGOFF" /\ u2.phase = "negotiated",
           r.tree < s, r.cmd = "TREE_DISCONNECT" => r.tree \notin u2.trees,
           r.cmd \notin NoTree \cup {"CANCEL"} => r.tree \in u.trees
    PROVE  OpenInv(k, u2, s)
<1>1. /\ ExpectSound(k.expect, u2.phase, u2.sent, u.got)
      /\ UnreadSound(k.expect, u2.phase, u2.sent, u.got)
      /\ u.next # 0 /\ r.msg # "smb1"
  BY SendIn
<1>2. u.next \in Nat
  BY DEF ClientType
<1>3. u2.next # 0 /\ (u2.phase # "in" => r.cmd # "CANCEL")
  BY <1>1, <1>2
<1>4. Numbered(u, r, u2.next)
  BY <1>1 DEF Numbered
<1> QED BY <1>1, <1>3, <1>4, SendStep

LEMMA SendFacts ==
    ASSUME IInv, NEW c \in Conns, NEW cmd, MaySend(c, cmd)
    PROVE  /\ conn[c] \in ConnType /\ client[c] \in ClientType /\ s_tree_id \in Nat \ {0}
           /\ conn[c].state = "open" /\ OpenInv(conn[c], client[c], s_tree_id)
           /\ client[c].seen = Len(conn[c].out)
           /\ \A t \in client[c].trees : t \in Nat /\ t < s_tree_id
<1>1. /\ conn[c] \in ConnType /\ client[c] \in ClientType /\ s_tree_id \in Nat \ {0}
      /\ conn[c].state = "open" => OpenInv(conn[c], client[c], s_tree_id)
  BY ConnFacts
<1>2. conn[c].state = "open" /\ client[c].seen = Len(conn[c].out)
  BY DEF MaySend, UpToDate
<1>3. client[c].trees \in SUBSET Nat
  BY <1>1 DEF ClientType
<1>4. \A t \in client[c].trees : t \in Nat /\ t < s_tree_id
  BY <1>1, <1>2, <1>3 DEF OpenInv, TreeIdsSound
<1> QED BY <1>1, <1>2, <1>4

LEMMA SendRequestStep ==
    ASSUME IInv, NEW c \in Conns, SendRequest(c)
    PROVE  IInv'
<1>1. PICK cmd \in Handled \ {"CANCEL", "LOGOFF", "TREE_DISCONNECT"}, tree \in Nat :
         /\ Send(c, Request(c, cmd, NULL, tree))
         /\ tree \in client[c].trees \/ (tree = 0 /\ cmd \in NoTree)
  <2>1. "TREE_CONNECT" \in Handled \ {"CANCEL", "LOGOFF", "TREE_DISCONNECT"}
        /\ "TREE_CONNECT" \in NoTree
    BY DEF Handled, NoTree
  <2>2. kind \in Handled \ {"CANCEL", "LOGOFF", "TREE_DISCONNECT"}
    BY ServerAssumption DEF IInv, Handled
  <2>3. CASE Send(c, Request(c, "TREE_CONNECT", NULL, 0))
    BY <2>1, <2>3
  <2>4. CASE \E t \in IF kind = "ECHO" THEN {0} ELSE client[c].trees :
                Send(c, Request(c, kind, NULL, t))
    <3>1. PICK t \in IF kind = "ECHO" THEN {0} ELSE client[c].trees :
                Send(c, Request(c, kind, NULL, t))
      BY <2>4
    <3>2. t \in client[c].trees \/ (t = 0 /\ kind = "ECHO")
      <4>1. CASE kind = "ECHO"
        BY <3>1, <4>1
      <4>2. CASE kind # "ECHO"
        BY <3>1, <4>2
      <4> QED BY <4>1, <4>2
    <3>3. "ECHO" \in NoTree /\ client[c].trees \in SUBSET Nat
      BY ConnFacts DEF NoTree, ClientType
    <3> QED BY <2>2, <3>1, <3>2, <3>3
  <2> QED BY <2>3, <2>4 DEF SendRequest
<1>2. PICK r : r = Request(c, cmd, NULL, tree)
  OBVIOUS
<1>3. /\ MaySend(c, r.cmd) /\ client' = [client EXCEPT ![c] = Sending(client[c], r)]
      /\ UNCHANGED <<conn, session_counter, s_tree_id, kind>> /\ client[c].phase = "in"
  BY <1>1, <1>2 DEF Send, SendRequest
<1>4. /\ conn[c] \in ConnType /\ client[c] \in ClientType /\ s_tree_id \in Nat \ {0}
      /\ conn[c].state = "open" /\ OpenInv(conn[c], client[c], s_tree_id)
      /\ client[c].seen = Len(conn[c].out)
      /\ \A t \in client[c].trees : t \in Nat /\ t < s_tree_id
  BY <1>3, SendFacts
<1>5. tree \in Nat /\ tree < s_tree_id
  BY <1>1, <1>4
<1>6. cmd \in Cmds
  BY DEF Cmds
<1>7. /\ r \in ReqType /\ r.mid = client[c].next /\ r.cmd = cmd /\ r.msg = NULL
      /\ r.tree = tree /\ r.async = 0
  BY <1>2, <1>4, <1>5, <1>6, RequestNull
<1>8. PICK u2 : u2 = Sending(client[c], r)
  OBVIOUS
<1>9. /\ u2 \in ClientType /\ Sent(client[c], u2, r) /\ u2.phase = client[c].phase
      /\ u2.next = IF r.cmd = "CANCEL" THEN client[c].next ELSE client[c].next + 1
  BY <1>4, <1>7, <1>8, SendingFields
<1>10. OpenInv(conn[c], u2, s_tree_id)
  BY <1>1, <1>3, <1>4, <1>5, <1>7, <1>9, SendHandled
<1> QED BY <1>3, <1>4, <1>8, <1>9, <1>10, ClientStep

LEMMA SendTreeDisconnectStep ==
    ASSUME IInv, NEW c \in Conns, NEW t \in client[c].trees, SendTreeDisconnect(c, t)
    PROVE  IInv'
<1>1. PICK r, u1, u2 : /\ r = Request(c, "TREE_DISCONNECT", NULL, t) /\ u1 = Sending(client[c], r)
                       /\ u2 = [u1 EXCEPT !.trees = @ \ {t}]
  OBVIOUS
<1>2. /\ MaySend(c, "TREE_DISCONNECT") /\ client' = [client EXCEPT ![c] = u2]
      /\ UNCHANGED <<conn, session_counter, s_tree_id, kind>> /\ client[c].phase = "in"
  BY <1>1 DEF SendTreeDisconnect
<1>3. /\ conn[c] \in ConnType /\ client[c] \in ClientType /\ s_tree_id \in Nat \ {0}
      /\ conn[c].state = "open" /\ OpenInv(conn[c], client[c], s_tree_id)
      /\ client[c].seen = Len(conn[c].out) /\ t \in Nat /\ t < s_tree_id
  BY <1>2, SendFacts
<1>4. "TREE_DISCONNECT" \in Cmds
      /\ "TREE_DISCONNECT" \in Handled
  BY DEF Cmds, Handled
<1>5. /\ r \in ReqType /\ r.mid = client[c].next /\ r.cmd = "TREE_DISCONNECT" /\ r.msg = NULL
      /\ r.tree = t /\ r.async = 0
  BY <1>1, <1>3, <1>4, RequestNull
<1>6. /\ u1 \in ClientType /\ Sent(client[c], u1, r) /\ u1.phase = client[c].phase
      /\ u1.next = IF r.cmd = "CANCEL" THEN client[c].next ELSE client[c].next + 1
  BY <1>1, <1>3, <1>5, SendingFields
<1>7. /\ u2 \in ClientType /\ u2.trees = u1.trees \ {t} /\ u2.phase = u1.phase /\ u2.next = u1.next
      /\ u2.sent = u1.sent /\ u2.got = u1.got /\ u2.seen = u1.seen
  BY <1>1, <1>6 DEF ClientType
<1>8. Sent(client[c], u2, r) /\ r.tree \notin u2.trees
  BY <1>5, <1>6, <1>7 DEF Sent
<1>9. u2.next = client[c].next + 1 /\ u2.phase = "in"
  BY <1>2, <1>5, <1>6, <1>7
<1>10. OpenInv(conn[c], u2, s_tree_id)
  BY <1>2, <1>3, <1>4, <1>5, <1>7, <1>8, <1>9, SendHandled
<1> QED BY <1>2, <1>3, <1>7, <1>10, ClientStep

LEMMA SendLogoffStep ==
    ASSUME IInv, NEW c \in Conns, SendLogoff(c)
    PROVE  IInv'
<1>1. PICK r, u1, u2 : /\ r = Request(c, "LOGOFF", NULL, 0) /\ u1 = Sending(client[c], r)
                       /\ u2 = [u1 EXCEPT !.trees = {}, !.phase = "negotiated"]
  OBVIOUS
<1>2. /\ MaySend(c, "LOGOFF") /\ client' = [client EXCEPT ![c] = u2]
      /\ UNCHANGED <<conn, session_counter, s_tree_id, kind>> /\ client[c].phase = "in"
  BY <1>1 DEF SendLogoff
<1>3. /\ conn[c] \in ConnType /\ client[c] \in ClientType /\ s_tree_id \in Nat \ {0}
      /\ conn[c].state = "open" /\ OpenInv(conn[c], client[c], s_tree_id)
      /\ client[c].seen = Len(conn[c].out)
  BY <1>2, SendFacts
<1>4. "LOGOFF" \in Cmds /\ "LOGOFF" \in Handled
      /\ "LOGOFF" \in NoTree
  BY DEF Cmds, Handled, NoTree
<1>5. /\ r \in ReqType /\ r.mid = client[c].next /\ r.cmd = "LOGOFF" /\ r.msg = NULL
      /\ r.tree = 0 /\ r.async = 0
  BY <1>1, <1>3, <1>4, RequestNull
<1>6. /\ u1 \in ClientType /\ Sent(client[c], u1, r)
      /\ u1.next = IF r.cmd = "CANCEL" THEN client[c].next ELSE client[c].next + 1
  BY <1>1, <1>3, <1>5, SendingFields
<1>7. /\ u2 \in ClientType /\ u2.trees = {} /\ u2.phase = "negotiated" /\ u2.next = u1.next
      /\ u2.sent = u1.sent /\ u2.got = u1.got /\ u2.seen = u1.seen
  BY <1>1, <1>6 DEF ClientType
<1>8. Sent(client[c], u2, r)
  BY <1>6, <1>7 DEF Sent
<1>9. u2.next = client[c].next + 1 /\ r.tree < s_tree_id
  BY <1>3, <1>5, <1>6, <1>7
<1>10. OpenInv(conn[c], u2, s_tree_id)
  BY <1>2, <1>3, <1>4, <1>5, <1>7, <1>8, <1>9, SendHandled
<1> QED BY <1>2, <1>3, <1>7, <1>10, ClientStep

LEMMA SendCancelStep ==
    ASSUME IInv, NEW c \in Conns, NEW p \in ToSet(client[c].sent), SendCancel(c, p)
    PROVE  IInv'
<1>1. PICK n \in 0..conn[c].async_id :
         Send(c, [Request(c, "CANCEL", NULL, p.tree) EXCEPT !.mid = p.mid, !.async = n])
  BY DEF SendCancel
<1>2. PICK r, u2 :
         /\ r = [Request(c, "CANCEL", NULL, p.tree) EXCEPT !.mid = p.mid, !.async = n]
         /\ u2 = Sending(client[c], r)
  OBVIOUS
<1>3. /\ MaySend(c, r.cmd) /\ client' = [client EXCEPT ![c] = u2]
      /\ UNCHANGED <<conn, session_counter, s_tree_id, kind>> /\ client[c].phase = "in"
      /\ p.cmd \notin Login \cup {"CANCEL"}
  BY <1>1, <1>2 DEF Send, SendCancel
<1>4. /\ conn[c] \in ConnType /\ client[c] \in ClientType /\ s_tree_id \in Nat \ {0}
      /\ conn[c].state = "open" /\ OpenInv(conn[c], client[c], s_tree_id)
      /\ client[c].seen = Len(conn[c].out)
  BY <1>3, SendFacts
<1>5. PICK j \in DOMAIN client[c].sent : client[c].sent[j] = p
  BY DEF ToSet
<1>6. p \in ReqType
  <2>1. client[c].sent \in Seq(ReqType)
    BY <1>4 DEF ClientType
  <2> QED BY <1>5, <2>1, ElementOfSeq, SeqElements
<1>7. p.mid \in Nat /\ p.tree \in Nat /\ n \in Nat /\ client[c].next \in Nat
  BY <1>4, <1>6 DEF ReqType, ConnType, ClientType
<1>8. r = [mid |-> p.mid, cmd |-> "CANCEL", msg |-> NULL, tree |-> p.tree, async |-> n]
  <2>1. PICK y : y = [Request(c, "CANCEL", NULL, p.tree) EXCEPT !.mid = p.mid]
    OBVIOUS
  <2>2. y = [mid |-> p.mid, cmd |-> "CANCEL", msg |-> NULL, tree |-> p.tree, async |-> 0]
    BY <2>1 DEF Request
  <2>3. r = [y EXCEPT !.async = n]
    BY <1>2, <2>1
  <2> QED BY <2>2, <2>3
<1>9. "CANCEL" \in Cmds /\ "CANCEL" \in Handled
  BY DEF Cmds, Handled
<1>10. /\ r \in ReqType /\ r.mid = p.mid /\ r.cmd = "CANCEL" /\ r.msg = NULL /\ r.tree = p.tree
  BY <1>7, <1>8, <1>9 DEF ReqType
<1>11. /\ u2 \in ClientType /\ Sent(client[c], u2, r) /\ u2.phase = client[c].phase
       /\ u2.next = IF r.cmd = "CANCEL" THEN client[c].next ELSE client[c].next + 1
  BY <1>2, <1>4, <1>10, SendingFields
<1>12. /\ r.mid # 0 /\ r.tree < s_tree_id
       /\ IsRequest(client[c].sent, j, r.mid) /\ client[c].sent[j].tree = r.tree
  BY <1>3, <1>4, <1>5, <1>10 DEF OpenInv, SentSound, TreeIdsSound, IsRequest, Login
<1>13. OpenInv(conn[c], u2, s_tree_id)
  BY <1>3, <1>4, <1>5, <1>9, <1>10, <1>11, <1>12, SendHandled
<1> QED BY <1>3, <1>4, <1>11, <1>13, ClientStep

(* The client reads the reply it has not seen.                             *)
LEMMA ReadReply ==
    ASSUME NEW k \in ConnType, NEW u \in ClientType, NEW s, OpenInv(k, u, s),
           u.seen < Len(k.out), NEW p, p = k.out[u.seen + 1], NEW T, NEW u2 \in ClientType,
           T = IF p.cmd = "TREE_CONNECT" /\ p.status = "ok" THEN u.trees \cup {p.tree} ELSE u.trees,
           u2.sent = u.sent, u2.got = u.got, u2.next = u.next, u2.seen = u.seen + 1,
           u2.trees = T, u2.phase = PhaseAfter(u.phase, p)
    PROVE  OpenInv(k, u2, s)
<1>1. /\ SentSound(u.sent, u.got, u.next) /\ StageSound(k, u) /\ TreeIdsSound(k, u, s)
      /\ Core(k.waitqueue, k.deferred, k.out, u.sent, u.got, {})
      /\ ~k.full => TreesSound(k, u)
  BY DEF OpenInv
<1>2. k.out \in Seq(RepType) /\ u.seen \in Nat
  BY DEF ConnType, ClientType
<1>3. Len(k.out) \in Nat /\ DOMAIN k.out = 1..Len(k.out)
  BY <1>2, SeqElements
<1>4. u.seen + 1 = Len(k.out) /\ Len(k.out) \in DOMAIN k.out /\ p = k.out[Len(k.out)]
  BY <1>1, <1>2, <1>3 DEF StageSound
<1>5. Ahead(k, u) = PhaseAfter(u.phase, p) /\ Ahead(k, u2) = u2.phase
  BY <1>3, <1>4 DEF Ahead
<1>6. k.out # <<>>
  BY <1>2, <1>4, SeqElements
<1>7. StageSound(k, u2)
  <2>1. u2.seen <= Len(k.out) /\ Len(k.out) <= u2.seen + 1
    BY <1>3, <1>4
  <2>2. u2.next # 0
    BY <1>1, <1>6 DEF StageSound
  <2> QED BY <1>1, <1>5, <2>1, <2>2 DEF StageSound
<1>8. TreeIdsSound(k, u2, s)
  <2>1. \A t \in T : t < s
    BY <1>1, <1>4 DEF TreeIdsSound
  <2> QED BY <1>1, <2>1 DEF TreeIdsSound
<1>9. ASSUME ~k.full PROVE TreesSound(k, u2)
  <2>1. TreesSound(k, u)
    BY <1>1, <1>9
  <2>2. \A t, i : Stays(u, t, i) <=> Stays(u2, t, i)
    BY DEF Stays
  <2>3. \A t \in T : t \in Range(k.trees) /\ Stays(u, t, Len(u.sent))
    BY <1>4, <2>1 DEF TreesSound
  <2>4. ~(u2.seen < Len(k.out))
    BY <1>3, <1>4
  <2>5. \A i \in (u.got + 1)..Len(u.sent) : u.sent[i].cmd \notin NoTree \cup {"CANCEL"} =>
           u.sent[i].tree \in Range(k.trees) /\ Stays(u, u.sent[i].tree, i - 1)
    BY <2>1 DEF TreesSound
  <2> QED BY <2>2, <2>3, <2>4, <2>5 DEF TreesSound
<1> QED BY <1>1, <1>7, <1>8, <1>9 DEF OpenInv

LEMMA ReadStep ==
    ASSUME IInv, NEW c \in Conns, Read(c)
    PROVE  IInv'
<1> DEFINE u == client[c]
           q == conn[c].out[u.seen + 1]
<1>1. /\ conn[c] \in ConnType /\ u \in ClientType /\ s_tree_id \in Nat \ {0}
      /\ conn[c].state = "open" => OpenInv(conn[c], u, s_tree_id)
  BY ConnFacts
<1>2. conn[c].state = "open" /\ u.seen < Len(conn[c].out)
      /\ UNCHANGED <<conn, session_counter, s_tree_id, kind>>
  BY DEF Read
<1>3. OpenInv(conn[c], u, s_tree_id)
  BY <1>1, <1>2
<1>4. u.seen + 1 \in DOMAIN conn[c].out /\ conn[c].out \in Seq(RepType)
  <2>1. conn[c].out \in Seq(RepType) /\ u.seen \in Nat
    BY <1>1 DEF ConnType, ClientType
  <2>2. DOMAIN conn[c].out = 1..Len(conn[c].out) /\ Len(conn[c].out) \in Nat
    BY <2>1, SeqElements
  <2> QED BY <1>2, <2>1, <2>2
<1>5. q.cmd = "SESSION_SETUP" => q.status \in {"more", "ok", "error"}
  BY <1>3, <1>4 DEF OpenInv, StageSound
<1>6. PICK p : p = q
  OBVIOUS
<1>7. PICK T : T = IF p.cmd = "TREE_CONNECT" /\ p.status = "ok" THEN u.trees \cup {p.tree}
                   ELSE u.trees
  OBVIOUS
<1>8. PICK n, ph : n = u.seen + 1 /\ ph = PhaseAfter(u.phase, p)
  OBVIOUS
<1>9. ph = CASE p.cmd = "NEGOTIATE" /\ p.status = "ok" -> "negotiated"
             [] p.cmd = "SESSION_SETUP" ->
                  (CASE p.status = "more" -> "challenged"
                     [] p.status = "ok" -> "in"
                     [] p.status = "error" -> "negotiated")
             [] OTHER -> u.phase
  <2>1. CASE p.cmd = "NEGOTIATE" /\ p.status = "ok"
    BY <1>8, <2>1 DEF PhaseAfter
  <2>2. CASE p.cmd = "SESSION_SETUP" /\ p.status = "more"
    BY <1>8, <2>2 DEF PhaseAfter
  <2>3. CASE p.cmd = "SESSION_SETUP" /\ p.status = "ok"
    BY <1>8, <2>3 DEF PhaseAfter
  <2>4. CASE p.cmd = "SESSION_SETUP" /\ p.status = "error"
    BY <1>8, <2>4 DEF PhaseAfter
  <2>5. CASE p.cmd # "SESSION_SETUP" /\ ~(p.cmd = "NEGOTIATE" /\ p.status = "ok")
    BY <1>8, <2>5 DEF PhaseAfter
  <2> QED BY <1>5, <1>6, <2>1, <2>2, <2>3, <2>4, <2>5
<1>10. client' = [client EXCEPT ![c].seen = n, ![c].trees = T, ![c].phase = ph]
  BY <1>6, <1>7, <1>8, <1>9 DEF Read
<1>11. PICK u2 : u2 = [u EXCEPT !.seen = n, !.trees = T, !.phase = ph]
  OBVIOUS
<1>12. client' = [client EXCEPT ![c] = u2]
  <2>1. client \in [Conns -> ClientType]
    BY DEF IInv
  <2>2. PICK f : f = [client EXCEPT ![c].seen = n]
    OBVIOUS
  <2>3. PICK g : g = [f EXCEPT ![c].trees = T]
    OBVIOUS
  <2>4. client' = [g EXCEPT ![c].phase = ph]
    BY <1>10, <2>2, <2>3
  <2>5. PICK v, w : v = [client[c] EXCEPT !.seen = n] /\ w = [v EXCEPT !.trees = T]
    OBVIOUS
  <2>6. u2 = [w EXCEPT !.phase = ph]
    BY <1>11, <2>5
  <2>7. f = [client EXCEPT ![c] = v] /\ f[c] = v /\ DOMAIN f = Conns
    BY <2>1, <2>2, <2>5
  <2>8. g = [client EXCEPT ![c] = w] /\ g[c] = w /\ DOMAIN g = Conns
    BY <2>1, <2>3, <2>5, <2>7
  <2> QED BY <2>1, <2>4, <2>6, <2>8
<1>13. T \in SUBSET Nat /\ n \in Nat /\ ph \in {"start", "negotiated", "challenged", "in"}
  <2>1. u.trees \in SUBSET Nat /\ u.seen \in Nat /\ u.phase \in {"start", "negotiated", "challenged", "in"}
    BY <1>1 DEF ClientType
  <2>2. p \in RepType
    BY <1>4, <1>6, ElementOfSeq, SeqElements
  <2>3. p.tree \in Nat
    BY <2>2 DEF RepType
  <2>4. T \in SUBSET Nat
    BY <1>7, <2>1, <2>3
  <2>5. ph \in {"start", "negotiated", "challenged", "in"}
    BY <1>8, <2>1 DEF PhaseAfter
  <2> QED BY <1>8, <2>1, <2>4, <2>5
<1> HIDE DEF u
<1>14. /\ u2 \in ClientType /\ u2.sent = u.sent /\ u2.got = u.got /\ u2.next = u.next
       /\ u2.seen = n /\ u2.trees = T /\ u2.phase = ph
  BY <1>1, <1>11, <1>13 DEF ClientType
<1>15. OpenInv(conn[c], u2, s_tree_id)
  BY <1>1, <1>2, <1>3, <1>6, <1>7, <1>8, <1>14, ReadReply
<1> QED BY <1>2, <1>12, <1>14, <1>15, ClientStep

-----------------------------------------------------------------------------
(* A request is read. *)

Waiting(r) == [mid |-> r.mid, cmd |-> r.cmd, tree |-> r.tree, async |-> 0]

(* The connection when the callback of r begins, k1 after its header.      *)
OnQueue(k1, r) ==
    [k1 EXCEPT !.waitqueue = Append(@, [mid |-> r.mid, cmd |-> r.cmd,
                                        tree |-> r.tree, async |-> 0]),
               !.astray = @ \/ (r.cmd \notin NoTree \cup {"CANCEL"}
                                /\ smb2_tree_id(k1) # r.tree)]

Took(k, r) == OnQueue(smb2_decode_header(k, r), r)

HasTaken(k, k2, r) ==
    /\ k2.state = k.state /\ k2.expect = k.expect /\ k2.trees = k.trees /\ k2.full = k.full
    /\ k2.deferred = k.deferred /\ k2.out = k.out /\ k2.message_id = r.mid
    /\ k2.waitqueue = Append(k.waitqueue, Waiting(r))

LEMMA OnQueueFields ==
    ASSUME NEW k1 \in ConnType, CurSound(k1), NEW r \in ReqType, NEW k2, k2 = OnQueue(k1, r)
    PROVE  /\ k2 \in ConnType /\ CurSound(k2)
           /\ k2.state = k1.state /\ k2.expect = k1.expect /\ k2.trees = k1.trees
           /\ k2.full = k1.full /\ k2.deferred = k1.deferred /\ k2.out = k1.out
           /\ k2.message_id = k1.message_id
           /\ k2.waitqueue = Append(k1.waitqueue, Waiting(r))
<1> DEFINE a == k1.astray \/ (r.cmd \notin NoTree \cup {"CANCEL"} /\ smb2_tree_id(k1) # r.tree)
<1>1. PICK q : q = Append(k1.waitqueue, Waiting(r))
  OBVIOUS
<1>2. q \in Seq(WaitType)
  <2>1. Waiting(r) \in WaitType
    BY DEF Waiting, WaitType, ReqType
  <2> QED BY <1>1, <2>1 DEF ConnType
<1>3. k2 = [k1 EXCEPT !.waitqueue = q, !.astray = a]
  BY <1>1 DEF OnQueue, Waiting
<1>4. a \in BOOLEAN
  BY DEF ConnType
<1> HIDE DEF a
<1>5. /\ k2 \in ConnType /\ k2.cur = k1.cur
      /\ k2.state = k1.state /\ k2.expect = k1.expect /\ k2.trees = k1.trees
      /\ k2.full = k1.full /\ k2.deferred = k1.deferred /\ k2.out = k1.out
      /\ k2.message_id = k1.message_id
      /\ k2.waitqueue = q
  BY <1>2, <1>3, <1>4 DEF ConnType
<1>6. CurSound(k2)
  BY <1>5 DEF CurSound
<1> QED BY <1>1, <1>5, <1>6

(* A request of the client that has not been read.                         *)
IsUnread(u, r) == u.got < Len(u.sent) /\ r = u.sent[u.got + 1]

LEMMA UnreadFacts ==
    ASSUME NEW k \in ConnType, NEW u \in ClientType, NEW s, OpenInv(k, u, s),
           NEW r, IsUnread(u, r)
    PROVE  /\ r \in ReqType /\ u.got \in Nat /\ Len(u.sent) \in Nat /\ DOMAIN u.sent = 1..Len(u.sent)
           /\ u.got + 1 \in DOMAIN u.sent /\ u.got + 1 \in (u.got + 1)..Len(u.sent)
           /\ u.next # 0 /\ r.mid \in Nat
           /\ r.mid = 0 => r.cmd = "NEGOTIATE"
           /\ r.cmd # "CANCEL" => r.async = 0
           /\ r.msg = "smb1" => r.mid = 0 /\ k.message_id = 0
<1>1. u.got \in Nat /\ u.sent \in Seq(ReqType)
  BY DEF ClientType
<1>2. /\ Len(u.sent) \in Nat /\ DOMAIN u.sent = 1..Len(u.sent)
      /\ (u.sent = <<>>) <=> (Len(u.sent) = 0)
  BY <1>1, SeqElements
<1>3. u.got < Len(u.sent) /\ r = u.sent[u.got + 1]
  BY DEF IsUnread
<1>4. u.got + 1 \in DOMAIN u.sent /\ u.got + 1 \in (u.got + 1)..Len(u.sent) /\ u.sent # <<>>
  BY <1>1, <1>2, <1>3
<1>5. r \in ReqType
  BY <1>1, <1>3, <1>4, ElementOfSeq
<1>6. /\ r.mid = 0 => r.cmd = "NEGOTIATE"
      /\ r.cmd # "CANCEL" => r.async = 0
      /\ r.msg = "smb1" => r.mid = 0
  BY <1>3, <1>4 DEF OpenInv, SentSound
<1>7. u.next # 0 /\ (r.msg = "smb1" => k.message_id = 0)
  BY <1>3, <1>4 DEF OpenInv, StageSound
<1>8. r.mid \in Nat
  BY <1>5 DEF ReqType
<1> QED BY <1>1, <1>2, <1>4, <1>5, <1>6, <1>7, <1>8

LEMMA HeaderRead ==
    ASSUME NEW k \in ConnType, NEW u \in ClientType, NEW s, OpenInv(k, u, s),
           NEW r, IsUnread(u, r), NEW k1, k1 = smb2_decode_header(k, r)
    PROVE  /\ k1 \in ConnType /\ CurSound(k1) /\ k1.message_id = r.mid
           /\ k1.state = k.state /\ k1.expect = k.expect /\ k1.trees = k.trees
           /\ k1.full = k.full /\ k1.deferred = k.deferred /\ k1.out = k.out
           /\ k1.waitqueue = k.waitqueue /\ k1.astray = k.astray
           /\ ~k.full /\ r.cmd \notin NoTree \cup {"CANCEL"} => smb2_tree_id(k1) = r.tree
<1>1. /\ r \in ReqType /\ r.mid \in Nat /\ u.got + 1 \in (u.got + 1)..Len(u.sent)
      /\ r.cmd # "CANCEL" => r.async = 0
      /\ r.msg = "smb1" => r.mid = 0 /\ k.message_id = 0
  BY UnreadFacts
<1>2. PICK m : m = IF r.msg = "smb1" THEN k.message_id ELSE r.mid
  OBVIOUS
<1>3. m = r.mid
  BY <1>1, <1>2
<1>4. PICK k0 : k0 = [k EXCEPT !.message_id = m]
  OBVIOUS
<1>5. /\ k0 \in ConnType /\ k0.message_id = r.mid /\ k0.cur = k.cur
      /\ k0.state = k.state /\ k0.expect = k.expect /\ k0.trees = k.trees
      /\ k0.full = k.full /\ k0.deferred = k.deferred /\ k0.out = k.out
      /\ k0.waitqueue = k.waitqueue /\ k0.astray = k.astray
  BY <1>1, <1>3, <1>4 DEF ConnType
<1>6. k1 = IF r.cmd \in NoTree \/ r.async # 0 THEN k0 ELSE smb2_select_tree_id(k0, r.tree)
  BY <1>2, <1>4 DEF smb2_decode_header
<1>7. CurSound(k0)
  BY <1>5 DEF CurSound, OpenInv, TreeIdsSound
<1>8. CASE r.cmd \in NoTree \/ r.async # 0
  BY <1>1, <1>5, <1>6, <1>7, <1>8
<1>9. CASE ~(r.cmd \in NoTree \/ r.async # 0)
  <2>1. k1 = smb2_select_tree_id(k0, r.tree)
    BY <1>6, <1>9
  <2>2. /\ k1 \in ConnType /\ CurSound(k1) /\ SameLists(k0, k1)
        /\ k1.trees = k0.trees /\ k1.full = k0.full
        /\ r.tree \in Range(k0.trees) => smb2_tree_id(k1) = r.tree
    BY <1>5, <1>7, <2>1, SelectTree
  <2>3. ASSUME ~k.full, r.cmd \notin NoTree \cup {"CANCEL"}
        PROVE  r.tree \in Range(k.trees)
    BY <1>1, <2>3 DEF OpenInv, TreesSound, IsUnread
  <2> QED BY <1>5, <2>2, <2>3 DEF SameLists
<1> QED BY <1>8, <1>9

(* A handler that runs with another tree selected: there was no room.      *)
LEMMA TookFields ==
    ASSUME NEW k \in ConnType, NEW u \in ClientType, NEW s, OpenInv(k, u, s),
           NEW r, IsUnread(u, r), k.astray => k.full, NEW k2, k2 = Took(k, r)
    PROVE  k2 \in ConnType /\ CurSound(k2) /\ HasTaken(k, k2, r) /\ (k2.astray => k2.full)
<1>1. PICK k1 : k1 = smb2_decode_header(k, r)
  OBVIOUS
<1>2. /\ k1 \in ConnType /\ CurSound(k1) /\ k1.message_id = r.mid
      /\ k1.state = k.state /\ k1.expect = k.expect /\ k1.trees = k.trees
      /\ k1.full = k.full /\ k1.deferred = k.deferred /\ k1.out = k.out
      /\ k1.waitqueue = k.waitqueue /\ k1.astray = k.astray
      /\ ~k.full /\ r.cmd \notin NoTree \cup {"CANCEL"} => smb2_tree_id(k1) = r.tree
  BY <1>1, HeaderRead
<1>3. r \in ReqType
  BY UnreadFacts
<1>4. k2 = OnQueue(k1, r)
  BY <1>1 DEF Took
<1>5. /\ k2 \in ConnType /\ CurSound(k2)
      /\ k2.state = k1.state /\ k2.expect = k1.expect /\ k2.trees = k1.trees
      /\ k2.full = k1.full /\ k2.deferred = k1.deferred /\ k2.out = k1.out
      /\ k2.message_id = k1.message_id
      /\ k2.waitqueue = Append(k1.waitqueue, Waiting(r))
  BY <1>2, <1>3, <1>4, OnQueueFields
<1>6. HasTaken(k, k2, r)
  BY <1>2, <1>5 DEF HasTaken
<1>7. k2.astray = (k1.astray \/ (r.cmd \notin NoTree \cup {"CANCEL"} /\ smb2_tree_id(k1) # r.tree))
  BY <1>2, <1>4 DEF OnQueue, ConnType
<1>8. k2.astray => k2.full
  BY <1>2, <1>5, <1>7
<1> QED BY <1>5, <1>6, <1>8

LEMMA CoreTaken ==
    ASSUME NEW k \in ConnType, NEW u \in ClientType, NEW s, OpenInv(k, u, s),
           NEW r, IsUnread(u, r), NEW k2, HasTaken(k, k2, r), NEW X,
           X = IF r.cmd = "CANCEL" THEN {} ELSE {r.mid}
    PROVE  /\ Core(k2.waitqueue, k2.deferred, k2.out, u.sent, u.got + 1, X)
           /\ \E a \in DOMAIN k2.waitqueue : k2.waitqueue[a].mid = r.mid
<1>1. /\ r \in ReqType /\ u.got < Len(u.sent) /\ r = u.sent[u.got + 1]
  BY UnreadFacts DEF IsUnread
<1>2. PICK w : w = Waiting(r)
  OBVIOUS
<1>3. /\ w \in WaitType /\ w.mid = r.mid /\ w.cmd = r.cmd /\ w.tree = r.tree /\ w.async = 0
  BY <1>1, <1>2 DEF Waiting, WaitType, ReqType
<1>4. /\ k2.waitqueue = Append(k.waitqueue, w) /\ k2.deferred = k.deferred /\ k2.out = k.out
  BY <1>2 DEF HasTaken
<1>5. Lists(k.waitqueue, k.deferred, k.out, u.sent, u.got)
  BY ConnLists
<1>6. Core(k.waitqueue, k.deferred, k.out, u.sent, u.got, {}) /\ SentSound(u.sent, u.got, u.next)
  BY DEF OpenInv
<1>7. Core(Append(k.waitqueue, w), k.deferred, k.out, u.sent, u.got + 1, X)
  <2>1. CASE r.cmd = "CANCEL"
    BY <1>1, <1>3, <1>5, <1>6, <2>1, CoreReadCancel
  <2>2. CASE r.cmd # "CANCEL"
    BY <1>1, <1>3, <1>5, <1>6, <2>2, CoreRead
  <2> QED BY <2>1, <2>2
<1>8. \E a \in DOMAIN k2.waitqueue : k2.waitqueue[a].mid = r.mid
  <2>1. k.waitqueue \in Seq(WaitType)
    BY DEF ConnType
  <2>2. /\ Len(k.waitqueue) + 1 \in DOMAIN Append(k.waitqueue, w)
        /\ Append(k.waitqueue, w)[Len(k.waitqueue) + 1] = w
    BY <1>3, <2>1, AppendIndex
  <2> QED BY <1>3, <1>4, <2>2
<1> QED BY <1>4, <1>7, <1>8

(* What a callback may do to the trees, s being the next id before and s2  *)
(* after it.                                                               *)
StackAllowed(k, k3, r, s2) ==
    /\ \A t \in Range(k3.trees) : t \in Range(k.trees) \/ t < s2
    /\ k.full => k3.full
    /\ ~k3.full =>
           \A t \in Range(k.trees) :
               t \in Range(k3.trees) \/ (r.cmd = "TREE_DISCONNECT" /\ r.tree = t)

NewTree(x) == x.cmd = "TREE_CONNECT" /\ x.status = "ok"

(* What it may reply.                                                      *)
ReplyAllowed(k3, x, s, s2) ==
    /\ SetupStatus(x)
    /\ NewTree(x) => x.tree < s2
    /\ NewTree(x) /\ ~k3.full => x.tree = s /\ s \in Range(k3.trees)

OutAllowed(k, k3, s, s2) ==
    \/ k3.out = k.out
    \/ \E x \in RepType : k3.out = Append(k.out, x) /\ ReplyAllowed(k3, x, s, s2)

HasRead(u, u2) == Kept(u, u2) /\ u2.got = u.got + 1

(* The client and the server agree on where they are after the callback.   *)
StageAllowed(k3, u, u2) ==
    /\ ExpectSound(k3.expect, Ahead(k3, u2), u.sent, u2.got)
    /\ UnreadSound(k3.expect, Ahead(k3, u2), u.sent, u2.got)
    /\ Ahead(k3, u2) # "in" /\ u.sent # <<>> => u.sent[Len(u.sent)].cmd # "CANCEL"

(* Of two requests that have not been read, the second is not of SMB1.     *)
LEMMA LaterUnread ==
    ASSUME NEW k \in ConnType, NEW u \in ClientType, NEW s, OpenInv(k, u, s),
           u.seen = Len(k.out), NEW i \in (u.got + 2)..Len(u.sent)
    PROVE  u.sent[i].msg # "smb1"
<1>1. u.got \in Nat /\ u.sent \in Seq(ReqType)
  BY DEF ClientType
<1>2. Len(u.sent) \in Nat
  BY <1>1, SeqElements
<1>3. i \in (u.got + 1)..Len(u.sent) /\ i # u.got + 1
  BY <1>1, <1>2
<1>4. u.sent[i].msg = NULL
  BY <1>3 DEF OpenInv, StageSound, UnreadSound
<1> QED BY <1>4, ServerAssumption

LEMMA TakenStep ==
    ASSUME NEW k \in ConnType, NEW u \in ClientType, NEW s \in Nat, NEW s2 \in Nat, s <= s2,
           OpenInv(k, u, s), u.seen = Len(k.out), NEW r, IsUnread(u, r),
           NEW u2 \in ClientType, HasRead(u, u2), NEW k3 \in ConnType, CurSound(k3),
           Core(k3.waitqueue, k3.deferred, k3.out, u.sent, u.got + 1, {}),
           StackAllowed(k, k3, r, s2), OutAllowed(k, k3, s, s2), StageAllowed(k3, u, u2)
    PROVE  OpenInv(k3, u2, s2)
<1>1. /\ SentSound(u.sent, u.got, u.next) /\ StageSound(k, u) /\ TreeIdsSound(k, u, s)
      /\ ~k.full => TreesSound(k, u)
  BY DEF OpenInv
<1>2. Kept(u, u2) /\ u2.got = u.got + 1 /\ u2.sent = u.sent /\ u2.next = u.next
  BY DEF HasRead, Kept
<1>3. u.got \in Nat /\ Len(u.sent) \in Nat /\ u.next # 0 /\ u.got < Len(u.sent)
      /\ r = u.sent[u.got + 1]
  BY UnreadFacts DEF IsUnread
<1>4. SentSound(u2.sent, u2.got, u2.next)
  BY <1>1, <1>2, <1>3 DEF SentSound
<1>5. StageSound(k3, u2)
  <2>1. \/ k3.out = k.out
        \/ \E x \in RepType : k3.out = Append(k.out, x) /\ SetupStatus(x)
    BY DEF OutAllowed, ReplyAllowed
  <2>2. \A i \in (u2.got + 1)..Len(u.sent) : u.sent[i].msg = "smb1" => k3.message_id = 0
    <3>1. \A i \in (u.got + 2)..Len(u.sent) : u.sent[i].msg # "smb1"
      BY LaterUnread
    <3>2. u2.got + 1 = u.got + 2
      BY <1>2, <1>3
    <3> QED BY <3>1, <3>2
  <2> QED BY <1>1, <1>2, <1>3, <2>1, <2>2, StageStep DEF StageAllowed
<1>6. TreeIdsSound(k3, u2, s2)
  <2>1. \/ k3.out = k.out
        \/ \E x \in RepType : /\ k3.out = Append(k.out, x)
                              /\ x.cmd = "TREE_CONNECT" /\ x.status = "ok" => x.tree < s2
    BY DEF OutAllowed, ReplyAllowed, NewTree
  <2> QED BY <1>1, <1>2, <2>1, TreeIdsStep DEF StackAllowed
<1>7. ASSUME ~k3.full PROVE TreesSound(k3, u2)
  <2>1. \/ k3.out = k.out
        \/ \E x \in RepType :
              /\ k3.out = Append(k.out, x)
              /\ x.cmd = "TREE_CONNECT" /\ x.status = "ok" =>
                     x.tree = s /\ s \in Range(k3.trees)
    BY <1>7 DEF OutAllowed, ReplyAllowed, NewTree
  <2>2. /\ TreesSound(k, u)
        /\ \A t \in Range(k.trees) :
               t \in Range(k3.trees) \/ (r.cmd = "TREE_DISCONNECT" /\ r.tree = t)
    BY <1>1, <1>7 DEF StackAllowed
  <2>3. \A t \in Range(k.trees) :
            \/ t \in Range(k3.trees)
            \/ /\ u2.got = u.got + 1 /\ u2.got <= Len(u.sent)
               /\ u.sent[u2.got].cmd = "TREE_DISCONNECT" /\ u.sent[u2.got].tree = t
    BY <1>2, <1>3, <2>2
  <2>4. u2.got \in {u.got, u.got + 1}
    BY <1>2
  <2> QED BY <1>1, <1>2, <2>1, <2>2, <2>3, <2>4, TreesStep
<1>8. Core(k3.waitqueue, k3.deferred, k3.out, u2.sent, u2.got, {})
  BY <1>2
<1> QED BY <1>4, <1>5, <1>6, <1>7, <1>8 DEF OpenInv

-----------------------------------------------------------------------------
(* The handlers. *)

(* What a callback is called with.                                         *)
Holds(k, u, r) ==
    /\ k \in ConnType /\ CurSound(k) /\ r \in ReqType /\ k.message_id = r.mid /\ r.mid \in Nat
    /\ r.mid = 0 => r.cmd = "NEGOTIATE"
    /\ u.sent \in Seq(ReqType) /\ u.got + 1 \in Nat
    /\ r = u.sent[u.got + 1] /\ u.got + 1 \in 1..(u.got + 1)
    /\ \E a \in DOMAIN k.waitqueue : k.waitqueue[a].mid = r.mid
    /\ r.cmd # "CANCEL" =>
           Core(k.waitqueue, k.deferred, k.out, u.sent, u.got + 1, {r.mid})
    /\ r.cmd = "CANCEL" => Core(k.waitqueue, k.deferred, k.out, u.sent, u.got + 1, {})

LEMMA TakenHolds ==
    ASSUME NEW k \in ConnType, NEW u \in ClientType, NEW s, OpenInv(k, u, s),
           NEW r, IsUnread(u, r), NEW k2 \in ConnType, CurSound(k2), HasTaken(k, k2, r)
    PROVE  Holds(k2, u, r)
<1>1. /\ r \in ReqType /\ r.mid \in Nat /\ u.got \in Nat
      /\ r.mid = 0 => r.cmd = "NEGOTIATE"
  BY UnreadFacts
<1>2. PICK X : X = IF r.cmd = "CANCEL" THEN {} ELSE {r.mid}
  OBVIOUS
<1>3. /\ Core(k2.waitqueue, k2.deferred, k2.out, u.sent, u.got + 1, X)
      /\ \E a \in DOMAIN k2.waitqueue : k2.waitqueue[a].mid = r.mid
  BY <1>2, CoreTaken
<1>4. u.sent \in Seq(ReqType) /\ u.got + 1 \in Nat /\ u.got + 1 \in 1..(u.got + 1)
  BY <1>1 DEF ClientType
<1>5. k2.message_id = r.mid /\ r = u.sent[u.got + 1]
  BY DEF HasTaken, IsUnread
<1>6. CASE r.cmd = "CANCEL"
  BY <1>1, <1>2, <1>3, <1>4, <1>5, <1>6 DEF Holds
<1>7. CASE r.cmd # "CANCEL"
  BY <1>1, <1>2, <1>3, <1>4, <1>5, <1>7 DEF Holds
<1> QED BY <1>6, <1>7

(* The fields that a callback sets besides the lists and the trees.        *)
SameTaken(k, k1) ==
    /\ k1.state = k.state /\ k1.message_id = k.message_id /\ k1.trees = k.trees
    /\ k1.cur = k.cur /\ k1.waitqueue = k.waitqueue /\ k1.deferred = k.deferred
    /\ k1.out = k.out /\ k1.astray = k.astray /\ k1.full = k.full

LEMMA SameHolds ==
    ASSUME NEW k, NEW u, NEW r, Holds(k, u, r), NEW k1 \in ConnType, SameTaken(k, k1)
    PROVE  Holds(k1, u, r)
  BY DEF Holds, SameTaken, CurSound

Expecting(k, e) == [k EXCEPT !.expect = e]

LEMMA ExpectingFields ==
    ASSUME NEW k \in ConnType, NEW e \in {"NEGOTIATE", "SESSION_SETUP", "TREE_CONNECT"},
           NEW k1, k1 = Expecting(k, e)
    PROVE  k1 \in ConnType /\ k1.expect = e /\ SameTaken(k, k1)
  BY DEF Expecting, ConnType, SameTaken

(* The reply of a callback.                                                *)
LEMMA ReplyTaken ==
    ASSUME NEW k, NEW u, NEW r, Holds(k, u, r), r.cmd # "CANCEL",
           NEW cmd \in Cmds \ {"CANCEL"}, NEW st \in Statuses \ {"pending"},
           r.mid # 0 \/ cmd = "NEGOTIATE", NEW k3, k3 = Reply(k, cmd, st)
    PROVE  /\ k3 \in ConnType /\ Untouched(k, k3)
           /\ Core(k3.waitqueue, k3.deferred, k3.out, u.sent, u.got + 1, {})
           /\ \E x \in RepType : k3.out = Append(k.out, x) /\ x.cmd = cmd /\ x.status = st
<1>1. /\ k \in ConnType /\ k.message_id = r.mid /\ r.mid \in Nat
      /\ u.sent \in Seq(ReqType) /\ u.got + 1 \in Nat
      /\ \E a \in DOMAIN k.waitqueue : k.waitqueue[a].mid = r.mid
      /\ Core(k.waitqueue, k.deferred, k.out, u.sent, u.got + 1, {r.mid})
  BY DEF Holds
<1>2. k3 = smb2_queue_pdu(k, NewPdu(k, r.mid, cmd, st))
  BY <1>1 DEF Reply
<1>3. cmd \in Cmds /\ cmd # "CANCEL"
  OBVIOUS
<1>4. /\ k3 \in ConnType /\ Untouched(k, k3)
      /\ \E x \in RepType : AnsweredWith(k, k3, r.mid, x) /\ x.cmd = cmd /\ x.status = st
  BY <1>1, <1>2, <1>3, SendNewPdu
<1>5. PICK x \in RepType : AnsweredWith(k, k3, r.mid, x) /\ x.cmd = cmd /\ x.status = st
  BY <1>4
<1>6. Final(x) /\ x.cmd # "CANCEL"
  BY <1>3, <1>5 DEF Final
<1>7. Core(k3.waitqueue, k3.deferred, k3.out, u.sent, u.got + 1, {})
  BY <1>1, <1>5, <1>6, CoreAnswered
<1>8. k3.out = Append(k.out, x)
  BY <1>5 DEF AnsweredWith
<1> QED BY <1>4, <1>5, <1>7, <1>8

(* The request has been answered, or the application will answer it.       *)
Dealt(k, k3, u) ==
    /\ k3 \in ConnType
    /\ k3.state = k.state /\ k3.expect = k.expect /\ k3.trees = k.trees /\ k3.cur = k.cur
    /\ k3.astray = k.astray /\ k3.full = k.full
    /\ Core(k3.waitqueue, k3.deferred, k3.out, u.sent, u.got + 1, {})
    /\ \/ k3.out = k.out
       \/ \E x \in RepType : k3.out = Append(k.out, x) /\ x.cmd \notin Login /\ ~NewTree(x)

Promise(r, ret) == [mid |-> r.mid, cmd |-> r.cmd, ret |-> ret]

LEMMA DeferDealt ==
    ASSUME NEW k, NEW u, NEW r, Holds(k, u, r), r.cmd \notin Login \cup {"CANCEL"},
           NEW ret \in {"later", "unmade"}, ret = "unmade" => r.cmd \in Refusable,
           NEW k3, k3 = Defer(k, r, ret)
    PROVE  Dealt(k, k3, u)
<1>1. /\ k \in ConnType /\ r \in ReqType /\ u.sent \in Seq(ReqType) /\ u.got + 1 \in Nat
      /\ r = u.sent[u.got + 1] /\ u.got + 1 \in 1..(u.got + 1)
      /\ Core(k.waitqueue, k.deferred, k.out, u.sent, u.got + 1, {r.mid})
  BY DEF Holds
<1>2. PICK d : d = Promise(r, ret)
  OBVIOUS
<1>3. d \in DueType /\ d.mid = r.mid /\ d.cmd = r.cmd
  BY <1>1, <1>2 DEF Promise, DueType, ReqType
<1>4. k3 = [k EXCEPT !.deferred = k.deferred \cup {d}]
  BY <1>2 DEF Defer, Promise
<1>5. k.deferred \cup {d} \in SUBSET DueType
  BY <1>1, <1>3 DEF ConnType
<1>6. /\ k3 \in ConnType /\ k3.deferred = k.deferred \cup {d} /\ k3.waitqueue = k.waitqueue
      /\ k3.out = k.out
      /\ k3.state = k.state /\ k3.expect = k.expect /\ k3.trees = k.trees /\ k3.cur = k.cur
      /\ k3.astray = k.astray /\ k3.full = k.full
  BY <1>1, <1>4, <1>5 DEF ConnType
<1>7. Lists(k.waitqueue, k.deferred, k.out, u.sent, u.got + 1)
  BY <1>1 DEF Lists, ConnType
<1>8. \E i \in 1..(u.got + 1) : u.sent[i].mid = d.mid /\ u.sent[i].cmd = d.cmd
  BY <1>1, <1>3
<1>9. Core(k.waitqueue, k.deferred \cup {d}, k.out, u.sent, u.got + 1, {})
  BY <1>1, <1>3, <1>7, <1>8, CoreDefer
<1> QED BY <1>6, <1>9 DEF Dealt

LEMMA AnswerDealt ==
    ASSUME NEW k, NEW u, NEW r, Holds(k, u, r), r.cmd \notin Login \cup {"CANCEL"},
           NEW cmd \in Handled \ {"CANCEL"}, NEW ret, ~(cmd = "TREE_CONNECT" /\ ret = "ok"),
           ret = "unmade" => r.cmd \in Refusable,
           NEW k3, k3 = Answer(k, r, cmd, ret)
    PROVE  Dealt(k, k3, u)
<1>1. CASE ret \in {"later", "unmade"}
  BY <1>1, DeferDealt DEF Answer
<1>2. CASE ret \notin {"later", "unmade"}
  <2>1. PICK st : st = IF ret = "ok" THEN "ok" ELSE "error"
    OBVIOUS
  <2>2. /\ st \in Statuses \ {"pending"} /\ ~(cmd = "TREE_CONNECT" /\ st = "ok")
        /\ cmd \in Cmds \ {"CANCEL"} /\ cmd \notin Login /\ r.cmd # "CANCEL"
    BY <2>1 DEF Statuses, Cmds, Handled, Login
  <2>3. r.mid # 0
    BY DEF Holds, Login
  <2>4. k3 = Reply(k, cmd, st)
    BY <1>2, <2>1 DEF Answer
  <2>5. /\ k3 \in ConnType /\ Untouched(k, k3)
        /\ Core(k3.waitqueue, k3.deferred, k3.out, u.sent, u.got + 1, {})
        /\ \E x \in RepType : k3.out = Append(k.out, x) /\ x.cmd = cmd /\ x.status = st
    BY <2>2, <2>3, <2>4, ReplyTaken
  <2>6. \E x \in RepType : k3.out = Append(k.out, x) /\ x.cmd \notin Login /\ ~NewTree(x)
    BY <2>2, <2>5 DEF NewTree
  <2> QED BY <2>5, <2>6 DEF Dealt, Untouched
<1> QED BY <1>1, <1>2

(* The request and a CANCEL of it are both on the waitqueue.               *)
Doubled(q, m) == \E a, b \in DOMAIN q : a # b /\ q[a].mid = m /\ q[b].mid = m

LEMMA CancelDealt ==
    ASSUME NEW k, NEW u, NEW r, Holds(k, u, r), r.cmd = "CANCEL",
           r.mid \in Mids(k.deferred) => Doubled(k.waitqueue, r.mid),
           NEW ret, NEW k3, k3 = smb2_cancel_request_cb(k, r, ret)
    PROVE  Dealt(k, k3, u)
<1>1. /\ k \in ConnType /\ k.message_id = r.mid /\ r.mid \in Nat \ {0}
      /\ u.sent \in Seq(ReqType) /\ u.got + 1 \in Nat
      /\ \E a \in DOMAIN k.waitqueue : k.waitqueue[a].mid = r.mid
      /\ Core(k.waitqueue, k.deferred, k.out, u.sent, u.got + 1, {})
  BY DEF Holds
<1>2. CASE ret # "error"
  BY <1>1, <1>2 DEF smb2_cancel_request_cb, Dealt
<1>3. CASE ret = "error"
  <2>1. PICK cmd : cmd = "CANCEL"
    OBVIOUS
  <2>2. PICK st : st = "error"
    OBVIOUS
  <2>3. cmd \in Cmds /\ st \in Statuses \ {"pending"}
    BY <2>1, <2>2 DEF Cmds, Handled, Statuses
  <2>4. k3 = smb2_queue_pdu(k, NewPdu(k, r.mid, cmd, st))
    BY <1>1, <1>3, <2>1, <2>2 DEF smb2_cancel_request_cb, Reply
  <2>5. /\ k3 \in ConnType /\ Untouched(k, k3)
        /\ \E x \in RepType : AnsweredWith(k, k3, r.mid, x) /\ x.cmd = cmd /\ x.status = st
    BY <1>1, <2>3, <2>4, SendNewPdu
  <2>6. PICK x \in RepType : AnsweredWith(k, k3, r.mid, x) /\ x.cmd = cmd /\ x.status = st
    BY <2>5
  <2>7. PICK i : /\ IsFirst(k.waitqueue, r.mid, i)
                 /\ k3.waitqueue = RemoveAt(k.waitqueue, i) /\ k3.out = Append(k.out, x)
                 /\ k3.deferred = k.deferred /\ x.mid = r.mid
    BY <2>6 DEF AnsweredWith
  <2>8. r.mid \in Mids(k.deferred) =>
            \E a \in DOMAIN k.waitqueue : k.waitqueue[a].mid = r.mid /\ a # i
    BY DEF Doubled
  <2>9. Final(x) /\ x.cmd = "CANCEL" /\ x.cmd \notin Login /\ ~NewTree(x)
    BY <2>1, <2>2, <2>6 DEF Final, Login, NewTree
  <2>10. Lists(k.waitqueue, k.deferred, k.out, u.sent, u.got + 1) /\ r.mid \in Nat
    BY <1>1 DEF Lists, ConnType
  <2>11. Core(RemoveAt(k.waitqueue, i), k.deferred, Append(k.out, x), u.sent, u.got + 1, {})
    BY <1>1, <2>7, <2>8, <2>9, <2>10, CoreRefuse
  <2> QED BY <2>5, <2>7, <2>9, <2>11 DEF Dealt, Untouched
<1> QED BY <1>2, <1>3

(* After the callback of a client that has logged in.                      *)
Settled(k, k3, u, r, s, s2) ==
    /\ k3 \in ConnType /\ CurSound(k3) /\ k3.state = k.state /\ k3.astray = k.astray
    /\ k3.expect = IF r.cmd = "LOGOFF" THEN "SESSION_SETUP" ELSE "TREE_CONNECT"
    /\ Core(k3.waitqueue, k3.deferred, k3.out, u.sent, u.got + 1, {})
    /\ StackAllowed(k, k3, r, s2)
    /\ \/ k3.out = k.out
       \/ \E x \in RepType : /\ k3.out = Append(k.out, x) /\ x.cmd \notin Login
                             /\ ReplyAllowed(k3, x, s, s2)

LEMMA OrdinaryReply ==
    ASSUME NEW k, NEW k3, NEW s, NEW s2,
           \/ k3.out = k.out
           \/ \E x \in RepType : k3.out = Append(k.out, x) /\ x.cmd \notin Login /\ ~NewTree(x)
    PROVE  \/ k3.out = k.out
           \/ \E x \in RepType : /\ k3.out = Append(k.out, x) /\ x.cmd \notin Login
                                 /\ ReplyAllowed(k3, x, s, s2)
  BY DEF ReplyAllowed, SetupStatus, Login

LEMMA DealtSettled ==
    ASSUME NEW k, CurSound(k), NEW k3, NEW u, NEW r, NEW s, Dealt(k, k3, u),
           k.expect = "TREE_CONNECT", r.cmd # "LOGOFF"
    PROVE  Settled(k, k3, u, r, s, s)
<1>1. CurSound(k3) /\ StackAllowed(k, k3, r, s)
  BY DEF Dealt, CurSound, StackAllowed
<1>2. \/ k3.out = k.out
      \/ \E x \in RepType : /\ k3.out = Append(k.out, x) /\ x.cmd \notin Login
                            /\ ReplyAllowed(k3, x, s, s)
  BY OrdinaryReply DEF Dealt
<1> QED BY <1>1, <1>2 DEF Settled, Dealt

(* A tree is disconnected.                                                 *)
LEMMA DisconnectSettled ==
    ASSUME NEW k, CurSound(k), NEW k2, NEW u, NEW r, NEW s, Dealt(k, k2, u),
           k.expect = "TREE_CONNECT", r.cmd = "TREE_DISCONNECT",
           NEW k3, k3 = smb2_disconnect_tree_id(k2, r.tree)
    PROVE  Settled(k, k3, u, r, s, s)
<1>1. k2 \in ConnType /\ CurSound(k2)
  BY DEF Dealt, CurSound
<1>2. /\ k3 \in ConnType /\ CurSound(k3) /\ SameLists(k2, k3) /\ k3.full = k2.full
      /\ Range(k3.trees) \subseteq Range(k2.trees)
      /\ \A t \in Range(k2.trees) : t # r.tree => t \in Range(k3.trees)
  BY <1>1, DisconnectTreeId
<1>3. /\ k2.trees = k.trees /\ k2.full = k.full /\ k2.state = k.state /\ k2.astray = k.astray
      /\ k2.expect = k.expect
      /\ Core(k2.waitqueue, k2.deferred, k2.out, u.sent, u.got + 1, {})
      /\ \/ k2.out = k.out
         \/ \E x \in RepType : k2.out = Append(k.out, x) /\ x.cmd \notin Login /\ ~NewTree(x)
  BY DEF Dealt
<1>4. StackAllowed(k, k3, r, s)
  BY <1>2, <1>3 DEF StackAllowed
<1>5. /\ k3.state = k.state /\ k3.astray = k.astray /\ k3.expect = "TREE_CONNECT"
      /\ Core(k3.waitqueue, k3.deferred, k3.out, u.sent, u.got + 1, {}) /\ k3.out = k2.out
  BY <1>2, <1>3 DEF SameLists
<1>6. \/ k3.out = k.out
      \/ \E x \in RepType : k3.out = Append(k.out, x) /\ x.cmd \notin Login /\ ~NewTree(x)
  BY <1>3, <1>5
<1>7. \/ k3.out = k.out
      \/ \E x \in RepType : /\ k3.out = Append(k.out, x) /\ x.cmd \notin Login
                            /\ ReplyAllowed(k3, x, s, s)
  BY <1>6, OrdinaryReply
<1> QED BY <1>2, <1>4, <1>5, <1>7 DEF Settled

(* The client logs off.                                                    *)
LEMMA LogoffSettled ==
    ASSUME NEW k, CurSound(k), NEW k2, NEW u, NEW r, NEW s, Dealt(k, k2, u), r.cmd = "LOGOFF",
           NEW k3, k3 = Expecting(k2, "SESSION_SETUP")
    PROVE  Settled(k, k3, u, r, s, s)
<1>1. PICK e \in {"NEGOTIATE", "SESSION_SETUP", "TREE_CONNECT"} : e = "SESSION_SETUP"
  OBVIOUS
<1>2. k2 \in ConnType /\ k3 = Expecting(k2, e)
  BY <1>1 DEF Dealt
<1>3. k3 \in ConnType /\ k3.expect = e /\ SameTaken(k2, k3)
  BY <1>2, ExpectingFields
<1>4. /\ k3.trees = k.trees /\ k3.cur = k.cur /\ k3.full = k.full /\ k3.state = k.state
      /\ k3.astray = k.astray
      /\ Core(k3.waitqueue, k3.deferred, k3.out, u.sent, u.got + 1, {})
      /\ \/ k3.out = k.out
         \/ \E x \in RepType : k3.out = Append(k.out, x) /\ x.cmd \notin Login /\ ~NewTree(x)
  BY <1>3 DEF Dealt, SameTaken
<1>5. CurSound(k3) /\ StackAllowed(k, k3, r, s)
  BY <1>4 DEF CurSound, StackAllowed
<1>6. \/ k3.out = k.out
      \/ \E x \in RepType : /\ k3.out = Append(k.out, x) /\ x.cmd \notin Login
                            /\ ReplyAllowed(k3, x, s, s)
  BY <1>4, OrdinaryReply
<1> QED BY <1>1, <1>3, <1>4, <1>5, <1>6 DEF Settled

(* A tree is connected.                                                    *)
LEMMA ConnectSettled ==
    ASSUME NEW k, NEW u, NEW r, Holds(k, u, r), k.expect = "TREE_CONNECT",
           r.cmd = "TREE_CONNECT", NEW next, SentSound(u.sent, u.got + 1, next),
           1..(u.got + 1) \subseteq DOMAIN u.sent, s_tree_id \in Nat,
           TreeIdsSound(k, u, s_tree_id), NEW k3, k3 = ConnectTree(k, k.message_id)
    PROVE  Settled(k, k3, u, r, s_tree_id, s_tree_id + 1)
<1>1. /\ k \in ConnType /\ CurSound(k) /\ k.message_id = r.mid /\ r.mid \in Nat \ {0}
      /\ u.sent \in Seq(ReqType) /\ u.got + 1 \in Nat
      /\ r = u.sent[u.got + 1] /\ u.got + 1 \in 1..(u.got + 1)
      /\ \E a \in DOMAIN k.waitqueue : k.waitqueue[a].mid = r.mid
      /\ Core(k.waitqueue, k.deferred, k.out, u.sent, u.got + 1, {r.mid})
  BY DEF Holds
<1>2. QueueSound(k.waitqueue, u.sent, u.got + 1)
  BY <1>1 DEF Core
<1>3. \A a \in DOMAIN k.waitqueue : k.waitqueue[a].mid = r.mid => k.waitqueue[a].async = 0
  <2>1. PICK j \in 1..(u.got + 1) : j = u.got + 1
    BY <1>1
  <2>2. u.sent[j] = r
    BY <1>1, <2>1
  <2> QED BY <1>2, <2>2, TreeConnectWaits
<1>4. k3 = ConnectTree(k, r.mid)
  BY <1>1
<1>5. /\ k3 \in ConnType /\ CurSound(k3) /\ k3.state = k.state /\ k3.expect = k.expect
      /\ k3.message_id = k.message_id /\ k3.astray = k.astray
      /\ \E x \in RepType :
            /\ AnsweredWith(k, k3, r.mid, x) /\ x.cmd = "TREE_CONNECT" /\ x.status = "ok"
            /\ TreeMade(k, k3, x, s_tree_id)
  BY <1>1, <1>3, <1>4, TreeConnected
<1>6. PICK x \in RepType :
         /\ AnsweredWith(k, k3, r.mid, x) /\ x.cmd = "TREE_CONNECT" /\ x.status = "ok"
         /\ TreeMade(k, k3, x, s_tree_id)
  BY <1>5
<1>7. TreesAllowed(k, k3, x, s_tree_id, s_tree_id + 1)
  BY <1>1, <1>5, <1>6, TreeAdded
<1>8. Final(x) /\ x.cmd # "CANCEL" /\ r.mid \in Nat
  BY <1>1, <1>6 DEF Final
<1>9. Core(k3.waitqueue, k3.deferred, k3.out, u.sent, u.got + 1, {})
  BY <1>1, <1>6, <1>8, CoreAnswered
<1>10. k3.out = Append(k.out, x) /\ x.cmd \notin Login
  BY <1>6 DEF AnsweredWith, Login
<1>11. ReplyAllowed(k3, x, s_tree_id, s_tree_id + 1)
  BY <1>6, <1>7 DEF TreesAllowed, ReplyAllowed, SetupStatus, NewTree
<1>12. StackAllowed(k, k3, r, s_tree_id + 1)
  BY <1>7 DEF TreesAllowed, StackAllowed
<1> QED BY <1>5, <1>9, <1>10, <1>11, <1>12 DEF Settled

(* The dispatch: the callback of a command on a file answers it.           *)
FileHandlers == Handled \ {"LOGOFF", "TREE_CONNECT", "TREE_DISCONNECT", "CANCEL"}

LEMMA FileHandler ==
    ASSUME NEW k, NEW r, NEW ret, r.cmd \in FileHandlers,
           NEW k1, k1 = Expecting(k, "TREE_CONNECT"),
           NEW k3, k3 = smb2_general_client_request_cb(k, r, ret)
    PROVE  \E cmd \in FileHandlers : \E ret1 :
              k3 = Answer(k1, r, cmd, ret1) /\ (ret1 = "unmade" => ret = "unmade")
<1> USE DEF smb2_general_client_request_cb, Expecting
<1>1. CASE r.cmd = "OPLOCK_BREAK"
  <2>1. PICK cmd : cmd = IF ret \in {"ok", "later"} THEN "OPLOCK_BREAK" ELSE "LOCK"
    OBVIOUS
  <2>2. k3 = Answer(k1, r, cmd, ret)
    BY <1>1, <2>1 DEF smb2_oplock_break_request_cb
  <2>3. cmd \in FileHandlers
    BY <2>1 DEF FileHandlers, Handled
  <2> QED BY <2>2, <2>3
<1>2. CASE r.cmd = "IOCTL"
  <2>1. PICK ret1 : ret1 = IF ret = "empty" THEN "ok" ELSE ret
    OBVIOUS
  <2>2. k3 = Answer(k1, r, "IOCTL", ret1)
    BY <1>2, <2>1 DEF smb2_ioctl_request_cb
  <2>3. "IOCTL" \in FileHandlers
    BY DEF FileHandlers, Handled
  <2>4. ret1 = "unmade" => ret = "unmade"
    BY <2>1
  <2> HIDE DEF smb2_general_client_request_cb, Expecting
  <2> QED BY <2>2, <2>3, <2>4
<1>3. CASE r.cmd \in {"CREATE", "CLOSE", "FLUSH", "READ"}
  <2>1. k3 = Answer(k1, r, r.cmd, ret)
    BY <1>3 DEF smb2_create_request_cb, smb2_close_request_cb, smb2_flush_request_cb,
                smb2_read_request_cb
  <2> QED BY <2>1
<1>4. CASE r.cmd \in {"WRITE", "LOCK", "ECHO", "QUERY_DIRECTORY"}
  <2>1. k3 = Answer(k1, r, r.cmd, ret)
    BY <1>4 DEF smb2_write_request_cb, smb2_lock_request_cb, smb2_echo_request_cb,
                smb2_query_directory_request_cb
  <2> QED BY <2>1
<1>5. CASE r.cmd \in {"CHANGE_NOTIFY", "QUERY_INFO", "SET_INFO"}
  <2>1. k3 = Answer(k1, r, r.cmd, ret)
    BY <1>5 DEF smb2_change_notify_request_cb, smb2_query_info_request_cb,
                smb2_set_info_request_cb
  <2> QED BY <2>1
<1>6. \/ r.cmd \in {"OPLOCK_BREAK", "IOCTL", "CREATE", "CLOSE", "FLUSH", "READ"}
      \/ r.cmd \in {"WRITE", "LOCK", "ECHO", "QUERY_DIRECTORY"}
      \/ r.cmd \in {"CHANGE_NOTIFY", "QUERY_INFO", "SET_INFO"}
  BY DEF FileHandlers, Handled
<1> QED BY <1>1, <1>2, <1>3, <1>4, <1>5, <1>6

LEMMA OtherHandler ==
    ASSUME NEW k, NEW r, NEW ret, NEW k1, k1 = Expecting(k, "TREE_CONNECT"),
           NEW k3, k3 = smb2_general_client_request_cb(k, r, ret)
    PROVE  /\ r.cmd = "LOGOFF" => k3 = smb2_logoff_request_cb(k1, r, ret)
           /\ r.cmd = "TREE_CONNECT" => k3 = smb2_tree_connect_request_cb(k1, r, ret)
           /\ r.cmd = "TREE_DISCONNECT" => k3 = smb2_tree_disconnect_request_cb(k1, r, ret)
           /\ r.cmd = "CANCEL" => k3 = smb2_cancel_request_cb(k1, r, ret)
  BY DEF smb2_general_client_request_cb, Expecting

LEMMA GeneralSettled ==
    ASSUME NEW k, NEW u, NEW r, Holds(k, u, r), r.cmd \in Handled,
           NEW next, SentSound(u.sent, u.got + 1, next),
           1..(u.got + 1) \subseteq DOMAIN u.sent, s_tree_id \in Nat,
           TreeIdsSound(k, u, s_tree_id),
           r.cmd = "CANCEL" /\ r.mid \in Mids(k.deferred) => Doubled(k.waitqueue, r.mid),
           NEW ret, ret = "unmade" => r.cmd \in Refusable,
           NEW k3, k3 = smb2_general_client_request_cb(k, r, ret),
           NEW s2, s2 = s_tree_id + (IF r.cmd = "TREE_CONNECT" /\ ret = "ok" THEN 1 ELSE 0)
    PROVE  Settled(k, k3, u, r, s_tree_id, s2)
<1>1. PICK e \in {"NEGOTIATE", "SESSION_SETUP", "TREE_CONNECT"} : e = "TREE_CONNECT"
  OBVIOUS
<1>2. PICK k1 : k1 = Expecting(k, e)
  OBVIOUS
<1>3. k \in ConnType /\ k1 \in ConnType /\ k1.expect = "TREE_CONNECT" /\ SameTaken(k, k1)
  BY <1>1, <1>2, ExpectingFields DEF Holds
<1>4. Holds(k1, u, r)
  BY <1>3, SameHolds
<1>5. CurSound(k1)
  BY <1>4 DEF Holds
<1>6. k1 = Expecting(k, "TREE_CONNECT")
  BY <1>1, <1>2
<1>7. Settled(k1, k3, u, r, s_tree_id, s2)
  <2>1. CASE r.cmd \in FileHandlers
    <3>1. r.cmd \notin Login \cup {"CANCEL"} /\ r.cmd # "LOGOFF" /\ r.cmd # "TREE_CONNECT"
      BY <2>1 DEF FileHandlers, Handled, Login
    <3>2. PICK cmd \in FileHandlers : \E ret1 :
             k3 = Answer(k1, r, cmd, ret1) /\ (ret1 = "unmade" => ret = "unmade")
      BY <1>6, <2>1, FileHandler
    <3>3. PICK ret1 : k3 = Answer(k1, r, cmd, ret1) /\ (ret1 = "unmade" => ret = "unmade")
      BY <3>2
    <3>4. cmd \in Handled \ {"CANCEL"} /\ cmd # "TREE_CONNECT"
      BY DEF FileHandlers
    <3>5. Dealt(k1, k3, u)
      BY <1>4, <3>1, <3>3, <3>4, AnswerDealt
    <3>6. s2 = s_tree_id
      BY <3>1
    <3>7. Settled(k1, k3, u, r, s_tree_id, s_tree_id)
      BY <1>3, <1>5, <3>1, <3>5, DealtSettled
    <3> QED BY <3>6, <3>7
  <2>2. CASE r.cmd = "LOGOFF"
    <3>1. PICK k2 : k2 = Answer(k1, r, "LOGOFF", ret)
      OBVIOUS
    <3>2. k3 = Expecting(k2, "SESSION_SETUP")
      BY <1>6, <2>2, <3>1, OtherHandler DEF smb2_logoff_request_cb, Expecting
    <3>3. r.cmd \notin Login \cup {"CANCEL"} /\ "LOGOFF" \in Handled \ {"CANCEL"} /\ s2 = s_tree_id
      BY <2>2 DEF Login, Handled
    <3>4. Dealt(k1, k2, u)
      BY <1>4, <3>1, <3>3, AnswerDealt
    <3>5. Settled(k1, k3, u, r, s_tree_id, s_tree_id)
      BY <1>5, <2>2, <3>2, <3>4, LogoffSettled
    <3> QED BY <3>3, <3>5
  <2>3. CASE r.cmd = "TREE_DISCONNECT"
    <3>1. PICK k2 : k2 = Answer(k1, r, "TREE_DISCONNECT", ret)
      OBVIOUS
    <3>2. k3 = smb2_disconnect_tree_id(k2, r.tree)
      BY <1>6, <2>3, <3>1, OtherHandler DEF smb2_tree_disconnect_request_cb
    <3>3. /\ r.cmd \notin Login \cup {"CANCEL"} /\ "TREE_DISCONNECT" \in Handled \ {"CANCEL"}
          /\ s2 = s_tree_id
      BY <2>3 DEF Login, Handled
    <3>4. Dealt(k1, k2, u)
      BY <1>4, <3>1, <3>3, AnswerDealt
    <3>5. Settled(k1, k3, u, r, s_tree_id, s_tree_id)
      BY <1>3, <1>5, <2>3, <3>2, <3>4, DisconnectSettled
    <3> QED BY <3>3, <3>5
  <2>4. CASE r.cmd = "CANCEL"
    <3>1. k3 = smb2_cancel_request_cb(k1, r, ret) /\ s2 = s_tree_id /\ r.cmd # "LOGOFF"
      BY <1>6, <2>4, OtherHandler
    <3>2. r.mid \in Mids(k1.deferred) => Doubled(k1.waitqueue, r.mid)
      BY <1>3, <2>4 DEF SameTaken
    <3>3. Dealt(k1, k3, u)
      BY <1>4, <2>4, <3>1, <3>2, CancelDealt
    <3>4. Settled(k1, k3, u, r, s_tree_id, s_tree_id)
      BY <1>3, <1>5, <3>1, <3>3, DealtSettled
    <3> QED BY <3>1, <3>4
  <2>5. CASE r.cmd = "TREE_CONNECT" /\ ret = "ok"
    <3>1. k3 = ConnectTree(k1, k1.message_id) /\ s2 = s_tree_id + 1
      BY <1>6, <2>5, OtherHandler DEF smb2_tree_connect_request_cb
    <3>2. TreeIdsSound(k1, u, s_tree_id)
      BY <1>3 DEF SameTaken, TreeIdsSound
    <3>3. Settled(k1, k3, u, r, s_tree_id, s_tree_id + 1)
      BY <1>3, <1>4, <2>5, <3>1, <3>2, ConnectSettled
    <3> QED BY <3>1, <3>3
  <2>6. CASE r.cmd = "TREE_CONNECT" /\ ret # "ok"
    <3>1. k3 = Answer(k1, r, "TREE_CONNECT", ret) /\ s2 = s_tree_id /\ r.cmd # "LOGOFF"
      BY <1>6, <2>6, OtherHandler DEF smb2_tree_connect_request_cb
    <3>2. r.cmd \notin Login \cup {"CANCEL"} /\ "TREE_CONNECT" \in Handled \ {"CANCEL"}
      BY <2>6 DEF Login, Handled
    <3>3. Dealt(k1, k3, u)
      BY <1>4, <2>6, <3>1, <3>2, AnswerDealt
    <3>4. Settled(k1, k3, u, r, s_tree_id, s_tree_id)
      BY <1>3, <1>5, <3>1, <3>3, DealtSettled
    <3> QED BY <3>1, <3>4
  <2> QED BY <2>1, <2>2, <2>3, <2>4, <2>5, <2>6 DEF FileHandlers
<1>8. /\ k1.state = k.state /\ k1.astray = k.astray /\ k1.out = k.out
      /\ k1.trees = k.trees /\ k1.full = k.full
  BY <1>3 DEF SameTaken
<1>9. StackAllowed(k, k3, r, s2)
  BY <1>7, <1>8 DEF Settled, StackAllowed
<1> QED BY <1>7, <1>8, <1>9 DEF Settled

(* A request that will be answered is on the waitqueue, or a CANCEL of it  *)
(* is; another one has been appended.                                      *)
LEMMA TakenTwice ==
    ASSUME NEW k \in ConnType, NEW u \in ClientType, NEW s, OpenInv(k, u, s),
           NEW r, IsUnread(u, r), NEW k2, HasTaken(k, k2, r), r.mid \in Mids(k2.deferred)
    PROVE  Doubled(k2.waitqueue, r.mid)
<1>1. PICK w : w = Waiting(r)
  OBVIOUS
<1>2. w \in WaitType /\ w.mid = r.mid
  BY <1>1, UnreadFacts DEF Waiting, WaitType, ReqType
<1>3. k2.waitqueue = Append(k.waitqueue, w) /\ k2.deferred = k.deferred
  BY <1>1 DEF HasTaken
<1>4. k.waitqueue \in Seq(WaitType)
  BY DEF ConnType
<1>5. PICK n : n = Len(k.waitqueue)
  OBVIOUS
<1>6. /\ n \in Nat /\ DOMAIN k.waitqueue = 1..n /\ n + 1 \in DOMAIN k2.waitqueue
      /\ k2.waitqueue[n + 1] = w
      /\ \A j \in DOMAIN k.waitqueue : j \in DOMAIN k2.waitqueue /\ k2.waitqueue[j] = k.waitqueue[j]
  BY <1>2, <1>3, <1>4, <1>5, AppendIndex
<1>7. PICK a \in DOMAIN k.waitqueue : k.waitqueue[a].mid = r.mid
  BY <1>3 DEF OpenInv, Core, DueSound
<1>8. a # n + 1 /\ a \in DOMAIN k2.waitqueue /\ k2.waitqueue[a].mid = r.mid
  BY <1>6, <1>7
<1> QED BY <1>2, <1>6, <1>8 DEF Doubled

LEMMA GeneralStage ==
    ASSUME NEW k \in ConnType, NEW u \in ClientType, NEW s, OpenInv(k, u, s),
           u.seen = Len(k.out), NEW r, IsUnread(u, r), k.expect = "TREE_CONNECT",
           NEW u2, HasRead(u, u2), NEW k3 \in ConnType,
           k3.expect = IF r.cmd = "LOGOFF" THEN "SESSION_SETUP" ELSE "TREE_CONNECT",
           \/ k3.out = k.out
           \/ \E x \in RepType : k3.out = Append(k.out, x) /\ x.cmd \notin Login
    PROVE  StageAllowed(k3, u, u2)
<1>1. /\ u.got \in Nat /\ Len(u.sent) \in Nat /\ u.got + 1 \in (u.got + 1)..Len(u.sent)
      /\ r = u.sent[u.got + 1]
  BY UnreadFacts DEF IsUnread
<1>2. Kept(u, u2) /\ u2.got = u.got + 1
  BY DEF HasRead
<1>3. Ahead(k, u) = u.phase /\ Ahead(k3, u2) = u.phase
  BY <1>2, SamePhase
<1>4. /\ ExpectSound(k.expect, u.phase, u.sent, u.got)
      /\ UnreadSound(k.expect, u.phase, u.sent, u.got)
      /\ u.phase # "in" /\ u.sent # <<>> => u.sent[Len(u.sent)].cmd # "CANCEL"
  BY <1>3 DEF OpenInv, StageSound
<1>5. \A i \in (u2.got + 1)..Len(u.sent) : i \in (u.got + 1)..Len(u.sent) /\ i # u.got + 1
  BY <1>1, <1>2
<1>6. \A i \in (u.got + 1)..Len(u.sent) :
          /\ u.sent[i].cmd \in Handled /\ u.sent[i].msg = NULL
          /\ u.sent[i].cmd = "LOGOFF" => i = Len(u.sent)
  BY <1>4 DEF UnreadSound
<1>7. u.phase # "start" /\ u.phase # "challenged"
  BY <1>4 DEF ExpectSound
<1>8. CASE r.cmd = "LOGOFF"
  <2>1. u.got + 1 = Len(u.sent) /\ u.phase # "in"
    BY <1>1, <1>4, <1>6, <1>8 DEF ExpectSound
  <2>2. ExpectSound(k3.expect, u.phase, u.sent, u2.got)
    BY <1>7, <1>8, <2>1 DEF ExpectSound
  <2>3. UnreadSound(k3.expect, u.phase, u.sent, u2.got)
    <3>1. \A i \in (u2.got + 1)..Len(u.sent) : FALSE
      BY <1>1, <1>2, <2>1
    <3> QED BY <3>1 DEF UnreadSound
  <2> QED BY <1>3, <1>4, <2>2, <2>3 DEF StageAllowed
<1>9. CASE r.cmd # "LOGOFF"
  <2>1. u.phase = "negotiated" => u2.got < Len(u.sent) /\ u.sent[Len(u.sent)].cmd = "LOGOFF"
    <3>1. SUFFICES ASSUME u.phase = "negotiated"
                   PROVE  u2.got < Len(u.sent) /\ u.sent[Len(u.sent)].cmd = "LOGOFF"
      OBVIOUS
    <3>2. u.sent[Len(u.sent)].cmd = "LOGOFF"
      BY <1>4, <3>1 DEF ExpectSound
    <3>3. u.got + 1 # Len(u.sent)
      BY <1>1, <1>9, <3>2
    <3> QED BY <1>1, <1>2, <3>2, <3>3
  <2>2. ExpectSound(k3.expect, u.phase, u.sent, u2.got)
    BY <1>4, <1>5, <1>7, <1>9, <2>1 DEF ExpectSound
  <2>3. UnreadSound(k3.expect, u.phase, u.sent, u2.got)
    BY <1>5, <1>6, <1>9 DEF UnreadSound
  <2> QED BY <1>3, <1>4, <2>2, <2>3 DEF StageAllowed
<1> QED BY <1>8, <1>9

Received(k, k3, u2, s2) ==
    /\ k3 \in ConnType /\ k3.state = k.state /\ OpenInv(k3, u2, s2)
    /\ k3.astray => k3.full

LEMMA ReceiveGeneral ==
    ASSUME NEW k \in ConnType, NEW u \in ClientType, s_tree_id \in Nat, OpenInv(k, u, s_tree_id),
           k.astray => k.full, u.seen = Len(k.out), NEW r, IsUnread(u, r),
           k.expect = "TREE_CONNECT", NEW u2 \in ClientType, HasRead(u, u2),
           NEW k2, k2 = Took(k, r),
           NEW ret, ret = "unmade" => r.cmd \in Refusable,
           NEW k3, k3 = smb2_general_client_request_cb(k2, r, ret),
           NEW s2, s2 = s_tree_id + (IF r.cmd = "TREE_CONNECT" /\ ret = "ok" THEN 1 ELSE 0)
    PROVE  Received(k, k3, u2, s2)
<1>1. /\ u.got \in Nat /\ Len(u.sent) \in Nat /\ u.got + 1 \in (u.got + 1)..Len(u.sent)
      /\ DOMAIN u.sent = 1..Len(u.sent) /\ r = u.sent[u.got + 1]
  BY UnreadFacts DEF IsUnread
<1>2. k2 \in ConnType /\ CurSound(k2) /\ HasTaken(k, k2, r) /\ (k2.astray => k2.full)
  BY TookFields
<1>3. Holds(k2, u, r)
  BY <1>2, TakenHolds
<1>4. r.cmd \in Handled
  <2>1. Kept(u, u)
    BY DEF Kept
  <2>2. Ahead(k, u) = u.phase
    BY <2>1, SamePhase
  <2> QED BY <1>1 DEF OpenInv, StageSound, UnreadSound
<1>5. SentSound(u.sent, u.got + 1, u.next)
  BY <1>1 DEF OpenInv, SentSound
<1>6. /\ k2.trees = k.trees /\ k2.out = k.out /\ k2.full = k.full /\ k2.state = k.state
  BY <1>2 DEF HasTaken
<1>7. TreeIdsSound(k2, u, s_tree_id)
  BY <1>2, <1>6 DEF OpenInv, TreeIdsSound, CurSound
<1>8. r.mid \in Mids(k2.deferred) => Doubled(k2.waitqueue, r.mid)
  BY <1>2, TakenTwice
<1>9. 1..(u.got + 1) \subseteq DOMAIN u.sent
  BY <1>1
<1>10. Settled(k2, k3, u, r, s_tree_id, s2)
  BY <1>3, <1>4, <1>5, <1>7, <1>8, <1>9, GeneralSettled
<1>11. /\ k3 \in ConnType /\ CurSound(k3) /\ k3.state = k.state /\ k3.astray = k2.astray
       /\ k3.expect = IF r.cmd = "LOGOFF" THEN "SESSION_SETUP" ELSE "TREE_CONNECT"
       /\ Core(k3.waitqueue, k3.deferred, k3.out, u.sent, u.got + 1, {})
       /\ \/ k3.out = k.out
          \/ \E x \in RepType : /\ k3.out = Append(k.out, x) /\ x.cmd \notin Login
                                /\ ReplyAllowed(k3, x, s_tree_id, s2)
  BY <1>6, <1>10 DEF Settled
<1>12. StackAllowed(k, k3, r, s2) /\ (k2.full => k3.full)
  BY <1>6, <1>10 DEF Settled, StackAllowed
<1>13. OutAllowed(k, k3, s_tree_id, s2)
  BY <1>11 DEF OutAllowed
<1>14. StageAllowed(k3, u, u2)
  BY <1>11, GeneralStage
<1>15. s2 \in Nat /\ s_tree_id <= s2
  OBVIOUS
<1>16. OpenInv(k3, u2, s2)
  BY <1>11, <1>12, <1>13, <1>14, <1>15, TakenStep
<1> QED BY <1>2, <1>11, <1>12, <1>16 DEF Received

(* The server then expects what a client will send that has read the reply. *)
Leads(phase, cmd, st, e) ==
    \A x : x.cmd = cmd /\ x.status = st =>
        \/ PhaseAfter(phase, x) = "start" /\ e = "NEGOTIATE"
        \/ PhaseAfter(phase, x) \in {"negotiated", "challenged"} /\ e = "SESSION_SETUP"
        \/ PhaseAfter(phase, x) = "in" /\ e = "TREE_CONNECT"

(* The reply to a request of a client that is logging in.                  *)
LEMMA LoginReply ==
    ASSUME NEW k \in ConnType, NEW u \in ClientType, NEW s \in Nat, OpenInv(k, u, s),
           k.astray => k.full, u.seen = Len(k.out), NEW r, IsUnread(u, r),
           u.got + 1 = Len(u.sent), r.cmd \in Login,
           NEW u2 \in ClientType, HasRead(u, u2), NEW k2, k2 = Took(k, r),
           NEW k4 \in ConnType, SameTaken(k2, k4),
           NEW st \in Statuses \ {"pending"},
           r.cmd = "SESSION_SETUP" => st \in {"more", "ok", "error"},
           NEW e \in {"NEGOTIATE", "SESSION_SETUP", "TREE_CONNECT"},
           Leads(u.phase, r.cmd, st, e),
           NEW k5, k5 = Reply(k4, r.cmd, st), NEW k3, k3 = Expecting(k5, e)
    PROVE  Received(k, k3, u2, s)
<1>1. /\ u.got \in Nat /\ Len(u.sent) \in Nat /\ r = u.sent[u.got + 1]
      /\ r.mid = 0 => r.cmd = "NEGOTIATE"
  BY UnreadFacts DEF IsUnread
<1>2. k2 \in ConnType /\ CurSound(k2) /\ HasTaken(k, k2, r) /\ (k2.astray => k2.full)
  BY TookFields
<1>3. Holds(k2, u, r)
  BY <1>2, TakenHolds
<1>4. Holds(k4, u, r)
  BY <1>3, SameHolds
<1>5. /\ k4.trees = k.trees /\ k4.out = k.out /\ k4.full = k.full /\ k4.state = k.state
      /\ k4.astray => k4.full
  BY <1>2 DEF HasTaken, SameTaken
<1>6. r.cmd \in Cmds \ {"CANCEL"} /\ r.cmd # "CANCEL" /\ r.cmd # "TREE_CONNECT"
  BY DEF Cmds, Login
<1>7. /\ k5 \in ConnType /\ Untouched(k4, k5)
      /\ Core(k5.waitqueue, k5.deferred, k5.out, u.sent, u.got + 1, {})
      /\ \E x \in RepType : k5.out = Append(k4.out, x) /\ x.cmd = r.cmd /\ x.status = st
  BY <1>1, <1>4, <1>6, ReplyTaken
<1>8. k3 \in ConnType /\ k3.expect = e /\ SameTaken(k5, k3)
  BY <1>7, ExpectingFields
<1>9. PICK x \in RepType : k5.out = Append(k4.out, x) /\ x.cmd = r.cmd /\ x.status = st
  BY <1>7
<1>10. /\ k3.trees = k.trees /\ k3.cur = k4.cur /\ k3.full = k.full /\ k3.state = k.state
       /\ k3.astray = k4.astray /\ k3.full = k4.full /\ k3.trees = k4.trees
       /\ k3.out = Append(k.out, x)
       /\ Core(k3.waitqueue, k3.deferred, k3.out, u.sent, u.got + 1, {})
  BY <1>5, <1>7, <1>8, <1>9 DEF Untouched, SameTaken
<1>11. CurSound(k3) /\ StackAllowed(k, k3, r, s) /\ (k3.astray => k3.full)
  BY <1>4, <1>5, <1>10 DEF Holds, CurSound, StackAllowed
<1>12. OutAllowed(k, k3, s, s)
  <2>1. ReplyAllowed(k3, x, s, s)
    BY <1>6, <1>9 DEF ReplyAllowed, SetupStatus, NewTree
  <2> QED BY <1>10, <2>1 DEF OutAllowed
<1>13. StageAllowed(k3, u, u2)
  <2>1. Kept(u, u2) /\ u2.got = u.got + 1
    BY DEF HasRead
  <2>2. Ahead(k3, u2) = PhaseAfter(u.phase, x)
    BY <1>10, <2>1, LastReply
  <2>3. \/ Ahead(k3, u2) = "start" /\ e = "NEGOTIATE"
        \/ Ahead(k3, u2) \in {"negotiated", "challenged"} /\ e = "SESSION_SETUP"
        \/ Ahead(k3, u2) = "in" /\ e = "TREE_CONNECT"
    BY <1>9, <2>2 DEF Leads
  <2>4. \A i \in (u2.got + 1)..Len(u.sent) : FALSE
    BY <1>1, <2>1
  <2>5. ExpectSound(k3.expect, Ahead(k3, u2), u.sent, u2.got)
    BY <1>8, <2>3, <2>4 DEF ExpectSound
  <2>6. UnreadSound(k3.expect, Ahead(k3, u2), u.sent, u2.got)
    BY <2>4 DEF UnreadSound
  <2>7. u.sent[Len(u.sent)].cmd # "CANCEL"
    BY <1>1, <1>6
  <2> QED BY <2>5, <2>6, <2>7 DEF StageAllowed
<1>14. s <= s
  OBVIOUS
<1>15. OpenInv(k3, u2, s)
  BY <1>8, <1>10, <1>11, <1>12, <1>13, <1>14, TakenStep
<1> QED BY <1>8, <1>10, <1>11, <1>15 DEF Received

(* A client that is logging in waits for the reply.                        *)
LEMMA LoginUnread ==
    ASSUME NEW k \in ConnType, NEW u \in ClientType, NEW s, OpenInv(k, u, s),
           u.seen = Len(k.out), NEW r, IsUnread(u, r)
    PROVE  \/ /\ k.expect = "NEGOTIATE" /\ u.phase = "start" /\ u.got + 1 = Len(u.sent)
              /\ r.cmd = "NEGOTIATE" /\ r.msg \in Hellos
           \/ /\ k.expect = "SESSION_SETUP" /\ u.got + 1 = Len(u.sent) /\ r.cmd = "SESSION_SETUP"
              /\ \/ r.msg = "negotiate" /\ u.phase = "negotiated"
                 \/ r.msg = "authenticate" /\ u.phase = "challenged"
           \/ k.expect = "TREE_CONNECT" /\ r.cmd \in Handled /\ r.msg = NULL
<1>1. u.got + 1 \in (u.got + 1)..Len(u.sent) /\ r = u.sent[u.got + 1]
  BY UnreadFacts DEF IsUnread
<1>2. Kept(u, u)
  BY DEF Kept
<1>3. Ahead(k, u) = u.phase
  BY <1>2, SamePhase
<1> QED BY <1>1, <1>3 DEF OpenInv, StageSound, UnreadSound

LEMMA ReceiveNegotiate ==
    ASSUME NEW k \in ConnType, NEW u \in ClientType, NEW s \in Nat, OpenInv(k, u, s),
           k.astray => k.full, u.seen = Len(k.out), NEW r, IsUnread(u, r),
           k.expect = "NEGOTIATE", NEW u2 \in ClientType, HasRead(u, u2),
           NEW k2, k2 = Took(k, r), NEW ret \in Rets(r),
           NEW k3, k3 = smb2_negotiate_request_cb(k2, r, ret)
    PROVE  Received(k, k3, u2, s) \/ k3 = smb2_close_context(k2)
<1>1. /\ u.phase = "start" /\ u.got + 1 = Len(u.sent)
      /\ r.cmd = "NEGOTIATE" /\ r.msg \in Hellos
  BY LoginUnread
<1>2. r.cmd \in Login /\ k2 \in ConnType /\ SameTaken(k2, k2)
  BY <1>1, TookFields DEF Login, SameTaken
<1>3. r.msg = "smb2" => ret \in {"ok", "error"}
  BY <1>1 DEF Rets
<1>4. CASE r.msg \in {"smb1", "empty"}
  <2>1. PICK st : st = IF r.msg = "smb1" THEN "again" ELSE "error"
    OBVIOUS
  <2>2. PICK e : e = "NEGOTIATE"
    OBVIOUS
  <2>3. /\ st \in Statuses \ {"pending"} /\ e \in {"NEGOTIATE", "SESSION_SETUP", "TREE_CONNECT"}
        /\ st # "ok"
    BY <2>1, <2>2 DEF Statuses
  <2>4. Leads(u.phase, r.cmd, st, e)
    BY <1>1, <2>2, <2>3 DEF Leads, PhaseAfter
  <2>5. PICK k5 : k5 = Reply(k2, r.cmd, st)
    OBVIOUS
  <2>6. k3 = Expecting(k5, e)
    BY <1>1, <1>4, <2>1, <2>2, <2>5 DEF smb2_negotiate_request_cb, Expecting
  <2>7. r.cmd # "SESSION_SETUP"
    BY <1>1
  <2> QED BY <1>1, <1>2, <2>3, <2>4, <2>5, <2>6, <2>7, LoginReply
<1>5. CASE r.msg = "smb2" /\ ret = "error"
  BY <1>5 DEF smb2_negotiate_request_cb
<1>6. CASE r.msg = "smb2" /\ ret = "ok"
  <2>1. PICK st : st = "ok"
    OBVIOUS
  <2>2. PICK e : e = "SESSION_SETUP"
    OBVIOUS
  <2>3. st \in Statuses \ {"pending"} /\ e \in {"NEGOTIATE", "SESSION_SETUP", "TREE_CONNECT"}
    BY <2>1, <2>2 DEF Statuses
  <2>4. Leads(u.phase, r.cmd, st, e)
    BY <1>1, <2>1, <2>2 DEF Leads, PhaseAfter
  <2>5. PICK k5 : k5 = Reply(k2, r.cmd, st)
    OBVIOUS
  <2>6. k3 = Expecting(k5, e)
    BY <1>1, <1>6, <2>1, <2>2, <2>5 DEF smb2_negotiate_request_cb, Expecting
  <2>7. r.cmd # "SESSION_SETUP"
    BY <1>1
  <2> QED BY <1>1, <1>2, <2>3, <2>4, <2>5, <2>6, <2>7, LoginReply
<1> QED BY <1>1, <1>3, <1>4, <1>5, <1>6 DEF Hellos

LEMMA ReceiveSetup ==
    ASSUME NEW k \in ConnType, NEW u \in ClientType, NEW s \in Nat, OpenInv(k, u, s),
           k.astray => k.full, u.seen = Len(k.out), NEW r, IsUnread(u, r),
           k.expect = "SESSION_SETUP", NEW u2 \in ClientType, HasRead(u, u2),
           NEW k2, k2 = Took(k, r), NEW ret \in Rets(r), session_counter \in Nat,
           NEW k3, k3 = smb2_session_setup_request_cb(k2, r, ret)
    PROVE  \/ Received(k, k3, u2, s)
           \/ \E e \in {"NEGOTIATE", "SESSION_SETUP", "TREE_CONNECT"} :
                 k3 = Expecting(smb2_close_context(k2), e)
<1>1. /\ u.got + 1 = Len(u.sent) /\ r.cmd = "SESSION_SETUP"
      /\ \/ r.msg = "negotiate" /\ u.phase = "negotiated"
         \/ r.msg = "authenticate" /\ u.phase = "challenged"
  BY LoginUnread
<1>2. r.cmd \in Login /\ k2 \in ConnType /\ SameTaken(k2, k2)
  BY <1>1, TookFields DEF Login, SameTaken
<1>3. ret \in {"ok", "error"} \/ (ret = "denied" /\ r.msg = "authenticate")
  BY <1>1 DEF Rets
<1>4. CASE ret = "error"
  <2>1. PICK e : e = IF r.msg = "negotiate" THEN "SESSION_SETUP" ELSE "TREE_CONNECT"
    OBVIOUS
  <2>2. k3 = Expecting(smb2_close_context(k2), e)
    BY <1>4, <2>1 DEF smb2_session_setup_request_cb, Expecting
  <2>3. e \in {"NEGOTIATE", "SESSION_SETUP", "TREE_CONNECT"}
    BY <2>1
  <2> QED BY <2>2, <2>3
<1>5. CASE ret = "ok" /\ r.msg = "negotiate"
  <2>1. PICK st : st = "more"
    OBVIOUS
  <2>2. PICK e : e = "SESSION_SETUP"
    OBVIOUS
  <2>3. /\ st \in Statuses \ {"pending"} /\ st \in {"more", "ok", "error"}
        /\ e \in {"NEGOTIATE", "SESSION_SETUP", "TREE_CONNECT"}
    BY <2>1, <2>2 DEF Statuses
  <2>4. Leads(u.phase, r.cmd, st, e)
    BY <1>1, <2>1, <2>2 DEF Leads, PhaseAfter
  <2>5. PICK k4 : k4 = [k2 EXCEPT !.session_id = session_counter]
    OBVIOUS
  <2>6. k4 \in ConnType /\ SameTaken(k2, k4)
    BY <1>2, <2>5 DEF ConnType, SameTaken
  <2>7. PICK k5 : k5 = Reply(k4, r.cmd, st)
    OBVIOUS
  <2>8. k3 = Expecting(k5, e)
    BY <1>1, <1>5, <2>1, <2>2, <2>5, <2>7 DEF smb2_session_setup_request_cb, Expecting
  <2>9. Received(k, k3, u2, s)
    BY <1>1, <1>2, <2>3, <2>4, <2>6, <2>7, <2>8, LoginReply
  <2> QED BY <2>9
<1>6. CASE ret = "ok" /\ r.msg = "authenticate"
  <2>1. PICK st : st = "ok"
    OBVIOUS
  <2>2. PICK e : e = "TREE_CONNECT"
    OBVIOUS
  <2>3. /\ st \in Statuses \ {"pending"} /\ st \in {"more", "ok", "error"}
        /\ e \in {"NEGOTIATE", "SESSION_SETUP", "TREE_CONNECT"}
    BY <2>1, <2>2 DEF Statuses
  <2>4. Leads(u.phase, r.cmd, st, e)
    BY <1>1, <2>1, <2>2 DEF Leads, PhaseAfter
  <2>5. PICK k5 : k5 = Reply(k2, r.cmd, st)
    OBVIOUS
  <2>6. k3 = Expecting(k5, e)
    BY <1>1, <1>6, <2>1, <2>2, <2>5 DEF smb2_session_setup_request_cb, Expecting
  <2>7. Received(k, k3, u2, s)
    BY <1>1, <1>2, <2>3, <2>4, <2>5, <2>6, LoginReply
  <2> QED BY <2>7
<1>7. CASE ret = "denied" /\ r.msg = "authenticate"
  <2>1. PICK st : st = "error"
    OBVIOUS
  <2>2. PICK e : e = "SESSION_SETUP"
    OBVIOUS
  <2>3. /\ st \in Statuses \ {"pending"} /\ st \in {"more", "ok", "error"}
        /\ e \in {"NEGOTIATE", "SESSION_SETUP", "TREE_CONNECT"}
    BY <2>1, <2>2 DEF Statuses
  <2>4. Leads(u.phase, r.cmd, st, e)
    BY <1>1, <2>1, <2>2 DEF Leads, PhaseAfter
  <2>5. PICK k5 : k5 = Reply(k2, r.cmd, st)
    OBVIOUS
  <2>6. k3 = Expecting(k5, e)
    BY <1>1, <1>7, <2>1, <2>2, <2>5 DEF smb2_session_setup_request_cb, Expecting
  <2>7. Received(k, k3, u2, s)
    BY <1>1, <1>2, <2>3, <2>4, <2>5, <2>6, LoginReply
  <2> QED BY <2>7
<1> QED BY <1>1, <1>3, <1>4, <1>5, <1>6, <1>7

LEMMA ClosedState ==
    ASSUME NEW k \in ConnType, k.astray => k.full, NEW s, NEW k3, k3 = smb2_close_context(k)
    PROVE  ConnInv(k3, NoClient, s) /\ k3.state = "closed"
<1>1. ConnInv(k3, NoClient, s)
  BY ClosedConn
<1>2. k3.state = "closed"
  BY DEF smb2_close_context, ConnType
<1> QED BY <1>1, <1>2

LEMMA ClosedExpecting ==
    ASSUME NEW k \in ConnType, k.astray => k.full, NEW s,
           NEW e \in {"NEGOTIATE", "SESSION_SETUP", "TREE_CONNECT"},
           NEW k3, k3 = Expecting(smb2_close_context(k), e)
    PROVE  ConnInv(k3, NoClient, s) /\ k3.state = "closed"
<1>1. PICK k4 : k4 = smb2_close_context(k)
  OBVIOUS
<1>2. ConnInv(k4, NoClient, s) /\ k4.state = "closed"
  BY <1>1, ClosedState
<1>3. k4 \in ConnType /\ k4.out = <<>> /\ (k4.astray => k4.full) /\ NoClient \in ClientType
  BY <1>2 DEF ConnInv
<1>4. k3 \in ConnType /\ SameTaken(k4, k3)
  BY <1>1, <1>3, ExpectingFields
<1>5. k3.state = "closed" /\ k3.out = <<>> /\ k3.astray = k4.astray /\ k3.full = k4.full
  BY <1>2, <1>3, <1>4 DEF SameTaken
<1> QED BY <1>3, <1>4, <1>5 DEF ConnInv

(* Receive with its LETs named.                                            *)
LEMMA ReceiveFields ==
    ASSUME NEW c \in Conns, NEW ret, Receive(c, ret)
    PROVE  \E r, k2, k3 :
              /\ r = client[c].sent[client[c].got + 1] /\ k2 = Took(conn[c], r)
              /\ conn[c].state = "open" /\ client[c].got < Len(client[c].sent)
              /\ client[c].seen = Len(conn[c].out) /\ ret \in Rets(r)
              /\ k3 = CASE conn[c].expect = "NEGOTIATE"     -> smb2_negotiate_request_cb(k2, r, ret)
                        [] conn[c].expect = "SESSION_SETUP" -> smb2_session_setup_request_cb(k2, r, ret)
                        [] conn[c].expect = "TREE_CONNECT"  -> smb2_general_client_request_cb(k2, r, ret)
              /\ conn' = [conn EXCEPT ![c] = k3]
              /\ client' = [client EXCEPT ![c] =
                    IF conn'[c].state = "open" THEN [client[c] EXCEPT !.got = @ + 1] ELSE NoClient]
              /\ session_counter' = session_counter +
                    (IF conn[c].expect = "SESSION_SETUP" /\ r.msg = "negotiate" THEN 1 ELSE 0)
              /\ s_tree_id' = s_tree_id + (IF r.cmd = "TREE_CONNECT" /\ ret = "ok" THEN 1 ELSE 0)
              /\ kind' = kind
<1>1. PICK r : r = client[c].sent[client[c].got + 1]
  OBVIOUS
<1>2. PICK k2 : k2 = Took(conn[c], r)
  OBVIOUS
<1>3. PICK k3 :
         k3 = CASE conn[c].expect = "NEGOTIATE"     -> smb2_negotiate_request_cb(k2, r, ret)
                [] conn[c].expect = "SESSION_SETUP" -> smb2_session_setup_request_cb(k2, r, ret)
                [] conn[c].expect = "TREE_CONNECT"  -> smb2_general_client_request_cb(k2, r, ret)
  OBVIOUS
<1>4. /\ conn[c].state = "open" /\ client[c].got < Len(client[c].sent)
      /\ client[c].seen = Len(conn[c].out) /\ ret \in Rets(r)
      /\ conn' = [conn EXCEPT ![c] = k3]
      /\ client' = [client EXCEPT ![c] =
            IF conn'[c].state = "open" THEN [client[c] EXCEPT !.got = @ + 1] ELSE NoClient]
      /\ session_counter' = session_counter +
            (IF conn[c].expect = "SESSION_SETUP" /\ r.msg = "negotiate" THEN 1 ELSE 0)
      /\ s_tree_id' = s_tree_id + (IF r.cmd = "TREE_CONNECT" /\ ret = "ok" THEN 1 ELSE 0)
      /\ kind' = kind
  BY <1>1, <1>2, <1>3, Zenon DEF Receive, Took, OnQueue, UpToDate
<1> QED BY <1>1, <1>2, <1>3, <1>4

LEMMA ReadOne ==
    ASSUME NEW u \in ClientType, NEW u2, u2 = [u EXCEPT !.got = @ + 1]
    PROVE  u2 \in ClientType /\ HasRead(u, u2)
  BY DEF ClientType, HasRead, Kept

LEMMA ReceiveStep ==
    ASSUME IInv, NEW c \in Conns, NEW ret, Receive(c, ret)
    PROVE  IInv'
<1>1. PICK r, k2, k3 :
         /\ r = client[c].sent[client[c].got + 1] /\ k2 = Took(conn[c], r)
         /\ conn[c].state = "open" /\ client[c].got < Len(client[c].sent)
         /\ client[c].seen = Len(conn[c].out) /\ ret \in Rets(r)
         /\ k3 = CASE conn[c].expect = "NEGOTIATE"     -> smb2_negotiate_request_cb(k2, r, ret)
                   [] conn[c].expect = "SESSION_SETUP" -> smb2_session_setup_request_cb(k2, r, ret)
                   [] conn[c].expect = "TREE_CONNECT"  -> smb2_general_client_request_cb(k2, r, ret)
         /\ conn' = [conn EXCEPT ![c] = k3]
         /\ client' = [client EXCEPT ![c] =
               IF conn'[c].state = "open" THEN [client[c] EXCEPT !.got = @ + 1] ELSE NoClient]
         /\ session_counter' = session_counter +
               (IF conn[c].expect = "SESSION_SETUP" /\ r.msg = "negotiate" THEN 1 ELSE 0)
         /\ s_tree_id' = s_tree_id + (IF r.cmd = "TREE_CONNECT" /\ ret = "ok" THEN 1 ELSE 0)
         /\ kind' = kind
  BY ReceiveFields
<1>2. PICK k : k = conn[c]
  OBVIOUS
<1>3. PICK u : u = client[c]
  OBVIOUS
<1>4. /\ k \in ConnType /\ u \in ClientType /\ s_tree_id \in Nat /\ session_counter \in Nat
      /\ OpenInv(k, u, s_tree_id) /\ (k.astray => k.full) /\ k.state = "open"
  BY <1>1, <1>2, <1>3, ConnFacts
<1>5. IsUnread(u, r) /\ u.seen = Len(k.out) /\ k2 = Took(k, r) /\ ret \in Rets(r)
  BY <1>1, <1>2, <1>3 DEF IsUnread
<1>6. PICK u2 : u2 = [u EXCEPT !.got = @ + 1]
  OBVIOUS
<1>7. u2 \in ClientType /\ HasRead(u, u2)
  BY <1>4, <1>6, ReadOne
<1>8. PICK s2 : s2 = s_tree_id + (IF r.cmd = "TREE_CONNECT" /\ ret = "ok" THEN 1 ELSE 0)
  OBVIOUS
<1>9. s2 \in Nat /\ s_tree_id <= s2 /\ s_tree_id' = s2 /\ session_counter' \in Nat
  BY <1>1, <1>4, <1>8
<1>10. k2 \in ConnType /\ (k2.astray => k2.full)
  BY <1>4, <1>5, TookFields
<1>11. \/ Received(k, k3, u2, s2)
       \/ ConnInv(k3, NoClient, s2) /\ k3.state = "closed"
  <2>1. CASE k.expect = "NEGOTIATE"
    <3>1. k3 = smb2_negotiate_request_cb(k2, r, ret)
      BY <1>1, <1>2, <2>1
    <3>2. Received(k, k3, u2, s_tree_id) \/ k3 = smb2_close_context(k2)
      BY <1>4, <1>5, <1>7, <2>1, <3>1, ReceiveNegotiate
    <3>3. r.cmd = "NEGOTIATE"
      BY <1>4, <1>5, <2>1, LoginUnread
    <3>4. s2 = s_tree_id
      BY <1>4, <1>8, <3>3
    <3>5. k3 = smb2_close_context(k2) => ConnInv(k3, NoClient, s2) /\ k3.state = "closed"
      BY <1>10, ClosedState
    <3> QED BY <3>2, <3>4, <3>5
  <2>2. CASE k.expect = "SESSION_SETUP"
    <3>1. k3 = smb2_session_setup_request_cb(k2, r, ret)
      BY <1>1, <1>2, <2>2
    <3>2. \/ Received(k, k3, u2, s_tree_id)
          \/ \E e \in {"NEGOTIATE", "SESSION_SETUP", "TREE_CONNECT"} :
                k3 = Expecting(smb2_close_context(k2), e)
      BY <1>4, <1>5, <1>7, <2>2, <3>1, ReceiveSetup
    <3>3. r.cmd = "SESSION_SETUP"
      BY <1>4, <1>5, <2>2, LoginUnread
    <3>4. s2 = s_tree_id
      BY <1>4, <1>8, <3>3
    <3>5. ASSUME NEW e \in {"NEGOTIATE", "SESSION_SETUP", "TREE_CONNECT"},
                 k3 = Expecting(smb2_close_context(k2), e)
          PROVE  ConnInv(k3, NoClient, s2) /\ k3.state = "closed"
      BY <1>10, <3>5, ClosedExpecting
    <3> QED BY <3>2, <3>4, <3>5
  <2>3. CASE k.expect = "TREE_CONNECT"
    <3>1. k3 = smb2_general_client_request_cb(k2, r, ret)
      BY <1>1, <1>2, <2>3
    <3>2. ret = "unmade" => r.cmd \in Refusable
      BY <1>5 DEF Rets, Refusable
    <3>3. Received(k, k3, u2, s2)
      BY <1>4, <1>5, <1>7, <1>8, <2>3, <3>1, <3>2, ReceiveGeneral
    <3> QED BY <3>3
  <2> QED BY <1>4, <1>5, <2>1, <2>2, <2>3, LoginUnread
<1>12. conn'[c] = k3
  BY <1>1 DEF IInv
<1>13. CASE Received(k, k3, u2, s2)
  <2>1. k3.state = "open" /\ ConnInv(k3, u2, s2)
    BY <1>4, <1>7, <1>13 DEF Received, ConnInv
  <2>2. client' = [client EXCEPT ![c] = u2]
    BY <1>1, <1>3, <1>6, <1>12, <2>1
  <2> QED BY <1>1, <1>9, <2>1, <2>2, StepInv
<1>14. CASE ConnInv(k3, NoClient, s2) /\ k3.state = "closed"
  <2>1. client' = [client EXCEPT ![c] = NoClient]
    BY <1>1, <1>12, <1>14
  <2> QED BY <1>1, <1>9, <1>14, <2>1, StepInv
<1> QED BY <1>11, <1>13, <1>14

-----------------------------------------------------------------------------
LEMMA InitInv == Init => IInv
<1> SUFFICES ASSUME Init PROVE IInv
  OBVIOUS
<1>1. /\ conn = [c \in Conns |-> NoConn] /\ client = [c \in Conns |-> NoClient]
      /\ session_counter = 1 /\ s_tree_id = 1 /\ kind \in FileCommands
  BY DEF Init
<1>2. NoConn \in ConnType /\ NoClient \in ClientType
  BY NoConnType
<1>3. NoConn.state = "none" /\ NoConn.out = <<>> /\ NoConn.astray = FALSE
  BY DEF NoConn
<1>4. ConnInv(NoConn, NoClient, s_tree_id)
  BY <1>2, <1>3 DEF ConnInv
<1>5. \A c \in Conns : conn[c] = NoConn /\ client[c] = NoClient
  BY <1>1
<1>6. conn \in [Conns -> ConnType] /\ client \in [Conns -> ClientType]
  BY <1>1, <1>2
<1> QED BY <1>1, <1>4, <1>5, <1>6 DEF IInv

LEMMA NextInv == IInv /\ [Next]_vars => IInv'
<1> SUFFICES ASSUME IInv, [Next]_vars PROVE IInv'
  OBVIOUS
<1>1. ASSUME NEW c \in Conns, Accept(c) PROVE IInv'
  BY <1>1, AcceptStep
<1>2. ASSUME NEW c \in Conns, ServiceFails(c) PROVE IInv'
  BY <1>2, ServiceFailsStep
<1>3. ASSUME NEW c \in Conns, Cull(c) PROVE IInv'
  BY <1>3, CullStep
<1>4. CASE AcceptFails
  BY <1>4, AcceptFailsStep
<1>5. ASSUME NEW c \in Conns, NEW ret, Receive(c, ret) PROVE IInv'
  BY <1>5, ReceiveStep
<1>6. ASSUME NEW c \in Conns, NEW r \in conn[c].deferred, NEW st \in {"ok", "error"},
             AnswerLater(c, r, st)
      PROVE  IInv'
  BY <1>6, AnswerLaterStep
<1>7. ASSUME NEW c \in Conns, NEW r \in conn[c].deferred, AnswerPending(c, r) PROVE IInv'
  BY <1>7, AnswerPendingStep
<1>8. ASSUME NEW c \in Conns, BreakOplock(c) PROVE IInv'
  BY <1>8, BreakOplockStep
<1>9. ASSUME NEW c \in Conns, SendLogin(c) PROVE IInv'
  BY <1>9, SendLoginStep
<1>10. ASSUME NEW c \in Conns, SendRequest(c) PROVE IInv'
  BY <1>10, SendRequestStep
<1>11. ASSUME NEW c \in Conns, NEW t \in client[c].trees, SendTreeDisconnect(c, t) PROVE IInv'
  BY <1>11, SendTreeDisconnectStep
<1>12. ASSUME NEW c \in Conns, SendLogoff(c) PROVE IInv'
  BY <1>12, SendLogoffStep
<1>13. ASSUME NEW c \in Conns, NEW r \in ToSet(client[c].sent), SendCancel(c, r) PROVE IInv'
  BY <1>13, SendCancelStep
<1>14. ASSUME NEW c \in Conns, Read(c) PROVE IInv'
  BY <1>14, ReadStep
<1>15. CASE UNCHANGED vars
  BY <1>15 DEF IInv, vars
<1> QED BY <1>1, <1>2, <1>3, <1>4, <1>5, <1>6, <1>7, <1>8, <1>9, <1>10, <1>11, <1>12, <1>13,
           <1>14, <1>15 DEF Next

(* The replies of the number m, and the final ones among those before the  *)
(* j-th; for each of these there is a refused CANCEL.                      *)
Refused(out, m) == {i \in DOMAIN out : out[i].mid = m /\ out[i].cmd = "CANCEL"}
FinalsBefore(out, j, m) == {i \in 1..(j - 1) : out[i].mid = m /\ Final(out[i])}

LEMMA FinalsRefused ==
    ASSUME NEW out \in Seq(RepType), RepliesSound(out), NEW j \in DOMAIN out,
           NEW m, m = out[j].mid, m # BREAK_ID
    PROVE  /\ Cardinality(FinalsBefore(out, j, m)) <= Cardinality(Refused(out, m))
           /\ Cardinality(Refused(out, m)) = 0 => Refused(out, m) = {}
<1> DEFINE A == FinalsBefore(out, j, m)
           R == Refused(out, m)
<1>1. Len(out) \in Nat /\ DOMAIN out = 1..Len(out)
  BY SeqElements
<1>2. IsFiniteSet(1..Len(out))
  BY <1>1, FS_Interval
<1>3. A \in SUBSET (1..Len(out)) /\ R \in SUBSET (1..Len(out)) /\ j \notin A
  BY <1>1 DEF FinalsBefore, Refused
<1>4. IsFiniteSet(A) /\ IsFiniteSet(R)
  BY <1>2, <1>3, FS_Subset
<1>5. \A i \in A : /\ i \in DOMAIN out /\ i < j /\ out[i].mid = m /\ Final(out[i])
                   /\ out[i].cmd = "CANCEL" => i \in R
  BY <1>1 DEF FinalsBefore, Refused
<1>6. CASE \A i \in A : out[i].cmd = "CANCEL"
  <2>1. A \in SUBSET R
    BY <1>5, <1>6
  <2>2. Cardinality(A) <= Cardinality(R)
    BY <1>4, <2>1, FS_Subset
  <2> QED BY <1>4, <2>2, FS_EmptySet
<1>7. ASSUME NEW n \in A, out[n].cmd # "CANCEL"
      PROVE  Cardinality(A) <= Cardinality(R)
  <2>1. j \in R
    <3>1. /\ n \in DOMAIN out /\ n < j /\ out[n].mid = out[j].mid /\ out[n].mid # BREAK_ID
          /\ Final(out[n])
      BY <1>5, <1>7
    <3>2. Final(out[j]) /\ ~(Final(out[j]) /\ out[j].cmd # "CANCEL")
      BY <1>7, <3>1 DEF RepliesSound
    <3> QED BY <3>2 DEF Refused
  <2>2. \A i \in A \ {n} : i \in R
    <3> SUFFICES ASSUME NEW i \in A, i # n, out[i].cmd # "CANCEL" PROVE FALSE
      BY <1>5
    <3>1. /\ i \in DOMAIN out /\ n \in DOMAIN out /\ out[i].mid = out[n].mid
          /\ out[i].mid # BREAK_ID /\ Final(out[i]) /\ Final(out[n]) /\ out[n].mid # BREAK_ID
      BY <1>5, <1>7
    <3>2. i < n \/ n < i
      BY <1>1, <3>1
    <3> QED BY <1>7, <3>1, <3>2 DEF RepliesSound
  <2>3. PICK B : B = A \ {n}
    OBVIOUS
  <2>4. IsFiniteSet(B) /\ Cardinality(B) = Cardinality(A) - 1 /\ j \notin B
    BY <1>3, <1>4, <1>7, <2>3, FS_RemoveElement
  <2>5. IsFiniteSet(B \cup {j}) /\ Cardinality(B \cup {j}) = Cardinality(B) + 1
    BY <2>4, FS_AddElement
  <2>6. B \cup {j} \in SUBSET R
    BY <2>1, <2>2, <2>3
  <2>7. Cardinality(B \cup {j}) <= Cardinality(R)
    BY <1>4, <2>6, FS_Subset
  <2>8. Cardinality(A) \in Nat
    BY <1>4, FS_CardinalityType
  <2> HIDE DEF A, R
  <2> QED BY <2>4, <2>5, <2>7, <2>8
<1>8. Cardinality(A) <= Cardinality(R)
  BY <1>4, <1>6, <1>7
<1> QED BY <1>4, <1>8, FS_EmptySet

(* The requests that were read with the number of a reply.                 *)
ReadWith(sent, got, m) == {i \in 1..got : sent[i].mid = m /\ sent[i].cmd # "CANCEL"}

LEMMA OneRead ==
    ASSUME NEW sent \in Seq(ReqType), NEW got \in Nat, NEW next, SentSound(sent, got, next),
           NEW i \in 1..got, NEW m, IsRequest(sent, i, m)
    PROVE  ReadWith(sent, got, m) = {i} /\ Cardinality(ReadWith(sent, got, m)) = 1
<1>1. Len(sent) \in Nat /\ DOMAIN sent = 1..Len(sent)
  BY SeqElements
<1>2. \A a \in 1..got : a \in DOMAIN sent
  BY <1>1 DEF SentSound
<1>3. \A a \in 1..got : sent[a].mid = m /\ sent[a].cmd # "CANCEL" => a = i
  BY <1>2 DEF SentSound, IsRequest
<1>4. ReadWith(sent, got, m) = {i}
  BY <1>3 DEF ReadWith, IsRequest
<1> QED BY <1>4, FS_Singleton

LEMMA InvReplies == IInv => RepliesMatched
<1> SUFFICES ASSUME IInv, NEW c \in Conns, NEW j \in DOMAIN conn[c].out,
                    conn[c].out[j].mid # BREAK_ID
             PROVE  LET p == conn[c].out[j]
                        before == {i \in 1..(j - 1) : conn[c].out[i].mid = p.mid}
                        read == {i \in 1..client[c].got : /\ client[c].sent[i].mid = p.mid
                                                          /\ client[c].sent[i].cmd # "CANCEL"}
                    IN  /\ Cardinality(read) = 1
                        /\ \A i \in read :
                              \/ p.async # 0 \/ p.cmd \in {"TREE_CONNECT", "CANCEL"}
                              \/ p.tree = client[c].sent[i].tree
                        /\ Cardinality({i \in before : Final(conn[c].out[i])}) <= Refusals(c, p.mid)
                        /\ Refusals(c, p.mid) = 0 =>
                              /\ ~Final(p) => before = {}
                              /\ \A i \in before : conn[c].out[i].async = p.async
  BY DEF RepliesMatched
<1> DEFINE out == conn[c].out
           sent == client[c].sent
           got == client[c].got
           p == out[j]
           m == p.mid
           before == {i \in 1..(j - 1) : out[i].mid = m}
<1>1. /\ conn[c] \in ConnType /\ client[c] \in ClientType
      /\ ConnInv(conn[c], client[c], s_tree_id)
      /\ conn[c].state = "open" => OpenInv(conn[c], client[c], s_tree_id)
  BY ConnFacts
<1>2. conn[c].state = "open"
  <2>1. DOMAIN <<>> = {}
    OBVIOUS
  <2> QED BY <1>1, <2>1 DEF ConnInv
<1>3. /\ SentSound(sent, got, client[c].next) /\ AnswerSound(out, sent, got) /\ RepliesSound(out)
  BY <1>1, <1>2 DEF OpenInv, Core
<1>4. out \in Seq(RepType) /\ sent \in Seq(ReqType) /\ got \in Nat
  BY <1>1 DEF ConnType, ClientType
<1>5. Len(out) \in Nat /\ DOMAIN out = 1..Len(out)
  BY <1>4, SeqElements
<1>6. PICK i \in 1..got :
         /\ IsRequest(sent, i, m)
         /\ \/ p.async # 0 \/ p.cmd \in {"TREE_CONNECT", "CANCEL"}
            \/ p.tree = sent[i].tree
  BY <1>3 DEF AnswerSound
<1>8. ReadWith(sent, got, m) = {i} /\ Cardinality(ReadWith(sent, got, m)) = 1
  <2>1. PICK next : SentSound(sent, got, next)
    BY <1>3
  <2>2. i \in 1..got /\ IsRequest(sent, i, m)
    BY <1>6
  <2> HIDE DEF sent, got, m, p, out
  <2> QED BY <1>4, <2>1, <2>2, OneRead
<1>9. /\ Cardinality(FinalsBefore(out, j, m)) <= Cardinality(Refused(out, m))
      /\ Cardinality(Refused(out, m)) = 0 => Refused(out, m) = {}
  <2>1. m = out[j].mid /\ m # BREAK_ID /\ j \in DOMAIN out
    OBVIOUS
  <2> HIDE DEF m, p, out
  <2> QED BY <1>3, <1>4, <2>1, FinalsRefused
<1>10. Refusals(c, m) = Cardinality(Refused(out, m))
  BY DEF Refusals, Refused
<1>11. {a \in before : Final(out[a])} = FinalsBefore(out, j, m)
  BY DEF FinalsBefore
<1>12. ASSUME Refused(out, m) = {}
       PROVE  /\ ~Final(p) => before = {}
              /\ \A a \in before : out[a].async = p.async
  <2> SUFFICES ASSUME NEW a \in before
               PROVE  Final(p) /\ out[a].async = p.async
    OBVIOUS
  <2>1. a \in DOMAIN out /\ j \in DOMAIN out /\ a < j /\ out[a].mid = out[j].mid
        /\ out[a].mid # BREAK_ID
    BY <1>5
  <2>2. /\ Final(out[j])
        /\ \/ out[a].async = out[j].async
           \/ \E b \in DOMAIN out : out[b].mid = out[j].mid /\ out[b].cmd = "CANCEL"
    BY <1>3, <2>1 DEF RepliesSound
  <2>3. ~\E b \in DOMAIN out : out[b].mid = out[j].mid /\ out[b].cmd = "CANCEL"
    BY <1>12 DEF Refused
  <2> QED BY <2>2, <2>3
<1>13. ReadWith(sent, got, m) = {a \in 1..got : sent[a].mid = m /\ sent[a].cmd # "CANCEL"}
  BY DEF ReadWith
<1>14. Cardinality(ReadWith(sent, got, m)) = 1
  BY <1>8
<1>15. \A a \in ReadWith(sent, got, m) :
          \/ p.async # 0 \/ p.cmd \in {"TREE_CONNECT", "CANCEL"} \/ p.tree = sent[a].tree
  BY <1>6, <1>8
<1>16. Cardinality({a \in before : Final(out[a])}) <= Refusals(c, m)
  BY <1>9, <1>10, <1>11
<1>17. Refusals(c, m) = 0 =>
          /\ ~Final(p) => before = {}
          /\ \A a \in before : out[a].async = p.async
  BY <1>9, <1>10, <1>12
<1> QED BY <1>13, <1>14, <1>15, <1>16, <1>17

LEMMA InvForgotten == IInv => NoneForgotten
<1> SUFFICES ASSUME IInv, NEW c \in Conns, conn[c].state = "open"
             PROVE  LET k == conn[c]
                        open == {client[c].sent[i].mid : i \in 1..client[c].got}
                                   \ {k.out[i].mid : i \in {j \in DOMAIN k.out : Final(k.out[j])}}
                        waiting == {q.mid : q \in {w \in ToSet(k.waitqueue) : w.cmd # "CANCEL"}}
                        later == {r \in k.deferred : r.ret = "later"}
                    IN  waiting = open /\ waiting \subseteq {r.mid : r \in later \cup Unmade(k)}
  BY DEF NoneForgotten
<1> DEFINE k == conn[c]
           u == client[c]
           open == {u.sent[i].mid : i \in 1..u.got}
                      \ {k.out[i].mid : i \in {j \in DOMAIN k.out : Final(k.out[j])}}
           waiting == {q.mid : q \in {w \in ToSet(k.waitqueue) : w.cmd # "CANCEL"}}
<1>1. OpenInv(k, u, s_tree_id) /\ k \in ConnType /\ u \in ClientType
  BY ConnFacts
<1>2. /\ SentSound(u.sent, u.got, u.next) /\ QueueSound(k.waitqueue, u.sent, u.got)
      /\ WaitSound(k.waitqueue, k.deferred, k.out, {})
      /\ NoneSkipped(k.waitqueue, k.out, u.sent, u.got)
  BY <1>1 DEF OpenInv, Core
<1>3. /\ u.sent \in Seq(ReqType) /\ u.got \in Nat
  BY <1>1 DEF ClientType
<1>4. Len(u.sent) \in Nat /\ DOMAIN u.sent = 1..Len(u.sent)
  BY <1>3, SeqElements
<1>5. \A x : x \in waiting <=>
          \E a \in DOMAIN k.waitqueue : k.waitqueue[a].cmd # "CANCEL" /\ x = k.waitqueue[a].mid
  BY DEF ToSet
<1>6. \A x : x \in open <=>
          /\ \E i \in 1..u.got : x = u.sent[i].mid
          /\ ~\E o \in DOMAIN k.out : Final(k.out[o]) /\ x = k.out[o].mid
  OBVIOUS
<1> HIDE DEF open, waiting, k, u
<1>7. ASSUME NEW x \in waiting
      PROVE  x \in open /\ x \in Mids(k.deferred)
  <2>1. PICK a \in DOMAIN k.waitqueue : k.waitqueue[a].cmd # "CANCEL" /\ x = k.waitqueue[a].mid
    BY <1>5
  <2>2. \E i \in 1..u.got : x = u.sent[i].mid
    BY <1>2, <2>1 DEF QueueSound, IsRequest
  <2>3. ~\E o \in DOMAIN k.out : Final(k.out[o]) /\ x = k.out[o].mid
    BY <1>2, <2>1 DEF WaitSound
  <2>4. x \in Mids(k.deferred)
    BY <1>2, <2>1 DEF WaitSound
  <2> QED BY <1>6, <2>2, <2>3, <2>4
<1>8. ASSUME NEW x \in open
      PROVE  x \in waiting
  <2>1. PICK i \in 1..u.got : x = u.sent[i].mid
    BY <1>6
  <2>2. ~\E o \in DOMAIN k.out : Final(k.out[o]) /\ x = k.out[o].mid
    BY <1>6
  <2>3. \E j \in 1..u.got : u.sent[j].mid = x /\ u.sent[j].cmd # "CANCEL"
    <3>1. CASE u.sent[i].cmd # "CANCEL"
      BY <2>1, <3>1
    <3>2. CASE u.sent[i].cmd = "CANCEL"
      <4>1. i \in DOMAIN u.sent
        BY <1>2, <1>3, <1>4 DEF SentSound
      <4>2. PICK j \in 1..(i - 1) : IsRequest(u.sent, j, u.sent[i].mid)
        BY <1>2, <3>2, <4>1 DEF SentSound
      <4>3. j \in 1..u.got
        BY <1>3
      <4> QED BY <2>1, <4>2, <4>3 DEF IsRequest
    <3> QED BY <3>1, <3>2
  <2>4. PICK j \in 1..u.got : u.sent[j].mid = x /\ u.sent[j].cmd # "CANCEL"
    BY <2>3
  <2>5. PICK a \in DOMAIN k.waitqueue : k.waitqueue[a].mid = x /\ k.waitqueue[a].cmd # "CANCEL"
    BY <1>2, <2>2, <2>4 DEF NoneSkipped
  <2> QED BY <1>5, <2>5
<1>9. waiting = open /\ waiting \subseteq Mids(k.deferred)
  BY <1>7, <1>8
<1>10. {r \in k.deferred : r.ret = "later"} \cup Unmade(k) = k.deferred
  BY <1>1 DEF ConnType, DueType, Unmade
<1> QED BY <1>9, <1>10 DEF Mids, waiting, open, k, u

-----------------------------------------------------------------------------
(* The invariant behind the theorems: in every open connection the         *)
(* requests, the waitqueue, the requests the application has put off and   *)
(* the replies belong together, the server expects what the client will    *)
(* send, and the client's trees are connected.                             *)
THEOREM ServerInvariant == Spec => []IInv
<1>1. Init => IInv
  BY InitInv
<1>2. IInv /\ [Next]_vars => IInv'
  BY NextInv
<1> QED BY <1>1, <1>2, PTL DEF Spec

(* Every reply answers a request that was read, with its message id and    *)
(* its tree, once, and an interim reply comes first (smb2_correlate_reply, *)
(* smb2_cancel_request_cb).                                                *)
THEOREM ServerRepliesMatched == Spec => []RepliesMatched
  BY ServerInvariant, InvReplies, PTL

(* A request that was read is on the waitqueue and will be answered, or    *)
(* has been, and nothing else waits (smb2_queue_pdu, smb2_*_request_cb).   *)
THEOREM ServerNoneForgotten == Spec => []NoneForgotten
  BY ServerInvariant, InvForgotten, PTL

(* A handler runs with the tree of its request selected unless the stack   *)
(* of trees was full when one was connected (smb2_select_tree_id,          *)
(* smb2_connect_tree_id).                                                  *)
THEOREM ServerTreeOfRequest == Spec => []TreeOfRequest
<1>1. IInv => TreeOfRequest
  BY DEF IInv, ConnInv, TreeOfRequest
<1> QED BY <1>1, ServerInvariant, PTL
=============================================================================
