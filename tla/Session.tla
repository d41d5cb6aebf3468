------------------------------ MODULE Session ------------------------------
(***************************************************************************)
(* Connecting to a share and disconnecting from it (lib/libsmb2.c): the    *)
(* chain of callbacks connect_cb, negotiate_cb, session_setup_cb and       *)
(* tree_connect_cb, the chain disconnect_cb_1 and disconnect_cb_2, the     *)
(* keys they derive, the stack of connected trees (lib/pdu.c) and the      *)
(* teardown, over several connections of one context.                      *)
(*                                                                         *)
(* An operation is a call of smb2_connect_share_async or of                *)
(* smb2_disconnect_share_async; its connect_data or disconnect_data is     *)
(* "data".  The race of sockets below connect_cb is the subject of module  *)
(* TcpConnect, the queues are those of PduEngine: here a request is        *)
(* written at once and awaits its reply.  Cryptography is abstracted to    *)
(* the connection a key was derived in and the messages it covers.         *)
(***************************************************************************)
EXTENDS Integers, SequencesExt

CONSTANTS
    MaxOps,     \* bound: connects and disconnects
    Dialects,   \* 202: 0x0202, 0x0210; 300: 0x0300, 0x0302; 311: 0x0311
    TreeIds,    \* ids the server gives to connected trees
    MaxTree,    \* SMB2_MAX_TREE_NESTING, the length of smb2->tree_id
    MaxRounds,  \* bound: SESSION_SETUP requests of one connection
    MaxMid      \* bound: message ids after which no raw request is made

ASSUME SessionAssumption ==
    /\ MaxOps \in Nat
    /\ Dialects \subseteq {202, 300, 311}
    /\ TreeIds \subseteq Nat \ {0}
    /\ MaxTree \in Nat \ {0}
    /\ MaxRounds \in Nat /\ MaxMid \in Nat

Ops == 1..MaxOps
NoOp == 0        \* a null connect_data; the owner of a raw request
NoTree == 0      \* 0xdeadbeef
Unsigned == -1
NoKey == [conn |-> 0, hash |-> <<>>]    \* a zeroed signing_key

VARIABLES
    kind,          \* what each operation is
    data,          \* memory of its connect_data or disconnect_data
    reports,       \* what its callback was called with
    connect_data,  \* smb2->connect_data
    connect_cb,    \* smb2->connect_cb is set: the transport is connecting
    link,          \* the transport
    conn,          \* counts the connections
    waitqueue,     \* requests that await a reply
    message_id,    \* smb2->message_id
    sec,           \* dialect, sign, seal, session_id and keys of the context
    preauth,       \* messages in smb2->preauthhash
    passthrough,   \* smb2->passthrough
    tree_id,       \* smb2->tree_id[1..tree_id_top]
    tree_id_cur,   \* smb2->tree_id_cur
    ctx,           \* the context: usable, failed in smb2_service, destroyed
    transcript,    \* server: the messages its own hash covers
    trees,         \* server: trees that are connected
    executed,      \* server: message ids of this connection it has executed a
                   \* TREE_DISCONNECT or LOGOFF for
    gone,          \* ids of trees that ended and that the library was not told of
    keyless,       \* connections whose authentication gave no session key
    leftover,      \* smb2_close_context was called with requests waiting
    mixup,         \* a reply was matched with another request
    misused        \* operations whose data was used after it was freed

opVars   == <<kind, data, reports, misused>>
linkVars == <<connect_data, connect_cb, link, conn>>
reqVars  == <<waitqueue, message_id, leftover, mixup>>
secVars  == <<sec, preauth, transcript, passthrough, keyless>>
treeVars == <<tree_id, tree_id_cur, trees, executed, gone>>
vars == <<opVars, linkVars, reqVars, secVars, treeVars, ctx>>

Init ==
    /\ kind = [o \in Ops |-> "none"]
    /\ data = [o \in Ops |-> "none"]
    /\ reports = [o \in Ops |-> <<>>]
    /\ connect_data = NoOp /\ connect_cb = FALSE
    /\ link = "closed" /\ conn = 0
    /\ waitqueue = <<>> /\ message_id = 0
    /\ sec \in [dialect : {0}, sign : BOOLEAN, seal : BOOLEAN,
                session_id : {0}, session_key : {0}, signing_key : {NoKey}]
    /\ preauth = <<>> /\ transcript = <<>>
    /\ passthrough \in BOOLEAN
    /\ tree_id = <<>> /\ tree_id_cur = 0
    /\ trees = {} /\ executed = {} /\ gone = {} /\ keyless = {}
    /\ ctx = "active"
    /\ leftover = FALSE /\ mixup = FALSE /\ misused = {}

-----------------------------------------------------------------------------
(* The application.  It has one operation under way at a time, and uses    *)
(* a connection only if it was told of its success.                        *)
Live == {o \in Ops : data[o] = "live"}
IsNext(o) == kind[o] = "none" /\ \A p \in 1..(o - 1) : kind[p] # "none"
Idle == ctx = "active" /\ Live = {}
Usable ==
    /\ Idle /\ link = "up"
    /\ \E o \in Ops :
           /\ kind[o] = "connect" /\ reports[o] = <<"ok">>
           /\ \A p \in (o + 1)..MaxOps : kind[p] = "connect" => data[p] = "refused"

(* smb2_tree_id, the id in the header of a request for the current tree.   *)
CurrentTree == IF tree_id_cur = 0 THEN NoTree ELSE tree_id[tree_id_cur]

(* smb2_pdu_add_signature, as smb2_queue_pdu calls it: the connection of   *)
(* the key that signs a request, when s is the state of the context.       *)
SigningConn(cmd, s) ==
    IF /\ s.sign \/ (cmd = "TREE_CONNECT" /\ s.dialect = 311 /\ ~s.seal)
       /\ cmd # "SESSION_SETUP"
       /\ s.session_id # 0 /\ s.session_key # 0
    THEN s.signing_key.conn
    ELSE Unsigned

(* Allocation and queueing of a request of operation o on connection n.    *)
Request(cmd, o, s, n) ==
    [cmd |-> cmd, owner |-> o, mid |-> message_id, conn |-> n,
     key |-> SigningConn(cmd, s), tree |-> CurrentTree]

Queue(q, r) == waitqueue' = Append(q, r) /\ message_id' = message_id + 1

(* The messages that the two sides hash.                                   *)
Sent(mid) == <<"request", mid>>
Received(mid) == <<"reply", mid>>

(* Variant: free_c_data always clears smb2->connect_data.                  *)
ForgetConnectData(p, o) == NoOp

(* free_c_data clears smb2->connect_data only if it is o's.                *)
FreeCData(p, o) == IF p = o THEN NoOp ELSE p

(* The callback of o is called and its data freed.  Within the callback    *)
(* the application may start the connect r, if the transport is closed.    *)
Report(o, st, r) ==
    /\ r # NoOp => IsNext(r)
    /\ kind' = [x \in Ops |-> IF x = r THEN "connect" ELSE kind[x]]
    /\ data' = [x \in Ops |-> IF x = o THEN "freed"
                              ELSE IF x = r THEN "live" ELSE data[x]]
    /\ reports' = [x \in Ops |-> IF x = o THEN Append(reports[x], st)
                                          ELSE reports[x]]
    /\ misused' = IF o \in Live THEN misused ELSE misused \cup {o}
    /\ connect_data' = FreeCData(IF r # NoOp THEN r ELSE connect_data, o)

(* smb2_close_context, after which s is left of the security state.        *)
Forgotten(s) ==
    [s EXCEPT !.session_id = 0, !.session_key = 0, !.signing_key = NoKey]

CloseContext(s, q) ==
    /\ message_id' = 0
    /\ sec' = Forgotten(s)
    /\ tree_id' = <<>> /\ tree_id_cur' = 0
    /\ trees' = {} /\ executed' = {} /\ gone' = {}
    /\ leftover' = (leftover \/ q # <<>>)

(* How the callbacks of a connect end it when something went wrong; c is   *)
(* the state of the context afterwards.                                    *)
Fail(o, s, q, c) ==
    /\ CloseContext(s, q)
    /\ waitqueue' = q
    /\ \E r \in {NoOp} \cup Ops :
           /\ Report(o, "error", r)
           /\ link' = IF r = NoOp THEN "closed" ELSE "connecting"
           /\ connect_cb' = (r # NoOp)
    /\ ctx' = c
    /\ UNCHANGED <<conn, passthrough, mixup>>

(* A callback of smb2_read_data closes the transport: the loop goes on to  *)
(* read from no socket, and the service fails.                             *)
FailReading(o, s, q) == Fail(o, s, q, "failed")

-----------------------------------------------------------------------------
(* smb2_connect_share_async.  It is refused when the transport is already  *)
(* connected, and may fail for want of memory or of an address.            *)
Connect(o) ==
    /\ Idle /\ IsNext(o)
    /\ kind' = [kind EXCEPT ![o] = "connect"]
    /\ \/ /\ data' = [data EXCEPT ![o] = "refused"]
          /\ UNCHANGED <<connect_data, connect_cb, link>>
       \/ /\ link = "closed"
          /\ data' = [data EXCEPT ![o] = "live"]
          /\ connect_data' = o /\ connect_cb' = TRUE
          /\ link' = "connecting"
    /\ UNCHANGED <<reports, misused, conn, reqVars, secVars, treeVars, ctx>>

(* Variant: the hash of the connection before is not cleared.              *)
KeepHash(h) == h

(* smb3_init_preauth_hash. *)
InitHash(h) == <<>>

(* connect_cb of a transport that is connected: NEGOTIATE is sent.  If     *)
(* there is no memory for it the operation ends, and the transport stays.  *)
ConnectCb ==
    /\ ctx = "active" /\ connect_cb
    /\ conn' = conn + 1 /\ link' = "up" /\ connect_cb' = FALSE
    /\ \/ /\ Queue(waitqueue, Request("NEGOTIATE", connect_data, sec, conn + 1))
          /\ preauth' = Append(InitHash(preauth), Sent(message_id))
          /\ transcript' = <<Sent(message_id)>>
          /\ UNCHANGED <<opVars, connect_data>>
       \/ /\ Report(connect_data, "error", NoOp)
          /\ preauth' = InitHash(preauth)
          /\ UNCHANGED <<waitqueue, message_id, transcript>>
    /\ executed' = {}
    /\ UNCHANGED <<leftover, mixup, sec, passthrough, keyless, tree_id,
                   tree_id_cur, trees, gone, ctx>>

(* connect_cb of an attempt that failed: the service fails with it.        *)
ConnectCbFails ==
    /\ ctx = "active" /\ connect_cb
    /\ Report(connect_data, "error", NoOp)
    /\ connect_cb' = FALSE /\ link' = "closed" /\ ctx' = "failed"
    /\ UNCHANGED <<conn, reqVars, secVars, treeVars>>

-----------------------------------------------------------------------------
(* A reply to the request waitqueue[i] of the current connection arrives.  *)
(* smb2_find_pdu takes the first request with its message id.              *)
FindPdu(mid) == SelectInSeq(waitqueue, LAMBDA r : r.mid = mid)

Owed(i, cmd) ==
    /\ ctx = "active" /\ link = "up"
    /\ waitqueue[i].conn = conn
    /\ waitqueue[i].cmd = cmd
    /\ FindPdu(waitqueue[i].mid) = i

Rest(i) == RemoveAt(waitqueue, i)

(* A reply that is matched with another request.  Most cannot be decoded   *)
(* as its reply; what becomes of the others is followed no further.        *)
Mixup(i) ==
    /\ ctx = "active" /\ link = "up"
    /\ waitqueue[i].conn = conn
    /\ FindPdu(waitqueue[i].mid) # i
    /\ mixup' = TRUE
    /\ ctx' = "failed"
    /\ UNCHANGED <<opVars, linkVars, waitqueue, message_id, leftover, secVars,
                   treeVars>>

(* What a server may answer to NEGOTIATE. *)
NegotiateReplies ==
    [dialect : Dialects, encryption : BOOLEAN,
     signing : {"none", "enabled", "required"}]

(* negotiate_cb leaves sign and seal as the server and the caller want.    *)
Negotiated(rep) ==
    [sec EXCEPT !.dialect = rep.dialect,
                !.sign = (@ \/ rep.signing = "required") /\ ~sec.seal]

Unsupported(rep) ==
    \/ sec.seal /\ rep.dialect = 300 /\ ~rep.encryption
    \/ sec.sign /\ rep.signing = "none"

(* send_session_setup_request, when the authentication has a token to send;*)
(* m are the messages received since the last request.                     *)
SendSessionSetup(o, s, q, m) ==
    /\ Queue(q, Request("SESSION_SETUP", o, s, conn))
    /\ preauth' = preauth \o m \o <<Sent(message_id)>>
    /\ transcript' = transcript \o m \o <<Sent(message_id)>>
    /\ sec' = s
    /\ UNCHANGED <<opVars, linkVars, leftover, mixup, passthrough, keyless,
                   treeVars, ctx>>

(* negotiate_cb with a reply.  The authentication may fail to start.       *)
NegotiateCb(i) ==
    /\ Owed(i, "NEGOTIATE")
    /\ LET e == waitqueue[i]
           m == <<Received(e.mid)>>
       IN \/ \E rep \in NegotiateReplies :
                \/ /\ Unsupported(rep)
                   /\ preauth' = preauth \o m /\ transcript' = transcript \o m
                   /\ FailReading(e.owner, [sec EXCEPT !.dialect = rep.dialect], Rest(i))
                   /\ UNCHANGED keyless
                \/ /\ ~Unsupported(rep)
                   /\ SendSessionSetup(e.owner, Negotiated(rep), Rest(i), m)
                \/ /\ ~Unsupported(rep)
                   /\ preauth' = preauth \o m /\ transcript' = transcript \o m
                   /\ FailReading(e.owner, Negotiated(rep), Rest(i))
                   /\ UNCHANGED keyless
          \/ /\ preauth' = preauth \o m /\ transcript' = transcript \o m
             /\ FailReading(e.owner, sec, Rest(i))
             /\ UNCHANGED keyless

-----------------------------------------------------------------------------
(* session_setup_cb: the exchange goes on. *)
SessionSetupMore(i) ==
    /\ Owed(i, "SESSION_SETUP")
    /\ Cardinality({j \in DOMAIN preauth : preauth[j][1] = "request"})
           <= MaxRounds
    /\ LET e == waitqueue[i]
           m == <<Received(e.mid)>>
           s == [sec EXCEPT !.session_id = conn]
       IN \/ SendSessionSetup(e.owner, s, Rest(i), m)
          \/ /\ preauth' = preauth \o m /\ transcript' = transcript \o m
             /\ FailReading(e.owner, s, Rest(i))
             /\ UNCHANGED keyless

(* Variant: keys are derived once in the life of a context.                *)
KeyOnce(s) ==
    IF s.signing_key = NoKey THEN [conn |-> s.session_key, hash |-> preauth]
    ELSE s.signing_key

(* smb2_create_signing_key derives the key from smb2->session_key, of      *)
(* whichever session that is.  Only dialect 0x0311 uses the hash; 0x0202   *)
(* and 0x0210 copy the session key, or nothing if there is none.           *)
SigningKey(s) ==
    IF s.dialect = 202 /\ s.session_key = 0 THEN s.signing_key
    ELSE [conn |-> s.session_key, hash |-> preauth]

(* session_setup_cb: the session is granted, perhaps with the order to     *)
(* encrypt.  The keys are derived if anything needs them.  The session key *)
(* may be all zeros, or not be had at all: then smb2->session_key stays    *)
(* what it was, and only a context that signs gives up.  The reply's       *)
(* signature may be wrong, and there may be no memory for the TREE_CONNECT.*)
SessionSetupDone(i) ==
    /\ Owed(i, "SESSION_SETUP")
    /\ \E encrypt, signatureok \in BOOLEAN, key \in {"valid", "zero", "none"} :
       LET o == waitqueue[i].owner
           s == [sec EXCEPT !.session_id = conn,
                            !.seal = @ \/ encrypt, !.sign = @ /\ ~encrypt]
           needed == s.sign \/ s.seal \/ s.dialect = 311
           had == [s EXCEPT !.session_key = IF key = "none" THEN @ ELSE conn]
           keyed == IF needed THEN [had EXCEPT !.signing_key = SigningKey(had)]
                    ELSE s
           refused == s.sign /\ key # "valid"
       IN /\ \/ /\ needed /\ refused
                /\ FailReading(o, s, Rest(i))
                /\ UNCHANGED <<preauth, transcript>>
             \/ /\ needed /\ ~refused /\ ~signatureok
                /\ Report(o, "error", NoOp)
                /\ sec' = keyed /\ waitqueue' = Rest(i)
                /\ UNCHANGED <<connect_cb, link, conn, message_id, leftover, mixup,
                               preauth, transcript, passthrough, treeVars, ctx>>
             \/ /\ needed => signatureok /\ ~refused
                /\ ~passthrough
                /\ FailReading(o, keyed, Rest(i))
                /\ UNCHANGED <<preauth, transcript>>
             \/ /\ needed => signatureok /\ ~refused
                /\ sec' = keyed
                /\ IF passthrough
                   THEN /\ Report(o, "ok", NoOp)
                        /\ waitqueue' = Rest(i)
                        /\ UNCHANGED <<connect_cb, link, conn, message_id>>
                   ELSE /\ Queue(Rest(i), Request("TREE_CONNECT", o, keyed, conn))
                        /\ UNCHANGED <<opVars, linkVars>>
                /\ UNCHANGED <<leftover, mixup, preauth, transcript, passthrough,
                               treeVars, ctx>>
          /\ keyless' = IF needed /\ key = "none" THEN keyless \cup {conn}
                        ELSE keyless

SessionSetupFails(i) ==
    /\ Owed(i, "SESSION_SETUP")
    /\ FailReading(waitqueue[i].owner, sec, Rest(i))
    /\ UNCHANGED <<preauth, transcript, keyless>>

-----------------------------------------------------------------------------
(* The stack of connected trees. *)

(* smb2_connect_tree_id: the id is not kept if the stack is full.          *)
TreeConnected(t) ==
    IF Len(tree_id) < MaxTree - 1
    THEN /\ tree_id' = Append(tree_id, t)
         /\ tree_id_cur' = Len(tree_id) + 1
    ELSE UNCHANGED <<tree_id, tree_id_cur>>

(* tree_id_cur after a tree was removed and top are left.                  *)
CurAfter(top) == IF tree_id_cur > top THEN top ELSE tree_id_cur

(* Variant: the tree on top of the stack is removed, whichever was meant.  *)
PopTop(t) ==
    /\ tree_id # <<>>
    /\ tree_id' = Front(tree_id)
    /\ tree_id_cur' = CurAfter(Len(tree_id) - 1)

(* smb2_disconnect_tree_id: the first entry with the id is removed.        *)
TreeDisconnected(t) ==
    LET i == SelectInSeq(tree_id, LAMBDA x : x = t)
    IN IF i # 0
       THEN /\ tree_id' = RemoveAt(tree_id, i)
            /\ tree_id_cur' = CurAfter(Len(tree_id) - 1)
       ELSE UNCHANGED <<tree_id, tree_id_cur>>

(* smb2_select_tree_id. *)
SelectTree(t) ==
    /\ ctx = "active"
    /\ t \in Range(tree_id)
    /\ tree_id_cur' = SelectInSeq(tree_id, LAMBDA x : x = t)
    /\ UNCHANGED <<opVars, linkVars, reqVars, secVars, tree_id, trees,
                   executed, gone, ctx>>

(* A reply to TREE_CONNECT, of a connect (tree_connect_cb) or of a raw     *)
(* request: the tree is connected, and the share may demand encryption.    *)
TreeConnectCb(i) ==
    /\ Owed(i, "TREE_CONNECT")
    /\ \E t \in TreeIds \ trees, encrypt \in BOOLEAN :
           /\ TreeConnected(t)
           /\ trees' = trees \cup {t}
           /\ sec' = [sec EXCEPT !.seal = @ \/ encrypt]
    /\ waitqueue' = Rest(i)
    /\ IF waitqueue[i].owner = NoOp THEN UNCHANGED <<opVars, connect_data>>
       ELSE Report(waitqueue[i].owner, "ok", NoOp)
    /\ UNCHANGED <<connect_cb, link, conn, message_id, leftover, mixup, preauth,
                   transcript, passthrough, keyless, executed, gone, ctx>>

(* A request of no operation ends, in whatever way.                        *)
RawEnds(i) ==
    /\ waitqueue[i].owner = NoOp
    /\ waitqueue' = Rest(i)
    /\ UNCHANGED <<opVars, linkVars, message_id, leftover, mixup, secVars,
                   treeVars, ctx>>

TreeConnectFails(i) ==
    /\ Owed(i, "TREE_CONNECT")
    /\ IF waitqueue[i].owner = NoOp THEN RawEnds(i)
       ELSE /\ FailReading(waitqueue[i].owner, sec, Rest(i))
            /\ UNCHANGED <<preauth, transcript, keyless>>

(* The server executes a TREE_DISCONNECT or a LOGOFF of this connection.   *)
(* Its reply comes later, or never.  (A TREE_CONNECT whose reply is lost   *)
(* leaves a tree the library does not know of, and is left out.)           *)
ServerEnds(i) ==
    /\ ctx # "destroyed" /\ link = "up"
    /\ LET e == waitqueue[i]
           ended == IF e.cmd = "LOGOFF" THEN trees ELSE {e.tree} \cap trees
       IN /\ e.conn = conn /\ e.mid \notin executed
          /\ e.cmd = "LOGOFF" \/ (e.cmd = "TREE_DISCONNECT" /\ ended # {})
          /\ executed' = executed \cup {e.mid}
          /\ trees' = trees \ ended /\ gone' = gone \cup ended
    /\ UNCHANGED <<opVars, linkVars, reqVars, secVars, tree_id, tree_id_cur, ctx>>

(* The library is told of the end of tree t.  If it holds the id more than *)
(* once, one entry too many stays.                                         *)
StillGone(t) ==
    IF \E a, b \in DOMAIN tree_id : a # b /\ tree_id[a] = t /\ tree_id[b] = t
    THEN gone ELSE gone \ {t}

(* The reply to a TREE_DISCONNECT, of an operation (disconnect_cb_1, which *)
(* goes on with LOGOFF unless there is no memory) or of a raw request.     *)
DisconnectCb1(i) ==
    /\ Owed(i, "TREE_DISCONNECT")
    /\ LET e == waitqueue[i]
       IN /\ e.mid \in executed
          /\ TreeDisconnected(e.tree)
          /\ gone' = StillGone(e.tree)
          /\ \/ /\ e.owner = NoOp
                /\ waitqueue' = Rest(i)
                /\ UNCHANGED <<opVars, linkVars, message_id>>
             \/ /\ e.owner # NoOp
                /\ Queue(Rest(i), Request("LOGOFF", e.owner, sec, conn))
                /\ UNCHANGED <<opVars, linkVars>>
             \/ /\ e.owner # NoOp
                /\ waitqueue' = Rest(i)
                /\ Report(e.owner, "error", NoOp)
                /\ UNCHANGED <<connect_cb, link, conn, message_id>>
    /\ UNCHANGED <<leftover, mixup, secVars, trees, executed, ctx>>

(* Variant: the error is not passed on. *)
DisconnectSilent(i) ==
    /\ waitqueue[i].owner # NoOp
    /\ waitqueue' = Rest(i)
    /\ UNCHANGED <<opVars, linkVars, message_id, leftover, mixup, secVars,
                   treeVars, ctx>>

(* disconnect_cb_1 with an error. *)
DisconnectFails(i) ==
    /\ waitqueue[i].owner # NoOp
    /\ waitqueue' = Rest(i)
    /\ Report(waitqueue[i].owner, "error", NoOp)
    /\ UNCHANGED <<connect_cb, link, conn, message_id, leftover, mixup, secVars,
                   treeVars, ctx>>

DisconnectRefused(i) ==
    /\ Owed(i, "TREE_DISCONNECT")
    /\ waitqueue[i].mid \notin executed
    /\ RawEnds(i) \/ DisconnectFails(i)

(* Variant: the message ids start anew with the next connection.           *)
DisconnectResets(i) ==
    /\ waitqueue' = Rest(i)
    /\ Report(waitqueue[i].owner, "ok", NoOp)
    /\ link' = "closed" /\ message_id' = 0
    /\ trees' = {} /\ gone' = gone \cup trees
    /\ UNCHANGED <<connect_cb, conn, leftover, mixup, secVars, tree_id,
                   tree_id_cur, executed>>

(* disconnect_cb_2: success is reported, and the transport closed; session *)
(* key, session id and tree ids stay.                                      *)
DisconnectCb2(i) ==
    /\ waitqueue' = Rest(i)
    /\ Report(waitqueue[i].owner, "ok", NoOp)
    /\ link' = "closed"
    /\ trees' = {} /\ gone' = gone \cup trees
    /\ UNCHANGED <<connect_cb, conn, message_id, leftover, mixup, secVars,
                   tree_id, tree_id_cur, executed>>

LogoffReply(i) == Owed(i, "LOGOFF") /\ DisconnectCb2(i) /\ ctx' = "failed"

RawReply(i) == Owed(i, "ECHO") /\ RawEnds(i)

(* smb2_disconnect_share_async.  It is refused when the transport is not   *)
(* connected, and may fail for want of memory.                             *)
Disconnect(o) ==
    /\ Idle /\ IsNext(o)
    /\ Usable \/ link # "up"
    /\ kind' = [kind EXCEPT ![o] = "disconnect"]
    /\ \/ /\ link = "up"
          /\ data' = [data EXCEPT ![o] = "live"]
          /\ Queue(waitqueue, Request("TREE_DISCONNECT", o, sec, conn))
       \/ /\ data' = [data EXCEPT ![o] = "refused"]
          /\ UNCHANGED <<waitqueue, message_id>>
    /\ UNCHANGED <<reports, misused, linkVars, leftover, mixup, secVars,
                   treeVars, ctx>>

(* The application uses the raw interface, or sends an ECHO.               *)
RawRequest(cmd) ==
    /\ Usable /\ message_id < MaxMid
    /\ Queue(waitqueue, Request(cmd, NoOp, sec, conn))
    /\ UNCHANGED <<opVars, linkVars, leftover, mixup, secVars, treeVars, ctx>>

-----------------------------------------------------------------------------
(* smb2_timeout_pdus: a request is called back with SMB2_STATUS_IO_TIMEOUT,*)
(* in a service that fails too.  What negotiate_cb then adds to the hash   *)
(* is left out: the context is closed, and the hash is used no more.       *)
TimesOut(i) ==
    /\ ctx # "destroyed"
    /\ LET e == waitqueue[i]
       IN CASE e.owner = NoOp -> RawEnds(i)
            [] e.cmd = "TREE_DISCONNECT" -> DisconnectFails(i)
            [] e.cmd = "LOGOFF" -> DisconnectCb2(i) /\ UNCHANGED ctx
            [] OTHER -> /\ Fail(e.owner, sec, Rest(i), ctx)
                        /\ UNCHANGED <<preauth, transcript, keyless>>

ServiceFails ==
    /\ ctx = "active" /\ link # "closed"
    /\ ctx' = "failed"
    /\ UNCHANGED <<opVars, linkVars, reqVars, secVars, treeVars>>

(* smb2_destroy_context: requests that wait are called back with           *)
(* SMB2_STATUS_SHUTDOWN, an attempt to connect with SMB2_STATUS_CANCELLED. *)
DestroyContext ==
    /\ ctx # "destroyed" /\ ctx' = "destroyed"
    /\ LET waiting == {e \in Range(waitqueue) : e.owner # NoOp}
           ended == {e.owner : e \in waiting}
                        \cup (IF connect_cb THEN {connect_data} ELSE {})
           ok == {e.owner : e \in {f \in waiting : f.cmd = "LOGOFF"}}
       IN /\ reports' = [o \in Ops |->
                            IF o \in ok THEN Append(reports[o], "ok")
                            ELSE IF o \in ended THEN Append(reports[o], "error")
                            ELSE reports[o]]
          /\ misused' = misused \cup (ended \ Live)
          /\ data' = [o \in Ops |->
                         IF o \in ended \cup {connect_data} THEN "freed"
                         ELSE data[o]]
    /\ waitqueue' = <<>> /\ connect_cb' = FALSE /\ connect_data' = NoOp
    /\ link' = "closed" /\ trees' = {} /\ gone' = gone \cup trees
    /\ sec' = Forgotten(sec)
    /\ UNCHANGED <<kind, conn, message_id, leftover, mixup, preauth, transcript,
                   passthrough, keyless, tree_id, tree_id_cur, executed>>

Answer(i) ==
    \/ NegotiateCb(i)
    \/ SessionSetupMore(i) \/ SessionSetupDone(i) \/ SessionSetupFails(i)
    \/ TreeConnectCb(i) \/ TreeConnectFails(i)
    \/ DisconnectCb1(i) \/ DisconnectRefused(i) \/ LogoffReply(i)
    \/ RawReply(i)
    \/ Mixup(i)

Next ==
    \/ \E o \in Ops : Connect(o) \/ Disconnect(o)
    \/ \E cmd \in {"ECHO", "TREE_CONNECT", "TREE_DISCONNECT"} : RawRequest(cmd)
    \/ \E t \in TreeIds : SelectTree(t)
    \/ ConnectCb \/ ConnectCbFails
    \/ \E i \in DOMAIN waitqueue : ServerEnds(i) \/ Answer(i) \/ TimesOut(i)
    \/ ServiceFails
    \/ DestroyContext

Spec == Init /\ [][Next]_vars

(* The transport's attempt ends, as module TcpConnect shows; requests time *)
(* out; and a context whose service failed is destroyed.                   *)
Fairness ==
    /\ WF_vars(ConnectCb \/ ConnectCbFails)
    /\ WF_vars(waitqueue # <<>> /\ TimesOut(1))
    /\ WF_vars(ctx = "failed" /\ DestroyContext)

FairSpec == Spec /\ Fairness

-----------------------------------------------------------------------------
Requests ==
    [cmd : {"NEGOTIATE", "SESSION_SETUP", "TREE_CONNECT", "TREE_DISCONNECT",
            "LOGOFF", "ECHO"},
     owner : Ops \cup {NoOp}, mid : Nat, conn : Nat,
     key : Nat \cup {Unsigned}, tree : TreeIds \cup {NoTree}]

Keys == [conn : Nat, hash : Seq({"request", "reply"} \X Nat)]

(* The state of session establishment keeps its types; in particular       *)
(* smb2->tree_id_cur never points above the top of the stack of trees, nor *)
(* the stack outside its array (smb2_connect_tree_id).                     *)
TypeOK ==
    /\ kind \in [Ops -> {"none", "connect", "disconnect"}]
    /\ data \in [Ops -> {"none", "live", "freed", "refused"}]
    /\ reports \in [Ops -> Seq({"ok", "error"})]
    /\ misused \subseteq Ops \cup {NoOp}
    /\ connect_data \in Ops \cup {NoOp} /\ connect_cb \in BOOLEAN
    /\ link \in {"closed", "connecting", "up"} /\ conn \in Nat
    /\ waitqueue \in Seq(Requests) /\ message_id \in Nat
    /\ sec \in [dialect : Dialects \cup {0}, sign : BOOLEAN, seal : BOOLEAN,
                session_id : Nat, session_key : Nat, signing_key : Keys]
    /\ preauth \in Seq({"request", "reply"} \X Nat)
    /\ transcript \in Seq({"request", "reply"} \X Nat)
    /\ passthrough \in BOOLEAN
    /\ tree_id \in Seq(TreeIds) /\ Len(tree_id) < MaxTree
    /\ tree_id_cur \in 0..Len(tree_id)
    /\ trees \subseteq TreeIds /\ gone \subseteq TreeIds
    /\ executed \subseteq Nat /\ keyless \subseteq Nat
    /\ ctx \in {"active", "failed", "destroyed"}
    /\ leftover \in BOOLEAN /\ mixup \in BOOLEAN

(* What will report operation o: a request that waits, or the transport.   *)
Carriers(o) == {i \in DOMAIN waitqueue : waitqueue[i].owner = o}

(* An operation that was accepted ends once: on whichever of the chained   *)
(* callbacks it fails, times out or is shut down, its data is freed when   *)
(* it is reported and not used again, and as long as it is not reported    *)
(* there is exactly one thing that will.  The callback may connect anew.   *)
EndsOnce ==
    /\ misused = {}
    /\ \A o \in Ops :
           /\ Len(reports[o]) = IF data[o] = "freed" THEN 1 ELSE 0
           /\ data[o] = "live" =>
                  IF connect_cb /\ connect_data = o THEN Carriers(o) = {}
                  ELSE \E i \in Carriers(o) : Carriers(o) = {i}
    /\ ctx = "destroyed" => Live = {}

(* Client and server derive the keys of a session from the same messages,  *)
(* in the same order: those of this connection, and none of an earlier one.*)
KeysAgree ==
    sec.signing_key # NoKey /\ sec.signing_key.conn = conn =>
        sec.signing_key.hash = transcript

(* A request is signed with the key of the session it belongs to, however  *)
(* often the context has been connected before.  NEGOTIATE, which belongs  *)
(* to none, is the subject of FirstSigned.  Left out is the TREE_CONNECT   *)
(* of a session that got no session key: 0x0311 signs it also when nothing *)
(* else is signed, and then with what disconnect_cb_2 left of the last one.*)
SignedWithOwn ==
    \A i \in DOMAIN waitqueue :
        LET e == waitqueue[i]
        IN e.key # Unsigned /\ e.cmd # "NEGOTIATE" =>
               \/ e.key = e.conn
               \/ e.cmd = "TREE_CONNECT" /\ e.conn \in keyless

(* "the first session setup response with ok status is the first signed    *)
(* message": nothing is signed before a session has been set up.           *)
FirstSigned ==
    \A i \in DOMAIN waitqueue :
        waitqueue[i].cmd = "NEGOTIATE" => waitqueue[i].key = Unsigned

(* A reply is never matched with a request of an earlier connection, as    *)
(* long as smb2_close_context, which starts the message ids anew, was not  *)
(* called with requests waiting.                                           *)
RepliesMatched == mixup => leftover

(* The tree ids the library keeps are those of connected trees.  Left out  *)
(* are the ids of trees that ended without a reply that says so having     *)
(* reached the library: it is on its way or has timed out, or the tree     *)
(* went with the connection that disconnect_cb_2 closed, which leaves the  *)
(* stack as it is.                                                         *)
TreesConnected == Range(tree_id) \subseteq trees \cup gone

(* With a timeout set, every operation that was accepted is reported: the  *)
(* one that is under way ends, and so do those its callbacks start, of     *)
(* which there are at most MaxOps.                                         *)
EventuallyEnds == Live # {} ~> Live = {}
=============================================================================
