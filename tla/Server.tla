------------------------------- MODULE Server -------------------------------
(***************************************************************************)
(* The server side of libsmb2 (libsmb2.c, smb2_serve_port and the          *)
(* smb2_*_request_cb functions).  Each connection has one PDU that stands  *)
(* for the request it expects next; a request that has been read goes on   *)
(* the waitqueue until its reply is queued.  The application's handler     *)
(* answers at once, refuses, or answers later and in any order, perhaps    *)
(* with an interim reply first.                                            *)
(*                                                                         *)
(* The client follows the protocol: it logs in before anything else, uses  *)
(* the trees it has connected, and logs off when nothing is outstanding.   *)
(* How a request is read from the wire is modelled in Wire.                *)
(***************************************************************************)
EXTENDS Integers, FiniteSetsExt, SequencesExt

CONSTANTS
    Conns,         \* connections
    FileCommands,  \* commands on a tree that are tried
    LongCommands,  \* bound: those tried in sequences of MaxRequests requests
    MaxRequests,   \* bound: requests sent once logged in, on a connection
    FewRequests,   \* bound: the same for the other commands
    MaxLogins,     \* bound: messages sent to log in, on a connection
    MaxNest,       \* SMB2_MAX_TREE_NESTING - 1
    NULL

ASSUME ServerAssumption ==
    /\ FileCommands \subseteq
          {"CREATE", "CLOSE", "FLUSH", "READ", "WRITE", "LOCK", "IOCTL", "ECHO", "QUERY_DIRECTORY",
           "CHANGE_NOTIFY", "QUERY_INFO", "SET_INFO", "OPLOCK_BREAK"}
    /\ LongCommands \subseteq FileCommands
    /\ MaxRequests \in Nat /\ FewRequests \in Nat /\ MaxLogins \in Nat /\ MaxNest \in Nat \ {0}
    /\ NULL \notin {"smb1", "smb2", "empty", "negotiate", "authenticate"}

VARIABLES
    conn,             \* the context of each connection
    client,           \* the client of each connection
    session_counter,  \* server->session_counter
    s_tree_id,        \* the static of smb2_cmd_tree_connect_reply_async
    kind,             \* bound: the file command of this behaviour
    listening         \* smb2_serve_port is in its loop

vars == <<conn, client, session_counter, s_tree_id, kind, listening>>

(* expect: the command smb2->pdu was allocated for, "TREE_CONNECT" when    *)
(* any request may come.  trees and cur: the stack of tree ids.  deferred: *)
(* the requests whose handler has not answered; ret says whether the       *)
(* application will ("later"), or has tried in vain ("unmade").  out: the  *)
(* replies, in the order they were queued.  astray: a handler has been     *)
(* called with another tree selected than the one of its request.  full: a *)
(* tree was connected for which the stack had no room.                     *)
NoConn == [state |-> "none", expect |-> NULL, message_id |-> 0, session_id |-> 0,
           trees |-> <<>>, cur |-> 0, waitqueue |-> <<>>, async_id |-> 0,
           deferred |-> {}, out |-> <<>>, astray |-> FALSE, full |-> FALSE]

(* phase: how far the client has logged in.  sent: its requests, of which  *)
(* the server has read the first got.  seen: how many replies it has read. *)
(* logins and requests count what it has sent, for the bounds.             *)
NoClient == [phase |-> "start", sent |-> <<>>, got |-> 0, seen |-> 0,
             trees |-> {}, next |-> 0, logins |-> 0, requests |-> 0]

Init ==
    /\ conn = [c \in Conns |-> NoConn]
    /\ client = [c \in Conns |-> NoClient]
    /\ session_counter = 1 /\ s_tree_id = 1
    /\ kind \in FileCommands
    /\ listening = TRUE

-----------------------------------------------------------------------------
(* Trees. *)

smb2_tree_id(k) == IF k.trees = <<>> THEN NULL ELSE k.trees[k.cur]

(* Variant: the tree stays the one that was used last. *)
smb2_select_tree_id_never(k, id) == k

(* A tree that is not connected leaves the selection as it is. *)
smb2_select_tree_id(k, id) ==
    IF \E i \in DOMAIN k.trees : k.trees[i] = id
    THEN [k EXCEPT !.cur = Min({i \in DOMAIN k.trees : k.trees[i] = id})]
    ELSE k

(* The caller does not look whether there was room. *)
smb2_connect_tree_id(k, id) ==
    IF Len(k.trees) < MaxNest
    THEN [k EXCEPT !.trees = Append(@, id), !.cur = Len(k.trees) + 1]
    ELSE [k EXCEPT !.full = TRUE]

smb2_disconnect_tree_id(k, id) ==
    IF \E i \in DOMAIN k.trees : k.trees[i] = id
    THEN LET i == Min({j \in DOMAIN k.trees : k.trees[j] = id})
             t == RemoveAt(k.trees, i)
         IN  [k EXCEPT !.trees = t, !.cur = Min({@, Len(t)})]
    ELSE k

-----------------------------------------------------------------------------
(* Replies. *)

NoTree == {"NEGOTIATE", "SESSION_SETUP", "LOGOFF", "ECHO", "TREE_CONNECT"}

BREAK_ID == -1  \* the message id of a notification, all ones

(* smb2_allocate_pdu and smb2_set_pdu_message_id *)
NewPdu(k, mid, cmd, status) ==
    [mid |-> mid, cmd |-> cmd, status |-> status, async |-> 0,
     tree |-> IF cmd \in NoTree THEN 0 ELSE smb2_tree_id(k)]

(* smb2_find_pdu: the index of the first request with the message id. *)
smb2_find_pdu(k, mid) == SelectInSeq(k.waitqueue, LAMBDA q : q.mid = mid)

(* Variant: the reply keeps the tree that is selected when it is made. *)
reply_tree_selected(p, q) == p.tree

(* The tree of p, the reply to q. *)
reply_tree(p, q) == IF p.cmd = "TREE_CONNECT" THEN p.tree ELSE q.tree

(* Variant: every reply ends its request, an interim one too. *)
ends_request_always(p) == TRUE

ends_request(p) == p.status # "pending"

(* The reply takes its message id, tree id and async id from the request,  *)
(* which leaves the waitqueue unless the reply is an interim one.  The     *)
(* async id of a header lies over its tree id.                             *)
smb2_correlate_reply(k, p) ==
    LET i == smb2_find_pdu(k, p.mid)
        q == k.waitqueue[i]
        n == k.async_id + 1
    IN  IF i = 0
        THEN [k EXCEPT !.out =
                Append(@, IF p.cmd = "OPLOCK_BREAK"
                          THEN [p EXCEPT !.mid = BREAK_ID, !.tree = 0] ELSE p)]
        ELSE IF ~ends_request(p)
        THEN [k EXCEPT !.async_id = n, !.waitqueue[i].async = n,
                       !.waitqueue[i].tree = 0,
                       !.out = Append(@, [p EXCEPT !.tree = 0, !.async = n])]
        ELSE [k EXCEPT !.waitqueue = RemoveAt(@, i),
                       !.out = Append(@, [p EXCEPT
                                  !.tree = IF q.async = 0 THEN reply_tree(p, q) ELSE 0,
                                  !.async = q.async])]

(* A reply without a message id is dropped. *)
smb2_queue_pdu(k, p) ==
    IF p.mid = 0 /\ p.cmd # "NEGOTIATE" THEN k ELSE smb2_correlate_reply(k, p)

(* smb2_close_context: the connection is gone, the queues stay (what the   *)
(* client has been told is of no more interest).                           *)
smb2_close_context(k) ==
    [k EXCEPT !.state = "closed", !.message_id = 0, !.session_id = 0,
              !.trees = <<>>, !.cur = 0, !.out = <<>>]

-----------------------------------------------------------------------------
(* The handlers.  k is the connection with the request r on its waitqueue; *)
(* ret is what the application's handler says: "ok" (0), "error" (< 0) or  *)
(* "later" (> 0), "empty" where an answer without data is an error, and    *)
(* "unmade" for an answer the marshaller refuses: there is no PDU then,    *)
(* and the request stays where it is.                                      *)

Reply(k, cmd, status) == smb2_queue_pdu(k, NewPdu(k, k.message_id, cmd, status))

Defer(k, r, ret) ==
    [k EXCEPT !.deferred = @ \cup {[mid |-> r.mid, cmd |-> r.cmd, ret |-> ret]}]

Answer(k, r, cmd, ret) ==
    IF ret \in {"later", "unmade"} THEN Defer(k, r, ret)
    ELSE Reply(k, cmd, IF ret = "ok" THEN "ok" ELSE "error")

smb2_logoff_request_cb(k, r, ret) ==
    [Answer(k, r, "LOGOFF", ret) EXCEPT !.expect = "SESSION_SETUP"]

(* A new tree id becomes the selected one; when the stack is full the      *)
(* reply names the tree that is selected.                                  *)
ConnectTree(k, mid) ==
    LET k1 == smb2_connect_tree_id(k, s_tree_id)
    IN  smb2_queue_pdu(k1, [NewPdu(k, mid, "TREE_CONNECT", "ok") EXCEPT
                              !.tree = smb2_tree_id(k1)])

smb2_tree_connect_request_cb(k, r, ret) ==
    IF ret = "ok" THEN ConnectTree(k, k.message_id) ELSE Answer(k, r, "TREE_CONNECT", ret)

(* The tree goes whatever the handler says. *)
smb2_tree_disconnect_request_cb(k, r, ret) ==
    smb2_disconnect_tree_id(Answer(k, r, "TREE_DISCONNECT", ret), r.tree)

smb2_create_request_cb(k, r, ret) == Answer(k, r, "CREATE", ret)
smb2_close_request_cb(k, r, ret) == Answer(k, r, "CLOSE", ret)
smb2_flush_request_cb(k, r, ret) == Answer(k, r, "FLUSH", ret)
smb2_read_request_cb(k, r, ret) == Answer(k, r, "READ", ret)
smb2_write_request_cb(k, r, ret) == Answer(k, r, "WRITE", ret)
smb2_lock_request_cb(k, r, ret) == Answer(k, r, "LOCK", ret)
smb2_echo_request_cb(k, r, ret) == Answer(k, r, "ECHO", ret)
smb2_query_directory_request_cb(k, r, ret) == Answer(k, r, "QUERY_DIRECTORY", ret)
smb2_change_notify_request_cb(k, r, ret) == Answer(k, r, "CHANGE_NOTIFY", ret)
smb2_query_info_request_cb(k, r, ret) == Answer(k, r, "QUERY_INFO", ret)
smb2_set_info_request_cb(k, r, ret) == Answer(k, r, "SET_INFO", ret)

(* VALIDATE_NEGOTIATE_INFO is answered without the application ("empty"). *)
smb2_ioctl_request_cb(k, r, ret) ==
    Answer(k, r, "IOCTL", IF ret = "empty" THEN "ok" ELSE ret)

(* The error reply says it answers a LOCK. *)
smb2_oplock_break_request_cb(k, r, ret) ==
    Answer(k, r, IF ret \in {"ok", "later"} THEN "OPLOCK_BREAK" ELSE "LOCK", ret)

(* A CANCEL has the message id of the request it is about; it is answered  *)
(* only when it is refused, and otherwise stays on the waitqueue.          *)
smb2_cancel_request_cb(k, r, ret) ==
    IF ret = "error" THEN Reply(k, "CANCEL", "error") ELSE k

(* The dispatch; afterwards any request may come.  Its cases for           *)
(* SMB2_SESSION_SETUP and for other commands are never taken: a PDU that   *)
(* waits for any request takes over the commands above SESSION_SETUP only  *)
(* (smb2_read_data), and those without a case have no fixed size           *)
(* (smb2_get_fixed_request_size), so that the service fails.               *)
smb2_general_client_request_cb(k, r, ret) ==
    LET k1 == [k EXCEPT !.expect = "TREE_CONNECT"] IN
    CASE r.cmd = "LOGOFF"          -> smb2_logoff_request_cb(k1, r, ret)
      [] r.cmd = "TREE_CONNECT"    -> smb2_tree_connect_request_cb(k1, r, ret)
      [] r.cmd = "TREE_DISCONNECT" -> smb2_tree_disconnect_request_cb(k1, r, ret)
      [] r.cmd = "CREATE"          -> smb2_create_request_cb(k1, r, ret)
      [] r.cmd = "CLOSE"           -> smb2_close_request_cb(k1, r, ret)
      [] r.cmd = "FLUSH"           -> smb2_flush_request_cb(k1, r, ret)
      [] r.cmd = "READ"            -> smb2_read_request_cb(k1, r, ret)
      [] r.cmd = "WRITE"           -> smb2_write_request_cb(k1, r, ret)
      [] r.cmd = "OPLOCK_BREAK"    -> smb2_oplock_break_request_cb(k1, r, ret)
      [] r.cmd = "LOCK"            -> smb2_lock_request_cb(k1, r, ret)
      [] r.cmd = "IOCTL"           -> smb2_ioctl_request_cb(k1, r, ret)
      [] r.cmd = "CANCEL"          -> smb2_cancel_request_cb(k1, r, ret)
      [] r.cmd = "ECHO"            -> smb2_echo_request_cb(k1, r, ret)
      [] r.cmd = "QUERY_DIRECTORY" -> smb2_query_directory_request_cb(k1, r, ret)
      [] r.cmd = "CHANGE_NOTIFY"   -> smb2_change_notify_request_cb(k1, r, ret)
      [] r.cmd = "QUERY_INFO"      -> smb2_query_info_request_cb(k1, r, ret)
      [] r.cmd = "SET_INFO"        -> smb2_set_info_request_cb(k1, r, ret)

-----------------------------------------------------------------------------
(* Logging in. *)

(* msg: the request lists dialects ("smb2"), none ("empty"), or is the one *)
(* of SMB1.  ret is "error" when there is no common dialect, or when the   *)
(* signing or encryption that is called for cannot be had.                 *)
smb2_negotiate_request_cb(k, r, ret) ==
    CASE r.msg = "smb1"  -> [Reply(k, "NEGOTIATE", "again") EXCEPT !.expect = "NEGOTIATE"]
      [] r.msg = "empty" -> [Reply(k, "NEGOTIATE", "error") EXCEPT !.expect = "NEGOTIATE"]
      [] r.msg = "smb2" /\ ret = "error" -> smb2_close_context(k)
      [] r.msg = "smb2" /\ ret = "ok" ->
            [Reply(k, "NEGOTIATE", "ok") EXCEPT !.expect = "SESSION_SETUP"]

(* msg: an NTLMSSP NEGOTIATE or AUTHENTICATE message.  ret is "error" when *)
(* the message is not understood, a session key is missing or the          *)
(* application does not want the session, "denied" for a wrong password.   *)
smb2_session_setup_request_cb(k, r, ret) ==
    CASE ret = "error" ->
            [smb2_close_context(k) EXCEPT
                !.expect = IF r.msg = "negotiate" THEN "SESSION_SETUP" ELSE "TREE_CONNECT"]
      [] ret = "ok" /\ r.msg = "negotiate" ->
            [Reply([k EXCEPT !.session_id = session_counter], "SESSION_SETUP", "more")
                EXCEPT !.expect = "SESSION_SETUP"]
      [] ret = "ok" /\ r.msg = "authenticate" ->
            [Reply(k, "SESSION_SETUP", "ok") EXCEPT !.expect = "TREE_CONNECT"]
      [] ret = "denied" ->
            [Reply(k, "SESSION_SETUP", "error") EXCEPT !.expect = "SESSION_SETUP"]

(* Commands whose answer may be data that cannot be marshalled: the output *)
(* of an IOCTL or CHANGE_NOTIFY, a name that is not UTF-8, an information  *)
(* that does not encode.                                                   *)
Refusable == {"IOCTL", "CHANGE_NOTIFY", "QUERY_DIRECTORY", "QUERY_INFO"}

Rets(r) ==
    CASE r.cmd = "NEGOTIATE" -> IF r.msg = "smb2" THEN {"ok", "error"} ELSE {"ok"}
      [] r.cmd = "SESSION_SETUP" ->
            {"ok", "error"} \cup (IF r.msg = "authenticate" THEN {"denied"} ELSE {})
      [] r.cmd = "CANCEL" -> {"ok", "error"}
      [] r.cmd \in {"QUERY_DIRECTORY", "QUERY_INFO", "IOCTL"} ->
            {"ok", "error", "later", "empty", "unmade"}
      [] r.cmd = "CHANGE_NOTIFY" -> {"ok", "error", "later", "unmade"}
      [] OTHER -> {"ok", "error", "later"}

(* smb2_decode_header remembers the message id and selects the tree. *)
smb2_decode_header(k, r) ==
    LET k1 == [k EXCEPT !.message_id = IF r.msg = "smb1" THEN @ ELSE r.mid]
    IN  IF r.cmd \in NoTree \/ r.async # 0 THEN k1 ELSE smb2_select_tree_id(k1, r.tree)

(* Reduction: the client reads a reply before anything else happens.  That *)
(* a request crosses a reply is covered, since the server reads late.      *)
UpToDate(c) == client[c].seen = Len(conn[c].out)

(* A request is read: it goes on the waitqueue, and its callback runs. *)
Receive(c, ret) ==
    LET r  == client[c].sent[client[c].got + 1]
        k1 == smb2_decode_header(conn[c], r)
        k2 == [k1 EXCEPT !.waitqueue = Append(@, [mid |-> r.mid, cmd |-> r.cmd,
                                                  tree |-> r.tree, async |-> 0]),
                         !.astray = @ \/ (r.cmd \notin NoTree \cup {"CANCEL"}
                                          /\ smb2_tree_id(k1) # r.tree)]
    IN  /\ conn[c].state = "open" /\ client[c].got < Len(client[c].sent) /\ UpToDate(c)
        /\ ret \in Rets(r)
        /\ conn' = [conn EXCEPT ![c] =
              CASE conn[c].expect = "NEGOTIATE"     -> smb2_negotiate_request_cb(k2, r, ret)
                [] conn[c].expect = "SESSION_SETUP" -> smb2_session_setup_request_cb(k2, r, ret)
                [] conn[c].expect = "TREE_CONNECT"  -> smb2_general_client_request_cb(k2, r, ret)]
        /\ client' = [client EXCEPT ![c] =
              IF conn'[c].state = "open" THEN [client[c] EXCEPT !.got = @ + 1] ELSE NoClient]
        /\ session_counter' = session_counter +
              (IF conn[c].expect = "SESSION_SETUP" /\ r.msg = "negotiate" THEN 1 ELSE 0)
        /\ s_tree_id' = s_tree_id + (IF r.cmd = "TREE_CONNECT" /\ ret = "ok" THEN 1 ELSE 0)
        /\ UNCHANGED <<kind, listening>>

-----------------------------------------------------------------------------
(* The application. *)

(* It answers a request it has deferred. *)
AnswerLater(c, r, status) ==
    LET k == [conn[c] EXCEPT !.deferred = @ \ {r}]
        new == r.cmd = "TREE_CONNECT" /\ status = "ok"
    IN  /\ conn[c].state = "open" /\ UpToDate(c) /\ r.ret = "later"
        /\ conn' = [conn EXCEPT ![c] =
              IF new THEN ConnectTree(k, r.mid)
              ELSE smb2_queue_pdu(k, NewPdu(k, r.mid, r.cmd, status))]
        /\ s_tree_id' = s_tree_id + (IF new THEN 1 ELSE 0)
        /\ UNCHANGED <<client, session_counter, kind, listening>>

(* It says that a request it has deferred will take its time (bound: once, *)
(* before it has been cancelled; never for a TREE_CONNECT, whose tree id   *)
(* the header of an asynchronous reply has no room for).                   *)
AnswerPending(c, r) ==
    LET k == conn[c]
        i == smb2_find_pdu(k, r.mid)
    IN  /\ k.state = "open" /\ r.cmd # "TREE_CONNECT" /\ UpToDate(c) /\ r.ret = "later"
        /\ i # 0 /\ k.waitqueue[i].cmd = r.cmd /\ k.waitqueue[i].async = 0
        /\ conn' = [conn EXCEPT ![c] =
              smb2_queue_pdu(k, NewPdu(k, r.mid, r.cmd, "pending"))]
        /\ UNCHANGED <<client, session_counter, s_tree_id, kind, listening>>

(* It notifies the client that an oplock is broken (bound: once, and only  *)
(* where acknowledgements are tried).                                      *)
BreakOplock(c) ==
    /\ conn[c].state = "open" /\ client[c].phase = "in" /\ kind = "OPLOCK_BREAK"
    /\ UpToDate(c)
    /\ BREAK_ID \notin {p.mid : p \in ToSet(conn[c].out)}
    /\ conn' = [conn EXCEPT ![c] =
          smb2_queue_pdu(@, NewPdu(@, BREAK_ID, "OPLOCK_BREAK", "ok"))]
    /\ UNCHANGED <<client, session_counter, s_tree_id, kind, listening>>

-----------------------------------------------------------------------------
(* The loop of smb2_serve_port. *)

Accept(c) ==
    /\ listening /\ conn[c].state = "none"
    /\ conn' = [conn EXCEPT ![c].state = "open", ![c].expect = "NEGOTIATE"]
    /\ UNCHANGED <<client, session_counter, s_tree_id, kind, listening>>

(* smb2_service fails: the client has gone, or sends what is not a frame. *)
ServiceFails(c) ==
    /\ conn[c].state = "open"
    /\ conn' = [conn EXCEPT ![c] = smb2_close_context(@)]
    /\ client' = [client EXCEPT ![c] = NoClient]
    /\ UNCHANGED <<session_counter, s_tree_id, kind, listening>>

(* A connection that is closed is destroyed, one in each round. *)
Cull(c) ==
    /\ listening /\ conn[c].state = "closed"
    /\ conn' = [conn EXCEPT ![c] = [NoConn EXCEPT !.state = "gone"]]
    /\ client' = [client EXCEPT ![c] = NoClient]
    /\ UNCHANGED <<session_counter, s_tree_id, kind, listening>>

(* accept fails: the loop ends and every connection is destroyed. *)
AcceptFails ==
    /\ listening /\ listening' = FALSE
    /\ conn' = [c \in Conns |-> [NoConn EXCEPT !.state = "gone"]]
    /\ client' = [c \in Conns |-> NoClient]
    /\ UNCHANGED <<session_counter, s_tree_id, kind>>

-----------------------------------------------------------------------------
(* The client. *)

Login == {"NEGOTIATE", "SESSION_SETUP"}

MaySend(c, cmd) ==
    /\ conn[c].state = "open" /\ UpToDate(c)
    /\ IF cmd \in Login THEN client[c].logins < MaxLogins
       ELSE client[c].requests < (IF kind \in LongCommands THEN MaxRequests ELSE FewRequests)

Request(c, cmd, msg, tree) ==
    [mid |-> client[c].next, cmd |-> cmd, msg |-> msg, tree |-> tree, async |-> 0]

(* The client after it has sent r. *)
Sending(k, r) ==
    [k EXCEPT !.sent = Append(@, r),
              !.next = IF r.cmd = "CANCEL" THEN @ ELSE @ + 1,
              !.logins = IF r.cmd \in Login THEN @ + 1 ELSE @,
              !.requests = IF r.cmd \in Login THEN @ ELSE @ + 1]

Send(c, r) ==
    /\ MaySend(c, r.cmd)
    /\ client' = [client EXCEPT ![c] = Sending(@, r)]
    /\ UNCHANGED <<conn, session_counter, s_tree_id, kind, listening>>

Answered(c, mid) ==
    \E i \in 1..client[c].seen : conn[c].out[i].mid = mid /\ conn[c].out[i].status # "pending"

Quiet(c) ==
    /\ UpToDate(c)
    /\ \A r \in ToSet(client[c].sent) : Answered(c, r.mid)

SendLogin(c) ==
    /\ Quiet(c)
    /\ \/ /\ client[c].phase = "start"
          /\ \E msg \in {"smb2"} \cup (IF client[c].next = 0 THEN {"smb1", "empty"} ELSE {}) :
                Send(c, Request(c, "NEGOTIATE", msg, 0))
       \/ client[c].phase = "negotiated" /\ Send(c, Request(c, "SESSION_SETUP", "negotiate", 0))
       \/ client[c].phase = "challenged" /\ Send(c, Request(c, "SESSION_SETUP", "authenticate", 0))

SendRequest(c) ==
    /\ client[c].phase = "in"
    /\ \/ Send(c, Request(c, "TREE_CONNECT", NULL, 0))
       \/ \E t \in IF kind = "ECHO" THEN {0} ELSE client[c].trees :
             Send(c, Request(c, kind, NULL, t))

(* The client takes a tree it disconnects for gone. *)
SendTreeDisconnect(c, t) ==
    /\ client[c].phase = "in" /\ MaySend(c, "TREE_DISCONNECT")
    /\ client' = [client EXCEPT ![c] =
          [Sending(client[c], Request(c, "TREE_DISCONNECT", NULL, t)) EXCEPT !.trees = @ \ {t}]]
    /\ UNCHANGED <<conn, session_counter, s_tree_id, kind, listening>>

SendLogoff(c) ==
    /\ client[c].phase = "in" /\ Quiet(c) /\ MaySend(c, "LOGOFF")
    /\ client' = [client EXCEPT ![c] =
          [Sending(@, Request(c, "LOGOFF", NULL, 0)) EXCEPT !.trees = {}, !.phase = "negotiated"]]
    /\ UNCHANGED <<conn, session_counter, s_tree_id, kind, listening>>

(* A CANCEL crosses the reply, or names the async id of an interim one. *)
SendCancel(c, r) ==
    /\ client[c].phase = "in" /\ r.cmd \notin Login \cup {"CANCEL"} /\ ~Answered(c, r.mid)
    /\ \E n \in 0..conn[c].async_id :
          Send(c, [Request(c, "CANCEL", NULL, r.tree) EXCEPT !.mid = r.mid, !.async = n])

(* The client reads a reply. *)
Read(c) ==
    LET p == conn[c].out[client[c].seen + 1]
    IN
    /\ conn[c].state = "open" /\ client[c].seen < Len(conn[c].out)
    /\ client' = [client EXCEPT
          ![c].seen = @ + 1,
          ![c].trees = IF p.cmd = "TREE_CONNECT" /\ p.status = "ok" THEN @ \cup {p.tree} ELSE @,
          ![c].phase = CASE p.cmd = "NEGOTIATE" /\ p.status = "ok" -> "negotiated"
                         [] p.cmd = "SESSION_SETUP" ->
                              (CASE p.status = "more" -> "challenged"
                                 [] p.status = "ok" -> "in"
                                 [] p.status = "error" -> "negotiated")
                         [] OTHER -> @]
    /\ UNCHANGED <<conn, session_counter, s_tree_id, kind, listening>>

-----------------------------------------------------------------------------
Next ==
    \/ \E c \in Conns : Accept(c)
    \/ \E c \in Conns : ServiceFails(c)
    \/ \E c \in Conns : Cull(c)
    \/ AcceptFails
    \/ \E c \in Conns : \E ret \in {"ok", "error", "later", "empty", "unmade", "denied"} :
          Receive(c, ret)
    \/ \E c \in Conns : \E r \in conn[c].deferred, st \in {"ok", "error"} :
          AnswerLater(c, r, st)
    \/ \E c \in Conns : \E r \in conn[c].deferred : AnswerPending(c, r)
    \/ \E c \in Conns : BreakOplock(c)
    \/ \E c \in Conns : SendLogin(c)
    \/ \E c \in Conns : SendRequest(c)
    \/ \E c \in Conns : \E t \in client[c].trees : SendTreeDisconnect(c, t)
    \/ \E c \in Conns : SendLogoff(c)
    \/ \E c \in Conns : \E r \in ToSet(client[c].sent) : SendCancel(c, r)
    \/ \E c \in Conns : Read(c)

Spec == Init /\ [][Next]_vars

-----------------------------------------------------------------------------
Final(p) == p.status # "pending"

(* CANCELs of the request the server has refused: each is a final reply    *)
(* more.                                                                   *)
Refusals(c, mid) == Cardinality({i \in DOMAIN conn[c].out :
                        conn[c].out[i].mid = mid /\ conn[c].out[i].cmd = "CANCEL"})

(* Every reply but a notification answers a request of this client: it has *)
(* the message id and tree of a request the server has read, whatever tree *)
(* is selected when it is made; a request is answered once, with the async *)
(* id of its interim reply when there was one, and an interim reply never  *)
(* follows the final one (smb2_correlate_reply).  Only a refused CANCEL    *)
(* makes for a second answer (smb2_cancel_request_cb).                     *)
RepliesMatched ==
    \A c \in Conns : \A j \in DOMAIN conn[c].out :
        LET p == conn[c].out[j]
            before == {i \in 1..(j - 1) : conn[c].out[i].mid = p.mid}
            read == {i \in 1..client[c].got : /\ client[c].sent[i].mid = p.mid
                                              /\ client[c].sent[i].cmd # "CANCEL"}
        IN  p.mid # BREAK_ID =>
              /\ Cardinality(read) = 1
              /\ \A i \in read :
                    \/ p.async # 0 \/ p.cmd \in {"TREE_CONNECT", "CANCEL"}
                    \/ p.tree = client[c].sent[i].tree
              /\ Cardinality({i \in before : Final(conn[c].out[i])}) <= Refusals(c, p.mid)
              /\ Refusals(c, p.mid) = 0 =>
                    /\ ~Final(p) => before = {}
                    /\ \A i \in before : conn[c].out[i].async = p.async

(* Requests whose answer could not be marshalled. *)
Unmade(k) == {r \in k.deferred : r.ret = "unmade" /\ r.cmd \in Refusable}

(* No request is forgotten and none lingers: of the requests an open       *)
(* connection has read, those without a final reply are on the waitqueue   *)
(* and the application is going to answer them, and but for CANCELs        *)
(* nothing else is there (smb2_queue_pdu, smb2_*_request_cb).  The one     *)
(* exception: a request whose answer could not be marshalled is left       *)
(* waiting by smb2_ioctl_request_cb, smb2_change_notify_request_cb,        *)
(* smb2_query_directory_request_cb and smb2_query_info_request_cb.         *)
NoneForgotten ==
    \A c \in Conns : conn[c].state = "open" =>
        LET k == conn[c]
            open == {client[c].sent[i].mid : i \in 1..client[c].got}
                       \ {k.out[i].mid : i \in {j \in DOMAIN k.out : Final(k.out[j])}}
            waiting == {q.mid : q \in {w \in ToSet(k.waitqueue) : w.cmd # "CANCEL"}}
            later == {r \in k.deferred : r.ret = "later"}
        IN  waiting = open /\ waiting \subseteq {r.mid : r \in later \cup Unmade(k)}

(* A handler runs with the tree of its request selected, however connects, *)
(* disconnects and deferred answers on several trees mix                   *)
(* (smb2_select_tree_id, smb2_disconnect_tree_id), as long as there is     *)
(* room for every tree: without, smb2_cmd_tree_connect_reply_async answers *)
(* with the id of another tree, which the client may be disconnecting.     *)
TreeOfRequest == \A c \in Conns : conn[c].astray => conn[c].full
=============================================================================
