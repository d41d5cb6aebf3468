---------------------------- MODULE WireReplies ----------------------------
(***************************************************************************)
(* The replies of SMB2 on the wire (lib/smb2-cmd-*.c): for every command   *)
(* the marshaller of the server, encode_x_reply, and the two decoders of   *)
(* the client, smb2_process_x_fixed and _variable, as process_x_reply.     *)
(* Conventions as in WireRequests; next is the header's next_command.      *)
(***************************************************************************)
EXTENDS WireRequests

(* NEGOTIATE, with a security buffer of n bytes, n in 1..64.  The vector   *)
(* of the security buffer is padded to the size of the fixed part.         *)
encode_negotiate_reply(n, contexts) ==
    LET len    == PAD_TO_32BIT(64)
        seclen == PAD_TO_64BIT(len)
    IN  Marshal("NEGOTIATE", 65,
                <<Ref(len + SMB2_HEADER_SIZE, n),
                  Ref(len + seclen + SMB2_HEADER_SIZE, IF contexts THEN 2 ELSE 0)>>,
                Filled("security_buffer", n, seclen)
                    \o (IF contexts THEN negotiate_contexts ELSE <<>>))

(* dialect_revision is 3.1.1 exactly when the contexts are there. *)
process_negotiate_reply(m, spl) ==
    LET sec    == m.refs[1]
        count  == m.refs[2].len
        at     == IOV_OFFSET(sec.off, 65)
        offset == IOV_OFFSET(m.refs[2].off, 65)
        need   == IF count > 0 THEN spl - SMB2_HEADER_SIZE - 64 ELSE at + sec.len
    IN  Exact(m, 65,
          IF sec.len = 0 THEN Found(0, {})
          ELSE IF \/ sec.off + sec.len > spl % 2^16
                  \/ sec.off < SMB2_HEADER_SIZE + 64
                  \/ count > 0 /\ offset \notin 0..need
               THEN Refused
          ELSE Found(need, {Part("security_buffer", at, sec.len)}
                               \cup parse_negotiate_contexts(offset, count)))

-----------------------------------------------------------------------------
encode_session_setup_reply(n) ==
    Marshal("SESSION_SETUP", 9, <<Ref(PAD_TO_32BIT(8) + SMB2_HEADER_SIZE, n)>>,
            Filled("security_buffer", n, PAD_TO_32BIT(n)))

process_session_setup_reply(m, spl) ==
    LET sec == m.refs[1]
        at  == IOV_OFFSET(sec.off, 9)
    IN  Exact(m, 9,
          IF sec.len = 0 THEN Found(0, {})
          ELSE IF \/ sec.off + sec.len > spl % 2^16
                  \/ sec.off < SMB2_HEADER_SIZE + 8
               THEN Refused
          ELSE Found(at + sec.len, {Part("security_buffer", at, sec.len)}))

-----------------------------------------------------------------------------
(* Replies that are their fixed part.  LOGOFF, TREE_DISCONNECT and         *)
(* SET_INFO replies are not looked at.                                     *)

encode_logoff_reply == FixedOnly("LOGOFF", 4)

encode_tree_connect_reply == FixedOnly("TREE_CONNECT", 16)

process_tree_connect_reply(m, spl) == Exact(m, 16, Found(0, {}))

encode_tree_disconnect_reply == FixedOnly("TREE_DISCONNECT", 4)

encode_close_reply == FixedOnly("CLOSE", 60)

process_close_reply(m, spl) == Exact(m, 60, Found(0, {}))

encode_flush_reply == FixedOnly("FLUSH", 4)

process_flush_reply(m, spl) == Exact(m, 4, Found(0, {}))

encode_echo_reply == FixedOnly("ECHO", 4)

process_echo_reply(m, spl) == Exact(m, 4, Found(0, {}))

encode_lock_reply == FixedOnly("LOCK", 4)

process_lock_reply(m, spl) == Exact(m, 4, Found(0, {}))

encode_set_info_reply == FixedOnly("SET_INFO", 2)

(* The vector of a WRITE reply is one byte longer than its fixed part. *)
encode_write_reply ==
    Message("WRITE", 17, <<>>, pad_to_64bit(<<Seg("fixed", 17)>>))

process_write_reply(m, spl) == Exact(m, 17, Found(0, {}))

(* The error reply that takes the place of any other; no error data. *)
encode_error_reply(cmd) ==
    Message(cmd, 9, <<Ref(0, 0)>>, pad_to_64bit(<<Seg("fixed", 9)>>))

process_error_reply(m, spl) ==
    Exact(m, 9, Found(m.refs[1].len, {Part("error_data", 0, m.refs[1].len)}))

-----------------------------------------------------------------------------
(* CREATE, with create contexts of c bytes. *)

encode_create_reply(c) ==
    Marshal("CREATE", 89, <<Ref(PAD_TO_64BIT(88 + SMB2_HEADER_SIZE), c)>>,
            Filled("create_context", c, PAD_TO_64BIT(c)))

process_create_reply(m, spl) ==
    LET context == m.refs[1]
        at      == IOV_OFFSET(context.off, 89)
    IN  Exact(m, 89,
          IF context.len = 0 THEN Found(0, {})
          ELSE IF context.off < SMB2_HEADER_SIZE + 88 THEN Refused
          ELSE Found(at + context.len, {Part("create_context", at, context.len)}))

(* READ, with n bytes of data, which land in the application's buffer. *)
encode_read_reply(n) ==
    Marshal("READ", 17,
            <<IF n = 0 THEN Ref(0, 0) ELSE Ref(SMB2_HEADER_SIZE + 16, n)>>,
            <<Seg("data", n)>>)

process_read_reply(m, spl) ==
    LET data == m.refs[1] IN
    IF m.size > 17 \/ (data.len > 0 /\ data.off # SMB2_HEADER_SIZE + 16)
    THEN Refused
    ELSE Found(data.len, {Part("data", 0, data.len)})

(* CHANGE_NOTIFY, packed by a passthrough server only.  The offset that is *)
(* announced is that of the request; the client does not use it.           *)
encode_change_notify_reply(n) ==
    Marshal("CHANGE_NOTIFY", 9, <<Ref(SMB2_HEADER_SIZE + 32, n)>>,
            <<Seg("output", n)>>)

process_change_notify_reply(m, spl) ==
    Exact(m, 9, Found(m.refs[1].len, {Part("output", 0, m.refs[1].len)}))

-----------------------------------------------------------------------------
(* QUERY_DIRECTORY.  The server packs one entry per name; s is the size of *)
(* an entry without its name, 80 for FILE_ID_FULL and 104 for              *)
(* FILE_ID_BOTH.  Each entry says where the next one starts.               *)

dirent_size(s, n) == PAD_TO_32BIT(s + n)

dirent_at(s, names, i) ==
    FoldLeft(LAMBDA at, n : at + dirent_size(s, n), 0, SubSeq(names, 1, i - 1))

encode_dirents(s, names) ==
    [i \in DOMAIN names |->
        [at   |-> dirent_at(s, names, i),
         len  |-> s + names[i],
         next |-> IF i = Len(names) THEN 0
                  ELSE dirent_at(s, names, i) + dirent_size(s, names[i])]]

(* A passthrough server sends n bytes that are already packed. *)
encode_query_directory_reply(n, passthrough) ==
    Marshal("QUERY_DIRECTORY", 9, <<Ref(PAD_TO_32BIT(8) + SMB2_HEADER_SIZE, n)>>,
            IF passthrough THEN <<Seg("output", n)>>
            ELSE Filled("output", n, PAD_TO_32BIT(n)))

process_query_directory_reply(m, spl) ==
    LET out == m.refs[1]
        at  == IOV_OFFSET(out.off, 9)
    IN  Exact(m, 9,
          IF out.len = 0 THEN Found(0, {})
          ELSE IF out.off + out.len > spl \/ out.off < SMB2_HEADER_SIZE + 8
               THEN Refused
          ELSE Found(at + out.len, {Part("output", at, out.len)}))

(* decode_dirents follows next from entry to entry; offsets[k] is where    *)
(* the k-th entry is read.                                                 *)
decode_dirents(dirents) ==
    LET next(at) == Max({0} \cup {dirents[i].next :
                          i \in {j \in DOMAIN dirents : dirents[j].at = at}})
        offsets[k \in 1..Len(dirents)] ==
            IF k = 1 THEN 0 ELSE offsets[k - 1] + next(offsets[k - 1])
    IN  {offsets[k] : k \in DOMAIN dirents}

-----------------------------------------------------------------------------
(* QUERY_INFO: given is the size of the C structure the handler returned   *)
(* (0 for no info), created what its encoder made of it (0 when there is   *)
(* no encoder for the class), asked what the request has room for.         *)

query_info_length(given, created, asked) ==
    IF created = 0 THEN given ELSE Min({created, asked})

encode_query_info_reply(given, created, asked, passthrough) ==
    LET n == query_info_length(given, created, asked) IN
    Marshal("QUERY_INFO", 9,
            <<Ref(IF given = 0 THEN 0 ELSE 8 + SMB2_HEADER_SIZE,
                  IF given = 0 THEN 0 ELSE n)>>,
            IF given = 0 \/ (created = 0 /\ ~passthrough) THEN <<>>
            ELSE Filled("output", n, PAD_TO_64BIT(n)))

process_query_info_reply(m, spl, next) ==
    LET out == m.refs[1]
        at  == IOV_OFFSET(out.off, 9)
        opl == out.off + out.len
    IN  Exact(m, 9,
          IF out.len = 0 THEN Found(0, {})
          ELSE IF \/ opl > spl
                  \/ next > 0 /\ opl > next
                  \/ out.off < SMB2_HEADER_SIZE + 8
               THEN Refused
          ELSE Found(at + out.len, {Part("output", at, out.len)}))

-----------------------------------------------------------------------------
(* IOCTL: VALIDATE_NEGOTIATE_INFO is always packed, into 24 bytes; other   *)
(* output of n bytes goes out in passthrough only.  The length announced   *)
(* is that of the last vector made, the fixed part when there is no        *)
(* output.                                                                 *)

encode_ioctl_reply(n, validate) ==
    LET len == IF n = 0 THEN 48 ELSE IF validate THEN 24 ELSE n IN
    Marshal("IOCTL", 49,
            <<Ref(SMB2_HEADER_SIZE + 48, 0),
              Ref(SMB2_HEADER_SIZE + 48 + PAD_TO_64BIT(0), len)>>,
            IF n = 0 THEN <<>> ELSE <<Seg("output", len)>>)

process_ioctl_reply(m, spl) ==
    LET out == m.refs[2]
        at  == IOV_OFFSET(out.off, 49)
    IN  Exact(m, 49,
          IF out.len = 0 THEN Found(0, {})
          ELSE IF out.off < SMB2_HEADER_SIZE + 48 THEN Refused
          ELSE Found(at + PAD_TO_64BIT(m.refs[1].len) + out.len,
                     {Part("output", at, out.len)}))

-----------------------------------------------------------------------------
(* Oplock and lease breaks: notifications and replies. *)

Break(s) ==
    Message("OPLOCK_BREAK", s, <<>>,
            pad_to_64bit(<<Seg("fixed", 2), Seg("break", s - 2)>>))

encode_oplock_break_reply == Break(24)

encode_oplock_break_notification == Break(24)

encode_lease_break_reply == Break(36)

encode_lease_break_notification == Break(44)

process_oplock_break_reply(m, spl) ==
    IF m.size \in {24, 36, 44}
    THEN Found(m.size - 2, {Part("break", 0, m.size - 2)}) ELSE Refused
=============================================================================
