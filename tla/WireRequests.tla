---------------------------- MODULE WireRequests ----------------------------
(***************************************************************************)
(* The requests of SMB2 on the wire (lib/smb2-cmd-*.c): for every command  *)
(* the marshaller of the client, encode_x_request, and the two decoders of *)
(* the server, smb2_process_x_request_fixed and _variable, as one operator *)
(* process_x_request.                                                      *)
(*                                                                         *)
(* A message has a command, the structure size it announces, the           *)
(* (offset, length) pairs it announces and its segments.  Offsets on the   *)
(* wire count from the SMB2 header, the positions in what a decoder finds  *)
(* from the end of the fixed part.  A marshaller whose allocations or io   *)
(* vectors run out gives up its PDU; that is not modelled.  spl is the     *)
(* length announced for the whole frame.                                   *)
(***************************************************************************)
EXTENDS Layout

SMB2_HEADER_SIZE == 64

Message(c, s, r, g) == [cmd |-> c, size |-> s, refs |-> r, segs |-> g]

(* An announced offset and length. *)
Ref(o, n) == [off |-> o, len |-> n]

(* Most messages: a fixed part, what follows it, and padding to 64 bits.   *)
Marshal(c, s, r, tail) ==
    Message(c, s, r, pad_to_64bit(<<Seg("fixed", Even(s))>> \o tail))

FixedOnly(c, s) == Marshal(c, s, <<>>, <<>>)

(* Position, after a fixed part of s bytes, of an announced offset. *)
IOV_OFFSET(off, s) == off - SMB2_HEADER_SIZE - Even(s)

(* A decoder that accepts only the structure size s, or any. *)
Exact(m, s, found) == IF m.size = s THEN found ELSE Refused

Unchecked == Found(0, {})

-----------------------------------------------------------------------------
(* NEGOTIATE.  Versions that include 3.1.1 append two negotiate contexts:  *)
(* PREAUTH_INTEGRITY with 38 bytes and ENCRYPTION with 8 bytes of data.    *)

ContextData == <<38, 8>>

negotiate_contexts ==
    <<Seg("preauth", 8 + 38), Seg("pad", 2), Seg("encryption", 8 + 8)>>

(* The walk over count contexts from offset: each is found behind the      *)
(* padded end of the one before.                                           *)
parse_negotiate_contexts(offset, count) ==
    {Part("preauth", offset, 8 + ContextData[1]) : i \in 1..Min({count, 1})}
        \cup {Part("encryption", offset + PAD_TO_64BIT(ContextData[1] + 8),
                   8 + ContextData[2]) : i \in 2..count}

(* d dialects; contexts: smb2->version is ANY, ANY3 or 0311. *)
encode_negotiate_request(d, contexts) ==
    LET len == PAD_TO_32BIT(36 + 2 * d)
        all == IF contexts /\ len % 8 = 4 THEN len + 4 ELSE len
    IN  Message("NEGOTIATE", 36,
                <<Ref(0, d),
                  IF contexts THEN Ref(all + SMB2_HEADER_SIZE, 2) ELSE Ref(0, 0)>>,
                pad_to_64bit(<<Seg("fixed", 36)>>
                    \o Filled("dialects", 2 * d, all - 36)
                    \o (IF contexts THEN negotiate_contexts ELSE <<>>)))

(* has_0311 holds of exactly the lists that are sent with contexts. *)
process_negotiate_request(m, spl) ==
    LET dialects == Part("dialects", 0, 2 * m.refs[1].len)
        count    == m.refs[2].len
        offset   == IOV_OFFSET(m.refs[2].off, 36)
        need     == spl - SMB2_HEADER_SIZE - 36
    IN  Exact(m, 36,
          IF count = 0 THEN Found(2 * m.refs[1].len, {dialects})
          ELSE IF offset \notin 0..need THEN Refused
          ELSE Found(need, {dialects} \cup parse_negotiate_contexts(offset, count)))

-----------------------------------------------------------------------------
(* SESSION_SETUP, TREE_CONNECT: the blob follows the fixed part and the    *)
(* server does not look at the offset.                                     *)

encode_session_setup_request(n) ==
    Marshal("SESSION_SETUP", 25, <<Ref(SMB2_HEADER_SIZE + 24, n)>>,
            <<Seg("security_buffer", n)>>)

process_session_setup_request(m, spl) ==
    Exact(m, 25, Found(m.refs[1].len, {Part("security_buffer", 0, m.refs[1].len)}))

encode_tree_connect_request(n) ==
    Marshal("TREE_CONNECT", 9, <<Ref(SMB2_HEADER_SIZE + 8, n)>>,
            <<Seg("path", n)>>)

process_tree_connect_request(m, spl) ==
    Exact(m, 9, Found(m.refs[1].len, {Part("path", 0, m.refs[1].len)}))

-----------------------------------------------------------------------------
(* CREATE: a name of n bytes (UTF-16, so n is even) and create contexts of *)
(* c bytes.  Without a name, 8 zero bytes take its place.                  *)


create_context_offset(n) ==
    PAD_TO_64BIT((IF n = 0 THEN 4 ELSE n) + SMB2_HEADER_SIZE + 56)

encode_create_request(n, c) ==
    Marshal("CREATE", 57,
            <<Ref(PAD_TO_32BIT(SMB2_HEADER_SIZE + 56), n),
              IF c = 0 THEN Ref(0, 0) ELSE Ref(create_context_offset(n), c)>>,
            (IF n = 0 THEN <<Seg("pad", 8)>> ELSE Filled("name", n, PAD_TO_64BIT(n)))
                \o Filled("create_context", c, PAD_TO_64BIT(c)))

process_create_request(m, spl) ==
    LET name == m.refs[1]  context == m.refs[2]
        gap  == IF context.off > name.off THEN PAD_TO_64BIT(context.off - name.off)
                ELSE name.len
    IN  Exact(m, 57,
          IF name.len = 0 /\ context.len = 0 THEN Found(0, {})
          ELSE IF \/ name.len > 0 /\ name.off < SMB2_HEADER_SIZE + 56
                  \/ context.len > 0 /\ context.off < SMB2_HEADER_SIZE + 56
               THEN Refused
          ELSE Found(IOV_OFFSET(name.off, 57) + gap + context.len,
                     {Part("name", 0, name.len),
                      Part("create_context", IOV_OFFSET(context.off, 57),
                           context.len)}))

-----------------------------------------------------------------------------
(* Requests that are their fixed part. *)

encode_logoff_request == FixedOnly("LOGOFF", 4)

process_logoff_request(m, spl) == Exact(m, 4, Found(0, {}))

encode_tree_disconnect_request == FixedOnly("TREE_DISCONNECT", 4)

process_tree_disconnect_request(m, spl) == Unchecked

encode_close_request == FixedOnly("CLOSE", 24)

process_close_request(m, spl) == Exact(m, 24, Found(0, {}))

encode_flush_request == FixedOnly("FLUSH", 24)

process_flush_request(m, spl) == Exact(m, 24, Found(0, {}))

encode_echo_request == FixedOnly("ECHO", 4)

process_echo_request(m, spl) == Exact(m, 4, Found(0, {}))

encode_change_notify_request == FixedOnly("CHANGE_NOTIFY", 32)

process_change_notify_request(m, spl) == Exact(m, 32, Found(0, {}))

-----------------------------------------------------------------------------
(* READ: channel information of ch bytes goes out only in passthrough; one *)
(* zero byte stands for none.                                              *)

encode_read_request(ch) ==
    Marshal("READ", 49,
            <<IF ch = 0 THEN Ref(0, 0) ELSE Ref(48 + SMB2_HEADER_SIZE, ch)>>,
            IF ch = 0 THEN <<Seg("pad", 1)>>
            ELSE Filled("channel", ch, PAD_TO_64BIT(ch)))

(* The offset of the channel information is read only when its length is   *)
(* known to be nonzero, and the length is read after it: the offset stays  *)
(* 0.                                                                      *)
process_read_request(m, spl) ==
    IF m.size > 49 \/ m.refs[1].len > 0 THEN Refused ELSE Found(0, {})

-----------------------------------------------------------------------------
(* WRITE: channel information, padding, then n bytes of data, after which  *)
(* nothing is padded.                                                      *)

write_segments(ch, n) ==
    pad_to_64bit(<<Seg("fixed", 48)>> \o Filled("channel", ch, PAD_TO_64BIT(ch)))
        \o <<Seg("data", n)>>

encode_write_request(ch, n) ==
    Message("WRITE", 49,
            <<IF ch = 0 THEN Ref(0, 0) ELSE Ref(48 + SMB2_HEADER_SIZE, ch),
              Ref(48 + SMB2_HEADER_SIZE, n)>>,
            write_segments(ch, n))

process_write_request(m, spl) ==
    LET ch == m.refs[1]
        n  == m.refs[2].len
        at == IF ch.len = 0 THEN 0 ELSE IOV_OFFSET(ch.off, 49)
    IN  IF m.size > 49 \/ (ch.len > 0 /\ ch.off < SMB2_HEADER_SIZE + 48)
        THEN Refused
        ELSE Found(IF n > 0 THEN at + PAD_TO_64BIT(ch.len) + n
                   ELSE IF ch.len > 0 THEN at + ch.len ELSE 0,
                   {Part("channel", at, ch.len),
                    Part("data", at + PAD_TO_64BIT(ch.len), n)})

-----------------------------------------------------------------------------
(* LOCK: the first of c locks is in the fixed part; the vector of the      *)
(* others has room for one more than it holds.                             *)

encode_lock_request(c) ==
    Marshal("LOCK", 48, <<Ref(0, c)>>,
            IF c > 1 THEN Filled("locks", 24 * (c - 1), PAD_TO_64BIT(24 * c))
            ELSE <<>>)

process_lock_request(m, spl) ==
    Exact(m, 48,
        IF m.refs[1].len < 1 THEN Refused
        ELSE Found(24 * (m.refs[1].len - 1),
                   {Part("locks", 0, 24 * (m.refs[1].len - 1))}))

-----------------------------------------------------------------------------
(* QUERY_DIRECTORY, with a search pattern of n bytes. *)

encode_query_directory_request(n) ==
    Marshal("QUERY_DIRECTORY", 33, <<Ref(SMB2_HEADER_SIZE + 32, n)>>,
            <<Seg("name", n)>>)

process_query_directory_request(m, spl) ==
    LET name == m.refs[1] IN
    Exact(m, 33,
        IF name.len = 0 THEN Found(0, {})
        ELSE IF \/ name.off + name.len > spl % 2^16
                \/ name.off < SMB2_HEADER_SIZE + 32
             THEN Refused
        ELSE Found(IOV_OFFSET(name.off, 33) + name.len,
                   {Part("name", IOV_OFFSET(name.off, 33), name.len)}))

-----------------------------------------------------------------------------
(* QUERY_INFO: the marshaller refuses input buffers. *)

encode_query_info_request ==
    Marshal("QUERY_INFO", 41, <<Ref(SMB2_HEADER_SIZE + 40, 0)>>, <<>>)

process_query_info_request(m, spl) ==
    LET input == m.refs[1] IN
    Exact(m, 41,
        IF input.len = 0 THEN Found(0, {})
        ELSE IF input.off < SMB2_HEADER_SIZE + 40 THEN Refused
        ELSE Found(IOV_OFFSET(input.off, 41) + input.len,
                   {Part("input", IOV_OFFSET(input.off, 41), input.len)}))

-----------------------------------------------------------------------------
(* SET_INFO: the size of the marshalled information of each class the      *)
(* client can set; a rename takes a name of n bytes.                       *)

set_info_size(class, n) ==
    CASE class = "basic"       -> 40
      [] class = "end_of_file" -> 8
      [] class = "rename"      -> 28 + n
      [] class = "disposition" -> 1

encode_set_info_request(class, n) ==
    Marshal("SET_INFO", 33,
            <<Ref(SMB2_HEADER_SIZE + 32, set_info_size(class, n))>>,
            <<Seg("input", set_info_size(class, n))>>)

process_set_info_request(m, spl) ==
    Exact(m, 33, Found(m.refs[1].len, {Part("input", 0, m.refs[1].len)}))

-----------------------------------------------------------------------------
(* IOCTL, with an input of n bytes. *)

encode_ioctl_request(n) ==
    Marshal("IOCTL", 57, <<Ref(SMB2_HEADER_SIZE + 56, n)>>, <<Seg("input", n)>>)

process_ioctl_request(m, spl) ==
    LET input == m.refs[1] IN
    Exact(m, 57,
        IF input.len = 0 THEN Found(0, {})
        ELSE IF input.off < SMB2_HEADER_SIZE + 56 THEN Refused
        ELSE Found(IOV_OFFSET(input.off, 57) + input.len,
                   {Part("input", IOV_OFFSET(input.off, 57), input.len)}))

-----------------------------------------------------------------------------
(* Acknowledgements of an oplock break and of a lease break.  The receiver *)
(* reads the structure size first and takes the rest as a variable part.   *)

encode_oplock_break_acknowledgement ==
    Message("OPLOCK_BREAK", 24, <<>>,
            pad_to_64bit(<<Seg("fixed", 2), Seg("break", 22)>>))

encode_lease_break_acknowledgement ==
    Message("OPLOCK_BREAK", 36, <<>>,
            pad_to_64bit(<<Seg("fixed", 2), Seg("break", 34)>>))

process_oplock_break_request(m, spl) ==
    IF m.size \in {24, 36}
    THEN Found(m.size - 2, {Part("break", 0, m.size - 2)}) ELSE Refused
=============================================================================
