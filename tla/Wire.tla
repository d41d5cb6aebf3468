-------------------------------- MODULE Wire --------------------------------
(***************************************************************************)
(* Frames on the wire.  One side marshals a frame: a length (SPL) and one  *)
(* or several chained PDUs, in the clear or encrypted as a whole.  The     *)
(* other side takes it apart with the receive state machine of             *)
(* smb2_read_data, which never sees where a PDU ends: it learns the length *)
(* of each part from the part before.  The server receives requests, the   *)
(* client replies.                                                         *)
(*                                                                         *)
(* What a QUERY_INFO or IOCTL reply carries is marshalled and decoded too  *)
(* (DataCodecs).                                                           *)
(*                                                                         *)
(* A receive action stands for all reads of one phase; Dry is the EAGAIN   *)
(* that may separate any two reads.                                        *)
(***************************************************************************)
EXTENDS WireReplies, DataCodecs

CONSTANTS
    Lengths,      \* lengths of variable parts that are tried
    MaxChain,     \* bound: PDUs chained in a frame
    MaxEntries,   \* bound: directory entries in a reply
    Names,        \* names that are tried, in UTF-8
    Texts,        \* strings of bytes that are tried as UTF-8
    Utf16s        \* strings of code units that are tried as UTF-16

ASSUME WireAssumption ==
    /\ Lengths \subseteq Nat
    /\ MaxChain \in Nat \ {0} /\ MaxEntries \in Nat \ {0}
    /\ \A t \in Names : WellFormed(t)

VARIABLES
    dir,             \* what is travelling: "request" or "reply"
    passthrough,     \* smb2->passthrough of the server that reads a SET_INFO
    frame,           \* PDUs of the frame that is being received
    enc,             \* the frame is read from the decrypted buffer
    cur,             \* index of the PDU that is being received
    recv_state,      \* smb2->recv_state
    num_done,        \* smb2->in.num_done
    want,            \* bytes of the last vector added to smb2->in
    payload_offset,  \* smb2->payload_offset
    niov,            \* smb2->in.niov
    hdrIov,          \* index of the vector that holds the current header
    iov_offset,      \* the local of smb2_read_data
    found,           \* what was decoded of the current PDU
    skew,            \* vectors between the header of the last PDU that was
                     \* checked and the start of what its signature covers
    left,            \* bytes of the last frame that were never read
    failed           \* smb2_read_data has returned an error

phase == <<cur, recv_state, num_done, want, payload_offset, niov, hdrIov>>
vars  == <<dir, passthrough, frame, enc, phase, iov_offset, found, skew, left, failed>>

-----------------------------------------------------------------------------
(* The messages that are tried. *)

EvenLengths == {2 * n : n \in Lengths}

Requests ==
    {encode_session_setup_request(n) : n \in Lengths}
        \cup {encode_tree_connect_request(n) : n \in EvenLengths}
        \cup {encode_create_request(n, c) : n \in EvenLengths, c \in Lengths}
        \cup {encode_logoff_request, encode_tree_disconnect_request,
              encode_close_request, encode_flush_request, encode_echo_request,
              encode_change_notify_request, encode_read_request(0),
              encode_query_info_request, encode_oplock_break_acknowledgement,
              encode_lease_break_acknowledgement}
        \cup {encode_write_request(c, n) : c, n \in Lengths}
        \cup {encode_lock_request(c) : c \in 1..3}
        \cup {encode_query_directory_request(n) : n \in EvenLengths}
        \cup {encode_set_info_request(class, n) : n \in EvenLengths,
                class \in {"basic", "end_of_file", "rename", "disposition"}}
        \cup {encode_ioctl_request(n) : n \in Lengths}

Replies ==
    {encode_session_setup_reply(n) : n \in Lengths}
        \cup {encode_logoff_reply, encode_tree_connect_reply,
              encode_tree_disconnect_reply, encode_close_reply,
              encode_flush_reply, encode_echo_reply, encode_lock_reply,
              encode_set_info_reply, encode_write_reply,
              encode_oplock_break_reply, encode_oplock_break_notification,
              encode_lease_break_reply, encode_lease_break_notification}
        \cup {encode_create_reply(c) : c \in Lengths}
        \cup {encode_read_reply(n) : n \in Lengths}
        \cup {encode_change_notify_reply(n) : n \in Lengths}
        \cup {encode_query_directory_reply(n, TRUE) : n \in Lengths}
        \cup {encode_query_info_reply(n + 1, n, a, FALSE) :
                n \in Lengths \ {0}, a \in Lengths}
        \cup {encode_query_info_reply(n, 0, n, TRUE) : n \in Lengths}
        \cup {encode_query_info_reply(1, 0, 1, FALSE)}
        \cup {encode_ioctl_reply(n, FALSE) : n \in Lengths}
        \cup {encode_ioctl_reply(24, TRUE)}

(* A PDU: its message, the status in its header, the directory entries or  *)
(* the data its output consists of.                                        *)
Pdu(m, status, dirents) ==
    [m |-> m, status |-> status, dirents |-> dirents, data |-> NoData]

DirectoryReplies ==
    {LET ents == encode_dirents(s, names)
         last == ents[Len(ents)]
     IN  Pdu(encode_query_directory_reply(last.at + PAD_TO_32BIT(last.len), FALSE),
             "ok", ents) :
        s \in {80, 104},
        names \in UNION {[1..k -> EvenLengths] : k \in 1..MaxEntries}}

ReplyPdus ==
    {Pdu(m, "ok", <<>>) : m \in Replies}
        \cup {p \in DirectoryReplies : Len(p.dirents) <= 2}
        \cup {Pdu(encode_error_reply(c), "error", <<>>) : c \in {"CREATE", "CLOSE"}}

Ascii(t) == \A i \in DOMAIN t : t[i] < 128

(* The information that this library's server returns.  To bound the       *)
(* model, the names of several streams are ASCII.                          *)
Infos ==
    {encode_file_basic_info, encode_file_standard_info, encode_file_position_info,
     encode_file_network_open_info, encode_file_fs_size_info,
     encode_file_fs_device_info, encode_file_fs_full_size_info,
     encode_file_fs_object_id_info, encode_file_fs_sector_size_info,
     encode_file_fs_control_info}
        \cup {encode_file_all_info(t) : t \in Names}
        \cup {encode_file_normalized_name_info(t, given) : t \in Names, given \in {0, 12}}
        \cup {encode_file_stream_info(ts) :
                ts \in [1..1 -> Names] \cup
                        UNION {[1..k -> {t \in Names : Ascii(t)}] : k \in 2..MaxEntries}}
        \cup {encode_file_fs_volume_info(t) : t \in Names}
        \cup {encode_file_fs_attribute_info(s \o t) :
                s \in {<<70, 65, 84>>, <<78, 84, 70, 83>>}, t \in Names}

(* Another server's descriptors: entries of three kinds, and a last one of *)
(* any.                                                                    *)
Descriptors ==
    {peer_security_descriptor(order, k, 1, aces \o last) :
        order \in {<<"owner", "group", "dacl">>, <<"dacl", "owner", "group">>},
        k \in 1..2,
        aces \in UNION {[1..n -> {Ace("plain", 1, 0), Ace("plain", 2, 0),
                                  Ace("object", 1, 0)}] : n \in 0..2},
        last \in {<<>>, <<Ace("callback", 1, 4)>>, <<Ace("raw", 0, 8)>>}}

Links ==
    {peer_reparse_data_buffer(smb2_utf8_to_utf16(s).units, smb2_utf8_to_utf16(p).units, first) :
        s, p \in Names, first \in BOOLEAN}

(* The room that a request leaves for d: enough or, where the client is    *)
(* prepared for less, at least up to the first name.                       *)
Asked(d) ==
    {d.len} \cup (IF d.class \in {"all", "normalized_name", "stream"}
                  THEN d.names[1].at..d.len ELSE {})

WithData(m, d) == [Pdu(m, "ok", <<>>) EXCEPT !.data = d]

DataReplies ==
    UNION {{WithData(encode_query_info_reply(d.len, d.len, n, FALSE), d) :
                n \in Asked(d)} : d \in Infos}
        \cup {WithData(encode_query_info_reply(d.len, 0, 0, TRUE), d) : d \in Descriptors}
        \cup {WithData(encode_ioctl_reply(d.len, FALSE), d) : d \in Links}

(* NEGOTIATE is never chained: the rest of the frame is its contexts.  An  *)
(* interim reply travels alone; data replies and long directory replies do *)
(* here, to bound the model.                                               *)
Alone(d) ==
    IF d = "request"
    THEN {Pdu(encode_negotiate_request(n, TRUE), "ok", <<>>) : n \in {1, 3, 5}}
             \cup {Pdu(encode_negotiate_request(n, FALSE), "ok", <<>>) : n \in 1..2}
    ELSE {Pdu(encode_negotiate_reply(n, c), "ok", <<>>) :
            n \in (Lengths \cap 1..64) \cup {64}, c \in BOOLEAN}
             \cup {Pdu(encode_error_reply("READ"), "pending", <<>>)}
             \cup DataReplies
             \cup {p \in DirectoryReplies : Len(p.dirents) > 2}

Frames(d) ==
    LET pdus == IF d = "request" THEN {Pdu(m, "ok", <<>>) : m \in Requests}
                ELSE ReplyPdus
    IN  {<<p>> : p \in Alone(d)} \cup UNION {[1..k -> pdus] : k \in 1..MaxChain}

-----------------------------------------------------------------------------
(* Lengths and positions in the frame. *)

PduSize(p) == SMB2_HEADER_SIZE + Size(p.m.segs)

spl == FoldLeft(LAMBDA n, p : n + PduSize(p), 0, frame)

SMB2_SPL_SIZE == 4

(* The SPL is not part of a decrypted buffer. *)
Base == IF enc THEN 0 ELSE SMB2_SPL_SIZE

Start(i) == Base + FoldLeft(LAMBDA n, p : n + PduSize(p), 0, SubSeq(frame, 1, i - 1))

(* smb2_add_compound_pdu *)
next_command(i) == IF i < Len(frame) THEN PduSize(frame[i]) ELSE 0

-----------------------------------------------------------------------------
(* The dispatch on the command. *)

fixed_request_size(c) ==
    CASE c = "NEGOTIATE" -> 36      [] c = "SESSION_SETUP" -> 25
      [] c = "LOGOFF" -> 4          [] c = "TREE_CONNECT" -> 9
      [] c = "TREE_DISCONNECT" -> 4 [] c = "CREATE" -> 57
      [] c = "CLOSE" -> 24          [] c = "FLUSH" -> 24
      [] c = "READ" -> 49           [] c = "WRITE" -> 49
      [] c = "LOCK" -> 48           [] c = "ECHO" -> 4
      [] c = "QUERY_DIRECTORY" -> 33 [] c = "CHANGE_NOTIFY" -> 32
      [] c = "QUERY_INFO" -> 41     [] c = "SET_INFO" -> 33
      [] c = "IOCTL" -> 57          [] c = "OPLOCK_BREAK" -> 2

fixed_reply_size(c) ==
    CASE c = "NEGOTIATE" -> 65      [] c = "SESSION_SETUP" -> 9
      [] c = "LOGOFF" -> 4          [] c = "TREE_CONNECT" -> 16
      [] c = "TREE_DISCONNECT" -> 4 [] c = "CREATE" -> 89
      [] c = "CLOSE" -> 60          [] c = "FLUSH" -> 4
      [] c = "READ" -> 17           [] c = "WRITE" -> 17
      [] c = "LOCK" -> 4            [] c = "ECHO" -> 4
      [] c = "QUERY_DIRECTORY" -> 9 [] c = "CHANGE_NOTIFY" -> 9
      [] c = "QUERY_INFO" -> 9      [] c = "SET_INFO" -> 2
      [] c = "IOCTL" -> 49          [] c = "OPLOCK_BREAK" -> 2

(* smb2_get_fixed_size, and the vector it is read into. *)
fixed_size(p) ==
    Even(IF dir = "request" THEN fixed_request_size(p.m.cmd)
         ELSE IF p.status = "error" THEN 8
         ELSE fixed_reply_size(p.m.cmd))

process_request(m) ==
    CASE m.cmd = "NEGOTIATE"       -> process_negotiate_request(m, spl)
      [] m.cmd = "SESSION_SETUP"   -> process_session_setup_request(m, spl)
      [] m.cmd = "LOGOFF"          -> process_logoff_request(m, spl)
      [] m.cmd = "TREE_CONNECT"    -> process_tree_connect_request(m, spl)
      [] m.cmd = "TREE_DISCONNECT" -> process_tree_disconnect_request(m, spl)
      [] m.cmd = "CREATE"          -> process_create_request(m, spl)
      [] m.cmd = "CLOSE"           -> process_close_request(m, spl)
      [] m.cmd = "FLUSH"           -> process_flush_request(m, spl)
      [] m.cmd = "READ"            -> process_read_request(m, spl)
      [] m.cmd = "WRITE"           -> process_write_request(m, spl)
      [] m.cmd = "LOCK"            -> process_lock_request(m, spl)
      [] m.cmd = "ECHO"            -> process_echo_request(m, spl)
      [] m.cmd = "QUERY_DIRECTORY" -> process_query_directory_request(m, spl)
      [] m.cmd = "CHANGE_NOTIFY"   -> process_change_notify_request(m, spl)
      [] m.cmd = "QUERY_INFO"      -> process_query_info_request(m, spl)
      [] m.cmd = "SET_INFO"        -> process_set_info_request(m, spl)
      [] m.cmd = "IOCTL"           -> process_ioctl_request(m, spl)
      [] m.cmd = "OPLOCK_BREAK"    -> process_oplock_break_request(m, spl)

process_reply(m, next) ==
    CASE m.cmd = "NEGOTIATE"       -> process_negotiate_reply(m, spl)
      [] m.cmd = "SESSION_SETUP"   -> process_session_setup_reply(m, spl)
      [] m.cmd \in {"LOGOFF", "TREE_DISCONNECT", "SET_INFO"} -> Unchecked
      [] m.cmd = "TREE_CONNECT"    -> process_tree_connect_reply(m, spl)
      [] m.cmd = "CREATE"          -> process_create_reply(m, spl)
      [] m.cmd = "CLOSE"           -> process_close_reply(m, spl)
      [] m.cmd = "FLUSH"           -> process_flush_reply(m, spl)
      [] m.cmd = "READ"            -> process_read_reply(m, spl)
      [] m.cmd = "WRITE"           -> process_write_reply(m, spl)
      [] m.cmd = "LOCK"            -> process_lock_reply(m, spl)
      [] m.cmd = "ECHO"            -> process_echo_reply(m, spl)
      [] m.cmd = "QUERY_DIRECTORY" -> process_query_directory_reply(m, spl)
      [] m.cmd = "CHANGE_NOTIFY"   -> process_change_notify_reply(m, spl)
      [] m.cmd = "QUERY_INFO"      -> process_query_info_reply(m, spl, next)
      [] m.cmd = "IOCTL"           -> process_ioctl_reply(m, spl)
      [] m.cmd = "OPLOCK_BREAK"    -> process_oplock_break_reply(m, spl)

Decoded(p) ==
    IF dir = "request" THEN process_request(p.m)
    ELSE IF p.status = "error" THEN process_error_reply(p.m, spl)
    ELSE process_reply(p.m, next_command(cur))

-----------------------------------------------------------------------------
(* The receiver between two frames: num_done = 0 makes the next call of    *)
(* smb2_read_data start with an SPL.                                       *)
Idle ==
    /\ frame' = <<>> /\ enc' = FALSE
    /\ cur' = 0 /\ recv_state' = "SPL" /\ num_done' = 0 /\ want' = SMB2_SPL_SIZE
    /\ payload_offset' = 0 /\ niov' = 1 /\ hdrIov' = 0
    /\ iov_offset' = 0 /\ found' = Found(0, {})

Init ==
    /\ dir = "reply" /\ passthrough = FALSE /\ frame = <<>> /\ enc = FALSE
    /\ cur = 0 /\ recv_state = "SPL" /\ num_done = 0 /\ want = SMB2_SPL_SIZE
    /\ payload_offset = 0 /\ niov = 1 /\ hdrIov = 0
    /\ iov_offset = 0 /\ found = Found(0, {}) /\ skew = 0
    /\ left = 0 /\ failed = FALSE

(* The other side marshals and sends a frame.  Of an encrypted frame the   *)
(* SPL, the transform header and the payload are read first, and the       *)
(* receive machine starts over on the decrypted payload.  The mode of the  *)
(* server matters to a SET_INFO only.                                      *)
SendFrame(d, f, e) ==
    /\ frame = <<>> /\ ~failed
    /\ passthrough' \in (IF d = "request" /\ \E i \in DOMAIN f : f[i].m.cmd = "SET_INFO"
                         THEN BOOLEAN ELSE {FALSE})
    /\ dir' = d /\ frame' = f /\ enc' = e /\ cur' = 1
    /\ IF e THEN recv_state' = "HEADER" /\ want' = SMB2_HEADER_SIZE /\ hdrIov' = 0
            ELSE recv_state' = "SPL" /\ want' = SMB2_SPL_SIZE /\ hdrIov' = 1
    /\ skew' = 0
    /\ UNCHANGED <<num_done, payload_offset, niov, iov_offset, found, left, failed>>

(* in->num_done when the vector that is being filled is full. *)
done == num_done + want

(* A phase is over; the next one is st, into a new vector of n bytes. *)
Expect(st, n) ==
    /\ recv_state' = st /\ want' = n /\ niov' = niov + 1 /\ num_done' = done
    /\ UNCHANGED <<dir, passthrough, frame, enc, cur, hdrIov, iov_offset, skew, left,
                   failed>>

(* smb2_read_data returns -1: the service fails. *)
Fail ==
    /\ failed' = TRUE
    /\ UNCHANGED <<dir, passthrough, frame, enc, cur, recv_state, num_done, want, niov,
                   hdrIov, iov_offset, skew, left>>

ReadSpl ==
    /\ recv_state = "SPL" /\ frame # <<>> /\ ~failed
    /\ Expect("HEADER", SMB2_HEADER_SIZE)
    /\ UNCHANGED <<payload_offset, found>>

(* The frame ends here. *)
EndFrame ==
    /\ left' = Start(Len(frame) + 1) - done
    /\ Idle
    /\ UNCHANGED <<dir, passthrough, failed>>

(* All of the current PDU has been read: its signature is checked, its     *)
(* callback called, and the next PDU of the chain, if any, expected.       *)
PduDone ==
    /\ skew' = IF enc THEN 0 ELSE 1 + iov_offset - hdrIov
    /\ IF next_command(cur) > 0
       THEN /\ iov_offset' = niov - 1
            /\ recv_state' = "HEADER" /\ want' = SMB2_HEADER_SIZE
            /\ niov' = niov + 1 /\ hdrIov' = niov /\ num_done' = done
            /\ cur' = cur + 1 /\ found' = Found(0, {})
            /\ UNCHANGED <<dir, passthrough, frame, enc, payload_offset, left, failed>>
       ELSE EndFrame

(* Variant: the position in the frame taken for the position in the PDU.   *)
PadBytesOfFrame ==
    IF next_command(cur) > 0 THEN next_command(cur) - done
    ELSE spl + Base - done

(* Bytes between what has been read and the next PDU or the end. *)
PadBytes ==
    IF next_command(cur) > 0
    THEN next_command(cur) - (SMB2_HEADER_SIZE + done - payload_offset)
    ELSE spl + Base - done

(* The check for padding behind the fixed and behind the variable part of  *)
(* a PDU of which get has been decoded.                                    *)
Padding(get) ==
    \/ /\ PadBytes < 0
       /\ Fail
       /\ found' = get /\ UNCHANGED payload_offset
    \/ /\ PadBytes > 0
       /\ Expect("PAD", PadBytes)
       /\ found' = get /\ UNCHANGED payload_offset
    \/ /\ PadBytes = 0
       /\ PduDone

(* An interim reply makes the rest of the frame padding. *)
ReadHeader ==
    /\ recv_state = "HEADER" /\ frame # <<>> /\ ~failed
    /\ payload_offset' = done
    /\ IF frame[cur].status = "pending"
       THEN Expect("PAD", spl + Base - done)
       ELSE Expect("FIXED", fixed_size(frame[cur]))
    /\ UNCHANGED found

ReadFixed ==
    /\ recv_state = "FIXED" /\ ~failed
    /\ LET get == Decoded(frame[cur]) IN
       \/ get.need < 0 /\ Fail /\ found' = get /\ UNCHANGED payload_offset
       \/ get.need = 0 /\ Padding(get)
       \/ /\ get.need > 0
          /\ Expect("VARIABLE", get.need)
          /\ found' = get /\ UNCHANGED payload_offset

(* The bytes of data in the current PDU, and what the decoder gets out of  *)
(* them.                                                                   *)
DataLength  == Max({0} \cup {p.len : p \in found.get})
DecodedData == decode_data(frame[cur].data, DataLength)

(* "can not interpret set-info buffers yet" *)
SetInfoRefused ==
    dir = "request" /\ frame[cur].m.cmd = "SET_INFO" /\ ~passthrough

ReadVariable ==
    /\ recv_state = "VARIABLE" /\ ~failed
    /\ IF SetInfoRefused \/ (frame[cur].data # NoData /\ ~DecodedData.ok)
       THEN Fail /\ UNCHANGED <<found, payload_offset>>
       ELSE Padding(found)

ReadPad ==
    /\ recv_state = "PAD" /\ ~failed
    /\ IF frame[cur].status = "pending" THEN EndFrame /\ UNCHANGED skew
       ELSE PduDone

(* The socket has no more data: smb2_read_data returns -EAGAIN and is      *)
(* called again when there is, with a fresh local.                         *)
Dry ==
    /\ frame # <<>> /\ ~enc /\ ~failed /\ iov_offset # 0
    /\ iov_offset' = 0
    /\ UNCHANGED <<dir, passthrough, frame, enc, phase, found, skew, left, failed>>

Next ==
    \/ \E d \in {"request", "reply"}, e \in BOOLEAN :
          \E f \in Frames(d) : SendFrame(d, f, e)
    \/ ReadSpl
    \/ ReadHeader
    \/ ReadFixed
    \/ ReadVariable
    \/ ReadPad
    \/ Dry

Spec == Init /\ [][Next]_vars

-----------------------------------------------------------------------------
(* The receiver stays in step with the sender: it looks for a header       *)
(* exactly where a PDU starts, in a frame of any chain of commands, and    *)
(* for the next frame exactly at the end of this one, although it only     *)
(* goes by the lengths that each part announces (smb2_read_data).          *)
InStep ==
    /\ recv_state = "HEADER" /\ frame # <<>> => num_done = Start(cur)
    /\ left = 0

(* What this library marshals and its other side does not take: a SET_INFO *)
(* request, unless the server is in passthrough mode; an IOCTL reply       *)
(* without output and a QUERY_INFO reply whose class has no encoder, which *)
(* announce bytes that are not there; FS_CONTROL information, and          *)
(* FS_ATTRIBUTE information with a name of less than four units.           *)
Unreadable(p) ==
    \/ SetInfoRefused
    \/ p.m \in {encode_ioctl_reply(0, FALSE), encode_query_info_reply(1, 0, 1, FALSE)}
    \/ p.data.class = "fs_control"
    \/ p.data.class = "fs_attribute" /\ p.data.len < 12 + 8


(* got is what is left of the name sent: all of it or, when the reply was  *)
(* cut, a first part, the last character of which may have been halved.    *)
CutShort(got, sent) ==
    \/ IsPrefix(got, sent)
    \/ /\ IsSuffix(Replacement, got)
       /\ IsPrefix(SubSeq(got, 1, Len(got) - 3), sent)

(* Streams that do not get across: the next offset of the second is        *)
(* absolute, and the length of a name is that of its UTF-8.                *)
Garbled(d) ==
    /\ d.class = "stream"
    /\ \/ Len(d.names) > 2
       \/ \E i \in DOMAIN d.names : d.names[i].len # 2 * Len(d.names[i].units)

(* Data survives: the client gets every field and name of the structure    *)
(* that a reply carries, and of one that was cut to the room the request   *)
(* left, what is in that room, unless the structure is Unreadable or       *)
(* Garbled.  Names are converted without loss between frames of any        *)
(* content: a conversion refuses exactly what is not UTF-8, and whatever   *)
(* UTF-16 a server sends, the string made of it fits the buffer that was   *)
(* allocated for it (smb2_utf16_to_utf8).                                  *)
DataSurvives ==
    /\ recv_state = "VARIABLE" /\ frame[cur].data # NoData
           /\ ~Unreadable(frame[cur]) /\ ~Garbled(frame[cur].data) =>
        LET d    == frame[cur].data
            got  == DecodedData
            name == [i \in DOMAIN d.names |->
                        CString(smb2_utf16_to_utf8(d.names[i].units))]
        IN  /\ got.ok
            /\ \/ got.fields = d.fields /\ got.names = name
               \/ /\ DataLength < d.len
                  /\ got.fields \subseteq d.fields
                  /\ Len(got.names) <= Len(name)
                  /\ \A i \in DOMAIN got.names : CutShort(got.names[i], name[i])
    /\ frame = <<>> =>
        /\ \A t \in Texts : TextRestored(t)
        /\ \A u \in Utf16s : TextSound(u)

(* The signature of a PDU in the clear is computed from its own header     *)
(* vector on: "Record at which iov we ended in this loop so we know where  *)
(* to start in the next" (smb2_read_data).                                 *)
SignatureOfPdu == skew = 0
=============================================================================
