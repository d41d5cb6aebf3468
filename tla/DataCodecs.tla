----------------------------- MODULE DataCodecs -----------------------------
(***************************************************************************)
(* The structures that QUERY_INFO and IOCTL replies carry                  *)
(* (lib/smb2-data-*.c).  encode_x is the marshaller of the server,         *)
(* decode_x the one of the client; where the library has a decoder only,   *)
(* peer_x is what another server sends.                                    *)
(*                                                                         *)
(* Marshalled data has a length, scalar fields, each with its place, and   *)
(* names.  The values of scalars are left out.                             *)
(***************************************************************************)
EXTENDS Layout, Unicode

(* A name of the UTF-16 units u at byte at, for which n bytes are          *)
(* announced; next is the distance to the next entry of a list.            *)
Name(at, n, u) == [at |-> at, len |-> n, units |-> u, next |-> 0]

(* n bytes of data of a class. *)
Data(class, n, fields, names) ==
    [class |-> class, len |-> n, fields |-> fields, names |-> names,
     aces |-> <<>>, ok |-> TRUE]

(* The marshaller has refused. *)
NotEncoded(class) == [Data(class, 0, {}, <<>>) EXCEPT !.ok = FALSE]

(* What a decoder gets: the fields and, as UTF-8, the names. *)
Got(fields, names) == [ok |-> TRUE, fields |-> fields, names |-> names]
GotNothing == [ok |-> FALSE, fields |-> {}, names |-> <<>>]

(* smb2_get_uint8 to smb2_get_uint64 leave a field that is not entirely    *)
(* inside the n bytes as it was.                                           *)
smb2_get(fields, n) == {f \in fields : f.at + f.len <= n}

Shift(fields, at) == {[f EXCEPT !.at = @ + at] : f \in fields}

(* strlen and strcpy stop at a zero. *)
CString(bytes) ==
    SubSeq(bytes, 1, Min({Len(bytes) + 1}
                             \cup {i \in DOMAIN bytes : bytes[i] = 0}) - 1)

(* The first n bytes of a name as a C string; what the marshaller has      *)
(* announced and not written is anything.                                  *)
Garbage == 63

ReadName(name, n) ==
    CString(smb2_utf16_to_utf8(
        [i \in 1..(n \div 2) |-> IF i <= Len(name.units) THEN name.units[i] ELSE Garbage]))

-----------------------------------------------------------------------------
(* Information on files.  t is the name, <<>> for none. *)

encode_file_basic_info ==
    Data("basic", 40,
         {Part("creation_time", 0, 8), Part("last_access_time", 8, 8),
          Part("last_write_time", 16, 8), Part("change_time", 24, 8),
          Part("file_attributes", 32, 4)}, <<>>)

decode_file_basic_info(n) ==
    Got(smb2_get({Part("creation_time", 0, 8), Part("last_access_time", 8, 8),
                  Part("last_write_time", 16, 8), Part("change_time", 24, 8),
                  Part("file_attributes", 32, 4)}, n), <<>>)

encode_file_standard_info ==
    Data("standard", 24,
         {Part("allocation_size", 0, 8), Part("end_of_file", 8, 8),
          Part("number_of_links", 16, 4), Part("delete_pending", 20, 1),
          Part("directory", 21, 1)}, <<>>)

decode_file_standard_info(n) ==
    Got(smb2_get({Part("allocation_size", 0, 8), Part("end_of_file", 8, 8),
                  Part("number_of_links", 16, 4), Part("delete_pending", 20, 1),
                  Part("directory", 21, 1)}, n), <<>>)

encode_file_position_info ==
    Data("position", 8, {Part("current_byte_offset", 0, 8)}, <<>>)

decode_file_position_info(n) ==
    Got(smb2_get({Part("current_byte_offset", 0, 8)}, n), <<>>)

encode_file_all_info(t) ==
    LET name == smb2_utf8_to_utf16(t)
        len  == 2 * Len(name.units)
    IN  IF ~name.ok THEN NotEncoded("all")
        ELSE Data("all", 100 + len,
                  encode_file_basic_info.fields
                      \cup Shift(encode_file_standard_info.fields, 40)
                      \cup {Part("index_number", 64, 8), Part("ea_size", 72, 4),
                            Part("access_flags", 76, 4),
                            Part("current_byte_offset", 80, 8), Part("mode", 88, 4),
                            Part("alignment_requirement", 92, 4)},
                  <<Name(100, len, name.units)>>)

(* "truncate if the server supplied a short reply" *)
decode_file_all_info(d, n) ==
    IF n < 100 THEN GotNothing
    ELSE Got(decode_file_basic_info(40).fields
                 \cup Shift(decode_file_standard_info(24).fields, 40)
                 \cup smb2_get({Part("index_number", 64, 8), Part("ea_size", 72, 4),
                                Part("access_flags", 76, 4),
                                Part("current_byte_offset", 80, 8), Part("mode", 88, 4),
                                Part("alignment_requirement", 92, 4)}, n),
             <<ReadName(d.names[1], Min({d.names[1].len, n - 100}))>>)

encode_file_network_open_info ==
    Data("network_open", 56,
         {Part("creation_time", 0, 8), Part("last_access_time", 8, 8),
          Part("last_write_time", 16, 8), Part("change_time", 24, 8),
          Part("allocation_size", 32, 8), Part("end_of_file", 40, 8),
          Part("file_attributes", 48, 4)}, <<>>)

decode_file_network_open_info(n) ==
    IF n < 56 THEN GotNothing
    ELSE Got({Part("creation_time", 0, 8), Part("last_access_time", 8, 8),
              Part("last_write_time", 16, 8), Part("change_time", 24, 8),
              Part("allocation_size", 32, 8), Part("end_of_file", 40, 8),
              Part("file_attributes", 48, 4)}, <<>>)

(* given is the file_name_length that the handler has set; what it is more *)
(* than the name is filled with zeros.                                     *)
encode_file_normalized_name_info(t, given) ==
    LET name == smb2_utf8_to_utf16(t)
        len  == Max({2 * Len(name.units), given})
    IN  IF ~name.ok THEN NotEncoded("normalized_name")
        ELSE IF t = <<>> THEN Data("normalized_name", 4, {}, <<Name(4, 0, <<>>)>>)
        ELSE Data("normalized_name", 4 + len, {},
                  <<Name(4, len, name.units
                       \o [i \in 1..(len \div 2 - Len(name.units)) |-> 0])>>)

(* "name can be truncated if client supplied small buffer" *)
decode_file_normalized_name_info(d, n) ==
    IF n < 4 THEN GotNothing
    ELSE Got({}, <<ReadName(d.names[1], Min({d.names[1].len, n - 4}))>>)

(* Streams: the entries of a list, each with where the next one starts.    *)
(* The handler gives the length of a name in UTF-8, half of what is        *)
(* announced; PadStream is where the entry behind the one at byte at       *)
(* starts.                                                                 *)
PadStream(at, t) == PAD_TO_64BIT(at + 24 + 2 * Len(t))

encode_file_stream_info(ts) ==
    LET at(i)   == FoldLeft(PadStream, 0, SubSeq(ts, 1, i - 1))
        name(i) == smb2_utf8_to_utf16(ts[i])
        last    == Len(ts)
    IN  IF \E i \in DOMAIN ts : ~name(i).ok THEN NotEncoded("stream")
        ELSE Data("stream", at(last) + 24 + 2 * Len(ts[last]),
                  UNION {{Part("stream_size", at(i) + 8, 8),
                          Part("stream_allocation_size", at(i) + 16, 8)} :
                            i \in DOMAIN ts},
                  [i \in DOMAIN ts |->
                      [Name(at(i) + 24, 2 * Len(ts[i]), name(i).units) EXCEPT
                          !.next = IF i = last THEN 0 ELSE PadStream(at(i), ts[i])]])

(* offsets[k] is where the k-th entry is read, -1 behind the last. *)
decode_file_stream_info(d, n) ==
    LET entry(at)  == {i \in DOMAIN d.names : d.names[i].at = at + 24}
        next(at)   == Max({0} \cup {d.names[i].next : i \in entry(at)})
        offsets[k \in 1..Len(d.names)] ==
            IF k = 1 THEN 0
            ELSE LET o == offsets[k - 1] IN
                 IF o < 0 \/ next(o) = 0 \/ o + next(o) + 24 > n THEN -1
                 ELSE o + next(o)
        read == SelectSeq(offsets, LAMBDA o : o >= 0)
        text(at) == IF entry(at) = {} THEN <<>>
                    ELSE LET name == d.names[Max(entry(at))] IN
                         ReadName(name, Max({0, Min({name.len, n - at - 24})}))
    IN  Got(smb2_get(UNION {{Part("stream_size", read[k] + 8, 8),
                             Part("stream_allocation_size", read[k] + 16, 8)} :
                                k \in DOMAIN read}, n),
            [k \in DOMAIN read |-> text(read[k])])

-----------------------------------------------------------------------------
(* Information on file systems. *)

encode_file_fs_volume_info(t) ==
    LET name == smb2_utf8_to_utf16(t)
        len  == 2 * Len(name.units)
    IN  Data("fs_volume", 18 + len,
             {Part("creation_time", 0, 8), Part("volume_serial_number", 8, 4),
              Part("supports_objects", 16, 1), Part("reserved", 17, 1)},
             <<Name(18, len, name.units)>>)

decode_file_fs_volume_info(d, n) ==
    Got(smb2_get({Part("creation_time", 0, 8), Part("volume_serial_number", 8, 4),
                  Part("supports_objects", 16, 1), Part("reserved", 17, 1)}, n),
        <<ReadName(d.names[1], d.names[1].len)>>)

encode_file_fs_size_info ==
    Data("fs_size", 24,
         {Part("total_allocation_units", 0, 8), Part("available_allocation_units", 8, 8),
          Part("sectors_per_allocation_unit", 16, 4), Part("bytes_per_sector", 20, 4)},
         <<>>)

decode_file_fs_size_info(n) ==
    IF n < 24 THEN GotNothing
    ELSE Got({Part("total_allocation_units", 0, 8),
              Part("available_allocation_units", 8, 8),
              Part("sectors_per_allocation_unit", 16, 4),
              Part("bytes_per_sector", 20, 4)}, <<>>)

encode_file_fs_device_info ==
    Data("fs_device", 8, {Part("device_type", 0, 4), Part("characteristics", 4, 4)}, <<>>)

decode_file_fs_device_info(n) ==
    IF n < 8 THEN GotNothing
    ELSE Got({Part("device_type", 0, 4), Part("characteristics", 4, 4)}, <<>>)

encode_file_fs_attribute_info(t) ==
    LET name == smb2_utf8_to_utf16(t)
        len  == 2 * Len(name.units)
    IN  Data("fs_attribute", 12 + len,
             {Part("filesystem_attributes", 0, 4),
              Part("maximum_component_name_length", 4, 4)},
             <<Name(12, len, name.units)>>)

(* The decoder wants room for a name of four units. *)
decode_file_fs_attribute_info(d, n) ==
    IF n < 20 THEN GotNothing
    ELSE Got({Part("filesystem_attributes", 0, 4),
              Part("maximum_component_name_length", 4, 4)},
             <<ReadName(d.names[1], d.names[1].len)>>)

encode_file_fs_control_info ==
    Data("fs_control", 44,
         {Part("free_space_start_filtering", 0, 8), Part("free_space_threshold", 8, 8),
          Part("free_space_stop_filtering", 16, 8), Part("default_quota_threshold", 24, 8),
          Part("default_quota_limit", 32, 8), Part("file_system_control_flags", 40, 4)},
         <<>>)

(* It returns 44, which its caller takes for a failure. *)
decode_file_fs_control_info(n) == GotNothing

encode_file_fs_full_size_info ==
    Data("fs_full_size", 32,
         {Part("total_allocation_units", 0, 8),
          Part("caller_available_allocation_units", 8, 8),
          Part("actual_available_allocation_units", 16, 8),
          Part("sectors_per_allocation_unit", 24, 4), Part("bytes_per_sector", 28, 4)},
         <<>>)

decode_file_fs_full_size_info(n) ==
    IF n < 32 THEN GotNothing
    ELSE Got({Part("total_allocation_units", 0, 8),
              Part("caller_available_allocation_units", 8, 8),
              Part("actual_available_allocation_units", 16, 8),
              Part("sectors_per_allocation_unit", 24, 4),
              Part("bytes_per_sector", 28, 4)}, <<>>)

encode_file_fs_object_id_info ==
    Data("fs_object_id", 64, {Part("object_id", 0, 16), Part("extended_info", 16, 48)}, <<>>)

decode_file_fs_object_id_info(n) ==
    IF n < 64 THEN GotNothing
    ELSE Got({Part("object_id", 0, 16), Part("extended_info", 16, 48)}, <<>>)

encode_file_fs_sector_size_info ==
    Data("fs_sector_size", 28,
         {Part("logical_bytes_per_sector", 0, 4),
          Part("physical_bytes_for_atomicity", 4, 4),
          Part("physical_bytes_for_performance", 8, 4),
          Part("effective_bytes_for_atomicity", 12, 4), Part("flags", 16, 4),
          Part("byte_offset_for_sector_alignment", 20, 4),
          Part("byte_offset_for_partition_alignment", 24, 4)}, <<>>)

decode_file_fs_sector_size_info(n) ==
    IF n < 28 THEN GotNothing
    ELSE Got({Part("logical_bytes_per_sector", 0, 4),
              Part("physical_bytes_for_atomicity", 4, 4),
              Part("physical_bytes_for_performance", 8, 4),
              Part("effective_bytes_for_atomicity", 12, 4), Part("flags", 16, 4),
              Part("byte_offset_for_sector_alignment", 20, 4),
              Part("byte_offset_for_partition_alignment", 24, 4)}, <<>>)

-----------------------------------------------------------------------------
(* Security descriptors, which the library only decodes.  A SID of k       *)
(* subauthorities; an access control entry that has one, behind a mask, a  *)
(* mask, flags and two GUIDs, or a mask and before data, or that has none. *)

Sid(k) == 8 + 4 * k

Ace(type, k, extra) == [type |-> type, sid |-> k, extra |-> extra]

SidAt(type) == CASE type \in {"plain", "callback"} -> 8 [] type = "object" -> 44

ace_size(a) == IF a.type = "raw" THEN 4 + a.extra
               ELSE SidAt(a.type) + Sid(a.sid) + a.extra

(* Another server's descriptor: a header of 20 bytes and, in the order it  *)
(* likes, the owner, the group and the list of entries.                    *)
peer_security_descriptor(order, owner, group, aces) ==
    LET acl_size == 8 + FoldLeft(LAMBDA n, a : n + ace_size(a), 0, aces)
        size  == [owner |-> Sid(owner), group |-> Sid(group), dacl |-> acl_size]
        at(f) == 20 + FoldLeft(LAMBDA n, g : n + size[g], 0,
                               SubSeq(order, 1, SelectInSeq(order, LAMBDA g : g = f) - 1))
        ace(i) == at("dacl") + 8
                     + FoldLeft(LAMBDA n, a : n + ace_size(a), 0, SubSeq(aces, 1, i - 1))
        parts(i) ==
            LET a == aces[i] IN
            {Part("ace", ace(i), ace_size(a))}
                \cup (IF a.type = "raw" THEN {Part("raw_data", ace(i) + 4, a.extra)}
                      ELSE {Part("sid", ace(i) + SidAt(a.type), Sid(a.sid))})
                \cup (IF a.type = "callback"
                      THEN {Part("ad_data", ace(i) + ace_size(a) - a.extra, a.extra)}
                      ELSE {})
    IN  [Data("security", 20 + size.owner + size.group + size.dacl,
              {Part(f, at(f), size[f]) : f \in DOMAIN size}
                  \cup UNION {parts(i) : i \in DOMAIN aces}, <<>>)
            EXCEPT !.aces = aces]

(* The part of d that starts at byte at, of one of the kinds fs. *)
PartsAt(d, at, fs) == {p \in d.fields : p.at = at /\ p.f \in fs}

(* The SID at byte at, if the rest bytes from there on hold all of it. *)
decode_sid(d, at, rest) ==
    {p \in PartsAt(d, at, {"owner", "group", "sid"}) : rest >= 8 /\ p.len <= rest}

(* The entry a at byte at, rest bytes before the end of the list.  The     *)
(* data of a callback entry, and an entry of unknown type, are taken to    *)
(* reach to the end of the list.                                           *)
decode_ace(d, a, at, rest) ==
    LET sid == IF a.type = "raw" THEN {}
               ELSE decode_sid(d, at + SidAt(a.type), rest - SidAt(a.type))
        len == SidAt(a.type) + Sid(a.sid)
    IN  PartsAt(d, at, {"ace"}) \cup sid
            \cup (IF a.type = "raw" THEN {Part("raw_data", at + 4, rest - 4)} ELSE {})
            \cup (IF a.type = "callback" THEN {Part("ad_data", at + len, rest - len)}
                  ELSE {})

decode_acl(d, dacl) ==
    LET at[i \in 1..(Len(d.aces) + 1)] ==
            IF i = 1 THEN dacl.at + 8 ELSE at[i - 1] + ace_size(d.aces[i - 1])
        end == dacl.at + dacl.len
    IN  UNION {decode_ace(d, d.aces[i], at[i], end - at[i]) : i \in DOMAIN d.aces}

(* A SID too near the end is passed over, one that is cut refused. *)
smb2_decode_security_descriptor(d, n) ==
    LET part(f) == CHOOSE p \in d.fields : p.f = f
        sid(f)  == IF part(f).at + 8 >= n THEN {}
                   ELSE decode_sid(d, part(f).at, n - part(f).at)
        dacl    == part("dacl")
    IN  IF \/ n < 20
           \/ \E f \in {"owner", "group"} : part(f).at + 8 < n /\ sid(f) = {}
           \/ dacl.at + 8 <= n /\ dacl.at + dacl.len > n
        THEN GotNothing
        ELSE Got(sid("owner") \cup sid("group")
                     \cup (IF dacl.at + 8 > n THEN {} ELSE {dacl} \cup decode_acl(d, dacl)),
                 <<>>)

-----------------------------------------------------------------------------
(* The target of a symbolic link, which the library only decodes: two      *)
(* names, of which either may come first.                                  *)

peer_reparse_data_buffer(sub, print, subFirst) ==
    LET s == 2 * Len(sub)
        p == 2 * Len(print)
    IN  Data("reparse", 20 + s + p, {},
             <<Name(20 + (IF subFirst THEN 0 ELSE p), s, sub),
               Name(20 + (IF subFirst THEN s ELSE 0), p, print)>>)

smb2_decode_reparse_data_buffer(d, n) ==
    LET reparse_data_length == d.len - 8
        outside(name) == (name.at - 20) + name.len + 12 > reparse_data_length
    IN  IF \/ n < 20
           \/ n % 2^16 < reparse_data_length + 8
           \/ \E i \in 1..2 : outside(d.names[i])
        THEN GotNothing
        ELSE Got({}, [i \in 1..2 |-> ReadName(d.names[i], d.names[i].len)])

-----------------------------------------------------------------------------
(* Which decoder takes n bytes of d apart: smb2_process_query_info_variable *)
(* and smb2_process_ioctl_variable.                                        *)
decode_data(d, n) ==
    CASE d.class = "basic"           -> decode_file_basic_info(n)
      [] d.class = "standard"        -> decode_file_standard_info(n)
      [] d.class = "position"        -> decode_file_position_info(n)
      [] d.class = "all"             -> decode_file_all_info(d, n)
      [] d.class = "network_open"    -> decode_file_network_open_info(n)
      [] d.class = "normalized_name" -> decode_file_normalized_name_info(d, n)
      [] d.class = "stream"          -> decode_file_stream_info(d, n)
      [] d.class = "fs_volume"       -> decode_file_fs_volume_info(d, n)
      [] d.class = "fs_size"         -> decode_file_fs_size_info(n)
      [] d.class = "fs_device"       -> decode_file_fs_device_info(n)
      [] d.class = "fs_attribute"    -> decode_file_fs_attribute_info(d, n)
      [] d.class = "fs_control"      -> decode_file_fs_control_info(n)
      [] d.class = "fs_full_size"    -> decode_file_fs_full_size_info(n)
      [] d.class = "fs_object_id"    -> decode_file_fs_object_id_info(n)
      [] d.class = "fs_sector_size"  -> decode_file_fs_sector_size_info(n)
      [] d.class = "security"        -> smb2_decode_security_descriptor(d, n)
      [] d.class = "reparse"         -> smb2_decode_reparse_data_buffer(d, n)

(* A PDU without such data. *)
NoData == Data("none", 0, {}, <<>>)
=============================================================================
