--------------------------------- MODULE Ndr ---------------------------------
(***************************************************************************)
(* The NDR coders of dcerpc.c and the types of the two interfaces built    *)
(* from them, dcerpc-srvsvc.c and dcerpc-lsa.c.  One coder serves both     *)
(* directions.  Every construct is walked twice: a conformance run writes  *)
(* or reads the counts of its arrays and finds its alignment, a data run   *)
(* does the rest; what an embedded pointer points to is deferred to the    *)
(* end of the top level construct.  Scalars other than counts carry their  *)
(* field name as value.                                                    *)
(*                                                                         *)
(* s is what the coders share: the pdu, the io vector and the offset.      *)
(***************************************************************************)
EXTENDS Integers, FiniteSetsExt, SequencesExt, TLC

CONSTANT NULL

(* The header of a REQUEST or RESPONSE. *)
Header == 24

(* dir: "encode" or "decode".  tctx_id: 0 for NDR32, 1 for NDR64.  buf: the  *)
(* words in the buffer, by offset.  got: what was coded, in order.  last:    *)
(* the last word.  actual: actual_count of the string being coded.  peer:    *)
(* the other side, which codes referents depth first and aligns every        *)
(* structure by its type, as the standard has it, in one run.                *)
Pdu(dir, tctx_id, buf, peer) ==
    [dir |-> dir, tctx_id |-> tctx_id, buf |-> buf, peer |-> peer,
     off |-> Header, max_alignment |-> 1, conf |-> FALSE, top_level |-> TRUE,
     ptrs |-> <<>>, got |-> <<>>, last |-> 0, actual |-> 0,
     size_is |-> 0, switch_is |-> 0, ok |-> TRUE]

Decoding(s) == s.dir = "decode"
Align(n, a) == ((n + a - 1) \div a) * a
Word3264(s) == IF s.tctx_id = 1 THEN 8 ELSE 4
Failed(s) == [s EXCEPT !.ok = FALSE]

(* dcerpc_set_uint8 to dcerpc_get_uint64: align, then write or read n bytes, *)
(* the field f, which is x when it is written.                               *)
dcerpc_word(s, n, f, x) ==
    LET at == Align(s.off, n)
        Took(y) == [s EXCEPT !.off = at + n, !.last = y, !.got = Append(@, [f |-> f, x |-> y])]
    IN  IF ~s.ok THEN s
        ELSE IF ~Decoding(s)
        THEN [Took(x) EXCEPT !.buf = (at :> [n |-> n, x |-> x]) @@ @]
        ELSE IF at \in DOMAIN s.buf /\ s.buf[at].n = n THEN Took(s.buf[at].x)
        ELSE Failed(s)

Aligned(s, n) == [s EXCEPT !.max_alignment = Max({@, n})]

(* ndr_uint8_coder to ndr_uint3264_coder *)
ndr_word(s, n, f, x) == IF s.conf THEN Aligned(s, n) ELSE dcerpc_word(s, n, f, x)

ndr_conformance_coder(s, f, x) ==
    IF s.conf THEN dcerpc_word(s, Word3264(s), f, x) ELSE s

(* dcerpc_align_3264, which moves the offset in either run *)
dcerpc_align_3264(s) == IF s.peer THEN s ELSE [s EXCEPT !.off = Align(@, Word3264(s))]

-----------------------------------------------------------------------------
(* The fields a type is coded from, in order. *)

U(n, f) == [k |-> "word", n |-> n, f |-> f]
U3264(f) == [k |-> "word3264", f |-> f]
Ptr(type, to, f) == [k |-> "ptr", type |-> type, to |-> to, f |-> f]
Inline(to, f) == [k |-> "struct", to |-> to, f |-> f]

(* Only the marshalling of a uuid matters: 4, 2, 2 and eight times 1 bytes. *)
ndr_uuid_coder == <<U(4, "V1"), U(2, "V2"), U(2, "V3")>> \o [i \in 1..8 |-> U(1, "V4")]

srvsvc_SHARE_INFO(level) ==
    <<Ptr("unique", "utf16z", "netname")>> \o
    (IF level >= 1 THEN <<U(4, "type"), Ptr("unique", "utf16z", "remark")>> ELSE <<>>) \o
    (IF level = 2 THEN <<U(4, "permissions"), U(4, "max_users"), U(4, "current_users"),
                         Ptr("unique", "utf16z", "path"), Ptr("unique", "utf16z", "passwd")>>
     ELSE <<>>)

SHARE_INFO == <<"SHARE_INFO_0", "SHARE_INFO_1", "SHARE_INFO_2">>
CARRAY == <<"SHARE_INFO_0_carray", "SHARE_INFO_1_carray", "SHARE_INFO_2_carray">>
CONTAINER == <<"SHARE_INFO_0_CONTAINER", "SHARE_INFO_1_CONTAINER", "SHARE_INFO_2_CONTAINER">>

srvsvc_CONTAINER(level) ==
    <<U(4, "EntriesRead"), [k |-> "size_is"], Ptr("unique", CARRAY[level + 1], "share_info")>>

(* srvsvc_SHARE_ENUM_UNION_coder and srvsvc_SHARE_INFO_coder: one pointer. *)
UnionArm(of, level) ==
    IF level \in 0..2 THEN <<Ptr("unique", of[level + 1], "arm")>> ELSE <<>>

srvsvc_SHARE_ENUM_STRUCT == <<U(4, "Level"), [k |-> "union", of |-> CONTAINER, tag |-> "Level"]>>
srvsvc_SHARE_INFO_STRUCT == <<[k |-> "union", of |-> SHARE_INFO, tag |-> NULL]>>

ServerName == Ptr("unique", "utf16z", "ServerName")
NetName == Ptr("ref", "utf16z", "NetName")
SwitchLevel == [k |-> "switch_is"]
ParmErr == Ptr("unique", "uint32", "ParmErr")
InfoStruct == Ptr("ref", "SHARE_INFO_STRUCT", "InfoStruct")

lsa_RPC_UNICODE_STRING ==
    <<[k |-> "align"], U(2, "Length"), U(2, "MaxLength"), Ptr("unique", "utf16", "Utf16")>>

lsa_ObjectAttributes ==
    <<U(4, "Length"), U3264("zero"), U3264("zero"), U(4, "zero"), U3264("zero"), U3264("zero")>>

ndr_context_handle_coder == <<U(4, "context_handle_attributes")>> \o ndr_uuid_coder

LevelOf(names, t) == (CHOOSE i \in 1..3 : names[i] = t) - 1

srvsvc_NetrShareAdd ==
    [NetrShareAdd_req |-> <<ServerName, U(4, "Level"), SwitchLevel, InfoStruct, ParmErr>>,
     NetrShareAdd_rep |-> <<ParmErr, U(4, "status")>>]

srvsvc_NetrShareEnum ==
    [NetrShareEnum_req |-> <<ServerName, Ptr("ref", "SHARE_ENUM_STRUCT", "ses"),
                             Ptr("ref", "uint32", "PreferedMaximumLength"),
                             Ptr("unique", "uint32", "ResumeHandle")>>,
     NetrShareEnum_rep |-> <<Ptr("ref", "SHARE_ENUM_STRUCT", "ses"),
                             Ptr("ref", "uint32", "total_entries"),
                             Ptr("unique", "uint32", "resume_handle"), U(4, "status")>>]

srvsvc_NetrShareGetInfo ==
    [NetrShareGetInfo_req |-> <<ServerName, NetName, U(4, "Level"), SwitchLevel>>,
     NetrShareGetInfo_rep |-> <<InfoStruct, U(4, "status")>>]

srvsvc_NetrShareSetInfo ==
    [NetrShareSetInfo_req |-> <<ServerName, NetName, U(4, "Level"), SwitchLevel, InfoStruct, ParmErr>>,
     NetrShareSetInfo_rep |-> <<ParmErr, U(4, "status")>>]

srvsvc_NetrShareDel ==
    [NetrShareDel_req |-> <<ServerName, NetName, U(4, "Reserved")>>,
     NetrShareDel_rep |-> <<U(4, "status")>>]

srvsvc_NetrShareCheck ==
    [NetrShareCheck_req |-> <<ServerName, NetName>>,
     NetrShareCheck_rep |-> <<Ptr("ref", "uint32", "Type"), U(4, "status")>>]

lsa_names ==
    [RPC_UNICODE_STRING |-> lsa_RPC_UNICODE_STRING,
     SID_ENUM_BUFFER |-> <<U(4, "Entries"), Ptr("unique", "PRPC_SID_array", "self")>>,
     TRANSLATED_NAME_EX |-> <<U(4, "Use"), Inline("RPC_UNICODE_STRING", "Name"),
                              U(4, "DomainIndex"), U(4, "Flags")>>,
     TRANSLATED_NAMES_EX |-> <<U(4, "Entries"), Ptr("unique", "TN_array", "self")>>]

lsa_domains ==
    [TRUST_INFORMATION |-> <<Inline("RPC_UNICODE_STRING", "Name"), Ptr("unique", "RPC_SID", "Sid")>>,
     REFERENCED_DOMAIN_LIST |-> <<U(4, "Entries"), Ptr("unique", "RDL_DOMAINS_array", "self"),
                                  U(4, "MaxEntries")>>]

lsa_Close ==
    [Close_req |-> <<Ptr("ref", "context_handle", "PolicyHandle")>>,
     Close_rep |-> <<Ptr("ref", "context_handle", "PolicyHandle"), U(4, "status")>>]

lsa_OpenPolicy2 ==
    [OpenPolicy2_req |-> <<Ptr("unique", "utf16z", "SystemName"),
                           Ptr("ref", "ObjectAttributes", "ObjectAttributes"), U(4, "DesiredAccess")>>,
     OpenPolicy2_rep |-> <<Ptr("ref", "context_handle", "PolicyHandle"), U(4, "status")>>]

lsa_LookupSids2 ==
    [LookupSids2_req |-> <<Ptr("ref", "context_handle", "PolicyHandle"),
                           Ptr("ref", "SID_ENUM_BUFFER", "SidEnumBuffer"),
                           Ptr("ref", "TRANSLATED_NAMES_EX", "TranslatedNames"), U(4, "LookupLevel"),
                           U(4, "MappedCount"), U(4, "LookupOptions"), U(4, "ClientRevision")>>,
     LookupSids2_rep |-> <<Ptr("unique", "REFERENCED_DOMAIN_LIST", "ReferencedDomains"),
                           Ptr("ref", "TRANSLATED_NAMES_EX", "TranslatedNames"),
                           U(4, "MappedCount"), U(4, "status")>>]

Types ==
    [uint32 |-> <<U(4, "value")>>, context_handle |-> ndr_context_handle_coder,
     ObjectAttributes |-> lsa_ObjectAttributes,
     SHARE_ENUM_STRUCT |-> srvsvc_SHARE_ENUM_STRUCT, SHARE_INFO_STRUCT |-> srvsvc_SHARE_INFO_STRUCT]
    @@ srvsvc_NetrShareAdd @@ srvsvc_NetrShareEnum @@ srvsvc_NetrShareGetInfo
    @@ srvsvc_NetrShareSetInfo @@ srvsvc_NetrShareDel @@ srvsvc_NetrShareCheck
    @@ lsa_names @@ lsa_domains @@ lsa_Close @@ lsa_OpenPolicy2 @@ lsa_LookupSids2

Fields(t) ==
    CASE t \in Range(SHARE_INFO) -> srvsvc_SHARE_INFO(LevelOf(SHARE_INFO, t))
      [] t \in Range(CONTAINER) -> srvsvc_CONTAINER(LevelOf(CONTAINER, t))
      [] OTHER -> Types[t]

(* The arrays of lsa: the width of the count, 0 for one that varies with the *)
(* transfer syntax, and what follows it.                                     *)
LsaArrays ==
    [PRPC_SID_array |-> [n |-> 4, elem |-> <<Ptr("unique", "RPC_SID", "self")>>],
     TN_array |-> [n |-> 0, elem |-> <<Inline("TRANSLATED_NAME_EX", "self")>>],
     RDL_DOMAINS_array |-> [n |-> 0, elem |-> <<Inline("TRUST_INFORMATION", "self")>>]]

-----------------------------------------------------------------------------
(* A value in memory gives the counts and the fields that are constructs;  *)
(* the other scalars are 0.                                                 *)
Num(v, f) == IF v # NULL /\ f \in DOMAIN v THEN v[f] ELSE 0
Field(v, f) == IF v # NULL /\ f \in DOMAIN v THEN v[f] ELSE <<>>
With(v, f, x) == (f :> x) @@ (IF v = NULL THEN <<>> ELSE v)

RECURSIVE Alignment(_, _)

(* The alignment of a type: that of its largest member. *)
Alignment(s, t) ==
    LET Of(d) == CASE d.k = "word" -> d.n
                   [] d.k = "struct" -> Alignment(s, d.to)
                   [] d.k \in {"word3264", "ptr", "union"} -> Word3264(s)
                   [] OTHER -> 1
    IN  CASE t \in {"utf16z", "utf16"} -> 2
          [] t \in {"RPC_SID"} \cup DOMAIN LsaArrays \cup Range(CARRAY) -> Word3264(s)
          [] OTHER -> Max({Of(Fields(t)[i]) : i \in DOMAIN Fields(t)})

(* The coders call each other through their address: Coder is such a call,  *)
(* for a type, for a sequence of fields, or for the deferred pointers.      *)
RECURSIVE Coder(_, _, _, _)
Code(s, t, v) == Coder("type", s, t, v)
Run(s, fields, v) == Coder("fields", s, fields, v)
Deferred(s) == Coder("deferred", s, NULL, NULL)

(* ndr_do_coder: the conformance run, the alignment, the data run. *)
ndr_do_coder(s, t, v) ==
    LET a == Code([s EXCEPT !.max_alignment = 1, !.conf = TRUE], t, v)
        n == IF s.peer THEN Alignment(s, t) ELSE a.max_alignment
    IN  Code([a EXCEPT !.off = Align(@, n), !.conf = FALSE], t, v)

(* dcerpc_process_deferred_pointers: first come, first served. *)
DeferredCoder(s) ==
    IF s.ptrs = <<>> \/ ~s.ok THEN s
    ELSE LET p == Head(s.ptrs)
         IN  IF s.peer
             THEN LET a == Deferred(ndr_do_coder([s EXCEPT !.ptrs = <<>>], p.to, p.v))
                  IN  Deferred([a EXCEPT !.ptrs = Tail(s.ptrs)])
             ELSE Deferred(ndr_do_coder([s EXCEPT !.ptrs = Tail(@)], p.to, p.v))

dcerpc_process_deferred_pointers(s) ==
    LET a == Deferred([s EXCEPT !.top_level = FALSE])
    IN  [a EXCEPT !.top_level = s.top_level]

dcerpc_add_deferred_pointer_last(ptrs, p) == <<p>> \o ptrs

dcerpc_add_deferred_pointer(ptrs, p) == Append(ptrs, p)

(* At the top level the referent follows at once, and then what was        *)
(* deferred; elsewhere it is deferred itself.                              *)
Referent(s, to, v) ==
    LET p == [to |-> to, v |-> v]
    IN  IF s.top_level
        THEN [ndr_do_coder([s EXCEPT !.top_level = FALSE], to, v) EXCEPT !.top_level = TRUE]
        ELSE [s EXCEPT !.ptrs = IF s.peer THEN Append(@, p)
                                ELSE dcerpc_add_deferred_pointer(@, p)]

(* A top level pointer is followed by what its referent deferred. *)
Follow(s, to, v) ==
    IF ~s.ok THEN s
    ELSE LET a == Referent(s, to, v)
         IN  IF s.top_level THEN dcerpc_process_deferred_pointers(a) ELSE a

(* Reference and unique pointers; a reference at the top level has no id. *)
ndr_encode_ptr(s, type, to, v) ==
    LET id == ndr_word(s, Word3264(s), "ReferentId", IF v = NULL THEN 0 ELSE 1)
    IN  CASE s.conf -> Aligned(s, Word3264(s))
          [] ~s.conf /\ type = "ref" /\ s.top_level -> Follow(s, to, v)
          [] ~s.conf /\ type = "unique" /\ v = NULL -> id
          [] OTHER -> Follow(id, to, v)

ndr_decode_ptr(s, type, to, v) ==
    LET id == ndr_word(s, Word3264(s), "ReferentId", 0)
    IN  CASE type = "ref" /\ s.top_level -> IF s.conf THEN s ELSE Follow(s, to, v)
          [] s.conf /\ ~(type = "ref" /\ s.top_level) -> Aligned(s, Word3264(s))
          [] ~s.conf /\ type = "unique" /\ (id.last = 0 \/ v = NULL) -> id
          [] OTHER -> Follow(id, to, v)

ndr_ptr_coder(s, type, to, v) ==
    IF Decoding(s) THEN ndr_decode_ptr(s, type, to, v) ELSE ndr_encode_ptr(s, type, to, v)

(* The elements of an array, which a decoder finds zeroed. *)
Repeat(s, n, fields, items) ==
    LET Item[i \in 0..n] ==
          IF i = 0 THEN s
          ELSE Run(Item[i - 1], fields, IF i <= Len(items) THEN items[i] ELSE NULL)
    IN  Item[n]

(* The three counts of a string in the conformance run. *)
StringCounts(s, max_count, actual_count) ==
    LET a == ndr_conformance_coder(s, "max_count", max_count)
        b == ndr_conformance_coder(a, "offset", 0)
        c == ndr_conformance_coder(b, "actual_count", actual_count)
    IN  Aligned([c EXCEPT !.actual = c.last], 2)

(* A string of v characters; the one that is not terminated has room for   *)
(* an even number.                                                         *)
ndr_encode_utf16(s, v, nult) ==
    LET count == IF nult THEN v + 1 ELSE v
    IN  IF s.conf THEN StringCounts(s, IF nult THEN count ELSE Align(count, 2), count)
        ELSE Repeat(s, count, <<U(2, "char")>>, <<>>)

ndr_decode_utf16(s) ==
    IF s.conf THEN StringCounts(s, 0, 0) ELSE Repeat(s, s.actual, <<U(2, "char")>>, <<>>)

(* lsa_RPC_SID_coder: the count again, then the subauthorities. *)
lsa_RPC_SID(s, v) ==
    LET n == Num(v, "SubAuthorityCount")
        a == ndr_word(s, Word3264(s), "count", n)
        b == Run(a, <<U(1, "Revision"), U(1, "SubAuthorityCount")>>
                    \o [i \in 1..6 |-> U(1, "IdentifierAuthority")], v)
    IN  Repeat(b, IF Decoding(s) /\ ~s.conf THEN a.last ELSE n, <<U(4, "SubAuthority")>>, <<>>)

(* lsa_PRPC_SID_array_coder, TN_array_coder and RDL_DOMAINS_array_coder. *)
LsaArray(s, t, v) ==
    LET d == LsaArrays[t]
        n == Num(v, "Entries")
        a == ndr_word(s, IF d.n = 0 THEN Word3264(s) ELSE d.n, "count", n)
    IN  Repeat(a, IF Decoding(s) /\ ~s.conf THEN a.last ELSE n,
               d.elem, IF Decoding(s) THEN <<>> ELSE v.items)

(* ndr_carray_coder: the count has to be the one the structure gave. *)
ndr_carray_coder(s, t, v) ==
    LET a == ndr_conformance_coder(s, "max_count", s.size_is)
    IN  IF s.conf /\ a.last # s.size_is THEN Failed(a)
        ELSE Repeat(a, s.size_is, <<Inline(SHARE_INFO[LevelOf(CARRAY, t) + 1], "self")>>,
                    IF Decoding(s) THEN <<>> ELSE v)

(* A pointer that is decoded is one the caller allocated: it is not null.   *)
(* share_info is only allocated when there are entries.                     *)
Target(s, d, v) ==
    CASE d.f = "self" -> IF v = NULL THEN <<>> ELSE v
      [] d.f = "share_info" /\ Decoding(s) -> IF Num(v, "EntriesRead") > 0 THEN <<>> ELSE NULL
      [] Decoding(s) /\ d.f # "share_info" -> <<>>
      [] OTHER -> Field(v, d.f)

(* The fields of a construct one after the other. *)
FieldsCoder(s, fields, v) ==
    IF fields = <<>> \/ ~s.ok THEN s
    ELSE LET d == Head(fields)
             tag == IF d.k = "union" /\ d.tag # NULL THEN Num(v, d.tag) ELSE s.switch_is
             a == CASE d.k = "word" -> ndr_word(s, d.n, d.f, Num(v, d.f))
                    [] d.k = "word3264" -> ndr_word(s, Word3264(s), d.f, Num(v, d.f))
                    [] d.k = "align" -> dcerpc_align_3264(s)
                    [] d.k = "ptr" -> ndr_ptr_coder(s, d.type, d.to, Target(s, d, v))
                    [] d.k = "struct" ->
                         Code([s EXCEPT !.off = IF s.peer /\ ~s.conf THEN Align(@, Alignment(s, d.to)) ELSE @],
                              d.to, CASE Decoding(s) -> NULL [] d.f = "self" -> v [] OTHER -> Field(v, d.f))
                    [] d.k = "size_is" ->
                         IF Num(v, "EntriesRead") = 0 THEN s
                         ELSE [s EXCEPT !.size_is = Num(v, "EntriesRead")]
                    [] d.k = "switch_is" -> [s EXCEPT !.switch_is = Num(v, "Level")]
                    [] d.k = "union" ->
                         \* ndr_union_coder
                         LET u == ndr_word(s, Word3264(s), "tag", tag)
                             arm == IF s.conf THEN tag ELSE u.last
                         IN  Run([u EXCEPT !.switch_is = arm], UnionArm(d.of, arm), v)
             read == Decoding(s) /\ ~s.conf /\ d.k = "word"
         IN  Run(a, Tail(fields), IF read THEN With(v, d.f, a.last) ELSE v)

TypeCoder(s, t, v) ==
    IF ~s.ok THEN s
    ELSE CASE t \in {"utf16z", "utf16"} -> 
                  IF Decoding(s) THEN ndr_decode_utf16(s) ELSE ndr_encode_utf16(s, v, t = "utf16z")
           [] t = "RPC_SID" -> lsa_RPC_SID(s, v)
           [] t \in DOMAIN LsaArrays -> LsaArray(s, t, v)
           [] t \in Range(CARRAY) -> ndr_carray_coder(s, t, v)
           [] OTHER -> Run(s, Fields(t), v)

Coder(c, s, x, v) ==
    CASE c = "type" -> TypeCoder(s, x, v)
      [] c = "fields" -> FieldsCoder(s, x, v)
      [] c = "deferred" -> DeferredCoder(s)
=============================================================================
