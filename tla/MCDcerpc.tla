------------------------------ MODULE MCDcerpc ------------------------------
EXTENDS Dcerpc

M(t, v) == [t |-> t, v |-> v]
Call(name, req, rep) == [req |-> M(name[1], req), rep |-> M(name[2], rep), level |-> 0]

(* Strings by their length. *)
Strings == {0, 1, 3}

Info(a, b) == [netname |-> a, remark |-> b, path |-> b, passwd |-> a]

(* Shares that are listed; the container of a request is empty. *)
Listed == {<<>>} \cup {<<Info(a, b)>> : a, b \in Strings}
          \cup {<<Info(a, b), Info(b, a)>> : a, b \in Strings}
Container(s) == [EntriesRead |-> Len(s), share_info |-> IF s = <<>> THEN NULL ELSE s]
Ses(l, s) == [Level |-> l, arm |-> Container(s)]

ShareEnum ==
    {Call(<<"NetrShareEnum_req", "NetrShareEnum_rep">>,
          [ServerName |-> n, ses |-> Ses(l, <<>>)], [ses |-> Ses(l, s)]) :
        n \in {2, 3}, l \in 0..2, s \in Listed}

ShareInfo ==
    {[Call(<<"NetrShareGetInfo_req", "NetrShareGetInfo_rep">>,
           [ServerName |-> n, NetName |-> m, Level |-> l],
           [InfoStruct |-> [arm |-> Info(m, n)]]) EXCEPT !.level = l] :
        n, m \in Strings, l \in 0..2}
    \cup
    {Call(t, [ServerName |-> n, NetName |-> m, Level |-> l, InfoStruct |-> [arm |-> Info(m, n)]], <<>>) :
        t \in {<<"NetrShareAdd_req", "NetrShareAdd_rep">>,
               <<"NetrShareSetInfo_req", "NetrShareSetInfo_rep">>},
        n, m \in Strings, l \in 0..2}
    \cup
    {Call(t, [ServerName |-> n, NetName |-> m], <<>>) :
        t \in {<<"NetrShareDel_req", "NetrShareDel_rep">>,
               <<"NetrShareCheck_req", "NetrShareCheck_rep">>},
        n, m \in Strings}

Sid(n) == [SubAuthorityCount |-> n]
Name(n) == [Utf16 |-> n, Length |-> 2 * n, MaxLength |-> 2 * (n + (n % 2))]
Array(items) == [Entries |-> Len(items), items |-> items]
Upto2 == {<<>>, <<1>>, <<2>>, <<1, 2>>, <<2, 1>>}
Translated == {Array([i \in DOMAIN s |-> [Name |-> Name(s[i])]]) : s \in Upto2}
Domains == {Array([i \in DOMAIN s |-> [Name |-> Name(s[i]), Sid |-> Sid(s[i])]]) : s \in Upto2}

Lsa ==
    {Call(<<"OpenPolicy2_req", "OpenPolicy2_rep">>, [SystemName |-> n], <<>>) : n \in Strings}
    \cup {Call(<<"Close_req", "Close_rep">>, <<>>, <<>>)}
    \cup
    {Call(<<"LookupSids2_req", "LookupSids2_rep">>,
          [SidEnumBuffer |-> Array([i \in DOMAIN s |-> Sid(s[i])]), TranslatedNames |-> Array(<<>>)],
          [ReferencedDomains |-> d, TranslatedNames |-> t]) :
        s \in {<<>>, <<1>>, <<2, 0>>}, d \in Domains \cup {NULL}, t \in Translated}

MCCalls == ShareEnum \cup ShareInfo \cup Lsa
=============================================================================
