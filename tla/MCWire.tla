------------------------------- MODULE MCWire -------------------------------
(* The bounded instances of Wire. *)
EXTENDS Wire

(* Code points at the borders of the lengths they take. *)
CodePoints == {65, 2047, 2048, 65535, 65536, 1114111}

MCNames ==
    {<<>>} \cup {Utf8(a) : a \in CodePoints} \cup {Utf8(a) \o Utf8(b) : a, b \in {65, 65536}}

(* Bytes at the borders of the ranges that start and continue a sequence. *)
MCTexts ==
    UNION {[1..k -> {65, 127, 128, 143, 144, 159, 160, 191, 192, 193, 194, 224,
                     237, 239, 240, 244, 245, 255}] : k \in 0..3}
        \cup {<<a, b, c, d>> : a \in {239, 240, 241, 243, 244, 245},
                               b \in {127, 128, 143, 144, 191, 192},
                               c, d \in {65, 127, 128, 191, 192}}

MCUtf16s ==
    UNION {[1..k -> {0, 65, 127, 128, 2047, 2048, 55295, 55296, 56319, 56320, 57343,
                     57344, 65535}] : k \in 0..3}
=============================================================================
