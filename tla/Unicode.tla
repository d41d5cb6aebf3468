------------------------------ MODULE Unicode ------------------------------
(***************************************************************************)
(* The conversions of names (lib/unicode.c): the API of the library speaks *)
(* UTF-8, the wire UTF-16.  A UTF-8 string is a sequence of bytes without  *)
(* its terminating zero, a UTF-16 string a sequence of code units.  What a *)
(* server sends need not be well-formed.                                   *)
(***************************************************************************)
EXTENDS Integers, Sequences

(* A byte of a C string; behind the last one is the zero. *)
Byte(u, i) == IF i <= Len(u) THEN u[i] ELSE 0

(* Leading 1 bits of a byte; 5 stands for 5 to 8. *)
l1(c) == CASE c < 128 -> 0 [] c \in 128..191 -> 1 [] c \in 192..223 -> 2
           [] c \in 224..239 -> 3 [] c \in 240..247 -> 4 [] OTHER -> 5

Smallest(l) == CASE l <= 1 -> 0 [] l = 2 -> 128 [] l = 3 -> 2048 [] OTHER -> 65536

Surrogates      == 55296..57343       \* 0xd800..0xdfff
LeadSurrogates  == 55296..56319
TrailSurrogates == 56320..57343
LastCodePoint   == 1114111            \* 0x10ffff

(* Code point cp in UTF-16; no units when there is no such code point. *)
Units(cp) ==
    IF cp \in Surrogates \/ cp > LastCodePoint THEN <<>>
    ELSE IF cp < 65536 THEN <<cp>>
    ELSE <<55296 + (cp - 65536) \div 1024, 56320 + ((cp - 65536) % 1024)>>

(* The value of the l bytes at i. *)
CodePoint(u, i, l) ==
    LET value[k \in 0..3] ==
            IF k = 0 THEN (IF l = 0 THEN u[i] ELSE u[i] % 2^(7 - l))
            ELSE value[k - 1] * 64 + (Byte(u, i + k) % 64)
    IN  value[IF l = 0 THEN 0 ELSE l - 1]

(* Variant: without the check for overlong sequences. *)
validate_utf8_cp_overlong(u, i) ==
    LET l == l1(u[i]) IN
    [next |-> i + (IF l = 0 THEN 1 ELSE l),
     units |-> IF l \in {1, 5} \/ \E k \in 1..(l - 1) : l1(Byte(u, i + k)) # 1
               THEN <<>> ELSE Units(CodePoint(u, i, l))]

(* The sequence that starts at byte i, and where the next one does; no     *)
(* units when it is invalid.                                               *)
validate_utf8_cp(u, i) ==
    LET l == l1(u[i]) IN
    [next |-> i + (IF l = 0 THEN 1 ELSE l),
     units |-> IF \/ l \in {1, 5}
                  \/ \E k \in 1..(l - 1) : l1(Byte(u, i + k)) # 1
                  \/ CodePoint(u, i, l) < Smallest(l)
               THEN <<>> ELSE Units(CodePoint(u, i, l))]

(* ok is FALSE when the string is refused. *)
smb2_utf8_to_utf16(u) ==
    LET from[i \in 1..(Len(u) + 1)] ==
            IF i > Len(u) THEN [ok |-> TRUE, units |-> <<>>]
            ELSE LET c == validate_utf8_cp(u, i) IN
                 IF c.units = <<>> THEN [ok |-> FALSE, units |-> <<>>]
                 ELSE [ok    |-> from[c.next].ok,
                       units |-> c.units \o from[c.next].units]
    IN  from[1]

-----------------------------------------------------------------------------
(* The bytes smb2_utf16_to_utf8 allocates for u. *)
utf16_size(u) ==
    LET size[i \in 1..(Len(u) + 2)] ==
            IF i > Len(u) THEN 0
            ELSE IF u[i] < 128 THEN 1 + size[i + 1]
            ELSE IF u[i] < 2048 THEN 2 + size[i + 1]
            ELSE IF u[i] \notin LeadSurrogates THEN 3 + size[i + 1]
            ELSE IF i = Len(u) THEN 3
            ELSE IF u[i + 1] \in TrailSurrogates THEN 4 + size[i + 2]
            ELSE 3 + size[i + 1]
    IN  size[1]

(* A byte sequence of l bytes for code point cp. *)
Encode(cp, l) ==
    [k \in 1..l |->
        IF k > 1 THEN 128 + ((cp \div 64^(l - k)) % 64)
        ELSE CASE l = 1 -> cp [] l = 2 -> 192 + cp \div 64
               [] l = 3 -> 224 + cp \div 4096 [] l = 4 -> 240 + cp \div 262144]

Replacement == <<239, 191, 189>>

(* The bytes it writes there.  A surrogate without its other half becomes  *)
(* the replacement character.                                              *)
smb2_utf16_to_utf8(u) ==
    LET bytes[i \in 1..(Len(u) + 2)] ==
            IF i > Len(u) THEN <<>>
            ELSE IF u[i] < 128 THEN Encode(u[i], 1) \o bytes[i + 1]
            ELSE IF u[i] < 2048 THEN Encode(u[i], 2) \o bytes[i + 1]
            ELSE IF u[i] \notin Surrogates THEN Encode(u[i], 3) \o bytes[i + 1]
            ELSE IF u[i] \in TrailSurrogates THEN Replacement \o bytes[i + 1]
            ELSE IF i = Len(u) THEN Replacement
            ELSE IF u[i + 1] \in TrailSurrogates
                 THEN Encode(65536 + (u[i] % 1024) * 1024 + (u[i + 1] % 1024), 4)
                          \o bytes[i + 2]
            ELSE Replacement \o bytes[i + 1]
    IN  bytes[1]

-----------------------------------------------------------------------------
(* Reference: the bytes of every code point, by its range, and a string    *)
(* that consists of such.                                                  *)

Utf8(cp) ==
    Encode(cp, CASE cp < 128 -> 1 [] cp \in 128..2047 -> 2
                 [] cp \in 2048..65535 -> 3 [] OTHER -> 4)

(* Lead byte and second byte of well-formed sequences, by length. *)
Starts(l, a, b) ==
    CASE l = 2 -> a \in 194..223 /\ b \in 128..191
      [] l = 3 -> \/ a = 224 /\ b \in 160..191
                  \/ a \in (225..239) \ {237} /\ b \in 128..191
                  \/ a = 237 /\ b \in 128..159
      [] l = 4 -> \/ a = 240 /\ b \in 144..191
                  \/ a \in 241..243 /\ b \in 128..191
                  \/ a = 244 /\ b \in 128..143

WellFormed(u) ==
    LET from[i \in 1..(Len(u) + 1)] ==
            \/ i = Len(u) + 1
            \/ u[i] < 128 /\ from[i + 1]
            \/ \E l \in 2..4 :
                  /\ i + l <= Len(u) + 1
                  /\ Starts(l, u[i], u[i + 1])
                  /\ \A k \in 2..(l - 1) : u[i + k] \in 128..191
                  /\ from[i + l]
    IN  from[1]

(* A conversion to UTF-16 refuses exactly what is not well-formed, and the *)
(* conversion back restores the string.                                    *)
TextRestored(u) ==
    LET utf16 == smb2_utf8_to_utf16(u) IN
    /\ utf16.ok <=> WellFormed(u)
    /\ utf16.ok => smb2_utf16_to_utf8(utf16.units) = u

(* Whatever a peer sends as a name, the conversion to UTF-8 fills exactly  *)
(* the buffer it allocated, with a well-formed string.                     *)
TextSound(u) ==
    /\ Len(smb2_utf16_to_utf8(u)) = utf16_size(u)
    /\ WellFormed(smb2_utf16_to_utf8(u))
=============================================================================
