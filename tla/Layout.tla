------------------------------- MODULE Layout -------------------------------
(***************************************************************************)
(* Marshalled data as libsmb2 builds it: a list of io vectors, here a      *)
(* sequence of segments, each of which says what it holds and how many     *)
(* bytes it takes.  A marshalled structure refers to its variable parts by *)
(* the offsets and lengths it announces.  The values of the scalar fields  *)
(* are left out: what is modelled is where the bytes go and where the      *)
(* other side looks for them.                                              *)
(***************************************************************************)
EXTENDS Integers, FiniteSetsExt, SequencesExt

(* PAD_TO_32BIT and PAD_TO_64BIT. *)
PAD_TO_32BIT(n) == ((n + 3) \div 4) * 4
PAD_TO_64BIT(n) == ((n + 7) \div 8) * 8

(* size & 0xfffe: a structure size is odd when a variable part follows.    *)
Even(n) == n - (n % 2)

(* A segment: the io vector, or the part of one, that holds field f. *)
Seg(f, n) == [f |-> f, len |-> n]

(* A segment of field f filled up with zeros to n bytes. *)
Filled(f, len, n) == <<Seg(f, len), Seg("pad", n - len)>>

(* smb2_add_iovector keeps total_size, the sum of the lengths. *)
Size(segs) == FoldLeft(LAMBDA n, s : n + s.len, 0, segs)

(* smb2_pad_to_64bit *)
pad_to_64bit(segs) ==
    segs \o <<Seg("pad", PAD_TO_64BIT(Size(segs)) - Size(segs))>>

(* A part of marshalled data: a field, where it starts, and its length. *)
Part(f, at, n) == [f |-> f, at |-> at, len |-> n]

(* The parts that segs holds, seen from the byte base of it. *)
Parts(segs, base) ==
    {Part(segs[i].f, Size(SubSeq(segs, 1, i - 1)) - base, segs[i].len) :
        i \in {j \in DOMAIN segs : segs[j].len > 0
                                   /\ segs[j].f \notin {"fixed", "pad"}}}

(* What a decoder finds: how many bytes it asks for, and the parts in them. *)
Found(n, parts) == [need |-> n, get |-> {p \in parts : p.len > 0}]

(* The decoder refuses its input. *)
Refused == [need |-> -1, get |-> {}]
=============================================================================
