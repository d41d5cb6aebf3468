----------------------------- MODULE SeqLemmas -----------------------------
(* Facts about duplicate-free sequences, the queues of the engine, and     *)
(* about sums, of credits and of bytes.                                    *)
EXTENDS Integers, SequencesExt, SequenceTheorems, FiniteSetTheorems,
        WellFoundedInduction, TLAPS

(* The elements of a sequence are its values at 1..Len. *)
LEMMA SeqElements ==
    ASSUME NEW S, NEW s \in Seq(S)
    PROVE  /\ Len(s) \in Nat /\ DOMAIN s = 1..Len(s)
           /\ \A x : x \in Range(s) <=> \E i \in 1..Len(s) : s[i] = x
           /\ Range(s) \subseteq S
           /\ (s = <<>>) <=> (Len(s) = 0)
           /\ (s = <<>>) <=> (Range(s) = {})
<1>1. Len(s) \in Nat /\ s \in [1..Len(s) -> S] /\ DOMAIN s = 1..Len(s)
  BY LenProperties
<1>2. \A x : x \in Range(s) <=> \E i \in 1..Len(s) : s[i] = x
  BY <1>1 DEF Range
<1>3. (s = <<>>) <=> (Len(s) = 0)
  BY <1>1, EmptySeq
<1>4. (Len(s) = 0) <=> (Range(s) = {})
  <2>1. CASE Len(s) = 0
    BY <1>2, <2>1
  <2>2. CASE Len(s) # 0
    <3>1. 1 \in 1..Len(s)
      BY <1>1, <2>2
    <3> QED BY <1>2, <2>2, <3>1
  <2> QED BY <2>1, <2>2
<1> QED BY <1>1, <1>2, <1>3, <1>4

(* A sequence of no element and of one element. *)
LEMMA SmallSeq ==
    ASSUME NEW S
    PROVE  /\ <<>> \in Seq(S) /\ Range(<<>>) = {} /\ IsInjective(<<>>)
           /\ \A p \in S : /\ <<p>> \in Seq(S) /\ Range(<<p>>) = {p}
                           /\ IsInjective(<<p>>) /\ <<p>> # <<>>
                           /\ <<p>>[1] = p /\ Len(<<p>>) = 1
<1>1. <<>> \in Seq(S) /\ Range(<<>>) = {} /\ IsInjective(<<>>)
  BY DEF Range, IsInjective
<1>2. ASSUME NEW p \in S
      PROVE  /\ <<p>> \in Seq(S) /\ Range(<<p>>) = {p}
             /\ IsInjective(<<p>>) /\ <<p>> # <<>>
             /\ <<p>>[1] = p /\ Len(<<p>>) = 1
  <2>1. <<p>> \in Seq(S) /\ Len(<<p>>) = 1 /\ <<p>>[1] = p
    OBVIOUS
  <2>2. DOMAIN <<p>> = {1}
    OBVIOUS
  <2>3. Range(<<p>>) = {p} /\ IsInjective(<<p>>)
    BY <2>1, <2>2 DEF Range, IsInjective
  <2> QED BY <2>1, <2>3
<1> QED BY <1>1, <1>2

(* Concatenation of duplicate-free sequences with no element in common. *)
LEMMA ConcatSeq ==
    ASSUME NEW S, NEW s \in Seq(S), NEW t \in Seq(S)
    PROVE  /\ s \o t \in Seq(S)
           /\ Range(s \o t) = Range(s) \cup Range(t)
           /\ s # <<>> => s \o t # <<>> /\ (s \o t)[1] = s[1]
           /\ (IsInjective(s) /\ IsInjective(t) /\ Range(s) \cap Range(t) = {})
                  => IsInjective(s \o t)
<1> DEFINE u == s \o t
           m == Len(s)
           k == Len(t)
<1>1. /\ m \in Nat /\ DOMAIN s = 1..m
      /\ \A x : x \in Range(s) <=> \E i \in 1..m : s[i] = x
      /\ (s = <<>>) <=> (m = 0)
  BY SeqElements
<1>2. /\ k \in Nat /\ DOMAIN t = 1..k
      /\ \A x : x \in Range(t) <=> \E i \in 1..k : t[i] = x
  BY SeqElements
<1>3. /\ u \in Seq(S) /\ Len(u) = m + k
      /\ \A i \in 1..(m + k) : u[i] = IF i <= m THEN s[i] ELSE t[i - m]
  BY ConcatProperties
<1> HIDE DEF u, m, k
<1>4. /\ DOMAIN u = 1..(m + k)
      /\ \A x : x \in Range(u) <=> \E i \in 1..(m + k) : u[i] = x
      /\ (u = <<>>) <=> (m + k = 0)
  BY <1>3, SeqElements
<1>5. \A i \in 1..m : i \in 1..(m + k) /\ u[i] = s[i]
  BY <1>1, <1>2, <1>3
<1>6. \A i \in 1..k : m + i \in 1..(m + k) /\ u[m + i] = t[i]
  <2> SUFFICES ASSUME NEW i \in 1..k
               PROVE  m + i \in 1..(m + k) /\ u[m + i] = t[i]
    OBVIOUS
  <2>1. m + i \in 1..(m + k) /\ ~(m + i <= m) /\ (m + i) - m = i
    BY <1>1, <1>2
  <2> QED BY <2>1, <1>3
<1>7. \A i \in 1..(m + k) : (i \in 1..m /\ u[i] = s[i])
                            \/ (i - m \in 1..k /\ u[i] = t[i - m])
  BY <1>1, <1>2, <1>3
<1>8. Range(u) = Range(s) \cup Range(t)
  <2>1. \A x \in Range(s) : x \in Range(u)
    BY <1>1, <1>4, <1>5
  <2>2. \A x \in Range(t) : x \in Range(u)
    BY <1>2, <1>4, <1>6
  <2>3. \A x \in Range(u) : x \in Range(s) \cup Range(t)
    BY <1>1, <1>2, <1>4, <1>7
  <2> QED BY <2>1, <2>2, <2>3
<1>9. ASSUME IsInjective(s), IsInjective(t), Range(s) \cap Range(t) = {}
      PROVE  IsInjective(u)
  <2> SUFFICES ASSUME NEW i \in 1..(m + k), NEW j \in 1..(m + k), u[i] = u[j]
               PROVE  i = j
    BY <1>4 DEF IsInjective
  <2>1. CASE i \in 1..m /\ u[i] = s[i] /\ j \in 1..m /\ u[j] = s[j]
    BY <1>1, <1>9, <2>1 DEF IsInjective
  <2>2. CASE i - m \in 1..k /\ u[i] = t[i - m] /\ j - m \in 1..k /\ u[j] = t[j - m]
    <3>1. i - m = j - m
      BY <1>2, <1>9, <2>2 DEF IsInjective
    <3> QED BY <1>1, <1>2, <3>1
  <2>3. CASE i \in 1..m /\ u[i] = s[i] /\ j - m \in 1..k /\ u[j] = t[j - m]
    BY <1>1, <1>2, <1>9, <2>3
  <2>4. CASE i - m \in 1..k /\ u[i] = t[i - m] /\ j \in 1..m /\ u[j] = s[j]
    BY <1>1, <1>2, <1>9, <2>4
  <2> QED BY <1>7, <2>1, <2>2, <2>3, <2>4
<1>10. s # <<>> => u # <<>> /\ u[1] = s[1]
  BY <1>1, <1>2, <1>4, <1>5
<1> QED BY <1>3, <1>8, <1>9, <1>10 DEF u

(* Head and Tail. *)
LEMMA TailSeq ==
    ASSUME NEW S, NEW q \in Seq(S), q # <<>>
    PROVE  /\ Tail(q) \in Seq(S) /\ Head(q) \in Range(q) /\ Head(q) \in S
           /\ Head(q) = q[1]
           /\ Range(Tail(q)) \subseteq Range(q)
           /\ IsInjective(q) => /\ IsInjective(Tail(q))
                              /\ Range(Tail(q)) = Range(q) \ {Head(q)}
<1> DEFINE t == Tail(q)
           k == Len(q)
<1>1. /\ k \in Nat /\ DOMAIN q = 1..k /\ k # 0
      /\ \A x : x \in Range(q) <=> \E i \in 1..k : q[i] = x
  BY SeqElements
<1>2. /\ t \in Seq(S) /\ Len(t) = k - 1 /\ Head(q) \in S
      /\ \A i \in 1..Len(t) : t[i] = q[i + 1]
  BY HeadTailProperties
<1>3. /\ DOMAIN t = 1..(k - 1)
      /\ \A x : x \in Range(t) <=> \E i \in 1..(k - 1) : t[i] = x
  BY <1>2, SeqElements
<1>4. Head(q) = q[1]
  OBVIOUS
<1> HIDE DEF t, k
<1>5. \A i \in 1..(k - 1) : i + 1 \in 1..k /\ t[i] = q[i + 1]
  BY <1>1, <1>2
<1>6. \A i \in 1..k : i = 1 \/ (i - 1 \in 1..(k - 1) /\ t[i - 1] = q[i])
  <2> SUFFICES ASSUME NEW i \in 1..k, i # 1
               PROVE  i - 1 \in 1..(k - 1) /\ t[i - 1] = q[i]
    OBVIOUS
  <2>1. i - 1 \in 1..(k - 1) /\ (i - 1) + 1 = i
    BY <1>1
  <2> QED BY <2>1, <1>5
<1>7. Head(q) \in Range(q) /\ 1 \in 1..k
  BY <1>1, <1>4
<1>8. Range(t) \subseteq Range(q)
  BY <1>1, <1>3, <1>5
<1>9. ASSUME IsInjective(q)
      PROVE  IsInjective(t) /\ Range(t) = Range(q) \ {Head(q)}
  <2>0. \A i, j \in 1..k : q[i] = q[j] => i = j
    BY <1>1, <1>9 DEF IsInjective
  <2>1. \A i, j \in 1..(k - 1) : t[i] = t[j] => i = j
    <3> SUFFICES ASSUME NEW i \in 1..(k - 1), NEW j \in 1..(k - 1), t[i] = t[j]
                 PROVE  i = j
      OBVIOUS
    <3>1. i + 1 = j + 1
      BY <1>5, <2>0
    <3> QED BY <3>1, <1>1
  <2>2. \A i \in 1..(k - 1) : t[i] # q[1]
    <3> SUFFICES ASSUME NEW i \in 1..(k - 1), t[i] = q[1] PROVE FALSE
      OBVIOUS
    <3>1. i + 1 = 1
      BY <1>5, <1>7, <2>0
    <3> QED BY <3>1, <1>1
  <2>3. \A x \in Range(t) : x # Head(q)
    BY <1>3, <1>4, <2>2
  <2>4. \A x \in Range(q) \ {Head(q)} : x \in Range(t)
    BY <1>1, <1>3, <1>4, <1>6
  <2> QED BY <1>3, <1>8, <2>1, <2>3, <2>4 DEF IsInjective
<1> QED BY <1>2, <1>4, <1>7, <1>8, <1>9 DEF t

(* Unlinking one element. *)
LEMMA RemoveAtSeq ==
    ASSUME NEW S, NEW q \in Seq(S), NEW i \in 1..Len(q)
    PROVE  /\ RemoveAt(q, i) \in Seq(S)
           /\ Len(RemoveAt(q, i)) = Len(q) - 1
           /\ \A j \in 1..(Len(q) - 1) :
                  RemoveAt(q, i)[j] = IF j < i THEN q[j] ELSE q[j + 1]
<1> DEFINE u == SubSeq(q, 1, i - 1)
           v == SubSeq(q, i + 1, Len(q))
           k == Len(q)
<1>0. k \in Nat /\ i \in 1..k /\ \A j \in 1..k : q[j] \in S
  BY LenProperties, ElementOfSeq
<1>1. u \in Seq(S) /\ Len(u) = i - 1 /\ \A j \in 1..(i - 1) : u[j] = q[j]
  <2>1. 1 \in Int /\ i - 1 \in Int /\ \A j \in 1..(i - 1) : q[j] \in S
    BY <1>0
  <2> HIDE DEF k
  <2>2. /\ u \in Seq(S) /\ Len(u) = IF 1 <= i - 1 THEN (i - 1) - 1 + 1 ELSE 0
        /\ \A j \in 1..((i - 1) - 1 + 1) : u[j] = q[1 + j - 1]
    BY <2>1, SubSeqProperties
  <2> HIDE DEF u
  <2>3. (i - 1) - 1 + 1 = i - 1 /\ \A j \in 1..(i - 1) : 1 + j - 1 = j
    BY <1>0
  <2>4. Len(u) = i - 1
    BY <1>0, <2>2
  <2>5. \A j \in 1..(i - 1) : u[j] = q[j]
    BY <2>2, <2>3
  <2> QED BY <2>2, <2>4, <2>5
<1>2. v \in Seq(S) /\ Len(v) = k - i /\ \A j \in 1..(k - i) : v[j] = q[i + j]
  <2>1. i + 1 \in Int /\ k \in Int /\ \A j \in (i + 1)..k : q[j] \in S
    BY <1>0
  <2>2. /\ v \in Seq(S) /\ Len(v) = IF i + 1 <= k THEN k - (i + 1) + 1 ELSE 0
        /\ \A j \in 1..(k - (i + 1) + 1) : v[j] = q[(i + 1) + j - 1]
    BY <2>1, SubSeqProperties
  <2> HIDE DEF v, k
  <2>3. k - (i + 1) + 1 = k - i /\ \A j \in 1..(k - i) : (i + 1) + j - 1 = i + j
    BY <1>0
  <2>4. Len(v) = k - i
    BY <1>0, <2>2
  <2>5. \A j \in 1..(k - i) : v[j] = q[i + j]
    BY <2>2, <2>3
  <2> QED BY <2>2, <2>4, <2>5
<1>3. RemoveAt(q, i) = u \o v
  BY DEF RemoveAt
<1> HIDE DEF u, v, k
<1>4. /\ u \o v \in Seq(S) /\ Len(u \o v) = Len(u) + Len(v)
      /\ \A j \in 1..(Len(u) + Len(v)) :
             (u \o v)[j] = IF j <= Len(u) THEN u[j] ELSE v[j - Len(u)]
  BY <1>1, <1>2, ConcatProperties
<1>5. Len(u) + Len(v) = k - 1
  BY <1>0, <1>1, <1>2
<1>6. ASSUME NEW j \in 1..(k - 1)
      PROVE  (u \o v)[j] = IF j < i THEN q[j] ELSE q[j + 1]
  <2>1. CASE j < i
    <3>1. j <= Len(u) /\ j \in 1..(i - 1)
      BY <1>0, <1>1, <2>1
    <3> QED BY <1>1, <1>4, <1>5, <2>1, <3>1
  <2>2. CASE ~(j < i)
    <3>1. ~(j <= Len(u)) /\ j - Len(u) \in 1..(k - i) /\ i + (j - Len(u)) = j + 1
      BY <1>0, <1>1, <2>2
    <3>2. (u \o v)[j] = v[j - Len(u)]
      BY <1>4, <1>5, <3>1
    <3> QED BY <1>2, <2>2, <3>1, <3>2
  <2> QED BY <2>1, <2>2
<1> QED BY <1>3, <1>4, <1>5, <1>6 DEF k

(* RemoveFirst of a duplicate-free sequence removes exactly that element. *)
LEMMA RemoveFirstSeq ==
    ASSUME NEW S, NEW q \in Seq(S), IsInjective(q), NEW p
    PROVE  /\ RemoveFirst(q, p) \in Seq(S)
           /\ Range(RemoveFirst(q, p)) = Range(q) \ {p}
           /\ IsInjective(RemoveFirst(q, p))
           /\ p \notin Range(q) => RemoveFirst(q, p) = q
<1> DEFINE r == RemoveFirst(q, p)
           k == Len(q)
<1>1. /\ k \in Nat /\ DOMAIN q = 1..k
      /\ \A x : x \in Range(q) <=> \E i \in 1..k : q[i] = x
  BY SeqElements
<1>2. CASE p \notin Range(q)
  <2>1. RemoveFirst(q, p) = q
    BY <1>1, <1>2 DEF RemoveFirst
  <2> QED BY <1>2, <2>1
<1>3. CASE p \in Range(q)
  <2>1. PICK i \in 1..k : q[i] = p
    BY <1>1, <1>3
  <2>2. \A x, y \in 1..k : q[x] = q[y] => x = y
    BY <1>1 DEF IsInjective
  <2>3. {j \in 1..k : q[j] = p} = {i}
    BY <2>1, <2>2
  <2>4. Min({i}) = i
    BY <1>1 DEF Min
  <2>5. r = RemoveAt(q, i)
    BY <2>1, <2>3, <2>4 DEF RemoveFirst, SelectInSeq
  <2>6. /\ r \in Seq(S) /\ Len(r) = k - 1
        /\ \A j \in 1..(k - 1) : r[j] = IF j < i THEN q[j] ELSE q[j + 1]
    BY <2>1, <2>5, RemoveAtSeq
  <2>7. /\ DOMAIN r = 1..(k - 1)
        /\ \A x : x \in Range(r) <=> \E j \in 1..(k - 1) : r[j] = x
    BY <2>6, SeqElements
  <2> HIDE DEF r, k
  <2>8. \A j \in 1..(k - 1) : \E x \in 1..k : x # i /\ r[j] = q[x]
    BY <1>1, <2>1, <2>6
  <2>9. \A x \in 1..k : x # i => \E j \in 1..(k - 1) : r[j] = q[x]
    <3> SUFFICES ASSUME NEW x \in 1..k, x # i
                 PROVE  \E j \in 1..(k - 1) : r[j] = q[x]
      OBVIOUS
    <3>1. CASE x < i
      BY <1>1, <2>1, <2>6, <3>1
    <3>2. CASE i < x
      <4>1. x - 1 \in 1..(k - 1) /\ ~(x - 1 < i) /\ (x - 1) + 1 = x
        BY <1>1, <2>1, <3>2
      <4> QED BY <2>6, <4>1
    <3> QED BY <1>1, <2>1, <3>1, <3>2
  <2>10. Range(r) = Range(q) \ {p}
    <3>1. \A y \in Range(r) : y \in Range(q) /\ y # p
      BY <1>1, <2>1, <2>2, <2>7, <2>8
    <3>2. \A y \in Range(q) \ {p} : y \in Range(r)
      BY <1>1, <2>1, <2>7, <2>9
    <3> QED BY <3>1, <3>2
  <2>11. \A x, y \in 1..(k - 1) : r[x] = r[y] => x = y
    <3> SUFFICES ASSUME NEW x \in 1..(k - 1), NEW y \in 1..(k - 1), r[x] = r[y]
                 PROVE  x = y
      OBVIOUS
    <3> DEFINE X == IF x < i THEN x ELSE x + 1
               Y == IF y < i THEN y ELSE y + 1
    <3>1. X \in 1..k /\ Y \in 1..k
      BY <1>1, <2>1
    <3>2. r[x] = q[X] /\ r[y] = q[Y]
      BY <2>6
    <3>3. X = Y
      BY <2>2, <3>1, <3>2
    <3> QED BY <1>1, <2>1, <3>3
  <2> QED BY <1>3, <2>6, <2>7, <2>10, <2>11 DEF IsInjective, r
<1> QED BY <1>2, <1>3

(* Appending, index by index. *)
LEMMA AppendIndex ==
    ASSUME NEW S, NEW q \in Seq(S), NEW x \in S
    PROVE  /\ Append(q, x) \in Seq(S) /\ Len(Append(q, x)) = Len(q) + 1
           /\ DOMAIN q = 1..Len(q) /\ Len(q) \in Nat
           /\ DOMAIN Append(q, x) = 1..(Len(q) + 1)
           /\ Len(q) + 1 \in DOMAIN Append(q, x)
           /\ \A j \in DOMAIN q : j \in DOMAIN Append(q, x) /\ Append(q, x)[j] = q[j]
           /\ \A j \in DOMAIN Append(q, x) : j \in DOMAIN q \/ j = Len(q) + 1
           /\ Append(q, x)[Len(q) + 1] = x
           /\ Append(q, x) # <<>>
<1>1. /\ Append(q, x) \in Seq(S) /\ Len(Append(q, x)) = Len(q) + 1
      /\ \A j \in 1..Len(q) : Append(q, x)[j] = q[j]
      /\ Append(q, x)[Len(q) + 1] = x
  BY AppendProperties
<1>2. Len(q) \in Nat /\ DOMAIN q = 1..Len(q)
  BY SeqElements
<1>3. DOMAIN Append(q, x) = 1..(Len(q) + 1)
  BY <1>1, <1>2, SeqElements
<1>4. Append(q, x) # <<>>
  BY <1>1, <1>2, SeqElements
<1>5. /\ Len(q) + 1 \in 1..(Len(q) + 1)
      /\ \A j \in 1..Len(q) : j \in 1..(Len(q) + 1)
      /\ \A j \in 1..(Len(q) + 1) : j \in 1..Len(q) \/ j = Len(q) + 1
  BY <1>2
<1> QED BY <1>1, <1>2, <1>3, <1>4, <1>5

(* r holds the elements of q, each once, but for the one at i.             *)
LeavesOut(r, q, i) ==
    \E f \in [DOMAIN r -> DOMAIN q] :
        /\ \A j \in DOMAIN r : f[j] # i /\ r[j] = q[f[j]]
        /\ \A j, k \in DOMAIN r : f[j] = f[k] => j = k
        /\ \A k \in DOMAIN q : k # i => \E j \in DOMAIN r : f[j] = k

(* Unlinking, index by index: what is left are the other elements. *)
LEMMA RemoveAtIndex ==
    ASSUME NEW S, NEW q \in Seq(S), NEW i \in DOMAIN q, NEW r, r = RemoveAt(q, i)
    PROVE  /\ r \in Seq(S) /\ Len(r) = Len(q) - 1
           /\ LeavesOut(r, q, i)
<1> DEFINE n == Len(q)
           f == [j \in 1..(n - 1) |-> IF j < i THEN j ELSE j + 1]
<1>1. n \in Nat /\ DOMAIN q = 1..n /\ i \in 1..n
  BY SeqElements
<1>2. /\ r \in Seq(S) /\ Len(r) = n - 1
      /\ \A j \in 1..(n - 1) : r[j] = IF j < i THEN q[j] ELSE q[j + 1]
  BY <1>1, RemoveAtSeq
<1>3. DOMAIN r = 1..(n - 1)
  BY <1>2, SeqElements
<1> HIDE DEF n
<1>4. f \in [1..(n - 1) -> 1..n]
  BY <1>1
<1>5. \A j \in 1..(n - 1) : f[j] # i /\ r[j] = q[f[j]]
  BY <1>1, <1>2
<1>6. \A j, k \in 1..(n - 1) : f[j] = f[k] => j = k
  BY <1>1
<1>7. ASSUME NEW k \in 1..n, k # i
      PROVE  \E j \in 1..(n - 1) : f[j] = k
  <2>1. CASE k < i
    <3>1. k \in 1..(n - 1) /\ f[k] = k
      BY <1>1, <2>1
    <3> QED BY <3>1
  <2>2. CASE k > i
    <3>1. k - 1 \in 1..(n - 1) /\ ~(k - 1 < i) /\ (k - 1) + 1 = k
      BY <1>1, <2>2
    <3>2. f[k - 1] = k
      BY <3>1
    <3> QED BY <3>1, <3>2
  <2> QED BY <1>1, <1>7, <2>1, <2>2
<1> HIDE DEF f
<1>8. /\ f \in [DOMAIN r -> DOMAIN q]
      /\ \A j \in DOMAIN r : f[j] # i /\ r[j] = q[f[j]]
      /\ \A j, k \in DOMAIN r : f[j] = f[k] => j = k
      /\ \A k \in DOMAIN q : k # i => \E j \in DOMAIN r : f[j] = k
  BY <1>1, <1>3, <1>4, <1>5, <1>6, <1>7
<1>9. \E g \in [DOMAIN r -> DOMAIN q] :
          /\ \A j \in DOMAIN r : g[j] # i /\ r[j] = q[g[j]]
          /\ \A j, k \in DOMAIN r : g[j] = g[k] => j = k
          /\ \A k \in DOMAIN q : k # i => \E j \in DOMAIN r : g[j] = k
  BY <1>8, Zenon
<1> QED BY <1>2, <1>9 DEF n, LeavesOut

(* A set of natural numbers that is not empty has a least element: the     *)
(* search loops of the library stop at the first entry that fits.          *)
LEMMA LeastNat ==
    ASSUME NEW T \in SUBSET Nat, T # {}
    PROVE  \E x \in T : \A y \in T : x <= y
<1> DEFINE R == OpToRel(<, Nat)
<1>1. IsWellFoundedOn(R, Nat)
  BY NatLessThanWellFounded
<1>2. \A y, x \in Nat : y < x => <<y, x>> \in R
  <2> SUFFICES ASSUME NEW y \in Nat, NEW x \in Nat, y < x PROVE <<y, x>> \in R
    OBVIOUS
  <2>1. <<y, x>> \in {ss \in Nat \X Nat : ss[1] < ss[2]}
    OBVIOUS
  <2>2. R = {ss \in Nat \X Nat : ss[1] < ss[2]}
    BY Zenon DEF OpToRel
  <2> HIDE DEF R
  <2> QED BY <2>1, <2>2
<1> HIDE DEF R
<1>3. PICK x \in T : \A y \in T : ~ (<<y, x>> \in R)
  BY <1>1, WFMin
<1>4. \A y \in T : x <= y
  <2> SUFFICES ASSUME NEW y \in T PROVE x <= y
    OBVIOUS
  <2>1. ~ (y < x) /\ x \in Nat /\ y \in Nat
    BY <1>2, <1>3
  <2> QED BY <2>1
<1> QED BY <1>4

(* So has Min of such a set its meaning. *)
LEMMA MinNat ==
    ASSUME NEW T \in SUBSET Nat, T # {}
    PROVE  Min(T) \in T /\ \A y \in T : Min(T) <= y
  BY LeastNat DEF Min

(* The index of the first entry that equals p, or 0 if there is none.      *)
IndexOf(q, p) == SelectInSeq(q, LAMBDA x : x = p)

(* That is what it is: the searches of lib/pdu.c stop at an entry or fail. *)
LEMMA IndexOfEntry ==
    ASSUME NEW S, NEW q \in Seq(S), NEW p, NEW i, i = IndexOf(q, p)
    PROVE  \/ i = 0 /\ p \notin Range(q)
           \/ i # 0 /\ i \in DOMAIN q /\ q[i] = p
<1> DEFINE I == {j \in 1..Len(q) : q[j] = p}
<1>1. /\ Len(q) \in Nat /\ DOMAIN q = 1..Len(q)
      /\ \A x : x \in Range(q) <=> \E j \in 1..Len(q) : q[j] = x
  BY SeqElements
<1>2. i = IF I # {} THEN Min(I) ELSE 0
  BY DEF IndexOf, SelectInSeq
<1>3. CASE I = {}
  BY <1>1, <1>2, <1>3
<1>4. CASE I # {}
  <2>1. I \in SUBSET Nat
    BY <1>1
  <2>2. Min(I) \in I
    BY <1>4, <2>1, MinNat
  <2> QED BY <1>1, <1>2, <1>4, <2>2
<1> QED BY <1>3, <1>4

-----------------------------------------------------------------------------
(* Sums.  The fold of the library that adds up v[x] for x in S counts the  *)
(* elements of disjoint sets U[x] of v[x] elements each, in whatever order *)
(* the fold takes them.                                                    *)

Pile(U, s) == UNION {U[x] : x \in s}

Piles(U, v, S) ==
    /\ IsFiniteSet(S)
    /\ \A x \in S : v[x] \in Nat /\ IsFiniteSet(U[x]) /\ Cardinality(U[x]) = v[x]
    /\ \A x, y \in S : x # y => U[x] \cap U[y] = {}

(* Taking one set away takes its elements away.                            *)
LEMMA PileOne ==
    ASSUME NEW S, NEW U, NEW v, Piles(U, v, S), NEW s \in SUBSET S, NEW x \in s
    PROVE  /\ IsFiniteSet(Pile(U, s)) /\ Cardinality(Pile(U, s)) \in Nat
           /\ Cardinality(Pile(U, s \ {x})) \in Nat
           /\ Cardinality(Pile(U, s)) = v[x] + Cardinality(Pile(U, s \ {x}))
<1>1. \A t \in SUBSET S : IsFiniteSet(Pile(U, t)) /\ Cardinality(Pile(U, t)) \in Nat
  <2> TAKE t \in SUBSET S
  <2>1. IsFiniteSet(t)
    BY FS_Subset DEF Piles
  <2>2. IsFiniteSet({U[y] : y \in t})
    <3> DEFINE V == {U[y] : y \in t}
               g == [y \in t |-> U[y]]
    <3>1. g \in Surjection(t, V)
      BY DEF Surjection
    <3> HIDE DEF g
    <3> QED BY <2>1, <3>1, FS_Surjection
  <2>3. \A T \in {U[y] : y \in t} : IsFiniteSet(T)
    BY DEF Piles
  <2>4. IsFiniteSet(Pile(U, t))
    BY <2>2, <2>3, FS_UNION DEF Pile
  <2> QED BY <2>4, FS_CardinalityType
<1> DEFINE A == U[x]
           B == Pile(U, s \ {x})
<1>2. IsFiniteSet(A) /\ Cardinality(A) = v[x] /\ v[x] \in Nat
  BY DEF Piles
<1>3. s \ {x} \in SUBSET S
  OBVIOUS
<1>4. IsFiniteSet(B) /\ Cardinality(B) \in Nat
  BY <1>1, <1>3
<1>5. Pile(U, s) = A \cup B
  BY DEF Pile
<1>6. A \cap B = {}
  BY DEF Pile, Piles
<1>7. Cardinality(A \cup B) = Cardinality(A) + Cardinality(B) - Cardinality(A \cap B)
  BY <1>2, <1>4, FS_Union
<1>8. Cardinality(A \cap B) = 0
  BY <1>6, FS_EmptySet
<1> HIDE DEF A, B
<1>9. Cardinality(Pile(U, s)) = v[x] + Cardinality(B)
  BY <1>2, <1>4, <1>5, <1>7, <1>8
<1> QED BY <1>1, <1>4, <1>9 DEF B

(* f adds v up, taking the elements of a set in the order of c.            *)
Adds(f, c, v, S) ==
    \A s \in SUBSET S :
        /\ s = {} => f[s] = 0
        /\ s # {} => \/ f[s] = v[c[s]] + f[s \ {c[s]}]
                    \/ f[s] = f[s \ {c[s]}] + v[c[s]]

(* There is one such function on the subsets of S, the size of the pile.   *)
LEMMA PileAdds ==
    ASSUME NEW S, NEW U, NEW v, Piles(U, v, S),
           NEW c, \A s \in SUBSET S : s # {} => c[s] \in s
    PROVE  /\ Cardinality(Pile(U, {})) = 0
           /\ \A s \in SUBSET S : s # {} =>
                  /\ Cardinality(Pile(U, s)) = v[c[s]] + Cardinality(Pile(U, s \ {c[s]}))
                  /\ Cardinality(Pile(U, s)) = Cardinality(Pile(U, s \ {c[s]})) + v[c[s]]
           /\ \A f : Adds(f, c, v, S) => f[S] = Cardinality(Pile(U, S))
<1>1. Pile(U, {}) = {} /\ Cardinality(Pile(U, {})) = 0
  BY FS_EmptySet DEF Pile
<1>2. \A s \in SUBSET S : s # {} =>
          /\ v[c[s]] \in Nat /\ Cardinality(Pile(U, s \ {c[s]})) \in Nat
          /\ Cardinality(Pile(U, s)) = v[c[s]] + Cardinality(Pile(U, s \ {c[s]}))
  <2> SUFFICES ASSUME NEW s \in SUBSET S, s # {}
               PROVE  /\ v[c[s]] \in Nat /\ Cardinality(Pile(U, s \ {c[s]})) \in Nat
                      /\ Cardinality(Pile(U, s)) = v[c[s]] + Cardinality(Pile(U, s \ {c[s]}))
    OBVIOUS
  <2>1. PICK x \in s : x = c[s]
    OBVIOUS
  <2>2. v[x] \in Nat
    BY DEF Piles
  <2>3. /\ Cardinality(Pile(U, s \ {x})) \in Nat
        /\ Cardinality(Pile(U, s)) = v[x] + Cardinality(Pile(U, s \ {x}))
    BY PileOne
  <2> QED BY <2>1, <2>2, <2>3
<1>3. \A s \in SUBSET S : s # {} =>
          Cardinality(Pile(U, s)) = Cardinality(Pile(U, s \ {c[s]})) + v[c[s]]
  BY <1>2
<1>4. ASSUME NEW f, Adds(f, c, v, S), f[S] # Cardinality(Pile(U, S)) PROVE FALSE
  <2> DEFINE Bad(n) == \E s \in SUBSET S : Cardinality(s) = n /\ f[s] # Cardinality(Pile(U, s))
             T == {n \in Nat : Bad(n)}
  <2>1. \A s \in SUBSET S : IsFiniteSet(s) /\ Cardinality(s) \in Nat
    BY FS_Subset, FS_CardinalityType DEF Piles
  <2>2. T \in SUBSET Nat /\ T # {}
    BY <1>4, <2>1
  <2>3. PICK n \in T : \A m \in T : n <= m
    BY <2>2, LeastNat
  <2>4. PICK s \in SUBSET S : Cardinality(s) = n /\ f[s] # Cardinality(Pile(U, s))
    BY <2>3
  <2>5. s # {}
    BY <1>1, <1>4, <2>4 DEF Adds
  <2>6. c[s] \in s
    BY <2>5
  <2> DEFINE r == s \ {c[s]}
  <2>7. r \in SUBSET S /\ Cardinality(r) = Cardinality(s) - 1
    BY <2>1, <2>6, FS_RemoveElement
  <2>8. Cardinality(r) \in Nat /\ Cardinality(r) < n
    BY <2>1, <2>4, <2>7
  <2>9. f[r] = Cardinality(Pile(U, r))
    BY <2>3, <2>7, <2>8
  <2>10. f[s] = v[c[s]] + f[r] \/ f[s] = f[r] + v[c[s]]
    BY <1>4, <2>5 DEF Adds
  <2>11. /\ Cardinality(Pile(U, s)) = v[c[s]] + Cardinality(Pile(U, r))
         /\ Cardinality(Pile(U, s)) = Cardinality(Pile(U, r)) + v[c[s]]
    BY <1>2, <1>3, <2>5
  <2> QED BY <2>4, <2>9, <2>10, <2>11
<1> QED BY <1>1, <1>2, <1>3, <1>4

(* v[x] elements for each x.                                               *)
Cells(v, S) == [x \in S |-> {x} \X (1..v[x])]

(* They are a pile.                                                        *)
LEMMA CellPiles ==
    ASSUME NEW S, IsFiniteSet(S), NEW v, \A x \in S : v[x] \in Nat
    PROVE  Piles(Cells(v, S), v, S)
<1>1. ASSUME NEW x \in S PROVE IsFiniteSet(Cells(v, S)[x]) /\ Cardinality(Cells(v, S)[x]) = v[x]
  <2>1. IsFiniteSet({x}) /\ Cardinality({x}) = 1
    BY FS_Singleton
  <2>2. v[x] \in Nat
    OBVIOUS
  <2>3. IsFiniteSet(1..v[x]) /\ Cardinality(1..v[x]) = v[x]
    BY <2>2, FS_Interval
  <2>4. IsFiniteSet({x} \X (1..v[x])) /\ Cardinality({x} \X (1..v[x])) = 1 * v[x]
    BY <2>1, <2>3, FS_Product
  <2>5. 1 * v[x] = v[x]
    BY <2>2
  <2>6. Cells(v, S)[x] = {x} \X (1..v[x])
    BY DEF Cells
  <2> QED BY <2>4, <2>5, <2>6
<1>2. ASSUME NEW x \in S, NEW y \in S, x # y PROVE Cells(v, S)[x] \cap Cells(v, S)[y] = {}
  BY <1>2 DEF Cells
<1> QED BY <1>1, <1>2 DEF Piles

(* A set of naturals with a bound has a greatest element.                  *)
LEMMA MaxNat ==
    ASSUME NEW n \in Nat, NEW s \in SUBSET (0..n), s # {}
    PROVE  Max(s) \in s /\ \A y \in s : y <= Max(s)
<1> DEFINE T == {n - x : x \in s}
<1>1. T \in SUBSET Nat /\ T # {}
  OBVIOUS
<1>2. PICK m \in T : \A y \in T : m <= y
  BY <1>1, LeastNat
<1>3. PICK x \in s : m = n - x
  BY <1>2
<1>4. ASSUME NEW y \in s PROVE x >= y
  <2>1. n - y \in T
    OBVIOUS
  <2>2. m <= n - y
    BY <1>2, <2>1
  <2>3. x \in Int /\ y \in Int
    OBVIOUS
  <2> QED BY <1>3, <2>2, <2>3
<1>5. Max(s) \in s /\ \A y \in s : Max(s) >= y
  BY <1>4 DEF Max
<1>6. \A y \in s : y \in Int
  OBVIOUS
<1> QED BY <1>5, <1>6

(* w[s] is the sum of the numbers a[x] for the x of s, and a function that *)
(* adds them up in the order of c ends with it.                            *)
SumOf(w, c, a, S) ==
    /\ w = [s \in SUBSET S |-> w[s]] /\ w[{}] = 0
    /\ \A s \in SUBSET S : \A x \in s :
           w[s] \in Nat /\ w[s \ {x}] \in Nat /\ w[s] = a[x] + w[s \ {x}]
    /\ \A s \in SUBSET S : s # {} => w[s] = w[s \ {c[s]}] + a[c[s]]
    /\ \A f : Adds(f, c, a, S) => f[S] = w[S]

(* There is such a sum. *)
LEMMA SumOfPile ==
    ASSUME NEW S, NEW U, NEW a, Piles(U, a, S),
           NEW c, \A s \in SUBSET S : s # {} => c[s] \in s
    PROVE  \E w : SumOf(w, c, a, S)
<1> DEFINE w == [s \in SUBSET S |-> Cardinality(Pile(U, s))]
<1>2. w[{}] = 0
  BY PileAdds
<1>3. ASSUME NEW s \in SUBSET S, NEW x \in s
      PROVE  w[s] \in Nat /\ w[s \ {x}] \in Nat /\ w[s] = a[x] + w[s \ {x}]
  <2>1. Cardinality(Pile(U, s)) \in Nat /\ Cardinality(Pile(U, s \ {x})) \in Nat
    BY PileOne
  <2>2. Cardinality(Pile(U, s)) = a[x] + Cardinality(Pile(U, s \ {x}))
    BY PileOne
  <2>3. w[s] = Cardinality(Pile(U, s)) /\ w[s \ {x}] = Cardinality(Pile(U, s \ {x}))
    OBVIOUS
  <2> HIDE DEF w
  <2> QED BY <2>1, <2>2, <2>3
<1>4. \A s \in SUBSET S : s # {} =>
          Cardinality(Pile(U, s)) = Cardinality(Pile(U, s \ {c[s]})) + a[c[s]]
  BY PileAdds
<1>5. \A s \in SUBSET S : s # {} => w[s] = w[s \ {c[s]}] + a[c[s]]
  BY <1>4
<1>6. \A f : Adds(f, c, a, S) => f[S] = Cardinality(Pile(U, S))
  BY PileAdds
<1>7. w[S] = Cardinality(Pile(U, S)) /\ w = [s \in SUBSET S |-> w[s]]
  OBVIOUS
<1> HIDE DEF w
<1>8. \A f : Adds(f, c, a, S) => f[S] = w[S]
  BY <1>6, <1>7
<1>9. SumOf(w, c, a, S)
  BY <1>2, <1>3, <1>5, <1>7, <1>8 DEF SumOf
<1> QED BY <1>9

(* g[k] is the sum of the first k numbers of v.                            *)
SumsUp(g, v) ==
    /\ g \in [0..Len(v) -> Nat] /\ g[0] = 0
    /\ \A k \in 1..Len(v) : g[k] = g[k - 1] + v[k]

(* The numbers of a sequence have such sums, and the fold of the library   *)
(* is the last of them.                                                    *)
LEMMA SumSeq ==
    ASSUME NEW q \in Seq(Nat)
    PROVE  /\ \E g : SumsUp(g, q)
           /\ \A g : SumsUp(g, q) => FoldLeft(+, 0, q) = g[Len(q)]
<1> DEFINE S == DOMAIN q
           a == [i \in S |-> q[i]]
           c == [s \in SUBSET S |-> Max(s)]
           Q(g) == g = [s \in SUBSET S |-> IF s = {} THEN 0
                                           ELSE g[s \ {Max(s)}] + q[Max(s)]]
           G == CHOOSE g : Q(g)
<1>1. FoldLeft(+, 0, q) = G[S]
  BY DEF FoldLeft, MapThenFoldSet
<1>2. Len(q) \in Nat /\ S = 1..Len(q) /\ \A i \in S : q[i] \in Nat
  BY SeqElements
<1>3. IsFiniteSet(S)
  BY <1>2, FS_Interval
<1>4. \A s \in SUBSET S : s # {} => c[s] \in s
  <2> SUFFICES ASSUME NEW s \in SUBSET S, s # {} PROVE Max(s) \in s
    OBVIOUS
  <2>1. s \in SUBSET (0..Len(q))
    BY <1>2
  <2> QED BY <1>2, <2>1, MaxNat
<1>5. \A x \in S : a[x] \in Nat
  BY <1>2
<1>6. PICK w : SumOf(w, c, a, S)
  <2> HIDE DEF a, c, S
  <2>1. PICK U : Piles(U, a, S)
    BY <1>3, <1>5, CellPiles
  <2> QED BY <1>4, <2>1, SumOfPile
<1>7. \A s \in SUBSET S : s # {} => c[s] = Max(s) /\ a[c[s]] = q[Max(s)]
  BY <1>4
<1>8. Q(w)
  <2>1. \A s \in SUBSET S : w[s] = IF s = {} THEN 0 ELSE w[s \ {Max(s)}] + q[Max(s)]
    BY <1>6, <1>7 DEF SumOf
  <2> QED BY <1>6, <2>1 DEF SumOf
<1>9. Q(G)
  BY <1>8
<1>10. Adds(G, c, a, S)
  BY <1>7, <1>9 DEF Adds
<1>11. FoldLeft(+, 0, q) = w[S]
  BY <1>1, <1>6, <1>10 DEF SumOf
<1> DEFINE h == [k \in 0..Len(q) |-> w[1..k]]
<1>12. \A k \in 1..Len(q) : h[k] \in Nat /\ h[k - 1] \in Nat /\ h[k] = h[k - 1] + q[k]
  <2> SUFFICES ASSUME NEW k \in 1..Len(q)
               PROVE  h[k] \in Nat /\ h[k - 1] \in Nat /\ h[k] = h[k - 1] + q[k]
    OBVIOUS
  <2> DEFINE t == 1..k
  <2>1. t \in SUBSET S /\ k \in t /\ a[k] = q[k] /\ q[k] \in Nat
    BY <1>2
  <2>2. h[k] = w[t] /\ h[k - 1] = w[t \ {k}]
    <3>1. h[k] = w[1..k] /\ h[k - 1] = w[1..(k - 1)]
      BY <1>2
    <3>2. (1..k) \ {k} = 1..(k - 1)
      BY <1>2
    <3> HIDE DEF h
    <3> QED BY <3>1, <3>2
  <2> HIDE DEF h, t, a, S
  <2>3. w[t] \in Nat /\ w[t \ {k}] \in Nat /\ w[t] = a[k] + w[t \ {k}]
    BY <1>6, <2>1 DEF SumOf
  <2> QED BY <2>1, <2>2, <2>3
<1>13. h[0] = 0
  <2>1. 1..0 = {}
    OBVIOUS
  <2> QED BY <1>2, <1>6, <2>1 DEF SumOf
<1>14. h \in [0..Len(q) -> Nat]
  <2>1. \A k \in 0..Len(q) : k = 0 \/ k \in 1..Len(q)
    BY <1>2
  <2>2. h = [k \in 0..Len(q) |-> h[k]]
    OBVIOUS
  <2> HIDE DEF h
  <2> QED BY <1>12, <1>13, <2>1, <2>2
<1>15. h[Len(q)] = w[S]
  BY <1>2
<1> HIDE DEF h
<1>16. SumsUp(h, q)
  BY <1>12, <1>13, <1>14 DEF SumsUp
<1>17. ASSUME NEW g, SumsUp(g, q), g[Len(q)] # h[Len(q)] PROVE FALSE
  <2> DEFINE T == {k \in 0..Len(q) : g[k] # h[k]}
  <2>1. T \in SUBSET Nat /\ T # {}
    BY <1>2, <1>17
  <2>2. PICK k \in T : \A j \in T : k <= j
    BY <2>1, LeastNat
  <2>3. k # 0
    BY <1>16, <1>17, <2>2 DEF SumsUp
  <2>4. k \in 1..Len(q) /\ k - 1 \in 0..Len(q) /\ ~(k <= k - 1)
    BY <1>2, <2>2, <2>3
  <2>5. g[k - 1] = h[k - 1]
    BY <2>2, <2>4
  <2> QED BY <1>16, <1>17, <2>2, <2>4, <2>5 DEF SumsUp
<1> QED BY <1>11, <1>15, <1>16, <1>17
=============================================================================
