-------------------------- MODULE TcpConnectProofs --------------------------
(***************************************************************************)
(* Proofs about the connecting TCP transport, for any number of addresses, *)
(* sockets and attempts: every attempt is reported once, and the array of  *)
(* connecting sockets is never written past its end.  A socket is lost     *)
(* only by the memmove that shortens the array, with four addresses or     *)
(* more.                                                                   *)
(***************************************************************************)
EXTENDS TcpConnect, SeqLemmas

(* What keeps the array bounded across attempts: a race is over when its   *)
(* winner is known or nobody waits for it any more.                        *)
RaceOver ==
    \/ fd # NoFd
    \/ ctx = "active" /\ ~connect_cb
    => connecting_fds = <<>> /\ next_addrinfo = NoAddr

IInv == TypeOK /\ ReportedOnce /\ ArrayBound /\ RaceOver

-----------------------------------------------------------------------------
(* An interval from 1 determines its end. *)
LEMMA SameInterval ==
    ASSUME NEW k \in Nat, NEW n \in Nat, 1..k = 1..n
    PROVE  k = n
<1>1. CASE k < n
  <2>1. n \in 1..n
    BY <1>1
  <2>2. QED
    BY <1>1, <2>1
<1>2. CASE n < k
  <2>1. k \in 1..k
    BY <1>2
  <2>2. QED
    BY <1>2, <2>1
<1>3. QED
  BY <1>1, <1>2

(* Removing an entry leaves a sequence of sockets that is one shorter,     *)
(* whatever the memmove of smb2_close_connecting_fd does to the entries.   *)
LEMMA RemoveType ==
    ASSUME NEW s \in Seq(Fds), s # <<>>, NEW i
    PROVE  /\ RemoveEntry(s, i) \in Seq(Fds)
           /\ Len(RemoveEntry(s, i)) = Len(s) - 1
<1> DEFINE n == Len(s) - 1
           moved(j) == j >= i /\ SockSize * (j - i) < Len(s) - i
<1>1. Len(s) \in Nat /\ n \in Nat /\ Len(s) = n + 1
  BY SeqElements
<1>2. \A j \in 1..n : s[j] \in Fds /\ s[j + 1] \in Fds
  BY <1>1
<1>3. RemoveEntry(s, i) = [j \in 1..n |-> IF moved(j) THEN s[j + 1] ELSE s[j]]
  BY DEF RemoveEntry
<1> HIDE DEF moved
<1>4. RemoveEntry(s, i) \in [1..n -> Fds]
  BY <1>2, <1>3
<1>5. RemoveEntry(s, i) \in Seq(Fds)
  BY <1>1, <1>4, SeqDef
<1>6. /\ Len(RemoveEntry(s, i)) \in Nat
      /\ DOMAIN RemoveEntry(s, i) = 1..Len(RemoveEntry(s, i))
      /\ DOMAIN RemoveEntry(s, i) = 1..n
  BY <1>4, <1>5, SeqElements
<1>7. Len(RemoveEntry(s, i)) = n
  <2> HIDE DEF n
  <2>1. QED
    BY <1>1, <1>6, SameInterval
<1>8. QED
  BY <1>5, <1>7

(* The address after one of the list is one of the list or none.           *)
LEMMA AfterType ==
    ASSUME NEW j \in 1..NAddrs
    PROVE  /\ AddrAfter(j) \in 0..NAddrs
           /\ AddrAfter(j) # NoAddr => AddrAfter(j) = j + 1
  BY ConnectAssumption DEF AddrAfter, NoAddr

(* What smb2_connect_async_next_addr leaves: one more connecting socket,   *)
(* and fewer addresses to try.                                             *)
LEMMA NextAddrStep ==
    ASSUME TypeOK, NEW i \in 1..NAddrs,
           NEW s \in [Fds -> SockStates],
           NEW fds \in Seq(Fds), NEW l \in SUBSET Fds,
           NextAddr(i, s, fds, l)
    PROVE  /\ sock' \in [Fds -> SockStates]
           /\ connecting_fds' \in Seq(Fds)
           /\ Len(connecting_fds') = Len(fds) + 1
           /\ next_addrinfo' \in 0..NAddrs
           /\ next_addrinfo' # NoAddr => next_addrinfo' > i
           /\ events' \in {"none", "POLLIN", "POLLOUT"}
           /\ polled' \in [Fds -> PollStates]
           /\ lost' \subseteq Fds
<1>1. PICK j \in i..NAddrs : OpenNext(j, s, fds, l)
  BY DEF NextAddr
<1>2. j \in 1..NAddrs /\ j >= i
  BY <1>1, ConnectAssumption
<1>3. next_addrinfo' = AddrAfter(j)
  BY <1>1 DEF OpenNext
<1>4. PICK f \in Fds :
        /\ sock' = [s EXCEPT ![f] = "connecting"]
        /\ connecting_fds' = Append(fds, f)
        /\ lost' = l \ {f}
        /\ ChangeEvents([polled EXCEPT ![f] = "none"], f, "POLLOUT")
  BY <1>1 DEF OpenNext
<1>5. polled \in [Fds -> PollStates]
  BY DEF TypeOK
<1>6. sock' \in [Fds -> SockStates]
  BY <1>4 DEF SockStates
<1>7. /\ connecting_fds' \in Seq(Fds)
      /\ Len(connecting_fds') = Len(fds) + 1
  BY <1>4, AppendProperties
<1>8. /\ next_addrinfo' \in 0..NAddrs
      /\ next_addrinfo' # NoAddr => next_addrinfo' > i
  BY <1>2, <1>3, AfterType, ConnectAssumption
<1>9. events' \in {"none", "POLLIN", "POLLOUT"} /\ polled' \in [Fds -> PollStates]
  BY <1>4, <1>5 DEF ChangeEvents, PollStates
<1>10. lost' \subseteq Fds
  BY <1>4
<1>11. QED
  BY <1>6, <1>7, <1>8, <1>9, <1>10

(* What the callback of an attempt leaves. *)
LEMMA ReportStep ==
    ASSUME TypeOK, Report
    PROVE  /\ connect_cb' = FALSE /\ connect_cb' \in BOOLEAN
           /\ reported' \in Nat
           /\ reported' = reported + (IF connect_cb THEN 1 ELSE 0)
<1>1. connect_cb' = FALSE /\ connect_cb' \in BOOLEAN
  BY Zenon DEF Report
<1>2. CASE connect_cb
  <2>1. reported' = reported + 1 /\ (IF connect_cb THEN 1 ELSE 0) = 1
    BY <1>2, Zenon DEF Report
  <2>2. QED
    BY <1>1, <2>1 DEF TypeOK
<1>3. CASE ~connect_cb
  <2>1. reported' = reported /\ (IF connect_cb THEN 1 ELSE 0) = 0
    BY <1>3, Zenon DEF Report
  <2>2. QED
    BY <1>1, <2>1 DEF TypeOK
<1>4. QED
  BY <1>2, <1>3, Zenon

(* The same arithmetic in terms of the room that is left in the array.     *)
LEMMA RoomLeft ==
    ASSUME NEW i \in 1..NAddrs, NEW n \in Nat, NEW next \in 0..NAddrs,
           next # NoAddr => next > i,
           n + NAddrs - i + 1 <= NAddrs
    PROVE  n + 1 + (IF next = NoAddr THEN 0 ELSE NAddrs - next + 1) <= NAddrs
  BY ConnectAssumption DEF NoAddr

(* An attempt that is reported is accounted for. *)
LEMMA ReportCounts ==
    ASSUME TypeOK, ReportedOnce, Report, started' = started
    PROVE  ReportedOnce'
<1> DEFINE pending == IF connect_cb THEN 1 ELSE 0
<1>1. pending \in Nat /\ started = reported + pending
  BY Zenon DEF ReportedOnce
<1>2. reported' = reported + pending /\ reported' \in Nat
  BY ReportStep, Zenon
<1>3. connect_cb' = FALSE /\ (IF connect_cb' THEN 1 ELSE 0) = 0
  BY ReportStep, Zenon
<1> HIDE DEF pending
<1>4. started' = reported' + 0
  BY <1>1, <1>2
<1>5. QED
  BY <1>3, <1>4, Zenon DEF ReportedOnce

-----------------------------------------------------------------------------
(* The transport of a new context satisfies the invariant.                *)
LEMMA InitInv == Init => IInv
<1> SUFFICES ASSUME Init PROVE IInv
  OBVIOUS
<1> USE DEF Init
<1>1. connecting_fds \in Seq(Fds) /\ Len(connecting_fds) = 0
  OBVIOUS
<1>2. next_addrinfo \in 0..NAddrs
  BY ConnectAssumption DEF NoAddr
<1>3. sock \in [Fds -> SockStates] /\ polled \in [Fds -> PollStates]
  BY DEF SockStates, PollStates
<1>4. TypeOK
  BY <1>1, <1>2, <1>3 DEF TypeOK
<1>5. ReportedOnce
  BY DEF ReportedOnce
<1>6. ArrayBound
  BY <1>1, ConnectAssumption DEF ArrayBound, Untried
<1>7. QED
  BY <1>4, <1>5, <1>6 DEF IInv, RaceOver

(* tcp_connect keeps the invariant: the array it starts to fill is empty.  *)
LEMMA ConnectInv == IInv /\ Connect => IInv'
<1> SUFFICES ASSUME IInv, Connect PROVE IInv'
  OBVIOUS
<1> USE DEF IInv
<1>1. connecting_fds = <<>>
  BY DEF Connect, RaceOver
<1>2. NextAddr(1, sock, connecting_fds, lost) /\ 1 \in 1..NAddrs
  BY ConnectAssumption DEF Connect
<1>3. /\ sock' \in [Fds -> SockStates]
      /\ connecting_fds' \in Seq(Fds)
      /\ Len(connecting_fds') = 1
      /\ next_addrinfo' \in 0..NAddrs
      /\ next_addrinfo' # NoAddr => next_addrinfo' > 1
      /\ events' \in {"none", "POLLIN", "POLLOUT"}
      /\ polled' \in [Fds -> PollStates]
      /\ lost' \subseteq Fds
  <2>1. sock \in [Fds -> SockStates] /\ connecting_fds \in Seq(Fds)
        /\ Len(connecting_fds) = 0 /\ lost \in SUBSET Fds
    BY <1>1 DEF TypeOK
  <2>2. TypeOK /\ 1 \in 1..NAddrs
    BY <1>2
  <2>3. /\ sock' \in [Fds -> SockStates]
        /\ connecting_fds' \in Seq(Fds)
        /\ Len(connecting_fds') = Len(connecting_fds) + 1
        /\ next_addrinfo' \in 0..NAddrs
        /\ next_addrinfo' # NoAddr => next_addrinfo' > 1
        /\ events' \in {"none", "POLLIN", "POLLOUT"}
        /\ polled' \in [Fds -> PollStates]
        /\ lost' \subseteq Fds
    BY <1>2, <2>1, <2>2, NextAddrStep, Zenon
  <2>4. QED
    BY <2>1, <2>3
<1>4. TypeOK'
  BY <1>3 DEF TypeOK, Connect
<1>5. ReportedOnce'
  BY DEF ReportedOnce, Connect, TypeOK
<1>6. ArrayBound'
  <2>1. 0 \in Nat /\ 0 + NAddrs - 1 + 1 <= NAddrs
    BY ConnectAssumption
  <2>2. QED
    BY <1>2, <1>3, <2>1, RoomLeft DEF ArrayBound, Untried
<1>7. RaceOver'
  BY DEF RaceOver, Connect
<1>8. QED
  BY <1>4, <1>5, <1>6, <1>7

(* smb2_service_fd(-1) keeps it: an address less is left to try.           *)
LEMMA ServiceTimeoutInv == IInv /\ ServiceTimeout => IInv'
<1> SUFFICES ASSUME IInv, ServiceTimeout PROVE IInv'
  OBVIOUS
<1> USE DEF IInv
<1>1. CASE /\ NextAddr(next_addrinfo, sock, connecting_fds, lost)
           /\ UNCHANGED <<ctx, fd, connect_cb, ready, started, reported, doubled>>
  <2>1. next_addrinfo \in 1..NAddrs
    BY ConnectAssumption DEF ServiceTimeout, TypeOK, NoAddr
  <2>2. /\ sock' \in [Fds -> SockStates]
        /\ connecting_fds' \in Seq(Fds)
        /\ Len(connecting_fds') = Len(connecting_fds) + 1
        /\ next_addrinfo' \in 0..NAddrs
        /\ next_addrinfo' # NoAddr => next_addrinfo' > next_addrinfo
        /\ events' \in {"none", "POLLIN", "POLLOUT"}
        /\ polled' \in [Fds -> PollStates]
        /\ lost' \subseteq Fds
    BY <1>1, <2>1, NextAddrStep DEF TypeOK
  <2>3. TypeOK'
    BY <1>1, <2>2 DEF TypeOK
  <2>4. ReportedOnce'
    BY <1>1 DEF ReportedOnce
  <2>5. ArrayBound'
    <3>1. Len(connecting_fds) \in Nat
      BY DEF TypeOK
    <3>2. Len(connecting_fds) + NAddrs - next_addrinfo + 1 <= NAddrs
      BY <2>1, <3>1, ConnectAssumption DEF ArrayBound, Untried, NoAddr
    <3>3. QED
      BY <2>1, <2>2, <3>1, <3>2, RoomLeft DEF ArrayBound, Untried
  <2>6. RaceOver'
    BY <1>1 DEF RaceOver, ServiceTimeout
  <2>7. QED
    BY <2>3, <2>4, <2>5, <2>6
<1>2. CASE /\ ctx' = "failed"
           /\ UNCHANGED <<sock, connecting_fds, next_addrinfo, polled, events, lost>>
           /\ UNCHANGED <<fd, connect_cb, ready, started, reported, doubled>>
  BY <1>2 DEF TypeOK, ReportedOnce, ArrayBound, Untried, RaceOver, NoFd
<1>3. QED
  BY <1>1, <1>2 DEF ServiceTimeout

(* A connecting socket that fails gives its place in the array to the next *)
(* address, or ends the attempt.                                           *)
LEMMA ConnectFailedInv ==
    ASSUME IInv, NEW f \in Fds, f \in Range(connecting_fds), ctx = "active",
           ConnectFailed(f), ready' \subseteq Fds \X Outcomes, started' = started
    PROVE  IInv'
<1> USE DEF IInv
<1> DEFINE left == CloseConnecting(f)
           at == FirstIndex(connecting_fds, f)
           gone == lost \cup LeftBehind(connecting_fds, at)
<1>1. connecting_fds \in Seq(Fds) /\ connecting_fds # <<>>
  BY DEF TypeOK, Range
<1>2. left \in Seq(Fds) /\ Len(left) = Len(connecting_fds) - 1
  BY <1>1, RemoveType DEF CloseConnecting
<1>3. Closed(f) \in [Fds -> SockStates]
  BY DEF TypeOK, Closed, SockStates
<1>9. gone \in SUBSET Fds /\ doubled \cup LeftTwice(connecting_fds, at) \in SUBSET Fds
  <2>1. at = IndexOf(connecting_fds, f)
    BY DEF FirstIndex, IndexOf
  <2>2. at \in DOMAIN connecting_fds
    BY <1>1, <2>1, IndexOfEntry
  <2> HIDE DEF at
  <2>3. /\ Len(connecting_fds) \in Nat /\ DOMAIN connecting_fds = 1..Len(connecting_fds)
        /\ \A k \in 1..Len(connecting_fds) : connecting_fds[k] \in Fds
    BY <1>1, SeqElements
  <2>4. LeftBehind(connecting_fds, at) \subseteq Fds
    BY <2>2, <2>3 DEF LeftBehind
  <2>5. LeftTwice(connecting_fds, at) \subseteq Fds
    BY <2>2, <2>3 DEF LeftTwice
  <2> QED BY <2>4, <2>5 DEF TypeOK
<1> HIDE DEF left, gone, at
<1>4. fd = NoFd /\ connect_cb
  BY <1>1 DEF RaceOver, TypeOK
<1>5. ASSUME next_addrinfo # NoAddr,
             NextAddr(next_addrinfo, Closed(f), left, gone),
             UNCHANGED <<connect_cb, reported, ctx>>, UNCHANGED fd,
             doubled' = doubled \cup LeftTwice(connecting_fds, at)
      PROVE  IInv'
  <2>1. next_addrinfo \in 1..NAddrs
    BY <1>5, ConnectAssumption DEF TypeOK, NoAddr
  <2>2. /\ sock' \in [Fds -> SockStates]
        /\ connecting_fds' \in Seq(Fds)
        /\ Len(connecting_fds') = Len(left) + 1
        /\ next_addrinfo' \in 0..NAddrs
        /\ next_addrinfo' # NoAddr => next_addrinfo' > next_addrinfo
        /\ events' \in {"none", "POLLIN", "POLLOUT"}
        /\ polled' \in [Fds -> PollStates]
        /\ lost' \subseteq Fds
    BY <1>2, <1>3, <1>5, <1>9, <2>1, NextAddrStep
  <2>3. TypeOK'
    BY <1>5, <1>9, <2>2 DEF TypeOK
  <2>4. ReportedOnce'
    BY <1>5 DEF ReportedOnce
  <2>5. ArrayBound'
    <3>1. Len(left) \in Nat
      BY <1>2
    <3>2. Len(left) + NAddrs - next_addrinfo + 1 <= NAddrs
      BY <1>1, <1>2, <2>1, <3>1, ConnectAssumption
      DEF ArrayBound, Untried, NoAddr
    <3>3. QED
      BY <2>1, <2>2, <3>1, <3>2, RoomLeft DEF ArrayBound, Untried
  <2>6. RaceOver'
    BY <1>4, <1>5 DEF RaceOver
  <2>7. QED
    BY <2>3, <2>4, <2>5, <2>6
<1>6. ASSUME sock' = Closed(f), connecting_fds' = left, ctx' = "failed",
             Report, UNCHANGED <<next_addrinfo, polled, events>>, UNCHANGED fd,
             lost' = gone, doubled' = doubled \cup LeftTwice(connecting_fds, at)
      PROVE  IInv'
  <2>1. TypeOK'
    BY <1>2, <1>3, <1>6, <1>9, ReportStep DEF TypeOK
  <2>2. ReportedOnce'
    BY <1>6, ReportCounts
  <2>3. ArrayBound'
    BY <1>1, <1>2, <1>6, ConnectAssumption
    DEF ArrayBound, Untried, TypeOK, NoAddr
  <2>4. RaceOver'
    BY <1>4, <1>6 DEF RaceOver
  <2>5. QED
    BY <2>1, <2>2, <2>3, <2>4
<1>7. ASSUME ctx' = "failed", Report,
             UNCHANGED <<fd, sock, connecting_fds, next_addrinfo, polled,
                         events, moveVars>>
      PROVE  IInv'
  <2>1. TypeOK'
    BY <1>7, ReportStep DEF TypeOK, moveVars
  <2>2. ReportedOnce'
    BY <1>7, ReportCounts
  <2>3. ArrayBound' /\ RaceOver'
    BY <1>4, <1>7 DEF ArrayBound, Untried, RaceOver
  <2>4. QED
    BY <2>1, <2>2, <2>3
<1>8. QED
  BY <1>5, <1>6, <1>7 DEF ConnectFailed, left, gone, at

(* What smb2_close_connecting_fds leaves. *)
LEMMA CloseAllStep ==
    ASSUME TypeOK, NEW keep, CloseConnectingFds(keep)
    PROVE  /\ sock' \in [Fds -> SockStates]
           /\ connecting_fds' = <<>> /\ connecting_fds' \in Seq(Fds)
           /\ Len(connecting_fds') = 0
           /\ next_addrinfo' = NoAddr /\ next_addrinfo' \in 0..NAddrs
           /\ doubled' = {}
<1>1. sock' \in [Fds -> SockStates]
  BY DEF TypeOK, CloseConnectingFds, SockStates
<1>2. connecting_fds' = <<>> /\ next_addrinfo' = NoAddr /\ doubled' = {}
  BY DEF CloseConnectingFds
<1>3. QED
  BY <1>1, <1>2, ConnectAssumption DEF NoAddr

(* smb2_service_fd with a socket keeps the invariant, whatever poll said   *)
(* of it and whether or not it has been dropped since.                     *)
LEMMA ServiceFdInv ==
    ASSUME IInv, NEW f \in Fds, NEW e \in Outcomes, ServiceFd(f, e)
    PROVE  IInv'
<1> USE DEF IInv
<1>1. ready' \subseteq Fds \X Outcomes /\ started' = started /\ ctx = "active"
  BY DEF ServiceFd, TypeOK
<1>2. ASSUME ctx' \in {"active", "failed"},
             UNCHANGED <<libVars, sock, polled, reported, moveVars>>
      PROVE  IInv'
  BY <1>1, <1>2
  DEF TypeOK, ReportedOnce, ArrayBound, Untried, RaceOver, libVars, moveVars
<1>3. ASSUME f \in Range(connecting_fds), ConnectFailed(f)
      PROVE  IInv'
  BY <1>1, <1>3, ConnectFailedInv
<1>4. ASSUME Connected(f)
      PROVE  IInv'
  <2>1. /\ sock' \in [Fds -> SockStates]
        /\ connecting_fds' = <<>> /\ connecting_fds' \in Seq(Fds)
        /\ Len(connecting_fds') = 0
        /\ next_addrinfo' = NoAddr /\ next_addrinfo' \in 0..NAddrs
        /\ doubled' = {} /\ lost' = lost
    BY <1>4, CloseAllStep DEF Connected
  <2>2. /\ events' \in {"none", "POLLIN", "POLLOUT"}
        /\ polled' \in [Fds -> PollStates]
    BY <1>4 DEF Connected, ChangeEvents, Forgotten, TypeOK, PollStates
  <2>3. Report /\ fd' = f /\ ctx' = ctx
    BY <1>4 DEF Connected
  <2>7. TypeOK'
    BY <1>1, <2>1, <2>2, <2>3, ReportStep DEF TypeOK
  <2>4. ReportedOnce'
    BY <1>1, <2>3, ReportCounts
  <2>5. ArrayBound' /\ RaceOver'
    BY <2>1, ConnectAssumption DEF ArrayBound, Untried, RaceOver
  <2>6. QED
    BY <2>7, <2>4, <2>5
<1>5. QED
  BY <1>1, <1>2, <1>3, <1>4 DEF ServiceFd

(* tcp_close ends the race, if there is one.                               *)
LEMMA TcpCloseStep ==
    ASSUME TypeOK, RaceOver, TcpClose
    PROVE  /\ fd' \in Fds \cup {NoFd}
           /\ sock' \in [Fds -> SockStates]
           /\ connecting_fds' = <<>> /\ connecting_fds' \in Seq(Fds)
           /\ Len(connecting_fds') = 0
           /\ next_addrinfo' = NoAddr /\ next_addrinfo' \in 0..NAddrs
           /\ polled' \in [Fds -> PollStates]
           /\ lost' = lost /\ doubled' \in {doubled, {}}
<1>1. polled' \in [Fds -> PollStates] /\ lost' = lost
  BY DEF TypeOK, TcpClose, Forgotten, PollStates
<1>2. CASE fd # NoFd
  <2>1. /\ sock' = [sock EXCEPT ![fd] = "closed"] /\ fd' = NoFd
        /\ connecting_fds' = <<>> /\ next_addrinfo' = NoAddr
        /\ doubled' = doubled
    BY <1>2 DEF TcpClose, RaceOver
  <2>2. sock' \in [Fds -> SockStates]
    BY <2>1 DEF TypeOK, SockStates
  <2>3. QED
    BY <1>1, <2>1, <2>2, ConnectAssumption DEF NoAddr
<1>3. CASE fd = NoFd
  BY <1>1, <1>3, CloseAllStep DEF TypeOK, TcpClose
<1>4. QED
  BY <1>2, <1>3

(* Every step keeps the invariant.                                         *)
LEMMA NextInv == IInv /\ [Next]_vars => IInv'
<1> SUFFICES ASSUME IInv, [Next]_vars PROVE IInv'
  OBVIOUS
<1> USE DEF IInv
<1>1. CASE Connect
  BY <1>1, ConnectInv
<1>2. CASE ServiceTimeout
  BY <1>2, ServiceTimeoutInv
<1>3. ASSUME NEW f \in Fds, NEW e \in Outcomes, ServiceFd(f, e) PROVE IInv'
  BY <1>3, ServiceFdInv
<1>4. CASE CloseContext
  BY <1>4, TcpCloseStep, ConnectAssumption
  DEF CloseContext, TypeOK, ReportedOnce, ArrayBound, Untried, RaceOver
<1>5. CASE DestroyContext
  <2>1. /\ fd' \in Fds \cup {NoFd}
        /\ sock' \in [Fds -> SockStates]
        /\ connecting_fds' = <<>> /\ connecting_fds' \in Seq(Fds)
        /\ Len(connecting_fds') = 0
        /\ next_addrinfo' = NoAddr /\ next_addrinfo' \in 0..NAddrs
        /\ polled' \in [Fds -> PollStates]
        /\ lost' = lost /\ doubled' \in {doubled, {}}
    BY <1>5, TcpCloseStep DEF DestroyContext
  <2>2. Report /\ ctx' = "destroyed" /\ UNCHANGED <<events, ready, started>>
    BY <1>5 DEF DestroyContext
  <2>3. TypeOK'
    BY <2>1, <2>2, ReportStep DEF TypeOK
  <2>4. ReportedOnce'
    BY <2>2, ReportCounts
  <2>5. ArrayBound' /\ RaceOver'
    BY <2>1, ConnectAssumption DEF ArrayBound, Untried, RaceOver
  <2>6. QED
    BY <2>3, <2>4, <2>5
<1>6. CASE Poll
  <2>1. ready' \subseteq Fds \X Outcomes
    BY <1>6 DEF Poll, TypeOK, Range, NoFd
  <2>2. QED
    BY <1>6, <2>1 DEF Poll, TypeOK, ReportedOnce, ArrayBound, Untried,
                      RaceOver, libVars, moveVars
<1>7. ASSUME NEW f \in Fds, Resolve(f) PROVE IInv'
  BY <1>7 DEF Resolve, TypeOK, SockStates, ReportedOnce, ArrayBound, Untried, RaceOver,
              libVars, appVars, moveVars
<1>8. CASE UNCHANGED vars
  BY <1>8 DEF vars, libVars, appVars, moveVars, TypeOK, ReportedOnce, ArrayBound,
              Untried, RaceOver
<1>9. QED
  BY <1>1, <1>2, <1>3, <1>4, <1>5, <1>6, <1>7, <1>8 DEF Next

(* The invariant holds in every state of the connecting transport.         *)
THEOREM ConnectInvariant == Spec => []IInv
  BY InitInv, NextInv, PTL DEF Spec

(* The type invariant of tcp_connect, tcp_service and tcp_close.           *)
THEOREM ConnectTypes == Spec => []TypeOK
<1>1. IInv => TypeOK
  BY DEF IInv
<1>2. QED
  BY <1>1, ConnectInvariant, PTL

(* Every attempt begun by tcp_connect is reported once: the callbacks of   *)
(* tcp_service and the one of smb2_destroy_context exclude each other.     *)
THEOREM AttemptReportedOnce == Spec => []ReportedOnce
<1>1. IInv => ReportedOnce
  BY DEF IInv
<1>2. QED
  BY <1>1, ConnectInvariant, PTL

(* smb2_connect_async_next_addr never writes past the array that           *)
(* tcp_connect allocated with one entry for each address.                  *)
THEOREM ArrayNeverOverrun == Spec => []ArrayBound
<1>1. IInv => ArrayBound
  BY DEF IInv
<1>2. QED
  BY <1>1, ConnectInvariant, PTL

-----------------------------------------------------------------------------
(* Sockets.  What the memmove of smb2_close_connecting_fd leaves of an     *)
(* array, whichever entries it moves.                                      *)
Doubles(s) ==
    {s[j] : j \in {k \in 1..Len(s) : \E m \in 1..Len(s) : m # k /\ s[m] = s[k]}}

LEMMA MovedEntries ==
    ASSUME NEW s \in Seq(Fds), NEW i \in 1..Len(s), NEW r, r = RemoveEntry(s, i)
    PROVE  /\ DOMAIN r = 1..(Len(s) - 1)
           /\ \A a \in DOMAIN r : \E k \in 1..Len(s) : k # i /\ r[a] = s[k]
           /\ \A k \in 1..Len(s) : k # i => s[k] \in Range(r) \cup LeftBehind(s, i)
           /\ \A a, b \in DOMAIN r :
                  a < b /\ r[a] = r[b] => r[a] \in LeftTwice(s, i) \cup Doubles(s)
<1> DEFINE n == Len(s) - 1
           bytes(j) == SockSize * (j - i)
           moved(j) == j >= i /\ bytes(j) < Len(s) - i
<1>1. Len(s) \in Nat /\ n \in Nat /\ Len(s) = n + 1 /\ i \in 1..(n + 1)
  BY SeqElements
<1>2. \A j \in 1..(n + 1) : /\ bytes(j) \in Int /\ bytes(j - 1) \in Int
                             /\ bytes(j) = bytes(j - 1) + SockSize
  BY <1>1, ConnectAssumption
<1>3. bytes(i) = 0
  BY <1>1, ConnectAssumption
<1>4. r = [j \in 1..n |-> IF moved(j) THEN s[j + 1] ELSE s[j]]
  BY DEF RemoveEntry
<1>5. DOMAIN r = 1..n
  BY <1>4
<1>6. \A j \in 1..n : r[j] = IF moved(j) THEN s[j + 1] ELSE s[j]
  BY <1>4
<1>7. r \in Seq(Fds) /\ \A x : (\E j \in 1..n : r[j] = x) => x \in Range(r)
  <2>1. s # <<>>
    BY <1>1
  <2>2. r \in Seq(Fds) /\ Len(r) = n
    BY <2>1, RemoveType
  <2> QED BY <2>2, SeqElements
<1>8. bytes(n) >= Len(s) - i => LeftBehind(s, i) = {s[n + 1]}
  BY <1>1 DEF LeftBehind
<1>9. \A k \in (i + 1)..n : bytes(k - 1) < Len(s) - i /\ bytes(k) >= Len(s) - i
                               => s[k] \in LeftTwice(s, i)
  BY <1>1 DEF LeftTwice
<1> HIDE DEF n, bytes
<1>10. moved(i) <=> i < n + 1
  BY <1>1, <1>3
<1>11. \A a \in 1..n : \E k \in 1..(n + 1) : k # i /\ r[a] = s[k]
  <2> SUFFICES ASSUME NEW a \in 1..n PROVE \E k \in 1..(n + 1) : k # i /\ r[a] = s[k]
    OBVIOUS
  <2>1. CASE moved(a)
    <3>1. a + 1 \in 1..(n + 1) /\ a + 1 # i
      BY <1>1, <2>1
    <3> QED BY <1>6, <2>1, <3>1
  <2>2. CASE ~moved(a)
    <3>1. a \in 1..(n + 1) /\ a # i
      BY <1>1, <1>10, <2>2
    <3> QED BY <1>6, <2>2, <3>1
  <2> QED BY <2>1, <2>2
<1>12. ASSUME NEW k \in 1..(n + 1), k # i PROVE s[k] \in Range(r) \cup LeftBehind(s, i)
  <2>1. CASE k < i
    <3>1. k \in 1..n /\ ~moved(k)
      BY <1>1, <2>1
    <3> QED BY <1>6, <1>7, <3>1
  <2>2. CASE k > i /\ moved(k - 1)
    <3>1. k - 1 \in 1..n /\ (k - 1) + 1 = k
      BY <1>1, <2>2
    <3>2. r[k - 1] = s[k]
      BY <1>6, <2>2, <3>1
    <3> QED BY <1>7, <3>1, <3>2
  <2>3. CASE k > i /\ ~moved(k - 1)
    <3>0. bytes(k) \in Int /\ bytes(k - 1) \in Int /\ bytes(k) = bytes(k - 1) + SockSize
      BY <1>2
    <3>1. bytes(k - 1) >= Len(s) - i
      <4>1. k - 1 >= i
        BY <1>1, <2>3
      <4>2. ~(bytes(k - 1) < Len(s) - i)
        BY <2>3, <4>1
      <4> QED BY <1>1, <3>0, <4>2
    <3>2. CASE k = n + 1
      <4>1. k - 1 = n
        BY <1>1, <3>2
      <4> QED BY <1>8, <3>1, <3>2, <4>1
    <3>3. CASE k # n + 1
      <4>1. bytes(k) \in Int /\ bytes(k) >= Len(s) - i
        BY <1>1, <3>0, <3>1, ConnectAssumption
      <4>2. k \in 1..n /\ ~moved(k)
        BY <1>1, <3>3, <4>1
      <4> QED BY <1>6, <1>7, <4>2
    <3> QED BY <3>2, <3>3
  <2> QED BY <1>1, <1>12, <2>1, <2>2, <2>3
<1>13. ASSUME NEW a \in 1..n, NEW b \in 1..n, a < b, r[a] = r[b]
       PROVE  \/ r[a] \in LeftTwice(s, i)
              \/ \E j, k \in 1..(n + 1) : j # k /\ s[j] = r[a] /\ s[k] = r[a]
  <2>1. a + 1 \in 1..(n + 1) /\ b + 1 \in 1..(n + 1) /\ a \in 1..(n + 1) /\ b \in 1..(n + 1)
    BY <1>1
  <2>2. CASE moved(b)
    <3>1. s[b + 1] = r[a] /\ (r[a] = s[a] \/ r[a] = s[a + 1])
      BY <1>6, <1>13, <2>2
    <3>2. a # b + 1 /\ a + 1 # b + 1
      BY <1>1, <1>13
    <3> QED BY <2>1, <3>1, <3>2
  <2>3. CASE ~moved(b) /\ ~moved(a)
    BY <1>6, <1>13, <2>1, <2>3
  <2>4. CASE ~moved(b) /\ moved(a) /\ a + 1 # b
    <3>1. s[b] = r[a] /\ r[a] = s[a + 1]
      BY <1>6, <1>13, <2>4
    <3> QED BY <2>1, <2>4, <3>1
  <2>5. CASE ~moved(b) /\ moved(a) /\ a + 1 = b
    <3>1. r[a] = s[b]
      BY <1>6, <1>13, <2>5
    <3>2. b \in (i + 1)..n /\ b - 1 = a /\ bytes(a) < Len(s) - i
      BY <1>1, <2>5
    <3>3. bytes(b) >= Len(s) - i
      BY <1>1, <1>2, <2>5, <3>2
    <3> QED BY <1>9, <3>1, <3>2, <3>3
  <2> QED BY <2>2, <2>3, <2>4, <2>5
<1>14. Len(s) - 1 = n
  BY DEF n
<1> HIDE DEF moved
<1>15. \A k \in 1..Len(s) : k # i => s[k] \in Range(r) \cup LeftBehind(s, i)
  BY <1>1, <1>12
<1>16. \A a, b \in DOMAIN r :
         a < b /\ r[a] = r[b] => r[a] \in LeftTwice(s, i) \cup Doubles(s)
  BY <1>1, <1>5, <1>13 DEF Doubles
<1>17. DOMAIN r = 1..(Len(s) - 1)
  BY <1>5, <1>14
<1>18. \A a \in DOMAIN r : \E k \in 1..Len(s) : k # i /\ r[a] = s[k]
  BY <1>1, <1>5, <1>11
<1> QED BY <1>15, <1>16, <1>17, <1>18

(* With few entries, or entries of one byte, it closes the gap.            *)
LEMMA GapClosed ==
    ASSUME NEW s \in Seq(Fds), NEW i \in 1..Len(s), SockSize = 1 \/ Len(s) <= 2
    PROVE  LeftBehind(s, i) = {} /\ LeftTwice(s, i) = {}
<1>1. Len(s) \in Nat
  BY SeqElements
<1>2. CASE SockSize = 1
  <2>1. \A x \in Int : SockSize * x = x
    BY <1>2
  <2>2. ~(SockSize * (Len(s) - 1 - i) >= Len(s) - i)
    BY <1>1, <2>1
  <2>3. \A k \in (i + 1)..(Len(s) - 1) : ~(SockSize * (k - i) >= Len(s) - i)
    BY <1>1, <2>1
  <2> QED BY <2>2, <2>3 DEF LeftBehind, LeftTwice
<1>3. CASE Len(s) <= 2
  <2>1. (i + 1)..(Len(s) - 1) = {}
    BY <1>1, <1>3
  <2>2. \/ Len(s) - 1 - i = 0 /\ Len(s) - i = 1
        \/ Len(s) - 1 - i = -1 /\ Len(s) - i = 0
    BY <1>1, <1>3
  <2>3. SockSize * 0 = 0 /\ SockSize * (-1) < 0
    BY ConnectAssumption
  <2>5. CASE Len(s) - 1 - i = 0 /\ Len(s) - i = 1
    <3>1. SockSize * (Len(s) - 1 - i) = 0
      BY <2>3, <2>5
    <3> QED BY <2>1, <2>5, <3>1 DEF LeftBehind, LeftTwice
  <2>6. CASE Len(s) - 1 - i = -1 /\ Len(s) - i = 0
    <3>1. SockSize * (Len(s) - 1 - i) < 0
      BY <2>3, <2>6
    <3>2. ~(SockSize * (Len(s) - 1 - i) >= Len(s) - i)
      BY <1>1, <2>6, <3>1, ConnectAssumption
    <3> QED BY <2>1, <3>2 DEF LeftBehind, LeftTwice
  <2> QED BY <2>2, <2>5, <2>6
<1> QED BY <1>2, <1>3

(* The account of the sockets s of an attempt under way, with the array    *)
(* fds, the sockets l left behind and those d listed twice.                *)
Account(s, fds, l, d) ==
    /\ {f \in Fds : s[f] # "closed"} \subseteq Range(fds) \cup l
    /\ Range(fds) \subseteq {f \in Fds : s[f] # "closed"} \cup d
    /\ \A a, b \in DOMAIN fds : a # b /\ fds[a] = fds[b] => fds[a] \in d

Whole == MovesWhole => lost = {} /\ doubled = {}

LEMMA AccountDuring ==
    ASSUME fd = NoFd
    PROVE  SocketsAccounted <=> Account(sock, connecting_fds, lost, doubled) /\ Whole
  BY DEF SocketsAccounted, Account, Whole, Open, Mine, NoFd, Fds

LEMMA AccountAfter ==
    ASSUME fd' = NoFd, Account(sock', connecting_fds', lost', doubled'), Whole'
    PROVE  SocketsAccounted'
  BY DEF SocketsAccounted, Account, Whole, Open, Mine, NoFd, Fds

(* A new socket is a free number: it is listed already only if the array   *)
(* holds an entry of a closed socket.                                      *)
LEMMA OpenNextAccount ==
    ASSUME NEW i, NEW s \in [Fds -> SockStates],
           NEW fds \in Seq(Fds), NEW l, NEW d, Account(s, fds, l, d),
           NextAddr(i, s, fds, l)
    PROVE  Account(sock', connecting_fds', lost', d) /\ lost' \subseteq l
<1>1. PICK f \in Fds :
        /\ s[f] = "closed"
        /\ sock' = [s EXCEPT ![f] = "connecting"]
        /\ connecting_fds' = Append(fds, f)
        /\ lost' = l \ {f}
  BY DEF NextAddr, OpenNext
<1>2. /\ Len(fds) \in Nat /\ DOMAIN fds = 1..Len(fds)
      /\ \A x : x \in Range(fds) <=> \E k \in 1..Len(fds) : fds[k] = x
  BY SeqElements
<1>3. PICK t : t = Append(fds, f)
  OBVIOUS
<1>4. /\ t \in Seq(Fds) /\ Len(t) = Len(fds) + 1
      /\ \A k \in 1..Len(fds) : t[k] = fds[k]
      /\ t[Len(fds) + 1] = f
  BY <1>3, AppendProperties
<1>5. DOMAIN t = 1..(Len(fds) + 1)
  BY <1>4, SeqElements
<1>6. Range(t) = Range(fds) \cup {f}
  <2>1. Append(fds, f) = fds \o <<f>>
    BY AppendProperties, <1>1
  <2>2. PICK u : u = <<f>>
    OBVIOUS
  <2>3. u \in Seq(Fds) /\ Range(u) = {f}
    BY <2>2, SmallSeq
  <2>4. Range(fds \o u) = Range(fds) \cup {f}
    BY <2>3, ConcatSeq
  <2> QED BY <1>3, <2>1, <2>2, <2>4
<1>7. f \in Range(fds) => f \in d
  BY <1>1 DEF Account
<1>8. {g \in Fds : sock'[g] # "closed"} = {g \in Fds : s[g] # "closed"} \cup {f}
  BY <1>1
<1>9. ASSUME NEW a \in DOMAIN t, NEW b \in DOMAIN t, a # b, t[a] = t[b]
      PROVE  t[a] \in d
  <2>1. CASE a \in 1..Len(fds) /\ b \in 1..Len(fds)
    BY <1>2, <1>4, <1>9, <2>1 DEF Account
  <2>2. CASE a \in 1..Len(fds) /\ b = Len(fds) + 1
    <3>1. t[a] = f /\ fds[a] = f
      BY <1>4, <1>9, <2>2
    <3> QED BY <1>2, <1>7, <2>2, <3>1
  <2>3. CASE a = Len(fds) + 1 /\ b \in 1..Len(fds)
    <3>1. t[a] = f /\ fds[b] = f
      BY <1>4, <1>9, <2>3
    <3> QED BY <1>2, <1>7, <2>3, <3>1
  <2> QED BY <1>2, <1>5, <1>9, <2>1, <2>2, <2>3
<1>10. connecting_fds' = t
  BY <1>1, <1>3
<1>11. {g \in Fds : sock'[g] # "closed"} \subseteq Range(t) \cup lost'
  BY <1>1, <1>6, <1>8 DEF Account
<1>12. Range(t) \subseteq {g \in Fds : sock'[g] # "closed"} \cup d
  BY <1>6, <1>8 DEF Account
<1> QED BY <1>1, <1>9, <1>10, <1>11, <1>12 DEF Account

(* A failed socket leaves the array and its number becomes free.           *)
LEMMA FailedAccount ==
    ASSUME IInv, SocketsAccounted, fd = NoFd,
           NEW f \in Fds, f \in Range(connecting_fds), next_addrinfo # NoAddr,
           NEW i, i = FirstIndex(connecting_fds, f)
    PROVE  /\ Account(Closed(f), CloseConnecting(f),
                      lost \cup LeftBehind(connecting_fds, i),
                      doubled \cup LeftTwice(connecting_fds, i))
           /\ MovesWhole => /\ LeftBehind(connecting_fds, i) = {}
                            /\ LeftTwice(connecting_fds, i) = {}
<1>1. connecting_fds \in Seq(Fds) /\ next_addrinfo \in 1..NAddrs
  BY ConnectAssumption DEF IInv, TypeOK, NoAddr
<1>2. Account(sock, connecting_fds, lost, doubled)
  BY AccountDuring
<1>3. i = IndexOf(connecting_fds, f)
  BY DEF FirstIndex, IndexOf
<1>4. /\ Len(connecting_fds) \in Nat /\ DOMAIN connecting_fds = 1..Len(connecting_fds)
      /\ \A x : x \in Range(connecting_fds)
                    <=> \E k \in 1..Len(connecting_fds) : connecting_fds[k] = x
  BY <1>1, SeqElements
<1>5. i \in 1..Len(connecting_fds) /\ connecting_fds[i] = f
  BY <1>1, <1>3, <1>4, IndexOfEntry
<1>6. PICK s, r : s = connecting_fds /\ r = RemoveEntry(s, i)
  OBVIOUS
<1>7. r = CloseConnecting(f)
  BY <1>6, Zenon DEF CloseConnecting
<1>8. /\ DOMAIN r = 1..(Len(s) - 1)
      /\ \A a \in DOMAIN r : \E k \in 1..Len(s) : k # i /\ r[a] = s[k]
      /\ \A k \in 1..Len(s) : k # i => s[k] \in Range(r) \cup LeftBehind(s, i)
      /\ \A a, b \in DOMAIN r :
             a < b /\ r[a] = r[b] => r[a] \in LeftTwice(s, i) \cup Doubles(s)
  <2>1. s \in Seq(Fds) /\ i \in 1..Len(s)
    BY <1>1, <1>5, <1>6
  <2>2. r = RemoveEntry(s, i)
    BY <1>6
  <2> HIDE DEF LeftBehind, LeftTwice, RemoveEntry
  <2>3. /\ DOMAIN r = 1..(Len(s) - 1)
        /\ \A a \in DOMAIN r : \E k \in 1..Len(s) : k # i /\ r[a] = s[k]
    BY <2>1, <2>2, MovedEntries
  <2>4. \A k \in 1..Len(s) : k # i => s[k] \in Range(r) \cup LeftBehind(s, i)
    BY <2>1, <2>2, MovedEntries
  <2> QED BY <2>1, <2>2, <2>3, <2>4, MovedEntries
<1>9. \A g \in Fds : Closed(f)[g] # "closed" <=> sock[g] # "closed" /\ g # f
  BY DEF Closed, IInv, TypeOK
<1>10. \A x : x \in Range(r) <=> \E a \in DOMAIN r : r[a] = x
  BY DEF Range
<1>11. \A j, k \in 1..Len(s) : j # k /\ s[j] = s[k] => s[j] \in doubled
  BY <1>2, <1>4, <1>6 DEF Account
<1>12. ASSUME NEW g \in Fds, Closed(f)[g] # "closed"
       PROVE  g \in Range(r) \cup (lost \cup LeftBehind(s, i))
  <2>1. g # f /\ (g \in lost \/ g \in Range(s))
    BY <1>2, <1>6, <1>9, <1>12 DEF Account
  <2>2. CASE g \in Range(s)
    <3>1. PICK k \in 1..Len(s) : s[k] = g
      BY <1>4, <1>6, <2>2
    <3>2. k # i
      BY <1>5, <1>6, <2>1, <3>1
    <3> QED BY <1>8, <3>1, <3>2
  <2> QED BY <2>1, <2>2
<1>13. ASSUME NEW g \in Range(r)
       PROVE  g \in {h \in Fds : Closed(f)[h] # "closed"} \cup (doubled \cup LeftTwice(s, i))
  <2>1. PICK k \in 1..Len(s) : k # i /\ s[k] = g
    BY <1>8, <1>10
  <2>2. CASE g = f
    BY <1>5, <1>6, <1>11, <2>1, <2>2
  <2>3. CASE g # f
    <3>1. g \in Range(s)
      BY <1>4, <1>6, <2>1
    <3>2. g \in Fds /\ (sock[g] # "closed" \/ g \in doubled)
      BY <1>1, <1>2, <1>6, <3>1, SeqElements DEF Account
    <3> QED BY <1>9, <2>3, <3>2
  <2> QED BY <2>2, <2>3
<1>14. ASSUME NEW a \in DOMAIN r, NEW b \in DOMAIN r, a # b, r[a] = r[b]
       PROVE  r[a] \in doubled \cup LeftTwice(s, i)
  <2>1. a \in Int /\ b \in Int
    BY <1>4, <1>6, <1>8
  <2>2. r[a] \in LeftTwice(s, i) \cup Doubles(s)
    <3>1. CASE a < b
      BY <1>8, <1>14, <3>1
    <3>2. CASE b < a
      BY <1>8, <1>14, <3>2
    <3> QED BY <1>14, <2>1, <3>1, <3>2
  <2> QED BY <1>11, <2>2 DEF Doubles
<1>15. Account(Closed(f), r, lost \cup LeftBehind(s, i), doubled \cup LeftTwice(s, i))
  BY <1>12, <1>13, <1>14 DEF Account
<1>16. ASSUME MovesWhole PROVE LeftBehind(s, i) = {} /\ LeftTwice(s, i) = {}
  <2>1. Len(connecting_fds) + NAddrs - next_addrinfo + 1 <= NAddrs
    BY <1>1, <1>4, ConnectAssumption DEF IInv, ArrayBound, Untried, NoAddr
  <2>2. SockSize = 1 \/ Len(s) <= 2
    BY <1>1, <1>4, <1>6, <1>16, <2>1, ConnectAssumption DEF MovesWhole
  <2>3. s \in Seq(Fds) /\ i \in 1..Len(s)
    BY <1>1, <1>5, <1>6
  <2> QED BY <2>2, <2>3, GapClosed
<1> QED BY <1>6, <1>7, <1>15, <1>16

(* A socket that fails: another takes its place, or it is dropped, or it   *)
(* stays until the context is closed.                                      *)
LEMMA ConnectFailedSockets ==
    ASSUME IInv, SocketsAccounted, fd = NoFd,
           NEW f \in Fds, f \in Range(connecting_fds), ConnectFailed(f)
    PROVE  SocketsAccounted'
<1>1. Account(sock, connecting_fds, lost, doubled) /\ Whole /\ fd' = NoFd
  BY AccountDuring DEF ConnectFailed
<1>2. CASE next_addrinfo # NoAddr
  <2>1. PICK i : i = FirstIndex(connecting_fds, f)
    OBVIOUS
  <2>2. PICK s, fds, l, d :
          /\ s = Closed(f) /\ fds = CloseConnecting(f)
          /\ l = lost \cup LeftBehind(connecting_fds, i)
          /\ d = doubled \cup LeftTwice(connecting_fds, i)
    OBVIOUS
  <2>3. s \in [Fds -> SockStates] /\ fds \in Seq(Fds)
    <3>1. connecting_fds \in Seq(Fds) /\ connecting_fds # <<>>
      BY DEF IInv, TypeOK, Range
    <3>2. fds \in Seq(Fds)
      BY <2>2, <3>1, RemoveType DEF CloseConnecting
    <3> QED BY <2>2, <3>2 DEF IInv, TypeOK, Closed, SockStates
  <2>4. /\ \/ NextAddr(next_addrinfo, s, fds, l)
           \/ sock' = s /\ connecting_fds' = fds /\ lost' = l
        /\ doubled' = d
    BY <1>2, <2>1, <2>2, Zenon DEF ConnectFailed
  <2>5. Account(s, fds, l, d) /\ (MovesWhole => l = {} /\ d = {})
    <3>1. /\ Account(Closed(f), CloseConnecting(f),
                      lost \cup LeftBehind(connecting_fds, i),
                      doubled \cup LeftTwice(connecting_fds, i))
          /\ MovesWhole => /\ LeftBehind(connecting_fds, i) = {}
                           /\ LeftTwice(connecting_fds, i) = {}
      BY <1>2, <2>1, FailedAccount
    <3>2. Account(s, fds, l, d)
      BY <2>2, <3>1, Zenon
    <3> QED BY <1>1, <2>2, <3>1, <3>2 DEF Whole
  <2>6. Account(sock', connecting_fds', lost', d) /\ lost' \subseteq l
    <3>1. CASE NextAddr(next_addrinfo, s, fds, l)
      <4>1. PICK k : k = next_addrinfo
        OBVIOUS
      <4> QED BY <2>3, <2>5, <3>1, <4>1, OpenNextAccount
    <3>2. CASE sock' = s /\ connecting_fds' = fds /\ lost' = l
      BY <2>5, <3>2, Zenon
    <3> QED BY <2>4, <3>1, <3>2
  <2>7. Account(sock', connecting_fds', lost', doubled') /\ Whole'
    BY <2>4, <2>5, <2>6 DEF Whole
  <2> QED BY <1>1, <2>7, AccountAfter
<1>3. CASE next_addrinfo = NoAddr
  BY <1>3 DEF ConnectFailed, SocketsAccounted, Open, Mine, moveVars
<1> QED BY <1>2, <1>3

(* tcp_close closes all that the library knows of. *)
LEMMA TcpCloseSockets ==
    ASSUME IInv, SocketsAccounted, TcpClose
    PROVE  SocketsAccounted'
<1>1. sock \in [Fds -> SockStates] /\ fd \in Fds \cup {NoFd}
  BY DEF IInv, TypeOK
<1>2. fd' = NoFd /\ connecting_fds' = <<>> /\ lost' = lost /\ doubled' \in {doubled, {}}
  BY TcpCloseStep DEF IInv, TcpClose
<1>3. \A g \in Fds : sock'[g] # "closed" => g \in lost
  <2>1. CASE fd # NoFd
    <3>1. Open \subseteq {fd} \cup lost
      BY <1>1, <2>1, SmallSeq DEF SocketsAccounted, Mine
    <3> QED BY <1>1, <2>1, <3>1 DEF TcpClose, Open
  <2>2. CASE fd = NoFd
    BY <1>1, <2>2 DEF TcpClose, CloseConnectingFds, SocketsAccounted, Open, Mine, NoFd, Fds
  <2> QED BY <2>1, <2>2
<1>4. Range(connecting_fds') = {} /\ DOMAIN connecting_fds' = {}
  BY <1>2, SmallSeq
<1>5. Account(sock', connecting_fds', lost', doubled')
  BY <1>2, <1>3, <1>4 DEF Account
<1>6. Whole'
  BY <1>2 DEF Whole, SocketsAccounted
<1> QED BY <1>2, <1>5, <1>6, AccountAfter

(* The socket that wins is open, also when poll reported it late; nothing  *)
(* but what was left behind stays open beside it.                          *)
LEMMA ConnectedSockets ==
    ASSUME IInv, SocketsAccounted, fd = NoFd, NEW f \in Fds,
           f \in Range(connecting_fds), sock[f] # "closed", Connected(f)
    PROVE  SocketsAccounted'
<1>1. Account(sock, connecting_fds, lost, doubled) /\ Whole
  BY AccountDuring
<1>2. /\ fd' = f /\ connecting_fds' = <<>> /\ lost' = lost /\ doubled' = {}
      /\ sock' = [g \in Fds |-> IF g \in Range(connecting_fds) \ {f}
                                THEN "closed" ELSE sock[g]]
  BY DEF Connected, CloseConnectingFds
<1>3. \A g \in Fds : sock'[g] # "closed" => g = f \/ g \in lost
  BY <1>1, <1>2 DEF Account
<1>4. sock'[f] # "closed"
  BY <1>2
<1>5. Range(connecting_fds') = {} /\ DOMAIN connecting_fds' = {}
  BY <1>2, SmallSeq
<1> QED BY <1>1, <1>2, <1>3, <1>4, <1>5 DEF SocketsAccounted, Open, Mine, Whole

(* Every step keeps the account. *)
LEMMA NextSockets ==
    ASSUME IInv, SocketsAccounted, [Next]_vars
    PROVE  SocketsAccounted'
<1>0. TypeOK /\ sock \in [Fds -> SockStates] /\ connecting_fds \in Seq(Fds)
  BY DEF IInv, TypeOK
<1>1. ASSUME fd = NoFd, fd' = NoFd, doubled' = doubled, NEW i,
             NextAddr(i, sock, connecting_fds, lost)
      PROVE  SocketsAccounted'
  <2>1. Account(sock, connecting_fds, lost, doubled) /\ Whole
    BY <1>1, AccountDuring
  <2>2. PICK s, fds, l, d : s = sock /\ fds = connecting_fds /\ l = lost /\ d = doubled
    OBVIOUS
  <2>3. Account(sock', connecting_fds', lost', d) /\ lost' \subseteq l
    BY <1>0, <1>1, <2>1, <2>2, OpenNextAccount
  <2>4. Account(sock', connecting_fds', lost', doubled') /\ Whole'
    BY <1>1, <2>1, <2>2, <2>3 DEF Whole
  <2> QED BY <1>1, <2>4, AccountAfter
<1>2. CASE Connect
  BY <1>1, <1>2 DEF Connect
<1>3. CASE ServiceTimeout
  <2>1. fd = NoFd /\ fd' = NoFd /\ doubled' = doubled
    BY <1>3, ConnectAssumption DEF ServiceTimeout, IInv, TypeOK, RaceOver, NoAddr
  <2>2. CASE NextAddr(next_addrinfo, sock, connecting_fds, lost)
    BY <1>1, <2>1, <2>2
  <2>3. CASE UNCHANGED <<sock, connecting_fds, lost>>
    BY <2>1, <2>3 DEF SocketsAccounted, Open, Mine
  <2> QED BY <1>3, <2>2, <2>3 DEF ServiceTimeout
<1>4. ASSUME NEW f \in Fds, NEW e \in Outcomes, ServiceFd(f, e) PROVE SocketsAccounted'
  <2>1. CASE UNCHANGED <<libVars, sock, moveVars>>
    BY <2>1 DEF libVars, moveVars, SocketsAccounted, Open, Mine
  <2>2. CASE f \in Range(connecting_fds) /\ fd = NoFd /\ ConnectFailed(f)
    BY <2>2, ConnectFailedSockets
  <2>3. CASE /\ f \in Range(connecting_fds) /\ fd = NoFd
             /\ sock[f] # "closed" /\ Connected(f)
    BY <2>3, ConnectedSockets
  <2> QED BY <1>4, <2>1, <2>2, <2>3 DEF ServiceFd
<1>5. CASE CloseContext \/ DestroyContext
  BY <1>5, TcpCloseSockets DEF CloseContext, DestroyContext
<1>6. CASE Poll \/ UNCHANGED vars
  BY <1>6 DEF Poll, vars, libVars, moveVars, SocketsAccounted, Open, Mine
<1>7. ASSUME NEW f \in Fds, Resolve(f) PROVE SocketsAccounted'
  <2>1. UNCHANGED <<fd, connecting_fds, lost, doubled>> /\ sock[f] # "closed"
    BY <1>7 DEF Resolve, libVars, moveVars
  <2>2. \A g \in Fds : (sock'[g] # "closed") <=> (sock[g] # "closed")
    BY <1>0, <1>7 DEF Resolve, Outcomes
  <2> QED BY <2>1, <2>2 DEF SocketsAccounted, Open, Mine
<1> QED BY <1>2, <1>3, <1>4, <1>5, <1>6, <1>7 DEF Next

(* The library accounts for every open socket, with any number of          *)
(* addresses and in whichever order the connects end, time out and are     *)
(* given up: a socket leaks only when the memmove of                       *)
(* smb2_close_connecting_fd leaves it behind, one is closed twice only     *)
(* when that left it twice, and neither happens with three addresses.      *)
THEOREM SocketsNeverLost == Spec => []SocketsAccounted
<1>1. Init => SocketsAccounted
  <2> SUFFICES ASSUME Init PROVE SocketsAccounted
    OBVIOUS
  <2>1. /\ fd = NoFd /\ connecting_fds = <<>> /\ \A g \in Fds : sock[g] = "closed"
        /\ lost = {} /\ doubled = {}
    BY DEF Init
  <2>2. Range(connecting_fds) = {} /\ DOMAIN connecting_fds = {}
    BY <2>1, SmallSeq
  <2> QED BY <2>1, <2>2 DEF SocketsAccounted, Open, Mine, NoFd, Fds
<1>2. IInv /\ SocketsAccounted /\ [Next]_vars => SocketsAccounted'
  BY NextSockets
<1> QED BY <1>1, <1>2, ConnectInvariant, PTL DEF Spec
=============================================================================
