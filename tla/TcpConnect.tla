----------------------------- MODULE TcpConnect -----------------------------
(***************************************************************************)
(* The TCP transport while it connects (lib/socket.c): the addresses of    *)
(* the server are tried one after the other and in parallel, as in RFC     *)
(* 8305, until one socket is connected or the attempt is given up.         *)
(*                                                                         *)
(* The application polls the sockets that smb2_get_fds returns, hands each *)
(* ready one to smb2_service_fd, and calls it with -1 when the delay of    *)
(* HAPPY_EYEBALLS_TIMEOUT is over.  The kernel resolves each connect and   *)
(* gives a new socket the lowest free number.  The traffic on a connected  *)
(* socket is the subject of module PduEngine.                              *)
(***************************************************************************)
EXTENDS Integers, SequencesExt

CONSTANTS
    NAddrs,     \* addresses the server's name resolves to
    MaxFd,      \* bound: socket numbers
    MaxConnects,\* bound: calls of smb2_connect_async
    SockSize    \* sizeof(t_socket)

ASSUME ConnectAssumption ==
    /\ NAddrs \in Nat \ {0}
    /\ MaxFd \in Nat
    /\ MaxConnects \in Nat
    /\ SockSize \in Nat \ {0}

Fds == 1..MaxFd
NoFd == 0       \* SMB2_INVALID_SOCKET
NoAddr == 0     \* a null next_addrinfo

VARIABLES
    fd,              \* smb2->fd, the socket that won
    connecting_fds,  \* smb2->connecting_fds, connecting_fds_count long
    next_addrinfo,   \* index of the next address to try
    connect_cb,      \* smb2->connect_cb is set
    events,          \* smb2->events, as last told to the application
    ctx,             \* the context: usable, failed in smb2_service, destroyed
    sock,            \* kernel: state of every socket
    ready,           \* application: what poll reported, not yet serviced
    polled,          \* application: what the callbacks told it to poll for
    started,         \* connects that were begun
    reported,        \* connects whose connect_cb was invoked
    lost,            \* sockets the memmove of the array has left behind
    doubled          \* sockets it has left in the array twice

libVars == <<fd, connecting_fds, next_addrinfo, connect_cb, events>>
appVars == <<ready, polled>>
moveVars == <<lost, doubled>>
vars == <<libVars, ctx, sock, appVars, started, reported, moveVars>>

Outcomes == {"connected", "refused", "hungup"}   \* of a connect

Open == {f \in Fds : sock[f] # "closed"}
Mine == Range(connecting_fds) \cup ({fd} \cap Fds)

Init ==
    /\ fd = NoFd
    /\ connecting_fds = <<>>
    /\ next_addrinfo = NoAddr
    /\ connect_cb = FALSE
    /\ events = "none"
    /\ ctx = "active"
    /\ sock = [f \in Fds |-> "closed"]
    /\ ready = {}
    /\ polled = [f \in Fds |-> "unknown"]
    /\ started = 0 /\ reported = 0
    /\ lost = {} /\ doubled = {}

-----------------------------------------------------------------------------
(* smb2_change_events: the application is told only when the events differ *)
(* from those last asked for, for whatever socket that was.  p is what it  *)
(* polls for before.                                                       *)
ChangeEvents(p, f, e) ==
    /\ events' = e
    /\ polled' = IF events = e THEN p ELSE [p EXCEPT ![f] = e]

(* Variant: the address that was tried is tried again.                     *)
SameAddr(j) == j

(* The address after j, ai->ai_next. *)
AddrAfter(j) == IF j < NAddrs THEN j + 1 ELSE NoAddr

(* connect_async_ai succeeds for address j: a socket starts to connect.    *)
(* s is the state of the sockets and fds the array before, l the sockets   *)
(* left behind.                                                            *)
OpenNext(j, s, fds, l) ==
    \E f \in Fds :
        /\ s[f] = "closed"
        /\ \A g \in 1..(f - 1) : s[g] # "closed"
        /\ sock' = [s EXCEPT ![f] = "connecting"]
        /\ connecting_fds' = Append(fds, f)
        /\ lost' = l \ {f}
        /\ next_addrinfo' = AddrAfter(j)
        /\ ChangeEvents([polled EXCEPT ![f] = "none"], f, "POLLOUT")

(* smb2_connect_async_next_addr from address i on: the first address whose *)
(* connect can be begun.                                                   *)
NextAddr(i, s, fds, l) == \E j \in i..NAddrs : OpenNext(j, s, fds, l)

(* Variant: connect_cb stays set. *)
ReportAgain ==
    /\ UNCHANGED connect_cb
    /\ reported' = IF connect_cb THEN reported + 1 ELSE reported

(* The callback of the attempt that is under way, if there is one.         *)
Report ==
    /\ connect_cb' = FALSE
    /\ reported' = IF connect_cb THEN reported + 1 ELSE reported

-----------------------------------------------------------------------------
(* tcp_connect.  The application starts no attempt before the last one has *)
(* been reported.  If no address can be tried nothing changes.             *)
Connect ==
    /\ ctx = "active" /\ ~connect_cb
    /\ fd = NoFd
    /\ started < MaxConnects
    /\ NextAddr(1, sock, connecting_fds, lost)
    /\ connect_cb' = TRUE
    /\ started' = started + 1
    /\ UNCHANGED <<fd, ctx, ready, reported, doubled>>

(* tcp_service with fd = -1: another address is tried beside those under   *)
(* way.  The service fails if none can be.                                 *)
ServiceTimeout ==
    /\ ctx = "active"
    /\ next_addrinfo # NoAddr
    /\ \/ /\ NextAddr(next_addrinfo, sock, connecting_fds, lost)
          /\ UNCHANGED ctx
       \/ /\ ctx' = "failed"
          /\ UNCHANGED <<sock, connecting_fds, next_addrinfo, polled, events,
                         lost>>
    /\ UNCHANGED <<fd, connect_cb, ready, started, reported, doubled>>

(* Variant: no element is moved. *)
Truncate(s, i) == SubSeq(s, 1, Len(s) - 1)

(* The memmove of smb2_close_connecting_fd for the i-th entry: it moves as *)
(* many bytes as there are entries behind i.  An entry that is moved in    *)
(* part is moved, as socket numbers fit in its first byte.                 *)
RemoveEntry(s, i) ==
    [j \in 1..(Len(s) - 1) |->
        IF j >= i /\ SockSize * (j - i) < Len(s) - i THEN s[j + 1] ELSE s[j]]

(* With more than one entry behind i it moves too little: the last entry   *)
(* is left behind, and the last one it moves stays in its old place, too.  *)
LeftBehind(s, i) ==
    IF SockSize * (Len(s) - 1 - i) >= Len(s) - i THEN {s[Len(s)]} ELSE {}

LeftTwice(s, i) ==
    {s[j] : j \in {k \in (i + 1)..(Len(s) - 1) :
                      /\ SockSize * (k - 1 - i) < Len(s) - i
                      /\ SockSize * (k - i) >= Len(s) - i}}

FirstIndex(s, f) == SelectInSeq(s, LAMBDA g : g = f)

(* smb2_close_connecting_fd removes the first entry that is f.             *)
CloseConnecting(f) == RemoveEntry(connecting_fds, FirstIndex(connecting_fds, f))

(* close(f). *)
Closed(f) == [sock EXCEPT ![f] = "closed"]

(* A connecting socket has failed.  If there is another address it is      *)
(* tried in its place; if not, or if it cannot be, the attempt is over.    *)
ConnectFailed(f) ==
    LET at == FirstIndex(connecting_fds, f)
        left == lost \cup LeftBehind(connecting_fds, at)
    IN
    \/ /\ next_addrinfo # NoAddr
       /\ \/ /\ NextAddr(next_addrinfo, Closed(f), CloseConnecting(f), left)
             /\ UNCHANGED <<connect_cb, reported, ctx>>
          \/ /\ sock' = Closed(f)
             /\ connecting_fds' = CloseConnecting(f)
             /\ ctx' = "failed"
             /\ Report
             /\ lost' = left
             /\ UNCHANGED <<next_addrinfo, polled, events>>
       /\ doubled' = doubled \cup LeftTwice(connecting_fds, at)
       /\ UNCHANGED fd
    \/ /\ next_addrinfo = NoAddr
       /\ ctx' = "failed"
       /\ Report
       /\ UNCHANGED <<fd, sock, connecting_fds, next_addrinfo, polled, events,
                      moveVars>>

(* The application removes the sockets in fds (SMB2_DEL_FD).               *)
Forgotten(fds) == [f \in Fds |-> IF f \in fds THEN "unknown" ELSE polled[f]]

(* smb2_close_connecting_fds: every connecting socket but keep is closed.  *)
CloseConnectingFds(keep) ==
    /\ sock' = [f \in Fds |-> IF f \in Range(connecting_fds) \ {keep}
                              THEN "closed" ELSE sock[f]]
    /\ connecting_fds' = <<>>
    /\ next_addrinfo' = NoAddr
    /\ doubled' = {}

(* Variant: only a failure is reported. *)
ConnectedSilently(f) ==
    /\ fd' = f
    /\ CloseConnectingFds(f)
    /\ ChangeEvents(Forgotten(Range(connecting_fds) \ {f}), f, "POLLIN")
    /\ UNCHANGED <<connect_cb, reported, ctx, lost>>

(* A connecting socket is connected: it wins.                              *)
Connected(f) ==
    /\ fd' = f
    /\ CloseConnectingFds(f)
    /\ ChangeEvents(Forgotten(Range(connecting_fds) \ {f}), f, "POLLIN")
    /\ Report
    /\ UNCHANGED <<ctx, lost>>

(* tcp_service with a socket of which poll reported e: POLLERR for a       *)
(* connect that was refused, POLLHUP, or POLLOUT.  It may be one that has  *)
(* been dropped since, and its number may by then be that of a socket that *)
(* still connects: after POLLOUT such a one has no SO_ERROR and wins, after*)
(* POLLERR it is given up.  The socket that has won carries traffic, which *)
(* may fail.  POLLHUP without POLLERR fails the service and reports        *)
(* nothing.                                                                *)
ServiceFd(f, e) ==
    /\ ctx = "active"
    /\ <<f, e>> \in ready
    /\ ready' = ready \ {<<f, e>>}
    /\ \/ /\ f # fd /\ f \notin Range(connecting_fds)
          /\ UNCHANGED <<libVars, ctx, sock, polled, reported, moveVars>>
       \/ /\ f = fd
          /\ ctx' \in {"active", "failed"}
          /\ UNCHANGED <<libVars, sock, polled, reported, moveVars>>
       \/ /\ f \in Range(connecting_fds) /\ fd = NoFd
          /\ \/ e = "refused" /\ ConnectFailed(f)
             \/ /\ e = "connected" /\ sock[f] \in {"refused", "closed"}
                /\ ConnectFailed(f)
             \/ /\ e = "connected" /\ sock[f] \notin {"refused", "closed"}
                /\ Connected(f)
             \/ /\ e = "hungup"
                /\ ctx' = "failed"
                /\ UNCHANGED <<libVars, sock, polled, reported, moveVars>>
    /\ UNCHANGED started

(* tcp_close. *)
TcpClose ==
    /\ IF fd # NoFd
       THEN /\ sock' = [sock EXCEPT ![fd] = "closed"]
            /\ fd' = NoFd
            /\ UNCHANGED <<connecting_fds, next_addrinfo, doubled>>
       ELSE CloseConnectingFds(NoFd) /\ UNCHANGED fd
    /\ polled' = Forgotten(Mine)
    /\ UNCHANGED lost

(* smb2_close_context. *)
CloseContext ==
    /\ ctx = "active"
    /\ TcpClose
    /\ UNCHANGED <<connect_cb, events, ctx, ready, started, reported>>

(* smb2_destroy_context: an attempt under way is reported as cancelled.    *)
DestroyContext ==
    /\ ctx # "destroyed"
    /\ ctx' = "destroyed"
    /\ TcpClose
    /\ Report
    /\ UNCHANGED <<events, ready, started>>

-----------------------------------------------------------------------------
(* The application polls what smb2_get_fds returns: one socket once it is  *)
(* connected, and all connecting ones before.                              *)
Poll ==
    /\ ctx = "active" /\ ready = {}
    /\ ready' = {<<f, sock[f]>> :
                   f \in {g \in IF fd # NoFd THEN {fd} ELSE Range(connecting_fds) :
                             sock[g] \in Outcomes}}
    /\ ready' # {}
    /\ UNCHANGED <<libVars, ctx, sock, polled, started, reported, moveVars>>

(* The kernel ends the connect of a socket. *)
Resolve(f) ==
    /\ sock[f] = "connecting"
    /\ \E r \in Outcomes : sock' = [sock EXCEPT ![f] = r]
    /\ UNCHANGED <<libVars, ctx, appVars, started, reported, moveVars>>

Next ==
    \/ Connect
    \/ ServiceTimeout
    \/ \E f \in Fds, e \in Outcomes : ServiceFd(f, e)
    \/ CloseContext
    \/ DestroyContext
    \/ Poll
    \/ \E f \in Fds : Resolve(f)

Spec == Init /\ [][Next]_vars

(* The kernel ends every connect, the application polls and services what  *)
(* is ready, and destroys a context whose service failed.                  *)
Fairness ==
    /\ WF_vars(Poll)
    /\ \A f \in Fds : WF_vars(Resolve(f))
    /\ \A f \in Fds, e \in Outcomes : WF_vars(ServiceFd(f, e))
    /\ WF_vars(ctx = "failed" /\ DestroyContext)

FairSpec == Spec /\ Fairness

-----------------------------------------------------------------------------
SockStates == {"closed", "connecting"} \cup Outcomes
PollStates == {"unknown", "none", "POLLIN", "POLLOUT"}

(* The state of the transport in socket.c keeps its types; next_addrinfo   *)
(* stays in the list of addresses.                                         *)
TypeOK ==
    /\ fd \in Fds \cup {NoFd}
    /\ connecting_fds \in Seq(Fds)
    /\ next_addrinfo \in 0..NAddrs
    /\ connect_cb \in BOOLEAN
    /\ events \in {"none", "POLLIN", "POLLOUT"}
    /\ ctx \in {"active", "failed", "destroyed"}
    /\ sock \in [Fds -> SockStates]
    /\ ready \subseteq Fds \X Outcomes
    /\ polled \in [Fds -> PollStates]
    /\ started \in Nat /\ reported \in Nat
    /\ lost \subseteq Fds /\ doubled \subseteq Fds

(* Every attempt that was begun is reported once, and before the context   *)
(* is gone: tcp_service has four places that do it and the teardown one.   *)
ReportedOnce ==
    /\ started = reported + IF connect_cb THEN 1 ELSE 0
    /\ ctx = "destroyed" => ~connect_cb

(* The array of connecting sockets, which has one entry for each address,  *)
(* has room for the addresses that are still to be tried.                  *)
Untried == IF next_addrinfo = NoAddr THEN 0 ELSE NAddrs - next_addrinfo + 1

ArrayBound == Len(connecting_fds) + Untried <= NAddrs

(* The memmove moves all it should: it would if an entry took one byte,    *)
(* and does while at most one entry is behind the one removed, which is    *)
(* so with up to three addresses, as none is removed when none is left to  *)
(* be tried.                                                               *)
MovesWhole == NAddrs <= 3 \/ SockSize = 1

(* The library accounts for every open socket, whatever poll reported late *)
(* and of whichever socket a number now is: one leaks only by the memmove  *)
(* of smb2_close_connecting_fd, which counts entries as bytes and leaves   *)
(* the last one behind, and only a socket that it left twice in the array  *)
(* is listed twice or after it was closed.  With three addresses or fewer  *)
(* it does neither.                                                        *)
SocketsAccounted ==
    /\ Open \subseteq Mine \cup lost
    /\ Mine \subseteq Open \cup doubled
    /\ \A a, b \in DOMAIN connecting_fds :
           a # b /\ connecting_fds[a] = connecting_fds[b]
               => connecting_fds[a] \in doubled
    /\ fd # NoFd => connecting_fds = <<>>
    /\ MovesWhole => lost = {} /\ doubled = {}

(* All connecting sockets are closed when the first one is connected.      *)
FirstWins == fd # NoFd => Open = {fd}

(* The callbacks tell an application that relies on them which sockets to  *)
(* poll, and for what.                                                     *)
WatchersTold ==
    /\ \A f \in Fds : polled[f] # "unknown" => f \in Mine
    /\ \A f \in Range(connecting_fds) : polled[f] = "POLLOUT"

(* An attempt is always reported in the end, unless the application closes *)
(* the context under it.                                                   *)
EventuallyReported ==
    connect_cb ~>
        \/ ~connect_cb
        \/ ctx = "active" /\ fd = NoFd /\ connecting_fds = <<>>
=============================================================================
