-------------------------- MODULE NetlogFdProofs --------------------------
(***************************************************************************)
(* Descriptor ownership of the plain transport, proved for every bound:   *)
(* over UDP and TCP the Manager holds at most one descriptor, its socket, *)
(* and never closes one it does not hold (spec 8.3).  With DTLS both       *)
(* properties fail (runs dtls_stdin_close; MCNetlogDtlsFdLeak.cfg), so the *)
(* theorems assume a plain protocol.                                       *)
(***************************************************************************)
EXTENDS NetlogManagerProofs

\* The descriptors the Manager holds in a process state p: exactly its
\* socket when it has one, and no close so far has hit a descriptor it did
\* not hold.
FK(p) ==
    /\ p.k.owned = (IF p.m.socket = NoFd THEN {} ELSE {p.m.socket})
    /\ ~p.k.badClose

\* The inductive invariant behind NoFdLeak and CloseOnlyOwned.
FdInv == TypeOK /\ FK(P)

-----------------------------------------------------------------------------
(* What each C function does to the descriptors.                           *)

\* manager_close_network_socket() closes the socket the Manager holds and
\* leaves it holding nothing.
LEMMA CloseNetworkSocketFd ==
    ASSUME NEW p \in PType, FK(p)
    PROVE  /\ FK(CloseNetworkSocket(p))
           /\ CloseNetworkSocket(p).k.owned = {}
           /\ CloseNetworkSocket(p).m.socket = NoFd
<1>1. CASE p.m.socket = NoFd
  <2>1. SafeClose(p, p.m.socket) = p
    BY <1>1 DEF SafeClose, NoFd
  <2>2. QED
    BY <1>1, <2>1 DEF FK, CloseNetworkSocket, PType, ManagerType
<1>2. CASE p.m.socket # NoFd
  <2>1. p.m.socket \in Fds /\ p.k.owned = {p.m.socket}
    BY <1>2 DEF FK, PType, ManagerType, FdVal
  <2>2. p.m.socket >= 0
    BY <2>1 DEF Fds
  <2> DEFINE s == p.m.socket
              q == [p EXCEPT !.k.open = @ \ {s}, !.k.owned = @ \ {s},
                             !.k.badClose = @ \/ s \notin p.k.owned]
  <2>3. ~(s < 0)
    BY <2>1 DEF Fds
  <2>4. SafeClose(p, s) = q
    BY <2>3, Zenon DEF SafeClose
  <2>5. q.k.owned = {} /\ ~q.k.badClose
    BY <2>1 DEF FK, PType, KernelType
  <2>6. CloseNetworkSocket(p) = [q EXCEPT !.m.connected = FALSE, !.m.socket = NoFd]
    BY <2>4, Zenon DEF CloseNetworkSocket
  <2>9. q \in PType
    BY <2>1 DEF PType, KernelType
  <2>10. DOMAIN q = {"m", "k"} /\ DOMAIN q.m = {"socket", "connected", "dtls", "event_retry"}
    BY <2>9 DEF PType, ManagerType
  <2>7. CloseNetworkSocket(p).k = q.k /\ CloseNetworkSocket(p).m.socket = NoFd
    BY <2>4, <2>10 DEF CloseNetworkSocket
  <2>8. QED
    BY <2>5, <2>7 DEF FK
<1>3. QED
  BY <1>1, <1>2

\* manager_open_network_socket(), from a Manager that holds nothing: the
\* new socket is held on success and closed again when connect() fails.
LEMMA OpenNetworkSocketFd ==
    ASSUME NEW p \in PType, NEW ok \in BOOLEAN,
           p.k.owned = {}, p.m.socket = NoFd, ~p.k.badClose
    PROVE  FK(OpenNetworkSocket(p, ok).st)
<1> DEFINE fd == LowestFree(p.k.open)
           q  == [OpenFd(p, fd) EXCEPT !.m.socket = fd]
<1>1. fd \in FdVal
  BY LowestFreeType DEF PType, KernelType
<1>2. CASE fd = NoFd
  <2>1. OpenNetworkSocket(p, ok).st = [p EXCEPT !.m.socket = NoFd]
    BY <1>2 DEF OpenNetworkSocket
  <2>2. QED
    BY <2>1 DEF FK, PType, ManagerType
<1>3. CASE fd # NoFd
  <2>1. fd \in Fds /\ fd >= 0
    BY <1>1, <1>3 DEF FdVal, Fds
  <2>11. OpenFd(p, fd).k.owned = {fd} /\ ~OpenFd(p, fd).k.badClose
    BY <2>1 DEF OpenFd, PType, KernelType
  <2>12. OpenFd(p, fd) \in PType
    BY <2>1, OpenFdType
  <2>2. q.k.owned = {fd} /\ q.m.socket = fd /\ ~q.k.badClose
    BY <2>11, <2>12 DEF PType, ManagerType
  <2>9. q \in PType
    BY <2>1, OpenFdType DEF PType, ManagerType, FdVal
  <2>3. FK([q EXCEPT !.m.connected = TRUE])
    BY <2>1, <2>2, <2>9, <1>3 DEF FK, PType, ManagerType
  <2> DEFINE q2 == [q EXCEPT !.k.open = @ \ {fd}, !.k.owned = @ \ {fd},
                             !.k.badClose = @ \/ fd \notin q.k.owned]
  <2>10. ~(fd < 0)
    BY <2>1 DEF Fds
  <2>4. SafeClose(q, fd) = q2
    BY <2>10, Zenon DEF SafeClose
  <2>5. q2.k.owned = {} /\ ~q2.k.badClose /\ q2 \in PType
    BY <2>2, <2>9 DEF PType, KernelType
  <2>13. DOMAIN q2 = {"m", "k"}
         /\ DOMAIN q2.m = {"socket", "connected", "dtls", "event_retry"}
    BY <2>5 DEF PType, ManagerType
  <2>14. [q2 EXCEPT !.m.socket = NoFd].k = q2.k
         /\ [q2 EXCEPT !.m.socket = NoFd].m.socket = NoFd
    BY <2>13
  <2>6. FK([q2 EXCEPT !.m.socket = NoFd])
    BY <2>5, <2>14 DEF FK
  <2>7. QED
    BY <1>3, <2>3, <2>4, <2>6 DEF OpenNetworkSocket
<1>4. QED
  BY <1>2, <1>3

\* manager_connect() over UDP or TCP: the old socket is closed before the
\* new one is opened, so the Manager still holds at most its socket.
LEMMA ManagerConnectFd ==
    ASSUME NEW p \in PType, NEW o, Protocol \in {"udp", "tcp"}, FK(p)
    PROVE  FK(ManagerConnect(p, o).st)
<1> DEFINE q == ManagerDisconnect(p)
           c == OpenNetworkSocket(q, o = "ok")
<1>1. q = CloseNetworkSocket(p)
  BY DEF ManagerDisconnect
<1>2. q \in PType /\ q.k.owned = {} /\ q.m.socket = NoFd /\ ~q.k.badClose
  BY <1>1, CloseNetworkSocketFd, CloseNetworkSocketType DEF FK
<1>3. FK(c.st) /\ c.st \in PType
  BY <1>2, OpenNetworkSocketFd, OpenNetworkSocketType
<1>4. ManagerConnect(p, o).st = [c.st EXCEPT !.m.event_retry = (c.r # "ok")]
  BY DEF ManagerConnect
<1>5. QED
  BY <1>3, <1>4 DEF FK, PType, ManagerType

\* manager_push_to_network() over UDP or TCP keeps the ownership, through
\* the connect on demand and the reconnect after a write error.
LEMMA PushToNetworkFd ==
    ASSUME NEW p \in PType, NEW o1, NEW w, NEW o2, Protocol \in {"udp", "tcp"},
           FK(p)
    PROVE  FK(PushToNetwork(p, o1, w, o2).st)
<1> DEFINE c == IF IsConnected(p) THEN [st |-> p, r |-> "ok"]
                ELSE ManagerConnect(p, o1)
<1>1. c.st \in PType /\ FK(c.st)
  BY ManagerConnectType, ManagerConnectFd
<1>2. FK(ProtocolSend(c.st, w, o2).st)
  BY <1>1, ManagerConnectFd DEF ProtocolSend
<1>3. QED
  BY <1>1, <1>2 DEF PushToNetwork

-----------------------------------------------------------------------------
(* The invariant.                                                          *)

\* Over UDP and TCP, FdInv holds at start-up and every handler, retry,
\* flush, crash and SIGTERM keeps it.
LEMMA FdInvInductive ==
    ASSUME Protocol \in {"udp", "tcp"}
    PROVE  /\ Init => FdInv
           /\ FdInv /\ [Next]_vars => FdInv'
<1> USE ConstantsAssumption
<1>1. Init => FdInv
  BY TypeInit DEF Init, FdInv, FK, P, ManagerInit, KernelInit
<1>2. FdInv /\ [Next]_vars => FdInv'
  <2> SUFFICES ASSUME FdInv, [Next]_vars PROVE FdInv'
    OBVIOUS
  <2>0. TypeOK'
    BY TypeStep DEF FdInv
  <2>p. P \in PType /\ FK(P)
    BY DEF FdInv, TypeOK, P, PType
  <2>1. CASE ForwardRecord
    <3>1. PICK o1 \in ConnectOutcomes, w \in WriteOutcomes,
               o2 \in ConnectOutcomes : SetP(PushToNetwork(P, o1, w, o2).st)
      BY <2>1 DEF ForwardRecord, HandleRecord
    <3>2. FK(PushToNetwork(P, o1, w, o2).st)
      BY <2>p, PushToNetworkFd
    <3>3. QED
      BY <2>0, <3>1, <3>2 DEF SetP, FK, FdInv, P
  <2>2. CASE RetryConnect
    <3>1. PICK o \in ConnectOutcomes : SetP(ManagerConnect(P, o).st)
      BY <2>2 DEF RetryConnect
    <3>2. FK(ManagerConnect(P, o).st)
      BY <2>p, ManagerConnectFd
    <3>3. QED
      BY <2>0, <3>1, <3>2 DEF SetP, FK, FdInv, P
  <2>3. CASE FlushCursor
    BY <2>0, <2>3 DEF FlushCursor, FdInv, FK, P
  <2>4. CASE Crash
    BY <2>0, <2>4 DEF Crash, FdInv, FK, P, ManagerInit
  <2>5. CASE Terminate
    <3>1. ManagerDisconnect(P) = CloseNetworkSocket(P)
      BY DEF ManagerDisconnect
    <3>2. ~ManagerDisconnect(P).k.badClose
      BY <2>p, <3>1, CloseNetworkSocketFd DEF FK
    <3>3. QED
      BY <2>0, <2>5, <3>2 DEF Terminate, FdInv, FK, P, ManagerInit
  <2>6. CASE UNCHANGED vars
    BY <2>0, <2>6 DEF vars, FdInv, FK, P
  <2>7. QED
    BY <2>1, <2>2, <2>3, <2>4, <2>5, <2>6 DEF Next
<1>3. QED
  BY <1>1, <1>2

\* Single descriptor ownership (spec 8.3) over UDP and TCP, for every
\* bound: after any sequence of connects, failed connects (the fail label
\* closes the socket), write errors that reconnect, retries, crashes and
\* SIGTERM, every descriptor the Manager holds is its socket.
THEOREM PlainNoFdLeak ==
    ASSUME Protocol \in {"udp", "tcp"}
    PROVE  Spec => []NoFdLeak
<1>1. FdInv => NoFdLeak
  BY DEF FdInv, FK, P, NoFdLeak
<1>2. QED
  BY <1>1, FdInvInductive, PTL DEF Spec

\* Over UDP and TCP, manager_close_network_socket() and the fail label of
\* manager_open_network_socket() only ever close a descriptor the Manager
\* holds: never stdin, never one twice.
THEOREM PlainCloseOnlyOwned ==
    ASSUME Protocol \in {"udp", "tcp"}
    PROVE  Spec => []CloseOnlyOwned
<1>1. FdInv => CloseOnlyOwned
  BY DEF FdInv, FK, P, CloseOnlyOwned
<1>2. QED
  BY <1>1, FdInvInductive, PTL DEF Spec

====
