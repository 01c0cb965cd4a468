------------------------ MODULE NetlogManagerProofs ------------------------
(***************************************************************************)
(* Proofs about NetlogManager for every value of its constants: the type   *)
(* invariant; that with UDP the persisted cursor never names a record the  *)
(* transport did not take whole; and that for every protocol a connected  *)
(* flag implies a held descriptor.                                         *)
(***************************************************************************)
EXTENDS NetlogManager, TLAPS

\* The type of the process state P the C-function operators act on.
PType == [m : ManagerType, k : KernelType]

-----------------------------------------------------------------------------
(* Every C-function operator maps a well-typed state to a well-typed one.  *)

LEMMA LowestFreeType ==
    ASSUME NEW open \in SUBSET Fds
    PROVE  LowestFree(open) \in FdVal
BY DEF LowestFree, FdVal

LEMMA OpenFdType ==
    ASSUME NEW p \in PType, NEW fd \in Fds
    PROVE  OpenFd(p, fd) \in PType
BY DEF OpenFd, PType, KernelType

LEMMA SafeCloseType ==
    ASSUME NEW p \in PType, NEW fd \in FdVal
    PROVE  SafeClose(p, fd) \in PType
BY DEF SafeClose, PType, KernelType, FdVal

LEMMA CloseNetworkSocketType ==
    ASSUME NEW p \in PType
    PROVE  CloseNetworkSocket(p) \in PType
<1>1. SafeClose(p, p.m.socket) \in PType
  BY SafeCloseType DEF PType, ManagerType
<1>2. QED
  BY <1>1 DEF CloseNetworkSocket, PType, ManagerType, FdVal, NoFd

LEMMA OpenNetworkSocketType ==
    ASSUME NEW p \in PType, NEW ok \in BOOLEAN
    PROVE  /\ OpenNetworkSocket(p, ok).st \in PType
           /\ OpenNetworkSocket(p, ok).r \in {"ok", "error"}
<1> DEFINE fd == LowestFree(p.k.open)
           q  == [OpenFd(p, fd) EXCEPT !.m.socket = fd]
<1>1. fd \in FdVal
  BY LowestFreeType DEF PType, KernelType
<1>2. CASE fd = NoFd
  BY <1>2 DEF OpenNetworkSocket, PType, ManagerType, FdVal
<1>3. CASE fd # NoFd
  <2>1. fd \in Fds
    BY <1>1, <1>3 DEF FdVal
  <2>2. q \in PType
    BY <2>1, OpenFdType DEF PType, ManagerType, FdVal
  <2>3. [q EXCEPT !.m.connected = TRUE] \in PType
    BY <2>2 DEF PType, ManagerType
  <2>4. [SafeClose(q, fd) EXCEPT !.m.socket = NoFd] \in PType
    BY <2>1, <2>2, SafeCloseType DEF PType, ManagerType, FdVal
  <2>5. QED
    BY <1>3, <2>3, <2>4 DEF OpenNetworkSocket
<1>4. QED
  BY <1>2, <1>3

LEMMA DtlsDisconnectType ==
    ASSUME NEW p \in PType
    PROVE  DtlsDisconnect(p) \in PType
<1>1. SafeClose(p, p.m.dtls.fd) \in PType
  BY SafeCloseType DEF PType, ManagerType, DtlsType
<1>2. QED
  BY <1>1 DEF DtlsDisconnect, PType, ManagerType, DtlsType, FdVal, NoFd

LEMMA DtlsConnectType ==
    ASSUME NEW p \in PType, NEW o
    PROVE  /\ DtlsConnect(p, o).st \in PType
           /\ DtlsConnect(p, o).r \in {"ok", "error"}
<1> DEFINE fd == LowestFree(p.k.open)
           q  == OpenFd(p, fd)
<1>1. fd \in FdVal
  BY LowestFreeType DEF PType, KernelType
<1>2. CASE fd = NoFd
  BY <1>2 DEF DtlsConnect
<1>3. CASE fd # NoFd
  <2>1. fd \in Fds
    BY <1>1, <1>3 DEF FdVal
  <2>2. q \in PType
    BY <2>1, OpenFdType
  <2>3. [q EXCEPT !.m.dtls = [fd |-> fd, ssl |-> TRUE, connected |-> TRUE,
                               ctx |-> TRUE],
                  !.k.ctxLeak = @ \/ p.m.dtls.ctx] \in PType
    BY <2>1, <2>2 DEF PType, ManagerType, DtlsType, KernelType, FdVal
  <2>4. [q EXCEPT !.k.ctxLeak = TRUE] \in PType
    BY <2>2 DEF PType, KernelType
  <2>5. [q EXCEPT !.k.doubleFree = TRUE, !.k.ctxLeak = TRUE] \in PType
    BY <2>2 DEF PType, KernelType
  <2>6. QED
    BY <1>3, <2>2, <2>3, <2>4, <2>5 DEF DtlsConnect
<1>4. QED
  BY <1>2, <1>3

LEMMA ManagerDisconnectType ==
    ASSUME NEW p \in PType
    PROVE  ManagerDisconnect(p) \in PType
BY CloseNetworkSocketType, DtlsDisconnectType DEF ManagerDisconnect

LEMMA ManagerConnectType ==
    ASSUME NEW p \in PType, NEW o
    PROVE  /\ ManagerConnect(p, o).st \in PType
           /\ ManagerConnect(p, o).r \in {"ok", "error"}
<1> DEFINE q == ManagerDisconnect(p)
           c == IF Protocol = "dtls" THEN DtlsConnect(q, o)
                ELSE OpenNetworkSocket(q, o = "ok")
<1>1. q \in PType
  BY ManagerDisconnectType
<1>2. c.st \in PType /\ c.r \in {"ok", "error"}
  BY <1>1, DtlsConnectType, OpenNetworkSocketType
<1>3. [c.st EXCEPT !.m.event_retry = (c.r # "ok")] \in PType
  BY <1>2 DEF PType, ManagerType
<1>4. QED
  BY <1>2, <1>3 DEF ManagerConnect

LEMMA PushToNetworkType ==
    ASSUME NEW p \in PType, NEW o1, NEW w, NEW o2
    PROVE  PushToNetwork(p, o1, w, o2).st \in PType
<1> DEFINE c == IF IsConnected(p) THEN [st |-> p, r |-> "ok"]
                ELSE ManagerConnect(p, o1)
<1>1. c.st \in PType
  BY ManagerConnectType
<1>2. ProtocolSend(c.st, w, o2).st \in PType
  BY <1>1, ManagerConnectType DEF ProtocolSend
<1>3. QED
  BY <1>1, <1>2 DEF PushToNetwork

-----------------------------------------------------------------------------
(* Type correctness.                                                       *)

\* A freshly started service is well typed.
LEMMA TypeInit == Init => TypeOK
BY ConstantsAssumption
   DEF Init, TypeOK, ManagerInit, KernelInit, ManagerType, KernelType,
       DtlsType, DtlsInit, FdVal, Fds, NoFd, StdinFd

\* Every handler keeps the state well typed.
LEMMA TypeStep == TypeOK /\ [Next]_vars => TypeOK'
<1> SUFFICES ASSUME TypeOK, [Next]_vars PROVE TypeOK'
  OBVIOUS
<1> USE ConstantsAssumption
<1>0. P \in PType
  BY DEF TypeOK, P, PType
<1>1. CASE ForwardRecord
  <2>1. PICK o1 \in ConnectOutcomes, w \in WriteOutcomes,
             o2 \in ConnectOutcomes :
          LET res == PushToNetwork(P, o1, w, o2)
          IN  /\ SetP(res.st)
              /\ written' = IF res.sent THEN written \cup {cursor + 1}
                            ELSE written
              /\ cursor' = IF res.r = "ok" THEN cursor + 1 ELSE cursor
              /\ UNCHANGED <<persisted, restarts>>
    BY <1>1 DEF ForwardRecord, HandleRecord
  <2> DEFINE res == PushToNetwork(P, o1, w, o2)
  <2>2. res.st \in PType
    BY <1>0, PushToNetworkType
  <2>3. m' \in ManagerType /\ k' \in KernelType
    BY <2>1, <2>2 DEF SetP, PType
  <2>4. cursor < NRec
    BY <1>1 DEF ForwardRecord
  <2>5. cursor' \in 0 .. NRec /\ written' \subseteq 1 .. NRec
    BY <2>1, <2>4 DEF TypeOK
  <2>6. persisted' = persisted /\ restarts' = restarts
    BY <2>1
  <2>7. QED
    BY <2>3, <2>5, <2>6 DEF TypeOK
<1>2. CASE RetryConnect
  <2>1. PICK o \in ConnectOutcomes : SetP(ManagerConnect(P, o).st)
    BY <1>2 DEF RetryConnect
  <2>2. ManagerConnect(P, o).st \in PType
    BY <1>0, ManagerConnectType
  <2>3. QED
    BY <1>2, <2>1, <2>2 DEF RetryConnect, SetP, TypeOK, PType
<1>3. CASE FlushCursor
  BY <1>3 DEF FlushCursor, TypeOK
<1>4. CASE Crash
  BY <1>4 DEF Crash, TypeOK, ManagerInit, ManagerType,
              KernelType, DtlsType, DtlsInit, FdVal, Fds, NoFd, StdinFd
<1>5. CASE Terminate
  <2>1. ManagerDisconnect(P) \in PType
    BY <1>0, ManagerDisconnectType
  <2>2. QED
    BY <1>5, <2>1 DEF Terminate, TypeOK, ManagerInit,
           ManagerType, KernelType, DtlsType, DtlsInit, FdVal, Fds, NoFd,
           StdinFd, PType
<1>6. CASE UNCHANGED vars
  BY <1>6 DEF vars, TypeOK
<1>7. QED
  BY <1>1, <1>2, <1>3, <1>4, <1>5, <1>6 DEF Next

\* The specification keeps every variable in its type (TypeOK).
THEOREM TypeCorrect == Spec => []TypeOK
BY TypeInit, TypeStep, PTL DEF Spec

-----------------------------------------------------------------------------
(* The cursor never runs ahead of what UDP delivered.                      *)

\* The strengthening of CursorBehindWritten: the in-memory cursor, which a
\* flush copies to the state file and a restart copies back, is itself
\* behind the records written whole.
CursorInv ==
    /\ TypeOK
    /\ \A i \in 1 .. cursor : i \in written
    /\ CursorBehindWritten

\* With UDP, manager_push_to_network() reports success only when sendmsg()
\* took the whole datagram.
LEMMA UdpPushSent ==
    ASSUME Protocol = "udp", NEW p, NEW o1, NEW w \in WriteOutcomes, NEW o2,
           PushToNetwork(p, o1, w, o2).r = "ok"
    PROVE  PushToNetwork(p, o1, w, o2).sent
<1> DEFINE c == IF IsConnected(p) THEN [st |-> p, r |-> "ok"]
                ELSE ManagerConnect(p, o1)
<1>1. w \in {"ok", "error"}
  BY DEF WriteOutcomes
<1>2. CASE w = "ok"
  BY <1>2 DEF PushToNetwork
<1>3. CASE w = "error"
  <2>1. ProtocolSend(c.st, w, o2).r = "error"
    BY <1>3 DEF ProtocolSend, WriteResult
  <2>2. QED
    BY <2>1 DEF PushToNetwork
<1>4. QED
  BY <1>1, <1>2, <1>3

\* With UDP the state file only ever names records that sendmsg() took
\* whole (CursorBehindWritten), across reconnects, crashes and restarts.
THEOREM UdpCursorBehindWritten ==
    ASSUME Protocol = "udp"
    PROVE  Spec => []CursorBehindWritten
<1> USE ConstantsAssumption
<1>1. Init => CursorInv
  BY TypeInit DEF Init, CursorInv, CursorBehindWritten
<1>2. CursorInv /\ [Next]_vars => CursorInv'
  <2> SUFFICES ASSUME CursorInv, [Next]_vars PROVE CursorInv'
    OBVIOUS
  <2>0. TypeOK'
    BY TypeStep DEF CursorInv
  <2>1. CASE ForwardRecord
    <3>1. PICK o1 \in ConnectOutcomes, w \in WriteOutcomes,
               o2 \in ConnectOutcomes :
            LET res == PushToNetwork(P, o1, w, o2)
            IN  /\ SetP(res.st)
                /\ written' = IF res.sent THEN written \cup {cursor + 1}
                              ELSE written
                /\ cursor' = IF res.r = "ok" THEN cursor + 1 ELSE cursor
      BY <2>1 DEF ForwardRecord, HandleRecord
    <3> DEFINE res == PushToNetwork(P, o1, w, o2)
    <3>2. res.r = "ok" => res.sent
      BY UdpPushSent
    <3>3. written \subseteq written'
      BY <3>1
    <3>4. \A i \in 1 .. cursor' : i \in written'
      BY <3>1, <3>2, <3>3 DEF CursorInv, TypeOK
    <3>5. CursorBehindWritten'
      BY <2>1, <3>3 DEF ForwardRecord, HandleRecord, CursorInv, CursorBehindWritten
    <3>6. QED
      BY <2>0, <3>4, <3>5 DEF CursorInv
  <2>2. CASE RetryConnect
    BY <2>0, <2>2 DEF RetryConnect, CursorInv, CursorBehindWritten
  <2>3. CASE FlushCursor
    BY <2>0, <2>3 DEF FlushCursor, CursorInv, CursorBehindWritten
  <2>4. CASE Crash
    BY <2>0, <2>4 DEF Crash, CursorInv, CursorBehindWritten
  <2>5. CASE Terminate
    BY <2>0, <2>5 DEF Terminate, CursorInv, CursorBehindWritten
  <2>6. CASE UNCHANGED vars
    BY <2>0, <2>6 DEF vars, CursorInv, CursorBehindWritten
  <2>7. QED
    BY <2>1, <2>2, <2>3, <2>4, <2>5, <2>6 DEF Next
<1>3. CursorInv => CursorBehindWritten
  BY DEF CursorInv
<1>4. QED
  BY <1>1, <1>2, <1>3, PTL DEF Spec


-----------------------------------------------------------------------------
(* Ready implies a transport, for every protocol.                          *)

\* ReadyHasTransport for a Manager mm and a descriptor table kk, with the
\* separation of the protocols it rests on: with DTLS the plain socket is
\* never opened, with UDP or TCP the DTLS manager never connects.
ReadyK(mm, kk) ==
    /\ mm.connected => mm.socket \in kk.owned
    /\ mm.dtls.connected => (mm.dtls.ssl /\ mm.dtls.fd \in kk.owned)
    /\ Protocol = "dtls" => (mm.socket = NoFd /\ ~mm.connected)
    /\ Protocol # "dtls" => ~mm.dtls.connected

\* The inductive invariant behind ReadyHasTransport.
ReadyInv == TypeOK /\ ReadyK(m, k)


\* ReadyK of a process state.
RK(p) == ReadyK(p.m, p.k)

LEMMA CloseNetworkSocketReady ==
    ASSUME NEW p \in PType, RK(p)
    PROVE  /\ RK(CloseNetworkSocket(p))
           /\ ~CloseNetworkSocket(p).m.connected
           /\ CloseNetworkSocket(p).m.dtls = p.m.dtls
<1>1. CASE Protocol = "dtls"
  <2>1. p.m.socket = NoFd
    BY <1>1 DEF RK, ReadyK
  <2>2. CloseNetworkSocket(p) = [p EXCEPT !.m.connected = FALSE, !.m.socket = NoFd]
    BY <2>1 DEF CloseNetworkSocket, SafeClose, NoFd
  <2>3. QED
    BY <1>1, <2>2 DEF RK, ReadyK, PType, ManagerType
<1>2. CASE Protocol # "dtls"
  BY <1>2 DEF RK, ReadyK, CloseNetworkSocket, SafeClose, PType, ManagerType,
              KernelType
<1>3. QED
  BY <1>1, <1>2

LEMMA DtlsDisconnectReady ==
    ASSUME NEW p \in PType, Protocol = "dtls", RK(p), ~p.m.connected
    PROVE  /\ RK(DtlsDisconnect(p))
           /\ ~DtlsDisconnect(p).m.connected
           /\ ~DtlsDisconnect(p).m.dtls.connected
BY DEF RK, ReadyK, DtlsDisconnect, SafeClose, PType, ManagerType, KernelType

LEMMA ManagerDisconnectReady ==
    ASSUME NEW p \in PType, RK(p)
    PROVE  /\ RK(ManagerDisconnect(p))
           /\ ~ManagerDisconnect(p).m.connected
           /\ ~ManagerDisconnect(p).m.dtls.connected
<1>1. CASE Protocol = "dtls"
  BY <1>1, CloseNetworkSocketReady, CloseNetworkSocketType,
     DtlsDisconnectReady DEF ManagerDisconnect
<1>2. CASE Protocol # "dtls"
  BY <1>2, CloseNetworkSocketReady DEF ManagerDisconnect, RK, ReadyK
<1>3. QED
  BY <1>1, <1>2

LEMMA OpenNetworkSocketReady ==
    ASSUME NEW p \in PType, NEW ok \in BOOLEAN, Protocol # "dtls", RK(p),
           ~p.m.connected
    PROVE  RK(OpenNetworkSocket(p, ok).st)
<1> DEFINE fd == LowestFree(p.k.open)
           q  == [OpenFd(p, fd) EXCEPT !.m.socket = fd]
<1>1. fd \in FdVal
  BY LowestFreeType DEF PType, KernelType
<1>2. CASE fd = NoFd
  BY <1>2 DEF OpenNetworkSocket, RK, ReadyK, PType, ManagerType
<1>3. CASE fd # NoFd
  <2>1. fd \in Fds
    BY <1>1, <1>3 DEF FdVal
  <2>0. OpenFd(p, fd) \in PType
    BY <2>1, OpenFdType
  <2>a. q \in PType
    BY <2>0, <2>1 DEF PType, ManagerType, FdVal
  <2>b. q.m.socket = fd /\ fd \in q.k.owned /\ q.m.dtls = p.m.dtls
        /\ ~q.m.connected /\ q.k.owned = p.k.owned \cup {fd}
    BY DEF OpenFd, PType, ManagerType, KernelType
  <2>2. q \in PType /\ q.m.socket = fd /\ fd \in q.k.owned
        /\ q.m.dtls = p.m.dtls /\ ~q.m.connected
    BY <2>a, <2>b
  <2>3. RK([q EXCEPT !.m.connected = TRUE])
    BY <2>2 DEF RK, ReadyK, PType, ManagerType
  <2>4. RK([SafeClose(q, fd) EXCEPT !.m.socket = NoFd])
    BY <2>1, <2>2 DEF RK, ReadyK, SafeClose, PType, ManagerType, KernelType
  <2>5. QED
    BY <1>3, <2>3, <2>4 DEF OpenNetworkSocket
<1>4. QED
  BY <1>2, <1>3

LEMMA DtlsConnectReady ==
    ASSUME NEW p \in PType, NEW o, Protocol = "dtls", RK(p),
           ~p.m.dtls.connected
    PROVE  RK(DtlsConnect(p, o).st)
<1> DEFINE fd == LowestFree(p.k.open)
           q  == OpenFd(p, fd)
<1>1. fd \in FdVal
  BY LowestFreeType DEF PType, KernelType
<1>2. CASE fd = NoFd
  BY <1>2 DEF DtlsConnect
<1>3. CASE fd # NoFd
  <2>1. fd \in Fds
    BY <1>1, <1>3 DEF FdVal
  <2>2. q \in PType /\ q.m = p.m /\ p.k.owned \subseteq q.k.owned
        /\ fd \in q.k.owned
    BY <2>1, OpenFdType DEF OpenFd, PType, KernelType
  <2>3. RK(q)
    BY <2>2 DEF RK, ReadyK
  <2>4. RK([q EXCEPT !.m.dtls = [fd |-> fd, ssl |-> TRUE, connected |-> TRUE,
                                  ctx |-> TRUE],
                     !.k.ctxLeak = @ \/ p.m.dtls.ctx])
    BY <2>2, <2>3 DEF RK, ReadyK, PType, ManagerType, KernelType
  <2>5. RK([q EXCEPT !.k.ctxLeak = TRUE])
    BY <2>2, <2>3 DEF RK, ReadyK, PType, KernelType
  <2>6. RK([q EXCEPT !.k.doubleFree = TRUE, !.k.ctxLeak = TRUE])
    BY <2>2, <2>3 DEF RK, ReadyK, PType, KernelType
  <2>7. QED
    BY <1>3, <2>3, <2>4, <2>5, <2>6 DEF DtlsConnect
<1>4. QED
  BY <1>2, <1>3

LEMMA ManagerConnectReady ==
    ASSUME NEW p \in PType, NEW o, RK(p)
    PROVE  RK(ManagerConnect(p, o).st)
<1> DEFINE q == ManagerDisconnect(p)
           c == IF Protocol = "dtls" THEN DtlsConnect(q, o)
                ELSE OpenNetworkSocket(q, o = "ok")
<1>1. q \in PType /\ RK(q) /\ ~q.m.connected /\ ~q.m.dtls.connected
  BY ManagerDisconnectType, ManagerDisconnectReady
<1>2. c.st \in PType /\ RK(c.st)
  BY <1>1, DtlsConnectReady, OpenNetworkSocketReady, DtlsConnectType,
     OpenNetworkSocketType
<1>3. QED
  BY <1>2 DEF ManagerConnect, RK, ReadyK, PType, ManagerType

LEMMA PushToNetworkReady ==
    ASSUME NEW p \in PType, NEW o1, NEW w, NEW o2, RK(p)
    PROVE  RK(PushToNetwork(p, o1, w, o2).st)
<1> DEFINE c == IF IsConnected(p) THEN [st |-> p, r |-> "ok"]
                ELSE ManagerConnect(p, o1)
<1>1. c.st \in PType /\ RK(c.st)
  BY ManagerConnectType, ManagerConnectReady
<1>2. RK(ProtocolSend(c.st, w, o2).st)
  BY <1>1, ManagerConnectReady DEF ProtocolSend
<1>3. QED
  BY <1>1, <1>2 DEF PushToNetwork


\* Ready implies a transport (spec 3, invariant 4), for every protocol and
\* bound: after any sequence of connects, failed connects, write errors
\* that reconnect, retries, crashes and SIGTERM, the connected flag of the
\* plain transport and of the DTLS manager is only set while their
\* descriptor is held and, for DTLS, while the session exists.
THEOREM ReadyHasTransportHolds == Spec => []ReadyHasTransport
<1> USE ConstantsAssumption
<1>1. Init => ReadyInv
  BY TypeInit DEF Init, ReadyInv, ReadyK, ManagerInit, DtlsInit
<1>2. ReadyInv /\ [Next]_vars => ReadyInv'
  <2> SUFFICES ASSUME ReadyInv, [Next]_vars PROVE ReadyInv'
    OBVIOUS
  <2>0. TypeOK'
    BY TypeStep DEF ReadyInv
  <2>p. P \in PType /\ RK(P)
    BY DEF ReadyInv, TypeOK, P, PType, RK
  <2>1. CASE ForwardRecord
    <3>1. PICK o1 \in ConnectOutcomes, w \in WriteOutcomes,
               o2 \in ConnectOutcomes : SetP(PushToNetwork(P, o1, w, o2).st)
      BY <2>1 DEF ForwardRecord, HandleRecord
    <3>2. RK(PushToNetwork(P, o1, w, o2).st)
      BY <2>p, PushToNetworkReady
    <3>3. QED
      BY <2>0, <3>1, <3>2 DEF SetP, RK, ReadyInv
  <2>2. CASE RetryConnect
    <3>1. PICK o \in ConnectOutcomes : SetP(ManagerConnect(P, o).st)
      BY <2>2 DEF RetryConnect
    <3>2. RK(ManagerConnect(P, o).st)
      BY <2>p, ManagerConnectReady
    <3>3. QED
      BY <2>0, <3>1, <3>2 DEF SetP, RK, ReadyInv
  <2>3. CASE FlushCursor
    BY <2>0, <2>3 DEF FlushCursor, ReadyInv
  <2>4. CASE Crash
    BY <2>0, <2>4 DEF Crash, ReadyInv, ReadyK, ManagerInit, DtlsInit
  <2>5. CASE Terminate
    BY <2>0, <2>5 DEF Terminate, ReadyInv, ReadyK, ManagerInit, DtlsInit
  <2>6. CASE UNCHANGED vars
    BY <2>0, <2>6 DEF vars, ReadyInv
  <2>7. QED
    BY <2>1, <2>2, <2>3, <2>4, <2>5, <2>6 DEF Next
<1>3. ReadyInv => ReadyHasTransport
  BY DEF ReadyInv, ReadyK, ReadyHasTransport
<1>4. QED
  BY <1>1, <1>2, <1>3, PTL DEF Spec

-----------------------------------------------------------------------------
(* The forwarder implements the cursor tracker over UDP.                   *)

\* manager_push_to_network() reports success whenever the record reached
\* the transport whole, whatever the protocol.
LEMMA PushSentOk ==
    ASSUME NEW p, NEW o1, NEW w, NEW o2, PushToNetwork(p, o1, w, o2).sent
    PROVE  PushToNetwork(p, o1, w, o2).r = "ok"
<1> DEFINE c == IF IsConnected(p) THEN [st |-> p, r |-> "ok"]
                ELSE ManagerConnect(p, o1)
<1>1. c.r = "ok" /\ w = "ok"
  BY DEF PushToNetwork
<1>2. ProtocolSend(c.st, w, o2).r = "ok"
  BY <1>1 DEF ProtocolSend, WriteResult
<1>3. QED
  BY <1>1, <1>2 DEF PushToNetwork

\* Over UDP every step of the forwarder is a step of the cursor tracker
\* under delivered <- written, or leaves the tracker's variables alone:
\* a journal handler run that returns success delivered its record whole
\* (UdpPushSent) and one that fails wrote nothing (PushSentOk).
THEOREM UdpRefinesTracker ==
    ASSUME Protocol = "udp"
    PROVE  Spec => TrackerSpec
<1> USE ConstantsAssumption
<1>1. Init => Tracker!Init
  BY DEF Init, Tracker!Init
<1>2. [Next]_vars => [Tracker!Next]_Tracker!vars
  <2> SUFFICES ASSUME [Next]_vars PROVE [Tracker!Next]_Tracker!vars
    OBVIOUS
  <2>1. CASE ForwardRecord
    <3>1. PICK o1 \in ConnectOutcomes, w \in WriteOutcomes,
               o2 \in ConnectOutcomes : HandleRecord(o1, w, o2)
      BY <2>1 DEF ForwardRecord
    <3> DEFINE res == PushToNetwork(P, o1, w, o2)
    <3>2. res.r = "ok" <=> res.sent
      BY UdpPushSent, PushSentOk
    <3>3. CASE res.r = "ok"
      <4>1. Tracker!Send
        BY <2>1, <3>1, <3>2, <3>3 DEF ForwardRecord, HandleRecord, Tracker!Send
      <4>2. QED
        BY <4>1 DEF Tracker!Next
    <3>4. CASE res.r # "ok"
      BY <3>1, <3>2, <3>4 DEF HandleRecord, Tracker!vars
    <3>5. QED
      BY <3>3, <3>4
  <2>2. CASE RetryConnect
    BY <2>2 DEF RetryConnect, Tracker!vars
  <2>3. CASE FlushCursor
    BY <2>3 DEF FlushCursor, Tracker!Next, Tracker!Flush
  <2>4. CASE Crash
    BY <2>4 DEF Crash, Tracker!Next, Tracker!Restart
  <2>5. CASE Terminate
    BY <2>5 DEF Terminate, Tracker!Next, Tracker!Shutdown
  <2>6. CASE UNCHANGED vars
    BY <2>6 DEF vars, Tracker!vars
  <2>7. QED
    BY <2>1, <2>2, <2>3, <2>4, <2>5, <2>6 DEF Next
<1>3. QED
  BY <1>1, <1>2, PTL DEF Spec, TrackerSpec, Tracker!Spec

=============================================================================
