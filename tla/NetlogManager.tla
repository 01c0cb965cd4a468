--------------------------- MODULE NetlogManager ---------------------------
(***************************************************************************)
(* The forwarding engine of systemd-netlogd: the Manager that reads the    *)
(* journal, hands each record to the transport of the configured protocol *)
(* and persists the journal cursor.                                        *)
(*                                                                         *)
(*  - the plain UDP/TCP transport of src/netlog/netlog-network.c           *)
(*    (manager_open_network_socket, manager_close_network_socket,          *)
(*    sendmsg_loop, protocol_send, manager_push_to_network);              *)
(*  - the DTLS transport of src/netlog/netlog-dtls.c (dtls_connect,        *)
(*    dtls_write, dtls_disconnect, dtls_manager_init);                    *)
(*  - manager_connect / manager_disconnect, the retry timer, the journal   *)
(*    pump and the cursor state file, which live in netlog-manager.c and  *)
(*    are modelled from the specification (sections 4.6 - 4.8).           *)
(*                                                                         *)
(* The engine runs on one sd-event loop thread, so every handler is one    *)
(* atomic step.  A handler calls a chain of C functions; each C function   *)
(* is an operator from a process state P = [m |-> Manager, k |-> kernel]   *)
(* to a record [st |-> P', r |-> return code], and the handler composes    *)
(* them in the order the code calls them.                                  *)
(***************************************************************************)
EXTENDS Integers, FiniteSets

CONSTANTS
    Protocol,    \* m->protocol: "udp", "tcp" or "dtls"
    Family,      \* m->address.sockaddr.sa.sa_family: "inet" or "inet6"
    NRec,        \* number of records in the journal
    MaxFd,       \* highest descriptor number the process may hold
    MaxRestart   \* how many times the service may crash or be restarted

ASSUME ConstantsAssumption ==
    /\ Protocol \in {"udp", "tcp", "dtls"}
    /\ Family \in {"inet", "inet6"}
    /\ NRec \in Nat
    /\ MaxFd \in Nat \ {0}
    /\ MaxRestart \in Nat

Fds == 0 .. MaxFd           \* descriptor numbers of the process
NoFd == -1                  \* the value safe_close() and a failed socket() give
StdinFd == 0                \* standard input: open at start, never the Manager's
FdVal == Fds \cup {NoFd}

VARIABLES
    m,          \* the fields of struct Manager the send path uses
    k,          \* the process' descriptor table, with history flags
    cursor,     \* journal position of the last record handed to the transport
    persisted,  \* the cursor stored in the state file
    written,    \* ghost: the records a transport write accepted whole
    restarts    \* how often the service has been restarted

vars == <<m, k, cursor, persisted, written, restarts>>

DtlsType == [fd : FdVal, ssl : BOOLEAN, connected : BOOLEAN, ctx : BOOLEAN]
ManagerType == [socket : FdVal, connected : BOOLEAN, dtls : DtlsType,
                event_retry : BOOLEAN]
KernelType == [open : SUBSET Fds, owned : SUBSET Fds,
               badClose : BOOLEAN, doubleFree : BOOLEAN, ctxLeak : BOOLEAN]

-----------------------------------------------------------------------------
(* The kernel.                                                             *)

\* socket(): the lowest descriptor not open, or -1 (EMFILE) when all are open.
LowestFree(open) ==
    IF \E f \in Fds \ open : \A g \in Fds \ open : f <= g
    THEN CHOOSE f \in Fds \ open : \A g \in Fds \ open : f <= g
    ELSE NoFd

\* The process opens descriptor fd; the Manager owns it from now on.
OpenFd(p, fd) ==
    [p EXCEPT !.k.open = @ \cup {fd}, !.k.owned = @ \cup {fd}]

\* safe_close(fd): closes fd when fd >= 0.  Closing a descriptor the
\* Manager does not hold (never opened, or already closed) is recorded.
SafeClose(p, fd) ==
    IF fd < 0 THEN p
    ELSE [p EXCEPT !.k.open = @ \ {fd}, !.k.owned = @ \ {fd},
                   !.k.badClose = @ \/ fd \notin p.k.owned]

-----------------------------------------------------------------------------
(* The plain transport, netlog-network.c.                                  *)

\* Mutant for ReadyHasTransport: the connected flag is not cleared.
CloseNetworkSocketKeepFlag(p) ==
    [SafeClose(p, p.m.socket) EXCEPT !.m.socket = NoFd]

\* manager_close_network_socket(): shutdown() for TCP, then close.
CloseNetworkSocket(p) ==
    LET q == SafeClose(p, p.m.socket)
    IN  [q EXCEPT !.m.connected = FALSE, !.m.socket = NoFd]

\* Mutant for NoFdLeak: the fail label does not close the socket.
OpenNetworkSocketNoClose(p, connectOk) ==
    LET fd == LowestFree(p.k.open)
        q  == [OpenFd(p, fd) EXCEPT !.m.socket = fd]
    IN  IF fd = NoFd
        THEN [st |-> [p EXCEPT !.m.socket = NoFd], r |-> "error"]
        ELSE IF connectOk
             THEN [st |-> [q EXCEPT !.m.connected = TRUE], r |-> "ok"]
             ELSE [st |-> [q EXCEPT !.m.socket = NoFd], r |-> "error"]

\* manager_open_network_socket() with manager_network_connect_socket():
\* socket() (fails when the table is full), best-effort socket options,
\* connect(); connectOk is FALSE when connect() fails with anything but
\* EINPROGRESS, and the socket is then closed (label fail).
OpenNetworkSocket(p, connectOk) ==
    LET fd == LowestFree(p.k.open)
        q  == [OpenFd(p, fd) EXCEPT !.m.socket = fd]
    IN  IF fd = NoFd
        THEN [st |-> [p EXCEPT !.m.socket = NoFd], r |-> "error"]
        ELSE IF connectOk
             THEN [st |-> [q EXCEPT !.m.connected = TRUE], r |-> "ok"]
             ELSE [st |-> [SafeClose(q, fd) EXCEPT !.m.socket = NoFd],
                   r |-> "error"]

-----------------------------------------------------------------------------
(* The DTLS transport, netlog-dtls.c.                                      *)

\* dtls_manager_init(): new0() zero-fills the DTLSManager, so fd is 0.
DtlsInit == [fd |-> 0, ssl |-> FALSE, connected |-> FALSE, ctx |-> FALSE]

\* Mutant for ReadyHasTransport: connected is not cleared.
DtlsDisconnectKeepFlag(p) ==
    LET q == SafeClose(p, p.m.dtls.fd)
    IN  [q EXCEPT !.m.dtls = [fd |-> NoFd, ssl |-> FALSE,
                              connected |-> p.m.dtls.connected,
                              ctx |-> p.m.dtls.ctx]]

\* dtls_disconnect(): SSL_shutdown() and SSL_free() the session, then
\* safe_close() the descriptor.  m->ctx is left as it is.
DtlsDisconnect(p) ==
    LET q == SafeClose(p, p.m.dtls.fd)
    IN  [q EXCEPT !.m.dtls = [fd |-> NoFd, ssl |-> FALSE, connected |-> FALSE,
                              ctx |-> p.m.dtls.ctx]]

\* dtls_connect(): socket(AF_INET, SOCK_DGRAM) into a local fd, connect(),
\* SSL_CTX_new(), SSL_new(), BIO_new_dgram(), SSL_set_bio(), SSL_connect().
\* o is how far it gets: "connect" (connect() or SSL_CTX_new() fails),
\* "alloc" (SSL_new() or BIO_new_dgram() fails), "handshake" (SSL_connect()
\* fails) or "ok".  The socket is AF_INET whatever the address, so
\* connect() fails for an inet6 address.  An early return leaves the local
\* fd open, and, once SSL_CTX_new() succeeded, the context unreferenced;
\* after SSL_set_bio() the session owns the BIO, and the cleanup handlers
\* free the session (with its BIO) and the BIO.  Success overwrites
\* m->ctx, which dtls_disconnect() never freed.
DtlsConnect(p, o) ==
    LET fd == LowestFree(p.k.open)
        q  == OpenFd(p, fd)
    IN  IF fd = NoFd THEN [st |-> p, r |-> "error"]
        ELSE CASE Family = "inet" /\ o = "ok"
                    -> [st |-> [q EXCEPT !.m.dtls = [fd |-> fd, ssl |-> TRUE,
                                                     connected |-> TRUE,
                                                     ctx |-> TRUE],
                                         !.k.ctxLeak = @ \/ p.m.dtls.ctx],
                        r |-> "ok"]
               [] Family = "inet" /\ o = "alloc"
                    -> [st |-> [q EXCEPT !.k.ctxLeak = TRUE], r |-> "error"]
               [] Family = "inet" /\ o = "handshake"
                    -> [st |-> [q EXCEPT !.k.doubleFree = TRUE,
                                         !.k.ctxLeak = TRUE],
                        r |-> "error"]
               [] OTHER
                    -> [st |-> q, r |-> "error"]

-----------------------------------------------------------------------------
(* Connection management, netlog-manager.c (from the specification).       *)

\* Mutant for CloseOnlyOwned: the DTLS manager is torn down whatever the
\* protocol.
ManagerDisconnectAll(p) ==
    DtlsDisconnect(CloseNetworkSocket(p))

\* manager_disconnect(): tear the transport of the protocol down.
ManagerDisconnect(p) ==
    IF Protocol = "dtls" THEN DtlsDisconnect(CloseNetworkSocket(p))
    ELSE CloseNetworkSocket(p)

\* manager_connect(): a fresh transport for every attempt; on failure the
\* retry timer is armed, on success it is cancelled.
ManagerConnect(p, o) ==
    LET q == ManagerDisconnect(p)
        c == IF Protocol = "dtls" THEN DtlsConnect(q, o)
             ELSE OpenNetworkSocket(q, o = "ok")
    IN  [st |-> [c.st EXCEPT !.m.event_retry = (c.r # "ok")], r |-> c.r]

-----------------------------------------------------------------------------
(* The send path, netlog-network.c.                                        *)

\* What the transport's write primitive may report.  sendmsg_loop() retries
\* EINTR and waits 200 ms on EAGAIN, so it ends in success (for TCP possibly
\* a short write of n bytes, still a success) or an error (ETIMEDOUT among
\* them).  dtls_write() maps SSL_ERROR_WANT_READ/WRITE to -EAGAIN,
\* SSL_ERROR_ZERO_RETURN to 0 and any other error to -EPIPE.
WriteOutcomes ==
    CASE Protocol = "udp" -> {"ok", "error"}
      [] Protocol = "tcp" -> {"ok", "short", "error"}
      [] OTHER            -> {"ok", "wouldblock", "closed", "error"}

ConnectOutcomes ==
    IF Protocol = "dtls" THEN {"ok", "connect", "alloc", "handshake"}
    ELSE {"ok", "error"}

\* The return value of sendmsg_loop() / dtls_write() for outcome w.
WriteResult(w) ==
    CASE w \in {"ok", "short", "closed"} -> "ok"
      [] w = "wouldblock"                -> "EAGAIN"
      [] OTHER                           -> "error"

\* Mutant for CursorBehindWritten: the error reconnects but 0 is returned.
ProtocolSendSwallow(p, w, o) ==
    IF WriteResult(w) = "error"
    THEN [st |-> ManagerConnect(p, o).st, r |-> "ok"]
    ELSE [st |-> p, r |-> "ok"]

\* protocol_send(): an error other than -EAGAIN reconnects and is returned;
\* anything else returns 0.  The three protocol branches are identical.
ProtocolSend(p, w, o) ==
    IF WriteResult(w) = "error"
    THEN [st |-> ManagerConnect(p, o).st, r |-> "error"]
    ELSE [st |-> p, r |-> "ok"]

IsConnected(p) ==
    IF Protocol = "dtls" THEN p.m.dtls.connected ELSE p.m.connected

\* manager_push_to_network(): connect when the transport is not connected,
\* then format the record (format_rfc5424 / format_rfc3339) and send it.
\* sent: the record reached the transport whole.
PushToNetwork(p, o1, w, o2) ==
    LET c == IF IsConnected(p) THEN [st |-> p, r |-> "ok"]
             ELSE ManagerConnect(p, o1)
        s == ProtocolSend(c.st, w, o2)
    IN  IF c.r # "ok" THEN [st |-> c.st, r |-> c.r, sent |-> FALSE]
        ELSE [st |-> s.st, r |-> s.r, sent |-> w = "ok"]

-----------------------------------------------------------------------------
(* The specification.                                                      *)

P == [m |-> m, k |-> k]

SetP(p) == m' = p.m /\ k' = p.k

\* A freshly started service: manager_new(), nothing open but stdin.
ManagerInit == [socket |-> NoFd, connected |-> FALSE, dtls |-> DtlsInit,
                event_retry |-> FALSE]
KernelInit == [open |-> {StdinFd}, owned |-> {}, badClose |-> FALSE,
               doubleFree |-> FALSE, ctxLeak |-> FALSE]

Init ==
    /\ m = ManagerInit
    /\ k = KernelInit
    /\ cursor = 0
    /\ persisted = 0
    /\ written = {}
    /\ restarts = 0

\* One run of the journal handler on the record after the cursor, with the
\* outcomes o1 of the connect, w of the write and o2 of the reconnect after
\* a write error: the cursor advances only when manager_push_to_network()
\* returns success.
HandleRecord(o1, w, o2) ==
    LET res == PushToNetwork(P, o1, w, o2)
    IN  /\ SetP(res.st)
        /\ written' = IF res.sent THEN written \cup {cursor + 1} ELSE written
        /\ cursor' = IF res.r = "ok" THEN cursor + 1 ELSE cursor
        /\ UNCHANGED <<persisted, restarts>>

\* Mutant for TypeOK: the handler does not stop at the end of the journal.
ForwardRecordUnbounded ==
    \E o1 \in ConnectOutcomes, w \in WriteOutcomes, o2 \in ConnectOutcomes :
        HandleRecord(o1, w, o2)

\* The journal handler runs while a record is left after the cursor, whatever
\* the connect and the write report.
ForwardRecord ==
    /\ cursor < NRec
    /\ \E o1 \in ConnectOutcomes, w \in WriteOutcomes, o2 \in ConnectOutcomes :
          HandleRecord(o1, w, o2)

\* The journal handler at a time the collector is reachable: the connect and
\* the write succeed.
DeliverRecord ==
    /\ cursor < NRec
    /\ HandleRecord("ok", "ok", "ok")

\* The retry timer fires: manager_connect() again.
RetryConnect ==
    /\ m.event_retry
    /\ \E o \in ConnectOutcomes : SetP(ManagerConnect(P, o).st)
    /\ UNCHANGED <<cursor, persisted, written, restarts>>

\* The periodic flush: the state file is replaced atomically by rename.
FlushCursor ==
    /\ persisted' = cursor
    /\ UNCHANGED <<m, k, cursor, written, restarts>>

\* Mutant for TrackerSpec: the state file is not
\* loaded on restart, and the journal is read from its start.
CrashFromStart ==
    /\ restarts < MaxRestart
    /\ m' = ManagerInit
    /\ k' = [open |-> {StdinFd}, owned |-> {}, badClose |-> k.badClose,
             doubleFree |-> k.doubleFree, ctxLeak |-> k.ctxLeak]
    /\ cursor' = 0
    /\ restarts' = restarts + 1
    /\ UNCHANGED <<persisted, written>>

\* The process dies between two handlers and is started again: the
\* journal is read again from the persisted cursor.
Crash ==
    /\ restarts < MaxRestart
    /\ m' = ManagerInit
    /\ k' = [open |-> {StdinFd}, owned |-> {}, badClose |-> k.badClose,
             doubleFree |-> k.doubleFree, ctxLeak |-> k.ctxLeak]
    /\ cursor' = persisted
    /\ restarts' = restarts + 1
    /\ UNCHANGED <<persisted, written>>

\* SIGTERM: flush the cursor, manager_free() disconnects, the process exits
\* and is started again.
Terminate ==
    /\ restarts < MaxRestart
    /\ LET q == ManagerDisconnect(P)
       IN  /\ m' = ManagerInit
           /\ k' = [open |-> {StdinFd}, owned |-> {},
                    badClose |-> q.k.badClose, doubleFree |-> q.k.doubleFree,
                    ctxLeak |-> q.k.ctxLeak]
    /\ persisted' = cursor
    /\ restarts' = restarts + 1
    /\ UNCHANGED <<cursor, written>>

Next ==
    \/ ForwardRecord
    \/ RetryConnect
    \/ FlushCursor
    \/ Crash
    \/ Terminate

Spec == Init /\ [][Next]_vars

\* The journal source stays readable while records are left, and the event
\* loop runs its handler; a collector that is reachable is, from time to
\* time, reachable when the handler runs.  Restarts are bounded, so they
\* end.
FairSpec == Spec /\ WF_vars(DeliverRecord)

\* The cursor tracker the forwarder implements: the records a transport
\* write accepted whole are the records delivered.
Tracker == INSTANCE CursorTracker WITH delivered <- written

-----------------------------------------------------------------------------
(* Properties.                                                             *)

\* Every variable keeps its type.
TypeOK ==
    /\ m \in ManagerType
    /\ k \in KernelType
    /\ cursor \in 0 .. NRec
    /\ persisted \in 0 .. NRec
    /\ written \subseteq 1 .. NRec
    /\ restarts \in 0 .. MaxRestart

\* No cursor beyond sent (spec 3, invariant 2): every record up to the
\* persisted cursor was accepted whole by a transport write, so a restart
\* never skips a record that protocol_send() did not deliver.
CursorBehindWritten ==
    \A i \in 1 .. persisted : i \in written

\* Single descriptor ownership (spec 8.3): every descriptor the Manager
\* opened and has not closed is its socket or its DTLS descriptor; a
\* failed connect attempt leaves nothing open behind.
NoFdLeak ==
    k.owned \subseteq {m.socket, m.dtls.fd}

\* Every close() of the Manager hits a descriptor it opened and still holds
\* (never stdin, never a descriptor twice).
CloseOnlyOwned ==
    ~k.badClose

\* No object is freed twice on a dtls_connect() error path.
NoDoubleFree ==
    ~k.doubleFree

\* Every SSL_CTX dtls_connect() allocates is either held in m->ctx, where
\* dtls_manager_free() frees it, or freed: reconnecting does not grow the
\* heap.
NoCtxLeak ==
    ~k.ctxLeak

\* Ready implies a transport (spec 3, invariant 4): a connected flag is
\* only set while its descriptor is open and held, and for DTLS while the
\* session exists.
ReadyHasTransport ==
    /\ m.connected => m.socket \in k.owned
    /\ m.dtls.connected => (m.dtls.ssl /\ m.dtls.fd \in k.owned)

\* The forwarder implements the cursor tracker (spec 4.6): every run of the
\* journal handler either delivers the record after the cursor whole and
\* moves the cursor past it, or moves neither; the flush, a crash and
\* SIGTERM are the tracker's flush, restart and shutdown.
TrackerSpec == Tracker!Spec

\* Every journal record is eventually delivered whole, and the cursor comes
\* to rest at the end of the journal, once the collector is reachable: no
\* sequence of failed connects, write errors, crashes and restarts leaves
\* the forwarder unable to connect (a leaked descriptor table, a socket of
\* the wrong family) or lets the cursor skip a record for good.
AllDelivered ==
    <>[](cursor = NRec /\ \A i \in 1 .. NRec : i \in written)

=============================================================================
