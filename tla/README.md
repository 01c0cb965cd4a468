# TLA+ models of systemd-netlogd

systemd-netlogd forwards the systemd journal to a remote syslog collector
over UDP, TCP, DTLS or TLS. It formats each record as RFC 5424 or RFC 3339 and
persists the journal cursor, so that a restart resumes where it left off. This
directory holds TLA+ models of its forwarding engine, TLC configurations that
model-check them, and TLAPS proofs about them.

## 1. The system (inventory)

| Part | Source | State | Operations | Interacts with |
|---|---|---|---|---|
| Plain transport | `src/src/netlog/netlog-network.c` | `m->socket`, `m->connected` | `manager_open_network_socket`, `manager_network_connect_socket`, `manager_close_network_socket`, `sendmsg_loop`, `network_send` | the kernel descriptor table; `protocol_send` |
| DTLS transport | `src/src/netlog/netlog-dtls.c` | `DTLSManager{fd, ssl, bio, ctx, connected, events}` | `dtls_manager_init`, `dtls_connect`, `dtls_write`, `dtls_stream_writev`, `dtls_disconnect`, `dtls_manager_free` | OpenSSL; the descriptor table |
| Send path and formatter | `netlog-network.c` | none (pure, then `protocol_send`) | `manager_push_to_network`, `format_rfc5424`, `format_rfc3339`, `format_rfc3339_timestamp`, `protocol_send` | calls `manager_connect` on error |
| Manager, journal pump and cursor | `netlog-manager.h` (struct); `netlog-manager.c` is **not in the repository** | cursor, state file, retry timer, resolver, rate limit | connect/disconnect, journal handler, flush, retry, SIGTERM | everything above |
| TLS transport | `netlog-tls.c`, **not in the repository** | TLSManager | `tls_connect`, `tls_stream_writev` | `protocol_send` |
| Network monitor | `src/src/share/sd-network.c` | inotify fd and its watches | `sd_network_monitor_new`, `monitor_add_inotify_watch`, `sd_network_monitor_flush` | the manager's network-change handler |
| Address utilities | `src/src/share/in-addr-util.c` | none | prefix next/intersect, netmask, prefix length | configuration |
| Random numbers | `src/src/share/random-util.c` | static `have_syscall` probe | `dev_urandom`, `random_bytes` | not on the send path |
| Headers | `string-table.h`, `utf8.h`, `virt.h` | none | lookup macros | not on the send path |

Everything runs on one sd-event loop thread. A handler therefore runs to
completion, and the concurrency that matters is the order in which handlers
run: journal events, the retry timer, the cursor flush, SIGTERM and crashes.
Inside a handler, the hard behaviours are these:
- error returns part-way through a C function (descriptor, SSL object and BIO ownership);
- writes that succeed partly or would block;
- the interplay between "success" returned to the journal handler and the persisted cursor.

The properties that make the engine correct:
- a persisted cursor never passes an undelivered record (spec 3, invariant 2);
- connected implies a live transport (invariant 4);
- every descriptor has one owner, with no leaks and no closes of descriptors the manager does not own (8.3);
- each record reaches the collector as exactly one parseable message (formatter section).

## 2. Modules

| Module | Models | Kind |
|---|---|---|
| `NetlogManager` | plain transport, DTLS transport, send path, connection manager, journal pump, cursor flush, crash/restart | state machine |
| `MCNetlogManager` | small constants for `NetlogManager` | TLC instance |
| `NetlogManagerProofs` | TLAPS proofs about `NetlogManager` | proofs |
| `NetlogFdProofs` | TLAPS proofs of descriptor ownership over UDP and TCP | proofs |
| `NetlogFormat` | `format_rfc5424`, `format_rfc3339`, `format_rfc3339_timestamp`, and a collector that frames and parses | state machine + reference parser |
| `MCNetlogFormat` | small constants for `NetlogFormat` | TLC instance |
| `CursorTracker` | what the forwarder promises about the cursor, without transports; with its own proofs | abstract specification |
| `NetworkMonitor` | `sd-network.c`: `sd_network_monitor_new`, `monitor_add_inotify_watch`, `sd_network_monitor_flush`, against networkd | two interleaved processes |
| `MCNetworkMonitor` | the initial directory sets for `NetworkMonitor` | TLC instance |
| `NetworkMonitorProofs` | TLAPS proofs of `TypeOK`, `NeverDeafUnlessStray` and `FlushSucceedsUnlessStray` for `NetworkMonitor` | proofs |
| `InAddr` | `in-addr-util.c`: prefix intersect, prefix next, prefixlen to netmask, mask | operators + reference definitions |
| `MCInAddr` | address and prefix-length sets for `InAddr` | TLC instance |

### NetlogManager

Each C function is an operator from a process state
`p = [m |-> Manager fields, k |-> descriptor table]` to `[st |-> p', r |-> return code]`. A
handler composes these operators in the order the code calls them, so a handler is one atomic
step, as it is on the event loop.

The variables:
- `m` holds the `struct Manager` fields the send path uses: `socket`, `connected`, `dtls` (`fd`, `ssl`, `connected`) and `event_retry`.
- `k` is the kernel table: `open`, `owned` (the descriptors the manager opened and has not closed), and the ghost flags `badClose`, `doubleFree` and `ctxLeak` (an `SSL_CTX` became unreachable without `SSL_CTX_free`).
- `m.dtls.ctx` says whether `m->ctx` holds a context.
- `cursor` and `persisted` are the journal cursor and the state file.
- `written` is a ghost variable: the records a transport write accepted whole.
- `restarts` counts restarts.

Code-to-definition correspondence:
- `socket()` is `LowestFree` + `OpenFd` (lowest free descriptor, or -1 when the table is full).
- `safe_close` is `SafeClose`.
- `manager_open_network_socket` (with `manager_network_connect_socket`) is `OpenNetworkSocket`.
- `manager_close_network_socket` is `CloseNetworkSocket`.
- `dtls_manager_init` is `DtlsInit`. `new0` zero-fills the struct, so `fd = 0`.
- `dtls_connect` is `DtlsConnect`. It has every error return, the AF_INET socket, and the BIO owned by the SSL object after `SSL_set_bio`.
- `dtls_disconnect` is `DtlsDisconnect`.
- `sendmsg_loop`/`dtls_write` become the outcome sets `WriteOutcomes` and `WriteResult`.
- `protocol_send` is `ProtocolSend`.
- `manager_push_to_network` is `PushToNetwork`.

From the specification, because `netlog-manager.c` is absent:
- `ManagerConnect` and `ManagerDisconnect`;
- `ForwardRecord`, the journal handler: the cursor advances when the push returns 0;
- `RetryConnect`;
- `FlushCursor`, an atomic state-file replace;
- `Crash`, a restart from the state file;
- `Terminate`, SIGTERM: flush, disconnect, restart.
- `HandleRecord` is the body of the journal handler for given outcomes. `ForwardRecord` takes any
  outcome. `DeliverRecord` is the same handler when every connect and write succeeds: the step
  that fairness is put on.

`NetlogManager` instantiates `CursorTracker` with `delivered <- written` as `Tracker`, and
`TrackerSpec == Tracker!Spec` is checked as a property (run netlog_udp) and proved
(`UdpRefinesTracker`). Under this mapping a journal handler that returns 0 is a `Send`, one
that fails is a stutter, and the flush, crash and SIGTERM are `Flush`, `Restart` and `Shutdown`.

### CursorTracker

Variables `cursor`, `persisted`, `delivered` and `restarts`; actions `Send`, `Flush`,
`Restart` and `Shutdown`. It states the spec's cursor rules (3, invariant 2; 8.1; 8.2) with
no error paths. Every transport that satisfies it delivers at least once.

### NetworkMonitor

Two processes interleave at system-call granularity. netlogd runs the monitor on its event loop,
and networkd (with other units) creates directories and files.
- `dirs` holds which of `netif/` and `links/` exist. `/run/systemd/` always exists.
- `watches` holds the watched directories. One watch per inode, so a directory names its
  descriptor, and adding a watch on a watched inode returns the same descriptor.
- `queue` is the kernel's event queue. `buf` holds what the last `read()` returned.
- `pc` is the monitor's next system call: `add_links`, `add_netif` and `add_run` are the three
  `inotify_add_watch` calls of `monitor_add_inotify_watch`. `idle` waits for the fd. `flush` takes
  the next event of the buffer. `rm` is `inotify_rm_watch(e->wd)`.
- `ctx` says whether the chain was called from `sd_network_monitor_new` (`new`) or from the
  flush, and so where it returns to.
- `flushErr` is a ghost: a flush returned an error and dropped the rest of its buffer.
- `stray` is a ghost: an unrelated directory was created in a watched directory, so its
  `IN_CREATE|IN_ISDIR` event was queued. Unrelated files, and directories created where
  nobody watches, leave it unset.

`Read` takes a nonempty prefix of the queue, since a read returns at least one whole event.
`NextEvent` re-runs the chain on `IN_ISDIR` and skips other events. `RemoveWatch` has the
EINVAL path. `MkdirNetif`, `MkdirLinks`, `CreateOther` and `LinkChange` are the other
processes, bounded by `MaxOther` and `MaxLinkChanges`.

### InAddr

An IPv4 address is a `W`-bit integer (`W = 16` for TLC; the code has 32). An IPv6 address is a
function from `1..NB` to bytes (`NB = 2`; the code has 16). The operators follow the C:
- `PrefixIntersect4` has the `m == 0` special case and the unclamped shift. When `m > W`, the
  shift is undefined, and the result is any Boolean unless the addresses are equal.
- `PrefixIntersect6` is the byte loop with `ByteBits`.
- `PrefixNext4` has the clamp, the wrap check `n < c` modulo `2^W` and the host-bit mask.
- `PrefixNext6` is `AddBit6` plus the byte-wise carry `Carry6`.
- `PrefixlenToNetmask` and `Mask4`/`Mask6` are `in_addr_mask`. A failed assertion sets `aborted`.

The state is the caller's `union in_addr_union` (`u`), its family and prefix length. The ghosts
`prev` and `last` hold the previous address and the last call. `Load` is any configured
address. The reference definitions `NetNo` and `InNet` give network numbers by integer
division. The properties compare each call with them.

### NetlogFormat

A formatted message is the iovec list handed to `protocol_send`. The model keeps it as a
sequence of tokens: string atoms, a priority header `<%i>%i ` holding the `uint8_t makepri`,
and a timestamp header, which carries a fraction only when `tv` is given. Strings are model
atoms, never spelt out.

- `PushToNetwork(rec)` formats a record in the configured layout and appends it.
- `OpenNetworkSocket` starts a new connection, and so a new stream.

The collector takes one datagram per message on UDP/DTLS. On TCP/TLS it splits the stream at
NL (`Lines`, a RECURSIVE operator: this module has no theorems). It then parses fields by
position (`Parse`). `Expected` states what the spec says should be recovered:
- the facility and severity;
- the NIL value `-` for missing fields;
- the configured structured data before the record's;
- the message.

## 3. Runs

| Run | Config | Checks | Shows |
|---|---|---|---|
| netlog_udp | `MCNetlogUdp.cfg` | TypeOK, CursorBehindWritten, NoFdLeak, CloseOnlyOwned, ReadyHasTransport, TrackerSpec, AllDelivered | the UDP path is correct across write errors, reconnects, crashes and SIGTERM, refines `CursorTracker`, and delivers every record when the collector is reachable |
| format_udp_rfc5424 | `MCFormatUdp.cfg` | TypeOK, RecordsRecovered | RFC 5424 datagrams parse back to their records |
| format_tcp_rfc3339 | `MCFormatTcp.cfg` | RecordsRecovered | the TCP newline frames single-line RFC 3339 messages |
| dtls_wouldblock_cursor | `MCNetlogDtlsWouldBlock.cfg` | CursorBehindWritten (violated) | -EAGAIN / ZERO_RETURN count as sent |
| tcp_short_write_cursor | `MCNetlogTcpShortWrite.cfg` | CursorBehindWritten (violated) | a short TCP write counts as sent |
| dtls_stdin_close | `MCNetlogDtlsStdin.cfg` | CloseOnlyOwned (violated) | the first DTLS reconnect closes fd 0 |
| dtls_bio_double_free | `MCNetlogDtlsDoubleFree.cfg` | NoDoubleFree (violated) | a failed `SSL_connect` frees the BIO twice |
| dtls_inet6_liveness | `MCNetlogDtlsInet6Live.cfg` | AllDelivered (violated) | DTLS never delivers to an IPv6 collector (`AF_INET` socket) |
| monitor_boot | `MCMonitorBoot.cfg` | TypeOK, NeverDeafUnlessStray, FlushSucceedsUnlessStray | started before networkd, with unrelated files and directories appearing, the monitor climbs the fallback chain; until an unrelated directory appears in a watched directory it always holds a watch and no `inotify_rm_watch` of a flush fails |
| monitor_race | `MCMonitorRace.cfg` | LinksEventuallyWatched (violated) | networkd creates netif/ and links/ between the ENOENT for links/ and the watch on netif/; links/ is never watched (sd-network.c:268) |
| monitor_deaf | `MCMonitorDeaf.cfg` | NeverDeaf (violated) | a new directory in netif/ makes the flush remove the netif/ watch it just re-added |
| inaddr_pool | `MCInAddr.cfg` | TypeOK, NextSubnet, IntersectSound, MaskNoAbort | the address operators agree with the reference for lengths within the width |

The violated properties are left out of the passing runs on purpose. Each one has a violation
run of its own, and PROJECT.json lists the findings with their source lines.

TCP and DTLS have no passing run of their own. For every protocol, `TypeOK`,
`ReadyHasTransport` are proved (section 4). For TCP, `NoFdLeak` and
`CloseOnlyOwned` are proved as well. TCP's other differences from UDP are the
short write and the -EAGAIN path, each with a violation run.

Further configurations reproduce the other violations the models show. Each one runs with
`tlc -config X.cfg MCNetlogManager` (or the module named below):

| Config | Module | Violates | What the code does |
|---|---|---|---|
| `MCNetlogDtlsFdLeak.cfg` | MCNetlogManager | NoFdLeak | `dtls_connect` returns on an error without closing its socket (netlog-dtls.c:103) |
| `MCNetlogDtlsCtxLeak.cfg` | MCNetlogManager | NoCtxLeak | `dtls_connect` drops its `SSL_CTX` on an error return and overwrites `m->ctx` on a reconnect (netlog-dtls.c:105, 145) |
| `MCFormatTls.cfg` | MCNetlogFormat | RecordsRecovered | no newline separator over TLS (netlog-network.c:215) |
| `MCFormatTcpMultiLine.cfg` | MCNetlogFormat | RecordsRecovered | a message with a line feed becomes two messages over TCP |
| `MCMonitorFlushErr.cfg` | MCNetworkMonitor | FlushSucceeds | two directory events of one watch in one read: the second `inotify_rm_watch` is EINVAL (sd-network.c:345) |
| `MCInAddrIntersectLong.cfg` | MCInAddr | IntersectSound | an IPv4 prefix length above 32 shifts by a wrapped amount (in-addr-util.c:101) |
| `MCInAddrMaskLong.cfg` | MCInAddr | MaskNoAbort | `in_addr_mask` aborts in the assertion of `in_addr_prefixlen_to_netmask` (in-addr-util.c:349) |

Bounds for `NetlogManager`:
- 4 journal records;
- descriptors 0..3, with stdin at 0;
- 2 restarts.

Three descriptors are enough for two connect attempts to leak and for `socket()` to fail with
a full table. Four records with two restarts let a record be skipped, flushed and then
re-read after a crash.

`NetlogFormat` uses:
- one string atom;
- severities {0, 7} and facilities {1, 23}, both ends of the ranges;
- 2 messages per connection.

Two messages are the fewest for which frames can merge or split.

`NetworkMonitor` starts from no directories, so that the whole fallback chain is climbed.
`monitor_boot` allows 2 unrelated entries and 2 link changes. Two entries let an unrelated file
and an unrelated directory (watched or not) both appear. One unrelated directory is the fewest
that makes the monitor deaf, and two events in one read are the fewest for the EINVAL. The
race run needs no unrelated entry.

`InAddr` uses the following:
- IPv4 width 16, with addresses 0, 1, the top address 2^16-1 and three in between;
- prefix lengths {0, 1, 8, 15, 16}, which are both ends and a byte boundary;
- two-byte IPv6 addresses over bytes {0, 127, 128, 255};
- lengths {0, 1, 7, 8, 9, 16, 17}, which cross the byte boundary and exceed the width;
- up to 3 prefix_next calls per address.

The 32-bit behaviour scales with `W`: the wrap check, the mask and the shift depend on `W`
only through `2^W`. So the edge cases are at `2^16-1` and at length 16.

Fairness:
- `NetworkMonitor` assumes weak fairness of the monitor's steps (`WF_vars(Monitor)`). The event
  loop dispatches the readable inotify fd, and each call runs to completion. The other
  processes get no fairness.
- `NetlogManager`'s `FairSpec` assumes `WF_vars(DeliverRecord)`. This is an environment
  assumption: if the collector is reachable and descriptors are free, a journal event is
  eventually handled with every connect and write succeeding. The retry timer and the journal
  event source re-arm until then. Crashes and SIGTERM get no fairness, and are bounded by
  `MaxRestart`.

The other properties are safety properties and need no fairness.

Every property of a passing run has a mutant in PROJECT.json. Each mutant is a plausible bug
in the mapped code, such as a dropped `safe_close`, an uncleared flag, a swallowed error, a
wrong shift or NULL printed as empty, and TLC finds each one.

## 4. Proofs

### `NetlogManagerProofs`

- `TypeCorrect`: `Spec => []TypeOK` for every value of the constants, under
  `ConstantsAssumption`.
  - It rests on one typing lemma per C operator (`LowestFreeType`, `OpenFdType`, ...,
    `PushToNetworkType`).
  - `TypeInit` and `TypeStep` are the initial and inductive steps.
  - `LowestFree` is written with a guarded CHOOSE, so no induction on the minimum is needed.
- `UdpCursorBehindWritten`: for UDP, `Spec => []CursorBehindWritten`.
  - The invariant alone is not inductive: a flush copies `cursor` into `persisted`.
  - The strengthening `CursorInv` adds `\A i \in 1..cursor : i \in written` and TypeOK.
  - The lemma `UdpPushSent` shows that over UDP a push that returns 0 wrote the record whole.
  - A crash resets `cursor` to `persisted`, which keeps the strengthened invariant.

- `ReadyHasTransportHolds`: `Spec => []ReadyHasTransport` for every protocol.
  - The strengthening `ReadyInv` adds TypeOK and a separation between the protocols.
    With DTLS the plain socket stays -1 and unconnected. With UDP or TCP the DTLS manager never
    connects.
  - The separation is needed because `manager_close_network_socket` and `dtls_disconnect`
    each close one descriptor. Without it, closing one transport's descriptor could remove the
    other transport's descriptor from the owned set.
  - There is one lemma per C function (`CloseNetworkSocketReady` ... `PushToNetworkReady`).
    Each shows that the function preserves `ReadyK`, and what it leaves disconnected.

- `UdpRefinesTracker`: for UDP, `Spec => TrackerSpec`.
  - `Init` maps to `Tracker!Init`.
  - For `ForwardRecord`, the proof picks the outcomes. A return of 0 is a `Send`, because of
    `UdpPushSent` and `PushSentOk` (`sent` implies return 0). Any other return leaves `cursor`
    and `written` alone, which is a stutter.
  - `RetryConnect` stutters. `FlushCursor`, `Crash` and `Terminate` are `Flush`, `Restart` and
    `Shutdown`.
  - The theorem needs no invariant, because each step maps on its own.


### `NetlogFdProofs` (descriptor ownership, UDP and TCP)

- `PlainNoFdLeak`: `Spec => []NoFdLeak` under the hypothesis `Protocol \in {"udp", "tcp"}`.
- `PlainCloseOnlyOwned`: `Spec => []CloseOnlyOwned` under the same hypothesis.
- With DTLS both properties are false, and TLC shows it: run `dtls_stdin_close` and
  `MCNetlogDtlsFdLeak.cfg`. The hypothesis therefore names the transports for which they hold.
- Both rest on the inductive invariant `FdInv`: TypeOK and `FK(P)`.
  - `FK` says the owned set is exactly `{m.socket}`, or `{}` when the socket is -1, and that no
    bad close has happened.
  - `NoFdLeak` alone, an inclusion, is not inductive. A close removes `m.socket` from the owned
    set, and the proof must know that no other descriptor is left behind for the next
    `OpenNetworkSocket` to pile onto. The equality gives that.
- The lemmas follow the C call chain:
  - `CloseNetworkSocketFd`: the close leaves nothing owned.
  - `OpenNetworkSocketFd`: from an empty table, the new socket is owned on success, and the
    `fail:` label closes it again.
  - `ManagerConnectFd`: the disconnect comes first, so the open starts empty.
  - `PushToNetworkFd`: covers the connect on demand and the reconnect after a write error.
- `FdInvInductive` has one case per action. A crash and SIGTERM reset the owned set to `{}`.

### `NetworkMonitorProofs`

- `TypeCorrect`: `Spec => []TypeOK` for every initial directory set and bound, under
  `MonitorAssumption`.
  - In particular `monitor_add_inotify_watch` only watches a directory that exists, and links/
    never exists without netif/.
  - The sequence lemmas `AppendEvent`, `SubSeqEvent` and `TailEvent` cover what `Read`,
    `NextEvent` and the kernel's queueing do to the event sequences. They are proved directly,
    because `SequenceTheorems` reaches a RECURSIVE operator through `Functions` and `Folds`.
- `NeverDeafHolds`: `Spec => []NeverDeafUnlessStray`, for every bound and with no hypothesis
  on the constants. The monitor is never deaf until an unrelated directory is created in a
  watched directory.
  - This is the property `monitor_boot` checks. It characterises the cause of the deafness
    that `monitor_deaf` shows: unrelated files, directories created where nobody watches, and
    any interleaving of networkd's mkdirs with netlogd's reads cannot cause it.
  - The inductive invariant is `StrayOrDeaf`, that is `stray \/ DeafInv`. `stray` is never
    reset (`StrayStays`), and every step that leaves it unset keeps `DeafInv` (`DeafStep`).
  - `DeafInv` and `stray \/ DeafInv` were checked by TLC on all three initial directory sets
    before they were proved. `DeafInv` says:
    - every directory event queued or read names the parent of a directory that exists
      (`DirEventsOK`, `ChildIn`);
    - the re-arming chain of a flush starts from such an event and never reaches the
      /run/systemd/ fallback;
    - at `inotify_rm_watch` the monitor holds a watch other than the one it removes.
  - `NeverDeaf` alone is not inductive. It says nothing about the state between the add and
    the remove, and nothing about which events can reach the flush.
- `FlushSucceedsHolds`: `Spec => []FlushSucceedsUnlessStray`, for every bound. No flush fails
  until an unrelated directory is created in a watched directory. After one, a flush can fail
  (`MCMonitorFlushErr.cfg`).
  - The inductive invariant is `StrayOrFlush`, that is `stray \/ FlushInv`. `FlushInv` extends
    `DeafInv`. Both forms were checked by TLC on all three initial directory sets, with two
    unrelated entries, before they were proved. `FlushInv` says:
    - every directory event queued or read comes from a watch the monitor holds
      (`WatchedEvents`);
    - no watch has two directory events, in the queue, in the buffer, or one in each
      (`DistinctDirEvents`, `CrossFree`). Only the creation of netif/ under /run/systemd/ and
      of links/ under netif/ raise one, and each happens once;
    - while the chain re-arms for an event, its watch `e->wd` is held and has no other
      directory event pending.
  - So the `inotify_rm_watch(e->wd)` at sd-network.c:345 always finds its watch.
  - `FlushSucceeds` alone is not inductive: it holds in a state where two events of one
    watch are already queued, and the second removal would fail.
  - The lemmas `PendingSubSeq`, `PendingTail`, `PendingRemove`, `MkdirPending` and
    `FilePending` give what a read, taking one event, removing a watch, a mkdir and a link
    state change or an unrelated file do to these facts.

### `CursorTracker`

This module has no assumptions on the constants.
- `PersistedDeliveredHolds` proves `Spec => []PersistedDelivered`.
- `PersistedMonotoneHolds` proves `Spec => PersistedMonotone`.
- Both rest on the inductive invariant `Inv`: `persisted <= cursor` and every record up to
  `cursor` delivered. `PersistedDelivered` alone is not inductive, because a flush copies
  `cursor`, which must itself be covered by `delivered`.

Only TLC checks the rest:
- the other invariants and the TCP/DTLS configurations;
- the whole formatter, because `NetlogFormat` uses a RECURSIVE operator;
- `NeverDeaf` and `FlushSucceeds` without the `stray` condition: they are false, and
  `monitor_deaf` and `MCMonitorFlushErr.cfg` show it;
- `InAddr`. Its properties are about what the functions compute for every input, with powers
  `2^k` of a symbolic exponent. The SMT backend only evaluates constant powers: even
  `\A n \in Nat : 2^n > 0` is not proved. The facts it would need take induction over data,
  which the provers cannot instantiate.
- `NoFdLeak` and `CloseOnlyOwned` for DTLS, and `CursorBehindWritten` and `TrackerSpec` for TCP
  and DTLS. These are false there, and the violation runs show it.

Liveness (`AllDelivered`) is out of the prover's reach in any case. `LinksEventuallyWatched` is
false (run `monitor_race`).

## 5. Not modelled

- **Components from the specification:** the TLS transport, the retry backoff, the rate
  limiter and the asynchronous resolver. `netlog-manager.c` and `netlog-tls.c` are not in the
  repository.
- **`sd-network.c` readers:** `sd_network_get_*`, `sd_network_link_get_*`, and the monitor's
  fd/events/timeout getters. They read state files and change no state.
  `sd_network_monitor_unref` only closes the fd.
- **`in-addr-util.c`:** several functions are left out.
  - The predicates and the string conversions are pure. Their data would have to be spelt
    out character by character.
  - `in_addr_netmask_to_prefixlen` relies on `u32ctz`, which is outside the repository.
  - `in_addr_default_prefixlen` and `in_addr_default_subnet_mask` need classful lengths up
    to 24, which a 16-bit width cannot hold.
- **`random-util.c`** and the header-only parts carry no state on the forwarding path.
