--------------------------- MODULE NetworkMonitor ---------------------------
(***************************************************************************)
(* The network monitor of sd-network.c: an inotify instance that watches  *)
(* /run/systemd/netif/links/ for link state files, and falls back to the  *)
(* parent directory that exists when links/ does not yet                  *)
(* (monitor_add_inotify_watch).  sd_network_monitor_flush reads events    *)
(* and, on a directory creation, re-runs the fallback chain and removes   *)
(* the watch that reported it.                                             *)
(*                                                                         *)
(* Two processes interleave at system-call granularity: netlogd, whose     *)
(* event loop runs the monitor's calls, and systemd-networkd (and other    *)
(* units), which create the directories and the files under them.  The    *)
(* kernel side is the set of watches and the queue of events.             *)
(***************************************************************************)
EXTENDS Integers, Sequences

CONSTANTS
    InitialDirs,     \* which of netif/ and links/ exist when netlogd starts
    MaxOther,        \* bound on the unrelated entries created meanwhile
    MaxLinkChanges   \* bound on the link state files written into links/

Run   == "run"       \* /run/systemd/, which always exists
Netif == "netif"     \* /run/systemd/netif/
Links == "links"     \* /run/systemd/netif/links/
Dirs  == {Run, Netif, Links}

ASSUME MonitorAssumption ==
    /\ InitialDirs \in {{}, {Netif}, {Netif, Links}}
    /\ MaxOther \in Nat /\ MaxLinkChanges \in Nat

\* An inotify event: the watch descriptor that reported it (one per watched
\* inode, so a directory names it) and whether IN_ISDIR is set.
Event == [wd : Dirs, isdir : BOOLEAN]

VARIABLES
    dirs,      \* the directories of Dirs \ {Run} that exist
    watches,   \* the directories the inotify instance holds a watch on
    queue,     \* the events the kernel has queued and nobody has read
    buf,       \* the events the last read() returned, not processed yet
    cur,       \* e->wd of the event being processed
    pc,        \* the monitor's next system call
    ctx,       \* the caller of monitor_add_inotify_watch: "new" or "flush"
    flushErr,  \* ghost: a flush returned an error and dropped its buffer
    others,    \* unrelated entries created so far
    changes,   \* link state files written so far
    stray      \* ghost: an unrelated directory was created in a watched
               \* directory, and its IN_CREATE|IN_ISDIR event queued

vars == <<dirs, watches, queue, buf, cur, pc, ctx, flushErr, others, changes, stray>>

\* The kernel queues an event for d when d is watched.  A watch on links/
\* (IN_MOVED_TO|IN_DELETE) reports files; one on netif/ or /run/systemd/
\* (IN_CREATE; IN_ISDIR is no watch flag) reports every new entry.
Notify(d, isdir) ==
    IF d \in watches THEN Append(queue, [wd |-> d, isdir |-> isdir]) ELSE queue

Exists(d) == d = Run \/ d \in dirs

\* Where monitor_add_inotify_watch returns to.
Return == IF ctx = "new" THEN "idle" ELSE "rm"

-----------------------------------------------------------------------------
(* monitor_add_inotify_watch: three inotify_add_watch calls, each one a    *)
(* step of its own.  A path that exists is watched (a second watch on the  *)
(* same inode returns the same descriptor); ENOENT falls through to the   *)
(* parent.                                                                 *)

AddWatchNoCheck(d, fallback) ==
    /\ pc' = IF Exists(d) THEN Return ELSE fallback
    /\ watches' = watches \cup {d}

AddWatch(d, fallback) ==
    /\ pc' = IF Exists(d) THEN Return ELSE fallback
    /\ watches' = IF Exists(d) THEN watches \cup {d} ELSE watches

AddLinks ==
    /\ pc = "add_links"
    /\ AddWatch(Links, "add_netif")
    /\ UNCHANGED <<dirs, queue, buf, cur, ctx, flushErr, others, changes, stray>>

AddNetif ==
    /\ pc = "add_netif"
    /\ AddWatch(Netif, "add_run")
    /\ UNCHANGED <<dirs, queue, buf, cur, ctx, flushErr, others, changes, stray>>

AddRun ==
    /\ pc = "add_run"
    /\ AddWatch(Run, "add_run")
    /\ UNCHANGED <<dirs, queue, buf, cur, ctx, flushErr, others, changes, stray>>

-----------------------------------------------------------------------------
(* sd_network_monitor_flush: read() returns at least one whole event and   *)
(* at most what is queued (the buffer holds one event of maximal size, or  *)
(* several short ones); FOREACH_INOTIFY_EVENT then processes them in       *)
(* order.  A read of an empty queue is EAGAIN and changes nothing.         *)

Read ==
    /\ pc = "idle" /\ queue # <<>>
    /\ \E n \in 1 .. Len(queue) :
          /\ buf' = SubSeq(queue, 1, n)
          /\ queue' = SubSeq(queue, n + 1, Len(queue))
    /\ pc' = "flush" /\ ctx' = "flush"
    /\ UNCHANGED <<dirs, watches, cur, flushErr, others, changes, stray>>

NextEventRmFirst ==
    /\ pc = "flush"
    /\ IF buf = <<>>
       THEN pc' = "idle" /\ UNCHANGED <<buf, cur>>
       ELSE /\ buf' = Tail(buf)
            /\ pc' = IF Head(buf).isdir THEN "rm" ELSE "flush"
            /\ cur' = IF Head(buf).isdir THEN Head(buf).wd ELSE cur
    /\ UNCHANGED <<dirs, watches, queue, ctx, flushErr, others, changes, stray>>

\* Mutant for FlushSucceedsUnlessStray: e->wd is taken once, not per event, so the
\* watch removed is the one of an earlier event.
NextEventStaleWd ==
    /\ pc = "flush"
    /\ IF buf = <<>>
       THEN pc' = "idle" /\ UNCHANGED buf
       ELSE /\ buf' = Tail(buf)
            /\ pc' = IF Head(buf).isdir THEN "add_links" ELSE "flush"
    /\ UNCHANGED <<dirs, watches, queue, cur, ctx, flushErr, others, changes, stray>>

\* The next event of the buffer: a directory event re-runs the fallback
\* chain; any other event is skipped.  An empty buffer returns 0.
NextEvent ==
    /\ pc = "flush"
    /\ IF buf = <<>>
       THEN pc' = "idle" /\ UNCHANGED <<buf, cur>>
       ELSE /\ buf' = Tail(buf)
            /\ pc' = IF Head(buf).isdir THEN "add_links" ELSE "flush"
            /\ cur' = IF Head(buf).isdir THEN Head(buf).wd ELSE cur
    /\ UNCHANGED <<dirs, watches, queue, ctx, flushErr, others, changes, stray>>

\* inotify_rm_watch(fd, e->wd).  A descriptor no longer watched is EINVAL:
\* the flush returns -errno and the rest of the buffer is lost.
RemoveWatch ==
    /\ pc = "rm"
    /\ IF cur \in watches
       THEN /\ watches' = watches \ {cur}
            /\ pc' = "flush"
            /\ UNCHANGED <<buf, flushErr>>
       ELSE /\ pc' = "idle" /\ buf' = <<>> /\ flushErr' = TRUE
            /\ UNCHANGED watches
    /\ UNCHANGED <<dirs, queue, cur, ctx, others, changes, stray>>

-----------------------------------------------------------------------------
(* The other processes: networkd creates netif/ and links/ and writes     *)
(* link state files (a rename into links/, IN_MOVED_TO); other entries     *)
(* appear in /run/systemd/ and netif/ (journal/, leases/, state files).    *)

MkdirNetif ==
    /\ Netif \notin dirs
    /\ dirs' = dirs \cup {Netif}
    /\ queue' = Notify(Run, TRUE)
    /\ UNCHANGED <<watches, buf, cur, pc, ctx, flushErr, others, changes, stray>>

MkdirLinks ==
    /\ Netif \in dirs /\ Links \notin dirs
    /\ dirs' = dirs \cup {Links}
    /\ queue' = Notify(Netif, TRUE)
    /\ UNCHANGED <<watches, buf, cur, pc, ctx, flushErr, others, changes, stray>>

CreateOther ==
    /\ others < MaxOther
    /\ \E d \in {Run, Netif}, isdir \in BOOLEAN :
          /\ Exists(d)
          /\ queue' = Notify(d, isdir)
          /\ stray' = (stray \/ (isdir /\ d \in watches))
    /\ others' = others + 1
    /\ UNCHANGED <<dirs, watches, buf, cur, pc, ctx, flushErr, changes>>

LinkChange ==
    /\ Links \in dirs /\ changes < MaxLinkChanges
    /\ queue' = Notify(Links, FALSE)
    /\ changes' = changes + 1
    /\ UNCHANGED <<dirs, watches, buf, cur, pc, ctx, flushErr, others, stray>>

-----------------------------------------------------------------------------

\* sd_network_monitor_new: inotify_init1, then the fallback chain.
Init ==
    /\ dirs = InitialDirs
    /\ watches = {} /\ queue = <<>> /\ buf = <<>> /\ cur = Run
    /\ pc = "add_links" /\ ctx = "new" /\ flushErr = FALSE
    /\ others = 0 /\ changes = 0 /\ stray = FALSE

Monitor == AddLinks \/ AddNetif \/ AddRun \/ Read \/ NextEvent \/ RemoveWatch

Next == \/ Monitor
        \/ MkdirNetif \/ MkdirLinks \/ CreateOther \/ LinkChange

\* The event loop dispatches the readable inotify fd and runs each call of
\* the monitor to completion: every step of the monitor is weakly fair.
Spec == Init /\ [][Next]_vars /\ WF_vars(Monitor)

-----------------------------------------------------------------------------
(* Properties.                                                             *)

TypeOK ==
    /\ dirs \subseteq {Netif, Links} /\ (Links \in dirs => Netif \in dirs)
    /\ watches \subseteq dirs \cup {Run}
    /\ queue \in Seq(Event) /\ buf \in Seq(Event) /\ cur \in Dirs
    /\ pc \in {"add_links", "add_netif", "add_run", "idle", "flush", "rm"}
    /\ ctx \in {"new", "flush"} /\ flushErr \in BOOLEAN
    /\ others \in 0 .. MaxOther /\ changes \in 0 .. MaxLinkChanges
    /\ stray \in BOOLEAN

\* The monitor never goes deaf: whenever it waits for events, it holds a
\* watch.  The re-arming in sd_network_monitor_flush adds the new watch
\* before it removes the one that reported the directory, so that it is
\* always watching some directory on the way to links/.
NeverDeaf == pc = "idle" => watches # {}

\* Once links/ exists, the monitor eventually watches it, and so is woken by
\* every link state change: what sd_network_monitor_new and the re-arming
\* of sd_network_monitor_flush are for.
LinksEventuallyWatched == (Links \in dirs) ~> (Links \in watches)

\* sd_network_monitor_flush returns 0 for every batch of events the kernel
\* can deliver: the re-arming never removes a watch twice, so that the
\* network-change handler is never handed an error for a routine directory
\* creation.
FlushSucceeds == ~flushErr

\* The re-arming of sd_network_monitor_flush is only defeated by an
\* unrelated directory in a watched directory (monitor_deaf): as long as
\* none has been created there, whatever unrelated files appear and however
\* netlogd's reads interleave with networkd's mkdirs, the monitor is never
\* deaf ...
NeverDeafUnlessStray == ~stray => NeverDeaf

\* ... and no inotify_rm_watch of a flush fails, so no batch of events is
\* cut short with an error.
FlushSucceedsUnlessStray == ~stray => FlushSucceeds

====
