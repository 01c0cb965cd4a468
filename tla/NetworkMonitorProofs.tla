------------------------ MODULE NetworkMonitorProofs ------------------------
(***************************************************************************)
(* Proofs about the inotify monitor of sd-network.c, for every bound.      *)
(* TypeOK always holds.  NeverDeaf and FlushSucceeds hold until an         *)
(* unrelated directory is created in a watched directory: until then      *)
(* every directory event names the parent of a directory that exists and  *)
(* each watch reports at most one, so that the re-arming of               *)
(* sd_network_monitor_flush always adds a watch below the one it removes, *)
(* and removes a watch it holds.  After one, both can fail (monitor_deaf). *)
(***************************************************************************)
EXTENDS NetworkMonitor, TLAPS

\* A directory event on watch d is one the re-arming can answer when the
\* directories ds exist: d is the parent of a directory that exists
\* (netif/ under /run/systemd/, links/ under netif/), so the fallback chain
\* finds a path below d.
ChildIn(d, ds) ==
    \/ d = Run   /\ Netif \in ds
    \/ d = Netif /\ Links \in ds

\* Every directory event of the sequence s is of that kind.
DirEventsOK(s, ds) ==
    \A i \in 1 .. Len(s) : s[i].isdir => ChildIn(s[i].wd, ds)

\* The inductive invariant behind NeverDeaf:
\*  - only sd_network_monitor_new runs the chain before any read;
\*  - outside the chain of sd_network_monitor_new, a watch is held;
\*  - the chain of a flush starts from an event that ChildIn answers,
\*    never needs the /run/systemd/ fallback, and reaches inotify_rm_watch
\*    holding a watch other than the one it removes.
DeafInv ==
    /\ TypeOK
    /\ ctx = "new" => pc \in {"add_links", "add_netif", "add_run", "idle"}
    /\ pc \in {"idle", "flush"} => watches # {}
    /\ DirEventsOK(queue, dirs) /\ DirEventsOK(buf, dirs)
    /\ ctx = "flush" /\ pc = "add_links" => ChildIn(cur, dirs)
    /\ ctx = "flush" /\ pc = "add_netif" => cur = Run /\ Netif \in dirs
    /\ ctx = "flush" => pc # "add_run"
    /\ pc = "rm" => watches \ {cur} # {}

\* Every directory event of s comes from a watch of ws.
WatchedEvents(s, ws) ==
    \A i \in 1 .. Len(s) : s[i].isdir => s[i].wd \in ws

\* No watch has reported two directory events in s.
DistinctDirEvents(s) ==
    \A i, j \in 1 .. Len(s) :
        s[i].isdir /\ s[j].isdir /\ s[i].wd = s[j].wd => i = j

\* No directory event of s comes from watch d.
NoDirEventOf(s, d) ==
    \A i \in 1 .. Len(s) : s[i].isdir => s[i].wd # d

\* No directory event of b comes from a watch that also has one in q.
CrossFree(b, q) ==
    \A i \in 1 .. Len(b) : b[i].isdir => NoDirEventOf(q, b[i].wd)

\* The flush is between reading a directory event and removing its watch.
Rearming == ctx = "flush" /\ pc \in {"add_links", "add_netif", "rm"}

\* The inductive invariant behind FlushSucceeds: each watch reports at most
\* one directory event (netif/ and links/ are created once), the watch
\* that reported it is still held until the flush removes it, and the
\* event being processed is not also pending.
FlushInv ==
    /\ DeafInv
    /\ ~flushErr
    /\ WatchedEvents(queue, watches) /\ WatchedEvents(buf, watches)
    /\ DistinctDirEvents(queue) /\ DistinctDirEvents(buf)
    /\ CrossFree(buf, queue)
    /\ Rearming =>
          /\ cur \in watches /\ ChildIn(cur, dirs)
          /\ NoDirEventOf(buf, cur) /\ NoDirEventOf(queue, cur)

-----------------------------------------------------------------------------
(* What Append, SubSeq and Tail do to a sequence of events.                *)

\* The kernel appending an event keeps a sequence of events, and its old
\* entries.
LEMMA AppendEvent ==
    ASSUME NEW s \in Seq(Event), NEW e \in Event
    PROVE  /\ Append(s, e) \in Seq(Event)
           /\ Len(Append(s, e)) = Len(s) + 1
           /\ \A i \in 1 .. Len(s) : Append(s, e)[i] = s[i]
           /\ Append(s, e)[Len(s) + 1] = e
OBVIOUS

\* The part of the queue a read() returns, and the part it leaves, are
\* sequences of the queued events in order.
LEMMA SubSeqEvent ==
    ASSUME NEW s \in Seq(Event), NEW a \in 1 .. Len(s) + 1, NEW b \in a - 1 .. Len(s)
    PROVE  /\ SubSeq(s, a, b) \in Seq(Event)
           /\ Len(SubSeq(s, a, b)) = b - a + 1
           /\ \A i \in 1 .. b - a + 1 : SubSeq(s, a, b)[i] = s[a + i - 1]
OBVIOUS

\* FOREACH_INOTIFY_EVENT takes the first event of the buffer and moves on
\* to the rest.
LEMMA TailEvent ==
    ASSUME NEW s \in Seq(Event), s # <<>>
    PROVE  /\ Head(s) \in Event /\ Head(s) = s[1]
           /\ Tail(s) \in Seq(Event)
           /\ Len(Tail(s)) = Len(s) - 1
           /\ \A i \in 1 .. Len(s) - 1 : Tail(s)[i] = s[i + 1]
OBVIOUS

-----------------------------------------------------------------------------
(* Type correctness, for every bound.                                     *)

\* An empty queue or buffer is a sequence of events.
LEMMA EmptyEvents == <<>> \in Seq(Event)
OBVIOUS

\* sd_network_monitor_new starts in a well-typed state.
LEMMA TypeInit == Init => TypeOK
<1> SUFFICES ASSUME Init PROVE TypeOK
  OBVIOUS
<1>1. dirs \subseteq {Netif, Links} /\ (Links \in dirs => Netif \in dirs)
  BY MonitorAssumption DEF Init, Netif, Links
<1>2. queue \in Seq(Event) /\ buf \in Seq(Event)
  BY EmptyEvents DEF Init
<1>3. watches \subseteq dirs \cup {Run} /\ cur \in Dirs
  BY DEF Init, Dirs
<1>4. pc \in {"add_links", "add_netif", "add_run", "idle", "flush", "rm"}
      /\ ctx \in {"new", "flush"} /\ flushErr \in BOOLEAN
  BY DEF Init
<1>5. others \in 0 .. MaxOther /\ changes \in 0 .. MaxLinkChanges
  BY MonitorAssumption DEF Init
<1>6. stray \in BOOLEAN
  BY DEF Init
<1>7. QED
  BY <1>1, <1>2, <1>3, <1>4, <1>5, <1>6 DEF TypeOK

\* Queuing an inotify event keeps the queue a sequence of events.
LEMMA NotifyType ==
    ASSUME TypeOK, NEW d \in Dirs, NEW isdir \in BOOLEAN
    PROVE  Notify(d, isdir) \in Seq(Event)
<1>1. [wd |-> d, isdir |-> isdir] \in Event
  BY DEF Event
<1>2. QED
  BY <1>1, AppendEvent DEF Notify, TypeOK

\* Every system call of the monitor and of networkd keeps the types.
LEMMA TypeStep == TypeOK /\ [Next]_vars => TypeOK'
<1> SUFFICES ASSUME TypeOK, [Next]_vars PROVE TypeOK'
  OBVIOUS
<1> USE MonitorAssumption DEF TypeOK, Dirs, Run, Netif, Links, Exists, Return
<1>1. CASE AddLinks
  BY <1>1 DEF AddLinks, AddWatch
<1>2. CASE AddNetif
  BY <1>2 DEF AddNetif, AddWatch
<1>3. CASE AddRun
  BY <1>3 DEF AddRun, AddWatch
<1>4. CASE Read
  <2>1. PICK n \in 1 .. Len(queue) :
                /\ buf' = SubSeq(queue, 1, n)
                /\ queue' = SubSeq(queue, n + 1, Len(queue))
    BY <1>4 DEF Read
  <2>2. buf' \in Seq(Event) /\ queue' \in Seq(Event)
    BY <2>1, SubSeqEvent
  <2>3. QED
    BY <1>4, <2>2 DEF Read
<1>5. CASE NextEvent
  <2>1. CASE buf = <<>>
    BY <1>5, <2>1 DEF NextEvent
  <2>2. CASE buf # <<>>
    BY <1>5, <2>2, TailEvent DEF NextEvent, Event
  <2>3. QED
    BY <2>1, <2>2
<1>6. CASE RemoveWatch
  BY <1>6, EmptyEvents DEF RemoveWatch
<1>7. CASE MkdirNetif
  BY <1>7, NotifyType DEF MkdirNetif
<1>8. CASE MkdirLinks
  BY <1>8, NotifyType DEF MkdirLinks
<1>9. CASE CreateOther
  BY <1>9, NotifyType DEF CreateOther
<1>10. CASE LinkChange
  <2>1. queue' \in Seq(Event)
    BY <1>10, NotifyType DEF LinkChange
  <2>2. changes' \in 0 .. MaxLinkChanges
    BY <1>10 DEF LinkChange
  <2>3. QED
    BY <1>10, <2>1, <2>2 DEF LinkChange
<1>11. CASE UNCHANGED vars
  BY <1>11 DEF vars
<1>12. QED
  BY <1>1, <1>2, <1>3, <1>4, <1>5, <1>6, <1>7, <1>8, <1>9, <1>10, <1>11
     DEF Next, Monitor

\* Whatever the directories at start-up and however many entries and link
\* state files networkd creates, the monitor's state keeps its type: in
\* particular monitor_add_inotify_watch only ever watches a directory that
\* exists (or /run/systemd/), and links/ never exists without netif/.
THEOREM TypeCorrect == Spec => []TypeOK
BY TypeInit, TypeStep, PTL DEF Spec

-----------------------------------------------------------------------------
(* Directory events under queueing, reading and directory creation.       *)

\* Directories are only created, never removed: an event that names the
\* parent of an existing directory keeps doing so.
LEMMA EventsGrow ==
    ASSUME NEW s \in Seq(Event), NEW ds, NEW ds2, ds \subseteq ds2,
           DirEventsOK(s, ds)
    PROVE  DirEventsOK(s, ds2)
BY DEF DirEventsOK, ChildIn

\* networkd's mkdir queues a directory event whose child exists.
LEMMA EventsAppend ==
    ASSUME NEW s \in Seq(Event), NEW e \in Event, NEW ds,
           DirEventsOK(s, ds), e.isdir => ChildIn(e.wd, ds)
    PROVE  DirEventsOK(Append(s, e), ds)
BY AppendEvent DEF DirEventsOK

\* read() splits the queue without changing its events.
LEMMA EventsSubSeq ==
    ASSUME NEW s \in Seq(Event), NEW a \in 1 .. Len(s) + 1, NEW b \in a - 1 .. Len(s),
           NEW ds, DirEventsOK(s, ds)
    PROVE  DirEventsOK(SubSeq(s, a, b), ds)
<1>1. \A i \in 1 .. b - a + 1 : a + i - 1 \in 1 .. Len(s)
  OBVIOUS
<1>2. QED
  BY <1>1, SubSeqEvent DEF DirEventsOK

\* The flush takes the next event, which names the parent of an existing
\* directory if it is a directory event.
LEMMA EventsTail ==
    ASSUME NEW s \in Seq(Event), s # <<>>, NEW ds, DirEventsOK(s, ds)
    PROVE  /\ DirEventsOK(Tail(s), ds)
           /\ Head(s).isdir => ChildIn(Head(s).wd, ds)
BY TailEvent DEF DirEventsOK

-----------------------------------------------------------------------------
(* NeverDeaf until an unrelated directory appears in a watched one.       *)

\* sd_network_monitor_new starts in a state of DeafInv.
LEMMA DeafInit == Init => DeafInv
<1> SUFFICES ASSUME Init PROVE DeafInv
  OBVIOUS
<1>1. DirEventsOK(queue, dirs) /\ DirEventsOK(buf, dirs)
  BY DEF Init, DirEventsOK
<1>2. QED
  BY <1>1, TypeInit DEF Init, DeafInv

\* Every step of the monitor and of networkd keeps DeafInv, unless it is
\* the creation of an unrelated directory in a watched directory.
LEMMA DeafStep == DeafInv /\ [Next]_vars /\ ~stray' => DeafInv'
<1> SUFFICES ASSUME DeafInv, [Next]_vars, ~stray' PROVE DeafInv'
  OBVIOUS
<1>0. TypeOK /\ TypeOK'
  BY TypeStep DEF DeafInv
<1> USE DEF Exists, Return, Run, Netif, Links
<1>1. CASE AddLinks
  <2>1. UNCHANGED <<dirs, queue, buf, cur, ctx>> /\ pc = "add_links"
    BY <1>1 DEF AddLinks
  <2>2. ctx = "flush" => cur \in {Run, Netif} /\ ChildIn(cur, dirs)
    BY <2>1 DEF DeafInv, ChildIn
  <2>3. CASE Links \in dirs
    <3>1. pc' = Return /\ Links \in watches'
      BY <1>1, <2>3 DEF AddLinks, AddWatch
    <3>2. QED
      BY <1>0, <2>1, <2>2, <3>1 DEF DeafInv, TypeOK
  <2>4. CASE Links \notin dirs
    <3>1. pc' = "add_netif" /\ watches' = watches
      BY <1>1, <2>4 DEF AddLinks, AddWatch
    <3>2. ctx = "flush" => cur = Run /\ Netif \in dirs
      BY <2>2, <2>4 DEF ChildIn
    <3>3. QED
      BY <1>0, <2>1, <3>1, <3>2 DEF DeafInv, TypeOK
  <2>5. QED
    BY <2>3, <2>4
<1>2. CASE AddNetif
  BY <1>0, <1>2 DEF AddNetif, AddWatch, DeafInv, TypeOK
<1>3. CASE AddRun
  BY <1>0, <1>3 DEF AddRun, AddWatch, DeafInv, TypeOK
<1>4. CASE Read
  <2>1. PICK n \in 1 .. Len(queue) :
                /\ buf' = SubSeq(queue, 1, n)
                /\ queue' = SubSeq(queue, n + 1, Len(queue))
    BY <1>4 DEF Read
  <2>0. queue \in Seq(Event) /\ DirEventsOK(queue, dirs) /\ dirs' = dirs
    BY <1>0, <1>4 DEF Read, DeafInv, TypeOK
  <2>a. DirEventsOK(SubSeq(queue, 1, n), dirs)
    BY <2>0, EventsSubSeq
  <2>b. DirEventsOK(SubSeq(queue, n + 1, Len(queue)), dirs)
    BY <2>0, EventsSubSeq
  <2>2. DirEventsOK(buf', dirs') /\ DirEventsOK(queue', dirs')
    BY <2>0, <2>1, <2>a, <2>b
  <2>3. QED
    BY <1>0, <1>4, <2>2 DEF Read, DeafInv
<1>5. CASE NextEvent
  <2>1. ctx = "flush" /\ watches # {}
    BY <1>0, <1>5 DEF NextEvent, DeafInv, TypeOK
  <2>2. CASE buf = <<>>
    BY <1>0, <1>5, <2>1, <2>2 DEF NextEvent, DeafInv
  <2>3. CASE buf # <<>>
    <3>1. DirEventsOK(buf', dirs') /\ (Head(buf).isdir => ChildIn(Head(buf).wd, dirs))
      BY <1>0, <1>5, <2>3, EventsTail DEF NextEvent, DeafInv, TypeOK
    <3>2. QED
      BY <1>0, <1>5, <2>1, <2>3, <3>1 DEF NextEvent, DeafInv
  <2>4. QED
    BY <2>2, <2>3
<1>6. CASE RemoveWatch
  <2>1. DirEventsOK(buf', dirs')
    BY <1>6 DEF RemoveWatch, DeafInv, DirEventsOK
  <2>2. QED
    BY <1>0, <1>6, <2>1 DEF RemoveWatch, DeafInv
<1>7. CASE MkdirNetif
  <2>1. DirEventsOK(queue, dirs') /\ DirEventsOK(buf, dirs')
    BY <1>0, <1>7, EventsGrow DEF MkdirNetif, DeafInv, TypeOK
  <2>2. DirEventsOK(queue', dirs')
    <3>1. [wd |-> Run, isdir |-> TRUE] \in Event /\ ChildIn(Run, dirs')
      BY <1>7 DEF MkdirNetif, Event, Dirs, ChildIn
    <3>2. QED
      BY <1>0, <1>7, <2>1, <3>1, EventsAppend DEF MkdirNetif, Notify, TypeOK
  <2>3. ChildIn(cur, dirs) => ChildIn(cur, dirs')
    BY <1>7 DEF MkdirNetif, ChildIn
  <2>4. QED
    BY <1>0, <1>7, <2>1, <2>2, <2>3 DEF MkdirNetif, DeafInv
<1>8. CASE MkdirLinks
  <2>1. DirEventsOK(queue, dirs') /\ DirEventsOK(buf, dirs')
    BY <1>0, <1>8, EventsGrow DEF MkdirLinks, DeafInv, TypeOK
  <2>2. DirEventsOK(queue', dirs')
    <3>1. [wd |-> Netif, isdir |-> TRUE] \in Event /\ ChildIn(Netif, dirs')
      BY <1>8 DEF MkdirLinks, Event, Dirs, ChildIn
    <3>2. QED
      BY <1>0, <1>8, <2>1, <3>1, EventsAppend DEF MkdirLinks, Notify, TypeOK
  <2>3. ChildIn(cur, dirs) => ChildIn(cur, dirs')
    BY <1>8 DEF MkdirLinks, ChildIn
  <2>4. QED
    BY <1>0, <1>8, <2>1, <2>2, <2>3 DEF MkdirLinks, DeafInv
<1>9. CASE CreateOther
  <2>1. PICK d \in {Run, Netif}, isdir \in BOOLEAN :
           /\ queue' = Notify(d, isdir)
           /\ stray' = (stray \/ (isdir /\ d \in watches))
    BY <1>9 DEF CreateOther
  <2>2. [wd |-> d, isdir |-> isdir] \in Event /\ ~(isdir /\ d \in watches)
    BY <2>1 DEF Event, Dirs
  <2>3. DirEventsOK(queue', dirs')
    BY <1>0, <1>9, <2>1, <2>2, EventsAppend DEF CreateOther, Notify, DeafInv, TypeOK
  <2>4. QED
    BY <1>0, <1>9, <2>3 DEF CreateOther, DeafInv
<1>10. CASE LinkChange
  <2>1. DirEventsOK(queue', dirs')
    <3>1. [wd |-> Links, isdir |-> FALSE] \in Event
      BY DEF Event, Dirs
    <3>2. QED
      BY <1>0, <1>10, <3>1, EventsAppend DEF LinkChange, Notify, DeafInv, TypeOK
  <2>2. QED
    BY <1>0, <1>10, <2>1 DEF LinkChange, DeafInv
<1>11. CASE UNCHANGED vars
  BY <1>0, <1>11 DEF vars, DeafInv
<1>12. QED
  BY <1>1, <1>2, <1>3, <1>4, <1>5, <1>6, <1>7, <1>8, <1>9, <1>10, <1>11
     DEF Next, Monitor

\* Once an unrelated directory has been created in a watched directory,
\* the ghost stray stays set.
LEMMA StrayStays == stray /\ [Next]_vars => stray'
<1> SUFFICES ASSUME stray, [Next]_vars PROVE stray'
  OBVIOUS
<1>1. CASE CreateOther
  BY <1>1 DEF CreateOther
<1>2. CASE ~CreateOther
  BY <1>2 DEF Next, Monitor, vars, AddLinks, AddNetif, AddRun, Read, NextEvent,
             RemoveWatch, MkdirNetif, MkdirLinks, LinkChange
<1>3. QED
  BY <1>1, <1>2

\* DeafInv holds until an unrelated directory is created in a watched one.
StrayOrDeaf == stray \/ DeafInv

\* The monitor never goes deaf before an unrelated directory appears in a
\* watched directory: the fallback chain of sd_network_monitor_new ends
\* holding a watch, and the re-arming in sd_network_monitor_flush adds a
\* watch on netif/ or links/ before inotify_rm_watch removes the parent's.
\* For every bound on unrelated entries (unrelated files, and directories
\* in unwatched directories, included) and on link state files, and every
\* order of networkd's mkdirs and netlogd's reads.
THEOREM NeverDeafHolds == Spec => []NeverDeafUnlessStray
<1>1. Init => StrayOrDeaf
  BY DeafInit DEF StrayOrDeaf
<1>2. StrayOrDeaf /\ [Next]_vars => StrayOrDeaf'
  <2> SUFFICES ASSUME StrayOrDeaf, [Next]_vars, ~stray' PROVE DeafInv'
    BY DEF StrayOrDeaf
  <2>1. ~stray /\ DeafInv
    BY StrayStays DEF StrayOrDeaf
  <2>2. QED
    BY <2>1, DeafStep
<1>3. StrayOrDeaf => NeverDeafUnlessStray
  BY DEF StrayOrDeaf, DeafInv, NeverDeafUnlessStray, NeverDeaf
<1>4. QED
  BY <1>1, <1>2, <1>3, PTL DEF Spec

-----------------------------------------------------------------------------
(* Pending directory events under queueing, reading and removal.          *)

\* A watch whose child directory does not exist has reported no directory
\* event: networkd's mkdir is what makes it report one.
LEMMA NoChildNoEvent ==
    ASSUME NEW s \in Seq(Event), NEW ds, NEW d, DirEventsOK(s, ds), ~ChildIn(d, ds)
    PROVE  NoDirEventOf(s, d)
BY DEF DirEventsOK, NoDirEventOf

\* The kernel queues a directory event only from a held watch.
LEMMA AppendWatched ==
    ASSUME NEW s \in Seq(Event), NEW e \in Event, NEW ws,
           WatchedEvents(s, ws), e.isdir => e.wd \in ws
    PROVE  WatchedEvents(Append(s, e), ws)
BY AppendEvent DEF WatchedEvents

\* A directory event from a watch with no pending one keeps them distinct.
LEMMA AppendDistinct ==
    ASSUME NEW s \in Seq(Event), NEW e \in Event,
           DistinctDirEvents(s), e.isdir => NoDirEventOf(s, e.wd)
    PROVE  DistinctDirEvents(Append(s, e))
<1>1. \A i \in 1 .. Len(s) + 1 : Append(s, e)[i] = IF i = Len(s) + 1 THEN e ELSE s[i]
  BY AppendEvent
<1>2. QED
  BY <1>1, AppendEvent DEF DistinctDirEvents, NoDirEventOf

\* An event from another watch adds no directory event from d.
LEMMA AppendNoDirEvent ==
    ASSUME NEW s \in Seq(Event), NEW e \in Event, NEW d,
           NoDirEventOf(s, d), e.isdir => e.wd # d
    PROVE  NoDirEventOf(Append(s, e), d)
BY AppendEvent DEF NoDirEventOf

\* A part of a sequence read out of it keeps its properties.
LEMMA PendingSubSeq ==
    ASSUME NEW s \in Seq(Event), NEW a \in 1 .. Len(s) + 1, NEW b \in a - 1 .. Len(s),
           NEW ws, WatchedEvents(s, ws), DistinctDirEvents(s)
    PROVE  /\ WatchedEvents(SubSeq(s, a, b), ws)
           /\ DistinctDirEvents(SubSeq(s, a, b))
           /\ \A d : NoDirEventOf(s, d) => NoDirEventOf(SubSeq(s, a, b), d)
<1>1. /\ Len(SubSeq(s, a, b)) = b - a + 1
      /\ \A i \in 1 .. b - a + 1 : SubSeq(s, a, b)[i] = s[a + i - 1]
      /\ \A i \in 1 .. b - a + 1 : a + i - 1 \in 1 .. Len(s)
  BY SubSeqEvent
<1>2. WatchedEvents(SubSeq(s, a, b), ws)
  BY <1>1 DEF WatchedEvents
<1>3. DistinctDirEvents(SubSeq(s, a, b))
  BY <1>1 DEF DistinctDirEvents
<1>4. \A d : NoDirEventOf(s, d) => NoDirEventOf(SubSeq(s, a, b), d)
  BY <1>1 DEF NoDirEventOf
<1>5. QED
  BY <1>2, <1>3, <1>4

\* The rest of the buffer after its first event keeps its properties, and
\* has no other directory event from the watch of the first one.
LEMMA PendingTail ==
    ASSUME NEW s \in Seq(Event), s # <<>>, NEW ws,
           WatchedEvents(s, ws), DistinctDirEvents(s)
    PROVE  /\ WatchedEvents(Tail(s), ws)
           /\ DistinctDirEvents(Tail(s))
           /\ \A d : NoDirEventOf(s, d) => NoDirEventOf(Tail(s), d)
           /\ Head(s).isdir => Head(s).wd \in ws /\ NoDirEventOf(Tail(s), Head(s).wd)
<1>1. /\ Len(Tail(s)) = Len(s) - 1 /\ Head(s) = s[1]
      /\ \A i \in 1 .. Len(s) - 1 : Tail(s)[i] = s[i + 1]
      /\ \A i \in 1 .. Len(s) - 1 : i + 1 \in 1 .. Len(s) /\ i + 1 # 1
      /\ 1 \in 1 .. Len(s)
  BY TailEvent
<1>2. WatchedEvents(Tail(s), ws) /\ \A d : NoDirEventOf(s, d) => NoDirEventOf(Tail(s), d)
  BY <1>1 DEF WatchedEvents, NoDirEventOf
<1>3. DistinctDirEvents(Tail(s))
  BY <1>1 DEF DistinctDirEvents
<1>4. Head(s).isdir => Head(s).wd \in ws /\ NoDirEventOf(Tail(s), Head(s).wd)
  BY <1>1 DEF WatchedEvents, DistinctDirEvents, NoDirEventOf
<1>5. QED
  BY <1>2, <1>3, <1>4

\* A watch with no pending directory event can be removed without
\* orphaning one.
LEMMA PendingRemove ==
    ASSUME NEW s \in Seq(Event), NEW ws, NEW c,
           WatchedEvents(s, ws), NoDirEventOf(s, c)
    PROVE  WatchedEvents(s, ws \ {c})
BY DEF WatchedEvents, NoDirEventOf

\* Adding a watch leaves every pending event watched.
LEMMA PendingGrow ==
    ASSUME NEW s, NEW ws, NEW ws2, ws \subseteq ws2, WatchedEvents(s, ws)
    PROVE  WatchedEvents(s, ws2)
BY DEF WatchedEvents

\* networkd's mkdir under a watched directory d0 whose child did not exist:
\* the new directory event is the only one from d0.
LEMMA MkdirPending ==
    ASSUME NEW q \in Seq(Event), NEW b \in Seq(Event), NEW ws, NEW ds,
           NEW d0 \in Dirs, NEW c,
           WatchedEvents(q, ws), DistinctDirEvents(q), CrossFree(b, q),
           DirEventsOK(q, ds), DirEventsOK(b, ds), ~ChildIn(d0, ds), d0 \in ws
    PROVE  LET e == [wd |-> d0, isdir |-> TRUE]
           IN  /\ WatchedEvents(Append(q, e), ws)
               /\ DistinctDirEvents(Append(q, e))
               /\ CrossFree(b, Append(q, e))
               /\ ChildIn(c, ds) /\ NoDirEventOf(q, c) => NoDirEventOf(Append(q, e), c)
<1> DEFINE e == [wd |-> d0, isdir |-> TRUE]
<1>1. e \in Event
  BY DEF Event
<1>2. NoDirEventOf(q, d0) /\ NoDirEventOf(b, d0)
  BY NoChildNoEvent
<1>3. WatchedEvents(Append(q, e), ws) /\ DistinctDirEvents(Append(q, e))
  BY <1>1, <1>2, AppendWatched, AppendDistinct
<1>4. CrossFree(b, Append(q, e))
  <2> SUFFICES ASSUME NEW i \in 1 .. Len(b), b[i].isdir
               PROVE  NoDirEventOf(Append(q, e), b[i].wd)
    BY DEF CrossFree
  <2>1. NoDirEventOf(q, b[i].wd) /\ b[i].wd # d0
    BY <1>2 DEF CrossFree, NoDirEventOf
  <2>2. QED
    BY <1>1, <2>1, AppendNoDirEvent
<1>5. ASSUME ChildIn(c, ds), NoDirEventOf(q, c)
      PROVE  NoDirEventOf(Append(q, e), c)
  <2>1. c # d0
    BY <1>5
  <2>2. QED
    BY <1>1, <1>5, <2>1, AppendNoDirEvent
<1>6. QED
  BY <1>3, <1>4, <1>5

\* A link state file written into links/, or an unrelated file, queues an
\* event that is no directory event.
LEMMA FilePending ==
    ASSUME NEW q \in Seq(Event), NEW b \in Seq(Event), NEW ws, NEW c, NEW d \in Dirs,
           WatchedEvents(q, ws), DistinctDirEvents(q), CrossFree(b, q)
    PROVE  LET e == [wd |-> d, isdir |-> FALSE]
           IN  /\ WatchedEvents(Append(q, e), ws)
               /\ DistinctDirEvents(Append(q, e))
               /\ CrossFree(b, Append(q, e))
               /\ NoDirEventOf(q, c) => NoDirEventOf(Append(q, e), c)
<1> DEFINE e == [wd |-> d, isdir |-> FALSE]
<1>1. e \in Event /\ ~e.isdir
  BY DEF Event, Dirs
<1>2. CrossFree(b, Append(q, e))
  <2> SUFFICES ASSUME NEW i \in 1 .. Len(b), b[i].isdir
               PROVE  NoDirEventOf(Append(q, e), b[i].wd)
    BY DEF CrossFree
  <2>1. NoDirEventOf(q, b[i].wd)
    BY DEF CrossFree
  <2>2. QED
    BY <1>1, <2>1, AppendNoDirEvent
<1>3. WatchedEvents(Append(q, e), ws) /\ DistinctDirEvents(Append(q, e))
  BY <1>1, AppendWatched, AppendDistinct
<1>4. NoDirEventOf(q, c) => NoDirEventOf(Append(q, e), c)
  BY <1>1, AppendNoDirEvent
<1>5. QED
  BY <1>2, <1>3, <1>4

-----------------------------------------------------------------------------
(* FlushSucceeds until an unrelated directory appears in a watched one.   *)

\* sd_network_monitor_new starts in a state of FlushInv.
LEMMA FlushInit == Init => FlushInv
<1> SUFFICES ASSUME Init PROVE FlushInv
  OBVIOUS
<1>1. queue = <<>> /\ buf = <<>> /\ ~flushErr /\ ctx = "new"
  BY DEF Init
<1>2. QED
  BY <1>1, DeafInit
     DEF FlushInv, WatchedEvents, DistinctDirEvents, CrossFree, NoDirEventOf, Rearming

\* Every step of the monitor and of networkd keeps FlushInv, unless it is
\* the creation of an unrelated directory in a watched directory.
LEMMA FlushStep == FlushInv /\ [Next]_vars /\ ~stray' => FlushInv'
<1> SUFFICES ASSUME FlushInv, [Next]_vars, ~stray' PROVE FlushInv'
  OBVIOUS
<1>0. /\ DeafInv /\ DeafInv' /\ TypeOK /\ TypeOK'
      /\ queue \in Seq(Event) /\ buf \in Seq(Event)
  BY DeafStep DEF FlushInv, DeafInv, TypeOK
<1> DEFINE Extra == FlushInv!2 /\ FlushInv!3 /\ FlushInv!4 /\ FlushInv!5 /\ FlushInv!6
<1>x. SUFFICES Extra'
  BY <1>0 DEF FlushInv
<1>1. CASE AddLinks \/ AddNetif \/ AddRun
  <2>1. UNCHANGED <<dirs, queue, buf, cur, ctx, flushErr>> /\ watches \subseteq watches'
    BY <1>1 DEF AddLinks, AddNetif, AddRun, AddWatch
  <2>2. pc \in {"add_links", "add_netif", "add_run"}
    BY <1>1 DEF AddLinks, AddNetif, AddRun
  <2>3. Rearming' => Rearming
    BY <1>0, <2>1, <2>2 DEF Rearming, DeafInv
  <2>4. WatchedEvents(queue, watches') /\ WatchedEvents(buf, watches')
    BY <2>1, PendingGrow DEF FlushInv
  <2>5. QED
    BY <2>1, <2>3, <2>4 DEF FlushInv
<1>2. CASE Read
  <2>1. PICK n \in 1 .. Len(queue) :
                /\ buf' = SubSeq(queue, 1, n)
                /\ queue' = SubSeq(queue, n + 1, Len(queue))
    BY <1>2 DEF Read
  <2>2. UNCHANGED <<watches, flushErr>> /\ pc' = "flush"
    BY <1>2 DEF Read
  <2>3. /\ WatchedEvents(buf', watches') /\ DistinctDirEvents(buf')
        /\ WatchedEvents(queue', watches') /\ DistinctDirEvents(queue')
    <3>1. /\ 1 \in 1 .. Len(queue) + 1 /\ n \in 1 - 1 .. Len(queue)
          /\ n + 1 \in 1 .. Len(queue) + 1 /\ Len(queue) \in n + 1 - 1 .. Len(queue)
      BY <1>0, <2>1
    <3>2. WatchedEvents(queue, watches) /\ DistinctDirEvents(queue)
      BY DEF FlushInv
    <3>3. WatchedEvents(SubSeq(queue, 1, n), watches)
          /\ DistinctDirEvents(SubSeq(queue, 1, n))
      BY <1>0, <3>1, <3>2, PendingSubSeq
    <3>4. WatchedEvents(SubSeq(queue, n + 1, Len(queue)), watches)
          /\ DistinctDirEvents(SubSeq(queue, n + 1, Len(queue)))
      BY <1>0, <3>1, <3>2, PendingSubSeq
    <3>5. QED
      BY <2>1, <2>2, <3>3, <3>4
  <2>4. CrossFree(buf', queue')
    <3> SUFFICES ASSUME NEW i \in 1 .. Len(buf'), buf'[i].isdir
                 PROVE  NoDirEventOf(queue', buf'[i].wd)
      BY DEF CrossFree
    <3>1. /\ Len(buf') = n /\ buf'[i] = queue[i]
          /\ Len(queue') = Len(queue) - n
          /\ \A j \in 1 .. Len(queue) - n : queue'[j] = queue[n + j]
      BY <1>0, <2>1, SubSeqEvent
    <3>2. QED
      BY <1>0, <3>1 DEF FlushInv, DistinctDirEvents, NoDirEventOf
  <2>5. QED
    BY <2>2, <2>3, <2>4 DEF FlushInv, Rearming
<1>3. CASE NextEvent
  <2>1. UNCHANGED <<watches, queue, ctx, flushErr, dirs>> /\ pc = "flush"
    BY <1>3 DEF NextEvent
  <2>2. CASE buf = <<>>
    BY <1>3, <2>1, <2>2 DEF NextEvent, FlushInv, Rearming
  <2>3. CASE buf # <<>>
    <3>1. buf' = Tail(buf)
      BY <1>3, <2>3 DEF NextEvent
    <3>2. /\ WatchedEvents(Tail(buf), watches) /\ DistinctDirEvents(Tail(buf))
          /\ Head(buf).isdir => Head(buf).wd \in watches
                                /\ NoDirEventOf(Tail(buf), Head(buf).wd)
      <4>1. WatchedEvents(buf, watches) /\ DistinctDirEvents(buf)
        BY DEF FlushInv
      <4>2. QED
        BY <1>0, <2>3, <4>1, PendingTail
    <3>3. /\ CrossFree(Tail(buf), queue)
          /\ Head(buf).isdir => NoDirEventOf(queue, Head(buf).wd)
      BY <1>0, <2>3, TailEvent DEF FlushInv, CrossFree
    <3>4. Head(buf).isdir => ChildIn(Head(buf).wd, dirs)
      BY <1>0, <2>3, EventsTail DEF DeafInv
    <3>5. CASE Head(buf).isdir
      <4>1. pc' = "add_links" /\ cur' = Head(buf).wd
        BY <1>3, <2>3, <3>5 DEF NextEvent
      <4>2. QED
        BY <2>1, <3>1, <3>2, <3>3, <3>4, <3>5, <4>1 DEF FlushInv, Rearming
    <3>6. CASE ~Head(buf).isdir
      <4>1. pc' = "flush"
        BY <1>3, <2>3, <3>6 DEF NextEvent
      <4>2. QED
        BY <2>1, <3>1, <3>2, <3>3, <4>1 DEF FlushInv, Rearming
    <3>7. QED
      BY <3>5, <3>6
  <2>4. QED
    BY <2>2, <2>3
<1>4. CASE RemoveWatch
  <2>1. pc = "rm" /\ ctx = "flush"
    BY <1>0, <1>4 DEF RemoveWatch, DeafInv, TypeOK
  <2>2. cur \in watches /\ NoDirEventOf(buf, cur) /\ NoDirEventOf(queue, cur)
    BY <2>1 DEF FlushInv, Rearming
  <2>3. /\ watches' = watches \ {cur} /\ pc' = "flush"
        /\ UNCHANGED <<buf, queue, flushErr>>
    BY <1>4, <2>2 DEF RemoveWatch
  <2>4. WatchedEvents(queue, watches') /\ WatchedEvents(buf, watches')
    BY <1>0, <2>2, <2>3, PendingRemove DEF FlushInv
  <2>5. QED
    BY <2>3, <2>4 DEF FlushInv, Rearming
<1>5. CASE MkdirNetif \/ MkdirLinks
  <2>1. PICK d0 \in {Run, Netif} :
           /\ ~ChildIn(d0, dirs)
           /\ queue' = Notify(d0, TRUE)
           /\ dirs \subseteq dirs'
           /\ UNCHANGED <<watches, buf, cur, pc, ctx, flushErr>>
    BY <1>5 DEF MkdirNetif, MkdirLinks, ChildIn, Run, Netif, Links
  <2>2. ChildIn(cur, dirs) => ChildIn(cur, dirs')
    BY <2>1 DEF ChildIn
  <2>3. CASE d0 \in watches
    <3>1. queue' = Append(queue, [wd |-> d0, isdir |-> TRUE])
      BY <2>1, <2>3 DEF Notify
    <3>2. /\ WatchedEvents(queue', watches') /\ DistinctDirEvents(queue')
          /\ CrossFree(buf', queue')
          /\ ChildIn(cur, dirs) /\ NoDirEventOf(queue, cur) => NoDirEventOf(queue', cur)
      BY <1>0, <2>1, <2>3, <3>1, MkdirPending DEF FlushInv, DeafInv, Dirs
    <3>3. QED
      BY <2>1, <2>2, <3>2 DEF FlushInv, Rearming
  <2>4. CASE d0 \notin watches
    <3>1. queue' = queue
      BY <2>1, <2>4 DEF Notify
    <3>2. QED
      BY <2>1, <2>2, <3>1 DEF FlushInv, Rearming
  <2>5. QED
    BY <2>3, <2>4
<1>6. CASE CreateOther
  <2>1. PICK d \in {Run, Netif}, isdir \in BOOLEAN :
           /\ queue' = Notify(d, isdir)
           /\ stray' = (stray \/ (isdir /\ d \in watches))
    BY <1>6 DEF CreateOther
  <2>2. UNCHANGED <<watches, buf, cur, pc, ctx, flushErr, dirs>>
    BY <1>6 DEF CreateOther
  <2>3. d \in Dirs /\ ~(isdir /\ d \in watches)
    BY <2>1 DEF Dirs
  <2>4. CASE d \in watches
    <3>1. queue' = Append(queue, [wd |-> d, isdir |-> FALSE])
      BY <2>1, <2>3, <2>4 DEF Notify
    <3>2. /\ WatchedEvents(queue', watches') /\ DistinctDirEvents(queue')
          /\ CrossFree(buf', queue')
          /\ NoDirEventOf(queue, cur) => NoDirEventOf(queue', cur)
      BY <1>0, <2>2, <2>3, <3>1, FilePending DEF FlushInv
    <3>3. QED
      BY <2>2, <3>2 DEF FlushInv, Rearming
  <2>5. CASE d \notin watches
    BY <2>1, <2>2, <2>5 DEF Notify, FlushInv, Rearming
  <2>6. QED
    BY <2>4, <2>5
<1>7. CASE LinkChange
  <2>1. UNCHANGED <<watches, buf, cur, pc, ctx, flushErr, dirs>>
    BY <1>7 DEF LinkChange
  <2>2. CASE Links \in watches
    <3>1. queue' = Append(queue, [wd |-> Links, isdir |-> FALSE])
      BY <1>7, <2>2 DEF LinkChange, Notify
    <3>2. /\ WatchedEvents(queue', watches') /\ DistinctDirEvents(queue')
          /\ CrossFree(buf', queue')
          /\ NoDirEventOf(queue, cur) => NoDirEventOf(queue', cur)
      <4>1. Links \in Dirs
        BY DEF Dirs
      <4>2. QED
        BY <1>0, <2>1, <3>1, <4>1, FilePending DEF FlushInv
    <3>3. QED
      BY <2>1, <3>2 DEF FlushInv, Rearming
  <2>3. CASE Links \notin watches
    BY <1>7, <2>1, <2>3 DEF LinkChange, Notify, FlushInv, Rearming
  <2>4. QED
    BY <2>2, <2>3
<1>8. CASE UNCHANGED vars
  BY <1>8 DEF vars, FlushInv, Rearming
<1>9. QED
  BY <1>1, <1>2, <1>3, <1>4, <1>5, <1>6, <1>7, <1>8 DEF Next, Monitor

\* FlushInv holds until an unrelated directory is created in a watched one.
StrayOrFlush == stray \/ FlushInv

\* sd_network_monitor_flush never returns an error before an unrelated
\* directory appears in a watched directory: each inotify_rm_watch(e->wd)
\* removes a watch the monitor still holds, so no batch of events is cut
\* short by EINVAL.  For every bound on unrelated files and directories
\* and on link state files, whatever the reads and mkdirs interleave.
THEOREM FlushSucceedsHolds == Spec => []FlushSucceedsUnlessStray
<1>1. Init => StrayOrFlush
  BY FlushInit DEF StrayOrFlush
<1>2. StrayOrFlush /\ [Next]_vars => StrayOrFlush'
  <2> SUFFICES ASSUME StrayOrFlush, [Next]_vars, ~stray' PROVE FlushInv'
    BY DEF StrayOrFlush
  <2>1. ~stray /\ FlushInv
    BY StrayStays DEF StrayOrFlush
  <2>2. QED
    BY <2>1, FlushStep
<1>3. StrayOrFlush => FlushSucceedsUnlessStray
  BY DEF StrayOrFlush, FlushInv, FlushSucceedsUnlessStray, FlushSucceeds
<1>4. QED
  BY <1>1, <1>2, <1>3, PTL DEF Spec

====
