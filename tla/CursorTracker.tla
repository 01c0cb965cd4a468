---------------------------- MODULE CursorTracker ----------------------------
(***************************************************************************)
(* What the forwarder promises about the journal cursor (spec 3, invariant *)
(* 2; 4.6; 8.1 and 8.2), without transports, descriptors or errors: it    *)
(* delivers the records in journal order, persists a cursor that is never *)
(* ahead of what it delivered, and after a restart resumes at the         *)
(* persisted cursor, so that delivery is at least once.                   *)
(*                                                                         *)
(* NetlogManager implements this specification under the refinement      *)
(* mapping delivered <- written.                                          *)
(***************************************************************************)
EXTENDS Naturals, TLAPS

CONSTANTS NRec, MaxRestart

VARIABLES
    cursor,      \* the in-memory cursor: records 1..cursor were handled
    persisted,   \* the cursor in the state file
    delivered,   \* the records the collector has been handed whole
    restarts     \* restarts so far

vars == <<cursor, persisted, delivered, restarts>>

Init ==
    /\ cursor = 0 /\ persisted = 0 /\ delivered = {} /\ restarts = 0

\* record_sent(): the next record reaches the collector and the cursor
\* moves past it.
Send ==
    /\ cursor < NRec
    /\ delivered' = delivered \cup {cursor + 1}
    /\ cursor' = cursor + 1
    /\ UNCHANGED <<persisted, restarts>>

\* flush(): the state file now holds the cursor.
Flush ==
    /\ persisted' = cursor
    /\ UNCHANGED <<cursor, delivered, restarts>>

\* A restart resumes at the persisted cursor.
Restart ==
    /\ restarts < MaxRestart
    /\ cursor' = persisted
    /\ restarts' = restarts + 1
    /\ UNCHANGED <<persisted, delivered>>

\* A graceful shutdown flushes, and the service is started again.
Shutdown ==
    /\ restarts < MaxRestart
    /\ persisted' = cursor
    /\ restarts' = restarts + 1
    /\ UNCHANGED <<cursor, delivered>>

Next == Send \/ Flush \/ Restart \/ Shutdown

Spec == Init /\ [][Next]_vars

-----------------------------------------------------------------------------
(* Properties and their proofs.                                            *)

\* Counters are naturals; no bound on NRec or MaxRestart is needed.
TypeOK ==
    /\ cursor \in Nat /\ persisted \in Nat /\ restarts \in Nat

\* No cursor beyond sent (spec 8.2): every record up to the persisted
\* cursor has been delivered, so that a restart never skips one.
PersistedDelivered == \A i \in 1 .. persisted : i \in delivered

\* Cursor monotonicity (spec 8.1): the persisted cursor never moves back,
\* across flushes, restarts and shutdowns.
PersistedMonotone == [][persisted' >= persisted]_vars

\* The inductive invariant: the in-memory cursor is never behind the
\* persisted one and every record up to it was delivered.
Inv ==
    /\ TypeOK
    /\ persisted <= cursor
    /\ \A i \in 1 .. cursor : i \in delivered

LEMMA InvInit == Init => Inv
  BY DEF Init, Inv, TypeOK

LEMMA InvStep == Inv /\ [Next]_vars => Inv'
<1> SUFFICES ASSUME Inv, [Next]_vars PROVE Inv'
  OBVIOUS
<1>1. CASE Send
  BY <1>1 DEF Send, Inv, TypeOK
<1>2. CASE Flush
  BY <1>2 DEF Flush, Inv, TypeOK
<1>3. CASE Restart
  BY <1>3 DEF Restart, Inv, TypeOK
<1>4. CASE Shutdown
  BY <1>4 DEF Shutdown, Inv, TypeOK
<1>5. CASE UNCHANGED vars
  BY <1>5 DEF vars, Inv, TypeOK
<1>6. QED
  BY <1>1, <1>2, <1>3, <1>4, <1>5 DEF Next

\* The cursor tracker's promise: the persisted cursor never passes an
\* undelivered record.
THEOREM PersistedDeliveredHolds == Spec => []PersistedDelivered
<1>1. Inv => PersistedDelivered
  BY DEF Inv, PersistedDelivered, TypeOK
<1>2. QED
  BY <1>1, InvInit, InvStep, PTL DEF Spec

\* Every step of the tracker leaves the persisted cursor where it was or
\* moves it forward.
THEOREM PersistedMonotoneHolds == Spec => PersistedMonotone
<1>1. Inv /\ [Next]_vars => [persisted' >= persisted]_vars
  BY DEF Inv, TypeOK, Next, Send, Flush, Restart, Shutdown, vars
<1>2. QED
  BY <1>1, InvInit, InvStep, PTL DEF Spec, PersistedMonotone

====
