------------------------------ MODULE SpsTasks ------------------------------
(***************************************************************************)
(* One queue of SpsQueue used by two tasks of the same priority, as the    *)
(* callbacks of src/features/dsps_ble_peripheral/dsps_ble_peripheral_task.c*)
(* use it: a writer that shuts the gate of its source after the high mark, *)
(* and a reader that opens it again after the low one.  For the RX queue   *)
(* the writer is rx_data_cb, the reader rx_data_available and the gate the *)
(* flow control of the link; for the TX queue they are dsps_rx_task,       *)
(* tx_done_cb and dsps_read_ready.                                         *)
(*                                                                         *)
(* Nothing locks the queue together with its flag and its gate.  Either    *)
(* task may be preempted where it counts the messages, where it looks at   *)
(* hwm_reached and before it moves the gate; what the code relies on is    *)
(* that the other one gets only so far meanwhile (PREEMPT).                *)
(***************************************************************************)
EXTENDS SpsQueue

CONSTANTS Msg,       \* messages
          PREEMPT,   \* operations of one task while the other is inside one of its own
          ON_AIR     \* messages that still come after the gate is shut

ASSUME TasksAssumption ==
  /\ PREEMPT \in Nat /\ ON_AIR \in Nat
  /\ PREEMPT <= HIGH - LOW
  /\ HIGH + 1 + ON_AIR <= SIZE

VARIABLES
  q,             \* the queue
  gate,          \* "open" or "shut"
  late,          \* messages since the gate was shut
  wpc, wcount,   \* the writer: where it is, the number of messages it counted
  rpc, rcount,   \* the reader
  pops, writes   \* operations of the other task since this one began

vars == <<q, gate, late, wpc, wcount, rpc, rcount, pops, writes>>

Init == /\ q = New /\ gate = "open" /\ late = 0
        /\ wpc = "idle" /\ rpc = "idle" /\ wcount = 0 /\ rcount = 0
        /\ pops = 0 /\ writes = 0

-----------------------------------------------------------------------------
(* The writer: rx_data_cb.                                                 *)

\* A message comes, and sps_queue_write_items puts it into the queue.
WriteItem(m) ==
  /\ wpc = "idle"
  /\ gate = "open" \/ late < ON_AIR
  /\ rpc = "idle" \/ writes < PREEMPT
  /\ q' = Write(q, m)
  /\ wpc' = "count"
  /\ pops' = 0
  /\ writes' = IF rpc = "idle" THEN writes ELSE writes + 1
  /\ late' = IF gate = "open" THEN late ELSE late + 1
  /\ UNCHANGED <<gate, wcount, rpc, rcount>>

\* sps_queue_check_almost_full: the number of messages, then the flag.
CountForFull ==
  /\ wpc = "count"
  /\ wcount' = ItemCount(q)
  /\ wpc' = "flag"
  /\ UNCHANGED <<q, gate, late, rpc, rcount, pops, writes>>

FlagFullLate ==         \* mutant: one message too many before the mark counts as crossed
  /\ wpc = "flag"
  /\ IF wcount > HIGH + 1 /\ q.hwm = 0
     THEN q' = [q EXCEPT !.hwm = 1] /\ wpc' = "act"
     ELSE q' = q /\ wpc' = "idle"
  /\ UNCHANGED <<gate, late, wcount, rpc, rcount, pops, writes>>
FlagFullUnset ==        \* mutant: hwm_reached is not set
  /\ wpc = "flag"
  /\ wpc' = IF wcount > HIGH /\ q.hwm = 0 THEN "act" ELSE "idle"
  /\ UNCHANGED <<q, gate, late, wcount, rpc, rcount, pops, writes>>
FlagFull ==
  /\ wpc = "flag"
  /\ IF wcount > HIGH /\ q.hwm = 0
     THEN q' = [q EXCEPT !.hwm = 1] /\ wpc' = "act"
     ELSE q' = q /\ wpc' = "idle"
  /\ UNCHANGED <<gate, late, wcount, rpc, rcount, pops, writes>>

Shut ==
  /\ wpc = "act"
  /\ gate' = "shut" /\ late' = 0
  /\ wpc' = "idle"
  /\ UNCHANGED <<q, wcount, rpc, rcount, pops, writes>>

-----------------------------------------------------------------------------
(* The reader: rx_data_available.                                          *)

PopItem ==
  /\ rpc = "idle"
  /\ q.items # <<>>
  /\ wpc = "idle" \/ pops < PREEMPT
  /\ q' = Pop(q)
  /\ rpc' = "count"
  /\ writes' = 0
  /\ pops' = IF wpc = "idle" THEN pops ELSE pops + 1
  /\ UNCHANGED <<gate, late, wpc, wcount, rcount>>

CountForEmpty ==
  /\ rpc = "count"
  /\ rcount' = ItemCount(q)
  /\ rpc' = "flag"
  /\ UNCHANGED <<q, gate, late, wpc, wcount, pops, writes>>

FlagEmptyBelow ==       \* mutant: "< low water mark"
  /\ rpc = "flag"
  /\ IF rcount < LOW /\ q.hwm = 1
     THEN q' = [q EXCEPT !.hwm = 0] /\ rpc' = "act"
     ELSE q' = q /\ rpc' = "idle"
  /\ UNCHANGED <<gate, late, wpc, wcount, rcount, pops, writes>>
FlagEmpty ==
  /\ rpc = "flag"
  /\ IF rcount <= LOW /\ q.hwm = 1
     THEN q' = [q EXCEPT !.hwm = 0] /\ rpc' = "act"
     ELSE q' = q /\ rpc' = "idle"
  /\ UNCHANGED <<gate, late, wpc, wcount, rcount, pops, writes>>

Open ==
  /\ rpc = "act"
  /\ gate' = "open"
  /\ rpc' = "idle"
  /\ UNCHANGED <<q, late, wpc, wcount, rcount, pops, writes>>

Writer == (\E m \in Msg : WriteItem(m)) \/ CountForFull \/ FlagFull \/ Shut
Reader == PopItem \/ CountForEmpty \/ FlagEmpty \/ Open

Next == Writer \/ Reader
Spec == Init /\ [][Next]_vars

\* Each task gets its turn; messages need not come.
Fairness == WF_vars(CountForFull \/ FlagFull \/ Shut) /\ WF_vars(Reader)
FairSpec == Spec /\ Fairness

-----------------------------------------------------------------------------
(* Properties.                                                             *)

TypeOK ==
  /\ q \in Queues(Msg)
  /\ gate \in {"open", "shut"} /\ late \in Nat
  /\ wpc \in {"idle", "count", "flag", "act"} /\ wcount \in Nat
  /\ rpc \in {"idle", "count", "flag", "act"} /\ rcount \in Nat
  /\ pops \in 0..PREEMPT /\ writes \in 0..PREEMPT

\* OS_ASSERT(ret != OS_QUEUE_FULL) of sps_queue_write_items never fails: the room above the
\* high mark is enough for what comes before the source hears of the shut gate.
NeverFull == ItemCount(q) <= SIZE

\* The gate is shut only while the reader has enough to do to open it again: whenever both
\* tasks rest, a shut gate means more messages than the low mark, so that the pop that
\* crosses the mark is still to come.  Otherwise the source would wait for ever.
NeverStuck == (gate = "shut" /\ rpc = "idle" /\ wpc = "idle") => ItemCount(q) > LOW

\* Whenever both tasks rest, the source is held back if the queue is above the high mark.
HeldBack == (wpc = "idle" /\ rpc = "idle" /\ ItemCount(q) > HIGH) => gate = "shut"

\* A shut gate opens again.
Reopens == gate = "shut" ~> gate = "open"

=============================================================================
