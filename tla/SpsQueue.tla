------------------------------ MODULE SpsQueue ------------------------------
(***************************************************************************)
(* The queue between the serial port and the BLE link,                     *)
(* src/features/dsps_ble_peripheral/dsps/dsps_queue.c: a queue of messages *)
(* with a high and a low water mark and the flag hwm_reached, which makes  *)
(* each crossing of a mark be reported once.  The two checks change the    *)
(* flag, so each comes as a test and as the queue it leaves.               *)
(***************************************************************************)
EXTENDS Integers, Sequences

CONSTANTS SIZE,           \* number of messages the queue takes
          LOW, HIGH       \* low_watermark, high_watermark

ASSUME MarksAssumption ==
  /\ LOW \in Nat /\ HIGH \in Nat /\ SIZE \in Nat
  /\ LOW < HIGH /\ HIGH < SIZE

\* hwm is hwm_reached: 0 or 1.
Queues(Msg) == [items : Seq(Msg), hwm : {0, 1}]

NewDirty == [items |-> <<>>, hwm |-> 255]     \* mutant: hwm_reached as the heap left it
New == [items |-> <<>>, hwm |-> 0]

ItemCount(q) == Len(q.items)

Write(q, m) == [q EXCEPT !.items = Append(@, m)]

Pop(q) == [q EXCEPT !.items = IF @ = <<>> THEN @ ELSE Tail(@)]

AlmostFull(q)  == ItemCount(q) > HIGH /\ q.hwm = 0
AlmostEmpty(q) == ItemCount(q) <= LOW /\ q.hwm = 1

CheckedFull(q)  == IF AlmostFull(q) THEN [q EXCEPT !.hwm = 1] ELSE q
CheckedEmptyKeeps(q) == q                     \* mutant: hwm_reached is not reset
CheckedEmpty(q) == IF AlmostEmpty(q) THEN [q EXCEPT !.hwm = 0] ELSE q

=============================================================================
