--------------------------- MODULE SpsTasksProofs ---------------------------
(***************************************************************************)
(* The queue, its flag and its gate agree for every size, every pair of    *)
(* marks and every number of messages on the air (SpsTasks).               *)
(*                                                                         *)
(* The two tasks race for hwm_reached and for the gate.  What keeps them   *)
(* apart is a fact about numbers: a writer that has counted more than HIGH *)
(* messages and a reader that has counted no more than LOW cannot be under *)
(* way at the same time, since neither gets past HIGH - LOW operations     *)
(* while the other is inside one of its own (Apart).                       *)
(***************************************************************************)
EXTENDS SpsTasks, TLAPS

\* The writer, once it is bound to shut the gate.
Shutting ==
  /\ wpc = "flag" => ItemCount(q) <= wcount
  /\ (wpc = "flag" /\ wcount > HIGH) => ItemCount(q) + pops > HIGH
  /\ wpc = "act" => /\ q.hwm = 1 /\ gate = "open"
                    /\ ItemCount(q) + pops > HIGH

\* The reader, once it is bound to open the gate if it is shut.
Opening ==
  /\ (rpc = "flag" /\ rcount <= LOW) => ItemCount(q) <= LOW + writes
  /\ rpc = "act" => /\ q.hwm = 0 /\ gate = "shut"
                    /\ ItemCount(q) <= LOW + writes

\* They are never both.
Apart ==
  /\ ~((rpc = "act" \/ (rpc = "flag" /\ rcount <= LOW)) /\ wpc = "act")
  /\ ~((rpc = "act" \/ (rpc = "flag" /\ rcount <= LOW)) /\ wpc = "flag" /\ wcount > HIGH)

\* Otherwise the flag tells the gate.
GateFollows == (wpc # "act" /\ rpc # "act") => (gate = "shut" <=> q.hwm = 1)

\* What the flag says of the number of messages.
Low  == (q.hwm = 1 /\ (rpc = "idle" \/ (rpc = "flag" /\ rcount > LOW))) => ItemCount(q) > LOW
High == /\ q.hwm = 0 => ItemCount(q) <= HIGH + 1
        /\ (q.hwm = 0 /\ wpc = "idle") => ItemCount(q) <= HIGH
        /\ (q.hwm = 1 /\ wpc = "act") => ItemCount(q) <= HIGH + 1
        /\ (q.hwm = 1 /\ wpc # "act") => ItemCount(q) <= HIGH + 1 + late
        /\ late <= ON_AIR

IInv == TypeOK /\ Shutting /\ Opening /\ Apart /\ GateFollows /\ Low /\ High

-----------------------------------------------------------------------------

\* The length and the flag of a queue after the operations that change it.
LEMMA Lengths ==
  ASSUME NEW c \in Queues(Msg)
  PROVE  ItemCount(c) \in Nat /\ c.hwm \in {0, 1} /\ c.items \in Seq(Msg)
  BY DEF Queues, ItemCount

LEMMA AfterWrite ==
  ASSUME NEW c \in Queues(Msg), NEW m \in Msg
  PROVE  /\ Write(c, m) \in Queues(Msg)
         /\ ItemCount(Write(c, m)) = ItemCount(c) + 1
         /\ Write(c, m).hwm = c.hwm
  <1>1. Append(c.items, m) \in Seq(Msg) /\ Len(Append(c.items, m)) = Len(c.items) + 1
    BY DEF Queues
  <1> QED BY <1>1 DEF Queues, ItemCount, Write

LEMMA AfterPop ==
  ASSUME NEW c \in Queues(Msg), c.items # <<>>
  PROVE  /\ Pop(c) \in Queues(Msg)
         /\ ItemCount(Pop(c)) = ItemCount(c) - 1 /\ ItemCount(c) > 0
         /\ Pop(c).hwm = c.hwm
  <1>1. c.items \in Seq(Msg) BY DEF Queues
  <1>2. Tail(c.items) \in Seq(Msg) /\ Len(Tail(c.items)) = Len(c.items) - 1 /\ Len(c.items) > 0
    BY <1>1
  <1>3. Pop(c) = [c EXCEPT !.items = Tail(c.items)] BY DEF Pop
  <1> QED BY <1>2, <1>3 DEF Queues, ItemCount

LEMMA AfterFlag ==
  ASSUME NEW c \in Queues(Msg), NEW h \in {0, 1}
  PROVE  /\ [c EXCEPT !.hwm = h] \in Queues(Msg)
         /\ ItemCount([c EXCEPT !.hwm = h]) = ItemCount(c)
         /\ [c EXCEPT !.hwm = h].hwm = h
  BY DEF Queues, ItemCount

LEMMA InitHolds == Init => IInv
  <1> SUFFICES ASSUME Init PROVE IInv OBVIOUS
  <1> USE MarksAssumption, TasksAssumption DEF Init, New, Queues, ItemCount
  <1>1. ItemCount(q) = 0 BY DEF ItemCount
  <1>2. TypeOK BY DEF TypeOK
  <1> QED BY <1>1, <1>2 DEF IInv, Shutting, Opening, Apart, GateFollows, Low, High

LEMMA StepHolds == IInv /\ [Next]_vars => IInv'
  <1> SUFFICES ASSUME IInv, [Next]_vars PROVE IInv' OBVIOUS
  <1> USE MarksAssumption, TasksAssumption
  <1> DEFINE n == ItemCount(q)
             Rest == Shutting /\ Opening /\ Apart /\ GateFollows /\ Low /\ High
  <1>0. /\ n \in Nat /\ q.hwm \in {0, 1} /\ pops \in 0..PREEMPT /\ writes \in 0..PREEMPT
        /\ late \in Nat /\ wcount \in Nat /\ rcount \in Nat /\ q \in Queues(Msg)
    BY Lengths DEF IInv, TypeOK
  <1>1. ASSUME NEW m \in Msg, WriteItem(m) PROVE IInv'
    <2>1. q' \in Queues(Msg) /\ n' = n + 1 /\ q'.hwm = q.hwm
      BY <1>0, <1>1, AfterWrite DEF WriteItem
    <2>2. TypeOK' BY <1>0, <1>1, <2>1 DEF IInv, TypeOK, WriteItem
    <2>3. Rest'
      BY <1>0, <1>1, <2>1 DEF WriteItem, IInv, Shutting, Opening, Apart, GateFollows, Low, High
    <2> QED BY <2>2, <2>3 DEF IInv
  <1>2. CASE CountForFull
    <2>1. TypeOK' BY <1>0, <1>2 DEF IInv, TypeOK, CountForFull
    <2>2. Rest'
      BY <1>0, <1>2 DEF CountForFull, IInv, Shutting, Opening, Apart, GateFollows, Low, High
    <2> QED BY <2>1, <2>2 DEF IInv
  <1>3. CASE FlagFull
    <2>1. q' \in Queues(Msg) /\ n' = n /\ (q' = q \/ q'.hwm = 1)
      BY <1>0, <1>3, AfterFlag DEF FlagFull
    <2>2. TypeOK' BY <1>0, <1>3, <2>1 DEF IInv, TypeOK, FlagFull
    <2>3. CASE wcount > HIGH /\ q.hwm = 0
      <3>1. q'.hwm = 1
        <4>1. q' = [q EXCEPT !.hwm = 1] BY <1>3, <2>3 DEF FlagFull
        <4> QED BY <1>0, <4>1 DEF Queues
      <3>2. gate \in {"open", "shut"} BY DEF IInv, TypeOK
      <3>3. Rest' BY <1>0, <1>3, <2>1, <2>3, <3>1, <3>2
        DEF FlagFull, IInv, Shutting, Opening, Apart, GateFollows, Low, High
      <3> QED BY <2>2, <3>3 DEF IInv
    <2>4. CASE ~(wcount > HIGH /\ q.hwm = 0)
      <3>1. Rest' BY <1>0, <1>3, <2>1, <2>4
        DEF FlagFull, IInv, Shutting, Opening, Apart, GateFollows, Low, High
      <3> QED BY <2>2, <3>1 DEF IInv
    <2> QED BY <2>3, <2>4
  <1>4. CASE Shut
    <2>1. TypeOK' BY <1>0, <1>4 DEF IInv, TypeOK, Shut
    <2>2. Rest'
      BY <1>0, <1>4 DEF Shut, IInv, Shutting, Opening, Apart, GateFollows, Low, High
    <2> QED BY <2>1, <2>2 DEF IInv
  <1>5. CASE PopItem
    <2>1. q' \in Queues(Msg) /\ n' = n - 1 /\ n > 0 /\ q'.hwm = q.hwm
      BY <1>0, <1>5, AfterPop DEF PopItem
    <2>2. TypeOK' BY <1>0, <1>5, <2>1 DEF IInv, TypeOK, PopItem
    <2>3. Rest'
      BY <1>0, <1>5, <2>1 DEF PopItem, IInv, Shutting, Opening, Apart, GateFollows, Low, High
    <2> QED BY <2>2, <2>3 DEF IInv
  <1>6. CASE CountForEmpty
    <2>1. TypeOK' BY <1>0, <1>6 DEF IInv, TypeOK, CountForEmpty
    <2>2. Rest'
      BY <1>0, <1>6 DEF CountForEmpty, IInv, Shutting, Opening, Apart, GateFollows, Low, High
    <2> QED BY <2>1, <2>2 DEF IInv
  <1>7. CASE FlagEmpty
    <2>1. q' \in Queues(Msg) /\ n' = n
      BY <1>0, <1>7, AfterFlag DEF FlagEmpty
    <2>2. TypeOK' BY <1>0, <1>7, <2>1 DEF IInv, TypeOK, FlagEmpty
    <2>3. CASE rcount <= LOW /\ q.hwm = 1
      <3>1. q'.hwm = 0 BY <1>0, <1>7, <2>3, AfterFlag DEF FlagEmpty
      <3>2. Rest' BY <1>0, <1>7, <2>1, <2>3, <3>1
        DEF FlagEmpty, IInv, Shutting, Opening, Apart, GateFollows, Low, High
      <3> QED BY <2>2, <3>2 DEF IInv
    <2>4. CASE ~(rcount <= LOW /\ q.hwm = 1)
      <3>1. Rest' BY <1>0, <1>7, <2>1, <2>4
        DEF FlagEmpty, IInv, Shutting, Opening, Apart, GateFollows, Low, High
      <3> QED BY <2>2, <3>1 DEF IInv
    <2> QED BY <2>3, <2>4
  <1>8. CASE Open
    <2>1. TypeOK' BY <1>0, <1>8 DEF IInv, TypeOK, Open
    <2>2. Rest'
      BY <1>0, <1>8 DEF Open, IInv, Shutting, Opening, Apart, GateFollows, Low, High
    <2> QED BY <2>1, <2>2 DEF IInv
  <1>9. CASE UNCHANGED vars
    BY <1>9 DEF vars, IInv, TypeOK, Shutting, Opening, Apart, GateFollows, Low, High
  <1> QED BY <1>1, <1>2, <1>3, <1>4, <1>5, <1>6, <1>7, <1>8, <1>9 DEF Next, Writer, Reader

LEMMA Invariance == Spec => []IInv
  <1> QED BY InitHolds, StepHolds, PTL DEF Spec

-----------------------------------------------------------------------------

\* Every variable keeps its type, and no task gets further than PREEMPT operations while the
\* other is inside one of its own.
THEOREM TasksTypeCorrect == Spec => []TypeOK
  <1>1. IInv => TypeOK BY DEF IInv
  <1> QED BY <1>1, Invariance, PTL

\* The assertion of sps_queue_write_items: the queue never takes more messages than it has room for.
THEOREM QueueNeverFull == Spec => []NeverFull
  <1>1. IInv => NeverFull
    <2> SUFFICES ASSUME IInv PROVE NeverFull OBVIOUS
    <2>1. ItemCount(q) \in Nat /\ q.hwm \in {0, 1} /\ late \in Nat
      BY Lengths DEF IInv, TypeOK
    <2> QED BY <2>1, MarksAssumption, TasksAssumption DEF IInv, High, NeverFull
  <1> QED BY <1>1, Invariance, PTL

\* Whenever both tasks rest and the gate is shut, the pop that opens it is still to come.
THEOREM GateNeverStuck == Spec => []NeverStuck
  <1>1. IInv => NeverStuck BY DEF IInv, GateFollows, Low, NeverStuck
  <1> QED BY <1>1, Invariance, PTL

\* Whenever both tasks rest with the queue above the high mark, the gate is shut.
THEOREM SourceHeldBack == Spec => []HeldBack
  <1>1. IInv => HeldBack
    <2> SUFFICES ASSUME IInv PROVE HeldBack OBVIOUS
    <2>1. ItemCount(q) \in Nat /\ q.hwm \in {0, 1}
      BY Lengths DEF IInv, TypeOK
    <2> QED BY <2>1, MarksAssumption DEF IInv, GateFollows, High, HeldBack
  <1> QED BY <1>1, Invariance, PTL
=============================================================================
