------------------------------ MODULE DspsLink ------------------------------
(***************************************************************************)
(* The Dialog Serial Port Service between two boards: the peripheral "P"   *)
(* (src/features/dsps_ble_peripheral) and the central "C"                  *)
(* (src/features/dsps_ble_central), each with a serial port, a queue in    *)
(* each direction and three tasks that wake each other with notification   *)
(* bits, and the BLE link between them.                                    *)
(*                                                                         *)
(* A task runs from one place where it may block to the next in one step:  *)
(* blocking are the wait for a notification, the write to the serial port  *)
(* and the write to a full queue.  What preemption inside a step can do    *)
(* to a queue, its flag and its gate is the subject of SpsTasks.           *)
(*                                                                         *)
(* air[s] is the stream of events that the stack of the other side gets    *)
(* from s, in order: data, values of the flow control characteristic,      *)
(* writes of a CCC, and the beginning and the end of a connection.         *)
(* Messages are numbered modulo K, so that each serial port can tell the   *)
(* order of what it puts out.                                              *)
(***************************************************************************)
EXTENDS Integers, Sequences, FiniteSets

CONSTANTS
  TX_SIZE, TX_LOW, TX_HIGH,  \* TX_SPS_QUEUE_SIZE, TX_QUEUE_LWM, TX_QUEUE_HWM
  RX_SIZE, RX_LOW, RX_HIGH,  \* RX_SPS_QUEUE_SIZE, RX_QUEUE_LWM, RX_QUEUE_HWM
  K,          \* messages are numbered modulo K
  None,       \* no message, no queue
  AIR,        \* bound: events between two stacks when a packet is reported sent
  Scenarios   \* what may come from outside: see below

Sides == {"P", "C"}
Other(s) == IF s = "P" THEN "C" ELSE "P"

\* talk: the sides whose serial port has input; ends: the number at which the input ends, K if
\* it does not; and two bounds, on the calls of the stack that fail and the connections lost.
ScenarioType == [talk : SUBSET Sides, ends : 0..K, fails : Nat, losses : Nat]

TQ == INSTANCE SpsQueue WITH SIZE <- TX_SIZE, LOW <- TX_LOW, HIGH <- TX_HIGH
RQ == INSTANCE SpsQueue WITH SIZE <- RX_SIZE, LOW <- RX_LOW, HIGH <- RX_HIGH

Number == 0..K-1
Following(k) == (k + 1) % K

ASSUME LinkAssumption ==
  /\ K \in Nat \ {0} /\ AIR \in Nat /\ Scenarios \subseteq ScenarioType
  /\ TQ!MarksAssumption /\ RQ!MarksAssumption
  /\ None \notin Number /\ None \notin TQ!Queues(Number)

Data(k) == [type |-> "data", value |-> k]
Flow(v) == [type |-> "flow", value |-> v]
Ccc(h)  == [type |-> "ccc", value |-> h]
Gap(e)  == [type |-> "gap", value |-> e]

VARIABLES
  node,    \* node[s]: the state of side s
  air,     \* air[s]: see above
  link,    \* "up" or "down"
  in, out, \* the next number at the serial input of s, the one expected of s at the far end
  turn,    \* turn[s]: s has got an event since the stack last reported a packet sent
  fails, losses,
  scenario \* the one of Scenarios that happens

vars == <<node, air, link, in, out, turn, fails, losses, scenario>>

Unconnected ==
  [conn |-> FALSE,      \* conn_idx # BLE_CONN_IDX_INVALID
   tx |-> None,         \* tx_queue
   rx |-> None,         \* rx_queue
   inprog |-> FALSE,    \* dsps_tx_in_inprogress
   sent |-> FALSE,      \* the packet at the head of tx_queue is with the stack
   ready |-> FALSE,     \* dsps_read_ready
   flow |-> "off",      \* P: value of the characteristic in ble_storage; C: dsps_flow_ctrl
   ccc |-> {},          \* P: the CCC descriptors that the client has enabled
   data |-> None,       \* dsps_data
   ble |-> FALSE,       \* SPS_BLE_TX_NOTIF pending for the BLE task
   rxt |-> {},          \* notifications pending for dsps_rx_task: "read", "start"
   txt |-> FALSE,       \* SPS_DATA_WRITE_NOTIF pending for dsps_tx_task
   reading |-> FALSE,   \* dsps_rx_task waits in the read of the serial port
   held |-> None,       \* dsps_tx_task: the message it is writing to the serial port
   closing |-> FALSE,   \* the BLE task waits in the handler of the disconnection
   halt |-> FALSE,      \* an assertion has failed
   fault |-> FALSE]     \* a queue was used that is no more

Init == /\ node = [s \in Sides |-> Unconnected]
        /\ air = [s \in Sides |-> <<>>]
        /\ link = "down"
        /\ in = [s \in Sides |-> 0]
        /\ out = [s \in Sides |-> 0]
        /\ turn = [s \in Sides |-> TRUE]
        /\ fails = 0 /\ losses = 0
        /\ scenario \in Scenarios

Items(queue) == IF queue = None THEN <<>> ELSE queue.items

-----------------------------------------------------------------------------
(* Calls of the stack.  What side s hands over reaches the other side in   *)
(* order if the link is up; a call may also fail.                          *)

Handed(s, a, packets) == [a EXCEPT ![s] = IF link = "up" THEN @ \o packets ELSE @]

\* A call whose status nobody looks at.
Call(s, a, packets) ==
  \/ air' = Handed(s, a, packets) /\ UNCHANGED fails
  \/ packets # <<>> /\ fails < scenario.fails /\ fails' = fails + 1 /\ air' = a

\* set_flow_control_cb and dsps_set_flow_control of P: the node, and what goes out.  There is
\* nothing to store the value in once the connection is gone.
PeriphFlowSleeps(n, v) ==       \* mutant: the BLE task is not woken
  [n EXCEPT !.flow = IF n.conn THEN v ELSE @,
            !.rxt = IF v = "on" THEN @ \cup {"start"} ELSE @]
PeriphFlow(n, v) ==
  [n EXCEPT !.flow = IF n.conn THEN v ELSE @, !.ble = @ \/ v = "on",
            !.rxt = IF v = "on" THEN @ \cup {"start"} ELSE @]
PeriphNotifiedOn(n, v) ==       \* mutant: the value "off" is not notified
  IF "flow" \in n.ccc /\ v = "on" THEN <<Flow(v)>> ELSE <<>>
PeriphNotified(n, v) == IF "flow" \in n.ccc THEN <<Flow(v)>> ELSE <<>>

\* How side s tells the other side to stop or to go on; C writes the characteristic
\* (dsps_set_flow_control_host).
FlowSet(s, n, v)  == IF s = "P" THEN PeriphFlow(n, v) ELSE n
FlowSent(s, n, v) ==
  IF s = "P" THEN PeriphNotified(n, v) ELSE IF n.conn THEN <<Flow(v)>> ELSE <<>>

-----------------------------------------------------------------------------
(* The BLE task.                                                           *)

Incoming(s) == air[Other(s)]
Taken(s) == [air EXCEPT ![Other(s)] = Tail(@)]

\* The BLE task of s handles an event of this type.
Handles(s, type) ==
  /\ ~node[s].halt /\ ~node[s].closing
  /\ Incoming(s) # <<>> /\ Head(Incoming(s)).type = type

\* C takes data only while it was last told "on".
Accepts(s) == s = "P" \/ node[s].flow = "on"

IgnoreData(s) ==
  /\ Handles(s, "data") /\ ~Accepts(s)
  /\ air' = Taken(s)
  /\ turn' = [turn EXCEPT ![s] = TRUE]
  /\ UNCHANGED <<node, link, in, out, fails, losses, scenario>>

\* rx_data_cb.
ReceiveData(s) ==
  /\ Handles(s, "data") /\ Accepts(s)
  /\ node[s].rx # None /\ RQ!ItemCount(node[s].rx) < RX_SIZE
  /\ LET q == RQ!Write(node[s].rx, Head(Incoming(s)).value)
         n == [node[s] EXCEPT !.rx = RQ!CheckedFull(q), !.txt = TRUE]
     IN  IF RQ!AlmostFull(q)
         THEN /\ node' = [node EXCEPT ![s] = FlowSet(s, n, "off")]
              /\ Call(s, Taken(s), FlowSent(s, n, "off"))
         ELSE /\ node' = [node EXCEPT ![s] = n]
              /\ air' = Taken(s) /\ UNCHANGED fails
  /\ turn' = [turn EXCEPT ![s] = TRUE]
  /\ UNCHANGED <<link, in, out, losses, scenario>>

\* P: set_flow_control_req, the client writes the characteristic.
PeriphReceiveFlow ==
  /\ Handles("P", "flow")
  /\ LET v == Head(Incoming("P")).value
     IN  /\ node' = [node EXCEPT !["P"] = PeriphFlow(node["P"], v)]
         /\ Call("P", Taken("P"), PeriphNotified(node["P"], v))
  /\ turn' = [turn EXCEPT !["P"] = TRUE]
  /\ UNCHANGED <<link, in, out, losses, scenario>>

\* P: handle_tx_ccc_write, handle_flow_ctrl_ccc_write; the latter notifies the value.
PeriphReceiveCcc ==
  /\ Handles("P", "ccc")
  /\ LET h == Head(Incoming("P")).value
     IN  /\ node' = [node EXCEPT !["P"] = [node["P"] EXCEPT !.ccc = @ \cup {h}]]
         /\ Call("P", Taken("P"), IF h = "flow" THEN <<Flow(node["P"].flow)>> ELSE <<>>)
  /\ turn' = [turn EXCEPT !["P"] = TRUE]
  /\ UNCHANGED <<link, in, out, losses, scenario>>

\* C: handle_evt_gattc_notification of the flow control characteristic.
CentralReceiveFlow ==
  /\ Handles("C", "flow")
  /\ LET v == Head(Incoming("C")).value
     IN  node' = [node EXCEPT !["C"] = [node["C"] EXCEPT !.flow = v, !.ble = @ \/ v = "on"]]
  /\ air' = Taken("C")
  /\ turn' = [turn EXCEPT !["C"] = TRUE]
  /\ UNCHANGED <<link, in, out, fails, losses, scenario>>

\* tx_data_available.  P takes a packet for sent whatever the stack says (dsps_tx_data).
MaySendTwice(s) ==              \* mutant: no test of dsps_tx_in_inprogress
  /\ Items(node[s].tx) # <<>> /\ node[s].flow = "on" /\ (s = "P" => "tx" \in node[s].ccc)
MaySend(s) ==
  LET n == node[s]
  IN  /\ ~n.inprog /\ Items(n.tx) # <<>>
      /\ n.flow = "on" /\ (s = "P" => "tx" \in n.ccc)

BleTx(s) ==
  /\ ~node[s].halt /\ ~node[s].closing /\ node[s].ble
  /\ IF ~MaySend(s)
     THEN node' = [node EXCEPT ![s] = [node[s] EXCEPT !.ble = FALSE]] /\ UNCHANGED <<air, fails>>
     ELSE \/ /\ link = "up"
             /\ node' = [node EXCEPT ![s] = [node[s] EXCEPT !.ble = FALSE, !.inprog = TRUE, !.sent = TRUE]]
             /\ air' = Handed(s, air, <<Data(Head(node[s].tx.items))>>)
             /\ UNCHANGED fails
          \/ /\ link = "down" \/ fails < scenario.fails
             /\ fails' = IF link = "down" THEN fails ELSE fails + 1
             /\ node' = [node EXCEPT ![s] = [node[s] EXCEPT !.ble = FALSE, !.inprog = s = "P"]]
             /\ UNCHANGED air
  /\ UNCHANGED <<link, in, out, turn, losses, scenario>>

\* tx_done_cb: the stack reports the packet at the head of tx_queue sent.  The link layer takes
\* turns: while something from the other side is under way, one packet goes for each that comes.
TxDone(s) ==
  /\ ~node[s].halt /\ ~node[s].closing /\ node[s].sent
  /\ turn[s] \/ Incoming(s) = <<>>
  /\ Len(air[s]) <= AIR
  /\ LET q == TQ!Pop(node[s].tx)
         again == TQ!AlmostEmpty(q)
     IN  node' = [node EXCEPT ![s] =
           [node[s] EXCEPT !.inprog = FALSE, !.sent = FALSE, !.tx = TQ!CheckedEmpty(q),
                     !.ready = @ \/ again, !.rxt = IF again THEN @ \cup {"start"} ELSE @,
                     !.ble = @ \/ TQ!ItemCount(q) > 0]]
  /\ turn' = [turn EXCEPT ![s] = FALSE]
  /\ UNCHANGED <<air, link, in, out, fails, losses, scenario>>

-----------------------------------------------------------------------------
(* dsps_rx_task, from the serial port to the link.                         *)

\* It takes its notifications: stores the message it has read, and begins to read again.
RxWake(s) ==
  /\ ~node[s].halt /\ ~node[s].reading /\ node[s].rxt # {}
  /\ LET n == node[s]
         stores == "read" \in n.rxt
         q == TQ!Write(n.tx, n.data)
         ready == n.ready /\ ~(stores /\ n.tx # None /\ TQ!AlmostFull(q))
     IN  /\ stores /\ n.tx # None => TQ!ItemCount(n.tx) < TX_SIZE
         /\ node' = [node EXCEPT ![s] =
              [n EXCEPT !.tx = IF stores /\ @ # None THEN TQ!CheckedFull(q) ELSE @,
                        !.fault = @ \/ (stores /\ n.tx = None),
                        !.data = IF stores THEN None ELSE @,
                        !.ready = ready,
                        !.ble = @ \/ stores,
                        !.rxt = IF stores THEN {"start"} ELSE {},
                        !.reading = "start" \in n.rxt /\ n.conn /\ ready]]
  /\ UNCHANGED <<air, link, in, out, fails, turn, losses, scenario>>

HasInput(s) == s \in scenario.talk /\ in[s] < scenario.ends

RxRead(s) ==
  /\ ~node[s].halt /\ node[s].reading /\ HasInput(s)
  /\ node' = [node EXCEPT ![s] =
       [node[s] EXCEPT !.reading = FALSE, !.data = in[s], !.rxt = @ \cup {"read"}]]
  /\ in' = [in EXCEPT ![s] = Following(@)]
  /\ UNCHANGED <<air, link, out, fails, turn, losses, scenario>>

\* The read times out.  If the task may go on reading it does, and nothing has changed.
RxTimeout(s) ==
  /\ ~node[s].halt /\ node[s].reading
  /\ ~(node[s].conn /\ node[s].ready)
  /\ node' = [node EXCEPT ![s] = [node[s] EXCEPT !.reading = FALSE, !.rxt = @ \cup {"start"}]]
  /\ UNCHANGED <<air, link, in, out, fails, turn, losses, scenario>>

-----------------------------------------------------------------------------
(* dsps_tx_task, from the link to the serial port: rx_data_available.      *)

TxTake(s) ==
  /\ ~node[s].halt /\ node[s].held = None /\ node[s].txt
  /\ LET n == node[s]
     IN  node' = [node EXCEPT ![s] =
           IF Items(n.rx) = <<>> THEN [n EXCEPT !.txt = FALSE]
           ELSE [n EXCEPT !.txt = FALSE, !.held = Head(n.rx.items), !.rx = RQ!Pop(@)]]
  /\ UNCHANGED <<air, link, in, out, fails, turn, losses, scenario>>

\* What sps_queue_check_almost_empty may find: of a queue that is no more, anything.
FoundLow(queue) == IF queue = None THEN BOOLEAN ELSE {RQ!AlmostEmpty(queue)}

\* The write to the serial port returns.  If the queue has been freed meanwhile, because the port
\* was closed by force, the message may not be out, and the marks are read through a null pointer.
\* (A board that this stops takes no further step.)
TxWritten(s) ==
  /\ ~node[s].halt /\ node[s].held # None
  /\ LET gone == node[s].rx = None
         n == [node[s] EXCEPT !.held = None, !.rx = IF gone THEN None ELSE RQ!CheckedEmpty(@),
                              !.txt = @ \/ Items(node[s].rx) # <<>>, !.fault = @ \/ gone]
     IN  /\ \E low \in FoundLow(node[s].rx) :
              IF low THEN /\ node' = [node EXCEPT ![s] = FlowSet(s, n, "on")]
                          /\ Call(s, air, FlowSent(s, n, "on"))
                     ELSE /\ node' = [node EXCEPT ![s] = n]
                          /\ UNCHANGED <<air, fails>>
         /\ \/ out' = [out EXCEPT ![Other(s)] = Following(node[s].held)]
            \/ gone /\ UNCHANGED out
  /\ UNCHANGED <<link, in, turn, losses, scenario>>

\* sps_queue_write_items has waited QUEUE_WAIT_WRITE_TICKS for room, and its assertion fails.
WriteBlocked(s) ==
  \/ node[s].rx # None /\ RQ!ItemCount(node[s].rx) = RX_SIZE /\ Handles(s, "data") /\ Accepts(s)
  \/ /\ node[s].tx # None /\ TQ!ItemCount(node[s].tx) = TX_SIZE
     /\ "read" \in node[s].rxt /\ ~node[s].reading
QueueFull(s) ==
  /\ ~node[s].halt /\ WriteBlocked(s)
  /\ node' = [node EXCEPT ![s] = [node[s] EXCEPT !.halt = TRUE]]
  /\ UNCHANGED <<air, link, in, out, fails, turn, losses, scenario>>

-----------------------------------------------------------------------------
(* Connections.                                                            *)

WithQueues(n) == [n EXCEPT !.tx = TQ!New, !.rx = RQ!New, !.ready = TRUE]

\* A central finds the advertising peripheral, and both stacks report the connection.
LinkUp ==
  /\ link = "down"
  /\ \A s \in Sides : ~node[s].conn /\ ~node[s].closing /\ air[s] = <<>> /\ ~node[s].halt
  /\ link' = "up"
  /\ air' = [s \in Sides |-> <<Gap("begin")>>]
  /\ UNCHANGED <<node, in, out, fails, turn, losses, scenario>>

\* The connection is lost: what follows some packet never arrives.
LinkLoss ==
  /\ link = "up" /\ losses < scenario.losses
  /\ losses' = losses + 1
  /\ link' = "down"
  /\ \E p \in 0..Len(air["P"]), c \in 0..Len(air["C"]) :
       LET kept == [s \in Sides |-> IF s = "P" THEN p ELSE c]
       IN  /\ \A s \in Sides : \A i \in kept[s]+1..Len(air[s]) : air[s][i].type # "gap"
           /\ air' = [s \in Sides |-> Append(SubSeq(air[s], 1, kept[s]), Gap("end"))]
  /\ UNCHANGED <<node, in, out, turn, fails, scenario>>

\* handle_evt_gap_connected.  C goes on to discover the service first.
Connected(s) ==
  /\ Handles(s, "gap") /\ Head(Incoming(s)).value = "begin"
  /\ node' = [node EXCEPT ![s] = IF s = "P" THEN [WithQueues(node[s]) EXCEPT !.conn = TRUE]
                                 ELSE [node[s] EXCEPT !.conn = TRUE]]
  /\ air' = Taken(s)
  /\ turn' = [turn EXCEPT ![s] = TRUE]
  /\ UNCHANGED <<link, in, out, fails, losses, scenario>>

\* C: handle_evt_gattc_browse_svc enables the notifications and
\* handle_evt_gattc_browse_completed begins the traffic; the stack carries out the writes of
\* a client in the order of the calls.
BrowsedOnFirst ==               \* mutant: traffic begins before the notifications are enabled
  /\ node["C"].conn /\ node["C"].tx = None /\ ~node["C"].closing /\ ~node["C"].halt
  /\ node' = [node EXCEPT !["C"] = [WithQueues(node["C"]) EXCEPT !.rxt = @ \cup {"start"}]]
  /\ air' = Handed("C", air, <<Flow("on"), Ccc("tx"), Ccc("flow")>>)
  /\ UNCHANGED <<link, in, out, turn, fails, losses, scenario>>
Browsed ==
  /\ node["C"].conn /\ node["C"].tx = None /\ ~node["C"].closing /\ ~node["C"].halt
  /\ node' = [node EXCEPT !["C"] = [WithQueues(node["C"]) EXCEPT !.rxt = @ \cup {"start"}]]
  /\ air' = Handed("C", air, <<Ccc("tx"), Ccc("flow"), Flow("on")>>)
  /\ UNCHANGED <<link, in, out, turn, fails, losses, scenario>>

\* handle_disconnected, handle_evt_gap_disconnected, up to their delay.  What ble_storage holds
\* for the connection goes with it; C keeps dsps_flow_ctrl.
CutInProgress(s, n) ==          \* mutant: dsps_tx_in_inprogress is not reset
  [n EXCEPT !.conn = FALSE, !.ready = FALSE, !.sent = FALSE, !.ccc = {},
            !.flow = IF s = "P" THEN "off" ELSE @, !.closing = TRUE]
Cut(s, n) == [n EXCEPT !.conn = FALSE, !.ready = FALSE, !.inprog = FALSE, !.sent = FALSE,
                       !.ccc = {}, !.flow = IF s = "P" THEN "off" ELSE @, !.closing = TRUE]
Disconnected(s) ==
  /\ Handles(s, "gap") /\ Head(Incoming(s)).value = "end"
  /\ node' = [node EXCEPT ![s] = Cut(s, node[s])]
  /\ air' = Taken(s)
  /\ turn' = [turn EXCEPT ![s] = TRUE]
  /\ UNCHANGED <<link, in, out, fails, losses, scenario>>

\* The rest of these handlers: they wait uart_rx_timeout, close the port and free the queues.
\* Closing the port waits for a read, which ends by its own time-out, but for a write no longer
\* than a second (uart_close).  Nothing waits for the other tasks to get on from there: one of them
\* may still have a message to store, or be about to look at the queue from which it got one.
FreeQueues(s) ==
  /\ node[s].closing /\ ~node[s].halt /\ ~node[s].reading
  /\ node' = [node EXCEPT ![s] = [node[s] EXCEPT !.tx = None, !.rx = None, !.closing = FALSE]]
  /\ UNCHANGED <<air, link, in, out, fails, turn, losses, scenario>>

-----------------------------------------------------------------------------
BleTask(s) ==
  \/ IgnoreData(s) \/ ReceiveData(s) \/ BleTx(s) \/ TxDone(s)
  \/ Connected(s) \/ Disconnected(s) \/ FreeQueues(s)
PeriphTask == PeriphReceiveFlow \/ PeriphReceiveCcc
CentralTask == CentralReceiveFlow \/ Browsed
RxTask(s) == RxWake(s) \/ RxRead(s) \/ RxTimeout(s)
TxTask(s) == TxTake(s) \/ TxWritten(s)

Next ==
  \/ \E s \in Sides : BleTask(s) \/ RxTask(s) \/ TxTask(s) \/ QueueFull(s)
  \/ PeriphTask \/ CentralTask \/ LinkUp \/ LinkLoss

Spec == Init /\ [][Next]_vars

\* Every task runs when it can.  Nothing comes at the serial input unless it likes, no connection
\* need be lost, and a write to the serial output may be held off for ever by its flow control.
Fairness ==
  /\ \A s \in Sides : /\ WF_vars(IgnoreData(s) \/ ReceiveData(s) \/ Connected(s) \/ Disconnected(s))
                      /\ WF_vars(BleTx(s)) /\ WF_vars(TxDone(s)) /\ WF_vars(FreeQueues(s))
                      /\ WF_vars(RxTask(s)) /\ WF_vars(TxTake(s)) /\ WF_vars(QueueFull(s))
  /\ WF_vars(PeriphTask) /\ WF_vars(CentralTask) /\ WF_vars(LinkUp)
FairSpec == Spec /\ Fairness

\* The equipment at the serial outputs takes what it is given, whatever becomes of its own input.
OutputsTaken == \A s \in Sides : WF_vars(TxWritten(s))
TakenSpec == FairSpec /\ OutputsTaken

-----------------------------------------------------------------------------
(* Properties.                                                             *)

\* The data among events, in their order.
DataIn(events) ==
  LET data[i \in 0..Len(events)] ==
        IF i = 0 THEN <<>>
        ELSE IF events[i].type = "data" THEN Append(data[i-1], events[i].value) ELSE data[i-1]
  IN  data[Len(events)]

\* The messages that went in at the serial port of s and are still to come out at the far end.
One(m) == IF m = None THEN <<>> ELSE <<m>>
Unsent(n) == IF ~n.conn THEN <<>> ELSE IF n.sent THEN Tail(n.tx.items) ELSE Items(n.tx)
InTransit(s) ==
  One(node[Other(s)].held) \o Items(node[Other(s)].rx) \o DataIn(air[s]) \o Unsent(node[s])
    \o One(node[s].data)

Nodes == [conn : BOOLEAN, tx : {None} \cup TQ!Queues(Number), rx : {None} \cup RQ!Queues(Number),
          inprog : BOOLEAN, sent : BOOLEAN, ready : BOOLEAN, flow : {"on", "off"},
          ccc : SUBSET {"tx", "flow"}, data : Number \cup {None}, ble : BOOLEAN,
          rxt : SUBSET {"read", "start"}, txt : BOOLEAN, reading : BOOLEAN,
          held : Number \cup {None}, closing : BOOLEAN, halt : BOOLEAN, fault : BOOLEAN]
Events == [type : {"data"}, value : Number] \cup [type : {"flow"}, value : {"on", "off"}]
          \cup [type : {"ccc"}, value : {"tx", "flow"}] \cup [type : {"gap"}, value : {"begin", "end"}]
TypeOK ==
  /\ node \in [Sides -> Nodes] /\ air \in [Sides -> Seq(Events)] /\ turn \in [Sides -> BOOLEAN]
  /\ in \in [Sides -> Number] /\ out \in [Sides -> Number]
  /\ link \in {"up", "down"} /\ scenario \in Scenarios
  /\ fails \in 0..scenario.fails /\ losses \in 0..scenario.losses

\* The link is the serial cable that the service stands for.
Cable == INSTANCE SerialCable WITH
  Ends <- Sides, firm <- scenario.losses = 0 /\ scenario.fails = 0,
  wire <- [s \in Sides |-> InTransit(s)], in <- in, out <- out
ImplementsCable == Cable!Spec

\* No assertion of sps_queue_write_items fails.
NeverHalts == \A s \in Sides : ~node[s].halt

\* Once a side has said "off", only packets on the fly still come: until it says "on", either its
\* word is on the way or the other side is held back.
HeldOff ==
  \A s \in Sides :
    (link = "up" /\ node[s].conn /\ node[s].rx # None /\ node[s].rx.hwm = 1) =>
      \/ node[Other(s)].flow = "off"
      \/ \E i \in DOMAIN air[s] : air[s][i] = Flow("off")

\* An assertion has failed, or a queue was used that is no more: nobody says how it goes on.
Astray == \E s \in Sides : node[s].halt \/ node[s].fault

\* "After sending data, service will call tx_done callback": a transfer begun comes to an end,
\* be it by the end of the connection, as long as the stack has taken everything.  (A refused
\* notification counts as on its way, and is never done.)
TxDoneUnlessRefused ==
  \A s \in Sides : node[s].inprog ~> (~node[s].inprog \/ Astray \/ fails > 0)

\* What was read at a serial port comes out at the other one: as long as messages are in transit
\* and the stack has refused nothing, one after the other comes out.
Progress ==
  \A s \in Sides :
    []<>(InTransit(s) = <<>> \/ Astray \/ fails > 0) \/ []<><<out'[s] # out[s]>>_vars

=============================================================================
