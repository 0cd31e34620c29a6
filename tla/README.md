# A specification of BLE_SDK10_examples: software update, the serial port over Bluetooth, logging

The repository is a collection of sample programs for the DA1469x family. Most of them drive one
peripheral in a straight line. Four of them carry protocols of their own, in which the order of
events matters, and they are what this directory is about:

- **SUOUART** (`features/suouart`): software update over a UART. A program on a PC sends an image
  line by line; the device writes it into the slot it does not run from, checks it, and then makes
  the product header point to that slot.
- **SUOUSB** (`features/suousb`): the same service over USB CDC, with almost the same source.
- **DSPS** (`features/dsps_ble_peripheral`, `features/dsps_ble_central`): a serial port over
  Bluetooth with bounded queues and flow control between three tasks on each side.
- **The logging utility** (`features/logging_util_example`): tasks put messages into a queue, from
  which two other tasks take them to a Bluetooth client.

## Inventory

| part | state it keeps | operations | talks to |
|---|---|---|---|
| service engine, `dlg_suouart.c` | `suouart_service_t`: reception state, buffer, header, CRC, lengths, flash addresses; the two slots and the two product headers in flash | `suouart_write_req`: status, memory device (start, end, exit, reboot), PATCH_LEN, PATCH_DATA; `suouart_read_req` | called by the command line; answers by notifications; calls `ad_nvms` |
| command line, `suouart.c` | line buffer, size of `alloc`, mode (`fwupdate` or not) | `alloc`, `fwupdate`, reads and writes of the service | UART on one side, engine on the other |
| host, `host_usb_updater.c` | position in the file, chunk size, retries | the script of an update: start, header, chunks, end, reboot | the command line, over the serial port |
| SUOUSB engine, CDC and host | as above, plus the attach state of USB | as above, plus attach and detach | the USB stack |
| DSPS queue, `dsps_queue.c` | a bounded list, high and low water marks, a flag | write, read, level tests | serial and BLE tasks |
| DSPS peripheral and central tasks | connection, flow control on either side, queues, a pending packet, notification bits of three tasks | connect, discover, disconnect, write, notify, flow on, flow off, serial in and out | the BLE stack and the serial port |
| logging utility, `mod_logging.c` | a bounded queue, the count of suppressed messages, the least severity | log, suppress and count, report the count | the tasks of the application |
| log service, `ble_queue_task.c` | the CCC, a one-shot timer, the message on its way | timer, notification sent, write of the CCC or the severity, disconnection | the queue, the timer task, the BLE stack |
| cycling power sensor and collector | control point procedure, connection | requests, indications, discovery | the BLE stack |

`PROJECT.json` lists the other samples with the reason they are left out: a single task without a
protocol, or a program whose behaviour is in the SDK, in vendored libraries or in micro-code that
the repository does not hold.

### What is hard

- An update survives a loss of power at any instant: between the header of the image, the backup
  and the primary product header, and inside any of these writes.
- Lines come over a serial port: they can be cut anywhere, be lost, be repeated. The engine keeps a
  partial buffer, three counters and two flash addresses from one line to the next.
- Flash operations fail, come short, or store something else than they were given.
- Commands come in any order. Two of them, END and the selection of a memory device, change the
  state of a transfer without looking at it.
- The host, the line and the device of an update have no numbers on their messages: an answer is
  known by its place in the order only, confirmations and results have the same words, the host
  writes a command again from its start when a write comes short, and a later run of the host finds
  the device as an earlier one has left it.
- The logging tasks are preempted anywhere between taking the count of suppressed messages and
  subtracting it; two tasks take from the queue, each after having looked whether there is anything;
  and the timer that starts it all is started and stopped from three places.
- In DSPS, the end of a connection frees queues that other tasks may still be using; the queue, its flag and
  what the flag stands for at the other end of the link are three things that no lock keeps
  together; and a task that misses its wake-up stops the traffic for good.

What makes each part correct: the engine never writes the running slot, never selects a partial
image, always leaves something to boot, and answers every command; the command line hands each line
to the engine once; the host ends every session with success or an error, and success means that
the device selected the image; a DSPS queue keeps order and loses nothing below its bound, and flow
that was stopped is started again.

## The modules

| module | what it is |
|---|---|
| `SuouService` | the service engine, its properties, and the assumptions on its constants |
| `FwSlots` | what an update promises: a slot that is filled, selected in one step when complete, and started |
| `SuouImplements` | the refinement mapping from the engine to `FwSlots` |
| `MCSuouService` | a small device for TLC |
| `SuouServiceProofs` | types, and the bound of the buffer |
| `SuouBootProofs` | the device can always be booted, the running slot is never written |
| `SuouImageProofs` | only complete images are selected, CMP_OK is true, the engine implements `FwSlots` |
| `SuouErasedProofs` | no byte is programmed over an old one unless the flash has failed |
| `SuouUpdate` | an update from end to end: the host's script, the serial line, the command line of the device, over what the engine answers |
| `SuouUpdateProofs` | types, "Result: Pass" is true, host and device count alike, no answer is taken for another |
| `SpsQueue` | the queue of DSPS with its marks and its flag, as operators |
| `SpsTasks` | one such queue between two tasks that preempt each other inside its operations |
| `SpsTasksProofs` | types, no overflow, and that the source of a queue is held back and let go when it should be |
| `SerialCable` | what DSPS promises: a serial cable between two ports |
| `DspsLink` | the two boards of DSPS: ports, queues, tasks, the link and its flow control |
| `MCDspsLink` | what users and link do in the runs of `DspsLink` |
| `DspsLinkProofs` | types, the transmit queue never overflows, the link implements the cable, and flow control with one side that talks |
| `LogQueue` | the queue of the logging utility and the tasks that log into it |
| `LogLink` | the timer task and the BLE task that take messages from it to a client |
| `MCLogLink` | what link and client do in the run of `LogLink` |
| `LogLinkProofs` | types, the discarded log count, the order of what a client hears, and that the two takers never meet |

`SuouUpdate` composes the host with the device. It has the engine as its host sees it: a few
counters and what each request is answered, errors included; how the engine comes to these answers
is `SuouService`. `DspsLink` composes six tasks and two stacks out of the operators of `SpsQueue`,
with a step from one place where a task may block to the next; `SpsTasks` looks inside such a step,
at one queue.

### How `SuouService` corresponds to the code

The variables are the members of `suouart_service_t` under their names, with `alloc` for
`buffer != NULL` and the sequence `buffer` for the bytes and `buffer_len`. `flash` holds the two
firmware slots, `ph` the two copies of the product header. `pc` says where the command that runs
has got to, `line`, `taken` and `ret` are the locals of `suouart_handle_patch_data`, `ph_buffer` and
`retry_cnt` those of the update of the product header, and `out` is what the current command has
answered.

One task calls the engine, so commands do not interleave. A command is still split, into one step
for each iteration of the reception loop and for each write to the product header, because a loss
of power can come between any two of these, and because the loops are what may not end.

| code | actions |
|---|---|
| `suouart_do_bl_ccc_write` | `WriteStatus` |
| `suouart_do_patch_len_write` | `PatchLenWrite` |
| `suouart_do_mem_dev_write` | `MemDevOther`, `MemDevStart`, `MemDevExit`, `MemDevEnd`, `MemDevReboot` |
| `suouart_set_active_img_ptr`, `suouart_safe_product_header_write` | `WriteFwHeader`, `ReadProductHeader`, `WriteBackup`, `WritePrimary` |
| `suouart_handle_patch_data` | `PatchData` (before the loop), `ChunkAdd`, `ChunkNotify`, `PatchReturn` (after it) |
| `suouart_process_patch_data` | `PatchRefused`, `PatchIgnored`, `PullShort`, and the three handlers |
| `suouart_state_w4_header`, `_header_ext`, `_image_data` | `HandleHeader`, `HandleHeaderExt`, `HandleImageData` |
| `suouart_prepare_flash` | `Prepare`, `EraseRegion`, `NextSector` |
| `suouart_init`, the boot loader | `Boot` |
| loss of power | `PowerLoss` |

The data are abstract. A byte is a member of a set. The header is what `ParseHeader`, a constant,
makes of `HDR` bytes: whether the identifier is right, the size, the place of the code, the CRC. A
CRC *is* the sequence of bytes it was computed over, with a mark for the final inversion, so that
equal CRCs mean equal bytes. The unsigned types wrap at `U16` and `U32`.

Pointers that are null in the code lead to `pc = "fault"`: `error_cb` before the first PATCH_LEN,
and the partition handle of an END before any image. A PATCH_LEN of zero leads to `pc = "hang"`.

### The abstract update

`FwSlots` has three variables: the slot that runs, the slot that is selected, and what the slots
hold. Its steps are `Receive` (any change at all of a slot that does not run), `Select` (another
slot, if it is complete) and `Start` (the selected slot becomes the running one, if it is complete).
`SuouImplements` maps the running slot to the active address, and the selected slot to the update
address, of the copy of the product header that the boot loader goes by. Under this mapping the
backup copy can be written, torn and written again without a step of `FwSlots`; the selection
happens when the primary copy is written, or is torn after the backup was written.

### How `SuouUpdate` corresponds to the code

`step` is the command at which the host's script is, `wait` what it does next for it: look for the
prompt (`knock`), write the command (`type`), read its echo, end the line and read the answer for a
command of the prompt (`issue_command`); `send` and `answer` for the requests of the update
(`do_firmware_update`). `toDev` and `toHost` are the line in each direction. In the device, `mode`
says who reads the line (`suouart_task` or `suouart_fwupdate_execution`) or how it hangs, `partial`
is `cli_buffer` up to the end of line that is still to come, `qspibuf` and `bufsz` are the working
buffer, `svc` what the engine remembers. A length is in units of half a PATCH_DATA line, text is
its kind, and a command that was joined with another one counts as damaged. Each request carries the
place in the file it is about (`at`), and each answer the request and the place it was given to: the
host cannot see either, but the properties can tell an answer to one block from that to another.

The confirmations are those of `suouart_handle_patch_data`: whatever became of the pieces of a line, every
`patch_len` bytes of what was consumed are answered CMP_OK and taken off the count, and only then
comes the ERROR of a piece that failed (`Handle`). So a block that failed in flash may be confirmed first, and
its ERROR be read as the answer to the next request. A damaged line may carry another number that is
accepted, of an alloc or of a PATCH_LEN. With a PATCH_LEN that differs the device confirms more or less often
than the host expects, and `misled` remembers it; with a PATCH_LEN of zero the device confirms without
end (mode `hang`).

| code | actions |
|---|---|
| `main`, up to the first command; its end and its result | `Open`; `Ends` |
| `issue_command`, `write_command_flush_echo` | `Knock`, `Type`, `Echoed`, `PassOver`, `Accept`, `Reject` |
| `do_firmware_update` | `Following`, `Request`, `Send`, `Accept`, `GoesOn` |
| `write_buff` | `Send`, whose second disjunct is a write that came short and was repeated |
| `wait_response`, `wait_for_specific_response_or_abort` | `Accept`, `Reject`, `TimeOut`, `Aborts` |
| `uart_readline` | `Read`, `Store` |
| `suouart_task` | `AtPrompt`, `Alloc` |
| `suouart_fwupdate_execution` | `InFwupdate`, `IsRequest`, `Serve` |
| what the engine answers | `Start`, `PatchLen`, `Data`, `Handle`, `End`, `Complete` |
| the loop over the chunks, with a PATCH_LEN of zero | `Babble` |
| damage on the line, loss of power | `DamageToDev`, `DamageToHost`, `PowerLoss` |

`Alloc` with a buffer already there is undefined in C (the address of a local variable is freed,
and a null pointer is written through), and is a choice between a device that crashes (`wild`) and
one that goes on.

### How `DspsLink` and `SpsTasks` correspond to the code

`node[s]` holds the file scope variables of one board under short names (see `Unconnected`), and the
notification bits that are pending for each of its tasks. `air[s]` is the order in which the other
stack gets what `s` sent: data, flow control values, CCC writes, and the beginning and the end of a
connection.

| code | actions |
|---|---|
| `rx_data_cb`, `sps_queue_write_items` | `ReceiveData`, `QueueFull` (its assertion) |
| `tx_data_available`, `dsps_tx_data`, `dsps_tx_data_host` | `BleTx`, `MaySend` |
| `tx_done_cb` | `TxDone` |
| `set_flow_control_cb`, `set_flow_control_req`, the CCC writes | `PeriphReceiveFlow`, `PeriphReceiveCcc`, `PeriphFlow`, `PeriphNotified` |
| `handle_evt_gattc_notification` of the central | `CentralReceiveFlow`, `IgnoreData` |
| `handle_evt_gattc_browse_svc`, `_completed` | `Browsed` |
| `dsps_rx_task` | `RxWake`, `RxRead`, `RxTimeout` |
| `dsps_tx_task`, `rx_data_available` | `TxTake`, `TxWritten`, `FoundLow` |
| `handle_evt_gap_connected` | `Connected` |
| `handle_disconnected`, `handle_evt_gap_disconnected` | `Disconnected`, `FreeQueues` (after the delay and the closing of the port) |
| `sps_queue_check_almost_full`, `_empty` | `SpsQueue`; in `SpsTasks` they are split into the count, the flag and what follows |

### How `LogQueue` and `LogLink` correspond to the code

`pc[t]` is where a task that logs is, `count[t]` its local `suppressed_count`; `at` and `msg` are the
place and the `current_message` of the timer task and of the BLE task. A message is the number of
its `OS_QUEUE_PUT`. `called`, `logged`, `puts`, `reported`, `heard`, `missed`, `again` and `clash` are history
variables for the properties: `missed` counts the messages that were taken from the queue and not handed to the
stack, `again` tells whether the client has asked for messages (written 1) while somebody was
about to take one for it (`Running`).

| code | actions |
|---|---|
| `log_printf_raw` | `LogPrintf`, `Suppress` |
| `log_send` | `LogSend`, `Suppress` |
| `log_suppressed` | `ReadSuppressed`, `ReportRoom`, `PutReport`, `Subtract` |
| `send_ntf_timer_cb` | `Fire`, `TimerCheck`, `Get`, `Notify` |
| `handle_evt_send_ind` | `HandleSent` (of a notification sent, or failed), `Get`, `Notify` |
| `log_notify_char_value` | `Notify`: `Accepted`, `Swallowed` (nobody listens), `Refused` |
| `handle_write_req`, `do_char_value_ccc_write` | `StoreCcc` (if there is a connection to store for), `CccTimer` (by the value written) |
| `severity_set_val_cb`, `handle_evt_gap_disconnected` | `SetSeverity`, `HandleGone` |

An `OS_QUEUE_GET` on an empty queue leaves `current_message` null in the timer task and undefined in
the BLE task, and either uses it: `wild`, after which the two takers do nothing that is modelled.

### The abstract cable

`SerialCable` has, for each end, the messages inside and the numbers of the next one to go in and to
come out. A cable that is firm loses nothing; one that is not may lose a stretch of what is inside in either
direction (`Shorter`), never repeat or reorder it.
`DspsLink` implements it with what is read from a port and not yet written to the other one for the
inside: the message that a task holds, both queues, and what is on the air. A packet that the stack
has and that is still at the head of its queue counts once. So the promise is checked against
every way of forgetting, repeating or overtaking between six tasks.

### What is external, and assumed

For the update:

- `ad_nvms_read`, `ad_nvms_write`, `ad_nvms_erase_region`: a write replaces what it is given to
  write, and returns how much of it fits the slot; an erase works on whole sectors. Each write may
  fail, come short or (image data) store something else, `MaxFaults` times.
- A product header has a head (its identifier, its active address and the length of its
  configuration), a body and a CRC. A write that is interrupted or fails leaves any mixture of old
  and new with a wrong CRC, or the old copy, or the new one. The active address is the same in the
  old and the new copy, so it stays what it was.
- The boot loader is not in the repository. What is assumed: it goes by the primary copy if that
  copy's CRC is right, else by the backup; if the update address differs from the active one and
  the slot there holds a complete image, it makes that slot active in both copies.
- The device leaves the factory with a complete image in its active slot (`FactoryAssumption`).
- Images come from mkimage (`HonestImages`, which the theorems on images assume and TLC evaluates):
  a header with the right identifier has its code behind it, in a 32 bit address space, not empty,
  with a CRC over that many bytes; and no header that is received has a CRC field of zero. The last
  part matters: END takes a CRC field of zero for the CRC of nothing (see the finding), so that a
  header of zeros followed by END would select a slot without an image.
- A CRC stands for the bytes it was computed over, without collisions.

- The line may lose the command or the answer at its head, make it unreadable, damage the data of a block, make one
  MEM_DEV command another, or give an alloc or a PATCH_LEN another number of `Numbers`, each counted by `MaxFaults`.
- A device that confirms without end sends one more when the host has read all there was (`Babble`), which
  bounds the line and no behaviour of the host: it reads one line at a time.
- In `SuouUpdate`, a run of the host begins when the device has read what an earlier run left on the
  line, and with nothing from before in the input of the port. A time-out while an answer is under
  way is a fault, of which there are `MaxFaults`; one when nothing is under way any more is not.

For DSPS:

- A stack carries out the calls of its client in order, and reports a packet sent (`TxDone`) in
  turns with the other side (`turn`): while something comes from there, one packet goes out for each
  that comes. It is not reported before at most `AIR` events of its side are under way. Without such an assumption no size
  of the queue would do, and it is what the link layer does.
- A disconnection frees the queues after a delay of `uart_rx_timeout` ("Let UART activity finish") and after closing the
  port. Closing it waits for a pending read, whose own time-out is not longer than the second for which
  `uart_close` tries; a write that hardware flow control holds off for longer is forced to an end. So
  `FreeQueues` waits for the read and for nothing else: when the queues go, `dsps_rx_task` may have a message to store, and `dsps_tx_task`
  may be about to look at the queue from which it got one. Using a queue that is no more sets `fault`; what
  `sps_queue_check_almost_empty` then finds is a choice (`FoundLow`), and the message under way is out or lost.
- A central connects to the peripheral as soon as both are ready again.
- In `SpsTasks`, while a task is inside one of its operations the other one gets through at most
  `PREEMPT` of its own, and `PREEMPT <= HIGH - LOW`; at most `ON_AIR` messages come after the gate is
  shut, and `HIGH + 1 + ON_AIR <= SIZE`. The code has no lock that would give the first bound; the
  distances of its marks (48 and 6 of 60 for one queue, 36 and 6 of 60 for the other) are what it relies on.
  The bound is tight: with one operation more TLC finds a source that is off for ever.

For the logging utility:

- The priority of the timer task is set in the SDK, and its callback and the BLE task both block in
  calls of the stack, so that any interleaving of the two is taken to be possible. Starting or
  stopping the timer takes effect when the command is given; a callback that is under way goes on.
- `log_printf`, a macro of the SDK, calls `log_printf_raw` for a message that is severe enough. Of the
  severity only this is kept: whether a report would be (`quiet`). Whether the heap is too low
  is a choice at each call.
- A client writes 0 or 1 to the CCC. It finds what it has written again after a reconnection if it is
  bonded. A notification is refused, or lost with the connection, or reported as failed or as sent.

## The runs

The device of `MCSuouService` has headers of 2 bytes, a buffer of 3, sectors of 4 and slots of 8,
which keeps the order of the real sizes (header < buffer < sector < slot). The image has one byte
of extension and four of code, the code lies across a sector boundary, and its last piece does not
fill the buffer; so every handler is met with too little, exactly enough and too much in a line.

| run | bounds | what it shows |
|---|---|---|
| `SuouTransfer` | lines of all kinds (`CutLines`), status writes, 8 bytes after a start, no faults | `TypeOK`, `BufferBounded`, `ImageInPlace`, `ErasedAhead`, `SwitchOnlyComplete`, `CmpOkMeansSwitched` for lines cut, lost, repeated and reordered, restarts and stray ENDs |
| `SuouPower` | the image in two lines, 2 failing flash operations, 2 resets | `AlwaysBootable`, `RunningSlotKept`, `SwitchOnlyComplete`, `ImplementsFwSlots` when power fails between and inside any two steps, in the first update or the one that follows it |
| `SuouOtherDevice` | the image in two lines, other memory devices, PATCH_LEN 0 or 3, 2 faults, no resets, fair | `BufferBounded`, `RunningSlotKept` for the commands that the updater of the repository never sends; `CommandAnswered` |
| `SuouEndEarly` | no faults | `HeaderPostponed` is violated: START, END |
| `SuouUpdateRuns` | lines of 2 units, files of 3, 5 and 6, numbers 0, 1 and 4 on a damaged line, 2 faults | `TypeOK`, `PassMeansSelected`, `CountsAgree`, `AnswersMatch`, `SessionEnds`, `Recovers` for one run of the host after another, with a reset between them or not |
| `SuouMidSize` | a file of 3, no faults | `Passes` is violated: the file is longer than a block and not longer than two |
| `SuouRealloc` | a file of 3, no faults | `AllocSurvives` is violated: the second alloc after a reset |
| `SpsTasks` | marks 1 and 4 of 8, `PREEMPT` 3, `ON_AIR` 3 | `TypeOK`, `NeverFull`, `NeverStuck`, `HeldBack`, `Reopens` |
| `DspsOneWay` | queues of 3 and 4, marks 0 and 1, endless input at one end (either), outputs that take what they are given | `TypeOK`, `HeldOff`, `NeverHalts`, `ImplementsCable`, `Progress` |
| `DspsTroubles` | queues of 2, marks 0 and 1; input at both ends, or at one with a lost connection and (peripheral) a refused call; outputs that may be held off | `ImplementsCable`, `TxDoneUnlessRefused` |
| `DspsOff` | input at both ends, no trouble | `HeldOff` is violated |
| `LogLink` | 2 tasks, 3 calls, a queue of 2; a severity and a CCC written, or a lost connection and 3 writes of the CCC, or a lost connection, a refused or failed notification and 2 writes | `TypeOK`, `CountTrue`, `NeverWild`, `InOrder`, `Drains` |

Why these bounds are enough: 8 bytes after a start are one more than the image, so that trailing
data and a repeated piece occur; a START begins to count anew, so the number of transfers is not
bounded. Two faults use up the two tries of a write, or fail one try and a later operation. Two
resets allow a loss of power inside the switch, and another one in the recovery from it.
`CHECK_DEADLOCK FALSE` is set because the device does stop: at an assertion, at a null pointer,
in the loop of a PATCH_LEN of zero, and when neither copy of the product header is good.

For the end to end update: a file of 3 is longer than one line and not longer than two, one of 5
needs a whole PATCH_LEN with a rest, one of 6 has a rest as long as a line, so that every path
through `FirstBlock` and `NextBlock` is taken; and since runs follow each other for ever, two
files that are mixed up, or an answer left over from an earlier file, are reachable. Two faults
allow one to upset the host and the other to hit it while it aborts, or the run after it. Of the numbers
of a damaged line, 0 has the loop over the chunks go on without end, 1 has the device confirm a block
more than once, and 4 less often than the host waits for.

For DSPS: with marks 0 and 1 each queue crosses both marks again and again. `DspsOneWay` leaves
room above the high mark for what is on the air, so `NeverHalts` is a
statement about marks and sizes; `DspsTroubles` has queues with no such room, so a full queue and its
assertion do happen, and after that nothing is asked. Messages are numbered modulo 3 or 4,
less than what one side may hold; the cable compares the whole sequence of numbers inside, so a
message that is lost, repeated or overtaken shows at once. `CHECK_DEADLOCK FALSE` is set
because finite input ends, and because an assertion halts a board.

For the logging utility: with two tasks and a queue of 2, three calls let one be suppressed while
the report of another is on its way, and let both find the queue full after they saw room in it;
each message that is queued may bring a report, so that up to five are in the course of the run. Three
writes of the CCC allow for off and on again while a chain of notifications runs, or for one before
and two after a lost connection. `CHECK_DEADLOCK FALSE` is set because the calls come to an end.

**Fairness.** In `SuouService` (`FairSpec`), weak fairness of the task while it works on a command: it
has no condition to wait for inside a command, so the scheduler of FreeRTOS runs it. No fairness is asked
of the client, which may send nothing, nor of the boot loader. In `SuouUpdate`, of the host (its
process is scheduled, and its waits are bounded by time-outs), of the device reading what has
arrived, and of the user, who starts the host again; not of damage, losses, or resets. `Recovers`
says what repeated resets give, and does not ask for any. Nor is a device that confirms without end
asked to send its next confirmation. In `SpsTasks` and `DspsLink`, of each task
that can run and of the stack that sends what it took; not of serial input, losses or refusals. The
serial output may be held off by hardware flow control (`CFG_UART_HW_FLOW_CTRL`), so `Fairness` of `DspsLink` does not
contain `TxWritten`. `Progress` cannot hold then, and is checked under `TakenSpec` in `DspsOneWay`: the equipment takes what it
is given, whatever becomes of its own input (`OutputsTaken`). With input at both ends and equipment that does not,
`custom_config_qspi.h:62-84` describes a deadlock; no property is about it. In `LogLink`, of the timer (it runs out, and its
task runs), of the BLE task and of the stack that sends; not of the tasks that log, nor of the client.

### What the violated runs show

`SuouEndEarly`: the comment in `suouart_state_w4_header` says that the header is
written once the image is downloaded. END tests only that the inverted CRC equals the one in the
header. After a reset, both are zero: START does not clear the header, END inverts `0xFFFFFFFF` to 0,
and the code goes on to write the header through a partition handle that is null.

`SuouMidSize`: PATCH_LEN is written only for files of more than `suouartbuffsz` bytes, though blocks
of half of that are sent, and confirmed only after a PATCH_LEN, for all files longer than one block.
Such a file fails in every run.

`SuouRealloc`: `suouart_alloc_execution` frees `buf`, the address of the caller's variable, and
then writes the new pointer through it after setting it to null. A run of the host that
failed before, with the device back at the prompt, is all it takes.

`DspsOff`: the peripheral keeps one flow control value for both directions. When its own receive
queue falls below the low mark it stores "on", which cancels the "off" that the central has written;
the central has reported its high mark and does not say it again. From then on its queue fills
up, whatever its size. The readme of DSPS lists full queues and a deadlock with traffic both
ways among its known limitations, and recommends larger queues or lower marks against the first.

Some observations that no run is kept for. An empty line does not end
`suouart_fwupdate_execution`, as the comment at its loop says, because a line holds at least its
line feed; `Recovers` and `SessionEnds` show what is left to the user. And after a MEMINFO that
does not fit, the host sends the abort and then END all the same; END does not look at the state, so
the device may select the image it was told to drop. `PassMeansSelected` shows that "Pass" is true even then.

`dsps_tx_data` returns true although the stack refused the notification, so that the peripheral waits
for a `tx_done` that cannot come; `TxDoneUnlessRefused` shows that nothing else, a lost connection
included, has this effect. `suouart_init` asserts when the head of the primary product header cannot
be read, though the boot loader started from the backup.

In the logging utility, two tasks that are in `log_suppressed` at the same time take the same count
("a local, thread-safe reference"), report it twice, and subtract it twice, which wraps the count
below zero: without `~clash`, TLC finds this in three calls. A client that writes 1 to the CCC
again, while notifications are running, starts a second chain beside the first; then the two tasks may
both see one message, and one of them uses a pointer that was not set: without `~again`, TLC finds this too. And a bonded client whose CCC is still set after a reconnection gets
nothing until it writes the CCC again, since only that starts the timer; this is why
`Listening` asks for a write on the present connection.

In DSPS, a disconnection may free a queue under a task that is about to use it: a write to the serial port that
hardware flow control holds for more than a second is ended by force (`dsps_uart.c:76-82`), and then
`sps_queue_check_almost_empty` reads through a null pointer; or what was just read finds no queue to be stored in.
`DspsLink` does both (`fault`), and no property forbids it; the liveness properties ask for nothing afterwards
(`Astray`), while `ImplementsCable` does: what comes out then is still in order and comes once. With input at both
ends and outputs that are held off, the deadlock that `readme.md:65` of DSPS and `custom_config_qspi.h:62-84` describe
is a behaviour of `DspsLink` under `FairSpec`.

### Remarks on properties

`SessionEnds` excuses one case: a device that confirms without end, after a PATCH_LEN that a damaged line has made zero,
while a later run of the host is at a command of the prompt. `issue_command` reads on for as long as lines come that are
neither OK nor ERROR. `CountsAgree` and `AnswersMatch` excuse the blocks of a run in which the line has changed the number
of a PATCH_LEN; `AnswersMatch` does not ask an accepted END for its place, because the line may have made an END of
the abort that the host writes just before it when MEMINFO does not fit. `PassMeansSelected` excuses nothing.

`RunningSlotKept` and `SwitchOnlyComplete` are action properties: what a step may never do. `AlwaysBootable`
excuses the runs in which a switch was built from a primary copy that was already damaged
(`torn_base`): the code reads the primary copy without looking at its CRC and stamps it with a fresh
one, so that a torn body is copied over the good backup. Nothing in the repository promises more.

## What is proved

The theorems hold for every value of the constants that the assumptions admit. For the engine: any
sizes in the order header <= buffer < sector <= slot, any lines, any number of faults and resets. For
the update from end to end: any file, any size of the buffer, any numbers on a damaged line, any number of faults. For DSPS: any
sizes and marks of the queues, both sides talking as long as they like, any number of failed calls
and lost connections. For the log: any number of tasks, messages,
refusals, failures, lost connections and writes of the CCC.

| theorem | states | under |
|---|---|---|
| `TypeCorrect` | `Spec => []TypeOK` | the assumptions of `SuouService` |
| `BufferNeverOverfull` | `Spec => []BufferBounded`, the `OS_ASSERT` of `suouart_pull_to_buffer` | the same |
| `DeviceBootable` | `Spec => []AlwaysBootable` | the same |
| `RunningSlotNeverWritten` | `Spec => RunningSlotKept` | the same |
| `ReceptionInPlace` | `Spec => []ImageInPlace` | `Honest` |
| `OnlyCompleteSelected` | `Spec => SwitchOnlyComplete` | `Honest` |
| `CmpOkIsTrue` | `Spec => CmpOkMeansSwitched` | `Honest` |
| `EngineImplementsUpdate` | `Spec => ImplementsFwSlots` | `Honest` |
| `ErasedBeforeWrite` | `Spec => []ErasedAhead` | `Honest` |
| `SuouUpdateProofs!TypesHold` | `Spec => []TypeOK` of `SuouUpdate` | `UpdateAssumption` |
| `PassIsTrue` | `Spec => []PassMeansSelected`: "Result: Pass" is true | the same |
| `CountsStayAlike` | `Spec => []CountsAgree`: unless the line has changed the number of a PATCH_LEN | the same |
| `AnswersAreOwn` | `Spec => AnswersMatch`: what the host accepts answers its last request, and of blocks the last one, with the exceptions the property names | the same |
| `TasksTypeCorrect` | `Spec => []TypeOK` of `SpsTasks` | its assumptions on the marks |
| `QueueNeverFull` | `Spec => []NeverFull`: the assertion of `sps_queue_write_items` | the same |
| `GateNeverStuck` | `Spec => []NeverStuck`: no source is off for ever with an empty queue | the same |
| `SourceHeldBack` | `Spec => []HeldBack` | the same |
| `DspsLinkProofs!TypesHold` | `Spec => []TypeOK` of `DspsLink` | `LinkAssumption` of `DspsLink` |
| `TxNeverFull` | a message read from the port finds room in `tx_queue`, as long as the queue is there | the same |
| `LinkIsCable` | `Spec => ImplementsCable` | the same |
| `OffIsHeard` | `Spec => [](OneSpeaks => HeldOff)` | the same, and as a hypothesis of the theorem that one side at most talks and no call fails |
| `RoomForAll` | `Spec => [](OneSpeaks /\ Margin /\ Faultless => NeverHalts)`: the assertion of `sps_queue_write_items` | the same, and as hypotheses of the theorem `OneSpeaks` as above, `Margin`, and that no task has used a queue that was freed |
| `LinkTypeCorrect` | `Spec => []TypeOK` of `LogLink` | `LogAssumption`, `LinkAssumption` |
| `DiscardedCountTrue` | `Spec => []CountTrue` | the same |
| `MessageAlwaysSet` | `Spec => []NeverWild`: as long as the client does not ask while it is being served | the same |
| `MessagesInOrder` | `Spec => []InOrder`: with the same condition, those dropped counted | the same |

The assumptions of `SuouService` are `SizesAssumption` (sizes and widths), `DataAssumption` (bytes,
two slots, headers parse to headers), `InputAssumption` (lines shorter than the range of `uint16_t`)
and `FactoryAssumption`. `Honest` adds `HonestImages`, and `OtherDevs = FALSE`: no client selects
another memory device in the middle of a transfer, which would set the addresses of the flash to
zero and let the transfer go on. TLC evaluates all of them in the runs.

`UpdateAssumption` only says that lengths are positive. `LinkAssumption` of `DspsLink` has the order of
the marks, and says that `None` is neither a number nor a queue; that of `LogLink` says that
`Nothing` is no number.

None of the properties is inductive. For the engine, four invariants, each on top of the ones
before it, are:

- `IInv` (`SuouServiceProofs`): `TypeOK` and `BufferBounded`; the partition handle is open in the
  states that write through it (`NvmsOpen`); a write of the product header is never tried with all
  tries used up (`RetriesLeft`).
- `BootInv` (`SuouBootProofs`): both copies of the product header, and the one in preparation, name
  one running slot; the handle of the update is never that of the running slot; the running slot is
  complete; and, unless a switch was built from a damaged primary copy, a copy whose CRC is right
  tells the truth, one copy has a right CRC, and so has the copy that is not being written. The last
  two parts are what makes the order backup, then primary, safe at every instant.
- `ImgInv` (`SuouImageProofs`): the header was accepted from the second state of a reception on
  (`HeaderGood`); counters and addresses agree, and the next erase never lies behind the write
  address (`Addresses`); the CRC, without a final inversion, is that of the bytes of the code which
  *are in the flash* (`CrcOfFlash`, `CrcShape`); and the switch is under way only for a complete
  image, with the backup already written when the primary is being written (`SwitchReady`). A state
  in which END has inverted the CRC in place is why `CrcOfFlash` speaks of `Plain(image_crc)`: after
  a second END the reception may even go on, with a CRC that can no longer match.
- `ErasedInv` (`SuouErasedProofs`): `ErasedAhead`; the erase address is zero while a header is
  awaited (`FreshErase`); and behind the header the erase address has not run ahead of the write
  address, or the header lies wholly below the write address, so that writing the header last
  cannot touch a cell that is still to be written (`HeaderPassed`). Its key lemma, `PrepareErases`,
  says that suouart_prepare_flash leaves everything between the two addresses erased, because a
  write is never longer than a sector.

Each invariant is preserved action by action, with one lemma for each group of actions that disturb
the same parts. The refinement follows from two facts about the product header (`HeaderSteps`,
`CopySelects`): a step changes a copy only by a write, whole or torn, or by the boot loader; and
such a write moves the update address of the copy the boot loader goes by to the complete slot of
the update, or not at all.

For the queue (`SpsTasksProofs`), the invariant is `TypeOK` with six parts. `Shutting` and `Opening` say
what a task still knows of the queue when it is bound to move the gate, in terms of what the other
one has done since (`pops`, `writes`): here the bound on preemption enters. `Apart` says that the two
are never both bound to move it, which is what keeps flow-on and flow-off in the right order
without a lock. `GateFollows` makes the gate follow the flag whenever nobody is on the way to move
it, and `Low` and `High` say what the flag tells of the number of messages. `NeverFull` comes from `High`,
`NeverStuck` from `GateFollows` and `Low`, `HeldBack` from `GateFollows` and `High`.

For the logging utility (`LogLinkProofs`), the invariant has two halves that do not touch. `CountTrue` needs
`OneReports`: without a clash, one task at most is between taking the count and subtracting it,
and what it took is still contained in the count, so that the subtraction does not wrap; it counts the calls
in hand by the cardinality of a set, so the number of tasks is any. `NeverWild` needs `OneTurn`: as
long as the client does not ask while it is being served, at most one of the timer, the event queue (an "on", or a
notification that went out), the stack and the two tasks has the turn to take the next message; losses, refusals and
failures only take the turn from where it is. And it needs `SeenIsThere`: a task that has looked and seen a message
still finds it, because the tasks that log only add. For `InOrder`, a task that is not about to hand
a message over holds none (`EmptyHands`), and since one task at most has the turn, what is heard, in
hand and queued, and the number of those that were dropped, always make up the messages put, in their order.

For the update from end to end (`SuouUpdateProofs`), the invariant says where host and device can be
with respect to each other, step by step of the script. Its centre is `OneByOne`, with `First` and
`AtPromptStill` for the commands before: once a request has been written, at most one line is still
to be ended at the device, all that is on the way is of this request (or junk), and the answer
that the host waits for is in the stream only if it is of this request and the device has read
everything (`Quiet`). So when the host has got it, nothing of the request is left anywhere, but
perhaps confirmations of a block (`CMP_OK`) or the ERROR that came behind them, and the next request does not wait for
either. Faults do not break this: a damaged or lost line makes the device silent or
wrong, but never an answer before its request. `LineReply` says what one line that the device
reads may be answered, and `AtHere` that requests and answers on the way are about the place in the file
at which the host is. On top of it, `Counting` and `Exact` relate `xfered` of the host to what
the engine has got, with the line that is under way counted on the side where it is: `Exact` says that the chunks of the
engine end where the blocks of the host end, so that a block has one confirmation and no more. `OfThisFile` says
whose bytes the engine holds after IMG_STARTED; `Ending` takes that to "Result: Pass".

A PATCH_LEN that the line has changed (`misled`) breaks the middle of this argument: with more confirmations than
blocks the host is ahead of the device, with blocks still to be read while it sends the next (`Astray`). `Counting`,
`Exact` and `AtHere` are then given up for the blocks, and `OneByOne` is what is left: the next request that is answered
OK is not answered before the device has read all blocks before it. This is why `PassMeansSelected`
holds even so: MEMINFO and END come after all that. `Hangs` says where the host may be with a device that confirms without end:
never between "status" and the first PATCH_LEN, nor at "end", where CMP_OK would pass for the answer; and at a block, when no
number was changed, only with both sides having counted alike.

For DSPS (`DspsLinkProofs`), the invariant has four parts.
`NodesFine` is about one board at a time. `Sound` ties the fields to the life of a connection (queues
exist together; without them nothing is ready, with the stack or being read; a packet that the stack has
is at the head of the queue).
`Roomy` says that `dsps_read_ready` is set only below the high water mark, so that
one message more always fits as long as the queue is there: `TxNeverFull`. `AirFits` gives the stream of events between the stacks the shape
of connections: a beginning is first, an end is last, and which of them is there tells whether
the side that hears them is connected. `FirmState` holds as long as the stack refuses nothing and no
connection is lost: before any data on its way to the central, the last flow
control value is "on" (`AllHeard`), hence the central, which drops data while it is told "off", drops none; this in turn
needs that the notifications of the value are enabled before anything that may change it
(`AllEnabled`). That order, data and control through one stream of notifications, is all that makes
the link lossless, and the code states it nowhere. With the same condition, no queue is freed while a task has something
to store or to write, so that none is used that is no more (`Kept`, by `Whole` for each side); without it the
code does use freed queues, and no theorem says otherwise.

`LinkIsCable` maps every step to a step of the cable. What is inside is the concatenation of five
sequences: the message held, the receive queue, the data on the air, what is unsent of the transmit
queue, and the message just read (`Five`). Taking, receiving, sending and storing move a message over one of
the boundaries and change nothing of the whole; `RxRead` is `Put` and `TxWritten` is `Get`; a loss of connection, the
queues that are freed after it and data that is ignored tear one stretch out of the whole (`Tear`, `Loses`), as does a message that a
forced end of its write loses or that finds no queue to be stored in,
and happen only when the cable is not firm, which for data that is ignored is `FirmState` and for freed queues `Kept`.

`OffIsHeard` needs a second invariant, `OneWay`, about the side that does not talk (`Mute`: it has nothing to
send) and the one that does (`Unused`: nothing ever comes to its queue). `Told` says that while the
queue of the silent side is above its mark, the last value of the characteristic that is on its way to the
talker, or that the talker has, is "off". For a silent peripheral that is not obvious: it holds
its value in one place for both directions, and a write of the central's changes it. So `ControlFirst` and `NoControl` say
that all writes of the central come before its data, and are over when the queue is crossed; and
`Announced` says that the notifications of the value are enabled by then. With both sides talking the
peripheral's own "on" may replace the "off" that the central wrote, as `DspsOff` shows.

`RoomForAll` is the consequence a user of the code cares about: `sps_queue_write_items` asserts that the
receive queue has room, and nothing looks at the queue before it is called. `Margin` says how much room above the high
mark is enough: for one message more than the air holds, and for three at least. The shipped values, 36 of
60, leave enough for 23 packets on the air; the sizes of `DspsOneWay` (1 + 3 = 4) satisfy it with nothing to
spare, and TLC halts a board with a mark of 1, a size of 3 and 1 on the air, or of 4 and 3. Its
invariant, `Spare`, bounds what may still be stored before the talker hears an "off". `Due` counts
the data on the air, and what the central writes that the peripheral answers with a flow control
value; `Said` counts the values on their way back, each of which may let the talker send once more; and `Turns`
is what it may send without hearing anything. `Load` says that these, above the high mark or on top of what is stored,
never pass the size (`Fits`).
At the beginning of a connection the talker may send before any value has been told (`Start`),
but then the queue is new and empty; and when the link is down only what was on the air is
left, which is less than before (`Left`).

Only model-checked: the liveness properties `CommandAnswered`, `SessionEnds`, `Recovers`, `Reopens`,
`Progress`, `TxDoneUnlessRefused` and `Drains`, which are out of the prover's reach. Every invariant and every
other property of the passing runs is stated by a theorem of the table. `HeldOff` and `NeverHalts` are proved for one
talking side only, and the hypotheses are needed: with both sides talking `HeldOff` is violated, and without
`Margin`, as with the sizes of `DspsTroubles`, a queue does overflow.

## Plan

1. `SuouService` with `FwSlots`: done, checked and proved.
2. `SuouUpdate`, the update from end to end: done, checked and proved but for liveness.
3. `SpsQueue` and `SpsTasks`: done, checked and proved. `SerialCable` and `DspsLink`: done, checked, and
   proved but for liveness; `HeldOff` and `NeverHalts` for one side that talks.
4. `LogQueue` and `LogLink`: done, checked and proved but for liveness.
5. Next to prove: the step from `SpsTasks` to `DspsLink`, that the queue of the link, whose reads and writes are
   one step each, is what the two preempted tasks make of it.
6. Next to model: the attach state of `suousb_cdc.c` around the service, the control point of the
   cycling power sensor with its collector.

## What is not modelled

- In the engine: `suouart_read_req` and `suouart_do_gpio_map_write`, which change no state; the length
  and offset checks, which the command line always satisfies; the code under
  `dg_config_SUOTA_DATA_PART_FAILSAFE`, which the project does not build; the format of messages.
- In the command line: `readsdtparam`, which only prints, and editing with backspaces.
- In the host: opening the port and reading the file, before the first command.
- In DSPS: scanning, advertising and pairing, the change of connection parameters, PHY and MTU, the
  hooks for SUOTA, and the USB port, which the shipped configuration does not build.
- In the logging utility: the task of the standalone mode, the other modes, and reads of attributes.
- SUOUSB: the same engine and host as SUOUART, under other names, and the glue to a USB stack that is
  not in the repository.
- The other samples: a single task without a protocol, or a program whose behaviour is in the SDK, in
  vendored libraries or in micro-code that the repository does not hold. `PROJECT.json` names each.

Most of the repository's lines are not the program's own: emWin with its fonts and training
material, CMSIS, the FAT file system, headers of the SDK and configuration headers copied into every
sample. They hold data tables and third-party code, and a model of them would say nothing about
these programs; so the share of lines that the modules cover is small, and stays so.
