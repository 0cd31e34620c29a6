------------------------------- MODULE LogLink -------------------------------
(***************************************************************************)
(* The way of the log messages from the queue to the client,               *)
(* src/features/logging_util_example/ble_queue_task.c.  Two tasks take     *)
(* from the queue: the timer task, whose one-shot timer looks for a first  *)
(* message (send_ntf_timer_cb), and the BLE task, which sends the next one *)
(* when a notification has gone out (handle_evt_send_ind).  Either starts  *)
(* the timer again when it finds the queue empty, and the BLE task starts  *)
(* or stops it when the client writes the CCC or goes.  Nothing but this   *)
(* relay keeps the two from taking messages at the same time.              *)
(***************************************************************************)
EXTENDS LogQueue

CONSTANTS Scenarios,     \* bounds: losses, refusals, writes of the CCC and of the severity
          Nothing        \* no message

Budgets == [losses : Nat, refusals : Nat, writes : Nat, levels : Nat]

ASSUME LinkAssumption == Scenarios \subseteq Budgets /\ Nothing \notin Nat

VARIABLES
  conn, ccc,     \* the connection; the CCC: "off", "kept" (from an earlier one), or "on"
  timer,         \* send_ntf_timer runs
  events,        \* events that wait for the BLE task
  sending,       \* notifications in the stack
  at, msg,       \* where the timer task and the BLE task are; their current_message
  left,          \* what is left of the budgets
  again,         \* the client has asked for messages while it was still getting some
  refused,       \* a notification was refused, or failed, on this connection
  missed,        \* messages taken from the queue that were not handed to the stack
  wild,          \* a current_message was used that no OS_QUEUE_GET had set
  heard          \* the messages handed to the stack for the client

linkVars == <<conn, ccc, timer, events, sending, at, msg, left, again, refused, missed, wild, heard>>
vars == <<logVars, linkVars>>

Consumers == {"timer", "ble"}

Init ==
  /\ LogInit
  /\ conn = TRUE /\ ccc = "off" /\ timer = FALSE /\ events = <<>> /\ sending = 0
  /\ at = [c \in Consumers |-> "idle"] /\ msg = [c \in Consumers |-> Nothing]
  /\ left \in Scenarios
  /\ again = FALSE /\ refused = FALSE /\ missed = 0 /\ wild = FALSE /\ heard = <<>>

-----------------------------------------------------------------------------
(* What both consumers do with a message.                                  *)

\* OS_QUEUE_GET without waiting.  What it leaves in current_message when the queue is empty
\* is null in the timer task and whatever was on the stack in the BLE task.
Get(c) ==
  /\ ~wild /\ at[c] = "get"
  /\ IF q = <<>>
     THEN wild' = TRUE /\ UNCHANGED <<q, at, msg>>
     ELSE /\ msg' = [msg EXCEPT ![c] = Head(q)] /\ q' = Tail(q)
          /\ at' = [at EXCEPT ![c] = "notify"]
          /\ UNCHANGED wild
  /\ UNCHANGED <<suppressed, quiet, pc, count, called, logged, puts, reported, clash,
                 conn, ccc, timer, events, sending, left, again, refused, missed, heard>>

\* log_notify_char_value, whose result nobody looks at, and OS_FREE.
Accepted(c) ==
  /\ conn /\ ccc # "off"
  /\ heard' = Append(heard, msg[c]) /\ sending' = sending + 1
  /\ UNCHANGED <<left, refused, missed>>
Swallowed ==
  /\ ~conn \/ ccc = "off"
  /\ missed' = missed + 1
  /\ UNCHANGED <<heard, sending, left, refused>>
Refused ==
  /\ conn /\ ccc # "off" /\ left.refusals > 0
  /\ left' = [left EXCEPT !.refusals = @ - 1]
  /\ refused' = TRUE /\ missed' = missed + 1
  /\ UNCHANGED <<heard, sending>>
Notify(c) ==
  /\ ~wild /\ at[c] = "notify"
  /\ Accepted(c) \/ Swallowed \/ Refused
  /\ at' = [at EXCEPT ![c] = "idle"] /\ msg' = [msg EXCEPT ![c] = Nothing]
  /\ UNCHANGED <<logVars, conn, ccc, timer, events, again, wild>>

-----------------------------------------------------------------------------
(* The timer task: send_ntf_timer_cb.                                      *)

Fire ==
  /\ ~wild /\ timer /\ at["timer"] = "idle"
  /\ timer' = FALSE
  /\ at' = [at EXCEPT !["timer"] = "check"]
  /\ UNCHANGED <<logVars, conn, ccc, events, sending, msg, left, again, refused, missed, wild, heard>>

TimerCheckOnce ==        \* mutant: an empty queue does not start the timer again
  /\ ~wild /\ at["timer"] = "check"
  /\ at' = [at EXCEPT !["timer"] = IF conn /\ q # <<>> THEN "get" ELSE "idle"]
  /\ UNCHANGED <<logVars, timer, conn, ccc, events, sending, msg, left, again, refused, missed, wild, heard>>
TimerCheckRestarts ==    \* mutant: the timer goes on while the chain of notifications runs
  /\ ~wild /\ at["timer"] = "check"
  /\ timer' = TRUE
  /\ at' = [at EXCEPT !["timer"] = IF conn /\ q # <<>> THEN "get" ELSE "idle"]
  /\ UNCHANGED <<logVars, conn, ccc, events, sending, msg, left, again, refused, missed, wild, heard>>
TimerCheck ==
  /\ ~wild /\ at["timer"] = "check"
  /\ IF conn /\ q # <<>>
     THEN at' = [at EXCEPT !["timer"] = "get"] /\ UNCHANGED timer
     ELSE at' = [at EXCEPT !["timer"] = "idle"] /\ timer' = TRUE
  /\ UNCHANGED <<logVars, conn, ccc, events, sending, msg, left, again, refused, missed, wild, heard>>

-----------------------------------------------------------------------------
(* The BLE task.                                                           *)

Takes(event) ==
  /\ ~wild /\ at["ble"] = "idle" /\ events # <<>> /\ Head(events) = event
  /\ events' = Tail(events)

\* handle_evt_send_ind, which does nothing about a notification that has failed.
HandleSentStarts(status) ==      \* mutant: the timer is started whatever is in the queue
  /\ Takes(status)
  /\ timer' = (timer \/ status = "sent")
  /\ at' = IF status = "sent" /\ q # <<>> THEN [at EXCEPT !["ble"] = "get"] ELSE at
  /\ UNCHANGED <<logVars, conn, ccc, sending, msg, left, again, refused, missed, wild, heard>>
HandleSent(status) ==
  /\ Takes(status)
  /\ \/ status = "failed" /\ UNCHANGED <<timer, at>>
     \/ status = "sent" /\ q # <<>> /\ at' = [at EXCEPT !["ble"] = "get"] /\ UNCHANGED timer
     \/ status = "sent" /\ q = <<>> /\ timer' = TRUE /\ UNCHANGED at
  /\ UNCHANGED <<logVars, conn, ccc, sending, msg, left, again, refused, missed, wild, heard>>

\* handle_write_req: the CCC is stored, which takes a connection, then the timer is started or
\* stopped, as the client has written.
StoreCcc(v) ==
  /\ Takes(v)
  /\ ccc' = IF conn THEN v ELSE ccc
  /\ at' = [at EXCEPT !["ble"] = IF v = "on" THEN "start" ELSE "stop"]
  /\ UNCHANGED <<logVars, conn, timer, sending, msg, left, again, refused, missed, wild, heard>>
CccTimer ==
  /\ ~wild /\ at["ble"] \in {"start", "stop"}
  /\ timer' = (at["ble"] = "start")
  /\ at' = [at EXCEPT !["ble"] = "idle"]
  /\ UNCHANGED <<logVars, conn, ccc, events, sending, msg, left, again, refused, missed, wild, heard>>

\* handle_evt_gap_disconnected; from then on a client may come.
HandleGone ==
  /\ Takes("gone")
  /\ timer' = FALSE
  /\ UNCHANGED <<logVars, conn, ccc, sending, at, msg, left, again, refused, missed, wild, heard>>

\* severity_set_val_cb.
SetSeverity ==
  /\ ~wild /\ at["ble"] = "idle" /\ conn /\ left.levels > 0
  /\ left' = [left EXCEPT !.levels = @ - 1]
  /\ quiet' = ~quiet
  /\ UNCHANGED <<q, suppressed, pc, count, called, logged, puts, reported, clash,
                 conn, ccc, timer, events, sending, at, msg, again, refused, missed, wild, heard>>

-----------------------------------------------------------------------------
(* The client and the stack.                                               *)

\* A client connects, and finds the CCC as it has left it if it is bonded.
Connect ==
  /\ ~conn /\ \A i \in 1..Len(events) : events[i] # "gone"
  /\ conn' = TRUE
  /\ ccc' \in IF ccc = "off" THEN {"off"} ELSE {"off", "kept"}
  /\ UNCHANGED <<logVars, timer, events, sending, at, msg, left, again, refused, missed, wild, heard>>

\* The client writes the CCC.  Someone is about to take a message from the queue, or will be:
\* the turn is in the timer, among the events, in the stack or with one of the two tasks.
Running ==
  \/ timer \/ sending > 0 \/ \E i \in DOMAIN events : events[i] \in {"on", "sent"}
  \/ at["timer"] # "idle" \/ at["ble"] \in {"start", "get", "notify"}
ClientWrites(v) ==
  /\ conn /\ left.writes > 0
  /\ left' = [left EXCEPT !.writes = @ - 1]
  /\ events' = Append(events, v)
  /\ again' = (again \/ (v = "on" /\ Running))
  /\ UNCHANGED <<logVars, conn, ccc, timer, sending, at, msg, refused, missed, wild, heard>>

\* A notification has gone out, or has failed (bounded with the refusals).
Sent ==
  /\ conn /\ sending > 0
  /\ sending' = sending - 1
  /\ events' = Append(events, "sent")
  /\ UNCHANGED <<logVars, conn, ccc, timer, at, msg, left, again, refused, missed, wild, heard>>

SentFails ==
  /\ conn /\ sending > 0 /\ left.refusals > 0
  /\ left' = [left EXCEPT !.refusals = @ - 1]
  /\ sending' = sending - 1 /\ refused' = TRUE
  /\ events' = Append(events, "failed")
  /\ UNCHANGED <<logVars, conn, ccc, timer, at, msg, again, missed, wild, heard>>

\* The connection is lost, with the notifications in the stack.
Lose ==
  /\ conn /\ left.losses > 0
  /\ left' = [left EXCEPT !.losses = @ - 1]
  /\ conn' = FALSE /\ sending' = 0 /\ refused' = FALSE
  /\ events' = Append(events, "gone")
  /\ UNCHANGED <<logVars, ccc, timer, at, msg, again, missed, wild, heard>>

Producers == \E t \in Tasks : LogStep(t) /\ UNCHANGED linkVars
TimerTask == Fire \/ TimerCheck \/ Get("timer") \/ Notify("timer")
BleTask == \/ (\E e \in {"sent", "failed"} : HandleSent(e)) \/ HandleGone
           \/ (\E v \in {"off", "on"} : StoreCcc(v)) \/ CccTimer
           \/ Get("ble") \/ Notify("ble")

Next == \/ Producers \/ TimerTask \/ BleTask \/ SetSeverity
        \/ (\E v \in {"off", "on"} : ClientWrites(v)) \/ Sent \/ SentFails \/ Lose \/ Connect
Spec == Init /\ [][Next]_vars

\* The timer runs out, the tasks that serve the link get their turn, and the stack sends.
Fairness == WF_vars(TimerTask) /\ WF_vars(BleTask) /\ WF_vars(Sent)
FairSpec == Spec /\ Fairness

-----------------------------------------------------------------------------
(* Properties.                                                             *)

TypeOK ==
  /\ LogTypeOK
  /\ conn \in BOOLEAN /\ ccc \in {"off", "kept", "on"} /\ timer \in BOOLEAN
  /\ events \in Seq({"sent", "failed", "off", "on", "gone"}) /\ sending \in Nat
  /\ at \in [Consumers -> {"idle", "check", "get", "notify", "start", "stop"}]
  /\ msg \in [Consumers -> Nat \cup {Nothing}]
  /\ left \in Budgets
  /\ again \in BOOLEAN /\ refused \in BOOLEAN /\ missed \in Nat /\ wild \in BOOLEAN
  /\ heard \in Seq(Nat)

\* "Send the first notification message, the rest will be send out from the completion
\* handler": the timer task and the BLE task never look for the same message, and no
\* current_message is used that was not set, whatever connections are lost, notifications
\* refused and CCCs written, as long as the client does not ask while it is being served.
NeverWild == ~again => ~wild

\* As long as it does not, every message that the queue took was handed to the stack, is on its
\* way there or was dropped (nobody listened, or the stack refused it), once and in the order of
\* the queue, though two tasks take them.
InHandOf(c) == IF msg[c] = Nothing THEN <<>> ELSE <<msg[c]>>
OnTheWay == heard \o InHandOf("timer") \o InHandOf("ble") \o q
Ascending(s, n) ==
  \A i \in 1..Len(s) : s[i] \in 1..n /\ \A j \in 1..Len(s) : i < j => s[i] < s[j]
InOrder == ~again => Ascending(OnTheWay, puts) /\ Len(OnTheWay) + missed = puts

\* As long as a client listens, the queue is emptied: the relay between the two tasks is never
\* dropped, whatever losses, reconnections and writes of the CCC came before.  A notification
\* that the stack refuses does drop it.
Listening == conn /\ ccc = "on" /\ ~refused /\ ~wild
Drains == (Listening /\ q # <<>>) ~> (q = <<>> \/ ~Listening)

=============================================================================
