------------------------------ MODULE LogQueue ------------------------------
(***************************************************************************)
(* The queue of the logging utility and the tasks that log into it,        *)
(* src/features/logging_util_example/mod_logging.c.  The tasks have the    *)
(* same priority and are preempted anywhere: only the single accesses to   *)
(* suppressed_messages are inside critical sections, and the queue takes   *)
(* care of itself.  A message that finds the queue full, or too little     *)
(* heap, is counted; the task that gets a message in tries to add a report *)
(* of how many were suppressed.                                            *)
(*                                                                         *)
(* A message is the number of its OS_QUEUE_PUT, so that the queue shows    *)
(* what is missing, repeated or out of order.                              *)
(***************************************************************************)
EXTENDS Integers, Sequences, FiniteSets

CONSTANTS Tasks,         \* the tasks that log
          LENGTH,        \* LOGGING_QUEUE_LENGTH
          MIN_COUNT,     \* LOGGING_SUPPRESSED_MIN_COUNT
          COUNT_RANGE,   \* 2^32, the range of suppressed_messages
          CALLS          \* bound: calls of log_printf_raw

ASSUME LogAssumption ==
  /\ IsFiniteSet(Tasks)
  /\ LENGTH \in Nat \ {0} /\ MIN_COUNT \in Nat \ {0}
  /\ CALLS \in Nat /\ COUNT_RANGE \in Nat /\ CALLS < COUNT_RANGE

VARIABLES
  q,             \* xLogQueue
  suppressed,    \* suppressed_messages
  quiet,         \* logging_min_severity is above LOGGING_SUPPRESSED_SEVERITY
  pc, count,     \* where each task is; its local suppressed_count
  called,        \* calls so far
  logged, puts,  \* messages of these calls that were queued; all that were queued
  reported,      \* sum of the counts in the reports that were queued
  clash          \* a task took the count while another was still reporting it

logVars == <<q, suppressed, quiet, pc, count, called, logged, puts, reported, clash>>

LogInit ==
  /\ q = <<>> /\ suppressed = 0 /\ quiet = FALSE
  /\ pc = [t \in Tasks |-> "idle"] /\ count = [t \in Tasks |-> 0]
  /\ called = 0 /\ logged = 0 /\ puts = 0 /\ reported = 0 /\ clash = FALSE

Full == Len(q) >= LENGTH
Goto(t, where) == pc' = [pc EXCEPT ![t] = where]

-----------------------------------------------------------------------------
(* log_printf_raw and log_send.                                            *)

\* The early check for room; then the heap is looked at, once or (for a long message) twice.
LogPrintf(t) ==
  /\ pc[t] = "idle" /\ called < CALLS
  /\ called' = called + 1
  /\ \/ ~Full /\ Goto(t, "put")
     \/ Goto(t, "suppress")          \* full, or too little heap
  /\ UNCHANGED <<q, suppressed, quiet, count, logged, puts, reported, clash>>

Suppress(t) ==
  /\ pc[t] = "suppress"
  /\ suppressed' = (suppressed + 1) % COUNT_RANGE
  /\ Goto(t, "idle")
  /\ UNCHANGED <<q, quiet, count, called, logged, puts, reported, clash>>

LogSend(t) ==
  /\ pc[t] = "put"
  /\ IF Full
     THEN Goto(t, "suppress") /\ UNCHANGED <<q, logged, puts>>
     ELSE /\ q' = Append(q, puts + 1)
          /\ puts' = puts + 1 /\ logged' = logged + 1
          /\ Goto(t, "read")
  /\ UNCHANGED <<suppressed, quiet, count, called, reported, clash>>

-----------------------------------------------------------------------------
(* log_suppressed.                                                         *)

Reporting(t) == pc[t] \in {"room", "putreport", "subtract"}

\* The local copy of the count, if there is enough to report.
ReadSuppressed(t) ==
  /\ pc[t] = "read"
  /\ IF quiet
     THEN Goto(t, "idle") /\ UNCHANGED <<count, clash>>
     ELSE /\ count' = [count EXCEPT ![t] = suppressed]
          /\ IF suppressed >= MIN_COUNT
             THEN Goto(t, "room") /\ clash' = (clash \/ \E u \in Tasks : Reporting(u))
             ELSE Goto(t, "idle") /\ UNCHANGED clash
  /\ UNCHANGED <<q, suppressed, quiet, called, logged, puts, reported>>

ReportRoom(t) ==
  /\ pc[t] = "room"
  /\ Goto(t, IF Full THEN "idle" ELSE "putreport")
  /\ UNCHANGED <<q, suppressed, quiet, count, called, logged, puts, reported, clash>>

PutReport(t) ==
  /\ pc[t] = "putreport"
  /\ IF Full
     THEN Goto(t, "idle") /\ UNCHANGED <<q, puts>>
     ELSE q' = Append(q, puts + 1) /\ puts' = puts + 1 /\ Goto(t, "subtract")
  /\ UNCHANGED <<suppressed, quiet, count, called, logged, reported, clash>>

SubtractAll(t) ==        \* mutant: the count is reset, with what was suppressed meanwhile
  /\ pc[t] = "subtract"
  /\ suppressed' = 0
  /\ reported' = reported + count[t]
  /\ Goto(t, "idle")
  /\ UNCHANGED <<q, quiet, count, called, logged, puts, clash>>
SubtractSigned(t) ==     \* mutant: suppressed_messages is signed
  /\ pc[t] = "subtract"
  /\ suppressed' = suppressed - count[t]
  /\ reported' = reported + count[t]
  /\ Goto(t, "idle")
  /\ UNCHANGED <<q, quiet, count, called, logged, puts, clash>>
Subtract(t) ==
  /\ pc[t] = "subtract"
  /\ suppressed' = (suppressed - count[t]) % COUNT_RANGE
  /\ reported' = reported + count[t]
  /\ Goto(t, "idle")
  /\ UNCHANGED <<q, quiet, count, called, logged, puts, clash>>

LogStep(t) == \/ LogPrintf(t) \/ Suppress(t) \/ LogSend(t)
              \/ ReadSuppressed(t) \/ ReportRoom(t) \/ PutReport(t) \/ Subtract(t)

-----------------------------------------------------------------------------
(* Properties.                                                             *)

LogTypeOK ==
  /\ q \in Seq(Nat) /\ suppressed \in 0..COUNT_RANGE-1 /\ quiet \in BOOLEAN
  /\ pc \in [Tasks -> {"idle", "put", "suppress", "read", "room", "putreport", "subtract"}]
  /\ count \in [Tasks -> 0..COUNT_RANGE-1]
  /\ called \in 0..CALLS /\ logged \in Nat /\ puts \in Nat /\ reported \in Nat
  /\ clash \in BOOLEAN

\* The calls that have come to nothing, and were or are about to be counted.
InHand == {t \in Tasks : pc[t] \in {"put", "suppress"}}
Lost == called - logged - Cardinality(InHand)

\* The "Discarded Log Count" tells the truth: what it shows and what was reported make up
\* the messages that were lost, though messages are lost while a report is on its way.
\* So nothing is reported twice.  It holds as long as no two tasks report at the same time:
\* log_suppressed does not keep them apart, and two tasks that have read the same count both
\* report it and both subtract it.
CountTrue == ~clash => suppressed = Lost - reported

=============================================================================
