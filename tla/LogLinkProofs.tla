---------------------------- MODULE LogLinkProofs ----------------------------
(***************************************************************************)
(* The discarded log count is true, and the two tasks that take from the   *)
(* queue never meet, for any number of tasks that log, any length of the   *)
(* queue and any number of calls (LogLink).                                *)
(***************************************************************************)
EXTENDS LogLink, FiniteSetTheorems, SequenceTheorems, TLAPS

\* One task at a time reports, and the count it has taken is still there to be subtracted.
OneReports ==
  ~clash => /\ \A t, u \in Tasks : Reporting(t) /\ Reporting(u) => t = u
            /\ \A t \in Tasks : Reporting(t) => count[t] <= suppressed

\* A message is taken in answer to a first write of the CCC or to a notification that is out.
Asks == {"on", "sent"}
NoAsk(waiting) == \A i \in 1..Len(waiting) : waiting[i] \notin Asks
OneAsk(waiting) == \E i \in 1..Len(waiting) : \A j \in 1..Len(waiting) : waiting[j] \in Asks <=> j = i

\* The turn to take the next message is with the timer, the stack, the events for the BLE task,
\* the timer task or the BLE task, or nowhere, but never twice.
BleHas == at["ble"] \in {"start", "get", "notify"}
OneTurn ==
  ~again => /\ ~wild /\ sending <= 1 /\ (NoAsk(events) \/ OneAsk(events))
            /\ timer => sending = 0
            /\ timer \/ sending = 1 => NoAsk(events)
            /\ timer \/ sending = 1 \/ ~NoAsk(events) => at["timer"] = "idle"
            /\ timer \/ sending = 1 \/ ~NoAsk(events) \/ at["timer"] # "idle" => ~BleHas

\* Whoever has looked and seen a message still finds it.
SeenIsThere == ~again => \A c \in Consumers : at[c] = "get" => q # <<>>

\* Whoever is to hand a message over has one.
HasMessage == \A c \in Consumers : at[c] = "notify" => msg[c] \in Nat

\* Nobody else has.
EmptyHands == \A c \in Consumers : at[c] # "notify" => msg[c] = Nothing

\* Each task is only where its own code is.
Places == at["timer"] \in {"idle", "check", "get", "notify"} /\ at["ble"] # "check"

IInv == TypeOK /\ Places /\ HasMessage /\ CountTrue /\ OneReports /\ OneTurn /\ SeenIsThere
        /\ EmptyHands /\ InOrder

-----------------------------------------------------------------------------
(* Counting the calls in hand.                                             *)

LEMMA InHandFinite == IsFiniteSet(InHand) /\ Cardinality(InHand) \in Nat
  BY LogAssumption, FS_Subset, FS_CardinalityType DEF InHand

\* A task that comes to work on a call, or is done with it.
LEMMA InHandGrows ==
  ASSUME LogTypeOK, NEW t \in Tasks, t \notin InHand, NEW w \in {"put", "suppress"}, Goto(t, w)
  PROVE  Cardinality(InHand') = Cardinality(InHand) + 1
  <1>1. InHand' = InHand \cup {t} BY DEF LogTypeOK, InHand, Goto
  <1> QED BY <1>1, InHandFinite, FS_AddElement

LEMMA InHandShrinks ==
  ASSUME LogTypeOK, NEW t \in Tasks, t \in InHand, NEW w \in {"idle", "read"}, Goto(t, w)
  PROVE  Cardinality(InHand') = Cardinality(InHand) - 1 /\ Cardinality(InHand) >= 1
  <1>1. InHand' = InHand \ {t} BY DEF LogTypeOK, InHand, Goto
  <1>2. IsFiniteSet(InHand \ {t}) /\ Cardinality(InHand \ {t}) = Cardinality(InHand) - 1
    BY InHandFinite, FS_RemoveElement
  <1>3. Cardinality(InHand \ {t}) \in Nat BY <1>2, FS_CardinalityType
  <1> QED BY <1>1, <1>2, <1>3, InHandFinite

LEMMA InHandKept ==
  ASSUME LogTypeOK, NEW t \in Tasks, NEW w, Goto(t, w),
         t \in InHand <=> w \in {"put", "suppress"}
  PROVE  InHand' = InHand
  BY DEF LogTypeOK, InHand, Goto

-----------------------------------------------------------------------------
(* The tasks that log.                                                     *)

LEMMA Unwrapped ==
  ASSUME NEW x \in 0..COUNT_RANGE-1
  PROVE  x % COUNT_RANGE = x
  BY LogAssumption

LEMMA Wrapped ==
  ASSUME NEW x \in Int
  PROVE  x % COUNT_RANGE \in 0..COUNT_RANGE-1
  BY LogAssumption

LEMMA LogTypeHolds ==
  ASSUME LogTypeOK, NEW t \in Tasks, LogStep(t)
  PROVE  LogTypeOK'
  <1> USE LogAssumption DEF LogTypeOK, Goto
  <1>1. CASE LogPrintf(t) BY <1>1 DEF LogPrintf
  <1>2. CASE Suppress(t)
    <2>0. suppressed + 1 \in Int OBVIOUS
    <2>1. (suppressed + 1) % COUNT_RANGE \in 0..COUNT_RANGE-1 BY ONLY <2>0, Wrapped
    <2> QED BY <1>2, <2>1 DEF Suppress
  <1>0. Append(q, puts + 1) \in Seq(Nat) OBVIOUS
  <1>3. CASE LogSend(t)
    <2>1. CASE Full BY <1>3, <2>1 DEF LogSend
    <2>2. CASE ~Full
      <3>1. /\ q' = Append(q, puts + 1) /\ puts' = puts + 1 /\ logged' = logged + 1
            /\ pc' = [pc EXCEPT ![t] = "read"]
        BY <1>3, <2>2 DEF LogSend
      <3> QED BY <1>0, <1>3, <3>1 DEF LogSend
    <2> QED BY <2>1, <2>2
  <1>4. CASE ReadSuppressed(t) BY <1>4 DEF ReadSuppressed
  <1>5. CASE ReportRoom(t) BY <1>5 DEF ReportRoom
  <1>6. CASE PutReport(t)
    <2>1. CASE Full BY <1>6, <2>1 DEF PutReport
    <2>2. CASE ~Full
      <3>1. q' = Append(q, puts + 1) /\ puts' = puts + 1 /\ pc' = [pc EXCEPT ![t] = "subtract"]
        BY <1>6, <2>2 DEF PutReport
      <3> QED BY <1>0, <1>6, <3>1 DEF PutReport
    <2> QED BY <2>1, <2>2
  <1>7. CASE Subtract(t)
    <2>0. suppressed - count[t] \in Int OBVIOUS
    <2>1. (suppressed - count[t]) % COUNT_RANGE \in 0..COUNT_RANGE-1 BY ONLY <2>0, Wrapped
    <2>2. reported + count[t] \in Nat OBVIOUS
    <2> QED BY <1>7, <2>1, <2>2 DEF Subtract
  <1> QED BY <1>1, <1>2, <1>3, <1>4, <1>5, <1>6, <1>7 DEF LogStep

LEMMA LogCountHolds ==
  ASSUME LogTypeOK, CountTrue, OneReports, NEW t \in Tasks, LogStep(t)
  PROVE  CountTrue' /\ OneReports'
  <1> DEFINE n == Cardinality(InHand)
  <1> USE LogAssumption
  <1>0. n \in Nat BY InHandFinite
  <1>1. CASE LogPrintf(t)
    <2>1. n' = n + 1
      <3>1. t \notin InHand BY <1>1 DEF LogPrintf, InHand
      <3> QED BY <1>1, <3>1, InHandGrows DEF LogPrintf
    <2>2. CountTrue' BY <1>0, <1>1, <2>1 DEF LogPrintf, CountTrue, Lost, LogTypeOK
    <2>3. OneReports' BY <1>1 DEF LogPrintf, OneReports, Reporting, Goto, LogTypeOK
    <2> QED BY <2>2, <2>3
  <1>2. CASE Suppress(t)
    <2>1. n' = n - 1 /\ n >= 1
      <3>1. t \in InHand BY <1>2 DEF Suppress, InHand
      <3> QED BY <1>2, <3>1, InHandShrinks DEF Suppress
    <2>2. ~clash => suppressed' = suppressed + 1
      <3>1. ~clash => suppressed + 1 \in 0..COUNT_RANGE-1
        BY <1>0, <2>1 DEF CountTrue, Lost, LogTypeOK
      <3> QED BY <1>2, <3>1, Unwrapped DEF Suppress
    <2>3. CountTrue' BY <1>0, <1>2, <2>1, <2>2 DEF Suppress, CountTrue, Lost, LogTypeOK
    <2>4. OneReports' BY <1>2, <2>2 DEF Suppress, OneReports, Reporting, Goto, LogTypeOK
    <2> QED BY <2>3, <2>4
  <1>3. CASE LogSend(t)
    <2>1. CASE Full
      <3>1. InHand' = InHand
        <4>1. t \in InHand BY <1>3 DEF LogSend, InHand
        <4> QED BY <1>3, <2>1, <4>1, InHandKept DEF LogSend
      <3>2. CountTrue' BY <1>3, <2>1, <3>1 DEF LogSend, CountTrue, Lost
      <3>3. OneReports' BY <1>3, <2>1 DEF LogSend, OneReports, Reporting, Goto, LogTypeOK
      <3> QED BY <3>2, <3>3
    <2>2. CASE ~Full
      <3>1. n' = n - 1
        <4>1. t \in InHand BY <1>3 DEF LogSend, InHand
        <4> QED BY <1>3, <2>2, <4>1, InHandShrinks DEF LogSend
      <3>2. CountTrue' BY <1>0, <1>3, <2>2, <3>1 DEF LogSend, CountTrue, Lost, LogTypeOK
      <3>3. OneReports' BY <1>3, <2>2 DEF LogSend, OneReports, Reporting, Goto, LogTypeOK
      <3> QED BY <3>2, <3>3
    <2> QED BY <2>1, <2>2
  <1>4. CASE ReadSuppressed(t)
    <2>1. InHand' = InHand BY <1>4, InHandKept DEF ReadSuppressed, InHand
    <2>2. CountTrue' BY <1>4, <2>1 DEF ReadSuppressed, CountTrue, Lost
    <2>3. CASE pc'[t] = "room"
      <3>1. /\ count' = [count EXCEPT ![t] = suppressed] /\ suppressed' = suppressed
            /\ pc' = [pc EXCEPT ![t] = "room"]
            /\ clash' = (clash \/ \E u \in Tasks : Reporting(u))
        BY <1>4, <2>3 DEF ReadSuppressed, Goto, LogTypeOK
      <3>2. ~clash' => ~clash /\ \A u \in Tasks \ {t} : ~Reporting(u)'
        BY <3>1 DEF Reporting, LogTypeOK
      <3>3. count'[t] = suppressed' BY <3>1 DEF LogTypeOK
      <3>4. ASSUME ~clash', NEW u \in Tasks, NEW v \in Tasks, Reporting(u)', Reporting(v)'
            PROVE  u = v /\ count'[u] <= suppressed'
        <4>1. u = t /\ v = t BY <3>2, <3>4
        <4> QED BY <3>1, <3>3, <4>1 DEF LogTypeOK
      <3>5. OneReports' BY <3>4 DEF OneReports, Reporting
      <3> QED BY <2>2, <3>5
    <2>4. CASE pc'[t] # "room"
      <3>1. /\ pc' = [pc EXCEPT ![t] = "idle"] /\ clash' = clash /\ suppressed' = suppressed
            /\ \A u \in Tasks \ {t} : count'[u] = count[u]
        BY <1>4, <2>4 DEF ReadSuppressed, Goto, LogTypeOK
      <3>2. ~Reporting(t)' BY <3>1 DEF Reporting, LogTypeOK
      <3>3. \A u \in Tasks \ {t} : Reporting(u)' => Reporting(u)
        BY <3>1 DEF Reporting, LogTypeOK
      <3>4. ASSUME ~clash', NEW u \in Tasks, NEW v \in Tasks, Reporting(u)', Reporting(v)'
            PROVE  u = v /\ count'[u] <= suppressed'
        <4>1. u # t /\ v # t /\ Reporting(u) /\ Reporting(v) BY <3>2, <3>3, <3>4
        <4> QED BY <3>1, <3>4, <4>1 DEF OneReports
      <3>5. OneReports' BY <3>4 DEF OneReports, Reporting
      <3> QED BY <2>2, <3>5
    <2> QED BY <2>3, <2>4
  <1>5. CASE ReportRoom(t)
    <2>1. InHand' = InHand BY <1>5, InHandKept DEF ReportRoom, InHand
    <2>2. CountTrue' BY <1>5, <2>1 DEF ReportRoom, CountTrue, Lost
    <2>3. OneReports' BY <1>5 DEF ReportRoom, OneReports, Reporting, Goto, LogTypeOK
    <2> QED BY <2>2, <2>3
  <1>6. CASE PutReport(t)
    <2>1. InHand' = InHand BY <1>6, InHandKept DEF PutReport, InHand
    <2>2. CountTrue' BY <1>6, <2>1 DEF PutReport, CountTrue, Lost
    <2>3. OneReports' BY <1>6 DEF PutReport, OneReports, Reporting, Goto, LogTypeOK
    <2> QED BY <2>2, <2>3
  <1>7. CASE Subtract(t)
    <2>1. InHand' = InHand BY <1>7, InHandKept DEF Subtract, InHand
    <2>2. ~clash => suppressed' = suppressed - count[t]
      <3>1. ~clash => suppressed - count[t] \in 0..COUNT_RANGE-1
        BY <1>7 DEF Subtract, OneReports, Reporting, LogTypeOK
      <3> QED BY <1>7, <3>1, Unwrapped DEF Subtract
    <2>3. CountTrue' BY <1>0, <1>7, <2>1, <2>2 DEF Subtract, CountTrue, Lost, LogTypeOK
    <2>4. ~clash => \A u \in Tasks : ~Reporting(u)'
      BY <1>7 DEF Subtract, OneReports, Reporting, Goto, LogTypeOK
    <2>5. OneReports' BY <1>7, <2>4 DEF Subtract, OneReports
    <2> QED BY <2>3, <2>5
  <1> QED BY <1>1, <1>2, <1>3, <1>4, <1>5, <1>6, <1>7 DEF LogStep

\* A task that logs never takes a message from the queue.
LEMMA LogKeepsQueue ==
  ASSUME LogTypeOK, NEW t \in Tasks, LogStep(t), q # <<>>
  PROVE  q' # <<>>
  <1>1. \A m \in Nat : Append(q, m) # <<>> BY DEF LogTypeOK
  <1>2. puts + 1 \in Nat BY DEF LogTypeOK
  <1> QED BY <1>1, <1>2 DEF LogStep, LogPrintf, Suppress, LogSend, ReadSuppressed, ReportRoom,
                            PutReport, Subtract

-----------------------------------------------------------------------------
(* The way to the client.                                                  *)

LinkStep == TimerTask \/ BleTask \/ SetSeverity \/ (\E v \in {"off", "on"} : ClientWrites(v))
            \/ Sent \/ SentFails \/ Lose \/ Connect

LEMMA Spent ==
  ASSUME NEW l \in Budgets
  PROVE  /\ l.losses > 0 => [l EXCEPT !.losses = @ - 1] \in Budgets
         /\ l.refusals > 0 => [l EXCEPT !.refusals = @ - 1] \in Budgets
         /\ l.writes > 0 => [l EXCEPT !.writes = @ - 1] \in Budgets
         /\ l.levels > 0 => [l EXCEPT !.levels = @ - 1] \in Budgets
  <1> USE DEF Budgets
  <1>1. l.losses \in Nat /\ l.refusals \in Nat /\ l.writes \in Nat /\ l.levels \in Nat OBVIOUS
  <1>2. \A n \in Nat : n > 0 => n - 1 \in Nat OBVIOUS
  <1>3. \A n \in Nat : /\ [l EXCEPT !.losses = n] \in Budgets
                       /\ [l EXCEPT !.refusals = n] \in Budgets
                       /\ [l EXCEPT !.writes = n] \in Budgets
                       /\ [l EXCEPT !.levels = n] \in Budgets
    OBVIOUS
  <1> QED BY <1>1, <1>2, <1>3

LEMMA LinkTypeHolds ==
  ASSUME TypeOK, HasMessage, LinkStep
  PROVE  TypeOK'
  <1> USE DEF TypeOK, LogTypeOK, Consumers
  <1>1. ASSUME NEW c \in Consumers, Get(c) PROVE TypeOK'
    <2>1. CASE q = <<>> BY <1>1, <2>1 DEF Get
    <2>2. CASE q # <<>>
      <3>1. Head(q) \in Nat /\ Tail(q) \in Seq(Nat) BY <2>2
      <3>2. /\ q' = Tail(q) /\ msg' = [msg EXCEPT ![c] = Head(q)]
            /\ at' = [at EXCEPT ![c] = "notify"] /\ wild' = wild
        BY <1>1, <2>2 DEF Get
      <3> QED BY <1>1, <3>1, <3>2 DEF Get
    <2> QED BY <2>1, <2>2
  <1>2. ASSUME NEW c \in Consumers, Notify(c) PROVE TypeOK'
    <2>0. /\ at' = [at EXCEPT ![c] = "idle"] /\ msg' = [msg EXCEPT ![c] = Nothing]
          /\ UNCHANGED <<logVars, conn, ccc, timer, events, again, wild>>
      BY <1>2 DEF Notify
    <2>1. CASE Accepted(c)
      <3>1. sending + 1 \in Nat OBVIOUS
      <3>2. msg[c] \in Nat BY <1>2 DEF Notify, HasMessage
      <3>3. Append(heard, msg[c]) \in Seq(Nat) BY <3>2
      <3> QED BY <2>0, <2>1, <3>1, <3>3 DEF Accepted, logVars
    <2>2. CASE Swallowed
      <3>1. missed + 1 \in Nat OBVIOUS
      <3> QED BY <2>0, <2>2, <3>1 DEF Swallowed, logVars
    <2>3. CASE Refused
      <3>1. left' \in Budgets
        BY <2>3, Spent DEF Refused
      <3>2. /\ refused' = TRUE /\ missed' \in Nat
            /\ UNCHANGED <<heard, sending>>
        BY <2>3 DEF Refused
      <3> QED BY <2>0, <3>1, <3>2 DEF logVars
    <2> QED BY <1>2, <2>1, <2>2, <2>3 DEF Notify
  <1>3. CASE Fire BY <1>3 DEF Fire, logVars
  <1>4. CASE TimerCheck
    <2>1. at' \in [Consumers -> {"idle", "check", "get", "notify", "start", "stop"}] /\ timer' \in BOOLEAN
      BY <1>4 DEF TimerCheck
    <2> QED BY <1>4, <2>1 DEF TimerCheck, logVars
  <1>5. ASSUME NEW v \in {"sent", "failed", "off", "on", "gone"}, Takes(v)
        PROVE  events' \in Seq({"sent", "failed", "off", "on", "gone"})
    BY <1>5 DEF Takes
  <1>6. ASSUME NEW e \in {"sent", "failed"}, HandleSent(e) PROVE TypeOK'
    <2>1. /\ at' \in [Consumers -> {"idle", "check", "get", "notify", "start", "stop"}]
          /\ timer' \in BOOLEAN
      BY <1>6 DEF HandleSent
    <2> QED BY <1>5, <1>6, <2>1 DEF HandleSent, logVars
  <1>7. ASSUME NEW v \in {"off", "on"}, StoreCcc(v) PROVE TypeOK'
    <2>1. at' \in [Consumers -> {"idle", "check", "get", "notify", "start", "stop"}]
      BY <1>7 DEF StoreCcc
    <2> QED BY <1>5, <1>7, <2>1 DEF StoreCcc, logVars
  <1>8. CASE CccTimer BY <1>8 DEF CccTimer, logVars
  <1>9. CASE HandleGone BY <1>5, <1>9 DEF HandleGone, logVars
  <1>10. CASE SetSeverity
    <2>1. left' \in Budgets
      BY <1>10, Spent DEF SetSeverity
    <2> QED BY <1>10, <2>1 DEF SetSeverity
  <1>11. ASSUME NEW v \in {"off", "on"}, ClientWrites(v) PROVE TypeOK'
    <2>1. left' \in Budgets
      BY <1>11, Spent DEF ClientWrites
    <2>2. events' \in Seq({"sent", "failed", "off", "on", "gone"}) BY <1>11 DEF ClientWrites
    <2> QED BY <1>11, <2>1, <2>2 DEF ClientWrites, logVars
  <1>12. CASE Sent
    <2>1. events' \in Seq({"sent", "failed", "off", "on", "gone"}) BY <1>12 DEF Sent
    <2>2. sending' \in Nat BY <1>12 DEF Sent
    <2> QED BY <1>12, <2>1, <2>2 DEF Sent, logVars
  <1>13. CASE Lose
    <2>1. left' \in Budgets
      BY <1>13, Spent DEF Lose
    <2>2. events' \in Seq({"sent", "failed", "off", "on", "gone"}) BY <1>13 DEF Lose
    <2> QED BY <1>13, <2>1, <2>2 DEF Lose, logVars
  <1>14. CASE Connect BY <1>14 DEF Connect, logVars
  <1>15. CASE SentFails
    <2>1. left' \in Budgets BY <1>15, Spent DEF SentFails
    <2>2. events' \in Seq({"sent", "failed", "off", "on", "gone"}) BY <1>15 DEF SentFails
    <2>3. sending' \in Nat BY <1>15 DEF SentFails
    <2> QED BY <1>15, <2>1, <2>2, <2>3 DEF SentFails, logVars
  <1> QED BY <1>1, <1>2, <1>3, <1>4, <1>6, <1>7, <1>8, <1>9, <1>10, <1>11, <1>12, <1>13, <1>14,
             <1>15
          DEF LinkStep, TimerTask, BleTask

\* The link changes the queue and the severity, and nothing else of the tasks that log.
LEMMA LinkCountHolds ==
  ASSUME LinkStep, CountTrue, OneReports
  PROVE  CountTrue' /\ OneReports'
  <1>1. UNCHANGED <<suppressed, pc, count, called, logged, reported, clash>>
    BY DEF LinkStep, TimerTask, BleTask, Get, Notify, Fire, TimerCheck, HandleSent, StoreCcc,
           CccTimer, HandleGone, SetSeverity, ClientWrites, Sent, SentFails, Lose, Connect, logVars
  <1> QED BY <1>1 DEF CountTrue, OneReports, Lost, InHand, Reporting

Kinds == {"sent", "failed", "off", "on", "gone"}

LEMMA AskAppended ==
  ASSUME NEW e \in Seq(Kinds), NEW v \in Kinds
  PROVE  /\ v \notin Asks => /\ NoAsk(e) => NoAsk(Append(e, v))
                             /\ OneAsk(e) => OneAsk(Append(e, v))
         /\ v \in Asks /\ NoAsk(e) => OneAsk(Append(e, v))
  <1> DEFINE f == Append(e, v)
             n == Len(e)
  <1>1. /\ n \in Nat /\ Len(f) = n + 1 /\ f[n + 1] = v
        /\ \A i \in 1..n : f[i] = e[i]
    OBVIOUS
  <1>2. \A i \in 1..n+1 : i = n + 1 \/ i \in 1..n BY <1>1
  <1>3. \A i \in 1..n : i \in 1..n+1 /\ i # n + 1 BY <1>1
  <1>4. n + 1 \in 1..n+1 BY <1>1
  <1> HIDE DEF f, n
  <1>5. v \notin Asks /\ NoAsk(e) => NoAsk(f) BY <1>1, <1>2 DEF NoAsk, n
  <1>6. v \in Asks /\ NoAsk(e) => OneAsk(f) BY <1>1, <1>2, <1>4 DEF NoAsk, OneAsk, n
  <1>7. ASSUME v \notin Asks, OneAsk(e) PROVE OneAsk(f)
    <2>1. PICK i \in 1..n : \A j \in 1..n : e[j] \in Asks <=> j = i BY <1>7 DEF OneAsk, n
    <2>2. \A j \in 1..n+1 : f[j] \in Asks <=> j = i BY <1>1, <1>2, <1>3, <1>7, <2>1
    <2>3. i \in 1..Len(f) BY <1>1, <1>3
    <2> QED BY <1>1, <2>2, <2>3 DEF OneAsk
  <1> QED BY <1>5, <1>6, <1>7 DEF f

LEMMA AskTaken ==
  ASSUME NEW e \in Seq(Kinds), e # <<>>
  PROVE  /\ NoAsk(e) => Head(e) \notin Asks /\ NoAsk(Tail(e))
         /\ OneAsk(e) /\ Head(e) \in Asks => NoAsk(Tail(e))
         /\ OneAsk(e) /\ Head(e) \notin Asks => OneAsk(Tail(e))
  <1> DEFINE f == Tail(e)
             n == Len(f)
  <1>1. /\ n \in Nat /\ Len(e) = n + 1 /\ Head(e) = e[1]
        /\ \A i \in 1..n : f[i] = e[i + 1]
    OBVIOUS
  <1>2. 1 \in 1..n+1 /\ \A i \in 1..n : i + 1 \in 1..n+1 /\ i + 1 # 1 BY <1>1
  <1>3. \A i \in 1..n+1 : i # 1 => i - 1 \in 1..n /\ (i - 1) + 1 = i BY <1>1
  <1>4. \A i, j \in 1..n : i + 1 = j + 1 => i = j BY <1>1
  <1> HIDE DEF f, n
  <1>5. NoAsk(e) => Head(e) \notin Asks /\ NoAsk(f) BY <1>1, <1>2 DEF NoAsk, n
  <1>6. ASSUME OneAsk(e) PROVE /\ Head(e) \in Asks => NoAsk(f)
                               /\ Head(e) \notin Asks => OneAsk(f)
    <2>0. PICK i \in 1..Len(e) : \A j \in 1..Len(e) : e[j] \in Asks <=> j = i
      BY <1>6 DEF OneAsk
    <2>1. i \in 1..n+1 /\ \A j \in 1..n+1 : e[j] \in Asks <=> j = i BY <1>1, <2>0
    <2>2. \A j \in 1..n : f[j] \in Asks <=> j + 1 = i BY <1>1, <1>2, <2>1
    <2>3. CASE i = 1
      <3>1. NoAsk(f) /\ Head(e) \in Asks BY <1>1, <1>2, <2>1, <2>2, <2>3 DEF NoAsk, n
      <3> QED BY <3>1
    <2>4. CASE i # 1
      <3>1. Head(e) \notin Asks BY <1>1, <1>2, <2>1, <2>4
      <3>2. i - 1 \in 1..n /\ (i - 1) + 1 = i BY <1>3, <2>1, <2>4
      <3>3. \A j \in 1..n : f[j] \in Asks <=> j = i - 1 BY <1>4, <2>2, <3>2
      <3> QED BY <3>1, <3>2, <3>3 DEF OneAsk, n
    <2> QED BY <2>3, <2>4
  <1> QED BY <1>5, <1>6 DEF f

\* What a client finds when it asks: nobody has the turn.
LEMMA NotRunning ==
  ASSUME TypeOK, ~Running
  PROVE  /\ ~timer /\ sending = 0 /\ NoAsk(events) /\ at["timer"] = "idle" /\ ~BleHas
  <1>1. DOMAIN events = 1..Len(events) BY DEF TypeOK
  <1> QED BY <1>1 DEF TypeOK, Running, NoAsk, Asks, BleHas

LEMMA LinkTurnHolds ==
  ASSUME TypeOK, Places, HasMessage, OneTurn, SeenIsThere, LinkStep
  PROVE  Places' /\ HasMessage' /\ OneTurn' /\ SeenIsThere'
  <1> DEFINE Goal == Places' /\ HasMessage' /\ OneTurn' /\ SeenIsThere'
  <1>a. /\ at \in [Consumers -> {"idle", "check", "get", "notify", "start", "stop"}]
        /\ msg \in [Consumers -> Nat \cup {Nothing}] /\ events \in Seq(Kinds)
        /\ timer \in BOOLEAN /\ again \in BOOLEAN /\ q \in Seq(Nat) /\ sending \in Nat
    BY DEF TypeOK, LogTypeOK, Kinds
  <1>b. ASSUME NEW v \in Kinds, Takes(v)
        PROVE  /\ at["ble"] = "idle"
               /\ NoAsk(events) => v \notin Asks /\ NoAsk(events')
               /\ OneAsk(events) /\ v \in Asks => NoAsk(events')
               /\ OneAsk(events) /\ v \notin Asks => OneAsk(events')
    BY <1>a, <1>b, AskTaken DEF Takes
  <1>c. "sent" \in Asks /\ "on" \in Asks /\ "failed" \notin Asks /\ "off" \notin Asks
        /\ "gone" \notin Asks /\ Asks \subseteq Kinds
        /\ "failed" \in Kinds /\ "off" \in Kinds /\ "gone" \in Kinds
    BY DEF Asks, Kinds
  <1>d. \A e : OneAsk(e) => ~NoAsk(e) BY DEF OneAsk, NoAsk
  <1>e. ASSUME NEW v \in {"off", "failed", "gone"}
        PROVE  /\ NoAsk(events) => NoAsk(Append(events, v))
               /\ OneAsk(events) => OneAsk(Append(events, v))
    <2>1. v \in Kinds /\ v \notin Asks BY <1>c
    <2> QED BY <1>a, <2>1, AskAppended
  <1> USE DEF Places, HasMessage, OneTurn, SeenIsThere, BleHas, Consumers
  <1>1. ASSUME NEW c \in Consumers, Get(c) PROVE Goal
    <2>1. CASE q = <<>> BY <1>a, <1>1, <2>1 DEF Get
    <2>2. CASE q # <<>>
      <3>1. Head(q) \in Nat BY <1>a, <2>2
      <3>2. /\ msg' = [msg EXCEPT ![c] = Head(q)] /\ at' = [at EXCEPT ![c] = "notify"]
            /\ UNCHANGED <<wild, timer, events, sending, again>> /\ at[c] = "get"
        BY <1>1, <2>2 DEF Get
      <3>3. HasMessage' BY <1>a, <3>1, <3>2
      <3>4. Places' /\ OneTurn' BY <1>a, <3>2
      <3>5. SeenIsThere' BY <1>a, <3>2
      <3> QED BY <3>3, <3>4, <3>5
    <2> QED BY <2>1, <2>2
  <1>2. ASSUME NEW c \in Consumers, Notify(c) PROVE Goal
    <2>0. /\ at[c] = "notify" /\ at' = [at EXCEPT ![c] = "idle"]
          /\ msg' = [msg EXCEPT ![c] = Nothing]
          /\ UNCHANGED <<q, timer, events, again, wild>>
      BY <1>2 DEF Notify, logVars
    <2>1. HasMessage' /\ Places' BY <1>a, <2>0
    <2>2. sending' = sending \/ sending' = sending + 1
      BY <1>2 DEF Notify, Accepted, Swallowed, Refused
    <2>3. OneTurn' BY <1>a, <2>0, <2>2
    <2>4. SeenIsThere' BY <1>a, <2>0
    <2> QED BY <2>1, <2>3, <2>4
  <1>3. CASE Fire BY <1>a, <1>3 DEF Fire, logVars
  <1>4. CASE TimerCheck
    <2>0. UNCHANGED <<q, events, sending, msg, again, wild>> /\ at["timer"] = "check"
      BY <1>4 DEF TimerCheck, logVars
    <2>1. CASE conn /\ q # <<>>
      <3>1. at' = [at EXCEPT !["timer"] = "get"] /\ timer' = timer BY <1>4, <2>1 DEF TimerCheck
      <3> QED BY <1>a, <2>0, <2>1, <3>1
    <2>2. CASE ~(conn /\ q # <<>>)
      <3>1. at' = [at EXCEPT !["timer"] = "idle"] /\ timer' = TRUE BY <1>4, <2>2 DEF TimerCheck
      <3> QED BY <1>a, <2>0, <2>2, <3>1
    <2> QED BY <2>1, <2>2
  <1>5. ASSUME NEW e \in {"sent", "failed"}, HandleSent(e) PROVE Goal
    <2>0. UNCHANGED <<q, sending, msg, again, wild>> /\ e \in Kinds /\ Takes(e)
      BY <1>5, <1>c DEF HandleSent, logVars
    <2>1. CASE e = "failed"
      <3>1. UNCHANGED <<at, timer>> BY <1>5, <2>1 DEF HandleSent
      <3> QED BY <1>a, <1>b, <1>c, <1>d, <2>0, <2>1, <3>1
    <2>2. CASE e = "sent"
      <3>1. ~again => ~NoAsk(events) /\ NoAsk(events') BY <1>b, <1>c, <2>0, <2>2
      <3>2. \/ q # <<>> /\ at' = [at EXCEPT !["ble"] = "get"] /\ timer' = timer
            \/ at' = at /\ timer' = TRUE
        BY <1>5, <2>2 DEF HandleSent
      <3> QED BY <1>a, <2>0, <3>1, <3>2
    <2> QED BY <2>1, <2>2
  <1>6. ASSUME NEW v \in {"off", "on"}, StoreCcc(v) PROVE Goal
    <2>0. /\ UNCHANGED <<q, timer, sending, msg, again, wild>> /\ v \in Kinds /\ Takes(v)
          /\ at' = [at EXCEPT !["ble"] = IF v = "on" THEN "start" ELSE "stop"]
      BY <1>6, <1>c DEF StoreCcc, logVars
    <2>1. CASE v = "off" BY <1>a, <1>b, <1>c, <1>d, <2>0, <2>1
    <2>2. CASE v = "on"
      <3>1. ~again => ~NoAsk(events) /\ NoAsk(events') BY <1>b, <1>c, <2>0, <2>2
      <3> QED BY <1>a, <2>0, <2>2, <3>1
    <2> QED BY <2>1, <2>2
  <1>7. CASE CccTimer
    <2>1. /\ UNCHANGED <<q, events, sending, msg, again, wild>>
          /\ at["ble"] \in {"start", "stop"} /\ at' = [at EXCEPT !["ble"] = "idle"]
          /\ timer' = (at["ble"] = "start")
      BY <1>7 DEF CccTimer, logVars
    <2>2. CASE at["ble"] = "start"
      <3>1. timer' = TRUE BY <2>1, <2>2
      <3> QED BY <1>a, <2>1, <2>2, <3>1
    <2>3. CASE at["ble"] = "stop"
      <3>1. timer' = FALSE BY <2>1, <2>3
      <3> QED BY <1>a, <2>1, <2>3, <3>1
    <2> QED BY <2>1, <2>2, <2>3
  <1>8. CASE HandleGone
    <2>1. UNCHANGED <<q, sending, at, msg, again, wild>> /\ timer' = FALSE /\ Takes("gone")
      BY <1>8 DEF HandleGone, logVars
    <2> QED BY <1>a, <1>b, <1>c, <1>d, <2>1
  <1>9. CASE SetSeverity BY <1>a, <1>9 DEF SetSeverity
  <1>10. ASSUME NEW v \in {"off", "on"}, ClientWrites(v) PROVE Goal
    <2>0. /\ UNCHANGED <<q, timer, sending, at, msg, wild>> /\ events' = Append(events, v)
          /\ again' = (again \/ (v = "on" /\ Running))
      BY <1>10 DEF ClientWrites, logVars
    <2>1. CASE v = "off"
      <3>1. again' = again BY <1>a, <2>0, <2>1
      <3>2. /\ NoAsk(events) => NoAsk(events')
            /\ OneAsk(events) => OneAsk(events')
        BY <1>a, <1>e, <2>0, <2>1
      <3> QED BY <1>a, <1>d, <2>0, <3>1, <3>2
    <2>2. CASE v = "on"
      <3>1. ~again' => ~again /\ ~Running BY <2>0, <2>2
      <3>2. ~Running => NoAsk(events) /\ OneAsk(events') /\ ~timer /\ sending = 0
                        /\ at["timer"] = "idle" /\ ~BleHas
        <4>1. "on" \in Kinds BY <1>c
        <4> QED BY <1>a, <1>c, <2>0, <2>2, <4>1, AskAppended, NotRunning
      <3> QED BY <1>a, <2>0, <3>1, <3>2
    <2> QED BY <2>1, <2>2
  <1>11. CASE Sent
    <2>0. /\ UNCHANGED <<q, timer, at, msg, wild, again>>
          /\ events' = Append(events, "sent") /\ sending > 0 /\ sending' = sending - 1
      BY <1>11 DEF Sent, logVars
    <2>1. ~again => sending = 1 /\ NoAsk(events) BY <1>a, <2>0
    <2>2. NoAsk(events) => OneAsk(events') BY <1>a, <1>c, <2>0, AskAppended
    <2> QED BY <1>a, <2>0, <2>1, <2>2
  <1>12. CASE SentFails
    <2>0. /\ UNCHANGED <<q, timer, at, msg, wild, again>>
          /\ events' = Append(events, "failed") /\ sending > 0 /\ sending' = sending - 1
      BY <1>12 DEF SentFails, logVars
    <2>1. ~again => sending = 1 /\ NoAsk(events) BY <1>a, <2>0
    <2>2. NoAsk(events) => NoAsk(events') BY <1>e, <2>0
    <2> QED BY <1>a, <2>0, <2>1, <2>2
  <1>13. CASE Lose
    <2>0. /\ UNCHANGED <<q, timer, at, msg, wild, again>>
          /\ events' = Append(events, "gone") /\ sending' = 0
      BY <1>13 DEF Lose, logVars
    <2>1. /\ NoAsk(events) => NoAsk(events')
          /\ OneAsk(events) => OneAsk(events')
      BY <1>e, <2>0
    <2> QED BY <1>a, <1>d, <2>0, <2>1
  <1>14. CASE Connect BY <1>a, <1>14 DEF Connect, logVars
  <1> QED BY <1>1, <1>2, <1>3, <1>4, <1>5, <1>6, <1>7, <1>8, <1>9, <1>10, <1>11, <1>12, <1>13, <1>14
          DEF LinkStep, TimerTask, BleTask

-----------------------------------------------------------------------------
(* The messages on their way: handed to the stack, in hand, in the queue.  *)

LEMMA Emptied ==
  ASSUME NEW a \in Seq(Nat)
  PROVE  a \o <<>> = a /\ \A n \in Nat : a \o <<n>> \o <<>> = a \o <<n>>
  <1>1. ASSUME NEW b \in Seq(Nat) PROVE b \o <<>> = b OBVIOUS
  <1>2. \A n \in Nat : a \o <<n>> \in Seq(Nat) OBVIOUS
  <1> QED BY <1>1, <1>2

\* The next message goes from the head of the queue into an empty hand, and on from there.
LEMMA HandOver ==
  ASSUME NEW a \in Seq(Nat), NEW b \in Seq(Nat), b # <<>>
  PROVE  a \o b = (a \o <<Head(b)>>) \o Tail(b) /\ Append(a, Head(b)) = a \o <<Head(b)>>
  OBVIOUS

\* A new message is the greatest.
LEMMA OneMore ==
  ASSUME NEW a \in Seq(Nat), NEW b \in Seq(Nat), NEW n \in Nat, Ascending(a \o b, n)
  PROVE  /\ Ascending(a \o Append(b, n + 1), n + 1)
         /\ Len(a \o Append(b, n + 1)) = Len(a \o b) + 1
  <1> DEFINE c == a \o b
             k == Len(c)
             s == a \o Append(b, n + 1)
  <1>1. c \in Seq(Nat) /\ k \in Nat OBVIOUS
  <1>2. s = Append(c, n + 1) OBVIOUS
  <1>3. \A i \in 1..k : c[i] \in 1..n /\ \A j \in 1..k : i < j => c[i] < c[j]
    BY DEF Ascending
  <1> HIDE DEF c, s, k
  <1>4. Len(s) = k + 1 /\ s[k + 1] = n + 1 /\ \A i \in 1..k : s[i] = c[i]
    BY <1>1, <1>2 DEF k
  <1>5. ASSUME NEW i \in 1..k+1 PROVE s[i] \in 1..n+1
    <2>1. CASE i = k + 1 BY <1>4, <2>1
    <2>2. CASE i # k + 1
      <3>1. i \in 1..k BY <1>1, <2>2
      <3>2. s[i] \in 1..n BY <1>3, <1>4, <3>1
      <3> QED BY <3>2
    <2> QED BY <2>1, <2>2
  <1>6. ASSUME NEW i \in 1..k+1, NEW j \in 1..k+1, i < j PROVE s[i] < s[j]
    <2>1. i \in 1..k BY <1>1, <1>6
    <2>2. s[i] = c[i] /\ c[i] \in 1..n BY <1>3, <1>4, <2>1
    <2>3. CASE j = k + 1 BY <1>4, <2>2, <2>3
    <2>4. CASE j # k + 1
      <3>1. j \in 1..k BY <1>1, <2>4
      <3> QED BY <1>3, <1>4, <1>6, <2>1, <2>2, <3>1
    <2> QED BY <2>3, <2>4
  <1>7. Ascending(s, n + 1) BY <1>4, <1>5, <1>6 DEF Ascending
  <1> QED BY <1>4, <1>7 DEF s, c, k

\* What is left when one message is dropped is still in order.
LEMMA OneLess ==
  ASSUME NEW a \in Seq(Nat), NEW b \in Seq(Nat), NEW m \in Nat, NEW n \in Nat,
         Ascending((a \o <<m>>) \o b, n)
  PROVE  Ascending(a \o b, n) /\ Len((a \o <<m>>) \o b) = Len(a \o b) + 1
  <1> DEFINE s == (a \o <<m>>) \o b
             c == a \o b
             k == Len(a)
             z == Len(b)
             At(i) == IF i <= k THEN i ELSE i + 1
  <1>1. k \in Nat /\ z \in Nat /\ Len(s) = k + z + 1 /\ Len(c) = k + z OBVIOUS
  <1>2. \A i \in 1..k : c[i] = a[i] /\ s[i] = a[i] OBVIOUS
  <1>3. \A i \in k+1..k+z : c[i] = b[i - k] /\ s[i + 1] = b[i - k] OBVIOUS
  <1> HIDE DEF c, s, k, z
  <1>4. \A i \in 1..k+z : At(i) \in 1..k+z+1 /\ c[i] = s[At(i)]
    <2> SUFFICES ASSUME NEW i \in 1..k+z PROVE At(i) \in 1..k+z+1 /\ c[i] = s[At(i)]
      OBVIOUS
    <2>1. CASE i <= k BY <1>1, <1>2, <2>1
    <2>2. CASE ~(i <= k)
      <3>1. i \in k+1..k+z BY <1>1, <2>2
      <3> QED BY <1>1, <1>3, <2>2, <3>1
    <2> QED BY <2>1, <2>2
  <1>5. \A i, j \in 1..k+z : i < j => At(i) < At(j) BY <1>1
  <1>6. \A i \in 1..k+z+1 : s[i] \in 1..n /\ \A j \in 1..k+z+1 : i < j => s[i] < s[j]
    BY <1>1 DEF Ascending, s
  <1> HIDE DEF At
  <1>7. \A i \in 1..k+z : c[i] \in 1..n /\ \A j \in 1..k+z : i < j => c[i] < c[j]
    BY <1>4, <1>5, <1>6
  <1>8. Ascending(c, n) BY <1>1, <1>7 DEF Ascending
  <1> QED BY <1>1, <1>8 DEF c, s

LEMMA LogOrderHolds ==
  ASSUME TypeOK, InOrder, NEW t \in Tasks, LogStep(t), UNCHANGED linkVars
  PROVE  InOrder'
  <1> DEFINE away == heard \o InHandOf("timer") \o InHandOf("ble")
  <1>1. away \in Seq(Nat) /\ q \in Seq(Nat) /\ puts \in Nat /\ missed \in Nat
    BY DEF TypeOK, LogTypeOK, InHandOf, Consumers
  <1>2. away' = away /\ again' = again /\ missed' = missed BY DEF linkVars, InHandOf
  <1>3. \/ q' = q /\ puts' = puts
        \/ q' = Append(q, puts + 1) /\ puts' = puts + 1
    BY DEF LogStep, LogPrintf, Suppress, LogSend, ReadSuppressed, ReportRoom, PutReport, Subtract
  <1>4. ~again => Ascending(away \o q, puts) /\ Len(away \o q) + missed = puts
    BY DEF InOrder, OnTheWay
  <1> HIDE DEF away
  <1>5. ASSUME ~again PROVE Ascending(away \o q', puts') /\ Len(away \o q') + missed = puts'
    <2>1. Ascending(away \o q, puts) /\ Len(away \o q) + missed = puts BY <1>4, <1>5
    <2>2. /\ Ascending(away \o Append(q, puts + 1), puts + 1)
          /\ Len(away \o Append(q, puts + 1)) = Len(away \o q) + 1
      BY ONLY <1>1, <2>1, OneMore
    <2>3. Len(away \o q) \in Nat BY <1>1
    <2>4. CASE q' = q /\ puts' = puts BY <2>1, <2>4
    <2>5. CASE q' = Append(q, puts + 1) /\ puts' = puts + 1
      <3>1. (Len(away \o q) + 1) + missed = puts + 1 BY ONLY <1>1, <2>1, <2>3
      <3> QED BY <2>2, <2>5, <3>1
    <2> QED BY <1>3, <2>4, <2>5
  <1>6. ~again' => Ascending(away' \o q', puts') /\ Len(away' \o q') + missed' = puts'
    BY <1>2, <1>5
  <1> QED BY <1>6 DEF away, InOrder, OnTheWay

\* What one task has in hand comes between what was heard and the queue.
LEMMA InBetween ==
  ASSUME NEW a \in Seq(Nat), NEW m \in Nat, NEW b \in Seq(Nat)
  PROVE  /\ a \o <<m>> \o <<>> \o b = (a \o <<m>>) \o b
         /\ a \o <<>> \o <<m>> \o b = (a \o <<m>>) \o b
         /\ a \o <<>> \o <<>> \o b = a \o b
  BY Emptied

LEMMA Between ==
  ASSUME TypeOK, NEW c \in Consumers, \A d \in Consumers \ {c} : msg[d] = Nothing
  PROVE  /\ msg[c] \in Nat => OnTheWay = (heard \o <<msg[c]>>) \o q
         /\ msg[c] = Nothing => OnTheWay = heard \o q
  <1>1. heard \in Seq(Nat) /\ q \in Seq(Nat) /\ Nothing \notin Nat
    BY LinkAssumption DEF TypeOK, LogTypeOK
  <1> DEFINE t == InHandOf("timer")
             b == InHandOf("ble")
             x == msg[c]
  <1>2. /\ x \in Nat => (t = <<x>> /\ b = <<>>) \/ (t = <<>> /\ b = <<x>>)
        /\ x = Nothing => t = <<>> /\ b = <<>>
    BY <1>1 DEF InHandOf, Consumers
  <1>3. OnTheWay = heard \o t \o b \o q BY DEF OnTheWay
  <1> HIDE DEF t, b, x
  <1>4. ASSUME x \in Nat PROVE OnTheWay = (heard \o <<x>>) \o q
    <2>1. CASE t = <<x>> /\ b = <<>> BY <1>1, <1>3, <1>4, <2>1, InBetween
    <2>2. CASE t = <<>> /\ b = <<x>> BY <1>1, <1>3, <1>4, <2>2, InBetween
    <2> QED BY <1>2, <1>4, <2>1, <2>2
  <1>5. x = Nothing => OnTheWay = heard \o q
    <2>1. 0 \in Nat OBVIOUS
    <2> QED BY <1>1, <1>2, <1>3, <2>1, InBetween
  <1> QED BY <1>4, <1>5 DEF x

LEMMA BetweenNext ==
  ASSUME TypeOK', NEW c \in Consumers, \A d \in Consumers \ {c} : msg'[d] = Nothing
  PROVE  /\ msg'[c] \in Nat => OnTheWay' = (heard' \o <<msg'[c]>>) \o q'
         /\ msg'[c] = Nothing => OnTheWay' = heard' \o q'
  <1>1. heard' \in Seq(Nat) /\ q' \in Seq(Nat) /\ Nothing \notin Nat
    BY LinkAssumption DEF TypeOK, LogTypeOK
  <1> DEFINE t == InHandOf("timer")'
             b == InHandOf("ble")'
             x == msg'[c]
  <1>2. /\ x \in Nat => (t = <<x>> /\ b = <<>>) \/ (t = <<>> /\ b = <<x>>)
        /\ x = Nothing => t = <<>> /\ b = <<>>
    BY <1>1 DEF InHandOf, Consumers
  <1>3. OnTheWay' = heard' \o t \o b \o q' BY DEF OnTheWay
  <1> HIDE DEF t, b, x
  <1>4. ASSUME x \in Nat PROVE OnTheWay' = (heard' \o <<x>>) \o q'
    <2>1. CASE t = <<x>> /\ b = <<>> BY <1>1, <1>3, <1>4, <2>1, InBetween
    <2>2. CASE t = <<>> /\ b = <<x>> BY <1>1, <1>3, <1>4, <2>2, InBetween
    <2> QED BY <1>2, <1>4, <2>1, <2>2
  <1>5. x = Nothing => OnTheWay' = heard' \o q'
    <2>1. 0 \in Nat OBVIOUS
    <2> QED BY <1>1, <1>2, <1>3, <2>1, InBetween
  <1> QED BY <1>4, <1>5 DEF x

LEMMA LinkOrderHolds ==
  ASSUME TypeOK, TypeOK', Places, HasMessage, OneTurn, SeenIsThere, EmptyHands, InOrder, LinkStep
  PROVE  EmptyHands' /\ InOrder'
  <1> DEFINE Goal == EmptyHands' /\ InOrder'
  <1>a. /\ at \in [Consumers -> {"idle", "check", "get", "notify", "start", "stop"}]
        /\ msg \in [Consumers -> Nat \cup {Nothing}] /\ again \in BOOLEAN
        /\ q \in Seq(Nat) /\ heard \in Seq(Nat) /\ missed \in Nat /\ puts \in Nat
    BY DEF TypeOK, LogTypeOK
  <1>b. Nothing \notin Nat BY LinkAssumption
  \* Only one task has the turn.
  <1>c. ASSUME ~again, NEW c \in Consumers, at[c] \in {"get", "notify"}
        PROVE  \A d \in Consumers \ {c} : msg[d] = Nothing
    BY <1>c DEF OneTurn, BleHas, EmptyHands, Consumers
  <1> USE DEF Consumers
  <1>1. ASSUME NEW c \in Consumers, Get(c) PROVE Goal
    <2>1. CASE q = <<>>
      <3>1. UNCHANGED <<again, heard, msg, at, q, puts, missed>> BY <1>1, <2>1 DEF Get
      <3> QED BY <3>1 DEF EmptyHands, InOrder, OnTheWay, InHandOf
    <2>2. CASE q # <<>>
      <3>1. /\ msg' = [msg EXCEPT ![c] = Head(q)] /\ q' = Tail(q)
            /\ at' = [at EXCEPT ![c] = "notify"] /\ UNCHANGED <<again, heard, puts, missed>>
            /\ at[c] = "get"
        BY <1>1, <2>2 DEF Get
      <3>2. EmptyHands' BY <1>a, <3>1 DEF EmptyHands
      <3>3. Head(q) \in Nat BY <1>a, <2>2
      <3>4. ASSUME ~again PROVE OnTheWay' = OnTheWay
        <4>1. \A d \in Consumers \ {c} : msg[d] = Nothing /\ msg'[d] = Nothing
          BY <1>a, <1>c, <3>1, <3>4
        <4>2. msg[c] = Nothing BY <3>1 DEF EmptyHands
        <4>3. OnTheWay = heard \o q BY <4>1, <4>2, Between
        <4>4. msg'[c] \in Nat /\ msg'[c] = Head(q) BY <1>a, <3>1, <3>3
        <4>5. OnTheWay' = (heard' \o <<msg'[c]>>) \o q'
          <5>1. \A d \in Consumers \ {c} : msg'[d] = Nothing BY <4>1
          <5> QED BY <4>4, <5>1, BetweenNext
        <4> QED BY <1>a, <2>2, <3>1, <4>3, <4>4, <4>5, HandOver
      <3>5. InOrder' BY <3>1, <3>4 DEF InOrder
      <3> QED BY <3>2, <3>5
    <2> QED BY <2>1, <2>2
  <1>2. ASSUME NEW c \in Consumers, Notify(c) PROVE Goal
    <2>0. /\ at[c] = "notify" /\ at' = [at EXCEPT ![c] = "idle"]
          /\ msg' = [msg EXCEPT ![c] = Nothing] /\ UNCHANGED <<q, puts, again>>
          /\ msg[c] \in Nat
      BY <1>2 DEF Notify, logVars, HasMessage
    <2>1. EmptyHands' BY <1>a, <2>0 DEF EmptyHands
    <2>2. ASSUME ~again PROVE /\ OnTheWay = (heard \o <<msg[c]>>) \o q
                              /\ OnTheWay' = heard' \o q
      <3>1. \A d \in Consumers \ {c} : msg[d] = Nothing BY <1>c, <2>0, <2>2
      <3>2. \A d \in Consumers \ {c} : msg'[d] = Nothing BY <1>a, <2>0, <3>1
      <3>3. msg'[c] = Nothing BY <1>a, <2>0
      <3>4. OnTheWay' = heard' \o q' BY <3>2, <3>3, BetweenNext
      <3> QED BY <2>0, <3>1, <3>4, Between
    <2>3. CASE Accepted(c)
      <3>1. heard' = heard \o <<msg[c]>> /\ missed' = missed
        BY <1>a, <2>0, <2>3 DEF Accepted
      <3>2. ~again => OnTheWay' = OnTheWay BY <2>2, <3>1
      <3> QED BY <2>0, <2>1, <3>1, <3>2 DEF InOrder
    <2>4. CASE Swallowed \/ Refused
      <3>1. heard' = heard /\ missed' = missed + 1 BY <2>4 DEF Swallowed, Refused
      <3>2. ASSUME ~again PROVE /\ Ascending(OnTheWay', puts)
                                /\ Len(OnTheWay') + missed' = puts
        <4>1. /\ Ascending((heard \o <<msg[c]>>) \o q, puts)
              /\ Len((heard \o <<msg[c]>>) \o q) + missed = puts
          BY <2>2, <3>2 DEF InOrder
        <4>2. /\ Ascending(heard \o q, puts)
              /\ Len((heard \o <<msg[c]>>) \o q) = Len(heard \o q) + 1
          BY <1>a, <2>0, <4>1, OneLess
        <4>3. Len(heard \o q) \in Nat BY <1>a
        <4>4. OnTheWay' = heard \o q BY <2>2, <3>1, <3>2
        <4> HIDE DEF Goal
        <4> QED BY ONLY <1>a, <3>1, <4>1, <4>2, <4>3, <4>4
      <3> QED BY <2>0, <2>1, <3>2 DEF InOrder
    <2> QED BY <1>2, <2>3, <2>4 DEF Notify
  <1>3. ASSUME UNCHANGED <<q, puts, heard, msg, missed>>, ~again' => ~again,
               \A c \in Consumers : at'[c] = "notify" <=> at[c] = "notify"
        PROVE  Goal
    BY <1>3 DEF EmptyHands, InOrder, OnTheWay, InHandOf
  <1>4. CASE \/ Fire \/ TimerCheck \/ CccTimer \/ HandleGone \/ SetSeverity
             \/ Sent \/ SentFails \/ Lose \/ Connect
             \/ \E v \in {"off", "on"} : StoreCcc(v) \/ ClientWrites(v)
             \/ \E e \in {"sent", "failed"} : HandleSent(e)
    <2>1. UNCHANGED <<q, puts, heard, msg, missed>>
      BY <1>4 DEF Fire, TimerCheck, HandleSent, CccTimer, HandleGone, SetSeverity, Sent, SentFails,
                  Lose, Connect, StoreCcc, ClientWrites, logVars
    <2>2. ~again' => ~again
      <3>1. CASE \E v \in {"off", "on"} : ClientWrites(v) BY <3>1 DEF ClientWrites
      <3>2. CASE ~\E v \in {"off", "on"} : ClientWrites(v)
        BY <1>4, <3>2 DEF Fire, TimerCheck, HandleSent, CccTimer, HandleGone, SetSeverity, Sent,
                          SentFails, Lose, Connect, StoreCcc
      <3> QED BY <3>1, <3>2
    <2>3. \A c \in Consumers : at'[c] = "notify" <=> at[c] = "notify"
      BY <1>a, <1>4 DEF Fire, TimerCheck, HandleSent, CccTimer, HandleGone, SetSeverity, Sent,
                       SentFails, Lose, Connect, StoreCcc, ClientWrites, Takes
    <2> QED BY <1>3, <2>1, <2>2, <2>3
  <1> QED BY <1>1, <1>2, <1>4 DEF LinkStep, TimerTask, BleTask

-----------------------------------------------------------------------------

LEMMA InitHolds == Init => IInv
  <1> SUFFICES ASSUME Init PROVE IInv OBVIOUS
  <1> USE LogAssumption, LinkAssumption DEF Init, LogInit
  <1>1. InHand = {} BY DEF InHand
  <1>2. Cardinality(InHand) = 0 BY <1>1, FS_EmptySet
  <1>3. TypeOK
    <2>1. LogTypeOK
      <3>1. <<>> \in Seq(Nat) /\ 0 \in 0..COUNT_RANGE-1 /\ 0 \in 0..CALLS OBVIOUS
      <3> QED BY <3>1 DEF LogTypeOK
    <2>2. left \in Budgets OBVIOUS
    <2>3. /\ at \in [Consumers -> {"idle", "check", "get", "notify", "start", "stop"}]
          /\ msg \in [Consumers -> Nat \cup {Nothing}]
      OBVIOUS
    <2>4. events \in Seq({"sent", "failed", "off", "on", "gone"}) /\ heard \in Seq(Nat) OBVIOUS
    <2> QED BY <2>1, <2>2, <2>3, <2>4 DEF TypeOK
  <1>4. CountTrue BY <1>2 DEF CountTrue, Lost
  <1>5. HasMessage /\ Places /\ OneTurn /\ SeenIsThere
    BY DEF HasMessage, Places, OneTurn, BleHas, NoAsk, SeenIsThere, Consumers
  <1>6. OneReports BY DEF OneReports, Reporting
  <1>7. EmptyHands BY DEF EmptyHands, Consumers
  <1>8. InOrder
    <2>1. InHandOf("timer") = <<>> /\ InHandOf("ble") = <<>> BY DEF InHandOf, Consumers
    <2>2. OnTheWay = <<>> BY <2>1 DEF OnTheWay
    <2> QED BY <2>2 DEF InOrder, Ascending
  <1> QED BY <1>3, <1>4, <1>5, <1>6, <1>7, <1>8 DEF IInv

LEMMA StepHolds == IInv /\ [Next]_vars => IInv'
  <1> SUFFICES ASSUME IInv, [Next]_vars PROVE IInv' OBVIOUS
  <1>1. ASSUME NEW t \in Tasks, LogStep(t), UNCHANGED linkVars PROVE IInv'
    <2>1. LogTypeOK' BY <1>1, LogTypeHolds DEF IInv, TypeOK
    <2>2. TypeOK' BY <1>1, <2>1 DEF IInv, TypeOK, linkVars
    <2>3. CountTrue' /\ OneReports' BY <1>1, LogCountHolds DEF IInv, TypeOK
    <2>4. q # <<>> => q' # <<>> BY <1>1, LogKeepsQueue DEF IInv, TypeOK
    <2>5. Places' /\ HasMessage' /\ OneTurn' /\ SeenIsThere'
      BY <1>1, <2>4 DEF IInv, Places, HasMessage, OneTurn, BleHas, NoAsk, OneAsk, SeenIsThere,
                        linkVars
    <2>6. InOrder' BY <1>1, LogOrderHolds DEF IInv
    <2>7. EmptyHands' BY <1>1 DEF IInv, EmptyHands, linkVars
    <2> QED BY <2>2, <2>3, <2>5, <2>6, <2>7 DEF IInv
  <1>2. CASE LinkStep
    BY <1>2, LinkTypeHolds, LinkCountHolds, LinkTurnHolds, LinkOrderHolds DEF IInv
  <1>3. CASE UNCHANGED vars
    <2>1. TypeOK' /\ CountTrue' /\ OneReports'
      BY <1>3 DEF vars, logVars, linkVars, IInv, TypeOK, LogTypeOK, CountTrue, Lost, InHand,
                  OneReports, Reporting
    <2>2. Places' /\ HasMessage' /\ OneTurn' /\ SeenIsThere' /\ EmptyHands'
      BY <1>3 DEF vars, logVars, linkVars, IInv, Places, HasMessage, OneTurn, BleHas, NoAsk, OneAsk,
                  SeenIsThere, EmptyHands
    <2>3. InOrder'
      <3>1. OnTheWay' = OnTheWay /\ again' = again /\ puts' = puts /\ missed' = missed
        BY <1>3 DEF vars, logVars, linkVars, OnTheWay, InHandOf
      <3> QED BY <3>1 DEF IInv, InOrder
    <2> QED BY <2>1, <2>2, <2>3 DEF IInv
  <1> QED BY <1>1, <1>2, <1>3 DEF Next, Producers, LinkStep

LEMMA Invariance == Spec => []IInv
  <1> QED BY InitHolds, StepHolds, PTL DEF Spec

\* Every variable keeps its type: suppressed_messages stays in its unsigned range, and who is to
\* send a message has one.
THEOREM LinkTypeCorrect == Spec => []TypeOK
  <1>1. IInv => TypeOK BY DEF IInv
  <1> QED BY <1>1, Invariance, PTL

\* The discarded log count and what was reported make up what was lost, for any number of
\* tasks, as long as no two of them are in log_suppressed with the same messages to report.
THEOREM DiscardedCountTrue == Spec => []CountTrue
  <1>1. IInv => CountTrue BY DEF IInv
  <1> QED BY <1>1, Invariance, PTL

\* As long as the client does not ask while it is being served, send_ntf_timer_cb and
\* handle_evt_send_ind never use a current_message that OS_QUEUE_GET has not set, whatever
\* connections are lost, notifications refused and CCCs written.
THEOREM MessageAlwaysSet == Spec => []NeverWild
  <1>1. IInv => NeverWild BY DEF IInv, OneTurn, NeverWild
  <1> QED BY <1>1, Invariance, PTL

\* Then every message that OS_QUEUE_PUT took was handed to the stack, will be, or was dropped for
\* want of a listener or by a refusal, once and in the order of the queue, though two tasks hand
\* the messages over.
THEOREM MessagesInOrder == Spec => []InOrder
  <1>1. IInv => InOrder BY DEF IInv
  <1> QED BY <1>1, Invariance, PTL

=============================================================================
