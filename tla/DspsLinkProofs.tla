--------------------------- MODULE DspsLinkProofs ---------------------------
(***************************************************************************)
(* DspsLink implements the serial cable, never overflows a transmit queue  *)
(* and, where one side only talks, never lets the other side's "off" get   *)
(* lost nor, until a task has used a queue that a disconnection had freed, *)
(* overflows any queue.                                                    *)
(***************************************************************************)
EXTENDS DspsLink, SequenceTheorems, FiniteSetTheorems, WellFoundedInduction, TLAPS

-----------------------------------------------------------------------------
(* Induction over the natural numbers, for a set instead of a predicate.   *)

LEMMA Least ==
  ASSUME NEW T, T \subseteq Nat, T # {}
  PROVE  \E x \in T : \A y \in T : x <= y
  <1>1. IsWellFoundedOn(OpToRel(<, Nat), Nat) BY NatLessThanWellFounded
  <1>2. \E x \in T : \A y \in T : ~(<<y, x>> \in OpToRel(<, Nat)) BY <1>1, WFMin
  <1>3. \A x, y \in Nat : <<y, x>> \in OpToRel(<, Nat) <=> y < x BY DEF OpToRel
  <1>4. \E x \in T : \A y \in T : ~(y < x) BY <1>2, <1>3, Zenon
  <1>5. \A x, y \in Nat : ~(y < x) => x <= y OBVIOUS
  <1> QED BY ONLY <1>4, <1>5, T \subseteq Nat

LEMMA Induction ==
  ASSUME NEW T, 0 \in T, \A n \in Nat : n \in T => n + 1 \in T
  PROVE  Nat \subseteq T
  <1> SUFFICES ASSUME Nat \ T # {} PROVE FALSE OBVIOUS
  <1>1. PICK x \in Nat \ T : \A y \in Nat \ T : x <= y BY Least
  <1>2. x # 0 /\ x - 1 \in Nat BY <1>1
  <1>3. x - 1 \in T BY <1>1, <1>2
  <1>4. (x - 1) + 1 \in T BY <1>2, <1>3
  <1> QED BY <1>1, <1>4

-----------------------------------------------------------------------------
(* The data among events.                                                  *)

\* d[i] is the data among the first i events, for i up to n.
Counts(d, events, n) ==
  d = [i \in 0..n |->
        IF i = 0 THEN <<>>
        ELSE IF events[i].type = "data" THEN Append(d[i-1], events[i].value) ELSE d[i-1]]

LEMMA CountsExist ==
  ASSUME NEW events, NEW n \in Nat
  PROVE  \E d : Counts(d, events, n)
  <1> DEFINE T == {m \in Nat : \E d : Counts(d, events, m)}
  <1>1. 0 \in T
    <2>1. Counts([i \in 0..0 |-> <<>>], events, 0) BY DEF Counts
    <2> QED BY <2>1
  <1>2. ASSUME NEW m \in Nat, m \in T PROVE m + 1 \in T
    <2>1. PICK d : Counts(d, events, m) BY <1>2
    <2> DEFINE last == IF events[m+1].type = "data" THEN Append(d[m], events[m+1].value) ELSE d[m]
               e == [i \in 0..m+1 |-> IF i = m + 1 THEN last ELSE d[i]]
    <2>2. \A i \in 0..m : e[i] = d[i] /\ (i # 0 => i - 1 \in 0..m) OBVIOUS
    <2>3. \A i \in 0..m : d[i] = IF i = 0 THEN <<>>
                                 ELSE IF events[i].type = "data"
                                      THEN Append(d[i-1], events[i].value) ELSE d[i-1]
      BY <2>1 DEF Counts
    <2>4. \A i \in 0..m+1 : e[i] = IF i = 0 THEN <<>>
                                   ELSE IF events[i].type = "data"
                                        THEN Append(e[i-1], events[i].value) ELSE e[i-1]
      <3>1. ASSUME NEW i \in 0..m PROVE e[i] = IF i = 0 THEN <<>>
                                   ELSE IF events[i].type = "data"
                                        THEN Append(e[i-1], events[i].value) ELSE e[i-1]
        BY ONLY <2>2, <2>3, i \in 0..m
      <3>2. e[m+1] = last /\ e[m] = d[m] /\ m + 1 # 0 /\ (m + 1) - 1 = m OBVIOUS
      <3>3. \A i \in 0..m+1 : i \in 0..m \/ i = m + 1 OBVIOUS
      <3> HIDE DEF e
      <3> QED BY <3>1, <3>2, <3>3
    <2>5. Counts(e, events, m + 1) BY <2>4 DEF Counts
    <2> QED BY <2>5
  <1> HIDE DEF T
  <1>3. n \in T BY <1>1, <1>2, Induction
  <1> QED BY <1>3 DEF T

LEMMA CountsStep ==
  ASSUME NEW d, NEW a, NEW n \in Nat, Counts(d, a, n), NEW k \in Nat, k + 1 <= n
  PROVE  /\ d[0] = <<>>
         /\ d[k+1] = IF a[k+1].type = "data" THEN Append(d[k], a[k+1].value) ELSE d[k]
  <1>1. \A i \in 0..n : d[i] = IF i = 0 THEN <<>>
                               ELSE IF a[i].type = "data" THEN Append(d[i-1], a[i].value) ELSE d[i-1]
    BY DEF Counts
  <1>2. 0 \in 0..n /\ k + 1 \in 0..n /\ k + 1 # 0 /\ (k + 1) - 1 = k OBVIOUS
  <1> QED BY <1>1, <1>2

LEMMA CountsAlike ==
  ASSUME NEW a, NEW b, NEW m \in Nat, NEW n \in Nat, m <= n, \A i \in 1..m : a[i] = b[i],
         NEW d, NEW e, Counts(d, a, m), Counts(e, b, n)
  PROVE  d[m] = e[m]
  <1> DEFINE T == {k \in Nat : k <= m => d[k] = e[k]}
  <1>1. 0 \in T BY DEF Counts
  <1>2. ASSUME NEW k \in Nat, k \in T PROVE k + 1 \in T
    <2>1. SUFFICES ASSUME k + 1 <= m PROVE d[k+1] = e[k+1] OBVIOUS
    <2>2. d[k] = e[k] /\ k + 1 <= n /\ k + 1 \in 1..m BY <1>2, <2>1
    <2>3. d[k+1] = IF a[k+1].type = "data" THEN Append(d[k], a[k+1].value) ELSE d[k]
      BY <2>1, <2>2, CountsStep
    <2>4. e[k+1] = IF b[k+1].type = "data" THEN Append(e[k], b[k+1].value) ELSE e[k]
      BY <2>1, <2>2, CountsStep
    <2> QED BY <2>2, <2>3, <2>4
  <1> HIDE DEF T
  <1>3. m \in T BY <1>1, <1>2, Induction
  <1> QED BY <1>3 DEF T

LEMMA DataInCounts ==
  ASSUME NEW a, Len(a) \in Nat
  PROVE  \E d : Counts(d, a, Len(a)) /\ DataIn(a) = d[Len(a)]
  <1> DEFINE d == CHOOSE f : Counts(f, a, Len(a))
  <1>1. Counts(d, a, Len(a)) BY CountsExist
  <1>2. DataIn(a) = d[Len(a)] BY DEF DataIn, Counts
  <1> QED BY <1>1, <1>2

\* Nothing comes of no events, and each event adds its message if it is one of data.
LEMMA DataInEmpty == DataIn(<<>>) = <<>>
  <1>1. Len(<<>>) = 0 OBVIOUS
  <1>2. PICK d : Counts(d, <<>>, 0) /\ DataIn(<<>>) = d[0] BY <1>1, DataInCounts
  <1> QED BY <1>2 DEF Counts

LEMMA DataInAppend ==
  ASSUME NEW S, NEW a \in Seq(S), NEW e \in S
  PROVE  DataIn(Append(a, e)) = IF e.type = "data" THEN Append(DataIn(a), e.value) ELSE DataIn(a)
  <1> DEFINE b == Append(a, e)
             n == Len(a)
  <1>1. n \in Nat /\ Len(b) = n + 1 /\ b[n+1] = e /\ \A i \in 1..n : a[i] = b[i]
    BY AppendProperties
  <1>2. PICK d : Counts(d, a, n) /\ DataIn(a) = d[n] BY <1>1, DataInCounts
  <1>3. PICK f : Counts(f, b, n + 1) /\ DataIn(b) = f[n+1]
    <2>1. Len(b) \in Nat BY <1>1
    <2>2. PICK f : Counts(f, b, Len(b)) /\ DataIn(b) = f[Len(b)] BY <2>1, DataInCounts
    <2> HIDE DEF b, n
    <2> QED BY <1>1, <2>2
  <1> HIDE DEF b, n
  <1>4. d[n] = f[n] BY <1>1, <1>2, <1>3, CountsAlike
  <1>5. f[n+1] = IF b[n+1].type = "data" THEN Append(f[n], b[n+1].value) ELSE f[n]
    BY <1>1, <1>3, CountsStep
  <1>6. DataIn(b) = IF e.type = "data" THEN Append(DataIn(a), e.value) ELSE DataIn(a)
    BY <1>1, <1>2, <1>3, <1>4, <1>5
  <1> QED BY <1>6 DEF b

LEMMA AppendLast ==
  ASSUME NEW S, NEW a \in Seq(S), NEW b \in Seq(S), NEW e \in S
  PROVE  Append(a \o b, e) = a \o Append(b, e) /\ Append(b, e) \in Seq(S)
  <1>1. <<e>> \in Seq(S) /\ a \o b \in Seq(S) OBVIOUS
  <1>2. Append(b, e) = b \o <<e>> /\ Append(a \o b, e) = (a \o b) \o <<e>>
    BY <1>1, AppendIsConcat
  <1>3. (a \o b) \o <<e>> = a \o (b \o <<e>>) BY <1>1, ConcatAssociative
  <1> QED BY <1>2, <1>3

LEMMA ShorterByOne ==
  ASSUME NEW S, NEW a \in Seq(S), NEW n \in Nat, Len(a) = n + 1
  PROVE  \E b \in Seq(S), e \in S : a = Append(b, e) /\ Len(b) = n
  <1>1. a # <<>> OBVIOUS
  <1>2. PICK b \in Seq(S), e \in S : a = Append(b, e) BY <1>1, SequenceEmptyOrAppend
  <1>3. Len(b) = n BY <1>2, AppendProperties
  <1> QED BY <1>2, <1>3

LEMMA DataInType ==
  ASSUME NEW a \in Seq(Events)
  PROVE  DataIn(a) \in Seq(Number)
  <1> DEFINE T == {n \in Nat : \A b \in Seq(Events) : Len(b) = n => DataIn(b) \in Seq(Number)}
  <1>1. 0 \in T
    <2>1. \A b \in Seq(Events) : Len(b) = 0 => b = <<>> OBVIOUS
    <2> QED BY <2>1, DataInEmpty
  <1>2. ASSUME NEW n \in Nat, n \in T PROVE n + 1 \in T
    <2>1. SUFFICES ASSUME NEW b \in Seq(Events), Len(b) = n + 1 PROVE DataIn(b) \in Seq(Number)
      OBVIOUS
    <2>2. PICK c \in Seq(Events), e \in Events : b = Append(c, e) /\ Len(c) = n
      BY <2>1, ShorterByOne
    <2>3. DataIn(c) \in Seq(Number) BY <1>2, <2>2
    <2>4. e.type = "data" => e.value \in Number BY DEF Events
    <2>5. DataIn(b) = IF e.type = "data" THEN Append(DataIn(c), e.value) ELSE DataIn(c)
      BY <2>2, DataInAppend
    <2> QED BY <2>3, <2>4, <2>5, AppendProperties
  <1>3. Len(a) \in Nat OBVIOUS
  <1> HIDE DEF T
  <1>4. Len(a) \in T BY <1>1, <1>2, <1>3, Induction
  <1> QED BY <1>4 DEF T

\* What the first event gives comes first.
LEMMA DataInFirst ==
  ASSUME NEW e \in Events, NEW a \in Seq(Events)
  PROVE  DataIn(<<e>> \o a) = IF e.type = "data" THEN <<e.value>> \o DataIn(a) ELSE DataIn(a)
  <1> DEFINE Right(b) == DataIn(<<e>> \o b)
                          = IF e.type = "data" THEN <<e.value>> \o DataIn(b) ELSE DataIn(b)
             T == {n \in Nat : \A b \in Seq(Events) : Len(b) = n => Right(b)}
  <1>0. <<e>> \in Seq(Events) /\ (e.type = "data" => e.value \in Number) BY DEF Events
  <1>1. 0 \in T
    <2>1. \A b \in Seq(Events) : Len(b) = 0 => b = <<>> OBVIOUS
    <2>2. <<e>> \o <<>> = Append(<<>>, e) OBVIOUS
    <2>3. DataIn(Append(<<>>, e)) = IF e.type = "data" THEN Append(<<>>, e.value) ELSE <<>>
      <3>1. <<>> \in Seq(Events) OBVIOUS
      <3> QED BY <3>1, DataInAppend, DataInEmpty
    <2>4. \A x \in Number : Append(<<>>, x) = <<x>> \o <<>> OBVIOUS
    <2>5. Right(<<>>) BY <1>0, <2>2, <2>3, <2>4, DataInEmpty
    <2> HIDE DEF Right
    <2> QED BY <2>1, <2>5
  <1>2. ASSUME NEW n \in Nat, n \in T PROVE n + 1 \in T
    <2> HIDE DEF Right
    <2> SUFFICES ASSUME NEW b \in Seq(Events), Len(b) = n + 1 PROVE Right(b)
      OBVIOUS
    <2>2. PICK c \in Seq(Events), x \in Events : b = Append(c, x) /\ Len(c) = n
      BY ShorterByOne
    <2>3. Right(c) BY <1>2, <2>2
    <2>4. <<e>> \o b = Append(<<e>> \o c, x) /\ <<e>> \o c \in Seq(Events)
      BY <1>0, <2>2
    <2>5. DataIn(<<e>> \o b) = IF x.type = "data" THEN Append(DataIn(<<e>> \o c), x.value)
                              ELSE DataIn(<<e>> \o c)
      BY <2>4, DataInAppend
    <2>6. DataIn(b) = IF x.type = "data" THEN Append(DataIn(c), x.value) ELSE DataIn(c)
      BY <2>2, DataInAppend
    <2>7. x.type = "data" => x.value \in Number BY DEF Events
    <2>8. DataIn(c) \in Seq(Number) BY DataInType
    <2>9. \A y, z \in Number : <<y>> \o Append(DataIn(c), z) = Append(<<y>> \o DataIn(c), z)
      BY <2>8
    <2> QED BY <1>0, <2>3, <2>5, <2>6, <2>7, <2>9 DEF Right
  <1>3. Len(a) \in Nat OBVIOUS
  <1> HIDE DEF T
  <1>4. Len(a) \in T BY <1>1, <1>2, <1>3, Induction
  <1> QED BY <1>4 DEF T

LEMMA DataInTail ==
  ASSUME NEW a \in Seq(Events), a # <<>>
  PROVE  /\ Head(a) \in Events /\ Tail(a) \in Seq(Events)
         /\ DataIn(a) = IF Head(a).type = "data" THEN <<Head(a).value>> \o DataIn(Tail(a))
                       ELSE DataIn(Tail(a))
  <1>1. Head(a) \in Events /\ Tail(a) \in Seq(Events) BY HeadTailProperties
  <1>2. a = <<Head(a)>> \o Tail(a) OBVIOUS
  <1> QED BY <1>1, <1>2, DataInFirst

\* What is left of the events when the rest is lost gives what is left of the data.
LEMMA DataInPrefix ==
  ASSUME NEW a \in Seq(Events), NEW k \in 0..Len(a)
  PROVE  \E z \in Seq(Number) : DataIn(a) = DataIn(SubSeq(a, 1, k)) \o z
  <1> DEFINE Right(b, j) == \E z \in Seq(Number) : DataIn(b) = DataIn(SubSeq(b, 1, j)) \o z
             T == {n \in Nat : \A b \in Seq(Events) : Len(b) = n => \A j \in 0..n : Right(b, j)}
  <1>0. \A b \in Seq(Events) : Right(b, Len(b))
    <2>1. TAKE b \in Seq(Events)
    <2>2. SubSeq(b, 1, Len(b)) = b BY SubSeqFull
    <2>3. DataIn(b) = DataIn(b) \o <<>> /\ <<>> \in Seq(Number) BY DataInType
    <2> QED BY <2>2, <2>3
  <1>1. 0 \in T
    <2> HIDE DEF Right
    <2> QED BY <1>0
  <1>2. ASSUME NEW n \in Nat, n \in T PROVE n + 1 \in T
    <2> SUFFICES ASSUME NEW b \in Seq(Events), Len(b) = n + 1, NEW j \in 0..n+1 PROVE Right(b, j)
      BY SMTT(30)
    <2>1. CASE j = n + 1
      <3> HIDE DEF Right
      <3> QED BY <1>0, <2>1
    <2>2. CASE j \in 0..n
      <3>1. PICK c \in Seq(Events), x \in Events : b = Append(c, x) /\ Len(c) = n
        BY ShorterByOne
      <3>2. PICK z \in Seq(Number) : DataIn(c) = DataIn(SubSeq(c, 1, j)) \o z BY <1>2, <2>2, <3>1
      <3>3. SubSeq(b, 1, j) = SubSeq(c, 1, j) /\ SubSeq(c, 1, j) \in Seq(Events)
        BY <2>2, <3>1
      <3>4. DataIn(b) = IF x.type = "data" THEN Append(DataIn(c), x.value) ELSE DataIn(c)
        BY <3>1, DataInAppend
      <3>5. x.type = "data" => x.value \in Number BY DEF Events
      <3>6. DataIn(SubSeq(c, 1, j)) \in Seq(Number) BY <3>3, DataInType
      <3>7. ASSUME NEW w \in Seq(Number), NEW v \in Number
            PROVE  Append(w \o z, v) = w \o Append(z, v) /\ Append(z, v) \in Seq(Number)
        BY ONLY AppendLast, w \in Seq(Number), z \in Seq(Number), v \in Number
      <3> QED BY <3>2, <3>3, <3>4, <3>5, <3>6, <3>7
    <2>3. j \in 0..n \/ j = n + 1 OBVIOUS
    <2> QED BY <2>1, <2>2, <2>3
  <1>3. Len(a) \in Nat OBVIOUS
  <1> HIDE DEF T
  <1>4. Len(a) \in T BY <1>1, <1>2, <1>3, Induction
  <1> QED BY <1>4 DEF T

-----------------------------------------------------------------------------
(* A side: its fields fit together, and its transmit queue has room.       *)

\* The queues are there while the side is connected or still closes, and the side reads, is ready
\* or has a packet with the stack only while they are.
Sound(s, n) ==
  /\ n.tx = None <=> n.rx = None
  /\ n.tx = None => ~n.ready /\ ~n.sent /\ ~n.reading
  /\ n.conn \/ n.closing \/ n.tx = None
  /\ n.conn => ~n.closing
  /\ s = "P" /\ n.conn => n.tx # None
  /\ n.ready \/ n.sent => n.conn
  /\ n.sent => n.inprog /\ n.tx.items # <<>>
  /\ "read" \in n.rxt <=> n.data # None
  /\ n.reading => n.data = None

\* Below the high water mark the queue takes one message more, and only then is one read.
Roomy(n) ==
  n.tx # None => /\ n.tx.hwm = 0 => Len(n.tx.items) <= TX_HIGH
                 /\ n.ready => n.tx.hwm = 0
                 /\ n.reading \/ n.data # None => Len(n.tx.items) <= TX_HIGH

Fine(s, n) == n \in Nodes /\ Sound(s, n) /\ Roomy(n)

LEMMA QueueOps ==
  ASSUME NEW q \in TQ!Queues(Number), NEW m \in Number
  PROVE  /\ q \in RQ!Queues(Number) /\ q # None /\ q.items \in Seq(Number) /\ q.hwm \in {0, 1}
         /\ TQ!Write(q, m) \in TQ!Queues(Number)
         /\ TQ!Write(q, m).items = Append(q.items, m) /\ TQ!Write(q, m).hwm = q.hwm
         /\ TQ!Pop(q) \in TQ!Queues(Number)
         /\ q.items # <<>> => TQ!Pop(q).items = Tail(q.items)
         /\ TQ!Pop(q).hwm = q.hwm
         /\ TQ!CheckedFull(q) \in TQ!Queues(Number) /\ TQ!CheckedFull(q).items = q.items
         /\ TQ!CheckedFull(q).hwm = IF TQ!AlmostFull(q) THEN 1 ELSE q.hwm
         /\ TQ!CheckedEmpty(q) \in TQ!Queues(Number) /\ TQ!CheckedEmpty(q).items = q.items
         /\ TQ!CheckedEmpty(q).hwm = IF TQ!AlmostEmpty(q) THEN 0 ELSE q.hwm
         /\ RQ!Write(q, m) = TQ!Write(q, m) /\ RQ!Pop(q) = TQ!Pop(q)
         /\ RQ!CheckedFull(q) \in TQ!Queues(Number) /\ RQ!CheckedFull(q).items = q.items
         /\ RQ!CheckedFull(q).hwm = IF RQ!AlmostFull(q) THEN 1 ELSE q.hwm
         /\ RQ!CheckedEmpty(q) \in TQ!Queues(Number) /\ RQ!CheckedEmpty(q).items = q.items
         /\ RQ!CheckedEmpty(q).hwm = IF RQ!AlmostEmpty(q) THEN 0 ELSE q.hwm
  <1> USE DEF TQ!Queues, RQ!Queues
  <1>1. q.items \in Seq(Number) /\ q.hwm \in {0, 1} OBVIOUS
  <1>2. q # None BY LinkAssumption
  <1>3. /\ TQ!Write(q, m) \in TQ!Queues(Number)
        /\ TQ!Write(q, m).items = Append(q.items, m) /\ TQ!Write(q, m).hwm = q.hwm
        /\ RQ!Write(q, m) = TQ!Write(q, m)
    BY <1>1 DEF TQ!Write, RQ!Write
  <1>4. /\ TQ!Pop(q) \in TQ!Queues(Number)
        /\ q.items # <<>> => TQ!Pop(q).items = Tail(q.items)
        /\ TQ!Pop(q).hwm = q.hwm
        /\ RQ!Pop(q) = TQ!Pop(q)
    <2> DEFINE rest == IF q.items = <<>> THEN q.items ELSE Tail(q.items)
    <2>1. rest \in Seq(Number) BY <1>1
    <2>2. TQ!Pop(q) = [q EXCEPT !.items = rest] /\ RQ!Pop(q) = [q EXCEPT !.items = rest]
      BY DEF TQ!Pop, RQ!Pop
    <2>3. q.items # <<>> => rest = Tail(q.items) OBVIOUS
    <2> HIDE DEF rest
    <2> QED BY <1>1, <2>1, <2>2, <2>3
  <1>5. /\ TQ!CheckedFull(q) \in TQ!Queues(Number) /\ TQ!CheckedFull(q).items = q.items
        /\ TQ!CheckedFull(q).hwm = IF TQ!AlmostFull(q) THEN 1 ELSE q.hwm
    BY <1>1 DEF TQ!CheckedFull
  <1>6. /\ TQ!CheckedEmpty(q) \in TQ!Queues(Number) /\ TQ!CheckedEmpty(q).items = q.items
        /\ TQ!CheckedEmpty(q).hwm = IF TQ!AlmostEmpty(q) THEN 0 ELSE q.hwm
    BY <1>1 DEF TQ!CheckedEmpty
  <1>7. /\ RQ!CheckedFull(q) \in TQ!Queues(Number) /\ RQ!CheckedFull(q).items = q.items
        /\ RQ!CheckedFull(q).hwm = IF RQ!AlmostFull(q) THEN 1 ELSE q.hwm
    BY <1>1 DEF RQ!CheckedFull
  <1>8. /\ RQ!CheckedEmpty(q) \in TQ!Queues(Number) /\ RQ!CheckedEmpty(q).items = q.items
        /\ RQ!CheckedEmpty(q).hwm = IF RQ!AlmostEmpty(q) THEN 0 ELSE q.hwm
    BY <1>1 DEF RQ!CheckedEmpty
  <1> QED BY <1>1, <1>2, <1>3, <1>4, <1>5, <1>6, <1>7, <1>8

LEMMA QueueFields ==
  ASSUME NEW q \in TQ!Queues(Number)
  PROVE  q \in RQ!Queues(Number) /\ q # None /\ q.items \in Seq(Number) /\ q.hwm \in {0, 1}
  BY LinkAssumption DEF TQ!Queues, RQ!Queues

LEMMA NewQueue ==
  /\ TQ!New \in TQ!Queues(Number) /\ RQ!New \in TQ!Queues(Number)
  /\ TQ!New.items = <<>> /\ RQ!New.items = <<>> /\ TQ!New.hwm = 0 /\ RQ!New.hwm = 0
  /\ TQ!New # None /\ RQ!New # None
  <1>1. /\ TQ!New \in TQ!Queues(Number) /\ RQ!New \in TQ!Queues(Number)
        /\ TQ!New.items = <<>> /\ RQ!New.items = <<>> /\ TQ!New.hwm = 0 /\ RQ!New.hwm = 0
    BY DEF TQ!New, RQ!New, TQ!Queues
  <1> QED BY <1>1, LinkAssumption

\* The types of the fields, one by one.
LEMMA FieldTypes ==
  ASSUME NEW n \in Nodes
  PROVE  /\ n.conn \in BOOLEAN /\ n.inprog \in BOOLEAN /\ n.sent \in BOOLEAN
         /\ n.ready \in BOOLEAN /\ n.ble \in BOOLEAN /\ n.txt \in BOOLEAN
         /\ n.reading \in BOOLEAN /\ n.closing \in BOOLEAN /\ n.halt \in BOOLEAN
         /\ n.fault \in BOOLEAN /\ n.flow \in {"on", "off"} /\ n.ccc \subseteq {"tx", "flow"}
         /\ n.rxt \subseteq {"read", "start"}
         /\ n.tx # None => n.tx \in TQ!Queues(Number)
         /\ n.rx # None => n.rx \in TQ!Queues(Number)
         /\ n.data # None => n.data \in Number
         /\ n.held # None => n.held \in Number
  <1>1. RQ!Queues(Number) = TQ!Queues(Number) BY DEF RQ!Queues, TQ!Queues
  <1> QED BY <1>1 DEF Nodes

LEMMA FineStored ==
  ASSUME NEW s \in Sides, NEW n, Fine(s, n), n.rx # None, NEW q \in TQ!Queues(Number)
  PROVE  Fine(s, [n EXCEPT !.rx = q, !.txt = TRUE])
  <1>1. q \in RQ!Queues(Number) /\ q # None BY QueueOps, LinkAssumption DEF RQ!Queues, TQ!Queues
  <1> QED BY <1>1 DEF Fine, Sound, Roomy, Nodes

LEMMA FineFlow ==
  ASSUME NEW s \in Sides, NEW n, Fine(s, n), NEW v \in {"on", "off"}
  PROVE  Fine(s, FlowSet(s, n, v))
  <1> DEFINE m == PeriphFlow(n, v)
  <1>1. m \in Nodes
    <2> DEFINE f == IF n.conn THEN v ELSE n.flow
               b == n.ble \/ v = "on"
               r == IF v = "on" THEN n.rxt \cup {"start"} ELSE n.rxt
    <2>1. f \in {"on", "off"} /\ b \in BOOLEAN /\ r \in SUBSET {"read", "start"}
      BY FieldTypes DEF Fine
    <2>2. m = [n EXCEPT !.flow = f, !.ble = b, !.rxt = r] BY DEF PeriphFlow
    <2> HIDE DEF f, b, r, m
    <2> QED BY <2>1, <2>2 DEF Fine, Nodes
  <1>2. /\ "read" \in m.rxt <=> "read" \in n.rxt
        /\ m.tx = n.tx /\ m.rx = n.rx /\ m.ready = n.ready /\ m.sent = n.sent
        /\ m.reading = n.reading /\ m.data = n.data /\ m.held = n.held /\ m.conn = n.conn
        /\ m.closing = n.closing /\ m.inprog = n.inprog /\ m.fault = n.fault
    BY DEF PeriphFlow, Fine, Nodes
  <1>3. Fine(s, m)
    <2> HIDE DEF m
    <2> QED BY <1>1, <1>2 DEF Fine, Sound, Roomy
  <1> QED BY <1>3 DEF FlowSet

LEMMA FineSmall ==
  ASSUME NEW s \in Sides, NEW n, Fine(s, n), NEW v \in {"on", "off"}, NEW b \in BOOLEAN,
         NEW h \in {"tx", "flow"}
  PROVE  /\ Fine(s, [n EXCEPT !.ccc = @ \cup {h}])
         /\ Fine(s, [n EXCEPT !.flow = v, !.ble = b])
         /\ Fine(s, [n EXCEPT !.ble = FALSE])
         /\ Fine(s, [n EXCEPT !.halt = TRUE])
         /\ ~n.inprog => Fine(s, [n EXCEPT !.ble = FALSE, !.inprog = b])
         /\ Items(n.tx) # <<>> /\ ~n.closing =>
              Fine(s, [n EXCEPT !.ble = FALSE, !.inprog = TRUE, !.sent = TRUE])
  <1> USE DEF Fine, Sound, Roomy, Nodes
  <1>1. Fine(s, [n EXCEPT !.ccc = @ \cup {h}])
    <2>1. n.ccc \cup {h} \in SUBSET {"tx", "flow"} BY FieldTypes
    <2> QED BY <2>1
  <1>2. Fine(s, [n EXCEPT !.flow = v, !.ble = b]) BY ZenonT(60)
  <1>3. Fine(s, [n EXCEPT !.ble = FALSE]) OBVIOUS
  <1>4. Fine(s, [n EXCEPT !.halt = TRUE]) OBVIOUS
  <1>5. ~n.inprog => Fine(s, [n EXCEPT !.ble = FALSE, !.inprog = b]) OBVIOUS
  <1>6. Items(n.tx) # <<>> /\ ~n.closing =>
              Fine(s, [n EXCEPT !.ble = FALSE, !.inprog = TRUE, !.sent = TRUE])
    BY DEF Items
  <1> QED BY <1>1, <1>2, <1>3, <1>4, <1>5, <1>6

LEMMA Marks ==
  /\ TX_LOW \in Nat /\ TX_HIGH \in Nat /\ TX_SIZE \in Nat /\ TX_LOW < TX_HIGH /\ TX_HIGH < TX_SIZE
  /\ RX_LOW \in Nat /\ RX_HIGH \in Nat /\ RX_SIZE \in Nat /\ RX_LOW < RX_HIGH /\ RX_HIGH < RX_SIZE
  BY LinkAssumption DEF TQ!MarksAssumption, RQ!MarksAssumption

\* tx_done_cb.
LEMMA FineDone ==
  ASSUME NEW s \in Sides, NEW n, Fine(s, n), n.sent, NEW b \in BOOLEAN
  PROVE  LET q == TQ!Pop(n.tx)
             again == TQ!AlmostEmpty(q)
         IN  Fine(s, [n EXCEPT !.inprog = FALSE, !.sent = FALSE, !.tx = TQ!CheckedEmpty(q),
                               !.ready = @ \/ again,
                               !.rxt = IF again THEN @ \cup {"start"} ELSE @, !.ble = b])
  <1> DEFINE q == TQ!Pop(n.tx)
             t == TQ!CheckedEmpty(q)
             again == TQ!AlmostEmpty(q)
             ready == n.ready \/ again
             rxt == IF again THEN n.rxt \cup {"start"} ELSE n.rxt
             m == [n EXCEPT !.inprog = FALSE, !.sent = FALSE, !.tx = t, !.ready = ready,
                            !.rxt = rxt, !.ble = b]
  <1>1. /\ n \in Nodes /\ n.tx # None /\ n.tx \in TQ!Queues(Number) /\ n.tx.items # <<>>
        /\ n.tx.items \in Seq(Number) /\ n.tx.hwm \in {0, 1}
    BY FieldTypes, QueueFields DEF Fine, Sound
  <1>2. /\ q \in TQ!Queues(Number) /\ q.items = Tail(n.tx.items) /\ q.hwm = n.tx.hwm
        /\ t \in TQ!Queues(Number) /\ t.items = q.items /\ t.hwm = IF again THEN 0 ELSE q.hwm
        /\ t # None
    <2>0. 0 \in Number BY LinkAssumption DEF Number
    <2>1. q \in TQ!Queues(Number) /\ q.items = Tail(n.tx.items) /\ q.hwm = n.tx.hwm
      BY <1>1, <2>0, QueueOps
    <2> HIDE DEF q
    <2> QED BY <2>0, <2>1, QueueOps
  <1>3. Len(t.items) = Len(n.tx.items) - 1 /\ Len(n.tx.items) \in Nat BY <1>1, <1>2
  <1>4. again => Len(t.items) <= TX_LOW BY <1>2 DEF TQ!AlmostEmpty, TQ!ItemCount
  <1>5. again \in BOOLEAN /\ ready \in BOOLEAN /\ rxt \in SUBSET {"read", "start"}
        /\ ("read" \in rxt <=> "read" \in n.rxt)
    BY <1>1, FieldTypes DEF TQ!AlmostEmpty
  <1> HIDE DEF q, t, again, rxt, ready
  <1>6. m \in Nodes BY <1>1, <1>2, <1>5, ZenonT(60) DEF Nodes
  <1>7. /\ m.inprog = FALSE /\ m.sent = FALSE /\ m.tx = t /\ m.ready = ready /\ m.rxt = rxt
        /\ m.rx = n.rx /\ m.reading = n.reading /\ m.data = n.data /\ m.held = n.held
        /\ m.conn = n.conn /\ m.closing = n.closing /\ m.fault = n.fault
    BY <1>1 DEF Nodes
  <1>8. Sound(s, m)
    <2>1. ready => n.conn BY <1>1 DEF Fine, Sound, ready
    <2> HIDE DEF m
    <2> QED BY <1>1, <1>2, <1>5, <1>7, <2>1 DEF Fine, Sound
  <1>9. Roomy(m)
    <2>1. ready => t.hwm = 0 BY <1>1, <1>2 DEF Fine, Roomy, ready
    <2>2. t.hwm = 0 => Len(t.items) <= TX_HIGH BY <1>1, <1>2, <1>3, <1>4, Marks DEF Fine, Roomy
    <2>3. n.reading \/ n.data # None => Len(t.items) <= TX_HIGH
      BY <1>1, <1>3, Marks DEF Fine, Roomy
    <2> HIDE DEF m
    <2> QED BY <1>7, <2>1, <2>2, <2>3 DEF Roomy
  <1>10. Fine(s, m)
    <2> HIDE DEF m
    <2> QED BY <1>6, <1>7, <1>8, <1>9 DEF Fine
  <1> QED BY <1>10 DEF m, ready, rxt, t, q, again

\* dsps_rx_task takes its notifications: there is room for the message, if it has read one and
\* the queue is still there.
LEMMA FineWake ==
  ASSUME NEW s \in Sides, NEW n, Fine(s, n), ~n.reading
  PROVE  LET stores == "read" \in n.rxt
             q == TQ!Write(n.tx, n.data)
             ready == n.ready /\ ~(stores /\ n.tx # None /\ TQ!AlmostFull(q))
         IN  /\ stores /\ n.tx # None => TQ!ItemCount(n.tx) < TX_SIZE
             /\ Fine(s, [n EXCEPT !.tx = IF stores /\ @ # None THEN TQ!CheckedFull(q) ELSE @,
                                  !.fault = @ \/ (stores /\ n.tx = None),
                                  !.data = IF stores THEN None ELSE @,
                                  !.ready = ready,
                                  !.ble = @ \/ stores,
                                  !.rxt = IF stores THEN {"start"} ELSE {},
                                  !.reading = "start" \in n.rxt /\ n.conn /\ ready])
  <1> DEFINE stores == "read" \in n.rxt
             q == TQ!Write(n.tx, n.data)
             ready == n.ready /\ ~(stores /\ n.tx # None /\ TQ!AlmostFull(q))
             t == IF stores /\ n.tx # None THEN TQ!CheckedFull(q) ELSE n.tx
             into == stores /\ n.tx # None
             f == n.fault \/ (stores /\ n.tx = None)
             d == IF stores THEN None ELSE n.data
             b == n.ble \/ stores
             r == IF stores THEN {"start"} ELSE {}
             g == "start" \in n.rxt /\ n.conn /\ ready
             m == [n EXCEPT !.tx = t, !.fault = f, !.data = d, !.ready = ready, !.ble = b,
                            !.rxt = r, !.reading = g]
  <1>1. n \in Nodes BY DEF Fine
  <1>2. into => n.tx # None /\ n.data \in Number /\ n.tx \in TQ!Queues(Number)
    BY <1>1, FieldTypes DEF Fine, Sound
  <1>3. d = None BY DEF Fine, Sound
  <1>4. ASSUME into
        PROVE  /\ t \in TQ!Queues(Number) /\ t # None /\ t.items = Append(n.tx.items, n.data)
               /\ q.items = t.items /\ q.hwm = n.tx.hwm
               /\ t.hwm = IF TQ!AlmostFull(q) THEN 1 ELSE n.tx.hwm
               /\ n.tx.items \in Seq(Number) /\ n.tx.hwm \in {0, 1}
    <2>1. /\ q \in TQ!Queues(Number) /\ q.items = Append(n.tx.items, n.data) /\ q.hwm = n.tx.hwm
          /\ n.tx.items \in Seq(Number) /\ n.tx.hwm \in {0, 1}
      BY <1>2, <1>4, QueueOps
    <2>2. t = TQ!CheckedFull(q) BY <1>2, <1>4
    <2> HIDE DEF q, t
    <2> QED BY <1>2, <1>4, <2>1, <2>2, QueueOps
  <1>5. ~into => t = n.tx OBVIOUS
  <1>6. (t = None <=> n.tx = None) /\ t \in {None} \cup TQ!Queues(Number)
    BY <1>1, <1>2, <1>4, <1>5, FieldTypes
  <1>7. /\ ready \in BOOLEAN /\ f \in BOOLEAN /\ b \in BOOLEAN /\ g \in BOOLEAN
        /\ r \in SUBSET {"read", "start"} /\ "read" \notin r
        /\ ready => n.ready
        /\ g => n.conn /\ ready
    BY <1>1, FieldTypes
  <1>8. into => Len(n.tx.items) <= TX_HIGH BY <1>2 DEF Fine, Sound, Roomy
  <1>9. into => TQ!ItemCount(n.tx) < TX_SIZE
    BY <1>2, <1>4, <1>8, Marks DEF TQ!ItemCount
  <1>10. t # None => /\ t.hwm = 0 => Len(t.items) <= TX_HIGH
                     /\ ready => t.hwm = 0
    <2>1. CASE ~into BY <1>5, <1>7, <2>1 DEF Fine, Roomy
    <2>2. CASE into
      <3>1. Len(t.items) \in Nat BY <1>4, <2>2
      <3>2. ~TQ!AlmostFull(q) => t.hwm = n.tx.hwm /\ (q.hwm # 0 \/ Len(t.items) <= TX_HIGH)
        BY <1>4, <2>2, <3>1, Marks DEF TQ!AlmostFull, TQ!ItemCount
      <3>3. TQ!AlmostFull(q) => t.hwm = 1 /\ ~ready BY <1>2, <1>4, <2>2
      <3>4. n.ready => n.tx.hwm = 0 BY <1>2, <2>2 DEF Fine, Roomy
      <3> QED BY <1>4, <1>7, <2>2, <3>2, <3>3, <3>4
    <2> QED BY <2>1, <2>2
  <1> HIDE DEF t, f, d, b, r, g, ready, stores, into, q
  <1>11. m \in Nodes
    <2> DEFINE k == [n EXCEPT !.tx = t, !.fault = f, !.data = d]
    <2>1. k \in Nodes BY <1>1, <1>3, <1>6, <1>7 DEF Nodes
    <2>2. m = [k EXCEPT !.ready = ready, !.ble = b, !.rxt = r, !.reading = g] BY <1>1 DEF Nodes
    <2> HIDE DEF k, m
    <2> QED BY <1>7, <2>1, <2>2, ZenonT(60) DEF Nodes
  <1>12. /\ m.inprog = n.inprog /\ m.sent = n.sent /\ m.tx = t /\ m.ready = ready /\ m.rxt = r
         /\ m.rx = n.rx /\ m.reading = g /\ m.data = d /\ m.held = n.held
         /\ m.conn = n.conn /\ m.closing = n.closing /\ m.fault = f
    BY <1>1 DEF Nodes
  <1> HIDE DEF m
  <1>13. n.sent => t.items # <<>>
    <2>1. CASE into
      <3>1. \A u \in Seq(Number), v \in Number : Append(u, v) # <<>> BY AppendProperties
      <3> QED BY <1>2, <1>4, <2>1, <3>1
    <2>2. CASE ~into BY <1>5, <2>2 DEF Fine, Sound
    <2> QED BY <2>1, <2>2
  <1>14. Sound(s, m) BY <1>3, <1>6, <1>7, <1>12, <1>13 DEF Fine, Sound
  <1>15. Roomy(m) BY <1>3, <1>6, <1>7, <1>10, <1>12 DEF Roomy
  <1>16. Fine(s, m) BY <1>3, <1>11, <1>12, <1>14, <1>15 DEF Fine
  <1> QED BY <1>9, <1>16 DEF m, t, f, d, b, r, g, ready, stores, into, q

\* dsps_rx_task reads, and its read times out.
LEMMA FineRead ==
  ASSUME NEW s \in Sides, NEW n, Fine(s, n), n.reading, NEW v \in Number
  PROVE  /\ Fine(s, [n EXCEPT !.reading = FALSE, !.data = v, !.rxt = @ \cup {"read"}])
         /\ Fine(s, [n EXCEPT !.reading = FALSE, !.rxt = @ \cup {"start"}])
  <1>1. /\ n \in Nodes /\ n.tx # None /\ v # None
        /\ n.rxt \cup {"read"} \in SUBSET {"read", "start"}
        /\ n.rxt \cup {"start"} \in SUBSET {"read", "start"}
    BY FieldTypes, LinkAssumption DEF Fine, Sound
  <1>2. Fine(s, [n EXCEPT !.reading = FALSE, !.data = v, !.rxt = @ \cup {"read"}])
    BY <1>1 DEF Fine, Sound, Roomy, Nodes
  <1>3. Fine(s, [n EXCEPT !.reading = FALSE, !.rxt = @ \cup {"start"}])
    BY <1>1 DEF Fine, Sound, Roomy, Nodes
  <1> QED BY <1>2, <1>3

\* dsps_tx_task takes a message out of the queue.
LEMMA FineTake ==
  ASSUME NEW s \in Sides, NEW n, Fine(s, n)
  PROVE  /\ Fine(s, [n EXCEPT !.txt = FALSE])
         /\ Items(n.rx) # <<>> =>
              Fine(s, [n EXCEPT !.txt = FALSE, !.held = Head(n.rx.items), !.rx = RQ!Pop(@)])
  <1>1. Fine(s, [n EXCEPT !.txt = FALSE]) BY DEF Fine, Sound, Roomy, Nodes
  <1>2. ASSUME Items(n.rx) # <<>>
        PROVE  Fine(s, [n EXCEPT !.txt = FALSE, !.held = Head(n.rx.items), !.rx = RQ!Pop(@)])
    <2> DEFINE h == Head(n.rx.items)
               q == RQ!Pop(n.rx)
    <2>1. n \in Nodes /\ n.rx # None /\ n.tx # None /\ n.rx \in TQ!Queues(Number)
      BY <1>2, FieldTypes DEF Items, Fine, Sound
    <2>2. n.rx.items \in Seq(Number) /\ n.rx.items # <<>> BY <1>2, <2>1, QueueFields DEF Items
    <2>3. h \in Number BY <2>2, HeadTailProperties
    <2>4. q \in TQ!Queues(Number) /\ q \in RQ!Queues(Number) /\ q # None
      <3>1. q \in TQ!Queues(Number) BY <2>1, <2>3, QueueOps
      <3> HIDE DEF q
      <3> QED BY <3>1, QueueFields
    <2> HIDE DEF h, q
    <2>5. Fine(s, [n EXCEPT !.txt = FALSE, !.held = h, !.rx = q])
      BY <2>1, <2>3, <2>4 DEF Fine, Sound, Roomy, Nodes
    <2> QED BY <2>5 DEF h, q
  <1> QED BY <1>1, <1>2

\* The write to the serial port returns, and the queue is still there or is not.
LEMMA FineWritten ==
  ASSUME NEW s \in Sides, NEW n, Fine(s, n), NEW b \in BOOLEAN, NEW f \in BOOLEAN
  PROVE  Fine(s, [n EXCEPT !.held = None, !.rx = IF n.rx = None THEN None ELSE RQ!CheckedEmpty(@),
                           !.txt = b, !.fault = f])
  <1> DEFINE q == IF n.rx = None THEN None ELSE RQ!CheckedEmpty(n.rx)
  <1>1. n \in Nodes /\ (n.rx # None => n.rx \in TQ!Queues(Number))
    BY FieldTypes DEF Fine, Sound
  <1>2. q \in {None} \cup RQ!Queues(Number) /\ (q = None <=> n.rx = None)
    <2>1. 0 \in Number BY LinkAssumption DEF Number
    <2>2. n.rx # None => RQ!CheckedEmpty(n.rx) \in TQ!Queues(Number) BY <1>1, <2>1, QueueOps
    <2> QED BY <2>2, QueueFields
  <1> HIDE DEF q
  <1>3. Fine(s, [n EXCEPT !.held = None, !.rx = q, !.txt = b, !.fault = f])
    BY <1>1, <1>2 DEF Fine, Sound, Roomy, Nodes
  <1> QED BY <1>3 DEF q

\* Connections begin.
LEMMA FineBegins ==
  ASSUME NEW s \in Sides, NEW n, Fine(s, n), ~n.closing
  PROVE  /\ ~n.conn => n.tx = None /\ Fine(s, [WithQueues(n) EXCEPT !.conn = TRUE])
         /\ ~n.conn /\ s = "C" => Fine(s, [n EXCEPT !.conn = TRUE])
         /\ n.conn /\ n.tx = None => Fine(s, [WithQueues(n) EXCEPT !.rxt = @ \cup {"start"}])
  <1> DEFINE w == WithQueues(n)
             t == TQ!New
             r == RQ!New
  <1>1. /\ t \in TQ!Queues(Number) /\ r \in RQ!Queues(Number) /\ t # None /\ r # None
        /\ t.items = <<>> /\ t.hwm = 0 /\ Len(t.items) <= TX_HIGH
    BY NewQueue, QueueFields, Marks
  <1>2. n \in Nodes /\ n.rxt \cup {"start"} \in SUBSET {"read", "start"} BY FieldTypes DEF Fine
  <1>3. w = [n EXCEPT !.tx = t, !.rx = r, !.ready = TRUE] BY DEF WithQueues
  <1> HIDE DEF w, t, r
  <1>4. ASSUME ~n.conn PROVE n.tx = None /\ Fine(s, [w EXCEPT !.conn = TRUE])
    <2>1. n.tx = None BY <1>4 DEF Fine, Sound
    <2>2. [w EXCEPT !.conn = TRUE] = [n EXCEPT !.conn = TRUE, !.tx = t, !.rx = r, !.ready = TRUE]
      BY <1>2, <1>3 DEF Nodes
    <2>3. Fine(s, [n EXCEPT !.conn = TRUE, !.tx = t, !.rx = r, !.ready = TRUE])
      BY <1>1, <1>2, <1>4, <2>1 DEF Fine, Sound, Roomy, Nodes
    <2> QED BY <2>1, <2>2, <2>3
  <1>5. ASSUME ~n.conn, s = "C" PROVE Fine(s, [n EXCEPT !.conn = TRUE])
    BY <1>5 DEF Fine, Sound, Roomy, Nodes
  <1>6. ASSUME n.conn, n.tx = None PROVE Fine(s, [w EXCEPT !.rxt = @ \cup {"start"}])
    <2>1. [w EXCEPT !.rxt = @ \cup {"start"}]
            = [n EXCEPT !.tx = t, !.rx = r, !.ready = TRUE, !.rxt = @ \cup {"start"}]
      BY <1>2, <1>3 DEF Nodes
    <2>2. Fine(s, [n EXCEPT !.tx = t, !.rx = r, !.ready = TRUE, !.rxt = @ \cup {"start"}])
      BY <1>1, <1>2, <1>6 DEF Fine, Sound, Roomy, Nodes
    <2> QED BY <2>1, <2>2
  <1> QED BY <1>4, <1>5, <1>6 DEF w

\* Connections end, and the queues go.
LEMMA FineEnds ==
  ASSUME NEW s \in Sides, NEW n, Fine(s, n)
  PROVE  /\ Fine(s, Cut(s, n))
         /\ n.closing /\ ~n.reading =>
              Fine(s, [n EXCEPT !.tx = None, !.rx = None, !.closing = FALSE])
  <1> DEFINE f == IF s = "P" THEN "off" ELSE n.flow
             k == [n EXCEPT !.conn = FALSE, !.ready = FALSE, !.inprog = FALSE, !.sent = FALSE]
             m == [k EXCEPT !.ccc = {}, !.flow = f, !.closing = TRUE]
  <1>1. f \in {"on", "off"} /\ n \in Nodes BY FieldTypes DEF Fine
  <1> HIDE DEF f
  <1>2. k \in Nodes BY <1>1 DEF Nodes
  <1>3. m \in Nodes
    <2> HIDE DEF k
    <2> QED BY <1>1, <1>2 DEF Nodes
  <1>4. /\ ~m.conn /\ ~m.ready /\ ~m.sent /\ m.closing /\ m.tx = n.tx /\ m.rx = n.rx
        /\ m.reading = n.reading /\ m.data = n.data /\ m.held = n.held /\ m.rxt = n.rxt
        /\ m.fault = n.fault
    BY <1>1 DEF Nodes
  <1>5. Cut(s, n) = m BY <1>1 DEF Cut, f, Nodes
  <1>6. Fine(s, m)
    <2> HIDE DEF m
    <2> QED BY <1>3, <1>4 DEF Fine, Sound, Roomy
  <1>7. n.closing /\ ~n.reading =>
              Fine(s, [n EXCEPT !.tx = None, !.rx = None, !.closing = FALSE])
    BY <1>1 DEF Fine, Sound, Roomy, Nodes
  <1> QED BY <1>5, <1>6, <1>7

-----------------------------------------------------------------------------
(* What is on the air fits the connections.                                *)

Begun(a) == a # <<>> /\ a[1] = Gap("begin")
Over(a)  == a # <<>> /\ a[Len(a)] = Gap("end")

\* A connection begins and ends once, and a side that has not heard of it or has torn it down
\* has no part in it.  n is the side that gets the events a.
Attached(a, n, l) ==
  /\ \A i \in 1..Len(a) : (a[i] = Gap("begin") => i = 1) /\ (a[i] = Gap("end") => i = Len(a))
  /\ Begun(a) => ~n.conn /\ ~n.closing
  /\ l = "up" => ~Over(a) /\ (n.conn \/ Begun(a))
  /\ l = "down" => /\ a = <<>> \/ Over(a)
                   /\ Over(a) <=> (n.conn \/ Begun(a))

AllAttached(r, n, l) ==
  r \in [Sides -> Seq(Events)] /\ \A s \in Sides : Attached(r[Other(s)], n[s], l)

LEMMA SideOf ==
  ASSUME NEW s \in Sides
  PROVE  Other(s) \in Sides /\ Other(s) # s /\ Other(Other(s)) = s /\ Sides = {s, Other(s)}
  BY DEF Sides, Other

LEMMA EventTypes ==
  /\ \A v \in {"on", "off"} : Flow(v) \in Events /\ Flow(v).type = "flow" /\ Flow(v).value = v
  /\ \A k \in Number : Data(k) \in Events /\ Data(k).type = "data" /\ Data(k).value = k
  /\ \A h \in {"tx", "flow"} : Ccc(h) \in Events /\ Ccc(h).type = "ccc" /\ Ccc(h).value = h
  /\ \A e \in {"begin", "end"} : Gap(e) \in Events /\ Gap(e).type = "gap" /\ Gap(e).value = e
  /\ \A e \in Events : e.type = "gap" => e = Gap(e.value) /\ e.value \in {"begin", "end"}
  /\ \A e \in Events : e.type = "flow" => e = Flow(e.value) /\ e.value \in {"on", "off"}
  /\ \A e \in Events : e.type = "ccc" => e = Ccc(e.value) /\ e.value \in {"tx", "flow"}
  /\ \A e \in Events : e.type = "data" => e = Data(e.value) /\ e.value \in Number
  BY DEF Events, Flow, Data, Ccc, Gap

LEMMA AttachedTail ==
  ASSUME NEW a \in Seq(Events), NEW n, NEW l \in {"up", "down"}, Attached(a, n, l), a # <<>>,
         Head(a).type # "gap"
  PROVE  Attached(Tail(a), n, l)
  <1> DEFINE b == Tail(a)
  <1>1. /\ Len(b) = Len(a) - 1 /\ Len(a) \in Nat /\ Len(b) \in Nat /\ b \in Seq(Events)
        /\ \A i \in 1..Len(b) : b[i] = a[i+1]
        /\ Head(a) = a[1] /\ (b = <<>> <=> Len(b) = 0)
    <2>1. Len(a) \in Nat /\ Len(a) # 0 /\ Head(a) = a[1] OBVIOUS
    <2>2. b \in Seq(Events) /\ Len(b) = Len(a) - 1 /\ \A i \in 1..Len(a)-1 : b[i] = a[i+1] OBVIOUS
    <2> HIDE DEF b
    <2> QED BY <2>1, <2>2
  <1> HIDE DEF b
  <1>2. a[1] # Gap("begin") /\ a[1] # Gap("end") BY <1>1, EventTypes
  <1>3. ~Begun(a) /\ ~Begun(b)
    BY <1>1, <1>2 DEF Attached, Begun
  <1>4. Over(b) <=> Over(a) BY <1>1, <1>2 DEF Over
  <1>5. \A i \in 1..Len(b) : (b[i] = Gap("begin") => i = 1) /\ (b[i] = Gap("end") => i = Len(b))
    BY <1>1 DEF Attached
  <1>6. l = "down" => Over(a) BY DEF Attached
  <1> QED BY <1>3, <1>4, <1>5, <1>6 DEF Attached, b

LEMMA AttachedAppend ==
  ASSUME NEW a \in Seq(Events), NEW n, Attached(a, n, "up"), NEW e \in Events, e.type # "gap"
  PROVE  Attached(Append(a, e), n, "up")
  <1> DEFINE b == Append(a, e)
  <1>1. /\ Len(b) = Len(a) + 1 /\ Len(a) \in Nat /\ b # <<>> /\ b[Len(b)] = e
        /\ \A i \in 1..Len(a) : b[i] = a[i]
        /\ a = <<>> <=> Len(a) = 0
    BY AppendProperties
  <1> HIDE DEF b
  <1>2. e # Gap("begin") /\ e # Gap("end") BY EventTypes
  <1>3. Begun(b) <=> Begun(a)
    <2>1. CASE a = <<>> BY <1>1, <1>2, <2>1 DEF Begun
    <2>2. CASE a # <<>> BY <1>1, <2>2 DEF Begun
    <2> QED BY <2>1, <2>2
  <1>4. ~Over(b) BY <1>1, <1>2 DEF Over
  <1>5. \A i \in 1..Len(a) : a[i] # Gap("end")
    BY <1>1 DEF Attached, Over
  <1>6. \A i \in 1..Len(b) : (b[i] = Gap("begin") => i = 1) /\ (b[i] = Gap("end") => i = Len(b))
    <2>1. TAKE i \in 1..Len(b)
    <2>2. i \in 1..Len(a) \/ i = Len(b) BY <1>1
    <2> QED BY <1>1, <1>2, <1>5, <2>1, <2>2 DEF Attached
  <1> QED BY <1>3, <1>4, <1>6 DEF Attached, b

\* A side takes an event other than the beginning or the end of a connection.
LEMMA TakenAttached ==
  ASSUME NEW l \in {"up", "down"}, NEW n, AllAttached(air, n, l), NEW s \in Sides,
         Incoming(s) # <<>>, Head(Incoming(s)).type # "gap"
  PROVE  AllAttached(Taken(s), n, l)
  <1>1. Taken(s) = [air EXCEPT ![Other(s)] = Tail(@)] BY DEF Taken
  <1>2. air[Other(s)] \in Seq(Events) /\ Tail(air[Other(s)]) \in Seq(Events)
    BY SideOf DEF AllAttached, Incoming
  <1>3. Attached(Tail(air[Other(s)]), n[s], l)
    BY <1>2, AttachedTail DEF AllAttached, Incoming
  <1>4. ASSUME NEW t \in Sides PROVE Attached(Taken(s)[Other(t)], n[t], l)
    BY <1>1, <1>3, SideOf DEF AllAttached
  <1> QED BY <1>1, <1>2, <1>4, SideOf DEF AllAttached

\* What a call of the stack hands over.
LEMMA HandedOne ==
  ASSUME NEW r \in [Sides -> Seq(Events)], NEW s \in Sides, NEW e \in Events
  PROVE  /\ Handed(s, r, <<>>) = r
         /\ link = "up" => Handed(s, r, <<e>>)[s] = Append(r[s], e)
         /\ link # "up" => Handed(s, r, <<e>>) = r
         /\ Handed(s, r, <<e>>)[Other(s)] = r[Other(s)]
         /\ Handed(s, r, <<e>>) \in [Sides -> Seq(Events)]
  <1>1. /\ r[s] \o <<>> = r[s] /\ r[s] \o <<e>> = Append(r[s], e) /\ Append(r[s], e) \in Seq(Events)
        /\ r[s] \in Seq(Events)
    OBVIOUS
  <1>2. [r EXCEPT ![s] = r[s]] = r OBVIOUS
  <1>3. Handed(s, r, <<>>) = r /\ (link # "up" => Handed(s, r, <<e>>) = r) BY <1>1, <1>2 DEF Handed
  <1>4. ASSUME link = "up"
        PROVE  /\ Handed(s, r, <<e>>)[s] = Append(r[s], e)
               /\ Handed(s, r, <<e>>)[Other(s)] = r[Other(s)]
               /\ Handed(s, r, <<e>>) \in [Sides -> Seq(Events)]
    BY <1>1, <1>4, SideOf DEF Handed
  <1> QED BY <1>3, <1>4

LEMMA HandedAttached ==
  ASSUME NEW n, NEW r, link \in {"up", "down"}, AllAttached(r, n, link), NEW s \in Sides,
         NEW e \in Events, e.type # "gap"
  PROVE  AllAttached(Handed(s, r, <<e>>), n, link)
  <1>0. r \in [Sides -> Seq(Events)] BY DEF AllAttached
  <1>1. CASE link # "up" BY <1>0, <1>1, HandedOne
  <1>2. CASE link = "up"
    <2> DEFINE h == Handed(s, r, <<e>>)
    <2>1. /\ h[s] = Append(r[s], e) /\ h[Other(s)] = r[Other(s)] /\ h \in [Sides -> Seq(Events)]
          /\ r[s] \in Seq(Events)
      BY <1>0, <1>2, HandedOne
    <2>2. r[Other(Other(s))] = r[s] BY SideOf
    <2>3. Attached(r[s], n[Other(s)], "up") BY <1>2, <2>2, SideOf DEF AllAttached
    <2>4. Attached(Append(r[s], e), n[Other(s)], "up") BY <2>1, <2>3, AttachedAppend
    <2> HIDE DEF h
    <2>5. ASSUME NEW t \in Sides PROVE Attached(h[Other(t)], n[t], link)
      BY <1>2, <2>1, <2>4, SideOf DEF AllAttached
    <2> QED BY <2>1, <2>5 DEF AllAttached, h
  <1> QED BY <1>1, <1>2

LEMMA AttachedAlike ==
  ASSUME NEW r, NEW n, NEW m, NEW l, AllAttached(r, n, l),
         \A s \in Sides : m[s].conn = n[s].conn /\ m[s].closing = n[s].closing
  PROVE  AllAttached(r, m, l)
  BY DEF AllAttached, Attached

\* The first event is the beginning, or the end, of a connection.
LEMMA AttachedGap ==
  ASSUME NEW a \in Seq(Events), NEW n, NEW m, NEW l \in {"up", "down"}, Attached(a, n, l), a # <<>>
  PROVE  /\ Head(a) = Gap("begin") => ~n.conn /\ ~n.closing
         /\ Head(a) = Gap("begin") /\ m.conn => Attached(Tail(a), m, l)
         /\ Head(a) = Gap("end") => Tail(a) = <<>> /\ l = "down" /\ n.conn
         /\ Head(a) = Gap("end") /\ ~m.conn => Attached(Tail(a), m, l)
  <1> DEFINE b == Tail(a)
  <1>1. /\ Len(b) = Len(a) - 1 /\ Len(a) \in Nat /\ Len(b) \in Nat /\ b \in Seq(Events)
        /\ \A i \in 1..Len(b) : b[i] = a[i+1]
        /\ Head(a) = a[1] /\ (b = <<>> <=> Len(b) = 0)
    <2>1. Len(a) \in Nat /\ Len(a) # 0 /\ Head(a) = a[1] OBVIOUS
    <2>2. b \in Seq(Events) /\ Len(b) = Len(a) - 1 /\ \A i \in 1..Len(a)-1 : b[i] = a[i+1] OBVIOUS
    <2> HIDE DEF b
    <2> QED BY <2>1, <2>2
  <1> HIDE DEF b
  <1>2. Gap("begin") # Gap("end") BY EventTypes
  <1>3. ~Begun(b) BY <1>1 DEF Attached, Begun
  <1>4. \A i \in 1..Len(b) : (b[i] = Gap("begin") => i = 1) /\ (b[i] = Gap("end") => i = Len(b))
    BY <1>1 DEF Attached
  <1>5. ASSUME Head(a) = Gap("begin")
        PROVE  ~n.conn /\ ~n.closing /\ (m.conn => Attached(b, m, l))
    <2>1. ~n.conn /\ ~n.closing /\ Begun(a) BY <1>1, <1>5 DEF Attached, Begun
    <2>2. Over(b) <=> Over(a) BY <1>1, <1>2, <1>5 DEF Over
    <2>3. b = <<>> => ~Over(b) BY DEF Over
    <2> QED BY <1>3, <1>4, <2>1, <2>2, <2>3 DEF Attached
  <1>6. ASSUME Head(a) = Gap("end")
        PROVE  b = <<>> /\ l = "down" /\ n.conn /\ (~m.conn => Attached(b, m, l))
    <2>1. Len(a) = 1 /\ b = <<>> BY <1>1, <1>6 DEF Attached
    <2>2. Over(a) /\ ~Begun(a) BY <1>1, <1>2, <1>6, <2>1 DEF Over, Begun
    <2>3. l = "down" /\ n.conn BY <2>2 DEF Attached
    <2>4. ~Over(b) BY <2>1 DEF Over
    <2> QED BY <1>3, <1>4, <2>1, <2>3, <2>4 DEF Attached
  <1> QED BY <1>5, <1>6 DEF b

\* The connection is lost, with what follows the first k events.
LEMMA AttachedLoss ==
  ASSUME NEW a \in Seq(Events), NEW n, Attached(a, n, "up"), NEW k \in 0..Len(a),
         \A i \in k+1..Len(a) : a[i].type # "gap"
  PROVE  /\ Attached(Append(SubSeq(a, 1, k), Gap("end")), n, "down")
         /\ Append(SubSeq(a, 1, k), Gap("end")) \in Seq(Events)
  <1> DEFINE c == SubSeq(a, 1, k)
             b == Append(c, Gap("end"))
  <1>1. c \in Seq(Events) /\ Len(c) = k /\ k \in Nat /\ Len(a) \in Nat /\ \A i \in 1..k : c[i] = a[i]
    OBVIOUS
  <1>2. Gap("end") \in Events /\ Gap("begin") # Gap("end") /\ Gap("begin").type = "gap"
    BY EventTypes
  <1> HIDE DEF c
  <1>3. /\ b \in Seq(Events) /\ Len(b) = k + 1 /\ b # <<>> /\ b[k+1] = Gap("end")
        /\ \A i \in 1..k : b[i] = a[i]
    BY <1>1, <1>2, AppendProperties
  <1> HIDE DEF b
  <1>4. \A i \in 1..Len(a) : a[i] # Gap("end") BY <1>1 DEF Attached, Over
  <1>5. Over(b) BY <1>3 DEF Over
  <1>6. Begun(b) <=> Begun(a)
    <2>1. CASE k = 0
      <3>1. ~Begun(b) BY <1>2, <1>3, <2>1 DEF Begun
      <3>2. a # <<>> => a[1].type # "gap" BY <1>1, <2>1
      <3> QED BY <1>2, <3>1, <3>2 DEF Begun
    <2>2. CASE k > 0 BY <1>1, <1>3, <2>2 DEF Begun
    <2> QED BY <1>1, <2>1, <2>2
  <1>7. \A i \in 1..Len(b) : (b[i] = Gap("begin") => i = 1) /\ (b[i] = Gap("end") => i = Len(b))
    <2>1. TAKE i \in 1..Len(b)
    <2>2. i \in 1..k \/ i = k + 1 BY <1>1, <1>3
    <2>3. CASE i \in 1..k BY <1>1, <1>3, <1>4, <2>3 DEF Attached
    <2>4. CASE i = k + 1 BY <1>2, <1>3, <2>4
    <2> QED BY <2>2, <2>3, <2>4
  <1>8. n.conn \/ Begun(a) BY DEF Attached
  <1>9. Begun(a) => ~n.conn /\ ~n.closing BY DEF Attached
  <1> QED BY <1>3, <1>5, <1>6, <1>7, <1>8, <1>9 DEF Attached, b, c

LEMMA AttachedAnew ==
  ASSUME NEW n, ~n.conn, ~n.closing
  PROVE  Attached(<<Gap("begin")>>, n, "up") /\ <<Gap("begin")>> \in Seq(Events)
  <1>1. Gap("begin") \in Events /\ Gap("begin") # Gap("end") BY EventTypes
  <1> DEFINE a == <<Gap("begin")>>
  <1>2. Len(a) = 1 /\ a[1] = Gap("begin") /\ a # <<>> /\ a \in Seq(Events) BY <1>1
  <1> HIDE DEF a
  <1> QED BY <1>1, <1>2 DEF Attached, Begun, Over, a

-----------------------------------------------------------------------------
(* A link that is never lost and refuses nothing: whenever P sends data, C *)
(* knows by then that it may.                                              *)

\* By the event i of a, which begins with the value f, the last value told is "on".
Heard(a, f, i) ==
  /\ \A j \in 1..i-1 : a[j] = Flow("off") => \E k \in j+1..i-1 : a[k] = Flow("on")
  /\ f = "off" => \E k \in 1..i-1 : a[k] = Flow("on")
\* g is the value at the sender.
AllHeard(a, f, g) ==
  /\ \A i \in 1..Len(a) : a[i].type = "data" => Heard(a, f, i)
  /\ g = "on" => Heard(a, f, Len(a) + 1)

\* By the event i of a, the notification of the values is enabled.
Enabled(a, c, i) == "flow" \in c \/ \E j \in 1..i-1 : a[j] = Ccc("flow")
AllEnabled(a, c, open) ==
  /\ \A i \in 1..Len(a) : a[i].type \in {"flow", "data"} => Enabled(a, c, i)
  /\ open => Enabled(a, c, Len(a) + 1)

NoEnd(a) == \A i \in 1..Len(a) : a[i] # Gap("end")

FirmState(r, n) ==
  /\ \A s \in Sides : ~n[s].closing /\ NoEnd(r[s])
  /\ AllHeard(r["P"], n["C"].flow, n["P"].flow)
  /\ AllEnabled(r["C"], n["P"].ccc, n["C"].tx # None)
  /\ n["P"].rx # None /\ n["P"].rx.hwm = 1 => "flow" \in n["P"].ccc
  /\ n["P"].flow = "on" => n["P"].conn

LEMMA HeardAppend ==
  ASSUME NEW a \in Seq(Events), NEW f \in {"on", "off"}, NEW g \in {"on", "off"},
         NEW h \in {"on", "off"}, NEW e \in Events, AllHeard(a, f, g),
         e.type = "data" => g = "on",
         h = "on" => (e.type = "flow" => e.value = "on") /\ (g = "on" \/ e.type = "flow")
  PROVE  AllHeard(Append(a, e), f, h)
  <1> DEFINE b == Append(a, e)
  <1>1. /\ Len(b) = Len(a) + 1 /\ Len(a) \in Nat /\ b[Len(a)+1] = e
        /\ \A i \in 1..Len(a) : b[i] = a[i]
    BY AppendProperties
  <1> HIDE DEF b
  <1>2. ASSUME NEW i \in 1..Len(a)+1, Heard(a, f, i) PROVE Heard(b, f, i)
    <2>1. \A k \in 1..i-1 : b[k] = a[k] /\ k \in 1..Len(a) BY <1>1
    <2>2. ASSUME NEW j \in 1..i-1, b[j] = Flow("off") PROVE \E k \in j+1..i-1 : b[k] = Flow("on")
      <3>1. a[j] = Flow("off") BY <2>1, <2>2
      <3>2. PICK k \in j+1..i-1 : a[k] = Flow("on") BY <1>2, <3>1 DEF Heard
      <3>3. k \in 1..i-1 OBVIOUS
      <3> QED BY <2>1, <3>2, <3>3
    <2>3. ASSUME f = "off" PROVE \E k \in 1..i-1 : b[k] = Flow("on")
      BY <1>2, <2>1, <2>3 DEF Heard
    <2> QED BY <2>2, <2>3 DEF Heard
  <1>3. ASSUME NEW i \in 1..Len(b), b[i].type = "data" PROVE Heard(b, f, i)
    <2>1. CASE i \in 1..Len(a)
      <3>1. Heard(a, f, i) BY <1>1, <1>3, <2>1 DEF AllHeard
      <3> QED BY <1>1, <1>2, <2>1, <3>1
    <2>2. CASE i = Len(a) + 1
      <3>1. g = "on" BY <1>1, <1>3, <2>2
      <3>2. Heard(a, f, Len(a) + 1) BY <3>1 DEF AllHeard
      <3> QED BY <1>1, <1>2, <2>2, <3>2
    <2> QED BY <1>1, <2>1, <2>2
  <1>4. ASSUME h = "on" PROVE Heard(b, f, Len(b) + 1)
    <2>1. CASE e.type = "flow"
      <3>1. e = Flow("on") BY <1>4, <2>1, EventTypes
      <3>2. b[Len(b)] = Flow("on") /\ Flow("on") # Flow("off") /\ (Len(b) + 1) - 1 = Len(b)
        BY <1>1, <3>1, EventTypes
      <3>3. Len(b) \in 1..Len(b) /\ \A j \in 1..Len(b) : j = Len(b) \/ Len(b) \in j+1..Len(b)
        BY <1>1
      <3> QED BY <3>2, <3>3 DEF Heard
    <2>2. CASE e.type # "flow"
      <3>1. g = "on" BY <1>4, <2>2
      <3>2. Heard(a, f, Len(a) + 1) BY <3>1 DEF AllHeard
      <3>3. Heard(b, f, Len(a) + 1) BY <1>1, <1>2, <3>2
      <3>4. b[Len(b)] # Flow("off") BY <1>1, <2>2, EventTypes
      <3>5. (Len(b) + 1) - 1 = Len(a) + 1 /\ Len(b) = Len(a) + 1 /\ (Len(a) + 1) - 1 = Len(a) BY <1>1
      <3>6. ASSUME NEW j \in 1..(Len(b)+1)-1, b[j] = Flow("off")
            PROVE  \E k \in j+1..(Len(b)+1)-1 : b[k] = Flow("on")
        <4>1. j \in 1..Len(a) BY <1>1, <3>4, <3>5, <3>6
        <4>2. PICK k \in j+1..Len(a) : b[k] = Flow("on") BY <3>3, <3>5, <3>6, <4>1 DEF Heard
        <4> QED BY <1>1, <4>1, <4>2
      <3>7. ASSUME f = "off" PROVE \E k \in 1..(Len(b)+1)-1 : b[k] = Flow("on")
        <4>1. PICK k \in 1..Len(a) : b[k] = Flow("on") BY <3>3, <3>5, <3>7 DEF Heard
        <4> QED BY <1>1, <4>1
      <3> QED BY <3>6, <3>7 DEF Heard
    <2> QED BY <2>1, <2>2
  <1> QED BY <1>3, <1>4 DEF AllHeard, b

LEMMA HeardTail ==
  ASSUME NEW a \in Seq(Events), a # <<>>, NEW f \in {"on", "off"}, NEW g, AllHeard(a, f, g)
  PROVE  /\ AllHeard(Tail(a), IF Head(a).type = "flow" THEN Head(a).value ELSE f, g)
         /\ Head(a).type = "data" => f = "on"
  <1> DEFINE b == Tail(a)
             v == IF Head(a).type = "flow" THEN Head(a).value ELSE f
  <1>1. /\ Len(b) = Len(a) - 1 /\ Len(a) \in Nat /\ Len(b) \in Nat
        /\ \A i \in 1..Len(b) : b[i] = a[i+1]
        /\ Head(a) = a[1] /\ Head(a) \in Events
    <2>1. Len(a) \in Nat /\ Len(a) # 0 /\ Head(a) = a[1] /\ Head(a) \in Events OBVIOUS
    <2>2. b \in Seq(Events) /\ Len(b) = Len(a) - 1 /\ \A i \in 1..Len(a)-1 : b[i] = a[i+1] OBVIOUS
    <2> HIDE DEF b
    <2> QED BY <2>1, <2>2
  <1>2. v = "off" => (a[1] = Flow("off") \/ (f = "off" /\ a[1] # Flow("on"))) BY <1>1, EventTypes
  <1> HIDE DEF b, v
  <1>3. ASSUME NEW i \in 1..Len(b)+1, Heard(a, f, i + 1) PROVE Heard(b, v, i)
    <2>0. (i + 1) - 1 = i BY <1>1
    <2>1. ASSUME NEW j \in 1..i-1, b[j] = Flow("off") PROVE \E k \in j+1..i-1 : b[k] = Flow("on")
      <3>1. a[j+1] = Flow("off") /\ j + 1 \in 1..i BY <1>1, <2>1
      <3>2. PICK k \in (j+1)+1..i : a[k] = Flow("on") BY <1>3, <2>0, <3>1 DEF Heard
      <3>3. k - 1 \in j+1..i-1 /\ b[k-1] = a[k] BY <1>1, <2>1, <3>2
      <3> QED BY <3>2, <3>3
    <2>2. ASSUME v = "off" PROVE \E k \in 1..i-1 : b[k] = Flow("on")
      <3>1. \E k \in 2..i : a[k] = Flow("on")
        <4>1. CASE a[1] = Flow("off")
          <5>1. 1 \in 1..i /\ 1 + 1 = 2 BY <1>1
          <5> QED BY <1>3, <2>0, <4>1, <5>1 DEF Heard
        <4>2. CASE f = "off" /\ a[1] # Flow("on")
          <5>1. PICK k \in 1..i : a[k] = Flow("on") BY <1>3, <2>0, <4>2 DEF Heard
          <5>2. k \in 2..i BY <1>1, <4>2, <5>1
          <5> QED BY <5>1, <5>2
        <4> QED BY <1>2, <2>2, <4>1, <4>2
      <3>2. PICK k \in 2..i : a[k] = Flow("on") BY <3>1
      <3>3. k - 1 \in 1..i-1 /\ b[k-1] = a[k] BY <1>1, <3>2
      <3> QED BY <3>2, <3>3
    <2> QED BY <2>1, <2>2 DEF Heard
  <1>4. ASSUME NEW i \in 1..Len(b), b[i].type = "data" PROVE Heard(b, v, i)
    <2>1. i + 1 \in 1..Len(a) /\ a[i+1].type = "data" BY <1>1, <1>4
    <2>2. Heard(a, f, i + 1) BY <2>1 DEF AllHeard
    <2> QED BY <1>1, <1>3, <2>2
  <1>5. ASSUME g = "on" PROVE Heard(b, v, Len(b) + 1)
    <2>1. Heard(a, f, Len(a) + 1) /\ Len(a) = Len(b) + 1 BY <1>1, <1>5 DEF AllHeard
    <2> QED BY <1>1, <1>3, <2>1
  <1>6. ASSUME Head(a).type = "data" PROVE f = "on"
    <2>1. 1 \in 1..Len(a) BY <1>1
    <2>2. Heard(a, f, 1) BY <1>1, <1>6, <2>1 DEF AllHeard
    <2> QED BY <2>2 DEF Heard
  <1> QED BY <1>4, <1>5, <1>6 DEF AllHeard, b, v

LEMMA EnabledAppend ==
  ASSUME NEW a \in Seq(Events), NEW c, NEW open \in BOOLEAN, NEW e \in Events,
         AllEnabled(a, c, open), e.type \in {"flow", "data"} => open
  PROVE  AllEnabled(Append(a, e), c, open \/ e = Ccc("flow"))
  <1> DEFINE b == Append(a, e)
  <1>1. /\ Len(b) = Len(a) + 1 /\ Len(a) \in Nat /\ b[Len(a)+1] = e
        /\ \A i \in 1..Len(a) : b[i] = a[i]
    BY AppendProperties
  <1> HIDE DEF b
  <1>2. ASSUME NEW i \in 1..Len(a)+1, Enabled(a, c, i) PROVE Enabled(b, c, i) /\ Enabled(b, c, Len(b) + 1)
    <2>1. \A k \in 1..i-1 : b[k] = a[k] /\ k \in 1..(Len(b)+1)-1 BY <1>1
    <2> QED BY <1>2, <2>1 DEF Enabled
  <1>3. ASSUME NEW i \in 1..Len(b), b[i].type \in {"flow", "data"} PROVE Enabled(b, c, i)
    <2>1. CASE i \in 1..Len(a)
      <3>1. Enabled(a, c, i) BY <1>1, <1>3, <2>1 DEF AllEnabled
      <3> QED BY <1>1, <1>2, <2>1, <3>1
    <2>2. CASE i = Len(a) + 1
      <3>1. Enabled(a, c, Len(a) + 1) BY <1>1, <1>3, <2>2 DEF AllEnabled
      <3> QED BY <1>1, <1>2, <2>2, <3>1
    <2> QED BY <1>1, <2>1, <2>2
  <1>4. ASSUME open PROVE Enabled(b, c, Len(b) + 1)
    <2>1. Enabled(a, c, Len(a) + 1) BY <1>4 DEF AllEnabled
    <2> QED BY <1>1, <1>2, <2>1
  <1>5. ASSUME e = Ccc("flow") PROVE Enabled(b, c, Len(b) + 1)
    <2>1. Len(b) \in 1..(Len(b)+1)-1 /\ b[Len(b)] = Ccc("flow") BY <1>1, <1>5
    <2> QED BY <2>1 DEF Enabled
  <1> QED BY <1>3, <1>4, <1>5 DEF AllEnabled, b

LEMMA EnabledTail ==
  ASSUME NEW a \in Seq(Events), a # <<>>, NEW c, NEW open, AllEnabled(a, c, open)
  PROVE  /\ Head(a) # Ccc("flow") => AllEnabled(Tail(a), c, open)
         /\ \A d : c \subseteq d /\ "flow" \in d => AllEnabled(Tail(a), d, open)
         /\ Head(a).type \in {"flow", "data"} => "flow" \in c
  <1> DEFINE b == Tail(a)
  <1>1. /\ Len(b) = Len(a) - 1 /\ Len(a) \in Nat /\ Len(b) \in Nat
        /\ \A i \in 1..Len(b) : b[i] = a[i+1]
        /\ Head(a) = a[1]
    <2>1. Len(a) \in Nat /\ Len(a) # 0 /\ Head(a) = a[1] OBVIOUS
    <2>2. b \in Seq(Events) /\ Len(b) = Len(a) - 1 /\ \A i \in 1..Len(a)-1 : b[i] = a[i+1] OBVIOUS
    <2> HIDE DEF b
    <2> QED BY <2>1, <2>2
  <1> HIDE DEF b
  <1>2. ASSUME Head(a) # Ccc("flow"), NEW i \in 1..Len(b)+1, Enabled(a, c, i + 1)
        PROVE  Enabled(b, c, i)
    <2>1. CASE "flow" \in c BY <2>1 DEF Enabled
    <2>2. CASE "flow" \notin c
      <3>1. PICK j \in 1..(i+1)-1 : a[j] = Ccc("flow") BY <1>2, <2>2 DEF Enabled
      <3>2. j # 1 BY <1>1, <1>2, <3>1
      <3>3. j - 1 \in 1..i-1 /\ b[j-1] = a[j] BY <1>1, <3>1, <3>2
      <3> QED BY <3>1, <3>3 DEF Enabled
    <2> QED BY <2>1, <2>2
  <1>3. ASSUME Head(a) # Ccc("flow") PROVE AllEnabled(b, c, open)
    <2>1. ASSUME NEW i \in 1..Len(b), b[i].type \in {"flow", "data"} PROVE Enabled(b, c, i)
      <3>1. i + 1 \in 1..Len(a) /\ a[i+1].type \in {"flow", "data"} BY <1>1, <2>1
      <3>2. Enabled(a, c, i + 1) BY <3>1 DEF AllEnabled
      <3> QED BY <1>1, <1>2, <1>3, <3>2
    <2>2. ASSUME open PROVE Enabled(b, c, Len(b) + 1)
      <3>1. Enabled(a, c, Len(a) + 1) /\ Len(a) = Len(b) + 1 BY <1>1, <2>2 DEF AllEnabled
      <3> QED BY <1>1, <1>2, <1>3, <3>1
    <2> QED BY <2>1, <2>2 DEF AllEnabled
  <1>4. \A d : c \subseteq d /\ "flow" \in d => AllEnabled(b, d, open) BY DEF AllEnabled, Enabled
  <1>5. ASSUME Head(a).type \in {"flow", "data"} PROVE "flow" \in c
    <2>1. 1 \in 1..Len(a) BY <1>1
    <2>2. Enabled(a, c, 1) BY <1>1, <1>5, <2>1 DEF AllEnabled
    <2> QED BY <2>2 DEF Enabled
  <1> QED BY <1>3, <1>4, <1>5 DEF b

-----------------------------------------------------------------------------
(* The inductive invariant.                                                *)

NodesFine == node \in [Sides -> Nodes] /\ \A s \in Sides : Fine(s, node[s])
AirFits == AllAttached(air, node, link)
RestOK ==
  /\ turn \in [Sides -> BOOLEAN] /\ in \in [Sides -> Number] /\ out \in [Sides -> Number]
  /\ link \in {"up", "down"} /\ scenario \in Scenarios
  /\ fails \in 0..scenario.fails /\ losses \in 0..scenario.losses
Firm == scenario.losses = 0 /\ scenario.fails = 0
FirmOK == Firm => FirmState(air, node)

IInv == NodesFine /\ AirFits /\ RestOK /\ FirmOK

\* While no connection is lost and no call refused, a task has something to store or to write
\* only while its queues are there, and so uses none that is no more.
Whole(n) == ~n.fault /\ (n.tx = None => n.data = None /\ n.held = None)
Kept == Firm => \A s \in Sides : Whole(node[s])

LEMMA OneSide ==
  ASSUME NodesFine, NEW s \in Sides, NEW m, Fine(s, m), node' = [node EXCEPT ![s] = m]
  PROVE  /\ node'[s] = m /\ node'[Other(s)] = node[Other(s)]
         /\ node' \in [Sides -> Nodes] /\ (\A t \in Sides : Fine(t, node'[t])) /\ NodesFine'
  <1>1. m \in Nodes BY DEF Fine
  <1>2. node'[s] = m /\ node'[Other(s)] = node[Other(s)] /\ node' \in [Sides -> Nodes]
    BY <1>1, SideOf DEF NodesFine
  <1>3. \A t \in Sides : Fine(t, node'[t])
    BY SideOf DEF NodesFine
  <1>4. NodesFine' BY <1>2, <1>3 DEF NodesFine
  <1> QED BY <1>2, <1>3, <1>4

\* A step that changes nothing the other side could notice.
Alike(s, m) ==
  /\ m.conn = node[s].conn /\ m.closing = node[s].closing /\ m.flow = node[s].flow
  /\ m.ccc = node[s].ccc /\ (m.tx = None <=> node[s].tx = None)
  /\ m.rx # None /\ m.rx.hwm = 1 => node[s].rx # None /\ node[s].rx.hwm = 1

LEMMA Unnoticed ==
  ASSUME IInv, NEW s \in Sides, NEW m, Fine(s, m), node' = [node EXCEPT ![s] = m], Alike(s, m),
         UNCHANGED <<air, link, scenario>>
  PROVE  NodesFine' /\ AirFits' /\ FirmOK'
  <1>1. node'[s] = m /\ node'[Other(s)] = node[Other(s)] /\ NodesFine' BY OneSide DEF IInv
  <1>2. \A t \in Sides : /\ node'[t].conn = node[t].conn /\ node'[t].closing = node[t].closing
                         /\ node'[t].flow = node[t].flow /\ node'[t].ccc = node[t].ccc
                         /\ node'[t].tx = None <=> node[t].tx = None
                         /\ node'[t].rx # None /\ node'[t].rx.hwm = 1 =>
                              node[t].rx # None /\ node[t].rx.hwm = 1
    BY <1>1, SideOf DEF Alike
  <1>3. AirFits'
    <2>1. AllAttached(air, node', link) BY <1>2, AttachedAlike DEF IInv, AirFits
    <2> QED BY <2>1 DEF AirFits
  <1>4. FirmOK'
    <2>1. SUFFICES ASSUME Firm PROVE FirmState(air, node') BY DEF FirmOK, Firm
    <2>2. FirmState(air, node) BY <2>1 DEF IInv, FirmOK
    <2>3. "P" \in Sides /\ "C" \in Sides BY DEF Sides
    <2> QED BY <1>2, <2>2, <2>3 DEF FirmState
  <1> QED BY <1>1, <1>3, <1>4

LEMMA RxWakeStep == ASSUME IInv, NEW s \in Sides, RxWake(s) PROVE IInv'
  <1> DEFINE n == node[s]
             stores == "read" \in n.rxt
             q == TQ!Write(n.tx, n.data)
             ready == n.ready /\ ~(stores /\ n.tx # None /\ TQ!AlmostFull(q))
             t == IF stores /\ n.tx # None THEN TQ!CheckedFull(q) ELSE n.tx
             m == [n EXCEPT !.tx = t,
                            !.fault = @ \/ (stores /\ n.tx = None),
                            !.data = IF stores THEN None ELSE @,
                            !.ready = ready,
                            !.ble = @ \/ stores,
                            !.rxt = IF stores THEN {"start"} ELSE {},
                            !.reading = "start" \in n.rxt /\ n.conn /\ ready]
  <1>1. Fine(s, n) /\ ~n.reading BY DEF RxWake, IInv, NodesFine
  <1>2. Fine(s, m) BY <1>1, FineWake
  <1>3. node' = [node EXCEPT ![s] = m] BY DEF RxWake
  <1>4. t = None <=> n.tx = None
    <2>1. ASSUME stores, n.tx # None PROVE TQ!CheckedFull(q) # None
      <3>1. n.tx \in TQ!Queues(Number) /\ n.data \in Number
        BY <1>1, <2>1, FieldTypes DEF Fine, Sound
      <3>2. q \in TQ!Queues(Number) BY <3>1, QueueOps
      <3> HIDE DEF q
      <3>3. TQ!CheckedFull(q) \in TQ!Queues(Number) BY <3>1, <3>2, QueueOps
      <3> QED BY <3>3, QueueFields
    <2> QED BY <2>1
  <1>5. Alike(s, m)
    <2>1. n \in Nodes BY <1>1 DEF Fine
    <2> HIDE DEF q, t, ready
    <2> QED BY <1>4, <2>1 DEF Alike, Nodes
  <1>6. UNCHANGED <<air, link, in, out, fails, turn, losses, scenario>> BY DEF RxWake
  <1> HIDE DEF m
  <1>7. NodesFine' /\ AirFits' /\ FirmOK' BY <1>2, <1>3, <1>5, <1>6, Unnoticed
  <1> QED BY <1>6, <1>7 DEF IInv, RestOK

LEMMA NextNumber == \A k \in Number : Following(k) \in Number
  BY LinkAssumption DEF Number, Following

LEMMA RxReadStep == ASSUME IInv, NEW s \in Sides, RxRead(s) PROVE IInv'
  <1> DEFINE n == node[s]
             m == [n EXCEPT !.reading = FALSE, !.data = in[s], !.rxt = @ \cup {"read"}]
  <1>1. Fine(s, n) /\ n.reading /\ in[s] \in Number BY DEF RxRead, IInv, NodesFine, RestOK
  <1>2. Fine(s, m) BY <1>1, FineRead
  <1>3. node' = [node EXCEPT ![s] = m] BY DEF RxRead
  <1>4. Alike(s, m) BY <1>1 DEF Alike, Nodes, Fine
  <1>5. UNCHANGED <<air, link, out, fails, turn, losses, scenario>> BY DEF RxRead
  <1>6. in' \in [Sides -> Number] BY NextNumber DEF RxRead, IInv, RestOK
  <1> HIDE DEF m
  <1>7. NodesFine' /\ AirFits' /\ FirmOK' BY <1>2, <1>3, <1>4, <1>5, Unnoticed
  <1> QED BY <1>5, <1>6, <1>7 DEF IInv, RestOK

LEMMA RxTimeoutStep == ASSUME IInv, NEW s \in Sides, RxTimeout(s) PROVE IInv'
  <1> DEFINE n == node[s]
             m == [n EXCEPT !.reading = FALSE, !.rxt = @ \cup {"start"}]
  <1>1. Fine(s, n) /\ n.reading BY DEF RxTimeout, IInv, NodesFine
  <1>2. Fine(s, m)
    <2>1. 0 \in Number BY LinkAssumption DEF Number
    <2> QED BY <1>1, <2>1, FineRead
  <1>3. node' = [node EXCEPT ![s] = m] BY DEF RxTimeout
  <1>4. Alike(s, m) BY <1>1 DEF Alike, Nodes, Fine
  <1>5. UNCHANGED <<air, link, in, out, fails, turn, losses, scenario>> BY DEF RxTimeout
  <1> HIDE DEF m
  <1>7. NodesFine' /\ AirFits' /\ FirmOK' BY <1>2, <1>3, <1>4, <1>5, Unnoticed
  <1> QED BY <1>5, <1>7 DEF IInv, RestOK

LEMMA TxTakeStep == ASSUME IInv, NEW s \in Sides, TxTake(s) PROVE IInv'
  <1> DEFINE n == node[s]
             h == Head(n.rx.items)
             q == RQ!Pop(n.rx)
             some == [n EXCEPT !.txt = FALSE, !.held = h, !.rx = q]
             none == [n EXCEPT !.txt = FALSE]
             m == IF Items(n.rx) = <<>> THEN none ELSE some
  <1>1. Fine(s, n) /\ n \in Nodes BY DEF IInv, NodesFine, Fine
  <1>2. Fine(s, m) BY <1>1, FineTake
  <1>3. node' = [node EXCEPT ![s] = m] BY DEF TxTake
  <1>4. Alike(s, m)
    <2>1. Alike(s, none) BY <1>1 DEF Alike, Nodes
    <2>2. ASSUME Items(n.rx) # <<>> PROVE Alike(s, some)
      <3>1. n.rx # None /\ n.rx \in TQ!Queues(Number) BY <1>1, <2>2, FieldTypes DEF Items
      <3>2. q.hwm = n.rx.hwm
        <4>1. 0 \in Number BY LinkAssumption DEF Number
        <4> QED BY <3>1, <4>1, QueueOps
      <3> HIDE DEF h, q
      <3> QED BY <1>1, <3>1, <3>2 DEF Alike, Nodes
    <2> HIDE DEF some, none
    <2> QED BY <2>1, <2>2
  <1>5. UNCHANGED <<air, link, in, out, fails, turn, losses, scenario>> BY DEF TxTake
  <1> HIDE DEF m
  <1>7. NodesFine' /\ AirFits' /\ FirmOK' BY <1>2, <1>3, <1>4, <1>5, Unnoticed
  <1> QED BY <1>5, <1>7 DEF IInv, RestOK

LEMMA QueueFullStep == ASSUME IInv, NEW s \in Sides, QueueFull(s) PROVE IInv'
  <1> DEFINE n == node[s]
             m == [n EXCEPT !.halt = TRUE]
  <1>1. Fine(s, n) /\ n \in Nodes BY DEF IInv, NodesFine, Fine
  <1>2. Fine(s, m) BY <1>1, FineSmall
  <1>3. node' = [node EXCEPT ![s] = m] BY DEF QueueFull
  <1>4. Alike(s, m) BY <1>1 DEF Alike, Nodes
  <1>5. UNCHANGED <<air, link, in, out, fails, turn, losses, scenario>> BY DEF QueueFull
  <1> HIDE DEF m
  <1>7. NodesFine' /\ AirFits' /\ FirmOK' BY <1>2, <1>3, <1>4, <1>5, Unnoticed
  <1> QED BY <1>5, <1>7 DEF IInv, RestOK

LEMMA TxDoneStep == ASSUME IInv, NEW s \in Sides, TxDone(s) PROVE IInv'
  <1> DEFINE n == node[s]
             q == TQ!Pop(n.tx)
             again == TQ!AlmostEmpty(q)
             b == n.ble \/ TQ!ItemCount(q) > 0
             t == TQ!CheckedEmpty(q)
             m == [n EXCEPT !.inprog = FALSE, !.sent = FALSE, !.tx = t, !.ready = @ \/ again,
                            !.rxt = IF again THEN @ \cup {"start"} ELSE @, !.ble = b]
  <1>1. Fine(s, n) /\ n \in Nodes /\ n.sent BY DEF IInv, NodesFine, Fine, TxDone
  <1>2. Fine(s, m)
    <2>1. b \in BOOLEAN BY <1>1, FieldTypes
    <2> HIDE DEF b
    <2> QED BY <1>1, <2>1, FineDone
  <1>3. node' = [node EXCEPT ![s] = m] BY DEF TxDone
  <1>4. Alike(s, m)
    <2>1. n.tx # None /\ n.tx \in TQ!Queues(Number) BY <1>1, FieldTypes DEF Fine, Sound
    <2>2. t \in TQ!Queues(Number)
      <3>0. 0 \in Number BY LinkAssumption DEF Number
      <3>1. q \in TQ!Queues(Number) BY <2>1, <3>0, QueueOps
      <3> HIDE DEF q
      <3> QED BY <3>0, <3>1, QueueOps
    <2>3. t # None BY <2>2, QueueFields
    <2> HIDE DEF q, t, again, b
    <2> QED BY <1>1, <2>1, <2>3 DEF Alike, Nodes
  <1>5. UNCHANGED <<air, link, in, out, fails, losses, scenario>> BY DEF TxDone
  <1>6. turn' \in [Sides -> BOOLEAN] BY DEF TxDone, IInv, RestOK
  <1> HIDE DEF m
  <1>7. NodesFine' /\ AirFits' /\ FirmOK' BY <1>2, <1>3, <1>4, <1>5, Unnoticed
  <1> QED BY <1>5, <1>6, <1>7 DEF IInv, RestOK

LEMMA HeardLess ==
  ASSUME NEW a, NEW f, NEW g, AllHeard(a, f, g)
  PROVE  AllHeard(a, f, "off")
  BY DEF AllHeard

LEMMA NoEndTail ==
  ASSUME NEW a \in Seq(Events), a # <<>>, NoEnd(a)
  PROVE  NoEnd(Tail(a)) /\ Head(a) # Gap("end")
  <1> DEFINE b == Tail(a)
  <1>1. Len(a) \in Nat /\ Len(a) # 0 /\ Head(a) = a[1] OBVIOUS
  <1>2. b \in Seq(Events) /\ Len(b) = Len(a) - 1 /\ \A i \in 1..Len(a)-1 : b[i] = a[i+1] OBVIOUS
  <1> HIDE DEF b
  <1>3. NoEnd(b) /\ Head(a) # Gap("end") BY <1>1, <1>2 DEF NoEnd
  <1> QED BY <1>3 DEF b

LEMMA NoEndAppend ==
  ASSUME NEW a \in Seq(Events), NEW e \in Events, e.type # "gap", NoEnd(a)
  PROVE  NoEnd(Append(a, e))
  <1> DEFINE b == Append(a, e)
  <1>1. Len(b) = Len(a) + 1 /\ Len(a) \in Nat /\ b[Len(a)+1] = e /\ \A i \in 1..Len(a) : b[i] = a[i]
    BY AppendProperties
  <1> HIDE DEF b
  <1>2. e # Gap("end") BY EventTypes
  <1>3. \A i \in 1..Len(b) : i \in 1..Len(a) \/ i = Len(a) + 1 BY <1>1
  <1>4. NoEnd(b) BY <1>1, <1>2, <1>3 DEF NoEnd
  <1> QED BY <1>4 DEF b

\* Without trouble, a side that is connected has its link up.
LEMMA FirmUp ==
  ASSUME IInv, Firm, NEW s \in Sides
  PROVE  /\ ~node[s].closing /\ NoEnd(air[s]) /\ ~Over(air[s])
         /\ node[s].conn => link = "up"
         /\ node[s].tx # None => node[s].conn
  <1>1. FirmState(air, node) BY DEF IInv, FirmOK
  <1>2. \A t \in Sides : ~node[t].closing /\ NoEnd(air[t]) /\ ~Over(air[t])
    <2>1. ASSUME NEW t \in Sides PROVE ~node[t].closing /\ NoEnd(air[t]) /\ ~Over(air[t])
      <3>1. ~node[t].closing /\ NoEnd(air[t]) BY <1>1 DEF FirmState
      <3>2. air[t] \in Seq(Events) BY DEF IInv, AirFits, AllAttached
      <3> QED BY <3>1, <3>2 DEF Over, NoEnd
    <2> QED BY <2>1
  <1>3. Attached(air[Other(s)], node[s], link) /\ link \in {"up", "down"}
    BY DEF IInv, AirFits, AllAttached, RestOK
  <1>4. ~Over(air[Other(s)]) BY <1>2, SideOf
  <1>5. node[s].conn => link = "up" BY <1>3, <1>4 DEF Attached
  <1>6. node[s].tx # None => node[s].conn BY <1>2 DEF IInv, NodesFine, Fine, Sound
  <1> QED BY <1>2, <1>5, <1>6

Packets == {<<>>} \cup {<<e>> : e \in {x \in Events : x.type # "gap"}}

\* A call of the stack, whether it fails or not.
LEMMA CallFits ==
  ASSUME IInv, NEW s \in Sides, NEW n, NEW r, AllAttached(r, n, link), NEW p \in Packets,
         Call(s, r, p)
  PROVE  /\ AllAttached(air', n, link) /\ fails' \in 0..scenario.fails
         /\ Firm => air' = Handed(s, r, p)
         /\ air' = r \/ air' = Handed(s, r, p)
         /\ p = <<>> => air' = r
  <1>1. r \in [Sides -> Seq(Events)] /\ link \in {"up", "down"} BY DEF AllAttached, IInv, RestOK
  <1>2. AllAttached(Handed(s, r, p), n, link)
    <2>1. CASE p = <<>>
      <3>1. r[s] \o <<>> = r[s] BY <1>1
      <3>2. [r EXCEPT ![s] = r[s]] = r BY <1>1
      <3>3. Handed(s, r, p) = r BY <2>1, <3>1, <3>2 DEF Handed
      <3> QED BY <3>3
    <2>2. CASE p # <<>>
      <3>1. PICK e \in Events : e.type # "gap" /\ p = <<e>> BY <2>2 DEF Packets
      <3>2. AllAttached(Handed(s, r, <<e>>), n, link) BY <1>1, <3>1, HandedAttached
      <3> QED BY <3>1, <3>2
    <2> QED BY <2>1, <2>2
  <1>3. p = <<>> => Handed(s, r, p) = r
    <2>1. r[s] \o <<>> = r[s] BY <1>1
    <2>2. [r EXCEPT ![s] = r[s]] = r BY <1>1
    <2> QED BY <2>1, <2>2 DEF Handed
  <1>4. scenario.fails \in Nat /\ fails \in 0..scenario.fails
    BY LinkAssumption DEF IInv, RestOK, ScenarioType
  <1>5. CASE air' = Handed(s, r, p) /\ UNCHANGED fails BY <1>2, <1>3, <1>4, <1>5
  <1>6. CASE p # <<>> /\ fails < scenario.fails /\ fails' = fails + 1 /\ air' = r
    BY <1>4, <1>6 DEF Firm
  <1> QED BY <1>5, <1>6 DEF Call

-----------------------------------------------------------------------------
(* Every step keeps it: the BLE task.                                      *)

LEMMA InHand ==
  ASSUME IInv, NEW s \in Sides, NEW type, Handles(s, type)
  PROVE  /\ Incoming(s) = air[Other(s)] /\ Incoming(s) \in Seq(Events) /\ Incoming(s) # <<>>
         /\ Head(Incoming(s)) \in Events /\ Head(Incoming(s)).type = type
         /\ Attached(Incoming(s), node[s], link) /\ link \in {"up", "down"}
         /\ Fine(s, node[s]) /\ node[s] \in Nodes /\ ~node[s].closing
         /\ Taken(s)[Other(s)] = Tail(Incoming(s)) /\ Taken(s)[s] = air[s]
         /\ Taken(s) \in [Sides -> Seq(Events)]
         /\ type # "gap" => AllAttached(Taken(s), node, link)
  <1>1. /\ air \in [Sides -> Seq(Events)] /\ Attached(air[Other(s)], node[s], link)
        /\ Incoming(s) = air[Other(s)] /\ Fine(s, node[s]) /\ link \in {"up", "down"}
    BY DEF IInv, AirFits, AllAttached, NodesFine, Incoming, RestOK
  <1>2. Incoming(s) \in Seq(Events) /\ Incoming(s) # <<>> /\ ~node[s].closing
    BY <1>1, SideOf DEF Handles
  <1>3. Head(Incoming(s)) \in Events /\ Head(Incoming(s)).type = type
        /\ Tail(Incoming(s)) \in Seq(Events)
    BY <1>2, HeadTailProperties DEF Handles
  <1>4. Taken(s)[Other(s)] = Tail(Incoming(s)) /\ Taken(s)[s] = air[s]
        /\ Taken(s) \in [Sides -> Seq(Events)]
    BY <1>1, <1>3, SideOf DEF Taken
  <1>5. type # "gap" => AllAttached(Taken(s), node, link)
    BY <1>1, <1>2, <1>3, TakenAttached DEF IInv, AirFits
  <1>6. node[s] \in Nodes BY <1>1 DEF Fine
  <1> QED BY <1>1, <1>2, <1>3, <1>4, <1>5, <1>6

\* Without trouble, C drops no data.
LEMMA NoneIgnored ==
  ASSUME IInv, Firm, NEW s \in Sides, IgnoreData(s)
  PROVE  FALSE
  <1>1. Handles(s, "data") /\ s = "C" /\ node["C"].flow # "on"
    BY DEF IgnoreData, Accepts, Sides
  <1>2. /\ air["P"] \in Seq(Events) /\ air["P"] # <<>> /\ Head(air["P"]).type = "data"
        /\ node["C"].flow \in {"on", "off"}
    BY <1>1, InHand, FieldTypes DEF Other
  <1>3. AllHeard(air["P"], node["C"].flow, node["P"].flow) BY DEF IInv, FirmOK, FirmState
  <1> QED BY <1>1, <1>2, <1>3, HeardTail

LEMMA IgnoreDataStep == ASSUME IInv, NEW s \in Sides, IgnoreData(s) PROVE IInv'
  <1>1. Handles(s, "data") /\ air' = Taken(s) /\ turn' = [turn EXCEPT ![s] = TRUE]
        /\ UNCHANGED <<node, link, in, out, fails, losses, scenario>>
    BY DEF IgnoreData
  <1>2. AllAttached(Taken(s), node, link) BY <1>1, InHand
  <1>3. AirFits' BY <1>1, <1>2 DEF AirFits
  <1>4. NodesFine' BY <1>1 DEF IInv, NodesFine
  <1>5. FirmOK' BY <1>1, NoneIgnored DEF FirmOK, Firm
  <1>6. RestOK' BY <1>1 DEF IInv, RestOK
  <1> QED BY <1>3, <1>4, <1>5, <1>6 DEF IInv

\* The values of flow control that a side sends.
LEMMA FlowPackets ==
  ASSUME NEW s \in Sides, NEW n, NEW v \in {"on", "off"}
  PROVE  /\ Flow(v) \in Events /\ Flow(v).type = "flow" /\ Flow(v).value = v
         /\ FlowSent(s, n, v) \in Packets
         /\ FlowSent(s, n, v) = <<>> \/ FlowSent(s, n, v) = <<Flow(v)>>
         /\ FlowSent(s, n, v) = <<>> => (s = "P" /\ "flow" \notin n.ccc) \/ (s = "C" /\ ~n.conn)
  <1>1. Flow(v) \in Events /\ Flow(v).type = "flow" /\ Flow(v).value = v BY EventTypes
  <1>2. FlowSent(s, n, v) = <<>> \/ FlowSent(s, n, v) = <<Flow(v)>> BY DEF FlowSent, PeriphNotified
  <1>3. FlowSent(s, n, v) = <<>> => (s = "P" /\ "flow" \notin n.ccc) \/ (s = "C" /\ ~n.conn)
    <2>1. <<Flow(v)>> # <<>> OBVIOUS
    <2>2. s = "P" \/ s = "C" BY DEF Sides
    <2>3. s = "C" /\ n.conn => FlowSent(s, n, v) = <<Flow(v)>> BY DEF FlowSent
    <2>4. s = "P" /\ "flow" \in n.ccc => FlowSent(s, n, v) = <<Flow(v)>>
      BY DEF FlowSent, PeriphNotified
    <2> QED BY <2>1, <2>2, <2>3, <2>4
  <1>4. <<>> \in Packets /\ <<Flow(v)>> \in Packets BY <1>1 DEF Packets
  <1> QED BY <1>1, <1>2, <1>3, <1>4

LEMMA FlowFields ==
  ASSUME NEW s \in Sides, NEW n \in Nodes, NEW v \in {"on", "off"}
  PROVE  LET m == FlowSet(s, n, v)
         IN  /\ m.conn = n.conn /\ m.closing = n.closing /\ m.ccc = n.ccc /\ m.tx = n.tx
             /\ m.rx = n.rx /\ m.held = n.held /\ m.data = n.data /\ m.sent = n.sent
             /\ s = "C" => m.flow = n.flow
             /\ s = "P" => m.flow = IF n.conn THEN v ELSE n.flow
  <1> DEFINE m == PeriphFlow(n, v)
  <1>1. /\ m.conn = n.conn /\ m.closing = n.closing /\ m.ccc = n.ccc /\ m.tx = n.tx
        /\ m.rx = n.rx /\ m.held = n.held /\ m.data = n.data /\ m.sent = n.sent
        /\ m.flow = IF n.conn THEN v ELSE n.flow
    BY DEF PeriphFlow, Nodes
  <1> HIDE DEF m
  <1>2. s = "P" \/ s = "C" BY DEF Sides
  <1> QED BY <1>1, <1>2 DEF FlowSet, m

\* A side sends a value of flow control, or does not; m is what becomes of its node.
LEMMA FirmFlow ==
  ASSUME NEW r \in [Sides -> Seq(Events)], NEW n \in [Sides -> Nodes], FirmState(r, n),
         NEW s \in Sides, NEW v \in {"on", "off"}, NEW m \in [Sides -> Nodes],
         m[Other(s)] = n[Other(s)],
         ~m[s].closing, m[s].conn = n[s].conn, m[s].ccc = n[s].ccc,
         m[s].tx = None <=> n[s].tx = None,
         s = "C" => m[s].flow = n[s].flow /\ n[s].tx # None,
         s = "P" => m[s].flow = (IF n[s].conn THEN v ELSE n[s].flow),
         s = "P" /\ m[s].rx # None /\ m[s].rx.hwm = 1 => "flow" \in n[s].ccc,
         s = "P" /\ v = "on" => "flow" \in n[s].ccc,
         n[s].conn => link = "up"
  PROVE  FirmState(Handed(s, r, FlowSent(s, n[s], v)), m)
  <1> DEFINE h == Handed(s, r, FlowSent(s, n[s], v))
  <1>1. Flow(v) \in Events /\ Flow(v).type = "flow" /\ Flow(v).value = v /\ Flow(v) # Ccc("flow")
    BY EventTypes
  <1>2. h = r \/ (h \in [Sides -> Seq(Events)] /\ h[s] = Append(r[s], Flow(v)) /\ h[Other(s)] = r[Other(s)])
    <2>1. CASE FlowSent(s, n[s], v) = <<>> BY <1>1, <2>1, HandedOne
    <2>2. CASE FlowSent(s, n[s], v) = <<Flow(v)>>
      <3>1. /\ link = "up" => Handed(s, r, <<Flow(v)>>)[s] = Append(r[s], Flow(v))
            /\ link # "up" => Handed(s, r, <<Flow(v)>>) = r
            /\ Handed(s, r, <<Flow(v)>>)[Other(s)] = r[Other(s)]
            /\ Handed(s, r, <<Flow(v)>>) \in [Sides -> Seq(Events)]
        BY <1>1, HandedOne
      <3> QED BY <2>2, <3>1
    <2> QED BY <2>1, <2>2, FlowPackets
  <1>3. s = "P" /\ n["P"].conn /\ v = "on" => h["P"] = Append(r["P"], Flow("on"))
    <2>1. ASSUME s = "P", n["P"].conn, v = "on" PROVE h["P"] = Append(r["P"], Flow("on"))
      <3>1. link = "up" /\ FlowSent(s, n[s], v) = <<Flow("on")>> BY <2>1, FlowPackets
      <3> QED BY <1>1, <2>1, <3>1, HandedOne
    <2> QED BY <2>1
  <1> HIDE DEF h
  <1>4. /\ Other("P") = "C" /\ Other("C") = "P" /\ "P" \in Sides /\ "C" \in Sides
        /\ r["P"] \in Seq(Events) /\ r["C"] \in Seq(Events) /\ n["P"] \in Nodes /\ n["C"] \in Nodes
    BY DEF Sides, Other
  <1>5. /\ n["P"].flow \in {"on", "off"} /\ n["C"].flow \in {"on", "off"} /\ n["P"].conn \in BOOLEAN
    BY <1>4, FieldTypes
  <1>6. \A t \in Sides : ~m[t].closing /\ NoEnd(h[t])
    <2>1. \A t \in Sides : ~n[t].closing /\ NoEnd(r[t]) BY DEF FirmState
    <2>2. r[s] \in Seq(Events) OBVIOUS
    <2>3. NoEnd(Append(r[s], Flow(v))) BY <1>1, <2>1, <2>2, NoEndAppend
    <2>4. ~m[s].closing /\ NoEnd(h[s]) BY <1>2, <2>1, <2>3
    <2>5. ~m[Other(s)].closing /\ NoEnd(h[Other(s)])
      <3>1. Other(s) \in Sides BY SideOf
      <3>2. h[Other(s)] = r[Other(s)] BY <1>2
      <3> QED BY <2>1, <3>1, <3>2
    <2>6. \A t \in Sides : t = s \/ t = Other(s) BY SideOf
    <2> QED BY <2>4, <2>5, <2>6
  <1>7. CASE s = "P"
    <2>1. m["C"] = n["C"] /\ h["C"] = r["C"] BY <1>2, <1>4, <1>7
    <2>2. AllHeard(r["P"], n["C"].flow, n["P"].flow) BY DEF FirmState
    <2>3. n["P"].flow = "on" => n["P"].conn BY DEF FirmState
    <2>4. m["P"].flow = IF n["P"].conn THEN v ELSE "off" BY <1>5, <1>7, <2>3
    <2>5. AllHeard(h["P"], n["C"].flow, m["P"].flow)
      <3>1. AllHeard(r["P"], n["C"].flow, "off") BY <2>2, HeardLess
      <3>2. CASE h = r
        <4>1. m["P"].flow = "off"
          <5>1. ASSUME n["P"].conn, v = "on" PROVE FALSE
            <6>1. Len(Append(r["P"], Flow("on"))) = Len(r["P"]) + 1 /\ Len(r["P"]) \in Nat BY <1>4
            <6> QED BY <1>3, <1>7, <3>2, <5>1, <6>1
          <5> QED BY <2>4, <5>1
        <4> QED BY <3>1, <3>2, <4>1
      <3>3. CASE h["P"] = Append(r["P"], Flow(v))
        <4>1. AllHeard(Append(r["P"], Flow(v)), n["C"].flow, v) BY <1>1, <1>4, <1>5, <3>1, HeardAppend
        <4>2. AllHeard(Append(r["P"], Flow(v)), n["C"].flow, "off") BY <4>1, HeardLess
        <4> QED BY <2>4, <3>3, <4>1, <4>2
      <3> QED BY <1>2, <1>7, <3>2, <3>3
    <2>6. m["P"].flow = "on" => m["P"].conn BY <1>7, <2>4
    <2>7. AllEnabled(h["C"], m["P"].ccc, m["C"].tx # None)
      BY <1>7, <2>1 DEF FirmState
    <2>8. m["P"].rx # None /\ m["P"].rx.hwm = 1 => "flow" \in m["P"].ccc BY <1>7
    <2> QED BY ONLY <1>6, <2>1, <2>5, <2>6, <2>7, <2>8 DEF FirmState, h
  <1>8. CASE s = "C"
    <2>1. m["P"] = n["P"] /\ h["P"] = r["P"] BY <1>2, <1>4, <1>8
    <2>2. AllEnabled(r["C"], n["P"].ccc, TRUE)
      BY <1>8 DEF FirmState
    <2>3. AllEnabled(h["C"], n["P"].ccc, TRUE)
      <3>1. TRUE \in BOOLEAN OBVIOUS
      <3>2. AllEnabled(Append(r["C"], Flow(v)), n["P"].ccc, TRUE \/ Flow(v) = Ccc("flow"))
        BY ONLY <1>1, <1>4, <2>2, <3>1, EnabledAppend
      <3>3. (TRUE \/ Flow(v) = Ccc("flow")) = TRUE OBVIOUS
      <3> QED BY <1>2, <1>8, <2>2, <3>2, <3>3
    <2>4. AllHeard(h["P"], m["C"].flow, m["P"].flow) BY <1>8, <2>1 DEF FirmState
    <2>5. AllEnabled(h["C"], m["P"].ccc, m["C"].tx # None)
      BY <1>8, <2>1, <2>3 DEF AllEnabled
    <2>6. /\ m["P"].rx # None /\ m["P"].rx.hwm = 1 => "flow" \in m["P"].ccc
          /\ m["P"].flow = "on" => m["P"].conn
      BY <2>1 DEF FirmState
    <2> QED BY ONLY <1>6, <2>4, <2>5, <2>6 DEF FirmState, h
  <1> QED BY <1>7, <1>8 DEF h, Sides

LEMMA FirmAlike ==
  ASSUME NEW r, NEW n, NEW m, FirmState(r, n),
         \A s \in Sides : /\ ~m[s].closing /\ m[s].flow = n[s].flow /\ m[s].ccc = n[s].ccc
                          /\ m[s].tx = None <=> n[s].tx = None
                          /\ n[s].conn => m[s].conn
                          /\ m[s].rx # None /\ m[s].rx.hwm = 1 =>
                               (n[s].rx # None /\ n[s].rx.hwm = 1) \/ "flow" \in m[s].ccc
  PROVE  FirmState(r, m)
  <1>1. "P" \in Sides /\ "C" \in Sides BY DEF Sides
  <1> QED BY <1>1 DEF FirmState

LEMMA TakenFirm ==
  ASSUME IInv, Firm, NEW s \in Sides, NEW type, Handles(s, type)
  PROVE  /\ type = "data" => FirmState(Taken(s), node)
         /\ type # "ccc" /\ s = "P" => FirmState(Taken(s), node)
         /\ type \in {"data", "flow"} /\ s = "P" => "flow" \in node["P"].ccc
         /\ type = "gap" => FirmState(Taken(s), node)
  <1> DEFINE a == Incoming(s)
             r == Taken(s)
  <1>1. /\ a = air[Other(s)] /\ a \in Seq(Events) /\ a # <<>> /\ Head(a) \in Events
        /\ Head(a).type = type /\ r[Other(s)] = Tail(a) /\ r[s] = air[s]
    BY InHand
  <1>2. /\ Other("P") = "C" /\ Other("C") = "P" /\ "P" \in Sides /\ "C" \in Sides
        /\ (s = "P" \/ s = "C")
    BY DEF Sides, Other
  <1>3. FirmState(air, node) BY DEF IInv, FirmOK
  <1>4. node["C"].flow \in {"on", "off"} /\ node["C"] \in Nodes BY <1>2, FieldTypes DEF IInv, NodesFine, Fine
  <1> HIDE DEF a, r
  <1>5. \A t \in Sides : ~node[t].closing /\ NoEnd(r[t])
    <2>1. \A t \in Sides : ~node[t].closing /\ NoEnd(air[t]) BY <1>3 DEF FirmState
    <2>2. NoEnd(a) BY <1>1, <2>1, SideOf
    <2>3. NoEnd(r[Other(s)]) BY <1>1, <2>2, NoEndTail
    <2>4. NoEnd(r[s]) BY <1>1, <2>1
    <2>5. \A t \in Sides : t = s \/ t = Other(s) BY SideOf
    <2> QED BY <2>1, <2>3, <2>4, <2>5
  <1>6. ASSUME s = "P"
        PROVE  /\ type # "ccc" => FirmState(r, node)
               /\ type \in {"data", "flow"} => "flow" \in node["P"].ccc
    <2>1. AllEnabled(a, node["P"].ccc, node["C"].tx # None) BY <1>1, <1>2, <1>3, <1>6 DEF FirmState
    <2>2. type # "ccc" => Head(a) # Ccc("flow") BY <1>1, EventTypes
    <2>3. /\ Head(a) # Ccc("flow") => AllEnabled(Tail(a), node["P"].ccc, node["C"].tx # None)
          /\ Head(a).type \in {"flow", "data"} => "flow" \in node["P"].ccc
      BY <1>1, <2>1, EnabledTail
    <2>4. r["P"] = air["P"] /\ r["C"] = Tail(a) BY <1>1, <1>2, <1>6
    <2>5. type # "ccc" => FirmState(r, node) BY <1>3, <1>5, <2>2, <2>3, <2>4 DEF FirmState
    <2> QED BY <1>1, <2>3, <2>5
  <1>7. ASSUME s = "C", type # "flow" PROVE FirmState(r, node)
    <2>1. AllHeard(a, node["C"].flow, node["P"].flow) BY <1>1, <1>2, <1>3, <1>7 DEF FirmState
    <2>2. AllHeard(Tail(a), IF Head(a).type = "flow" THEN Head(a).value ELSE node["C"].flow, node["P"].flow)
      BY <1>1, <1>4, <2>1, HeardTail
    <2>3. AllHeard(Tail(a), node["C"].flow, node["P"].flow) BY <1>1, <1>7, <2>2
    <2>4. r["C"] = air["C"] /\ r["P"] = Tail(a) BY <1>1, <1>2, <1>7
    <2> QED BY <1>3, <1>5, <2>3, <2>4 DEF FirmState
  <1> QED BY <1>2, <1>6, <1>7 DEF r

LEMMA ReceiveDataStep == ASSUME IInv, NEW s \in Sides, ReceiveData(s) PROVE IInv'
  <1> DEFINE x == Head(Incoming(s)).value
             w == RQ!Write(node[s].rx, x)
             q == RQ!CheckedFull(w)
             n == [node[s] EXCEPT !.rx = q, !.txt = TRUE]
             full == RQ!AlmostFull(w)
  <1>1. /\ Handles(s, "data") /\ node[s].rx # None
        /\ IF full
           THEN /\ node' = [node EXCEPT ![s] = FlowSet(s, n, "off")]
                /\ Call(s, Taken(s), FlowSent(s, n, "off"))
           ELSE /\ node' = [node EXCEPT ![s] = n]
                /\ air' = Taken(s) /\ UNCHANGED fails
        /\ turn' = [turn EXCEPT ![s] = TRUE]
        /\ UNCHANGED <<link, in, out, losses, scenario>>
    BY DEF ReceiveData
  <1>2. /\ Fine(s, node[s]) /\ node[s] \in Nodes /\ ~node[s].closing /\ x \in Number
        /\ AllAttached(Taken(s), node, link) /\ Taken(s) \in [Sides -> Seq(Events)]
    BY <1>1, InHand, EventTypes
  <1>3. q \in TQ!Queues(Number) /\ q # None
    <2>1. node[s].rx \in TQ!Queues(Number) BY <1>1, <1>2, FieldTypes
    <2>2. w \in TQ!Queues(Number) BY <1>2, <2>1, QueueOps
    <2> HIDE DEF w
    <2>3. q \in TQ!Queues(Number) BY <1>2, <2>2, QueueOps
    <2> QED BY <2>3, QueueFields
  <1> HIDE DEF q, full, w, x
  <1>4. Fine(s, n) BY <1>1, <1>2, <1>3, FineStored
  <1>5. /\ n.conn = node[s].conn /\ n.closing = node[s].closing /\ n.ccc = node[s].ccc
        /\ n.tx = node[s].tx /\ n.flow = node[s].flow /\ n \in Nodes
    BY <1>2, <1>4 DEF Nodes, Fine
  <1> HIDE DEF n
  <1> DEFINE m == IF full THEN FlowSet(s, n, "off") ELSE n
  <1>6. Fine(s, m) BY <1>4, FineFlow
  <1>7. node' = [node EXCEPT ![s] = m] BY <1>1
  <1>8. /\ m.conn = node[s].conn /\ m.closing = node[s].closing /\ m.ccc = node[s].ccc
        /\ m.tx = node[s].tx
    BY <1>5, FlowFields
  <1>9. node'[s] = m /\ node'[Other(s)] = node[Other(s)] /\ NodesFine' /\ node' \in [Sides -> Nodes]
    <2> HIDE DEF m
    <2> QED BY <1>6, <1>7, OneSide DEF IInv
  <1>10. \A t \in Sides : node'[t].conn = node[t].conn /\ node'[t].closing = node[t].closing
    <2> HIDE DEF m
    <2> QED BY <1>8, <1>9, SideOf
  <1>11. FlowSent(s, n, "off") \in Packets /\ FlowSent(s, n, "off") = FlowSent(s, node[s], "off")
    <2>1. FlowSent(s, n, "off") = FlowSent(s, node[s], "off") BY <1>5 DEF FlowSent, PeriphNotified
    <2> QED BY <2>1, FlowPackets
  <1>12. AirFits' /\ fails' \in 0..scenario.fails
    <2>1. AllAttached(air', node, link) /\ fails' \in 0..scenario.fails
      <3>1. CASE full BY <1>1, <1>2, <1>11, <3>1, CallFits
      <3>2. CASE ~full BY <1>1, <1>2, <3>2 DEF IInv, RestOK
      <3> QED BY <3>1, <3>2
    <2>2. AllAttached(air', node', link) BY <1>10, <2>1, AttachedAlike
    <2> QED BY <1>1, <2>1, <2>2 DEF AirFits
  <1>13. FirmOK'
    <2>1. SUFFICES ASSUME Firm PROVE FirmState(air', node') BY <1>1 DEF FirmOK, Firm
    <2>2. FirmState(Taken(s), node) /\ (s = "P" => "flow" \in node["P"].ccc)
      BY <1>1, <2>1, TakenFirm
    <2>3. s = "C" => node[s].tx # None BY <1>1, <1>2 DEF Fine, Sound
    <2>4. node \in [Sides -> Nodes] /\ (node[s].conn => link = "up")
      BY <2>1, FirmUp DEF IInv, NodesFine
    <2>5. CASE full
      <3>1. air' = Handed(s, Taken(s), FlowSent(s, node[s], "off"))
        BY <1>1, <1>2, <1>11, <2>1, <2>5, CallFits
      <3>2. m = FlowSet(s, n, "off") BY <2>5
      <3> HIDE DEF m
      <3>3. /\ s = "C" => m.flow = node[s].flow
            /\ s = "P" => m.flow = IF node[s].conn THEN "off" ELSE node[s].flow
        BY <1>5, <3>2, FlowFields
      <3>4. FirmState(Handed(s, Taken(s), FlowSent(s, node[s], "off")), node')
        BY <1>2, <1>8, <1>9, <2>2, <2>3, <2>4, <3>3, FirmFlow
      <3> QED BY <3>1, <3>4
    <2>6. CASE ~full
      <3>1. air' = Taken(s) /\ m = n BY <1>1, <2>6
      <3> HIDE DEF m
      <3>2. \A t \in Sides : t = s \/ t = Other(s) BY SideOf
      <3>3. ASSUME NEW t \in Sides
            PROVE  /\ ~node'[t].closing /\ node'[t].flow = node[t].flow
                   /\ node'[t].ccc = node[t].ccc /\ (node'[t].tx = None <=> node[t].tx = None)
                   /\ node[t].conn => node'[t].conn
        <4>1. CASE t = s BY <1>2, <1>5, <1>9, <3>1, <4>1
        <4>2. CASE t = Other(s) BY <1>9, <2>2, <4>2 DEF FirmState
        <4> QED BY <3>2, <4>1, <4>2
      <3>4. "P" \in Sides /\ "C" \in Sides /\ Other("C") = "P" /\ (s = "P" \/ s = "C")
        BY DEF Sides, Other
      <3>5. node'["P"].rx # None /\ node'["P"].rx.hwm = 1 => "flow" \in node'["P"].ccc
        <4>1. CASE s = "P" BY <2>2, <3>3, <3>4, <4>1
        <4>2. CASE s = "C" BY <1>9, <2>2, <3>4, <4>2 DEF FirmState
        <4> QED BY <3>4, <4>1, <4>2
      <3>6. FirmState(Taken(s), node') BY ONLY <2>2, <3>3, <3>4, <3>5 DEF FirmState
      <3> QED BY <3>1, <3>6
    <2> QED BY <2>5, <2>6
  <1>14. RestOK' BY <1>1, <1>12 DEF IInv, RestOK
  <1> QED BY <1>9, <1>12, <1>13, <1>14 DEF IInv

LEMMA PeriphReceiveFlowStep == ASSUME IInv, PeriphReceiveFlow PROVE IInv'
  <1> DEFINE v == Head(Incoming("P")).value
             n == node["P"]
             m == PeriphFlow(n, v)
  <1>1. /\ Handles("P", "flow") /\ node' = [node EXCEPT !["P"] = m]
        /\ Call("P", Taken("P"), PeriphNotified(n, v))
        /\ turn' = [turn EXCEPT !["P"] = TRUE]
        /\ UNCHANGED <<link, in, out, losses, scenario>>
        /\ "P" \in Sides
    BY DEF PeriphReceiveFlow, Sides
  <1>2. /\ Fine("P", n) /\ n \in Nodes /\ ~n.closing /\ v \in {"on", "off"}
        /\ AllAttached(Taken("P"), node, link) /\ Taken("P") \in [Sides -> Seq(Events)]
    <2>1. Handles("P", "flow") /\ "P" \in Sides BY <1>1
    <2>2. Head(Incoming("P")) \in Events /\ Head(Incoming("P")).type = "flow" BY ONLY IInv, <2>1, InHand
    <2>3. v \in {"on", "off"} BY ONLY <2>2, EventTypes
    <2> QED BY ONLY IInv, <2>1, <2>3, InHand
  <1> HIDE DEF v
  <1>3. m = FlowSet("P", n, v) /\ PeriphNotified(n, v) = FlowSent("P", n, v)
        /\ PeriphNotified(n, v) \in Packets
    BY <1>1, <1>2, FlowPackets DEF FlowSet, FlowSent
  <1> HIDE DEF m
  <1>4. Fine("P", m) BY <1>1, <1>2, <1>3, FineFlow
  <1>5. /\ m.conn = n.conn /\ m.closing = n.closing /\ m.ccc = n.ccc /\ m.tx = n.tx
        /\ m.rx = n.rx /\ m.flow = IF n.conn THEN v ELSE n.flow
    BY <1>1, <1>2, <1>3, FlowFields
  <1>6. /\ node'["P"] = m /\ node'[Other("P")] = node[Other("P")] /\ NodesFine'
        /\ node' \in [Sides -> Nodes]
    BY <1>1, <1>4, OneSide DEF IInv
  <1>7. \A t \in Sides : node'[t].conn = node[t].conn /\ node'[t].closing = node[t].closing
    BY <1>1, <1>5, <1>6, SideOf
  <1>8. AllAttached(air', node, link) /\ fails' \in 0..scenario.fails
    BY <1>1, <1>2, <1>3, CallFits
  <1>9. AirFits'
    <2>1. AllAttached(air', node', link) BY <1>7, <1>8, AttachedAlike
    <2> QED BY <1>1, <2>1 DEF AirFits
  <1>10. FirmOK'
    <2>1. SUFFICES ASSUME Firm PROVE FirmState(air', node') BY <1>1 DEF FirmOK, Firm
    <2>2. FirmState(Taken("P"), node) /\ "flow" \in n.ccc BY <1>1, <2>1, TakenFirm
    <2>3. node \in [Sides -> Nodes] /\ (n.conn => link = "up")
      BY <1>1, <2>1, FirmUp DEF IInv, NodesFine
    <2>4. air' = Handed("P", Taken("P"), FlowSent("P", n, v))
      BY <1>1, <1>2, <1>3, <2>1, CallFits
    <2>5. FirmState(Handed("P", Taken("P"), FlowSent("P", n, v)), node')
      BY <1>1, <1>2, <1>5, <1>6, <2>2, <2>3, FirmFlow
    <2> QED BY <2>4, <2>5
  <1>11. RestOK' BY <1>1, <1>8 DEF IInv, RestOK
  <1> QED BY <1>6, <1>9, <1>10, <1>11 DEF IInv

\* P enables a notification, and sends the value if it is the one of flow control.
LEMMA PeriphReceiveCccStep == ASSUME IInv, PeriphReceiveCcc PROVE IInv'
  <1> DEFINE h == Head(Incoming("P")).value
             n == node["P"]
             m == [n EXCEPT !.ccc = @ \cup {h}]
             p == IF h = "flow" THEN <<Flow(n.flow)>> ELSE <<>>
  <1>1. /\ Handles("P", "ccc") /\ node' = [node EXCEPT !["P"] = m]
        /\ Call("P", Taken("P"), p)
        /\ turn' = [turn EXCEPT !["P"] = TRUE]
        /\ UNCHANGED <<link, in, out, losses, scenario>>
        /\ "P" \in Sides
    BY DEF PeriphReceiveCcc, Sides
  <1>2. /\ Fine("P", n) /\ n \in Nodes /\ ~n.closing /\ h \in {"tx", "flow"}
        /\ Head(Incoming("P")) = Ccc(h) /\ Incoming("P") = air["C"] /\ Incoming("P") \in Seq(Events)
        /\ Incoming("P") # <<>>
        /\ AllAttached(Taken("P"), node, link) /\ Taken("P") \in [Sides -> Seq(Events)]
        /\ Taken("P")["C"] = Tail(Incoming("P")) /\ Taken("P")["P"] = air["P"]
        /\ n.flow \in {"on", "off"}
    BY <1>1, InHand, EventTypes, FieldTypes DEF Other
  <1> HIDE DEF h
  <1>3. /\ Flow(n.flow) \in Events /\ Flow(n.flow).type = "flow" /\ Flow(n.flow).value = n.flow
        /\ p \in Packets
    <2>1. Flow(n.flow) \in Events /\ Flow(n.flow).type = "flow" /\ Flow(n.flow).value = n.flow
      BY <1>2, EventTypes
    <2> QED BY <2>1 DEF Packets
  <1>4. Fine("P", m)
    <2>1. "on" \in {"on", "off"} /\ TRUE \in BOOLEAN OBVIOUS
    <2> QED BY <1>1, <1>2, <2>1, FineSmall
  <1>5. /\ m.conn = n.conn /\ m.closing = n.closing /\ m.ccc = n.ccc \cup {h} /\ m.tx = n.tx
        /\ m.rx = n.rx /\ m.flow = n.flow
    BY <1>2 DEF Nodes
  <1> HIDE DEF m
  <1>6. /\ node'["P"] = m /\ node'["C"] = node["C"] /\ NodesFine'
        /\ node' \in [Sides -> Nodes]
    BY <1>1, <1>4, OneSide DEF IInv, Other
  <1>7. \A t \in Sides : node'[t].conn = node[t].conn /\ node'[t].closing = node[t].closing
    BY <1>5, <1>6 DEF Sides
  <1>8. AllAttached(air', node, link) /\ fails' \in 0..scenario.fails
    BY <1>1, <1>2, <1>3, CallFits
  <1>9. AirFits'
    <2>1. AllAttached(air', node', link) BY <1>7, <1>8, AttachedAlike
    <2> QED BY <1>1, <2>1 DEF AirFits
  <1>10. FirmOK'
    <2>1. SUFFICES ASSUME Firm PROVE FirmState(air', node') BY <1>1 DEF FirmOK, Firm
    <2>2. FirmState(air, node) BY <2>1 DEF IInv, FirmOK
    <2>3. air' = Handed("P", Taken("P"), p) BY <1>1, <1>2, <1>3, <2>1, CallFits
    <2>4. /\ air'["C"] = Tail(air["C"])
          /\ air'["P"] = air["P"] \/ air'["P"] = Append(air["P"], Flow(n.flow))
      BY <1>1, <1>2, <1>3, <2>3, HandedOne, ZenonT(60) DEF Other
    <2>5. "C" \in Sides /\ air["P"] \in Seq(Events) /\ node["C"].flow \in {"on", "off"}
          /\ air["C"] # <<>> /\ air["C"] \in Seq(Events)
      BY <1>1, <1>2, FieldTypes DEF Sides, IInv, AirFits, AllAttached, NodesFine
    <2>6. AllHeard(air["P"], node["C"].flow, n.flow) BY <2>2 DEF FirmState
    <2>7. AllHeard(air'["P"], node["C"].flow, n.flow)
      <3>1. AllHeard(Append(air["P"], Flow(n.flow)), node["C"].flow, n.flow)
        BY <1>2, <1>3, <2>5, <2>6, HeardAppend
      <3> QED BY <2>4, <2>6, <3>1
    <2>8. AllEnabled(air'["C"], n.ccc \cup {h}, node["C"].tx # None)
      <3>1. AllEnabled(air["C"], n.ccc, node["C"].tx # None) BY <2>2 DEF FirmState
      <3>2. CASE h = "flow"
        <4>1. n.ccc \subseteq n.ccc \cup {h} /\ "flow" \in n.ccc \cup {h} BY <3>2
        <4> QED BY <2>4, <2>5, <3>1, <4>1, EnabledTail
      <3>3. CASE h # "flow"
        <4>1. Head(air["C"]) # Ccc("flow") BY <1>2, <3>3, EventTypes DEF Ccc
        <4>2. AllEnabled(Tail(air["C"]), n.ccc, node["C"].tx # None) BY <2>5, <3>1, <4>1, EnabledTail
        <4>3. AllEnabled(Tail(air["C"]), n.ccc \cup {h}, node["C"].tx # None)
          BY <4>2 DEF AllEnabled, Enabled
        <4> QED BY <2>4, <4>3
      <3> QED BY <3>2, <3>3
    <2>9. \A t \in Sides : ~node'[t].closing /\ NoEnd(air'[t])
      <3>1. \A t \in Sides : ~node[t].closing /\ NoEnd(air[t]) BY <2>2 DEF FirmState
      <3>2. NoEnd(Append(air["P"], Flow(n.flow))) BY <1>1, <1>3, <2>5, <3>1, NoEndAppend
      <3>3. NoEnd(Tail(air["C"])) BY <2>5, <3>1, NoEndTail
      <3> QED BY <1>1, <1>7, <2>4, <3>1, <3>2, <3>3 DEF Sides
    <2>10. /\ m.rx # None /\ m.rx.hwm = 1 => "flow" \in m.ccc
           /\ m.flow = "on" => m.conn
      BY <1>5, <2>2 DEF FirmState
    <2> QED BY <1>5, <1>6, <2>7, <2>8, <2>9, <2>10 DEF FirmState
  <1>11. RestOK' BY <1>1, <1>8 DEF IInv, RestOK
  <1> QED BY <1>6, <1>9, <1>10, <1>11 DEF IInv

LEMMA CentralReceiveFlowStep == ASSUME IInv, CentralReceiveFlow PROVE IInv'
  <1> DEFINE v == Head(Incoming("C")).value
             n == node["C"]
             b == n.ble \/ v = "on"
             m == [n EXCEPT !.flow = v, !.ble = b]
  <1>1. /\ Handles("C", "flow") /\ node' = [node EXCEPT !["C"] = m] /\ air' = Taken("C")
        /\ turn' = [turn EXCEPT !["C"] = TRUE]
        /\ UNCHANGED <<link, in, out, fails, losses, scenario>>
        /\ "C" \in Sides
    BY DEF CentralReceiveFlow, Sides
  <1>2. /\ Fine("C", n) /\ n \in Nodes /\ ~n.closing /\ v \in {"on", "off"}
        /\ Incoming("C") = air["P"] /\ Incoming("C") \in Seq(Events) /\ Incoming("C") # <<>>
        /\ Head(Incoming("C")).type = "flow"
        /\ AllAttached(Taken("C"), node, link)
        /\ Taken("C")["P"] = Tail(Incoming("C")) /\ Taken("C")["C"] = air["C"]
        /\ n.flow \in {"on", "off"} /\ b \in BOOLEAN
    BY <1>1, InHand, EventTypes, FieldTypes DEF Other
  <1>3. Fine("C", m)
    <2>1. "tx" \in {"tx", "flow"} OBVIOUS
    <2> HIDE DEF v, b
    <2> QED BY <1>1, <1>2, <2>1, FineSmall
  <1>4. /\ m.conn = n.conn /\ m.closing = n.closing /\ m.tx = n.tx /\ m.flow = v
    <2> HIDE DEF v, b
    <2> QED BY <1>2 DEF Nodes
  <1> HIDE DEF m
  <1>5. node'["C"] = m /\ node'["P"] = node["P"] /\ NodesFine'
    BY <1>1, <1>3, OneSide DEF IInv, Other
  <1>6. \A t \in Sides : node'[t].conn = node[t].conn /\ node'[t].closing = node[t].closing
    BY <1>4, <1>5 DEF Sides
  <1>7. AirFits'
    <2>1. AllAttached(Taken("C"), node', link) BY <1>2, <1>6, AttachedAlike
    <2> QED BY <1>1, <2>1 DEF AirFits
  <1>8. FirmOK'
    <2>1. SUFFICES ASSUME Firm PROVE FirmState(air', node') BY <1>1 DEF FirmOK, Firm
    <2>2. FirmState(air, node) BY <2>1 DEF IInv, FirmOK
    <2>3. AllHeard(air["P"], n.flow, node["P"].flow) BY <2>2 DEF FirmState
    <2>4. AllHeard(Tail(air["P"]), v, node["P"].flow)
      <3>1. AllHeard(Tail(air["P"]), IF Head(air["P"]).type = "flow" THEN Head(air["P"]).value ELSE n.flow,
                     node["P"].flow)
        BY <1>2, <2>3, HeardTail
      <3> QED BY <1>2, <3>1
    <2>5. \A t \in Sides : ~node'[t].closing /\ NoEnd(air'[t])
      <3>1. \A t \in Sides : ~node[t].closing /\ NoEnd(air[t]) BY <2>2 DEF FirmState
      <3>2. "P" \in Sides BY DEF Sides
      <3>3. NoEnd(Tail(air["P"])) BY <1>2, <3>1, <3>2, NoEndTail
      <3> QED BY <1>1, <1>2, <1>6, <3>1, <3>3 DEF Sides
    <2> QED BY <1>1, <1>2, <1>4, <1>5, <2>2, <2>4, <2>5 DEF FirmState
  <1>9. RestOK' BY <1>1 DEF IInv, RestOK
  <1> QED BY <1>5, <1>7, <1>8, <1>9 DEF IInv

\* What tx_data_available sends.
LEMMA Sending ==
  ASSUME IInv, NEW s \in Sides, MaySend(s), ~node[s].closing
  PROVE  LET n == node[s]
             k == Head(n.tx.items)
         IN  /\ Fine(s, n) /\ n \in Nodes /\ ~n.inprog /\ ~n.sent /\ n.conn /\ n.tx # None
             /\ Items(n.tx) # <<>> /\ n.tx.items \in Seq(Number) /\ n.tx.items # <<>> /\ n.flow = "on"
             /\ k \in Number /\ Data(k) \in Events /\ Data(k).type = "data" /\ Data(k).value = k
             /\ Data(k) # Ccc("flow")
  <1> DEFINE n == node[s]
  <1>1. Fine(s, n) /\ n \in Nodes BY DEF IInv, NodesFine, Fine
  <1>2. ~n.inprog /\ Items(n.tx) # <<>> /\ n.flow = "on" BY DEF MaySend
  <1>3. n.tx # None /\ n.tx.items # <<>> BY <1>2 DEF Items
  <1>4. n.conn /\ ~n.sent BY <1>1, <1>2, <1>3 DEF Fine, Sound
  <1>5. n.tx \in TQ!Queues(Number) /\ n.tx.items \in Seq(Number)
    <2>1. n.tx \in TQ!Queues(Number) BY <1>1, <1>3, FieldTypes
    <2> QED BY <2>1, QueueFields
  <1>6. Head(n.tx.items) \in Number BY <1>3, <1>5, HeadTailProperties
  <1>7. Data(Head(n.tx.items)).type # Ccc("flow").type BY <1>6, EventTypes
  <1> QED BY <1>1, <1>2, <1>3, <1>4, <1>5, <1>6, <1>7, EventTypes

LEMMA BleTxStep == ASSUME IInv, NEW s \in Sides, BleTx(s) PROVE IInv'
  <1> DEFINE n == node[s]
             e == Data(Head(n.tx.items))
             idle == [n EXCEPT !.ble = FALSE]
             sends == [n EXCEPT !.ble = FALSE, !.inprog = TRUE, !.sent = TRUE]
             refused == [n EXCEPT !.ble = FALSE, !.inprog = s = "P"]
  <1>1. /\ ~n.closing /\ UNCHANGED <<link, in, out, turn, losses, scenario>>
        /\ \/ node' = [node EXCEPT ![s] = idle] /\ UNCHANGED <<air, fails>>
           \/ /\ MaySend(s) /\ link = "up" /\ node' = [node EXCEPT ![s] = sends]
              /\ air' = Handed(s, air, <<e>>) /\ UNCHANGED fails
           \/ /\ link = "down" \/ fails < scenario.fails
              /\ fails' = IF link = "down" THEN fails ELSE fails + 1
              /\ MaySend(s) /\ node' = [node EXCEPT ![s] = refused] /\ UNCHANGED air
    BY DEF BleTx
  <1>2. Fine(s, n) /\ n \in Nodes BY DEF IInv, NodesFine, Fine
  <1>3. /\ "on" \in {"on", "off"} /\ "tx" \in {"tx", "flow"} /\ TRUE \in BOOLEAN /\ (s = "P") \in BOOLEAN
        /\ scenario.fails \in Nat /\ fails \in 0..scenario.fails
    BY LinkAssumption DEF IInv, RestOK, ScenarioType
  <1>4. CASE node' = [node EXCEPT ![s] = idle] /\ UNCHANGED <<air, fails>>
    <2>1. Fine(s, idle) BY <1>2, <1>3, FineSmall
    <2>2. Alike(s, idle) BY <1>2 DEF Alike, Nodes
    <2> HIDE DEF idle
    <2>3. NodesFine' /\ AirFits' /\ FirmOK' BY <1>1, <1>4, <2>1, <2>2, Unnoticed
    <2> QED BY <1>1, <1>4, <2>3 DEF IInv, RestOK
  <1>5. CASE /\ MaySend(s) /\ link = "up" /\ node' = [node EXCEPT ![s] = sends]
             /\ air' = Handed(s, air, <<e>>) /\ UNCHANGED fails
    <2>1. /\ Items(n.tx) # <<>> /\ n.tx # None /\ n.conn /\ n.flow = "on"
          /\ e \in Events /\ e.type = "data" /\ e # Ccc("flow")
      BY <1>1, <1>5, Sending
    <2> HIDE DEF e
    <2>2. Fine(s, sends) BY <1>1, <1>2, <1>3, <2>1, FineSmall
    <2>3. /\ sends.conn = n.conn /\ sends.closing = n.closing /\ sends.flow = n.flow
          /\ sends.ccc = n.ccc /\ sends.tx = n.tx /\ sends.rx = n.rx
      BY <1>2 DEF Nodes
    <2> HIDE DEF sends
    <2>4. node'[s] = sends /\ node'[Other(s)] = node[Other(s)] /\ NodesFine'
      BY <1>5, <2>2, OneSide DEF IInv
    <2>5. \A t \in Sides : /\ node'[t].conn = node[t].conn /\ node'[t].closing = node[t].closing
                           /\ node'[t].flow = node[t].flow /\ node'[t].ccc = node[t].ccc
                           /\ node'[t].tx = node[t].tx /\ node'[t].rx = node[t].rx
      BY <2>3, <2>4, SideOf
    <2>6. AirFits'
      <3>1. AllAttached(air', node, link) BY <1>5, <2>1, HandedAttached DEF IInv, AirFits, RestOK
      <3>2. AllAttached(air', node', link) BY <2>5, <3>1, AttachedAlike
      <3> QED BY <1>1, <3>2 DEF AirFits
    <2>7. FirmOK'
      <3>1. SUFFICES ASSUME Firm PROVE FirmState(air', node') BY <1>1 DEF FirmOK, Firm
      <3>2. FirmState(air, node) BY <3>1 DEF IInv, FirmOK
      <3>3. /\ air \in [Sides -> Seq(Events)] /\ "P" \in Sides /\ "C" \in Sides
            /\ Other("P") = "C" /\ Other("C") = "P" /\ (s = "P" \/ s = "C")
        BY DEF IInv, AirFits, AllAttached, Sides, Other
      <3>4. air'[s] = Append(air[s], e) /\ air'[Other(s)] = air[Other(s)]
        BY <1>5, <2>1, <3>3, HandedOne
      <3>5. \A t \in Sides : ~node'[t].closing /\ NoEnd(air'[t])
        <4>1. \A t \in Sides : ~node[t].closing /\ NoEnd(air[t]) BY <3>2 DEF FirmState
        <4>2. NoEnd(Append(air[s], e)) BY <2>1, <3>3, <4>1, NoEndAppend
        <4>3. \A t \in Sides : t = s \/ t = Other(s) BY SideOf
        <4> QED BY <2>5, <3>4, <4>1, <4>2, <4>3
      <3>6. AllHeard(air'["P"], node["C"].flow, node["P"].flow)
        <4>1. AllHeard(air["P"], node["C"].flow, node["P"].flow) BY <3>2 DEF FirmState
        <4>2. CASE s = "C" BY <3>3, <3>4, <4>1, <4>2
        <4>3. CASE s = "P"
          <5>1. node["P"].flow = "on" /\ node["C"].flow \in {"on", "off"} /\ "on" \in {"on", "off"}
            BY <2>1, <3>3, <4>3, FieldTypes DEF IInv, NodesFine
          <5>2. AllHeard(Append(air["P"], e), node["C"].flow, "on")
            BY <2>1, <3>3, <4>1, <5>1, HeardAppend
          <5> QED BY <3>4, <4>3, <5>1, <5>2
        <4> QED BY <3>3, <4>2, <4>3
      <3>7. AllEnabled(air'["C"], node["P"].ccc, node["C"].tx # None)
        <4>1. AllEnabled(air["C"], node["P"].ccc, node["C"].tx # None) BY <3>2 DEF FirmState
        <4>2. CASE s = "P" BY <3>3, <3>4, <4>1, <4>2
        <4>3. CASE s = "C"
          <5>1. AllEnabled(air["C"], node["P"].ccc, TRUE) BY <2>1, <4>1, <4>3
          <5>2. AllEnabled(Append(air["C"], e), node["P"].ccc, TRUE \/ e = Ccc("flow"))
            BY <2>1, <3>3, <5>1, EnabledAppend
          <5>3. (TRUE \/ e = Ccc("flow")) = TRUE OBVIOUS
          <5>4. AllEnabled(Append(air["C"], e), node["P"].ccc, TRUE) BY <5>2, <5>3
          <5> QED BY <2>1, <3>4, <4>3, <5>4
        <4> QED BY <3>3, <4>2, <4>3
      <3> QED BY <2>5, <3>2, <3>3, <3>5, <3>6, <3>7 DEF FirmState
    <2>8. RestOK' BY <1>1, <1>5 DEF IInv, RestOK
    <2> QED BY <2>4, <2>6, <2>7, <2>8 DEF IInv
  <1>6. CASE /\ link = "down" \/ fails < scenario.fails
             /\ fails' = IF link = "down" THEN fails ELSE fails + 1
             /\ MaySend(s) /\ node' = [node EXCEPT ![s] = refused] /\ UNCHANGED air
    <2>0. ~n.inprog BY <1>6 DEF MaySend
    <2>1. Fine(s, refused) BY <1>2, <1>3, <2>0, FineSmall
    <2>2. Alike(s, refused) BY <1>2 DEF Alike, Nodes
    <2> HIDE DEF refused
    <2>3. NodesFine' /\ AirFits' /\ FirmOK' BY <1>1, <1>6, <2>1, <2>2, Unnoticed
    <2>4. fails' \in 0..scenario.fails
      <3>1. CASE link = "down" BY <1>3, <1>6, <3>1
      <3>2. CASE link # "down" BY <1>3, <1>6, <3>2
      <3> QED BY <3>1, <3>2
    <2> QED BY <1>1, <1>6, <2>3, <2>4 DEF IInv, RestOK
  <1> QED BY <1>1, <1>4, <1>5, <1>6

LEMMA TxWrittenStep == ASSUME IInv, Kept, NEW s \in Sides, TxWritten(s) PROVE IInv'
  <1> DEFINE q == node[s].rx
             b == node[s].txt \/ Items(q) # <<>>
             f == node[s].fault \/ q = None
             c == IF q = None THEN None ELSE RQ!CheckedEmpty(q)
             n == [node[s] EXCEPT !.held = None, !.rx = c, !.txt = b, !.fault = f]
  <1>1. Fine(s, node[s]) /\ node[s] \in Nodes /\ node[s].held # None
    BY DEF IInv, NodesFine, Fine, TxWritten
  <1>2. Fine(s, n)
    <2>1. b \in BOOLEAN /\ f \in BOOLEAN BY <1>1, FieldTypes
    <2> HIDE DEF b, f
    <2> QED BY <1>1, <2>1, FineWritten
  <1>3. PICK low \in FoundLow(q) :
           /\ IF low
              THEN /\ node' = [node EXCEPT ![s] = FlowSet(s, n, "on")]
                   /\ Call(s, air, FlowSent(s, n, "on"))
              ELSE /\ node' = [node EXCEPT ![s] = n]
                   /\ UNCHANGED <<air, fails>>
           /\ \/ out' = [out EXCEPT ![Other(s)] = Following(node[s].held)]
              \/ UNCHANGED out
           /\ UNCHANGED <<link, in, turn, losses, scenario>>
    BY Zenon DEF TxWritten
  <1> DEFINE m == IF low THEN FlowSet(s, n, "on") ELSE n
  <1>4. q # None => c # None /\ c.hwm = IF low THEN 0 ELSE q.hwm
    <2>1. SUFFICES ASSUME q # None PROVE c # None /\ c.hwm = IF low THEN 0 ELSE q.hwm OBVIOUS
    <2>2. q \in TQ!Queues(Number) BY <1>1, <2>1, FieldTypes
    <2>3. 0 \in Number /\ low = RQ!AlmostEmpty(q) /\ c = RQ!CheckedEmpty(q)
      BY <1>3, <2>1, LinkAssumption DEF Number, FoundLow
    <2>4. c \in TQ!Queues(Number) /\ c.hwm = IF low THEN 0 ELSE q.hwm BY <2>2, <2>3, QueueOps
    <2> HIDE DEF c
    <2> QED BY <2>2, <2>4, QueueFields
  <1>5. q # None /\ low => q.hwm = 1 BY <1>3 DEF RQ!AlmostEmpty, FoundLow
  <1>50. low \in BOOLEAN BY <1>3 DEF FoundLow, RQ!AlmostEmpty
  <1> HIDE DEF q, b, c, f
  <1>6. /\ n.conn = node[s].conn /\ n.closing = node[s].closing /\ n.ccc = node[s].ccc
        /\ n.tx = node[s].tx /\ n.flow = node[s].flow /\ n \in Nodes /\ n.rx = c
    BY <1>1, <1>2 DEF Nodes, Fine
  <1> HIDE DEF n
  <1>7. Fine(s, m) BY <1>2, FineFlow
  <1>8. /\ m.conn = node[s].conn /\ m.closing = node[s].closing /\ m.ccc = node[s].ccc
        /\ m.tx = node[s].tx /\ m.rx = c
        /\ low => /\ s = "C" => m.flow = node[s].flow
                  /\ s = "P" => m.flow = IF node[s].conn THEN "on" ELSE node[s].flow
        /\ ~low => m.flow = node[s].flow
    BY <1>6, FlowFields
  <1>9. node' = [node EXCEPT ![s] = m] BY <1>3
  <1> HIDE DEF m
  <1>10. /\ node'[s] = m /\ node'[Other(s)] = node[Other(s)] /\ NodesFine'
         /\ node' \in [Sides -> Nodes]
    BY <1>7, <1>9, OneSide DEF IInv
  <1>11. \A t \in Sides : node'[t].conn = node[t].conn /\ node'[t].closing = node[t].closing
    BY <1>8, <1>10, SideOf
  <1>12. FlowSent(s, n, "on") \in Packets /\ FlowSent(s, n, "on") = FlowSent(s, node[s], "on")
    <2>1. FlowSent(s, n, "on") = FlowSent(s, node[s], "on") BY <1>6 DEF FlowSent, PeriphNotified
    <2> QED BY <2>1, FlowPackets
  <1>13. AirFits' /\ fails' \in 0..scenario.fails
    <2>0. AllAttached(air, node, link) BY DEF IInv, AirFits
    <2>1. AllAttached(air', node, link) /\ fails' \in 0..scenario.fails
      <3>1. CASE low BY <1>3, <1>12, <2>0, <3>1, CallFits
      <3>2. CASE ~low BY <1>3, <2>0, <3>2 DEF IInv, RestOK
      <3> QED BY <3>1, <3>2
    <2>2. AllAttached(air', node', link) BY <1>11, <2>1, AttachedAlike
    <2> QED BY <1>3, <2>1, <2>2 DEF AirFits
  <1>14. FirmOK'
    <2>1. SUFFICES ASSUME Firm PROVE FirmState(air', node') BY <1>3 DEF FirmOK, Firm
    <2>2. FirmState(air, node) BY <2>1 DEF IInv, FirmOK
    <2>20. q # None BY <1>1, <2>1 DEF Kept, Whole, Fine, Sound, q
    <2>3. /\ node \in [Sides -> Nodes] /\ (node[s].conn => link = "up")
          /\ air \in [Sides -> Seq(Events)] /\ AllAttached(air, node, link)
      BY <2>1, FirmUp DEF IInv, NodesFine, AirFits, AllAttached
    <2>4. s = "P" /\ q.hwm = 1 => "flow" \in node[s].ccc
      BY <2>2, <2>20 DEF FirmState, q
    <2>5. ~node[s].closing BY <2>2 DEF FirmState
    <2>6. CASE low
      <3>1. air' = Handed(s, air, FlowSent(s, node[s], "on"))
        BY <1>3, <1>12, <2>1, <2>3, <2>6, CallFits
      <3>2. node[s].tx # None BY <1>1, <2>20 DEF Fine, Sound, q
      <3>3. s = "P" => "flow" \in node[s].ccc BY <1>5, <2>4, <2>6, <2>20
      <3>4. FirmState(Handed(s, air, FlowSent(s, node[s], "on")), node')
        BY <1>8, <1>10, <2>2, <2>3, <2>5, <2>6, <3>2, <3>3, FirmFlow
      <3> QED BY <3>1, <3>4
    <2>7. CASE ~low
      <3>1. \A t \in Sides : t = s \/ t = Other(s) BY SideOf
      <3>2. \A t \in Sides : /\ ~node'[t].closing /\ node'[t].flow = node[t].flow
                             /\ node'[t].ccc = node[t].ccc /\ node'[t].tx = node[t].tx
                             /\ node'[t].conn = node[t].conn
                             /\ node'[t].rx # None /\ node'[t].rx.hwm = 1 =>
                                  node[t].rx # None /\ node[t].rx.hwm = 1
        <4>1. ASSUME NEW t \in Sides
              PROVE  /\ ~node'[t].closing /\ node'[t].flow = node[t].flow
                     /\ node'[t].ccc = node[t].ccc /\ node'[t].tx = node[t].tx
                     /\ node'[t].conn = node[t].conn
                     /\ node'[t].rx # None /\ node'[t].rx.hwm = 1 =>
                          node[t].rx # None /\ node[t].rx.hwm = 1
          <5>1. CASE t = s BY <1>4, <1>8, <1>10, <2>5, <2>7, <2>20, <5>1 DEF q
          <5>2. CASE t = Other(s) BY <1>10, <2>2, <5>2 DEF FirmState
          <5> QED BY <3>1, <5>1, <5>2
        <4> QED BY <4>1
      <3>3. FirmState(air, node') BY <2>2, <3>2, FirmAlike
      <3> QED BY <1>3, <2>7, <3>3
    <2> QED BY <2>6, <2>7
  <1>15. RestOK'
    <2>1. node[s].held \in Number BY <1>1, FieldTypes
    <2>2. out' \in [Sides -> Number] BY <1>3, <2>1, NextNumber, SideOf DEF IInv, RestOK
    <2> QED BY <1>3, <1>13, <2>2 DEF IInv, RestOK
  <1> QED BY <1>10, <1>13, <1>14, <1>15 DEF IInv

-----------------------------------------------------------------------------
(* Every step keeps it: connections.                                       *)

\* One side takes the beginning or the end of a connection, and m is what becomes of it.
LEMMA GapTaken ==
  ASSUME IInv, NEW s \in Sides, Handles(s, "gap"), NEW m, Fine(s, m),
         node' = [node EXCEPT ![s] = m], air' = Taken(s), link' = link,
         \/ Head(Incoming(s)).value = "begin" /\ m.conn
         \/ Head(Incoming(s)).value = "end" /\ ~m.conn
  PROVE  NodesFine' /\ AirFits'
  <1>1. /\ Incoming(s) = air[Other(s)] /\ Incoming(s) \in Seq(Events) /\ Incoming(s) # <<>>
        /\ Head(Incoming(s)) = Gap(Head(Incoming(s)).value)
        /\ Attached(Incoming(s), node[s], link) /\ link \in {"up", "down"}
        /\ Taken(s)[Other(s)] = Tail(Incoming(s)) /\ Taken(s)[s] = air[s]
        /\ Taken(s) \in [Sides -> Seq(Events)]
    <2>1. Head(Incoming(s)) \in Events /\ Head(Incoming(s)).type = "gap" BY InHand
    <2>2. Head(Incoming(s)) = Gap(Head(Incoming(s)).value) BY ONLY <2>1, EventTypes
    <2> QED BY <2>2, InHand
  <1>2. Attached(Tail(Incoming(s)), m, link) BY <1>1, AttachedGap
  <1>3. node'[s] = m /\ node'[Other(s)] = node[Other(s)] /\ NodesFine' BY OneSide DEF IInv
  <1>4. Attached(Taken(s)[Other(s)], node'[s], link) BY <1>1, <1>2, <1>3
  <1>5. Attached(Taken(s)[Other(Other(s))], node'[Other(s)], link)
    <2>1. Other(Other(s)) = s /\ Other(s) \in Sides BY SideOf
    <2>2. Attached(air[Other(Other(s))], node[Other(s)], link)
      BY <2>1 DEF IInv, AirFits, AllAttached
    <2> QED BY <1>1, <1>3, <2>1, <2>2
  <1>6. \A t \in Sides : t = s \/ t = Other(s) BY SideOf
  <1>7. AirFits' BY <1>1, <1>4, <1>5, <1>6 DEF AirFits, AllAttached
  <1> QED BY <1>3, <1>7

LEMMA ConnectedStep == ASSUME IInv, NEW s \in Sides, Connected(s) PROVE IInv'
  <1> DEFINE n == node[s]
             wide == [WithQueues(n) EXCEPT !.conn = TRUE]
             bare == [n EXCEPT !.conn = TRUE]
             m == IF s = "P" THEN wide ELSE bare
  <1>1. /\ Handles(s, "gap") /\ Head(Incoming(s)).value = "begin"
        /\ node' = [node EXCEPT ![s] = m] /\ air' = Taken(s)
        /\ turn' = [turn EXCEPT ![s] = TRUE]
        /\ UNCHANGED <<link, in, out, fails, losses, scenario>>
    BY DEF Connected
  <1>2. /\ Fine(s, n) /\ n \in Nodes /\ ~n.closing /\ ~n.conn
        /\ s = "P" \/ s = "C"
    <2>1. Head(Incoming(s)) \in Events /\ Head(Incoming(s)).type = "gap" BY <1>1, InHand
    <2>2. Head(Incoming(s)) = Gap("begin") BY ONLY <1>1, <2>1, EventTypes
    <2> QED BY <1>1, <2>2, InHand, AttachedGap DEF Sides
  <1>3. n.tx = None /\ Fine(s, m) BY <1>2, FineBegins
  <1>4. /\ m.conn /\ m.closing = n.closing /\ m.flow = n.flow /\ m.ccc = n.ccc /\ m.halt = n.halt
        /\ s = "C" => m.tx = n.tx
        /\ s = "P" => m.rx = RQ!New
    <2>1. TQ!New \in {None} \cup TQ!Queues(Number) BY NewQueue
    <2> QED BY <1>2, <2>1 DEF Nodes, WithQueues
  <1> HIDE DEF m
  <1>5. NodesFine' /\ AirFits' BY <1>1, <1>3, <1>4, GapTaken
  <1>6. node'[s] = m /\ node'[Other(s)] = node[Other(s)] BY <1>1, <1>3, OneSide DEF IInv
  <1>7. FirmOK'
    <2>1. SUFFICES ASSUME Firm PROVE FirmState(air', node') BY <1>1 DEF FirmOK, Firm
    <2>2. FirmState(Taken(s), node) BY <1>1, <2>1, TakenFirm
    <2>3. \A t \in Sides : t = s \/ t = Other(s) BY SideOf
    <2>4. ASSUME NEW t \in Sides
          PROVE  /\ ~node'[t].closing /\ node'[t].flow = node[t].flow
                 /\ node'[t].ccc = node[t].ccc /\ (node[t].conn => node'[t].conn)
      <3>1. CASE t = s BY <1>2, <1>4, <1>6, <3>1
      <3>2. CASE t = Other(s) BY <1>6, <2>2, <3>2 DEF FirmState
      <3> QED BY <2>3, <3>1, <3>2
    <2>5. "P" \in Sides /\ "C" \in Sides /\ Other("P") = "C" /\ Other("C") = "P" BY DEF Sides, Other
    <2>6. node'["C"].tx = node["C"].tx BY <1>2, <1>4, <1>6, <2>5
    <2>7. node'["P"].rx # None /\ node'["P"].rx.hwm = 1 => "flow" \in node'["P"].ccc
      <3>1. CASE s = "P" BY <1>4, <1>6, <3>1, NewQueue
      <3>2. CASE s = "C" BY <1>6, <2>2, <2>5, <3>2 DEF FirmState
      <3> QED BY <1>2, <3>1, <3>2
    <2>8. FirmState(Taken(s), node') BY <2>2, <2>4, <2>5, <2>6, <2>7 DEF FirmState
    <2> QED BY <1>1, <2>8
  <1>8. RestOK' BY <1>1 DEF IInv, RestOK
  <1> QED BY <1>5, <1>7, <1>8 DEF IInv

LEMMA DisconnectedStep == ASSUME IInv, NEW s \in Sides, Disconnected(s) PROVE IInv' /\ ~Firm
  <1> DEFINE m == Cut(s, node[s])
  <1>1. /\ Handles(s, "gap") /\ Head(Incoming(s)).value = "end"
        /\ node' = [node EXCEPT ![s] = m] /\ air' = Taken(s)
        /\ turn' = [turn EXCEPT ![s] = TRUE]
        /\ UNCHANGED <<link, in, out, fails, losses, scenario>>
    BY DEF Disconnected
  <1>2. /\ Fine(s, node[s]) /\ node[s] \in Nodes /\ Head(Incoming(s)) = Gap("end")
        /\ Incoming(s) = air[Other(s)] /\ Incoming(s) \in Seq(Events) /\ Incoming(s) # <<>>
    <2>1. Head(Incoming(s)) \in Events /\ Head(Incoming(s)).type = "gap" BY <1>1, InHand
    <2>2. Head(Incoming(s)) = Gap("end") BY ONLY <1>1, <2>1, EventTypes
    <2> QED BY <1>1, <2>2, InHand
  <1>3. Fine(s, m) BY <1>2, FineEnds
  <1>4. ~m.conn BY <1>2 DEF Cut, Nodes
  <1> HIDE DEF m
  <1>5. NodesFine' /\ AirFits' BY <1>1, <1>3, <1>4, GapTaken
  <1>6. ~Firm
    <2>1. SUFFICES ASSUME Firm PROVE FALSE OBVIOUS
    <2>2. NoEnd(air[Other(s)]) BY <2>1, FirmUp, SideOf
    <2> QED BY <1>2, <2>2, NoEndTail
  <1>7. FirmOK' BY <1>1, <1>6 DEF FirmOK, Firm
  <1>8. RestOK' BY <1>1 DEF IInv, RestOK
  <1> QED BY <1>5, <1>6, <1>7, <1>8 DEF IInv

LEMMA FreeQueuesStep == ASSUME IInv, NEW s \in Sides, FreeQueues(s) PROVE IInv' /\ ~Firm
  <1> DEFINE n == node[s]
             m == [n EXCEPT !.tx = None, !.rx = None, !.closing = FALSE]
  <1>1. /\ n.closing /\ ~n.reading
        /\ node' = [node EXCEPT ![s] = m]
        /\ UNCHANGED <<air, link, in, out, fails, turn, losses, scenario>>
    BY DEF FreeQueues
  <1>2. Fine(s, n) /\ n \in Nodes BY DEF IInv, NodesFine, Fine
  <1>3. Fine(s, m) BY <1>1, <1>2, FineEnds
  <1>4. ~n.conn /\ ~m.conn /\ ~m.closing BY <1>1, <1>2 DEF Nodes, Fine, Sound
  <1> HIDE DEF m
  <1>5. node'[s] = m /\ node'[Other(s)] = node[Other(s)] /\ NodesFine' BY <1>1, <1>3, OneSide DEF IInv
  <1>6. AirFits'
    <2>1. Attached(air[Other(s)], n, link) /\ air \in [Sides -> Seq(Events)]
      BY DEF IInv, AirFits, AllAttached
    <2>2. Attached(air[Other(s)], m, link) BY <1>1, <1>4, <2>1 DEF Attached
    <2>3. Attached(air[Other(Other(s))], node[Other(s)], link) BY SideOf DEF IInv, AirFits, AllAttached
    <2>4. \A t \in Sides : t = s \/ t = Other(s) BY SideOf
    <2> QED BY <1>1, <1>5, <2>1, <2>2, <2>3, <2>4 DEF AirFits, AllAttached
  <1>7. ~Firm
    <2>1. SUFFICES ASSUME Firm PROVE FALSE OBVIOUS
    <2> QED BY <1>1, <2>1, FirmUp
  <1>8. FirmOK' BY <1>1, <1>7 DEF FirmOK, Firm
  <1>9. RestOK' BY <1>1 DEF IInv, RestOK
  <1> QED BY <1>5, <1>6, <1>7, <1>8, <1>9 DEF IInv

LEMMA LinkUpStep == ASSUME IInv, LinkUp PROVE IInv'
  <1> DEFINE a == <<Gap("begin")>>
  <1>1. /\ \A s \in Sides : ~node[s].conn /\ ~node[s].closing /\ air[s] = <<>>
        /\ link' = "up" /\ air' = [s \in Sides |-> a]
        /\ UNCHANGED <<node, in, out, fails, turn, losses, scenario>>
    BY DEF LinkUp
  <1>2. /\ Gap("begin") \in Events /\ Gap("begin").type = "gap" /\ Gap("begin") # Gap("end")
        /\ Len(a) = 1 /\ a[1] = Gap("begin")
    BY EventTypes
  <1>3. \A s \in Sides : Attached(a, node[s], "up") /\ a \in Seq(Events) BY <1>1, AttachedAnew
  <1> HIDE DEF a
  <1>4. AirFits' BY <1>1, <1>3, SideOf DEF AirFits, AllAttached
  <1>5. NodesFine' BY <1>1 DEF IInv, NodesFine
  <1>6. FirmOK'
    <2>1. SUFFICES ASSUME Firm PROVE FirmState(air', node) BY <1>1 DEF FirmOK, Firm
    <2>2. FirmState(air, node) BY <2>1 DEF IInv, FirmOK
    <2>3. "P" \in Sides /\ "C" \in Sides BY DEF Sides
    <2>4. node["P"].flow # "on" BY <1>1, <2>2, <2>3 DEF FirmState
    <2>5. node["C"].tx = None BY <1>1, <2>3 DEF IInv, NodesFine, Fine, Sound
    <2>6. \A i \in 1..Len(a) : a[i] = Gap("begin") BY <1>2
    <2>7. NoEnd(a) BY <1>2, <2>6 DEF NoEnd
    <2>8. AllHeard(a, node["C"].flow, node["P"].flow) BY <1>2, <2>4, <2>6 DEF AllHeard
    <2>9. AllEnabled(a, node["P"].ccc, node["C"].tx # None) BY <1>2, <2>5, <2>6 DEF AllEnabled
    <2> QED BY <1>1, <2>2, <2>3, <2>7, <2>8, <2>9 DEF FirmState
  <1>7. RestOK' BY <1>1 DEF IInv, RestOK
  <1> QED BY <1>4, <1>5, <1>6, <1>7 DEF IInv

LEMMA LinkLossStep == ASSUME IInv, LinkLoss PROVE IInv' /\ ~Firm
  <1>1. /\ link = "up" /\ losses < scenario.losses /\ losses' = losses + 1 /\ link' = "down"
        /\ UNCHANGED <<node, in, out, turn, fails, scenario>>
    BY DEF LinkLoss
  <1>2. PICK p \in 0..Len(air["P"]), c \in 0..Len(air["C"]) :
          LET kept == [s \in Sides |-> IF s = "P" THEN p ELSE c]
          IN  /\ \A s \in Sides : \A i \in kept[s]+1..Len(air[s]) : air[s][i].type # "gap"
              /\ air' = [s \in Sides |-> Append(SubSeq(air[s], 1, kept[s]), Gap("end"))]
    BY DEF LinkLoss
  <1> DEFINE kept == [s \in Sides |-> IF s = "P" THEN p ELSE c]
  <1>3. /\ \A s \in Sides : \A i \in kept[s]+1..Len(air[s]) : air[s][i].type # "gap"
        /\ air' = [s \in Sides |-> Append(SubSeq(air[s], 1, kept[s]), Gap("end"))]
        /\ \A s \in Sides : kept[s] \in 0..Len(air[s])
    BY <1>2 DEF Sides
  <1> HIDE DEF kept
  <1>4. ASSUME NEW s \in Sides
        PROVE  Attached(air'[Other(s)], node[s], "down") /\ air'[Other(s)] \in Seq(Events)
    <2>1. Other(s) \in Sides /\ air[Other(s)] \in Seq(Events) /\ Attached(air[Other(s)], node[s], "up")
      BY <1>1, SideOf DEF IInv, AirFits, AllAttached
    <2> QED BY <1>3, <2>1, AttachedLoss
  <1>5. AirFits'
    <2>1. \A s \in Sides : Other(Other(s)) = s /\ Other(s) \in Sides BY SideOf
    <2> QED BY <1>1, <1>3, <1>4, <2>1 DEF AirFits, AllAttached
  <1>6. NodesFine' BY <1>1 DEF IInv, NodesFine
  <1>7. losses \in 0..scenario.losses /\ scenario.losses \in Nat
    BY LinkAssumption DEF IInv, RestOK, ScenarioType
  <1>8. ~Firm BY <1>1, <1>7 DEF Firm
  <1>9. FirmOK' BY <1>1, <1>8 DEF FirmOK, Firm
  <1>10. RestOK' BY <1>1, <1>7 DEF IInv, RestOK
  <1> QED BY <1>5, <1>6, <1>8, <1>9, <1>10 DEF IInv

\* C has discovered the service: it enables the notifications and says "on", in this order.
LEMMA BrowsedAir ==
  ASSUME NEW r \in [Sides -> Seq(Events)], link = "up"
  PROVE  Handed("C", r, <<Ccc("tx"), Ccc("flow"), Flow("on")>>)
           = Handed("C", Handed("C", Handed("C", r, <<Ccc("tx")>>), <<Ccc("flow")>>), <<Flow("on")>>)
  <1> DEFINE x == Ccc("tx")
             y == Ccc("flow")
             z == Flow("on")
  <1>1. x \in Events /\ y \in Events /\ z \in Events /\ r["C"] \in Seq(Events) /\ "C" \in Sides
    BY EventTypes DEF Sides
  <1> HIDE DEF x, y, z
  <1>2. r["C"] \o <<x, y, z>> = ((r["C"] \o <<x>>) \o <<y>>) \o <<z>>
    <2>1. <<x, y, z>> = <<x, y>> \o <<z>> /\ <<x, y>> = <<x>> \o <<y>>
      <3>1. <<x, y, z>> = Append(<<x, y>>, z) /\ <<x, y>> = Append(<<x>>, y) BY <1>1
      <3>2. <<x>> \in Seq(Events) /\ <<x, y>> \in Seq(Events) BY <1>1
      <3> QED BY <1>1, <3>1, <3>2, AppendIsConcat
    <2>2. /\ <<x>> \in Seq(Events) /\ <<y>> \in Seq(Events) /\ <<z>> \in Seq(Events)
          /\ <<x, y>> \in Seq(Events)
      BY <1>1
    <2>3. r["C"] \o (<<x, y>> \o <<z>>) = (r["C"] \o <<x, y>>) \o <<z>>
      BY <1>1, <2>2, ConcatAssociative
    <2>4. r["C"] \o (<<x>> \o <<y>>) = (r["C"] \o <<x>>) \o <<y>>
      BY <1>1, <2>2, ConcatAssociative
    <2> QED BY <2>1, <2>3, <2>4
  <1>3. Handed("C", r, <<x, y, z>>) = [r EXCEPT !["C"] = r["C"] \o <<x, y, z>>] BY DEF Handed
  <1>4. Handed("C", r, <<x>>) = [r EXCEPT !["C"] = r["C"] \o <<x>>] BY DEF Handed
  <1>5. Handed("C", Handed("C", r, <<x>>), <<y>>) = [r EXCEPT !["C"] = (r["C"] \o <<x>>) \o <<y>>]
    BY <1>1, <1>4 DEF Handed
  <1>6. Handed("C", Handed("C", Handed("C", r, <<x>>), <<y>>), <<z>>)
          = [r EXCEPT !["C"] = ((r["C"] \o <<x>>) \o <<y>>) \o <<z>>]
    BY <1>1, <1>5 DEF Handed
  <1> QED BY <1>2, <1>3, <1>6 DEF x, y, z

LEMMA BrowsedStep == ASSUME IInv, Browsed PROVE IInv'
  <1> DEFINE n == node["C"]
             m == [WithQueues(n) EXCEPT !.rxt = @ \cup {"start"}]
             x == Ccc("tx")
             y == Ccc("flow")
             z == Flow("on")
  <1>1. /\ n.conn /\ n.tx = None /\ ~n.closing /\ node' = [node EXCEPT !["C"] = m]
        /\ air' = Handed("C", air, <<x, y, z>>)
        /\ UNCHANGED <<link, in, out, turn, fails, losses, scenario>>
        /\ "C" \in Sides /\ "P" \in Sides /\ Other("C") = "P"
    BY DEF Browsed, Sides, Other
  <1>2. Fine("C", n) /\ n \in Nodes BY <1>1 DEF IInv, NodesFine, Fine
  <1>3. Fine("C", m) BY <1>1, <1>2, FineBegins
  <1>4. m.conn = n.conn /\ m.closing = n.closing /\ m.flow = n.flow BY <1>2 DEF Nodes, WithQueues
  <1> HIDE DEF m
  <1>5. node'["C"] = m /\ node'["P"] = node["P"] /\ NodesFine'
    BY <1>1, <1>3, OneSide DEF IInv
  <1>6. \A t \in Sides : node'[t].conn = node[t].conn /\ node'[t].closing = node[t].closing
    BY <1>4, <1>5 DEF Sides
  <1>7. /\ x \in Events /\ x.type = "ccc" /\ y \in Events /\ y.type = "ccc" /\ y = Ccc("flow")
        /\ z \in Events /\ z.type = "flow"
    BY EventTypes
  <1>8. AllAttached(air, node, link) /\ air \in [Sides -> Seq(Events)] /\ link \in {"up", "down"}
    BY DEF IInv, AirFits, AllAttached, RestOK
  <1> HIDE DEF x, y, z
  <1>9. CASE link # "up"
    <2>1. air' = air
      <3>1. [air EXCEPT !["C"] = air["C"]] = air BY <1>8
      <3> QED BY <1>1, <1>9, <3>1 DEF Handed
    <2>2. AirFits'
      <3>1. AllAttached(air, node', link) BY <1>6, <1>8, AttachedAlike
      <3> QED BY <1>1, <2>1, <3>1 DEF AirFits
    <2>3. ~Firm BY <1>1, <1>9, FirmUp
    <2> QED BY <1>1, <1>5, <2>2, <2>3 DEF IInv, RestOK, FirmOK, Firm
  <1>10. CASE link = "up"
    <2> DEFINE r1 == Handed("C", air, <<x>>)
               r2 == Handed("C", r1, <<y>>)
               r3 == Handed("C", r2, <<z>>)
    <2>0. "C" \in Sides /\ Other("C") = "P" BY <1>1
    <2>1. air' = r3 BY <1>1, <1>8, <1>10, BrowsedAir DEF x, y, z
    <2>2. /\ r1 \in [Sides -> Seq(Events)] /\ r1["C"] = Append(air["C"], x) /\ r1["P"] = air["P"]
          /\ AllAttached(r1, node, link)
      <3>1. r1 \in [Sides -> Seq(Events)] /\ r1["C"] = Append(air["C"], x) /\ r1["P"] = air["P"]
        BY ONLY <1>7, <1>8, <1>10, <2>0, HandedOne
      <3>2. AllAttached(r1, node, link) BY <1>1, <1>7, <1>8, <1>8, HandedAttached
      <3> QED BY <3>1, <3>2
    <2> HIDE DEF r1
    <2>3. /\ r2 \in [Sides -> Seq(Events)] /\ r2["C"] = Append(r1["C"], y) /\ r2["P"] = r1["P"]
          /\ AllAttached(r2, node, link)
      <3>0. r1 \in [Sides -> Seq(Events)] BY <2>2
      <3>1. r2 \in [Sides -> Seq(Events)] /\ r2["C"] = Append(r1["C"], y) /\ r2["P"] = r1["P"]
        BY ONLY <1>7, <1>10, <2>0, <3>0, HandedOne, SMTT(30)
      <3>2. AllAttached(r2, node, link) BY <1>1, <1>7, <1>8, <2>2, HandedAttached
      <3> QED BY <3>1, <3>2
    <2> HIDE DEF r2
    <2>4. /\ r3 \in [Sides -> Seq(Events)] /\ r3["C"] = Append(r2["C"], z) /\ r3["P"] = r2["P"]
          /\ AllAttached(r3, node, link)
      <3>0. r2 \in [Sides -> Seq(Events)] BY <2>3
      <3>1. r3 \in [Sides -> Seq(Events)] /\ r3["C"] = Append(r2["C"], z) /\ r3["P"] = r2["P"]
        BY ONLY <1>7, <1>10, <2>0, <3>0, HandedOne
      <3>2. AllAttached(r3, node, link) BY <1>1, <1>7, <1>8, <2>3, HandedAttached
      <3> QED BY <3>1, <3>2
    <2> HIDE DEF r3
    <2>5. AirFits'
      <3>1. AllAttached(r3, node', link) BY <1>6, <2>4, AttachedAlike
      <3> QED BY <1>1, <2>1, <3>1 DEF AirFits
    <2>6. FirmOK'
      <3>1. SUFFICES ASSUME Firm PROVE FirmState(r3, node') BY <1>1, <2>1 DEF FirmOK, Firm
      <3>2. FirmState(air, node) BY <3>1 DEF IInv, FirmOK
      <3>3. /\ air["C"] \in Seq(Events) /\ r1["C"] \in Seq(Events) /\ r2["C"] \in Seq(Events)
            /\ r3["P"] = air["P"]
        BY <1>1, <1>8, <2>2, <2>3, <2>4
      <3> DEFINE c == node["P"].ccc
      <3>4. AllEnabled(air["C"], c, FALSE)
        <4>1. AllEnabled(air["C"], c, n.tx # None) BY <3>2 DEF FirmState
        <4> QED BY <4>1 DEF AllEnabled
      <3>5. AllEnabled(r1["C"], c, FALSE)
        <4>1. AllEnabled(Append(air["C"], x), c, FALSE \/ x = Ccc("flow"))
          BY <1>7, <3>3, <3>4, EnabledAppend
        <4> QED BY <2>2, <4>1 DEF AllEnabled
      <3>6. AllEnabled(r2["C"], c, TRUE)
        <4>1. AllEnabled(Append(r1["C"], y), c, FALSE \/ y = Ccc("flow"))
          BY <1>7, <3>3, <3>5, EnabledAppend
        <4>2. FALSE \/ y = Ccc("flow") BY <1>7
        <4> QED BY <2>3, <4>1, <4>2 DEF AllEnabled
      <3>7. AllEnabled(r3["C"], c, TRUE)
        <4>1. AllEnabled(Append(r2["C"], z), c, TRUE \/ z = Ccc("flow"))
          BY <1>7, <3>3, <3>6, EnabledAppend
        <4> QED BY <2>4, <4>1 DEF AllEnabled
      <3>8. NoEnd(r3["C"])
        <4>1. NoEnd(air["C"]) BY <1>1, <3>2 DEF FirmState
        <4>2. NoEnd(r1["C"]) BY <1>7, <2>2, <3>3, <4>1, NoEndAppend
        <4>3. NoEnd(r2["C"]) BY <1>7, <2>3, <3>3, <4>2, NoEndAppend
        <4> QED BY <1>7, <2>4, <3>3, <4>3, NoEndAppend
      <3>9. \A t \in Sides : ~node'[t].closing /\ NoEnd(r3[t])
        <4>1. \A t \in Sides : ~node[t].closing /\ NoEnd(air[t]) BY <3>2 DEF FirmState
        <4> QED BY <1>1, <1>6, <3>3, <3>8, <4>1 DEF Sides
      <3>10. AllHeard(r3["P"], node'["C"].flow, node'["P"].flow)
        BY <1>4, <1>5, <3>2, <3>3 DEF FirmState
      <3>11. AllEnabled(r3["C"], node'["P"].ccc, node'["C"].tx # None)
        BY <1>5, <3>7 DEF AllEnabled
      <3>12. /\ node'["P"].rx # None /\ node'["P"].rx.hwm = 1 => "flow" \in node'["P"].ccc
             /\ node'["P"].flow = "on" => node'["P"].conn
        BY <1>5, <3>2 DEF FirmState
      <3> QED BY ONLY <3>9, <3>10, <3>11, <3>12 DEF FirmState
    <2> QED BY <1>1, <1>5, <2>5, <2>6 DEF IInv, RestOK
  <1> QED BY <1>9, <1>10

LEMMA InitHolds == ASSUME Init PROVE IInv
  <1>1. node = [s \in Sides |-> Unconnected] /\ air = [s \in Sides |-> <<>>] /\ link = "down"
    BY DEF Init
  <1>2. Unconnected \in Nodes BY DEF Unconnected, Nodes
  <1>3. /\ Unconnected.tx = None /\ Unconnected.rx = None /\ ~Unconnected.ready /\ ~Unconnected.sent
        /\ ~Unconnected.reading /\ Unconnected.data = None /\ Unconnected.held = None
        /\ ~Unconnected.conn /\ ~Unconnected.closing /\ ~Unconnected.fault /\ Unconnected.rxt = {}
        /\ Unconnected.flow = "off"
    BY DEF Unconnected
  <1>4. NodesFine BY <1>1, <1>2, <1>3 DEF NodesFine, Fine, Sound, Roomy
  <1>5. <<>> \in Seq(Events) /\ Len(<<>>) = 0 OBVIOUS
  <1>6. AirFits
    <2>1. Attached(<<>>, Unconnected, "down") BY <1>3, <1>5 DEF Attached, Begun, Over
    <2> QED BY <1>1, <1>5, <2>1, SideOf DEF AirFits, AllAttached
  <1>7. FirmOK
    <2>1. NoEnd(<<>>) /\ AllHeard(<<>>, "off", "off") /\ AllEnabled(<<>>, Unconnected.ccc, FALSE)
      BY <1>5 DEF NoEnd, AllHeard, AllEnabled
    <2>2. node["P"] = Unconnected /\ node["C"] = Unconnected /\ air["P"] = <<>> /\ air["C"] = <<>>
      BY <1>1 DEF Sides
    <2>3. AllEnabled(<<>>, Unconnected.ccc, Unconnected.tx # None) BY <1>3, <2>1 DEF AllEnabled
    <2>4. FirmState(air, node) BY <1>1, <1>3, <2>1, <2>2, <2>3 DEF FirmState
    <2> QED BY <2>4 DEF FirmOK
  <1>8. RestOK
    <2>1. scenario.fails \in Nat /\ scenario.losses \in Nat BY LinkAssumption DEF Init, ScenarioType
    <2>2. 0 \in Number BY LinkAssumption DEF Number
    <2> QED BY <2>1, <2>2 DEF Init, RestOK
  <1> QED BY <1>4, <1>6, <1>7, <1>8 DEF IInv

LEMMA StutterHolds == ASSUME IInv, UNCHANGED vars PROVE IInv'
  BY DEF IInv, NodesFine, AirFits, RestOK, FirmOK, Firm, vars

-----------------------------------------------------------------------------
(* What no step takes back, and what every step leaves whole.              *)

LEMMA TwoSides ==
  /\ "P" \in Sides /\ "C" \in Sides /\ Other("P") = "C" /\ Other("C") = "P" /\ "P" # "C"
  /\ \A s \in Sides : s = "P" \/ s = "C"
  BY DEF Sides, Other

LEMMA ScenarioStays == ASSUME Next PROVE UNCHANGED scenario
  <1>1. ASSUME NEW s \in Sides, BleTask(s) PROVE UNCHANGED scenario
    BY <1>1 DEF BleTask, IgnoreData, ReceiveData, BleTx, TxDone, Connected, Disconnected, FreeQueues
  <1>2. ASSUME NEW s \in Sides, RxTask(s) \/ TxTask(s) \/ QueueFull(s) PROVE UNCHANGED scenario
    BY <1>2 DEF RxTask, RxWake, RxRead, RxTimeout, TxTask, TxTake, TxWritten, QueueFull
  <1>3. ASSUME PeriphTask \/ CentralTask \/ LinkUp \/ LinkLoss PROVE UNCHANGED scenario
    BY <1>3 DEF PeriphTask, PeriphReceiveFlow, PeriphReceiveCcc, CentralTask, CentralReceiveFlow,
                Browsed, LinkUp, LinkLoss
  <1> QED BY <1>1, <1>2, <1>3 DEF Next

\* A step of one side does not halt it, undoes no fault, and leaves it whole.
Goes(n, m) == m.halt = n.halt /\ (n.fault => m.fault) /\ (Whole(n) => Whole(m))
Alone(n, m) == /\ m.halt = n.halt /\ m.fault = n.fault /\ m.tx = n.tx
               /\ m.data = n.data /\ m.held = n.held
Steady == \A s \in Sides : Goes(node[s], node'[s])
HaltsKept == \A s \in Sides : node'[s].halt = node[s].halt
FaultsStay == \A s \in Sides : node[s].fault => node'[s].fault

LEMMA AloneGoes == ASSUME NEW n, NEW m, Alone(n, m) PROVE Goes(n, m)
  BY DEF Alone, Goes, Whole

LEMMA NodeSteady ==
  ASSUME IInv, NEW s \in Sides, NEW m, node' = [node EXCEPT ![s] = m], Goes(node[s], m)
  PROVE  Steady
  BY DEF IInv, NodesFine, Steady, Goes

\* Only a write to a full queue makes an assertion fail, and only a disconnection leaves a side
\* without its queues while it still has something for them.
LEMMA Steps ==
  ASSUME IInv, Next
  PROVE  /\ \A s \in Sides : node[s].fault => node'[s].fault
         /\ (\A s \in Sides : ~QueueFull(s)) => HaltsKept
         /\ Kept => Kept'
  <1>1. \A s \in Sides : node[s] \in Nodes /\ Fine(s, node[s]) BY DEF IInv, NodesFine
  <1>2. ASSUME NEW s \in Sides, IgnoreData(s) \/ LinkUp \/ LinkLoss PROVE Steady
    BY <1>2 DEF IgnoreData, LinkUp, LinkLoss, Steady, Goes
  <1>4. ASSUME NEW s \in Sides, ReceiveData(s) PROVE Steady
    <2> DEFINE q == RQ!Write(node[s].rx, Head(Incoming(s)).value)
               n == [node[s] EXCEPT !.rx = RQ!CheckedFull(q), !.txt = TRUE]
    <2>1. node' = [node EXCEPT ![s] = FlowSet(s, n, "off")] \/ node' = [node EXCEPT ![s] = n]
      BY <1>4 DEF ReceiveData
    <2>2. Alone(node[s], n) BY <1>1 DEF Nodes, Alone
    <2>3. Alone(node[s], FlowSet(s, n, "off"))
      <3>1. Alone(node[s], PeriphFlow(n, "off")) BY <1>1 DEF PeriphFlow, Nodes, Alone
      <3> QED BY <2>2, <3>1 DEF FlowSet
    <2> HIDE DEF n
    <2> QED BY <2>1, <2>2, <2>3, NodeSteady, AloneGoes
  <1>5. ASSUME NEW s \in Sides, BleTx(s) PROVE Steady
    <2> DEFINE n == node[s]
               idle == [n EXCEPT !.ble = FALSE]
               sends == [n EXCEPT !.ble = FALSE, !.inprog = TRUE, !.sent = TRUE]
               refused == [n EXCEPT !.ble = FALSE, !.inprog = s = "P"]
    <2>1. \/ node' = [node EXCEPT ![s] = idle] \/ node' = [node EXCEPT ![s] = sends]
          \/ node' = [node EXCEPT ![s] = refused]
      BY <1>5 DEF BleTx
    <2>2. Alone(n, idle) /\ Alone(n, sends) /\ Alone(n, refused) BY <1>1 DEF Nodes, Alone
    <2> HIDE DEF idle, sends, refused
    <2> QED BY <2>1, <2>2, NodeSteady, AloneGoes
  <1>6. ASSUME NEW s \in Sides, TxDone(s) PROVE Steady
    <2> DEFINE n == node[s]
               q == TQ!Pop(n.tx)
               again == TQ!AlmostEmpty(q)
               m == [n EXCEPT !.inprog = FALSE, !.sent = FALSE, !.tx = TQ!CheckedEmpty(q),
                              !.ready = @ \/ again,
                              !.rxt = IF again THEN @ \cup {"start"} ELSE @,
                              !.ble = @ \/ TQ!ItemCount(q) > 0]
    <2>1. node' = [node EXCEPT ![s] = m] BY <1>6 DEF TxDone
    <2>2. Whole(n) => n.tx # None BY <1>1, <1>6 DEF TxDone, Fine, Sound
    <2>3. TQ!CheckedEmpty(q) # None
      <3>1. n.tx \in TQ!Queues(Number) /\ n.tx # None
        BY <1>1, <1>6, FieldTypes DEF TxDone, Fine, Sound
      <3>2. 0 \in Number BY LinkAssumption DEF Number
      <3>3. q \in TQ!Queues(Number) BY <3>1, <3>2, QueueOps
      <3> HIDE DEF q
      <3>4. TQ!CheckedEmpty(q) \in TQ!Queues(Number) BY <3>2, <3>3, QueueOps
      <3> QED BY <3>4, QueueFields
    <2> HIDE DEF q, again
    <2>4. m.halt = n.halt /\ m.fault = n.fault /\ m.tx # None BY <1>1, <2>3 DEF Nodes
    <2> HIDE DEF m
    <2> QED BY <2>1, <2>4, NodeSteady DEF Goes, Whole
  <1>7. ASSUME NEW s \in Sides, Connected(s) PROVE Steady
    <2> DEFINE wide == [WithQueues(node[s]) EXCEPT !.conn = TRUE]
               bare == [node[s] EXCEPT !.conn = TRUE]
    <2>1. node' = [node EXCEPT ![s] = wide] \/ node' = [node EXCEPT ![s] = bare]
      BY <1>7 DEF Connected
    <2>2. /\ wide.halt = node[s].halt /\ wide.fault = node[s].fault /\ wide.tx # None
          /\ Alone(node[s], bare)
      BY <1>1, NewQueue DEF WithQueues, Nodes, Alone
    <2> HIDE DEF wide, bare
    <2>3. Goes(node[s], wide) /\ Goes(node[s], bare) BY <2>2, AloneGoes DEF Goes, Whole
    <2> QED BY <2>1, <2>3, NodeSteady
  <1>8. ASSUME NEW s \in Sides, Disconnected(s) PROVE Steady
    <2>1. node' = [node EXCEPT ![s] = Cut(s, node[s])] BY <1>8 DEF Disconnected
    <2>2. Alone(node[s], Cut(s, node[s])) BY <1>1 DEF Cut, Nodes, Alone
    <2> QED BY <2>1, <2>2, NodeSteady, AloneGoes
  <1>9. ASSUME NEW s \in Sides, FreeQueues(s) PROVE HaltsKept /\ FaultsStay /\ ~Firm
    <2> DEFINE m == [node[s] EXCEPT !.tx = None, !.rx = None, !.closing = FALSE]
    <2>1. node' = [node EXCEPT ![s] = m] BY <1>9 DEF FreeQueues
    <2>2. m.halt = node[s].halt /\ m.fault = node[s].fault BY <1>1 DEF Nodes
    <2> HIDE DEF m
    <2>3. HaltsKept /\ FaultsStay BY <2>1, <2>2 DEF IInv, NodesFine, HaltsKept, FaultsStay
    <2> QED BY <1>9, <2>3, FreeQueuesStep
  <1>10. ASSUME NEW s \in Sides, RxWake(s) PROVE Steady
    <2> DEFINE n == node[s]
               stores == "read" \in n.rxt
               q == TQ!Write(n.tx, n.data)
               ready == n.ready /\ ~(stores /\ n.tx # None /\ TQ!AlmostFull(q))
               m == [n EXCEPT !.tx = IF stores /\ @ # None THEN TQ!CheckedFull(q) ELSE @,
                              !.fault = @ \/ (stores /\ n.tx = None),
                              !.data = IF stores THEN None ELSE @,
                              !.ready = ready,
                              !.ble = @ \/ stores,
                              !.rxt = IF stores THEN {"start"} ELSE {},
                              !.reading = "start" \in n.rxt /\ n.conn /\ ready]
    <2>1. node' = [node EXCEPT ![s] = m] BY <1>10 DEF RxWake
    <2>2. stores => n.data # None BY <1>1 DEF Fine, Sound
    <2>3. Whole(n) => ~(stores /\ n.tx = None) BY <2>2 DEF Whole
    <2>4. ~stores => n.data = None BY <1>1 DEF Fine, Sound
    <2>5. stores /\ n.tx # None => TQ!CheckedFull(q) # None
      <3>1. SUFFICES ASSUME stores, n.tx # None PROVE TQ!CheckedFull(q) # None OBVIOUS
      <3>2. n.tx \in TQ!Queues(Number) /\ n.data \in Number BY <1>1, <2>2, <3>1, FieldTypes
      <3>3. q \in TQ!Queues(Number) BY <3>2, QueueOps
      <3> HIDE DEF q
      <3>4. TQ!CheckedFull(q) \in TQ!Queues(Number) BY <3>2, <3>3, QueueOps
      <3> QED BY <3>4, QueueFields
    <2> HIDE DEF q, ready, stores
    <2>6. /\ m.halt = n.halt /\ m.fault = (n.fault \/ (stores /\ n.tx = None)) /\ m.held = n.held
          /\ m.data = IF stores THEN None ELSE n.data
          /\ m.tx = IF stores /\ n.tx # None THEN TQ!CheckedFull(q) ELSE n.tx
      BY <1>1 DEF Nodes
    <2> HIDE DEF m
    <2>7. Goes(n, m) BY <2>3, <2>4, <2>5, <2>6 DEF Goes, Whole
    <2> QED BY <2>1, <2>7, NodeSteady
  <1>11. ASSUME NEW s \in Sides, RxRead(s) \/ RxTimeout(s) PROVE Steady
    <2> DEFINE m == [node[s] EXCEPT !.reading = FALSE, !.data = in[s], !.rxt = @ \cup {"read"}]
               w == [node[s] EXCEPT !.reading = FALSE, !.rxt = @ \cup {"start"}]
    <2>1. node' = [node EXCEPT ![s] = m] \/ node' = [node EXCEPT ![s] = w]
      BY <1>11 DEF RxRead, RxTimeout
    <2>2. node[s].reading /\ node[s].tx # None BY <1>1, <1>11 DEF RxRead, RxTimeout, Fine, Sound
    <2>3. /\ m.halt = node[s].halt /\ m.fault = node[s].fault /\ m.tx = node[s].tx
          /\ w.halt = node[s].halt /\ w.fault = node[s].fault /\ w.tx = node[s].tx
      BY <1>1 DEF Nodes
    <2> HIDE DEF m, w
    <2>4. Goes(node[s], m) /\ Goes(node[s], w) BY <2>2, <2>3 DEF Goes, Whole
    <2> QED BY <2>1, <2>4, NodeSteady
  <1>12. ASSUME NEW s \in Sides, TxTake(s) PROVE Steady
    <2> DEFINE n == node[s]
               idle == [n EXCEPT !.txt = FALSE]
               takes == [n EXCEPT !.txt = FALSE, !.held = Head(n.rx.items), !.rx = RQ!Pop(n.rx)]
    <2>1. \/ node' = [node EXCEPT ![s] = idle]
          \/ n.rx # None /\ node' = [node EXCEPT ![s] = takes]
      BY <1>12 DEF TxTake, Items
    <2>2. Alone(n, idle) /\ takes.halt = n.halt /\ takes.fault = n.fault /\ takes.tx = n.tx
      BY <1>1 DEF Nodes, Alone
    <2>3. n.rx # None => n.tx # None BY <1>1 DEF Fine, Sound
    <2> HIDE DEF idle, takes
    <2>4. Goes(n, idle) /\ (n.rx # None => Goes(n, takes)) BY <2>2, <2>3, AloneGoes DEF Goes, Whole
    <2> QED BY <2>1, <2>4, NodeSteady
  <1>13. ASSUME NEW s \in Sides, TxWritten(s) PROVE Steady
    <2> DEFINE q == node[s].rx
               f == node[s].fault \/ q = None
               c == IF q = None THEN None ELSE RQ!CheckedEmpty(q)
               b == node[s].txt \/ Items(q) # <<>>
               n == [node[s] EXCEPT !.held = None, !.rx = c, !.txt = b, !.fault = f]
    <2>1. node' = [node EXCEPT ![s] = n] \/ node' = [node EXCEPT ![s] = FlowSet(s, n, "on")]
      BY <1>13, Zenon DEF TxWritten
    <2>2. Whole(node[s]) => q # None BY <1>1, <1>13 DEF TxWritten, Whole, Fine, Sound
    <2> HIDE DEF c, b
    <2>3. /\ n.halt = node[s].halt /\ n.fault = f /\ n.held = None
          /\ n.tx = node[s].tx /\ n.data = node[s].data
      BY <1>1 DEF Nodes
    <2>4. Alone(n, FlowSet(s, n, "on"))
      <3>1. Alone(n, PeriphFlow(n, "on")) BY <1>1 DEF PeriphFlow, Nodes, Alone
      <3> QED BY <3>1 DEF FlowSet, Alone
    <2> HIDE DEF n
    <2>5. Goes(node[s], n) BY <2>2, <2>3 DEF Goes, Whole
    <2>6. Goes(node[s], FlowSet(s, n, "on")) BY <2>4, <2>5 DEF Alone, Goes, Whole
    <2> QED BY <2>1, <2>5, <2>6, NodeSteady
  <1>14. ASSUME PeriphTask \/ CentralTask PROVE Steady
    <2> DEFINE p == node["P"]
               c == node["C"]
               flow == PeriphFlow(p, Head(Incoming("P")).value)
               ccc == [p EXCEPT !.ccc = @ \cup {Head(Incoming("P")).value}]
               told == [c EXCEPT !.flow = Head(Incoming("C")).value,
                                 !.ble = @ \/ Head(Incoming("C")).value = "on"]
               starts == [WithQueues(c) EXCEPT !.rxt = @ \cup {"start"}]
    <2>1. \/ node' = [node EXCEPT !["P"] = flow] \/ node' = [node EXCEPT !["P"] = ccc]
          \/ node' = [node EXCEPT !["C"] = told] \/ node' = [node EXCEPT !["C"] = starts]
      BY <1>14 DEF PeriphTask, CentralTask, PeriphReceiveFlow, PeriphReceiveCcc,
                   CentralReceiveFlow, Browsed
    <2>2. Alone(p, flow) /\ Alone(p, ccc) BY <1>1, TwoSides DEF PeriphFlow, Nodes, Alone
    <2>3. Alone(c, told) /\ starts.halt = c.halt /\ starts.fault = c.fault /\ starts.tx # None
      BY <1>1, TwoSides, NewQueue DEF WithQueues, Nodes, Alone
    <2> HIDE DEF flow, ccc, told, starts
    <2>4. Goes(p, flow) /\ Goes(p, ccc) /\ Goes(c, told) BY <2>2, <2>3, AloneGoes
    <2>5. Goes(c, starts) BY <2>3 DEF Goes, Whole
    <2> QED BY <2>1, <2>4, <2>5, TwoSides, NodeSteady
  <1>15. ASSUME NEW s \in Sides, QueueFull(s) PROVE FaultsStay /\ (Kept => Kept')
    <2> DEFINE m == [node[s] EXCEPT !.halt = TRUE]
    <2>1. node' = [node EXCEPT ![s] = m] /\ UNCHANGED scenario BY <1>15 DEF QueueFull
    <2>2. m.fault = node[s].fault /\ m.tx = node[s].tx /\ m.data = node[s].data /\ m.held = node[s].held
      BY <1>1 DEF Nodes
    <2> HIDE DEF m
    <2>3. \A t \in Sides : node'[t].fault = node[t].fault /\ (Whole(node[t]) => Whole(node'[t]))
      BY <2>1, <2>2 DEF IInv, NodesFine, Whole
    <2> QED BY <2>1, <2>3 DEF FaultsStay, Kept, Firm
  <1>16. UNCHANGED scenario BY ScenarioStays
  <1>17. Steady => HaltsKept /\ FaultsStay /\ (Kept => Kept')
    BY <1>16 DEF Steady, Goes, HaltsKept, FaultsStay, Kept, Firm
  <1>18. \/ Steady \/ \E s \in Sides : QueueFull(s)
         \/ HaltsKept /\ FaultsStay /\ ~Firm
    BY <1>2, <1>4, <1>5, <1>6, <1>7, <1>8, <1>9, <1>10, <1>11, <1>12, <1>13, <1>14, TwoSides
    DEF Next, BleTask, RxTask, TxTask
  <1>19. ~Firm => Kept' BY <1>16 DEF Kept, Firm
  <1> QED BY <1>15, <1>17, <1>18, <1>19 DEF FaultsStay

\* The invariant the other theorems rest on, with what holds while nothing is lost or refused.
THEOREM InductiveInvariant == Spec => [](IInv /\ Kept)
  <1>1. Init => IInv /\ Kept
    <2>1. Init => Kept BY DEF Init, Unconnected, Kept, Whole
    <2> QED BY <2>1, InitHolds
  <1>2. IInv /\ Kept /\ [Next]_vars => IInv' /\ Kept'
    <2>0. IInv /\ Kept /\ UNCHANGED vars => IInv' /\ Kept'
      BY StutterHolds DEF vars, Kept, Firm
    <2>1. SUFFICES ASSUME IInv, Kept, Next PROVE IInv' BY <2>0, Steps
    <2>2. ASSUME NEW s \in Sides, BleTask(s) PROVE IInv'
      BY <2>1, <2>2, IgnoreDataStep, ReceiveDataStep, BleTxStep, TxDoneStep, ConnectedStep,
         DisconnectedStep, FreeQueuesStep
         DEF BleTask
    <2>3. ASSUME NEW s \in Sides, RxTask(s) PROVE IInv'
      BY <2>1, <2>3, RxWakeStep, RxReadStep, RxTimeoutStep DEF RxTask
    <2>4. ASSUME NEW s \in Sides, TxTask(s) PROVE IInv'
      BY <2>1, <2>4, TxTakeStep, TxWrittenStep DEF TxTask
    <2>5. ASSUME NEW s \in Sides, QueueFull(s) PROVE IInv' BY <2>1, <2>5, QueueFullStep
    <2>6. ASSUME PeriphTask PROVE IInv'
      BY <2>1, <2>6, PeriphReceiveFlowStep, PeriphReceiveCccStep DEF PeriphTask
    <2>7. ASSUME CentralTask PROVE IInv'
      BY <2>1, <2>7, CentralReceiveFlowStep, BrowsedStep DEF CentralTask
    <2>8. ASSUME LinkUp PROVE IInv' BY <2>1, <2>8, LinkUpStep
    <2>9. ASSUME LinkLoss PROVE IInv' BY <2>1, <2>9, LinkLossStep
    <2> QED BY <2>1, <2>2, <2>3, <2>4, <2>5, <2>6, <2>7, <2>8, <2>9 DEF Next
  <1> QED BY <1>1, <1>2, PTL DEF Spec

\* The fields of both sides, the events on the air and the counters have their types.
THEOREM TypesHold == Spec => []TypeOK
  <1>1. IInv => TypeOK
    BY DEF IInv, NodesFine, AirFits, AllAttached, RestOK, TypeOK
  <1> QED BY <1>1, InductiveInvariant, PTL

\* A transmit queue has room for what has been read, as long as it is there, so that only the
\* receive queue, which the far side fills, can make the assertion of a queue fail.
TxHasRoom ==
  \A s \in Sides :
    "read" \in node[s].rxt /\ node[s].tx # None => TQ!ItemCount(node[s].tx) < TX_SIZE

THEOREM TxNeverFull == Spec => []TxHasRoom
  <1>1. ASSUME IInv PROVE TxHasRoom
    <2>1. SUFFICES ASSUME NEW s \in Sides, "read" \in node[s].rxt, node[s].tx # None
                   PROVE  TQ!ItemCount(node[s].tx) < TX_SIZE
      BY DEF TxHasRoom
    <2>2. Fine(s, node[s]) /\ node[s] \in Nodes BY <1>1 DEF IInv, NodesFine, Fine
    <2>3. node[s].tx # None /\ Len(node[s].tx.items) <= TX_HIGH
      BY <2>1, <2>2 DEF Fine, Sound, Roomy
    <2>4. Len(node[s].tx.items) \in Nat
      <3>1. node[s].tx \in TQ!Queues(Number) BY <2>2, <2>3, FieldTypes
      <3>2. node[s].tx.items \in Seq(Number) BY <3>1, QueueFields
      <3> QED BY <3>2
    <2> QED BY <2>3, <2>4, Marks DEF TQ!ItemCount
  <1> QED BY <1>1, InductiveInvariant, PTL

-----------------------------------------------------------------------------
(* What is in transit, and what a stretch of it lost leaves.               *)

Less(t, w) == t = w \/ Cable!Shorter(t, w)

LEMMA Tear ==
  ASSUME NEW x \in Seq(Number), NEW y \in Seq(Number), NEW z \in Seq(Number)
  PROVE  Less(x \o z, (x \o y) \o z)
  <1> DEFINE w == (x \o y) \o z
             i == Len(x)
             j == Len(x) + Len(y) + 1
  <1>0. i \in Nat /\ Len(y) \in Nat /\ Len(z) \in Nat OBVIOUS
  <1>1. w \in Seq(Number) /\ Len(w) = Len(x) + Len(y) + Len(z) OBVIOUS
  <1>2. SubSeq(w, 1, i) = x
    <2>1. SubSeq(w, 1, i) \in Seq(Number) /\ Len(SubSeq(w, 1, i)) = Len(x)
          /\ \A k \in 1..Len(x) : SubSeq(w, 1, i)[k] = x[k]
      OBVIOUS
    <2> QED BY <2>1, SeqEqual
  <1>3. SubSeq(w, j, Len(w)) = z
    <2>1. SubSeq(w, j, Len(w)) \in Seq(Number) /\ Len(SubSeq(w, j, Len(w))) = Len(z)
          /\ \A k \in 1..Len(z) : SubSeq(w, j, Len(w))[k] = z[k]
      OBVIOUS
    <2> QED BY <2>1, SeqEqual
  <1>4. i \in 0..Len(w) /\ j \in 1..Len(w)+1 BY <1>0, <1>1
  <1>5. CASE y = <<>> BY <1>5 DEF Less
  <1>6. CASE y # <<>>
    <2>1. Len(y) > 0 /\ Len(x \o z) = Len(x) + Len(z) BY <1>6
    <2>2. Len(x \o z) < Len(w) BY <1>0, <1>1, <2>1
    <2>3. x \o z = SubSeq(w, 1, i) \o SubSeq(w, j, Len(w)) BY <1>2, <1>3
    <2> HIDE DEF w, i, j
    <2>4. Cable!Shorter(x \o z, w) BY <1>4, <2>2, <2>3 DEF Cable!Shorter
    <2> QED BY <2>4 DEF Less, w
  <1> QED BY <1>5, <1>6

\* Concatenation, known by its laws.
Then(a, b) == a \o b
Strings == Seq(Number)

LEMMA ThenLaws ==
  /\ <<>> \in Strings
  /\ \A v \in Number : <<v>> \in Strings
  /\ \A a, b \in Strings : Then(a, b) \in Strings
  /\ \A a, b, c \in Strings : Then(Then(a, b), c) = Then(a, Then(b, c))
  /\ \A a \in Strings : Then(a, <<>>) = a /\ Then(<<>>, a) = a
  /\ \A a \in Strings, v \in Number : Append(a, v) = Then(a, <<v>>)
  /\ \A a \in Strings, v \in Number :
       Then(<<v>>, a) # <<>> /\ Head(Then(<<v>>, a)) = v /\ Tail(Then(<<v>>, a)) = a
  <1>1. <<>> \in Strings BY DEF Strings
  <1>2. ASSUME NEW v \in Number PROVE <<v>> \in Strings BY DEF Strings
  <1>3. ASSUME NEW a \in Strings, NEW b \in Strings PROVE Then(a, b) \in Strings BY DEF Then, Strings
  <1>4. ASSUME NEW a \in Strings, NEW b \in Strings, NEW c \in Strings
        PROVE  Then(Then(a, b), c) = Then(a, Then(b, c))
    BY DEF Then, Strings
  <1>5. ASSUME NEW a \in Strings PROVE Then(a, <<>>) = a /\ Then(<<>>, a) = a BY DEF Then, Strings
  <1>6. ASSUME NEW a \in Strings, NEW v \in Number PROVE Append(a, v) = Then(a, <<v>>)
    BY DEF Then, Strings
  <1>7. ASSUME NEW a \in Strings, NEW v \in Number
        PROVE  Then(<<v>>, a) # <<>> /\ Head(Then(<<v>>, a)) = v /\ Tail(Then(<<v>>, a)) = a
    BY DEF Then, Strings
  <1> QED BY ONLY <1>1, <1>2, <1>3, <1>4, <1>5, <1>6, <1>7, Zenon

LEMMA Chain ==
  /\ \A a, b \in Strings : Then(a, b) \in Strings
  /\ \A a, b, c \in Strings : Then(Then(a, b), c) = Then(a, Then(b, c))
  BY ThenLaws

LEMMA TearThen ==
  ASSUME NEW x \in Strings, NEW y \in Strings, NEW z \in Strings
  PROVE  Less(Then(x, z), Then(x, Then(y, z)))
  <1>1. Less(x \o z, (x \o y) \o z) BY Tear DEF Strings
  <1>2. (x \o y) \o z = x \o (y \o z) BY DEF Strings
  <1> QED BY <1>1, <1>2 DEF Then

\* The parts of what is in transit: what the far side writes out, its receive queue, the data on
\* the air, the transmit queue, and what has just been read.
Five(h, r, d, u, p) == Then(h, Then(r, Then(d, Then(u, p))))

LEMMA FiveIs ==
  ASSUME NEW h \in Strings, NEW r \in Strings, NEW d \in Strings, NEW u \in Strings, NEW p \in Strings
  PROVE  /\ Then(Then(Then(Then(h, r), d), u), p) = Five(h, r, d, u, p)
         /\ Five(h, r, d, u, p) \in Strings
  <1>1. Then(Then(Then(Then(h, r), d), u), p) = Five(h, r, d, u, p)
    <2>1. Then(h, r) \in Strings /\ Then(Then(h, r), d) \in Strings /\ Then(u, p) \in Strings
          /\ Then(d, Then(u, p)) \in Strings
      BY ONLY Chain, h \in Strings, r \in Strings, d \in Strings, u \in Strings, p \in Strings
    <2>2. Then(Then(Then(Then(h, r), d), u), p) = Then(Then(Then(h, r), d), Then(u, p))
      BY <2>1, Chain
    <2>3. Then(Then(Then(h, r), d), Then(u, p)) = Then(Then(h, r), Then(d, Then(u, p)))
      BY <2>1, Chain
    <2>4. Then(Then(h, r), Then(d, Then(u, p))) = Then(h, Then(r, Then(d, Then(u, p))))
      BY <2>1, Chain
    <2> QED BY <2>2, <2>3, <2>4 DEF Five
  <1>2. Five(h, r, d, u, p) \in Strings BY ThenLaws DEF Five
  <1> QED BY <1>1, <1>2

\* A message passes from one part to the next, as it goes in and as it comes out.
LEMMA PassHeld ==
  \A r, d, u, p \in Strings, v \in Number :
    Five(<<v>>, r, d, u, p) = Five(<<>>, Then(<<v>>, r), d, u, p)
  <1> SUFFICES ASSUME NEW r \in Strings, NEW d \in Strings, NEW u \in Strings, NEW p \in Strings,
                      NEW v \in Number
               PROVE  Five(<<v>>, r, d, u, p) = Five(<<>>, Then(<<v>>, r), d, u, p)
    OBVIOUS
  <1> DEFINE e == <<v>>
  <1>1. e \in Strings BY ThenLaws
  <1> HIDE DEF e
  <1>2. Five(e, r, d, u, p) = Five(<<>>, Then(e, r), d, u, p) BY <1>1, ThenLaws DEF Five
  <1> QED BY <1>2 DEF e

LEMMA PassRx ==
  \A h, r, d, u, p \in Strings, v \in Number :
    Five(h, Append(r, v), d, u, p) = Five(h, r, Then(<<v>>, d), u, p)
  <1> SUFFICES ASSUME NEW h \in Strings, NEW r \in Strings, NEW d \in Strings, NEW u \in Strings,
                      NEW p \in Strings, NEW v \in Number
               PROVE  Five(h, Append(r, v), d, u, p) = Five(h, r, Then(<<v>>, d), u, p)
    OBVIOUS
  <1> DEFINE e == <<v>>
  <1>1. e \in Strings /\ Append(r, v) = Then(r, e) BY ThenLaws
  <1> HIDE DEF e
  <1>2. Then(u, p) \in Strings /\ Then(d, Then(u, p)) \in Strings BY Chain
  <1>3. Then(Then(r, e), Then(d, Then(u, p))) = Then(r, Then(e, Then(d, Then(u, p))))
    BY <1>1, <1>2, Chain
  <1>4. Then(Then(e, d), Then(u, p)) = Then(e, Then(d, Then(u, p))) BY <1>1, <1>2, Chain
  <1>5. Five(h, Append(r, v), d, u, p) = Five(h, r, Then(e, d), u, p)
    BY <1>1, <1>3, <1>4 DEF Five
  <1> QED BY <1>5 DEF e

LEMMA PassAir ==
  \A h, r, d, u, p \in Strings, v \in Number :
    Five(h, r, Append(d, v), u, p) = Five(h, r, d, Then(<<v>>, u), p)
  <1> SUFFICES ASSUME NEW h \in Strings, NEW r \in Strings, NEW d \in Strings, NEW u \in Strings,
                      NEW p \in Strings, NEW v \in Number
               PROVE  Five(h, r, Append(d, v), u, p) = Five(h, r, d, Then(<<v>>, u), p)
    OBVIOUS
  <1> DEFINE e == <<v>>
  <1>1. e \in Strings /\ Append(d, v) = Then(d, e) BY ThenLaws
  <1> HIDE DEF e
  <1>2. Then(u, p) \in Strings BY Chain
  <1>3. Then(Then(d, e), Then(u, p)) = Then(d, Then(e, Then(u, p))) BY <1>1, <1>2, Chain
  <1>4. Then(Then(e, u), p) = Then(e, Then(u, p)) BY <1>1, Chain
  <1>5. Five(h, r, Append(d, v), u, p) = Five(h, r, d, Then(e, u), p)
    BY <1>1, <1>3, <1>4 DEF Five
  <1> QED BY <1>5 DEF e

LEMMA PassTx ==
  \A h, r, d, u \in Strings, v \in Number :
    Five(h, r, d, Append(u, v), <<>>) = Five(h, r, d, u, <<v>>)
  <1> SUFFICES ASSUME NEW h \in Strings, NEW r \in Strings, NEW d \in Strings, NEW u \in Strings,
                      NEW v \in Number
               PROVE  Five(h, r, d, Append(u, v), <<>>) = Five(h, r, d, u, <<v>>)
    OBVIOUS
  <1> DEFINE e == <<v>>
  <1>1. e \in Strings /\ Append(u, v) = Then(u, e) BY ThenLaws
  <1> HIDE DEF e
  <1>2. Then(Then(u, e), <<>>) = Then(u, e) BY <1>1, ThenLaws
  <1>3. Five(h, r, d, Append(u, v), <<>>) = Five(h, r, d, u, e) BY <1>1, <1>2 DEF Five
  <1> QED BY <1>3 DEF e

LEMMA PassIn ==
  \A h, r, d, u \in Strings, v \in Number :
    Then(Five(h, r, d, u, <<>>), <<v>>) = Five(h, r, d, u, <<v>>)
  <1> SUFFICES ASSUME NEW h \in Strings, NEW r \in Strings, NEW d \in Strings, NEW u \in Strings,
                      NEW v \in Number
               PROVE  Then(Five(h, r, d, u, <<>>), <<v>>) = Five(h, r, d, u, <<v>>)
    OBVIOUS
  <1> DEFINE e == <<v>>
  <1>1. e \in Strings BY ThenLaws
  <1> HIDE DEF e
  <1>2. Then(u, <<>>) = u BY ThenLaws
  <1>3. Then(Then(h, Then(r, Then(d, u))), e) = Then(h, Then(r, Then(d, Then(u, e))))
    <2>1. Then(d, u) \in Strings /\ Then(r, Then(d, u)) \in Strings BY Chain
    <2>2. Then(Then(d, u), e) = Then(d, Then(u, e)) BY <1>1, Chain
    <2>3. Then(Then(r, Then(d, u)), e) = Then(r, Then(Then(d, u), e)) BY <1>1, <2>1, Chain
    <2>4. Then(Then(h, Then(r, Then(d, u))), e) = Then(h, Then(Then(r, Then(d, u)), e))
      BY <1>1, <2>1, Chain
    <2> QED BY <2>2, <2>3, <2>4
  <1>4. Then(Five(h, r, d, u, <<>>), e) = Five(h, r, d, u, e) BY <1>2, <1>3 DEF Five
  <1> QED BY <1>4 DEF e

LEMMA PassOut ==
  \A r, d, u, p \in Strings, v \in Number :
    Five(<<v>>, r, d, u, p) = Then(<<v>>, Five(<<>>, r, d, u, p))
  <1> SUFFICES ASSUME NEW r \in Strings, NEW d \in Strings, NEW u \in Strings, NEW p \in Strings,
                      NEW v \in Number
               PROVE  Five(<<v>>, r, d, u, p) = Then(<<v>>, Five(<<>>, r, d, u, p))
    OBVIOUS
  <1>1. Five(<<>>, r, d, u, p) = Then(r, Then(d, Then(u, p))) BY ThenLaws DEF Five
  <1> QED BY <1>1 DEF Five

\* A part, or a stretch of one, is lost.
LEMMA Lost ==
  ASSUME NEW h \in Strings, NEW r \in Strings, NEW d \in Strings, NEW u \in Strings,
         NEW p \in Strings, NEW z \in Strings
  PROVE  /\ Less(Five(h, <<>>, d, u, p), Five(h, r, d, u, p))
         /\ Less(Five(h, r, d, u, p), Five(h, r, Then(z, d), u, p))
         /\ Less(Five(h, r, d, u, p), Five(h, r, Then(d, z), u, p))
         /\ Less(Five(h, r, d, <<>>, p), Five(h, r, d, u, p))
         /\ Less(Five(h, r, d, u, <<>>), Five(h, r, d, u, p))
  <1> DEFINE up == Then(u, p)
             dup == Then(d, up)
             hr == Then(h, r)
             hrd == Then(hr, d)
             hrdu == Then(hrd, u)
  <1>1. up \in Strings /\ dup \in Strings /\ hr \in Strings /\ hrd \in Strings /\ hrdu \in Strings
    <2>1. up \in Strings /\ hr \in Strings BY Chain
    <2> HIDE DEF up, hr
    <2>2. dup \in Strings /\ hrd \in Strings BY <2>1, Chain
    <2> HIDE DEF hrd
    <2> QED BY <2>1, <2>2, Chain
  <1>2. /\ \A x, y, c \in Strings : Less(Then(x, y), Then(x, Then(c, y)))
        /\ \A x \in Strings : Then(x, <<>>) = x /\ Then(<<>>, x) = x
        /\ <<>> \in Strings
    BY TearThen, ThenLaws
  <1>3. /\ Five(h, r, d, u, p) = Then(h, Then(r, dup)) /\ Five(h, r, d, u, p) = Then(hr, dup)
        /\ Five(h, r, d, u, p) = Then(hrd, up) /\ Five(h, r, d, u, p) = Then(hrdu, p)
    <2>1. Five(h, r, d, u, p) = Then(h, Then(r, dup)) BY DEF Five
    <2>2. Then(h, Then(r, dup)) = Then(hr, dup) BY <1>1, Chain
    <2>3. Then(hr, dup) = Then(hrd, up) BY <1>1, Chain
    <2>4. Then(hrd, up) = Then(hrdu, p) BY <1>1, Chain
    <2> QED BY ONLY <2>1, <2>2, <2>3, <2>4
  <1>4. Five(h, <<>>, d, u, p) = Then(h, dup) BY <1>1, <1>2 DEF Five
  <1>5. Five(h, r, Then(z, d), u, p) = Then(hr, Then(z, dup))
    <2>1. Then(Then(z, d), up) = Then(z, dup) BY <1>1, Chain
    <2>2. Then(z, dup) \in Strings BY <1>1, Chain
    <2>3. Then(h, Then(r, Then(z, dup))) = Then(hr, Then(z, dup)) BY <1>1, <2>2, Chain
    <2> QED BY <2>1, <2>3 DEF Five
  <1>6. Five(h, r, Then(d, z), u, p) = Then(hrd, Then(z, up))
    <2>1. Then(Then(d, z), up) = Then(d, Then(z, up)) /\ Then(z, up) \in Strings BY <1>1, Chain
    <2> DEFINE zup == Then(z, up)
    <2> HIDE DEF zup
    <2>2. Then(hr, Then(d, zup)) = Then(hrd, zup) /\ Then(d, zup) \in Strings
      BY <1>1, <2>1, Chain DEF zup
    <2>3. Then(h, Then(r, Then(d, zup))) = Then(hr, Then(d, zup)) BY <2>2, Chain
    <2> QED BY <2>1, <2>2, <2>3 DEF Five, zup
  <1>7. Five(h, r, d, <<>>, p) = Then(hrd, p)
    <2>1. Five(h, r, d, <<>>, p) = Then(h, Then(r, Then(d, p))) BY <1>2 DEF Five
    <2>2. Then(d, p) \in Strings /\ Then(h, Then(r, Then(d, p))) = Then(hr, Then(d, p)) BY Chain
    <2>3. Then(hr, Then(d, p)) = Then(hrd, p) BY <1>1, Chain
    <2> QED BY ONLY <2>1, <2>2, <2>3
  <1>8. Five(h, r, d, u, <<>>) = hrdu
    <2>1. Five(h, r, d, u, <<>>) = Then(h, Then(r, Then(d, u))) BY <1>2 DEF Five
    <2>2. Then(d, u) \in Strings /\ Then(h, Then(r, Then(d, u))) = Then(hr, Then(d, u)) BY Chain
    <2>3. Then(hr, Then(d, u)) = hrdu BY <1>1, Chain
    <2> QED BY ONLY <2>1, <2>2, <2>3
  <1> HIDE DEF up, dup, hr, hrd, hrdu
  <1>9. Less(Five(h, r, d, u, <<>>), Five(h, r, d, u, p))
    <2>1. Less(Then(hrdu, <<>>), Then(hrdu, Then(p, <<>>))) BY <1>1, <1>2
    <2>2. Then(hrdu, <<>>) = hrdu /\ Then(p, <<>>) = p BY <1>1, <1>2
    <2> QED BY <1>3, <1>8, <2>1, <2>2
  <1>10. Less(Five(h, <<>>, d, u, p), Five(h, r, d, u, p)) BY <1>1, <1>2, <1>3, <1>4, ZenonT(60)
  <1>11. Less(Five(h, r, d, u, p), Five(h, r, Then(z, d), u, p)) BY <1>1, <1>2, <1>3, <1>5, ZenonT(60)
  <1>12. Less(Five(h, r, d, u, p), Five(h, r, Then(d, z), u, p)) BY <1>1, <1>2, <1>3, <1>6, ZenonT(60)
  <1>13. Less(Five(h, r, d, <<>>, p), Five(h, r, d, u, p))
    <2>1. Five(h, r, d, u, p) = Then(hrd, Then(u, p)) BY <1>3 DEF up
    <2> QED BY <1>1, <1>2, <1>7, <2>1
  <1> QED BY <1>9, <1>10, <1>11, <1>12, <1>13

-----------------------------------------------------------------------------
(* What is in transit, by its parts.                                       *)

Wire(m, a, n) == Five(One(m.held), Items(m.rx), DataIn(a), Unsent(n), One(n.data))

Holds(n) == /\ One(n.held) \in Strings /\ Items(n.rx) \in Strings
            /\ Unsent(n) \in Strings /\ One(n.data) \in Strings
SameLoad(m, n) == /\ One(m.held) = One(n.held) /\ Items(m.rx) = Items(n.rx)
                  /\ Unsent(m) = Unsent(n) /\ One(m.data) = One(n.data)

LEMMA FineHolds ==
  ASSUME NEW s \in Sides, NEW n, Fine(s, n)
  PROVE  Holds(n)
  <1>1. n \in Nodes BY DEF Fine
  <1>2. <<>> \in Strings /\ \A v \in Number : <<v>> \in Strings BY ThenLaws
  <1>3. One(n.held) \in Strings /\ One(n.data) \in Strings
    <2>1. (n.held # None => n.held \in Number) /\ (n.data # None => n.data \in Number)
      BY <1>1, FieldTypes
    <2> QED BY <1>2, <2>1 DEF One
  <1>4. Items(n.rx) \in Strings /\ Items(n.tx) \in Strings
    <2>1. /\ n.rx # None => n.rx.items \in Seq(Number)
          /\ n.tx # None => n.tx.items \in Seq(Number)
      BY <1>1, FieldTypes, QueueFields
    <2> QED BY <1>2, <2>1 DEF Items, Strings
  <1>5. n.sent => n.tx # None /\ n.tx.items # <<>> BY DEF Fine, Sound
  <1>6. n.sent => Tail(n.tx.items) \in Strings
    <2>1. \A x \in Seq(Number) : x # <<>> => Tail(x) \in Seq(Number) BY HeadTailProperties
    <2> QED BY <1>4, <1>5, <2>1 DEF Items, Strings
  <1>7. Unsent(n) \in Strings BY <1>2, <1>4, <1>6 DEF Unsent
  <1> QED BY <1>3, <1>4, <1>7 DEF Holds

LEMMA DataTyped ==
  ASSUME IInv, NEW t \in Sides
  PROVE  air[t] \in Seq(Events) /\ DataIn(air[t]) \in Strings
  <1>1. air[t] \in Seq(Events) BY DEF IInv, AirFits, AllAttached
  <1> QED BY <1>1, DataInType DEF Strings

LEMMA WireIs ==
  ASSUME NEW m, NEW n, NEW a, Holds(m), Holds(n), DataIn(a) \in Strings
  PROVE  One(m.held) \o Items(m.rx) \o DataIn(a) \o Unsent(n) \o One(n.data) = Wire(m, a, n)
  <1> DEFINE h == One(m.held)
             r == Items(m.rx)
             d == DataIn(a)
             u == Unsent(n)
             p == One(n.data)
  <1>1. h \in Strings /\ r \in Strings /\ d \in Strings /\ u \in Strings /\ p \in Strings
    BY DEF Holds
  <1>2. Wire(m, a, n) = Five(h, r, d, u, p) BY DEF Wire
  <1> HIDE DEF h, r, d, u, p
  <1>3. Then(Then(Then(Then(h, r), d), u), p) = Five(h, r, d, u, p) BY ONLY <1>1, FiveIs
  <1> QED BY <1>2, <1>3 DEF Then, h, r, d, u, p

LEMMA InTransitIs ==
  ASSUME IInv, NEW t \in Sides
  PROVE  InTransit(t) = Wire(node[Other(t)], air[t], node[t]) /\ Holds(node[t])
  <1>1. Holds(node[t]) /\ Holds(node[Other(t)]) /\ DataIn(air[t]) \in Strings
    BY FineHolds, DataTyped, SideOf DEF IInv, NodesFine
  <1> QED BY <1>1, WireIs DEF InTransit

\* What a step of one side, which leaves m of it, does to what is in transit.
LEMMA TwoWires ==
  ASSUME IInv, IInv', NEW s \in Sides, NEW m, node' = [node EXCEPT ![s] = m]
  PROVE  /\ InTransit(s) = Wire(node[Other(s)], air[s], node[s])
         /\ InTransit(s)' = Wire(node[Other(s)], air'[s], m)
         /\ InTransit(Other(s)) = Wire(node[s], air[Other(s)], node[Other(s)])
         /\ InTransit(Other(s))' = Wire(m, air'[Other(s)], node[Other(s)])
         /\ Holds(node[s]) /\ Holds(m) /\ Holds(node[Other(s)])
         /\ \A t \in Sides : DataIn(air[t]) \in Strings /\ DataIn(air'[t]) \in Strings
         /\ \A t \in Sides : t = s \/ t = Other(s)
         /\ Other(s) \in Sides
  <1>1. Other(s) \in Sides /\ Other(Other(s)) = s /\ \A t \in Sides : t = s \/ t = Other(s)
    BY SideOf
  <1>2. node'[s] = m /\ node'[Other(s)] = node[Other(s)]
    BY SideOf DEF IInv, NodesFine
  <1>3. ASSUME NEW t \in Sides
        PROVE  /\ InTransit(t) = Wire(node[Other(t)], air[t], node[t]) /\ Holds(node[t])
               /\ DataIn(air[t]) \in Strings
    BY InTransitIs, DataTyped
  <1>4. ASSUME NEW t \in Sides
        PROVE  /\ InTransit(t)' = Wire(node'[Other(t)], air'[t], node'[t]) /\ Holds(node'[t])
               /\ DataIn(air'[t]) \in Strings
    <2>1. \A x \in Sides : Holds(node'[x]) BY FineHolds DEF IInv, NodesFine
    <2>2. air'[t] \in Seq(Events) BY DEF IInv, AirFits, AllAttached
    <2>3. DataIn(air'[t]) \in Strings BY <2>2, DataInType DEF Strings
    <2> QED BY <2>1, <2>3, SideOf, WireIs DEF InTransit
  <1> QED BY <1>1, <1>2, <1>3, <1>4

-----------------------------------------------------------------------------
(* Steps of the cable.                                                     *)

Wires == [s \in Sides |-> InTransit(s)]
CableStep == [Cable!Next /\ UNCHANGED Firm]_<<Firm, Wires, in, out>>

LEMMA Idle ==
  ASSUME UNCHANGED <<in, out, scenario>>, \A t \in Sides : InTransit(t)' = InTransit(t)
  PROVE  CableStep
  BY DEF CableStep, Wires, Firm

LEMMA Loses ==
  ASSUME ~Firm, UNCHANGED <<in, out, scenario>>,
         \A t \in Sides : Less(InTransit(t)', InTransit(t))
  PROVE  CableStep
  <1>1. Cable!Lose BY DEF Cable!Lose, Firm, Less
  <1> QED BY <1>1 DEF CableStep, Cable!Next, Firm

LEMMA Puts ==
  ASSUME NEW s \in Sides, UNCHANGED <<out, scenario>>, in' = [in EXCEPT ![s] = Following(@)],
         InTransit(s)' = Append(InTransit(s), in[s]),
         InTransit(Other(s))' = InTransit(Other(s))
  PROVE  CableStep
  <1>1. \A t \in Sides : t = s \/ t = Other(s) BY SideOf
  <1>2. Cable!Put(s) BY <1>1 DEF Cable!Put, Cable!Following, Following
  <1> QED BY <1>2 DEF CableStep, Cable!Next, Firm

LEMMA Gets ==
  ASSUME NEW s \in Sides, UNCHANGED <<in, scenario>>, InTransit(s) # <<>>,
         out' = [out EXCEPT ![s] = Following(Head(InTransit(s)))],
         InTransit(s)' = Tail(InTransit(s)), InTransit(Other(s))' = InTransit(Other(s))
  PROVE  CableStep
  <1>1. \A t \in Sides : t = s \/ t = Other(s) BY SideOf
  <1>2. Cable!Get(s) BY <1>1 DEF Cable!Get, Cable!Following, Following
  <1> QED BY <1>2 DEF CableStep, Cable!Next, Firm

\* A step of one side that leaves the messages where they are.
LEMMA Quiet ==
  ASSUME IInv, IInv', NEW s \in Sides, NEW m, node' = [node EXCEPT ![s] = m],
         SameLoad(m, node[s]), \A t \in Sides : DataIn(air'[t]) = DataIn(air[t]),
         UNCHANGED <<in, out, scenario>>
  PROVE  CableStep
  <1>1. InTransit(s)' = InTransit(s)
    <2>1. Wire(node[Other(s)], air'[s], m) = Wire(node[Other(s)], air[s], node[s])
      BY DEF Wire, SameLoad
    <2> QED BY <2>1, TwoWires
  <1>2. InTransit(Other(s))' = InTransit(Other(s))
    <2>1. Wire(m, air'[Other(s)], node[Other(s)]) = Wire(node[s], air[Other(s)], node[Other(s)])
      BY SideOf DEF Wire, SameLoad
    <2> QED BY <2>1, TwoWires
  <1>3. \A t \in Sides : InTransit(t)' = InTransit(t)
    <2>1. \A t \in Sides : t = s \/ t = Other(s) BY SideOf
    <2> QED BY <1>1, <1>2, <2>1
  <1> QED BY <1>3, Idle

LEMMA TakenAir ==
  ASSUME IInv, NEW s \in Sides, NEW type, Handles(s, type)
  PROVE  /\ Taken(s)[s] = air[s] /\ Taken(s) \in [Sides -> Seq(Events)]
         /\ type # "data" => \A t \in Sides : DataIn(Taken(s)[t]) = DataIn(air[t])
         /\ type = "data" =>
              /\ Head(Incoming(s)).value \in Number
              /\ DataIn(air[Other(s)]) = Then(<<Head(Incoming(s)).value>>, DataIn(Taken(s)[Other(s)]))
  <1> DEFINE a == Incoming(s)
  <1>1. /\ a = air[Other(s)] /\ a \in Seq(Events) /\ a # <<>> /\ Head(a) \in Events
        /\ Head(a).type = type /\ Taken(s)[Other(s)] = Tail(a) /\ Taken(s)[s] = air[s]
        /\ Taken(s) \in [Sides -> Seq(Events)]
    BY InHand
  <1> HIDE DEF a
  <1>2. DataIn(a) = IF type = "data" THEN <<Head(a).value>> \o DataIn(Tail(a)) ELSE DataIn(Tail(a))
    BY <1>1, DataInTail
  <1>3. type # "data" => \A t \in Sides : DataIn(Taken(s)[t]) = DataIn(air[t])
    <2>1. \A t \in Sides : t = s \/ t = Other(s) BY SideOf
    <2> QED BY <1>1, <1>2, <2>1
  <1>4. type = "data" => Head(a).value \in Number BY <1>1, EventTypes
  <1> QED BY <1>1, <1>2, <1>3, <1>4 DEF Then, a

LEMMA TakenQuiet ==
  ASSUME IInv, NEW s \in Sides, Handles(s, "flow") \/ Handles(s, "ccc") \/ Handles(s, "gap")
  PROVE  /\ Taken(s) \in [Sides -> Seq(Events)]
         /\ \A t \in Sides : DataIn(Taken(s)[t]) = DataIn(air[t])
  <1>1. PICK type \in {"flow", "ccc", "gap"} : Handles(s, type) OBVIOUS
  <1>2. type # "data" OBVIOUS
  <1>3. /\ Taken(s) \in [Sides -> Seq(Events)]
        /\ type # "data" => \A t \in Sides : DataIn(Taken(s)[t]) = DataIn(air[t])
    BY <1>1, TakenAir
  <1> QED BY ONLY <1>2, <1>3

LEMMA CallAir ==
  ASSUME NEW s \in Sides, NEW r \in [Sides -> Seq(Events)], NEW p,
         p = <<>> \/ \E e \in Events : e.type # "data" /\ p = <<e>>, Call(s, r, p)
  PROVE  \A t \in Sides : DataIn(air'[t]) = DataIn(r[t])
  <1>1. CASE air' = r BY <1>1
  <1>2. CASE air' = Handed(s, r, p)
    <2>1. CASE p = <<>>
      <3>1. \E e \in Events : TRUE
        <4>1. Flow("on") \in Events BY EventTypes
        <4> QED BY <4>1
      <3>2. Handed(s, r, <<>>) = r BY <3>1, HandedOne
      <3> QED BY <1>2, <2>1, <3>2
    <2>2. CASE p # <<>>
      <3>1. PICK e \in Events : e.type # "data" /\ p = <<e>> BY <2>2
      <3>2. CASE link # "up" BY <1>2, <3>1, <3>2, HandedOne
      <3>3. CASE link = "up"
        <4>1. air'[s] = Append(r[s], e) /\ air'[Other(s)] = r[Other(s)] /\ r[s] \in Seq(Events)
          BY <1>2, <3>1, <3>3, HandedOne
        <4>2. DataIn(air'[s]) = DataIn(r[s]) BY <3>1, <4>1, DataInAppend
        <4>3. \A t \in Sides : t = s \/ t = Other(s) BY SideOf
        <4> QED BY <4>1, <4>2, <4>3
      <3> QED BY <3>2, <3>3
    <2> QED BY <2>1, <2>2
  <1> QED BY <1>1, <1>2 DEF Call

-----------------------------------------------------------------------------
(* Every step is one of the cable: the serial ports.                       *)

LEMMA RxReadPuts == ASSUME IInv, NEW s \in Sides, RxRead(s) PROVE CableStep
  <1> DEFINE n == node[s]
             m == [n EXCEPT !.reading = FALSE, !.data = in[s], !.rxt = @ \cup {"read"}]
             v == in[s]
  <1>1. /\ node' = [node EXCEPT ![s] = m] /\ in' = [in EXCEPT ![s] = Following(@)]
        /\ UNCHANGED <<air, out, scenario>> /\ n.reading
    BY DEF RxRead
  <1>2. IInv' /\ n \in Nodes /\ v \in Number /\ v # None
    BY RxReadStep, LinkAssumption DEF IInv, NodesFine, Fine, RestOK
  <1>3. n.data = None BY <1>1 DEF IInv, NodesFine, Fine, Sound
  <1>4. /\ m.held = n.held /\ m.rx = n.rx /\ m.data = v /\ m.conn = n.conn /\ m.sent = n.sent
        /\ m.tx = n.tx
    BY <1>2 DEF Nodes
  <1> HIDE DEF m
  <1>5. /\ One(n.data) = <<>> /\ One(m.data) = <<v>> /\ Unsent(m) = Unsent(n)
        /\ One(m.held) = One(n.held) /\ Items(m.rx) = Items(n.rx)
    BY <1>2, <1>3, <1>4 DEF One, Unsent
  <1>6. InTransit(s)' = Append(InTransit(s), v)
    <2> DEFINE k == node[Other(s)]
    <2>1. /\ Holds(n) /\ Holds(k) /\ DataIn(air[s]) \in Strings
          /\ InTransit(s) = Wire(k, air[s], n) /\ InTransit(s)' = Wire(k, air[s], m)
      BY <1>1, <1>2, TwoWires
    <2> HIDE DEF k, n, v
    <2>2. Wire(k, air[s], m) = Five(One(k.held), Items(k.rx), DataIn(air[s]), Unsent(n), <<v>>)
      BY <1>5 DEF Wire
    <2>3. Wire(k, air[s], n) = Five(One(k.held), Items(k.rx), DataIn(air[s]), Unsent(n), <<>>)
      BY <1>5 DEF Wire
    <2>4. <<>> \in Strings BY ThenLaws
    <2> DEFINE h == One(k.held)
               r == Items(k.rx)
               a == DataIn(air[s])
               u == Unsent(n)
    <2>5. h \in Strings /\ r \in Strings /\ a \in Strings /\ u \in Strings BY <2>1 DEF Holds
    <2>6. InTransit(s)' = Five(h, r, a, u, <<v>>) /\ InTransit(s) = Five(h, r, a, u, <<>>)
      BY <2>1, <2>2, <2>3
    <2>7. v \in Number BY <1>2
    <2> HIDE DEF h, r, a, u
    <2>8. Then(Five(h, r, a, u, <<>>), <<v>>) = Five(h, r, a, u, <<v>>)
      BY ONLY <2>5, <2>7, PassIn
    <2>9. Five(h, r, a, u, <<>>) \in Strings BY <2>4, <2>5, FiveIs
    <2>10. Append(Five(h, r, a, u, <<>>), v) = Then(Five(h, r, a, u, <<>>), <<v>>)
      BY <2>7, <2>9, ThenLaws
    <2> QED BY ONLY <2>6, <2>8, <2>10
  <1>7. InTransit(Other(s))' = InTransit(Other(s))
    <2>1. Wire(m, air[Other(s)], node[Other(s)]) = Wire(n, air[Other(s)], node[Other(s)])
      BY <1>5 DEF Wire
    <2> QED BY <1>1, <1>2, <2>1, TwoWires
  <1> QED BY <1>1, <1>6, <1>7, Puts

LEMMA RxTimeoutIdle == ASSUME IInv, NEW s \in Sides, RxTimeout(s) PROVE CableStep
  <1> DEFINE n == node[s]
             m == [n EXCEPT !.reading = FALSE, !.rxt = @ \cup {"start"}]
  <1>1. node' = [node EXCEPT ![s] = m] /\ UNCHANGED <<air, in, out, scenario>> BY DEF RxTimeout
  <1>2. IInv' /\ n \in Nodes BY RxTimeoutStep DEF IInv, NodesFine, Fine
  <1>3. SameLoad(m, n) BY <1>2 DEF SameLoad, Unsent, Nodes
  <1> HIDE DEF m
  <1> QED BY <1>1, <1>2, <1>3, Quiet

LEMMA QueueFullIdle == ASSUME IInv, NEW s \in Sides, QueueFull(s) PROVE CableStep
  <1> DEFINE n == node[s]
             m == [n EXCEPT !.halt = TRUE]
  <1>1. node' = [node EXCEPT ![s] = m] /\ UNCHANGED <<air, in, out, scenario>> BY DEF QueueFull
  <1>2. IInv' /\ n \in Nodes BY QueueFullStep DEF IInv, NodesFine, Fine
  <1>3. SameLoad(m, n) BY <1>2 DEF SameLoad, Unsent, Nodes
  <1> HIDE DEF m
  <1> QED BY <1>1, <1>2, <1>3, Quiet

\* Only one end of one wire changes.
LEMMA SenderOnly ==
  ASSUME IInv, IInv', NEW s \in Sides, NEW m, node' = [node EXCEPT ![s] = m],
         One(m.held) = One(node[s].held), Items(m.rx) = Items(node[s].rx),
         DataIn(air'[Other(s)]) = DataIn(air[Other(s)])
  PROVE  InTransit(Other(s))' = InTransit(Other(s))
  <1>1. Wire(m, air'[Other(s)], node[Other(s)]) = Wire(node[s], air[Other(s)], node[Other(s)])
    BY DEF Wire
  <1> QED BY <1>1, TwoWires

LEMMA ReceiverOnly ==
  ASSUME IInv, IInv', NEW s \in Sides, NEW m, node' = [node EXCEPT ![s] = m],
         Unsent(m) = Unsent(node[s]), One(m.data) = One(node[s].data),
         DataIn(air'[s]) = DataIn(air[s])
  PROVE  InTransit(s)' = InTransit(s)
  <1>1. Wire(node[Other(s)], air'[s], m) = Wire(node[Other(s)], air[s], node[s])
    BY DEF Wire
  <1> QED BY <1>1, TwoWires

\* dsps_rx_task stores its message in the queue, unless the connection is gone.
LEMMA RxWakeMoves == ASSUME IInv, Kept, NEW s \in Sides, RxWake(s) PROVE CableStep
  <1> DEFINE n == node[s]
             stores == "read" \in n.rxt
             q == TQ!Write(n.tx, n.data)
             ready == n.ready /\ ~(stores /\ n.tx # None /\ TQ!AlmostFull(q))
             t == IF stores /\ n.tx # None THEN TQ!CheckedFull(q) ELSE n.tx
             d == IF stores THEN None ELSE n.data
             m == [n EXCEPT !.tx = t,
                            !.fault = @ \/ (stores /\ n.tx = None),
                            !.data = d,
                            !.ready = ready,
                            !.ble = @ \/ stores,
                            !.rxt = IF stores THEN {"start"} ELSE {},
                            !.reading = "start" \in n.rxt /\ n.conn /\ ready]
             v == n.data
  <1>1. node' = [node EXCEPT ![s] = m] /\ UNCHANGED <<air, in, out, scenario>> BY DEF RxWake
  <1>2. IInv' /\ n \in Nodes /\ Fine(s, n) BY RxWakeStep DEF IInv, NodesFine, Fine
  <1>3. /\ m.held = n.held /\ m.rx = n.rx /\ m.conn = n.conn /\ m.sent = n.sent
        /\ m.tx = t /\ m.data = d
    <2> HIDE DEF t, d, q, ready
    <2> QED BY <1>2 DEF Nodes
  <1>4. CASE ~stores
    <2>1. m.tx = n.tx /\ m.data = n.data BY <1>3, <1>4
    <2> HIDE DEF m
    <2>2. SameLoad(m, n) BY <1>3, <2>1 DEF SameLoad, Unsent
    <2> QED BY <1>1, <1>2, <2>2, Quiet
  <1>5. CASE stores /\ n.tx # None
    <2>1. v \in Number /\ v # None /\ n.tx # None /\ n.tx \in TQ!Queues(Number)
      BY <1>2, <1>5, FieldTypes DEF Fine, Sound
    <2>2. /\ n.tx.items \in Seq(Number) /\ t \in TQ!Queues(Number)
          /\ t.items = Append(n.tx.items, v)
      <3>1. q \in TQ!Queues(Number) /\ q.items = Append(n.tx.items, v) /\ n.tx.items \in Seq(Number)
        BY <2>1, QueueOps
      <3>2. t = TQ!CheckedFull(q) BY <1>5, <2>1
      <3> HIDE DEF q, t
      <3> QED BY <2>1, <3>1, <3>2, QueueOps
    <2>3. d = None /\ t # None BY <1>5, <2>2, QueueFields
    <2> HIDE DEF m, t, d, q
    <2>4. One(m.data) = <<>> /\ One(n.data) = <<v>> /\ One(m.held) = One(n.held)
          /\ Items(m.rx) = Items(n.rx)
      BY <1>3, <2>1, <2>3 DEF One
    <2>5. InTransit(Other(s))' = InTransit(Other(s)) BY <1>1, <1>2, <2>4, SenderOnly
    <2> DEFINE k == node[Other(s)]
               h == One(k.held)
               r == Items(k.rx)
               a == DataIn(air[s])
               u == Unsent(n)
    <2>6. /\ Holds(n) /\ Holds(k) /\ Holds(m) /\ a \in Strings
          /\ InTransit(s) = Wire(k, air[s], n) /\ InTransit(s)' = Wire(k, air[s], m)
      BY <1>1, <1>2, TwoWires
    <2>7. h \in Strings /\ r \in Strings /\ u \in Strings /\ <<>> \in Strings /\ <<v>> \in Strings
      BY <2>1, <2>6, ThenLaws DEF Holds
    <2>8. InTransit(s) = Five(h, r, a, u, <<v>>) /\ InTransit(s)' = Five(h, r, a, Unsent(m), <<>>)
      BY <2>4, <2>6 DEF Wire
    <2>9. CASE n.conn
      <3>1. Unsent(m) = Append(u, v)
        <4>1. CASE n.sent
          <5>1. n.tx.items # <<>> BY <1>2, <4>1 DEF Fine, Sound
          <5>2. \A x \in Seq(Number) : x # <<>> => Tail(Append(x, v)) = Append(Tail(x), v)
            BY <2>1
          <5>3. Unsent(m) = Tail(t.items) /\ u = Tail(n.tx.items)
            BY <1>3, <2>9, <4>1 DEF Unsent
          <5> QED BY <2>2, <5>1, <5>2, <5>3
        <4>2. CASE ~n.sent
          <5>1. Unsent(m) = t.items /\ u = n.tx.items
            BY <1>3, <2>1, <2>3, <2>9, <4>2 DEF Unsent, Items
          <5> QED BY <2>2, <5>1
        <4> QED BY <4>1, <4>2
      <3> HIDE DEF k, h, r, a, u, v
      <3>2. Five(h, r, a, Append(u, v), <<>>) = Five(h, r, a, u, <<v>>)
        BY ONLY <2>1, <2>6, <2>7, PassTx
      <3>4. InTransit(s)' = InTransit(s) BY ONLY <2>8, <3>1, <3>2
      <3>3. \A x \in Sides : InTransit(x)' = InTransit(x)
        <4>1. \A x \in Sides : x = s \/ x = Other(s) BY SideOf
        <4> QED BY <2>5, <3>4, <4>1
      <3> QED BY <1>1, <3>3, Idle
    <2>10. CASE ~n.conn
      <3>1. Unsent(m) = <<>> /\ u = <<>> BY <1>3, <2>10 DEF Unsent
      <3>2. ~Firm BY <2>1, <2>10, FirmUp
      <3> HIDE DEF k, h, r, a, u, v
      <3>3. Less(InTransit(s)', InTransit(s)) BY <2>6, <2>7, <2>8, <3>1, Lost
      <3>4. \A x \in Sides : Less(InTransit(x)', InTransit(x))
        <4>1. \A x \in Sides : x = s \/ x = Other(s) BY SideOf
        <4> QED BY <2>5, <3>3, <4>1 DEF Less
      <3> QED BY <1>1, <3>2, <3>4, Loses
    <2> QED BY <2>9, <2>10
  <1>6. CASE stores /\ n.tx = None
    <2>1. v \in Number /\ v # None /\ m.tx = None /\ m.data = None
      BY <1>2, <1>3, <1>6, FieldTypes DEF Fine, Sound
    <2>2. ~n.sent BY <1>2, <1>6 DEF Fine, Sound
    <2>3. ~Firm BY <1>6, <2>1 DEF Kept, Whole
    <2> HIDE DEF m, t, d, q
    <2>4. One(m.data) = <<>> /\ One(m.held) = One(n.held) /\ Items(m.rx) = Items(n.rx)
          /\ Unsent(m) = <<>> /\ Unsent(n) = <<>>
      BY <1>3, <1>6, <2>1, <2>2 DEF One, Unsent, Items
    <2>5. InTransit(Other(s))' = InTransit(Other(s)) BY <1>1, <1>2, <2>4, SenderOnly
    <2> DEFINE k == node[Other(s)]
               h == One(k.held)
               r == Items(k.rx)
               a == DataIn(air[s])
    <2>6. /\ Holds(n) /\ Holds(k) /\ Holds(m) /\ a \in Strings
          /\ InTransit(s) = Wire(k, air[s], n) /\ InTransit(s)' = Wire(k, air[s], m)
      BY <1>1, <1>2, TwoWires
    <2>7. h \in Strings /\ r \in Strings /\ <<>> \in Strings /\ One(n.data) \in Strings
      BY <2>6, ThenLaws DEF Holds
    <2>8. InTransit(s) = Five(h, r, a, <<>>, One(n.data)) /\ InTransit(s)' = Five(h, r, a, <<>>, <<>>)
      BY <2>4, <2>6 DEF Wire
    <2> HIDE DEF k, h, r, a, v
    <2>9. Less(InTransit(s)', InTransit(s)) BY <2>6, <2>7, <2>8, Lost
    <2>10. \A x \in Sides : Less(InTransit(x)', InTransit(x))
      <3>1. \A x \in Sides : x = s \/ x = Other(s) BY SideOf
      <3> QED BY <2>5, <2>9, <3>1 DEF Less
    <2> QED BY <1>1, <2>3, <2>10, Loses
  <1> QED BY <1>4, <1>5, <1>6

LEMMA TxTakeMoves == ASSUME IInv, NEW s \in Sides, TxTake(s) PROVE CableStep
  <1> DEFINE n == node[s]
             h == Head(n.rx.items)
             q == RQ!Pop(n.rx)
             some == [n EXCEPT !.txt = FALSE, !.held = h, !.rx = q]
             none == [n EXCEPT !.txt = FALSE]
             m == IF Items(n.rx) = <<>> THEN none ELSE some
  <1>1. node' = [node EXCEPT ![s] = m] /\ UNCHANGED <<air, in, out, scenario>> BY DEF TxTake
  <1>2. IInv' /\ n \in Nodes /\ Fine(s, n) /\ n.held = None
    BY TxTakeStep DEF IInv, NodesFine, Fine, TxTake
  <1>3. CASE Items(n.rx) = <<>>
    <2>1. SameLoad(none, n) BY <1>2 DEF SameLoad, Unsent, Nodes
    <2>2. m = none BY <1>3
    <2> HIDE DEF m, none
    <2> QED BY <1>1, <1>2, <2>1, <2>2, Quiet
  <1>4. CASE Items(n.rx) # <<>>
    <2>1. n.rx # None /\ n.rx \in TQ!Queues(Number) BY <1>2, <1>4, FieldTypes DEF Items
    <2>2. n.rx.items \in Seq(Number) /\ n.rx.items # <<>> BY <1>4, <2>1, QueueFields DEF Items
    <2>3. h \in Number /\ Tail(n.rx.items) \in Seq(Number) BY <2>2, HeadTailProperties
    <2>4. q \in TQ!Queues(Number) /\ q.items = Tail(n.rx.items) BY <2>1, <2>2, <2>3, QueueOps
    <2>5. q # None /\ h # None BY <2>3, <2>4, QueueFields, LinkAssumption
    <2>6. n.rx.items = Then(<<h>>, Tail(n.rx.items)) BY <2>2 DEF Then
    <2>7. m = some BY <1>4
    <2> HIDE DEF m, h, q
    <2>8. /\ some.held = h /\ some.rx = q /\ some.data = n.data /\ some.conn = n.conn
          /\ some.sent = n.sent /\ some.tx = n.tx
      BY <1>2 DEF Nodes
    <2> HIDE DEF some
    <2>9. /\ One(n.held) = <<>> /\ One(m.held) = <<h>> /\ Items(m.rx) = Tail(n.rx.items)
          /\ Items(n.rx) = n.rx.items /\ Unsent(m) = Unsent(n) /\ One(m.data) = One(n.data)
      BY <1>2, <2>1, <2>4, <2>5, <2>7, <2>8 DEF One, Items, Unsent
    <2>10. InTransit(s)' = InTransit(s) BY <1>1, <1>2, <2>9, ReceiverOnly
    <2> DEFINE k == node[Other(s)]
               r == Tail(n.rx.items)
               a == DataIn(air[Other(s)])
               u == Unsent(k)
               p == One(k.data)
    <2>11. /\ Holds(n) /\ Holds(k) /\ Holds(m) /\ a \in Strings
           /\ InTransit(Other(s)) = Wire(n, air[Other(s)], k)
           /\ InTransit(Other(s))' = Wire(m, air[Other(s)], k)
      BY <1>1, <1>2, TwoWires
    <2>12. r \in Strings /\ u \in Strings /\ p \in Strings BY <2>3, <2>11 DEF Holds, Strings
    <2>13. /\ InTransit(Other(s)) = Five(<<>>, Then(<<h>>, r), a, u, p)
           /\ InTransit(Other(s))' = Five(<<h>>, r, a, u, p)
      BY <2>6, <2>9, <2>11 DEF Wire
    <2> HIDE DEF k, r, a, u, p
    <2>14. Five(<<h>>, r, a, u, p) = Five(<<>>, Then(<<h>>, r), a, u, p)
      BY ONLY <2>3, <2>11, <2>12, PassHeld
    <2>15. InTransit(Other(s))' = InTransit(Other(s)) BY ONLY <2>13, <2>14
    <2>16. \A x \in Sides : InTransit(x)' = InTransit(x)
      <3>1. \A x \in Sides : x = s \/ x = Other(s) BY SideOf
      <3> QED BY <2>10, <2>15, <3>1
    <2> QED BY <1>1, <2>16, Idle
  <1> QED BY <1>3, <1>4

LEMMA TxWrittenGets == ASSUME IInv, Kept, NEW s \in Sides, TxWritten(s) PROVE CableStep
  <1> DEFINE q == node[s].rx
             v == node[s].held
             b == node[s].txt \/ Items(q) # <<>>
             f == node[s].fault \/ q = None
             c == IF q = None THEN None ELSE RQ!CheckedEmpty(q)
             n == [node[s] EXCEPT !.held = None, !.rx = c, !.txt = b, !.fault = f]
  <1>1. Fine(s, node[s]) /\ node[s] \in Nodes /\ v # None /\ v \in Number /\ IInv'
    BY FieldTypes, TxWrittenStep DEF IInv, NodesFine, Fine, TxWritten
  <1>3. PICK low \in FoundLow(q) :
           /\ IF low
              THEN /\ node' = [node EXCEPT ![s] = FlowSet(s, n, "on")]
                   /\ Call(s, air, FlowSent(s, n, "on"))
              ELSE /\ node' = [node EXCEPT ![s] = n]
                   /\ UNCHANGED <<air, fails>>
           /\ \/ out' = [out EXCEPT ![Other(s)] = Following(v)]
              \/ q = None /\ UNCHANGED out
           /\ UNCHANGED <<link, in, turn, losses, scenario>>
    BY Zenon DEF TxWritten
  <1> DEFINE m == IF low THEN FlowSet(s, n, "on") ELSE n
  <1>4. Items(c) = Items(q)
    <2>1. CASE q = None BY <2>1
    <2>2. CASE q # None
      <3>1. q \in TQ!Queues(Number) BY <1>1, <2>2, FieldTypes
      <3>2. c = RQ!CheckedEmpty(q) BY <2>2
      <3>3. c \in TQ!Queues(Number) /\ c.items = q.items BY <1>1, <3>1, <3>2, QueueOps
      <3> HIDE DEF c
      <3> QED BY <2>2, <3>3, QueueFields DEF Items
    <2> QED BY <2>1, <2>2
  <1>5. b \in BOOLEAN /\ f \in BOOLEAN BY <1>1, FieldTypes
  <1>6. n \in Nodes
    <2>1. Fine(s, n)
      <3> HIDE DEF b, f
      <3> QED BY <1>1, <1>5, FineWritten
    <2> QED BY <2>1 DEF Fine
  <1> HIDE DEF c, b, f
  <1>7. /\ n.held = None /\ n.rx = c /\ n.data = node[s].data /\ n.conn = node[s].conn
        /\ n.sent = node[s].sent /\ n.tx = node[s].tx
    BY <1>1 DEF Nodes
  <1> HIDE DEF n
  <1>8. /\ m.held = None /\ m.rx = c /\ m.data = node[s].data /\ m.conn = node[s].conn
        /\ m.sent = node[s].sent /\ m.tx = node[s].tx
    BY <1>6, <1>7, FlowFields
  <1>9. node' = [node EXCEPT ![s] = m] BY <1>3
  <1> HIDE DEF m
  <1>10. \A t \in Sides : DataIn(air'[t]) = DataIn(air[t])
    <2>1. CASE ~low BY <1>3, <2>1
    <2>2. CASE low
      <3>1. air \in [Sides -> Seq(Events)] BY DEF IInv, AirFits, AllAttached
      <3>2. FlowSent(s, n, "on") = <<>> \/ \E e \in Events : e.type # "data" /\ FlowSent(s, n, "on") = <<e>>
        BY FlowPackets
      <3> QED BY <1>3, <2>2, <3>1, <3>2, CallAir
    <2> QED BY <2>1, <2>2
  <1>11. /\ One(node[s].held) = <<v>> /\ One(m.held) = <<>> /\ Items(m.rx) = Items(node[s].rx)
         /\ Unsent(m) = Unsent(node[s]) /\ One(m.data) = One(node[s].data)
    BY <1>1, <1>4, <1>8 DEF One, Unsent
  <1>12. InTransit(s)' = InTransit(s) BY <1>1, <1>9, <1>10, <1>11, ReceiverOnly
  <1> DEFINE k == node[Other(s)]
             r == Items(node[s].rx)
             a == DataIn(air[Other(s)])
             u == Unsent(k)
             p == One(k.data)
  <1>13. /\ Holds(node[s]) /\ Holds(k) /\ a \in Strings /\ Other(s) \in Sides
         /\ InTransit(Other(s)) = Wire(node[s], air[Other(s)], k)
         /\ InTransit(Other(s))' = Wire(m, air'[Other(s)], k)
    BY <1>1, <1>9, TwoWires
  <1>14. r \in Strings /\ u \in Strings /\ p \in Strings BY <1>13 DEF Holds
  <1>15. /\ InTransit(Other(s)) = Five(<<v>>, r, a, u, p)
         /\ InTransit(Other(s))' = Five(<<>>, r, a, u, p)
    BY <1>10, <1>11, <1>13 DEF Wire
  <1>150. q = None => ~Firm BY <1>1 DEF Kept, Whole, Fine, Sound
  <1> HIDE DEF k, r, a, u, p, v
  <1>16. v \in Number /\ a \in Strings BY <1>1, <1>13
  <1>17. /\ InTransit(Other(s)) # <<>> /\ Head(InTransit(Other(s))) = v
         /\ InTransit(Other(s))' = Tail(InTransit(Other(s)))
         /\ Less(InTransit(Other(s))', InTransit(Other(s)))
    <2>1. Five(<<v>>, r, a, u, p) = Then(<<v>>, Five(<<>>, r, a, u, p))
      BY ONLY <1>16, <1>14, PassOut
    <2>2. Five(<<>>, r, a, u, p) \in Strings
      <3>1. <<>> \in Strings BY ThenLaws
      <3> QED BY <1>14, <1>16, <3>1, FiveIs
    <2> DEFINE w == Five(<<>>, r, a, u, p)
    <2>3. InTransit(Other(s)) = Then(<<v>>, w) /\ InTransit(Other(s))' = w BY ONLY <1>15, <2>1
    <2> HIDE DEF w
    <2>4. Then(<<v>>, w) # <<>> /\ Head(Then(<<v>>, w)) = v /\ Tail(Then(<<v>>, w)) = w
      BY <1>16, <2>2, ThenLaws DEF w
    <2>5. Less(w, Then(<<v>>, w))
      <3>1. <<>> \in Strings /\ <<v>> \in Strings /\ Then(<<v>>, w) \in Strings
        BY <1>16, <2>2, ThenLaws, Chain DEF w
      <3>2. Less(Then(<<>>, w), Then(<<>>, Then(<<v>>, w))) BY <2>2, <3>1, TearThen DEF w
      <3> QED BY <2>2, <3>1, <3>2, ThenLaws DEF w
    <2> QED BY <2>3, <2>4, <2>5
  <1>18. Other(Other(s)) = s BY SideOf
  <1>19. CASE out' = [out EXCEPT ![Other(s)] = Following(v)]
    BY <1>3, <1>12, <1>13, <1>17, <1>18, <1>19, Gets
  <1>20. CASE q = None /\ UNCHANGED out
    <2>1. \A t \in Sides : Less(InTransit(t)', InTransit(t))
      <3>1. \A t \in Sides : t = s \/ t = Other(s) BY SideOf
      <3> QED BY <1>12, <1>17, <3>1 DEF Less
    <2> QED BY <1>3, <1>20, <1>150, <2>1, Loses
  <1> QED BY <1>3, <1>19, <1>20

-----------------------------------------------------------------------------
(* Every step is one of the cable: the BLE task.                           *)

LEMMA IgnoreDataLoses == ASSUME IInv, NEW s \in Sides, IgnoreData(s) PROVE CableStep
  <1>1. Handles(s, "data") /\ air' = Taken(s) /\ UNCHANGED <<node, in, out, scenario>>
    BY DEF IgnoreData
  <1>2. IInv' /\ ~Firm /\ node' = [node EXCEPT ![s] = node[s]]
    <2>1. node' = [node EXCEPT ![s] = node[s]] BY <1>1 DEF IInv, NodesFine
    <2> QED BY <2>1, IgnoreDataStep, NoneIgnored
  <1> DEFINE k == node[Other(s)]
             v == Head(Incoming(s)).value
             h == One(node[s].held)
             r == Items(node[s].rx)
             a == DataIn(air'[Other(s)])
             u == Unsent(k)
             p == One(k.data)
  <1>3. v \in Number /\ DataIn(air[Other(s)]) = Then(<<v>>, a) /\ air'[s] = air[s]
    BY <1>1, TakenAir
  <1>4. InTransit(s)' = InTransit(s) BY <1>2, <1>3, ReceiverOnly
  <1>5. /\ Holds(node[s]) /\ Holds(k) /\ a \in Strings
        /\ InTransit(Other(s)) = Wire(node[s], air[Other(s)], k)
        /\ InTransit(Other(s))' = Wire(node[s], air'[Other(s)], k)
    BY <1>2, TwoWires
  <1>6. h \in Strings /\ r \in Strings /\ u \in Strings /\ p \in Strings /\ <<v>> \in Strings
    BY <1>3, <1>5, ThenLaws DEF Holds
  <1>7. /\ InTransit(Other(s)) = Five(h, r, Then(<<v>>, a), u, p)
        /\ InTransit(Other(s))' = Five(h, r, a, u, p)
    BY <1>3, <1>5 DEF Wire
  <1> HIDE DEF k, v, h, r, a, u, p
  <1>8. Less(Five(h, r, a, u, p), Five(h, r, Then(<<v>>, a), u, p)) BY ONLY <1>5, <1>6, Lost
  <1>9. \A x \in Sides : Less(InTransit(x)', InTransit(x))
    <2>1. \A x \in Sides : x = s \/ x = Other(s) BY SideOf
    <2>2. Less(InTransit(Other(s))', InTransit(Other(s))) BY <1>7, <1>8
    <2> QED BY <1>4, <2>1, <2>2 DEF Less
  <1> QED BY <1>1, <1>2, <1>9, Loses

LEMMA ReceiveDataMoves == ASSUME IInv, NEW s \in Sides, ReceiveData(s) PROVE CableStep
  <1> DEFINE v == Head(Incoming(s)).value
             w == RQ!Write(node[s].rx, v)
             q == RQ!CheckedFull(w)
             n == [node[s] EXCEPT !.rx = q, !.txt = TRUE]
             full == RQ!AlmostFull(w)
             m == IF full THEN FlowSet(s, n, "off") ELSE n
  <1>1. /\ Handles(s, "data") /\ node[s].rx # None
        /\ IF full
           THEN /\ node' = [node EXCEPT ![s] = FlowSet(s, n, "off")]
                /\ Call(s, Taken(s), FlowSent(s, n, "off"))
           ELSE /\ node' = [node EXCEPT ![s] = n]
                /\ air' = Taken(s) /\ UNCHANGED fails
        /\ UNCHANGED <<in, out, scenario>>
    BY DEF ReceiveData
  <1>2. IInv' /\ Fine(s, node[s]) /\ node[s] \in Nodes BY ReceiveDataStep DEF IInv, NodesFine, Fine
  <1>3. v \in Number /\ Taken(s) \in [Sides -> Seq(Events)] /\ Taken(s)[s] = air[s]
        /\ DataIn(air[Other(s)]) = Then(<<v>>, DataIn(Taken(s)[Other(s)]))
    BY <1>1, TakenAir
  <1>4. /\ q \in TQ!Queues(Number) /\ q # None /\ node[s].rx.items \in Seq(Number)
        /\ q.items = Append(node[s].rx.items, v)
    <2>1. node[s].rx \in TQ!Queues(Number) BY <1>1, <1>2, FieldTypes
    <2>2. w \in TQ!Queues(Number) /\ w.items = Append(node[s].rx.items, v)
          /\ node[s].rx.items \in Seq(Number)
      BY <1>3, <2>1, QueueOps, SMTT(30)
    <2> HIDE DEF w
    <2>3. q \in TQ!Queues(Number) /\ q.items = w.items BY <1>3, <2>2, QueueOps
    <2> HIDE DEF q
    <2> QED BY <2>2, <2>3, QueueFields
  <1>5. n \in Nodes
    <2> HIDE DEF q, w, v
    <2>1. Fine(s, n) BY <1>1, <1>2, <1>4, FineStored
    <2> QED BY <2>1 DEF Fine
  <1> HIDE DEF q, full, w
  <1>6. /\ n.held = node[s].held /\ n.rx = q /\ n.data = node[s].data
        /\ n.conn = node[s].conn /\ n.sent = node[s].sent /\ n.tx = node[s].tx
    BY <1>2 DEF Nodes
  <1> HIDE DEF n
  <1>7. /\ m.held = node[s].held /\ m.rx = q /\ m.data = node[s].data
        /\ m.conn = node[s].conn /\ m.sent = node[s].sent /\ m.tx = node[s].tx
    BY <1>5, <1>6, FlowFields
  <1>8. node' = [node EXCEPT ![s] = m] BY <1>1
  <1> HIDE DEF m
  <1>9. \A t \in Sides : DataIn(air'[t]) = DataIn(Taken(s)[t])
    <2>1. CASE ~full BY <1>1, <2>1
    <2>2. CASE full
      <3>1. FlowSent(s, n, "off") = <<>>
            \/ \E e \in Events : e.type # "data" /\ FlowSent(s, n, "off") = <<e>>
        BY FlowPackets
      <3> QED BY <1>1, <1>3, <2>2, <3>1, CallAir
    <2> QED BY <2>1, <2>2
  <1>10. /\ One(m.held) = One(node[s].held) /\ Items(m.rx) = Append(Items(node[s].rx), v)
         /\ Unsent(m) = Unsent(node[s]) /\ One(m.data) = One(node[s].data)
    BY <1>1, <1>4, <1>7 DEF One, Items, Unsent
  <1>11. InTransit(s)' = InTransit(s) BY <1>2, <1>3, <1>8, <1>9, <1>10, ReceiverOnly
  <1> DEFINE k == node[Other(s)]
             h == One(node[s].held)
             r == Items(node[s].rx)
             a == DataIn(air'[Other(s)])
             u == Unsent(k)
             p == One(k.data)
  <1>12. /\ Holds(node[s]) /\ Holds(k) /\ a \in Strings
         /\ InTransit(Other(s)) = Wire(node[s], air[Other(s)], k)
         /\ InTransit(Other(s))' = Wire(m, air'[Other(s)], k)
    BY <1>2, <1>8, TwoWires
  <1>13. h \in Strings /\ r \in Strings /\ u \in Strings /\ p \in Strings BY <1>12 DEF Holds
  <1>14. DataIn(air[Other(s)]) = Then(<<v>>, a) BY <1>3, <1>9, SideOf
  <1>15. /\ InTransit(Other(s)) = Five(h, r, Then(<<v>>, a), u, p)
         /\ InTransit(Other(s))' = Five(h, Append(r, v), a, u, p)
    BY <1>10, <1>12, <1>14 DEF Wire
  <1> HIDE DEF k, h, r, a, u, p, v
  <1>16. Five(h, Append(r, v), a, u, p) = Five(h, r, Then(<<v>>, a), u, p)
    BY ONLY <1>3, <1>12, <1>13, PassRx
  <1>17. InTransit(Other(s))' = InTransit(Other(s)) BY ONLY <1>15, <1>16
  <1>18. \A x \in Sides : InTransit(x)' = InTransit(x)
    <2>1. \A x \in Sides : x = s \/ x = Other(s) BY SideOf
    <2> QED BY <1>11, <1>17, <2>1
  <1> QED BY <1>1, <1>18, Idle

LEMMA PeriphReceiveFlowIdle == ASSUME IInv, PeriphReceiveFlow PROVE CableStep
  <1> DEFINE v == Head(Incoming("P")).value
             n == node["P"]
             m == PeriphFlow(n, v)
  <1>1. /\ Handles("P", "flow") /\ node' = [node EXCEPT !["P"] = m]
        /\ Call("P", Taken("P"), PeriphNotified(n, v))
        /\ UNCHANGED <<in, out, scenario>> /\ "P" \in Sides
    BY DEF PeriphReceiveFlow, Sides
  <1>2. IInv' /\ n \in Nodes BY <1>1, PeriphReceiveFlowStep DEF IInv, NodesFine, Fine
  <1>3. v \in {"on", "off"}
    <2>1. Head(Incoming("P")) \in Events /\ Head(Incoming("P")).type = "flow" BY <1>1, InHand
    <2> QED BY ONLY <2>1, EventTypes
  <1>4. FlowSet("P", n, v) = m /\ FlowSent("P", n, v) = PeriphNotified(n, v)
    BY DEF FlowSet, FlowSent
  <1> HIDE DEF m
  <1>5. SameLoad(m, n)
    <2>1. /\ m.held = n.held /\ m.rx = n.rx /\ m.data = n.data /\ m.conn = n.conn
          /\ m.sent = n.sent /\ m.tx = n.tx
      BY <1>1, <1>2, <1>3, <1>4, FlowFields
    <2> QED BY <2>1 DEF SameLoad, Unsent
  <1>6. \A t \in Sides : DataIn(air'[t]) = DataIn(air[t])
    <2>1. /\ Taken("P") \in [Sides -> Seq(Events)]
          /\ \A t \in Sides : DataIn(Taken("P")[t]) = DataIn(air[t])
      BY <1>1, TakenQuiet
    <2>2. PeriphNotified(n, v) = <<>>
          \/ \E e \in Events : e.type # "data" /\ PeriphNotified(n, v) = <<e>>
      BY <1>1, <1>3, <1>4, FlowPackets
    <2> QED BY <1>1, <2>1, <2>2, CallAir
  <1> QED BY <1>1, <1>2, <1>5, <1>6, Quiet

LEMMA PeriphReceiveCccIdle == ASSUME IInv, PeriphReceiveCcc PROVE CableStep
  <1> DEFINE h == Head(Incoming("P")).value
             n == node["P"]
             m == [n EXCEPT !.ccc = @ \cup {h}]
             p == IF h = "flow" THEN <<Flow(n.flow)>> ELSE <<>>
  <1>1. /\ Handles("P", "ccc") /\ node' = [node EXCEPT !["P"] = m]
        /\ Call("P", Taken("P"), p) /\ UNCHANGED <<in, out, scenario>> /\ "P" \in Sides
    BY DEF PeriphReceiveCcc, Sides
  <1>2. IInv' /\ n \in Nodes BY <1>1, PeriphReceiveCccStep DEF IInv, NodesFine, Fine
  <1>3. SameLoad(m, n) BY <1>2 DEF SameLoad, Unsent, Nodes
  <1>4. \A t \in Sides : DataIn(air'[t]) = DataIn(air[t])
    <2>1. /\ Taken("P") \in [Sides -> Seq(Events)]
          /\ \A t \in Sides : DataIn(Taken("P")[t]) = DataIn(air[t])
      BY <1>1, TakenQuiet
    <2>2. p = <<>> \/ \E e \in Events : e.type # "data" /\ p = <<e>>
      <3>1. n.flow \in {"on", "off"} BY <1>2, FieldTypes
      <3>2. Flow(n.flow) \in Events /\ Flow(n.flow).type # "data" BY <3>1, EventTypes
      <3> QED BY <3>2
    <2> HIDE DEF p
    <2> QED BY <1>1, <2>1, <2>2, CallAir
  <1> HIDE DEF m
  <1> QED BY <1>1, <1>2, <1>3, <1>4, Quiet

LEMMA CentralReceiveFlowIdle == ASSUME IInv, CentralReceiveFlow PROVE CableStep
  <1> DEFINE v == Head(Incoming("C")).value
             n == node["C"]
             m == [n EXCEPT !.flow = v, !.ble = @ \/ v = "on"]
  <1>1. /\ Handles("C", "flow") /\ node' = [node EXCEPT !["C"] = m] /\ air' = Taken("C")
        /\ UNCHANGED <<in, out, scenario>> /\ "C" \in Sides
    BY DEF CentralReceiveFlow, Sides
  <1>2. IInv' /\ n \in Nodes BY <1>1, CentralReceiveFlowStep DEF IInv, NodesFine, Fine
  <1>3. SameLoad(m, n) BY <1>2 DEF SameLoad, Unsent, Nodes
  <1>4. \A t \in Sides : DataIn(air'[t]) = DataIn(air[t]) BY <1>1, TakenQuiet
  <1> HIDE DEF m
  <1> QED BY <1>1, <1>2, <1>3, <1>4, Quiet

LEMMA BleTxMoves == ASSUME IInv, NEW s \in Sides, BleTx(s) PROVE CableStep
  <1> DEFINE n == node[s]
             v == Head(n.tx.items)
             idle == [n EXCEPT !.ble = FALSE]
             sends == [n EXCEPT !.ble = FALSE, !.inprog = TRUE, !.sent = TRUE]
             refused == [n EXCEPT !.ble = FALSE, !.inprog = s = "P"]
  <1>1. /\ ~n.closing /\ UNCHANGED <<in, out, scenario>>
        /\ \/ node' = [node EXCEPT ![s] = idle] /\ UNCHANGED air
           \/ /\ MaySend(s) /\ link = "up" /\ node' = [node EXCEPT ![s] = sends]
              /\ air' = Handed(s, air, <<Data(v)>>)
           \/ node' = [node EXCEPT ![s] = refused] /\ UNCHANGED air
    BY DEF BleTx
  <1>2. IInv' /\ n \in Nodes BY BleTxStep DEF IInv, NodesFine, Fine
  <1>3. CASE node' = [node EXCEPT ![s] = idle] /\ UNCHANGED air
    <2>1. SameLoad(idle, n) BY <1>2 DEF SameLoad, Unsent, Nodes
    <2> HIDE DEF idle
    <2> QED BY <1>1, <1>2, <1>3, <2>1, Quiet
  <1>4. CASE node' = [node EXCEPT ![s] = refused] /\ UNCHANGED air
    <2>1. SameLoad(refused, n) BY <1>2 DEF SameLoad, Unsent, Nodes
    <2> HIDE DEF refused
    <2> QED BY <1>1, <1>2, <1>4, <2>1, Quiet
  <1>5. CASE /\ MaySend(s) /\ link = "up" /\ node' = [node EXCEPT ![s] = sends]
             /\ air' = Handed(s, air, <<Data(v)>>)
    <2>1. /\ ~n.sent /\ n.conn /\ n.tx # None /\ n.tx.items \in Seq(Number) /\ n.tx.items # <<>>
          /\ v \in Number /\ Data(v) \in Events /\ Data(v).type = "data" /\ Data(v).value = v
      BY <1>1, <1>5, Sending
    <2>2. n.tx.items = Then(<<v>>, Tail(n.tx.items)) /\ Tail(n.tx.items) \in Strings
      BY <2>1 DEF Then, Strings
    <2>3. /\ sends.held = n.held /\ sends.rx = n.rx /\ sends.data = n.data
          /\ sends.conn = n.conn /\ sends.sent /\ sends.tx = n.tx
      BY <1>2 DEF Nodes
    <2> HIDE DEF sends
    <2>4. /\ One(sends.held) = One(n.held) /\ Items(sends.rx) = Items(n.rx)
          /\ One(sends.data) = One(n.data)
          /\ Unsent(sends) = Tail(n.tx.items) /\ Unsent(n) = n.tx.items
      BY <2>1, <2>3 DEF Unsent, Items
    <2>5. /\ air \in [Sides -> Seq(Events)] /\ air[s] \in Seq(Events)
          /\ air'[s] = Append(air[s], Data(v)) /\ air'[Other(s)] = air[Other(s)]
      <3>1. air \in [Sides -> Seq(Events)] BY DEF IInv, AirFits, AllAttached
      <3> QED BY <1>5, <2>1, <3>1, HandedOne
    <2>6. DataIn(air'[s]) = Append(DataIn(air[s]), v) BY <2>1, <2>5, DataInAppend
    <2>7. InTransit(Other(s))' = InTransit(Other(s)) BY <1>2, <1>5, <2>4, <2>5, SenderOnly
    <2> DEFINE k == node[Other(s)]
               h == One(k.held)
               r == Items(k.rx)
               a == DataIn(air[s])
               u == Tail(n.tx.items)
               p == One(n.data)
    <2>8. /\ Holds(n) /\ Holds(k) /\ a \in Strings
          /\ InTransit(s) = Wire(k, air[s], n) /\ InTransit(s)' = Wire(k, air'[s], sends)
      BY <1>2, <1>5, TwoWires
    <2>9. h \in Strings /\ r \in Strings /\ u \in Strings /\ p \in Strings
      BY <2>2, <2>8 DEF Holds
    <2>10. InTransit(s)' = Five(h, r, Append(a, v), u, p) BY <2>4, <2>6, <2>8 DEF Wire
    <2>11. InTransit(s) = Five(h, r, a, Then(<<v>>, u), p) BY <2>2, <2>4, <2>8 DEF Wire
    <2> HIDE DEF k, h, r, a, u, p, v
    <2>12. Five(h, r, Append(a, v), u, p) = Five(h, r, a, Then(<<v>>, u), p)
      BY ONLY <2>1, <2>8, <2>9, PassAir
    <2>13. InTransit(s)' = InTransit(s) BY ONLY <2>10, <2>11, <2>12
    <2>14. \A x \in Sides : InTransit(x)' = InTransit(x)
      <3>1. \A x \in Sides : x = s \/ x = Other(s) BY SideOf
      <3> QED BY <2>7, <2>13, <3>1
    <2> QED BY <1>1, <2>14, Idle
  <1> QED BY <1>1, <1>3, <1>4, <1>5

LEMMA TxDoneIdle == ASSUME IInv, NEW s \in Sides, TxDone(s) PROVE CableStep
  <1> DEFINE n == node[s]
             q == TQ!Pop(n.tx)
             again == TQ!AlmostEmpty(q)
             b == n.ble \/ TQ!ItemCount(q) > 0
             t == TQ!CheckedEmpty(q)
             m == [n EXCEPT !.inprog = FALSE, !.sent = FALSE, !.tx = t, !.ready = @ \/ again,
                            !.rxt = IF again THEN @ \cup {"start"} ELSE @, !.ble = b]
  <1>1. node' = [node EXCEPT ![s] = m] /\ UNCHANGED <<air, in, out, scenario>> BY DEF TxDone
  <1>2. IInv' /\ n \in Nodes /\ Fine(s, n) /\ n.sent
    BY TxDoneStep DEF IInv, NodesFine, Fine, TxDone
  <1>3. n.tx # None /\ n.tx \in TQ!Queues(Number) /\ n.tx.items # <<>> /\ n.conn
    BY <1>2, FieldTypes DEF Fine, Sound
  <1>4. t # None /\ t.items = Tail(n.tx.items)
    <2>0. 0 \in Number BY LinkAssumption DEF Number
    <2>1. q \in TQ!Queues(Number) /\ q.items = Tail(n.tx.items) BY <1>3, <2>0, QueueOps
    <2> HIDE DEF q
    <2>2. t \in TQ!Queues(Number) /\ t.items = q.items BY <2>0, <2>1, QueueOps
    <2> HIDE DEF t
    <2> QED BY <2>1, <2>2, QueueFields
  <1> HIDE DEF q, t, again, b
  <1>5. /\ m.held = n.held /\ m.rx = n.rx /\ m.data = n.data /\ m.conn = n.conn
        /\ m.sent = FALSE /\ m.tx = t
    BY <1>2 DEF Nodes
  <1> HIDE DEF m
  <1>6. SameLoad(m, n) BY <1>2, <1>3, <1>4, <1>5 DEF SameLoad, Unsent, Items
  <1> QED BY <1>1, <1>2, <1>6, Quiet

-----------------------------------------------------------------------------
(* Every step is one of the cable: connections.                            *)

LEMMA ConnectedIdle == ASSUME IInv, NEW s \in Sides, Connected(s) PROVE CableStep
  <1> DEFINE n == node[s]
             wide == [WithQueues(n) EXCEPT !.conn = TRUE]
             bare == [n EXCEPT !.conn = TRUE]
             m == IF s = "P" THEN wide ELSE bare
  <1>1. /\ Handles(s, "gap") /\ Head(Incoming(s)).value = "begin"
        /\ node' = [node EXCEPT ![s] = m] /\ air' = Taken(s) /\ UNCHANGED <<in, out, scenario>>
    BY DEF Connected
  <1>2. IInv' /\ Fine(s, n) /\ n \in Nodes /\ ~n.closing /\ ~n.conn
    <2>1. Head(Incoming(s)) \in Events /\ Head(Incoming(s)).type = "gap" BY <1>1, InHand
    <2>2. Head(Incoming(s)) = Gap("begin") BY ONLY <1>1, <2>1, EventTypes
    <2> QED BY <1>1, <2>2, InHand, AttachedGap, ConnectedStep
  <1>3. n.tx = None /\ n.rx = None /\ ~n.sent BY <1>2 DEF Fine, Sound
  <1>4. /\ m.held = n.held /\ m.data = n.data /\ m.sent = n.sent
        /\ m.tx = None \/ m.tx = TQ!New
        /\ m.rx = None \/ m.rx = RQ!New
    <2>1. TQ!New \in {None} \cup TQ!Queues(Number) BY NewQueue
    <2> QED BY <1>2, <1>3, <2>1 DEF Nodes, WithQueues
  <1> HIDE DEF m
  <1>5. Items(m.tx) = <<>> /\ Items(n.tx) = <<>> /\ Items(m.rx) = <<>> /\ Items(n.rx) = <<>>
    BY <1>3, <1>4, NewQueue DEF Items
  <1>6. SameLoad(m, n) BY <1>2, <1>3, <1>4, <1>5 DEF SameLoad, Unsent
  <1>7. \A t \in Sides : DataIn(air'[t]) = DataIn(air[t]) BY <1>1, TakenQuiet
  <1> QED BY <1>1, <1>2, <1>6, <1>7, Quiet

LEMMA BrowsedIdle == ASSUME IInv, Browsed PROVE CableStep
  <1> DEFINE n == node["C"]
             m == [WithQueues(n) EXCEPT !.rxt = @ \cup {"start"}]
             x == Ccc("tx")
             y == Ccc("flow")
             z == Flow("on")
  <1>1. /\ n.tx = None /\ node' = [node EXCEPT !["C"] = m]
        /\ air' = Handed("C", air, <<x, y, z>>)
        /\ UNCHANGED <<in, out, scenario>>
        /\ "C" \in Sides
    BY DEF Browsed, Sides
  <1>2. IInv' /\ Fine("C", n) /\ n \in Nodes BY <1>1, BrowsedStep DEF IInv, NodesFine, Fine
  <1>3. n.rx = None /\ ~n.sent BY <1>1, <1>2 DEF Fine, Sound
  <1>4. /\ m.held = n.held /\ m.data = n.data /\ m.sent = n.sent /\ m.conn = n.conn
        /\ m.tx = TQ!New /\ m.rx = RQ!New
    <2> DEFINE w == WithQueues(n)
    <2>1. w = [n EXCEPT !.tx = TQ!New, !.rx = RQ!New, !.ready = TRUE] BY DEF WithQueues
    <2>2. /\ w.held = n.held /\ w.data = n.data /\ w.sent = n.sent /\ w.conn = n.conn
          /\ w.tx = TQ!New /\ w.rx = RQ!New
      BY <1>2, <2>1 DEF Nodes
    <2>3. w \in [DOMAIN n -> UNION {{w[f]} : f \in DOMAIN n}] BY <1>2, <2>1 DEF Nodes
    <2> QED BY <1>2 DEF Nodes, WithQueues
  <1> HIDE DEF m
  <1>5. Items(m.tx) = <<>> /\ Items(n.tx) = <<>> /\ Items(m.rx) = <<>> /\ Items(n.rx) = <<>>
    BY <1>1, <1>3, <1>4, NewQueue DEF Items
  <1>6. SameLoad(m, n) BY <1>3, <1>4, <1>5 DEF SameLoad, Unsent
  <1>7. \A t \in Sides : DataIn(air'[t]) = DataIn(air[t])
    <2>1. air \in [Sides -> Seq(Events)] BY DEF IInv, AirFits, AllAttached
    <2>2. CASE link # "up" BY <1>1, <2>1, <2>2 DEF Handed
    <2>3. CASE link = "up"
      <3> DEFINE r1 == Handed("C", air, <<x>>)
                 r2 == Handed("C", r1, <<y>>)
                 r3 == Handed("C", r2, <<z>>)
      <3>1. air' = r3 BY <1>1, <2>1, <2>3, BrowsedAir
      <3>2. /\ x \in Events /\ y \in Events /\ z \in Events
            /\ x.type # "data" /\ y.type # "data" /\ z.type # "data"
        BY EventTypes
      <3>3. ASSUME NEW r \in [Sides -> Seq(Events)], NEW e \in Events, e.type # "data"
            PROVE  /\ Handed("C", r, <<e>>) \in [Sides -> Seq(Events)]
                   /\ \A t \in Sides : DataIn(Handed("C", r, <<e>>)[t]) = DataIn(r[t])
        <4>1. /\ Handed("C", r, <<e>>)["C"] = Append(r["C"], e) /\ r["C"] \in Seq(Events)
              /\ Handed("C", r, <<e>>)[Other("C")] = r[Other("C")]
              /\ Handed("C", r, <<e>>) \in [Sides -> Seq(Events)]
          BY <1>1, <2>3, HandedOne
        <4>2. DataIn(Append(r["C"], e)) = DataIn(r["C"]) BY <3>3, <4>1, DataInAppend
        <4>3. \A t \in Sides : t = "C" \/ t = Other("C") BY <1>1, SideOf
        <4> QED BY <4>1, <4>2, <4>3
      <3> HIDE DEF x, y, z
      <3>4. r1 \in [Sides -> Seq(Events)] /\ \A t \in Sides : DataIn(r1[t]) = DataIn(air[t])
        BY <2>1, <3>2, <3>3
      <3> HIDE DEF r1
      <3>5. r2 \in [Sides -> Seq(Events)] /\ \A t \in Sides : DataIn(r2[t]) = DataIn(r1[t])
        BY <3>2, <3>3, <3>4
      <3> HIDE DEF r2
      <3>6. \A t \in Sides : DataIn(r3[t]) = DataIn(r2[t]) BY <3>2, <3>3, <3>5
      <3> QED BY <3>1, <3>4, <3>5, <3>6
    <2> QED BY <2>2, <2>3
  <1> QED BY <1>1, <1>2, <1>6, <1>7, Quiet

LEMMA LinkUpIdle == ASSUME IInv, LinkUp PROVE CableStep
  <1> DEFINE a == <<Gap("begin")>>
  <1>1. /\ \A s \in Sides : air[s] = <<>>
        /\ air' = [s \in Sides |-> a] /\ UNCHANGED <<node, in, out, scenario>>
    BY DEF LinkUp
  <1>2. DataIn(a) = <<>> /\ DataIn(<<>>) = <<>>
    <2>1. Gap("begin") \in Events /\ Gap("begin").type # "data" BY EventTypes
    <2>2. a = Append(<<>>, Gap("begin")) /\ <<>> \in Seq(Events) BY <2>1
    <2> HIDE DEF a
    <2> QED BY <2>1, <2>2, DataInEmpty, DataInAppend
  <1> HIDE DEF a
  <1>3. node' = [node EXCEPT !["P"] = node["P"]] /\ "P" \in Sides
    BY <1>1 DEF IInv, NodesFine, Sides
  <1>4. \A t \in Sides : DataIn(air'[t]) = DataIn(air[t]) BY <1>1, <1>2
  <1>5. SameLoad(node["P"], node["P"]) BY DEF SameLoad
  <1> QED BY <1>1, <1>3, <1>4, <1>5, LinkUpStep, Quiet

LEMMA DisconnectedLoses == ASSUME IInv, NEW s \in Sides, Disconnected(s) PROVE CableStep
  <1> DEFINE n == node[s]
             m == Cut(s, n)
  <1>1. /\ Handles(s, "gap") /\ node' = [node EXCEPT ![s] = m] /\ air' = Taken(s)
        /\ UNCHANGED <<in, out, scenario>>
    BY DEF Disconnected
  <1>2. IInv' /\ ~Firm /\ n \in Nodes BY DisconnectedStep DEF IInv, NodesFine, Fine
  <1>3. m.held = n.held /\ m.rx = n.rx /\ m.data = n.data /\ ~m.conn BY <1>2 DEF Cut, Nodes
  <1> HIDE DEF m
  <1>4. \A t \in Sides : DataIn(air'[t]) = DataIn(air[t]) BY <1>1, TakenQuiet
  <1>5. /\ One(m.held) = One(n.held) /\ Items(m.rx) = Items(n.rx)
        /\ One(m.data) = One(n.data) /\ Unsent(m) = <<>>
    BY <1>3 DEF Unsent
  <1>6. InTransit(Other(s))' = InTransit(Other(s)) BY <1>1, <1>2, <1>4, <1>5, SideOf, SenderOnly
  <1> DEFINE k == node[Other(s)]
             h == One(k.held)
             r == Items(k.rx)
             a == DataIn(air[s])
             u == Unsent(n)
             p == One(n.data)
  <1>7. /\ Holds(n) /\ Holds(k) /\ a \in Strings
        /\ InTransit(s) = Wire(k, air[s], n) /\ InTransit(s)' = Wire(k, air'[s], m)
    BY <1>1, <1>2, TwoWires, ZenonT(60)
  <1>8. h \in Strings /\ r \in Strings /\ u \in Strings /\ p \in Strings BY <1>7 DEF Holds
  <1>9. InTransit(s) = Five(h, r, a, u, p) /\ InTransit(s)' = Five(h, r, a, <<>>, p)
    BY <1>4, <1>5, <1>7 DEF Wire
  <1> HIDE DEF k, h, r, a, u, p
  <1>10. Less(Five(h, r, a, <<>>, p), Five(h, r, a, u, p)) BY ONLY <1>7, <1>8, Lost
  <1>11. \A x \in Sides : Less(InTransit(x)', InTransit(x))
    <2>1. \A x \in Sides : x = s \/ x = Other(s) BY SideOf
    <2>2. Less(InTransit(s)', InTransit(s)) BY <1>9, <1>10
    <2> QED BY <1>6, <2>1, <2>2 DEF Less
  <1> QED BY <1>1, <1>2, <1>11, Loses

LEMMA FreeQueuesLoses == ASSUME IInv, NEW s \in Sides, FreeQueues(s) PROVE CableStep
  <1> DEFINE n == node[s]
             m == [n EXCEPT !.tx = None, !.rx = None, !.closing = FALSE]
  <1>1. n.closing /\ node' = [node EXCEPT ![s] = m] /\ UNCHANGED <<air, in, out, scenario>>
    BY DEF FreeQueues
  <1>2. IInv' /\ ~Firm /\ Fine(s, n) /\ n \in Nodes BY FreeQueuesStep DEF IInv, NodesFine, Fine
  <1>3. ~n.conn BY <1>1, <1>2 DEF Fine, Sound
  <1>4. m.held = n.held /\ m.rx = None /\ m.data = n.data /\ ~m.conn BY <1>2, <1>3 DEF Nodes
  <1> HIDE DEF m
  <1>5. /\ One(m.held) = One(n.held) /\ Items(m.rx) = <<>>
        /\ One(m.data) = One(n.data) /\ Unsent(m) = Unsent(n)
    BY <1>3, <1>4 DEF Unsent, Items
  <1>6. InTransit(s)' = InTransit(s) BY <1>1, <1>2, <1>5, ReceiverOnly
  <1> DEFINE k == node[Other(s)]
             h == One(n.held)
             r == Items(n.rx)
             a == DataIn(air[Other(s)])
             u == Unsent(k)
             p == One(k.data)
  <1>7. /\ Holds(n) /\ Holds(k) /\ a \in Strings
        /\ InTransit(Other(s)) = Wire(n, air[Other(s)], k)
        /\ InTransit(Other(s))' = Wire(m, air[Other(s)], k)
    BY <1>1, <1>2, TwoWires
  <1>8. h \in Strings /\ r \in Strings /\ u \in Strings /\ p \in Strings BY <1>7 DEF Holds
  <1>9. /\ InTransit(Other(s)) = Five(h, r, a, u, p)
        /\ InTransit(Other(s))' = Five(h, <<>>, a, u, p)
    BY <1>5, <1>7 DEF Wire
  <1> HIDE DEF k, h, r, a, u, p
  <1>10. Less(Five(h, <<>>, a, u, p), Five(h, r, a, u, p)) BY ONLY <1>7, <1>8, Lost
  <1>11. \A x \in Sides : Less(InTransit(x)', InTransit(x))
    <2>1. \A x \in Sides : x = s \/ x = Other(s) BY SideOf
    <2>2. Less(InTransit(Other(s))', InTransit(Other(s))) BY <1>9, <1>10
    <2> QED BY <1>6, <2>1, <2>2 DEF Less
  <1> QED BY <1>1, <1>2, <1>11, Loses

LEMMA LinkLossLoses == ASSUME IInv, LinkLoss PROVE CableStep
  <1>1. UNCHANGED <<node, in, out, scenario>> BY DEF LinkLoss
  <1>2. IInv' /\ ~Firm BY LinkLossStep
  <1>3. PICK b \in 0..Len(air["P"]), c \in 0..Len(air["C"]) :
          air' = [s \in Sides |->
                    Append(SubSeq(air[s], 1, [t \in Sides |-> IF t = "P" THEN b ELSE c][s]), Gap("end"))]
    BY DEF LinkLoss
  <1> DEFINE kept == [t \in Sides |-> IF t = "P" THEN b ELSE c]
  <1>4. \A s \in Sides : kept[s] \in 0..Len(air[s]) BY DEF Sides
  <1>5. \A s \in Sides : air'[s] = Append(SubSeq(air[s], 1, kept[s]), Gap("end")) BY <1>3
  <1> HIDE DEF kept
  <1>6. ASSUME NEW s \in Sides PROVE Less(InTransit(s)', InTransit(s))
    <2> DEFINE k == node[Other(s)]
               n == node[s]
               e == SubSeq(air[s], 1, kept[s])
               h == One(k.held)
               r == Items(k.rx)
               d == DataIn(e)
               u == Unsent(n)
               p == One(n.data)
    <2>0. air[s] \in Seq(Events) /\ kept[s] \in 0..Len(air[s]) BY <1>4, DataTyped
    <2>1. e \in Seq(Events) BY <2>0
    <2>2. PICK z \in Seq(Number) : DataIn(air[s]) = d \o z BY <2>0, DataInPrefix
    <2>3. DataIn(air'[s]) = d
      <3>1. Gap("end") \in Events /\ Gap("end").type # "data" BY EventTypes
      <3> HIDE DEF e
      <3>2. DataIn(Append(e, Gap("end"))) = DataIn(e) BY <2>1, <3>1, DataInAppend
      <3> QED BY <1>5, <3>2 DEF e
    <2>4. d \in Strings /\ z \in Strings
      <3> HIDE DEF e
      <3> QED BY <2>1, DataInType DEF Strings
    <2>5. node' = [node EXCEPT ![s] = n] BY <1>1 DEF IInv, NodesFine
    <2>6. /\ Holds(n) /\ Holds(k)
          /\ InTransit(s) = Wire(k, air[s], n) /\ InTransit(s)' = Wire(k, air'[s], n)
      BY <1>2, <2>5, TwoWires
    <2>7. h \in Strings /\ r \in Strings /\ u \in Strings /\ p \in Strings BY <2>6 DEF Holds
    <2>8. /\ InTransit(s) = Five(h, r, Then(d, z), u, p)
          /\ InTransit(s)' = Five(h, r, d, u, p)
      BY <2>2, <2>3, <2>6 DEF Wire, Then
    <2> HIDE DEF k, n, h, r, d, u, p
    <2>9. Less(Five(h, r, d, u, p), Five(h, r, Then(d, z), u, p)) BY ONLY <2>4, <2>7, Lost
    <2> QED BY <2>8, <2>9
  <1> QED BY <1>1, <1>2, <1>6, Loses

LEMMA InitIsCable == ASSUME Init PROVE Cable!Init
  <1>1. \A s \in Sides : InTransit(s) = <<>>
    <2>1. TAKE s \in Sides
    <2>2. node[s] = Unconnected /\ node[Other(s)] = Unconnected /\ air[s] = <<>>
      BY SideOf DEF Init
    <2>3. /\ One(node[Other(s)].held) = <<>> /\ Items(node[Other(s)].rx) = <<>>
          /\ Unsent(node[s]) = <<>> /\ One(node[s].data) = <<>>
      BY <2>2 DEF Unconnected, One, Items, Unsent
    <2> QED BY <2>2, <2>3, DataInEmpty DEF InTransit
  <1> QED BY <1>1 DEF Cable!Init, Init

\* The two boards and the link between them are the serial cable that the service promises: what
\* is read at one serial port is written at the other, in order and once, and something is lost
\* only where a connection may be lost or a call of the stack may fail.
THEOREM LinkIsCable == Spec => ImplementsCable
  <1>1. ASSUME IInv, Kept, [Next]_vars PROVE CableStep
    <2>1. ASSUME NEW s \in Sides, BleTask(s) PROVE CableStep
      BY <1>1, <2>1, IgnoreDataLoses, ReceiveDataMoves, BleTxMoves, TxDoneIdle, ConnectedIdle,
         DisconnectedLoses, FreeQueuesLoses DEF BleTask
    <2>2. ASSUME NEW s \in Sides, RxTask(s) PROVE CableStep
      BY <1>1, <2>2, RxWakeMoves, RxReadPuts, RxTimeoutIdle DEF RxTask
    <2>3. ASSUME NEW s \in Sides, TxTask(s) PROVE CableStep
      BY <1>1, <2>3, TxTakeMoves, TxWrittenGets DEF TxTask
    <2>4. ASSUME NEW s \in Sides, QueueFull(s) PROVE CableStep BY <1>1, <2>4, QueueFullIdle
    <2>5. CASE PeriphTask BY <1>1, <2>5, PeriphReceiveFlowIdle, PeriphReceiveCccIdle DEF PeriphTask
    <2>6. CASE CentralTask BY <1>1, <2>6, CentralReceiveFlowIdle, BrowsedIdle DEF CentralTask
    <2>7. CASE LinkUp BY <1>1, <2>7, LinkUpIdle
    <2>8. CASE LinkLoss BY <1>1, <2>8, LinkLossLoses
    <2>9. CASE UNCHANGED vars
      <3>1. \A t \in Sides : InTransit(t)' = InTransit(t) BY <2>9 DEF vars, InTransit
      <3> QED BY <2>9, <3>1, Idle DEF vars
    <2> QED BY <1>1, <2>1, <2>2, <2>3, <2>4, <2>5, <2>6, <2>7, <2>8, <2>9 DEF Next
  <1>2. ASSUME CableStep
        PROVE  [Cable!Next /\ (scenario.losses = 0 /\ scenario.fails = 0)'
                                = (scenario.losses = 0 /\ scenario.fails = 0)]_
               <<scenario.losses = 0 /\ scenario.fails = 0, [s \in Sides |-> InTransit(s)], in, out>>
    BY <1>2 DEF CableStep, Firm, Wires
  <1> QED BY <1>1, <1>2, InitIsCable, InductiveInvariant, PTL DEF Spec, ImplementsCable, Cable!Spec

-----------------------------------------------------------------------------
(* One side talks, and the stack refuses nothing: the other side is heard. *)

OnlyTalks(t) == scenario.talk \subseteq {t} /\ scenario.fails = 0

\* The last value told is "off", f being the one before the events a.
ToldOff(a, f) ==
  \/ \E i \in 1..Len(a) : a[i] = Flow("off") /\ \A j \in i+1..Len(a) : a[j].type # "flow"
  \/ f = "off" /\ \A j \in 1..Len(a) : a[j].type # "flow"

Control(e) == e.type \in {"flow", "ccc"}
DataFree(a) == \A i \in 1..Len(a) : a[i].type # "data"
NoControl(a) == \A i \in 1..Len(a) : ~Control(a[i])
ControlFirst(a) == \A i, j \in 1..Len(a) : i < j /\ Control(a[j]) => a[i].type # "data"
Announced(c, a) == "flow" \in c \/ \E i \in 1..Len(a) : a[i] = Ccc("flow")

\* The side that does not talk has nothing to send, and the other one nothing to receive.
Crossed(n) == n.rx # None /\ n.rx.hwm = 1
Mute(n) == n.data = None /\ Items(n.tx) = <<>>
Unused(n) == Items(n.rx) = <<>> /\ ~Crossed(n) /\ n.held = None
Still(s, m) == (OnlyTalks(s) => Unused(m)) /\ (OnlyTalks(Other(s)) => Mute(m))
Quieted(r) == \A s \in Sides : OnlyTalks(Other(s)) => DataFree(r[s])

\* While P is to get no more, C was told so, and what C had to say first has been heard.
PeriphTold(r, n) ==
  /\ Crossed(n["P"]) => /\ ToldOff(r["P"], n["C"].flow)
                        /\ n["C"].tx # None /\ NoControl(r["C"])
  /\ n["C"].tx = None => DataFree(r["C"])
  /\ ControlFirst(r["C"])
  /\ n["C"].tx # None => Announced(n["P"].ccc, r["C"])
CentralTold(r, n) == Crossed(n["C"]) => ToldOff(r["C"], n["P"].flow)

Told(l, r, n) ==
  l = "up" => (OnlyTalks("C") => PeriphTold(r, n)) /\ (OnlyTalks("P") => CentralTold(r, n))
OneWay == (\A s \in Sides : Still(s, node[s])) /\ Quieted(air) /\ Told(link, air, node)

LEMMA TailItems ==
  ASSUME NEW a \in Seq(Events), a # <<>>
  PROVE  /\ Tail(a) \in Seq(Events) /\ Len(a) \in Nat /\ Len(a) > 0 /\ Len(Tail(a)) = Len(a) - 1
         /\ \A i \in 1..Len(Tail(a)) : Tail(a)[i] = a[i+1]
         /\ Head(a) = a[1] /\ Head(a) \in Events
  <1>1. Len(a) \in Nat /\ Len(a) # 0 /\ Head(a) = a[1] /\ Head(a) \in Events OBVIOUS
  <1>2. Tail(a) \in Seq(Events) /\ Len(Tail(a)) = Len(a) - 1 /\ \A i \in 1..Len(a)-1 : Tail(a)[i] = a[i+1]
    OBVIOUS
  <1> QED BY <1>1, <1>2

LEMMA AppendItems ==
  ASSUME NEW a \in Seq(Events), NEW e \in Events
  PROVE  /\ Append(a, e) \in Seq(Events) /\ Len(a) \in Nat /\ Len(Append(a, e)) = Len(a) + 1
         /\ Append(a, e)[Len(a) + 1] = e /\ \A i \in 1..Len(a) : Append(a, e)[i] = a[i]
  BY AppendProperties

LEMMA ToldAppend ==
  ASSUME NEW a \in Seq(Events), NEW e \in Events, NEW f
  PROVE  /\ e = Flow("off") => ToldOff(Append(a, e), f)
         /\ e.type # "flow" /\ ToldOff(a, f) => ToldOff(Append(a, e), f)
  <1> DEFINE b == Append(a, e)
  <1>1. /\ Len(b) = Len(a) + 1 /\ Len(a) \in Nat /\ b[Len(a) + 1] = e
        /\ \A i \in 1..Len(a) : b[i] = a[i]
    BY AppendItems
  <1> HIDE DEF b
  <1>2. ASSUME e = Flow("off") PROVE ToldOff(b, f)
    <2>1. Len(b) \in 1..Len(b) /\ b[Len(b)] = Flow("off") /\ Len(b)+1..Len(b) = {} BY <1>1, <1>2
    <2> QED BY <2>1 DEF ToldOff
  <1>3. ASSUME e.type # "flow", ToldOff(a, f) PROVE ToldOff(b, f)
    <2>1. CASE f = "off" /\ \A j \in 1..Len(a) : a[j].type # "flow"
      <3>1. \A j \in 1..Len(b) : j \in 1..Len(a) \/ j = Len(a) + 1 BY <1>1
      <3>2. \A j \in 1..Len(b) : b[j].type # "flow" BY <1>1, <1>3, <2>1, <3>1
      <3> QED BY <2>1, <3>2 DEF ToldOff
    <2>2. CASE \E i \in 1..Len(a) : a[i] = Flow("off") /\ \A j \in i+1..Len(a) : a[j].type # "flow"
      <3>1. PICK i \in 1..Len(a) : a[i] = Flow("off") /\ \A j \in i+1..Len(a) : a[j].type # "flow"
        BY <2>2
      <3>2. i \in 1..Len(b) /\ b[i] = Flow("off") BY <1>1, <3>1
      <3>3. \A j \in i+1..Len(b) : (j \in i+1..Len(a) /\ j \in 1..Len(a)) \/ j = Len(a) + 1
        BY <1>1, <3>1
      <3>4. \A j \in i+1..Len(b) : b[j].type # "flow" BY <1>1, <1>3, <3>1, <3>3
      <3> QED BY <3>2, <3>4 DEF ToldOff
    <2> QED BY <1>3, <2>1, <2>2 DEF ToldOff
  <1> QED BY <1>2, <1>3 DEF b

LEMMA ToldTail ==
  ASSUME NEW a \in Seq(Events), a # <<>>, NEW f, ToldOff(a, f)
  PROVE  /\ Head(a).type # "flow" => ToldOff(Tail(a), f)
         /\ Head(a).type = "flow" => ToldOff(Tail(a), Head(a).value)
  <1> DEFINE b == Tail(a)
             v == IF Head(a).type = "flow" THEN Head(a).value ELSE f
  <1>1. /\ Len(b) = Len(a) - 1 /\ Len(a) \in Nat /\ Len(a) > 0
        /\ \A i \in 1..Len(b) : b[i] = a[i+1]
        /\ Head(a) = a[1] /\ Head(a) \in Events
    BY TailItems
  <1> HIDE DEF b
  <1>2. CASE f = "off" /\ \A j \in 1..Len(a) : a[j].type # "flow"
    <2>1. \A j \in 1..Len(b) : j + 1 \in 1..Len(a) BY <1>1
    <2>2. \A j \in 1..Len(b) : b[j].type # "flow" BY <1>1, <1>2, <2>1
    <2>3. Head(a).type # "flow" BY <1>1, <1>2
    <2> QED BY <1>2, <2>2, <2>3 DEF ToldOff, b
  <1>3. CASE \E i \in 1..Len(a) : a[i] = Flow("off") /\ \A j \in i+1..Len(a) : a[j].type # "flow"
    <2>1. PICK i \in 1..Len(a) : a[i] = Flow("off") /\ \A j \in i+1..Len(a) : a[j].type # "flow"
      BY <1>3
    <2>2. CASE i = 1
      <3>1. Head(a) = Flow("off") /\ Head(a).type = "flow" /\ Head(a).value = "off"
        BY <1>1, <2>1, <2>2, EventTypes
      <3>2. \A j \in 1..Len(b) : j + 1 \in i+1..Len(a) BY <1>1, <2>2
      <3>3. \A j \in 1..Len(b) : b[j].type # "flow" BY <1>1, <2>1, <3>2
      <3> QED BY <3>1, <3>3 DEF ToldOff, b
    <2>3. CASE i # 1
      <3>1. i - 1 \in 1..Len(b) /\ b[i-1] = Flow("off") BY <1>1, <2>1, <2>3
      <3>2. \A j \in (i-1)+1..Len(b) : j + 1 \in i+1..Len(a) /\ j \in 1..Len(b) BY <1>1, <2>3
      <3>3. \A j \in (i-1)+1..Len(b) : b[j].type # "flow" BY <1>1, <2>1, <3>2
      <3> QED BY <3>1, <3>3 DEF ToldOff, b
    <2> QED BY <2>2, <2>3
  <1> QED BY <1>2, <1>3 DEF ToldOff

LEMMA FreeTail ==
  ASSUME NEW a \in Seq(Events), a # <<>>
  PROVE  /\ DataFree(a) => DataFree(Tail(a)) /\ Head(a).type # "data"
         /\ NoControl(a) => NoControl(Tail(a)) /\ ~Control(Head(a))
         /\ ControlFirst(a) => /\ ControlFirst(Tail(a))
                               /\ Head(a).type = "data" => NoControl(a) /\ NoControl(Tail(a))
         /\ \A c : Announced(c, a) /\ Head(a) # Ccc("flow") => Announced(c, Tail(a))
  <1> DEFINE b == Tail(a)
  <1>1. /\ Len(b) = Len(a) - 1 /\ Len(a) \in Nat /\ Len(a) > 0
        /\ \A i \in 1..Len(b) : b[i] = a[i+1]
        /\ Head(a) = a[1] /\ Head(a) \in Events
    BY TailItems
  <1> HIDE DEF b
  <1>2. \A i \in 1..Len(b) : i + 1 \in 1..Len(a) BY <1>1
  <1>3. DataFree(a) => DataFree(b) /\ Head(a).type # "data" BY <1>1, <1>2 DEF DataFree
  <1>4. NoControl(a) => NoControl(b) /\ ~Control(Head(a)) BY <1>1, <1>2 DEF NoControl
  <1>5. ASSUME ControlFirst(a) PROVE ControlFirst(b)
    <2>1. ASSUME NEW i \in 1..Len(b), NEW j \in 1..Len(b), i < j, Control(b[j])
          PROVE  b[i].type # "data"
      <3>1. i + 1 \in 1..Len(a) /\ j + 1 \in 1..Len(a) /\ i + 1 < j + 1 BY <1>2, <2>1
      <3> QED BY <1>1, <1>5, <2>1, <3>1 DEF ControlFirst
    <2> QED BY <2>1 DEF ControlFirst
  <1>6. ASSUME ControlFirst(a), Head(a).type = "data" PROVE NoControl(a)
    <2>1. ASSUME NEW j \in 1..Len(a) PROVE ~Control(a[j])
      <3>1. CASE j = 1 BY <1>1, <1>6, <3>1 DEF Control
      <3>2. CASE j # 1
        <4>1. 1 \in 1..Len(a) /\ 1 < j BY <1>1, <3>2
        <4> QED BY <1>1, <1>6, <4>1 DEF ControlFirst
      <3> QED BY <3>1, <3>2
    <2> QED BY <2>1 DEF NoControl
  <1>7. ASSUME NEW c, Announced(c, a), Head(a) # Ccc("flow") PROVE Announced(c, b)
    <2>1. CASE "flow" \in c BY <2>1 DEF Announced
    <2>2. CASE "flow" \notin c
      <3>1. PICK i \in 1..Len(a) : a[i] = Ccc("flow") BY <1>7, <2>2 DEF Announced
      <3>2. i # 1 BY <1>1, <1>7, <3>1
      <3>3. i - 1 \in 1..Len(b) /\ b[i-1] = a[i] BY <1>1, <3>2
      <3> QED BY <3>1, <3>3 DEF Announced
    <2> QED BY <2>1, <2>2
  <1> QED BY <1>3, <1>4, <1>5, <1>6, <1>7 DEF b

LEMMA FreeAppend ==
  ASSUME NEW a \in Seq(Events), NEW e \in Events
  PROVE  /\ DataFree(a) /\ e.type # "data" => DataFree(Append(a, e))
         /\ NoControl(a) /\ ~Control(e) => NoControl(Append(a, e))
         /\ ControlFirst(a) /\ ~Control(e) => ControlFirst(Append(a, e))
         /\ \A c : Announced(c, a) \/ e = Ccc("flow") => Announced(c, Append(a, e))
  <1> DEFINE b == Append(a, e)
  <1>1. /\ Len(b) = Len(a) + 1 /\ Len(a) \in Nat /\ b[Len(a) + 1] = e
        /\ \A i \in 1..Len(a) : b[i] = a[i]
    BY AppendItems
  <1> HIDE DEF b
  <1>2. \A i \in 1..Len(b) : i \in 1..Len(a) \/ i = Len(a) + 1 BY <1>1
  <1>3. DataFree(a) /\ e.type # "data" => DataFree(b) BY <1>1, <1>2 DEF DataFree
  <1>4. NoControl(a) /\ ~Control(e) => NoControl(b) BY <1>1, <1>2 DEF NoControl
  <1>5. ASSUME ControlFirst(a), ~Control(e) PROVE ControlFirst(b)
    <2>1. ASSUME NEW i \in 1..Len(b), NEW j \in 1..Len(b), i < j, Control(b[j])
          PROVE  b[i].type # "data"
      <3>1. j # Len(a) + 1 BY <1>1, <1>5, <2>1
      <3>2. i \in 1..Len(a) /\ j \in 1..Len(a) BY <1>1, <2>1, <3>1
      <3> QED BY <1>1, <1>5, <2>1, <3>2 DEF ControlFirst
    <2> QED BY <2>1 DEF ControlFirst
  <1>6. ASSUME NEW c, Announced(c, a) \/ e = Ccc("flow") PROVE Announced(c, b)
    <2>1. Len(a) + 1 \in 1..Len(b) /\ \A i \in 1..Len(a) : i \in 1..Len(b) BY <1>1
    <2> QED BY <1>1, <1>6, <2>1 DEF Announced
  <1> QED BY <1>3, <1>4, <1>5, <1>6 DEF b

LEMMA FreeFirst ==
  ASSUME NEW a, DataFree(a)
  PROVE  ControlFirst(a)
  BY DEF DataFree, ControlFirst

-----------------------------------------------------------------------------
(* One side talks: what a step does to it.                                 *)

\* One side changes, and perhaps what is on the air.
LEMMA OneWayNext ==
  ASSUME IInv, OneWay, NEW s \in Sides, NEW m, node' = [node EXCEPT ![s] = m],
         scenario' = scenario, Still(s, m), Quieted(air'), Told(link', air', node')
  PROVE  OneWay'
  <1>1. node'[s] = m /\ \A t \in Sides : t # s => node'[t] = node[t]
    BY DEF IInv, NodesFine
  <1>2. \A t \in Sides : Still(t, node'[t]) BY <1>1 DEF OneWay
  <1>3. (\A t \in Sides : Still(t, node[t]))' BY <1>2 DEF Still, OnlyTalks
  <1>4. Quieted(air)' BY DEF Quieted, OnlyTalks
  <1>5. Told(link, air, node)' BY DEF Told, OnlyTalks
  <1> QED BY <1>3, <1>4, <1>5 DEF OneWay

\* A step that changes nothing the other side could notice.
LEMMA OneWayAlike ==
  ASSUME IInv, OneWay, NEW s \in Sides, NEW m, node' = [node EXCEPT ![s] = m], Alike(s, m),
         Still(s, m), UNCHANGED <<air, link, scenario>>
  PROVE  OneWay'
  <1>1. \A t \in Sides : /\ node'[t].flow = node[t].flow /\ node'[t].ccc = node[t].ccc
                         /\ node'[t].tx = None <=> node[t].tx = None
                         /\ Crossed(node'[t]) => Crossed(node[t])
    BY DEF IInv, NodesFine, Alike, Crossed
  <1>2. Told(link, air, node) BY DEF OneWay
  <1>3. Told(link', air', node') BY <1>1, <1>2, TwoSides DEF Told, PeriphTold, CentralTold
  <1>4. Quieted(air') BY DEF OneWay
  <1> QED BY <1>3, <1>4, OneWayNext

LEMMA StillAlike ==
  ASSUME NEW s \in Sides, NEW n, NEW m, Still(s, n), m.data = n.data, Items(m.tx) = Items(n.tx),
         m.rx = n.rx, m.held = n.held
  PROVE  Still(s, m)
  BY DEF Still, Mute, Unused, Crossed

\* A side takes an event.
LEMMA TakenQuieted ==
  ASSUME IInv, OneWay, NEW s \in Sides, NEW type, Handles(s, type)
  PROVE  Quieted(Taken(s)) /\ (type = "data" => ~OnlyTalks(s))
  <1>1. /\ Incoming(s) = air[Other(s)] /\ Incoming(s) \in Seq(Events) /\ Incoming(s) # <<>>
        /\ Head(Incoming(s)).type = type /\ Taken(s)[Other(s)] = Tail(Incoming(s))
        /\ Taken(s)[s] = air[s]
    BY InHand
  <1>2. Other(s) \in Sides /\ Other(Other(s)) = s /\ \A t \in Sides : t = s \/ t = Other(s) BY SideOf
  <1>3. \A t \in Sides : OnlyTalks(Other(t)) => DataFree(air[t]) BY DEF OneWay, Quieted
  <1>4. OnlyTalks(s) => DataFree(Incoming(s)) BY <1>1, <1>2, <1>3
  <1>5. OnlyTalks(s) => DataFree(Tail(Incoming(s))) /\ type # "data" BY <1>1, <1>4, FreeTail
  <1> QED BY <1>1, <1>2, <1>3, <1>5 DEF Quieted

\* A call of the stack that hands over no data; the stack refuses nothing.
LEMMA CallMade ==
  ASSUME IInv, NEW s \in Sides, NEW r, NEW p, Call(s, r, p), scenario.fails = 0
  PROVE  air' = Handed(s, r, p)
  <1>1. fails \in 0..0 BY DEF IInv, RestOK
  <1> QED BY <1>1 DEF Call

LEMMA CallQuieted ==
  ASSUME NEW s \in Sides, NEW r \in [Sides -> Seq(Events)], NEW p, Call(s, r, p), Quieted(r),
         p = <<>> \/ \E e \in Events : e.type # "data" /\ p = <<e>>
  PROVE  Quieted(air')
  <1>1. CASE air' = r BY <1>1
  <1>2. CASE air' = Handed(s, r, p)
    <2>1. CASE p = <<>>
      <3>1. Flow("on") \in Events BY EventTypes
      <3> QED BY <1>1, <1>2, <2>1, <3>1, HandedOne
    <2>2. CASE p # <<>>
      <3>1. PICK e \in Events : e.type # "data" /\ p = <<e>> BY <2>2
      <3>2. CASE link # "up" BY <1>1, <1>2, <3>1, <3>2, HandedOne
      <3>3. CASE link = "up"
        <4>1. air'[s] = Append(r[s], e) /\ air'[Other(s)] = r[Other(s)] /\ r[s] \in Seq(Events)
          BY <1>2, <3>1, <3>3, HandedOne
        <4>2. DataFree(r[s]) => DataFree(air'[s]) BY <3>1, <4>1, FreeAppend
        <4>3. \A t \in Sides : t = s \/ t = Other(s) BY SideOf
        <4> QED BY <4>1, <4>2, <4>3 DEF Quieted
      <3> QED BY <3>2, <3>3
    <2> QED BY <2>1, <2>2
  <1> QED BY <1>1, <1>2 DEF Call

LEMMA RxWakeOne == ASSUME IInv, OneWay, NEW s \in Sides, RxWake(s) PROVE OneWay'
  <1> DEFINE n == node[s]
             stores == "read" \in n.rxt
             q == TQ!Write(n.tx, n.data)
             ready == n.ready /\ ~(stores /\ n.tx # None /\ TQ!AlmostFull(q))
             t == IF stores /\ n.tx # None THEN TQ!CheckedFull(q) ELSE n.tx
             d == IF stores THEN None ELSE n.data
             m == [n EXCEPT !.tx = t,
                            !.fault = @ \/ (stores /\ n.tx = None),
                            !.data = d,
                            !.ready = ready,
                            !.ble = @ \/ stores,
                            !.rxt = IF stores THEN {"start"} ELSE {},
                            !.reading = "start" \in n.rxt /\ n.conn /\ ready]
  <1>1. Fine(s, n) /\ n \in Nodes BY DEF IInv, NodesFine, Fine
  <1>2. node' = [node EXCEPT ![s] = m] BY DEF RxWake
  <1>3. t = None <=> n.tx = None
    <2>1. ASSUME stores, n.tx # None PROVE TQ!CheckedFull(q) # None
      <3>1. n.tx \in TQ!Queues(Number) /\ n.data \in Number
        BY <1>1, <2>1, FieldTypes DEF Fine, Sound
      <3>2. q \in TQ!Queues(Number) BY <3>1, QueueOps
      <3> HIDE DEF q
      <3>3. TQ!CheckedFull(q) \in TQ!Queues(Number) BY <3>1, <3>2, QueueOps
      <3> QED BY <3>3, QueueFields
    <2> QED BY <2>1
  <1>4. ~stores => t = n.tx /\ d = n.data OBVIOUS
  <1>5. stores => n.data # None BY <1>1 DEF Fine, Sound
  <1> HIDE DEF t, q, ready, d
  <1>6. /\ m.tx = t /\ m.data = d /\ m.rx = n.rx /\ m.held = n.held /\ m.conn = n.conn
        /\ m.closing = n.closing /\ m.flow = n.flow /\ m.ccc = n.ccc
    BY <1>1 DEF Nodes
  <1>7. UNCHANGED <<air, link, scenario>> BY DEF RxWake
  <1> HIDE DEF m
  <1>8. Alike(s, m) BY <1>3, <1>6 DEF Alike
  <1>9. Still(s, n) BY DEF OneWay
  <1>10. Still(s, m) BY <1>4, <1>5, <1>6, <1>9 DEF Still, Mute, Unused, Crossed
  <1> QED BY <1>2, <1>7, <1>8, <1>10, OneWayAlike

LEMMA RxReadOne == ASSUME IInv, OneWay, NEW s \in Sides, RxRead(s) PROVE OneWay'
  <1> DEFINE n == node[s]
             m == [n EXCEPT !.reading = FALSE, !.data = in[s], !.rxt = @ \cup {"read"}]
  <1>1. n \in Nodes BY DEF IInv, NodesFine
  <1>2. node' = [node EXCEPT ![s] = m] /\ UNCHANGED <<air, link, scenario>> /\ s \in scenario.talk
    BY DEF RxRead, HasInput
  <1>3. Alike(s, m) BY <1>1 DEF Alike, Nodes
  <1>4. ~OnlyTalks(Other(s)) BY <1>2, SideOf DEF OnlyTalks
  <1>5. m.rx = n.rx /\ m.held = n.held BY <1>1 DEF Nodes
  <1> HIDE DEF m
  <1>6. Still(s, m) BY <1>4, <1>5 DEF OneWay, Still, Unused, Crossed
  <1> QED BY <1>2, <1>3, <1>6, OneWayAlike

LEMMA RxTimeoutOne == ASSUME IInv, OneWay, NEW s \in Sides, RxTimeout(s) PROVE OneWay'
  <1> DEFINE n == node[s]
             m == [n EXCEPT !.reading = FALSE, !.rxt = @ \cup {"start"}]
  <1>1. n \in Nodes BY DEF IInv, NodesFine
  <1>2. node' = [node EXCEPT ![s] = m] /\ UNCHANGED <<air, link, scenario>> BY DEF RxTimeout
  <1>3. Alike(s, m) BY <1>1 DEF Alike, Nodes
  <1>4. m.data = n.data /\ m.tx = n.tx /\ m.rx = n.rx /\ m.held = n.held BY <1>1 DEF Nodes
  <1> HIDE DEF m
  <1>5. Still(s, m) BY <1>4, StillAlike DEF OneWay
  <1> QED BY <1>2, <1>3, <1>5, OneWayAlike

LEMMA QueueFullOne == ASSUME IInv, OneWay, NEW s \in Sides, QueueFull(s) PROVE OneWay'
  <1> DEFINE n == node[s]
             m == [n EXCEPT !.halt = TRUE]
  <1>1. n \in Nodes BY DEF IInv, NodesFine
  <1>2. node' = [node EXCEPT ![s] = m] /\ UNCHANGED <<air, link, scenario>> BY DEF QueueFull
  <1>3. Alike(s, m) BY <1>1 DEF Alike, Nodes
  <1>4. m.data = n.data /\ m.tx = n.tx /\ m.rx = n.rx /\ m.held = n.held BY <1>1 DEF Nodes
  <1> HIDE DEF m
  <1>5. Still(s, m) BY <1>4, StillAlike DEF OneWay
  <1> QED BY <1>2, <1>3, <1>5, OneWayAlike

LEMMA TxTakeOne == ASSUME IInv, OneWay, NEW s \in Sides, TxTake(s) PROVE OneWay'
  <1> DEFINE n == node[s]
             h == Head(n.rx.items)
             q == RQ!Pop(n.rx)
             some == [n EXCEPT !.txt = FALSE, !.held = h, !.rx = q]
             none == [n EXCEPT !.txt = FALSE]
             m == IF Items(n.rx) = <<>> THEN none ELSE some
  <1>1. n \in Nodes /\ Still(s, n) BY DEF IInv, NodesFine, OneWay
  <1>2. node' = [node EXCEPT ![s] = m] /\ UNCHANGED <<air, link, scenario>> BY DEF TxTake
  <1>3. Alike(s, none) /\ Still(s, none)
    <2>1. Alike(s, none) BY <1>1 DEF Alike, Nodes
    <2>2. none.data = n.data /\ none.tx = n.tx /\ none.rx = n.rx /\ none.held = n.held
      BY <1>1 DEF Nodes
    <2> HIDE DEF none
    <2> QED BY <1>1, <2>1, <2>2, StillAlike
  <1>4. ASSUME Items(n.rx) # <<>> PROVE Alike(s, some) /\ Still(s, some)
    <2>1. n.rx # None /\ n.rx \in TQ!Queues(Number) BY <1>1, <1>4, FieldTypes DEF Items
    <2>2. q.hwm = n.rx.hwm
      <3>1. 0 \in Number BY LinkAssumption DEF Number
      <3> QED BY <2>1, <3>1, QueueOps
    <2> HIDE DEF h, q
    <2>3. Alike(s, some) BY <1>1, <2>1, <2>2 DEF Alike, Nodes
    <2>4. some.data = n.data /\ some.tx = n.tx BY <1>1 DEF Nodes
    <2> HIDE DEF some
    <2> QED BY <1>1, <1>4, <2>3, <2>4 DEF Still, Mute, Unused
  <1> HIDE DEF some, none
  <1>5. Alike(s, m) /\ Still(s, m) BY <1>3, <1>4
  <1> HIDE DEF m
  <1> QED BY <1>2, <1>5, OneWayAlike

LEMMA TxDoneOne == ASSUME IInv, OneWay, NEW s \in Sides, TxDone(s) PROVE OneWay'
  <1> DEFINE n == node[s]
             q == TQ!Pop(n.tx)
             again == TQ!AlmostEmpty(q)
             b == n.ble \/ TQ!ItemCount(q) > 0
             t == TQ!CheckedEmpty(q)
             m == [n EXCEPT !.inprog = FALSE, !.sent = FALSE, !.tx = t, !.ready = @ \/ again,
                            !.rxt = IF again THEN @ \cup {"start"} ELSE @, !.ble = b]
  <1>1. /\ Fine(s, n) /\ n \in Nodes /\ n.sent /\ Still(s, n)
        /\ n.tx # None /\ n.tx.items # <<>>
    BY DEF IInv, NodesFine, Fine, Sound, TxDone, OneWay
  <1>2. node' = [node EXCEPT ![s] = m] /\ UNCHANGED <<air, link, scenario>> BY DEF TxDone
  <1>3. t # None
    <2>0. 0 \in Number BY LinkAssumption DEF Number
    <2>1. n.tx \in TQ!Queues(Number) BY <1>1, FieldTypes
    <2>2. q \in TQ!Queues(Number) BY <2>0, <2>1, QueueOps
    <2> HIDE DEF q
    <2>3. t \in TQ!Queues(Number) BY <2>0, <2>2, QueueOps
    <2> QED BY <2>3, QueueFields
  <1> HIDE DEF q, t, again, b
  <1>4. Alike(s, m) BY <1>1, <1>3 DEF Alike, Nodes
  <1>5. m.rx = n.rx /\ m.held = n.held BY <1>1 DEF Nodes
  <1> HIDE DEF m
  <1>6. Still(s, m) BY <1>1, <1>5 DEF Still, Mute, Unused, Crossed, Items
  <1> QED BY <1>2, <1>4, <1>6, OneWayAlike

LEMMA IgnoreDataOne == ASSUME IInv, OneWay, NEW s \in Sides, IgnoreData(s) PROVE OneWay'
  <1>1. Handles(s, "data") /\ s = "C" /\ air' = Taken(s) /\ UNCHANGED <<node, link, scenario>>
    BY TwoSides DEF IgnoreData, Accepts
  <1>2. Quieted(air') /\ ~OnlyTalks("C") BY <1>1, TakenQuieted
  <1>3. air'["C"] = air["C"] BY <1>1, InHand
  <1>4. Told(link', air', node') BY <1>1, <1>2, <1>3 DEF OneWay, Told, CentralTold
  <1>5. node' = [node EXCEPT ![s] = node[s]] BY <1>1 DEF IInv, NodesFine
  <1>6. Still(s, node[s]) BY DEF OneWay
  <1> QED BY <1>1, <1>2, <1>4, <1>5, <1>6, OneWayNext

\* What the node keeps when it sets the flow control.
LEMMA StillFlow ==
  ASSUME NEW s \in Sides, NEW n \in Nodes, Still(s, n), NEW v \in {"on", "off"}
  PROVE  Still(s, FlowSet(s, n, v))
  <1> DEFINE m == FlowSet(s, n, v)
  <1>1. m.data = n.data /\ m.tx = n.tx /\ m.rx = n.rx /\ m.held = n.held BY FlowFields
  <1> HIDE DEF m
  <1>2. Still(s, m) BY <1>1, StillAlike
  <1> QED BY <1>2 DEF m

\* A value of flow control that is sent, in a link that is up and refuses nothing.
LEMMA FlowGone ==
  ASSUME IInv, NEW s \in Sides, NEW n, NEW v \in {"on", "off"}, NEW r \in [Sides -> Seq(Events)],
         Call(s, r, FlowSent(s, n, v))
  PROVE  /\ air'[Other(s)] = r[Other(s)]
         /\ Quieted(r) => Quieted(air')
         /\ link = "up" /\ scenario.fails = 0 /\ (s = "P" => "flow" \in n.ccc) /\ (s = "C" => n.conn) =>
              air'[s] = Append(r[s], Flow(v))
  <1>1. /\ Flow(v) \in Events /\ Flow(v).type = "flow"
        /\ FlowSent(s, n, v) = <<>> \/ FlowSent(s, n, v) = <<Flow(v)>>
        /\ FlowSent(s, n, v) = <<>> => (s = "P" /\ "flow" \notin n.ccc) \/ (s = "C" /\ ~n.conn)
    BY FlowPackets
  <1>2. air' = r \/ air' = Handed(s, r, FlowSent(s, n, v)) BY DEF Call
  <1>3. air'[Other(s)] = r[Other(s)]
    <2>1. Handed(s, r, <<>>) = r /\ Handed(s, r, <<Flow(v)>>)[Other(s)] = r[Other(s)]
      BY <1>1, HandedOne
    <2> QED BY <1>1, <1>2, <2>1
  <1>4. Quieted(r) => Quieted(air') BY <1>1, CallQuieted
  <1>5. ASSUME link = "up", scenario.fails = 0, s = "P" => "flow" \in n.ccc, s = "C" => n.conn
        PROVE  air'[s] = Append(r[s], Flow(v))
    <2>1. FlowSent(s, n, v) = <<Flow(v)>> BY <1>1, <1>5
    <2>2. air' = Handed(s, r, <<Flow(v)>>) BY <1>5, <2>1, CallMade
    <2> QED BY <1>1, <1>5, <2>2, HandedOne
  <1> QED BY <1>3, <1>4, <1>5

LEMMA ReceiveDataOne == ASSUME IInv, OneWay, NEW s \in Sides, ReceiveData(s) PROVE OneWay'
  <1> DEFINE x == Head(Incoming(s)).value
             w == RQ!Write(node[s].rx, x)
             q == RQ!CheckedFull(w)
             n == [node[s] EXCEPT !.rx = q, !.txt = TRUE]
             full == RQ!AlmostFull(w)
  <1>1. /\ Handles(s, "data") /\ node[s].rx # None
        /\ IF full
           THEN /\ node' = [node EXCEPT ![s] = FlowSet(s, n, "off")]
                /\ Call(s, Taken(s), FlowSent(s, n, "off"))
           ELSE /\ node' = [node EXCEPT ![s] = n]
                /\ air' = Taken(s)
        /\ UNCHANGED <<link, scenario>>
    BY DEF ReceiveData
  <1>2. /\ node[s] \in Nodes /\ x \in Number /\ Taken(s) \in [Sides -> Seq(Events)]
        /\ Incoming(s) = air[Other(s)] /\ Incoming(s) \in Seq(Events) /\ Incoming(s) # <<>>
        /\ Head(Incoming(s)).type = "data" /\ Head(Incoming(s)) \in Events
        /\ Taken(s)[Other(s)] = Tail(Incoming(s)) /\ Taken(s)[s] = air[s]
    BY <1>1, InHand, EventTypes
  <1>3. q \in RQ!Queues(Number) /\ (~full => q.hwm = node[s].rx.hwm)
    <2>1. node[s].rx \in TQ!Queues(Number) BY <1>1, <1>2, FieldTypes
    <2>2. w \in TQ!Queues(Number) /\ w.hwm = node[s].rx.hwm
      <3>1. w = TQ!Write(node[s].rx, x) BY <1>2, <2>1, QueueOps
      <3> HIDE DEF w, x
      <3> QED BY <1>2, <2>1, <3>1, QueueOps
    <2> HIDE DEF w
    <2>3. q \in TQ!Queues(Number) /\ (~full => q.hwm = w.hwm) BY <1>2, <2>2, QueueOps
    <2> HIDE DEF q, full
    <2> QED BY <2>2, <2>3, QueueFields
  <1> HIDE DEF q, full, w, x
  <1>4. /\ n \in Nodes /\ n.rx = q /\ n.tx = node[s].tx /\ n.data = node[s].data
        /\ n.ccc = node[s].ccc /\ n.flow = node[s].flow /\ n.conn = node[s].conn
    BY <1>2, <1>3 DEF Nodes
  <1> HIDE DEF n
  <1>5. ~OnlyTalks(s) /\ Quieted(Taken(s)) BY <1>1, TakenQuieted
  <1>6. Still(s, n) BY <1>4, <1>5 DEF OneWay, Still, Mute
  <1> DEFINE m == IF full THEN FlowSet(s, n, "off") ELSE n
  <1>7. node' = [node EXCEPT ![s] = m] BY <1>1
  <1>8. Still(s, m) BY <1>4, <1>6, StillFlow
  <1>9. Quieted(air') /\ air'[Other(s)] = Tail(air[Other(s)])
    BY <1>1, <1>2, <1>5, FlowGone
  <1>10. /\ m.tx = node[s].tx /\ m.ccc = node[s].ccc /\ (s = "C" => m.flow = node[s].flow)
         /\ ~full => m.rx = q
    BY <1>4, FlowFields
  <1> HIDE DEF m
  <1>11. node'[s] = m /\ node'[Other(s)] = node[Other(s)]
    BY <1>7, SideOf DEF IInv, NodesFine
  <1>12. ~full => air'[s] = air[s] /\ (Crossed(m) => Crossed(node[s]))
    BY <1>1, <1>2, <1>3, <1>10 DEF Crossed
  <1>13. ASSUME link = "up", scenario.fails = 0, s = "P" => "flow" \in node[s].ccc, full, NEW f
         PROVE  ToldOff(air'[s], f)
    <2>1. Fine(s, node[s]) BY DEF IInv, NodesFine
    <2>2. n.conn BY <1>1, <1>4, <2>1 DEF Handles, Fine, Sound
    <2>3. air'[s] = Append(air[s], Flow("off")) BY <1>1, <1>2, <1>4, <1>13, <2>2, FlowGone
    <2>4. Flow("off") \in Events /\ air[s] \in Seq(Events)
      BY EventTypes DEF IInv, AirFits, AllAttached
    <2> QED BY <2>3, <2>4, ToldAppend
  <1>14. Told(link, air, node) BY DEF OneWay
  <1>15. ASSUME link' = "up", OnlyTalks("C") PROVE PeriphTold(air', node')
    <2>1. s = "P" /\ link = "up" /\ scenario.fails = 0 /\ PeriphTold(air, node)
      BY <1>1, <1>5, <1>14, <1>15, TwoSides DEF OnlyTalks, Told
    <2>2. /\ Incoming(s) = air["C"] /\ air'["C"] = Tail(air["C"])
          /\ node'["P"] = m /\ node'["C"] = node["C"]
      BY <1>2, <1>9, <1>11, <2>1, TwoSides
    <2>3. air["C"] \in Seq(Events) /\ air["C"] # <<>> /\ Head(air["C"]).type = "data"
          /\ Head(air["C"]) # Ccc("flow")
      BY <1>2, <2>2, EventTypes
    <2>4. NoControl(air["C"]) /\ NoControl(Tail(air["C"])) /\ ControlFirst(Tail(air["C"]))
      BY <2>1, <2>3, FreeTail DEF PeriphTold
    <2>5. node["C"].tx # None BY <2>1, <2>3, FreeTail DEF PeriphTold
    <2>6. Announced(node["P"].ccc, air["C"]) BY <2>1, <2>5 DEF PeriphTold
    <2>7. Announced(node["P"].ccc, Tail(air["C"])) BY <2>3, <2>6, FreeTail
    <2>8. "flow" \in node["P"].ccc
      <3>1. Ccc("flow").type = "ccc" BY EventTypes
      <3> QED BY <2>4, <2>6, <3>1 DEF Announced, NoControl, Control
    <2>9. Crossed(m) => ToldOff(air'["P"], node["C"].flow)
      <3>1. CASE full BY <1>13, <2>1, <2>8, <3>1
      <3>2. CASE ~full BY <1>12, <2>1, <3>2 DEF PeriphTold
      <3> QED BY <3>1, <3>2
    <2>10. m.ccc = node["P"].ccc BY <1>10, <2>1
    <2> QED BY <2>2, <2>4, <2>5, <2>7, <2>9, <2>10 DEF PeriphTold
  <1>16. ASSUME link' = "up", OnlyTalks("P") PROVE CentralTold(air', node')
    <2>1. s = "C" /\ link = "up" /\ scenario.fails = 0 /\ CentralTold(air, node)
      BY <1>1, <1>5, <1>14, <1>16, TwoSides DEF OnlyTalks, Told
    <2>2. node'["C"] = m /\ node'["P"] = node["P"] BY <1>11, <2>1, TwoSides
    <2>3. Crossed(m) => ToldOff(air'["C"], node["P"].flow)
      <3>1. CASE full BY <1>13, <2>1, <3>1, TwoSides
      <3>2. CASE ~full BY <1>12, <2>1, <3>2 DEF CentralTold
      <3> QED BY <3>1, <3>2
    <2> QED BY <2>2, <2>3 DEF CentralTold
  <1>17. Told(link', air', node') BY <1>15, <1>16 DEF Told
  <1> QED BY <1>1, <1>7, <1>8, <1>9, <1>17, OneWayNext

\* What comes to P is one event less, and not of data.
LEMMA PeriphTaken ==
  ASSUME NEW a \in Seq(Events), a # <<>>, NEW c, NEW d, ControlFirst(a), Announced(c, a),
         c \subseteq d, Head(a) = Ccc("flow") => "flow" \in d
  PROVE  ControlFirst(Tail(a)) /\ Announced(d, Tail(a))
  <1>1. ControlFirst(Tail(a)) BY FreeTail
  <1>2. CASE Head(a) = Ccc("flow") BY <1>1, <1>2 DEF Announced
  <1>3. CASE Head(a) # Ccc("flow")
    <2>1. Announced(c, Tail(a)) BY <1>3, FreeTail
    <2> QED BY <1>1, <2>1 DEF Announced
  <1> QED BY <1>2, <1>3

LEMMA PeriphReceiveFlowOne == ASSUME IInv, OneWay, PeriphReceiveFlow PROVE OneWay'
  <1> DEFINE v == Head(Incoming("P")).value
             n == node["P"]
             m == PeriphFlow(n, v)
  <1>1. /\ Handles("P", "flow") /\ node' = [node EXCEPT !["P"] = m]
        /\ Call("P", Taken("P"), PeriphNotified(n, v))
        /\ UNCHANGED <<link, scenario>>
    BY DEF PeriphReceiveFlow
  <1>2. /\ n \in Nodes /\ v \in {"on", "off"} /\ Taken("P") \in [Sides -> Seq(Events)]
        /\ Incoming("P") = air["C"] /\ air["C"] \in Seq(Events) /\ air["C"] # <<>>
        /\ Head(air["C"]).type = "flow" /\ Head(air["C"]).value = v
        /\ Taken("P")["C"] = Tail(air["C"]) /\ Attached(air["C"], n, link)
    <2>1. "P" \in Sides /\ Other("P") = "C" BY TwoSides
    <2>2. /\ n \in Nodes /\ Taken("P") \in [Sides -> Seq(Events)]
          /\ Incoming("P") = air["C"] /\ Incoming("P") \in Seq(Events) /\ Incoming("P") # <<>>
          /\ Head(Incoming("P")) \in Events /\ Head(Incoming("P")).type = "flow"
          /\ Taken("P")["C"] = Tail(Incoming("P")) /\ Attached(Incoming("P"), n, link)
      BY <1>1, <2>1, InHand
    <2> QED BY <2>2, EventTypes
  <1> HIDE DEF v
  <1>3. m = FlowSet("P", n, v) /\ PeriphNotified(n, v) = FlowSent("P", n, v) BY DEF FlowSet, FlowSent
  <1> HIDE DEF m
  <1>4. /\ m.ccc = n.ccc /\ m.tx = n.tx /\ m.rx = n.rx /\ m.flow = IF n.conn THEN v ELSE n.flow
    BY <1>2, <1>3, TwoSides, FlowFields
  <1>5. Still("P", m) BY <1>2, <1>3, TwoSides, StillFlow DEF OneWay
  <1>6. Quieted(air') /\ air'["C"] = Tail(air["C"])
    <2>1. Quieted(Taken("P")) BY <1>1, TwoSides, TakenQuieted
    <2> QED BY <1>1, <1>2, <1>3, <2>1, TwoSides, FlowGone
  <1>7. node'["P"] = m /\ node'["C"] = node["C"] BY <1>1, TwoSides DEF IInv, NodesFine
  <1>8. Told(link, air, node) BY DEF OneWay
  <1>9. ASSUME link = "up", OnlyTalks("C") PROVE PeriphTold(air', node')
    <2>1. PeriphTold(air, node) BY <1>8, <1>9 DEF Told
    <2>2. ~Crossed(n) BY <1>2, <2>1, FreeTail DEF PeriphTold, Control
    <2>3. ~Crossed(m) BY <1>4, <2>2 DEF Crossed
    <2>4. Head(air["C"]) # Ccc("flow") BY <1>2, EventTypes
    <2>5. node["C"].tx = None => DataFree(Tail(air["C"])) BY <1>2, <2>1, FreeTail DEF PeriphTold
    <2>6. ControlFirst(Tail(air["C"])) BY <1>2, <2>1, FreeTail DEF PeriphTold
    <2>7. node["C"].tx # None => Announced(m.ccc, Tail(air["C"]))
      BY <1>2, <1>4, <2>1, <2>4, FreeTail DEF PeriphTold
    <2> QED BY <1>6, <1>7, <2>3, <2>5, <2>6, <2>7 DEF PeriphTold
  <1>10. ASSUME link = "up", OnlyTalks("P") PROVE CentralTold(air', node')
    <2>1. CentralTold(air, node) BY <1>8, <1>10 DEF Told
    <2>2. n.conn
      <3>1. n.conn \/ Begun(air["C"]) BY <1>2, <1>10 DEF Attached
      <3>2. ~Begun(air["C"]) BY <1>2, EventTypes DEF Begun
      <3> QED BY <3>1, <3>2
    <2>3. m.flow = v BY <1>4, <2>2
    <2>4. Crossed(node["C"]) => ToldOff(Tail(air["C"]), v) BY <1>2, <2>1, ToldTail DEF CentralTold
    <2> QED BY <1>6, <1>7, <2>3, <2>4 DEF CentralTold
  <1>11. Told(link', air', node') BY <1>1, <1>9, <1>10 DEF Told
  <1> QED BY <1>1, <1>5, <1>6, <1>11, TwoSides, OneWayNext

LEMMA PeriphReceiveCccOne == ASSUME IInv, OneWay, PeriphReceiveCcc PROVE OneWay'
  <1> DEFINE h == Head(Incoming("P")).value
             n == node["P"]
             m == [n EXCEPT !.ccc = @ \cup {h}]
             p == IF h = "flow" THEN <<Flow(n.flow)>> ELSE <<>>
  <1>1. /\ Handles("P", "ccc") /\ node' = [node EXCEPT !["P"] = m]
        /\ Call("P", Taken("P"), p) /\ UNCHANGED <<link, scenario>>
    BY DEF PeriphReceiveCcc
  <1>2. /\ n \in Nodes /\ Taken("P") \in [Sides -> Seq(Events)]
        /\ air["C"] \in Seq(Events) /\ air["C"] # <<>>
        /\ Head(air["C"]).type = "ccc" /\ Head(air["C"]) = Ccc(h)
        /\ Taken("P")["C"] = Tail(air["C"]) /\ n.flow \in {"on", "off"} /\ h \in {"tx", "flow"}
    <2>1. "P" \in Sides /\ Other("P") = "C" BY TwoSides
    <2>2. /\ n \in Nodes /\ Taken("P") \in [Sides -> Seq(Events)]
          /\ Incoming("P") = air["C"] /\ Incoming("P") \in Seq(Events) /\ Incoming("P") # <<>>
          /\ Head(Incoming("P")) \in Events /\ Head(Incoming("P")).type = "ccc"
          /\ Taken("P")["C"] = Tail(Incoming("P"))
      BY <1>1, <2>1, InHand
    <2>3. n.flow \in {"on", "off"} BY <2>2, FieldTypes
    <2>4. Head(Incoming("P")) = Ccc(h) /\ h \in {"tx", "flow"}
      BY <2>2, EventTypes
    <2> QED BY <2>2, <2>3, <2>4
  <1>3. Flow(n.flow) \in Events /\ Flow(n.flow).type = "flow" BY <1>2, EventTypes
  <1> HIDE DEF h
  <1>4. /\ m.ccc = n.ccc \cup {h} /\ m.tx = n.tx /\ m.rx = n.rx /\ m.flow = n.flow
        /\ m.data = n.data /\ m.held = n.held
    BY <1>2 DEF Nodes
  <1> HIDE DEF m
  <1>5. Still("P", m) BY <1>4, TwoSides, StillAlike DEF OneWay
  <1>6. Quieted(air')
    <2>1. Quieted(Taken("P")) BY <1>1, TwoSides, TakenQuieted
    <2>2. p = <<>> \/ \E e \in Events : e.type # "data" /\ p = <<e>> BY <1>3
    <2> HIDE DEF p
    <2> QED BY <1>1, <1>2, <2>1, <2>2, TwoSides, CallQuieted
  <1>7. air'["C"] = Tail(air["C"])
    <2>1. air' = Taken("P") \/ air' = Handed("P", Taken("P"), p) BY <1>1 DEF Call
    <2>2. \A r \in [Sides -> Seq(Events)] : Handed("P", r, p)["C"] = r["C"]
      BY <1>3, TwoSides, HandedOne
    <2> QED BY <1>2, <2>1, <2>2
  <1>8. node'["P"] = m /\ node'["C"] = node["C"] BY <1>1, TwoSides DEF IInv, NodesFine
  <1>9. Told(link, air, node) BY DEF OneWay
  <1>10. ASSUME link = "up", OnlyTalks("C") PROVE PeriphTold(air', node')
    <2>1. PeriphTold(air, node) BY <1>9, <1>10 DEF Told
    <2>2. ~Crossed(n) BY <1>2, <2>1, FreeTail DEF PeriphTold, Control
    <2>3. ~Crossed(m) BY <1>4, <2>2 DEF Crossed
    <2>4. node["C"].tx = None => DataFree(Tail(air["C"])) BY <1>2, <2>1, FreeTail DEF PeriphTold
    <2>5. ControlFirst(Tail(air["C"])) BY <1>2, <2>1, FreeTail DEF PeriphTold
    <2>6. n.ccc \subseteq m.ccc /\ (Head(air["C"]) = Ccc("flow") => "flow" \in m.ccc)
      BY <1>2, <1>4, EventTypes
    <2>7. node["C"].tx # None => Announced(m.ccc, Tail(air["C"]))
      BY <1>2, <2>1, <2>6, PeriphTaken DEF PeriphTold
    <2> QED BY <1>7, <1>8, <2>3, <2>4, <2>5, <2>7 DEF PeriphTold
  <1>11. ASSUME link = "up", OnlyTalks("P") PROVE CentralTold(air', node')
    <2>1. CentralTold(air, node) BY <1>9, <1>11 DEF Told
    <2>2. Crossed(node["C"]) => ToldOff(Tail(air["C"]), n.flow)
      BY <1>2, <2>1, ToldTail DEF CentralTold
    <2> QED BY <1>4, <1>7, <1>8, <2>2 DEF CentralTold
  <1>12. Told(link', air', node') BY <1>1, <1>10, <1>11 DEF Told
  <1> QED BY <1>1, <1>5, <1>6, <1>12, TwoSides, OneWayNext

LEMMA CentralReceiveFlowOne == ASSUME IInv, OneWay, CentralReceiveFlow PROVE OneWay'
  <1> DEFINE v == Head(Incoming("C")).value
             n == node["C"]
             b == n.ble \/ v = "on"
             m == [n EXCEPT !.flow = v, !.ble = b]
  <1>1. /\ Handles("C", "flow") /\ node' = [node EXCEPT !["C"] = m] /\ air' = Taken("C")
        /\ UNCHANGED <<link, scenario>>
    BY DEF CentralReceiveFlow
  <1>2. /\ n \in Nodes /\ air["P"] \in Seq(Events) /\ air["P"] # <<>>
        /\ Head(air["P"]).type = "flow" /\ Head(air["P"]).value = v
        /\ air'["P"] = Tail(air["P"]) /\ air'["C"] = air["C"]
    <2>1. "C" \in Sides /\ Other("C") = "P" BY TwoSides
    <2>2. /\ n \in Nodes /\ Incoming("C") = air["P"] /\ Incoming("C") \in Seq(Events)
          /\ Incoming("C") # <<>> /\ Head(Incoming("C")).type = "flow"
          /\ Taken("C")["P"] = Tail(Incoming("C")) /\ Taken("C")["C"] = air["C"]
      BY <1>1, <2>1, InHand
    <2> QED BY <1>1, <2>2
  <1> HIDE DEF v, b
  <1>3. /\ m.flow = v /\ m.tx = n.tx /\ m.rx = n.rx /\ m.data = n.data /\ m.held = n.held
    BY <1>2 DEF Nodes
  <1> HIDE DEF m
  <1>4. Still("C", m) BY <1>3, TwoSides, StillAlike DEF OneWay
  <1>5. Quieted(air') BY <1>1, TwoSides, TakenQuieted
  <1>6. node'["C"] = m /\ node'["P"] = node["P"] BY <1>1, TwoSides DEF IInv, NodesFine
  <1>7. Told(link, air, node) BY DEF OneWay
  <1>8. ASSUME link = "up", OnlyTalks("C") PROVE PeriphTold(air', node')
    <2>1. PeriphTold(air, node) BY <1>7, <1>8 DEF Told
    <2>2. Crossed(node["P"]) => ToldOff(Tail(air["P"]), v)
      BY <1>2, <2>1, ToldTail DEF PeriphTold
    <2> QED BY <1>2, <1>3, <1>6, <2>1, <2>2 DEF PeriphTold
  <1>9. ASSUME link = "up", OnlyTalks("P") PROVE CentralTold(air', node')
    <2>1. CentralTold(air, node) BY <1>7, <1>9 DEF Told
    <2> QED BY <1>2, <1>3, <1>6, <2>1 DEF CentralTold, Crossed
  <1>10. Told(link', air', node') BY <1>1, <1>8, <1>9 DEF Told
  <1> QED BY <1>1, <1>4, <1>5, <1>10, TwoSides, OneWayNext

LEMMA BleTxOne == ASSUME IInv, OneWay, NEW s \in Sides, BleTx(s) PROVE OneWay'
  <1> DEFINE n == node[s]
             e == Data(Head(n.tx.items))
             idle == [n EXCEPT !.ble = FALSE]
             sends == [n EXCEPT !.ble = FALSE, !.inprog = TRUE, !.sent = TRUE]
             refused == [n EXCEPT !.ble = FALSE, !.inprog = s = "P"]
  <1>1. /\ ~n.closing /\ UNCHANGED <<link, scenario>>
        /\ \/ node' = [node EXCEPT ![s] = idle] /\ UNCHANGED air
           \/ /\ MaySend(s) /\ link = "up" /\ node' = [node EXCEPT ![s] = sends]
              /\ air' = Handed(s, air, <<e>>)
           \/ node' = [node EXCEPT ![s] = refused] /\ UNCHANGED air
    BY DEF BleTx
  <1>2. n \in Nodes /\ Still(s, n) BY DEF IInv, NodesFine, OneWay
  <1>3. Alike(s, idle) /\ Still(s, idle)
    <2>1. Alike(s, idle) BY <1>2 DEF Alike, Nodes
    <2>2. idle.data = n.data /\ idle.tx = n.tx /\ idle.rx = n.rx /\ idle.held = n.held
      BY <1>2 DEF Nodes
    <2> HIDE DEF idle
    <2> QED BY <1>2, <2>1, <2>2, StillAlike
  <1>4. Alike(s, refused) /\ Still(s, refused)
    <2>1. Alike(s, refused) BY <1>2 DEF Alike, Nodes
    <2>2. refused.data = n.data /\ refused.tx = n.tx /\ refused.rx = n.rx /\ refused.held = n.held
      BY <1>2 DEF Nodes
    <2> HIDE DEF refused
    <2> QED BY <1>2, <2>1, <2>2, StillAlike
  <1>5. ASSUME MaySend(s), link = "up", node' = [node EXCEPT ![s] = sends],
               air' = Handed(s, air, <<e>>)
        PROVE  OneWay'
    <2>1. /\ n.tx # None /\ Items(n.tx) # <<>> /\ e \in Events /\ e.type = "data"
      BY <1>1, <1>5, Sending
    <2>2. ~OnlyTalks(Other(s)) BY <1>2, <2>1 DEF Still, Mute
    <2> HIDE DEF e
    <2>3. air \in [Sides -> Seq(Events)] BY DEF IInv, AirFits, AllAttached
    <2>4. air'[s] = Append(air[s], e) /\ air'[Other(s)] = air[Other(s)] /\ air[s] \in Seq(Events)
      BY <1>5, <2>1, <2>3, HandedOne
    <2>5. /\ sends.data = n.data /\ sends.tx = n.tx /\ sends.rx = n.rx /\ sends.held = n.held
          /\ sends.flow = n.flow /\ sends.ccc = n.ccc
      BY <1>2 DEF Nodes
    <2> HIDE DEF sends
    <2>6. Still(s, sends) BY <1>2, <2>5, StillAlike
    <2>7. Quieted(air')
      <3>1. \A t \in Sides : t = s \/ t = Other(s) BY SideOf
      <3>2. Quieted(air) BY DEF OneWay
      <3> QED BY <2>2, <2>4, <3>1, <3>2 DEF Quieted
    <2>8. node'[s] = sends /\ node'[Other(s)] = node[Other(s)]
      BY <1>5, SideOf DEF IInv, NodesFine
    <2>9. \A t \in Sides : /\ node'[t].tx = node[t].tx /\ node'[t].rx = node[t].rx
                           /\ node'[t].flow = node[t].flow /\ node'[t].ccc = node[t].ccc
      BY <2>5, <2>8, SideOf
    <2>10. Told(link, air, node) BY DEF OneWay
    <2>11. ASSUME OnlyTalks("C") PROVE PeriphTold(air', node')
      <3>1. s = "C" /\ PeriphTold(air, node) BY <1>5, <2>2, <2>10, <2>11, TwoSides DEF Told
      <3>2. air'["C"] = Append(air["C"], e) /\ air'["P"] = air["P"] /\ air["C"] \in Seq(Events)
            /\ node["C"].tx # None
        BY <2>1, <2>4, <3>1, TwoSides
      <3>3. ~Control(e) BY <2>1 DEF Control
      <3>4. /\ NoControl(air["C"]) => NoControl(air'["C"])
            /\ ControlFirst(air'["C"])
            /\ Announced(node["P"].ccc, air'["C"])
        BY <2>1, <3>1, <3>2, <3>3, FreeAppend DEF PeriphTold
      <3> QED BY <2>9, <3>1, <3>2, <3>4, TwoSides DEF PeriphTold, Crossed
    <2>12. ASSUME OnlyTalks("P") PROVE CentralTold(air', node')
      <3>1. s = "P" /\ CentralTold(air, node) BY <1>5, <2>2, <2>10, <2>12, TwoSides DEF Told
      <3>2. air'["C"] = air["C"] BY <2>4, <3>1, TwoSides
      <3> QED BY <2>9, <3>1, <3>2, TwoSides DEF CentralTold, Crossed
    <2>13. Told(link', air', node') BY <1>1, <2>11, <2>12 DEF Told
    <2> QED BY <1>1, <1>5, <2>6, <2>7, <2>13, OneWayNext
  <1> HIDE DEF idle, refused, sends
  <1> QED BY <1>1, <1>3, <1>4, <1>5, OneWayAlike

LEMMA TxWrittenOne == ASSUME IInv, OneWay, NEW s \in Sides, TxWritten(s) PROVE OneWay'
  <1> DEFINE q == node[s].rx
             b == node[s].txt \/ Items(q) # <<>>
             f == node[s].fault \/ q = None
             c == IF q = None THEN None ELSE RQ!CheckedEmpty(q)
             n == [node[s] EXCEPT !.held = None, !.rx = c, !.txt = b, !.fault = f]
  <1>1. Fine(s, node[s]) /\ node[s] \in Nodes /\ node[s].held # None
    BY DEF IInv, NodesFine, Fine, TxWritten
  <1>2. n \in Nodes
    <2>1. b \in BOOLEAN /\ f \in BOOLEAN BY <1>1, FieldTypes
    <2> HIDE DEF b, f
    <2> QED BY <1>1, <2>1, FineWritten DEF Fine
  <1>3. PICK low \in FoundLow(q) :
           /\ IF low
              THEN /\ node' = [node EXCEPT ![s] = FlowSet(s, n, "on")]
                   /\ Call(s, air, FlowSent(s, n, "on"))
              ELSE /\ node' = [node EXCEPT ![s] = n]
                   /\ UNCHANGED air
           /\ UNCHANGED <<link, scenario>>
    BY Zenon DEF TxWritten
  <1> DEFINE m == IF low THEN FlowSet(s, n, "on") ELSE n
  <1>4. /\ q = None => c = None
        /\ q # None => c # None /\ c.hwm = IF low THEN 0 ELSE q.hwm
    <2>1. SUFFICES ASSUME q # None PROVE c # None /\ c.hwm = IF low THEN 0 ELSE q.hwm OBVIOUS
    <2>2. q \in TQ!Queues(Number) BY <1>1, <2>1, FieldTypes
    <2>3. 0 \in Number /\ low = RQ!AlmostEmpty(q) /\ c = RQ!CheckedEmpty(q)
      BY <1>3, <2>1, LinkAssumption DEF Number, FoundLow
    <2>4. c \in TQ!Queues(Number) /\ c.hwm = IF low THEN 0 ELSE q.hwm BY <2>2, <2>3, QueueOps
    <2> HIDE DEF c
    <2> QED BY <2>2, <2>4, QueueFields
  <1> HIDE DEF q, b, c, f
  <1>5. /\ n.tx = node[s].tx /\ n.rx = c /\ n.data = node[s].data
        /\ n.flow = node[s].flow /\ n.ccc = node[s].ccc
        /\ n.conn = node[s].conn /\ n.closing = node[s].closing
    BY <1>1 DEF Nodes
  <1> HIDE DEF n
  <1>6. ~OnlyTalks(s) /\ Still(s, n)
    <2>1. Still(s, node[s]) BY DEF OneWay
    <2> QED BY <1>1, <1>5, <2>1 DEF Still, Unused, Mute
  <1>7. CASE ~low
    <2>1. node' = [node EXCEPT ![s] = n] /\ UNCHANGED <<air, link, scenario>> BY <1>3, <1>7
    <2>2. Alike(s, n) BY <1>2, <1>4, <1>5, <1>7 DEF Alike, q
    <2> QED BY <1>6, <2>1, <2>2, OneWayAlike
  <1>8. CASE low
    <2>0. m = FlowSet(s, n, "on") BY <1>8
    <2> HIDE DEF m
    <2>1. /\ node' = [node EXCEPT ![s] = m] /\ Call(s, air, FlowSent(s, n, "on"))
          /\ UNCHANGED <<link, scenario>>
      BY <1>3, <1>8, <2>0
    <2>2. m.tx = node[s].tx /\ m.rx = c /\ m.ccc = node[s].ccc /\ (s = "C" => m.flow = node[s].flow)
      BY <1>2, <1>5, <2>0, FlowFields
    <2>3. Still(s, m) BY <1>2, <1>6, <2>0, StillFlow
    <2>4. ~Crossed(m) BY <1>4, <1>8, <2>2 DEF Crossed
    <2>5. air \in [Sides -> Seq(Events)] BY DEF IInv, AirFits, AllAttached
    <2>6. Quieted(air') /\ air'[Other(s)] = air[Other(s)]
      BY <2>1, <2>5, FlowGone DEF OneWay
    <2>7. node'[s] = m /\ node'[Other(s)] = node[Other(s)]
      BY <2>1, SideOf DEF IInv, NodesFine
    <2>8. Told(link, air, node) BY DEF OneWay
    <2>9. ASSUME link = "up", OnlyTalks("C") PROVE PeriphTold(air', node')
      <3>1. s = "P" /\ PeriphTold(air, node) BY <1>6, <2>8, <2>9, TwoSides DEF Told
      <3>2. node'["P"] = m /\ node'["C"] = node["C"] /\ air'["C"] = air["C"]
        BY <2>6, <2>7, <3>1, TwoSides
      <3>3. m.ccc = node["P"].ccc BY <2>2, <3>1
      <3> QED BY <2>4, <3>1, <3>2, <3>3 DEF PeriphTold
    <2>10. ASSUME link = "up", OnlyTalks("P") PROVE CentralTold(air', node')
      <3>1. s = "C" BY <1>6, <2>10, TwoSides
      <3> QED BY <2>4, <2>7, <3>1 DEF CentralTold
    <2>11. Told(link', air', node') BY <2>1, <2>9, <2>10 DEF Told
    <2> QED BY <2>1, <2>3, <2>6, <2>11, OneWayNext
  <1> QED BY <1>7, <1>8

LEMMA ConnectedOne == ASSUME IInv, OneWay, NEW s \in Sides, Connected(s) PROVE OneWay'
  <1> DEFINE n == node[s]
             wide == [WithQueues(n) EXCEPT !.conn = TRUE]
             bare == [n EXCEPT !.conn = TRUE]
             m == IF s = "P" THEN wide ELSE bare
  <1>1. /\ Handles(s, "gap") /\ Head(Incoming(s)).value = "begin"
        /\ node' = [node EXCEPT ![s] = m] /\ air' = Taken(s)
        /\ UNCHANGED <<link, scenario>>
    BY DEF Connected
  <1>2. /\ Fine(s, n) /\ n \in Nodes /\ ~n.closing /\ ~n.conn
        /\ Incoming(s) = air[Other(s)] /\ air[Other(s)] \in Seq(Events) /\ air[Other(s)] # <<>>
        /\ Head(air[Other(s)]).type = "gap" /\ Head(air[Other(s)]) # Ccc("flow")
        /\ air'[Other(s)] = Tail(air[Other(s)]) /\ air'[s] = air[s]
    <2>1. Head(Incoming(s)) \in Events /\ Head(Incoming(s)).type = "gap" BY <1>1, InHand
    <2>2. Head(Incoming(s)) = Gap("begin") /\ Head(Incoming(s)) # Ccc("flow")
      BY ONLY <1>1, <2>1, EventTypes
    <2> QED BY <1>1, <2>1, <2>2, InHand, AttachedGap, ZenonT(60)
  <1>3. n.tx = None /\ n.rx = None /\ Still(s, n) BY <1>2 DEF Fine, Sound, OneWay
  <1>4. /\ m.flow = n.flow /\ m.ccc = n.ccc /\ m.data = n.data /\ m.held = n.held
        /\ s = "C" => m.tx = n.tx /\ m.rx = n.rx
        /\ s = "P" => m.tx = TQ!New /\ m.rx = RQ!New
    BY <1>2, NewQueue DEF Nodes, WithQueues
  <1> HIDE DEF m
  <1>5. Items(m.tx) = <<>> /\ Items(m.rx) = <<>> /\ ~Crossed(m)
    BY <1>3, <1>4, NewQueue, TwoSides DEF Items, Crossed
  <1>6. Still(s, m) BY <1>3, <1>4, <1>5 DEF Still, Mute, Unused
  <1>7. Quieted(air') BY <1>1, TakenQuieted
  <1>8. node'[s] = m /\ node'[Other(s)] = node[Other(s)]
    BY <1>1, SideOf DEF IInv, NodesFine
  <1>9. Told(link, air, node) BY DEF OneWay
  <1>10. ASSUME link = "up", OnlyTalks("C") PROVE PeriphTold(air', node')
    <2>1. PeriphTold(air, node) BY <1>9, <1>10 DEF Told
    <2>2. CASE s = "P"
      <3>1. /\ node'["P"] = m /\ node'["C"] = node["C"] /\ air'["C"] = Tail(air["C"])
            /\ m.ccc = node["P"].ccc
        BY <1>2, <1>4, <1>8, <2>2, TwoSides
      <3>2. /\ air["C"] \in Seq(Events) /\ air["C"] # <<>> /\ Head(air["C"]) # Ccc("flow")
        BY <1>2, <2>2, TwoSides
      <3>3. /\ node["C"].tx = None => DataFree(Tail(air["C"]))
            /\ ControlFirst(Tail(air["C"]))
            /\ node["C"].tx # None => Announced(node["P"].ccc, Tail(air["C"]))
        BY <2>1, <3>2, FreeTail DEF PeriphTold
      <3> QED BY <1>5, <3>1, <3>3 DEF PeriphTold
    <2>3. CASE s = "C"
      <3>1. /\ node'["C"] = m /\ node'["P"] = node["P"] /\ air'["P"] = Tail(air["P"])
            /\ air'["C"] = air["C"] /\ m.tx = node["C"].tx /\ m.flow = node["C"].flow
        BY <1>2, <1>4, <1>8, <2>3, TwoSides
      <3>2. Crossed(node["P"]) => ToldOff(Tail(air["P"]), node["C"].flow)
        BY <1>2, <2>1, <2>3, TwoSides, ToldTail DEF PeriphTold
      <3> QED BY <2>1, <3>1, <3>2 DEF PeriphTold
    <2> QED BY <2>2, <2>3, TwoSides
  <1>11. ASSUME link = "up", OnlyTalks("P") PROVE CentralTold(air', node')
    <2>1. CentralTold(air, node) BY <1>9, <1>11 DEF Told
    <2>2. CASE s = "P"
      <3>1. /\ node'["P"] = m /\ node'["C"] = node["C"] /\ air'["C"] = Tail(air["C"])
            /\ m.flow = node["P"].flow
        BY <1>2, <1>4, <1>8, <2>2, TwoSides
      <3>2. Crossed(node["C"]) => ToldOff(Tail(air["C"]), node["P"].flow)
        BY <1>2, <2>1, <2>2, TwoSides, ToldTail DEF CentralTold
      <3> QED BY <3>1, <3>2 DEF CentralTold
    <2>3. CASE s = "C" BY <1>5, <1>8, <2>3 DEF CentralTold
    <2> QED BY <2>2, <2>3, TwoSides
  <1>12. Told(link', air', node') BY <1>1, <1>10, <1>11 DEF Told
  <1> QED BY <1>1, <1>6, <1>7, <1>12, OneWayNext

LEMMA DisconnectedOne == ASSUME IInv, OneWay, NEW s \in Sides, Disconnected(s) PROVE OneWay'
  <1> DEFINE n == node[s]
             m == Cut(s, n)
  <1>1. /\ Handles(s, "gap") /\ Head(Incoming(s)).value = "end"
        /\ node' = [node EXCEPT ![s] = m] /\ air' = Taken(s) /\ UNCHANGED <<link, scenario>>
    BY DEF Disconnected
  <1>2. n \in Nodes /\ link = "down"
    <2>1. Head(Incoming(s)) \in Events /\ Head(Incoming(s)).type = "gap" BY <1>1, InHand
    <2>2. Head(Incoming(s)) = Gap("end") BY ONLY <1>1, <2>1, EventTypes
    <2> QED BY <1>1, <2>2, InHand, AttachedGap
  <1>3. m.data = n.data /\ m.tx = n.tx /\ m.rx = n.rx /\ m.held = n.held BY <1>2 DEF Cut, Nodes
  <1> HIDE DEF m
  <1>4. Still(s, m) BY <1>3, StillAlike DEF OneWay
  <1>5. Quieted(air') BY <1>1, TakenQuieted
  <1>6. Told(link', air', node') BY <1>1, <1>2 DEF Told
  <1> QED BY <1>1, <1>4, <1>5, <1>6, OneWayNext

LEMMA FreeQueuesOne == ASSUME IInv, OneWay, NEW s \in Sides, FreeQueues(s) PROVE OneWay'
  <1> DEFINE n == node[s]
             m == [n EXCEPT !.tx = None, !.rx = None, !.closing = FALSE]
  <1>1. /\ n.closing
        /\ node' = [node EXCEPT ![s] = m] /\ UNCHANGED <<air, link, scenario>>
    BY DEF FreeQueues
  <1>2. Fine(s, n) /\ n \in Nodes /\ Attached(air[Other(s)], n, link) /\ link \in {"up", "down"}
    BY DEF IInv, NodesFine, Fine, AirFits, AllAttached, RestOK
  <1>3. ~n.conn BY <1>1, <1>2 DEF Fine, Sound
  <1>4. link # "up" BY <1>1, <1>2, <1>3 DEF Attached
  <1>5. m.tx = None /\ m.rx = None /\ m.data = n.data /\ m.held = n.held BY <1>2 DEF Nodes
  <1> HIDE DEF m
  <1>6. Still(s, m) BY <1>5 DEF OneWay, Still, Mute, Unused, Crossed, Items
  <1>7. Quieted(air') BY <1>1 DEF OneWay
  <1>8. Told(link', air', node') BY <1>1, <1>4 DEF Told
  <1> QED BY <1>1, <1>6, <1>7, <1>8, OneWayNext

LEMMA LinkUpOne == ASSUME IInv, OneWay, LinkUp PROVE OneWay'
  <1> DEFINE a == <<Gap("begin")>>
  <1>1. /\ \A s \in Sides : ~node[s].conn /\ ~node[s].closing
        /\ air' = [s \in Sides |-> a] /\ UNCHANGED <<node, scenario>>
    BY DEF LinkUp
  <1>2. \A i \in 1..Len(a) : a[i].type = "gap" BY EventTypes
  <1> HIDE DEF a
  <1>3. DataFree(a) /\ ControlFirst(a) BY <1>2, FreeFirst DEF DataFree
  <1>4. \A s \in Sides : node[s].tx = None /\ ~Crossed(node[s])
    BY <1>1 DEF IInv, NodesFine, Fine, Sound, Crossed
  <1>5. Quieted(air') BY <1>1, <1>3 DEF Quieted
  <1>6. Told(link', air', node')
    BY <1>1, <1>3, <1>4, TwoSides DEF Told, PeriphTold, CentralTold
  <1>7. node' = [node EXCEPT !["P"] = node["P"]] BY <1>1 DEF IInv, NodesFine
  <1>8. Still("P", node["P"]) BY TwoSides DEF OneWay
  <1> QED BY <1>1, <1>5, <1>6, <1>7, <1>8, TwoSides, OneWayNext

LEMMA LinkLossOne == ASSUME IInv, OneWay, LinkLoss PROVE OneWay'
  <1>1. link' = "down" /\ UNCHANGED <<node, scenario>> BY DEF LinkLoss
  <1>2. PICK p \in 0..Len(air["P"]), c \in 0..Len(air["C"]) :
          LET kept == [s \in Sides |-> IF s = "P" THEN p ELSE c]
          IN  air' = [s \in Sides |-> Append(SubSeq(air[s], 1, kept[s]), Gap("end"))]
    BY DEF LinkLoss
  <1> DEFINE kept == [s \in Sides |-> IF s = "P" THEN p ELSE c]
  <1>3. /\ air' = [s \in Sides |-> Append(SubSeq(air[s], 1, kept[s]), Gap("end"))]
        /\ \A s \in Sides : kept[s] \in 0..Len(air[s])
    BY <1>2, TwoSides
  <1> HIDE DEF kept
  <1>4. ASSUME NEW s \in Sides, DataFree(air[s]) PROVE DataFree(air'[s])
    <2> DEFINE z == SubSeq(air[s], 1, kept[s])
    <2>1. air[s] \in Seq(Events) /\ kept[s] \in 0..Len(air[s])
      BY <1>3 DEF IInv, AirFits, AllAttached
    <2>2. z \in Seq(Events) /\ Len(z) = kept[s] /\ \A i \in 1..kept[s] : z[i] = air[s][i]
      BY <2>1
    <2>3. \A i \in 1..kept[s] : i \in 1..Len(air[s]) BY <2>1
    <2> HIDE DEF z
    <2>4. DataFree(z) BY <1>4, <2>2, <2>3 DEF DataFree
    <2>5. Gap("end") \in Events /\ Gap("end").type # "data" BY EventTypes
    <2>6. DataFree(Append(z, Gap("end"))) BY <2>2, <2>4, <2>5, FreeAppend
    <2> QED BY <1>3, <2>6 DEF z
  <1>5. Quieted(air') BY <1>4 DEF OneWay, Quieted
  <1>6. Told(link', air', node') BY <1>1 DEF Told
  <1>7. node' = [node EXCEPT !["P"] = node["P"]] BY <1>1 DEF IInv, NodesFine
  <1>8. Still("P", node["P"]) BY TwoSides DEF OneWay
  <1> QED BY <1>1, <1>5, <1>6, <1>7, <1>8, TwoSides, OneWayNext

LEMMA BrowsedOne == ASSUME IInv, OneWay, Browsed PROVE OneWay'
  <1> DEFINE n == node["C"]
             m == [WithQueues(n) EXCEPT !.rxt = @ \cup {"start"}]
             x == Ccc("tx")
             y == Ccc("flow")
             z == Flow("on")
  <1>1. /\ n.tx = None /\ node' = [node EXCEPT !["C"] = m]
        /\ air' = Handed("C", air, <<x, y, z>>) /\ UNCHANGED <<link, scenario>>
    BY DEF Browsed
  <1>2. Fine("C", n) /\ n \in Nodes BY TwoSides DEF IInv, NodesFine, Fine
  <1>3. Still("C", n) BY TwoSides DEF OneWay
  <1>4. m.tx = TQ!New /\ m.rx = RQ!New /\ m.data = n.data /\ m.held = n.held
    BY <1>2 DEF WithQueues, Nodes
  <1> HIDE DEF m
  <1>5. Items(m.tx) = <<>> /\ Items(m.rx) = <<>> /\ ~Crossed(m)
    BY <1>4, NewQueue DEF Items, Crossed
  <1>6. Still("C", m) BY <1>3, <1>4, <1>5 DEF Still, Mute, Unused
  <1>7. /\ x \in Events /\ x.type = "ccc" /\ y \in Events /\ y.type = "ccc" /\ y = Ccc("flow")
        /\ z \in Events /\ z.type = "flow"
    BY EventTypes
  <1>8. air \in [Sides -> Seq(Events)] /\ Quieted(air) /\ Told(link, air, node)
    BY DEF IInv, AirFits, AllAttached, OneWay
  <1>9. link # "up" => air' = air BY <1>1, <1>8 DEF Handed
  <1>10. ASSUME link = "up"
         PROVE  /\ air'["P"] = air["P"]
                /\ DataFree(air["C"]) => DataFree(air'["C"])
                /\ \A c : Announced(c, air'["C"])
    <2>1. air' = Handed("C", Handed("C", Handed("C", air, <<x>>), <<y>>), <<z>>)
      BY <1>1, <1>8, <1>10, BrowsedAir
    <2> HIDE DEF x, y, z
    <2> DEFINE r1 == Handed("C", air, <<x>>)
               r2 == Handed("C", r1, <<y>>)
               r3 == Handed("C", r2, <<z>>)
    <2>2. /\ r1 \in [Sides -> Seq(Events)] /\ r1["C"] = Append(air["C"], x) /\ r1["P"] = air["P"]
      BY <1>7, <1>8, <1>10, TwoSides, HandedOne
    <2> HIDE DEF r1
    <2>3. /\ r2 \in [Sides -> Seq(Events)] /\ r2["C"] = Append(r1["C"], y) /\ r2["P"] = r1["P"]
      <3>1. r1 \in [Sides -> Seq(Events)] /\ y \in Events /\ "C" \in Sides /\ Other("C") = "P"
        BY <1>7, <2>2, TwoSides
      <3> QED BY ONLY <1>10, <3>1, HandedOne, SMTT(30)
    <2> HIDE DEF r2
    <2>4. r3["C"] = Append(r2["C"], z) /\ r3["P"] = r2["P"]
      <3>1. r2 \in [Sides -> Seq(Events)] /\ z \in Events /\ "C" \in Sides /\ Other("C") = "P"
        BY <1>7, <2>3, TwoSides
      <3> QED BY ONLY <1>10, <3>1, HandedOne
    <2>5. air' = r3 BY <2>1 DEF r2, r1
    <2> HIDE DEF r3
    <2>6. air["C"] \in Seq(Events) /\ r1["C"] \in Seq(Events) /\ r2["C"] \in Seq(Events)
      BY <1>8, <2>2, <2>3, TwoSides
    <2>7. DataFree(air["C"]) => DataFree(r3["C"])
      BY <1>7, <2>2, <2>3, <2>4, <2>6, FreeAppend
    <2>8. \A c : Announced(c, r3["C"])
      <3>1. \A c : Announced(c, r2["C"]) BY <1>7, <2>3, <2>6, FreeAppend
      <3> QED BY <1>7, <2>4, <2>6, <3>1, FreeAppend
    <2> QED BY <2>2, <2>3, <2>4, <2>5, <2>7, <2>8
  <1>11. Quieted(air')
    <2>1. CASE link # "up" BY <1>8, <1>9, <2>1
    <2>2. CASE link = "up" BY <1>8, <1>10, <2>2, TwoSides DEF Quieted
    <2> QED BY <2>1, <2>2
  <1>12. node'["C"] = m /\ node'["P"] = node["P"] BY <1>1, TwoSides DEF IInv, NodesFine
  <1>13. ASSUME link = "up", OnlyTalks("C") PROVE PeriphTold(air', node')
    <2>1. PeriphTold(air, node) BY <1>8, <1>13 DEF Told
    <2>2. ~Crossed(node["P"]) /\ DataFree(air["C"]) BY <1>1, <2>1 DEF PeriphTold
    <2>3. DataFree(air'["C"]) /\ Announced(node["P"].ccc, air'["C"]) BY <1>10, <1>13, <2>2
    <2>4. ControlFirst(air'["C"]) BY <2>3, FreeFirst
    <2> QED BY <1>12, <2>2, <2>3, <2>4 DEF PeriphTold
  <1>14. ASSUME link = "up", OnlyTalks("P") PROVE CentralTold(air', node')
    BY <1>5, <1>12 DEF CentralTold
  <1>15. Told(link', air', node') BY <1>1, <1>13, <1>14 DEF Told
  <1> QED BY <1>1, <1>6, <1>11, <1>15, TwoSides, OneWayNext

LEMMA InitOneWay == ASSUME Init PROVE OneWay
  <1>1. /\ link = "down"
        /\ \A s \in Sides : node[s] = Unconnected /\ air[s] = <<>>
    BY DEF Init
  <1>2. /\ Unconnected.tx = None /\ Unconnected.rx = None /\ Unconnected.data = None
        /\ Unconnected.held = None
    BY DEF Unconnected
  <1>3. \A s \in Sides : Still(s, node[s])
    BY <1>1, <1>2 DEF Still, Mute, Unused, Crossed, Items
  <1>4. Quieted(air) BY <1>1 DEF Quieted, DataFree
  <1>5. Told(link, air, node) BY <1>1 DEF Told
  <1> QED BY <1>3, <1>4, <1>5 DEF OneWay

LEMMA StutterOneWay == ASSUME OneWay, UNCHANGED vars PROVE OneWay'
  BY DEF OneWay, Still, Quieted, Told, OnlyTalks, vars

LEMMA OneWayStep == ASSUME IInv, OneWay, Next PROVE OneWay'
  <1>1. ASSUME NEW s \in Sides, BleTask(s) PROVE OneWay'
    BY <1>1, IgnoreDataOne, ReceiveDataOne, BleTxOne, TxDoneOne, ConnectedOne, DisconnectedOne,
       FreeQueuesOne
       DEF BleTask
  <1>2. ASSUME NEW s \in Sides, RxTask(s) PROVE OneWay'
    BY <1>2, RxWakeOne, RxReadOne, RxTimeoutOne DEF RxTask
  <1>3. ASSUME NEW s \in Sides, TxTask(s) PROVE OneWay'
    BY <1>3, TxTakeOne, TxWrittenOne DEF TxTask
  <1>4. ASSUME NEW s \in Sides, QueueFull(s) PROVE OneWay' BY <1>4, QueueFullOne
  <1>5. ASSUME PeriphTask PROVE OneWay'
    BY <1>5, PeriphReceiveFlowOne, PeriphReceiveCccOne DEF PeriphTask
  <1>6. ASSUME CentralTask PROVE OneWay'
    BY <1>6, CentralReceiveFlowOne, BrowsedOne DEF CentralTask
  <1> QED BY <1>1, <1>2, <1>3, <1>4, <1>5, <1>6, LinkUpOne, LinkLossOne DEF Next

\* One side at most has input, and the stack refuses nothing.
OneSpeaks == \E t \in Sides : OnlyTalks(t)

\* Then flow control is heard, whatever connections are lost: once rx_data_cb of a side has said
\* "off", its word is on the way or the other side is held back, until the side says "on".
THEOREM OffIsHeard == Spec => [](OneSpeaks => HeldOff)
  <1>1. Init => OneWay BY InitOneWay
  <1>2. IInv /\ OneWay /\ [Next]_vars => OneWay' BY OneWayStep, StutterOneWay
  <1>3. ASSUME IInv, OneWay, OneSpeaks PROVE HeldOff
    <2>1. SUFFICES ASSUME NEW s \in Sides, link = "up", Crossed(node[s])
                   PROVE  \/ node[Other(s)].flow = "off"
                          \/ \E i \in DOMAIN air[s] : air[s][i] = Flow("off")
      BY DEF HeldOff, Crossed
    <2>2. ~OnlyTalks(s) BY <1>3, <2>1 DEF OneWay, Still, Unused
    <2>3. OnlyTalks(Other(s)) BY <1>3, <2>2, SideOf DEF OneSpeaks
    <2>4. ToldOff(air[s], node[Other(s)].flow)
      BY <1>3, <2>1, <2>3, TwoSides DEF OneWay, Told, PeriphTold, CentralTold
    <2>5. DOMAIN air[s] = 1..Len(air[s])
      BY <1>3 DEF IInv, AirFits, AllAttached
    <2> QED BY <2>4, <2>5 DEF ToldOff
  <1> QED BY <1>1, <1>2, <1>3, InductiveInvariant, PTL DEF Spec

-----------------------------------------------------------------------------
(* One side talks: its queue at the other side has room for all that       *)
(* comes.  What fills that queue is bounded by what is due, the words on   *)
(* their way back, each of which may let one packet more go, and the       *)
(* packets that may go without one.                                        *)

\* How many of these events are of H.
Tally(a, H) == Cardinality({i \in 1..Len(a) : a[i] \in H})
Bit(b) == IF b THEN 1 ELSE 0

LEMMA TallyBounds ==
  ASSUME NEW a \in Seq(Events), NEW H
  PROVE  /\ Tally(a, H) \in Nat /\ Tally(a, H) <= Len(a)
         /\ Tally(a, H) = 0 <=> \A i \in 1..Len(a) : a[i] \notin H
         /\ \A G : H \subseteq G => Tally(a, H) <= Tally(a, G)
  <1> DEFINE S(G) == {i \in 1..Len(a) : a[i] \in G}
  <1>1. Len(a) \in Nat OBVIOUS
  <1>2. IsFiniteSet(1..Len(a)) /\ Cardinality(1..Len(a)) = Len(a)
    <2>1. 1 \in Int /\ Len(a) \in Int BY <1>1
    <2>2. /\ IsFiniteSet(1..Len(a))
          /\ Cardinality(1..Len(a)) = IF 1 > Len(a) THEN 0 ELSE Len(a) - 1 + 1
      BY ONLY <2>1, FS_Interval, Zenon
    <2> QED BY ONLY <1>1, <2>2
  <1>3. \A G : S(G) \in SUBSET (1..Len(a)) OBVIOUS
  <1>4. \A G : IsFiniteSet(S(G)) /\ Cardinality(S(G)) <= Len(a)
    <2> TAKE G
    <2>1. S(G) \in SUBSET (1..Len(a)) BY <1>3
    <2> HIDE DEF S
    <2> QED BY <1>2, <2>1, FS_Subset
  <1>5. Tally(a, H) = Cardinality(S(H)) BY DEF Tally
  <1>6. Cardinality(S(H)) \in Nat BY <1>4, FS_CardinalityType
  <1>7. Cardinality(S(H)) = 0 <=> S(H) = {} BY <1>4, FS_EmptySet
  <1>8. S(H) = {} <=> \A i \in 1..Len(a) : a[i] \notin H OBVIOUS
  <1>9. ASSUME NEW G, H \subseteq G PROVE Tally(a, H) <= Tally(a, G)
    <2>1. S(H) \in SUBSET S(G) BY <1>9
    <2>2. IsFiniteSet(S(G)) BY <1>4
    <2>3. Tally(a, G) = Cardinality(S(G)) BY DEF Tally
    <2> HIDE DEF S
    <2> QED BY <1>5, <2>1, <2>2, <2>3, FS_Subset
  <1> HIDE DEF S
  <1> QED BY <1>4, <1>5, <1>6, <1>7, <1>8, <1>9

LEMMA TallyAppend ==
  ASSUME NEW a \in Seq(Events), NEW e \in Events, NEW H
  PROVE  Tally(Append(a, e), H) = Tally(a, H) + Bit(e \in H)
  <1> DEFINE b == Append(a, e)
             S == {i \in 1..Len(a) : a[i] \in H}
             T == {i \in 1..Len(b) : b[i] \in H}
  <1>1. /\ Len(a) \in Nat /\ Len(b) = Len(a) + 1 /\ b[Len(a) + 1] = e
        /\ \A i \in 1..Len(a) : b[i] = a[i]
    BY AppendItems
  <1> HIDE DEF b
  <1>2. IsFiniteSet(S)
    <2>1. IsFiniteSet(1..Len(a)) BY <1>1, FS_Interval
    <2>2. S \in SUBSET (1..Len(a)) OBVIOUS
    <2> HIDE DEF S
    <2> QED BY <2>1, <2>2, FS_Subset
  <1>3. \A i \in 1..Len(b) : i \in 1..Len(a) \/ i = Len(a) + 1 BY <1>1
  <1>4. \A i \in 1..Len(a) : i \in 1..Len(b) BY <1>1
  <1>5. Len(a) + 1 \in 1..Len(b) /\ Len(a) + 1 \notin S BY <1>1
  <1>6. CASE e \in H
    <2>1. T = S \cup {Len(a) + 1} BY <1>1, <1>3, <1>4, <1>5, <1>6
    <2> HIDE DEF S, T
    <2>2. Cardinality(T) = Cardinality(S) + 1 BY <1>2, <1>5, <2>1, FS_AddElement
    <2> QED BY <1>6, <2>2 DEF Tally, Bit, S, T, b
  <1>7. CASE e \notin H
    <2>1. T = S BY <1>1, <1>3, <1>4, <1>5, <1>7
    <2>2. Tally(b, H) = Tally(a, H) BY <2>1 DEF Tally
    <2>3. Tally(a, H) \in Nat /\ Bit(e \in H) = 0 BY <1>7, TallyBounds DEF Bit
    <2> HIDE DEF S, T
    <2> QED BY <2>2, <2>3 DEF b
  <1> QED BY <1>6, <1>7

LEMMA TallyTail ==
  ASSUME NEW a \in Seq(Events), a # <<>>, NEW H
  PROVE  Tally(a, H) = Tally(Tail(a), H) + Bit(Head(a) \in H)
  <1> DEFINE b == Tail(a)
             S == {i \in 1..Len(a) : a[i] \in H}
             T == {i \in 1..Len(b) : b[i] \in H}
             U == {i \in 2..Len(a) : a[i] \in H}
             f == [i \in T |-> i + 1]
  <1>1. /\ b \in Seq(Events) /\ Len(b) = Len(a) - 1 /\ Len(a) \in Nat /\ Len(a) > 0
        /\ \A i \in 1..Len(b) : b[i] = a[i+1]
        /\ Head(a) = a[1]
    BY TailItems
  <1> HIDE DEF b
  <1>2. IsFiniteSet(T)
    <2>1. IsFiniteSet(1..Len(b)) BY <1>1, FS_Interval
    <2>2. T \in SUBSET (1..Len(b)) OBVIOUS
    <2> HIDE DEF T
    <2> QED BY <2>1, <2>2, FS_Subset
  <1>3. IsFiniteSet(U) /\ Cardinality(U) = Cardinality(T)
    <2>1. \A i \in T : i \in Int /\ i + 1 \in U BY <1>1
    <2>2. f \in [T -> U] BY <2>1
    <2>3. \A i, j \in T : f[i] = f[j] => i = j BY <2>1
    <2>4. \A j \in U : j - 1 \in T /\ f[j-1] = j BY <1>1
    <2>5. f \in Bijection(T, U)
      <3> HIDE DEF T, U, f
      <3>1. f \in Injection(T, U) BY <2>2, <2>3 DEF Injection, IsInjective
      <3>2. f \in Surjection(T, U) BY <2>2, <2>4 DEF Surjection
      <3> QED BY <3>1, <3>2 DEF Bijection
    <2> HIDE DEF T, U, f
    <2>6. ExistsBijection(T, U) BY <2>5 DEF ExistsBijection
    <2> QED BY <1>2, <2>6, FS_Bijection
  <1>4. 1 \notin U OBVIOUS
  <1>5. CASE Head(a) \in H
    <2>1. S = U \cup {1} BY <1>1, <1>5
    <2> HIDE DEF S, T, U
    <2>2. Cardinality(S) = Cardinality(U) + 1 BY <1>3, <1>4, <2>1, FS_AddElement
    <2> QED BY <1>3, <1>5, <2>2 DEF Tally, Bit, S, T, b
  <1>6. CASE Head(a) \notin H
    <2>1. S = U BY <1>1, <1>6
    <2>2. Tally(a, H) = Tally(b, H) BY <1>3, <2>1 DEF Tally
    <2>3. Tally(b, H) \in Nat /\ Bit(Head(a) \in H) = 0 BY <1>1, <1>6, TallyBounds DEF Bit
    <2> HIDE DEF S, T, U
    <2> QED BY <2>2, <2>3 DEF b
  <1> QED BY <1>5, <1>6

LEMMA TallyPrefix ==
  ASSUME NEW a \in Seq(Events), NEW k \in 0..Len(a), NEW H
  PROVE  SubSeq(a, 1, k) \in Seq(Events) /\ Tally(SubSeq(a, 1, k), H) <= Tally(a, H)
  <1> DEFINE b == SubSeq(a, 1, k)
             S == {i \in 1..Len(a) : a[i] \in H}
             T == {i \in 1..Len(b) : b[i] \in H}
  <1>1. b \in Seq(Events) /\ Len(b) = k /\ k \in Nat /\ Len(a) \in Nat /\ k <= Len(a)
        /\ \A i \in 1..k : b[i] = a[i]
    OBVIOUS
  <1> HIDE DEF b
  <1>2. T \in SUBSET S BY <1>1
  <1>3. IsFiniteSet(S)
    <2>1. IsFiniteSet(1..Len(a)) BY <1>1, FS_Interval
    <2>2. S \in SUBSET (1..Len(a)) OBVIOUS
    <2> HIDE DEF S
    <2> QED BY <2>1, <2>2, FS_Subset
  <1>4. Cardinality(T) <= Cardinality(S)
    <2> HIDE DEF S, T
    <2> QED BY <1>2, <1>3, FS_Subset
  <1> QED BY <1>1, <1>4 DEF Tally, b

\* Above the high water mark, room for the packets on the air and one more, and for three at least.
Margin == RX_HIGH + 3 <= RX_SIZE /\ RX_HIGH + AIR + 1 <= RX_SIZE

DataOnly == {e \in Events : e.type = "data"}
Words == {e \in Events : e.type = "flow"}

\* What t says that fills the queue of the other side, or that the other side answers with a word.
Costs(t) == IF t = "P" THEN DataOnly ELSE DataOnly \cup Words \cup {Ccc("flow")}

\* t is the side that talks.  Due is what is coming, Said the words on their way back, Turns what
\* t may send without another event from the other side.
Due(t, r) == Tally(r[t], Costs(t))
Said(t, r) == Tally(r[Other(t)], Words)
Turns(t, n, u) == Bit(u[t]) + Bit(~n[t].inprog)
Stored(t, n) == Len(Items(n[Other(t)].rx))
Flag(t, n) == IF n[Other(t)].rx = None THEN 0 ELSE n[Other(t)].rx.hwm

\* The room needed for d that are due with e words said, b turns, c stored and the flag x.
Fits(d, e, b, c, x) ==
  /\ RX_HIGH + d + e + b + (IF x = 1 \/ c >= RX_HIGH THEN 1 ELSE 0) <= RX_SIZE + 1
  /\ x = 1 => c + d + (IF e = 0 THEN 0 ELSE e - 1 + b) <= RX_SIZE
Load(t, r, n, u) == Fits(Due(t, r), Said(t, r), Turns(t, n, u), Stored(t, n), Flag(t, n))

\* When a connection begins nothing is due or stored, and one word at most is said, after
\* everything else that C has to say.
OnlyWords(a) == \A i \in 1..Len(a) : a[i].type = "flow"
WordsLast(a) == \A i, j \in 1..Len(a) : i < j /\ a[i].type = "flow" => a[j].type = "flow"
Clear(t, r, n) == Due(t, r) = 0 /\ Stored(t, n) = 0 /\ Flag(t, n) = 0
Start(t, r, n) ==
  IF t = "P"
  THEN /\ n["C"].tx = None => Said("P", r) = 0
       /\ WordsLast(r["C"])
       /\ n["C"].tx = None \/ ~OnlyWords(r["C"]) =>
            Clear("P", r, n) /\ Said("P", r) <= 1 /\ n["P"].flow = "off"
  ELSE n["C"].tx = None => Clear("C", r, n) /\ Said("C", r) = 0

Left(t, r, n) == Tally(r[t], DataOnly) + Stored(t, n) <= RX_SIZE
Laden(t, l, r, n, u) == IF l = "up" THEN Load(t, r, n, u) /\ Start(t, r, n) ELSE Left(t, r, n)

\* Below the mark the flag tells so, and the value of P goes with the connection.
Resting(s, n) ==
  /\ n.rx # None /\ n.rx.hwm = 0 => Len(n.rx.items) <= RX_HIGH
  /\ s = "P" /\ n.flow = "on" => n.conn

Spare ==
  /\ \A s \in Sides : Resting(s, node[s])
  /\ Margin => \A t \in Sides : OnlyTalks(t) => Laden(t, link, air, node, turn)

\* No queue has been used that was no more: what it tells then may be a word too many.
Faultless == \A s \in Sides : ~node[s].fault

LEMMA FitsGoes ==
  ASSUME NEW d \in Nat, NEW e \in Nat, NEW b \in 0..2, NEW c \in Nat, NEW x \in {0, 1},
         Margin, Fits(d, e, b, c, x), x = 0 => c <= RX_HIGH
  PROVE  /\ d + c <= RX_SIZE
         /\ d > 0 => Fits(d - 1, e, b, c, x)
         /\ d > 0 /\ x = 0 => Fits(d - 1, e + 1, b, c, x)
         /\ d > 0 /\ (x = 1 \/ c < RX_HIGH) => Fits(d - 1, e, b, c + 1, x)
         /\ d > 0 /\ x = 0 /\ c >= RX_HIGH =>
              Fits(d - 1, e + 1, b, c + 1, 1) /\ Fits(d - 1, e, b, c + 1, 1)
         /\ c > 0 => Fits(d, e, b, c - 1, x)
         /\ x = 1 /\ c <= RX_LOW => Fits(d, e + 1, b, c, 0) /\ Fits(d, e, b, c, 0)
  BY Marks DEF Margin, Fits

LEMMA FitsComes ==
  ASSUME NEW d \in Nat, NEW e \in Nat, NEW b \in 0..2, NEW c \in Nat, NEW x \in {0, 1},
         Margin, Fits(d, e, b, c, x), x = 0 => c <= RX_HIGH
  PROVE  /\ b > 0 /\ (x = 1 => e > 0) => Fits(d + 1, e, b - 1, c, x)
         /\ e > 0 => Fits(d, e - 1, b, c, x) /\ Fits(d, e - 1, b + 1, c, x)
         /\ e = 0 /\ d <= AIR => Fits(d, e, 1, c, x)
  BY Marks, LinkAssumption DEF Margin, Fits

LEMMA FitsFirst ==
  ASSUME NEW b \in 0..2, NEW e \in 0..1, Margin
  PROVE  Fits(0, e, b, 0, 0) /\ Fits(2, 0, b, 0, 0)
  BY Marks DEF Margin, Fits

\* The numbers.
LEMMA Numbers ==
  ASSUME NEW t \in Sides, NEW r \in [Sides -> Seq(Events)], NEW n \in [Sides -> Nodes],
         NEW u \in [Sides -> BOOLEAN]
  PROVE  /\ Due(t, r) \in Nat /\ Said(t, r) \in Nat /\ Turns(t, n, u) \in 0..2
         /\ Stored(t, n) \in Nat /\ Flag(t, n) \in {0, 1}
         /\ Flag(t, n) = 1 <=> Crossed(n[Other(t)])
         /\ Tally(r[t], DataOnly) \in Nat /\ Tally(r[t], DataOnly) <= Due(t, r)
         /\ Due(t, r) <= Len(r[t])
  <1>1. r[t] \in Seq(Events) /\ r[Other(t)] \in Seq(Events) /\ n[Other(t)] \in Nodes BY SideOf
  <1>2. DataOnly \subseteq Costs(t) BY DEF Costs
  <1>3. /\ Due(t, r) \in Nat /\ Said(t, r) \in Nat /\ Tally(r[t], DataOnly) \in Nat
        /\ Tally(r[t], DataOnly) <= Due(t, r) /\ Due(t, r) <= Len(r[t])
    BY <1>1, <1>2, TallyBounds DEF Due, Said
  <1>4. Turns(t, n, u) \in 0..2 BY DEF Turns, Bit
  <1>5. n[Other(t)].rx # None => /\ n[Other(t)].rx.items \in Seq(Number)
                                 /\ n[Other(t)].rx.hwm \in {0, 1}
    BY <1>1, FieldTypes, QueueFields
  <1>6. Stored(t, n) \in Nat BY <1>5 DEF Stored, Items
  <1>7. Flag(t, n) \in {0, 1} /\ (Flag(t, n) = 1 <=> Crossed(n[Other(t)]))
    BY <1>5 DEF Flag, Crossed
  <1> QED BY <1>3, <1>4, <1>6, <1>7

LEMMA SpareNow ==
  ASSUME IInv, Spare, Margin, NEW t \in Sides, OnlyTalks(t)
  PROVE  /\ Due(t, air) \in Nat /\ Said(t, air) \in Nat /\ Turns(t, node, turn) \in 0..2
         /\ Stored(t, node) \in Nat /\ Flag(t, node) \in {0, 1}
         /\ Flag(t, node) = 0 => Stored(t, node) <= RX_HIGH
         /\ Left(t, air, node)
         /\ link = "up" => Load(t, air, node, turn) /\ Start(t, air, node)
         /\ link = "up" \/ link = "down"
         /\ scenario.fails = 0
  <1>1. /\ air \in [Sides -> Seq(Events)] /\ node \in [Sides -> Nodes] /\ turn \in [Sides -> BOOLEAN]
        /\ link = "up" \/ link = "down"
    BY DEF IInv, AirFits, AllAttached, NodesFine, RestOK
  <1>2. /\ Due(t, air) \in Nat /\ Said(t, air) \in Nat /\ Turns(t, node, turn) \in 0..2
        /\ Stored(t, node) \in Nat /\ Flag(t, node) \in {0, 1}
        /\ Tally(air[t], DataOnly) \in Nat /\ Tally(air[t], DataOnly) <= Due(t, air)
    BY <1>1, Numbers
  <1>3. Laden(t, link, air, node, turn) BY DEF Spare
  <1>4. Flag(t, node) = 0 => Stored(t, node) <= RX_HIGH
    <2>1. Resting(Other(t), node[Other(t)]) BY SideOf DEF Spare
    <2>2. CASE node[Other(t)].rx = None
      <3>1. Stored(t, node) = 0 BY <2>2 DEF Stored, Items
      <3> QED BY <3>1, Marks
    <2>3. CASE node[Other(t)].rx # None BY <2>1, <2>3 DEF Resting, Flag, Stored, Items
    <2> QED BY <2>2, <2>3
  <1>5. Left(t, air, node)
    <2>1. CASE link = "up"
      <3>1. Due(t, air) + Stored(t, node) <= RX_SIZE
        BY <1>2, <1>3, <1>4, <2>1, FitsGoes DEF Laden, Load
      <3> QED BY <1>2, <3>1, Marks DEF Left
    <2>2. CASE link # "up" BY <1>3, <2>2 DEF Laden
    <2> QED BY <2>1, <2>2
  <1> QED BY <1>1, <1>2, <1>3, <1>4, <1>5 DEF Laden, OnlyTalks

\* One side changes, and perhaps what is on the air.
LEMMA SpareNext ==
  ASSUME IInv, Spare, NEW s \in Sides, NEW m, node' = [node EXCEPT ![s] = m],
         scenario' = scenario, Resting(s, m),
         Margin => \A t \in Sides : OnlyTalks(t) => Laden(t, link', air', node', turn')
  PROVE  Spare'
  <1>1. node'[s] = m /\ \A t \in Sides : t # s => node'[t] = node[t]
    BY DEF IInv, NodesFine
  <1>2. \A t \in Sides : Resting(t, node'[t]) BY <1>1 DEF Spare
  <1>3. (\A t \in Sides : Resting(t, node[t]))' BY <1>2 DEF Resting
  <1>4. (Margin => \A t \in Sides : OnlyTalks(t) => Laden(t, link, air, node, turn))'
    BY DEF OnlyTalks, Margin
  <1> QED BY <1>3, <1>4 DEF Spare

\* A step that changes nothing of what is counted.
LEMMA SpareSame ==
  ASSUME IInv, Spare, NEW s \in Sides, NEW m, node' = [node EXCEPT ![s] = m],
         UNCHANGED <<air, link, turn, scenario>>, m.rx = node[s].rx, m.flow = node[s].flow,
         m.conn = node[s].conn, m.tx = None <=> node[s].tx = None,
         scenario.fails = 0 => m.inprog = node[s].inprog \/ link = "down"
  PROVE  Spare'
  <1>1. Resting(s, node[s]) BY DEF Spare
  <1>2. Resting(s, m) BY <1>1 DEF Resting
  <1>3. \A t \in Sides : /\ node'[t].rx = node[t].rx /\ node'[t].flow = node[t].flow
                         /\ node'[t].tx = None <=> node[t].tx = None
                         /\ scenario.fails = 0 => node'[t].inprog = node[t].inprog \/ link = "down"
    BY DEF IInv, NodesFine
  <1>4. ASSUME Margin, NEW t \in Sides, OnlyTalks(t) PROVE Laden(t, link', air', node', turn')
    <2>1. /\ Left(t, air, node)
          /\ link = "up" => Load(t, air, node, turn) /\ Start(t, air, node)
      BY <1>4, SpareNow
    <2>2. Stored(t, node') = Stored(t, node) /\ Flag(t, node') = Flag(t, node)
      BY <1>3, SideOf DEF Stored, Flag
    <2>3. link = "up" => Turns(t, node', turn') = Turns(t, node, turn)
      BY <1>3, <1>4 DEF Turns, OnlyTalks
    <2>4. link = "up" => Load(t, air', node', turn') BY <2>1, <2>2, <2>3 DEF Load
    <2>5. Start(t, air, node) => Start(t, air', node') BY <1>3, <2>2, TwoSides DEF Start, Clear
    <2>6. Left(t, air', node') BY <2>1, <2>2 DEF Left
    <2> QED BY <2>1, <2>4, <2>5, <2>6 DEF Laden
  <1> QED BY <1>2, <1>4, SpareNext

LEMMA ToldWords ==
  ASSUME NEW a \in Seq(Events), ToldOff(a, "on")
  PROVE  Tally(a, Words) # 0
  <1>1. PICK i \in 1..Len(a) : a[i] = Flow("off") BY DEF ToldOff
  <1>2. a[i] \in Words BY <1>1, EventTypes DEF Words
  <1> QED BY <1>2, TallyBounds

LEMMA RxWakeSpare == ASSUME IInv, Spare, NEW s \in Sides, RxWake(s) PROVE Spare'
  <1> DEFINE n == node[s]
             stores == "read" \in n.rxt
             q == TQ!Write(n.tx, n.data)
             ready == n.ready /\ ~(stores /\ n.tx # None /\ TQ!AlmostFull(q))
             t == IF stores /\ n.tx # None THEN TQ!CheckedFull(q) ELSE n.tx
             m == [n EXCEPT !.tx = t,
                            !.fault = @ \/ (stores /\ n.tx = None),
                            !.data = IF stores THEN None ELSE @,
                            !.ready = ready,
                            !.ble = @ \/ stores,
                            !.rxt = IF stores THEN {"start"} ELSE {},
                            !.reading = "start" \in n.rxt /\ n.conn /\ ready]
  <1>1. Fine(s, n) /\ n \in Nodes BY DEF IInv, NodesFine, Fine
  <1>2. node' = [node EXCEPT ![s] = m] /\ UNCHANGED <<air, link, turn, scenario>> BY DEF RxWake
  <1>3. t = None <=> n.tx = None
    <2>1. ASSUME stores, n.tx # None PROVE TQ!CheckedFull(q) # None
      <3>1. n.tx \in TQ!Queues(Number) /\ n.data \in Number
        BY <1>1, <2>1, FieldTypes DEF Fine, Sound
      <3>2. q \in TQ!Queues(Number) BY <3>1, QueueOps
      <3> HIDE DEF q
      <3>3. TQ!CheckedFull(q) \in TQ!Queues(Number) BY <3>1, <3>2, QueueOps
      <3> QED BY <3>3, QueueFields
    <2> QED BY <2>1
  <1> HIDE DEF t, q, ready
  <1>4. m.tx = t /\ m.rx = n.rx /\ m.conn = n.conn /\ m.flow = n.flow /\ m.inprog = n.inprog
    BY <1>1 DEF Nodes
  <1> HIDE DEF m
  <1> QED BY <1>2, <1>3, <1>4, SpareSame

LEMMA QuietSpare ==
  ASSUME IInv, Spare, NEW s \in Sides, RxRead(s) \/ RxTimeout(s) \/ QueueFull(s)
  PROVE  Spare'
  <1> DEFINE n == node[s]
  <1>1. n \in Nodes /\ UNCHANGED <<air, link, turn, scenario>>
    BY DEF IInv, NodesFine, RxRead, RxTimeout, QueueFull
  <1>2. PICK m : /\ node' = [node EXCEPT ![s] = m] /\ m.rx = n.rx /\ m.flow = n.flow
                 /\ m.conn = n.conn /\ m.tx = n.tx /\ m.inprog = n.inprog
    <2>1. CASE RxRead(s)
      <3> DEFINE m == [n EXCEPT !.reading = FALSE, !.data = in[s], !.rxt = @ \cup {"read"}]
      <3>1. node' = [node EXCEPT ![s] = m] BY <2>1 DEF RxRead
      <3>2. /\ m.rx = n.rx /\ m.flow = n.flow /\ m.conn = n.conn /\ m.tx = n.tx
            /\ m.inprog = n.inprog
        BY <1>1 DEF Nodes
      <3> HIDE DEF m
      <3> QED BY <3>1, <3>2
    <2>2. CASE RxTimeout(s)
      <3> DEFINE m == [n EXCEPT !.reading = FALSE, !.rxt = @ \cup {"start"}]
      <3>1. node' = [node EXCEPT ![s] = m] BY <2>2 DEF RxTimeout
      <3>2. /\ m.rx = n.rx /\ m.flow = n.flow /\ m.conn = n.conn /\ m.tx = n.tx
            /\ m.inprog = n.inprog
        BY <1>1 DEF Nodes
      <3> HIDE DEF m
      <3> QED BY <3>1, <3>2
    <2>3. CASE QueueFull(s)
      <3> DEFINE m == [n EXCEPT !.halt = TRUE]
      <3>1. node' = [node EXCEPT ![s] = m] BY <2>3 DEF QueueFull
      <3>2. /\ m.rx = n.rx /\ m.flow = n.flow /\ m.conn = n.conn /\ m.tx = n.tx
            /\ m.inprog = n.inprog
        BY <1>1 DEF Nodes
      <3> HIDE DEF m
      <3> QED BY <3>1, <3>2
    <2> QED BY <2>1, <2>2, <2>3
  <1> QED BY <1>1, <1>2, SpareSame

LEMMA TxTakeSpare == ASSUME IInv, OneWay, Spare, NEW s \in Sides, TxTake(s) PROVE Spare'
  <1> DEFINE n == node[s]
             idle == [n EXCEPT !.txt = FALSE]
             q == RQ!Pop(n.rx)
             takes == [n EXCEPT !.txt = FALSE, !.held = Head(n.rx.items), !.rx = q]
  <1>1. /\ n \in Nodes /\ UNCHANGED <<air, link, turn, scenario>>
        /\ node' = [node EXCEPT ![s] = IF Items(n.rx) = <<>> THEN idle ELSE takes]
    BY DEF IInv, NodesFine, TxTake
  <1>2. CASE Items(n.rx) = <<>>
    <2>1. /\ idle.rx = n.rx /\ idle.flow = n.flow /\ idle.conn = n.conn /\ idle.tx = n.tx
          /\ idle.inprog = n.inprog
      BY <1>1 DEF Nodes
    <2> HIDE DEF idle, takes
    <2> QED BY <1>1, <1>2, <2>1, SpareSame
  <1>3. CASE Items(n.rx) # <<>>
    <2>1. /\ n.rx # None /\ n.rx \in TQ!Queues(Number) /\ n.rx.items # <<>>
          /\ n.rx.items \in Seq(Number)
      BY <1>1, <1>3, FieldTypes, QueueFields DEF Items
    <2>2. q \in TQ!Queues(Number) /\ q.items = Tail(n.rx.items) /\ q.hwm = n.rx.hwm /\ q # None
      <3>1. 0 \in Number BY LinkAssumption DEF Number
      <3>2. q = TQ!Pop(n.rx) BY DEF RQ!Pop, TQ!Pop
      <3> HIDE DEF q
      <3>3. q \in TQ!Queues(Number) /\ q.items = Tail(n.rx.items) /\ q.hwm = n.rx.hwm
        BY <2>1, <3>1, <3>2, QueueOps
      <3> QED BY <3>3, QueueFields
    <2>3. Len(q.items) = Len(n.rx.items) - 1 /\ Len(n.rx.items) \in Nat /\ Len(n.rx.items) > 0
      BY <2>1, <2>2
    <2> HIDE DEF q
    <2>4. /\ takes.rx = q /\ takes.flow = n.flow /\ takes.conn = n.conn /\ takes.tx = n.tx
          /\ takes.inprog = n.inprog
      BY <1>1 DEF Nodes
    <2> HIDE DEF takes, idle
    <2>5. Resting(s, takes)
      <3>1. Resting(s, n) BY DEF Spare
      <3>2. n.rx.hwm = 0 => Len(n.rx.items) <= RX_HIGH BY <2>1, <3>1 DEF Resting
      <3>3. q.hwm = 0 => Len(q.items) <= RX_HIGH BY <2>2, <2>3, <3>2, Marks
      <3>4. s = "P" /\ takes.flow = "on" => takes.conn BY <2>4, <3>1 DEF Resting
      <3> QED BY <2>4, <3>3, <3>4 DEF Resting
    <2>6. node' = [node EXCEPT ![s] = takes] BY <1>1, <1>3
    <2>7. node'[s] = takes /\ node'[Other(s)] = node[Other(s)]
      BY <2>6, SideOf DEF IInv, NodesFine
    <2>8. ASSUME Margin, NEW t \in Sides, OnlyTalks(t) PROVE Laden(t, link', air', node', turn')
      <3>1. s = Other(t)
        <4>1. s # t BY <1>3, <2>8 DEF OneWay, Still, Unused
        <4> QED BY <4>1, SideOf
      <3>2. Stored(t, node') = Stored(t, node) - 1 /\ Flag(t, node') = Flag(t, node)
        BY <2>1, <2>2, <2>3, <2>4, <2>7, <3>1 DEF Stored, Flag, Items
      <3>3. Stored(t, node) > 0 BY <2>1, <2>3, <3>1 DEF Stored, Items
      <3>4. t # s /\ node'[t] = node[t] BY <2>7, <3>1, SideOf
      <3>5. /\ Due(t, air) \in Nat /\ Said(t, air) \in Nat /\ Turns(t, node, turn) \in 0..2
            /\ Stored(t, node) \in Nat /\ Flag(t, node) \in {0, 1}
            /\ Flag(t, node) = 0 => Stored(t, node) <= RX_HIGH
            /\ Left(t, air, node)
            /\ link = "up" => Load(t, air, node, turn) /\ Start(t, air, node)
        BY <2>8, SpareNow
      <3>6. Turns(t, node', turn') = Turns(t, node, turn) BY <1>1, <3>4 DEF Turns
      <3>7. link = "up" => Load(t, air', node', turn')
        BY <1>1, <2>8, <3>2, <3>3, <3>5, <3>6, FitsGoes DEF Load
      <3>8. link = "up" => Start(t, air', node')
        <4>1. \A r \in Sides : node'[r].flow = node[r].flow /\ node'[r].tx = node[r].tx
          BY <2>4, <2>7, SideOf
        <4>2. ~Clear(t, air, node) BY <3>3 DEF Clear
        <4> QED BY <1>1, <3>5, <4>1, <4>2, TwoSides DEF Start
      <3>9. Left(t, air', node')
        <4>1. Tally(air[t], DataOnly) \in Nat /\ Stored(t, node) \in Nat
          BY <3>5, TallyBounds DEF IInv, AirFits, AllAttached
        <4> QED BY <1>1, <3>2, <3>5, <4>1, Marks DEF Left
      <3> QED BY <1>1, <3>7, <3>8, <3>9 DEF Laden
    <2> QED BY <1>1, <2>5, <2>6, <2>8, SpareNext
  <1> QED BY <1>2, <1>3

LEMMA TxDoneSpare == ASSUME IInv, OneWay, Spare, NEW s \in Sides, TxDone(s) PROVE Spare'
  <1> DEFINE n == node[s]
             q == TQ!Pop(n.tx)
             again == TQ!AlmostEmpty(q)
             z == TQ!CheckedEmpty(q)
             m == [n EXCEPT !.inprog = FALSE, !.sent = FALSE, !.tx = z, !.ready = @ \/ again,
                            !.rxt = IF again THEN @ \cup {"start"} ELSE @,
                            !.ble = @ \/ TQ!ItemCount(q) > 0]
  <1>1. /\ Fine(s, n) /\ n \in Nodes /\ n.sent /\ Still(s, n) /\ n.inprog
        /\ n.tx # None /\ n.tx.items # <<>>
    BY DEF IInv, NodesFine, Fine, Sound, TxDone, OneWay
  <1>2. /\ node' = [node EXCEPT ![s] = m] /\ UNCHANGED <<air, link, scenario>>
        /\ turn[s] \/ air[Other(s)] = <<>>
        /\ Len(air[s]) <= AIR /\ turn' = [turn EXCEPT ![s] = FALSE]
    BY DEF TxDone, Incoming
  <1>3. z # None
    <2>0. 0 \in Number BY LinkAssumption DEF Number
    <2>1. n.tx \in TQ!Queues(Number) BY <1>1, FieldTypes
    <2>2. q \in TQ!Queues(Number) BY <2>0, <2>1, QueueOps
    <2> HIDE DEF q
    <2>3. z \in TQ!Queues(Number) BY <2>0, <2>2, QueueOps
    <2> QED BY <2>3, QueueFields
  <1> HIDE DEF q, z, again
  <1>4. /\ m.rx = n.rx /\ m.flow = n.flow /\ m.conn = n.conn /\ m.tx = z /\ m.inprog = FALSE
    BY <1>1 DEF Nodes
  <1> HIDE DEF m
  <1>5. Resting(s, m) BY <1>4 DEF Spare, Resting
  <1>6. node'[s] = m /\ node'[Other(s)] = node[Other(s)]
    BY <1>2, SideOf DEF IInv, NodesFine
  <1>7. turn \in [Sides -> BOOLEAN] /\ turn'[s] = FALSE /\ air \in [Sides -> Seq(Events)]
    BY <1>2 DEF IInv, RestOK, AirFits, AllAttached
  <1>8. ASSUME Margin, NEW t \in Sides, OnlyTalks(t) PROVE Laden(t, link', air', node', turn')
    <2>1. s = t
      <3>1. Items(n.tx) # <<>> BY <1>1 DEF Items
      <3>2. s # Other(t)
        <4>1. Still(s, n) /\ OnlyTalks(t) BY <1>1, <1>8
        <4> QED BY <3>1, <4>1, SideOf DEF Still, Mute
      <3> QED BY <3>2, SideOf
    <2>2. /\ Due(t, air) \in Nat /\ Said(t, air) \in Nat /\ Turns(t, node, turn) \in 0..2
          /\ Stored(t, node) \in Nat /\ Flag(t, node) \in {0, 1}
          /\ Flag(t, node) = 0 => Stored(t, node) <= RX_HIGH
          /\ Left(t, air, node)
          /\ link = "up" => Load(t, air, node, turn) /\ Start(t, air, node)
      BY <1>8, SpareNow
    <2>3. Stored(t, node') = Stored(t, node) /\ Flag(t, node') = Flag(t, node)
      BY <1>6, <2>1 DEF Stored, Flag
    <2>4. Turns(t, node', turn') = 1 BY <1>4, <1>6, <1>7, <2>1 DEF Turns, Bit
    <2>5. CASE turn[s]
      <3>1. Turns(t, node, turn) = 1 BY <1>1, <2>1, <2>5 DEF Turns, Bit
      <3>2. Due(t, air') = Due(t, air) /\ Said(t, air') = Said(t, air) BY <1>2
      <3> QED BY <2>2, <2>3, <2>4, <3>1, <3>2, <1>2, <1>4, <1>1, <1>3, <1>6, <2>1, TwoSides
          DEF Laden, Load, Start, Left, Clear
    <2>6. CASE ~turn[s]
      <3>1. air[Other(t)] = <<>> BY <1>2, <2>1, <2>6
      <3>2. Said(t, air) = 0
        <4>1. Len(air[Other(t)]) = 0 /\ air[Other(t)] \in Seq(Events) BY <1>7, <3>1, SideOf
        <4> QED BY <4>1, TallyBounds, <2>2 DEF Said
      <3>3. Due(t, air) <= AIR
        <4>1. Due(t, air) <= Len(air[t]) /\ Len(air[t]) \in Nat BY <1>7, TallyBounds DEF Due
        <4> QED BY <1>2, <2>1, <2>2, <4>1, LinkAssumption
      <3>4. link = "up" => Load(t, air', node', turn')
        <4>1. link = "up" => Fits(Due(t, air), Said(t, air), 1, Stored(t, node), Flag(t, node))
          BY <1>8, <2>2, <3>2, <3>3, FitsComes DEF Load
        <4> QED BY <1>2, <2>3, <2>4, <4>1 DEF Load
      <3>5. link = "up" => Start(t, air', node')
        BY <2>2, <2>3, <1>2, <1>4, <1>1, <1>3, <1>6, <2>1, TwoSides DEF Start, Clear
      <3>6. Left(t, air', node') BY <1>2, <2>2, <2>3 DEF Left
      <3> QED BY <1>2, <3>4, <3>5, <3>6 DEF Laden
    <2> QED BY <2>5, <2>6
  <1> QED BY <1>2, <1>5, <1>8, SpareNext

LEMMA BleTxSpare == ASSUME IInv, OneWay, Spare, NEW s \in Sides, BleTx(s) PROVE Spare'
  <1> DEFINE n == node[s]
             e == Data(Head(n.tx.items))
             idle == [n EXCEPT !.ble = FALSE]
             sends == [n EXCEPT !.ble = FALSE, !.inprog = TRUE, !.sent = TRUE]
             refused == [n EXCEPT !.ble = FALSE, !.inprog = s = "P"]
  <1>1. /\ ~n.closing /\ UNCHANGED <<link, turn, scenario>>
        /\ \/ node' = [node EXCEPT ![s] = idle] /\ UNCHANGED air
           \/ /\ MaySend(s) /\ link = "up" /\ node' = [node EXCEPT ![s] = sends]
              /\ air' = Handed(s, air, <<e>>)
           \/ /\ node' = [node EXCEPT ![s] = refused] /\ UNCHANGED air
              /\ link = "down" \/ fails < scenario.fails
    BY DEF BleTx
  <1>2. n \in Nodes /\ Still(s, n) /\ Resting(s, n) BY DEF IInv, NodesFine, OneWay, Spare
  <1>3. CASE node' = [node EXCEPT ![s] = idle] /\ UNCHANGED air
    <2>1. /\ idle.rx = n.rx /\ idle.flow = n.flow /\ idle.conn = n.conn /\ idle.tx = n.tx
          /\ idle.inprog = n.inprog
      BY <1>2 DEF Nodes
    <2> HIDE DEF idle, sends, refused
    <2> QED BY <1>1, <1>3, <2>1, SpareSame
  <1>4. CASE /\ node' = [node EXCEPT ![s] = refused] /\ UNCHANGED air
             /\ link = "down" \/ fails < scenario.fails
    <2>1. refused.rx = n.rx /\ refused.flow = n.flow /\ refused.conn = n.conn /\ refused.tx = n.tx
      BY <1>2 DEF Nodes
    <2>2. scenario.fails = 0 => link = "down" BY <1>4 DEF IInv, RestOK
    <2> HIDE DEF idle, sends, refused
    <2> QED BY <1>1, <1>4, <2>1, <2>2, SpareSame
  <1>5. CASE /\ MaySend(s) /\ link = "up" /\ node' = [node EXCEPT ![s] = sends]
             /\ air' = Handed(s, air, <<e>>)
    <2>1. /\ n.tx # None /\ Items(n.tx) # <<>> /\ e \in Events /\ e.type = "data"
      BY <1>1, <1>5, Sending
    <2>2. ~n.inprog /\ n.flow = "on" BY <1>5 DEF MaySend
    <2>3. e \in DataOnly /\ e \notin Words BY <2>1 DEF DataOnly, Words
    <2> HIDE DEF e
    <2>4. air \in [Sides -> Seq(Events)] BY DEF IInv, AirFits, AllAttached
    <2>5. air'[s] = Append(air[s], e) /\ air'[Other(s)] = air[Other(s)] /\ air[s] \in Seq(Events)
      BY <1>5, <2>1, <2>4, HandedOne
    <2>6. /\ sends.rx = n.rx /\ sends.flow = n.flow /\ sends.conn = n.conn /\ sends.tx = n.tx
          /\ sends.inprog = TRUE
      BY <1>2 DEF Nodes
    <2> HIDE DEF sends, idle, refused
    <2>7. Resting(s, sends) BY <1>2, <2>6 DEF Resting
    <2>8. node'[s] = sends /\ node'[Other(s)] = node[Other(s)]
      BY <1>5, SideOf DEF IInv, NodesFine
    <2>9. ASSUME Margin, NEW t \in Sides, OnlyTalks(t) PROVE Laden(t, link', air', node', turn')
      <3>1. s = t
        <4>1. s # Other(t)
          <5>1. Still(s, n) /\ OnlyTalks(t) BY <1>2, <2>9
          <5> QED BY <2>1, <5>1, SideOf DEF Still, Mute
        <4> QED BY <4>1, SideOf
      <3>2. /\ Due(t, air) \in Nat /\ Said(t, air) \in Nat /\ Turns(t, node, turn) \in 0..2
            /\ Stored(t, node) \in Nat /\ Flag(t, node) \in {0, 1}
            /\ Flag(t, node) = 0 => Stored(t, node) <= RX_HIGH
            /\ Load(t, air, node, turn) /\ Start(t, air, node)
        BY <1>5, <2>9, SpareNow
      <3>3. Stored(t, node') = Stored(t, node) /\ Flag(t, node') = Flag(t, node)
        BY <2>8, <3>1 DEF Stored, Flag
      <3>4. Turns(t, node', turn') = Turns(t, node, turn) - 1 /\ Turns(t, node, turn) > 0
        BY <1>1, <2>2, <2>6, <2>8, <3>1 DEF Turns, Bit
      <3>5. Due(t, air') = Due(t, air) + 1
        <4>1. e \in Costs(t) BY <2>3 DEF Costs
        <4>2. Tally(air'[t], Costs(t)) = Tally(air[t], Costs(t)) + Bit(e \in Costs(t))
          BY <2>1, <2>5, <3>1, TallyAppend
        <4>3. Bit(e \in Costs(t)) = 1 BY <4>1 DEF Bit
        <4> QED BY <4>2, <4>3 DEF Due
      <3>6. Said(t, air') = Said(t, air) BY <2>5, <3>1 DEF Said
      <3>7. Flag(t, node) = 1 => Said(t, air) > 0
        <4>1. Flag(t, node) = 1 => Crossed(node[Other(t)])
          BY <2>4, Numbers DEF IInv, NodesFine, RestOK
        <4>2. Flag(t, node) = 1 => ToldOff(air[Other(t)], "on")
          <5>1. Told(link, air, node) BY DEF OneWay
          <5> QED BY <1>5, <2>2, <2>9, <3>1, <4>1, <5>1, TwoSides DEF Told, PeriphTold, CentralTold
        <4>3. Flag(t, node) = 1 => Said(t, air) # 0
          BY <2>4, <4>2, ToldWords, SideOf DEF Said
        <4> QED BY <3>2, <4>3
      <3>8. Load(t, air', node', turn')
        <4>1. Fits(Due(t, air) + 1, Said(t, air), Turns(t, node, turn) - 1, Stored(t, node),
                   Flag(t, node))
          BY <2>9, <3>2, <3>4, <3>7, FitsComes DEF Load
        <4> QED BY <3>3, <3>4, <3>5, <3>6, <4>1 DEF Load
      <3>9. Start(t, air', node')
        <4>1. CASE t = "P"
          <5>1. /\ node'["P"].flow = "on" /\ node'["C"] = node["C"] /\ air'["C"] = air["C"]
                /\ node["P"].flow = "on"
            BY <2>2, <2>5, <2>6, <2>8, <3>1, <4>1, TwoSides
          <5>2. ~(node["C"].tx = None \/ ~OnlyWords(air["C"])) BY <3>2, <4>1, <5>1 DEF Start
          <5> QED BY <3>2, <3>6, <4>1, <5>1, <5>2 DEF Start
        <4>2. CASE t = "C"
          <5>1. node'["C"].tx # None BY <2>1, <2>6, <2>8, <3>1, <4>2
          <5> QED BY <4>2, <5>1, TwoSides DEF Start
        <4> QED BY <4>1, <4>2, TwoSides
      <3> QED BY <1>1, <1>5, <3>8, <3>9 DEF Laden
    <2> QED BY <1>1, <1>5, <2>7, <2>9, SpareNext
  <1> QED BY <1>1, <1>3, <1>4, <1>5

\* What is taken from the air, and what a call puts there.
LEMMA TakenTally ==
  ASSUME IInv, NEW s \in Sides, NEW type, Handles(s, type), NEW H
  PROVE  /\ Taken(s)[s] = air[s]
         /\ Tally(Taken(s)[Other(s)], H) \in Nat
         /\ Head(Incoming(s)) \in H => Tally(Taken(s)[Other(s)], H) = Tally(air[Other(s)], H) - 1
         /\ Head(Incoming(s)) \in H => Tally(air[Other(s)], H) > 0
         /\ Head(Incoming(s)) \notin H => Tally(Taken(s)[Other(s)], H) = Tally(air[Other(s)], H)
  <1>1. /\ Incoming(s) = air[Other(s)] /\ Incoming(s) \in Seq(Events) /\ Incoming(s) # <<>>
        /\ Taken(s)[Other(s)] = Tail(Incoming(s)) /\ Taken(s)[s] = air[s]
    BY InHand
  <1>2. Tally(Incoming(s), H) = Tally(Tail(Incoming(s)), H) + Bit(Head(Incoming(s)) \in H)
    BY <1>1, TallyTail
  <1>3. Tally(Incoming(s), H) \in Nat /\ Tally(Tail(Incoming(s)), H) \in Nat
    BY <1>1, TailItems, TallyBounds
  <1>4. CASE Head(Incoming(s)) \in H
    <2>1. Bit(Head(Incoming(s)) \in H) = 1 BY <1>4 DEF Bit
    <2> QED BY <1>1, <1>2, <1>3, <1>4, <2>1
  <1>5. CASE Head(Incoming(s)) \notin H
    <2>1. Bit(Head(Incoming(s)) \in H) = 0 BY <1>5 DEF Bit
    <2> QED BY <1>1, <1>2, <1>3, <1>5, <2>1
  <1> QED BY <1>4, <1>5

LEMMA CallTally ==
  ASSUME IInv, NEW s \in Sides, NEW r \in [Sides -> Seq(Events)], NEW e \in Events, NEW p,
         p = <<>> \/ p = <<e>>, Call(s, r, p), NEW H
  PROVE  /\ air'[Other(s)] = r[Other(s)]
         /\ link # "up" \/ e \notin H => Tally(air'[s], H) = Tally(r[s], H)
         /\ Tally(air'[s], H) = Tally(r[s], H) \/ Tally(air'[s], H) = Tally(r[s], H) + 1
         /\ link = "up" /\ p = <<e>> /\ e \in H /\ scenario.fails = 0 =>
              Tally(air'[s], H) = Tally(r[s], H) + 1
  <1>1. air' = r \/ air' = Handed(s, r, p) BY DEF Call
  <1>2. Handed(s, r, <<>>) = r BY HandedOne
  <1>3. Handed(s, r, <<e>>)[Other(s)] = r[Other(s)] BY HandedOne
  <1>4. link # "up" => Handed(s, r, <<e>>) = r BY HandedOne
  <1>5. ASSUME link = "up"
        PROVE  Tally(Handed(s, r, <<e>>)[s], H) = Tally(r[s], H) + Bit(e \in H)
    <2>1. Handed(s, r, <<e>>)[s] = Append(r[s], e) /\ r[s] \in Seq(Events) BY <1>5, HandedOne
    <2> QED BY <2>1, TallyAppend
  <1>6. scenario.fails = 0 => air' = Handed(s, r, p) BY CallMade
  <1>7. Tally(r[s], H) \in Nat BY TallyBounds
  <1>8. CASE e \in H
    <2>1. Bit(e \in H) = 1 BY <1>8 DEF Bit
    <2> QED BY <1>1, <1>2, <1>3, <1>4, <1>5, <1>6, <1>7, <1>8, <2>1
  <1>9. CASE e \notin H
    <2>1. Bit(e \in H) = 0 BY <1>9 DEF Bit
    <2> QED BY <1>1, <1>2, <1>3, <1>4, <1>5, <1>6, <1>7, <1>9, <2>1
  <1> QED BY <1>8, <1>9

LEMMA Kinds ==
  /\ \A e \in Events : e \in DataOnly <=> e.type = "data"
  /\ \A e \in Events : e \in Words <=> e.type = "flow"
  /\ \A e \in Events : e \in Costs("P") <=> e.type = "data"
  /\ \A e \in Events : e \in Costs("C") <=> e.type = "data" \/ e.type = "flow" \/ e = Ccc("flow")
  /\ Ccc("flow").type = "ccc"
  BY EventTypes, TwoSides DEF DataOnly, Words, Costs

\* A side has heard of the other one.
LEMMA TurnsHeard ==
  ASSUME turn \in [Sides -> BOOLEAN], NEW s \in Sides, turn' = [turn EXCEPT ![s] = TRUE],
         \A t \in Sides : node'[t].inprog = node[t].inprog
  PROVE  /\ Turns(s, node', turn') \in 0..2
         /\ \/ Turns(s, node', turn') = Turns(s, node, turn)
            \/ Turns(s, node', turn') = Turns(s, node, turn) + 1
         /\ Turns(Other(s), node', turn') = Turns(Other(s), node, turn)
  <1>1. /\ turn'[s] = TRUE /\ turn'[Other(s)] = turn[Other(s)]
        /\ node'[s].inprog = node[s].inprog /\ node'[Other(s)].inprog = node[Other(s)].inprog
    BY SideOf
  <1>2. turn[s] \in BOOLEAN OBVIOUS
  <1>3. Turns(s, node', turn') = 1 + Bit(~node[s].inprog) BY <1>1 DEF Turns, Bit
  <1>4. Turns(s, node, turn) = Bit(turn[s]) + Bit(~node[s].inprog) BY DEF Turns
  <1>5. Bit(turn[s]) \in {0, 1} /\ Bit(~node[s].inprog) \in {0, 1} BY DEF Bit
  <1>6. Turns(Other(s), node', turn') = Turns(Other(s), node, turn) BY <1>1 DEF Turns
  <1> QED BY <1>3, <1>4, <1>5, <1>6

LEMMA WordsTail ==
  ASSUME NEW a \in Seq(Events), a # <<>>
  PROVE  /\ WordsLast(a) => WordsLast(Tail(a))
         /\ WordsLast(a) /\ Head(a).type = "flow" => OnlyWords(a)
         /\ OnlyWords(a) => OnlyWords(Tail(a)) /\ Head(a).type = "flow"
  <1> DEFINE b == Tail(a)
  <1>1. /\ Len(b) = Len(a) - 1 /\ Len(a) \in Nat /\ Len(a) > 0
        /\ \A i \in 1..Len(b) : b[i] = a[i+1]
        /\ Head(a) = a[1]
    BY TailItems
  <1> HIDE DEF b
  <1>2. \A i \in 1..Len(b) : i + 1 \in 1..Len(a) BY <1>1
  <1>3. ASSUME WordsLast(a) PROVE WordsLast(b)
    <2>1. ASSUME NEW i \in 1..Len(b), NEW j \in 1..Len(b), i < j, b[i].type = "flow"
          PROVE  b[j].type = "flow"
      <3>1. i + 1 \in 1..Len(a) /\ j + 1 \in 1..Len(a) /\ i + 1 < j + 1 BY <1>2, <2>1
      <3> QED BY <1>1, <1>3, <2>1, <3>1 DEF WordsLast
    <2> QED BY <2>1 DEF WordsLast
  <1>4. ASSUME WordsLast(a), Head(a).type = "flow" PROVE OnlyWords(a)
    <2>1. ASSUME NEW j \in 1..Len(a) PROVE a[j].type = "flow"
      <3>1. CASE j = 1 BY <1>1, <1>4, <3>1
      <3>2. CASE j # 1
        <4>1. 1 \in 1..Len(a) /\ 1 < j BY <1>1, <3>2
        <4> QED BY <1>1, <1>4, <4>1 DEF WordsLast
      <3> QED BY <3>1, <3>2
    <2> QED BY <2>1 DEF OnlyWords
  <1>5. OnlyWords(a) => OnlyWords(b) /\ Head(a).type = "flow" BY <1>1, <1>2 DEF OnlyWords
  <1> QED BY <1>3, <1>4, <1>5 DEF b

LEMMA WordsAppend ==
  ASSUME NEW a \in Seq(Events), NEW e \in Events
  PROVE  /\ OnlyWords(a) /\ e.type = "flow" => OnlyWords(Append(a, e))
         /\ OnlyWords(a) => WordsLast(a)
         /\ Tally(a, Words) = 0 => WordsLast(Append(a, e))
  <1> DEFINE b == Append(a, e)
  <1>1. /\ Len(b) = Len(a) + 1 /\ Len(a) \in Nat /\ b[Len(a) + 1] = e
        /\ \A i \in 1..Len(a) : b[i] = a[i]
    BY AppendItems
  <1> HIDE DEF b
  <1>2. \A i \in 1..Len(b) : i \in 1..Len(a) \/ i = Len(a) + 1 BY <1>1
  <1>3. OnlyWords(a) /\ e.type = "flow" => OnlyWords(b) BY <1>1, <1>2 DEF OnlyWords
  <1>4. OnlyWords(a) => WordsLast(a) BY DEF OnlyWords, WordsLast
  <1>5. ASSUME Tally(a, Words) = 0 PROVE WordsLast(b)
    <2>1. \A i \in 1..Len(a) : a[i] \notin Words /\ a[i] \in Events BY <1>5, TallyBounds
    <2>2. \A i \in 1..Len(a) : b[i].type # "flow" BY <1>1, <2>1, Kinds
    <2>3. ASSUME NEW i \in 1..Len(b), NEW j \in 1..Len(b), i < j PROVE i \in 1..Len(a)
      BY <1>1, <2>3
    <2> QED BY <2>2, <2>3 DEF WordsLast
  <1> QED BY <1>3, <1>4, <1>5 DEF b

LEMMA IgnoreDataSpare == ASSUME IInv, OneWay, Spare, NEW s \in Sides, IgnoreData(s) PROVE Spare'
  <1>1. /\ Handles(s, "data") /\ s = "C" /\ air' = Taken(s)
        /\ UNCHANGED <<node, link, scenario>> /\ turn' = [turn EXCEPT ![s] = TRUE]
    BY TwoSides DEF IgnoreData, Accepts
  <1>2. ~OnlyTalks("C") BY <1>1, TakenQuieted
  <1>3. Head(Incoming(s)) \in Events /\ Head(Incoming(s)).type = "data" BY <1>1, InHand
  <1>4. /\ air'["C"] = air["C"]
        /\ Due("P", air') = Due("P", air) - 1 /\ Due("P", air) > 0
        /\ Tally(air'["P"], DataOnly) = Tally(air["P"], DataOnly) - 1
    <2>1. Other("C") = "P" BY TwoSides
    <2>2. Head(Incoming(s)) \in Costs("P") /\ Head(Incoming(s)) \in DataOnly BY <1>3, Kinds
    <2> QED BY <1>1, <2>1, <2>2, TakenTally DEF Due
  <1>5. turn \in [Sides -> BOOLEAN] /\ turn'["P"] = turn["P"] BY <1>1, TwoSides DEF IInv, RestOK
  <1>6. ASSUME Margin, OnlyTalks("P") PROVE Laden("P", link', air', node', turn')
    <2>1. /\ Due("P", air) \in Nat /\ Said("P", air) \in Nat /\ Turns("P", node, turn) \in 0..2
          /\ Stored("P", node) \in Nat /\ Flag("P", node) \in {0, 1}
          /\ Flag("P", node) = 0 => Stored("P", node) <= RX_HIGH
          /\ Left("P", air, node)
          /\ link = "up" => Load("P", air, node, turn) /\ Start("P", air, node)
      BY <1>6, TwoSides, SpareNow
    <2>2. Said("P", air') = Said("P", air) /\ Turns("P", node', turn') = Turns("P", node, turn)
      BY <1>1, <1>4, <1>5, TwoSides DEF Said, Turns
    <2>3. link = "up" => Load("P", air', node', turn')
      <3>1. link = "up" => Fits(Due("P", air) - 1, Said("P", air), Turns("P", node, turn),
                                Stored("P", node), Flag("P", node))
        BY <1>4, <1>6, <2>1, FitsGoes DEF Load
      <3> QED BY <1>1, <1>4, <2>2, <3>1 DEF Load
    <2>4. link = "up" => Start("P", air', node')
      <3>1. ~Clear("P", air, node) BY <1>4 DEF Clear
      <3> QED BY <1>1, <1>4, <2>1, <2>2, <3>1 DEF Start
    <2>5. Left("P", air', node')
      <3>1. Tally(air["P"], DataOnly) \in Nat
        BY TallyBounds, TwoSides DEF IInv, AirFits, AllAttached
      <3> QED BY <1>1, <1>4, <2>1, <3>1, Marks DEF Left, Stored
    <2> QED BY <1>1, <2>3, <2>4, <2>5 DEF Laden
  <1>7. node' = [node EXCEPT ![s] = node[s]] BY <1>1 DEF IInv, NodesFine
  <1>8. Resting(s, node[s]) BY DEF Spare
  <1> QED BY <1>1, <1>2, <1>6, <1>7, <1>8, TwoSides, SpareNext

LEMMA CentralReceiveFlowSpare == ASSUME IInv, OneWay, Spare, CentralReceiveFlow PROVE Spare'
  <1> DEFINE v == Head(Incoming("C")).value
             n == node["C"]
             m == [n EXCEPT !.flow = v, !.ble = @ \/ v = "on"]
  <1>1. /\ Handles("C", "flow") /\ node' = [node EXCEPT !["C"] = m] /\ air' = Taken("C")
        /\ UNCHANGED <<link, scenario>> /\ turn' = [turn EXCEPT !["C"] = TRUE]
    BY DEF CentralReceiveFlow
  <1>2. /\ "C" \in Sides /\ "P" \in Sides /\ Other("C") = "P" /\ Other("P") = "C" /\ "C" # "P"
    BY TwoSides
  <1>3. /\ n \in Nodes /\ Head(Incoming("C")) \in Events /\ Head(Incoming("C")).type = "flow"
    BY <1>1, <1>2, InHand
  <1>4. m.tx = n.tx /\ m.rx = n.rx /\ m.inprog = n.inprog BY <1>3 DEF Nodes
  <1> HIDE DEF m
  <1>5. node'["C"] = m /\ node'["P"] = node["P"] BY <1>1, <1>2 DEF IInv, NodesFine
  <1>6. \A t \in Sides : /\ node'[t].tx = node[t].tx /\ node'[t].rx = node[t].rx
                         /\ node'[t].inprog = node[t].inprog
    BY <1>4, <1>5, TwoSides
  <1>7. \A t \in Sides : Stored(t, node') = Stored(t, node) /\ Flag(t, node') = Flag(t, node)
    BY <1>6, SideOf DEF Stored, Flag
  <1>8. /\ Turns("C", node', turn') \in 0..2
        /\ \/ Turns("C", node', turn') = Turns("C", node, turn)
           \/ Turns("C", node', turn') = Turns("C", node, turn) + 1
        /\ Turns("P", node', turn') = Turns("P", node, turn)
    <2>1. turn \in [Sides -> BOOLEAN] BY DEF IInv, RestOK
    <2> QED BY <1>1, <1>2, <1>6, <2>1, TurnsHeard
  <1>9. /\ air'["C"] = air["C"]
        /\ Said("C", air') = Said("C", air) - 1 /\ Said("C", air) > 0
        /\ Due("P", air') = Due("P", air)
        /\ Tally(air'["P"], DataOnly) = Tally(air["P"], DataOnly)
    <2>1. /\ Head(Incoming("C")) \in Words /\ Head(Incoming("C")) \notin DataOnly
          /\ Head(Incoming("C")) \notin Costs("P")
      BY <1>3, Kinds
    <2> QED BY <1>1, <1>2, <2>1, TakenTally DEF Said, Due
  <1>10. Due("C", air') = Due("C", air) /\ Said("P", air') = Said("P", air)
    BY <1>2, <1>9 DEF Due, Said
  <1>11. ASSUME Margin, OnlyTalks("C") PROVE Laden("C", link', air', node', turn')
    <2>1. /\ Due("C", air) \in Nat /\ Said("C", air) \in Nat /\ Turns("C", node, turn) \in 0..2
          /\ Stored("C", node) \in Nat /\ Flag("C", node) \in {0, 1}
          /\ Flag("C", node) = 0 => Stored("C", node) <= RX_HIGH
          /\ Left("C", air, node)
          /\ link = "up" => Load("C", air, node, turn) /\ Start("C", air, node)
      BY <1>2, <1>11, SpareNow
    <2>2. link = "up" => Load("C", air', node', turn')
      BY <1>2, <1>7, <1>8, <1>9, <1>10, <1>11, <2>1, FitsComes DEF Load
    <2>3. link = "up" => Start("C", air', node')
      BY <1>2, <1>6, <1>9, <2>1 DEF Start
    <2>4. Left("C", air', node') BY <1>2, <1>7, <1>9, <2>1 DEF Left
    <2> QED BY <1>1, <2>2, <2>3, <2>4 DEF Laden
  <1>12. ASSUME Margin, OnlyTalks("P") PROVE Laden("P", link', air', node', turn')
    <2>1. /\ Left("P", air, node)
          /\ link = "up" => Load("P", air, node, turn) /\ Start("P", air, node)
      BY <1>2, <1>12, SpareNow
    <2>2. link = "up" => Load("P", air', node', turn')
      BY <1>2, <1>7, <1>8, <1>9, <1>10, <2>1 DEF Load
    <2>3. link = "up" => Start("P", air', node')
      BY <1>2, <1>5, <1>6, <1>7, <1>9, <1>10, <2>1 DEF Start, Clear
    <2>4. Left("P", air', node') BY <1>2, <1>7, <1>9, <2>1 DEF Left
    <2> QED BY <1>1, <2>2, <2>3, <2>4 DEF Laden
  <1>13. Resting("C", m)
    <2>1. Resting("C", n) BY <1>2 DEF Spare
    <2> QED BY <1>2, <1>4, <2>1 DEF Resting
  <1> QED BY <1>1, <1>2, <1>11, <1>12, <1>13, TwoSides, SpareNext

\* P hears an event other than data, may answer with a word, and keeps its queues.
LEMMA PeriphHears ==
  ASSUME IInv, OneWay, Spare, NEW type, Handles("P", type), type = "flow" \/ type = "ccc",
         NEW m, node' = [node EXCEPT !["P"] = m], NEW w \in Events, w.type = "flow", NEW p,
         p = <<>> \/ p = <<w>>, p = <<w>> => Head(Incoming("P")).type = "flow" \/ Head(Incoming("P")) = Ccc("flow"),
         Call("P", Taken("P"), p), UNCHANGED <<link, scenario>>, turn' = [turn EXCEPT !["P"] = TRUE],
         m.tx = node["P"].tx, m.rx = node["P"].rx, m.inprog = node["P"].inprog, Resting("P", m),
         type = "ccc" => m.flow = node["P"].flow
  PROVE  Spare'
  <1> DEFINE n == node["P"]
             h == Head(Incoming("P"))
             r == Taken("P")
  <1>2. /\ "C" \in Sides /\ "P" \in Sides /\ Other("C") = "P" /\ Other("P") = "C" /\ "C" # "P"
    BY TwoSides
  <1>3. /\ n \in Nodes /\ h \in Events /\ h.type = type /\ r \in [Sides -> Seq(Events)]
        /\ Incoming("P") = air["C"] /\ air["C"] \in Seq(Events) /\ air["C"] # <<>>
        /\ r["C"] = Tail(air["C"])
    <2>1. /\ n \in Nodes /\ h \in Events /\ h.type = type /\ r \in [Sides -> Seq(Events)]
          /\ Incoming("P") = air[Other("P")] /\ Incoming("P") \in Seq(Events)
          /\ Incoming("P") # <<>> /\ r[Other("P")] = Tail(Incoming("P"))
      BY <1>2, InHand
    <2> HIDE DEF n, h, r
    <2> QED BY <1>2, <2>1
  <1>4. node'["P"] = m /\ node'["C"] = node["C"] BY <1>2 DEF IInv, NodesFine
  <1>5. \A t \in Sides : /\ node'[t].tx = node[t].tx /\ node'[t].rx = node[t].rx
                         /\ node'[t].inprog = node[t].inprog
    BY <1>4, TwoSides
  <1>6. \A t \in Sides : Stored(t, node') = Stored(t, node) /\ Flag(t, node') = Flag(t, node)
    BY <1>5, SideOf DEF Stored, Flag
  <1>7. /\ Turns("P", node', turn') \in 0..2
        /\ \/ Turns("P", node', turn') = Turns("P", node, turn)
           \/ Turns("P", node', turn') = Turns("P", node, turn) + 1
        /\ Turns("C", node', turn') = Turns("C", node, turn)
    <2>1. turn \in [Sides -> BOOLEAN] BY DEF IInv, RestOK
    <2> QED BY <1>2, <1>5, <2>1, TurnsHeard
  <1> HIDE DEF r
  <1>8. /\ air'["C"] = r["C"]
        /\ Due("P", air') = Due("P", air)
        /\ Tally(air'["P"], DataOnly) = Tally(air["P"], DataOnly)
        /\ Said("C", air') = Said("C", air) \/ (p = <<w>> /\ Said("C", air') = Said("C", air) + 1)
    <2>1. w \notin Costs("P") /\ w \notin DataOnly /\ w \in Words BY Kinds
    <2>2. Call("P", r, p) BY DEF r
    <2>3. r["P"] = air["P"] BY <1>2, TakenTally DEF r
    <2>4. /\ air'["C"] = r["C"]
          /\ Tally(air'["P"], Costs("P")) = Tally(r["P"], Costs("P"))
          /\ Tally(air'["P"], DataOnly) = Tally(r["P"], DataOnly)
          /\ Tally(air'["P"], Words) = Tally(r["P"], Words)
             \/ Tally(air'["P"], Words) = Tally(r["P"], Words) + 1
      <3>1. air'[Other("P")] = r[Other("P")] BY <1>2, <1>3, <2>2, CallTally
      <3>2. Tally(air'["P"], Costs("P")) = Tally(r["P"], Costs("P"))
        BY <1>2, <1>3, <2>1, <2>2, CallTally
      <3>3. Tally(air'["P"], DataOnly) = Tally(r["P"], DataOnly)
        BY <1>2, <1>3, <2>1, <2>2, CallTally
      <3>4. \/ Tally(air'["P"], Words) = Tally(r["P"], Words)
            \/ Tally(air'["P"], Words) = Tally(r["P"], Words) + 1
        BY <1>2, <1>3, <2>2, CallTally
      <3> QED BY <1>2, <3>1, <3>2, <3>3, <3>4
    <2>5. p = <<>> => air' = r
      <3>1. Handed("P", r, <<>>) = r BY <1>2, <1>3, HandedOne
      <3> QED BY <2>2, <3>1 DEF Call
    <2> QED BY <1>2, <2>3, <2>4, <2>5 DEF Due, Said
  <1>9. Tally(air'["C"], DataOnly) = Tally(air["C"], DataOnly)
    BY <1>2, <1>3, <1>8, Kinds, TakenTally DEF r
  <1>10. /\ type = "flow" => Said("P", air') = Said("P", air) - 1 /\ Said("P", air) > 0
         /\ type = "ccc" => Said("P", air') = Said("P", air)
    BY <1>2, <1>3, <1>8, Kinds, TakenTally DEF r, Said
  <1>11. /\ h.type = "flow" \/ h = Ccc("flow") => Due("C", air') = Due("C", air) - 1 /\ Due("C", air) > 0
         /\ ~(h.type = "flow" \/ h = Ccc("flow")) => Due("C", air') = Due("C", air)
    BY <1>2, <1>3, <1>8, Kinds, TakenTally DEF r, Due
  <1>12. ASSUME Margin, OnlyTalks("P") PROVE Laden("P", link', air', node', turn')
    <2>1. /\ Due("P", air) \in Nat /\ Said("P", air) \in Nat /\ Turns("P", node, turn) \in 0..2
          /\ Stored("P", node) \in Nat /\ Flag("P", node) \in {0, 1}
          /\ Flag("P", node) = 0 => Stored("P", node) <= RX_HIGH
          /\ Left("P", air, node)
          /\ link = "up" => Load("P", air, node, turn) /\ Start("P", air, node)
      BY <1>2, <1>12, SpareNow
    <2>2. Left("P", air', node') BY <1>2, <1>6, <1>8, <2>1 DEF Left
    <2>3. CASE type = "flow"
      <3>1. link = "up" => Load("P", air', node', turn')
        <4>1. ASSUME link = "up"
              PROVE  /\ Fits(Due("P", air), Said("P", air) - 1, Turns("P", node, turn),
                             Stored("P", node), Flag("P", node))
                     /\ Fits(Due("P", air), Said("P", air) - 1, Turns("P", node, turn) + 1,
                             Stored("P", node), Flag("P", node))
          BY <1>10, <1>12, <2>1, <2>3, <4>1, FitsComes DEF Load
        <4> QED BY <1>2, <1>6, <1>7, <1>8, <1>10, <2>3, <4>1 DEF Load
      <3>2. link = "up" => Start("P", air', node')
        <4>1. SUFFICES ASSUME link = "up" PROVE Start("P", air', node') OBVIOUS
        <4>2. node["C"].tx # None /\ WordsLast(air["C"]) BY <1>10, <2>1, <2>3, <4>1 DEF Start
        <4>3. WordsLast(Tail(air["C"])) /\ OnlyWords(Tail(air["C"]))
          BY <1>3, <2>3, <4>2, WordsTail
        <4> QED BY <1>3, <1>4, <1>8, <4>2, <4>3 DEF Start
      <3> QED BY <2>2, <3>1, <3>2 DEF Laden
    <2>4. CASE type = "ccc"
      <3>0. SUFFICES ASSUME link = "up" PROVE Load("P", air', node', turn') /\ Start("P", air', node')
        BY <2>2 DEF Laden
      <3>1. ~OnlyWords(air["C"]) BY <1>3, <2>4, WordsTail
      <3>2. /\ Due("P", air) = 0 /\ Stored("P", node) = 0 /\ Flag("P", node) = 0
            /\ Said("P", air) <= 1 /\ n.flow = "off"
        BY <2>1, <3>0, <3>1 DEF Start, Clear
      <3>3. Load("P", air', node', turn')
        <4>1. Said("P", air) \in 0..1 BY <2>1, <3>2
        <4>2. Fits(0, Said("P", air), Turns("P", node', turn'), 0, 0) BY <1>7, <1>12, <4>1, FitsFirst
        <4> QED BY <1>2, <1>6, <1>8, <1>10, <2>4, <3>2, <4>2 DEF Load
      <3>4. Start("P", air', node')
        <4>1. WordsLast(Tail(air["C"])) BY <1>3, <2>1, <3>0, WordsTail DEF Start
        <4>2. node["C"].tx = None => Said("P", air) = 0 BY <2>1, <3>0 DEF Start
        <4> QED BY <1>2, <1>3, <1>4, <1>6, <1>8, <1>10, <2>4, <3>2, <4>1, <4>2 DEF Start, Clear
      <3> QED BY <3>3, <3>4
    <2> QED BY <2>3, <2>4
  <1>13. ASSUME Margin, OnlyTalks("C") PROVE Laden("C", link', air', node', turn')
    <2>1. /\ Due("C", air) \in Nat /\ Said("C", air) \in Nat /\ Turns("C", node, turn) \in 0..2
          /\ Stored("C", node) \in Nat /\ Flag("C", node) \in {0, 1}
          /\ Flag("C", node) = 0 => Stored("C", node) <= RX_HIGH
          /\ Left("C", air, node)
          /\ link = "up" => Load("C", air, node, turn) /\ Start("C", air, node)
      BY <1>2, <1>13, SpareNow
    <2>2. Left("C", air', node') BY <1>2, <1>6, <1>9, <2>1 DEF Left
    <2>3. SUFFICES ASSUME link = "up" PROVE Load("C", air', node', turn') /\ Start("C", air', node')
      BY <2>2 DEF Laden
    <2>4. Flag("C", node) = 0
      <3>1. PeriphTold(air, node) BY <1>13, <2>3 DEF OneWay, Told
      <3>2. ~Crossed(n) BY <1>3, <3>1, FreeTail DEF PeriphTold, Control
      <3>3. Flag("C", node) = 1 <=> Crossed(n)
        BY <1>2, Numbers DEF IInv, AirFits, AllAttached, NodesFine, RestOK
      <3> QED BY <2>1, <3>2, <3>3
    <2>5. CASE h.type = "flow" \/ h = Ccc("flow")
      <3>1. /\ Fits(Due("C", air) - 1, Said("C", air), Turns("C", node, turn), Stored("C", node),
                    Flag("C", node))
            /\ Fits(Due("C", air) - 1, Said("C", air) + 1, Turns("C", node, turn), Stored("C", node),
                    Flag("C", node))
        BY <1>11, <1>13, <2>1, <2>3, <2>4, <2>5, FitsGoes DEF Load
      <3>2. Load("C", air', node', turn')
        BY <1>2, <1>6, <1>7, <1>8, <1>11, <2>5, <3>1 DEF Load
      <3>3. node["C"].tx # None BY <1>2, <1>11, <2>1, <2>3, <2>5 DEF Start, Clear
      <3>4. Start("C", air', node') BY <1>2, <1>4, <3>3 DEF Start
      <3> QED BY <3>2, <3>4
    <2>6. CASE ~(h.type = "flow" \/ h = Ccc("flow"))
      <3>1. p # <<w>> BY <2>6
      <3>2. Load("C", air', node', turn')
        BY <1>2, <1>6, <1>7, <1>8, <1>11, <2>1, <2>3, <2>6, <3>1 DEF Load
      <3>3. Start("C", air', node')
        BY <1>2, <1>4, <1>6, <1>8, <1>11, <2>1, <2>3, <2>6, <3>1 DEF Start, Clear
      <3> QED BY <3>2, <3>3
    <2> QED BY <2>5, <2>6
  <1> QED BY <1>2, <1>12, <1>13, TwoSides, SpareNext

LEMMA PeriphReceiveFlowSpare == ASSUME IInv, OneWay, Spare, PeriphReceiveFlow PROVE Spare'
  <1> DEFINE v == Head(Incoming("P")).value
             n == node["P"]
             m == PeriphFlow(n, v)
             p == PeriphNotified(n, v)
  <1>1. /\ Handles("P", "flow") /\ node' = [node EXCEPT !["P"] = m]
        /\ Call("P", Taken("P"), p)
        /\ UNCHANGED <<link, scenario>> /\ turn' = [turn EXCEPT !["P"] = TRUE]
    BY DEF PeriphReceiveFlow
  <1>2. n \in Nodes /\ v \in {"on", "off"} /\ Head(Incoming("P")).type = "flow"
    <2>1. /\ n \in Nodes /\ Head(Incoming("P")) \in Events /\ Head(Incoming("P")).type = "flow"
      BY <1>1, TwoSides, InHand
    <2> QED BY <2>1, EventTypes
  <1>3. Flow(v) \in Events /\ Flow(v).type = "flow" BY <1>2, EventTypes
  <1>4. p = <<>> \/ p = <<Flow(v)>> BY DEF PeriphNotified
  <1> HIDE DEF v
  <1>5. /\ m.tx = n.tx /\ m.rx = n.rx /\ m.inprog = n.inprog /\ m.conn = n.conn
        /\ m.flow = IF n.conn THEN v ELSE n.flow
    BY <1>2 DEF PeriphFlow, Nodes
  <1> HIDE DEF m, p
  <1>6. Resting("P", m)
    <2>1. Resting("P", n) BY TwoSides DEF Spare
    <2>2. m.flow = "on" => m.conn BY <1>5, <2>1 DEF Resting
    <2> QED BY <1>5, <2>1, <2>2 DEF Resting
  <1> QED BY <1>1, <1>2, <1>3, <1>4, <1>5, <1>6, PeriphHears

LEMMA PeriphReceiveCccSpare == ASSUME IInv, OneWay, Spare, PeriphReceiveCcc PROVE Spare'
  <1> DEFINE h == Head(Incoming("P")).value
             n == node["P"]
             m == [n EXCEPT !.ccc = @ \cup {h}]
             w == Flow(n.flow)
             p == IF h = "flow" THEN <<w>> ELSE <<>>
  <1>1. /\ Handles("P", "ccc") /\ node' = [node EXCEPT !["P"] = m]
        /\ Call("P", Taken("P"), p)
        /\ UNCHANGED <<link, scenario>> /\ turn' = [turn EXCEPT !["P"] = TRUE]
    BY DEF PeriphReceiveCcc
  <1>2. n \in Nodes /\ Head(Incoming("P")) = Ccc(h)
    <2>1. /\ n \in Nodes /\ Head(Incoming("P")) \in Events /\ Head(Incoming("P")).type = "ccc"
      BY <1>1, TwoSides, InHand
    <2> QED BY <2>1, EventTypes
  <1>3. w \in Events /\ w.type = "flow" BY <1>2, FieldTypes, EventTypes
  <1>4. p = <<>> \/ (p = <<w>> /\ Head(Incoming("P")) = Ccc("flow")) BY <1>2
  <1> HIDE DEF h, w
  <1>5. /\ m.tx = n.tx /\ m.rx = n.rx /\ m.inprog = n.inprog /\ m.conn = n.conn /\ m.flow = n.flow
    BY <1>2 DEF Nodes
  <1>6. <<>> # <<w>> OBVIOUS
  <1> HIDE DEF m, p
  <1>7. Resting("P", m)
    <2>1. Resting("P", n) BY TwoSides DEF Spare
    <2> QED BY <1>5, <2>1 DEF Resting
  <1> QED BY <1>1, <1>3, <1>4, <1>5, <1>6, <1>7, PeriphHears

LEMMA ReceiveDataSpare == ASSUME IInv, OneWay, Spare, NEW s \in Sides, ReceiveData(s) PROVE Spare'
  <1> DEFINE x == Head(Incoming(s)).value
             w == RQ!Write(node[s].rx, x)
             q == RQ!CheckedFull(w)
             n == [node[s] EXCEPT !.rx = q, !.txt = TRUE]
             full == RQ!AlmostFull(w)
             m == IF full THEN FlowSet(s, n, "off") ELSE n
             p == IF full THEN FlowSent(s, n, "off") ELSE <<>>
             t == Other(s)
  <1>1. /\ Handles(s, "data") /\ node[s].rx # None
        /\ node' = [node EXCEPT ![s] = m] /\ Call(s, Taken(s), p)
        /\ UNCHANGED <<link, scenario>> /\ turn' = [turn EXCEPT ![s] = TRUE]
    <2>1. air' = Taken(s) => air' = Handed(s, Taken(s), <<>>)
      <3>1. Handles(s, "data") BY DEF ReceiveData
      <3>2. Taken(s) \in [Sides -> Seq(Events)] BY <3>1, InHand
      <3> QED BY <3>2, EventTypes, HandedOne
    <2> QED BY <2>1 DEF ReceiveData, Call
  <1>2. /\ node[s] \in Nodes /\ x \in Number /\ Taken(s) \in [Sides -> Seq(Events)]
        /\ Head(Incoming(s)).type = "data" /\ Head(Incoming(s)) \in Events
        /\ Taken(s)[s] = air[s] /\ t \in Sides /\ s = Other(t) /\ s # t
        /\ Incoming(s) = air[t]
    BY <1>1, SideOf, InHand, EventTypes
  <1>3. /\ node[s].rx.items \in Seq(Number) /\ node[s].rx.hwm \in {0, 1}
        /\ w.items = Append(node[s].rx.items, x) /\ w.hwm = node[s].rx.hwm
        /\ q \in TQ!Queues(Number) /\ q.items = w.items /\ (q.hwm = IF full THEN 1 ELSE w.hwm)
    <2>1. node[s].rx \in TQ!Queues(Number) BY <1>1, <1>2, FieldTypes
    <2>2. /\ w \in TQ!Queues(Number) /\ w.hwm = node[s].rx.hwm
          /\ w.items = Append(node[s].rx.items, x)
      <3>1. w = TQ!Write(node[s].rx, x) BY <1>2, <2>1, QueueOps
      <3> HIDE DEF w, x
      <3> QED BY <1>2, <2>1, <3>1, QueueOps
    <2> HIDE DEF w
    <2>3. q \in TQ!Queues(Number) /\ q.items = w.items /\ (q.hwm = IF full THEN 1 ELSE w.hwm)
      BY <1>2, <2>2, QueueOps
    <2> HIDE DEF q, full, x
    <2> QED BY <2>1, <2>2, <2>3, QueueFields
  <1>4. /\ Len(node[s].rx.items) \in Nat /\ Len(q.items) = Len(node[s].rx.items) + 1
        /\ full <=> Len(node[s].rx.items) + 1 > RX_HIGH /\ node[s].rx.hwm = 0
    <2>1. full <=> Len(w.items) > RX_HIGH /\ w.hwm = 0 BY DEF RQ!AlmostFull, RQ!ItemCount
    <2> HIDE DEF full, w, q, x
    <2>2. Len(Append(node[s].rx.items, x)) = Len(node[s].rx.items) + 1
      BY <1>2, <1>3, AppendProperties
    <2>3. Len(node[s].rx.items) \in Nat BY <1>3
    <2> QED BY <1>3, <2>1, <2>2, <2>3
  <1> HIDE DEF q, full, w, x
  <1>5. q # None BY <1>3, QueueFields
  <1>6. /\ n.rx = q /\ n.tx = node[s].tx /\ n.conn = node[s].conn /\ n.inprog = node[s].inprog
        /\ n.flow = node[s].flow /\ n \in Nodes
    <2>1. RQ!Queues(Number) = TQ!Queues(Number) BY DEF RQ!Queues, TQ!Queues
    <2> QED BY <1>2, <1>3, <2>1 DEF Nodes
  <1> HIDE DEF n
  <1>7. /\ m.rx = q /\ m.tx = node[s].tx /\ m.conn = node[s].conn /\ m.inprog = node[s].inprog
        /\ (s = "C" => m.flow = node[s].flow)
        /\ m.flow = node[s].flow \/ m.flow = "off"
    BY <1>6, FieldTypes, TwoSides DEF FlowSet, PeriphFlow, Nodes
  <1>8. p = <<>> \/ p = <<Flow("off")>> BY DEF FlowSent, PeriphNotified
  <1>9. Flow("off") \in Events /\ Flow("off").type = "flow" BY EventTypes
  <1> HIDE DEF m, p
  <1>10. Resting(s, m)
    <2>1. Resting(s, node[s]) BY DEF Spare
    <2>2. q.hwm = 0 => Len(q.items) <= RX_HIGH BY <1>3, <1>4, Marks
    <2>3. s = "P" /\ m.flow = "on" => m.conn BY <1>7, <2>1 DEF Resting
    <2> QED BY <1>7, <2>2, <2>3 DEF Resting
  <1>11. node'[s] = m /\ node'[t] = node[t] BY <1>1, <1>2 DEF IInv, NodesFine
  <1>12. \A r \in Sides : node'[r].tx = node[r].tx /\ node'[r].inprog = node[r].inprog
    BY <1>2, <1>7, <1>11, SideOf
  <1>13. Turns(t, node', turn') = Turns(t, node, turn)
    <2>1. turn \in [Sides -> BOOLEAN] BY DEF IInv, RestOK
    <2> QED BY <1>1, <1>12, <2>1, TurnsHeard
  <1>14. /\ Stored(t, node) = Len(node[s].rx.items) /\ Stored(t, node') = Stored(t, node) + 1
         /\ Flag(t, node) = node[s].rx.hwm /\ Flag(t, node') = q.hwm
    BY <1>1, <1>2, <1>4, <1>5, <1>7, <1>11 DEF Stored, Flag, Items
  <1>15. \A H : /\ Head(Incoming(s)) \in H => /\ Tally(Taken(s)[t], H) = Tally(air[t], H) - 1
                                             /\ Tally(air[t], H) > 0
    BY <1>1, TakenTally
  <1>16. /\ air'[t] = Taken(s)[t]
         /\ \/ Tally(air'[s], Words) = Tally(air[s], Words)
            \/ Tally(air'[s], Words) = Tally(air[s], Words) + 1
         /\ p = <<>> => Tally(air'[s], Words) = Tally(air[s], Words)
    <2>1. air'[t] = Taken(s)[t] BY <1>1, <1>2, <1>8, <1>9, CallTally
    <2>2. \/ Tally(air'[s], Words) = Tally(Taken(s)[s], Words)
          \/ Tally(air'[s], Words) = Tally(Taken(s)[s], Words) + 1
      BY <1>1, <1>2, <1>8, <1>9, CallTally
    <2>3. p = <<>> => air' = Taken(s)
      <3>1. Handed(s, Taken(s), <<>>) = Taken(s) BY <1>2, <1>9, HandedOne
      <3> QED BY <1>1, <3>1 DEF Call
    <2> QED BY <1>2, <2>1, <2>2, <2>3
  <1>17. ASSUME Margin, OnlyTalks(t) PROVE Laden(t, link', air', node', turn')
    <2>1. /\ Due(t, air) \in Nat /\ Said(t, air) \in Nat /\ Turns(t, node, turn) \in 0..2
          /\ Stored(t, node) \in Nat /\ Flag(t, node) \in {0, 1}
          /\ Flag(t, node) = 0 => Stored(t, node) <= RX_HIGH
          /\ Left(t, air, node)
          /\ link = "up" => Load(t, air, node, turn) /\ Start(t, air, node)
      BY <1>2, <1>17, SpareNow
    <2>2. /\ Due(t, air') = Due(t, air) - 1 /\ Due(t, air) > 0
          /\ Tally(air'[t], DataOnly) = Tally(air[t], DataOnly) - 1
      <3>1. Head(Incoming(s)) \in Costs(t) /\ Head(Incoming(s)) \in DataOnly
        BY <1>2, Kinds DEF Costs
      <3> QED BY <1>15, <1>16, <3>1 DEF Due
    <2>3. Said(t, air') = Said(t, air) \/ (full /\ Said(t, air') = Said(t, air) + 1)
      BY <1>2, <1>16 DEF Said, p
    <2>4. Left(t, air', node')
      <3>1. Tally(air[t], DataOnly) \in Nat BY <1>2, TallyBounds DEF IInv, AirFits, AllAttached
      <3>2. Tally(air[t], DataOnly) + Stored(t, node) <= RX_SIZE BY <2>1 DEF Left
      <3>3. Tally(air'[t], DataOnly) + Stored(t, node') = Tally(air[t], DataOnly) + Stored(t, node)
        <4>1. Stored(t, node) \in Nat /\ Stored(t, node') = Stored(t, node) + 1 BY <1>14, <2>1
        <4>2. Tally(air'[t], DataOnly) = Tally(air[t], DataOnly) - 1 BY <2>2
        <4> QED BY ONLY <3>1, <4>1, <4>2
      <3> QED BY ONLY <3>2, <3>3 DEF Left
    <2>5. SUFFICES ASSUME link = "up" PROVE Load(t, air', node', turn') /\ Start(t, air', node')
      BY <1>1, <2>4 DEF Laden
    <2>6. Fits(Due(t, air), Said(t, air), Turns(t, node, turn), Stored(t, node), Flag(t, node))
      BY <2>1, <2>5 DEF Load
    <2>7. Load(t, air', node', turn')
      <3>1. CASE full
        <4>1. Flag(t, node) = 0 /\ Stored(t, node) >= RX_HIGH /\ Flag(t, node') = 1
          BY <1>3, <1>4, <1>14, <3>1, Marks
        <4>2. /\ Fits(Due(t, air) - 1, Said(t, air) + 1, Turns(t, node, turn), Stored(t, node) + 1, 1)
              /\ Fits(Due(t, air) - 1, Said(t, air), Turns(t, node, turn), Stored(t, node) + 1, 1)
          BY <1>17, <2>1, <2>2, <2>6, <4>1, FitsGoes
        <4> QED BY <1>13, <1>14, <2>2, <2>3, <4>1, <4>2 DEF Load
      <3>2. CASE ~full
        <4>1. /\ Flag(t, node') = Flag(t, node)
              /\ Flag(t, node) = 1 \/ Stored(t, node) < RX_HIGH
          BY <1>3, <1>4, <1>14, <3>2, Marks
        <4>2. Fits(Due(t, air) - 1, Said(t, air), Turns(t, node, turn), Stored(t, node) + 1,
                   Flag(t, node))
          BY <1>17, <2>1, <2>2, <2>6, <4>1, FitsGoes
        <4> QED BY <1>13, <1>14, <2>2, <2>3, <3>2, <4>1, <4>2 DEF Load
      <3> QED BY <3>1, <3>2
    <2>8. Start(t, air', node')
      <3>1. ~Clear(t, air, node) BY <2>2 DEF Clear
      <3>2. CASE t = "P"
        <4>1. s = "C" BY <1>2, <3>2, TwoSides
        <4>2. node["C"].tx # None /\ OnlyWords(air["C"]) BY <2>1, <2>5, <3>1, <3>2 DEF Start
        <4>3. air' = Taken(s) \/ air'["C"] = Append(air["C"], Flow("off"))
          <5>1. Handed(s, Taken(s), <<>>) = Taken(s) BY <1>2, <1>9, HandedOne
          <5>2. Handed(s, Taken(s), <<Flow("off")>>)[s] = Append(Taken(s)[s], Flow("off"))
            BY <1>2, <1>9, <2>5, HandedOne
          <5> QED BY <1>1, <1>2, <1>8, <4>1, <5>1, <5>2 DEF Call
        <4>4. air["C"] \in Seq(Events) BY TwoSides DEF IInv, AirFits, AllAttached
        <4>5. OnlyWords(air'["C"]) BY <1>2, <1>9, <4>1, <4>2, <4>3, <4>4, WordsAppend
        <4>6. WordsLast(air'["C"]) BY <4>5 DEF OnlyWords, WordsLast
        <4>7. node'["C"].tx # None BY <1>12, <4>2, TwoSides
        <4> QED BY <3>2, <4>5, <4>6, <4>7 DEF Start
      <3>3. CASE t = "C"
        <4>1. node["C"].tx # None BY <2>1, <2>5, <3>1, <3>3, TwoSides DEF Start
        <4> QED BY <1>12, <3>3, <4>1, TwoSides DEF Start
      <3> QED BY <1>2, <3>2, <3>3, TwoSides
    <2> QED BY <2>7, <2>8
  <1>18. ~OnlyTalks(s) BY <1>1, TakenQuieted
  <1>19. \A r \in Sides : r = s \/ r = t BY SideOf
  <1>20. Margin => \A r \in Sides : OnlyTalks(r) => Laden(r, link', air', node', turn')
    <2> HIDE DEF t
    <2> QED BY <1>17, <1>18, <1>19
  <1> QED BY <1>1, <1>10, <1>20, SpareNext

LEMMA TxWrittenSpare ==
  ASSUME IInv, OneWay, Spare, NEW s \in Sides, TxWritten(s), Faultless'
  PROVE  Spare'
  <1> DEFINE q == node[s].rx
             z == RQ!CheckedEmpty(q)
             c == IF q = None THEN None ELSE z
             f == node[s].fault \/ q = None
             b == node[s].txt \/ Items(q) # <<>>
             n == [node[s] EXCEPT !.held = None, !.rx = c, !.txt = b, !.fault = f]
             m == FlowSet(s, n, "on")
             p == FlowSent(s, n, "on")
             t == Other(s)
  <1>1. /\ node[s] \in Nodes /\ t \in Sides /\ s = Other(t) /\ s # t
        /\ Still(s, node[s]) /\ Resting(s, node[s])
    BY SideOf DEF IInv, NodesFine, OneWay, Spare
  <1>2. q # None
    <2>1. SUFFICES ASSUME q = None PROVE FALSE OBVIOUS
    <2>2. node' = [node EXCEPT ![s] = n] \/ node' = [node EXCEPT ![s] = m]
      BY Zenon DEF TxWritten
    <2>3. n.fault = TRUE
      <3>1. f = TRUE BY <2>1
      <3> HIDE DEF f, c, b
      <3> QED BY <1>1, <3>1 DEF Nodes
    <2>4. m.fault = n.fault
      <3> HIDE DEF f, c, b
      <3> QED BY <1>1 DEF FlowSet, PeriphFlow, Nodes
    <2> HIDE DEF m, n
    <2>5. node'[s].fault BY <2>2, <2>3, <2>4 DEF IInv, NodesFine
    <2> QED BY <2>5 DEF Faultless
  <1>3. /\ node[s].held # None /\ UNCHANGED <<link, turn, scenario>>
        /\ \/ RQ!AlmostEmpty(q) /\ node' = [node EXCEPT ![s] = m] /\ Call(s, air, p)
           \/ ~RQ!AlmostEmpty(q) /\ node' = [node EXCEPT ![s] = n] /\ UNCHANGED air
    <2>1. FoundLow(q) = {RQ!AlmostEmpty(q)} BY <1>2 DEF FoundLow
    <2> QED BY <2>1 DEF TxWritten
  <1>4. c = z /\ b \in BOOLEAN /\ f \in BOOLEAN BY <1>1, <1>2 DEF Nodes
  <1> HIDE DEF b, f, c
  <1>5. CASE ~RQ!AlmostEmpty(q) /\ node' = [node EXCEPT ![s] = n] /\ UNCHANGED air
    <2>1. z = q BY <1>5 DEF RQ!CheckedEmpty
    <2> HIDE DEF z
    <2>2. /\ n.rx = z /\ n.flow = node[s].flow /\ n.conn = node[s].conn
          /\ n.tx = node[s].tx /\ n.inprog = node[s].inprog
      BY <1>1, <1>4 DEF Nodes
    <2> HIDE DEF n
    <2> QED BY <1>3, <1>5, <2>1, <2>2, SpareSame
  <1>6. CASE /\ RQ!AlmostEmpty(q)
             /\ node' = [node EXCEPT ![s] = m] /\ Call(s, air, p)
    <2>1. /\ q \in TQ!Queues(Number) /\ q.hwm = 1 /\ Len(q.items) <= RX_LOW /\ Len(q.items) \in Nat
          /\ q.items \in Seq(Number)
      <3>1. q \in TQ!Queues(Number) BY <1>1, <1>2, FieldTypes
      <3>2. Len(q.items) <= RX_LOW /\ q.hwm = 1 BY <1>6 DEF RQ!AlmostEmpty, RQ!ItemCount
      <3> QED BY <3>1, <3>2, QueueFields
    <2>2. z = [q EXCEPT !.hwm = 0] BY <1>6 DEF RQ!CheckedEmpty
    <2>3. z \in RQ!Queues(Number) /\ z.items = q.items /\ z.hwm = 0 /\ z # None
      <3>1. z \in TQ!Queues(Number) /\ z.items = q.items /\ z.hwm = 0 BY <2>1, <2>2 DEF TQ!Queues
      <3> HIDE DEF z
      <3> QED BY <3>1, QueueFields
    <2> HIDE DEF z
    <2>4. /\ n.rx = z /\ n.flow = node[s].flow /\ n.conn = node[s].conn /\ n.inprog = node[s].inprog
          /\ n.tx = node[s].tx /\ n \in Nodes
      BY <1>1, <1>4, <2>3 DEF Nodes
    <2> HIDE DEF n
    <2>5. /\ m.rx = z /\ m.tx = node[s].tx /\ m.conn = node[s].conn /\ m.inprog = node[s].inprog
          /\ s = "C" => m.flow = node[s].flow
          /\ m.flow = node[s].flow \/ m.conn
      BY <2>4, TwoSides DEF FlowSet, PeriphFlow, Nodes
    <2>6. p = <<>> \/ p = <<Flow("on")>> BY DEF FlowSent, PeriphNotified
    <2>7. Flow("on") \in Events /\ Flow("on").type = "flow" BY EventTypes
    <2> HIDE DEF m, p
    <2>8. Resting(s, m) BY <1>1, <2>1, <2>3, <2>5, Marks DEF Resting
    <2>9. node'[s] = m /\ node'[t] = node[t] BY <1>1, <1>6 DEF IInv, NodesFine
    <2>10. \A r \in Sides : node'[r].tx = node[r].tx /\ node'[r].inprog = node[r].inprog
      BY <1>1, <2>5, <2>9, SideOf
    <2>11. air \in [Sides -> Seq(Events)] BY DEF IInv, AirFits, AllAttached
    <2>12. /\ air'[t] = air[t]
           /\ \/ Tally(air'[s], Words) = Tally(air[s], Words)
              \/ Tally(air'[s], Words) = Tally(air[s], Words) + 1
      BY <1>1, <1>6, <2>6, <2>7, <2>11, CallTally
    <2>13. /\ Turns(t, node', turn') = Turns(t, node, turn) /\ Stored(t, node') = Stored(t, node)
           /\ Flag(t, node) = 1 /\ Flag(t, node') = 0 /\ Stored(t, node) <= RX_LOW
           /\ Due(t, air') = Due(t, air)
           /\ Said(t, air') = Said(t, air) \/ Said(t, air') = Said(t, air) + 1
      <3>1. Turns(t, node', turn') = Turns(t, node, turn) BY <1>3, <1>1, <2>10 DEF Turns
      <3>2. /\ Stored(t, node') = Stored(t, node) /\ Flag(t, node) = 1 /\ Flag(t, node') = 0
            /\ Stored(t, node) <= RX_LOW
        BY <1>1, <1>2, <1>6, <2>1, <2>3, <2>5, <2>9 DEF Stored, Flag, Items
      <3>3. /\ Due(t, air') = Due(t, air)
            /\ Said(t, air') = Said(t, air) \/ Said(t, air') = Said(t, air) + 1
        BY <1>1, <2>12 DEF Due, Said
      <3> QED BY <3>1, <3>2, <3>3
    <2>14. ASSUME Margin, OnlyTalks(t) PROVE Laden(t, link', air', node', turn')
      <3>1. /\ Due(t, air) \in Nat /\ Said(t, air) \in Nat /\ Turns(t, node, turn) \in 0..2
            /\ Stored(t, node) \in Nat
            /\ Left(t, air, node)
            /\ link = "up" => Load(t, air, node, turn) /\ Start(t, air, node)
        BY <1>1, <2>14, SpareNow
      <3>2. Left(t, air', node') BY <2>12, <2>13, <3>1 DEF Left
      <3>3. SUFFICES ASSUME link = "up" PROVE Load(t, air', node', turn') /\ Start(t, air', node')
        BY <1>3, <3>2 DEF Laden
      <3>4. Load(t, air', node', turn')
        <4>1. Fits(Due(t, air), Said(t, air), Turns(t, node, turn), Stored(t, node), 1)
          BY <2>13, <3>1, <3>3 DEF Load
        <4>2. /\ Fits(Due(t, air), Said(t, air) + 1, Turns(t, node, turn), Stored(t, node), 0)
              /\ Fits(Due(t, air), Said(t, air), Turns(t, node, turn), Stored(t, node), 0)
          BY <2>13, <2>14, <3>1, <4>1, FitsGoes
        <4> QED BY <2>13, <4>2 DEF Load
      <3>5. Start(t, air', node')
        <4>1. ~Clear(t, air, node) BY <2>13 DEF Clear
        <4>2. CASE t = "P"
          <5>1. s = "C" BY <1>1, <4>2, TwoSides
          <5>2. node["C"].tx # None /\ OnlyWords(air["C"]) BY <3>1, <3>3, <4>1, <4>2 DEF Start
          <5>3. air' = air \/ air'["C"] = Append(air["C"], Flow("on"))
            <6>1. Handed(s, air, <<>>) = air BY <2>7, <2>11, HandedOne
            <6>2. Handed(s, air, <<Flow("on")>>)[s] = Append(air[s], Flow("on"))
              BY <2>7, <2>11, <3>3, HandedOne
            <6> QED BY <1>6, <2>6, <5>1, <6>1, <6>2 DEF Call
          <5>4. air["C"] \in Seq(Events) BY <2>11, TwoSides
          <5>5. OnlyWords(air'["C"]) BY <2>7, <5>2, <5>3, <5>4, WordsAppend
          <5>6. WordsLast(air'["C"]) BY <5>5 DEF OnlyWords, WordsLast
          <5>7. node'["C"].tx # None BY <2>10, <5>2, TwoSides
          <5> QED BY <4>2, <5>5, <5>6, <5>7 DEF Start
        <4>3. CASE t = "C"
          <5>1. node["C"].tx # None BY <3>1, <3>3, <4>1, <4>3, TwoSides DEF Start
          <5> QED BY <2>10, <4>3, <5>1, TwoSides DEF Start
        <4> QED BY <1>1, <4>2, <4>3, TwoSides
      <3> QED BY <3>4, <3>5
    <2>15. ~OnlyTalks(s) BY <1>3, <1>1 DEF Still, Unused
    <2>16. \A r \in Sides : r = s \/ r = t BY SideOf
    <2>17. Margin => \A r \in Sides : OnlyTalks(r) => Laden(r, link', air', node', turn')
      <3> HIDE DEF t
      <3> QED BY <2>14, <2>15, <2>16
    <2> QED BY <1>3, <1>6, <2>8, <2>17, SpareNext
  <1> QED BY <1>3, <1>5, <1>6

LEMMA GapTally ==
  ASSUME IInv, NEW s \in Sides, Handles(s, "gap"), air' = Taken(s), NEW v,
         Head(Incoming(s)).value = v
  PROVE  /\ Head(Incoming(s)) = Gap(v)
         /\ \A t \in Sides : Due(t, air') = Due(t, air)
         /\ \A t \in Sides : Said(t, air') = Said(t, air)
         /\ \A t \in Sides : Tally(air'[t], DataOnly) = Tally(air[t], DataOnly)
  <1>1. Head(Incoming(s)) \in Events /\ Head(Incoming(s)).type = "gap" BY InHand
  <1>2. Head(Incoming(s)) = Gap(v) BY ONLY <1>1, EventTypes, Head(Incoming(s)).value = v
  <1>3. /\ Head(Incoming(s)) \notin DataOnly /\ Head(Incoming(s)) \notin Words
        /\ \A t \in Sides : Head(Incoming(s)) \notin Costs(t)
    BY <1>1, Kinds, TwoSides
  <1>4. ASSUME NEW H, Head(Incoming(s)) \notin H
        PROVE  \A t \in Sides : Tally(air'[t], H) = Tally(air[t], H)
    <2>1. Tally(air'[Other(s)], H) = Tally(air[Other(s)], H) BY <1>4, TakenTally
    <2>2. air'[s] = air[s] BY InHand
    <2> QED BY <2>1, <2>2, SideOf
  <1>5. \A t \in Sides : Due(t, air') = Due(t, air) BY <1>3, <1>4 DEF Due
  <1>6. \A t \in Sides : Said(t, air') = Said(t, air) BY <1>3, <1>4, SideOf DEF Said
  <1>7. \A t \in Sides : Tally(air'[t], DataOnly) = Tally(air[t], DataOnly) BY <1>3, <1>4
  <1> QED BY ONLY <1>2, <1>5, <1>6, <1>7

LEMMA ConnectedSpare == ASSUME IInv, OneWay, Spare, NEW s \in Sides, Connected(s) PROVE Spare'
  <1> DEFINE n == node[s]
             wide == [WithQueues(n) EXCEPT !.conn = TRUE]
             bare == [n EXCEPT !.conn = TRUE]
             m == IF s = "P" THEN wide ELSE bare
  <1>1. /\ Handles(s, "gap") /\ Head(Incoming(s)).value = "begin"
        /\ node' = [node EXCEPT ![s] = m] /\ air' = Taken(s)
        /\ UNCHANGED <<link, scenario>> /\ turn' = [turn EXCEPT ![s] = TRUE]
    BY DEF Connected
  <1>2. /\ Head(Incoming(s)) = Gap("begin")
        /\ air'[s] = air[s] /\ air'[Other(s)] = Tail(air[Other(s)])
        /\ Incoming(s) = air[Other(s)] /\ air[Other(s)] \in Seq(Events) /\ air[Other(s)] # <<>>
        /\ \A t \in Sides : Due(t, air') = Due(t, air)
        /\ \A t \in Sides : Said(t, air') = Said(t, air)
        /\ \A t \in Sides : Tally(air'[t], DataOnly) = Tally(air[t], DataOnly)
    <2>1. /\ air'[s] = air[s] /\ air'[Other(s)] = Tail(air[Other(s)])
          /\ Incoming(s) = air[Other(s)] /\ air[Other(s)] \in Seq(Events) /\ air[Other(s)] # <<>>
      BY <1>1, InHand
    <2>2. /\ Head(Incoming(s)) = Gap("begin")
          /\ \A t \in Sides : Due(t, air') = Due(t, air)
          /\ \A t \in Sides : Said(t, air') = Said(t, air)
          /\ \A t \in Sides : Tally(air'[t], DataOnly) = Tally(air[t], DataOnly)
      BY <1>1, GapTally
    <2> QED BY ONLY <2>1, <2>2
  <1>3. Fine(s, n) /\ n \in Nodes /\ ~n.conn /\ ~n.closing BY <1>1, <1>2, InHand, AttachedGap
  <1>4. n.tx = None /\ n.rx = None BY <1>3 DEF Fine, Sound
  <1>5. /\ m.flow = n.flow /\ m.inprog = n.inprog /\ m.conn
        /\ s = "C" => m.tx = n.tx /\ m.rx = n.rx
        /\ s = "P" => m.rx = RQ!New
    BY <1>3 DEF Nodes, WithQueues
  <1> HIDE DEF m
  <1>6. /\ Items(m.rx) = <<>>
        /\ m.rx # None => m.rx.items = <<>> /\ m.rx.hwm = 0
    BY <1>4, <1>5, NewQueue, TwoSides DEF Items
  <1>7. Resting(s, m)
    <2>1. Len(<<>>) = 0 OBVIOUS
    <2> QED BY <1>5, <1>6, <2>1, Marks DEF Resting
  <1>8. node'[s] = m /\ node'[Other(s)] = node[Other(s)]
    BY <1>1, SideOf DEF IInv, NodesFine
  <1>9. \A t \in Sides : /\ node'[t].inprog = node[t].inprog /\ node'[t].flow = node[t].flow
                         /\ Items(node'[t].rx) = Items(node[t].rx)
                         /\ (IF node'[t].rx = None THEN 0 ELSE node'[t].rx.hwm)
                               = (IF node[t].rx = None THEN 0 ELSE node[t].rx.hwm)
    BY <1>4, <1>5, <1>6, <1>8, SideOf DEF Items
  <1>10. node'["C"].tx = node["C"].tx BY <1>5, <1>8, TwoSides
  <1>11. \A t \in Sides : Stored(t, node') = Stored(t, node) /\ Flag(t, node') = Flag(t, node)
    BY <1>9, SideOf DEF Stored, Flag
  <1>12. /\ Turns(s, node', turn') \in 0..2
         /\ Turns(Other(s), node', turn') = Turns(Other(s), node, turn)
    <2>1. turn \in [Sides -> BOOLEAN] BY DEF IInv, RestOK
    <2> QED BY <1>1, <1>9, <2>1, TurnsHeard
  <1>13. ~OnlyWords(air[Other(s)])
    <2>1. Head(air[Other(s)]).type = "gap" BY <1>2, EventTypes
    <2> QED BY <1>2, <2>1, WordsTail
  <1>14. ASSUME Margin, NEW t \in Sides, OnlyTalks(t) PROVE Laden(t, link', air', node', turn')
    <2>1. /\ Due(t, air) \in Nat /\ Said(t, air) \in Nat
          /\ Left(t, air, node)
          /\ link = "up" => Load(t, air, node, turn) /\ Start(t, air, node)
      BY <1>14, SpareNow
    <2>2. Left(t, air', node') BY <1>2, <1>11, <2>1 DEF Left
    <2>3. SUFFICES ASSUME link = "up" PROVE Load(t, air', node', turn') /\ Start(t, air', node')
      BY <1>1, <2>2 DEF Laden
    <2>4. Clear(t, air, node) => Clear(t, air', node') BY <1>2, <1>11 DEF Clear
    <2>5. CASE t = Other(s)
      <3>1. Load(t, air', node', turn') BY <1>2, <1>11, <1>12, <2>1, <2>3, <2>5 DEF Load
      <3>2. CASE t = "P"
        <4>1. s = "C" BY <2>5, <3>2, TwoSides
        <4> QED BY <1>2, <1>9, <1>10, <2>1, <2>3, <2>4, <3>1, <3>2, <4>1, TwoSides DEF Start
      <3>3. CASE t = "C" BY <1>2, <1>10, <2>1, <2>3, <2>4, <3>1, <3>3, TwoSides DEF Start
      <3> QED BY <3>2, <3>3, TwoSides
    <2>6. CASE t = s /\ t = "P"
      <3>1. air["C"] \in Seq(Events) /\ air["C"] # <<>> /\ ~OnlyWords(air["C"]) /\ air'["C"] = Tail(air["C"])
        BY <1>2, <1>13, <2>6, TwoSides
      <3>2. Clear("P", air, node) /\ Said("P", air) <= 1 /\ node["P"].flow = "off"
        BY <2>1, <2>3, <2>6, <3>1 DEF Start
      <3>3. Load(t, air', node', turn')
        <4>1. Said(t, air) \in 0..1 BY <2>1, <2>6, <3>2
        <4>2. Fits(0, Said(t, air), Turns(t, node', turn'), 0, 0)
          BY <1>12, <1>14, <2>6, <4>1, FitsFirst
        <4> QED BY <1>2, <1>11, <2>6, <3>2, <4>2 DEF Load, Clear
      <3>4. WordsLast(air'["C"]) BY <2>1, <2>3, <2>6, <3>1, WordsTail DEF Start
      <3>5. node["C"].tx = None => Said("P", air) = 0 BY <2>1, <2>3, <2>6 DEF Start
      <3> QED BY <1>2, <1>9, <1>10, <2>4, <2>6, <3>2, <3>3, <3>4, <3>5, TwoSides DEF Start
    <2>7. CASE t = s /\ t = "C"
      <3>1. Clear("C", air, node) /\ Said("C", air) = 0
        BY <1>4, <2>1, <2>3, <2>7, TwoSides DEF Start
      <3>2. Load(t, air', node', turn')
        <4>1. Fits(0, 0, Turns(t, node', turn'), 0, 0) BY <1>12, <1>14, <2>7, FitsFirst
        <4> QED BY <1>2, <1>11, <2>7, <3>1, <4>1 DEF Load, Clear
      <3> QED BY <1>2, <2>4, <2>7, <3>1, <3>2, TwoSides DEF Start
    <2>8. t = s \/ t = Other(s) BY SideOf
    <2> QED BY <2>5, <2>6, <2>7, <2>8, TwoSides
  <1> QED BY <1>1, <1>7, <1>14, SpareNext

LEMMA DisconnectedSpare == ASSUME IInv, OneWay, Spare, NEW s \in Sides, Disconnected(s) PROVE Spare'
  <1> DEFINE n == node[s]
             m == Cut(s, n)
  <1>1. /\ Handles(s, "gap") /\ Head(Incoming(s)).value = "end"
        /\ node' = [node EXCEPT ![s] = m] /\ air' = Taken(s) /\ UNCHANGED <<link, scenario>>
    BY DEF Disconnected
  <1>2. /\ Head(Incoming(s)) = Gap("end")
        /\ \A t \in Sides : Tally(air'[t], DataOnly) = Tally(air[t], DataOnly)
    BY <1>1, GapTally
  <1>3. n \in Nodes /\ link = "down" BY <1>1, <1>2, InHand, AttachedGap
  <1>4. m.rx = n.rx /\ (s = "P" => m.flow = "off") BY <1>3 DEF Cut, Nodes
  <1> HIDE DEF m
  <1>5. Resting(s, m)
    <2>1. Resting(s, n) BY DEF Spare
    <2> QED BY <1>4, <2>1 DEF Resting
  <1>6. node'[s] = m /\ node'[Other(s)] = node[Other(s)]
    BY <1>1, SideOf DEF IInv, NodesFine
  <1>7. \A t \in Sides : node'[t].rx = node[t].rx BY <1>4, <1>6, SideOf
  <1>8. ASSUME Margin, NEW t \in Sides, OnlyTalks(t) PROVE Laden(t, link', air', node', turn')
    <2>1. Left(t, air, node) BY <1>8, SpareNow
    <2>2. Stored(t, node') = Stored(t, node) BY <1>7, SideOf DEF Stored
    <2> QED BY <1>1, <1>2, <1>3, <2>1, <2>2 DEF Laden, Left
  <1> QED BY <1>1, <1>5, <1>8, SpareNext

LEMMA FreeQueuesSpare == ASSUME IInv, OneWay, Spare, NEW s \in Sides, FreeQueues(s) PROVE Spare'
  <1> DEFINE n == node[s]
             m == [n EXCEPT !.tx = None, !.rx = None, !.closing = FALSE]
  <1>1. /\ n.closing /\ node' = [node EXCEPT ![s] = m] /\ UNCHANGED <<air, link, scenario>>
    BY DEF FreeQueues
  <1>2. Fine(s, n) /\ n \in Nodes /\ Attached(air[Other(s)], n, link) /\ link \in {"up", "down"}
    BY DEF IInv, NodesFine, Fine, AirFits, AllAttached, RestOK
  <1>3. link # "up" BY <1>1, <1>2 DEF Attached, Fine, Sound
  <1>4. m.rx = None /\ m.flow = n.flow /\ m.conn = n.conn BY <1>2 DEF Nodes
  <1> HIDE DEF m
  <1>5. Resting(s, m)
    <2>1. Resting(s, n) BY DEF Spare
    <2> QED BY <1>4, <2>1 DEF Resting
  <1>6. node'[s] = m /\ node'[Other(s)] = node[Other(s)]
    BY <1>1, SideOf DEF IInv, NodesFine
  <1>7. \A t \in Sides : node'[t].rx = node[t].rx \/ node'[t].rx = None BY <1>4, <1>6, SideOf
  <1>8. ASSUME Margin, NEW t \in Sides, OnlyTalks(t) PROVE Laden(t, link', air', node', turn')
    <2>1. Left(t, air, node) /\ Stored(t, node) \in Nat BY <1>8, SpareNow
    <2>2. Stored(t, node') = Stored(t, node) \/ Stored(t, node') = 0
      BY <1>7, SideOf DEF Stored, Items
    <2>3. Tally(air[t], DataOnly) \in Nat BY TallyBounds DEF IInv, AirFits, AllAttached
    <2>4. Left(t, air', node') BY <1>1, <2>1, <2>2, <2>3, Marks DEF Left
    <2> QED BY <1>1, <1>3, <2>4 DEF Laden
  <1> QED BY <1>1, <1>5, <1>8, SpareNext

LEMMA LinkUpSpare == ASSUME IInv, OneWay, Spare, LinkUp PROVE Spare'
  <1> DEFINE a == <<Gap("begin")>>
  <1>1. /\ \A s \in Sides : ~node[s].conn /\ ~node[s].closing
        /\ air' = [s \in Sides |-> a] /\ link' = "up" /\ UNCHANGED <<node, turn, scenario>>
    BY DEF LinkUp
  <1>2. a \in Seq(Events) /\ Len(a) = 1 /\ a[1] = Gap("begin") BY EventTypes
  <1> HIDE DEF a
  <1>3. WordsLast(a) BY <1>2 DEF WordsLast
  <1>4. Gap("begin") \in Events /\ Gap("begin").type = "gap" BY EventTypes
  <1>5. \A t \in Sides : Due(t, air') = 0 /\ Said(t, air') = 0
    <2>1. ASSUME NEW H, Gap("begin") \notin H PROVE Tally(a, H) = 0
      <3>1. \A i \in 1..Len(a) : a[i] \notin H BY <1>2, <2>1
      <3> QED BY <1>2, <3>1, TallyBounds
    <2>2. Gap("begin") \notin Words /\ \A t \in Sides : Gap("begin") \notin Costs(t)
      BY <1>4, Kinds, TwoSides
    <2>3. \A t \in Sides : air'[t] = a /\ air'[Other(t)] = a BY <1>1, SideOf
    <2> QED BY <2>1, <2>2, <2>3 DEF Due, Said
  <1>6. \A s \in Sides : node[s].tx = None /\ node[s].rx = None /\ node[s].flow \in {"on", "off"}
    BY <1>1, FieldTypes DEF IInv, NodesFine, Fine, Sound
  <1>7. node["P"].flow = "off"
    <2>1. Resting("P", node["P"]) BY TwoSides DEF Spare
    <2> QED BY <1>1, <1>6, <2>1, TwoSides DEF Resting
  <1>8. ASSUME Margin, NEW t \in Sides, OnlyTalks(t) PROVE Laden(t, link', air', node', turn')
    <2>1. Stored(t, node') = 0 /\ Flag(t, node') = 0 BY <1>1, <1>6, SideOf DEF Stored, Flag, Items
    <2>2. Turns(t, node', turn') \in 0..2 BY DEF Turns, Bit
    <2>3. Load(t, air', node', turn')
      <3>1. Fits(0, 0, Turns(t, node', turn'), 0, 0) BY <1>8, <2>2, FitsFirst
      <3> QED BY <1>5, <2>1, <3>1 DEF Load
    <2>4. Start(t, air', node')
      <3>1. WordsLast(air'["C"]) BY <1>1, <1>3, TwoSides
      <3> QED BY <1>1, <1>5, <1>7, <2>1, <3>1, TwoSides DEF Start, Clear
    <2> QED BY <1>1, <2>3, <2>4 DEF Laden
  <1>9. node' = [node EXCEPT !["P"] = node["P"]] BY <1>1 DEF IInv, NodesFine
  <1>10. Resting("P", node["P"]) BY TwoSides DEF Spare
  <1> QED BY <1>1, <1>8, <1>9, <1>10, TwoSides, SpareNext

LEMMA LinkLossSpare == ASSUME IInv, OneWay, Spare, LinkLoss PROVE Spare'
  <1>1. link' = "down" /\ UNCHANGED <<node, scenario>> BY DEF LinkLoss
  <1>2. PICK p \in 0..Len(air["P"]), c \in 0..Len(air["C"]) :
          LET kept == [s \in Sides |-> IF s = "P" THEN p ELSE c]
          IN  air' = [s \in Sides |-> Append(SubSeq(air[s], 1, kept[s]), Gap("end"))]
    BY DEF LinkLoss
  <1> DEFINE kept == [s \in Sides |-> IF s = "P" THEN p ELSE c]
  <1>3. /\ air' = [s \in Sides |-> Append(SubSeq(air[s], 1, kept[s]), Gap("end"))]
        /\ \A s \in Sides : kept[s] \in 0..Len(air[s])
    BY <1>2, TwoSides
  <1> HIDE DEF kept
  <1>4. ASSUME Margin, NEW t \in Sides, OnlyTalks(t) PROVE Laden(t, link', air', node', turn')
    <2> DEFINE z == SubSeq(air[t], 1, kept[t])
    <2>1. air[t] \in Seq(Events) /\ kept[t] \in 0..Len(air[t])
      BY <1>3 DEF IInv, AirFits, AllAttached
    <2>2. /\ z \in Seq(Events) /\ Tally(z, DataOnly) <= Tally(air[t], DataOnly)
          /\ Tally(air[t], DataOnly) \in Nat /\ Tally(z, DataOnly) \in Nat
      BY <2>1, TallyPrefix, TallyBounds
    <2>3. Gap("end") \in Events /\ Gap("end") \notin DataOnly BY EventTypes, Kinds
    <2>4. air'[t] = Append(z, Gap("end")) BY <1>3
    <2> HIDE DEF z
    <2>5. Tally(air'[t], DataOnly) = Tally(z, DataOnly) + Bit(Gap("end") \in DataOnly)
      BY <2>2, <2>3, <2>4, TallyAppend
    <2>6. Bit(Gap("end") \in DataOnly) = 0 BY <2>3 DEF Bit
    <2>7. Left(t, air, node) /\ Stored(t, node) \in Nat BY <1>4, SpareNow
    <2>8. Tally(air'[t], DataOnly) + Stored(t, node) <= RX_SIZE
      BY <2>2, <2>5, <2>6, <2>7, Marks DEF Left
    <2>9. Stored(t, node') = Stored(t, node) BY <1>1
    <2> QED BY <1>1, <2>8, <2>9 DEF Laden, Left
  <1>5. node' = [node EXCEPT !["P"] = node["P"]] BY <1>1 DEF IInv, NodesFine
  <1>6. Resting("P", node["P"]) BY TwoSides DEF Spare
  <1> QED BY <1>1, <1>4, <1>5, <1>6, TwoSides, SpareNext

LEMMA BrowsedSpare == ASSUME IInv, OneWay, Spare, Browsed PROVE Spare'
  <1> DEFINE n == node["C"]
             m == [WithQueues(n) EXCEPT !.rxt = @ \cup {"start"}]
             x == Ccc("tx")
             y == Ccc("flow")
             z == Flow("on")
  <1>1. /\ n.tx = None /\ node' = [node EXCEPT !["C"] = m]
        /\ air' = Handed("C", air, <<x, y, z>>) /\ UNCHANGED <<link, turn, scenario>>
    BY DEF Browsed
  <1>2. Fine("C", n) /\ n \in Nodes BY TwoSides DEF IInv, NodesFine, Fine
  <1>3. n.rx = None BY <1>1, <1>2 DEF Fine, Sound
  <1>4. /\ m.tx = TQ!New /\ m.rx = RQ!New /\ m.inprog = n.inprog
    BY <1>2 DEF WithQueues, Nodes
  <1> HIDE DEF m
  <1>5. Resting("C", m)
    <2>1. Len(<<>>) = 0 OBVIOUS
    <2> QED BY <1>4, <2>1, NewQueue, TwoSides, Marks DEF Resting
  <1>6. node'["C"] = m /\ node'["P"] = node["P"] BY <1>1, TwoSides DEF IInv, NodesFine
  <1>7. \A t \in Sides : /\ Stored(t, node') = Stored(t, node) /\ Flag(t, node') = Flag(t, node)
                         /\ Turns(t, node', turn') = Turns(t, node, turn)
    BY <1>1, <1>3, <1>4, <1>6, TwoSides, NewQueue DEF Stored, Flag, Items, Turns
  <1>8. /\ x \in Events /\ x.type = "ccc" /\ y \in Events /\ y.type = "ccc"
        /\ z \in Events /\ z.type = "flow" /\ x # y
    BY EventTypes
  <1>9. air \in [Sides -> Seq(Events)] BY DEF IInv, AirFits, AllAttached
  <1>10. link # "up" => air' = air BY <1>1, <1>9 DEF Handed
  <1>11. ASSUME link = "up"
         PROVE  /\ air'["P"] = air["P"]
                /\ Tally(air'["C"], Words) = Tally(air["C"], Words) + 1
                /\ Tally(air'["C"], Costs("C")) = Tally(air["C"], Costs("C")) + 2
                /\ Tally(air["C"], Words) = 0 => WordsLast(air'["C"])
    <2>1. air' = Handed("C", Handed("C", Handed("C", air, <<x>>), <<y>>), <<z>>)
      BY <1>1, <1>9, <1>11, BrowsedAir
    <2>2. /\ x \notin Words /\ y \notin Words /\ z \in Words
          /\ x \notin Costs("C") /\ y \in Costs("C") /\ z \in Costs("C")
      BY <1>8, Kinds
    <2> HIDE DEF x, y, z
    <2> DEFINE r1 == Handed("C", air, <<x>>)
               r2 == Handed("C", r1, <<y>>)
               r3 == Handed("C", r2, <<z>>)
    <2>3. /\ r1 \in [Sides -> Seq(Events)] /\ r1["C"] = Append(air["C"], x) /\ r1["P"] = air["P"]
      BY <1>8, <1>9, <1>11, TwoSides, HandedOne
    <2> HIDE DEF r1
    <2>4. /\ r2 \in [Sides -> Seq(Events)] /\ r2["C"] = Append(r1["C"], y) /\ r2["P"] = r1["P"]
      <3>1. r1 \in [Sides -> Seq(Events)] /\ y \in Events /\ "C" \in Sides /\ Other("C") = "P"
        BY <1>8, <2>3, TwoSides
      <3> QED BY ONLY <1>11, <3>1, HandedOne
    <2> HIDE DEF r2
    <2>5. r3["C"] = Append(r2["C"], z) /\ r3["P"] = r2["P"]
      <3>1. r2 \in [Sides -> Seq(Events)] /\ z \in Events /\ "C" \in Sides /\ Other("C") = "P"
        BY <1>8, <2>4, TwoSides
      <3> QED BY ONLY <1>11, <3>1, HandedOne
    <2>6. air' = r3 BY <2>1 DEF r2, r1
    <2> HIDE DEF r3
    <2>7. air["C"] \in Seq(Events) /\ r1["C"] \in Seq(Events) /\ r2["C"] \in Seq(Events)
      BY <1>9, <2>3, <2>4, TwoSides
    <2>8. \A H : /\ Tally(r1["C"], H) = Tally(air["C"], H) + Bit(x \in H)
                 /\ Tally(r2["C"], H) = Tally(r1["C"], H) + Bit(y \in H)
                 /\ Tally(r3["C"], H) = Tally(r2["C"], H) + Bit(z \in H)
      <3>1. \A H : Tally(r1["C"], H) = Tally(air["C"], H) + Bit(x \in H)
        BY ONLY <1>8, <2>3, <2>7, TallyAppend
      <3>2. \A H : Tally(r2["C"], H) = Tally(r1["C"], H) + Bit(y \in H)
        BY ONLY <1>8, <2>4, <2>7, TallyAppend
      <3>3. \A H : Tally(r3["C"], H) = Tally(r2["C"], H) + Bit(z \in H)
        BY ONLY <1>8, <2>5, <2>7, TallyAppend
      <3> QED BY ONLY <3>1, <3>2, <3>3
    <2>9. Tally(air["C"], Words) \in Nat /\ Tally(air["C"], Costs("C")) \in Nat
      BY <2>7, TallyBounds
    <2>10. Tally(r2["C"], Words) = Tally(air["C"], Words)
      <3>1. Bit(x \in Words) = 0 /\ Bit(y \in Words) = 0 BY <2>2 DEF Bit
      <3> QED BY <2>8, <2>9, <3>1
    <2>11. Tally(r3["C"], Words) = Tally(air["C"], Words) + 1
      <3>1. Bit(z \in Words) = 1 BY <2>2 DEF Bit
      <3> QED BY <2>8, <2>9, <2>10, <3>1
    <2>12. Tally(r3["C"], Costs("C")) = Tally(air["C"], Costs("C")) + 2
      <3>1. /\ Bit(x \in Costs("C")) = 0 /\ Bit(y \in Costs("C")) = 1
            /\ Bit(z \in Costs("C")) = 1
        BY <2>2 DEF Bit
      <3> QED BY <2>8, <2>9, <3>1
    <2>13. Tally(r2["C"], Words) = 0 => WordsLast(r3["C"])
      BY <1>8, <2>5, <2>7, WordsAppend
    <2> QED BY <2>3, <2>4, <2>5, <2>6, <2>10, <2>11, <2>12, <2>13
  <1>12. ASSUME Margin, NEW t \in Sides, OnlyTalks(t) PROVE Laden(t, link', air', node', turn')
    <2>1. /\ Turns(t, node, turn) \in 0..2 /\ Left(t, air, node)
          /\ link = "up" => Load(t, air, node, turn) /\ Start(t, air, node)
      BY <1>12, SpareNow
    <2>2. CASE link # "up"
      <3>1. Left(t, air', node') BY <1>7, <1>10, <2>1, <2>2 DEF Left
      <3> QED BY <1>1, <2>2, <3>1 DEF Laden
    <2>3. CASE link = "up" /\ t = "P"
      <3>1. Clear("P", air, node) /\ Said("P", air) = 0 /\ node["P"].flow = "off"
        BY <1>1, <2>1, <2>3 DEF Start
      <3>2. Said("P", air') = 1 /\ Due("P", air') = 0 /\ WordsLast(air'["C"])
        BY <1>11, <2>3, <3>1, TwoSides DEF Said, Due, Clear
      <3>3. Clear("P", air', node') BY <1>7, <3>1, <3>2, TwoSides DEF Clear
      <3>4. Load("P", air', node', turn')
        <4>1. Fits(0, 1, Turns("P", node', turn'), 0, 0)
          BY <1>7, <1>12, <2>1, <2>3, FitsFirst
        <4> QED BY <3>2, <3>3, <4>1 DEF Load, Clear
      <3>5. Start("P", air', node')
        <4>1. node'["C"].tx # None BY <1>4, <1>6, NewQueue
        <4> QED BY <1>6, <3>1, <3>2, <3>3, <4>1 DEF Start
      <3> QED BY <1>1, <2>3, <3>4, <3>5 DEF Laden
    <2>4. CASE link = "up" /\ t = "C"
      <3>1. Clear("C", air, node) /\ Said("C", air) = 0
        BY <1>1, <2>1, <2>4, TwoSides DEF Start
      <3>2. Said("C", air') = 0 /\ Due("C", air') = 2
        BY <1>11, <2>4, <3>1, TwoSides DEF Said, Due, Clear
      <3>3. Load("C", air', node', turn')
        <4>1. Fits(2, 0, Turns("C", node', turn'), 0, 0)
          BY <1>7, <1>12, <2>1, <2>4, FitsFirst
        <4> QED BY <1>7, <2>4, <3>1, <3>2, <4>1, TwoSides DEF Load, Clear
      <3>4. Start("C", air', node')
        <4>1. node'["C"].tx # None BY <1>4, <1>6, NewQueue
        <4> QED BY <4>1, TwoSides DEF Start
      <3> QED BY <1>1, <2>4, <3>3, <3>4 DEF Laden
    <2> QED BY <2>2, <2>3, <2>4, TwoSides
  <1> QED BY <1>1, <1>5, <1>12, TwoSides, SpareNext

LEMMA InitSpare == ASSUME Init PROVE Spare
  <1>1. /\ link = "down"
        /\ \A s \in Sides : node[s] = Unconnected /\ air[s] = <<>>
    BY DEF Init
  <1>2. Unconnected.rx = None /\ Unconnected.flow = "off" BY DEF Unconnected
  <1>3. \A s \in Sides : Resting(s, node[s]) BY <1>1, <1>2 DEF Resting
  <1>4. \A t \in Sides : Stored(t, node) = 0 BY <1>1, <1>2, SideOf DEF Stored, Items
  <1>5. <<>> \in Seq(Events) /\ Len(<<>>) = 0 OBVIOUS
  <1>6. Tally(<<>>, DataOnly) = 0
    <2>1. \A i \in 1..Len(<<>>) : <<>>[i] \notin DataOnly BY <1>5
    <2> QED BY <1>5, <2>1, TallyBounds
  <1>7. \A t \in Sides : Left(t, air, node) BY <1>1, <1>4, <1>6, Marks DEF Left
  <1> QED BY <1>1, <1>3, <1>7 DEF Spare, Laden

LEMMA StutterSpare == ASSUME Spare, UNCHANGED vars PROVE Spare'
  <1>1. UNCHANGED <<node, air, link, turn, scenario>> BY DEF vars
  <1> QED BY <1>1 DEF Spare, OnlyTalks, Margin, Resting

LEMMA SpareStep == ASSUME IInv, OneWay, Spare, Next, Faultless' PROVE Spare'
  <1>1. ASSUME NEW s \in Sides, BleTask(s) PROVE Spare'
    BY <1>1, IgnoreDataSpare, ReceiveDataSpare, BleTxSpare, TxDoneSpare, ConnectedSpare,
       DisconnectedSpare, FreeQueuesSpare
       DEF BleTask
  <1>2. ASSUME NEW s \in Sides, RxTask(s) PROVE Spare'
    BY <1>2, RxWakeSpare, QuietSpare DEF RxTask
  <1>3. ASSUME NEW s \in Sides, TxTask(s) PROVE Spare'
    BY <1>3, TxTakeSpare, TxWrittenSpare DEF TxTask
  <1>4. ASSUME NEW s \in Sides, QueueFull(s) PROVE Spare' BY <1>4, QuietSpare
  <1>5. ASSUME PeriphTask PROVE Spare'
    BY <1>5, PeriphReceiveFlowSpare, PeriphReceiveCccSpare DEF PeriphTask
  <1>6. ASSUME CentralTask PROVE Spare'
    BY <1>6, CentralReceiveFlowSpare, BrowsedSpare DEF CentralTask
  <1> QED BY <1>1, <1>2, <1>3, <1>4, <1>5, <1>6, LinkUpSpare, LinkLossSpare DEF Next

\* Then no write to a queue blocks.
LEMMA RoomNow ==
  ASSUME IInv, OneWay, Spare, OneSpeaks, Margin, NEW s \in Sides
  PROVE  ~QueueFull(s)
  <1>1. SUFFICES ASSUME QueueFull(s) PROVE FALSE OBVIOUS
  <1>2. Fine(s, node[s]) /\ node[s] \in Nodes BY DEF IInv, NodesFine, Fine
  <1>3. CASE /\ node[s].tx # None /\ TQ!ItemCount(node[s].tx) = TX_SIZE
             /\ "read" \in node[s].rxt /\ ~node[s].reading
    <2>1. node[s].data # None BY <1>2, <1>3 DEF Fine, Sound
    <2>2. Len(node[s].tx.items) <= TX_HIGH BY <1>2, <1>3, <2>1 DEF Fine, Roomy
    <2> QED BY <1>3, <2>2, Marks DEF TQ!ItemCount
  <1>4. CASE /\ node[s].rx # None /\ RQ!ItemCount(node[s].rx) = RX_SIZE
             /\ Handles(s, "data") /\ Accepts(s)
    <2>1. ~OnlyTalks(s) BY <1>4, TakenQuieted
    <2>2. PICK t \in Sides : OnlyTalks(t) BY DEF OneSpeaks
    <2>3. s = Other(t) BY <2>1, <2>2, SideOf
    <2>4. Tally(air[t], DataOnly) > 0 /\ Tally(air[t], DataOnly) \in Nat
      <3>1. Head(Incoming(s)) \in DataOnly BY <1>4, InHand, Kinds
      <3>2. Tally(air[Other(s)], DataOnly) > 0 BY <1>4, <3>1, TakenTally
      <3>3. Other(s) = t BY <2>3, SideOf
      <3>4. air[t] \in Seq(Events) BY DEF IInv, AirFits, AllAttached
      <3> QED BY <3>2, <3>3, <3>4, TallyBounds
    <2>5. Left(t, air, node) BY <2>2, SpareNow
    <2>6. Stored(t, node) = RX_SIZE BY <1>4, <2>3 DEF Stored, Items, RQ!ItemCount
    <2> QED BY <2>4, <2>5, <2>6, Marks DEF Left
  <1> QED BY <1>1, <1>3, <1>4 DEF QueueFull, WriteBlocked

\* With one side at most that talks and room above the high water mark, AIR + 1 messages and 3 at
\* the least, no assertion of sps_queue_write_items fails, whatever connections are lost, as long
\* as no task has used a queue that a disconnection had freed.
THEOREM RoomForAll == Spec => [](OneSpeaks /\ Margin /\ Faultless => NeverHalts)
  <1> DEFINE Goal == Faultless => Spare /\ (OneSpeaks /\ Margin => NeverHalts)
  <1>1. ASSUME Init PROVE OneWay /\ Goal
    <2>1. NeverHalts BY <1>1 DEF Init, Unconnected, NeverHalts
    <2> QED BY <1>1, <2>1, InitOneWay, InitSpare
  <1>2. ASSUME IInv, OneWay, Goal, [Next]_vars PROVE OneWay' /\ Goal'
    <2>1. CASE UNCHANGED vars
      <3>1. /\ NeverHalts' = NeverHalts /\ OneSpeaks' = OneSpeaks /\ Margin' = Margin
            /\ Faultless' = Faultless
        BY <2>1 DEF vars, NeverHalts, OneSpeaks, OnlyTalks, Margin, Faultless
      <3> QED BY <1>2, <2>1, <3>1, StutterOneWay, StutterSpare
    <2>2. CASE Next
      <3>1. OneWay' BY <1>2, <2>2, OneWayStep
      <3>2. ASSUME Faultless' PROVE Spare' /\ (OneSpeaks' /\ Margin' => NeverHalts')
        <4>1. Faultless BY <1>2, <2>2, <3>2, Steps DEF Faultless
        <4>2. Spare' BY <1>2, <2>2, <3>2, <4>1, SpareStep
        <4>3. ASSUME OneSpeaks', Margin' PROVE NeverHalts'
          <5>1. UNCHANGED scenario BY <2>2, ScenarioStays
          <5>2. OneSpeaks /\ Margin BY <4>3, <5>1 DEF OneSpeaks, OnlyTalks, Margin
          <5>3. HaltsKept BY <1>2, <2>2, <4>1, <5>2, RoomNow, Steps
          <5> QED BY <1>2, <4>1, <5>2, <5>3 DEF NeverHalts, HaltsKept
        <4> QED BY <4>2, <4>3
      <3> QED BY <3>1, <3>2
    <2> QED BY <1>2, <2>1, <2>2
  <1>3. Goal => (OneSpeaks /\ Margin /\ Faultless => NeverHalts) OBVIOUS
  <1> HIDE DEF Goal
  <1>4. Spec => []Goal BY <1>1, <1>2, InductiveInvariant, PTL DEF Spec
  <1> QED BY <1>3, <1>4, PTL

=============================================================================
