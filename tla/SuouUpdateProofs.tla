-------------------------- MODULE SuouUpdateProofs --------------------------
(***************************************************************************)
(* Proofs about SuouUpdate: with any file, and whatever the serial line    *)
(* loses or damages, "Result: Pass" is true and host and device count      *)
(* alike, because the host never takes one answer for another.             *)
(***************************************************************************)
EXTENDS SuouUpdate, SequenceTheorems, TLAPS

-----------------------------------------------------------------------------
(* The inductive invariant.                                                *)

\* The command that the host waits to be answered, and what the line can make of it.
Requested == IF step = "started" THEN "start" ELSE Request.cmd
Altered == IF Requested = "start" THEN MemDev ELSE {Requested}

\* The device has read all it was sent.
Quiet == partial = <<>> /\ toDev = <<>>

\* One line at most is still to be ended: an NL is the last, or ends an empty line.
OneLine(p, d) ==
  \A i \in DOMAIN d : d[i] = NL => i = Len(d) \/ (p = <<>> /\ \A j \in 1..i : d[j] = NL)

\* All commands in s are of S.
Only(S, s) == \A i \in DOMAIN s : s[i] = NL \/ s[i].cmd \in S
Silent(text) == \A i \in DOMAIN toHost : toHost[i].text # text

\* Confirmations in excess have the host go on before the device has read a block.
Astray == misled /\ step \in {"bulk", "lastlen"}

(* Where the host is, and how much of the file it has sent there.          *)
Phases ==
  /\ step = "closed" => wait = "none" /\ toHost = <<>>
  /\ step # "closed" => result = "none"
  /\ step \in CliSteps => wait \in {"knock", "type", "echo", "answer"}
  /\ step \in SuouSteps => wait \in {"send", "answer"} /\ chunksz = CHUNK
  /\ step = "getsuouartbuffsz" => chunksz = 0
  /\ step \in CliSteps \cup {"status", "start", "started", "len"} => xfered = 0
  /\ step = "started" => wait = "answer"
  /\ step = "len" => size > 2 * chunksz
  /\ step = "bulk" =>
       /\ xfered < size
       /\ size > 2 * chunksz \/ xfered = IF wait = "send" THEN 0 ELSE chunksz
       /\ wait = "send" => size - xfered > chunksz
  /\ (step = "lastlen" \/ (step = "last" /\ wait = "send")) =>
       xfered < size /\ size - xfered <= chunksz

(* The first command at the prompt, with what an earlier run has left in   *)
(* cli_buffer: its answer, if any, is taken for the echo.                  *)
Own == Len(partial) = 1 => partial[1].cmd \in {"getsuouartbuffsz", "junk"}
First ==
  step = "getsuouartbuffsz" =>
    /\ Only({"junk", "getsuouartbuffsz"}, toDev)
    /\ wait = "knock" => toDev = <<>>
    /\ wait = "type" => \A i \in DOMAIN toDev : toDev[i] = NL
    /\ wait = "echo" => \A i \in DOMAIN toDev : i < Len(toDev) => toDev[i] = NL
    /\ wait # "answer" =>
         /\ toHost # <<>> => Own /\ (partial = <<>> \/ (toDev = <<>> /\ wait = "echo"))
         /\ \A i \in DOMAIN toHost : toHost[i].n # 0 => i = 1
    /\ wait = "answer" =>
         /\ OneLine(partial, toDev) /\ Own
         /\ \A i \in DOMAIN toHost :
              toHost[i].n # 0 => i = Len(toHost) /\ Quiet /\ toHost[i].n = 2 * CHUNK

(* The next commands at the prompt, unless the first answer was none.      *)
AtPromptStill ==
  step \in {"alloc", "fwupdate"} /\ chunksz = CHUNK =>
    /\ wait = "knock" => toDev = <<>>
    /\ wait \in {"knock", "type"} => partial = <<>> /\ toHost = <<>>
    /\ wait = "type" => \A i \in DOMAIN toDev : toDev[i] = NL
    /\ wait = "echo" =>
         /\ \A i \in DOMAIN toDev : i < Len(toDev) => toDev[i] = NL
         /\ partial = <<>> \/ toDev = <<>>
         /\ Silent("OK")
    /\ wait = "answer" =>
         /\ OneLine(partial, toDev)
         /\ \A i \in DOMAIN toHost : toHost[i].text = "OK" => i = Len(toHost) /\ Quiet

(* One request after the other: nothing is left of one, but perhaps        *)
(* confirmations or an ERROR, when the next is sent; blocks are still to   *)
(* be read only if the device confirms in excess, and then before a len.   *)
LenLast(p, d) ==
  /\ \A i \in DOMAIN p : p[i].cmd = "len" => Len(d) <= 1
  /\ \A i \in DOMAIN d : d[i].cmd = "len" => i >= Len(d) - 1
OneByOne ==
  step \in SuouSteps \ {"end"} =>
    /\ wait = "send" =>
         /\ Silent("OK") /\ (step = "start" => Silent("IMG_STARTED"))
         /\ \A i \in DOMAIN toHost : toHost[i].text = "CMP_OK" => toHost[i].re = "data"
         /\ Astray => Only({"junk", "data"}, partial) /\ Only({"junk", "data"}, toDev)
         /\ ~Astray => Quiet /\ (step \notin {"lastlen", "info"} => Silent("CMP_OK"))
    /\ wait = "answer" =>
         /\ LET ours == {"junk"} \cup Altered \cup IF Astray THEN {"data"} ELSE {}
            IN  Only(ours, partial) /\ Only(ours, toDev)
         /\ ~Astray => OneLine(partial, toDev)
         /\ step = "lastlen" => LenLast(partial, toDev)
         /\ \A i \in DOMAIN toHost :
              /\ toHost[i].text = "OK" =>
                   /\ i = Len(toHost) /\ Quiet
                   /\ toHost[i].re = Requested \/ (step = "start" /\ Silent("IMG_STARTED"))
                   /\ step \notin {"bulk", "last"}
              /\ toHost[i].text = Wanted => toHost[i].re = Requested /\ (~Astray => Quiet)
    /\ step = "started" => Quiet

(* The line and the answer are about as much of the file as is sent.       *)
FromHere(s) == \A i \in DOMAIN s : s[i].cmd \in Altered => s[i].at = xfered
AtHere ==
  step \in SuouSteps \ {"end"} /\ wait = "answer" /\ ~(misled /\ step = "bulk") =>
    /\ FromHere(partial) /\ FromHere(toDev)
    /\ \A i \in DOMAIN toHost :
         toHost[i].text \in {"OK", Wanted} /\ toHost[i].re = Requested => toHost[i].at = xfered

(* What the service engine has counted.                                    *)
DataSent(s) ==
  \A i \in DOMAIN s : s[i].cmd = "data" =>
    /\ s[i].of = size /\ s[i].n > 0
    /\ svc.on /\ ~misled => svc.got + s[i].n = xfered
    /\ step = "bulk" => s[i].n = chunksz
Counting ==
  /\ (/\ svc.on /\ ~misled
      /\ step \in {"started", "len", "lastlen"} \/ (step \in {"bulk", "last"} /\ wait = "send"))
       => svc.got = xfered
  /\ step = "start" /\ ~Silent("IMG_STARTED") => svc.got = 0 /\ svc.chunk = 0
  /\ (step \in {"bulk", "last"} /\ wait = "answer") \/ Astray => DataSent(partial) /\ DataSent(toDev)
  /\ step \in {"bulk", "last"} /\ wait = "answer" /\ ~Silent("CMP_OK") /\ svc.on /\ ~misled =>
       svc.got = xfered

(* The length of every block but the last is the patch_len.                *)
LenSent(s) == \A i \in DOMAIN s : s[i].cmd = "len" => s[i].n = chunksz
Exact ==
  ~misled =>
    /\ step = "len" /\ wait = "answer" => LenSent(partial) /\ LenSent(toDev)
    /\ step \in {"started", "len"} => svc.chunk = 0
    /\ step = "len" /\ ~Silent("OK") /\ mode = "fwupdate" => svc.cbs /\ svc.len = chunksz
    /\ step = "bulk" /\ size > 2 * chunksz =>
         /\ mode = "fwupdate" =>
              /\ svc.cbs /\ svc.len = chunksz
              /\ svc.chunk = 0 \/ (wait = "answer" /\ Quiet /\ Silent("CMP_OK"))
         /\ \A i, j \in DOMAIN toHost :
              toHost[i].text = "CMP_OK" /\ toHost[j].text = "CMP_OK" => i = j

(* Where the device may confirm without end.                               *)
Hangs ==
  mode = "hang" =>
    /\ partial = <<>>
    /\ (step \in {"alloc", "fwupdate"} => chunksz = CHUNK) => Silent("OK")
    /\ step \in {"alloc", "fwupdate"} /\ chunksz = CHUNK => wait \notin {"knock", "type"}
    /\ step \notin {"status", "start", "started", "len", "end"}
    /\ step \in {"bulk", "last"} /\ ~(misled /\ step = "bulk") =>
         wait = "answer" /\ Quiet /\ svc.at = xfered /\ (misled \/ svc.got = xfered)
    /\ size > 2 * chunksz /\ ~misled => step # "bulk"

(* What the service engine holds is of this file.                          *)
OfThisFile ==
  step \in {"started", "len", "bulk", "lastlen", "last", "info", "end"} \/ result = "pass" =>
    (svc.good /\ svc.got > 0 => svc.of = size)

(* The end.                                                                *)
Ending ==
  /\ (step = "end" \/ result = "pass") =>
       LET ours == {"junk"} \cup MemDev IN Only(ours, partial) /\ Only(ours, toDev)
  /\ step = "end" =>
       \A i \in DOMAIN toHost : toHost[i].text = "CMP_OK" => toHost[i].re = "end" /\ selected = size

IInv ==
  /\ TypeOK /\ Phases /\ First /\ AtPromptStill /\ OneByOne /\ AtHere
  /\ Counting /\ Exact /\ Hangs /\ OfThisFile /\ Ending /\ PassMeansSelected

-----------------------------------------------------------------------------
(* Facts about numbers and sequences.                                      *)

LEMMA Division ==
  /\ \A a \in Nat, b \in Nat \ {0} : a \div b \in Nat /\ a % b \in Nat /\ (a < b => a \div b = 0)
  /\ \A b \in Nat \ {0} : b \div b = 1 /\ b % b = 0 /\ (2 * b) \div 2 = b
  <1>1. \A a \in Nat, b \in Nat \ {0} : a \div b \in Nat /\ a % b \in Nat /\ (a < b => a \div b = 0)
    OBVIOUS
  <1>2. ASSUME NEW b \in Nat \ {0} PROVE b \div b = 1 /\ b % b = 0
    OBVIOUS
  <1>3. \A b \in Nat \ {0} : (2 * b) \div 2 = b OBVIOUS
  <1> QED BY <1>1, <1>2, <1>3

LEMMA TailItems ==
  ASSUME NEW S, NEW s \in Seq(S), s # <<>>
  PROVE  /\ Tail(s) \in Seq(S) /\ Len(Tail(s)) = Len(s) - 1 /\ Head(s) = s[1] /\ Head(s) \in S
         /\ Len(s) \in Nat \ {0} /\ DOMAIN s = 1..Len(s) /\ DOMAIN Tail(s) = 1..Len(s)-1
         /\ \A i \in DOMAIN Tail(s) : i + 1 \in DOMAIN s /\ Tail(s)[i] = s[i + 1]
  OBVIOUS

LEMMA AppendItems ==
  ASSUME NEW S, NEW s \in Seq(S), NEW e \in S
  PROVE  /\ Append(s, e) \in Seq(S) /\ Len(Append(s, e)) = Len(s) + 1 /\ Append(s, e) # <<>>
         /\ DOMAIN Append(s, e) = 1..Len(s)+1 /\ Append(s, e)[Len(s) + 1] = e
         /\ \A i \in DOMAIN s : Append(s, e)[i] = s[i]
  OBVIOUS

LEMMA ConcatItems ==
  ASSUME NEW S, NEW s \in Seq(S), NEW t \in Seq(S)
  PROVE  /\ s \o t \in Seq(S) /\ Len(s \o t) = Len(s) + Len(t)
         /\ \A i \in DOMAIN (s \o t) :
              \/ i \in DOMAIN s /\ (s \o t)[i] = s[i]
              \/ i - Len(s) \in DOMAIN t /\ (s \o t)[i] = t[i - Len(s)]
  OBVIOUS

-----------------------------------------------------------------------------
(* One line read by the device: what it may answer, and what changes.      *)

Svcs == [on : BOOLEAN, cbs : BOOLEAN, len : Nat, chunk : Nat, got : Nat,
         of : Sizes \cup {0}, at : Nat, good : BOOLEAN, error : BOOLEAN]

\* The line is one command c.
Is(c) == Len(partial) = 1 /\ partial[1].cmd = c

\* It is none that the engine takes a number or data from, and none unknown.
Simple == ~Is("data") /\ ~Is("len") /\ ~Is("junk") /\ ~Is("nl")

\* The service engine goes from s to t.
Served(s, t) ==
  LET n == partial[1].n
  IN  /\ t \in Svcs
      /\ t.on => s.on \/ Is("start")
      /\ t.got = s.got \/ Is("start") \/ (Is("data") /\ s.on /\ t.got = s.got + n)
      /\ (t.cbs = s.cbs /\ t.len = s.len) \/ (Is("len") /\ t.cbs /\ t.len = n)
      /\ t.chunk = s.chunk \/ t.chunk = 0 \/ Is("data")
      /\ t.good /\ t.got > 0 =>
           (s.good /\ s.got > 0 /\ t.of = s.of) \/ (Is("data") /\ t.of = partial[1].of)

\* What else changes.
Stepped ==
  /\ Served(svc, svc')
  /\ mode' \in {"prompt", "fwupdate"} \cup Stuck /\ qspibuf' \in BOOLEAN /\ bufsz' \in Nat
  /\ faults' \in 0..MaxFaults
  /\ mode' = "fwupdate" => mode = "fwupdate" \/ Is("fwupdate")
  /\ mode' = "hang" =>
       /\ Is("data") /\ mode = "fwupdate" /\ svc.on /\ svc.cbs /\ svc.len = 0
       /\ svc'.at = partial[1].at /\ svc'.got = svc.got + partial[1].n
  /\ selected' = selected \/ (Is("end") /\ Complete /\ selected' = svc.of)

\* a may be what it answers.
Heard(a) ==
  \A i \in DOMAIN a :
    /\ a[i].re = partial[1].cmd /\ a[i].at = partial[1].at
    /\ a[i].text = "OK" =>
         /\ i = Len(a) /\ Len(partial) = 1 /\ ~Is("data") /\ ~Is("junk") /\ ~Is("nl")
         /\ Is("len") => svc'.cbs /\ svc'.len = partial[1].n
    /\ a[i].text = "IMG_STARTED" => Is("start") /\ svc'.got = 0 /\ svc'.chunk = 0
    /\ a[i].text = "CMP_OK" =>
         \/ /\ Is("data") /\ svc.on /\ svc'.got = svc.got + partial[1].n /\ mode = "fwupdate"
            /\ svc.cbs /\ svc.len = partial[1].n /\ svc.chunk = 0 /\ partial[1].n > 0 =>
                 svc'.chunk = 0 /\ \A j \in DOMAIN a : a[j].text = "CMP_OK" => i = j
         \/ Is("end") /\ Complete /\ selected' = svc.of
    /\ a[i].n # 0 =>
         Len(a) = 1 /\ (Is("info") \/ (Is("getsuouartbuffsz") /\ a[i].n = 2 * CHUNK))

Replied(a) == a \in Seq(Answers) /\ Answer(a) /\ Heard(a) /\ Stepped

LEMMA FaultTyped == TypeOK /\ (NoFault \/ Fault) => faults' \in 0..MaxFaults
  BY UpdateAssumption DEF TypeOK, NoFault, Fault

LEMMA ServedSame == TypeOK /\ svc' = svc => Served(svc, svc')
  BY DEF TypeOK, Served, Svcs

LEMMA Silence == ASSUME TypeOK, Phases, Stepped, UNCHANGED toHost PROVE Replied(<<>>)
  <1>1. <<>> \in Seq(Answers) /\ \A i \in DOMAIN <<>> : FALSE OBVIOUS
  <1>2. Answer(<<>>) BY DEF Answer, Phases, TypeOK
  <1> QED BY <1>1, <1>2 DEF Replied, Heard

LEMMA Named ==
  ASSUME TypeOK, partial # <<>>
  PROVE  /\ partial[1] \in Commands /\ partial[1].cmd \in Cmds /\ partial[1].n \in Nat
         /\ partial[1].of \in Sizes \cup {0} /\ partial[1].at \in Nat /\ partial[1].ok \in BOOLEAN
         /\ Len(partial) \in Nat \ {0}
  <1>1. partial \in Seq(Commands) BY DEF TypeOK
  <1>2. partial[1] \in Commands /\ Len(partial) \in Nat \ {0} BY <1>1, TailItems
  <1> QED BY <1>2 DEF Commands

\* The words of an answer.
LEMMA ToldWords ==
  ASSUME TypeOK, partial # <<>>, NEW w \in Seq(Texts), Told(partial[1], w)
  PROVE  \E a \in Seq(Answers) :
           /\ Answer(a) /\ Len(a) = Len(w) /\ DOMAIN a = DOMAIN w
           /\ \A i \in DOMAIN a : /\ a[i].text = w[i] /\ a[i].n = 0
                                  /\ a[i].re = partial[1].cmd /\ a[i].at = partial[1].at
  <1> DEFINE c == partial[1]
             a == [i \in 1..Len(w) |-> Say(w[i], 0, c)]
  <1>1. c.cmd \in Cmds /\ c.at \in Nat BY Named
  <1> HIDE DEF c
  <1>2. \A i \in 1..Len(w) :
          /\ Say(w[i], 0, c) \in Answers
          /\ Say(w[i], 0, c).text = w[i] /\ Say(w[i], 0, c).n = 0
          /\ Say(w[i], 0, c).re = c.cmd /\ Say(w[i], 0, c).at = c.at
    BY <1>1 DEF Say, Answers
  <1>3. Len(w) \in Nat /\ DOMAIN w = 1..Len(w) OBVIOUS
  <1>4. Answer(a) BY DEF Told, c
  <1>5. a \in Seq(Answers) /\ Len(a) = Len(w) /\ DOMAIN a = 1..Len(w) BY <1>2, <1>3
  <1>6. \A i \in 1..Len(w) : a[i] = Say(w[i], 0, c) OBVIOUS
  <1> HIDE DEF a
  <1> QED BY <1>2, <1>3, <1>4, <1>5, <1>6 DEF c

LEMMA OneWord ==
  ASSUME TypeOK, partial # <<>>, Stepped, NEW x \in Texts \ {"IMG_STARTED", "CMP_OK"},
         Told(partial[1], <<x>>),
         x = "OK" => Len(partial) = 1 /\ ~Is("data") /\ ~Is("junk") /\ ~Is("nl")
                     /\ (Is("len") => svc'.cbs /\ svc'.len = partial[1].n)
  PROVE  \E a : Replied(a)
  <1> DEFINE w == <<x>>
  <1>0. Told(partial[1], w) OBVIOUS
  <1>1. w \in Seq(Texts) /\ Len(w) = 1 /\ DOMAIN w = {1} /\ w[1] = x OBVIOUS
  <1> HIDE DEF w
  <1>2. PICK a \in Seq(Answers) :
          /\ Answer(a) /\ Len(a) = 1 /\ DOMAIN a = {1}
          /\ \A i \in DOMAIN a : /\ a[i].text = w[i] /\ a[i].n = 0
                                 /\ a[i].re = partial[1].cmd /\ a[i].at = partial[1].at
    BY <1>0, <1>1, ToldWords
  <1>3. Heard(a) BY <1>1, <1>2 DEF Heard
  <1> QED BY <1>2, <1>3 DEF Replied

LEMMA TwoWords ==
  ASSUME TypeOK, partial # <<>>, Stepped, Len(partial) = 1,
         NEW x \in Texts \ {"OK"}, NEW y \in {"OK", "ERROR"}, Told(partial[1], <<x, y>>),
         y = "OK" => Simple,
         x = "IMG_STARTED" => Is("start") /\ svc'.got = 0 /\ svc'.chunk = 0,
         x = "CMP_OK" => Is("end") /\ Complete /\ selected' = svc.of
  PROVE  \E a : Replied(a)
  <1> DEFINE w == <<x, y>>
  <1>0. y \in Texts BY DEF Texts
  <1>1. w \in Seq(Texts) /\ Len(w) = 2 /\ DOMAIN w = {1, 2} /\ w[1] = x /\ w[2] = y BY <1>0
  <1>2. Told(partial[1], w) OBVIOUS
  <1> HIDE DEF w
  <1>3. PICK a \in Seq(Answers) :
          /\ Answer(a) /\ Len(a) = 2 /\ DOMAIN a = {1, 2}
          /\ \A i \in DOMAIN a : /\ a[i].text = w[i] /\ a[i].n = 0
                                 /\ a[i].re = partial[1].cmd /\ a[i].at = partial[1].at
    BY <1>1, <1>2, ToldWords
  <1>4. Heard(a) BY <1>1, <1>3 DEF Heard, Simple
  <1> QED BY <1>3, <1>4 DEF Replied

LEMMA IsOne == ASSUME NEW c, Is(c) PROVE partial # <<>>
  <1>1. Len(partial) = 1 BY DEF Is
  <1>2. Len(<<>>) = 0 OBVIOUS
  <1> QED BY <1>1, <1>2

LEMMA NumberReply ==
  ASSUME TypeOK, partial # <<>>, Stepped, NEW v \in Nat, Answer(<<Say("OK", v, partial[1])>>),
         Is("info") \/ (Is("getsuouartbuffsz") /\ v = 2 * CHUNK)
  PROVE  \E a : Replied(a)
  <1> DEFINE s == Say("OK", v, partial[1])
  <1>1. s \in Answers BY Named DEF Say, Answers, Texts
  <1>2. s.re = partial[1].cmd /\ s.at = partial[1].at /\ s.text = "OK" /\ s.n = v BY DEF Say
  <1>3. Answer(<<s>>) OBVIOUS
  <1> HIDE DEF s
  <1>4. <<s>> \in Seq(Answers) /\ Len(<<s>>) = 1 /\ DOMAIN <<s>> = 1..1 /\ <<s>>[1] = s BY <1>1
  <1>5. Heard(<<s>>) BY <1>2, <1>4 DEF Heard, Is
  <1> QED BY <1>3, <1>4, <1>5 DEF Replied

LEMMA EmptyLine ==
  ASSUME TypeOK, partial = <<>>, AtPrompt \/ InFwupdate
  PROVE  UNCHANGED <<svc, mode, selected, toHost, qspibuf, bufsz, faults>>
  <1>1. Len(partial) = 0 OBVIOUS
  <1>2. ~IsRequest BY <1>1 DEF IsRequest
  <1>3. CASE AtPrompt BY <1>1, <1>3 DEF AtPrompt, NoFault
  <1>4. CASE InFwupdate BY <1>1, <1>2, <1>4 DEF InFwupdate, NoFault
  <1> QED BY <1>3, <1>4

LEMMA PromptSteps ==
  ASSUME TypeOK, NoFault \/ Fault, UNCHANGED <<svc, selected>>, mode # "hang",
         mode' \in {mode, "prompt", "wild", "fault"} \/ (mode' = "fwupdate" /\ Is("fwupdate")),
         qspibuf' \in BOOLEAN, bufsz' \in Nat
  PROVE  Stepped
  BY FaultTyped, ServedSame DEF TypeOK, Stepped, Stuck

LEMMA AllocReply ==
  ASSUME TypeOK, Phases, Is("alloc"), Alloc(partial[1]), mode = "prompt",
         UNCHANGED <<svc, selected>>
  PROVE  \E a : Replied(a)
  <1> DEFINE n == partial[1].n
             c == partial[1]
  <1>1. partial # <<>> /\ n \in Nat /\ Simple /\ Len(partial) = 1
    <2>1. partial # <<>> BY IsOne
    <2> QED BY <2>1, Named DEF Is, Simple
  <1>2. /\ NoFault \/ Fault
        /\ mode' \in {mode, "wild"} /\ qspibuf' \in BOOLEAN /\ bufsz' \in Nat
        /\ Told(c, <<"OK">>) \/ Told(c, <<"ERROR">>) \/ UNCHANGED toHost
    <2>1. qspibuf \in BOOLEAN /\ bufsz \in Nat BY DEF TypeOK
    <2>2. Alloc(c) OBVIOUS
    <2>8. n = c.n OBVIOUS
    <2> HIDE DEF n, c
    <2>3. NoFault \/ Fault BY ONLY <2>2 DEF Alloc
    <2>4. mode' \in {mode, "wild"} BY ONLY <2>2 DEF Alloc
    <2>5. qspibuf' \in BOOLEAN
      <3>1. UNCHANGED qspibuf \/ qspibuf' = TRUE BY ONLY <2>2 DEF Alloc
      <3> QED BY <2>1, <3>1
    <2>6. bufsz' \in Nat
      <3>1. bufsz' \in {0, n, bufsz} BY ONLY <2>2, <2>8 DEF Alloc
      <3> QED BY ONLY <1>1, <2>1, <3>1
    <2>7. Told(c, <<"OK">>) \/ Told(c, <<"ERROR">>) \/ UNCHANGED toHost
      BY ONLY <2>2 DEF Alloc
    <2> QED BY <1>1, <2>3, <2>4, <2>5, <2>6, <2>7
  <1>3. Stepped BY <1>2, PromptSteps DEF TypeOK
  <1>4. "OK" \in Texts \ {"IMG_STARTED", "CMP_OK"} /\ "ERROR" \in Texts \ {"IMG_STARTED", "CMP_OK"}
    BY DEF Texts
  <1>5. CASE Told(c, <<"OK">>) BY <1>1, <1>3, <1>4, <1>5, OneWord DEF Simple
  <1>6. CASE Told(c, <<"ERROR">>) BY <1>1, <1>3, <1>4, <1>6, OneWord
  <1>7. CASE UNCHANGED toHost BY <1>3, <1>7, Silence
  <1> QED BY <1>2, <1>5, <1>6, <1>7

LEMMA PromptReply ==
  ASSUME TypeOK, Phases, AtPrompt, partial # <<>>
  PROVE  \E a : Replied(a)
  <1> DEFINE c == partial[1]
  <1>0. c.cmd \in Cmds /\ Len(partial) \in Nat \ {0} /\ mode = "prompt" BY Named DEF AtPrompt
  <1>1. {"OK", "ERROR"} \subseteq Texts \ {"IMG_STARTED", "CMP_OK"} BY DEF Texts
  <1>2. UNCHANGED <<svc, selected>> BY DEF AtPrompt
  <1>3. CASE Is("getsuouartbuffsz") /\ Answer(<<Say("OK", 2 * CHUNK, c)>>)
             /\ NoFault /\ UNCHANGED <<mode, qspibuf, bufsz>>
    <2>1. Stepped BY <1>0, <1>2, <1>3, PromptSteps DEF TypeOK
    <2>2. 2 * CHUNK \in Nat BY UpdateAssumption
    <2> QED BY <1>3, <2>1, <2>2, NumberReply
  <1>4. CASE Is("alloc") /\ Alloc(c) BY <1>0, <1>2, <1>4, AllocReply
  <1>5. CASE Is("fwupdate") /\ (Told(c, <<"OK">>) \/ Told(c, <<"ERROR", "OK">>))
             /\ mode' = "fwupdate" /\ NoFault /\ UNCHANGED <<qspibuf, bufsz>>
    <2>1. Stepped BY <1>0, <1>2, <1>5, PromptSteps DEF TypeOK
    <2>2. Simple /\ Len(partial) = 1 BY <1>5 DEF Is, Simple
    <2>3. CASE Told(c, <<"OK">>) BY <1>1, <2>1, <2>2, <2>3, OneWord DEF Simple
    <2>4. CASE Told(c, <<"ERROR", "OK">>) BY <1>1, <2>1, <2>2, <2>4, TwoWords
    <2> QED BY <1>5, <2>3, <2>4
  <1>6. CASE Told(c, <<"ERROR">>) /\ NoFault /\ UNCHANGED <<mode, qspibuf, bufsz>>
    <2>1. Stepped BY <1>0, <1>2, <1>6, PromptSteps DEF TypeOK
    <2> QED BY <1>1, <1>6, <2>1, OneWord
  <1> QED BY <1>0, <1>3, <1>4, <1>5, <1>6 DEF AtPrompt, Is

LEMMA RequestIs ==
  ASSUME TypeOK, IsRequest
  PROVE  /\ Len(partial) = 1 /\ partial # <<>> /\ partial[1] \in Commands
         /\ partial[1].n \in Nat /\ partial[1].of \in Sizes \cup {0}
         /\ partial[1].at \in Nat /\ partial[1].ok \in BOOLEAN
         /\ \A c : partial[1].cmd = c <=> Is(c)
  <1>1. Len(partial) = 1 BY DEF IsRequest
  <1>2. \A c : partial[1].cmd = c <=> Is(c) BY <1>1 DEF Is
  <1>3. Is(partial[1].cmd) BY <1>2
  <1>4. partial # <<>> BY <1>3, IsOne
  <1> QED BY <1>1, <1>2, <1>4, Named

LEMMA StartReply ==
  ASSUME TypeOK, Phases, IsRequest, Is("start"), Start(partial[1]),
         mode = "fwupdate", UNCHANGED <<selected, mode, qspibuf, bufsz>>
  PROVE  \E a : Replied(a)
  <1> DEFINE on == [svc EXCEPT !.on = TRUE, !.chunk = 0, !.got = 0, !.at = 0,
                              !.good = TRUE, !.error = FALSE]
             c == partial[1]
  <1>1. /\ Simple /\ Len(partial) = 1 /\ partial # <<>>
    BY RequestIs DEF Is, Simple
  <1>2. svc \in Svcs BY DEF TypeOK, Svcs
  <1>3. (NoFault \/ Fault) BY DEF Start
  <1>4. ASSUME Served(svc, svc') PROVE Stepped BY <1>3, <1>4, FaultTyped DEF Stepped, TypeOK
  <1>5. /\ "IMG_STARTED" \in Texts \ {"OK"} /\ "SRV_EXIT" \in Texts \ {"OK"} /\ "OK" \in {"OK", "ERROR"}
        /\ "SRV_EXIT" # "IMG_STARTED" /\ "SRV_EXIT" # "CMP_OK" /\ "IMG_STARTED" # "CMP_OK"
    BY DEF Texts
  <1>6. CASE svc' = on /\ Told(c, <<"IMG_STARTED", "OK">>)
    <2>1. /\ on \in Svcs /\ on.got = 0 /\ on.chunk = 0 /\ on.cbs = svc.cbs /\ on.len = svc.len
      BY <1>2 DEF Svcs
    <2>2. Served(svc, on)
      <3> HIDE DEF on
      <3> QED BY <2>1 DEF Served
    <2>3. svc'.got = 0 /\ svc'.chunk = 0 BY <1>6, <2>1
    <2> QED BY <1>1, <1>4, <1>5, <1>6, <2>2, <2>3, TwoWords
  <1>7. CASE UNCHANGED svc /\ Told(c, <<"SRV_EXIT", "OK">>)
    <2>1. Stepped BY <1>4, <1>7, ServedSame
    <2> QED BY <1>1, <1>5, <1>7, <2>1, TwoWords
  <1> QED BY <1>6, <1>7 DEF Start

LEMMA LenReply ==
  ASSUME TypeOK, Phases, IsRequest, Is("len"), PatchLen(partial[1]),
         mode = "fwupdate", UNCHANGED <<selected, mode, qspibuf, bufsz>>
  PROVE  \E a : Replied(a)
  <1> DEFINE n == partial[1].n
             set == [svc EXCEPT !.cbs = TRUE, !.len = n]
  <1>1. /\ partial[1].cmd = "len" /\ ~Is("data") /\ ~Is("junk") /\ ~Is("nl")
        /\ Len(partial) = 1 /\ partial # <<>> /\ n \in Nat
    BY RequestIs DEF Is
  <1>2. svc \in Svcs BY DEF TypeOK, Svcs
  <1>3. svc' = set /\ Told(partial[1], <<"OK">>) /\ NoFault BY DEF PatchLen
  <1>4. /\ set \in Svcs /\ set.on = svc.on /\ set.got = svc.got /\ set.chunk = svc.chunk
        /\ set.good = svc.good /\ set.of = svc.of /\ set.cbs /\ set.len = n
    <2> HIDE DEF n
    <2> QED BY <1>1, <1>2 DEF Svcs
  <1>5. Served(svc, set)
    <2> HIDE DEF set
    <2> QED BY <1>4 DEF Served
  <1>6. Stepped BY <1>3, <1>5, FaultTyped DEF Stepped, TypeOK
  <1>7. svc'.cbs /\ svc'.len = n BY <1>3, <1>4
  <1>8. "OK" \in Texts \ {"IMG_STARTED", "CMP_OK"} BY DEF Texts
  <1> QED BY <1>1, <1>3, <1>6, <1>7, <1>8, OneWord

LEMMA AbortReply ==
  ASSUME TypeOK, Phases, IsRequest, Is("abort"), svc' = [svc EXCEPT !.on = FALSE],
         Told(partial[1], <<"SRV_EXIT", "OK">>), NoFault, mode = "fwupdate",
         UNCHANGED <<selected, mode, qspibuf, bufsz>>
  PROVE  \E a : Replied(a)
  <1> DEFINE off == [svc EXCEPT !.on = FALSE]
  <1>1. /\ partial[1].cmd = "abort" /\ Simple /\ Len(partial) = 1 /\ partial # <<>>
    BY RequestIs DEF Is, Simple
  <1>2. svc \in Svcs BY DEF TypeOK, Svcs
  <1>3. /\ off \in Svcs /\ ~off.on /\ off.got = svc.got /\ off.chunk = svc.chunk
        /\ off.good = svc.good /\ off.of = svc.of /\ off.cbs = svc.cbs /\ off.len = svc.len
    BY <1>2 DEF Svcs
  <1>4. Served(svc, off)
    <2> HIDE DEF off
    <2> QED BY <1>3 DEF Served
  <1>5. Stepped BY <1>4, FaultTyped DEF Stepped, TypeOK
  <1>6. /\ "SRV_EXIT" \in Texts \ {"OK"} /\ "OK" \in {"OK", "ERROR"}
        /\ "SRV_EXIT" # "IMG_STARTED" /\ "SRV_EXIT" # "CMP_OK"
    BY DEF Texts
  <1> QED BY <1>1, <1>5, <1>6, TwoWords

LEMMA EndReply ==
  ASSUME TypeOK, Phases, IsRequest, Is("end"), End(partial[1]),
         mode = "fwupdate", UNCHANGED <<svc, mode, qspibuf, bufsz>>
  PROVE  \E a : Replied(a)
  <1>1. /\ partial[1].cmd = "end" /\ Simple /\ ~Is("start") /\ Len(partial) = 1
        /\ partial # <<>>
    BY RequestIs DEF Is, Simple
  <1>2. {"CMP_OK", "CRC_ERR", "APP_ERROR"} \subseteq Texts \ {"OK"}
    BY DEF Texts
  <1>3. Served(svc, svc') /\ (NoFault \/ Fault) BY ServedSame DEF End
  <1>4. selected' = selected \/ (Complete /\ selected' = svc.of) BY DEF End
  <1>5. Stepped BY <1>3, <1>4, FaultTyped DEF Stepped, TypeOK
  <1>6. CASE Complete /\ selected' = svc.of /\ Told(partial[1], <<"CMP_OK", "OK">>)
    BY <1>1, <1>2, <1>5, <1>6, TwoWords
  <1>7. CASE Told(partial[1], <<"CRC_ERR", "OK">>) BY <1>1, <1>2, <1>5, <1>7, TwoWords
  <1>8. CASE Told(partial[1], <<"APP_ERROR", "ERROR">>) BY <1>1, <1>2, <1>5, <1>8, TwoWords
  <1> QED BY <1>6, <1>7, <1>8 DEF End

\* A line handled: its confirmations are one if it is as long as the patch_len.
LEMMA HandleReply ==
  ASSUME TypeOK, Phases, IsRequest, Is("data"), mode = "fwupdate", svc.on,
         NEW k \in Nat, k <= partial[1].n, NEW h \in {<<>>, <<"INVAL_IMG_HDR">>}, NEW b \in BOOLEAN,
         Handle(partial[1], k, h, b), NoFault \/ Fault, UNCHANGED <<selected, qspibuf, bufsz>>
  PROVE  \E a : Replied(a)
  <1> DEFINE c       == partial[1]
             chunk   == svc.chunk + k
             endless == svc.cbs /\ svc.len = 0
             counted == svc.cbs /\ svc.len # 0
             times   == IF counted THEN chunk \div svc.len ELSE IF endless THEN 1 ELSE 0
             last    == IF b /\ ~endless THEN <<"ERROR">> ELSE <<>>
             left    == IF counted THEN chunk % svc.len ELSE svc.chunk
             got     == svc.got + c.n
             good    == svc.good /\ ~b /\ ~Amiss(c)
             error   == svc.error \/ h # <<>>
             t       == [svc EXCEPT !.got = got, !.of = c.of, !.at = c.at, !.good = good,
                                    !.error = error, !.chunk = left]
             m       == [i \in 1..times |-> "CMP_OK"]
             w       == h \o m \o last
  <1>1. /\ c.cmd = "data" /\ ~Is("end") /\ ~Is("len") /\ ~Is("start") /\ Len(partial) = 1
        /\ c.n \in Nat /\ c.of \in Sizes \cup {0} /\ c.at \in Nat /\ partial # <<>>
    BY RequestIs DEF Is
  <1>2. /\ svc \in Svcs /\ svc.got \in Nat /\ svc.chunk \in Nat /\ svc.len \in Nat
        /\ svc.cbs \in BOOLEAN /\ svc.good \in BOOLEAN /\ svc.error \in BOOLEAN
    BY DEF TypeOK, Svcs
  <1>3. svc' = t /\ Told(c, w) /\ mode' = (IF endless THEN "hang" ELSE mode) BY DEF Handle
  <1>4. good \in BOOLEAN /\ (good => svc.good) /\ error \in BOOLEAN BY <1>2
  <1>5. good /\ svc.got > 0 => svc.of = c.of BY DEF Amiss
  <1>6. chunk \in Nat /\ got \in Nat BY <1>1, <1>2
  <1>7. times \in Nat /\ left \in Nat
    <2> HIDE DEF chunk
    <2> QED BY <1>2, <1>6, Division
  <1>8. svc.cbs /\ svc.len = c.n /\ svc.chunk = 0 /\ c.n > 0 =>
          times <= 1 /\ (times = 1 => left = 0)
    <2> SUFFICES ASSUME svc.cbs, svc.len = c.n, svc.chunk = 0, c.n > 0
                 PROVE  times <= 1 /\ (times = 1 => left = 0)
      OBVIOUS
    <2>1. chunk = k /\ c.n \in Nat \ {0} BY <1>1
    <2>2. times = k \div c.n /\ left = k % c.n BY <2>1
    <2> HIDE DEF times, left, chunk, c
    <2>3. CASE k = c.n BY <2>1, <2>2, <2>3, Division
    <2>4. CASE k # c.n
      <3>1. k < c.n BY <1>1, <2>4 DEF c
      <3> QED BY <2>1, <2>2, <3>1, Division
    <2> QED BY <2>3, <2>4
  <1>9. counted => svc.len > 0 BY <1>2
  <1> HIDE DEF chunk, times, left, good, error
  <1>10. /\ t \in Svcs /\ t.on = svc.on /\ t.cbs = svc.cbs /\ t.len = svc.len /\ t.got = got
         /\ t.of = c.of /\ t.at = c.at /\ t.good = good /\ t.chunk = left
    <2> HIDE DEF c, got
    <2> QED BY <1>1, <1>2, <1>4, <1>6, <1>7 DEF Svcs
  <1> HIDE DEF t
  <1>11. Served(svc, svc')
    <2>1. t.good /\ t.got > 0 => Is("data") /\ t.of = partial[1].of BY <1>10
    <2>2. Is("data") OBVIOUS
    <2> QED BY <1>3, <1>10, <2>1, <2>2 DEF Served
  <1>12. Stepped
    <2>1. mode' = "hang" => endless BY <1>3
    <2>2. mode' \in {"prompt", "fwupdate"} \cup Stuck BY <1>3 DEF Stuck
    <2>3. faults' \in 0..MaxFaults BY FaultTyped
    <2>4. svc'.at = c.at /\ svc'.got = svc.got + c.n BY <1>3, <1>10
    <2>5. Is("data") OBVIOUS
    <2>6. qspibuf' \in BOOLEAN /\ bufsz' \in Nat BY DEF TypeOK
    <2> QED BY <1>11, <2>1, <2>2, <2>3, <2>4, <2>5, <2>6 DEF Stepped
  <1>13. /\ w \in Seq(Texts)
         /\ \A i \in DOMAIN w :
              /\ w[i] \in {"INVAL_IMG_HDR", "CMP_OK", "ERROR"}
              /\ w[i] = "CMP_OK" => times # 0
              /\ times = 1 /\ w[i] = "CMP_OK" => i = Len(h) + 1
    <2>1. m \in Seq(Texts) /\ Len(m) = times /\ \A i \in DOMAIN m : i \in 1..times /\ m[i] = "CMP_OK"
      BY <1>7 DEF Texts
    <2>2. /\ last \in Seq(Texts) /\ h \in Seq(Texts)
          /\ \A i \in DOMAIN last : last[i] = "ERROR"
          /\ \A i \in DOMAIN h : h[i] = "INVAL_IMG_HDR"
      <3>1. \A x \in Texts : /\ <<x>> \in Seq(Texts) /\ <<>> \in Seq(Texts)
                             /\ \A i \in DOMAIN <<x>> : <<x>>[i] = x
                             /\ DOMAIN <<>> = {}
        OBVIOUS
      <3>2. "ERROR" \in Texts /\ "INVAL_IMG_HDR" \in Texts BY DEF Texts
      <3>3. last \in {<<"ERROR">>, <<>>} OBVIOUS
      <3> HIDE DEF last
      <3> QED BY <3>1, <3>2, <3>3
    <2> DEFINE hm == h \o m
    <2> HIDE DEF m, last
    <2>3. /\ hm \in Seq(Texts)
          /\ \A i \in DOMAIN hm : \/ i \in DOMAIN h /\ hm[i] = h[i]
                                  \/ i - Len(h) \in DOMAIN m /\ hm[i] = m[i - Len(h)]
      BY <2>1, <2>2, ConcatItems
    <2>4. w = hm \o last OBVIOUS
    <2> HIDE DEF hm, w
    <2>5. /\ w \in Seq(Texts)
          /\ \A i \in DOMAIN w : \/ i \in DOMAIN hm /\ w[i] = hm[i]
                                 \/ i - Len(hm) \in DOMAIN last /\ w[i] = last[i - Len(hm)]
      BY <2>2, <2>3, <2>4, ConcatItems
    <2>6. Len(h) \in Nat /\ DOMAIN w \subseteq Nat BY <2>2, <2>5
    <2>7. ASSUME NEW i \in DOMAIN w
          PROVE  /\ w[i] \in {"INVAL_IMG_HDR", "CMP_OK", "ERROR"}
                 /\ w[i] = "CMP_OK" => i - Len(h) \in 1..times
      <3>1. CASE i \in DOMAIN hm /\ w[i] = hm[i] BY <2>1, <2>2, <2>3, <3>1
      <3>2. CASE w[i] = last[i - Len(hm)] /\ i - Len(hm) \in DOMAIN last BY <2>2, <3>2
      <3> QED BY <2>5, <3>1, <3>2
    <2> QED BY <1>7, <2>5, <2>6, <2>7
  <1> HIDE DEF w
  <1>14. PICK a \in Seq(Answers) :
           /\ Answer(a) /\ Len(a) = Len(w) /\ DOMAIN a = DOMAIN w
           /\ \A i \in DOMAIN a : /\ a[i].text = w[i] /\ a[i].n = 0
                                  /\ a[i].re = c.cmd /\ a[i].at = c.at
    BY <1>1, <1>3, <1>13, ToldWords
  <1>15. Heard(a)
    <2>1. svc'.got = svc.got + c.n /\ svc'.chunk = left BY <1>3, <1>10
    <2>2. ASSUME NEW i \in DOMAIN a, a[i].text = "CMP_OK",
                 svc.cbs, svc.len = c.n, svc.chunk = 0, c.n > 0
          PROVE  svc'.chunk = 0 /\ \A j \in DOMAIN a : a[j].text = "CMP_OK" => i = j
      <3>1. times # 0 BY <1>13, <1>14, <2>2
      <3>2. times = 1 /\ left = 0 BY <1>7, <1>8, <2>2, <3>1
      <3> QED BY <1>13, <1>14, <2>1, <2>2, <3>2
    <2>3. Is("data") OBVIOUS
    <2>4. \A i \in DOMAIN a : a[i].text \in {"INVAL_IMG_HDR", "CMP_OK", "ERROR"} BY <1>13, <1>14
    <2> QED BY <1>14, <2>1, <2>2, <2>3, <2>4 DEF Heard
  <1> QED BY <1>12, <1>14, <1>15 DEF Replied

LEMMA DataReply ==
  ASSUME TypeOK, Phases, IsRequest, Is("data"), mode = "fwupdate", Data(partial[1]),
         UNCHANGED <<selected, qspibuf, bufsz>>
  PROVE  \E a : Replied(a)
  <1> DEFINE c == partial[1]
  <1>1. /\ c.cmd = "data" /\ ~Is("end") /\ Len(partial) = 1 /\ c.n \in Nat /\ partial # <<>>
    BY RequestIs DEF Is
  <1>2. "ERROR" \in Texts \ {"IMG_STARTED", "CMP_OK"} BY DEF Texts
  <1>3. ASSUME UNCHANGED svc, NoFault, mode' \in {mode, "fault"} PROVE Stepped
    BY <1>3, ServedSame, FaultTyped DEF Stepped, TypeOK, Stuck
  <1>4. CASE Told(c, <<"ERROR">>) /\ NoFault /\ UNCHANGED <<svc, mode>>
    BY <1>1, <1>2, <1>3, <1>4, OneWord
  <1>5. CASE /\ NoFault \/ Fault
             /\ svc.on
             /\ \E k \in 0..c.n, h \in {<<>>, <<"INVAL_IMG_HDR">>}, b \in BOOLEAN : Handle(c, k, h, b)
    <2>1. PICK k \in 0..c.n, h \in {<<>>, <<"INVAL_IMG_HDR">>}, b \in BOOLEAN : Handle(c, k, h, b)
      BY <1>5
    <2>2. k \in Nat /\ k <= c.n BY <1>1, <2>1
    <2> QED BY <1>5, <2>1, <2>2, HandleReply
  <1>6. CASE mode' = "fault" /\ UNCHANGED <<svc, toHost>> /\ NoFault BY <1>3, <1>6, Silence
  <1>7. c.n \in 0..c.n /\ 0 \in 0..c.n BY <1>1
  <1> HIDE DEF c
  <1>8. Data(c) BY DEF c
  <1>9. \/ Told(c, <<"ERROR">>) /\ NoFault /\ UNCHANGED <<svc, mode>>
        \/ /\ NoFault \/ Fault
           /\ svc.on
           /\ \E k \in 0..c.n, h \in {<<>>, <<"INVAL_IMG_HDR">>}, b \in BOOLEAN : Handle(c, k, h, b)
        \/ mode' = "fault" /\ UNCHANGED <<svc, toHost>> /\ NoFault
    BY <1>7, <1>8 DEF Data
  <1> QED BY <1>4, <1>5, <1>6, <1>9

LEMMA ServeReply ==
  ASSUME TypeOK, Phases, IsRequest, mode = "fwupdate", Serve(partial[1])
  PROVE  \E a : Replied(a)
  <1> DEFINE c == partial[1]
  <1>1. partial # <<>> /\ Len(partial) = 1 /\ \A x : c.cmd = x => Is(x) BY RequestIs
  <1>2. ASSUME UNCHANGED <<svc, selected, mode, qspibuf, bufsz>>, NoFault PROVE Stepped
    BY <1>2, FaultTyped, ServedSame DEF Stepped, TypeOK
  <1>3. CASE c.cmd \in {"status", "other"} /\ Told(c, <<"OK">>)
             /\ NoFault /\ UNCHANGED <<svc, selected, mode, qspibuf, bufsz>>
    <2>1. "OK" \in Texts \ {"IMG_STARTED", "CMP_OK"} BY DEF Texts
    <2>2. Simple BY <1>3 DEF Is, Simple
    <2> QED BY <1>1, <1>2, <1>3, <2>1, <2>2, OneWord DEF Simple
  <1>4. CASE c.cmd = "info" /\ Answer(<<Say("OK", svc.got, c)>>)
             /\ NoFault /\ UNCHANGED <<svc, selected, mode, qspibuf, bufsz>>
    <2>1. svc.got \in Nat BY DEF TypeOK
    <2> QED BY <1>1, <1>2, <1>4, <2>1, NumberReply
  <1>5. CASE c.cmd = "start" /\ Start(c) /\ UNCHANGED <<selected, mode, qspibuf, bufsz>>
    BY <1>1, <1>5, StartReply
  <1>6. CASE c.cmd = "len" /\ PatchLen(c) /\ UNCHANGED <<selected, mode, qspibuf, bufsz>>
    BY <1>1, <1>6, LenReply
  <1>7. CASE c.cmd = "data" /\ Data(c) /\ UNCHANGED <<selected, qspibuf, bufsz>>
    BY <1>1, <1>7, DataReply
  <1>8. CASE c.cmd = "end" /\ End(c) /\ UNCHANGED <<svc, mode, qspibuf, bufsz>>
    BY <1>1, <1>8, EndReply
  <1>9. CASE /\ c.cmd = "abort" /\ svc' = [svc EXCEPT !.on = FALSE]
             /\ Told(c, <<"SRV_EXIT", "OK">>)
             /\ NoFault /\ UNCHANGED <<selected, mode, qspibuf, bufsz>>
    BY <1>1, <1>9, AbortReply
  <1> QED BY <1>3, <1>4, <1>5, <1>6, <1>7, <1>8, <1>9 DEF Serve

LEMMA FwupdateReply ==
  ASSUME TypeOK, Phases, InFwupdate, partial # <<>>
  PROVE  \E a : Replied(a)
  <1>1. mode = "fwupdate" BY DEF InFwupdate
  <1>2. CASE IsRequest /\ Serve(partial[1]) BY <1>1, <1>2, ServeReply
  <1>3. ASSUME mode' \in {mode, "prompt"}, NoFault, UNCHANGED <<qspibuf, bufsz, svc, selected>>
        PROVE  Stepped
    BY <1>1, <1>3, FaultTyped, ServedSame DEF Stepped, TypeOK
  <1>4. CASE Told(partial[1], <<"ERROR">>) /\ mode' \in {mode, "prompt"}
             /\ NoFault /\ UNCHANGED <<qspibuf, bufsz, svc, selected>>
    <2>1. "ERROR" \in Texts \ {"IMG_STARTED", "CMP_OK"} BY DEF Texts
    <2> QED BY <1>3, <1>4, <2>1, OneWord
  <1>5. CASE mode' = "prompt" /\ NoFault /\ UNCHANGED <<qspibuf, bufsz, svc, selected, toHost>>
    BY <1>3, <1>5, Silence
  <1> QED BY <1>2, <1>4, <1>5 DEF InFwupdate

(* A line read: it is answered only if it is not empty.                    *)
LEMMA LineReply ==
  ASSUME TypeOK, Phases, AtPrompt \/ InFwupdate
  PROVE  /\ \E a : Replied(a)
         /\ partial = <<>> => UNCHANGED <<svc, mode, selected, toHost>>
  <1>1. CASE partial = <<>>
    <2>1. UNCHANGED <<svc, mode, selected, toHost, qspibuf, bufsz, faults>> BY <1>1, EmptyLine
    <2>9. mode # "hang" BY DEF AtPrompt, InFwupdate
    <2>2. Stepped BY <2>1, <2>9, FaultTyped, ServedSame DEF Stepped, TypeOK
    <2> QED BY <2>1, <2>2, Silence
  <1>2. CASE partial # <<>> BY <1>2, PromptReply, FwupdateReply
  <1> QED BY <1>1, <1>2

-----------------------------------------------------------------------------
(* The invariant holds at first, and every step keeps it.                  *)

LEMMA InitKeeps == Init => IInv
  <1> SUFFICES ASSUME Init PROVE IInv OBVIOUS
  <1>1. TypeOK
    <2>1. svc \in Svcs BY DEF Init, Idle, Svcs
    <2>2. size \in Sizes /\ size \in Nat \ {0} BY UpdateAssumption DEF Init
    <2>3. /\ toDev \in Seq(Commands) /\ toHost \in Seq(Answers) /\ partial \in Seq(Commands)
      BY DEF Init
    <2>4. xfered \in 0..size /\ faults \in 0..MaxFaults BY <2>2, UpdateAssumption DEF Init
    <2> QED BY <2>1, <2>2, <2>3, <2>4 DEF Init, TypeOK, Svcs
  <1>2. Phases BY DEF Init, Phases, CliSteps, SuouSteps
  <1>3. AtHere /\ Hangs BY DEF Init, AtHere, Hangs, SuouSteps
  <1>4. First /\ AtPromptStill /\ OneByOne BY DEF Init, First, AtPromptStill, OneByOne, SuouSteps
  <1>5. Counting /\ Exact /\ OfThisFile /\ Ending /\ PassMeansSelected
    BY DEF Init, Counting, Astray, Exact, OfThisFile, Ending, PassMeansSelected
  <1> QED BY <1>1, <1>2, <1>3, <1>4, <1>5 DEF IInv

LEMMA Typed ==
  ASSUME TypeOK
  PROVE  /\ toDev \in Seq(Commands) /\ toHost \in Seq(Answers) /\ partial \in Seq(Commands)
         /\ DOMAIN toDev = 1..Len(toDev) /\ DOMAIN toHost = 1..Len(toHost)
         /\ DOMAIN partial = 1..Len(partial)
         /\ Len(toDev) \in Nat /\ Len(toHost) \in Nat /\ Len(partial) \in Nat
         /\ (toDev = <<>> <=> Len(toDev) = 0) /\ (toHost = <<>> <=> Len(toHost) = 0)
         /\ (partial = <<>> <=> Len(partial) = 0)
         /\ svc \in Svcs /\ size \in Nat \ {0} /\ xfered \in 0..size /\ chunksz \in {0, CHUNK}
         /\ svc.got \in Nat /\ svc.chunk \in Nat /\ svc.len \in Nat /\ svc.of \in Nat
         /\ CHUNK \in Nat \ {0} /\ misled \in BOOLEAN
  <1>1. /\ misled \in BOOLEAN
        /\ toDev \in Seq(Commands) /\ toHost \in Seq(Answers) /\ partial \in Seq(Commands)
        /\ svc \in Svcs /\ size \in Sizes /\ xfered \in 0..size /\ chunksz \in {0, CHUNK}
    BY DEF TypeOK, Svcs
  <1>2. \A S : \A s \in Seq(S) : DOMAIN s = 1..Len(s) /\ Len(s) \in Nat /\ (s = <<>> <=> Len(s) = 0)
    OBVIOUS
  <1>3. size \in Nat \ {0} /\ CHUNK \in Nat \ {0} BY <1>1, UpdateAssumption
  <1>4. svc.got \in Nat /\ svc.chunk \in Nat /\ svc.len \in Nat /\ svc.of \in Nat
    <2>1. Sizes \cup {0} \subseteq Nat BY UpdateAssumption
    <2>2. svc.got \in Nat /\ svc.chunk \in Nat /\ svc.len \in Nat /\ svc.of \in Sizes \cup {0}
      BY <1>1 DEF Svcs
    <2> QED BY <2>1, <2>2
  <1> QED BY <1>1, <1>2, <1>3, <1>4

(* The head of what the device has to read is gone, and nothing else.      *)
LEMMA Fewer ==
  ASSUME IInv, toDev # <<>>, toDev' = Tail(toDev), UNCHANGED <<hostVars, toHost, devVars, misled>>,
         faults' \in 0..MaxFaults
  PROVE  IInv'
  <1> DEFINE d == toDev
             e == toDev'
  <1>1. /\ e \in Seq(Commands) /\ Len(e) = Len(d) - 1 /\ DOMAIN e = 1..Len(d)-1 /\ ~Quiet
        /\ DOMAIN d = 1..Len(d) /\ Len(d) \in Nat \ {0}
        /\ \A i \in DOMAIN e : i + 1 \in DOMAIN d /\ e[i] = d[i + 1]
    BY TailItems, Typed DEF IInv, Quiet
  <1>2. \A S : Only(S, d) => Only(S, e) BY <1>1 DEF Only
  <1>3. OneLine(partial, d) => OneLine(partial, e)
    <2> SUFFICES ASSUME OneLine(partial, d), NEW i \in DOMAIN e, e[i] = NL
                 PROVE  i = Len(e) \/ (partial = <<>> /\ \A j \in 1..i : e[j] = NL)
      BY DEF OneLine
    <2>1. i + 1 \in DOMAIN d /\ d[i + 1] = NL BY <1>1
    <2>2. CASE i + 1 = Len(d) BY <1>1, <2>2
    <2>3. CASE partial = <<>> /\ \A j \in 1..i+1 : d[j] = NL
      <3>1. \A j \in 1..i : j \in DOMAIN e /\ j + 1 \in 1..i+1 BY <1>1
      <3> QED BY <1>1, <2>3, <3>1
    <2> QED BY <2>1, <2>2, <2>3 DEF OneLine
  <1>4. UNCHANGED <<step, wait, size, xfered, chunksz, result, toHost, mode, partial, qspibuf, bufsz,
                    svc, selected, misled>>
    BY DEF hostVars, devVars
  <1> HIDE DEF d, e
  <1>5. TypeOK' BY <1>1, <1>4 DEF IInv, TypeOK, e
  <1>6. Phases' BY <1>4 DEF IInv, Phases
  <1>7. LenLast(partial, d) => LenLast(partial, e) BY <1>1 DEF LenLast
  <1>8. AtHere' /\ Hangs'
    <2>1. FromHere(partial) /\ FromHere(toDev) => FromHere(partial)' /\ FromHere(toDev)'
      BY <1>1, <1>4 DEF FromHere, Altered, Requested, Request, Block, d, e
    <2>2. AtHere' BY <1>4, <2>1 DEF IInv, AtHere, Requested, Request, Block, Wanted
    <2>3. ~(mode = "hang" /\ step \in {"bulk", "last"} /\ ~(misled /\ step = "bulk"))
      BY <1>1 DEF IInv, Hangs
    <2> QED BY <1>4, <2>2, <2>3 DEF IInv, Hangs, Silent
  <1>9. /\ (\A i \in DOMAIN d : d[i] = NL) => (\A i \in DOMAIN e : e[i] = NL)
        /\ (\A i \in DOMAIN d : i < Len(d) => d[i] = NL) => (\A i \in DOMAIN e : i < Len(e) => e[i] = NL)
    BY <1>1
  <1>10. d # <<>> BY DEF d
  <1>11. First'
    BY <1>1, <1>2, <1>3, <1>4, <1>9, <1>10 DEF IInv, First, Own, Quiet, d, e
  <1>12. AtPromptStill'
    BY <1>1, <1>3, <1>4, <1>9, <1>10 DEF IInv, AtPromptStill, Quiet, Silent, d, e
  <1>13. OneByOne'
    BY <1>1, <1>2, <1>3, <1>4, <1>7, <1>10
       DEF IInv, OneByOne, Quiet, Silent, Astray, Altered, Requested, Request, Block, Wanted, d, e
  <1>14. DataSent(partial) /\ DataSent(toDev) => DataSent(partial)' /\ DataSent(toDev)'
    BY <1>1, <1>4 DEF DataSent, d, e
  <1>15. Counting' BY <1>4, <1>14 DEF IInv, Counting, Silent, Astray
  <1>16. Exact' /\ OfThisFile'
    <2>1. LenSent(partial) /\ LenSent(toDev) => LenSent(partial)' /\ LenSent(toDev)'
      BY <1>1, <1>4 DEF LenSent, d, e
    <2> QED BY <1>1, <1>4, <2>1 DEF IInv, Exact, OfThisFile, Silent
  <1>17. Ending' /\ PassMeansSelected' BY <1>2, <1>4 DEF IInv, Ending, PassMeansSelected, Only, d, e
  <1> QED BY <1>5, <1>6, <1>8, <1>11, <1>12, <1>13, <1>15, <1>16, <1>17 DEF IInv

LEMMA RestartKeeps ==
  ASSUME IInv, Restarted, toDev' = <<>>, UNCHANGED <<hostVars, toHost, misled>>, faults' \in 0..MaxFaults
  PROVE  IInv'
  <1>1. /\ mode' = "prompt" /\ partial' = <<>> /\ qspibuf' = FALSE /\ bufsz' = 0 /\ svc' = Idle
        /\ UNCHANGED selected /\ toDev' = <<>>
        /\ UNCHANGED <<step, wait, size, xfered, chunksz, result, toHost, misled>>
    BY DEF Restarted, hostVars
  <1>2. /\ ~Idle.on /\ ~Idle.cbs /\ Idle.chunk = 0 /\ Idle.got = 0 /\ Idle \in Svcs
    BY DEF Idle, Svcs
  <1>3. <<>> \in Seq(Commands) /\ DOMAIN <<>> = {} /\ Len(<<>>) = 0 OBVIOUS
  <1>4. TypeOK'
    <2>1. toDev' \in Seq(Commands) /\ partial' \in Seq(Commands) /\ svc' \in Svcs
      BY <1>1, <1>2, <1>3
    <2> QED BY <1>1, <2>1 DEF IInv, TypeOK, Svcs
  <1>5. Phases' BY <1>1 DEF IInv, Phases
  <1>6. AtHere' /\ Hangs'
    <2>1. UNCHANGED <<Requested, Wanted>> BY <1>1 DEF Requested, Request, Block, Wanted
    <2> QED BY <1>1, <1>3, <2>1 DEF IInv, AtHere, FromHere, Hangs
  <1>7. OneLine(partial', toDev') /\ LenLast(partial', toDev') /\ Quiet' /\ \A S : Only(S, toDev') /\ Only(S, partial')
    BY <1>1, <1>3 DEF OneLine, LenLast, Quiet, Only
  <1>8. First' BY <1>1, <1>3, <1>7 DEF IInv, First, Own
  <1>9. AtPromptStill' BY <1>1, <1>3, <1>7 DEF IInv, AtPromptStill, Silent
  <1>10. OneByOne'
    BY <1>1, <1>7 DEF IInv, OneByOne, Silent, Astray, Altered, Requested, Request, Block, Wanted
  <1>11. Counting' BY <1>1, <1>2, <1>3 DEF IInv, Counting, DataSent, Silent, Astray
  <1>12. Exact' BY <1>1, <1>2, <1>3 DEF IInv, Exact, Silent, LenSent
  <1>13. OfThisFile' BY <1>1, <1>2 DEF OfThisFile
  <1>14. Ending' /\ PassMeansSelected' BY <1>1, <1>7 DEF IInv, Ending, PassMeansSelected
  <1> QED BY <1>4, <1>5, <1>6, <1>8, <1>9, <1>10, <1>11, <1>12, <1>13, <1>14 DEF IInv

LEMMA PowerLossKeeps == IInv /\ PowerLoss => IInv'
  BY FaultTyped, RestartKeeps DEF PowerLoss, IInv

\* A command at the head is damaged: it is another one, has another number, or its data
\* are not as they were sent.
LEMMA AlteredKeeps ==
  ASSUME IInv, toDev # <<>>, NEW h \in Commands, toDev' = [toDev EXCEPT ![1] = h],
         Head(toDev) # NL, h # NL,
         \/ h.cmd = "junk"
         \/ h.cmd = Head(toDev).cmd /\ h.n = Head(toDev).n /\ h.of = Head(toDev).of
         \/ h.cmd \in MemDev /\ Head(toDev).cmd \in MemDev
         \/ h.cmd = Head(toDev).cmd /\ h.cmd \in {"alloc", "len"},
         h.cmd # "junk" => h.at = Head(toDev).at,
         h.cmd = "len" /\ h.n # Head(toDev).n => misled',
         misled' \in BOOLEAN, misled => misled', misled' => misled \/ h.cmd = "len",
         UNCHANGED <<hostVars, toHost, devVars>>, faults' \in 0..MaxFaults
  PROVE  IInv'
  <1> DEFINE d == toDev
             e == toDev'
  <1>1. /\ e \in Seq(Commands) /\ Len(e) = Len(d) /\ DOMAIN e = 1..Len(d) /\ ~Quiet
        /\ DOMAIN d = 1..Len(d) /\ Len(d) \in Nat \ {0} /\ Head(d) = d[1] /\ e[1] = h
        /\ \A i \in DOMAIN e : i # 1 => e[i] = d[i]
    BY TailItems, Typed DEF IInv, Quiet
  <1>2. ASSUME NEW S, "junk" \in S, MemDev \subseteq S \/ MemDev \cap S = {}, Only(S, d)
        PROVE  Only(S, e)
    BY <1>1, <1>2 DEF Only
  <1>3. \A i \in DOMAIN e : e[i] = NL <=> d[i] = NL BY <1>1
  <1>4. OneLine(partial, d) => OneLine(partial, e)
    <2>1. \A i \in DOMAIN d : \A j \in 1..i : j \in DOMAIN d BY <1>1
    <2> QED BY <1>1, <1>3, <2>1 DEF OneLine
  <1>5. UNCHANGED <<step, wait, size, xfered, chunksz, result, toHost, mode, partial, qspibuf, bufsz,
                    svc, selected>>
    BY DEF hostVars, devVars
  <1>6. ~(\A i \in DOMAIN d : d[i] = NL) BY <1>1
  <1>7. (\A i \in DOMAIN d : i < Len(d) => d[i] = NL) => (\A i \in DOMAIN e : i < Len(e) => e[i] = NL)
    BY <1>1, <1>3
  <1>8. /\ LenLast(partial, d) => LenLast(partial, e)
        /\ misled' \in BOOLEAN /\ (misled => misled')
    <2>1. \A i \in DOMAIN e : e[i].cmd = "len" => d[i].cmd = "len" BY <1>1 DEF MemDev
    <2>2. LenLast(partial, d) => LenLast(partial, e)
      <3> HIDE DEF d, e
      <3> QED BY <1>1, <2>1 DEF LenLast
    <2> QED BY <2>2
  <1>9. DataSent(toDev) /\ DataSent(partial) => DataSent(toDev)' /\ DataSent(partial)'
    <2>1. \A i \in DOMAIN e : e[i].cmd = "data" =>
            d[i].cmd = "data" /\ e[i].of = d[i].of /\ e[i].n = d[i].n
      BY <1>1 DEF MemDev
    <2> HIDE DEF d, e
    <2> QED BY <1>1, <1>5, <1>8, <2>1 DEF DataSent, d, e
  <1>10. d # <<>> OBVIOUS
  <1>11. e[1].cmd = "len" => d[1].cmd = "len" BY <1>1 DEF MemDev
  <1>12. e[1].cmd = "len" /\ ~misled' => e[1].n = d[1].n BY <1>1
  <1>13. misled' /\ ~misled => d[1].cmd = "len" BY <1>1, <1>11
  <1>14. e[1].cmd # "junk" => e[1].at = d[1].at BY <1>1
  <1>15. e[1].cmd \notin {"junk", d[1].cmd} => e[1].cmd \in MemDev /\ d[1].cmd \in MemDev BY <1>1
  <1> HIDE DEF d, e
  <1>16. TypeOK' BY <1>1, <1>5, <1>8 DEF IInv, TypeOK, e
  <1>17. Phases' BY <1>5 DEF IInv, Phases
  <1>18. First'
    <2>1. Only({"junk", "getsuouartbuffsz"}, d) => Only({"junk", "getsuouartbuffsz"}, e)
      BY <1>2 DEF MemDev
    <2> QED BY <1>1, <1>4, <1>5, <1>6, <1>7, <1>10, <2>1 DEF IInv, First, Own, Quiet, d, e
  <1>19. AtPromptStill'
    BY <1>1, <1>4, <1>5, <1>6, <1>7, <1>10 DEF IInv, AtPromptStill, Quiet, Silent, d, e
  <1>20. UNCHANGED <<Requested, Altered, Wanted>>
    BY <1>5 DEF Requested, Altered, Request, Block, Wanted
  <1>21. ASSUME step \in SuouSteps \ {"end"}
         PROVE  /\ Altered \cap {"nl", "junk"} = {}
                /\ (MemDev \subseteq Altered \/ MemDev \cap Altered = {})
    <2>1. Requested = "start" \/ Requested \in {"status", "len", "data", "info"}
      BY <1>21 DEF Requested, Request, Cmd, SuouSteps
    <2> QED BY <2>1 DEF Altered, MemDev
  <1>22. OneByOne'
    <2> SUFFICES ASSUME step \in SuouSteps \ {"end"} PROVE OneByOne' BY <1>5 DEF OneByOne
    <2>1. (wait = "answer" /\ step # "started") \/ (wait = "send" /\ Astray)
      BY <1>1 DEF IInv, OneByOne, Phases
    <2>2. CASE wait = "send" /\ Astray
      <3>1. Only({"junk", "data"}, e) BY <1>2, <2>2 DEF IInv, OneByOne, MemDev, d
      <3>2. Astray' /\ misled' BY <1>5, <1>8, <2>2 DEF Astray
      <3>3. Only({"junk", "data"}, toDev)' /\ Only({"junk", "data"}, partial)'
        BY <1>5, <2>2, <3>1 DEF IInv, OneByOne, Only, e
      <3>4. Silent("OK")' /\ step # "start" BY <1>5, <2>2 DEF IInv, OneByOne, Silent, Astray
      <3>5. step # "started" BY <2>2 DEF Astray
      <3> QED BY <1>5, <2>2, <3>2, <3>3, <3>4, <3>5 DEF IInv, OneByOne
    <2>3. CASE wait = "answer" /\ step # "started"
      <3> DEFINE ours == {"junk"} \cup Altered \cup (IF Astray THEN {"data"} ELSE {})
      <3>1. Only(ours, partial) /\ Only(ours, e)
        <4>1. Only(ours, partial) /\ Only(ours, d) BY <2>3 DEF IInv, OneByOne, d
        <4>2. MemDev \subseteq ours \/ MemDev \cap ours = {} BY <1>21 DEF MemDev
        <4> QED BY <1>2, <4>1, <4>2
      <3>2. Astray => Astray' BY <1>5, <1>8 DEF Astray
      <3>3. LET now == {"junk"} \cup Altered' \cup (IF Astray' THEN {"data"} ELSE {})
            IN  Only(now, partial') /\ Only(now, toDev')
        BY <1>5, <1>20, <3>1, <3>2 DEF Only, e
      <3>4. ~Astray' => OneLine(partial', toDev')
        BY <1>4, <1>5, <2>3, <3>2 DEF IInv, OneByOne, d, e
      <3>5. step = "lastlen" => LenLast(partial', toDev')
        BY <1>5, <1>8, <2>3 DEF IInv, OneByOne, d, e
      <3>6. \A i \in DOMAIN toHost :
              toHost[i].text # "OK" /\ (toHost[i].text = Wanted => toHost[i].re = Requested /\ Astray)
        BY <1>1, <2>3 DEF IInv, OneByOne
      <3> QED BY <1>5, <1>20, <2>3, <3>2, <3>3, <3>4, <3>5, <3>6 DEF OneByOne
    <2> QED BY <2>1, <2>2, <2>3
  <1>23. AtHere'
    <2>1. ASSUME FromHere(toDev), FromHere(partial), step \in SuouSteps \ {"end"}
          PROVE  FromHere(toDev)' /\ FromHere(partial)'
      <3>1. \A i \in DOMAIN e : e[i].cmd \in Altered => d[i].cmd \in Altered /\ e[i].at = d[i].at
        BY <1>1, <1>14, <1>15, <1>21, <2>1
      <3> QED BY <1>1, <1>5, <1>20, <2>1, <3>1 DEF FromHere, d, e
    <2> QED BY <1>5, <1>8, <1>20, <2>1 DEF IInv, AtHere
  <1>24. Counting'
    <2>0. ASSUME step = "bulk", ~misled, misled' PROVE FALSE
      <3>1. wait = "answer" BY <1>1, <2>0 DEF IInv, OneByOne, Phases, SuouSteps, Astray
      <3>2. Only({"junk", "data"}, d)
        BY <2>0, <3>1 DEF IInv, OneByOne, Altered, Requested, Request, Cmd, SuouSteps, Astray, Only, d
      <3>3. 1 \in DOMAIN d BY <1>1
      <3>4. d[1] = NL \/ d[1].cmd \in {"junk", "data"} BY <3>2, <3>3 DEF Only
      <3>5. NL.cmd = "nl" BY DEF NL, Plain, Cmd
      <3> QED BY <1>13, <2>0, <3>4, <3>5
    <2>1. Astray' => Astray \/ (step = "lastlen" /\ ~misled) BY <1>5, <2>0 DEF Astray
    <2>2. step = "lastlen" /\ ~misled /\ misled' => DataSent(partial)' /\ DataSent(toDev)'
      <3> SUFFICES ASSUME step = "lastlen", ~misled, misled' PROVE DataSent(partial)' /\ DataSent(toDev)'
        OBVIOUS
      <3>1. wait = "answer" BY <1>1 DEF IInv, OneByOne, Phases, SuouSteps, Astray
      <3>2. Only({"junk", "len"}, partial) /\ Only({"junk", "len"}, d)
        BY <3>1 DEF IInv, OneByOne, Altered, Requested, Request, Cmd, SuouSteps, Astray, Only, d
      <3>3. Only({"junk", "len"}, e) BY <1>2, <3>2 DEF MemDev
      <3>4. NL.cmd # "data" BY DEF NL, Plain, Cmd
      <3>5. \A i \in DOMAIN partial : partial[i].cmd # "data" BY <3>2, <3>4 DEF Only
      <3>6. \A i \in DOMAIN e : e[i].cmd # "data" BY <3>3, <3>4 DEF Only
      <3>7. DataSent(partial)'
        <4>1. \A i \in DOMAIN partial' : partial'[i].cmd # "data" BY <1>5, <3>5
        <4> QED BY <4>1 DEF DataSent
      <3>8. DataSent(toDev)'
        <4>1. \A i \in DOMAIN toDev' : toDev'[i].cmd # "data" BY <3>6 DEF e
        <4> QED BY <4>1 DEF DataSent
      <3> QED BY <3>7, <3>8
    <2>3. (step \in {"bulk", "last"} /\ wait = "answer") \/ Astray' =>
            DataSent(partial)' /\ DataSent(toDev)'
      <3>1. (step \in {"bulk", "last"} /\ wait = "answer") \/ Astray => DataSent(partial) /\ DataSent(toDev)
        BY DEF IInv, Counting
      <3>2. Astray' => misled' BY DEF Astray
      <3> QED BY <1>9, <2>1, <2>2, <3>1, <3>2
    <2>4. ~misled' => ~misled BY <1>8
    <2> QED BY <1>5, <2>3, <2>4 DEF IInv, Counting, Silent
  <1>25. Exact' /\ OfThisFile'
    <2>1. ~misled' /\ LenSent(partial) /\ LenSent(toDev) => LenSent(partial)' /\ LenSent(toDev)'
      BY <1>1, <1>5, <1>11, <1>12 DEF LenSent, d, e
    <2> QED BY <1>1, <1>5, <1>8, <2>1 DEF IInv, Exact, OfThisFile, Silent
  <1>26. Ending' /\ PassMeansSelected'
    BY <1>2, <1>5 DEF IInv, Ending, PassMeansSelected, Only, d, e
  <1>27. Hangs'
    <2>1. mode = "hang" => ~(step \in {"bulk", "last"} /\ ~(misled /\ step = "bulk"))
      BY <1>1 DEF IInv, Hangs
    <2> QED BY <1>5, <1>8, <2>1 DEF IInv, Hangs, Silent
  <1> QED BY <1>16, <1>17, <1>18, <1>19, <1>22, <1>23, <1>24, <1>25, <1>26, <1>27 DEF IInv

LEMMA DamageToDevKeeps == IInv /\ DamageToDev => IInv'
  <1> SUFFICES ASSUME IInv, DamageToDev PROVE IInv' OBVIOUS
  <1> DEFINE h == toDev[1]
  <1>1. /\ toDev # <<>> /\ faults' \in 0..MaxFaults /\ UNCHANGED <<hostVars, toHost, devVars>>
        /\ misled \in BOOLEAN
    BY FaultTyped, Typed DEF DamageToDev, IInv
  <1>2. Head(toDev) = h /\ h \in Commands BY <1>1, TailItems, Typed DEF IInv
  <1>3. CASE toDev' = Tail(toDev) /\ UNCHANGED misled BY <1>1, <1>3, Fewer
  <1>4. CASE h # NL /\ toDev' = [toDev EXCEPT ![1] = Plain("junk")] /\ UNCHANGED misled
    <2>1. /\ Plain("junk") \in Commands /\ Plain("junk").cmd = "junk" /\ Plain("junk") # NL
      BY DEF Plain, Cmd, NL, Commands, Cmds
    <2> QED BY <1>1, <1>2, <1>4, <2>1, AlteredKeeps
  <1>5. NL.cmd = "nl" BY DEF NL, Plain, Cmd
  <1>6. CASE h.cmd = "data" /\ toDev' = [toDev EXCEPT ![1].ok = FALSE] /\ UNCHANGED misled
    <2> DEFINE bad == [h EXCEPT !.ok = FALSE]
    <2>1. /\ bad \in Commands /\ bad.cmd = "data" /\ bad.n = h.n /\ bad.of = h.of /\ bad.at = h.at
          /\ h # NL /\ bad # NL
      BY <1>2, <1>5, <1>6 DEF Commands
    <2>2. toDev' = [toDev EXCEPT ![1] = bad] BY <1>6
    <2> HIDE DEF bad
    <2> QED BY <1>1, <1>2, <1>6, <2>1, <2>2, AlteredKeeps
  <1>7. ASSUME NEW m \in MemDev, h.cmd \in MemDev, toDev' = [toDev EXCEPT ![1].cmd = m],
               UNCHANGED misled
        PROVE  IInv'
    <2> DEFINE other == [h EXCEPT !.cmd = m]
    <2>1. /\ other \in Commands /\ other.cmd = m /\ other.n = h.n /\ other.at = h.at
          /\ h # NL /\ other # NL /\ m # "len" /\ m # "junk"
      BY <1>2, <1>5, <1>7 DEF Commands, Cmds, SuouCmds, MemDev
    <2>2. toDev' = [toDev EXCEPT ![1] = other] BY <1>7
    <2> HIDE DEF other
    <2> QED BY <1>1, <1>2, <1>7, <2>1, <2>2, AlteredKeeps
  <1>8. ASSUME NEW k \in Numbers, h.cmd \in {"alloc", "len"}, toDev' = [toDev EXCEPT ![1].n = k],
               misled' = (misled \/ h.cmd = "len")
        PROVE  IInv'
    <2> DEFINE other == [h EXCEPT !.n = k]
    <2>0. k \in Nat BY UpdateAssumption
    <2>1. /\ other \in Commands /\ other.cmd = h.cmd /\ other.at = h.at /\ h # NL /\ other # NL
      BY <1>2, <1>5, <1>8, <2>0 DEF Commands
    <2>2. toDev' = [toDev EXCEPT ![1] = other] BY <1>8
    <2> HIDE DEF other
    <2>3. misled' \in BOOLEAN /\ (misled => misled') /\ (misled' => misled \/ other.cmd = "len")
      BY <1>8, <2>1
    <2> QED BY <1>1, <1>2, <1>8, <2>1, <2>2, <2>3, AlteredKeeps
  <1> QED BY <1>2, <1>3, <1>4, <1>6, <1>7, <1>8 DEF DamageToDev

(* The head of what the host has to read is gone, or says less.            *)
LEMMA LessHeard ==
  ASSUME IInv, toHost # <<>>, NEW k \in {0, 1}, toHost' \in Seq(Answers),
         Len(toHost') = Len(toHost) - k,
         \A i \in DOMAIN toHost' :
           /\ toHost'[i].text = toHost[i + k].text \/ toHost'[i].text = "junk"
           /\ toHost'[i].re = toHost[i + k].re /\ toHost'[i].at = toHost[i + k].at
           /\ toHost'[i].n = toHost[i + k].n \/ toHost'[i].n = 0,
         UNCHANGED <<hostVars, toDev, devVars, misled>>, faults' \in 0..MaxFaults
  PROVE  IInv'
  <1> DEFINE d == toHost
             e == toHost'
  <1>1. /\ UNCHANGED <<step, wait, size, xfered, chunksz, result, toDev, mode, partial, qspibuf, bufsz,
                       svc, selected, misled>>
        /\ e \in Seq(Answers) /\ faults' \in 0..MaxFaults /\ d # <<>>
    BY DEF hostVars, devVars
  <1>2. /\ DOMAIN e = 1..Len(e) /\ DOMAIN d = 1..Len(d) /\ Len(d) \in Nat \ {0} /\ Len(e) = Len(d) - k
    BY <1>1, Typed DEF IInv
  <1>3. \A i \in DOMAIN e :
          /\ i + k \in DOMAIN d
          /\ e[i].text = d[i + k].text \/ e[i].text = "junk"
          /\ e[i].re = d[i + k].re /\ e[i].at = d[i + k].at
          /\ e[i].n = d[i + k].n \/ e[i].n = 0
          /\ i + k = Len(d) => i = Len(e)
          /\ i + k = 1 => i = 1
    BY <1>2
  <1> HIDE DEF d, e
  <1>4. \A x : x # "junk" /\ Silent(x) => Silent(x)' BY <1>3 DEF Silent, d, e
  <1>5. TypeOK' BY <1>1 DEF IInv, TypeOK, e
  <1>6. Phases' BY <1>1 DEF IInv, Phases, d
  <1>7. AtHere' /\ Hangs'
    <2>1. \A i \in DOMAIN e : e[i].text \in {"OK", Wanted} => e[i].text = d[i + k].text
      BY <1>3 DEF Wanted
    <2>2. UNCHANGED <<Altered, Requested, Wanted>>
      BY <1>1 DEF Altered, Requested, Request, Block, Wanted
    <2>3. AtHere' BY <1>1, <1>3, <2>1, <2>2 DEF IInv, AtHere, FromHere, d, e
    <2> QED BY <1>1, <1>4, <2>3 DEF IInv, Hangs, Quiet
  <1>8. First' BY <1>1, <1>3 DEF IInv, First, Own, Quiet, d, e
  <1>9. AtPromptStill' BY <1>1, <1>3, <1>4 DEF IInv, AtPromptStill, Quiet, d, e
  <1>10. Wanted # "junk" BY DEF Wanted
  <1>11. OneByOne'
    BY <1>1, <1>3, <1>4, <1>10 DEF IInv, OneByOne, Quiet, Astray, Altered, Requested, Request, Block, Wanted, d, e
  <1>12. Counting' BY <1>1, <1>4 DEF IInv, Counting, DataSent, Astray
  <1>13. Exact'
    <2>1. \A i, j \in DOMAIN e : i + k = j + k => i = j BY <1>2
    <2>2. \A i \in DOMAIN e : e[i].text = "CMP_OK" => d[i + k].text = "CMP_OK" BY <1>3
    <2> QED BY <1>1, <1>3, <1>4, <2>1, <2>2 DEF IInv, Exact, LenSent, Quiet, d, e
  <1>14. OfThisFile' BY <1>1 DEF IInv, OfThisFile
  <1>15. Ending' BY <1>1, <1>3 DEF IInv, Ending, Only, d, e
  <1>16. PassMeansSelected' BY <1>1 DEF IInv, PassMeansSelected
  <1> QED BY <1>5, <1>6, <1>7, <1>8, <1>9, <1>11, <1>12, <1>13, <1>14, <1>15, <1>16 DEF IInv

LEMMA AnswerLost ==
  ASSUME IInv, toHost # <<>>, toHost' = Tail(toHost), UNCHANGED <<hostVars, toDev, devVars, misled>>,
         faults' \in 0..MaxFaults
  PROVE  IInv'
  <1>1. /\ toHost' \in Seq(Answers) /\ Len(toHost') = Len(toHost) - 1
        /\ \A i \in DOMAIN toHost' : toHost'[i] = toHost[i + 1]
    BY TailItems, Typed DEF IInv
  <1> QED BY <1>1, LessHeard

LEMMA DamageToHostKeeps == IInv /\ DamageToHost => IInv'
  <1> SUFFICES ASSUME IInv, DamageToHost PROVE IInv' OBVIOUS
  <1> DEFINE h == toHost[1]
             junk == [h EXCEPT !.text = "junk"]
             zero == [h EXCEPT !.n = 0]
  <1>1. /\ toHost # <<>> /\ faults' \in 0..MaxFaults /\ UNCHANGED <<hostVars, toDev, devVars, misled>>
    BY FaultTyped DEF DamageToHost, IInv
  <1>2. /\ h \in Answers /\ toHost \in Seq(Answers) /\ DOMAIN toHost = 1..Len(toHost)
        /\ Len(toHost) \in Nat \ {0}
    BY <1>1, TailItems, Typed DEF IInv
  <1>3. CASE toHost' = Tail(toHost) BY <1>1, <1>3, AnswerLost
  <1>4. ASSUME NEW g \in Answers, toHost' = [toHost EXCEPT ![1] = g],
               g.text = h.text \/ g.text = "junk", g.re = h.re, g.at = h.at, g.n = h.n \/ g.n = 0
        PROVE  IInv'
    <2>1. /\ toHost' \in Seq(Answers) /\ Len(toHost') = Len(toHost) - 0
          /\ \A i \in DOMAIN toHost' :
               (i = 1 /\ toHost'[i] = g) \/ (i + 0 = i /\ toHost'[i] = toHost[i + 0])
      BY <1>2, <1>4
    <2> HIDE DEF h
    <2>2. \A i \in DOMAIN toHost' :
            /\ toHost'[i].text = toHost[i + 0].text \/ toHost'[i].text = "junk"
            /\ toHost'[i].re = toHost[i + 0].re /\ toHost'[i].at = toHost[i + 0].at
            /\ toHost'[i].n = toHost[i + 0].n \/ toHost'[i].n = 0
      BY <1>4, <2>1 DEF h
    <2> QED BY <1>1, <2>1, <2>2, LessHeard
  <1>5. CASE toHost' = [toHost EXCEPT ![1].text = "junk"]
    <2>1. junk \in Answers /\ junk.text = "junk" /\ junk.re = h.re /\ junk.at = h.at /\ junk.n = h.n
      BY <1>2 DEF Answers, Texts
    <2>2. toHost' = [toHost EXCEPT ![1] = junk] BY <1>5
    <2> HIDE DEF junk
    <2> QED BY <1>4, <2>1, <2>2
  <1>6. CASE toHost' = [toHost EXCEPT ![1].n = 0]
    <2>1. zero \in Answers /\ zero.text = h.text /\ zero.re = h.re /\ zero.at = h.at /\ zero.n = 0
      BY <1>2 DEF Answers
    <2>2. toHost' = [toHost EXCEPT ![1] = zero] BY <1>6
    <2> HIDE DEF zero
    <2> QED BY <1>4, <2>1, <2>2
  <1> QED BY <1>3, <1>5, <1>6 DEF DamageToHost

LEMMA PassOverKeeps == IInv /\ PassOver /\ UNCHANGED misled => IInv'
  <1> SUFFICES ASSUME IInv, PassOver, UNCHANGED misled PROVE IInv' OBVIOUS
  <1>1. faults' \in 0..MaxFaults BY DEF PassOver, IInv, TypeOK
  <1> QED BY <1>1, AnswerLost DEF PassOver

LEMMA StoreKeeps ==
  ASSUME IInv, toDev # <<>>, toDev' = Tail(toDev), Store(Head(toDev)),
         UNCHANGED <<hostVars, misled>>
  PROVE  IInv'
  <1> DEFINE d == toDev
             e == toDev'
             p == partial
             q == partial'
             h == Head(toDev)
             echo == Say("echo", 0, h)
  <1>1. /\ e \in Seq(Commands) /\ Len(e) = Len(d) - 1 /\ DOMAIN e = 1..Len(d)-1 /\ ~Quiet
        /\ DOMAIN d = 1..Len(d) /\ Len(d) \in Nat \ {0} /\ h = d[1] /\ h \in Commands
        /\ 1 \in DOMAIN d /\ d # <<>>
        /\ \A i \in DOMAIN e : i + 1 \in DOMAIN d /\ e[i] = d[i + 1]
    BY TailItems, Typed DEF IInv, Quiet
  <1>2. /\ UNCHANGED <<step, wait, size, xfered, chunksz, result, mode, qspibuf, bufsz, svc, selected,
                       misled, faults>>
        /\ h # NL /\ mode \notin Stuck
    BY DEF Store, hostVars
  <1>3. /\ q \in Seq(Commands) /\ q # <<>> /\ DOMAIN q = 1..Len(q) /\ Len(q) \in Nat \ {0}
        /\ Len(q) = 1 => p = <<>> /\ q[1] = h
        /\ \A i \in DOMAIN q : (i \in DOMAIN p /\ q[i] = p[i]) \/ q[i] = h
    <2>1. /\ p \in Seq(Commands) /\ Len(p) \in Nat /\ (p = <<>> <=> Len(p) = 0)
          /\ DOMAIN p = 1..Len(p)
      BY Typed DEF IInv
    <2>2. CASE Len(p) < 2
      <3>1. q = Append(p, h) BY <2>2 DEF Store
      <3> HIDE DEF h, p, q
      <3> QED BY <1>1, <2>1, <3>1, AppendItems
    <2>3. CASE ~(Len(p) < 2)
      <3>1. q = p BY <2>3 DEF Store
      <3>2. \A n \in Nat : ~(n < 2) => n \in Nat \ {0} /\ n # 1 OBVIOUS
      <3> HIDE DEF h, p, q
      <3> QED BY ONLY <2>1, <2>3, <3>1, <3>2
    <2> QED BY <2>2, <2>3
  <1>4. echo \in Answers /\ echo.text = "echo" /\ echo.n = 0
    BY <1>1 DEF Say, Answers, Texts, Commands
  <1>5. /\ toHost' \in Seq(Answers) /\ (step = "closed" => toHost' = <<>>)
        /\ DOMAIN toHost' = 1..Len(toHost')
        /\ \A i \in DOMAIN toHost' :
             (i \in DOMAIN toHost /\ toHost'[i] = toHost[i]) \/ toHost'[i] = echo
    <2>1. toHost \in Seq(Answers) /\ (step = "closed" => toHost = <<>>) BY Typed DEF IInv, Phases
    <2>2. [i \in 1..Len(<<"echo">>) |-> Say(<<"echo">>[i], 0, h)] = <<echo>> OBVIOUS
    <2>3. toHost' = toHost \/ toHost' = IF step = "closed" THEN <<>> ELSE toHost \o <<echo>>
      BY <2>2 DEF Store, Told, Answer
    <2> HIDE DEF echo
    <2>4. toHost \o <<echo>> = Append(toHost, echo) BY <1>4, <2>1
    <2>5. CASE toHost' = toHost BY <2>1, <2>5
    <2>6. CASE toHost' = <<>> BY <2>6
    <2>7. CASE step # "closed" /\ toHost' = Append(toHost, echo)
      <3>1. \A i \in DOMAIN Append(toHost, echo) : i \in DOMAIN toHost \/ i = Len(toHost) + 1
        BY <1>4, <2>1
      <3> QED BY <1>4, <2>1, <2>7, <3>1, AppendItems
    <2> QED BY <2>3, <2>4, <2>5, <2>6, <2>7
  <1>6. \A S : Only(S, d) => Only(S, e) BY <1>1 DEF Only
  <1>7. \A S : Only(S, d) /\ Only(S, p) => Only(S, q) BY <1>1, <1>2, <1>3 DEF Only
  <1>8. ASSUME NEW S, Only(S, d) PROVE h.cmd \in S BY <1>1, <1>2, <1>8 DEF Only
  <1>9. OneLine(p, d) => OneLine(q, e)
    <2> SUFFICES ASSUME OneLine(p, d), NEW i \in DOMAIN e, e[i] = NL PROVE i = Len(e)
      BY DEF OneLine
    <2>1. i + 1 \in DOMAIN d /\ d[i + 1] = NL /\ 1 \in 1..i+1 BY <1>1
    <2> QED BY <1>1, <1>2, <2>1 DEF OneLine
  <1>10. (\A i \in DOMAIN d : i < Len(d) => d[i] = NL) => e = <<>>
    <2>1. ASSUME \A i \in DOMAIN d : i < Len(d) => d[i] = NL PROVE Len(e) = 0 BY <1>1, <1>2, <2>1
    <2> QED BY <1>1, <2>1
  <1>11. ~(\A i \in DOMAIN d : d[i] = NL) BY <1>1, <1>2
  <1>12. \A x : x # "echo" /\ Silent(x) => Silent(x)' BY <1>4, <1>5 DEF Silent
  <1> HIDE DEF d, e, p, q, h, echo
  <1>13. TypeOK' BY <1>1, <1>2, <1>3, <1>5 DEF IInv, TypeOK, e, q
  <1>14. Phases' BY <1>2, <1>5 DEF IInv, Phases
  <1>26. UNCHANGED <<Astray, Altered, Requested, Wanted>>
    BY <1>2 DEF Astray, Altered, Requested, Request, Block, Wanted
  <1>15. AtHere' /\ Hangs'
    <2>1. FromHere(p) /\ FromHere(d) => FromHere(partial)' /\ FromHere(toDev)'
      BY <1>1, <1>2, <1>3, <1>26 DEF FromHere, q, e
    <2>2. Wanted # "echo" BY DEF Wanted
    <2>3. AtHere' BY <1>2, <1>4, <1>5, <1>26, <2>1, <2>2 DEF IInv, AtHere, d, p
    <2> QED BY <1>2, <2>3 DEF Hangs, Stuck
  <1>16. First'
    <2> SUFFICES ASSUME step = "getsuouartbuffsz" PROVE First' BY <1>2 DEF First
    <2>1. Own' BY <1>3, <1>8 DEF IInv, First, Own, d, q
    <2>2. wait \notin {"knock", "type"} BY <1>1, <1>11 DEF IInv, First, d
    <2>3. Only({"junk", "getsuouartbuffsz"}, toDev') BY <1>6 DEF IInv, First, d, e
    <2>4. CASE wait = "answer"
      <3>1. OneLine(q, e) BY <1>9, <2>4 DEF IInv, First, d, p
      <3>2. \A i \in DOMAIN toHost' : toHost'[i].n = 0 BY <1>1, <1>4, <1>5, <2>4 DEF IInv, First
      <3> QED BY <1>2, <2>1, <2>3, <2>4, <3>1, <3>2 DEF First, e, q
    <2>5. CASE wait # "answer"
      <3>1. wait = "echo" BY <2>2, <2>5 DEF IInv, Phases, CliSteps
      <3>2. e = <<>> BY <1>10, <3>1 DEF IInv, First, d
      <3>3. \A i \in DOMAIN toHost' : toHost'[i].n # 0 => i = 1 BY <1>4, <1>5, <2>5 DEF IInv, First
      <3>4. DOMAIN e = {} BY <3>2
      <3> QED BY <1>2, <2>1, <2>3, <3>1, <3>2, <3>3, <3>4 DEF First, e
    <2> QED BY <2>4, <2>5
  <1>17. AtPromptStill'
    BY <1>1, <1>2, <1>4, <1>5, <1>9, <1>10, <1>11, <1>12 DEF IInv, AtPromptStill, Quiet, d, e, p, q
  <1>18. Wanted # "echo" BY DEF Wanted
  <1>25. LenLast(p, d) => LenLast(q, e) BY <1>1, <1>3 DEF LenLast
  <1>19. OneByOne'
    BY <1>1, <1>2, <1>4, <1>5, <1>6, <1>7, <1>9, <1>12, <1>18, <1>25, <1>26
       DEF IInv, OneByOne, d, e, p, q
  <1>20. DataSent(toDev) /\ DataSent(partial) => DataSent(toDev)' /\ DataSent(partial)'
    BY <1>1, <1>2, <1>3 DEF DataSent, d, e, p, q
  <1>21. Counting' BY <1>2, <1>12, <1>20, <1>26 DEF IInv, Counting
  <1>22. Exact'
    <2>1. ASSUME step = "bulk", ~misled
          PROVE  \A i \in DOMAIN toHost' : toHost'[i].text # "CMP_OK"
      BY <1>1, <1>2, <1>4, <1>5, <2>1 DEF IInv, OneByOne, SuouSteps, Wanted, Phases, Astray
    <2>2. LenSent(partial) /\ LenSent(toDev) => LenSent(partial)' /\ LenSent(toDev)'
      BY <1>1, <1>2, <1>3 DEF LenSent, d, e, p, q
    <2> QED BY <1>1, <1>2, <1>12, <2>1, <2>2 DEF IInv, Exact
  <1>23. OfThisFile' /\ PassMeansSelected' BY <1>2 DEF IInv, OfThisFile, PassMeansSelected
  <1>24. Ending' BY <1>2, <1>4, <1>5, <1>6, <1>7 DEF IInv, Ending, d, e, p, q
  <1> QED BY <1>13, <1>14, <1>15, <1>16, <1>17, <1>19, <1>21, <1>22, <1>23, <1>24 DEF IInv

LEMMA CompleteIs == TypeOK /\ Complete => svc.good /\ svc.got > 0
  BY Typed DEF Complete

LEMMA Names ==
  /\ step \in {"status", "start", "info", "end"} => Requested = step
  /\ step = "started" => Requested = "start"
  /\ step \in {"len", "lastlen"} => Requested = "len"
  /\ step \in {"bulk", "last"} => Requested = "data"
  /\ Wanted = IF step = "start" THEN "IMG_STARTED"
              ELSE IF step \in {"bulk", "last", "end"} THEN "CMP_OK" ELSE "OK"
  BY DEF Requested, Request, Wanted, Cmd, Plain

\* A line with something in it is read.
LEMMA LineKeeps ==
  ASSUME IInv, toDev # <<>>, Head(toDev) = NL, toDev' = Tail(toDev), partial # <<>>, partial' = <<>>,
         AtPrompt \/ InFwupdate, UNCHANGED <<hostVars, misled>>
  PROVE  IInv'
  <1> DEFINE d == toDev
             e == toDev'
             p == partial
             c == partial[1].cmd
  <1>1. /\ e \in Seq(Commands) /\ Len(e) = Len(d) - 1 /\ DOMAIN e = 1..Len(d)-1 /\ ~Quiet
        /\ DOMAIN d = 1..Len(d) /\ Len(d) \in Nat \ {0} /\ d[1] = NL /\ 1 \in DOMAIN d /\ d # <<>>
        /\ (Len(e) = 0 => e = <<>>)
        /\ \A i \in DOMAIN e : i + 1 \in DOMAIN d /\ e[i] = d[i + 1]
    <2>1. /\ d \in Seq(Commands) /\ e \in Seq(Commands) /\ Len(e) = Len(d) - 1
          /\ DOMAIN e = 1..Len(d)-1 /\ DOMAIN d = 1..Len(d) /\ Len(d) \in Nat \ {0} /\ Head(d) = d[1]
          /\ \A i \in DOMAIN e : i + 1 \in DOMAIN d /\ e[i] = d[i + 1]
      BY TailItems, Typed DEF IInv
    <2>2. Len(e) = 0 => e = <<>> BY <2>1
    <2> HIDE DEF e
    <2> QED BY <2>1, <2>2 DEF Quiet
  <1>2. UNCHANGED <<step, wait, size, xfered, chunksz, result, misled>> BY DEF hostVars
  <1>3. PICK a : Replied(a) BY LineReply DEF IInv
  <1>4. a \in Seq(Answers) /\ Heard(a) /\ Stepped /\ Served(svc, svc') BY <1>3 DEF Replied, Stepped
  <1>5. /\ toHost' \in Seq(Answers) /\ (step = "closed" => toHost' = <<>>)
        /\ DOMAIN a = 1..Len(a) /\ Len(a) \in Nat
        /\ \A i \in DOMAIN toHost' :
             \/ i \in DOMAIN toHost /\ toHost'[i] = toHost[i]
             \/ \E j \in DOMAIN a :
                  /\ toHost'[i] = a[j] /\ j + Len(toHost) = i
                  /\ j = Len(a) => i = Len(toHost')
    <2>1. toHost \in Seq(Answers) BY Typed DEF IInv
    <2>2. toHost' = IF step = "closed" THEN <<>> ELSE toHost \o a BY <1>3 DEF Replied, Answer
    <2>3. CASE step = "closed" BY <1>4, <2>2, <2>3
    <2>4. CASE step # "closed"
      <3>1. toHost' = toHost \o a BY <2>2, <2>4
      <3>2. /\ toHost' \in Seq(Answers) /\ Len(toHost') = Len(toHost) + Len(a)
            /\ \A i \in DOMAIN toHost' :
                 \/ i \in DOMAIN toHost /\ toHost'[i] = toHost[i]
                 \/ i - Len(toHost) \in DOMAIN a /\ toHost'[i] = a[i - Len(toHost)]
        BY <1>4, <2>1, <3>1, ConcatItems
      <3>3. DOMAIN a = 1..Len(a) /\ Len(a) \in Nat /\ Len(toHost) \in Nat BY <1>4, <2>1
      <3>4. \A i \in DOMAIN toHost' : i \in Int BY <3>2
      <3>5. ASSUME NEW i \in DOMAIN toHost', i - Len(toHost) \in DOMAIN a,
                   toHost'[i] = a[i - Len(toHost)]
            PROVE  \E j \in DOMAIN a : /\ toHost'[i] = a[j] /\ j + Len(toHost) = i
                                       /\ j = Len(a) => i = Len(toHost')
        <4> DEFINE j == i - Len(toHost)
        <4>1. j + Len(toHost) = i /\ (j = Len(a) => i = Len(toHost')) BY <3>2, <3>3, <3>4
        <4>2. j \in DOMAIN a /\ toHost'[i] = a[j] BY <3>5
        <4> HIDE DEF j
        <4> QED BY <4>1, <4>2
      <3> QED BY <2>4, <3>2, <3>3, <3>5
    <2> QED BY <2>3, <2>4
  <1>6. \A S : Only(S, d) => Only(S, e) BY <1>1 DEF Only
  <1>7. ASSUME NEW S, Only(S, p), Len(p) = 1 PROVE c = "nl" \/ c \in S
    <2>1. 1 \in DOMAIN p BY <1>7, Typed DEF IInv
    <2>2. NL.cmd = "nl" BY DEF NL, Plain, Cmd
    <2> QED BY <1>7, <2>1, <2>2 DEF Only
  <1>8. ASSUME OneLine(p, d) PROVE e = <<>> BY <1>1, <1>8 DEF OneLine
  <1>9. e = <<>> => Quiet' BY DEF Quiet
  <1>10. /\ DOMAIN partial' = {} /\ Len(partial') = 0 /\ partial' \in Seq(Commands) OBVIOUS
  <1> HIDE DEF d, e, p, c
  <1>11. TypeOK'
    <2>1. selected' \in Sizes \cup {0}
      <3>1. selected \in Sizes \cup {0} /\ svc.of \in Sizes \cup {0} BY DEF IInv, TypeOK
      <3> QED BY <1>4, <3>1 DEF Stepped
    <2>2. svc' \in Svcs BY <1>4 DEF Served
    <2>3. /\ mode' \in {"prompt", "fwupdate"} \cup Stuck /\ qspibuf' \in BOOLEAN /\ bufsz' \in Nat
          /\ faults' \in 0..MaxFaults
      BY <1>4 DEF Stepped
    <2> QED BY <1>1, <1>2, <1>5, <1>10, <2>1, <2>2, <2>3 DEF IInv, TypeOK, Svcs, e
  <1>12. Phases' BY <1>2, <1>5 DEF IInv, Phases
  <1>13. 1 \in DOMAIN partial BY Typed DEF IInv
  <1>14. First'
    <2> SUFFICES ASSUME step = "getsuouartbuffsz" PROVE First' BY <1>2 DEF First
    <2>1. Only({"junk", "getsuouartbuffsz"}, toDev') BY <1>6 DEF IInv, First, d, e
    <2>2. Own' BY <1>10 DEF Own
    <2>3. CASE wait = "answer"
      <3>1. e = <<>> BY <1>8, <2>3 DEF IInv, First, d, p
      <3>2. DOMAIN e = {} BY <3>1
      <3>3. OneLine(partial', toDev') BY <3>2 DEF OneLine, e
      <3>4. ASSUME NEW i \in DOMAIN toHost', toHost'[i].n # 0
            PROVE  i = Len(toHost') /\ toHost'[i].n = 2 * CHUNK
        <4>1. PICK j \in DOMAIN a : toHost'[i] = a[j] /\ (j = Len(a) => i = Len(toHost'))
          BY <1>1, <1>5, <2>3, <3>4 DEF IInv, First
        <4>2. Len(a) = 1 /\ (Is("info") \/ (Is("getsuouartbuffsz") /\ a[j].n = 2 * CHUNK))
          BY <1>4, <3>4, <4>1 DEF Heard
        <4>3. ~Is("info") BY <2>3 DEF IInv, First, Own, Is
        <4>4. j = 1 BY <1>5, <4>2
        <4> QED BY <4>1, <4>2, <4>3, <4>4
      <3> QED BY <1>2, <1>9, <2>1, <2>2, <2>3, <3>1, <3>3, <3>4 DEF First
    <2>4. CASE wait # "answer"
      <3>1. toHost = <<>> BY <1>1, <2>4 DEF IInv, First, d
      <3>2. wait # "knock" BY <1>1 DEF IInv, First, d
      <3>3. DOMAIN toHost = {} BY <3>1
      <3>4. ASSUME NEW i \in DOMAIN toHost', toHost'[i].n # 0 PROVE i = 1
        <4>1. PICK j \in DOMAIN a : toHost'[i] = a[j] /\ j + Len(toHost) = i BY <1>5, <3>3
        <4>2. Len(a) = 1 BY <1>4, <3>4, <4>1 DEF Heard
        <4>3. j = 1 /\ Len(toHost) = 0 BY <1>5, <3>1, <4>2
        <4> QED BY <4>1, <4>3
      <3>5. wait = "type" => \A i \in DOMAIN toDev' : toDev'[i] = NL BY <1>1 DEF IInv, First, d, e
      <3>6. wait = "echo" => \A i \in DOMAIN toDev' : i < Len(toDev') => toDev'[i] = NL
        BY <1>1 DEF IInv, First, d, e
      <3> QED BY <1>2, <2>1, <2>2, <2>4, <3>2, <3>4, <3>5, <3>6 DEF First
    <2> QED BY <2>3, <2>4
  <1>15. AtPromptStill'
    <2> SUFFICES ASSUME step \in {"alloc", "fwupdate"}, chunksz = CHUNK PROVE AtPromptStill'
      BY <1>2 DEF AtPromptStill
    <2>1. wait = "answer" BY <1>1 DEF IInv, AtPromptStill, Phases, CliSteps, d
    <2>2. e = <<>> BY <1>8, <2>1 DEF IInv, AtPromptStill, d, p
    <2>3. DOMAIN e = {} BY <2>2
    <2>4. OneLine(partial', toDev') BY <2>3 DEF OneLine, e
    <2>5. ASSUME NEW i \in DOMAIN toHost', toHost'[i].text = "OK" PROVE i = Len(toHost')
      <3>1. PICK j \in DOMAIN a : toHost'[i] = a[j] /\ (j = Len(a) => i = Len(toHost'))
        BY <1>1, <1>5, <2>1, <2>5 DEF IInv, AtPromptStill
      <3> QED BY <1>4, <2>5, <3>1 DEF Heard
    <2> QED BY <1>2, <1>9, <2>1, <2>2, <2>4, <2>5 DEF AtPromptStill
  <1>16. ASSUME step \in SuouSteps \ {"end"}, ~Astray
         PROVE  /\ wait = "answer" /\ step # "started" /\ e = <<>> /\ Silent("OK") /\ Silent(Wanted)
                /\ \A x : Is(x) => x \in {"nl", "junk"} \cup Altered
    <2>1. wait = "answer" /\ step # "started" BY <1>1, <1>16 DEF IInv, OneByOne, Phases
    <2>2. e = <<>> BY <1>8, <1>16, <2>1 DEF IInv, OneByOne, d, p
    <2>3. Silent("OK") /\ Silent(Wanted) BY <1>1, <1>16, <2>1 DEF IInv, OneByOne, Silent
    <2>4. Only({"junk"} \cup Altered, p) BY <1>16, <2>1 DEF IInv, OneByOne, Only, p
    <2>5. \A x : Is(x) => x \in {"nl", "junk"} \cup Altered BY <1>7, <2>4 DEF Is, c, p
    <2> QED BY <2>1, <2>2, <2>3, <2>5
  <1>28. ASSUME Astray
         PROVE  /\ Silent("OK") /\ \A x : Is(x) => x \in {"nl", "junk", "data", "len"}
                /\ Is("len") => wait = "answer" /\ step = "lastlen" /\ e = <<>>
    <2>0. step \in SuouSteps \ {"end"} /\ wait \in {"send", "answer"} /\ step \in {"bulk", "lastlen"}
      BY <1>28 DEF IInv, Phases, Astray, SuouSteps
    <2>1. CASE wait = "send"
      <3>1. Silent("OK") /\ Only({"junk", "data"}, p) BY <1>28, <2>0, <2>1 DEF IInv, OneByOne, p
      <3>2. \A x : Is(x) => x \in {"nl", "junk", "data"} BY <1>7, <3>1 DEF Is, c, p
      <3> QED BY <3>1, <3>2
    <2>2. CASE wait = "answer"
      <3>1. Silent("OK") BY <1>1, <2>0, <2>2 DEF IInv, OneByOne, Silent
      <3>2. Only({"junk", "data"} \cup Altered, p) BY <1>28, <2>0, <2>2 DEF IInv, OneByOne, Only, p
      <3>3. Altered = (IF step = "lastlen" THEN {"len"} ELSE {"data"}) BY <2>0, Names DEF Altered
      <3>4. \A x : Is(x) => x \in {"nl", "junk", "data"} \cup Altered BY <1>7, <3>2 DEF Is, c, p
      <3>5. ASSUME Is("len") PROVE step = "lastlen" /\ e = <<>>
        <4>1. step = "lastlen" BY <2>0, <3>3, <3>4, <3>5
        <4>2. LenLast(p, d) BY <2>0, <2>2, <4>1 DEF IInv, OneByOne, p, d
        <4>3. Len(d) <= 1 BY <1>13, <3>5, <4>2 DEF LenLast, Is, p
        <4>4. Len(e) = 0 BY <1>1, <4>3
        <4> QED BY <1>1, <4>1, <4>4
      <3> QED BY <2>2, <3>1, <3>3, <3>4, <3>5
    <2> QED BY <2>0, <2>1, <2>2
  <1>17. /\ Requested' = Requested /\ Wanted' = Wanted /\ Altered' = Altered /\ Astray' = Astray
         /\ Requested \in Altered
    BY <1>2 DEF Requested, Altered, Request, Block, Wanted, Astray, MemDev
  <1>18. \A i \in DOMAIN toHost' :
           \/ i \in DOMAIN toHost /\ toHost'[i] = toHost[i]
           \/ \E j \in DOMAIN a : toHost'[i] = a[j] /\ (j = Len(a) => i = Len(toHost'))
    BY <1>5
  <1>20. ASSUME NEW x, ~Silent(x)', Silent(x) PROVE \E j \in DOMAIN a : a[j].text = x
    BY <1>18, <1>20 DEF Silent
  <1>29. \A S : Only(S, partial') BY <1>10 DEF Only
  <1>30. /\ \A j \in DOMAIN a : a[j].text = "OK" => Is(c) /\ c \notin {"data", "junk", "nl"} /\ j = Len(a)
         /\ \A j \in DOMAIN a : a[j].text = "IMG_STARTED" => Is("start") /\ c = "start"
         /\ \A j \in DOMAIN a : a[j].re = c /\ a[j].at = partial[1].at
    BY <1>4 DEF Heard, Is, c
  <1>19. OneByOne'
    <2>1. CASE step \in SuouSteps \ {"end"} /\ ~Astray
      <3>1. DOMAIN e = {} BY <1>16, <2>1
      <3>2. /\ OneLine(partial', toDev') /\ LenLast(partial', toDev')
            /\ \A S : Only(S, partial') /\ Only(S, toDev')
        BY <1>10, <3>1 DEF OneLine, LenLast, Only, e
      <3>3. \A i \in DOMAIN toHost' : toHost'[i].text \in {"OK", Wanted} =>
              \E j \in DOMAIN a : toHost'[i] = a[j] /\ (j = Len(a) => i = Len(toHost'))
        BY <1>16, <1>18, <2>1 DEF Silent
      <3>4. ASSUME NEW i \in DOMAIN toHost', toHost'[i].text = "OK"
            PROVE  /\ i = Len(toHost') /\ step \notin {"bulk", "last"}
                   /\ toHost'[i].re = Requested \/ (step = "start" /\ Silent("IMG_STARTED")')
        <4>1. PICK j \in DOMAIN a : toHost'[i] = a[j] /\ (j = Len(a) => i = Len(toHost')) BY <3>3, <3>4
        <4>2. j = Len(a) /\ toHost'[i].re = c /\ c \in Altered \ {"data"} BY <1>16, <1>30, <2>1, <3>4, <4>1
        <4>3. CASE step = "start"
          <5>1. Silent("IMG_STARTED") /\ Requested = "start" BY <1>16, <2>1, <4>3, Names
          <5>2. ~Silent("IMG_STARTED")' => c = "start" BY <1>20, <1>30, <5>1
          <5> QED BY <4>1, <4>2, <4>3, <5>1, <5>2
        <4>4. CASE step # "start"
          <5>1. step # "started" BY <1>16, <2>1
          <5>2. Requested # "start" BY <2>1, <4>4, <5>1, Names DEF SuouSteps
          <5>3. c = Requested BY <4>2, <5>2 DEF Altered
          <5> QED BY <4>1, <4>2, <5>3, Names
        <4> QED BY <4>3, <4>4
      <3>5. ASSUME NEW i \in DOMAIN toHost', toHost'[i].text = Wanted PROVE toHost'[i].re = Requested
        <4>1. PICK j \in DOMAIN a : toHost'[i] = a[j] BY <3>3, <3>5
        <4>2. CASE step = "start" BY <1>30, <3>5, <4>1, <4>2, Names
        <4>3. CASE step \in {"bulk", "last"}
          <5>1. a[j].text = "CMP_OK" /\ Altered = {"data"} BY <3>5, <4>1, <4>3, Names DEF Altered
          <5>2. Is("data") \/ Is("end") BY <1>4, <5>1 DEF Heard
          <5>3. Is("data") BY <1>16, <2>1, <5>1, <5>2
          <5> QED BY <1>30, <4>1, <4>3, <5>3, Names DEF Is, c
        <4>4. CASE step \notin {"start", "bulk", "last"}
          <5>1. toHost'[i].text = "OK" BY <2>1, <3>5, <4>4, Names
          <5> QED BY <3>4, <4>4, <5>1
        <4> QED BY <4>2, <4>3, <4>4
      <3>6. Quiet' BY <1>9, <1>16, <2>1
      <3>7. wait = "answer" /\ step # "started" BY <1>16, <2>1
      <3> QED BY <1>2, <1>17, <2>1, <3>2, <3>4, <3>5, <3>6, <3>7 DEF OneByOne
    <2>2. CASE step \in SuouSteps \ {"end"} /\ Astray
      <3>1. step \in {"bulk", "lastlen"} /\ wait \in {"send", "answer"}
        BY <2>2 DEF Astray, IInv, Phases
      <3>2. CASE wait = "send"
        <4>1. Only({"junk", "data"}, toDev') BY <1>6, <2>2, <3>2 DEF IInv, OneByOne, d, e
        <4>2. ~Is("start") /\ \A x : Is(x) => x \in {"nl", "junk", "data"} BY <1>28, <2>2, <3>2
        <4>3. /\ Silent("OK") /\ ~Is("end")
              /\ \A i \in DOMAIN toHost : toHost[i].text = "CMP_OK" => toHost[i].re = "data"
          BY <2>2, <3>2, <4>2 DEF IInv, OneByOne
        <4>4. Silent("OK")' BY <1>20, <1>30, <4>2, <4>3
        <4>5. \A i \in DOMAIN a : a[i].text = "CMP_OK" => a[i].re = "data"
          BY <1>4, <4>3 DEF Heard, Is
        <4>6. \A i \in DOMAIN toHost' : toHost'[i].text = "CMP_OK" => toHost'[i].re = "data"
          BY <1>18, <4>3, <4>5
        <4> QED BY <1>2, <1>17, <1>29, <2>2, <3>1, <3>2, <4>1, <4>4, <4>6 DEF OneByOne, Only
      <3>3. CASE wait = "answer"
        <4> DEFINE ours == {"junk"} \cup Altered \cup {"data"}
        <4>1. Only(ours, toDev')
          <5>1. Only(ours, d) BY <2>2, <3>3 DEF IInv, OneByOne, Only, d
          <5> QED BY <1>6, <5>1 DEF e
        <4>2. step = "lastlen" => LenLast(partial', toDev')
          <5>1. step = "lastlen" => LenLast(p, d) BY <2>2, <3>3 DEF IInv, OneByOne, d, p
          <5>2. ASSUME LenLast(p, d) PROVE LenLast(partial', e) BY <1>1, <1>10, <5>2 DEF LenLast
          <5> QED BY <5>1, <5>2 DEF e
        <4>3. ASSUME NEW i \in DOMAIN toHost', toHost'[i].text = "OK"
              PROVE  /\ i = Len(toHost') /\ Quiet' /\ toHost'[i].re = Requested
                     /\ step \notin {"bulk", "last"}
          <5>1. PICK j \in DOMAIN a : toHost'[i] = a[j] /\ (j = Len(a) => i = Len(toHost'))
            BY <1>18, <1>28, <2>2, <4>3 DEF Silent
          <5>2. Is("len") /\ c = "len" /\ j = Len(a) BY <1>28, <1>30, <2>2, <4>3, <5>1
          <5>3. step = "lastlen" /\ e = <<>> BY <1>28, <2>2, <5>2
          <5> QED BY <1>9, <1>30, <5>1, <5>2, <5>3, Names
        <4>4. ASSUME NEW i \in DOMAIN toHost', toHost'[i].text = Wanted PROVE toHost'[i].re = Requested
          <5>1. CASE step = "lastlen" BY <4>3, <4>4, <5>1, Names
          <5>2. CASE step = "bulk"
            <6>1. toHost'[i].text = "CMP_OK" /\ Requested = "data" BY <4>4, <5>2, Names
            <6>2. CASE i \in DOMAIN toHost /\ toHost'[i] = toHost[i]
              BY <2>2, <3>3, <4>4, <6>2 DEF IInv, OneByOne
            <6>3. CASE \E j \in DOMAIN a : toHost'[i] = a[j]
              <7>1. PICK j \in DOMAIN a : toHost'[i] = a[j] BY <6>3
              <7>2. Is("data") \/ Is("end") BY <1>4, <6>1, <7>1 DEF Heard
              <7>3. Is("data") BY <1>28, <2>2, <7>2
              <7> QED BY <1>30, <6>1, <7>1, <7>3 DEF Is, c
            <6> QED BY <1>18, <6>2, <6>3
          <5> QED BY <3>1, <5>1, <5>2
        <4> QED BY <1>2, <1>17, <1>29, <2>2, <3>1, <3>3, <4>1, <4>2, <4>3, <4>4 DEF OneByOne
      <3> QED BY <3>1, <3>2, <3>3
    <2> QED BY <1>2, <2>1, <2>2 DEF OneByOne
  <1>31. AtHere'
    <2> SUFFICES ASSUME step \in SuouSteps \ {"end"}, wait = "answer", ~(misled /\ step = "bulk")
                 PROVE  /\ FromHere(partial)' /\ FromHere(toDev)'
                        /\ \A i \in DOMAIN toHost' :
                             /\ toHost'[i].text \in {"OK", Wanted}
                             /\ toHost'[i].re = Requested
                             => toHost'[i].at = xfered
      BY <1>2, <1>17 DEF AtHere
    <2>1. FromHere(p) /\ FromHere(d) BY DEF IInv, AtHere, p, d
    <2>2. FromHere(partial)' BY <1>10 DEF FromHere
    <2>3. FromHere(toDev)' BY <1>1, <1>2, <1>17, <2>1 DEF FromHere, d, e
    <2>4. c = Requested => partial[1].at = xfered BY <1>13, <1>17, <2>1 DEF FromHere, c, p
    <2> QED BY <1>18, <1>30, <2>2, <2>3, <2>4 DEF IInv, AtHere
  <1>21. Counting'
    <2>1. ASSUME step \in {"len", "lastlen"}, ~misled, svc'.on, svc.on => svc.got = xfered
          PROVE  svc'.got = xfered
      <3>1. ~Is("start") /\ ~Is("data") BY <1>16, <2>1, Names DEF SuouSteps, Astray, Altered
      <3> QED BY <1>4, <2>1, <3>1 DEF Served
    <2>2. ASSUME step = "start", ~Silent("IMG_STARTED")' PROVE svc'.got = 0 /\ svc'.chunk = 0
      <3>1. Silent("IMG_STARTED") BY <1>16, <2>2, Names DEF SuouSteps, Astray
      <3> QED BY <1>4, <1>20, <2>2, <3>1 DEF Heard
    <2>3. ASSUME (step \in {"bulk", "last"} /\ wait = "answer") \/ Astray
          PROVE  DataSent(partial)' /\ DataSent(toDev)'
      <3>1. DataSent(partial)' BY <1>10 DEF DataSent
      <3>2. CASE ~Astray
        <4>1. DOMAIN e = {} BY <1>16, <2>3, <3>2 DEF SuouSteps
        <4> QED BY <3>1, <4>1 DEF DataSent, e
      <3>3. CASE Astray
        <4>1. misled /\ DataSent(d) BY <3>3 DEF IInv, Counting, Astray, d
        <4> QED BY <1>1, <1>2, <3>1, <4>1 DEF DataSent, d, e
      <3> QED BY <3>2, <3>3
    <2>4. ASSUME step \in {"bulk", "last"}, wait = "answer", ~misled, ~Silent("CMP_OK")'
          PROVE  svc'.got = xfered
      <3>1. Silent("CMP_OK") /\ ~Is("end") BY <1>16, <2>4, Names DEF SuouSteps, Astray, Altered
      <3>2. Is("data") /\ svc.on /\ svc'.got = svc.got + partial[1].n
        BY <1>4, <1>20, <2>4, <3>1 DEF Heard
      <3>3. svc.got + partial[1].n = xfered BY <1>13, <2>4, <3>2 DEF IInv, Counting, DataSent, Is
      <3> QED BY <3>2, <3>3
    <2>5. step # "started" /\ (step \in {"bulk", "last"} /\ ~misled => wait # "send")
      BY <1>16 DEF SuouSteps, Astray
    <2> QED BY <1>2, <1>17, <2>1, <2>2, <2>3, <2>4, <2>5 DEF IInv, Counting
  <1>22. Exact'
    <2> SUFFICES ASSUME ~misled PROVE Exact' BY <1>2 DEF Exact
    <2>1. ASSUME step = "len"
          PROVE  /\ svc'.chunk = 0 /\ LenSent(partial)' /\ LenSent(toDev)'
                 /\ ~Silent("OK")' => svc'.cbs /\ svc'.len = chunksz
      <3>1. DOMAIN e = {} /\ Silent("OK") /\ wait = "answer" /\ \A x : Is(x) => x \in {"nl", "junk", "len"}
        BY <1>16, <2>1, Names DEF SuouSteps, Astray, Altered
      <3>2. svc'.chunk = 0 BY <1>4, <2>1, <3>1 DEF Served, IInv, Exact
      <3>3. LenSent(partial)' /\ LenSent(toDev)' BY <1>10, <3>1 DEF LenSent, e
      <3>4. ASSUME ~Silent("OK")' PROVE svc'.cbs /\ svc'.len = chunksz
        <4>1. /\ Len(partial) = 1 /\ ~Is("junk") /\ ~Is("nl")
              /\ (Is("len") => svc'.cbs /\ svc'.len = partial[1].n)
          BY <1>4, <1>20, <3>1, <3>4 DEF Heard
        <4>2. Is(c) BY <4>1 DEF Is, c
        <4>3. Is("len") BY <3>1, <4>1, <4>2
        <4>4. partial[1].cmd = "len" BY <4>3 DEF Is
        <4>5. partial[1].n = chunksz BY <1>13, <2>1, <3>1, <4>4 DEF IInv, Exact, LenSent
        <4> QED BY <4>1, <4>3, <4>5
      <3> QED BY <3>2, <3>3, <3>4
    <2>2. ASSUME step = "bulk", size > 2 * chunksz
          PROVE  /\ mode' = "fwupdate" =>
                      /\ svc'.cbs /\ svc'.len = chunksz
                      /\ svc'.chunk = 0 \/ (wait = "answer" /\ Quiet' /\ Silent("CMP_OK")')
                 /\ \A i, k \in DOMAIN toHost' :
                      toHost'[i].text = "CMP_OK" /\ toHost'[k].text = "CMP_OK" => i = k
      <3>1. Silent("CMP_OK") /\ wait = "answer" /\ Quiet' /\ \A x : Is(x) => x \in {"nl", "junk", "data"}
        BY <1>9, <1>16, <2>2, Names DEF SuouSteps, Astray, Altered
      <3>2. Is("data") => partial[1].n = chunksz /\ partial[1].n > 0
        BY <1>13, <2>2, <3>1 DEF IInv, Counting, DataSent, Is
      <3>3. mode = "fwupdate" => svc.cbs /\ svc.len = chunksz /\ svc.chunk = 0
        BY <1>1, <2>2 DEF IInv, Exact
      <3>4. ~Is("fwupdate") /\ ~Is("len") /\ ~Is("end") BY <3>1
      <3>5. mode' = "fwupdate" => svc'.cbs /\ svc'.len = chunksz
        BY <1>4, <3>3, <3>4 DEF Stepped, Served
      <3>6. \A i, k \in DOMAIN a : a[i].text = "CMP_OK" =>
              svc'.chunk = 0 /\ (a[k].text = "CMP_OK" => i = k)
        BY <1>4, <3>2, <3>3, <3>4 DEF Heard
      <3>7. svc'.chunk = 0 \/ Silent("CMP_OK")' BY <1>20, <3>1, <3>6
      <3>8. ASSUME NEW i \in DOMAIN toHost', NEW k \in DOMAIN toHost',
                   toHost'[i].text = "CMP_OK", toHost'[k].text = "CMP_OK"
            PROVE  i = k
        <4>1. PICK j \in DOMAIN a : toHost'[i] = a[j] /\ j + Len(toHost) = i
          BY <1>5, <3>1, <3>8 DEF Silent
        <4>2. PICK l \in DOMAIN a : toHost'[k] = a[l] /\ l + Len(toHost) = k
          BY <1>5, <3>1, <3>8 DEF Silent
        <4> QED BY <3>6, <3>8, <4>1, <4>2
      <3> QED BY <3>1, <3>5, <3>7, <3>8
    <2>3. step # "started" BY <1>16 DEF SuouSteps, Astray
    <2> QED BY <1>2, <2>1, <2>2, <2>3 DEF Exact
  <1>32. Hangs'
    <2> SUFFICES ASSUME mode' = "hang" PROVE Hangs' BY DEF Hangs
    <2>1. /\ Is("data") /\ mode = "fwupdate" /\ svc.cbs /\ svc.len = 0
          /\ svc'.at = partial[1].at /\ svc'.got = svc.got + partial[1].n
      BY <1>4 DEF Stepped
    <2>2. c = "data" BY <2>1 DEF Is, c
    <2>3. step \notin {"status", "start", "started", "len", "end"}
      <3>1. step # "end"
        <4>1. step = "end" => Only({"junk"} \cup MemDev, p) BY DEF IInv, Ending, p
        <4> QED BY <1>7, <2>1, <2>2, <4>1 DEF MemDev, Is, p
      <3>2. step \in {"status", "start", "started", "len"} => step \in SuouSteps \ {"end"} /\ ~Astray
        BY DEF SuouSteps, Astray
      <3>3. step \in {"status", "start", "started", "len"} => "data" \notin Altered
        BY Names DEF Altered, MemDev
      <3> QED BY <1>16, <2>1, <3>1, <3>2, <3>3
    <2>4. step \in {"alloc", "fwupdate"} /\ chunksz = CHUNK =>
            wait \notin {"knock", "type"} /\ Silent("OK")
      BY <1>1 DEF IInv, AtPromptStill, Silent, Phases, CliSteps
    <2>5. ASSUME step \in {"alloc", "fwupdate"} => chunksz = CHUNK PROVE Silent("OK")
      <3>1. CASE step = "getsuouartbuffsz"
        <4>1. ~Own BY <2>1 DEF Own, Is
        <4>2. toHost = <<>> BY <3>1, <4>1 DEF IInv, First
        <4> QED BY <4>2 DEF Silent
      <3>2. CASE step \in {"alloc", "fwupdate"} BY <2>4, <2>5, <3>2
      <3>3. CASE step \in SuouSteps \ {"end"} BY <1>16, <1>28, <3>3
      <3>4. CASE step = "closed"
        <4>1. toHost = <<>> BY <3>4 DEF IInv, Phases
        <4> QED BY <4>1 DEF Silent
      <3> QED BY <2>3, <3>1, <3>2, <3>3, <3>4 DEF IInv, TypeOK, CliSteps
    <2>6. Silent("OK") => Silent("OK")' BY <1>20, <1>30, <2>2
    <2>7. ASSUME step \in {"bulk", "last"}, ~(misled /\ step = "bulk")
          PROVE  wait = "answer" /\ Quiet' /\ svc'.at = xfered /\ (misled \/ svc'.got = xfered)
      <3>1. wait = "answer" /\ Quiet' BY <1>9, <1>16, <2>7 DEF SuouSteps, Astray
      <3>2. partial[1].cmd = "data" /\ Requested = "data" BY <2>1, <2>7, Names DEF Is
      <3>3. FromHere(partial) BY <2>7, <3>1 DEF IInv, AtHere, SuouSteps
      <3>4. partial[1].at = xfered BY <1>13, <1>17, <3>2, <3>3 DEF FromHere
      <3>5. misled \/ svc.got + partial[1].n = xfered
        BY <1>4, <1>13, <2>1, <2>7, <3>1, <3>2 DEF IInv, Counting, DataSent, Stepped
      <3> QED BY <2>1, <3>1, <3>4, <3>5
    <2>8. size > 2 * chunksz /\ ~misled => step # "bulk"
      <3> SUFFICES ASSUME size > 2 * chunksz, ~misled, step = "bulk" PROVE FALSE OBVIOUS
      <3>1. svc.len = chunksz /\ chunksz = CHUNK BY <2>1 DEF IInv, Exact, Phases, SuouSteps
      <3> QED BY <2>1, <3>1, UpdateAssumption
    <2> QED BY <1>2, <2>3, <2>4, <2>5, <2>6, <2>7, <2>8 DEF Hangs
  <1> DEFINE Ours == step \in {"started", "len", "bulk", "lastlen", "last", "info", "end"}
                     \/ result = "pass"
  <1>23. ASSUME Ours, Is("data") PROVE partial[1].of = size
    <2>1. CASE step \in SuouSteps \ {"end"} /\ ~Astray
      <3>1. step \in {"bulk", "last"} /\ wait = "answer"
        BY <1>16, <1>23, <2>1, Names DEF SuouSteps, Altered, MemDev
      <3> QED BY <1>13, <1>23, <3>1 DEF IInv, Counting, DataSent, Is
    <2>2. CASE Astray BY <1>13, <1>23, <2>2 DEF IInv, Counting, DataSent, Is
    <2>3. CASE step = "end" \/ result = "pass"
      <3>1. Only({"junk"} \cup MemDev, p) BY <2>3 DEF IInv, Ending, p
      <3>2. Len(p) = 1 /\ c = "data" BY <1>23 DEF Is, c, p
      <3> QED BY <1>7, <3>1, <3>2 DEF MemDev
    <2> QED BY <1>23, <2>1, <2>2, <2>3 DEF SuouSteps
  <1>24. OfThisFile' BY <1>2, <1>4, <1>23 DEF IInv, OfThisFile, Served
  <1>25. Ours /\ Complete => svc.of = size BY CompleteIs DEF IInv, OfThisFile
  <1>26. Ending'
    <2>1. ASSUME step = "end", NEW i \in DOMAIN toHost', toHost'[i].text = "CMP_OK"
          PROVE  toHost'[i].re = "end" /\ selected' = size
      <3>1. selected = size => selected' = size BY <1>4, <1>25, <2>1 DEF Stepped
      <3>2. CASE i \in DOMAIN toHost /\ toHost'[i] = toHost[i]
        BY <2>1, <3>1, <3>2 DEF IInv, Ending
      <3>3. CASE \E j \in DOMAIN a : toHost'[i] = a[j]
        <4>1. PICK j \in DOMAIN a : toHost'[i] = a[j] BY <3>3
        <4>2. ~Is("data")
          <5>1. Only({"junk"} \cup MemDev, p) BY <2>1 DEF IInv, Ending, p
          <5> QED BY <1>7, <5>1 DEF Is, c, p, MemDev
        <4>3. Is("end") /\ Complete /\ selected' = svc.of /\ a[j].re = partial[1].cmd
          BY <1>4, <2>1, <4>1, <4>2 DEF Heard
        <4> QED BY <1>25, <2>1, <4>1, <4>3 DEF Is
      <3> QED BY <1>18, <3>2, <3>3
    <2> QED BY <1>2, <1>6, <1>29, <2>1 DEF IInv, Ending, d, e
  <1>27. PassMeansSelected' BY <1>2, <1>4, <1>25 DEF IInv, PassMeansSelected, Stepped
  <1> QED BY <1>11, <1>12, <1>14, <1>15, <1>19, <1>21, <1>22, <1>24, <1>26, <1>27, <1>31, <1>32 DEF IInv

LEMMA ReadKeeps == IInv /\ Read => IInv'
  <1> SUFFICES ASSUME IInv, Read PROVE IInv' OBVIOUS
  <1>1. toDev # <<>> /\ UNCHANGED <<hostVars, misled>> /\ faults \in 0..MaxFaults
    BY DEF Read, IInv, TypeOK
  <1>2. CASE toDev' = Tail(toDev) /\ Store(Head(toDev)) BY <1>1, <1>2, StoreKeeps
  <1>3. CASE /\ toDev' = Tail(toDev) /\ Head(toDev) = NL /\ partial' = <<>>
             /\ AtPrompt \/ InFwupdate
    <2>1. CASE partial = <<>>
      <3>1. UNCHANGED <<svc, mode, selected, toHost, qspibuf, bufsz, faults>>
        BY <1>3, <2>1, EmptyLine DEF IInv
      <3>2. UNCHANGED devVars BY <1>3, <2>1, <3>1 DEF devVars
      <3> QED BY <1>1, <1>3, <3>1, <3>2, Fewer
    <2>2. CASE partial # <<>> BY <1>1, <1>3, <2>2, LineKeeps
    <2> QED BY <2>1, <2>2
  <1>4. CASE toDev' = Tail(toDev) /\ UNCHANGED <<devVars, toHost, faults>> BY <1>1, <1>4, Fewer
  <1>5. CASE Restarted /\ toDev' = <<>> /\ UNCHANGED <<toHost, faults>> BY <1>1, <1>5, RestartKeeps
  <1> QED BY <1>2, <1>3, <1>4, <1>5 DEF Read

LEMMA OpenKeeps == IInv /\ Open => IInv'
  <1> SUFFICES ASSUME IInv, Open PROVE IInv' OBVIOUS
  <1>1. /\ step' = "getsuouartbuffsz" /\ wait' = "knock" /\ size' \in Sizes /\ xfered' = 0
        /\ chunksz' = 0 /\ result' = "none" /\ misled' = FALSE /\ UNCHANGED <<toDev, toHost, faults>>
        /\ toDev = <<>> /\ toHost = <<>>
    BY DEF Open, IInv, Phases
  <1>2. /\ mode' \in {"prompt", "fwupdate"} \cup Stuck /\ partial' \in Seq(Commands)
        /\ qspibuf' \in BOOLEAN /\ bufsz' \in Nat /\ svc' \in Svcs /\ UNCHANGED selected
        /\ partial' = partial \/ partial' = <<>>
        /\ mode' = "hang" => partial' = <<>>
    <2>1. CASE UNCHANGED devVars
      <3>1. UNCHANGED <<mode, partial, qspibuf, bufsz, svc, selected>> BY <2>1 DEF devVars
      <3>2. svc \in Svcs /\ partial \in Seq(Commands) BY Typed DEF IInv
      <3>3. mode \in {"prompt", "fwupdate"} \cup Stuck /\ qspibuf \in BOOLEAN /\ bufsz \in Nat
        BY DEF IInv, TypeOK
      <3> QED BY <3>1, <3>2, <3>3 DEF IInv, Hangs
    <2>2. CASE Restarted
      <3>1. Idle \in Svcs BY DEF Idle, Svcs
      <3>2. <<>> \in Seq(Commands) OBVIOUS
      <3>3. /\ mode' = "prompt" /\ partial' = <<>> /\ qspibuf' = FALSE /\ bufsz' = 0 /\ svc' = Idle
            /\ UNCHANGED selected
        BY <2>2 DEF Restarted
      <3> QED BY <3>1, <3>2, <3>3
    <2> QED BY <2>1, <2>2 DEF Open
  <1>3. size' \in Nat \ {0} BY <1>1, UpdateAssumption
  <1>4. TypeOK'
    <2>1. toDev \in Seq(Commands) /\ toHost \in Seq(Answers) /\ faults \in 0..MaxFaults
          /\ selected \in Sizes \cup {0}
      BY DEF IInv, TypeOK
    <2>2. xfered' \in 0..size' /\ step' \in CliSteps BY <1>1, <1>3 DEF CliSteps
    <2>3. toDev' \in Seq(Commands) /\ toHost' \in Seq(Answers) /\ faults' \in 0..MaxFaults
          /\ selected' \in Sizes \cup {0}
      BY <1>1, <1>2, <2>1
    <2> QED BY <1>1, <1>2, <2>2, <2>3 DEF TypeOK, Svcs
  <1>5. Phases' BY <1>1 DEF Phases, CliSteps, SuouSteps
  <1>6. Hangs' BY <1>1, <1>2 DEF Hangs, Silent
  <1>7. First' BY <1>1 DEF First, Only
  <1>8. /\ AtPromptStill' /\ OneByOne' /\ AtHere' /\ Counting' /\ Exact' /\ OfThisFile' /\ Ending'
        /\ PassMeansSelected'
    BY <1>1 DEF AtPromptStill, OneByOne, AtHere, Counting, Exact, OfThisFile, Ending,
                PassMeansSelected, SuouSteps, Astray
  <1> QED BY <1>4, <1>5, <1>6, <1>7, <1>8 DEF IInv

(* A device that confirms without end has read all, so that one more       *)
(* confirmation is at worst one of the block that has it confirm.          *)
LEMMA BabbleKeeps == IInv /\ Babble => IInv'
  <1> SUFFICES ASSUME IInv, Babble PROVE IInv' OBVIOUS
  <1> DEFINE c == Cmd("data", 0, 0, svc.at)
             a == Say("CMP_OK", 0, c)
  <1>1. /\ UNCHANGED <<step, wait, size, xfered, chunksz, result, toDev, mode, partial, qspibuf, bufsz,
                       svc, selected, misled, faults>>
        /\ mode = "hang" /\ toHost = <<>> /\ step # "closed"
    BY DEF Babble, hostVars, devVars
  <1>2. a.text = "CMP_OK" /\ a.n = 0 /\ a.re = "data" /\ a.at = svc.at BY DEF Say, Cmd
  <1>3. a \in Answers BY <1>2, Typed DEF IInv, Svcs, Say, Cmd, Answers, Texts, Cmds, SuouCmds
  <1>4. toHost' = <<a>>
    <2>1. [i \in 1..Len(<<"CMP_OK">>) |-> Say(<<"CMP_OK">>[i], 0, c)] = <<a>> OBVIOUS
    <2> HIDE DEF a
    <2>2. <<>> \o <<a>> = <<a>> OBVIOUS
    <2> QED BY <1>1, <2>1, <2>2 DEF Babble, Told, Answer
  <1> HIDE DEF a
  <1>5. toHost' \in Seq(Answers) /\ DOMAIN toHost' = {1} /\ toHost'[1] = a BY <1>3, <1>4
  <1>6. \A x : x # "CMP_OK" => Silent(x)' BY <1>2, <1>5 DEF Silent
  <1>7. /\ partial = <<>> /\ step \notin {"status", "start", "started", "len", "end"}
        /\ step \in {"bulk", "last"} /\ ~(misled /\ step = "bulk") =>
             wait = "answer" /\ Quiet /\ svc.at = xfered /\ (misled \/ svc.got = xfered)
        /\ size > 2 * chunksz /\ ~misled => step # "bulk"
        /\ step \in {"alloc", "fwupdate"} /\ chunksz = CHUNK => wait \notin {"knock", "type"}
    BY <1>1 DEF IInv, Hangs
  <1>8. TypeOK' BY <1>1, <1>5 DEF IInv, TypeOK
  <1>9. Phases' BY <1>1 DEF IInv, Phases
  <1>10. First' BY <1>1, <1>2, <1>5, <1>7 DEF IInv, First, Own
  <1>11. AtPromptStill' BY <1>1, <1>2, <1>5, <1>6, <1>7 DEF IInv, AtPromptStill
  <1>12. step \in {"bulk", "last"} => Requested = "data"
    BY DEF Requested, Request, Cmd
  <1>13. Wanted = "CMP_OK" => step \in {"bulk", "last", "end"} BY DEF Wanted
  <1>14. UNCHANGED <<Requested, Wanted, Astray, Altered>>
    BY <1>1 DEF Requested, Request, Block, Wanted, Astray, Altered
  <1>15. OneByOne'
    <2> SUFFICES ASSUME step \in SuouSteps \ {"end"} PROVE OneByOne' BY <1>1 DEF OneByOne
    <2>1. Quiet' = Quiet BY <1>1 DEF Quiet
    <2>2. ASSUME wait = "send", ~Astray, step \notin {"lastlen", "info"} PROVE FALSE
      BY <1>7, <2>2 DEF Astray, SuouSteps
    <2>3. ASSUME wait = "answer", NEW i \in DOMAIN toHost'
          PROVE  /\ toHost'[i].text # "OK"
                 /\ toHost'[i].text = Wanted => toHost'[i].re = Requested /\ (~Astray => Quiet)
      <3>1. toHost'[i] = a BY <1>5
      <3>2. a.text = Wanted => step \in {"bulk", "last"} BY <1>2, <1>13
      <3> QED BY <1>2, <1>7, <1>12, <3>1, <3>2 DEF Astray
    <2>4. \A i \in DOMAIN toHost' : toHost'[i].re = "data" BY <1>2, <1>5
    <2> QED BY <1>1, <1>6, <1>14, <2>1, <2>2, <2>3, <2>4 DEF IInv, OneByOne
  <1>16. AtHere'
    <2>1. step = "bulk" \/ step = "last" \/ Requested # "data"
      BY DEF Requested, Request, Cmd, Plain, IInv, TypeOK, CliSteps, SuouSteps
    <2> QED BY <1>1, <1>2, <1>5, <1>7, <1>14, <2>1 DEF IInv, AtHere, FromHere
  <1>17. Counting' BY <1>1, <1>6, <1>7 DEF IInv, Counting, DataSent, Astray
  <1>18. Exact' BY <1>1, <1>5, <1>6, <1>7 DEF IInv, Exact, LenSent
  <1>19. Hangs' BY <1>1, <1>6 DEF IInv, Hangs, Quiet
  <1>20. OfThisFile' BY <1>1 DEF IInv, OfThisFile
  <1>21. Ending' BY <1>1, <1>7 DEF IInv, Ending, Only
  <1>22. PassMeansSelected' BY <1>1 DEF IInv, PassMeansSelected
  <1> QED BY <1>8, <1>9, <1>10, <1>11, <1>15, <1>16, <1>17, <1>18, <1>19, <1>20, <1>21, <1>22 DEF IInv

(* The host ends its run.                                                  *)
LEMMA EndsKeeps ==
  ASSUME IInv, NEW r \in {"pass", "fail"}, NEW s \in Seq(Commands), Ends(r, s),
         UNCHANGED <<devVars, misled>>, faults' \in 0..MaxFaults,
         r = "pass" => /\ selected = size /\ step = "end"
                       /\ Only({"junk"} \cup MemDev, s)
  PROVE  IInv'
  <1> DEFINE e == toDev'
  <1>1. /\ step' = "closed" /\ wait' = "none" /\ result' = r /\ toHost' = <<>>
        /\ UNCHANGED <<size, xfered, chunksz, mode, partial, qspibuf, bufsz, svc, selected, misled>>
    BY DEF Ends, devVars
  <1>2. /\ e \in Seq(Commands)
        /\ \A i \in DOMAIN e :
             (i \in DOMAIN toDev /\ e[i] = toDev[i]) \/ \E j \in DOMAIN s : e[i] = s[j]
    <2>1. toDev \in Seq(Commands) BY Typed DEF IInv
    <2> QED BY <2>1, ConcatItems DEF Ends
  <1> HIDE DEF e
  <1>3. TypeOK' BY <1>1, <1>2 DEF IInv, TypeOK, e
  <1>4. Phases' BY <1>1 DEF Phases, CliSteps, SuouSteps
  <1>5. Hangs' BY <1>1 DEF IInv, Hangs, Silent
  <1>6. First' /\ AtPromptStill' /\ OneByOne' /\ AtHere' /\ Counting' /\ Exact'
    BY <1>1 DEF First, AtPromptStill, OneByOne, AtHere, Counting, Exact, SuouSteps, Astray
  <1>7. OfThisFile' BY <1>1 DEF IInv, OfThisFile
  <1>8. Ending'
    <2>1. \A S : Only(S, toDev) /\ Only(S, s) => Only(S, e) BY <1>2 DEF Only
    <2> QED BY <1>1, <2>1 DEF IInv, Ending, Only, e
  <1>9. PassMeansSelected' BY <1>1 DEF PassMeansSelected
  <1> QED BY <1>3, <1>4, <1>5, <1>6, <1>7, <1>8, <1>9 DEF IInv

\* The steps of issue_command leave alone what SUOUSTART and later requests are about.
LEMMA CliKeeps ==
  ASSUME IInv, step \in CliSteps, UNCHANGED <<step, size, result, xfered, chunksz, devVars, misled, faults>>,
         wait' \in {"type", "echo", "answer"}, wait' = "type" => wait = "knock",
         toDev' \in Seq(Commands), toHost' \in Seq(Answers),
         \A i \in DOMAIN toHost' : \E j \in DOMAIN toHost : toHost'[i] = toHost[j],
         First', AtPromptStill'
  PROVE  IInv'
  <1>1. UNCHANGED <<mode, partial, qspibuf, bufsz, svc, selected>> BY DEF devVars
  <1>2. step # "closed" /\ result = "none" /\ step \notin SuouSteps
    BY DEF IInv, Phases, CliSteps, SuouSteps
  <1>3. TypeOK' BY <1>1 DEF IInv, TypeOK
  <1>4. Phases' BY <1>2 DEF IInv, Phases, SuouSteps
  <1>5. Hangs'
    <2>1. Silent("OK") => Silent("OK")' BY DEF Silent
    <2> QED BY <1>1, <1>2, <2>1 DEF IInv, Hangs, CliSteps
  <1>6. /\ OneByOne' /\ AtHere' /\ Counting' /\ Exact' /\ OfThisFile' /\ Ending'
        /\ PassMeansSelected'
    BY <1>2 DEF OneByOne, AtHere, Counting, Exact, OfThisFile, Ending, PassMeansSelected, SuouSteps,
                Astray, CliSteps
  <1> QED BY <1>3, <1>4, <1>5, <1>6 DEF IInv

LEMMA KnockKeeps == IInv /\ Knock /\ UNCHANGED misled => IInv'
  <1> SUFFICES ASSUME IInv, Knock, UNCHANGED misled PROVE IInv' OBVIOUS
  <1>1. /\ wait = "knock" /\ wait' = "type" /\ step \in CliSteps
        /\ UNCHANGED <<step, size, result, xfered, chunksz, toHost, devVars, faults, partial>>
    BY DEF Knock, Goes, IInv, Phases, TypeOK, SuouSteps, CliSteps, devVars
  <1>2. PICK k \in 0..2 : toDev' = toDev \o [i \in 1..k |-> NL] BY DEF Knock
  <1> DEFINE nls == [i \in 1..k |-> NL]
             e == toDev'
  <1>3. NL \in Commands /\ NL.cmd = "nl" BY DEF NL, Plain, Cmd, Commands, Cmds
  <1>4. nls \in Seq(Commands) /\ \A i \in DOMAIN nls : nls[i] = NL BY <1>3
  <1>5. toDev \in Seq(Commands) BY Typed DEF IInv
  <1> HIDE DEF nls
  <1>6. toDev' = toDev \o nls BY <1>2 DEF nls
  <1>7. /\ e \in Seq(Commands)
        /\ \A i \in DOMAIN e : (i \in DOMAIN toDev /\ e[i] = toDev[i]) \/ e[i] = NL
    BY <1>4, <1>5, <1>6, ConcatItems
  <1>9. DOMAIN toDev = {} => \A i \in DOMAIN e : e[i] = NL BY <1>7
  <1>10. toDev = <<>> => DOMAIN toDev = {} OBVIOUS
  <1> HIDE DEF e
  <1>11. First' BY <1>1, <1>9, <1>10 DEF IInv, First, Own, Only, e
  <1>12. AtPromptStill' BY <1>1, <1>9, <1>10 DEF IInv, AtPromptStill, e
  <1>13. toHost \in Seq(Answers) BY Typed DEF IInv
  <1> QED BY <1>1, <1>7, <1>11, <1>12, <1>13, CliKeeps DEF e

LEMMA TypeKeeps == IInv /\ Type /\ UNCHANGED misled => IInv'
  <1> SUFFICES ASSUME IInv, Type, UNCHANGED misled PROVE IInv' OBVIOUS
  <1> DEFINE h == IF step = "alloc" THEN Cmd("alloc", chunksz, 0, 0) ELSE Plain(step)
             d == toDev
             e == toDev'
  <1>1. /\ wait = "type" /\ wait' = "echo" /\ step \in CliSteps /\ toDev' = Append(toDev, h)
        /\ UNCHANGED <<step, size, result, xfered, chunksz, devVars, faults, partial>>
    BY DEF Type, Goes, IInv, Phases, TypeOK, SuouSteps, CliSteps, devVars
  <1>2. PICK k \in 0..Len(toHost) : toHost' = SubSeq(toHost, k + 1, Len(toHost)) BY DEF Type
  <1>3. /\ toDev \in Seq(Commands) /\ toHost \in Seq(Answers) /\ chunksz \in Nat
        /\ DOMAIN d = 1..Len(d) /\ Len(d) \in Nat
    BY Typed DEF IInv
  <1>4. /\ toHost' \in Seq(Answers)
        /\ \A i \in DOMAIN toHost' : i + k \in DOMAIN toHost /\ toHost'[i] = toHost[i + k]
        /\ \A i \in DOMAIN toHost' : i \in Nat \ {0}
    <2>1. Len(toHost) \in Nat BY <1>3
    <2> QED BY <1>2, <1>3, <2>1
  <1>5. toHost = <<>> => toHost' = <<>>
    <2>1. ASSUME toHost = <<>> PROVE toHost' = <<>>
      <3>1. Len(toHost) = 0 BY <2>1
      <3> QED BY <1>2, <3>1
    <2> QED BY <2>1
  <1>6. h \in Commands /\ h.cmd = step
    BY <1>1, <1>3 DEF Cmd, Plain, Commands, Cmds, CliSteps
  <1> HIDE DEF h
  <1>7. /\ e \in Seq(Commands) /\ Len(e) = Len(d) + 1
        /\ \A i \in DOMAIN e :
             (i \in DOMAIN d /\ e[i] = d[i] /\ i < Len(e)) \/ (i = Len(e) /\ e[i] = h)
    BY <1>1, <1>3, <1>6, AppendItems
  <1>9. (\A i \in DOMAIN d : d[i] = NL) => (\A i \in DOMAIN e : i < Len(e) => e[i] = NL)
    BY <1>3, <1>7
  <1>10. \A S : h.cmd \in S /\ Only(S, d) => Only(S, e) BY <1>7 DEF Only
  <1> HIDE DEF d, e
  <1>11. ASSUME step = "getsuouartbuffsz" PROVE First'
    <2>1. /\ Only({"junk", "getsuouartbuffsz"}, d) /\ \A i \in DOMAIN d : d[i] = NL
          /\ toHost # <<>> => Own /\ partial = <<>>
          /\ \A i \in DOMAIN toHost : toHost[i].n # 0 => i = 1
      BY <1>1, <1>11 DEF IInv, First, d
    <2>2. Only({"junk", "getsuouartbuffsz"}, e) BY <1>6, <1>10, <1>11, <2>1
    <2>3. \A i \in DOMAIN toHost' : toHost'[i].n # 0 => i = 1
      <3> SUFFICES ASSUME NEW i \in DOMAIN toHost', toHost'[i].n # 0 PROVE i = 1 OBVIOUS
      <3>1. i + k = 1 BY <1>4, <2>1
      <3> QED BY <1>2, <1>4, <3>1
    <2>4. toHost' # <<>> => Own' /\ partial' = <<>> BY <1>1, <1>5, <2>1 DEF Own
    <2> QED BY <1>1, <1>9, <1>11, <2>1, <2>2, <2>3, <2>4 DEF First, e
  <1>12. step # "getsuouartbuffsz" => First' BY <1>1 DEF First
  <1>13. AtPromptStill'
    <2>1. toHost' = <<>> => Silent("OK")' BY DEF Silent
    <2> QED BY <1>1, <1>5, <1>9, <2>1 DEF IInv, AtPromptStill, d, e
  <1> QED BY <1>1, <1>4, <1>7, <1>11, <1>12, <1>13, CliKeeps DEF e

LEMMA EchoedKeeps == IInv /\ Echoed /\ UNCHANGED misled => IInv'
  <1> SUFFICES ASSUME IInv, Echoed, UNCHANGED misled PROVE IInv' OBVIOUS
  <1> DEFINE d == toDev
             e == toDev'
  <1>1. /\ wait = "echo" /\ wait' = "answer" /\ step \in CliSteps /\ toDev' = Append(toDev, NL)
        /\ toHost # <<>> /\ toHost' = Tail(toHost)
        /\ UNCHANGED <<step, size, result, xfered, chunksz, devVars, faults, partial>>
    BY DEF Echoed, Goes, IInv, Phases, TypeOK, SuouSteps, CliSteps, devVars
  <1>2. toDev \in Seq(Commands) /\ toHost \in Seq(Answers) /\ DOMAIN d = 1..Len(d) /\ Len(d) \in Nat
    BY Typed DEF IInv
  <1>3. NL \in Commands /\ NL.cmd = "nl" BY DEF NL, Plain, Cmd, Commands, Cmds
  <1>4. /\ e \in Seq(Commands) /\ Len(e) = Len(d) + 1
        /\ \A i \in DOMAIN d : e[i] = d[i]
        /\ \A i \in DOMAIN e : i \in DOMAIN d \/ (i = Len(e) /\ e[i] = NL)
    BY <1>1, <1>2, <1>3, AppendItems
  <1>5. /\ toHost' \in Seq(Answers)
        /\ \A i \in DOMAIN toHost' : i + 1 \in DOMAIN toHost /\ toHost'[i] = toHost[i + 1] /\ i # 0
    BY <1>1, <1>2, TailItems
  <1>7. \A S : Only(S, d) => Only(S, e) BY <1>4 DEF Only
  <1>8. d = <<>> <=> Len(d) = 0 BY <1>2
  <1> HIDE DEF d, e
  <1>9. ASSUME \A i \in DOMAIN d : i < Len(d) => d[i] = NL, partial = <<>> \/ d = <<>>
        PROVE  OneLine(partial, e)
    <2> SUFFICES ASSUME NEW i \in DOMAIN e, e[i] = NL, i # Len(e)
                 PROVE  partial = <<>> /\ \A j \in 1..i : e[j] = NL
      BY DEF OneLine
    <2>1. i \in DOMAIN d /\ d[i] = NL /\ i <= Len(d) BY <1>2, <1>4
    <2>2. partial = <<>> BY <1>2, <1>8, <1>9, <2>1
    <2>3. ASSUME NEW j \in 1..i PROVE e[j] = NL
      <3>1. j \in DOMAIN d /\ (j = i \/ j < Len(d)) BY <1>2, <2>1
      <3> QED BY <1>4, <1>9, <2>1, <3>1
    <2> QED BY <2>2, <2>3
  <1>10. First'
    <2> SUFFICES ASSUME step = "getsuouartbuffsz" PROVE First' BY <1>1 DEF First
    <2>1. /\ Only({"junk", "getsuouartbuffsz"}, d) /\ \A i \in DOMAIN d : i < Len(d) => d[i] = NL
          /\ Own /\ (partial = <<>> \/ d = <<>>)
          /\ \A i \in DOMAIN toHost : toHost[i].n # 0 => i = 1
      BY <1>1 DEF IInv, First, d
    <2>2. Only({"junk", "getsuouartbuffsz"}, e) /\ OneLine(partial, e) BY <1>7, <1>9, <2>1
    <2>3. ASSUME NEW i \in DOMAIN toHost' PROVE toHost'[i].n = 0
      <3>1. toHost'[i].n # 0 => i + 1 = 1 BY <1>5, <2>1
      <3>2. i \in Nat BY <1>5
      <3> QED BY <1>5, <3>1, <3>2
    <2> QED BY <1>1, <2>1, <2>2, <2>3 DEF First, Own, e
  <1>11. AtPromptStill'
    <2> SUFFICES ASSUME step \in {"alloc", "fwupdate"}, chunksz = CHUNK PROVE AtPromptStill'
      BY <1>1 DEF AtPromptStill
    <2>1. /\ \A i \in DOMAIN d : i < Len(d) => d[i] = NL
          /\ partial = <<>> \/ d = <<>>
          /\ Silent("OK")
      BY <1>1 DEF IInv, AtPromptStill, d
    <2>2. OneLine(partial, e) BY <1>9, <2>1
    <2>3. \A i \in DOMAIN toHost' : toHost'[i].text # "OK" BY <1>5, <2>1 DEF Silent
    <2> QED BY <1>1, <2>2, <2>3 DEF AtPromptStill, e
  <1> QED BY <1>1, <1>4, <1>5, <1>10, <1>11, CliKeeps DEF e

(* What the host sends next.                                               *)
LEMMA NextRequest ==
  ASSUME IInv, wait = "send"
  PROVE  /\ step \in SuouSteps \ {"started"} /\ chunksz = CHUNK
         /\ Request \in Commands /\ Request # NL /\ Request.cmd = Requested
         /\ Requested \in SuouCmds /\ (step = "end" => Requested = "end")
         /\ Requested = "len" => step \in {"len", "lastlen"}
         /\ Request.at = xfered + Block
         /\ step = "len" => Request.n = chunksz
         /\ Requested = "data" =>
              step \in {"bulk", "last"} /\ Request.of = size /\ Request.n = Block /\ Block > 0
         /\ Block \in Nat /\ xfered + Block <= size
         /\ step = "bulk" => Block = chunksz /\ xfered + Block < size
         /\ step \notin {"bulk", "last"} => Block = 0
  <1>1. step \in SuouSteps \ {"started"} /\ chunksz = CHUNK
    BY DEF IInv, TypeOK, Phases, CliSteps
  <1>2. size \in Nat \ {0} /\ xfered \in 0..size /\ CHUNK \in Nat \ {0} /\ size \in Sizes
    BY Typed DEF IInv, TypeOK
  <1>3. NL.cmd = "nl" BY DEF NL, Plain, Cmd
  <1>4. CASE step = "len"
    <2>1. Block = 0 BY <1>4 DEF Block
    <2>2. Request = Cmd("len", chunksz, 0, xfered) BY <1>4 DEF Request
    <2>3. Request \in Commands BY <1>1, <1>2, <2>2 DEF Cmd, Commands, Cmds, SuouCmds
    <2>4. Request.cmd = "len" /\ Request.n = chunksz /\ Request.at = xfered BY <2>2 DEF Cmd
    <2>5. Requested = "len" /\ xfered + 0 = xfered BY <1>2, <1>4, <2>4 DEF Requested
    <2> QED BY <1>1, <1>2, <1>3, <1>4, <2>1, <2>3, <2>4, <2>5 DEF SuouCmds
  <1>5. CASE step = "lastlen"
    <2>1. Block = 0 BY <1>5 DEF Block
    <2>2. Request = Cmd("len", size - xfered, 0, xfered) BY <1>5 DEF Request
    <2>3. size - xfered \in Nat /\ xfered \in Nat BY <1>2
    <2>4. Request \in Commands BY <2>2, <2>3 DEF Cmd, Commands, Cmds, SuouCmds
    <2>5. Request.cmd = "len" /\ Request.at = xfered BY <2>2 DEF Cmd
    <2>6. Requested = "len" /\ xfered + 0 = xfered BY <1>2, <1>5, <2>5 DEF Requested
    <2> QED BY <1>1, <1>2, <1>3, <1>5, <2>1, <2>4, <2>5, <2>6 DEF SuouCmds
  <1>6. CASE step \in {"bulk", "last"}
    <2>1. Request = Cmd("data", Block, size, xfered + Block) BY <1>6 DEF Request
    <2>2. Block \in Nat /\ Block > 0 /\ xfered + Block <= size
          /\ (step = "bulk" => Block = chunksz /\ xfered + Block < size)
      BY <1>1, <1>2, <1>6 DEF Block, IInv, Phases
    <2>3. Request \in Commands BY <1>2, <2>1, <2>2 DEF Cmd, Commands, Cmds, SuouCmds
    <2>4. /\ Request.cmd = "data" /\ Request.n = Block /\ Request.of = size
          /\ Request.at = xfered + Block
      BY <2>1 DEF Cmd
    <2>5. Requested = "data" BY <1>6, <2>4 DEF Requested
    <2> QED BY <1>1, <1>3, <1>6, <2>2, <2>3, <2>4, <2>5 DEF SuouCmds
  <1>7. CASE step \notin {"len", "lastlen", "bulk", "last"}
    <2>1. Block = 0 /\ Request = Cmd(step, 0, 0, xfered) BY <1>7 DEF Block, Request
    <2>2. step \in {"status", "start", "info", "end"} BY <1>1, <1>7 DEF SuouSteps
    <2>3. Request \in Commands /\ Request.cmd = step /\ Request.at = xfered
      BY <1>2, <2>1, <2>2 DEF Cmd, Commands, Cmds, SuouCmds, MemDev
    <2>4. Requested = step BY <2>2, <2>3 DEF Requested
    <2>5. xfered + 0 <= size /\ xfered + 0 = xfered BY <1>2
    <2> QED BY <1>1, <1>3, <2>1, <2>2, <2>3, <2>4, <2>5 DEF SuouCmds, MemDev
  <1> QED BY <1>4, <1>5, <1>6, <1>7

(* The request is sent: once, and perhaps junk before it.                  *)
LEMMA SentKeeps ==
  ASSUME IInv, wait = "send", NEW s \in Seq(Commands), toDev' = toDev \o s,
         \A i \in DOMAIN s :
           \/ s[i] = Request /\ i = Len(s) - 1
           \/ s[i] = Plain("junk")
           \/ s[i] = NL /\ i = Len(s),
         Goes(step, "answer"), xfered' = xfered + Block,
         UNCHANGED <<chunksz, toHost, devVars, misled>>, faults' \in 0..MaxFaults
  PROVE  IInv'
  <1> DEFINE e == toDev'
             q == Request
             b == Block
             r == Requested
  <1>1. /\ step' = step /\ wait' = "answer" /\ xfered' = xfered + b /\ toDev' = toDev \o s
        /\ UNCHANGED <<size, result, chunksz, toHost, mode, partial, qspibuf, bufsz, svc, selected,
                       misled>>
    BY DEF Goes, devVars
  <1>2. /\ step \in SuouSteps \ {"started"} /\ chunksz = CHUNK
        /\ q \in Commands /\ q # NL /\ q.cmd = r /\ q.at = xfered + b
        /\ r \in SuouCmds /\ (step = "end" => r = "end")
        /\ r = "len" => step \in {"len", "lastlen"}
        /\ step = "len" => q.n = chunksz
        /\ r = "data" => step \in {"bulk", "last"} /\ q.of = size /\ q.n = b /\ b > 0
        /\ b \in Nat /\ xfered + b <= size
        /\ step = "bulk" => b = chunksz /\ xfered + b < size
        /\ step \notin {"bulk", "last"} => b = 0
    BY NextRequest
  <1>3. Requested' = r /\ Wanted' = Wanted /\ Astray' = Astray /\ Altered' = Altered
    BY <1>1 DEF Requested, Altered, Request, Block, Wanted, Astray, Cmd
  <1>4. /\ NL.cmd = "nl" /\ Plain("junk").cmd = "junk" /\ Plain("junk") # NL
    BY DEF NL, Plain, Cmd
  <1>5. \A i \in DOMAIN s :
          \/ s[i] = q /\ i = Len(s) - 1
          \/ s[i].cmd = "junk" /\ s[i] # NL
          \/ s[i] = NL /\ i = Len(s)
    BY <1>4
  <1>6. size \in Nat \ {0} /\ xfered \in 0..size /\ CHUNK \in Nat \ {0}
    BY Typed DEF IInv
  <1>7. /\ toDev \in Seq(Commands) /\ e \in Seq(Commands) /\ Len(e) = Len(toDev) + Len(s)
        /\ \A i \in DOMAIN e :
             \/ i \in DOMAIN toDev /\ e[i] = toDev[i]
             \/ i - Len(toDev) \in DOMAIN s /\ e[i] = s[i - Len(toDev)]
        /\ Len(toDev) \in Nat /\ Len(s) \in Nat /\ DOMAIN e \subseteq Nat
    <2>1. toDev \in Seq(Commands) BY Typed DEF IInv
    <2>2. e \in Seq(Commands) BY <2>1, ConcatItems
    <2> QED BY <2>1, <2>2, ConcatItems
  <1>8. step # "end" /\ ~Astray => e = s /\ Quiet /\ partial = <<>> /\ DOMAIN partial = {}
    <2>1. ASSUME step # "end", ~Astray PROVE toDev = <<>> /\ partial = <<>>
      BY <1>2, <2>1 DEF IInv, OneByOne, Quiet
    <2> QED BY <1>1, <2>1 DEF Quiet
  <1> HIDE DEF e, q, b, r
  <1>9. TypeOK'
    <2>1. xfered + b \in 0..size BY <1>2, <1>6
    <2> QED BY <1>1, <1>7, <2>1 DEF IInv, TypeOK, e
  <1>10. Phases'
    <2>1. step = "bulk" => xfered + b < size /\ (size > 2 * chunksz \/ xfered + b = chunksz)
      <3>1. step = "bulk" => size > 2 * chunksz \/ xfered = 0 BY DEF IInv, Phases
      <3> QED BY <1>2, <1>6, <3>1
    <2>2. step \notin {"bulk", "last"} => xfered + b = xfered BY <1>2, <1>6
    <2>3. step \notin CliSteps /\ step # "closed" BY <1>2 DEF SuouSteps, CliSteps
    <2> QED BY <1>1, <1>2, <2>1, <2>2, <2>3 DEF IInv, Phases
  <1>11. Hangs'
    <2>1. ~(mode = "hang" /\ step \in {"bulk", "last"} /\ ~(misled /\ step = "bulk"))
      BY DEF IInv, Hangs
    <2> QED BY <1>1, <1>2, <2>1 DEF IInv, Hangs, Silent, SuouSteps
  <1>12. First' /\ AtPromptStill' BY <1>1, <1>2 DEF First, AtPromptStill, SuouSteps
  <1>13. \A S : {"junk", r} \subseteq S => Only(S, s) BY <1>2, <1>5 DEF Only
  <1>21. \A S : Only(S, toDev) /\ Only(S, s) => Only(S, e) BY <1>7 DEF Only
  <1>22. r \in Altered
    <2>1. "start" \in MemDev BY DEF MemDev
    <2> QED BY <2>1 DEF Altered, r
  <1>23. /\ step \notin {"bulk", "last", "start", "end"} => Wanted = "OK"
         /\ step = "start" => Wanted = "IMG_STARTED"
         /\ step \in {"bulk", "last"} => Wanted = "CMP_OK" /\ r = "data"
    BY DEF Wanted, r, Requested, Request, Cmd
  <1>24. ASSUME step # "end"
         PROVE  /\ Silent("OK") /\ (step = "start" => Silent("IMG_STARTED"))
                /\ ~Astray /\ step \notin {"lastlen", "info"} => Silent("CMP_OK")
                /\ \A i \in DOMAIN toHost : toHost[i].text = "CMP_OK" => toHost[i].re = "data"
                /\ Astray => Only({"junk", "data"}, partial) /\ Only({"junk", "data"}, toDev)
    BY <1>2, <1>24 DEF IInv, OneByOne
  <1>25. ASSUME step # "end", ~Astray PROVE ~(\E i \in DOMAIN toHost : toHost[i].text = Wanted)
    BY <1>2, <1>23, <1>24, <1>25 DEF Silent
  <1>14. OneByOne'
    <2> SUFFICES ASSUME step # "end" PROVE OneByOne' BY <1>1 DEF OneByOne
    <2> DEFINE ours == {"junk"} \cup Altered \cup IF Astray THEN {"data"} ELSE {}
    <2>1. Only(ours, partial) /\ Only(ours, e)
      <3>1. Only(ours, s) BY <1>13, <1>22
      <3>2. CASE ~Astray BY <1>8, <3>1, <3>2 DEF Only
      <3>3. CASE Astray
        <4>1. Only(ours, partial) /\ Only(ours, toDev) BY <1>24, <3>3 DEF Only
        <4> QED BY <1>21, <3>1, <4>1
      <3> QED BY <3>2, <3>3
    <2>2. ~Astray => OneLine(partial, e) BY <1>2, <1>5, <1>8 DEF OneLine
    <2>3. LenLast(partial, e)
      <3>1. ASSUME NEW i \in DOMAIN partial PROVE partial[i].cmd # "len"
        BY <1>4, <1>8, <1>24, <3>1 DEF Only
      <3>2. ASSUME NEW i \in DOMAIN e, e[i].cmd = "len" PROVE i >= Len(e) - 1
        <4>1. i \notin DOMAIN toDev \/ e[i] # toDev[i]
          <5>1. CASE ~Astray
            <6>1. toDev = <<>> BY <1>8, <5>1 DEF Quiet
            <6> QED BY <6>1
          <5>2. CASE Astray BY <1>4, <1>24, <3>2, <5>2 DEF Only
          <5> QED BY <5>1, <5>2
        <4>2. i - Len(toDev) \in DOMAIN s /\ s[i - Len(toDev)].cmd = "len"
          BY <1>7, <3>2, <4>1
        <4>3. i - Len(toDev) = Len(s) - 1 \/ i - Len(toDev) = Len(s) BY <1>5, <4>2
        <4> QED BY <1>7, <4>3
      <3> QED BY <3>1, <3>2 DEF LenLast
    <2>4. \A i \in DOMAIN toHost : toHost[i].text = Wanted => toHost[i].re = Requested /\ Astray
      BY <1>2, <1>23, <1>24, <1>25 DEF Astray, Silent, r
    <2> QED BY <1>1, <1>2, <1>3, <1>24, <2>1, <2>2, <2>3, <2>4 DEF OneByOne, Silent, e, r
  <1>26. AtHere'
    <2> SUFFICES ASSUME step # "end", ~(misled /\ step = "bulk") PROVE AtHere'
      BY <1>1 DEF AtHere
    <2>1. ASSUME NEW i \in DOMAIN partial PROVE partial[i].cmd \notin Altered
      <3>1. CASE Astray
        <4>1. step = "lastlen" /\ Altered = {"len"}
          BY <3>1 DEF Astray, Altered, Requested, Request, Cmd
        <4> QED BY <1>4, <1>24, <3>1, <4>1 DEF Only
      <3> QED BY <1>8, <3>1
    <2>2. ASSUME NEW i \in DOMAIN e, e[i].cmd \in Altered PROVE e[i].at = xfered + b
      <3>1. e[i] = q \/ e[i].cmd \in {"junk", "nl", "data"}
        BY <1>4, <1>5, <1>7, <1>8, <1>24 DEF Only
      <3>2. Astray => Altered = {"len"}
        BY DEF Astray, Altered, Requested, Request, Cmd
      <3>3. e[i] = q
        <4>1. CASE ~Astray
          <5>1. e[i] = q \/ e[i].cmd \in {"junk", "nl"} BY <1>4, <1>5, <1>8, <4>1
          <5>2. "junk" \notin Altered /\ "nl" \notin Altered
            BY <1>2 DEF Altered, MemDev, SuouCmds, r
          <5> QED BY <2>2, <5>1, <5>2
        <4> QED BY <2>2, <3>1, <3>2, <4>1
      <3> QED BY <1>2, <3>3
    <2>3. \A i \in DOMAIN toHost :
            ~(toHost[i].text \in {"OK", Wanted} /\ toHost[i].re = Requested)
      <3>1. CASE Astray
        <4>1. step = "lastlen" BY <3>1 DEF Astray
        <4> QED BY <1>23, <1>24, <4>1 DEF Silent
      <3> QED BY <1>24, <1>25, <3>1 DEF Silent
    <2> QED BY <1>1, <1>3, <2>1, <2>2, <2>3 DEF AtHere, FromHere, e, r
  <1>17. Counting'
    <2>1. ASSUME step \in {"bulk", "last"} \/ Astray
          PROVE  DataSent(partial)' /\ DataSent(toDev)'
      <3>1. svc.on /\ ~misled => svc.got + b = xfered'
        <4>1. svc.on /\ ~misled => svc.got = xfered BY <2>1 DEF IInv, Counting, Astray
        <4> QED BY <1>1, <4>1
      <3>2. Astray => misled /\ DataSent(partial) /\ DataSent(toDev)
        BY DEF IInv, Counting, Astray
      <3>3. DataSent(partial)' BY <1>1, <1>8, <2>1, <3>2 DEF DataSent, Astray
      <3>4. \A i \in DOMAIN e : e[i].cmd = "data" =>
              e[i] = q \/ (Astray /\ i \in DOMAIN toDev /\ e[i] = toDev[i])
        BY <1>4, <1>5, <1>7, <1>8, <2>1 DEF Astray
      <3>5. ASSUME NEW i \in DOMAIN e, e[i].cmd = "data"
            PROVE  /\ e[i].of = size /\ e[i].n > 0
                   /\ svc.on /\ ~misled => svc.got + e[i].n = xfered'
                   /\ step = "bulk" => e[i].n = chunksz
        <4>1. CASE e[i] = q BY <1>2, <3>1, <3>5, <4>1
        <4>2. CASE Astray /\ i \in DOMAIN toDev /\ e[i] = toDev[i]
          BY <3>2, <3>5, <4>2 DEF DataSent
        <4> QED BY <3>4, <3>5, <4>1, <4>2
      <3> QED BY <1>1, <3>3, <3>5 DEF DataSent, e
    <2>2. step \in {"len", "lastlen"} => xfered' = xfered BY <1>1, <1>2, <1>6
    <2>3. step \in {"bulk", "last"} /\ ~misled => Silent("CMP_OK") BY <1>24 DEF Astray
    <2>4. step = "start" => Silent("IMG_STARTED") BY <1>24
    <2> QED BY <1>1, <1>2, <1>3, <2>1, <2>2, <2>3, <2>4 DEF IInv, Counting, Silent
  <1>18. Exact'
    <2> SUFFICES ASSUME ~misled PROVE Exact' BY <1>1 DEF Exact
    <2>1. step = "len" => LenSent(partial)' /\ LenSent(toDev)'
      BY <1>1, <1>2, <1>4, <1>5, <1>8 DEF LenSent, e, Astray
    <2>2. step = "len" => Silent("OK") BY <1>24
    <2>3. step = "bulk" => Silent("CMP_OK") BY <1>24 DEF Astray
    <2> QED BY <1>1, <1>2, <2>1, <2>2, <2>3 DEF IInv, Exact, Silent
  <1>19. OfThisFile' /\ PassMeansSelected' BY <1>1 DEF IInv, OfThisFile, PassMeansSelected
  <1>20. Ending'
    <2>1. result = "none" BY <1>2 DEF IInv, Phases, SuouSteps
    <2>2. step = "end" => Only({"junk"} \cup MemDev, s) BY <1>2, <1>13 DEF MemDev
    <2> QED BY <1>1, <1>21, <2>1, <2>2 DEF IInv, Ending, Only, e
  <1> QED BY <1>9, <1>10, <1>11, <1>12, <1>14, <1>17, <1>18, <1>19, <1>20, <1>26 DEF IInv

LEMMA SendKeeps == IInv /\ Send /\ UNCHANGED misled => IInv'
  <1> SUFFICES ASSUME IInv, Send, UNCHANGED misled PROVE IInv' OBVIOUS
  <1> DEFINE junk == Plain("junk")
             q == Request
  <1>1. wait = "send" /\ UNCHANGED devVars /\ faults' \in 0..MaxFaults
    BY FaultTyped DEF Send, IInv
  <1>2. q \in Commands /\ NL \in Commands /\ junk \in Commands /\ junk.cmd = "junk"
    BY <1>1, NextRequest DEF NL, Plain, Cmd, Commands, Cmds
  <1> DEFINE Sent == /\ Goes(step, "answer") /\ xfered' = xfered + Block
                     /\ UNCHANGED <<chunksz, toHost>>
  <1>3. \/ toDev' = toDev \o <<q, NL>> /\ Sent
        \/ toDev' = toDev \o (<<junk>> \o <<q, NL>>) /\ Sent
        \/ Ends("fail", <<junk>>)
    <2>1. Line(q) = <<q, NL>> BY DEF Line
    <2>2. toDev \in Seq(Commands) BY Typed DEF IInv
    <2>3. (toDev \o <<junk>>) \o <<q, NL>> = toDev \o (<<junk>> \o <<q, NL>>)
      <3> HIDE DEF q, junk
      <3> QED BY <1>2, <2>2
    <2> QED BY <2>1, <2>3 DEF Send
  <1> DEFINE Line3(s) == \A i \in DOMAIN s :
                           \/ s[i] = q /\ i = Len(s) - 1
                           \/ s[i] = junk
                           \/ s[i] = NL /\ i = Len(s)
  <1>4. ASSUME NEW s \in Seq(Commands), toDev' = toDev \o s, Sent, Line3(s) PROVE IInv'
    BY <1>1, <1>4, SentKeeps
  <1> HIDE DEF Sent, q
  <1>5. CASE toDev' = toDev \o <<q, NL>> /\ Sent
    <2> DEFINE s == <<q, NL>>
    <2>1. s \in Seq(Commands) /\ Line3(s) BY <1>2
    <2> HIDE DEF s
    <2>2. toDev' = toDev \o s BY <1>5 DEF s
    <2> QED BY <1>4, <1>5, <2>1, <2>2
  <1>6. CASE toDev' = toDev \o (<<junk>> \o <<q, NL>>) /\ Sent
    <2> DEFINE t == <<q, NL>>
               s == <<junk>> \o t
    <2>1. /\ t \in Seq(Commands) /\ Len(t) = 2 /\ DOMAIN t = 1..2 /\ t[1] = q /\ t[2] = NL
          /\ <<junk>> \in Seq(Commands) /\ Len(<<junk>>) = 1
          /\ \A i \in DOMAIN <<junk>> : <<junk>>[i] = junk
      BY <1>2
    <2> HIDE DEF t
    <2>2. s \in Seq(Commands) /\ Line3(s)
      <3>1. /\ s \in Seq(Commands) /\ Len(s) = 3
            /\ \A i \in DOMAIN s : s[i] = junk \/ (i - 1 \in 1..2 /\ s[i] = t[i - 1])
        BY <2>1, ConcatItems
      <3>2. DOMAIN s \subseteq Nat BY <3>1
      <3> HIDE DEF s
      <3> QED BY <2>1, <3>1, <3>2
    <2> HIDE DEF s
    <2>3. toDev' = toDev \o s BY <1>6 DEF s, t
    <2> QED BY <1>4, <1>6, <2>2, <2>3
  <1>7. CASE Ends("fail", <<junk>>)
    <2>1. <<junk>> \in Seq(Commands) BY <1>2
    <2> QED BY <1>1, <1>7, <2>1, EndsKeeps
  <1> QED BY <1>3, <1>5, <1>6, <1>7

\* What the host leaves on the line when it gives up or is through.
LEMMA LastWords ==
  /\ Aborts \in Seq(Commands) /\ <<>> \in Seq(Commands)
  /\ \A c \in {"abort", "reboot"} :
       Line(Plain(c)) \in Seq(Commands) /\ Only({"junk"} \cup MemDev, Line(Plain(c)))
  <1>1. <<>> \in Seq(Commands) OBVIOUS
  <1>2. NL \in Commands /\ NL.cmd = "nl" BY DEF NL, Plain, Cmd, Commands, Cmds
  <1>3. ASSUME NEW c \in {"abort", "reboot"}
        PROVE  Line(Plain(c)) \in Seq(Commands) /\ Only({"junk"} \cup MemDev, Line(Plain(c)))
    <2>1. Plain(c) \in Commands /\ Plain(c).cmd = c
      BY DEF Plain, Cmd, Commands, Cmds, SuouCmds, MemDev
    <2>2. Line(Plain(c)) = <<Plain(c), NL>> BY DEF Line
    <2>3. \A p \in Commands : LET t == <<p, NL>> IN
            t \in Seq(Commands) /\ \A i \in DOMAIN t : t[i] = p \/ t[i] = NL
      BY <1>2
    <2> QED BY <1>2, <2>1, <2>2, <2>3 DEF Only, MemDev
  <1>4. Aborts \in {<<>>, Line(Plain("abort"))} BY DEF Aborts
  <1> QED BY <1>1, <1>3, <1>4

LEMMA RejectKeeps == IInv /\ Reject /\ UNCHANGED misled => IInv'
  <1> SUFFICES ASSUME IInv, Reject, UNCHANGED misled PROVE IInv' OBVIOUS
  <1>1. Ends("fail", Aborts) /\ UNCHANGED devVars /\ faults' \in 0..MaxFaults
    BY DEF Reject, IInv, TypeOK
  <1> QED BY <1>1, LastWords, EndsKeeps

LEMMA TimeOutKeeps == IInv /\ TimeOut /\ UNCHANGED misled => IInv'
  <1> SUFFICES ASSUME IInv, TimeOut, UNCHANGED misled PROVE IInv' OBVIOUS
  <1>1. /\ Ends("fail", <<>>) \/ Ends("fail", Aborts)
        /\ UNCHANGED devVars /\ faults' \in 0..MaxFaults
    BY FaultTyped DEF TimeOut, IInv
  <1> QED BY <1>1, LastWords, EndsKeeps

(* The answer is as expected.  From here on it is the head of toHost.      *)
AnswerIsWanted == wait = "answer" /\ toHost # <<>> /\ Head(toHost).text = Wanted

\* What the invariant says of it, once do_firmware_update has begun.
LEMMA WantedIs ==
  ASSUME IInv, AnswerIsWanted
  PROVE  /\ 1 \in DOMAIN toHost /\ toHost[1].text = Wanted /\ toHost[1].n \in Nat
         /\ Head(toHost) = toHost[1]
         /\ Tail(toHost) \in Seq(Answers)
         /\ \A i \in DOMAIN Tail(toHost) :
              i + 1 \in DOMAIN toHost /\ Tail(toHost)[i] = toHost[i + 1] /\ i \in Nat \ {0}
         /\ 1 = Len(toHost) => Tail(toHost) = <<>>
         /\ Len(Tail(toHost)) = Len(toHost) - 1 /\ Len(toHost) \in Nat
         /\ step \in SuouSteps \ {"end"} => toHost[1].re = Requested /\ (~Astray => Quiet)
         /\ step \in {"status", "started", "len", "lastlen", "info"} =>
              Tail(toHost) = <<>> /\ Quiet /\ mode # "hang"
         /\ step \in {"bulk", "last"} => \A i \in DOMAIN toHost :
              /\ toHost[i].text # "OK"
              /\ toHost[i].text = "CMP_OK" => toHost[i].re = "data"
  <1>1. toHost \in Seq(Answers) /\ toHost # <<>> BY Typed DEF IInv, AnswerIsWanted
  <1>2. /\ 1 \in DOMAIN toHost /\ Head(toHost) = toHost[1]
        /\ toHost[1] \in Answers /\ Tail(toHost) \in Seq(Answers)
        /\ \A i \in DOMAIN Tail(toHost) :
             i + 1 \in DOMAIN toHost /\ Tail(toHost)[i] = toHost[i + 1] /\ i \in Nat \ {0}
        /\ 1 = Len(toHost) => Tail(toHost) = <<>>
        /\ Len(Tail(toHost)) = Len(toHost) - 1 /\ Len(toHost) \in Nat
    BY <1>1, TailItems
  <1>3. toHost[1].text = Wanted BY <1>2 DEF AnswerIsWanted
  <1>4. toHost[1].n \in Nat BY <1>2 DEF Answers
  <1>5. ASSUME step \in SuouSteps \ {"end"}
        PROVE  /\ toHost[1].re = Requested /\ (~Astray => Quiet)
               /\ Wanted = "OK" => 1 = Len(toHost) /\ Quiet
               /\ step \in {"bulk", "last"} => \A i \in DOMAIN toHost :
                    toHost[i].text # "OK" /\ (toHost[i].text = Wanted => toHost[i].re = Requested)
    BY <1>2, <1>3, <1>5 DEF AnswerIsWanted, IInv, OneByOne
  <1>7. step \in {"bulk", "last"} => Wanted = "CMP_OK" /\ Requested = "data"
    BY DEF Wanted, Requested, Request, Cmd
  <1>8. Wanted = "OK" /\ step \in SuouSteps => mode # "hang"
    BY <1>2, <1>3 DEF IInv, Hangs, Silent, SuouSteps
  <1>6. step \in {"status", "started", "len", "lastlen", "info"} => Wanted = "OK" BY DEF Wanted
  <1> QED BY <1>2, <1>3, <1>4, <1>5, <1>6, <1>7, <1>8 DEF SuouSteps

\* The next command at the prompt.
LEMMA ToPromptKeeps ==
  ASSUME IInv, step \in CliSteps, step' \in {"alloc", "fwupdate"}, wait' = "knock",
         UNCHANGED <<size, result, xfered, toDev, devVars, misled, faults>>, chunksz' \in {0, CHUNK},
         toHost' \in Seq(Answers), chunksz' = CHUNK => Quiet /\ toHost' = <<>> /\ mode # "hang"
  PROVE  IInv'
  <1>1. UNCHANGED <<mode, partial, qspibuf, bufsz, svc, selected>> BY DEF devVars
  <1>2. result = "none" /\ xfered = 0 BY DEF IInv, Phases, CliSteps
  <1>3. TypeOK' BY <1>1 DEF IInv, TypeOK, CliSteps
  <1>4. Phases' BY <1>2 DEF Phases, SuouSteps, CliSteps
  <1>5. Hangs'
    <2>1. CHUNK # 0 BY UpdateAssumption
    <2> QED BY <1>1, <2>1 DEF IInv, Hangs
  <1>6. First' /\ OneByOne' /\ AtHere' BY DEF First, OneByOne, AtHere, SuouSteps
  <1>7. AtPromptStill' BY <1>1 DEF AtPromptStill, Quiet
  <1>8. Counting' /\ Exact' /\ OfThisFile' /\ Ending' /\ PassMeansSelected'
    BY <1>2 DEF Counting, Exact, OfThisFile, Ending, PassMeansSelected, Astray
  <1> QED BY <1>3, <1>4, <1>5, <1>6, <1>7, <1>8 DEF IInv

LEMMA PromptAcceptKeeps ==
  ASSUME IInv, AnswerIsWanted, step \in {"getsuouartbuffsz", "alloc"}, GoesOn,
         UNCHANGED <<devVars, misled, faults>>
  PROVE  IInv'
  <1>1. /\ step' \in {"alloc", "fwupdate"} /\ wait' = "knock" /\ toHost' = Tail(toHost)
        /\ UNCHANGED <<size, result, xfered, toDev>>
        /\ chunksz' = IF step = "getsuouartbuffsz" THEN toHost[1].n \div 2 ELSE chunksz
    <2>1. Following \in {"alloc", "fwupdate"} BY DEF Following
    <2>2. Head(toHost) = toHost[1] BY WantedIs
    <2> QED BY <2>1, <2>2 DEF GoesOn, Goes, CliSteps
  <1>2. toHost' \in Seq(Answers) /\ toHost[1].text = "OK" /\ toHost[1].n \in Nat /\ 1 \in DOMAIN toHost
    BY <1>1, WantedIs DEF Wanted
  <1>3. chunksz \in {0, CHUNK} /\ CHUNK \in Nat \ {0} BY Typed DEF IInv
  <1>4. wait = "answer" BY DEF AnswerIsWanted
  <1>6. chunksz' = CHUNK => mode # "hang"
    <2>1. ~Silent("OK") BY <1>2 DEF Silent
    <2> QED BY <1>1, <2>1 DEF IInv, Hangs
  <1>5. chunksz' \in {0, CHUNK} /\ (chunksz' = CHUNK => Quiet /\ toHost' = <<>>)
    <2>1. CASE step = "getsuouartbuffsz"
      <3>1. toHost[1].n # 0 => 1 = Len(toHost) /\ Quiet /\ toHost[1].n = 2 * CHUNK
        BY <1>2, <1>4, <2>1 DEF IInv, First
      <3>2. 0 \div 2 = 0 /\ (2 * CHUNK) \div 2 = CHUNK BY <1>3, Division
      <3>3. 1 = Len(toHost) => toHost' = <<>> BY <1>1, WantedIs
      <3>4. CASE toHost[1].n = 0 BY <1>1, <1>3, <2>1, <3>2, <3>4
      <3>5. CASE toHost[1].n # 0 BY <1>1, <2>1, <3>1, <3>2, <3>3, <3>5
      <3> QED BY <3>4, <3>5
    <2>2. CASE step = "alloc"
      <3>1. chunksz = CHUNK => 1 = Len(toHost) /\ Quiet
        BY <1>2, <1>4, <2>2 DEF IInv, AtPromptStill
      <3>2. 1 = Len(toHost) => toHost' = <<>> BY <1>1, WantedIs
      <3> QED BY <1>1, <1>3, <2>2, <3>1, <3>2
    <2> QED BY <2>1, <2>2
  <1> QED BY <1>1, <1>2, <1>5, <1>6, ToPromptKeeps DEF CliSteps

\* The next request of the service engine.
LEMMA ToSendKeeps ==
  ASSUME IInv, step \in SuouSteps \cup {"fwupdate"},
         step' \in {"status", "start", "len", "bulk", "lastlen", "last", "info"}, wait' = "send",
         UNCHANGED <<size, result, xfered, chunksz, toDev, devVars, misled, faults>>,
         toHost' \in Seq(Answers), Silent("OK")', step' = "start" => toHost' = <<>>,
         \A i \in DOMAIN toHost' : toHost'[i].text = "CMP_OK" => toHost'[i].re = "data",
         Astray' => Only({"junk", "data"}, partial) /\ Only({"junk", "data"}, toDev),
         ~Astray' => Quiet /\ (step' \notin {"lastlen", "info"} => Silent("CMP_OK")'),
         Phases', Counting', Exact', Hangs', OfThisFile'
  PROVE  IInv'
  <1>1. UNCHANGED <<mode, partial, qspibuf, bufsz, svc, selected>> BY DEF devVars
  <1>2. result = "none" BY DEF IInv, Phases, SuouSteps
  <1>3. TypeOK' BY <1>1 DEF IInv, TypeOK, SuouSteps
  <1>4. AtHere' BY DEF AtHere
  <1>5. First' /\ AtPromptStill' BY DEF First, AtPromptStill
  <1>6. OneByOne'
    <2>1. Quiet' = Quiet /\ \A S : Only(S, partial') = Only(S, partial) /\ Only(S, toDev') = Only(S, toDev)
      BY <1>1 DEF Quiet
    <2>2. step' = "start" => Silent("IMG_STARTED")' BY DEF Silent
    <2> QED BY <1>1, <2>1, <2>2 DEF OneByOne
  <1>7. Ending' /\ PassMeansSelected' BY <1>2 DEF Ending, PassMeansSelected
  <1> QED BY <1>3, <1>4, <1>5, <1>6, <1>7 DEF IInv

LEMMA RequestAcceptKeeps ==
  ASSUME IInv, AnswerIsWanted, GoesOn,
         step \in {"status", "started", "len", "bulk", "lastlen", "last"},
         UNCHANGED <<devVars, misled, faults>>
  PROVE  IInv'
  <1>1. /\ step' = Following /\ toHost' = Tail(toHost)
        /\ UNCHANGED <<size, result, xfered, chunksz, toDev>>
        /\ wait' = IF Following \in CliSteps THEN "knock"
                   ELSE IF Following = "started" THEN "answer" ELSE "send"
    BY DEF GoesOn, Goes
  <1>2. UNCHANGED <<mode, partial, qspibuf, bufsz, svc, selected, misled>> BY DEF devVars
  <1>3. /\ size \in Nat \ {0} /\ xfered \in 0..size /\ CHUNK \in Nat \ {0} /\ chunksz = CHUNK
        /\ wait = "answer" /\ result = "none"
    BY Typed DEF IInv, Phases, SuouSteps, AnswerIsWanted
  <1>4. /\ toHost' \in Seq(Answers) /\ 1 \in DOMAIN toHost /\ toHost[1].text = Wanted
        /\ step \notin {"bulk", "last"} => toHost' = <<>> /\ Quiet /\ mode # "hang"
        /\ ~Astray => Quiet
        /\ step \in {"bulk", "last"} => \A i \in DOMAIN toHost :
             /\ toHost[i].text # "OK"
             /\ toHost[i].text = "CMP_OK" => toHost[i].re = "data"
        /\ \A i \in DOMAIN toHost' :
             i + 1 \in DOMAIN toHost /\ toHost'[i] = toHost[i + 1] /\ i \in Nat \ {0}
    BY <1>1, WantedIs DEF SuouSteps
  <1>5. toHost' = <<>> => DOMAIN toHost' = {} OBVIOUS
  <1>6. Silent("OK")' BY <1>4, <1>5 DEF Silent
  <1>7. /\ step = "status" => step' = "start" /\ xfered = 0
        /\ step = "started" => xfered = 0 /\
             \/ step' = "len" /\ size > 2 * chunksz
             \/ step' = "bulk" /\ size <= 2 * chunksz /\ size > chunksz
             \/ step' = "lastlen" /\ size <= chunksz
        /\ step = "len" => step' = "bulk" /\ xfered = 0 /\ size > 2 * chunksz
        /\ step = "bulk" => xfered < size /\
             \/ step' = "bulk" /\ size > 2 * chunksz /\ size - xfered > chunksz
             \/ step' = "lastlen" /\ size - xfered <= chunksz
        /\ step = "lastlen" => step' = "last" /\ xfered < size /\ size - xfered <= chunksz
        /\ step = "last" => step' = "info"
    <2>1. /\ step \in {"status", "started", "len"} => xfered = 0
          /\ step = "len" => size > 2 * chunksz
          /\ step = "bulk" => xfered < size /\ (size > 2 * chunksz \/ xfered = chunksz)
          /\ step = "lastlen" => xfered < size /\ size - xfered <= chunksz
      BY <1>3 DEF IInv, Phases
    <2>2. /\ step = "status" => Following = "start"
          /\ step = "started" => Following = IF size > 2 * chunksz THEN "len" ELSE NextBlock
          /\ step \in {"len", "bulk"} => Following = NextBlock
          /\ step = "lastlen" => Following = "last"
          /\ step = "last" => Following = "info"
      BY DEF Following, FirstBlock
    <2>3. NextBlock = IF size - xfered > chunksz THEN "bulk" ELSE "lastlen" BY DEF NextBlock
    <2>4. \A n \in {chunksz, 2 * chunksz} : ~(size > n) <=> size <= n BY <1>3
    <2>5. CASE step = "started"
      <3>1. xfered = 0 /\ step' = IF size > 2 * chunksz THEN "len" ELSE NextBlock
        BY <1>1, <2>1, <2>2, <2>5
      <3>2. size - xfered = size BY <1>3, <3>1
      <3>3. NextBlock = IF size > chunksz THEN "bulk" ELSE "lastlen" BY <2>3, <3>2
      <3>4. \/ step' = "len" /\ size > 2 * chunksz
            \/ step' = "bulk" /\ size <= 2 * chunksz /\ size > chunksz
            \/ step' = "lastlen" /\ size <= chunksz
        BY <2>4, <3>1, <3>3
      <3> QED BY <2>5, <3>1, <3>4
    <2>6. CASE step = "len"
      <3>1. xfered = 0 /\ size > 2 * chunksz /\ step' = NextBlock BY <1>1, <2>1, <2>2, <2>6
      <3>2. size - xfered > chunksz BY <1>3, <3>1
      <3> QED BY <2>3, <2>6, <3>1, <3>2
    <2>7. CASE step = "bulk"
      <3>1. /\ xfered < size /\ (size > 2 * chunksz \/ xfered = chunksz) /\ step' = NextBlock
        BY <1>1, <2>1, <2>2, <2>7
      <3>2. ~(size - xfered > chunksz) => size - xfered <= chunksz BY <1>3
      <3>3. size - xfered > chunksz => size > 2 * chunksz BY <1>3, <3>1
      <3> QED BY <2>3, <2>7, <3>1, <3>2, <3>3
    <2>8. CASE step \in {"status", "lastlen", "last"} BY <1>1, <2>1, <2>2, <2>8
    <2> QED BY <2>5, <2>6, <2>7, <2>8
  <1>8. /\ step' \in {"start", "len", "bulk", "lastlen", "last", "info"} /\ wait' = "send"
        /\ step' = Following
    BY <1>1, <1>7 DEF CliSteps
  <1>14. step = "bulk" => Wanted = "CMP_OK" BY DEF Wanted
  <1>15. Astray' <=> misled /\ step' \in {"bulk", "lastlen"} BY <1>2 DEF Astray
  <1>16. step' \in {"bulk", "lastlen"} => step \in {"started", "len", "bulk"} BY <1>7
  <1>17. step' \notin {"bulk", "lastlen", "info"} => step # "bulk" /\ step # "last" BY <1>7
  <1>9. ASSUME ~Astray'
        PROVE  Quiet /\ (step' \notin {"lastlen", "info"} => Silent("CMP_OK")')
    <2>1. Quiet BY <1>4, <1>7, <1>9, <1>15 DEF Astray
    <2>2. ASSUME step' \notin {"lastlen", "info"} PROVE Silent("CMP_OK")'
      <3>1. CASE step = "bulk"
        <4>1. ~misled /\ size > 2 * chunksz BY <1>7, <1>9, <1>15, <2>2, <3>1
        <4>2. \A i \in DOMAIN toHost : toHost[i].text = "CMP_OK" => i = 1
          BY <1>4, <1>14, <3>1, <4>1 DEF IInv, Exact
        <4>3. \A i \in Nat \ {0} : i + 1 # 1 OBVIOUS
        <4> QED BY <1>4, <4>2, <4>3 DEF Silent
      <3>2. CASE step # "bulk" BY <1>4, <1>5, <1>7, <2>2, <3>2 DEF Silent
      <3> QED BY <3>1, <3>2
    <2> QED BY <2>1, <2>2
  <1>18. ASSUME Astray' PROVE Astray \/ Quiet
    BY <1>4, <1>15, <1>16, <1>18 DEF Astray
  <1>19. Quiet => DOMAIN partial = {} /\ DOMAIN toDev = {} BY DEF Quiet
  <1>20. Astray' => Only({"junk", "data"}, partial) /\ Only({"junk", "data"}, toDev)
    <2>1. CASE Quiet BY <1>19, <2>1 DEF Only
    <2>2. CASE Astray /\ step = "bulk"
      <3>1. Altered = {"data"} BY <2>2 DEF Altered, Requested, Request, Cmd
      <3> QED BY <1>3, <2>2, <3>1 DEF IInv, OneByOne, SuouSteps, Only
    <2> QED BY <1>15, <1>16, <1>18, <2>1, <2>2, <1>4
  <1>10. Phases'
    <2>1. step' = "bulk" =>
            xfered < size /\ size - xfered > chunksz /\ (size > 2 * chunksz \/ xfered = 0)
      BY <1>3, <1>7
    <2>2. step' \in {"lastlen", "last"} => xfered < size /\ size - xfered <= chunksz BY <1>3, <1>7
    <2>3. step' = "len" => size > 2 * chunksz BY <1>7
    <2>4. step' \in {"start", "len"} => xfered = 0 BY <1>7
    <2>5. step' \notin CliSteps \cup {"closed", "status", "started"} BY <1>8 DEF CliSteps
    <2>6. step' \in CliSteps \cup {"status", "start", "started", "len"} => xfered' = 0
      BY <1>1, <2>4, <2>5
    <2>7. step' = "len" => size' > 2 * chunksz' BY <1>1, <2>3
    <2>8. step' = "bulk" =>
            /\ xfered' < size' /\ size' - xfered' > chunksz'
            /\ size' > 2 * chunksz' \/ xfered' = IF wait' = "send" THEN 0 ELSE chunksz'
      BY <1>1, <1>8, <2>1
    <2>9. step' \in {"lastlen", "last"} => xfered' < size' /\ size' - xfered' <= chunksz'
      BY <1>1, <2>2
    <2>10. result' = "none" /\ wait' = "send" /\ chunksz' = CHUNK BY <1>1, <1>3, <1>8
    <2> QED BY <2>5, <2>6, <2>7, <2>8, <2>9, <2>10 DEF Phases, CliSteps
  <1>11. Counting'
    <2>1. step' \in {"len", "bulk", "lastlen", "last"} /\ svc.on /\ ~misled => svc.got = xfered
      <3>1. CASE step \in {"started", "len", "lastlen"} BY <3>1 DEF IInv, Counting
      <3>2. CASE step = "bulk"
        <4>1. ~Silent("CMP_OK") BY <1>4, <3>2 DEF Silent, Wanted
        <4> QED BY <1>3, <3>2, <4>1 DEF IInv, Counting
      <3> QED BY <1>7, <3>1, <3>2
    <2>2. ASSUME Astray' PROVE DataSent(partial)' /\ DataSent(toDev)'
      <3>1. CASE Quiet BY <1>1, <1>2, <1>19, <3>1 DEF DataSent
      <3>2. CASE Astray /\ step = "bulk"
        <4>1. DataSent(partial) /\ DataSent(toDev) /\ misled BY <3>2 DEF IInv, Counting, Astray
        <4> QED BY <1>1, <1>2, <3>2, <4>1 DEF DataSent
      <3> QED BY <1>4, <1>15, <1>16, <1>18, <2>2, <3>1, <3>2
    <2>3. step' = "start" => Silent("IMG_STARTED")' BY <1>4, <1>5, <1>17 DEF Silent
    <2> QED BY <1>1, <1>2, <1>8, <2>1, <2>2, <2>3 DEF Counting
  <1>12. Exact'
    <2> SUFFICES ASSUME ~misled PROVE Exact' BY <1>2 DEF Exact
    <2>1. step' = "len" => svc.chunk = 0 BY <1>7 DEF IInv, Exact
    <2>2. step' = "bulk" /\ size > 2 * chunksz /\ mode = "fwupdate"
            => svc.cbs /\ svc.len = chunksz /\ svc.chunk = 0
      <3>1. CASE step = "len"
        <4>1. ~Silent("OK") BY <1>4, <3>1 DEF Silent, Wanted
        <4> QED BY <3>1, <4>1 DEF IInv, Exact
      <3>2. CASE step = "bulk"
        <4>1. ~Silent("CMP_OK") BY <1>4, <1>14, <3>2 DEF Silent
        <4> QED BY <3>2, <4>1 DEF IInv, Exact
      <3>3. step = "started" => ~(step' = "bulk" /\ size > 2 * chunksz) BY <1>3, <1>7
      <3> QED BY <1>7, <3>1, <3>2, <3>3
    <2>3. step' = "bulk" => Silent("CMP_OK")' BY <1>9, <1>15
    <2> QED BY <1>1, <1>2, <1>6, <1>8, <2>1, <2>2, <2>3 DEF Exact, Silent
  <1>13. OfThisFile'
    <2>1. step' \in {"len", "bulk", "lastlen", "last", "info"} => step # "status" BY <1>7
    <2> QED BY <1>1, <1>2, <1>3, <1>8, <2>1 DEF IInv, OfThisFile
  <1>21. Hangs'
    <2> SUFFICES ASSUME mode = "hang" PROVE Hangs' BY <1>2 DEF Hangs
    <2>1. step \in {"bulk", "last"} BY <1>4
    <2>2. partial = <<>> /\ (size > 2 * chunksz /\ ~misled => step # "bulk") BY DEF IInv, Hangs
    <2>3. /\ step = "bulk" => step' \in {"bulk", "lastlen"} /\ (step' = "bulk" => size > 2 * chunksz)
          /\ step = "last" => step' = "info"
      BY <1>7
    <2> QED BY <1>1, <1>2, <1>6, <2>1, <2>2, <2>3 DEF Hangs
  <1>22. \A i \in DOMAIN toHost' : toHost'[i].text = "CMP_OK" => toHost'[i].re = "data"
    <2>1. CASE step \in {"bulk", "last"} BY <1>4, <2>1
    <2>2. CASE step \notin {"bulk", "last"} BY <1>4, <1>5, <2>2
    <2> QED BY <2>1, <2>2
  <1>23. step' = "start" => toHost' = <<>> BY <1>4, <1>17
  <1> QED BY <1>1, <1>4, <1>6, <1>8, <1>9, <1>10, <1>11, <1>12, <1>13, <1>20, <1>21, <1>22, <1>23,
             ToSendKeeps DEF SuouSteps

\* After fwupdate, the first request.
LEMMA FwupdateAcceptKeeps ==
  ASSUME IInv, AnswerIsWanted, step = "fwupdate", chunksz # 0, GoesOn,
         UNCHANGED <<devVars, misled, faults>>
  PROVE  IInv'
  <1>1. Following = "status" BY DEF Following
  <1>2. /\ step' = "status" /\ wait' = "send" /\ toHost' = Tail(toHost)
        /\ UNCHANGED <<size, result, xfered, chunksz, toDev>>
    BY <1>1 DEF GoesOn, Goes, CliSteps
  <1>3. chunksz = CHUNK /\ wait = "answer" /\ xfered = 0 /\ result = "none"
    BY Typed DEF IInv, Phases, CliSteps, AnswerIsWanted
  <1>4. Quiet /\ toHost' = <<>> /\ mode # "hang"
    <2>1. 1 \in DOMAIN toHost /\ toHost[1].text = "OK" BY WantedIs DEF Wanted
    <2>2. 1 = Len(toHost) /\ Quiet BY <1>3, <2>1 DEF IInv, AtPromptStill
    <2>3. mode # "hang" BY <1>3, <2>1 DEF IInv, Hangs, Silent
    <2> QED BY <1>2, <2>2, <2>3, WantedIs
  <1>5. toHost' \in Seq(Answers) /\ DOMAIN toHost' = {} BY <1>4
  <1>6. Phases' BY <1>2, <1>3, <1>4 DEF Phases, CliSteps
  <1>7. Counting' /\ Exact' /\ OfThisFile' BY <1>2, <1>3 DEF Counting, Exact, OfThisFile, Astray
  <1>8. Silent("OK")' /\ Silent("CMP_OK")' BY <1>5 DEF Silent
  <1>9. Hangs' /\ ~Astray' BY <1>2, <1>4 DEF Hangs, Astray, devVars
  <1> QED BY <1>9, <1>2, <1>4, <1>5, <1>6, <1>7, <1>8, ToSendKeeps

\* IMG_STARTED has come; the OK that follows it is still to be waited for.
LEMMA StartAcceptKeeps ==
  ASSUME IInv, AnswerIsWanted, step = "start", GoesOn, UNCHANGED <<devVars, misled, faults>>
  PROVE  IInv'
  <1>1. Following = "started" BY DEF Following
  <1>2. /\ step' = "started" /\ wait' = "answer" /\ toHost' = Tail(toHost)
        /\ UNCHANGED <<size, result, xfered, chunksz, toDev, mode, partial, qspibuf, bufsz, svc,
                       selected, misled>>
    BY <1>1 DEF GoesOn, Goes, CliSteps, devVars
  <1>3. chunksz = CHUNK /\ wait = "answer" /\ xfered = 0 /\ result = "none"
    BY DEF IInv, Phases, CliSteps, SuouSteps, AnswerIsWanted
  <1>4. /\ Requested = "start" /\ Requested' = "start" /\ Wanted' = "OK" /\ Wanted = "IMG_STARTED"
        /\ ~Astray /\ ~Astray'
    BY <1>2 DEF Requested, Request, Cmd, Wanted, Astray
  <1>5. /\ Quiet /\ toHost' \in Seq(Answers) /\ 1 \in DOMAIN toHost /\ toHost[1].text = Wanted
        /\ \A i \in DOMAIN toHost' : i + 1 \in DOMAIN toHost /\ toHost'[i] = toHost[i + 1] /\ i \in Nat
        /\ Len(toHost') = Len(toHost) - 1 /\ Len(toHost) \in Nat
    BY <1>2, <1>4, WantedIs DEF SuouSteps
  <1>6. svc.got = 0 /\ svc.chunk = 0
    <2>1. ~Silent("IMG_STARTED") BY <1>4, <1>5 DEF Silent
    <2> QED BY <2>1 DEF IInv, Counting
  <1>7. TypeOK' BY <1>2, <1>5 DEF IInv, TypeOK, SuouSteps
  <1>8. Phases' BY <1>2, <1>3 DEF Phases, CliSteps
  <1>9. Hangs' BY <1>2 DEF IInv, Hangs
  <1>10. First' /\ AtPromptStill' BY <1>2 DEF First, AtPromptStill
  <1>11. OneByOne'
    <2>1. ASSUME NEW i \in DOMAIN toHost', toHost'[i].text = "OK"
          PROVE  i = Len(toHost') /\ toHost'[i].re = "start"
      <3>1. ~Silent("IMG_STARTED") BY <1>4, <1>5 DEF Silent
      <3>2. i + 1 = Len(toHost) /\ toHost[i + 1].re = "start"
        BY <1>3, <1>4, <1>5, <2>1, <3>1 DEF IInv, OneByOne, SuouSteps
      <3> QED BY <1>5, <3>2
    <2>2. Quiet' BY <1>2, <1>5 DEF Quiet
    <2>3. OneLine(partial, toDev)' /\ \A S : Only(S, partial') /\ Only(S, toDev')
      <3>1. DOMAIN partial' = {} /\ DOMAIN toDev' = {} BY <2>2 DEF Quiet
      <3> QED BY <3>1 DEF OneLine, Only
    <2> QED BY <1>2, <1>4, <2>1, <2>2, <2>3 DEF OneByOne
  <1>14. AtHere'
    <2>1. DOMAIN partial' = {} /\ DOMAIN toDev' = {} BY <1>2, <1>5 DEF Quiet
    <2>2. ASSUME NEW i \in DOMAIN toHost', toHost'[i].text = "OK", toHost'[i].re = "start"
          PROVE  toHost'[i].at = xfered
      BY <1>3, <1>4, <1>5, <2>2 DEF IInv, AtHere, SuouSteps
    <2> QED BY <1>2, <1>4, <2>1, <2>2 DEF AtHere, FromHere
  <1>12. Counting' /\ Exact' BY <1>2, <1>3, <1>4, <1>6 DEF Counting, Exact
  <1>13. OfThisFile' /\ Ending' /\ PassMeansSelected'
    BY <1>2, <1>3, <1>6 DEF OfThisFile, Ending, PassMeansSelected
  <1> QED BY <1>7, <1>8, <1>9, <1>10, <1>11, <1>12, <1>13, <1>14 DEF IInv

\* After the block count, the end; which a wrong count has the host abort before.
LEMMA InfoAcceptKeeps ==
  ASSUME IInv, AnswerIsWanted, step = "info", GoesOn, UNCHANGED <<devVars, misled, faults>>
  PROVE  IInv'
  <1> DEFINE Ours == {"junk"} \cup MemDev
             a == Line(Plain("abort"))
  <1>1. Following = "end" BY DEF Following
  <1>2. /\ step' = "end" /\ wait' = "send" /\ toHost' = Tail(toHost)
        /\ UNCHANGED <<size, result, xfered, chunksz, mode, partial, qspibuf, bufsz, svc, selected,
                       misled>>
    BY <1>1 DEF GoesOn, Goes, CliSteps, devVars
  <1>3. chunksz = CHUNK /\ result = "none" BY DEF IInv, Phases, SuouSteps
  <1>4. toDev = <<>> /\ partial = <<>> /\ toHost' = <<>> /\ mode # "hang"
    BY <1>2, WantedIs DEF SuouSteps, Quiet
  <1>5. toDev' \in Seq(Commands) /\ Only(Ours, toDev')
    <2>1. a \in Seq(Commands) /\ Only(Ours, a) BY LastWords
    <2>2. <<>> \in Seq(Commands) /\ Only(Ours, <<>>) BY DEF Only
    <2>3. toDev' = <<>> \o a \/ toDev' = <<>> BY <1>4 DEF GoesOn
    <2> HIDE DEF a, Ours
    <2>4. toDev' = a \/ toDev' = <<>> BY <2>1, <2>3
    <2> QED BY <2>1, <2>2, <2>4
  <1>6. <<>> \in Seq(Answers) /\ DOMAIN <<>> = {} OBVIOUS
  <1>7. TypeOK'
    <2>1. step' \in SuouSteps /\ toHost' \in Seq(Answers) BY <1>2, <1>4, <1>6 DEF SuouSteps
    <2> QED BY <1>2, <1>5, <2>1 DEF IInv, TypeOK
  <1>8. Phases' BY <1>2, <1>3 DEF Phases, CliSteps
  <1>9. Hangs' BY <1>2, <1>4 DEF Hangs
  <1>10. First' /\ AtPromptStill' /\ OneByOne' /\ AtHere' /\ Counting' /\ Exact'
    BY <1>2 DEF First, AtPromptStill, OneByOne, AtHere, Counting, Exact, Astray
  <1>11. OfThisFile' BY <1>2 DEF IInv, OfThisFile
  <1>12. Ending'
    <2>1. Only(Ours, partial') BY <1>2, <1>4, <1>6 DEF Only
    <2> QED BY <1>2, <1>4, <1>5, <1>6, <2>1 DEF Ending
  <1>13. PassMeansSelected' BY <1>2, <1>3 DEF PassMeansSelected
  <1> QED BY <1>7, <1>8, <1>9, <1>10, <1>11, <1>12, <1>13 DEF IInv

LEMMA AcceptKeeps == IInv /\ Accept /\ UNCHANGED misled => IInv'
  <1> SUFFICES ASSUME IInv, Accept, UNCHANGED misled PROVE IInv' OBVIOUS
  <1>1. AnswerIsWanted /\ UNCHANGED <<devVars, misled, faults>> BY DEF Accept, AnswerIsWanted
  <1>2. faults' \in 0..MaxFaults BY <1>1 DEF IInv, TypeOK
  <1>3. CASE step = "end" /\ Ends("pass", Line(Plain("reboot")))
    <2>1. selected = size
      <3>1. 1 \in DOMAIN toHost /\ toHost[1].text = "CMP_OK" BY <1>1, <1>3, WantedIs DEF Wanted
      <3> QED BY <1>3, <3>1 DEF IInv, Ending
    <2> QED BY <1>1, <1>2, <1>3, <2>1, LastWords, EndsKeeps
  <1>4. CASE Ends("fail", <<>>) BY <1>1, <1>2, <1>4, LastWords, EndsKeeps
  <1>5. CASE step # "end" /\ (step = "fwupdate" => chunksz # 0) /\ GoesOn
    <2>1. wait = "answer" BY <1>1 DEF AnswerIsWanted
    <2>2. step \in CliSteps \cup SuouSteps BY <2>1 DEF IInv, TypeOK, Phases
    <2>3. CASE step \in {"getsuouartbuffsz", "alloc"} BY <1>1, <1>5, <2>3, PromptAcceptKeeps
    <2>4. CASE step = "fwupdate" BY <1>1, <1>5, <2>4, FwupdateAcceptKeeps
    <2>5. CASE step = "start" BY <1>1, <1>5, <2>5, StartAcceptKeeps
    <2>6. CASE step = "info" BY <1>1, <1>5, <2>6, InfoAcceptKeeps
    <2>7. CASE step \in {"status", "started", "len", "bulk", "lastlen", "last"}
      BY <1>1, <1>5, <2>7, RequestAcceptKeeps
    <2> QED BY <1>5, <2>2, <2>3, <2>4, <2>5, <2>6, <2>7 DEF CliSteps, SuouSteps
  <1> QED BY <1>3, <1>4, <1>5 DEF Accept

LEMMA StutterKeeps == IInv /\ UNCHANGED vars => IInv'
  <1> SUFFICES ASSUME IInv, UNCHANGED vars PROVE IInv' OBVIOUS
  <1>1. UNCHANGED <<step, wait, size, xfered, chunksz, result, toDev, toHost, mode, partial, qspibuf,
                    bufsz, svc, selected, misled, faults>>
    BY DEF vars, hostVars, devVars
  <1>2. TypeOK' /\ Phases' BY <1>1 DEF IInv, TypeOK, Phases
  <1>3. First' /\ AtPromptStill'
    BY <1>1 DEF IInv, First, AtPromptStill, Only, OneLine, Own, Quiet, Silent
  <1>4. UNCHANGED <<Requested, Wanted, Astray, Altered, Quiet>>
    BY <1>1 DEF Requested, Request, Block, Wanted, Astray, Altered, Quiet
  <1>5. OneByOne' /\ AtHere'
    BY <1>1, <1>4 DEF IInv, OneByOne, AtHere, FromHere, LenLast, Only, OneLine, Silent
  <1>6. Counting' /\ Exact'
    BY <1>1, <1>4 DEF IInv, Counting, DataSent, Exact, LenSent, Silent
  <1>7. Hangs' /\ OfThisFile' /\ Ending' /\ PassMeansSelected'
    BY <1>1, <1>4 DEF IInv, Hangs, OfThisFile, Ending, PassMeansSelected, Only, Silent
  <1> QED BY <1>2, <1>3, <1>5, <1>6, <1>7 DEF IInv

LEMMA NextKeeps == IInv /\ [Next]_vars => IInv'
  <1> SUFFICES ASSUME IInv, [Next]_vars PROVE IInv' OBVIOUS
  <1>1. CASE Open BY <1>1, OpenKeeps
  <1>2. CASE Host
    BY <1>2, KnockKeeps, TypeKeeps, EchoedKeeps, SendKeeps, AcceptKeeps, PassOverKeeps, RejectKeeps,
       TimeOutKeeps DEF Host
  <1>3. CASE Read BY <1>3, ReadKeeps
  <1>4. CASE PowerLoss BY <1>4, PowerLossKeeps
  <1>5. CASE DamageToDev BY <1>5, DamageToDevKeeps
  <1>6. CASE DamageToHost BY <1>6, DamageToHostKeeps
  <1>7. CASE Babble BY <1>7, BabbleKeeps
  <1>8. CASE UNCHANGED vars BY <1>8, StutterKeeps
  <1> QED BY <1>1, <1>2, <1>3, <1>4, <1>5, <1>6, <1>7, <1>8 DEF Next

-----------------------------------------------------------------------------
(* The theorems.                                                           *)

(* The inductive invariant holds always.                                   *)
THEOREM InductiveInvariant == Spec => []IInv
  BY InitKeeps, NextKeeps, PTL DEF Spec

(* Every variable of host, line and device keeps its type; in particular   *)
(* the host never counts more than the file has.                           *)
THEOREM TypesHold == Spec => []TypeOK
  <1>1. IInv => TypeOK BY DEF IInv
  <1> QED BY <1>1, InductiveInvariant, PTL

(* "Result: Pass" is never printed but for a file that the device has      *)
(* selected whole.                                                         *)
THEOREM PassIsTrue == Spec => []PassMeansSelected
  <1>1. IInv => PassMeansSelected BY DEF IInv
  <1> QED BY <1>1, InductiveInvariant, PTL

(* Host and device count alike when the host is about to send a block,     *)
(* unless the line has changed the number of a PATCH_LEN.                  *)
THEOREM CountsStayAlike == Spec => []CountsAgree
  <1>1. IInv => CountsAgree BY DEF IInv, Counting, CountsAgree
  <1> QED BY <1>1, InductiveInvariant, PTL

(* do_firmware_update takes no answer that is not to its own request, and  *)
(* of blocks none that is not to the last one, unless the line has changed *)
(* the number of a PATCH_LEN.                                              *)
THEOREM AnswersAreOwn == Spec => AnswersMatch
  <1>1. ASSUME IInv, step \in SuouSteps, Accept
        PROVE  /\ Head(toHost).re = Requested
               /\ step = "end" \/ Head(toHost).at = xfered \/ (misled /\ step = "bulk")
    <2>1. AnswerIsWanted BY <1>1 DEF Accept, AnswerIsWanted
    <2>2. Head(toHost) = toHost[1] /\ 1 \in DOMAIN toHost /\ toHost[1].text = Wanted
      BY <1>1, <2>1, WantedIs
    <2>3. CASE step # "end"
      <3>1. toHost[1].re = Requested BY <1>1, <2>1, <2>3, WantedIs
      <3>2. ~(misled /\ step = "bulk") => toHost[1].at = xfered
        BY <1>1, <2>1, <2>2, <2>3, <3>1 DEF IInv, AtHere, AnswerIsWanted
      <3> QED BY <2>2, <3>1, <3>2
    <2>4. CASE step = "end"
      <3>1. toHost[1].re = "end" BY <1>1, <2>2, <2>4 DEF IInv, Ending, Wanted
      <3>2. Requested = "end" BY <2>4 DEF Requested, Request, Cmd
      <3> QED BY <2>2, <2>4, <3>1, <3>2
    <2> QED BY <2>3, <2>4
  <1>2. IInv /\ [Next]_vars =>
          [(step \in SuouSteps /\ Accept) =>
              /\ Head(toHost).re = IF step = "started" THEN "start" ELSE Request.cmd
              /\ step = "end" \/ Head(toHost).at = xfered \/ (misled /\ step = "bulk")]_vars
    BY <1>1 DEF Requested
  <1> QED BY <1>2, InductiveInvariant, PTL DEF Spec, AnswersMatch

=============================================================================
