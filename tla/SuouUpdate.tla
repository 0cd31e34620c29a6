----------------------------- MODULE SuouUpdate -----------------------------
(***************************************************************************)
(* An update over UART from end to end: the host's script                  *)
(* (suouart_host/host_usb_updater.c), the serial line, and the command     *)
(* line of the device (suouart.c), over what the service engine answers.   *)
(*                                                                         *)
(* The line carries commands and answers: a command is its name, ended by  *)
(* an NL of its own, and an answer is one line.  Lengths are in units of   *)
(* half a PATCH_DATA line.  The port is opened with nothing waiting in it, *)
(* once the device has read what an earlier run of the host left it.       *)
(***************************************************************************)
EXTENDS Naturals, Sequences

CONSTANTS
  CHUNK,      \* suouartbuffsz / 2, the bytes of one PATCH_DATA line
  Sizes,      \* the lengths of the image files the user may send
  Numbers,    \* the numbers that a line may carry once it is damaged
  MaxFaults   \* bound: lines damaged or lost, late answers, failed calls, resets

ASSUME UpdateAssumption ==
  /\ CHUNK \in Nat \ {0} /\ Sizes \subseteq Nat \ {0}
  /\ Numbers \subseteq Nat /\ MaxFaults \in Nat

VARIABLES
  step, wait,      \* host: the command it is at, and what it does next for it
  size, xfered,    \* host: the length of the file, and how much of it is sent
  chunksz,         \* host: the bytes of a line, half of the buffer that the device has told
  result,          \* host: how its last run ended
  toDev, toHost,   \* the serial line
  mode,            \* device: who reads its command line; or how it hangs
  partial,         \* device: cli_buffer, up to the NL to come
  qspibuf, bufsz,  \* device: whether the working buffer is allocated, and its size
  svc,             \* device: the service engine
  selected,        \* device, in flash: the length of the image selected for boot
  misled,          \* history: a PATCH_LEN of this run got another number on the line
  faults

hostVars == <<step, wait, size, xfered, chunksz, result>>
devVars  == <<mode, partial, qspibuf, bufsz, svc, selected>>
vars     == <<hostVars, toDev, toHost, devVars, misled, faults>>

CliSteps  == {"getsuouartbuffsz", "alloc", "fwupdate"}
SuouSteps == {"status", "start", "started", "len", "bulk", "lastlen", "last", "info", "end"}
MemDev    == {"start", "end", "abort", "reboot", "other"}
SuouCmds  == MemDev \cup {"status", "len", "data", "info"}
Cmds      == CliSteps \cup SuouCmds \cup {"nl", "junk"}
Stuck     == {"wild", "fault", "hang"}

\* A command: its number, the file it is about, how far into the file the host is with
\* it (for data, where they end), and whether its data are as they were sent.
Cmd(c, k, f, a) == [cmd |-> c, n |-> k, of |-> f, at |-> a, ok |-> TRUE]
Plain(c) == Cmd(c, 0, 0, 0)
NL == Plain("nl")
Line(c) == <<c, NL>>

\* An answer, its number, and the command it answers.
Say(t, k, c) == [text |-> t, n |-> k, re |-> c.cmd, at |-> c.at]

Idle == [on |-> FALSE, cbs |-> FALSE, len |-> 0, chunk |-> 0, got |-> 0, of |-> 0, at |-> 0,
         good |-> TRUE, error |-> FALSE]

Init ==
  /\ step = "closed" /\ wait = "none" /\ size \in Sizes /\ xfered = 0 /\ chunksz = 0
  /\ result = "none"
  /\ toDev = <<>> /\ toHost = <<>>
  /\ mode = "prompt" /\ partial = <<>> /\ qspibuf = FALSE /\ bufsz = 0
  /\ svc = Idle /\ selected = 0
  /\ misled = FALSE /\ faults = 0

NoFault == UNCHANGED faults
Fault == faults < MaxFaults /\ faults' = faults + 1

-----------------------------------------------------------------------------
(* The device restarts: by reboot command, by its reset button, by power.  *)

Restarted ==
  /\ mode' = "prompt" /\ partial' = <<>> /\ qspibuf' = FALSE /\ bufsz' = 0 /\ svc' = Idle
  /\ UNCHANGED selected

PowerLoss ==
  /\ Fault
  /\ Restarted
  /\ toDev' = <<>>
  /\ UNCHANGED <<hostVars, toHost, misled>>

-----------------------------------------------------------------------------
(* The host.                                                               *)

\* The user starts the host, with or without a reset of the device before.
Open ==
  /\ step = "closed"
  /\ toDev = <<>>
  /\ Restarted \/ UNCHANGED devVars
  /\ step' = "getsuouartbuffsz" /\ wait' = "knock"
  /\ size' \in Sizes /\ xfered' = 0 /\ chunksz' = 0 /\ result' = "none"
  /\ misled' = FALSE
  /\ UNCHANGED <<toDev, toHost, faults>>

\* The host ends its run with result r, having written s last.
Ends(r, s) ==
  /\ step' = "closed" /\ wait' = "none" /\ result' = r
  /\ toDev' = toDev \o s
  /\ toHost' = <<>>
  /\ UNCHANGED <<size, xfered, chunksz>>

Goes(s, w) == step' = s /\ wait' = w /\ UNCHANGED <<size, result>>

\* issue_command looks for the prompt with up to two NLs, and goes on if there is none.
Knock ==
  /\ wait = "knock"
  /\ \E k \in 0..2 : toDev' = toDev \o [i \in 1..k |-> NL]
  /\ Goes(step, "type")
  /\ UNCHANGED <<xfered, chunksz, toHost, devVars, faults>>

\* Reading for the prompt takes some of what has arrived.
Type ==
  /\ wait = "type"
  /\ \E k \in 0..Len(toHost) : toHost' = SubSeq(toHost, k + 1, Len(toHost))
  /\ toDev' = Append(toDev, IF step = "alloc" THEN Cmd("alloc", chunksz, 0, 0) ELSE Plain(step))
  /\ Goes(step, "echo")
  /\ UNCHANGED <<xfered, chunksz, devVars, faults>>

\* Whatever arrives is taken for the echo.
Echoed ==
  /\ wait = "echo"
  /\ toHost # <<>>
  /\ toHost' = Tail(toHost)
  /\ toDev' = Append(toDev, NL)
  /\ Goes(step, "answer")
  /\ UNCHANGED <<xfered, chunksz, devVars, faults>>

\* The step after the last confirmed one; the last block is never empty.
NextBlockToTheEnd == IF size > xfered THEN "bulk" ELSE "lastlen"    \* mutant: no rest
NextBlock == IF size - xfered > chunksz THEN "bulk" ELSE "lastlen"
FirstBlockBlind == NextBlock       \* mutant: the device is not told what to confirm
FirstBlock == IF size > 2 * chunksz THEN "len" ELSE NextBlock
Following ==
  CASE step = "getsuouartbuffsz" -> "alloc"
    [] step = "alloc"            -> "fwupdate"
    [] step = "fwupdate"         -> "status"
    [] step = "status"           -> "start"
    [] step = "start"            -> "started"
    [] step = "started"          -> FirstBlock
    [] step \in {"len", "bulk"}  -> NextBlock
    [] step = "lastlen"          -> "last"
    [] step = "last"             -> "info"
    [] step = "info"             -> "end"

Block == IF step = "bulk" THEN chunksz ELSE IF step = "last" THEN size - xfered ELSE 0
Request ==
  CASE step = "len"              -> Cmd("len", chunksz, 0, xfered)
    [] step = "lastlen"          -> Cmd("len", size - xfered, 0, xfered)
    [] step \in {"bulk", "last"} -> Cmd("data", Block, size, xfered + Block)
    [] OTHER                     -> Cmd(step, 0, 0, xfered)

\* write_buff tries again, from the start of the line, after a write that was cut short.
Send ==
  /\ wait = "send"
  /\ \/ /\ NoFault
        /\ toDev' = toDev \o Line(Request)
        /\ Goes(step, "answer") /\ xfered' = xfered + Block /\ UNCHANGED <<chunksz, toHost>>
     \/ /\ Fault
        /\ toDev' = toDev \o <<Plain("junk")>> \o Line(Request)
        /\ Goes(step, "answer") /\ xfered' = xfered + Block /\ UNCHANGED <<chunksz, toHost>>
     \/ /\ Fault
        /\ Ends("fail", <<Plain("junk")>>)
  /\ UNCHANGED devVars

WantedAnything == IF toHost = <<>> THEN "OK" ELSE Head(toHost).text    \* mutant: not compared
Wanted ==
  CASE step = "start"                    -> "IMG_STARTED"
    [] step \in {"bulk", "last", "end"}  -> "CMP_OK"
    [] OTHER                             -> "OK"

\* A failure of wait_for_specific_response_or_abort has the host abort the update.
Aborts == IF step \in {"start", "started", "bulk", "last", "end"} THEN Line(Plain("abort")) ELSE <<>>

GoesOn ==
  /\ Goes(Following, IF Following \in CliSteps THEN "knock"
                     ELSE IF Following = "started" THEN "answer" ELSE "send")
  /\ chunksz' = IF step = "getsuouartbuffsz" THEN Head(toHost).n \div 2 ELSE chunksz
  /\ toDev' = IF step = "info" /\ Head(toHost).n # size
              THEN toDev \o Line(Plain("abort")) ELSE toDev
  /\ toHost' = Tail(toHost)
  /\ UNCHANGED xfered

\* The answer is as expected.  A MEMINFO that does not fit aborts, and goes on all the same.
Accept ==
  /\ wait = "answer"
  /\ toHost # <<>> /\ Head(toHost).text = Wanted
  /\ \/ step = "end" /\ Ends("pass", Line(Plain("reboot")))
     \/ step = "fwupdate" /\ chunksz = 0 /\ Ends("fail", <<>>)
     \/ step # "end" /\ (step = "fwupdate" => chunksz # 0) /\ GoesOn
  /\ UNCHANGED <<devVars, faults>>

\* issue_command passes over all lines but OK and ERROR.
PassOver ==
  /\ wait = "answer" /\ step \in CliSteps
  /\ toHost # <<>> /\ Head(toHost).text \notin {"OK", "ERROR"}
  /\ toHost' = Tail(toHost)
  /\ UNCHANGED <<hostVars, toDev, devVars, faults>>

Reject ==
  /\ wait = "answer"
  /\ toHost # <<>>
  /\ Head(toHost).text # Wanted
  /\ step \in CliSteps => Head(toHost).text = "ERROR"
  /\ Ends("fail", Aborts)
  /\ UNCHANGED <<devVars, faults>>

\* Nothing comes any more; or what comes is too late.
TimeOutForEcho ==            \* mutant: the tries to read an answer are not counted
  /\ wait \in {"echo", "answer"} /\ toHost = <<>> /\ toDev = <<>>
  /\ IF wait = "echo" THEN Ends("fail", <<>>) ELSE UNCHANGED <<hostVars, toDev, toHost>>
  /\ UNCHANGED <<devVars, faults>>
TimeOutGoesOn ==             \* mutant: the result of wait_response is not looked at
  /\ wait \in {"echo", "answer"}
  /\ \/ /\ wait = "answer" /\ step \in SuouSteps \ {"end"} /\ Fault
        /\ Goes(Following, "send")
        /\ UNCHANGED <<xfered, chunksz, toDev, toHost>>
     \/ toHost = <<>> /\ toDev = <<>> /\ NoFault /\ Ends("fail", <<>>)
  /\ UNCHANGED devVars
TimeOut ==
  /\ wait \in {"echo", "answer"}
  /\ \/ toHost = <<>> /\ toDev = <<>> /\ NoFault
     \/ Fault
  /\ Ends("fail", IF wait = "echo" THEN <<>> ELSE Aborts)
  /\ UNCHANGED devVars

Host ==
  /\ Knock \/ Type \/ Echoed \/ Send \/ Accept \/ PassOver \/ Reject \/ TimeOut
  /\ UNCHANGED misled

-----------------------------------------------------------------------------
(* What the service engine answers (SuouService has how).                  *)

\* The answers of the device are lost while the port is closed.
Answer(s) == toHost' = IF step = "closed" THEN <<>> ELSE toHost \o s
Told(c, ts) == Answer([i \in 1..Len(ts) |-> Say(ts[i], 0, c)])

StartKeepsCount(c) ==        \* mutant: the bytes of an earlier update are still counted
  /\ svc' = [svc EXCEPT !.on = TRUE, !.chunk = 0, !.at = 0, !.good = TRUE, !.error = FALSE]
  /\ Told(c, <<"IMG_STARTED", "OK">>)
  /\ NoFault
Start(c) ==
  \/ /\ NoFault
     /\ svc' = [svc EXCEPT !.on = TRUE, !.chunk = 0, !.got = 0, !.at = 0,
                           !.good = TRUE, !.error = FALSE]
     /\ Told(c, <<"IMG_STARTED", "OK">>)
  \/ /\ ~svc.on /\ Fault        \* no memory for the buffer of the service
     /\ UNCHANGED svc
     /\ Told(c, <<"SRV_EXIT", "OK">>)

PatchLen(c) ==
  /\ svc' = [svc EXCEPT !.cbs = TRUE, !.len = c.n]
  /\ Told(c, <<"OK">>)
  /\ NoFault

\* The line c is not what follows in the file that is being received.
Amiss(c) == ~c.ok \/ c.at # svc.at + c.n \/ (svc.got > 0 /\ c.of # svc.of)

\* suouart_handle_patch_data, with k bytes of the line consumed: after what the header was
\* told to be, each patch_len bytes are confirmed, and only then it fails or not.  With
\* a patch_len of 0 the confirmations never end.
Handle(c, k, header, fails) ==
  LET chunk   == svc.chunk + k
      endless == svc.cbs /\ svc.len = 0
      counted == svc.cbs /\ svc.len # 0
      times   == IF counted THEN chunk \div svc.len ELSE IF endless THEN 1 ELSE 0
      last    == IF fails /\ ~endless THEN <<"ERROR">> ELSE <<>>
  IN  /\ svc' = [svc EXCEPT !.got = @ + c.n, !.of = c.of, !.at = c.at,
                            !.good = @ /\ ~fails /\ ~Amiss(c),
                            !.error = @ \/ header # <<>>,
                            !.chunk = IF counted THEN chunk % svc.len ELSE @]
      /\ Told(c, header \o [i \in 1..times |-> "CMP_OK"] \o last)
      /\ mode' = IF endless THEN "hang" ELSE mode

Data(c) ==
  \/ /\ ~svc.on
     /\ Told(c, <<"ERROR">>)
     /\ NoFault /\ UNCHANGED <<svc, mode>>
  \/ /\ svc.on /\ ~svc.error
     /\ Handle(c, c.n, <<>>, FALSE)
     /\ NoFault
  \/ /\ svc.on /\ ~svc.error        \* a flash that fails, with some piece of the line
     /\ \E k \in 0..c.n : Handle(c, k, <<>>, TRUE)
     /\ Fault
  \/ /\ svc.on /\ svc.error         \* no more is taken
     /\ Handle(c, 0, <<>>, TRUE)
     /\ NoFault
  \/ /\ svc.on /\ svc.got = 0 /\ Amiss(c)      \* a header that is wrong
     /\ \/ svc.cbs /\ \E k \in 0..c.n : Handle(c, k, <<"INVAL_IMG_HDR">>, TRUE)
        \/ ~svc.cbs /\ mode' = "fault" /\ UNCHANGED <<svc, toHost>>      \* error_cb is null
     /\ NoFault

Complete == svc.good /\ svc.of # 0 /\ svc.got >= svc.of

End(c) ==
  \/ /\ Complete
     /\ selected' = svc.of
     /\ Told(c, <<"CMP_OK", "OK">>)
     /\ NoFault
  \/ /\ ~Complete
     /\ Told(c, <<"CRC_ERR", "OK">>)
     /\ NoFault /\ UNCHANGED selected
  \/ /\ Complete /\ Fault
     /\ Told(c, <<"APP_ERROR", "ERROR">>)
     /\ UNCHANGED selected

-----------------------------------------------------------------------------
(* The command line of the device.                                         *)

cliVars == <<mode, partial, qspibuf, bufsz>>

\* Text is kept, and echoed at the prompt.  Two commands in a line are as bad as more.
Store(t) ==
  /\ mode \notin Stuck
  /\ t # NL
  /\ partial' = IF Len(partial) < 2 THEN Append(partial, t) ELSE partial
  /\ IF mode = "prompt" THEN Told(t, <<"echo">>) ELSE UNCHANGED toHost
  /\ UNCHANGED <<mode, qspibuf, bufsz, svc, selected, faults>>

\* suouart_alloc_execution: the second time, the pointer given to OS_FREE is not one of
\* the heap's, and the new buffer is stored through a null pointer.
Alloc(c) ==
  LET n == c.n IN
  \/ /\ n = 0
     /\ bufsz' = 0
     /\ Told(c, <<"ERROR">>)
     /\ NoFault /\ UNCHANGED <<qspibuf, mode>>
  \/ /\ n # 0 /\ ~qspibuf
     /\ qspibuf' = TRUE /\ bufsz' = n
     /\ Told(c, <<"OK">>)
     /\ NoFault /\ UNCHANGED mode
  \/ /\ n # 0 /\ ~qspibuf /\ Fault        \* OS_MALLOC returns NULL
     /\ bufsz' = 0
     /\ Told(c, <<"ERROR">>)
     /\ UNCHANGED <<qspibuf, mode>>
  \/ /\ n # 0 /\ qspibuf
     /\ mode' = "wild"
     /\ NoFault /\ UNCHANGED <<qspibuf, bufsz, toHost>>
  \/ /\ n # 0 /\ qspibuf
     /\ \/ bufsz' = n /\ Told(c, <<"OK">>)
        \/ bufsz' = 0 /\ Told(c, <<"ERROR">>)
     /\ NoFault /\ UNCHANGED <<qspibuf, mode>>

\* One line at the prompt (suouart_task).
AtPrompt ==
  LET c == partial[1] IN
  /\ mode = "prompt"
  /\ \/ /\ partial = <<>>
        /\ NoFault /\ UNCHANGED <<mode, qspibuf, bufsz, toHost>>
     \/ /\ Len(partial) = 1 /\ c.cmd = "getsuouartbuffsz"
        /\ Answer(<<Say("OK", 2 * CHUNK, c)>>)
        /\ NoFault /\ UNCHANGED <<mode, qspibuf, bufsz>>
     \/ /\ Len(partial) = 1 /\ c.cmd = "alloc"
        /\ Alloc(c)
     \/ /\ Len(partial) = 1 /\ c.cmd = "fwupdate"
        /\ \/ qspibuf /\ Told(c, <<"OK">>)
           \/ (~qspibuf \/ bufsz > CHUNK) /\ Told(c, <<"ERROR", "OK">>)
        /\ mode' = "fwupdate"
        /\ NoFault /\ UNCHANGED <<qspibuf, bufsz>>
     \/ /\ Len(partial) > 1 \/ (Len(partial) = 1 /\ c.cmd \notin CliSteps)
        /\ Told(c, <<"ERROR">>)
        /\ NoFault /\ UNCHANGED <<mode, qspibuf, bufsz>>
  /\ UNCHANGED <<svc, selected>>

\* A line of fwupdate that makes a request of the service engine.
IsRequest ==
  /\ Len(partial) = 1 /\ partial[1].cmd \in SuouCmds /\ qspibuf
  /\ partial[1].cmd = "data" => partial[1].n <= bufsz

Serve(c) ==
  \/ /\ c.cmd \in {"status", "other"}
     /\ Told(c, <<"OK">>)
     /\ NoFault /\ UNCHANGED <<svc, selected, mode, qspibuf, bufsz>>
  \/ c.cmd = "start" /\ Start(c) /\ UNCHANGED <<selected, mode, qspibuf, bufsz>>
  \/ c.cmd = "len" /\ PatchLen(c) /\ UNCHANGED <<selected, mode, qspibuf, bufsz>>
  \/ c.cmd = "data" /\ Data(c) /\ UNCHANGED <<selected, qspibuf, bufsz>>
  \/ /\ c.cmd = "info"
     /\ Answer(<<Say("OK", svc.got, c)>>)
     /\ NoFault /\ UNCHANGED <<svc, selected, mode, qspibuf, bufsz>>
  \/ c.cmd = "end" /\ End(c) /\ UNCHANGED <<svc, mode, qspibuf, bufsz>>
  \/ /\ c.cmd = "abort"
     /\ svc' = [svc EXCEPT !.on = FALSE]
     /\ Told(c, <<"SRV_EXIT", "OK">>)
     /\ NoFault /\ UNCHANGED <<selected, mode, qspibuf, bufsz>>

\* One line in suouart_fwupdate_execution: an empty one changes nothing; one with other
\* than four words, or that the buffer does not fit, ends it.  Of a buffer shorter than
\* a line, the half lines do not tell whether it fits even the shortest request.
InFwupdate ==
  /\ mode = "fwupdate"
  /\ \/ /\ partial = <<>>
        /\ NoFault /\ UNCHANGED <<mode, qspibuf, bufsz, svc, selected, toHost>>
     \/ /\ IsRequest
        /\ Serve(partial[1])
     \/ /\ partial # <<>> /\ (~IsRequest \/ bufsz < CHUNK)
        /\ Told(partial[1], <<"ERROR">>)
        /\ \/ mode' = "prompt"
           \/ mode' = mode /\ partial[1].cmd = "junk"    \* four words, none known
        /\ NoFault /\ UNCHANGED <<qspibuf, bufsz, svc, selected>>
     \/ /\ Len(partial) > 1                \* the line is too long: uart_readline returns 0
        /\ mode' = "prompt"
        /\ NoFault /\ UNCHANGED <<qspibuf, bufsz, svc, selected, toHost>>

\* The device reads on.
Read ==
  /\ toDev # <<>>
  /\ \/ /\ toDev' = Tail(toDev)
        /\ \/ Store(Head(toDev))
           \/ Head(toDev) = NL /\ partial' = <<>> /\ (AtPrompt \/ InFwupdate)
           \/ mode \in Stuck /\ UNCHANGED <<devVars, toHost, faults>>
     \/ /\ mode = "fwupdate" /\ IsRequest /\ partial[1].cmd = "reboot" /\ Head(toDev) = NL
        /\ Restarted
        /\ toDev' = <<>>
        /\ UNCHANGED <<toHost, faults>>
  /\ UNCHANGED <<hostVars, misled>>

\* Confirmations without end: one more when (bound) the host has read all there was.
Babble ==
  /\ mode = "hang" /\ toHost = <<>> /\ step # "closed"
  /\ Told(Cmd("data", 0, 0, svc.at), <<"CMP_OK">>)
  /\ UNCHANGED <<hostVars, toDev, devVars, misled, faults>>

-----------------------------------------------------------------------------
(* The line damages or loses the head of what it carries.                  *)

DamageToDev ==
  /\ toDev # <<>> /\ Fault
  /\ LET c == Head(toDev) IN
     \/ toDev' = Tail(toDev) /\ UNCHANGED misled
     \/ c # NL /\ toDev' = [toDev EXCEPT ![1] = Plain("junk")] /\ UNCHANGED misled
     \/ c.cmd = "data" /\ toDev' = [toDev EXCEPT ![1].ok = FALSE] /\ UNCHANGED misled
     \/ /\ c.cmd \in MemDev
        /\ \E d \in MemDev : toDev' = [toDev EXCEPT ![1].cmd = d]
        /\ UNCHANGED misled
     \/ /\ c.cmd \in {"alloc", "len"}
        /\ \E k \in Numbers : toDev' = [toDev EXCEPT ![1].n = k]
        /\ misled' = (misled \/ c.cmd = "len")
  /\ UNCHANGED <<hostVars, toHost, devVars>>

DamageToHost ==
  /\ toHost # <<>> /\ Fault
  /\ toHost' \in {Tail(toHost), [toHost EXCEPT ![1].text = "junk"], [toHost EXCEPT ![1].n = 0]}
  /\ UNCHANGED <<hostVars, toDev, devVars, misled>>

Next == Open \/ Host \/ Read \/ Babble \/ PowerLoss \/ DamageToDev \/ DamageToHost

Spec == Init /\ [][Next]_vars /\ WF_vars(Host) /\ WF_vars(Read) /\ WF_vars(Open)
-----------------------------------------------------------------------------
(* Properties.                                                             *)

Texts == {"OK", "ERROR", "IMG_STARTED", "CMP_OK", "SRV_EXIT", "CRC_ERR", "APP_ERROR",
          "INVAL_IMG_HDR", "echo", "junk"}
Commands == [cmd : Cmds, n : Nat, of : Sizes \cup {0}, at : Nat, ok : BOOLEAN]
Answers  == [text : Texts, n : Nat, re : Cmds, at : Nat]

(* Every variable keeps its type; the host never counts more than the file *)
(* has, so that the length of the last block cannot wrap round.            *)
TypeOK ==
  /\ step \in CliSteps \cup SuouSteps \cup {"closed"}
  /\ wait \in {"none", "knock", "type", "echo", "send", "answer"}
  /\ size \in Sizes /\ xfered \in 0..size /\ chunksz \in {0, CHUNK}
  /\ result \in {"none", "pass", "fail"}
  /\ toDev \in Seq(Commands) /\ toHost \in Seq(Answers)
  /\ mode \in {"prompt", "fwupdate"} \cup Stuck
  /\ partial \in Seq(Commands)
  /\ qspibuf \in BOOLEAN /\ bufsz \in Nat
  /\ svc \in [on : BOOLEAN, cbs : BOOLEAN, len : Nat, chunk : Nat, got : Nat,
              of : Sizes \cup {0}, at : Nat, good : BOOLEAN, error : BOOLEAN]
  /\ selected \in Sizes \cup {0}
  /\ misled \in BOOLEAN
  /\ faults \in 0..MaxFaults

(* "Result: Pass" is true: the device has selected the whole of this file, *)
(* whatever the line damaged or lost, and though the device confirms a     *)
(* block and the end of the update with the same words.                    *)
PassMeansSelected == result = "pass" => selected = size

(* The host and the device count alike: before the host sends a block, or  *)
(* its length, the device has received all blocks before it and no other,  *)
(* unless it has left the update meanwhile, or the line has changed the    *)
(* number of a PATCH_LEN.                                                  *)
CountsAgree ==
  (/\ step \in {"len", "bulk", "lastlen", "last"} /\ wait = "send"
   /\ svc.on /\ ~misled) => svc.got = xfered

(* In do_firmware_update, the host never takes the answer to one request   *)
(* for that to another, as confirmations left over from an earlier block   *)
(* or PATCH_LEN, or answers that come late, might have it do.  Blocks are  *)
(* told apart, unless the line has changed the number of a PATCH_LEN; the  *)
(* end is not, from an abort that the line has made an end.                *)
AnswersMatch ==
  [][(step \in SuouSteps /\ Accept) =>
        /\ Head(toHost).re = IF step = "started" THEN "start" ELSE Request.cmd
        /\ step = "end" \/ Head(toHost).at = xfered \/ (misled /\ step = "bulk")]_vars

(* Whatever is lost and wherever the device hangs, the host's run ends,    *)
(* but for a device that confirms without end: issue_command reads on for  *)
(* as long as lines come that are neither OK nor ERROR.                    *)
SessionEnds ==
  step # "closed" ~> (step = "closed" \/ (step \in CliSteps /\ mode = "hang"))

(* A user who resets the device and tries again, with a file that is not  *)
(* of the size that never passes (see Passes), gets the update through.    *)
Fresh == /\ step = "getsuouartbuffsz" /\ wait = "knock"
         /\ mode = "prompt" /\ partial = <<>> /\ ~qspibuf /\ svc = Idle
         /\ size \notin CHUNK+1..2*CHUNK
Recovers == []<>Fresh => []<>(result = "pass")

(* "alloc instructs the DA1469x to allocate a working buffer": the device  *)
(* survives that, in every run of the host.                                *)
AllocSurvives == mode # "wild"

(* "This instructs the DA1469x to confirm when this many bytes have been   *)
(* received": with nothing failing, every file gets through.               *)
Passes == <>(result = "pass")

=============================================================================
