--------------------------- MODULE SuouBootProofs ---------------------------
(***************************************************************************)
(* The device can always be booted, whenever power fails and whatever the  *)
(* flash does: proof that an update leaves the running slot alone, and     *)
(* that one copy of the product header is sound at every instant.          *)
(***************************************************************************)
EXTENDS SuouServiceProofs

RunningSlot == ph["primary"].active

(* Neither copy, nor the one in preparation, ever names another slot as    *)
(* the active one: only the boot loader changes it, in both.               *)
OneRunningSlot ==
  /\ ph["backup"].active = RunningSlot
  /\ pc \in {"wr_backup", "wr_primary"} => ph_buffer.active = RunningSlot

(* The handle of an update is never that of the running slot.              *)
HandleElsewhere == nvms # RunningSlot /\ (pc = "off" => nvms = None)

RunningComplete == SlotComplete(flash[RunningSlot])

(* A CRC that is right tells the truth, one of the copies has one, and the *)
(* copy that is not being written is among them.                           *)
CopiesSound ==
  /\ \A c \in Copies : ph[c].crc = "ok" => Sound(ph[c])
  /\ \E c \in Copies : ph[c].crc = "ok"
  /\ pc = "wr_backup" => Sound(ph["primary"]) /\ Sound(ph_buffer)
  /\ pc = "wr_primary" => Sound(ph["backup"]) /\ Sound(ph_buffer)

BootInv == /\ OneRunningSlot /\ HandleElsewhere /\ RunningComplete
           /\ ~torn_base => CopiesSound

-----------------------------------------------------------------------------
LEMMA OtherSlot ==
  ASSUME NEW a \in Slots
  PROVE  LET u == CHOOSE s \in Slots : s # a IN u \in Slots /\ u # a
BY DataAssumption

LEMMA UpdateSlotElsewhere ==
  ASSUME IInv
  PROVE  UpdateSlot # RunningSlot
<1>1. ph["primary"].active \in Slots /\ None \notin Slots
  BY DataAssumption DEF IInv, TypeOK, SwitchType, Copies, ProductHeaders
<1> QED
  BY <1>1, OtherSlot DEF UpdateSlot, RunningSlot

LEMMA BootCopyRuns ==
  ASSUME OneRunningSlot
  PROVE  BootCopy(ph).active = RunningSlot
BY DEF OneRunningSlot, RunningSlot, BootCopy

LEMMA InitBootInv == Init => BootInv
<1> SUFFICES ASSUME Init PROVE BootInv
  OBVIOUS
<1>1. /\ ph["primary"] = FactoryHeader /\ ph["backup"] = FactoryHeader
      /\ Sound(FactoryHeader) /\ FactoryHeader.active \in Slots
  BY FactoryAssumption DEF Init, Copies, Sound, ProductHeaders
<1>2. pc = "ready" /\ nvms = None /\ flash = FactoryFlash
  BY DEF Init, Zeroed
<1>3. OneRunningSlot
  BY <1>1, <1>2 DEF OneRunningSlot, RunningSlot
<1>4. HandleElsewhere
  BY <1>1, <1>2, DataAssumption DEF HandleElsewhere, RunningSlot
<1>5. RunningComplete
  BY <1>1, <1>2, FactoryAssumption DEF RunningComplete, RunningSlot
<1>6. CopiesSound
  BY <1>1, <1>2 DEF CopiesSound, Copies, Sound
<1> QED
  BY <1>3, <1>4, <1>5, <1>6 DEF BootInv

-----------------------------------------------------------------------------
(* Steps that write no product header.                                     *)

PhKept == UNCHANGED <<ph, ph_buffer, torn_base>>
SlotKept == flash'[RunningSlot] = flash[RunningSlot]

LEMMA KeptBootInv ==
  ASSUME BootInv, PhKept, SlotKept, nvms' # RunningSlot,
         pc' \notin {"off", "wr_backup", "wr_primary"}
  PROVE  BootInv'
<1>1. OneRunningSlot' /\ HandleElsewhere'
  BY DEF BootInv, PhKept, OneRunningSlot, HandleElsewhere, RunningSlot
<1>2. RunningComplete'
  BY DEF BootInv, PhKept, SlotKept, RunningComplete, RunningSlot
<1>3. ~torn_base => CopiesSound'
  BY DEF BootInv, PhKept, CopiesSound
<1> QED
  BY <1>1, <1>2, <1>3 DEF BootInv, PhKept

(* One slot of the flash is written, the one of the handle or the one that *)
(* is opened for the update.                                               *)
LEMMA OtherSlotWritten ==
  ASSUME IInv, BootInv, NEW w, w # RunningSlot, NEW f, flash' = [flash EXCEPT ![w] = f]
  PROVE  SlotKept
<1>1. flash \in [Slots -> Cells] /\ RunningSlot \in Slots
  BY DEF IInv, TypeOK, FlashType, SwitchType, Copies, ProductHeaders, RunningSlot
<1> QED
  BY <1>1 DEF SlotKept

LEMMA CommandsBootInv ==
  ASSUME IInv, BootInv, Command, ~MemDevReboot
  PROVE  BootInv' /\ UNCHANGED flash
<1> USE DEF recvVars, addrVars, imgVars, chunkVars, loopVars, phVars, failVars, Reply
<1>1. PhKept /\ UNCHANGED <<flash, nvms>>
  BY DEF Command, WriteStatus, PatchLenWrite, PatchData, MemDevOther, MemDevStart, MemDevExit,
         MemDevEnd, PhKept
<1>2. pc' \in {"ready", "patch", "wr_header"}
  BY DEF Command, WriteStatus, PatchLenWrite, PatchData, MemDevOther, MemDevStart, MemDevExit,
         MemDevEnd
<1> QED
  BY <1>1, <1>2, KeptBootInv DEF SlotKept, BootInv, HandleElsewhere

LEMMA LoopBootInv ==
  ASSUME IInv, BootInv,
         \/ PatchRefused \/ PatchIgnored \/ PullShort \/ ChunkAdd \/ ChunkNotify \/ PatchReturn
  PROVE  BootInv' /\ UNCHANGED flash
<1> USE DEF recvVars, addrVars, imgVars, chunkVars, loopVars, phVars, failVars, Reply,
            iterUnchanged, chunkUnchanged, Iterated
<1>1. PhKept /\ UNCHANGED <<flash, nvms>>
  BY DEF PatchRefused, PatchIgnored, PullShort, ChunkAdd, ChunkNotify, PatchReturn, PhKept
<1>2. pc' \in {"patch", "chunk", "hang", "ready"}
  BY DEF PatchRefused, PatchIgnored, PullShort, ChunkAdd, ChunkNotify, PatchReturn
<1> QED
  BY <1>1, <1>2, KeptBootInv DEF SlotKept, BootInv, HandleElsewhere

LEMMA HandlersBootInv ==
  ASSUME IInv, BootInv, HandleHeader \/ HandleHeaderExt \/ HandleImageData
  PROVE  BootInv' /\ SlotKept
<1> USE DEF recvVars, addrVars, imgVars, chunkVars, loopVars, phVars, failVars, iterUnchanged
<1>1. PhKept
  BY DEF HandleHeader, HandleHeaderExt, HandleImageData, PhKept
<1>2. pc' \in {"patch", "chunk", "fault"}
  BY DEF HandleHeader, HandleHeaderExt, HandleImageData, ErrorCb, Iterated
<1>3. nvms' \in {nvms, UpdateSlot}
  BY DEF HandleHeader, HandleHeaderExt, HandleImageData
<1>4. UNCHANGED flash \/ \E w \in {nvms, UpdateSlot} : \E f : flash' = [flash EXCEPT ![w] = f]
  BY DEF HandleHeader, HandleHeaderExt, HandleImageData
<1>5. nvms # RunningSlot /\ UpdateSlot # RunningSlot
  BY UpdateSlotElsewhere DEF BootInv, HandleElsewhere
<1>6. SlotKept
  BY <1>4, <1>5, OtherSlotWritten DEF SlotKept
<1> QED
  BY <1>1, <1>2, <1>3, <1>5, <1>6, KeptBootInv

-----------------------------------------------------------------------------
(* Steps that write the product header, or a part of it.                   *)

LEMMA SwitchBeginsBootInv ==
  ASSUME IInv, BootInv, WriteFwHeader \/ ReadProductHeader
  PROVE  BootInv' /\ SlotKept
<1> USE DEF phVars, endUnchanged, imgVars, Reply, SwitchFails
<1>1. CASE WriteFwHeader
  <2>1. PhKept /\ nvms' = nvms /\ pc' \in {"fault", "read_ph", "ready"}
    BY <1>1 DEF WriteFwHeader, PhKept
  <2>2. UNCHANGED flash \/ \E f : flash' = [flash EXCEPT ![nvms] = f]
    BY <1>1 DEF WriteFwHeader
  <2>3. SlotKept
    BY <2>2, OtherSlotWritten DEF SlotKept, BootInv, HandleElsewhere
  <2> QED
    BY <2>1, <2>3, KeptBootInv DEF BootInv, HandleElsewhere
<1>2. CASE ReadProductHeader
  <2>1. UNCHANGED <<ph, flash, nvms>> /\ pc' \in {"wr_backup", "ready"}
    BY <1>2 DEF ReadProductHeader
  <2>2. pc' = "wr_backup" => /\ ph_buffer' = Stamp(ph["primary"])
                             /\ torn_base' = (torn_base \/ ~Sound(ph["primary"]))
    BY <1>2 DEF ReadProductHeader
  <2>3. pc' = "ready" => UNCHANGED torn_base
    BY <1>2 DEF ReadProductHeader
  <2>4. ph["primary"] \in ProductHeaders
    BY DEF IInv, TypeOK, SwitchType, Copies
  <2>5. /\ Stamp(ph["primary"]).active = RunningSlot
        /\ Sound(ph["primary"]) => Sound(Stamp(ph["primary"]))
    BY <2>4 DEF Stamp, Sound, RunningSlot, ProductHeaders
  <2>6. OneRunningSlot' /\ HandleElsewhere' /\ RunningComplete'
    BY <2>1, <2>2, <2>5
       DEF BootInv, OneRunningSlot, HandleElsewhere, RunningComplete, RunningSlot
  <2>7. ASSUME ~torn_base' PROVE CopiesSound'
    <3>1. ~torn_base /\ (pc' = "wr_backup" => Sound(ph["primary"]))
      <4>1. CASE pc' = "wr_backup"
        BY <2>2, <2>7, <4>1, Zenon
      <4>2. CASE pc' = "ready"
        BY <2>3, <2>7, <4>2
      <4> QED
        BY <2>1, <4>1, <4>2
    <3>2. CopiesSound
      BY <3>1 DEF BootInv
    <3> QED
      BY <2>1, <2>2, <2>5, <3>1, <3>2 DEF CopiesSound, Sound
  <2> QED
    BY <2>1, <2>6, <2>7 DEF BootInv, SlotKept
<1> QED
  BY <1>1, <1>2

(* A copy that is torn names the slot it named before, under a wrong CRC.  *)
LEMMA TornKeepsSlot ==
  ASSUME NEW old, NEW new, NEW q \in Torn(old, new)
  PROVE  q.active = old.active /\ q.crc = "bad"
BY DEF Torn

(* Whatever becomes of the copy c that is being written, the other one is  *)
(* sound, and so is c if it was written to the end.                        *)
LEMMA CopyWritten ==
  ASSUME IInv, BootInv, NEW c \in Copies,
         pc = IF c = "backup" THEN "wr_backup" ELSE "wr_primary",
         NEW q \in Torn(ph[c], ph_buffer) \cup {ph[c], ph_buffer},
         ph' = [ph EXCEPT ![c] = q], UNCHANGED torn_base
  PROVE  /\ ph'["primary"].active = RunningSlot /\ ph'["backup"].active = RunningSlot
         /\ ~torn_base' =>
              /\ \A d \in Copies : ph'[d].crc = "ok" => Sound(ph'[d])
              /\ c = "backup" => Sound(ph'["primary"])
              /\ c = "primary" => Sound(ph'["backup"])
              /\ Sound(ph_buffer)
<1>1. ph \in [Copies -> ProductHeaders] /\ "primary" \in Copies /\ "backup" \in Copies
  BY DEF IInv, TypeOK, SwitchType, Copies
<1>2. \A d \in Copies : ph[d].active = RunningSlot
  BY DEF BootInv, OneRunningSlot, RunningSlot, Copies
<1>3. ph_buffer.active = RunningSlot
  BY DEF BootInv, OneRunningSlot
<1>4. q.active = RunningSlot
  BY <1>2, <1>3, TornKeepsSlot
<1>5. \A d \in Copies : ph'[d] = IF d = c THEN q ELSE ph[d]
  BY <1>1
<1>6. ph'["primary"].active = RunningSlot /\ ph'["backup"].active = RunningSlot
  BY <1>1, <1>2, <1>4, <1>5
<1>7. ASSUME ~torn_base'
      PROVE  /\ \A d \in Copies : ph'[d].crc = "ok" => Sound(ph'[d])
             /\ c = "backup" => Sound(ph'["primary"])
             /\ c = "primary" => Sound(ph'["backup"])
             /\ Sound(ph_buffer)
  <2>1. CopiesSound
    BY <1>7 DEF BootInv
  <2>2. Sound(ph_buffer)
    BY <2>1 DEF CopiesSound, Copies
  <2>3. q.crc = "ok" => Sound(q)
    BY <2>1, <2>2, TornKeepsSlot DEF CopiesSound
  <2> QED
    BY <1>1, <1>5, <2>1, <2>2, <2>3 DEF CopiesSound
<1> QED
  BY <1>6, <1>7

LEMMA CopyStepBootInv ==
  ASSUME IInv, BootInv, WriteBackup \/ WritePrimary
  PROVE  BootInv' /\ SlotKept
<1> USE DEF endUnchanged, imgVars, Reply, SwitchFails
<1>1. PICK c \in Copies : \/ WriteBackup /\ c = "backup"
                          \/ WritePrimary /\ c = "primary"
  BY DEF Copies
<1>2. pc = IF c = "backup" THEN "wr_backup" ELSE "wr_primary"
  BY <1>1 DEF WriteBackup, WritePrimary
<1>3. UNCHANGED <<flash, nvms, ph_buffer, torn_base>>
  BY <1>1 DEF WriteBackup, WritePrimary, WriteProductHeader
<1>4. ph \in [Copies -> ProductHeaders]
  BY DEF IInv, TypeOK, SwitchType
<1>5. PICK q \in Torn(ph[c], ph_buffer) \cup {ph[c], ph_buffer} : ph' = [ph EXCEPT ![c] = q]
  BY <1>1, <1>4 DEF WriteBackup, WritePrimary, WriteProductHeader
<1>6. /\ pc' \in {"wr_backup", "wr_primary", "ready"}
      /\ pc' = "wr_backup" => c = "backup"
      /\ pc' = "wr_primary" => \/ c = "primary"
                               \/ c = "backup" /\ ph' = [ph EXCEPT ![c] = ph_buffer]
  BY <1>1 DEF WriteBackup, WritePrimary, WriteProductHeader
<1>7. /\ ph'["primary"].active = RunningSlot /\ ph'["backup"].active = RunningSlot
      /\ ~torn_base' =>
           /\ \A d \in Copies : ph'[d].crc = "ok" => Sound(ph'[d])
           /\ c = "backup" => Sound(ph'["primary"])
           /\ c = "primary" => Sound(ph'["backup"])
           /\ Sound(ph_buffer)
  BY <1>2, <1>3, <1>5, CopyWritten
<1>8. OneRunningSlot' /\ HandleElsewhere' /\ RunningComplete'
  BY <1>2, <1>3, <1>6, <1>7
     DEF BootInv, OneRunningSlot, HandleElsewhere, RunningComplete, RunningSlot
<1>9. ASSUME ~torn_base' PROVE CopiesSound'
  <2>1. \E d \in Copies : ph'[d].crc = "ok"
    BY <1>7, <1>9 DEF Sound, Copies
  <2>2. pc' = "wr_backup" => Sound(ph'["primary"]) /\ Sound(ph_buffer')
    BY <1>3, <1>6, <1>7, <1>9
  <2>3. pc' = "wr_primary" => Sound(ph'["backup"]) /\ Sound(ph_buffer')
    BY <1>3, <1>4, <1>6, <1>7, <1>9 DEF Copies
  <2> QED
    BY <1>7, <1>9, <2>1, <2>2, <2>3 DEF CopiesSound
<1> QED
  BY <1>3, <1>8, <1>9 DEF BootInv, SlotKept

LEMMA ResetBootInv ==
  ASSUME IInv, BootInv, MemDevReboot \/ PowerLoss
  PROVE  BootInv' /\ SlotKept
<1>1. UNCHANGED <<flash, torn_base>> /\ nvms' = None /\ pc' = "off"
  BY DEF MemDevReboot, PowerLoss, Reset
<1>2. /\ ph'["primary"].active = RunningSlot /\ ph'["backup"].active = RunningSlot
      /\ ~torn_base' => \A d \in Copies : ph'[d].crc = "ok" => Sound(ph'[d])
      /\ ~torn_base' => \E d \in Copies : ph'[d].crc = "ok"
  <2>1. CASE UNCHANGED ph
    BY <1>1, <2>1 DEF BootInv, OneRunningSlot, RunningSlot, CopiesSound
  <2>2. ASSUME NEW c \in Copies, pc = IF c = "backup" THEN "wr_backup" ELSE "wr_primary",
               NEW q \in Torn(ph[c], ph_buffer), ph' = [ph EXCEPT ![c] = q]
        PROVE  /\ ph'["primary"].active = RunningSlot /\ ph'["backup"].active = RunningSlot
               /\ ~torn_base' => \A d \in Copies : ph'[d].crc = "ok" => Sound(ph'[d])
               /\ ~torn_base' => \E d \in Copies : ph'[d].crc = "ok"
    <3>1. /\ ph'["primary"].active = RunningSlot /\ ph'["backup"].active = RunningSlot
          /\ ~torn_base' =>
               /\ \A d \in Copies : ph'[d].crc = "ok" => Sound(ph'[d])
               /\ c = "backup" => Sound(ph'["primary"])
               /\ c = "primary" => Sound(ph'["backup"])
               /\ Sound(ph_buffer)
      BY <1>1, <2>2, CopyWritten
    <3>2. ~torn_base' => \E d \in Copies : ph'[d].crc = "ok"
      BY <3>1 DEF Sound, Copies
    <3> QED
      BY <3>1, <3>2
  <2>3. \/ UNCHANGED ph
        \/ \E c \in Copies : /\ pc = IF c = "backup" THEN "wr_backup" ELSE "wr_primary"
                             /\ \E q \in Torn(ph[c], ph_buffer) : ph' = [ph EXCEPT ![c] = q]
    BY DEF MemDevReboot, PowerLoss, Copies
  <2> QED
    BY <2>1, <2>2, <2>3
<1>3. RunningSlot \in Slots /\ None \notin Slots
  BY DataAssumption DEF IInv, TypeOK, SwitchType, Copies, ProductHeaders, RunningSlot
<1>4. OneRunningSlot' /\ HandleElsewhere' /\ RunningComplete'
  BY <1>1, <1>2, <1>3
     DEF BootInv, OneRunningSlot, HandleElsewhere, RunningComplete, RunningSlot
<1>5. ~torn_base' => CopiesSound'
  BY <1>1, <1>2 DEF CopiesSound
<1> QED
  BY <1>1, <1>4, <1>5 DEF BootInv, SlotKept

LEMMA BootBootInv ==
  ASSUME IInv, BootInv, Boot
  PROVE  BootInv' /\ SlotKept
<1> DEFINE b == BootCopy(ph)
           n == [b EXCEPT !.active = b.update]
<1>1. UNCHANGED <<flash, nvms, torn_base>> /\ pc = "off" /\ pc' \in {"dead", "ready", "fault"}
  BY DEF Boot, ramVars
<1>2. UNCHANGED ph \/ (SlotComplete(flash[b.update]) /\ ph' = [c \in Copies |-> n])
  BY DEF Boot, Loaded
<1>3. b \in ProductHeaders /\ ph \in [Copies -> ProductHeaders]
  BY DEF IInv, TypeOK, SwitchType, BootCopy, Copies
<1>4. CASE UNCHANGED ph
  <2>1. OneRunningSlot' /\ HandleElsewhere' /\ RunningComplete'
    BY <1>1, <1>4 DEF BootInv, OneRunningSlot, HandleElsewhere, RunningComplete, RunningSlot
  <2>2. ~torn_base' => CopiesSound'
    BY <1>1, <1>4 DEF BootInv, CopiesSound
  <2> QED
    BY <1>1, <2>1, <2>2 DEF BootInv, SlotKept
<1>5. CASE SlotComplete(flash[b.update]) /\ ph' = [c \in Copies |-> n]
  <2>1. ph'["primary"] = n /\ ph'["backup"] = n
    BY <1>5 DEF Copies
  <2>2. n.active = b.update /\ b.update \in Slots /\ (Sound(b) => Sound(n))
    BY <1>3 DEF ProductHeaders, Sound
  <2>3. OneRunningSlot' /\ RunningComplete'
    BY <1>1, <1>5, <2>1, <2>2 DEF OneRunningSlot, RunningComplete, RunningSlot
  <2>4. HandleElsewhere'
    BY <1>1, <2>1, <2>2, DataAssumption DEF BootInv, HandleElsewhere, RunningSlot
  <2>5. ASSUME ~torn_base' PROVE CopiesSound'
    <3>1. Sound(b)
      BY <1>1, <2>5 DEF BootInv, CopiesSound, BootCopy, Copies
    <3> QED
      BY <1>1, <2>1, <2>2, <3>1 DEF CopiesSound, Copies, Sound
  <2> QED
    BY <1>1, <2>3, <2>4, <2>5 DEF BootInv, SlotKept
<1> QED
  BY <1>2, <1>4, <1>5

LEMMA StepBootInv ==
  ASSUME IInv, BootInv, [Next]_vars
  PROVE  BootInv' /\ SlotKept
<1>1. CASE Command
  BY <1>1, CommandsBootInv, ResetBootInv DEF Command, SlotKept
<1>2. CASE Work
  BY <1>2, LoopBootInv, HandlersBootInv, SwitchBeginsBootInv, CopyStepBootInv DEF Work, SlotKept
<1>3. CASE PowerLoss \/ Boot
  BY <1>3, ResetBootInv, BootBootInv
<1>4. CASE UNCHANGED vars
  BY <1>4 DEF vars, ramVars, BootInv, OneRunningSlot, HandleElsewhere, RunningComplete,
              RunningSlot, CopiesSound, SlotKept
<1> QED
  BY <1>1, <1>2, <1>3, <1>4 DEF Next

-----------------------------------------------------------------------------
(* At every instant, whatever failed and whenever power was lost, the copy *)
(* of the product header that the boot loader goes by is sound and names a *)
(* slot with a complete image, unless a switch was started from a primary  *)
(* copy that was already damaged.                                          *)
THEOREM DeviceBootable == Spec => []AlwaysBootable
<1>1. Init => IInv /\ BootInv
  BY InitIInv, InitBootInv
<1>2. IInv /\ BootInv /\ [Next]_vars => IInv' /\ BootInv'
  BY StepIInv, StepBootInv
<1>3. BootInv => AlwaysBootable
  <2> SUFFICES ASSUME BootInv PROVE AlwaysBootable
    OBVIOUS
  <2>1. SlotComplete(flash[BootCopy(ph).active])
    BY BootCopyRuns DEF BootInv, RunningComplete
  <2>2. ~torn_base => Sound(BootCopy(ph))
    BY DEF BootInv, CopiesSound, BootCopy, Copies
  <2> QED
    BY <2>1, <2>2 DEF AlwaysBootable
<1> QED
  BY <1>1, <1>2, <1>3, PTL DEF Spec

(* No step of any command, and no failure, writes to or erases the slot    *)
(* that the device would boot.                                             *)
THEOREM RunningSlotNeverWritten == Spec => RunningSlotKept
<1>1. Init => IInv /\ BootInv
  BY InitIInv, InitBootInv
<1>2. IInv /\ BootInv /\ [Next]_vars => IInv' /\ BootInv'
  BY StepIInv, StepBootInv
<1>3. IInv /\ BootInv /\ [Next]_vars
        => [\A s \in Slots : flash'[s] # flash[s] => s # BootCopy(ph).active]_vars
  BY StepBootInv, BootCopyRuns DEF BootInv, SlotKept
<1> QED
  BY <1>1, <1>2, <1>3, PTL DEF Spec, RunningSlotKept

=============================================================================
