---------------------------- MODULE SuouService ----------------------------
(***************************************************************************)
(* The service engine of the software update over UART,                    *)
(* src/features/suouart/src/dlg_suouart.c: the command set of              *)
(* suouart_write_req, the reception of an image into the firmware slot     *)
(* that is not running, and the switch of the product header to that slot. *)
(*                                                                         *)
(* One task calls the service, so a command runs to its end; it is split   *)
(* into one step per iteration of the reception loop and per write of the  *)
(* product header, because power may fail between any two of them.         *)
(*                                                                         *)
(* Data is abstract: a byte is a member of Byte, a header is what          *)
(* ParseHeader makes of HDR bytes, and a CRC is the sequence of bytes it   *)
(* was computed over (no collisions), with Flip for a final inversion.     *)
(***************************************************************************)
EXTENDS Integers, Sequences, FiniteSets

CONSTANTS
  HDR,            \* sizeof(suota_1_1_image_header_da1469x_t)
  BUF,            \* SUOUART_BUFFER_SIZE
  SECTOR,         \* AD_FLASH_SECTOR_SIZE
  PART_SIZE,      \* size of each firmware slot
  TRIES,          \* PH_WRITE_RETRY_TRIES_NUM
  U16, U32,       \* number of values of uint16_t and of uint32_t
  Slots,          \* NVMS_FW_EXEC_PART and NVMS_FW_UPDATE_PART
  None,           \* the null pointer
  Byte, Zero, Erased, Garbage,  \* bytes; 0x00, 0xFF, and a corrupted one
  Flip,           \* the mark of an inversion in a CRC
  ParseHeader(_), \* the header that HDR bytes stand for
  Lines,          \* the PATCH_DATA lines that may arrive
  PatchLens,      \* the values that may be written to PATCH_LEN
  OtherDevs,      \* whether a device below SUOUART_IMG_SPI_FLASH may be selected
  Statuses,       \* the values that may be written to the status word
  FactoryFlash,   \* contents of the slots when the device leaves the factory
  FactoryHeader,  \* the product header then, the same in both copies
  MaxTotal,       \* bound: bytes received since the last start
  MaxFaults,      \* bound: flash operations that fail
  MaxResets       \* bound: reboots and losses of power

Copies == {"primary", "backup"}
Headers == [id_ok : BOOLEAN, size : 0..U32-1, ivt : 0..U32-1, crc : Seq(Byte)]
ProductHeaders == [head : {"ok", "bad"}, active : Slots, update : Slots,
                   body : {"good", "bad"}, crc : {"ok", "bad"}]
Cells == [0..PART_SIZE-1 -> Byte]
Messages == {"OK", "ERROR", "SRV_EXIT", "IMG_STARTED", "CMP_OK", "CRC_ERR", "APP_ERROR",
             "INVAL_IMG_HDR", "INVAL_IMG_BANK", "INVAL_IMG_SIZE"}

ASSUME SizesAssumption ==
  /\ HDR \in Nat \ {0} /\ BUF \in Nat /\ SECTOR \in Nat /\ PART_SIZE \in Nat
  /\ HDR <= BUF /\ BUF < SECTOR /\ SECTOR <= PART_SIZE
  /\ U16 \in Nat /\ U32 \in Nat /\ 0 < U16 /\ PART_SIZE + SECTOR + SECTOR < U32
  /\ TRIES \in Nat \ {0}
  /\ MaxTotal \in Nat /\ MaxTotal < U32 /\ MaxFaults \in Nat /\ MaxResets \in Nat

ASSUME DataAssumption ==
  /\ Zero \in Byte /\ Erased \in Byte /\ Garbage \in Byte
  /\ Flip \notin Byte
  /\ \E a, b \in Slots : a # b /\ Slots = {a, b} /\ None \notin Slots
  /\ \A s \in [1..HDR -> Byte] : ParseHeader(s) \in Headers

ASSUME InputAssumption ==
  /\ \A l \in Lines : l \in Seq(Byte) /\ Len(l) \in 1..U16-1
  /\ PatchLens \subseteq 0..U16-1
  /\ OtherDevs \in BOOLEAN
  /\ Statuses \subseteq Nat

VARIABLES
  state, alloc, buffer, cbs, header, nvms, image_crc,
  recv_total_len, recv_hdr_ext_len, recv_image_len,
  flash_write_addr, flash_erase_addr, chunk_len, patch_len, external_status,
                          \* suouart_service_t; alloc: buffer # NULL; Len(buffer): buffer_len
  pc, line, taken, ret,   \* the command being executed and the loop over its data
  out,                    \* notifications and replies of the last command
  ph_buffer, retry_cnt,   \* locals of the product header update
  flash, ph,              \* non-volatile: the slots and the copies of the product header
  faults, resets,         \* how many failures have happened
  torn_base               \* history: a switch was built from an unsound primary copy

recvVars  == <<recv_hdr_ext_len, recv_image_len, image_crc>>
addrVars  == <<flash_write_addr, flash_erase_addr>>
imgVars   == <<header, nvms>>
chunkVars == <<cbs, chunk_len, patch_len>>
loopVars  == <<line, taken, ret>>
phVars    == <<ph_buffer, retry_cnt, ph, torn_base>>
failVars  == <<faults, resets>>
ramVars   == <<state, alloc, buffer, cbs, header, nvms, image_crc, recv_total_len,
               recv_hdr_ext_len, recv_image_len, flash_write_addr, flash_erase_addr,
               chunk_len, patch_len, external_status, line, taken, ret, out,
               ph_buffer, retry_cnt>>
vars      == <<ramVars, pc, flash, ph, faults, resets, torn_base>>

-----------------------------------------------------------------------------
(* Arithmetic of the unsigned types, and bytes in flash.                   *)

MinOf(a, b)   == IF a <= b THEN a ELSE b
Add32(a, b)   == IF a + b < U32 THEN a + b ELSE a + b - U32
Sub32(a, b)   == IF a >= b THEN a - b ELSE a - b + U32
Add16(a, b)   == IF a + b < U16 THEN a + b ELSE a + b - U16
SectorOf(a)   == a - (a % SECTOR)

\* (a | (SECTOR - 1)) + 1
NextSectorTwice(a) == SectorOf(a) + SECTOR + SECTOR    \* mutant: one sector too far
NextSector(a) == SectorOf(a) + SECTOR

Bytes(f, a, n) == [k \in 1..n |-> f[a + k - 1]]

\* The cells f after the bytes s have been written from address a.
Program(f, a, s) ==
  [x \in 0..PART_SIZE-1 |-> IF a <= x /\ x < a + Len(s) THEN s[x - a + 1] ELSE f[x]]

\* ad_nvms_erase_region erases every sector that the region touches.
EraseRegion(f, a, n) ==
  [x \in 0..PART_SIZE-1 |->
     IF SectorOf(a) <= x /\ SectorOf(x) <= a + n - 1 THEN Erased ELSE f[x]]

\* How many of n bytes fit between address a and the end of the slot; -1: refused.
Fit(a, n) == IF n > 0 /\ a >= PART_SIZE THEN -1 ELSE MinOf(n, PART_SIZE - MinOf(a, PART_SIZE))

Hdr == ParseHeader(header)

\* What the boot loader, and nobody before it, requires of a slot.
SlotComplete(f) ==
  LET h == ParseHeader(Bytes(f, 0, HDR))
  IN  /\ h.id_ok
      /\ h.ivt + h.size <= PART_SIZE
      /\ Bytes(f, h.ivt, h.size) = h.crc

\* The device leaves the factory with a complete image in the slot it boots.
ASSUME FactoryAssumption ==
  /\ FactoryFlash \in [Slots -> Cells]
  /\ FactoryHeader \in ProductHeaders
  /\ FactoryHeader.head = "ok" /\ FactoryHeader.body = "good" /\ FactoryHeader.crc = "ok"
  /\ SlotComplete(FactoryFlash[FactoryHeader.active])

Sound(p) == p.head = "ok" /\ p.body = "good" /\ p.crc = "ok"

-----------------------------------------------------------------------------
Zeroed == \* static storage after a reset
  /\ state = "IDLE" /\ alloc = FALSE /\ buffer = <<>> /\ cbs = FALSE
  /\ header = [k \in 1..HDR |-> Zero] /\ nvms = None /\ image_crc = <<Flip>>
  /\ recv_total_len = 0 /\ recv_hdr_ext_len = 0 /\ recv_image_len = 0
  /\ flash_write_addr = 0 /\ flash_erase_addr = 0
  /\ chunk_len = 0 /\ patch_len = 0 /\ external_status = 0
  /\ line = <<>> /\ taken = 0 /\ ret = FALSE /\ out = <<>>
  /\ ph_buffer = FactoryHeader /\ retry_cnt = 0

Init ==
  /\ Zeroed
  /\ pc = "ready"
  /\ flash = FactoryFlash
  /\ ph = [c \in Copies |-> FactoryHeader]
  /\ faults = 0 /\ resets = 0 /\ torn_base = FALSE

Reply(s) == out' = s /\ pc' = "ready"

(***************************************************************************)
(* Commands that keep the service where it is.                             *)
(***************************************************************************)
WriteStatus(v) ==
  /\ pc = "ready"
  /\ external_status' = v
  /\ Reply(<<"OK">>)
  /\ UNCHANGED <<state, alloc, buffer, recv_total_len, recvVars, addrVars, imgVars,
                 chunkVars, loopVars, phVars, flash, failVars>>

PatchLenWrite(n) ==
  /\ pc = "ready"
  /\ cbs' = TRUE
  /\ patch_len' = n
  /\ Reply(<<"OK">>)
  /\ UNCHANGED <<state, alloc, buffer, recv_total_len, recvVars, addrVars, imgVars,
                 chunk_len, external_status, loopVars, phVars, flash, failVars>>

\* Every device below SUOUART_MEM_INVAL_DEV resets the addresses; only SPI_FLASH goes on.
MemDevOther ==
  /\ pc = "ready"
  /\ OtherDevs
  /\ flash_write_addr' = 0
  /\ flash_erase_addr' = 0
  /\ Reply(<<"OK">>)
  /\ UNCHANGED <<state, alloc, buffer, recv_total_len, recvVars, imgVars, chunkVars,
                 external_status, loopVars, phVars, flash, failVars>>

StartOverKeepsCrc ==        \* mutant: image_crc is not set again
  /\ recv_hdr_ext_len' = 0 /\ recv_image_len' = 0 /\ image_crc' = image_crc
StartOverKeepsLen ==        \* mutant: recv_image_len is not set again
  /\ recv_hdr_ext_len' = 0 /\ UNCHANGED recv_image_len /\ image_crc' = <<>>
StartOver ==
  /\ recv_hdr_ext_len' = 0 /\ recv_image_len' = 0 /\ image_crc' = <<>>

MemDevStart ==
  /\ pc = "ready"
  /\ flash_write_addr' = 0
  /\ flash_erase_addr' = 0
  /\ \/ /\ alloc' = TRUE
        /\ state' = "W4_HEADER"
        /\ buffer' = <<>>
        /\ StartOver
        /\ recv_total_len' = 0
        /\ chunk_len' = 0
        /\ Reply(<<"IMG_STARTED", "OK">>)
     \/ /\ ~alloc     \* OS_MALLOC returns NULL
        /\ Reply(<<"SRV_EXIT", "OK">>)
        /\ UNCHANGED <<alloc, state, buffer, recv_total_len, recvVars, chunk_len>>
  /\ UNCHANGED <<imgVars, cbs, patch_len, external_status, loopVars, phVars, flash, failVars>>

MemDevExit ==
  /\ pc = "ready"
  /\ alloc' = FALSE
  /\ Reply(<<"SRV_EXIT", "OK">>)
  /\ UNCHANGED <<state, buffer, recv_total_len, recvVars, addrVars, imgVars, chunkVars,
                 external_status, loopVars, phVars, flash, failVars>>

(***************************************************************************)
(* SUOUART_IMG_END: compare the CRC, then switch the product header.       *)
(***************************************************************************)
Inverted(crc) == IF crc # <<>> /\ crc[Len(crc)] = Flip
                 THEN SubSeq(crc, 1, Len(crc) - 1) ELSE Append(crc, Flip)

MemDevEnd ==
  /\ pc = "ready"
  /\ image_crc' = Inverted(image_crc)
  /\ \/ /\ image_crc' # Append(Hdr.crc, Flip)
        /\ Reply(<<"CRC_ERR", "OK">>)
     \/ /\ image_crc' = Append(Hdr.crc, Flip)
        /\ out' = <<>>
        /\ pc' = "wr_header"
  /\ UNCHANGED <<state, alloc, buffer, recv_total_len, recv_hdr_ext_len, recv_image_len,
                 addrVars, imgVars, chunkVars, external_status, loopVars, phVars, flash, failVars>>

endUnchanged == <<state, alloc, buffer, recv_total_len, recvVars, addrVars, imgVars,
                  chunkVars, external_status, loopVars>>

\* The error returns of suouart_set_active_img_ptr.
SwitchFails == Reply(<<"APP_ERROR", "ERROR">>)

WriteFwHeader ==
  /\ pc = "wr_header"
  /\ \/ /\ nvms = None      \* no image was ever started: the partition handle is null
        /\ pc' = "fault"
        /\ UNCHANGED <<out, flash, faults>>
     \/ /\ nvms # None
        /\ flash' = [flash EXCEPT ![nvms] = Program(@, 0, header)]
        /\ pc' = "read_ph"
        /\ UNCHANGED <<out, faults>>
     \/ /\ nvms # None
        /\ faults < MaxFaults
        /\ faults' = faults + 1
        /\ \E n \in 0..HDR-1 :
             flash' = [flash EXCEPT ![nvms] = Program(@, 0, SubSeq(header, 1, n))]
        /\ SwitchFails
  /\ UNCHANGED <<endUnchanged, phVars, resets>>

StampNoCrc(p)    == [p EXCEPT !.update = nvms, !.crc = "bad"]   \* mutant: no fresh CRC
StampNoUpdate(p) == [p EXCEPT !.crc = "ok"]                     \* mutant: no fresh address
Stamp(p)         == [p EXCEPT !.update = nvms, !.crc = "ok"]

\* The whole primary copy is read, whatever its CRC, and stamped with a fresh one.
ReadProductHeader ==
  /\ pc = "read_ph"
  /\ \/ /\ ph_buffer' = Stamp(ph["primary"])
        /\ retry_cnt' = 0
        /\ torn_base' = (torn_base \/ ~Sound(ph["primary"]))
        /\ pc' = "wr_backup"
        /\ UNCHANGED <<out, faults>>
     \/ /\ faults < MaxFaults        \* open, malloc or read failed
        /\ faults' = faults + 1
        /\ SwitchFails
        /\ UNCHANGED <<ph_buffer, retry_cnt, torn_base>>
  /\ UNCHANGED <<endUnchanged, ph, flash, resets>>

\* What an interrupted write may leave of a copy.
Torn(old, new) == [head : {"ok", "bad"}, active : {old.active}, update : {old.update, new.update},
                   body : {new.body, "bad"}, crc : {"bad"}]

\* One try of suouart_safe_product_header_write: write, read back, compare.
WriteProductHeader(c, next) ==
  /\ \/ /\ ph' = [ph EXCEPT ![c] = ph_buffer]
        /\ retry_cnt' = 0
        /\ next
        /\ UNCHANGED faults
     \/ /\ faults < MaxFaults
        /\ faults' = faults + 1
        /\ \/ /\ \E p \in Torn(ph[c], ph_buffer) \cup {ph[c], ph_buffer} :
                   ph' = [ph EXCEPT ![c] = p]
              /\ retry_cnt' = retry_cnt + 1
              /\ IF retry_cnt' < TRIES THEN UNCHANGED <<pc, out>> ELSE SwitchFails
           \/ /\ SwitchFails          \* malloc returns NULL
              /\ UNCHANGED <<ph, retry_cnt>>
  /\ UNCHANGED <<endUnchanged, ph_buffer, torn_base, flash, resets>>

WriteBackup ==
  /\ pc = "wr_backup"
  /\ WriteProductHeader("backup", pc' = "wr_primary" /\ UNCHANGED out)

WritePrimary ==
  /\ pc = "wr_primary"
  /\ WriteProductHeader("primary", Reply(<<"CMP_OK", "OK">>))

(***************************************************************************)
(* PATCH_DATA: suouart_handle_patch_data loops over the line, one          *)
(* iteration of suouart_process_patch_data per step.                       *)
(***************************************************************************)
Receiving == state \in {"W4_HEADER", "W4_HEADER_EXT", "W4_IMAGE_DATA"}

PatchData(l) ==
  /\ pc = "ready"
  /\ recv_total_len + Len(l) <= MaxTotal
  /\ IF alloc
     THEN /\ recv_total_len' = recv_total_len + Len(l)
          /\ line' = l
          /\ taken' = 0
          /\ out' = <<>>
          /\ pc' = "patch"
     ELSE /\ Reply(<<"ERROR">>)
          /\ UNCHANGED <<recv_total_len, line, taken>>
  /\ UNCHANGED <<state, alloc, buffer, ret, recvVars, addrVars, imgVars, chunkVars,
                 external_status, phVars, flash, failVars>>

iterUnchanged == <<alloc, recv_total_len, chunkVars, external_status, line, phVars, resets>>

IteratedAnyway(n, r) ==     \* mutant: the loop does not look at the result
  /\ taken' = taken + n
  /\ ret' = r
  /\ pc' = IF taken + n < Len(line) THEN "patch" ELSE "chunk"

\* One iteration took n bytes and returned r: go round again or leave the loop.
Iterated(n, r) ==
  /\ taken' = taken + n
  /\ ret' = r
  /\ pc' = IF r /\ taken + n < Len(line) THEN "patch" ELSE "chunk"

PatchRefused ==
  /\ pc = "patch"
  /\ state \in {"IDLE", "ERROR"}
  /\ Iterated(0, FALSE)
  /\ UNCHANGED <<iterUnchanged, state, buffer, recvVars, addrVars, imgVars, out, flash, faults>>

TrailingOfLine == Len(line)       \* mutant: the length of the line, not of its rest
Trailing == Len(line) - taken

\* Trailing data is ignored.
PatchIgnored ==
  /\ pc = "patch"
  /\ state = "DONE"
  /\ Iterated(Trailing, TRUE)
  /\ UNCHANGED <<iterUnchanged, state, buffer, recvVars, addrVars, imgVars, out, flash, faults>>

\* expected_len of suouart_process_patch_data
ExpectedLen ==
  CASE state = "W4_HEADER"     -> HDR
    [] state = "W4_HEADER_EXT" -> MinOf(BUF, Sub32(Sub32(Hdr.ivt, HDR), recv_hdr_ext_len))
    [] state = "W4_IMAGE_DATA" -> MinOf(BUF, Sub32(Hdr.size, recv_image_len))

\* suouart_pull_to_buffer
Pulled == IF Len(buffer) >= ExpectedLen THEN 0
          ELSE MinOf(ExpectedLen - Len(buffer), Len(line) - taken)
Filled == buffer \o SubSeq(line, taken + 1, taken + Pulled)

PullShort ==
  /\ pc = "patch"
  /\ Receiving
  /\ Len(Filled) < ExpectedLen
  /\ buffer' = Filled
  /\ Iterated(Pulled, TRUE)
  /\ UNCHANGED <<iterUnchanged, state, recvVars, addrVars, imgVars, out, flash, faults>>

HandleKeeps(s) == pc = "patch" /\ state = s /\ Len(Filled) >= ExpectedLen /\ buffer' = Filled  \* mutant

\* A state handler has all it waits for; the buffer is empty after it.
Handle(s) == pc = "patch" /\ state = s /\ Len(Filled) >= ExpectedLen /\ buffer' = <<>>

\* suouart->error_cb: set by the first write of PATCH_LEN, null before that.
ErrorCb(status, r) ==
  IF cbs
  THEN out' = Append(out, status) /\ state' = "ERROR" /\ Iterated(Pulled, r)
  ELSE pc' = "fault" /\ UNCHANGED <<out, state, taken, ret>>

\* suouart_prepare_flash for a write of n bytes into the slot p
Prepare(p, n) ==
  LET end == Sub32(Add32(flash_write_addr, n), 1)
      e   == flash_erase_addr
      sector == {x \in 0..PART_SIZE-1 : e <= x /\ x < e + SECTOR}
  IN  IF end < e
      THEN [cells |-> flash[p], erase |-> e]
      ELSE [cells |-> IF \A x \in sector : flash[p][x] = Erased THEN flash[p]
                      ELSE EraseRegion(flash[p], e, end - e + 1),
            erase |-> NextSector(end + 1) % U32]

\* suouart_open_suota_fw_partition: the slot that the primary copy does not call active
UpdateSlotRunning ==      \* mutant: the test of the active address the wrong way round
  IF ph["primary"].head = "ok" THEN ph["primary"].active ELSE None
UpdateSlot ==
  IF ph["primary"].head = "ok" THEN CHOOSE s \in Slots : s # ph["primary"].active ELSE None

\* suouart_state_w4_header
HandleHeader ==
  LET h == ParseHeader(Filled)
      p == Prepare(UpdateSlot, HDR)
  IN
  /\ Handle("W4_HEADER")
  /\ header' = Filled
  /\ \/ /\ ~h.id_ok
        /\ ErrorCb("INVAL_IMG_HDR", FALSE)
        /\ UNCHANGED <<nvms, addrVars, flash>>
     \/ /\ h.id_ok
        /\ nvms' = UpdateSlot
        /\ \/ /\ nvms' = None
              /\ ErrorCb("INVAL_IMG_BANK", TRUE)
              /\ UNCHANGED <<addrVars, flash>>
           \/ /\ nvms' # None
              /\ Add32(h.ivt, h.size) > PART_SIZE
              /\ ErrorCb("INVAL_IMG_SIZE", FALSE)
              /\ UNCHANGED <<addrVars, flash>>
           \/ /\ nvms' # None
              /\ Add32(h.ivt, h.size) <= PART_SIZE
              /\ flash' = [flash EXCEPT ![UpdateSlot] = p.cells]
              /\ flash_erase_addr' = p.erase
              /\ flash_write_addr' = Add32(flash_write_addr, HDR)
              /\ state' = "W4_HEADER_EXT"
              /\ Iterated(Pulled, TRUE)
              /\ UNCHANGED out
  /\ UNCHANGED <<iterUnchanged, recvVars, faults>>

\* suouart_state_w4_header_ext; n bytes are written, -1 for an error
HandleHeaderExt ==
  LET p    == Prepare(nvms, Len(Filled))
      fits == Fit(flash_write_addr, Len(Filled))
  IN
  /\ Handle("W4_HEADER_EXT")
  /\ flash_erase_addr' = p.erase
  /\ \E n \in -1..BUF :
       /\ \/ n = fits /\ UNCHANGED faults
          \/ n < fits /\ faults < MaxFaults /\ faults' = faults + 1
       /\ flash' = [flash EXCEPT ![nvms] =
                      Program(p.cells, flash_write_addr, SubSeq(Filled, 1, n))]
       /\ IF n < 0
          THEN UNCHANGED <<flash_write_addr, recv_hdr_ext_len, state>>
          ELSE /\ flash_write_addr' = Add32(flash_write_addr, n)
               /\ recv_hdr_ext_len' = Add32(recv_hdr_ext_len, n)
               /\ state' = IF recv_hdr_ext_len' = Sub32(Hdr.ivt, HDR)
                           THEN "W4_IMAGE_DATA" ELSE state
       /\ Iterated(Pulled, n = Len(Filled))
  /\ UNCHANGED <<iterUnchanged, recv_image_len, image_crc, imgVars, out>>

ReadBackNothing(f, a, s) == s      \* mutant: the CRC is taken over what was sent
ReadBack(f, a, s) == Bytes(f, a, Len(s))

\* suouart_state_w4_image_data: the CRC is taken over what is read back from flash
HandleImageData ==
  LET p    == Prepare(nvms, Len(Filled))
      a    == flash_write_addr
      fits == Fit(a, Len(Filled))
  IN
  /\ Handle("W4_IMAGE_DATA")
  /\ flash_erase_addr' = p.erase
  /\ \/ \E s \in {Filled, [Filled EXCEPT ![1] = Garbage]} :   \* the write succeeds, or seems to
          /\ fits = Len(Filled)
          /\ \/ s = Filled /\ UNCHANGED faults
             \/ s # Filled /\ faults < MaxFaults /\ faults' = faults + 1
          /\ flash' = [flash EXCEPT ![nvms] = Program(p.cells, a, s)]
          /\ flash_write_addr' = Add32(a, Len(Filled))
          /\ image_crc' = image_crc \o ReadBack(flash'[nvms], a, Filled)
          /\ recv_image_len' = Add32(recv_image_len, Len(Filled))
          /\ state' = IF recv_image_len' = Hdr.size THEN "DONE" ELSE state
          /\ Iterated(Pulled, TRUE)
     \/ \E n \in -1..BUF :      \* a short or refused write, or a failed read back
          /\ \/ n = fits /\ fits < Len(Filled) /\ UNCHANGED faults
             \/ n <= fits /\ faults < MaxFaults /\ faults' = faults + 1
          /\ flash' = [flash EXCEPT ![nvms] = Program(p.cells, a, SubSeq(Filled, 1, n))]
          /\ Iterated(Pulled, FALSE)
          /\ UNCHANGED <<flash_write_addr, image_crc, recv_image_len, state>>
  /\ UNCHANGED <<iterUnchanged, recv_hdr_ext_len, imgVars, out>>

-----------------------------------------------------------------------------
(* After the loop: one notification per patch_len bytes taken, then the    *)
(* reply.  A line that was processed well has no reply of its own.         *)

chunkUnchanged == <<state, alloc, buffer, cbs, recv_total_len, recvVars, addrVars, imgVars,
                    patch_len, external_status, phVars, flash, failVars>>

\* The bytes taken from the line are added once; taken = 0 then.
ChunkAdd ==
  /\ pc = "chunk"
  /\ cbs /\ taken # 0
  /\ chunk_len' = Add16(chunk_len, taken)
  /\ taken' = 0
  /\ UNCHANGED <<chunkUnchanged, line, ret, out, pc>>

ChunkNotify ==
  /\ pc = "chunk"
  /\ cbs /\ taken = 0
  /\ chunk_len >= patch_len
  /\ IF patch_len = 0
     THEN pc' = "hang" /\ UNCHANGED <<out, chunk_len>>    \* the loop never ends
     ELSE /\ out' = Append(out, "CMP_OK")
          /\ chunk_len' = chunk_len - patch_len
          /\ UNCHANGED pc
  /\ UNCHANGED <<chunkUnchanged, loopVars>>

PatchReturn ==
  /\ pc = "chunk"
  /\ cbs => taken = 0 /\ chunk_len < patch_len
  /\ Reply(IF ret THEN out ELSE Append(out, "ERROR"))
  /\ line' = <<>> /\ taken' = 0 /\ ret' = FALSE
  /\ UNCHANGED <<chunkUnchanged, chunk_len>>

-----------------------------------------------------------------------------
(***************************************************************************)
(* Resets.  RAM is lost; flash and the product header stay, but for a copy *)
(* of the product header that was being written when power failed.         *)
(***************************************************************************)
Reset ==
  /\ state' = "IDLE" /\ alloc' = FALSE /\ buffer' = <<>> /\ cbs' = FALSE
  /\ header' = [k \in 1..HDR |-> Zero] /\ nvms' = None /\ image_crc' = <<Flip>>
  /\ recv_total_len' = 0 /\ recv_hdr_ext_len' = 0 /\ recv_image_len' = 0
  /\ flash_write_addr' = 0 /\ flash_erase_addr' = 0
  /\ chunk_len' = 0 /\ patch_len' = 0 /\ external_status' = 0
  /\ line' = <<>> /\ taken' = 0 /\ ret' = FALSE /\ out' = <<>>
  /\ ph_buffer' = FactoryHeader /\ retry_cnt' = 0
  /\ pc' = "off"

MemDevReboot ==
  /\ pc = "ready"
  /\ resets < MaxResets
  /\ resets' = resets + 1
  /\ Reset
  /\ UNCHANGED <<flash, ph, faults, torn_base>>

PowerLoss ==
  /\ pc # "off"
  /\ resets < MaxResets
  /\ resets' = resets + 1
  /\ Reset
  /\ \/ UNCHANGED ph
     \/ /\ pc \in {"wr_backup", "wr_primary"}
        /\ LET c == IF pc = "wr_backup" THEN "backup" ELSE "primary"
           IN  \E p \in Torn(ph[c], ph_buffer) : ph' = [ph EXCEPT ![c] = p]
  /\ UNCHANGED <<flash, faults, torn_base>>

\* The copy of the product header that the boot loader goes by.
BootCopy(q) == IF q["primary"].crc = "ok" THEN q["primary"] ELSE q["backup"]

\* The boot loader takes a complete update over, and then writes both copies.
Loaded ==
  LET b == BootCopy(ph)
  IN  IF b.update # b.active /\ SlotComplete(flash[b.update])
      THEN [c \in Copies |-> [b EXCEPT !.active = b.update]] ELSE ph

\* The boot loader, then suouart_init with its OS_ASSERT on a primary copy it cannot read.
Boot ==
  /\ pc = "off"
  /\ IF BootCopy(ph).crc # "ok"
     THEN pc' = "dead" /\ UNCHANGED ph
     ELSE /\ ph' = Loaded
          /\ pc' = IF ph'["primary"].head = "ok" THEN "ready" ELSE "fault"
  /\ UNCHANGED <<ramVars, flash, faults, resets, torn_base>>

-----------------------------------------------------------------------------
Command ==
  \/ \E v \in Statuses : WriteStatus(v)
  \/ \E n \in PatchLens : PatchLenWrite(n)
  \/ \E l \in Lines : PatchData(l)
  \/ MemDevOther \/ MemDevStart \/ MemDevExit \/ MemDevEnd \/ MemDevReboot

Work ==
  \/ PatchRefused \/ PatchIgnored \/ PullShort
  \/ HandleHeader \/ HandleHeaderExt \/ HandleImageData
  \/ ChunkAdd \/ ChunkNotify \/ PatchReturn
  \/ WriteFwHeader \/ ReadProductHeader \/ WriteBackup \/ WritePrimary

Next == Command \/ Work \/ PowerLoss \/ Boot

Spec == Init /\ [][Next]_vars

\* The task runs on while it has work to do.
FairSpec == Spec /\ WF_vars(Work)

-----------------------------------------------------------------------------
(* Properties.                                                             *)

FlagType == alloc \in BOOLEAN /\ cbs \in BOOLEAN /\ ret \in BOOLEAN /\ torn_base \in BOOLEAN
StateType ==
  /\ state \in {"IDLE", "W4_HEADER", "W4_HEADER_EXT", "W4_IMAGE_DATA", "DONE", "ERROR"}
  /\ nvms \in Slots \cup {None}
BufferType ==
  /\ buffer \in Seq(Byte)
  /\ header \in [1..HDR -> Byte]
  /\ image_crc \in Seq(Byte \cup {Flip})
CounterType ==
  /\ recv_total_len \in 0..U32-1
  /\ recv_hdr_ext_len \in 0..U32-1 /\ recv_image_len \in 0..U32-1
  /\ flash_write_addr \in 0..U32-1 /\ flash_erase_addr \in 0..U32-1
  /\ chunk_len \in 0..U16-1 /\ patch_len \in 0..U16-1 /\ external_status \in Nat
LineType ==
  /\ line \in Seq(Byte) /\ Len(line) < U16
  /\ taken \in 0..Len(line)
RunType ==
  /\ pc \in {"ready", "patch", "chunk", "wr_header", "read_ph", "wr_backup", "wr_primary",
             "fault", "hang", "off", "dead"}
  /\ out \in Seq(Messages)
SwitchType ==
  /\ ph_buffer \in ProductHeaders /\ retry_cnt \in 0..TRIES
  /\ ph \in [Copies -> ProductHeaders]
FlashType ==
  /\ flash \in [Slots -> Cells]
  /\ faults \in 0..MaxFaults /\ resets \in 0..MaxResets

(* Every variable keeps its type: the lengths and addresses of the service *)
(* fit their unsigned types and never go below zero, and no more is taken  *)
(* from a line than it holds.                                              *)
TypeOK == /\ FlagType /\ StateType /\ BufferType /\ CounterType /\ LineType
          /\ RunType /\ SwitchType /\ FlashType

(* "We shall never have more than expected_len bytes of data in buffer"    *)
(* (the OS_ASSERT of suouart_pull_to_buffer): whatever lines arrived, with *)
(* restarts and failed writes between them, the bytes kept for the next    *)
(* handler never exceed what it waits for.                                 *)
BufferBounded == Receiving => Len(buffer) <= ExpectedLen

\* A header as mkimage makes it: the image is behind the header, in a 32 bit address
\* space, not empty, and the CRC is one of as many bytes.
WellFormed(h) == /\ HDR <= h.ivt /\ h.ivt + h.size < U32
                 /\ 0 < h.size /\ Len(h.crc) = h.size

\* The images that are sent: a header with the right identifier is well formed, only a
\* header of zeros has a CRC of zero, and there are no such bytes in the lines.
HonestImages ==
  /\ \A s \in [1..HDR -> Byte] :
       /\ ParseHeader(s).id_ok => WellFormed(ParseHeader(s))
       /\ (\A k \in 1..HDR : s[k] # Zero) => ParseHeader(s).crc # <<>>
  /\ \A l \in Lines : l \in Seq(Byte \ {Zero})

(* While an image is received, the write address is where the bytes of the *)
(* image received so far end, and the image never runs over the slot:      *)
(* the three counters of the handlers and the two of the flash agree, over *)
(* restarts, errors of the flash and lines cut anywhere.                   *)
ImageInPlace ==
  (alloc /\ WellFormed(Hdr)) =>
    /\ state = "W4_HEADER" => flash_write_addr = 0
    /\ state = "W4_HEADER_EXT" => /\ flash_write_addr = HDR + recv_hdr_ext_len
                                  /\ flash_write_addr <= Hdr.ivt
    /\ state \in {"W4_IMAGE_DATA", "DONE"} => flash_write_addr = Hdr.ivt + recv_image_len
    /\ state = "DONE" => recv_image_len = Hdr.size
    /\ state \in {"W4_HEADER_EXT", "W4_IMAGE_DATA"} =>
         recv_image_len <= Hdr.size /\ Hdr.ivt + Hdr.size <= PART_SIZE

(* "assume everything prior to this address is erased": what lies between  *)
(* the write address and the erase address is erased, so that no byte is   *)
(* programmed over an old one, unless a write to the flash has failed.     *)
ErasedAhead ==
  (nvms # None /\ faults = 0 /\ state \in {"W4_HEADER_EXT", "W4_IMAGE_DATA"}) =>
    \A x \in 0..PART_SIZE-1 :
      flash_write_addr <= x /\ x < flash_erase_addr => flash[nvms][x] = Erased

(* The slot the device would boot is never written or erased by an update. *)
RunningSlotKept ==
  [][\A s \in Slots : flash'[s] # flash[s] => s # BootCopy(ph).active]_vars

(* A copy of the product header is pointed to a slot only while that slot  *)
(* holds a complete image, as read back from flash: lines lost, repeated   *)
(* or out of order, flash errors and stray END commands never get a        *)
(* partial image selected.                                                 *)
SwitchOnlyComplete ==
  [][\A c \in Copies :
       ph'[c].update # ph[c].update => SlotComplete(flash'[ph'[c].update])]_vars

(* CMP_OK in answer to END says that both copies of the product header     *)
(* select the same slot, that it is not the running one and that its image *)
(* is complete.                                                            *)
CmpOkMeansSwitched ==
  [][(pc = "wr_primary" /\ out' = <<"CMP_OK", "OK">>) =>
       /\ ph'["primary"] = ph'["backup"]
       /\ ph'["primary"].crc = "ok"
       /\ ph'["primary"].update # ph'["primary"].active
       /\ SlotComplete(flash'[ph'["primary"].update])]_vars

(* Whatever fails and whenever power is lost, the boot loader finds a      *)
(* sound copy of the product header, and a complete image in the slot the  *)
(* copy calls active, unless a switch was started from a primary copy that *)
(* was already damaged.                                                    *)
AlwaysBootable ==
  ~torn_base => /\ Sound(BootCopy(ph))
                /\ SlotComplete(flash[BootCopy(ph).active])

(* Every command is answered: the loop over a line takes data or ends, the *)
(* retries of the product header are finite, and so is the loop over the   *)
(* chunks as long as the PATCH_LEN that was written is not zero.           *)
Busy == pc \in {"patch", "chunk", "hang", "wr_header", "read_ph", "wr_backup", "wr_primary"}
CommandAnswered == (Busy /\ (cbs => patch_len # 0)) ~> ~Busy

(* "Erase flash for header, but don't write now - postpone until image is  *)
(* downloaded": the header is written only once the image is downloaded.   *)
HeaderPostponed == pc = "wr_header" => state = "DONE"

=============================================================================
