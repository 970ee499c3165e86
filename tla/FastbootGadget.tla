--------------------------- MODULE FastbootGadget ---------------------------
(***************************************************************************)
(* The fastboot USB function of the board's U-Boot (f_fastboot.c) and the  *)
(* parts of U-Boot its handlers call: the environment variables they read, *)
(* the MMC command's current device, the partition table they keep.        *)
(*                                                                         *)
(* U-Boot runs one thread: an endpoint completion handler runs to its end  *)
(* before the next one starts, so each handler is one action.  The host    *)
(* is any host: Next lets every command, every data packet and every       *)
(* moment for reading a response happen; UuuSession composes the function  *)
(* with the host that the flashing tools run.                              *)
(*                                                                         *)
(* Byte counts keep the code's arithmetic, on a small buffer; the bytes    *)
(* themselves are members of the set Byte.                                 *)
(***************************************************************************)
EXTENDS Naturals, Sequences

CONSTANTS
  Byte,            \* the values a byte of an image can have
  Zero,            \* the byte that a fresh buffer or an erased area holds
  SparseMagic,     \* the bytes that is_sparse_image takes for a sparse header
  File,            \* the files that ext4write writes to
  Cmds,            \* the U-Boot commands that the host sends
  Sizes,           \* the sizes that a download command announces
  BufSize,         \* CONFIG_FASTBOOT_BUF_SIZE
  EpBufferSize,    \* EP_BUFFER_SIZE
  MaxPacket,       \* ep->maxpacket
  UploadMax,       \* EP_BUFFER_SIZE * 32, what cb_upload sends at most
  Capacity,        \* Capacity[p]: the bytes that partition p holds
  MaxTx            \* bound on the responses that wait on the IN endpoint

SD == 0
Emmc == 1
Dev == {SD, Emmc}
NoDev == 255
Part == {"all", "bootloader", "rootfs"}
Area == Part \cup File
Torn == <<"torn">>                \* an area that a failed write left half done
Content == Seq(Byte) \cup {Torn}

ASSUME SizeAssumption ==
  /\ BufSize \in Nat
  /\ Sizes \subseteq Nat
  /\ EpBufferSize \in Nat \ {0}
  /\ MaxPacket \in Nat \ {0}
  /\ EpBufferSize % MaxPacket = 0
  /\ UploadMax \in Nat
  /\ MaxTx \in Nat
  /\ Capacity \in [Part -> Nat]
  /\ Zero \in Byte
  /\ SparseMagic \subseteq Byte
  /\ File \cap Part = {}

(* The U-Boot commands that the scripts send and that the function's state *)
(* depends on; "nop" stands for the others (partconf, emmc_ack, echo).     *)
UbootCmd ==
  [c : {"setenv fastboot_dev", "nop"}]
    \cup [c : {"setenv mmcdev", "mmc dev"}, d : Dev]
    \cup [c : {"ext4write"}, d : Dev, f : File]

ASSUME CmdsAssumption == Cmds \subseteq UbootCmd

Message == {"OKAY", "FAIL", "DATA", "INFO", "image"}
Response == [req : {"in_req", "fifo"}, msg : Message]

VARIABLES
  configured,      \* the host has selected the configuration
  handler,         \* out_req->complete
  length,          \* out_req->length
  download_size,
  download_bytes,
  buffer,          \* the memory at ${fastboot_buffer}
  fastboot_bytes,  \* the environment variable; 0 when it is not set
  tx,              \* the requests queued on the IN endpoint
  in_complete,     \* in_req->complete
  g_a_cmd_buff,    \* the stored ACmd
  fastboot_dev,    \* the environment variable fastboot_dev is "mmc"
  mmcdev,          \* the environment variable mmcdev
  devinfo,         \* fastboot_devinfo.dev_id, NoDev while its type is not MMC
  ptable,          \* the device whose partitions g_ptable lists, or NoDev
  curr_device,     \* cmd/mmc.c: the device that mmc write writes to
  card,            \* the devices that have a medium
  store            \* what the media hold

rxVars == <<configured, handler, length, download_size, download_bytes,
            buffer, fastboot_bytes>>
txVars == <<tx, in_complete, g_a_cmd_buff>>
envVars == <<fastboot_dev, mmcdev>>
tabVars == <<devinfo, ptable>>
mmcVars == <<curr_device, store>>
vars == <<rxVars, txVars, envVars, tabVars, mmcVars, card>>

-----------------------------------------------------------------------------
Fresh == [i \in 0 .. BufSize - 1 |-> Zero]

(* U-Boot has been loaded over USB and has entered "fastboot 0": static     *)
(* data as the image has it, the default environment, no medium probed.     *)
(* The SD slot may be empty: the tools ask for the card after power-up.     *)
Init ==
  /\ configured = FALSE
  /\ handler = "rx_handler_command" /\ length = EpBufferSize
  /\ download_size = 0 /\ download_bytes = 0
  /\ buffer = Fresh /\ fastboot_bytes = 0
  /\ tx = <<>> /\ in_complete = "fastboot_complete"
  /\ g_a_cmd_buff = [c |-> "nop"]
  /\ fastboot_dev = FALSE /\ mmcdev = Emmc
  /\ devinfo = NoDev /\ ptable = NoDev
  /\ curr_device = SD
  /\ card \in {{Emmc}, Dev}
  /\ store = [d \in Dev |-> [a \in Area |-> <<>>]]

(* Mutant: the size of a broken-off download is forgotten as well.          *)
set_alt_clears ==
  /\ configured' = TRUE
  /\ handler' = "rx_handler_command" /\ length' = EpBufferSize
  /\ tx' = <<>> /\ in_complete' = "fastboot_complete"
  /\ download_size' = 0
  /\ UNCHANGED <<download_bytes, buffer, fastboot_bytes,
                 g_a_cmd_buff, envVars, tabVars, mmcVars, card>>

(* fastboot_set_alt, on every SET_CONFIGURATION; composite.c calls          *)
(* fastboot_disable first when a configuration was selected before.         *)
fastboot_set_alt ==
  /\ configured' = TRUE
  /\ handler' = "rx_handler_command" /\ length' = EpBufferSize
  /\ tx' = <<>> /\ in_complete' = "fastboot_complete"
  /\ UNCHANGED <<download_size, download_bytes, buffer, fastboot_bytes,
                 g_a_cmd_buff, envVars, tabVars, mmcVars, card>>

fastboot_disable ==
  /\ configured
  /\ configured' = FALSE
  /\ tx' = <<>>
  /\ UNCHANGED <<handler, length, download_size, download_bytes, buffer,
                 fastboot_bytes, in_complete, g_a_cmd_buff, envVars, tabVars,
                 mmcVars, card>>

(* fastboot_tx_write: the request in_req is taken off the endpoint's queue  *)
(* if it is still there and queued again with the new response.             *)

(* Mutant: in_req stays where it is.                                        *)
KeepQueued(q) == q

Dequeue(q) ==
  IF \E i \in DOMAIN q : q[i].req = "in_req"
    THEN LET k == CHOOSE i \in DOMAIN q : q[i].req = "in_req" IN
         SubSeq(q, 1, k - 1) \o SubSeq(q, k + 1, Len(q))
    ELSE q

TxWrite(q, m) == Append(Dequeue(q), [req |-> "in_req", msg |-> m])
TxWriteMore(q, m) == Append(q, [req |-> "fifo", msg |-> m])

(* rx_handler_command is about to run: the OUT request holds a command.     *)
Listening ==
  /\ configured /\ handler = "rx_handler_command"
  /\ Len(tx) < MaxTx

-----------------------------------------------------------------------------
(* Download.                                                               *)

(* Mutants: the request's buffer is ignored; the rest is rounded down to    *)
(* whole packets; only the last, partial packet is asked for.               *)
rx_bytes_uncapped(remain) ==
  IF remain % MaxPacket > 0 THEN remain + (MaxPacket - (remain % MaxPacket))
  ELSE remain

rx_bytes_down(remain) ==
  IF remain > EpBufferSize THEN EpBufferSize
  ELSE IF remain < MaxPacket THEN MaxPacket
  ELSE remain - (remain % MaxPacket)

rx_bytes_partial(remain) ==
  IF remain > EpBufferSize THEN EpBufferSize ELSE remain % MaxPacket

rx_bytes_expected(remain) ==
  LET rem == remain % MaxPacket IN
  IF remain > EpBufferSize THEN EpBufferSize
  ELSE IF rem > 0 THEN remain + (MaxPacket - rem)
  ELSE remain

(* Mutant: only an empty size is refused.                                   *)
RefuseEmpty(n) == n = 0

Refused(n) == n = 0 \/ n > BufSize

cb_download(n) ==
  /\ Listening
  /\ download_bytes' = 0
  /\ IF Refused(n)
       THEN /\ download_size' = 0
            /\ tx' = TxWrite(tx, "FAIL")
            /\ UNCHANGED <<handler, length>>
       ELSE /\ download_size' = n
            /\ handler' = "rx_handler_dl_image"
            /\ length' = rx_bytes_expected(n)
            /\ tx' = TxWrite(tx, "DATA")
  /\ UNCHANGED <<configured, buffer, fastboot_bytes, in_complete,
                 g_a_cmd_buff, envVars, tabVars, mmcVars, card>>

(* Mutant: the whole packet is copied.                                      *)
TakeAll(data) == Len(data)

(* The bytes of a packet that are copied: no more than are missing.         *)
Taken(data) ==
  LET left == download_size - download_bytes IN
  IF Len(data) < left THEN Len(data) ELSE left

(* Mutant: off by one.                                                      *)
DoneLate(total) == total > download_size

DownloadDone(total) == total >= download_size

(* A packet of the announced image arrives.                                 *)
rx_handler_dl_image(data) ==
  LET total == download_bytes + Taken(data) IN
  /\ configured /\ handler = "rx_handler_dl_image"
  /\ Len(data) <= length
  /\ buffer' = [i \in DOMAIN buffer |->
                  IF i \in download_bytes .. total - 1
                    THEN data[i - download_bytes + 1] ELSE buffer[i]]
  /\ download_bytes' = total
  /\ IF DownloadDone(total)
       THEN /\ download_size' = 0
            /\ handler' = "rx_handler_command" /\ length' = EpBufferSize
            /\ tx' = TxWrite(tx, "OKAY")
            /\ fastboot_bytes' = total
       ELSE /\ length' = rx_bytes_expected(download_size - total)
            /\ UNCHANGED <<download_size, handler, tx, fastboot_bytes>>
  /\ UNCHANGED <<configured, in_complete, g_a_cmd_buff, envVars, tabVars,
                 mmcVars, card>>

-----------------------------------------------------------------------------
(* Storage.                                                                *)

Prefix(n) == [i \in 1 .. n |-> buffer[i - 1]]

(* The areas that a write of area a of device d overwrites.  The eMMC has   *)
(* its bootloader in a hardware partition of its own; on a card it lies     *)
(* inside the user area.  The files are inside the root file system.        *)
Covered(d, a) ==
  CASE a = "all" -> IF d = Emmc THEN Area \ {"bootloader"} ELSE Area
    [] a = "rootfs" -> {"rootfs"} \cup File
    [] OTHER -> {a}

Written(d, a, data) ==
  [store EXCEPT ![d] = [b \in Area |->
     IF b = a THEN data ELSE IF b \in Covered(d, a) THEN Torn ELSE store[d][b]]]

(* run_command(u) succeeds: cmd/mmc.c do_mmc_dev, ext4write (which needs    *)
(* the size that only a finished download puts in ${fastboot_bytes}).       *)
CmdSucceeds(u) ==
  /\ u.c \in {"mmc dev", "ext4write"} => u.d \in card
  /\ u.c = "ext4write" => fastboot_bytes > 0

RunCommand(u) ==
  /\ fastboot_dev' = (fastboot_dev \/ u.c = "setenv fastboot_dev")
  /\ mmcdev' = IF u.c = "setenv mmcdev" THEN u.d ELSE mmcdev
  /\ curr_device' = IF u.c = "mmc dev" /\ CmdSucceeds(u) THEN u.d
                                                         ELSE curr_device
  /\ store' = IF u.c = "ext4write" /\ CmdSucceeds(u)
                THEN Written(u.d, u.f, Prefix(fastboot_bytes)) ELSE store

(* _fastboot_load_partitions empties the table and fills it from the medium *)
(* of device d, if it has one.                                              *)
LoadPartitions(d) == IF d \in card THEN d ELSE NoDev

(* Mutants: the old table stays when the new device has no medium; the      *)
(* first device that is selected stays selected.                            *)
SetupKeepsTable ==
  IF fastboot_dev'
    THEN /\ devinfo' = mmcdev'
         /\ ptable' = IF mmcdev' \in card THEN mmcdev' ELSE ptable
    ELSE UNCHANGED tabVars

SetupOnce ==
  IF fastboot_dev' /\ devinfo = NoDev
    THEN /\ devinfo' = mmcdev'
         /\ ptable' = LoadPartitions(mmcdev')
    ELSE UNCHANGED tabVars

(* fastboot_setup, in the environment that the command has left: the        *)
(* partition table is loaded when the selected device has changed, and is   *)
(* left empty when that device has no medium.                               *)
fastboot_setup ==
  IF fastboot_dev'
    THEN /\ devinfo' = mmcdev'
         /\ ptable' = IF mmcdev' = devinfo THEN ptable
                                           ELSE LoadPartitions(mmcdev')
    ELSE UNCHANGED tabVars

cb_run_uboot_cmd(u) ==
  /\ Listening
  /\ RunCommand(u)
  /\ IF CmdSucceeds(u)
       THEN /\ tx' = TxWrite(tx, "OKAY")
            /\ fastboot_setup
       ELSE /\ tx' = TxWrite(tx, "FAIL")
            /\ UNCHANGED tabVars
  /\ UNCHANGED <<rxVars, in_complete, g_a_cmd_buff, card>>

cb_run_uboot_acmd(u) ==
  /\ Listening
  /\ g_a_cmd_buff' = u
  /\ in_complete' = "do_acmd_complete"
  /\ tx' = TxWrite(tx, "OKAY")
  /\ UNCHANGED <<rxVars, envVars, tabVars, mmcVars, card>>

(* Mutant: the partition is not looked up.                                  *)
FlashUnlooked(p) ==
  /\ devinfo # NoDev
  /\ download_bytes > 0
  /\ download_bytes <= Capacity[p]

(* process_flash_mmc up to the write: the checks that refuse the image.     *)
FlashAccepted(p) ==
  /\ devinfo # NoDev
  /\ download_bytes > 0
  /\ ptable # NoDev
  /\ download_bytes <= Capacity[p]

is_raw_partition(p) == p = "bootloader"
IsSparse(p) == ~is_raw_partition(p) /\ buffer[0] \in SparseMagic

(* Every write selects the hardware partition of the eMMC that it goes to:  *)
(* blk_get_dev the user area, and the "mmc dev" of get_fastboot_target_dev  *)
(* the boot area for the bootloader and the user area for the rest.  Which  *)
(* one was selected before makes no difference, and is left out.            *)

(* A sparse image is written to the user area of the selected device, which *)
(* blk_get_dev selects; write_sparse_image may give up on a bad chunk or a  *)
(* failing write, after writing a part of the image.                        *)
FlashSparse(p, ok) ==
  /\ tx' = TxWrite(tx, IF ok THEN "OKAY" ELSE "FAIL")
  /\ store' = Written(devinfo, p, IF ok THEN Prefix(download_bytes) ELSE Torn)
  /\ UNCHANGED curr_device

(* Anything else: "mmc dev" on the selected device, then "mmc write" on     *)
(* whatever device is then current; the second response replaces the first. *)
FlashRaw(p, ok) ==
  LET target == IF devinfo \in card THEN devinfo ELSE curr_device IN
  /\ curr_device' = target
  /\ IF target \in card
       THEN /\ store' = Written(target, p,
                                IF ok THEN Prefix(download_bytes) ELSE Torn)
            /\ tx' = TxWrite(tx, IF ok THEN "OKAY" ELSE "FAIL")
       ELSE UNCHANGED store /\ tx' = TxWrite(tx, "FAIL")

cb_flash(p, ok) ==
  /\ Listening
  /\ CASE ~FlashAccepted(p) -> /\ tx' = TxWrite(tx, "FAIL")
                               /\ UNCHANGED mmcVars
       [] FlashAccepted(p) /\ IsSparse(p) -> FlashSparse(p, ok)
       [] OTHER -> FlashRaw(p, ok)
  /\ UNCHANGED <<rxVars, in_complete, g_a_cmd_buff, envVars, tabVars, card>>

(* process_erase_mmc: "bootloader" is marked uneraseable and "all" has no   *)
(* entry in the partition table, so part_get_info refuses it.  Only whole   *)
(* erase groups are erased: the edges of the partition keep their data, and *)
(* a partition smaller than a group keeps all of it.                        *)
EraseOutcome == {"erased", "no group", "failed"}

EraseAccepted(p) ==
  devinfo # NoDev /\ ptable # NoDev /\ p = "rootfs"

cb_erase(p, outcome) ==
  /\ Listening
  /\ IF EraseAccepted(p)
       THEN /\ tx' = TxWrite(tx, IF outcome = "failed" THEN "FAIL" ELSE "OKAY")
            /\ store' = IF outcome = "no group" THEN store
                                                ELSE Written(devinfo, p, Torn)
       ELSE tx' = TxWrite(tx, "FAIL") /\ UNCHANGED store
  /\ UNCHANGED <<rxVars, in_complete, g_a_cmd_buff, envVars, tabVars,
                 curr_device, card>>

-----------------------------------------------------------------------------
(* The commands that only answer, or that act once the answer is read.     *)

Answer(queue, complete) ==
  /\ Listening
  /\ tx' = queue
  /\ in_complete' = complete
  /\ UNCHANGED <<rxVars, g_a_cmd_buff, envVars, tabVars, mmcVars, card>>

cb_getvar(m) == Answer(TxWrite(tx, m), in_complete)

cb_getvar_all ==
  Answer(TxWriteMore(TxWriteMore(tx, "INFO"), "OKAY"), in_complete)

cb_upload ==
  Answer(IF download_bytes = 0 \/ download_bytes > UploadMax
           THEN TxWrite(tx, "FAIL")
           ELSE TxWriteMore(TxWrite(TxWriteMore(tx, "DATA"), "image"), "OKAY"),
         in_complete)

cb_reboot == Answer(TxWrite(tx, "OKAY"), "compl_do_reset")
cb_boot == Answer(TxWrite(tx, "OKAY"), "do_bootm_on_complete")
cb_continue == Answer(TxWrite(tx, "OKAY"), "do_exit_on_complete")

(* No entry of cmd_dispatch_info matches, or the packet fills the request.  *)
UnknownCommand == Answer(TxWrite(tx, "FAIL"), in_complete)

-----------------------------------------------------------------------------
(* The host reads the first queued response; its completion handler runs.   *)

(* do_reset, or the kernel starts and U-Boot runs again at the next boot.   *)
Reset ==
  /\ configured' = FALSE
  /\ handler' = "rx_handler_command" /\ length' = EpBufferSize
  /\ download_size' = 0 /\ download_bytes' = 0
  /\ buffer' = Fresh /\ fastboot_bytes' = 0
  /\ tx' = <<>> /\ in_complete' = "fastboot_complete"
  /\ g_a_cmd_buff' = [c |-> "nop"]
  /\ fastboot_dev' = FALSE /\ mmcdev' = Emmc
  /\ devinfo' = NoDev /\ ptable' = NoDev
  /\ curr_device' = SD
  /\ UNCHANGED <<card, store>>

(* g_dnl_trigger_detach: do_fastboot leaves its loop for the command line,  *)
(* and runs again only after a reset.                                       *)
TxComplete ==
  /\ configured /\ tx # <<>>
  /\ CASE Head(tx).req = "fifo" \/ in_complete = "fastboot_complete" ->
            /\ tx' = Tail(tx)
            /\ UNCHANGED <<rxVars, in_complete, g_a_cmd_buff, envVars, tabVars,
                           mmcVars, card>>
       [] Head(tx).req = "in_req" /\ in_complete = "do_acmd_complete" ->
            /\ tx' = Tail(tx)
            /\ RunCommand(g_a_cmd_buff)
            /\ UNCHANGED <<rxVars, in_complete, g_a_cmd_buff, tabVars, card>>
       [] OTHER -> Reset

(* A card is put into the SD slot.                                          *)
InsertCard ==
  /\ SD \notin card
  /\ card' = Dev
  /\ UNCHANGED <<rxVars, txVars, envVars, tabVars, mmcVars>>

-----------------------------------------------------------------------------
Packet == UNION {[1 .. k -> Byte] : k \in 0 .. EpBufferSize}

Command ==
  \/ \E n \in Sizes : cb_download(n)
  \/ \E p \in Part, ok \in BOOLEAN : cb_flash(p, ok)
  \/ \E p \in Part, o \in EraseOutcome : cb_erase(p, o)
  \/ \E u \in Cmds : cb_run_uboot_cmd(u)
  \/ \E u \in Cmds : cb_run_uboot_acmd(u)
  \/ \E m \in {"OKAY", "FAIL"} : cb_getvar(m)
  \/ cb_getvar_all
  \/ cb_upload
  \/ cb_reboot
  \/ cb_boot
  \/ cb_continue
  \/ UnknownCommand

Next ==
  \/ Command
  \/ \E data \in Packet : rx_handler_dl_image(data)
  \/ TxComplete
  \/ fastboot_set_alt
  \/ fastboot_disable
  \/ Reset
  \/ InsertCard

Spec == Init /\ [][Next]_vars

-----------------------------------------------------------------------------
TypeOK ==
  /\ configured \in BOOLEAN
  /\ handler \in {"rx_handler_command", "rx_handler_dl_image"}
  /\ length \in Nat
  /\ download_size \in Nat
  /\ download_bytes \in Nat
  /\ buffer \in [0 .. BufSize - 1 -> Byte]
  /\ fastboot_bytes \in 0 .. BufSize
  /\ tx \in Seq(Response)
  /\ in_complete \in {"fastboot_complete", "do_acmd_complete",
                      "compl_do_reset", "do_bootm_on_complete",
                      "do_exit_on_complete"}
  /\ g_a_cmd_buff \in UbootCmd
  /\ fastboot_dev \in BOOLEAN
  /\ mmcdev \in Dev
  /\ devinfo \in Dev \cup {NoDev}
  /\ ptable \in Dev \cup {NoDev}
  /\ curr_device \in Dev
  /\ card \in SUBSET Dev
  /\ store \in [Dev -> [Area -> Content]]

(* rx_handler_dl_image copies into the download buffer only: while it is    *)
(* the handler, what has arrived is less than what was announced, and that  *)
(* is at most CONFIG_FASTBOOT_BUF_SIZE.                                     *)
DownloadFits ==
  /\ handler = "rx_handler_dl_image" =>
       download_bytes < download_size /\ download_size <= BufSize
  /\ download_bytes <= BufSize

(* The OUT request always asks for at least one packet, for whole packets,  *)
(* and for no more than the EP_BUFFER_SIZE bytes that its buffer has:       *)
(* rounding the rest of an image up to whole packets never exceeds it.      *)
RequestFits ==
  /\ length \in 1 .. EpBufferSize
  /\ length % MaxPacket = 0
  /\ handler = "rx_handler_command" => length = EpBufferSize

(* The OUT request asks for all that is missing of the image when that fits *)
(* in one request: the last packet of a download always finishes it.        *)
RequestCovers ==
  handler = "rx_handler_dl_image" =>
    \/ length = EpBufferSize
    \/ length >= download_size - download_bytes

(* in_req is queued at most once: fastboot_tx_write takes it off the queue  *)
(* before it queues it again, so a list is never linked to itself.          *)
InReqOnce ==
  \A i, j \in DOMAIN tx : tx[i].req = "in_req" /\ tx[j].req = "in_req" => i = j

(* ${fastboot_bytes}, the size that the scripts pass to ext4write, is the   *)
(* size that the flash command uses, whenever a download has finished.      *)
SizesAgree ==
  /\ handler = "rx_handler_command" /\ download_size = 0 /\ download_bytes > 0
  => fastboot_bytes = download_bytes

(* The partition table is the selected device's, or empty: no flash command *)
(* is checked against another device's layout, and a loaded table means     *)
(* that the device has a medium.                                            *)
TableIsSelected ==
  ptable # NoDev => ptable = devinfo /\ ptable \in card

(* A flash or erase command changes the selected device only, though        *)
(* "mmc write" goes to whichever device "mmc dev" left current.             *)
WritesSelected ==
  [][ (\/ \E p \in Part, ok \in BOOLEAN : cb_flash(p, ok)
       \/ \E p \in Part, o \in EraseOutcome : cb_erase(p, o))
      => \A d \in Dev \ {devinfo} : store'[d] = store[d] ]_vars

(* What the comments of fastboot_setup and cb_run_uboot_cmd say: a command  *)
(* that may have changed the environment is followed by loading the table   *)
(* of the device that the environment selects.                              *)
TableFollowsEnv ==
  [][ \A u \in Cmds :
        cb_run_uboot_cmd(u) /\ CmdSucceeds(u) /\ fastboot_dev' =>
          ptable' = LoadPartitions(mmcdev') ]_vars

=============================================================================
