---------------------------- MODULE ToolScripts ----------------------------
(***************************************************************************)
(* The uuu scripts that the two tools ship, as the lines that go over the   *)
(* wire.  "SDP: boot" lines, which a board that already runs the fastboot   *)
(* firmware skips, and "delay" and "done" lines, which send nothing, are    *)
(* left out.  d is the device that a script's ${emmc_dev} or ${sd_dev}      *)
(* names.                                                                   *)
(***************************************************************************)
EXTENDS UuuSession

Ucmd(u) == [u |-> u, op |-> "ucmd"]
Acmd(u) == [u |-> u, op |-> "acmd"]
Download(img) == [op |-> "download", img |-> img]
Flash(p, img) == <<Download(img), [p |-> p, op |-> "flash"]>>
Ext4write(d, f) == [c |-> "ext4write", d |-> d, f |-> f]
Nop == Ucmd([c |-> "nop"])

(* The lines that choose the device, in every script that flashes.          *)
Select(d) ==
  << Ucmd([c |-> "setenv fastboot_dev"]),
     Ucmd([c |-> "setenv mmcdev", d |-> d]),
     Ucmd([c |-> "mmc dev", d |-> d]) >>

(* emmc_ack and partconf, which the eMMC scripts end with.                  *)
Partconf(d) == IF d = Emmc THEN <<Nop, Nop>> ELSE <<>>

(* The Python tool.  The SD script flashes no separate bootloader: a card's *)
(* image holds it.                                                          *)
PyWriteAll(d, root, boot) ==
  Select(d) \o Flash("all", root)
    \o (IF d = Emmc THEN Flash("bootloader", boot) ELSE <<>>) \o Partconf(d)

PyWriteBoot(d, boot) == Select(d) \o Flash("bootloader", boot) \o Partconf(d)

(* Both write_noos scripts, the one in sd/ too, select the eMMC.            *)
PyWriteNoos(d, bare) ==
  Select(Emmc) \o Flash("bootloader", bare) \o Partconf(Emmc)

PyWriteFile(d, f, img) == << Download(img), Ucmd(Ext4write(d, f)) >>

(* UploadTab1File starts uuu for each of its lines: the write is a script   *)
(* of its own, without the download.                                        *)
PyUploadDownload(img) == << Download(img) >>
PyUploadWrite(d, f) == << Ucmd(Ext4write(d, f)) >>

(* The Qt tool writes files with acmd.                                      *)
QtWriteFile(d, f, img) == << Download(img), Acmd(Ext4write(d, f)) >>

QtWriteRootfs(d, root) == Select(d) \o Flash("all", root) \o Partconf(d)

QtWriteAll(d, root, boot, tree, kernel) ==
  Select(d) \o Flash("all", root) \o Flash("bootloader", boot) \o Partconf(d)
    \o QtWriteFile(d, "dtb", tree) \o QtWriteFile(d, "zImage", kernel)

-----------------------------------------------------------------------------
(* What the scripts have in common that the tools rely on.                  *)

WritesImage(line) ==
  line.op = "flash" \/ (line.op \in {"ucmd", "acmd"} /\ line.u.c = "ext4write")
SetsDevice(line) == line.op = "ucmd" /\ line.u.c = "setenv mmcdev"

(* Every flash line comes after one that names the device.                  *)
NamesDevice(s) ==
  \A i \in DOMAIN s : s[i].op = "flash" => \E j \in 1 .. i - 1 : SetsDevice(s[j])

(* Every line that writes an image comes after a download.                  *)
CarriesImage(s) ==
  \A i \in DOMAIN s : WritesImage(s[i]) => \E j \in 1 .. i - 1 : s[j].op = "download"

(* Scripts without acmd, in whose order the lines mean what they say.  Those *)
(* that may follow a uuu that was stopped rely on nothing before them.      *)
InOrder(all, whole) ==
  /\ \A s \in all : \A i \in DOMAIN s : s[i].op # "acmd"
  /\ \A s \in whole : NamesDevice(s) /\ CarriesImage(s)

-----------------------------------------------------------------------------
(* When a script that found the board at rest has ended, the media hold     *)
(* what the answers told uuu: every line that was answered OKAY has had its *)
(* effect, on the device that the script selected, and nothing else has     *)
(* been written, whatever became of the scripts before.                     *)
StoreAsReported ==
  script = <<>> /\ quiet =>
    \A d \in Dev, a \in Area :
      expected[d][a] # Unknown => store[d][a] = expected[d][a]

(* The board owes no answer that it will never give: while uuu waits, its   *)
(* line is on the way to the board or an answer is on the way to uuu.       *)
(* A uuu that has been stopped may leave the board in such a state.         *)
NeverStranded ==
  ~kills /\ phase \in {"wait", "finish"} => wire # <<>> \/ tx # <<>>

(* Every script that is started comes to an end, whatever state the board   *)
(* was in when it started.                                                  *)
ScriptsEnd == script # <<>> ~> script = <<>>
=============================================================================
