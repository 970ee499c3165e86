----------------------------- MODULE UuuSession -----------------------------
(***************************************************************************)
(* The fastboot function driven by uuu, the host program that both tools   *)
(* start.  uuu runs one script of fastboot lines at a time: it sends a      *)
(* line, reads the answer, and gives up at the first FAIL.  The Qt tool     *)
(* kills a running uuu before it starts the next one; uuu gives up by       *)
(* itself when no answer comes.  The board does not notice either.          *)
(*                                                                         *)
(* uuu is not part of the repository: its side of the protocol is modelled  *)
(* from the scripts, and from how f_fastboot.c answers.                     *)
(***************************************************************************)
EXTENDS FastbootGadget

CONSTANTS
  Scripts,      \* the scripts that may be run: sequences of lines
  Text,         \* the byte that stands for a command's text
  MaxRuns,      \* how many scripts are run
  Whole,        \* those among them that carry the image that they write
  Kills         \* whether uuu may be stopped in the middle of a script: a set

(* A line of a script, as it goes over the wire; uuu turns "FB: flash" into *)
(* a download and a flash line.                                             *)
Line ==
  [op : {"download"}, img : Seq(Byte)] \cup [op : {"flash"}, p : Part]
    \cup [op : {"ucmd", "acmd"}, u : UbootCmd]

ASSUME ScriptsAssumption ==
  Scripts \subseteq Seq(Line) /\ Text \in Byte /\ Kills \subseteq BOOLEAN

Unknown == <<"unknown">>     \* an area that an interrupted line may have torn

VARIABLES
  wire,         \* the packet that the OUT endpoint has received, if any
  script,       \* the lines that uuu has still to run, the current one first
  phase,        \* what uuu does with the current line
  sent,         \* the bytes of the current image that have been sent
  image,        \* the image that uuu last saw downloaded
  target,       \* the device that the script last set mmcdev to
  expected,     \* what the media hold if every answer of this script was true
  quiet,        \* the board was at rest when the last script started
  result,       \* how the last script ended
  runs,         \* the scripts started so far
  kills         \* this session is one in which uuu may be stopped

hostVars ==
  <<wire, script, phase, sent, image, target, expected, quiet, result, runs,
    kills>>
allVars == <<vars, hostVars>>

SessionInit ==
  /\ Init
  /\ wire = <<>> /\ script = <<>> /\ phase = "ready" /\ sent = 0
  /\ image = <<>> /\ target = Emmc
  /\ expected = store
  /\ quiet = TRUE /\ result = "none" /\ runs = 0
  /\ kills \in Kills

-----------------------------------------------------------------------------
(* The board takes the packet.  A command that arrives while an image is    *)
(* expected is taken for a part of the image; a packet of an image that     *)
(* arrives while a command is expected matches no command.                  *)
Dispatch(line) ==
  CASE line.op = "download" -> cb_download(Len(line.img))
    [] line.op = "flash" -> \E ok \in BOOLEAN : cb_flash(line.p, ok)
    [] line.op = "ucmd" -> cb_run_uboot_cmd(line.u)
    [] line.op = "acmd" -> cb_run_uboot_acmd(line.u)

Receive ==
  /\ wire # <<>>
  /\ LET packet == Head(wire) IN
       IF handler = "rx_handler_dl_image"
         THEN rx_handler_dl_image(IF packet.kind = "line" THEN <<Text>>
                                                          ELSE packet.data)
         ELSE IF packet.kind = "line" THEN Dispatch(packet.line)
                                      ELSE UnknownCommand
  /\ wire' = <<>>
  /\ UNCHANGED <<script, phase, sent, image, target, expected, quiet, result,
                 runs, kills>>

-----------------------------------------------------------------------------
(* The host selects the configuration once, when the board appears; each    *)
(* uuu after that finds the board as the one before has left it.  A session *)
(* with stops is one of the Qt tool, whose scripts are whole.               *)
Start(s) ==
  /\ script = <<>> /\ runs < MaxRuns
  /\ kills => s \in Whole
  /\ script' = s /\ phase' = "ready" /\ sent' = 0
  /\ result' = "running" /\ runs' = runs + 1
  /\ quiet' = (handler = "rx_handler_command" /\ tx = <<>> /\ wire = <<>>)
  /\ IF configured THEN UNCHANGED vars ELSE fastboot_set_alt
  /\ expected' = store
  /\ UNCHANGED <<wire, image, target, kills>>

SendLine ==
  /\ configured /\ script # <<>> /\ phase = "ready" /\ wire = <<>>
  /\ wire' = <<[kind |-> "line", line |-> Head(script)]>>
  /\ phase' = "wait"
  /\ UNCHANGED <<vars, script, sent, image, target, expected, quiet, result,
                 runs, kills>>

(* The next bytes of the image: as many as the OUT request has room for.    *)
SendData ==
  LET img == Head(script).img
      n == IF length < Len(img) - sent THEN length ELSE Len(img) - sent
  IN
  /\ phase = "data" /\ wire = <<>>
  /\ wire' = <<[kind |-> "data", data |-> SubSeq(img, sent + 1, sent + n)]>>
  /\ sent' = sent + n
  /\ phase' = IF sent + n = Len(img) THEN "finish" ELSE "data"
  /\ UNCHANGED <<vars, script, image, target, expected, quiet, result, runs, kills>>

(* What the media hold once a line has had the effect that it asks for.     *)
Put(exp, d, a, data) ==
  [exp EXCEPT ![d] = [b \in Area |->
     IF b = a THEN data ELSE IF b \in Covered(d, a) THEN Torn ELSE exp[d][b]]]

Effect(line, data) ==
  CASE line.op = "flash" -> Put(expected, target, line.p, data)
    [] line.op \in {"ucmd", "acmd"} /\ line.u.c = "ext4write" ->
         Put(expected, line.u.d, line.u.f, data)
    [] OTHER -> expected

(* A line that failed, or was given up, may have torn what it writes.       *)
Spoilt(line) ==
  LET hit == CASE line.op = "flash" ->
                    {target} \X (Covered(target, line.p) \cup {line.p})
               [] line.op \in {"ucmd", "acmd"} /\ line.u.c = "ext4write" ->
                    {<<line.u.d, line.u.f>>}
               [] OTHER -> {}
  IN [d \in Dev |-> [a \in Area |->
        IF <<d, a>> \in hit THEN Unknown ELSE expected[d][a]]]

GiveUp(why) ==
  /\ script' = <<>> /\ phase' = "ready" /\ sent' = 0 /\ result' = why
  /\ expected' = Spoilt(Head(script))
  /\ UNCHANGED <<wire, image, target, quiet, runs, kills>>

LineDone ==
  LET line == Head(script) IN
  /\ script' = Tail(script) /\ phase' = "ready" /\ sent' = 0
  /\ result' = IF Len(script) = 1 THEN "done" ELSE result
  /\ image' = IF line.op = "download" THEN line.img ELSE image
  /\ target' = IF line.op = "ucmd" /\ line.u.c = "setenv mmcdev"
                 THEN line.u.d ELSE target
  /\ expected' = Effect(line, image)
  /\ UNCHANGED <<wire, quiet, runs, kills>>

(* uuu reads an answer.  DATA answers a download line, OKAY the others and  *)
(* the image; uuu takes anything else for a failure.                        *)
ReadAnswer ==
  /\ phase \in {"wait", "finish"} /\ tx # <<>>
  /\ TxComplete
  /\ LET msg == Head(tx).msg
         download == Head(script).op = "download"
     IN
     CASE msg = "DATA" /\ download /\ phase = "wait" ->
            /\ phase' = "data"
            /\ UNCHANGED <<wire, script, sent, image, target, expected, quiet,
                           result, runs, kills>>
       [] msg = "OKAY" /\ (download => phase = "finish") -> LineDone
       [] OTHER -> GiveUp("failed")

(* The Qt tool's close(), or uuu's own time limit.                          *)
Stop ==
  /\ kills /\ script # <<>>
  /\ GiveUp("stopped")
  /\ UNCHANGED vars

(* No answer will ever come: the time limit is what ends the script.        *)
TimeOut ==
  /\ script # <<>> /\ phase # "ready" /\ phase # "data"
  /\ wire = <<>> /\ tx = <<>>
  /\ GiveUp("failed")
  /\ UNCHANGED vars

SessionInsertCard == InsertCard /\ UNCHANGED hostVars

SessionNext ==
  \/ \E s \in Scripts : Start(s)
  \/ SendLine \/ SendData \/ ReadAnswer \/ Receive
  \/ Stop \/ TimeOut \/ SessionInsertCard

SessionSpec == SessionInit /\ [][SessionNext]_allVars

(* What the host and the board do for a script goes on; nobody has to start *)
(* a script, stop one, or insert a card.                                    *)
Fairness ==
  WF_allVars(SendLine \/ SendData \/ ReadAnswer \/ Receive \/ TimeOut)

FairSpec == SessionSpec /\ Fairness

=============================================================================
