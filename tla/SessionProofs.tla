---------------------------- MODULE SessionProofs ----------------------------
(***************************************************************************)
(* Proofs about a session of uuu with the board: whatever scripts are run, *)
(* the board keeps the invariants that FastbootGadgetProofs has for any    *)
(* host, and a uuu that is not stopped stays in step with it.  When the    *)
(* lines of the scripts are in order, what uuu reports is what the media   *)
(* hold.                                                                   *)
(***************************************************************************)
EXTENDS ToolScripts, FastbootGadgetProofs

(* The fields that a line of each kind has.                                 *)
LEMMA LineFields ==
  ASSUME NEW line \in Line
  PROVE  /\ line.op \in {"download", "flash", "ucmd", "acmd"}
         /\ line.op = "download" => line.img \in Seq(Byte)
         /\ line.op = "flash" => line.p \in Part
         /\ line.op \in {"ucmd", "acmd"} => line.u \in UbootCmd
<1>1. CASE line \in [op : {"download"}, img : Seq(Byte)]
  BY <1>1, Zenon
<1>2. CASE line \in [op : {"flash"}, p : Part]
  BY <1>2, Zenon
<1>3. CASE line \in [op : {"ucmd", "acmd"}, u : UbootCmd]
  BY <1>3, Zenon
<1> QED
  BY <1>1, <1>2, <1>3, Zenon DEF Line

(* What the OUT endpoint may have received.                                 *)
Parcel == [kind : {"line"}, line : Line] \cup [kind : {"data"}, data : Seq(Byte)]

(* A packet is a line of a script or a part of an image.                    *)
LEMMA ParcelFields ==
  ASSUME NEW p \in Parcel
  PROVE  \/ p.kind = "line" /\ p.line \in Line
         \/ p.kind = "data" /\ p.data \in Seq(Byte)
<1>1. CASE p \in [kind : {"line"}, line : Line]
  BY <1>1, Zenon
<1>2. CASE p \in [kind : {"data"}, data : Seq(Byte)]
  BY <1>2, Zenon
<1> QED
  BY <1>1, <1>2, Zenon DEF Parcel

(* The state of uuu, and the board's invariant.                             *)
HostInv ==
  /\ script \in Seq(Line) /\ sent \in Nat /\ kills \in BOOLEAN
  /\ phase \in {"ready", "wait", "data", "finish"}
  /\ phase # "ready" => script # <<>>
  /\ phase \in {"ready", "wait"} => sent = 0
  /\ phase \in {"data", "finish"} =>
       Head(script).op = "download" /\ sent <= Len(Head(script).img)
  /\ wire = <<>> \/ \E p \in Parcel : wire = <<p>>

(* A board and a uuu that nobody stops have the same view of the line that  *)
(* is run: what uuu waits for is on its way, and what the board expects is  *)
(* what uuu sends.                                                          *)
Resting == handler = "rx_handler_command" /\ tx = <<>>
Answered(m) == tx = <<[req |-> "in_req", msg |-> m]>>
Arriving ==
  /\ handler = "rx_handler_dl_image" /\ tx = <<>>
  /\ download_size = Len(Head(script).img)

InStep ==
  /\ in_complete \in {"fastboot_complete", "do_acmd_complete"}
  /\ phase = "ready" => wire = <<>> /\ Resting
  /\ phase = "wait" =>
       \/ wire = <<[kind |-> "line", line |-> Head(script)]>> /\ Resting
       \/ /\ wire = <<>> /\ handler = "rx_handler_command"
          /\ Answered("FAIL") \/ (Answered("OKAY") /\ Head(script).op # "download")
       \/ /\ wire = <<>> /\ handler = "rx_handler_dl_image" /\ Answered("DATA")
          /\ Head(script).op = "download"
          /\ download_size = Len(Head(script).img) /\ download_bytes = 0
  /\ phase = "data" =>
       /\ Arriving /\ sent < Len(Head(script).img)
       /\ \/ wire = <<>> /\ download_bytes = sent
          \/ \E data \in Seq(Byte) : /\ wire = <<[kind |-> "data", data |-> data]>>
                                     /\ download_bytes + Len(data) = sent
  /\ phase = "finish" =>
       \/ wire = <<>> /\ handler = "rx_handler_command" /\ Answered("OKAY")
       \/ /\ Arriving
          /\ \E data \in Seq(Byte) : /\ wire = <<[kind |-> "data", data |-> data]>>
                                     /\ download_bytes + Len(data) = download_size

-----------------------------------------------------------------------------
(* cb_run_uboot_acmd only stores the command.                               *)
LEMMA AcmdStep ==
  ASSUME IInv, NEW u \in UbootCmd, cb_run_uboot_acmd(u)
  PROVE  IInv'
<1>1. RxInv' /\ DevInv'
  BY RxUnchanged, DevUnchanged, Zenon DEF IInv, cb_run_uboot_acmd
<1>2. TxInv'
  <2>1. TxInv /\ in_complete' \in InComplete /\ g_a_cmd_buff' \in UbootCmd
    BY Zenon DEF IInv, cb_run_uboot_acmd, InComplete
  <2>2. tx' = TxWrite(tx, "OKAY") /\ "OKAY" \in Message
    BY Zenon DEF cb_run_uboot_acmd, Message
  <2> QED
    BY <2>1, <2>2, TxAnswered, Zenon
<1> QED
  BY <1>1, <1>2, Zenon DEF IInv

(* A command that is not known is answered.                                 *)
LEMMA UnknownStep ==
  ASSUME IInv, UnknownCommand
  PROVE  IInv'
<1>1. tx \in Seq(Response) /\ Once(tx) /\ in_complete \in InComplete
  BY Zenon DEF IInv, TxInv, InReqOnce, Once
<1>2. TxWrite(tx, "FAIL") \in Seq(Response) /\ Once(TxWrite(tx, "FAIL"))
  BY <1>1, TxWriteProperties, Zenon DEF Message
<1>3. Answer(TxWrite(tx, "FAIL"), in_complete)
  BY Zenon DEF UnknownCommand
<1> QED
  BY <1>1, <1>2, <1>3, AnswerStep, Zenon

(* Whatever line arrives, its handler keeps the board's invariant.          *)
LEMMA DispatchStep ==
  ASSUME IInv, NEW line \in Line, Dispatch(line)
  PROVE  IInv'
<1>1. CASE line.op = "download"
  <2>1. cb_download(Len(line.img))
    BY <1>1, Zenon DEF Dispatch
  <2>2. Len(line.img) \in Nat
    BY <1>1, LineFields
  <2> QED
    BY <2>1, <2>2, DownloadStep, Zenon
<1>2. CASE line.op = "flash"
  <2>1. \E ok \in BOOLEAN : cb_flash(line.p, ok)
    BY <1>2, Zenon DEF Dispatch
  <2>2. line.p \in Part
    BY <1>2, LineFields, Zenon
  <2> QED
    BY <2>1, <2>2, FlashStep, Zenon
<1>3. CASE line.op = "ucmd"
  <2>1. cb_run_uboot_cmd(line.u)
    BY <1>3, Zenon DEF Dispatch
  <2>2. line.u \in UbootCmd
    BY <1>3, LineFields, Zenon
  <2> QED
    BY <2>1, <2>2, CmdStep, Zenon
<1>4. CASE line.op = "acmd"
  <2>1. cb_run_uboot_acmd(line.u)
    BY <1>4, Zenon DEF Dispatch
  <2>2. line.u \in UbootCmd
    BY <1>4, LineFields, Zenon
  <2> QED
    BY <2>1, <2>2, AcmdStep, Zenon
<1> QED
  BY <1>1, <1>2, <1>3, <1>4, LineFields, Zenon

(* And so does whatever packet arrives.                                     *)
LEMMA ReceiveStep ==
  ASSUME IInv, HostInv, Receive
  PROVE  IInv' /\ wire' = <<>>
<1>1. PICK p \in Parcel : wire = <<p>>
  BY Zenon DEF HostInv, Receive
<1>2. Head(wire) = p
  BY <1>1
<1>3. wire' = <<>>
  BY Zenon DEF Receive
<1>4. CASE handler = "rx_handler_dl_image"
  <2> DEFINE data == IF p.kind = "line" THEN <<Text>> ELSE p.data
  <2>1. rx_handler_dl_image(data)
    BY <1>2, <1>4, Zenon DEF Receive
  <2>2. data \in Seq(Byte)
    BY ParcelFields, ScriptsAssumption
  <2> HIDE DEF data
  <2> QED
    BY <1>3, <2>1, <2>2, ImageStep, Zenon
<1>5. CASE handler # "rx_handler_dl_image" /\ p.kind = "line"
  <2>1. Dispatch(p.line) /\ p.line \in Line
    BY <1>2, <1>5, ParcelFields, Zenon DEF Receive
  <2> QED
    BY <1>3, <2>1, DispatchStep, Zenon
<1>6. CASE handler # "rx_handler_dl_image" /\ p.kind # "line"
  <2>1. UnknownCommand
    BY <1>2, <1>6, Zenon DEF Receive
  <2> QED
    BY <1>3, <2>1, UnknownStep, Zenon
<1> QED
  BY <1>4, <1>5, <1>6, Zenon

(* uuu reads an answer in one of three ways.                                *)
LEMMA AnswerRead ==
  ASSUME ReadAnswer
  PROVE  /\ phase \in {"wait", "finish"} /\ tx # <<>> /\ TxComplete
         /\ \/ /\ Head(tx).msg = "DATA" /\ Head(script).op = "download" /\ phase = "wait"
               /\ phase' = "data"
               /\ UNCHANGED <<wire, script, sent, image, target, expected, quiet,
                              result, runs, kills>>
            \/ /\ Head(tx).msg = "OKAY" /\ (Head(script).op = "download" => phase = "finish")
               /\ LineDone
            \/ /\ ~(Head(tx).msg = "DATA" /\ Head(script).op = "download" /\ phase = "wait")
               /\ ~(Head(tx).msg = "OKAY" /\ (Head(script).op = "download" => phase = "finish"))
               /\ GiveUp("failed")
BY Zenon DEF ReadAnswer

(* The next bytes of an image are some of it.                               *)
LEMMA DataSent ==
  ASSUME HostInv, phase = "data", NEW n \in Nat, n <= Len(Head(script).img) - sent
  PROVE  LET data == SubSeq(Head(script).img, sent + 1, sent + n) IN
         data \in Seq(Byte) /\ Len(data) = n
<1> DEFINE img == Head(script).img
<1>1. Head(script) \in Line /\ Head(script).op = "download" /\ sent <= Len(img) /\ sent \in Nat
  BY DEF HostInv
<1>2. img \in Seq(Byte)
  BY <1>1, LineFields, Zenon
<1> HIDE DEF img
<1>3. n <= Len(img) - sent
  BY Zenon DEF img
<1>4. sent + 1 \in Nat /\ sent + n \in Nat /\ sent + n <= Len(img)
  BY <1>1, <1>2, <1>3
<1>5. \A i \in sent + 1 .. sent + n : i \in 1 .. Len(img)
  BY <1>1, <1>2, <1>4
<1>6. SubSeq(img, sent + 1, sent + n) \in Seq(Byte)
  BY <1>2, <1>4, <1>5
<1>7. Len(SubSeq(img, sent + 1, sent + n)) = n
  BY <1>1, <1>2, <1>4
<1> QED
  BY <1>6, <1>7, Zenon DEF img

(* Every step keeps the types of uuu's variables and the board's invariant, *)
(* also when uuu is stopped.                                                *)
LEMMA HostInvStep ==
  ASSUME IInv, HostInv, [SessionNext]_allVars
  PROVE  IInv' /\ HostInv'
<1>1. ASSUME NEW s \in Scripts, Start(s) PROVE IInv' /\ HostInv'
  <2>1. IInv'
    <3>1. UNCHANGED vars \/ fastboot_set_alt
      BY <1>1, Zenon DEF Start
    <3>2. UNCHANGED vars => IInv'
      BY RxUnchanged, TxUnchanged, DevUnchanged, Zenon DEF IInv, vars, txVars
    <3> QED
      BY <3>1, <3>2, SetAltStep, Zenon
  <2>2. script' = s /\ phase' = "ready" /\ sent' = 0 /\ UNCHANGED <<wire, kills>>
    BY <1>1, Zenon DEF Start
  <2>3. s \in Seq(Line)
    BY ScriptsAssumption, Zenon
  <2> QED
    BY <2>1, <2>2, <2>3, Zenon DEF HostInv
<1>2. ASSUME UNCHANGED vars PROVE IInv'
  BY <1>2, RxUnchanged, TxUnchanged, DevUnchanged, Zenon DEF IInv, vars, txVars
<1>3. CASE SendLine
  <2>1. Head(script) \in Line
    BY <1>3 DEF HostInv, SendLine
  <2>2. [kind |-> "line", line |-> Head(script)] \in Parcel
    BY <2>1, Zenon DEF Parcel
  <2>3. /\ wire' = <<[kind |-> "line", line |-> Head(script)]>> /\ phase' = "wait"
        /\ script # <<>> /\ UNCHANGED <<script, sent, kills>> /\ UNCHANGED vars
    BY <1>3, Zenon DEF SendLine
  <2>4. \E p \in Parcel : wire' = <<p>>
    BY <2>2, <2>3, Zenon
  <2>5. phase = "ready"
    BY <1>3, Zenon DEF SendLine
  <2> QED
    BY <1>2, <2>3, <2>4, <2>5, Zenon DEF HostInv
<1>4. CASE SendData
  <2> DEFINE img == Head(script).img
             n == IF length < Len(img) - sent THEN length ELSE Len(img) - sent
             data == SubSeq(img, sent + 1, sent + n)
  <2>1. /\ phase = "data" /\ wire' = <<[kind |-> "data", data |-> data]>> /\ sent' = sent + n
        /\ phase' = IF sent + n = Len(img) THEN "finish" ELSE "data"
        /\ UNCHANGED <<script, kills>> /\ UNCHANGED vars
    BY <1>4, Zenon DEF SendData
  <2>2. Head(script) \in Line /\ Head(script).op = "download"
    BY <2>1 DEF HostInv
  <2>3. img \in Seq(Byte) /\ sent <= Len(img) /\ sent \in Nat /\ length \in Nat
    BY <2>1, <2>2, LineFields, Zenon DEF HostInv, IInv, RxInv
  <2>4. n \in Nat /\ n <= Len(img) - sent /\ sent + n <= Len(img)
    BY <2>3
  <2>5. data \in Seq(Byte)
    BY <2>1, <2>4, DataSent, Zenon
  <2>6. [kind |-> "data", data |-> data] \in Parcel
    BY <2>5, Zenon DEF Parcel
  <2>7. sent' \in Nat /\ sent' <= Len(img)
    BY <2>1, <2>3, <2>4
  <2> HIDE DEF data, n
  <2> QED
    BY <1>2, <2>1, <2>2, <2>6, <2>7, Zenon DEF HostInv
<1>5. ASSUME NEW why, GiveUp(why), script # <<>> PROVE HostInv'
  BY <1>5 DEF GiveUp, HostInv
<1>6. CASE ReadAnswer
  <2>1. script # <<>>
    BY <1>6, AnswerRead, Zenon DEF HostInv
  <2>2. IInv'
    BY <1>6, AnswerRead, TxCompleteStep, Zenon
  <2>3. CASE LineDone
    <3>1. script' = Tail(script) /\ phase' = "ready" /\ sent' = 0 /\ UNCHANGED <<wire, kills>>
      BY <2>3, Zenon DEF LineDone
    <3>2. Tail(script) \in Seq(Line)
      BY <2>1 DEF HostInv
    <3> QED
      BY <2>2, <3>1, <3>2, Zenon DEF HostInv
  <2>4. CASE GiveUp("failed")
    BY <1>5, <2>1, <2>2, <2>4, Zenon
  <2>5. CASE Head(script).op = "download" /\ phase' = "data" /\ phase = "wait"
             /\ UNCHANGED <<wire, script, sent, kills>>
    <3>1. sent = 0 /\ Head(script) \in Line
      BY <2>1, <2>5 DEF HostInv
    <3>2. sent <= Len(Head(script).img)
      BY <2>5, <3>1, LineFields
    <3> QED
      BY <2>1, <2>2, <2>5, <3>2, Zenon DEF HostInv
  <2> QED
    BY <1>6, <2>3, <2>4, <2>5, AnswerRead, Zenon
<1>7. CASE Receive
  <2>1. UNCHANGED <<script, phase, sent, kills>>
    BY <1>7, Zenon DEF Receive
  <2> QED
    BY <1>7, <2>1, ReceiveStep, Zenon DEF HostInv
<1>8. CASE Stop \/ TimeOut
  BY <1>2, <1>5, <1>8, Zenon DEF Stop, TimeOut
<1>9. CASE SessionInsertCard
  BY <1>9, InsertCardStep, Zenon DEF SessionInsertCard, hostVars, HostInv
<1>10. CASE UNCHANGED allVars
  BY <1>2, <1>10, Zenon DEF allVars, hostVars, HostInv
<1> QED
  BY <1>1, <1>3, <1>4, <1>6, <1>7, <1>8, <1>9, <1>10, Zenon DEF SessionNext

(* The answer to a line is the only one on the IN endpoint.                 *)
LEMMA FirstAnswer == \A m : TxWrite(<<>>, m) = <<[req |-> "in_req", msg |-> m]>>
BY DEF TxWrite, Dequeue

(* The board answers a line that finds it at rest at once; only a download  *)
(* that it accepts changes what it expects next.                            *)
LEMMA LineAnswered ==
  ASSUME IInv, NEW line \in Line, Resting, Dispatch(line),
         in_complete \in {"fastboot_complete", "do_acmd_complete"}
  PROVE  /\ in_complete' \in {"fastboot_complete", "do_acmd_complete"}
         /\ \/ /\ handler' = "rx_handler_command"
               /\ Answered("FAIL")' \/ (Answered("OKAY")' /\ line.op # "download")
            \/ /\ handler' = "rx_handler_dl_image" /\ Answered("DATA")' /\ line.op = "download"
               /\ download_size' = Len(line.img) /\ download_bytes' = 0
<1> USE DEF Resting, Answered
<1>1. CASE line.op = "download"
  <2>1. cb_download(Len(line.img))
    BY <1>1, Zenon DEF Dispatch
  <2>2. CASE Refused(Len(line.img))
    BY <2>1, <2>2, FirstAnswer, Zenon DEF cb_download
  <2>3. CASE ~Refused(Len(line.img))
    BY <1>1, <2>1, <2>3, FirstAnswer, Zenon DEF cb_download
  <2> QED
    BY <2>2, <2>3, Zenon
<1>2. CASE line.op = "flash"
  <2>1. PICK ok \in BOOLEAN : cb_flash(line.p, ok)
    BY <1>2, Zenon DEF Dispatch
  <2>2. UNCHANGED <<handler, in_complete>>
    BY <2>1, Zenon DEF cb_flash, rxVars
  <2>3. tx' = TxWrite(tx, "FAIL") \/ tx' = TxWrite(tx, "OKAY")
    <3>1. CASE FlashSparse(line.p, ok)
      BY <3>1, Zenon DEF FlashSparse
    <3>2. CASE FlashRaw(line.p, ok)
      BY <3>2, Zenon DEF FlashRaw
    <3> QED
      BY <2>1, <3>1, <3>2, Zenon DEF cb_flash
  <2> QED
    BY <1>2, <2>2, <2>3, FirstAnswer, Zenon
<1>3. CASE line.op = "ucmd"
  <2>1. cb_run_uboot_cmd(line.u)
    BY <1>3, Zenon DEF Dispatch
  <2>2. UNCHANGED <<handler, in_complete>>
    BY <2>1, Zenon DEF cb_run_uboot_cmd, rxVars
  <2>3. tx' = TxWrite(tx, "FAIL") \/ tx' = TxWrite(tx, "OKAY")
    BY <2>1, Zenon DEF cb_run_uboot_cmd
  <2> QED
    BY <1>3, <2>2, <2>3, FirstAnswer, Zenon
<1>4. CASE line.op = "acmd"
  <2>1. cb_run_uboot_acmd(line.u)
    BY <1>4, Zenon DEF Dispatch
  <2>2. UNCHANGED handler /\ in_complete' = "do_acmd_complete" /\ tx' = TxWrite(tx, "OKAY")
    BY <2>1, Zenon DEF cb_run_uboot_acmd, rxVars
  <2> QED
    BY <1>4, <2>2, FirstAnswer, Zenon
<1> QED
  BY <1>1, <1>2, <1>3, <1>4, LineFields, Zenon

(* Reading the only answer leaves the IN endpoint empty, whatever its       *)
(* completion handler does.                                                 *)
LEMMA AnswerTaken ==
  ASSUME TxComplete, NEW m, Answered(m),
         in_complete \in {"fastboot_complete", "do_acmd_complete"}
  PROVE  tx' = <<>> /\ UNCHANGED <<rxVars, in_complete>> /\ Head(tx).msg = m
<1>1. Head(tx) = [req |-> "in_req", msg |-> m] /\ Tail(tx) = <<>>
  BY DEF Answered
<1> DEFINE r == Head(tx).req
<1>2. r = "in_req"
  BY <1>1
<1> HIDE DEF r
<1>3. CASE in_complete = "fastboot_complete"
  <2>1. (r = "fifo" \/ in_complete = "fastboot_complete") /\ in_complete # "do_acmd_complete"
    BY <1>3, Zenon
  <2>2. tx' = Tail(tx) /\ UNCHANGED <<rxVars, in_complete>>
    BY <2>1, Zenon DEF TxComplete, r
  <2> QED
    BY <1>1, <2>2
<1>4. CASE in_complete = "do_acmd_complete"
  <2>1. ~(r = "fifo" \/ in_complete = "fastboot_complete") /\ r = "in_req"
    BY <1>2, <1>4, Zenon
  <2>2. tx' = Tail(tx) /\ UNCHANGED <<rxVars, in_complete>>
    BY <1>4, <2>1, Zenon DEF TxComplete, r
  <2> QED
    BY <1>1, <2>2
<1> QED
  BY <1>3, <1>4, Zenon

(* A part of an image that does not exceed what is missing is taken whole.  *)
LEMMA PartTaken ==
  ASSUME IInv, NEW data \in Seq(Byte), rx_handler_dl_image(data), tx = <<>>,
         download_bytes + Len(data) <= download_size
  PROVE  /\ download_bytes' = download_bytes + Len(data) /\ UNCHANGED in_complete
         /\ download_bytes + Len(data) < download_size =>
              UNCHANGED <<download_size, handler, tx>>
         /\ download_bytes + Len(data) = download_size =>
              handler' = "rx_handler_command" /\ Answered("OKAY")'
<1>1. download_bytes \in Nat /\ download_size \in Nat /\ Len(data) \in Nat
  BY DEF IInv, RxInv
<1>2. Taken(data) = Len(data)
  BY <1>1 DEF Taken
<1>3. /\ download_bytes' = download_bytes + Len(data) /\ UNCHANGED in_complete
      /\ IF DownloadDone(download_bytes + Len(data))
           THEN handler' = "rx_handler_command" /\ tx' = TxWrite(tx, "OKAY")
           ELSE UNCHANGED <<download_size, handler, tx>>
  BY <1>2, Zenon DEF rx_handler_dl_image
<1>4. CASE download_bytes + Len(data) < download_size
  <2>1. ~DownloadDone(download_bytes + Len(data)) /\ download_bytes + Len(data) # download_size
    BY <1>1, <1>4 DEF DownloadDone
  <2> QED
    BY <1>3, <2>1, Zenon
<1>5. CASE download_bytes + Len(data) = download_size
  <2>1. DownloadDone(download_bytes + Len(data)) /\ ~(download_bytes + Len(data) < download_size)
    BY <1>1, <1>5 DEF DownloadDone
  <2> QED
    BY <1>3, <2>1, FirstAnswer, Zenon DEF Answered
<1> QED
  BY <1>1, <1>4, <1>5

(* While uuu waits for an answer, its packet or the answer is on its way.   *)
LEMMA StillOwed == InStep /\ phase \in {"wait", "finish"} => wire # <<>> \/ tx # <<>>
<1>1. \A x : <<x>> # <<>>
  BY Zenon
<1> SUFFICES ASSUME InStep, phase \in {"wait", "finish"} PROVE wire # <<>> \/ tx # <<>>
  BY Zenon
<1>2. CASE phase = "wait"
  BY <1>1, <1>2, Zenon DEF InStep, Answered
<1>3. CASE phase = "finish"
  BY <1>1, <1>3, Zenon DEF InStep, Answered
<1> QED
  BY <1>2, <1>3, Zenon

(* As long as uuu is not stopped it stays in step with the board.           *)
LEMMA InStepStep ==
  ASSUME IInv, HostInv, ~Stop, InStep, [SessionNext]_allVars
  PROVE  InStep'
<1> USE DEF Resting, Answered, Arriving
<1>1. ASSUME NEW s \in Scripts, Start(s) PROVE InStep'
  <2>1. phase = "ready"
    BY <1>1, Zenon DEF HostInv, Start
  <2>2. wire = <<>> /\ Resting /\ in_complete \in {"fastboot_complete", "do_acmd_complete"}
    BY <2>1, Zenon DEF InStep
  <2>3. /\ handler' = "rx_handler_command" /\ tx' = <<>>
        /\ in_complete' \in {"fastboot_complete", "do_acmd_complete"}
    <3>1. CASE UNCHANGED vars
      BY <2>2, <3>1, Zenon DEF vars, rxVars, txVars
    <3>2. CASE fastboot_set_alt
      BY <3>2, Zenon DEF fastboot_set_alt
    <3> QED
      BY <1>1, <3>1, <3>2, Zenon DEF Start
  <2>4. phase' = "ready" /\ wire' = <<>>
    BY <1>1, <2>2, Zenon DEF Start
  <2> QED
    BY <2>3, <2>4, Zenon DEF InStep
<1>2. CASE SendLine
  <2>1. /\ phase = "ready" /\ phase' = "wait" /\ UNCHANGED script
        /\ wire' = <<[kind |-> "line", line |-> Head(script)]>>
        /\ UNCHANGED <<handler, tx, in_complete>>
    BY <1>2, Zenon DEF SendLine, vars, rxVars, txVars
  <2> QED
    BY <2>1, Zenon DEF InStep
<1>3. CASE SendData
  <2> DEFINE img == Head(script).img
             n == IF length < Len(img) - sent THEN length ELSE Len(img) - sent
             data == SubSeq(img, sent + 1, sent + n)
  <2>1. /\ phase = "data" /\ wire' = <<[kind |-> "data", data |-> data]>> /\ sent' = sent + n
        /\ phase' = IF sent + n = Len(img) THEN "finish" ELSE "data"
        /\ wire = <<>> /\ UNCHANGED script
        /\ UNCHANGED <<handler, tx, in_complete, download_size, download_bytes>>
    BY <1>3, Zenon DEF SendData, vars, rxVars, txVars
  <2>2. Head(script) \in Line /\ Head(script).op = "download"
    BY <2>1 DEF HostInv
  <2>3. img \in Seq(Byte) /\ sent <= Len(img) /\ sent \in Nat /\ length \in Nat
    BY <2>1, <2>2, LineFields, Zenon DEF HostInv, IInv, RxInv
  <2>4. n \in Nat /\ n <= Len(img) - sent /\ sent + n <= Len(img)
    BY <2>3
  <2>5. data \in Seq(Byte) /\ Len(data) = n
    BY <2>1, <2>4, DataSent, Zenon
  <2>6. /\ Arriving /\ sent < Len(img) /\ download_bytes = sent
        /\ in_complete \in {"fastboot_complete", "do_acmd_complete"}
    BY <2>1, Zenon DEF InStep
  <2>7. download_bytes + Len(data) = sent + n
    BY <2>5, <2>6, Zenon
  <2> HIDE DEF data, n
  <2>8. CASE sent + n = Len(img)
    <3>1. phase' = "finish" /\ download_bytes + Len(data) = download_size /\ Arriving'
      BY <2>1, <2>6, <2>7, <2>8, Zenon
    <3>2. \E d \in Seq(Byte) : /\ wire' = <<[kind |-> "data", data |-> d]>>
                               /\ download_bytes' + Len(d) = download_size'
      BY <2>1, <2>5, <3>1, Zenon
    <3> QED
      BY <2>1, <2>6, <3>1, <3>2, Zenon DEF InStep
  <2>9. CASE sent + n # Len(img)
    <3>1. phase' = "data" /\ sent' < Len(img) /\ Arriving'
      BY <2>1, <2>3, <2>4, <2>6, <2>9, SMTT(60)
    <3>2. \E d \in Seq(Byte) : /\ wire' = <<[kind |-> "data", data |-> d]>>
                               /\ download_bytes' + Len(d) = sent'
      BY <2>1, <2>5, <2>7, Zenon
    <3> QED
      BY <2>1, <2>6, <3>1, <3>2, Zenon DEF InStep
  <2> QED
    BY <2>8, <2>9, Zenon
<1>4. CASE ReadAnswer
  <2>0. in_complete \in {"fastboot_complete", "do_acmd_complete"} /\ TxComplete /\ tx # <<>>
    BY <1>4, AnswerRead, Zenon DEF InStep
  <2>1. CASE phase = "wait"
    <3>1. CASE handler = "rx_handler_command"
      <4>1. /\ wire = <<>>
            /\ Answered("FAIL") \/ (Answered("OKAY") /\ Head(script).op # "download")
        BY <2>0, <2>1, <3>1, Zenon DEF InStep
      <4>2. /\ tx' = <<>> /\ UNCHANGED <<rxVars, in_complete>>
            /\ Head(tx).msg \in {"FAIL", "OKAY"}
        BY <2>0, <4>1, AnswerTaken, Zenon
      <4>3. phase' = "ready" /\ UNCHANGED wire
        BY <1>4, <4>2, AnswerRead, ZenonT(60) DEF LineDone, GiveUp
      <4> QED
        BY <2>0, <3>1, <4>1, <4>2, <4>3, Zenon DEF InStep, rxVars
    <3>2. CASE handler # "rx_handler_command"
      <4>1. /\ wire = <<>> /\ handler = "rx_handler_dl_image" /\ Answered("DATA")
            /\ Head(script).op = "download"
            /\ download_size = Len(Head(script).img) /\ download_bytes = 0
        BY <2>0, <2>1, <3>2, Zenon DEF InStep
      <4>2. tx' = <<>> /\ UNCHANGED <<rxVars, in_complete>> /\ Head(tx).msg = "DATA"
        BY <2>0, <4>1, AnswerTaken, Zenon
      <4>3. phase' = "data" /\ UNCHANGED <<wire, script, sent>> /\ sent = 0
        BY <1>4, <2>1, <4>1, <4>2, AnswerRead, Zenon DEF HostInv
      <4>4. 0 < download_size
        BY <4>1, Zenon DEF IInv, RxInv, DownloadFits
      <4> QED
        BY <2>0, <4>1, <4>2, <4>3, <4>4, Zenon DEF InStep, rxVars
    <3> QED
      BY <3>1, <3>2, Zenon
  <2>2. CASE phase = "finish"
    <3>1. wire = <<>> /\ handler = "rx_handler_command" /\ Answered("OKAY")
      BY <2>0, <2>2, Zenon DEF InStep
    <3>2. tx' = <<>> /\ UNCHANGED <<rxVars, in_complete>>
      BY <2>0, <3>1, AnswerTaken, Zenon
    <3>3. phase' = "ready" /\ UNCHANGED wire
      BY <1>4, <2>2, AnswerRead, Zenon DEF LineDone, GiveUp
    <3> QED
      BY <2>0, <3>1, <3>2, <3>3, Zenon DEF InStep, rxVars
  <2> QED
    BY <1>4, <2>1, <2>2, AnswerRead, Zenon
<1>5. CASE Receive
  <2>0. /\ wire # <<>> /\ wire' = <<>> /\ UNCHANGED <<script, phase, sent>>
        /\ in_complete \in {"fastboot_complete", "do_acmd_complete"}
        /\ phase \in {"ready", "wait", "data", "finish"}
    BY <1>5, Zenon DEF Receive, InStep, HostInv
  <2>1. phase # "ready"
    BY <2>0, Zenon DEF InStep
  <2>2. CASE phase = "wait"
    <3>1. wire = <<[kind |-> "line", line |-> Head(script)]>> /\ Resting
      BY <2>0, <2>2, Zenon DEF InStep
    <3>2. Head(wire).kind = "line" /\ Head(wire).line = Head(script)
      BY <3>1, SMTT(60)
    <3>3. Dispatch(Head(script)) /\ Head(script) \in Line
      BY <1>5, <2>2, <3>1, <3>2, SMTT(60) DEF Receive, HostInv
    <3>4. /\ in_complete' \in {"fastboot_complete", "do_acmd_complete"}
          /\ \/ /\ handler' = "rx_handler_command"
                /\ Answered("FAIL")' \/ (Answered("OKAY")' /\ Head(script).op # "download")
             \/ /\ handler' = "rx_handler_dl_image" /\ Answered("DATA")'
                /\ Head(script).op = "download"
                /\ download_size' = Len(Head(script).img) /\ download_bytes' = 0
      BY <2>0, <3>1, <3>3, LineAnswered, Zenon
    <3> QED
      BY <2>0, <2>2, <3>4, Zenon DEF InStep
  <2>3. ASSUME phase \in {"data", "finish"}, NEW data \in Seq(Byte),
               wire = <<[kind |-> "data", data |-> data]>>, Arriving
        PROVE  rx_handler_dl_image(data)
    <3>1. Head(wire).kind = "data" /\ Head(wire).data = data
      BY <2>3, SMTT(60)
    <3> QED
      BY <1>5, <2>3, <3>1, Zenon DEF Receive
  <2>4. CASE phase = "data"
    <3>1. PICK data \in Seq(Byte) : /\ wire = <<[kind |-> "data", data |-> data]>>
                                    /\ download_bytes + Len(data) = sent
      BY <2>0, <2>4, Zenon DEF InStep
    <3>2. Arriving /\ sent < download_size /\ sent \in Nat /\ download_size \in Nat
      BY <2>4, Zenon DEF InStep, HostInv, IInv, RxInv
    <3>3. rx_handler_dl_image(data)
      BY <2>3, <2>4, <3>1, <3>2, Zenon
    <3>4. /\ download_bytes' = sent
          /\ UNCHANGED <<in_complete, download_size, handler, tx>>
      BY <3>1, <3>2, <3>3, PartTaken, SMTT(60)
    <3> QED
      BY <2>0, <2>4, <3>2, <3>4, Zenon DEF InStep
  <2>5. CASE phase = "finish"
    <3>1. /\ Arriving
          /\ \E data \in Seq(Byte) : /\ wire = <<[kind |-> "data", data |-> data]>>
                                     /\ download_bytes + Len(data) = download_size
      BY <2>0, <2>5, Zenon DEF InStep
    <3>2. PICK data \in Seq(Byte) : /\ wire = <<[kind |-> "data", data |-> data]>>
                                    /\ download_bytes + Len(data) = download_size
      BY <3>1, Zenon
    <3>3. rx_handler_dl_image(data) /\ download_size \in Nat
      BY <2>3, <2>5, <3>1, <3>2, Zenon DEF IInv, RxInv
    <3>4. handler' = "rx_handler_command" /\ Answered("OKAY")' /\ UNCHANGED in_complete
      BY <3>1, <3>2, <3>3, PartTaken
    <3> QED
      BY <2>0, <2>5, <3>4, Zenon DEF InStep
  <2> QED
    BY <2>0, <2>1, <2>2, <2>4, <2>5, Zenon
<1>7. ~TimeOut
  BY StillOwed, Zenon DEF TimeOut, HostInv
<1>8. CASE SessionInsertCard
  BY <1>8, Zenon DEF SessionInsertCard, InsertCard, hostVars, rxVars, txVars, InStep
<1>9. CASE UNCHANGED allVars
  BY <1>9, Zenon DEF allVars, hostVars, vars, rxVars, txVars, InStep
<1> QED
  BY <1>1, <1>2, <1>3, <1>4, <1>5, <1>7, <1>8, <1>9, Zenon DEF SessionNext

(* The inductive invariant.                                                 *)
SessionInv == IInv /\ HostInv /\ (kills \/ InStep)

(* It holds before the first script, and every step keeps it.               *)
LEMMA SessionInvInit == SessionInit => SessionInv
<1> SUFFICES ASSUME SessionInit PROVE SessionInv
  BY Zenon
<1>1. IInv
  BY InvInit, Zenon DEF SessionInit
<1>2. HostInv
  BY ScriptsAssumption, SMTT(60) DEF SessionInit, HostInv
<1>3. InStep
  BY Zenon DEF SessionInit, Init, InStep, Resting
<1> QED
  BY <1>1, <1>2, <1>3, Zenon DEF SessionInv

(* Whether uuu may be stopped is the same for a whole session.              *)
LEMMA KillsKept == [SessionNext]_allVars => UNCHANGED kills
BY Zenon DEF SessionNext, allVars, hostVars, Start, SendLine, SendData, ReadAnswer, LineDone,
       GiveUp, Receive, Stop, TimeOut, SessionInsertCard

(* Every step keeps the invariant.                                          *)
LEMMA SessionInvStep == SessionInv /\ [SessionNext]_allVars => SessionInv'
<1>1. kills \/ ~Stop
  BY Zenon DEF Stop
<1> QED
  BY <1>1, HostInvStep, InStepStep, KillsKept, Zenon DEF SessionInv

(* In every session, whatever scripts are run and wherever they are         *)
(* stopped, the board keeps the invariants of FastbootGadgetProofs: the     *)
(* handlers that uuu reaches are among those of Next.                       *)
THEOREM BoardKept == SessionSpec => []IInv
<1>1. SessionInv => IInv
  BY Zenon DEF SessionInv
<1> QED
  BY <1>1, SessionInvInit, SessionInvStep, PTL DEF SessionSpec

(* Whatever scripts are run, a uuu that is not stopped never waits for an   *)
(* answer that the board will not give.                                     *)
THEOREM StrandedNever == SessionSpec => []NeverStranded
<1>1. SessionInv => NeverStranded
  BY StillOwed, Zenon DEF SessionInv, NeverStranded
<1> QED
  BY <1>1, SessionInvInit, SessionInvStep, PTL DEF SessionSpec

-----------------------------------------------------------------------------
(* What the media hold agrees with exp, where exp knows it.                 *)
Agrees(media, exp) ==
  \A d \in Dev, a \in Area : exp[d][a] # Unknown => media[d][a] = exp[d][a]

(* The board's side, in all states: no ACmd is stored, and the device that  *)
(* is flashed is the one of the environment.                                *)
EnvInv ==
  /\ in_complete = "fastboot_complete"
  /\ devinfo = IF fastboot_dev THEN mmcdev ELSE NoDev

PlainLines ==
  /\ \A i \in DOMAIN script : script[i].op # "acmd"
  /\ wire # <<>> /\ Head(wire).kind = "line" => Head(wire).line.op # "acmd"

(* What a flash line and a write rely on: uuu and the board have the same   *)
(* device, and the same image.                                              *)
SameDevice == target = mmcdev
SameImage == Prefix(fastboot_bytes) = image /\ download_bytes \in {0, fastboot_bytes}

(* Each is so, or a line that makes it so comes before those that need it.  *)
ScriptInv ==
  /\ SameDevice \/ NamesDevice(script)
  /\ SameImage \/ CarriesImage(script)

(* The board has run the line, and uuu has not read the answer.             *)
Ran == phase = "wait" /\ wire = <<>> /\ handler = "rx_handler_command"

(* The media hold what uuu expects; when a line has been run, what it makes *)
(* of that, or what it may have left.                                       *)
MediaInv ==
  /\ expected \in [Dev -> [Area -> Content]]
  /\ ~Ran => store = expected
  /\ Ran =>
       /\ Agrees(store, Spoilt(Head(script)))
       /\ Answered("OKAY") => store = Effect(Head(script), image)
       /\ SetsDevice(Head(script)) => Answered("OKAY") /\ mmcdev = Head(script).u.d

(* The part of an image that has arrived is in the buffer, and the next     *)
(* part is on the wire.                                                     *)
ImageInv ==
  phase \in {"data", "finish"} =>
    LET img == Head(script).img IN
    /\ \A k \in 1 .. download_bytes : buffer[k - 1] = img[k]
    /\ wire # <<>> => Head(wire).data = SubSeq(img, download_bytes + 1, sent)
    /\ phase = "finish" => sent = Len(img)
    /\ phase = "finish" /\ handler = "rx_handler_command" =>
         download_bytes = Len(img) /\ fastboot_bytes = Len(img)

(* A script that found the board at rest is being run.                      *)
Running == InStep /\ ScriptInv /\ MediaInv /\ ImageInv

(* A line that is left on the wire will not change what uuu reports.        *)
Expendable(line) ==
  /\ line.op = "flash" /\ devinfo # NoDev =>
       \A a \in Covered(devinfo, line.p) \cup {line.p} : expected[devinfo][a] = Unknown
  /\ line.op = "ucmd" /\ line.u.c = "ext4write" => expected[line.u.d][line.u.f] = Unknown

EndInv ==
  /\ Agrees(store, expected)
  /\ wire # <<>> /\ Head(wire).kind = "line" => Expendable(Head(wire).line)

(* A uuu that is not stopped finds the board at rest, and has its device    *)
(* and its image from one script to the next.                               *)
KeepsDevice == SameDevice \/ (Ran /\ SetsDevice(Head(script)))
KeepsImage == SameImage \/ handler = "rx_handler_dl_image" \/ phase = "finish"
LastingInv == ~kills => quiet /\ KeepsDevice /\ KeepsImage

ReportInv ==
  /\ EnvInv /\ PlainLines /\ LastingInv
  /\ quiet /\ script # <<>> => Running
  /\ quiet /\ script = <<>> => EndInv

-----------------------------------------------------------------------------
(* What the lines do to the media.                                          *)

(* The areas that a line may write, from uuu's point of view.               *)
Hits(line, d, a) ==
  \/ line.op = "flash" /\ d = target /\ a \in Covered(target, line.p) \cup {line.p}
  \/ line.op \in {"ucmd", "acmd"} /\ line.u.c = "ext4write" /\ d = line.u.d /\ a = line.u.f

(* These, and no others, are not known when the line has been given up.     *)
LEMMA SpoiltAreas ==
  ASSUME NEW line \in Line, NEW d \in Dev, NEW a \in Area
  PROVE  /\ Hits(line, d, a) => Spoilt(line)[d][a] = Unknown
         /\ ~Hits(line, d, a) => Spoilt(line)[d][a] = expected[d][a]
<1> DEFINE hit == CASE line.op = "flash" ->
                         {target} \X (Covered(target, line.p) \cup {line.p})
                    [] line.op \in {"ucmd", "acmd"} /\ line.u.c = "ext4write" ->
                         {<<line.u.d, line.u.f>>}
                    [] OTHER -> {}
<1>1. Spoilt(line)[d][a] = IF <<d, a>> \in hit THEN Unknown ELSE expected[d][a]
  BY Zenon DEF Spoilt
<1>2. CASE line.op = "flash"
  <2>1. hit = {target} \X (Covered(target, line.p) \cup {line.p})
    BY <1>2, Zenon
  <2>2. line.op \notin {"ucmd", "acmd"}
    BY <1>2, Zenon
  <2> HIDE DEF hit
  <2>3. <<d, a>> \in hit <=> Hits(line, d, a)
    BY <1>2, <2>1, <2>2 DEF Hits
  <2> QED
    BY <1>1, <2>3, Zenon
<1>3. CASE line.op \in {"ucmd", "acmd"} /\ line.u.c = "ext4write"
  <2>1. line.op # "flash"
    BY <1>3, Zenon
  <2>2. hit = {<<line.u.d, line.u.f>>}
    BY <1>3, <2>1, Zenon
  <2> HIDE DEF hit
  <2>3. <<d, a>> \in hit <=> Hits(line, d, a)
    BY <1>3, <2>1, <2>2 DEF Hits
  <2> QED
    BY <1>1, <2>3, Zenon
<1>4. CASE line.op # "flash" /\ ~(line.op \in {"ucmd", "acmd"} /\ line.u.c = "ext4write")
  <2>1. hit = {}
    BY <1>4, Zenon
  <2> HIDE DEF hit
  <2> QED
    BY <1>1, <1>4, <2>1, Zenon DEF Hits
<1> QED
  BY <1>2, <1>3, <1>4, Zenon

(* What a write covers are areas.                                           *)
LEMMA CoveredAreas == \A d, a : a \in Area => Covered(d, a) \subseteq Area
BY Zenon DEF Covered, Area, Part

(* A write changes what it covers.                                          *)
LEMMA WrittenAreas ==
  ASSUME store \in [Dev -> [Area -> Content]], NEW x \in Dev, NEW p, NEW data
  PROVE  \A d \in Dev, a \in Area :
           (d = x /\ a \in Covered(x, p) \cup {p}) \/ Written(x, p, data)[d][a] = store[d][a]
<1> SUFFICES ASSUME NEW d \in Dev, NEW a \in Area, d # x \/ a \notin Covered(x, p) \cup {p}
             PROVE  Written(x, p, data)[d][a] = store[d][a]
  BY Zenon
<1> DEFINE new == [b \in Area |->
                    IF b = p THEN data ELSE IF b \in Covered(x, p) THEN Torn ELSE store[x][b]]
<1>1. Written(x, p, data) = [store EXCEPT ![x] = new]
  BY Zenon DEF Written
<1>2. CASE d # x
  <2> HIDE DEF new
  <2> QED
    BY <1>1, <1>2
<1>3. CASE d = x /\ a \notin Covered(x, p) \cup {p}
  <2>1. new[a] = store[x][a]
    BY <1>3, Zenon
  <2> HIDE DEF new
  <2>2. Written(x, p, data)[d] = new
    BY <1>1, <1>3
  <2> QED
    BY <1>3, <2>1, <2>2, Zenon
<1> QED
  BY <1>2, <1>3, Zenon

(* What a line makes of the media.                                          *)
LEMMA EffectOf ==
  ASSUME NEW line \in Line, store = expected
  PROVE  /\ line.op = "flash" => Effect(line, image) = Written(target, line.p, image)
         /\ line.op = "ucmd" /\ line.u.c = "ext4write" =>
              Effect(line, image) = Written(line.u.d, line.u.f, image)
         /\ ~WritesImage(line) => Effect(line, image) = expected
<1>1. \A d, a, data : Put(expected, d, a, data) = Written(d, a, data)
  BY Zenon DEF Put, Written
<1>2. CASE line.op = "flash"
  <2>1. line.op # "ucmd" /\ WritesImage(line)
    BY <1>2, Zenon DEF WritesImage
  <2>2. Effect(line, image) = Put(expected, target, line.p, image)
    BY <1>2, Zenon DEF Effect
  <2> QED
    BY <1>1, <2>1, <2>2, Zenon
<1>3. CASE line.op \in {"ucmd", "acmd"} /\ line.u.c = "ext4write"
  <2>1. line.op # "flash" /\ WritesImage(line)
    BY <1>3, Zenon DEF WritesImage
  <2>2. Effect(line, image) = Put(expected, line.u.d, line.u.f, image)
    BY <1>3, <2>1, Zenon DEF Effect
  <2> QED
    BY <1>1, <2>1, <2>2, Zenon
<1>4. CASE line.op # "flash" /\ ~(line.op \in {"ucmd", "acmd"} /\ line.u.c = "ext4write")
  <2>1. Effect(line, image) = expected
    BY <1>4, Zenon DEF Effect
  <2> QED
    BY <1>4, <2>1, Zenon
<1> QED
  BY <1>2, <1>3, <1>4, Zenon

(* A flash line writes its area of the device that devinfo names, whole or  *)
(* torn, or nothing.                                                        *)
LEMMA FlashEffect ==
  ASSUME IInv, NEW p \in Part, NEW ok \in BOOLEAN, cb_flash(p, ok)
  PROVE  /\ UNCHANGED <<rxVars, in_complete, envVars, tabVars, card>>
         /\ \/ tx' = TxWrite(tx, "FAIL") /\ store' = store
            \/ /\ tx' = TxWrite(tx, "FAIL") /\ devinfo \in Dev
               /\ store' = Written(devinfo, p, Torn)
            \/ /\ tx' = TxWrite(tx, "OKAY") /\ devinfo \in Dev /\ download_bytes > 0
               /\ store' = Written(devinfo, p, Prefix(download_bytes))
<1>1. UNCHANGED <<rxVars, in_complete, envVars, tabVars, card>>
  BY Zenon DEF cb_flash
<1>2. FlashAccepted(p) => devinfo \in Dev /\ devinfo \in card /\ download_bytes > 0
  BY Zenon DEF IInv, DevInv, FlashAccepted, TableIsSelected
<1>3. CASE ~FlashAccepted(p)
  <2>1. tx' = TxWrite(tx, "FAIL") /\ UNCHANGED mmcVars
    BY <1>3, Zenon DEF cb_flash
  <2> QED
    BY <1>1, <2>1, Zenon DEF mmcVars
<1>4. CASE FlashAccepted(p) /\ IsSparse(p)
  <2>1. /\ tx' = TxWrite(tx, IF ok THEN "OKAY" ELSE "FAIL")
        /\ store' = Written(devinfo, p, IF ok THEN Prefix(download_bytes) ELSE Torn)
    BY <1>4, Zenon DEF cb_flash, FlashSparse
  <2> QED
    BY <1>1, <1>2, <1>4, <2>1, Zenon
<1>5. CASE FlashAccepted(p) /\ ~IsSparse(p)
  <2>1. FlashRaw(p, ok)
    BY <1>5, Zenon DEF cb_flash
  <2>2. /\ tx' = TxWrite(tx, IF ok THEN "OKAY" ELSE "FAIL")
        /\ store' = Written(devinfo, p, IF ok THEN Prefix(download_bytes) ELSE Torn)
    BY <1>2, <1>5, <2>1, Zenon DEF FlashRaw
  <2> QED
    BY <1>1, <1>2, <1>5, <2>2, Zenon
<1> QED
  BY <1>3, <1>4, <1>5, Zenon

(* A U-Boot command keeps the device that is flashed the one of the         *)
(* environment.                                                             *)
LEMMA CmdEffect ==
  ASSUME IInv, EnvInv, NEW u \in UbootCmd, cb_run_uboot_cmd(u)
  PROVE  /\ UNCHANGED <<rxVars, in_complete, card>> /\ EnvInv'
         /\ tx' = TxWrite(tx, IF CmdSucceeds(u) THEN "OKAY" ELSE "FAIL")
         /\ mmcdev' = IF u.c = "setenv mmcdev" THEN u.d ELSE mmcdev
         /\ store' = IF u.c = "ext4write" /\ CmdSucceeds(u)
                       THEN Written(u.d, u.f, Prefix(fastboot_bytes)) ELSE store
         /\ u.c = "setenv mmcdev" => CmdSucceeds(u)
<1>1. /\ UNCHANGED <<rxVars, in_complete, card>>
      /\ tx' = TxWrite(tx, IF CmdSucceeds(u) THEN "OKAY" ELSE "FAIL")
      /\ RunCommand(u)
  BY Zenon DEF cb_run_uboot_cmd
<1>2. /\ mmcdev' = IF u.c = "setenv mmcdev" THEN u.d ELSE mmcdev
      /\ fastboot_dev' = (fastboot_dev \/ u.c = "setenv fastboot_dev")
      /\ store' = IF u.c = "ext4write" /\ CmdSucceeds(u)
                       THEN Written(u.d, u.f, Prefix(fastboot_bytes)) ELSE store
  BY <1>1, Zenon DEF RunCommand
<1>3. u.c \in {"setenv mmcdev", "setenv fastboot_dev"} => CmdSucceeds(u)
  BY Zenon DEF CmdSucceeds
<1>4. /\ in_complete' = "fastboot_complete"
      /\ devinfo = IF fastboot_dev THEN mmcdev ELSE NoDev
      /\ fastboot_dev \in BOOLEAN
  BY <1>1, Zenon DEF EnvInv, IInv, DevInv
<1>5. CASE CmdSucceeds(u)
  <2>1. devinfo' = IF fastboot_dev' THEN mmcdev' ELSE devinfo
    BY <1>5, Zenon DEF cb_run_uboot_cmd, fastboot_setup, tabVars
  <2>2. EnvInv'
    BY <1>2, <1>4, <2>1, Zenon DEF EnvInv
  <2> QED
    BY <1>1, <1>2, <1>5, <2>2, Zenon
<1>6. CASE ~CmdSucceeds(u)
  <2>1. UNCHANGED devinfo
    BY <1>6, Zenon DEF cb_run_uboot_cmd, tabVars
  <2>2. EnvInv'
    BY <1>2, <1>3, <1>4, <1>6, <2>1, Zenon DEF EnvInv
  <2> QED
    BY <1>1, <1>2, <1>3, <1>6, <2>2, Zenon
<1> QED
  BY <1>5, <1>6, Zenon

-----------------------------------------------------------------------------
(* The order of the lines, as a script is run.                              *)

(* The first line relies on what holds before it.                           *)
LEMMA FirstLine ==
  ASSUME NEW s \in Seq(Line), s # <<>>
  PROVE  /\ NamesDevice(s) => Head(s).op # "flash"
         /\ CarriesImage(s) => ~WritesImage(Head(s))
<1>1. 1 \in DOMAIN s /\ s[1] = Head(s) /\ \A j \in 1 .. 1 - 1 : FALSE
  OBVIOUS
<1>2. NamesDevice(s) => Head(s).op # "flash"
  BY <1>1, Zenon DEF NamesDevice
<1>3. CarriesImage(s) => ~WritesImage(Head(s))
  BY <1>1, Zenon DEF CarriesImage
<1> QED
  BY <1>2, <1>3, Zenon

(* A first line that names the device, or carries the image, serves all     *)
(* those after it.                                                          *)
LEMMA FirstServes ==
  ASSUME NEW s \in Seq(Line), s # <<>>
  PROVE  /\ SetsDevice(Head(s)) => NamesDevice(s)
         /\ Head(s).op = "download" => CarriesImage(s)
<1>1. s[1] = Head(s) /\ \A i \in DOMAIN s : i # 1 => 1 \in 1 .. i - 1
  OBVIOUS
<1>2. ASSUME SetsDevice(Head(s)) PROVE NamesDevice(s)
  <2>1. Head(s).op # "flash"
    BY <1>2, Zenon DEF SetsDevice
  <2> QED
    BY <1>1, <1>2, <2>1, Zenon DEF NamesDevice
<1>3. ASSUME Head(s).op = "download" PROVE CarriesImage(s)
  <2>1. ~WritesImage(Head(s))
    BY <1>3, Zenon DEF WritesImage
  <2> QED
    BY <1>1, <1>3, <2>1, Zenon DEF CarriesImage
<1> QED
  BY <1>2, <1>3, Zenon

(* What the rest of a script relies on once its first line has been run.    *)
LEMMA RestOfScript ==
  ASSUME NEW s \in Seq(Line), s # <<>>
  PROVE  /\ NamesDevice(s) /\ ~SetsDevice(Head(s)) => NamesDevice(Tail(s))
         /\ CarriesImage(s) /\ Head(s).op # "download" => CarriesImage(Tail(s))
<1> DEFINE t == Tail(s)
<1>1. /\ s[1] = Head(s) /\ \A i \in DOMAIN t : i + 1 \in DOMAIN s /\ t[i] = s[i + 1]
      /\ \A i \in DOMAIN t : \A j \in 1 .. i : j # 1 => j - 1 \in 1 .. i - 1 /\ t[j - 1] = s[j]
      /\ \A i \in DOMAIN t : (i + 1) - 1 = i
  OBVIOUS
<1>2. ASSUME NamesDevice(s), ~SetsDevice(Head(s)) PROVE NamesDevice(t)
  <2> SUFFICES ASSUME NEW i \in DOMAIN t, t[i].op = "flash"
               PROVE  \E j \in 1 .. i - 1 : SetsDevice(t[j])
    BY Zenon DEF NamesDevice
  <2>1. PICK j \in 1 .. (i + 1) - 1 : SetsDevice(s[j])
    BY <1>1, <1>2, Zenon DEF NamesDevice
  <2>2. j \in 1 .. i
    BY <1>1, Zenon
  <2>3. j - 1 \in 1 .. i - 1 /\ SetsDevice(t[j - 1])
    BY <1>1, <1>2, <2>1, <2>2, Zenon
  <2> QED
    BY <2>3, Zenon
<1>3. ASSUME CarriesImage(s), Head(s).op # "download" PROVE CarriesImage(t)
  <2> SUFFICES ASSUME NEW i \in DOMAIN t, WritesImage(t[i])
               PROVE  \E j \in 1 .. i - 1 : t[j].op = "download"
    BY Zenon DEF CarriesImage
  <2>1. PICK j \in 1 .. (i + 1) - 1 : s[j].op = "download"
    BY <1>1, <1>3, Zenon DEF CarriesImage
  <2>2. j \in 1 .. i
    BY <1>1, Zenon
  <2>3. j - 1 \in 1 .. i - 1 /\ t[j - 1].op = "download"
    BY <1>1, <1>3, <2>1, <2>2, Zenon
  <2> QED
    BY <2>3, Zenon
<1> QED
  BY <1>2, <1>3, Zenon

-----------------------------------------------------------------------------
(* The board's side of the steps.                                           *)

(* A medium that holds what uuu expects holds what it knows of it.          *)
LEMMA SpoiltAgrees ==
  ASSUME store = expected, NEW line \in Line
  PROVE  Agrees(store, Spoilt(line))
BY SpoiltAreas, Zenon DEF Agrees

(* What uuu makes of a line depends on its own variables only.              *)
LEMMA SameView ==
  ASSUME UNCHANGED <<script, image, target, expected>>
  PROVE  /\ Spoilt(Head(script))' = Spoilt(Head(script))
         /\ Effect(Head(script), image)' = Effect(Head(script), image)
<1>1. Spoilt(Head(script))' = Spoilt(Head(script))
  BY Zenon DEF Spoilt
<1>2. Effect(Head(script), image)' = Effect(Head(script), image)
  BY Zenon DEF Effect, Put
<1> QED
  BY <1>1, <1>2, Zenon

(* While no ACmd is stored, an answer that is read changes nothing else.    *)
LEMMA AnswerOnly ==
  ASSUME TxComplete, in_complete = "fastboot_complete"
  PROVE  tx' = Tail(tx) /\ UNCHANGED <<rxVars, in_complete, envVars, tabVars, mmcVars, card>>
<1>1. in_complete # "do_acmd_complete"
  BY Zenon
<1> QED
  BY <1>1, Zenon DEF TxComplete

(* A refusal, or the demand for an image, is not an OKAY.                   *)
LEMMA OnlyOkay ==
  /\ TxWrite(<<>>, "OKAY") = <<[req |-> "in_req", msg |-> "OKAY"]>>
  /\ TxWrite(<<>>, "FAIL") # <<[req |-> "in_req", msg |-> "OKAY"]>>
  /\ TxWrite(<<>>, "DATA") # <<[req |-> "in_req", msg |-> "OKAY"]>>
<1>1. \A m \in {"FAIL", "DATA"} :
        <<[req |-> "in_req", msg |-> m]>> # <<[req |-> "in_req", msg |-> "OKAY"]>>
  OBVIOUS
<1> QED
  BY <1>1, FirstAnswer, Zenon

(* What the running of a line leaves of the order of the script.            *)
LEMMA OrderKept ==
  ASSUME script \in Seq(Line), script # <<>>, ScriptInv, UNCHANGED script,
         SetsDevice(Head(script)) \/ (SameDevice => SameDevice'),
         Head(script).op = "download" \/ (SameImage => SameImage')
  PROVE  ScriptInv'
<1>1. SameDevice' \/ NamesDevice(script)
  BY FirstServes, Zenon DEF ScriptInv
<1>2. SameImage' \/ CarriesImage(script)
  BY FirstServes, Zenon DEF ScriptInv
<1> QED
  BY <1>1, <1>2, Zenon DEF ScriptInv

(* A download line writes nothing.                                          *)
LEMMA DownloadRun ==
  ASSUME IInv, EnvInv, tx = <<>>, NEW n \in Nat, cb_download(n)
  PROVE  /\ EnvInv' /\ UNCHANGED <<store, mmcdev, devinfo>> /\ ~Answered("OKAY")'
         /\ SameImage /\ UNCHANGED image => SameImage'
<1>1. /\ download_bytes' = 0
      /\ UNCHANGED <<buffer, fastboot_bytes, in_complete, envVars, tabVars, mmcVars>>
      /\ tx' = TxWrite(tx, "FAIL") \/ tx' = TxWrite(tx, "DATA")
  BY Zenon DEF cb_download
<1>2. ~Answered("OKAY")'
  BY <1>1, OnlyOkay, Zenon DEF Answered
<1>3. EnvInv' /\ UNCHANGED <<store, mmcdev, devinfo>>
  BY <1>1, Zenon DEF EnvInv, envVars, tabVars, mmcVars
<1>4. SameImage /\ UNCHANGED image => SameImage'
  BY <1>1, Zenon DEF SameImage, Prefix
<1> QED
  BY <1>2, <1>3, <1>4, Zenon

(* A write of an area that the line hits leaves the others as they were.    *)
LEMMA WriteSpoils ==
  ASSUME NEW line \in Line, store = expected, store \in [Dev -> [Area -> Content]],
         NEW x \in Dev, NEW p, NEW data,
         \A d \in Dev, a \in Area : d = x /\ a \in Covered(x, p) \cup {p} => Hits(line, d, a)
  PROVE  Agrees(Written(x, p, data), Spoilt(line))
<1> SUFFICES ASSUME NEW d \in Dev, NEW a \in Area, Spoilt(line)[d][a] # Unknown
             PROVE  Written(x, p, data)[d][a] = Spoilt(line)[d][a]
  BY Zenon DEF Agrees
<1>1. ~Hits(line, d, a) /\ Spoilt(line)[d][a] = expected[d][a]
  BY SpoiltAreas, Zenon
<1>2. d # x \/ a \notin Covered(x, p) \cup {p}
  BY <1>1, Zenon
<1>3. Written(x, p, data)[d][a] = store[d][a]
  BY <1>2, WrittenAreas
<1> QED
  BY <1>1, <1>3, Zenon

(* A flash line writes what uuu expects of it, or tears what it writes.     *)
LEMMA FlashRun ==
  ASSUME IInv, EnvInv, tx = <<>>, store = expected, NEW line \in Line, line.op = "flash",
         Dispatch(line), SameDevice, SameImage
  PROVE  /\ EnvInv' /\ UNCHANGED <<rxVars, mmcdev>>
         /\ Agrees(store', Spoilt(line))
         /\ Answered("OKAY")' => store' = Effect(line, image)
<1> DEFINE p == line.p
<1>1. p \in Part
  BY LineFields, Zenon
<1>2. PICK ok \in BOOLEAN : cb_flash(p, ok)
  BY Zenon DEF Dispatch
<1>3. /\ UNCHANGED <<rxVars, in_complete, envVars, tabVars, card>>
      /\ \/ tx' = TxWrite(tx, "FAIL") /\ store' = store
         \/ /\ tx' = TxWrite(tx, "FAIL") /\ devinfo \in Dev
            /\ store' = Written(devinfo, p, Torn)
         \/ /\ tx' = TxWrite(tx, "OKAY") /\ devinfo \in Dev /\ download_bytes > 0
            /\ store' = Written(devinfo, p, Prefix(download_bytes))
  BY <1>1, <1>2, FlashEffect, Zenon
<1>4. devinfo \in Dev => devinfo = target
  <2>1. NoDev \notin Dev
    BY DEF NoDev, Dev, SD, Emmc
  <2> QED
    BY <2>1, Zenon DEF EnvInv, SameDevice
<1>5. \A x \in Dev : \A data : x = target => Agrees(Written(x, p, data), Spoilt(line))
  <2>1. store \in [Dev -> [Area -> Content]]
    BY Zenon DEF IInv, DevInv
  <2>2. \A d \in Dev, a \in Area :
          d = target /\ a \in Covered(target, p) \cup {p} => Hits(line, d, a)
    BY Zenon DEF Hits
  <2> QED
    BY <2>1, <2>2, WriteSpoils, Zenon
<1>6. Agrees(store', Spoilt(line))
  BY <1>3, <1>4, <1>5, SpoiltAgrees, Zenon
<1>7. Answered("OKAY")' => store' = Effect(line, image)
  <2>1. Effect(line, image) = Written(target, p, image)
    BY EffectOf, Zenon
  <2>2. download_bytes > 0 => download_bytes # 0
    BY DEF IInv, RxInv
  <2>3. download_bytes > 0 => Prefix(download_bytes) = image
    BY <2>2, Zenon DEF SameImage
  <2> QED
    BY <1>3, <1>4, <2>1, <2>3, OnlyOkay, Zenon DEF Answered
<1>8. EnvInv' /\ UNCHANGED mmcdev
  BY <1>3, Zenon DEF EnvInv, envVars, tabVars
<1> QED
  BY <1>1, <1>3, <1>6, <1>7, <1>8, Zenon

(* So does a U-Boot command.                                                *)
LEMMA CmdRun ==
  ASSUME IInv, EnvInv, tx = <<>>, store = expected, NEW line \in Line, line.op = "ucmd",
         Dispatch(line), WritesImage(line) => SameImage
  PROVE  /\ EnvInv' /\ UNCHANGED rxVars
         /\ Agrees(store', Spoilt(line))
         /\ Answered("OKAY")' => store' = Effect(line, image)
         /\ SetsDevice(line) => Answered("OKAY")' /\ mmcdev' = line.u.d
         /\ ~SetsDevice(line) => UNCHANGED mmcdev
<1> DEFINE u == line.u
<1>1. u \in UbootCmd
  BY LineFields, Zenon
<1>2. /\ UNCHANGED <<rxVars, in_complete, card>> /\ EnvInv'
      /\ tx' = TxWrite(tx, IF CmdSucceeds(u) THEN "OKAY" ELSE "FAIL")
      /\ mmcdev' = IF u.c = "setenv mmcdev" THEN u.d ELSE mmcdev
      /\ store' = IF u.c = "ext4write" /\ CmdSucceeds(u)
                    THEN Written(u.d, u.f, Prefix(fastboot_bytes)) ELSE store
      /\ u.c = "setenv mmcdev" => CmdSucceeds(u)
  <2>1. cb_run_uboot_cmd(u)
    BY Zenon DEF Dispatch
  <2> QED
    BY <1>1, <2>1, CmdEffect, Zenon
<1>3. Answered("OKAY")' <=> CmdSucceeds(u)
  BY <1>2, OnlyOkay, Zenon DEF Answered
<1>4. Agrees(store', Spoilt(line))
  <2>1. CASE u.c = "ext4write" /\ CmdSucceeds(u)
    <3>1. u.d \in Dev /\ u.f \in File
      BY <1>1, <2>1, UbootCmdFields, Zenon
    <3>2. Covered(u.d, u.f) = {u.f}
      BY <3>1, SizeAssumption DEF Covered, Part
    <3>3. store \in [Dev -> [Area -> Content]]
      BY Zenon DEF IInv, DevInv
    <3>4. \A d \in Dev, a \in Area :
            d = u.d /\ a \in Covered(u.d, u.f) \cup {u.f} => Hits(line, d, a)
      BY <2>1, <3>2, Zenon DEF Hits
    <3> QED
      BY <1>2, <2>1, <3>1, <3>3, <3>4, WriteSpoils, Zenon
  <2>2. CASE ~(u.c = "ext4write" /\ CmdSucceeds(u))
    BY <1>2, <2>2, SpoiltAgrees, Zenon
  <2> QED
    BY <2>1, <2>2, Zenon
<1>5. CmdSucceeds(u) => store' = Effect(line, image)
  <2>1. CASE u.c = "ext4write"
    BY <1>2, <2>1, EffectOf, Zenon DEF WritesImage, SameImage
  <2>2. CASE u.c # "ext4write"
    BY <1>2, <2>2, EffectOf, Zenon DEF WritesImage
  <2> QED
    BY <2>1, <2>2, Zenon
<1>6. SetsDevice(line) <=> u.c = "setenv mmcdev"
  BY Zenon DEF SetsDevice
<1> HIDE DEF u
<1>7. SetsDevice(line) => Answered("OKAY")' /\ mmcdev' = line.u.d
  BY <1>2, <1>3, <1>6, Zenon DEF u
<1> QED
  BY <1>2, <1>3, <1>4, <1>5, <1>6, <1>7, Zenon

(* The next part of an image goes behind what has arrived of it.            *)
LEMMA ImageTaken ==
  ASSUME IInv, NEW img \in Seq(Byte), NEW data \in Seq(Byte), rx_handler_dl_image(data),
         download_size = Len(img), sent \in Nat, sent <= Len(img),
         data = SubSeq(img, download_bytes + 1, sent), download_bytes + Len(data) = sent,
         \A k \in 1 .. download_bytes : buffer[k - 1] = img[k]
  PROVE  /\ download_bytes' = sent /\ \A k \in 1 .. sent : buffer'[k - 1] = img[k]
         /\ sent = Len(img) => fastboot_bytes' = Len(img)
         /\ sent # Len(img) => UNCHANGED handler
         /\ UNCHANGED <<in_complete, envVars, tabVars, mmcVars, card>>
<1>1. /\ download_bytes \in Nat /\ download_size <= BufSize /\ BufSize \in Nat
      /\ buffer \in [0 .. BufSize - 1 -> Byte]
  BY SizeAssumption, Zenon DEF IInv, RxInv, DownloadFits, rx_handler_dl_image
<1>2. Taken(data) = Len(data) /\ download_bytes + Taken(data) = sent
  BY <1>1 DEF Taken
<1>3. /\ buffer' = [i \in DOMAIN buffer |->
                      IF i \in download_bytes .. sent - 1
                        THEN data[i - download_bytes + 1] ELSE buffer[i]]
      /\ download_bytes' = sent
      /\ DownloadDone(sent) => fastboot_bytes' = sent
      /\ ~DownloadDone(sent) => UNCHANGED handler
      /\ UNCHANGED <<in_complete, envVars, tabVars, mmcVars, card>>
  BY <1>2, Zenon DEF rx_handler_dl_image
<1>4. DownloadDone(sent) <=> sent = Len(img)
  BY <1>1 DEF DownloadDone
<1>5. ASSUME NEW k \in 1 .. sent PROVE buffer'[k - 1] = img[k]
  <2>1. k - 1 \in 0 .. BufSize - 1 /\ DOMAIN buffer = 0 .. BufSize - 1
    BY <1>1
  <2>2. buffer'[k - 1] = IF k - 1 \in download_bytes .. sent - 1
                           THEN data[(k - 1) - download_bytes + 1] ELSE buffer[k - 1]
    BY <1>3, <2>1, Zenon
  <2>3. CASE k <= download_bytes
    <3>1. k - 1 \notin download_bytes .. sent - 1 /\ k \in 1 .. download_bytes
      BY <1>1, <2>3
    <3> QED
      BY <2>2, <3>1, Zenon
  <2>4. CASE k > download_bytes
    <3>1. /\ k - 1 \in download_bytes .. sent - 1
          /\ (k - 1) - download_bytes + 1 \in 1 .. sent - download_bytes
          /\ download_bytes + ((k - 1) - download_bytes + 1) = k
      BY <1>1, <2>4
    <3>2. \A m \in 1 .. sent - download_bytes :
            SubSeq(img, download_bytes + 1, sent)[m] = img[download_bytes + m]
      BY <1>1
    <3> QED
      BY <2>2, <3>1, <3>2, Zenon
  <2> QED
    BY <1>1, <2>3, <2>4
<1> QED
  BY <1>3, <1>4, <1>5, Zenon

(* Once all of it has arrived, the buffer holds the image.                  *)
LEMMA WholeImage ==
  ASSUME NEW img \in Seq(Byte), fastboot_bytes = Len(img),
         \A k \in 1 .. Len(img) : buffer[k - 1] = img[k]
  PROVE  Prefix(fastboot_bytes) = img
<1>1. img = [i \in 1 .. Len(img) |-> img[i]]
  OBVIOUS
<1>2. [i \in 1 .. Len(img) |-> buffer[i - 1]] = [i \in 1 .. Len(img) |-> img[i]]
  BY Zenon
<1> QED
  BY <1>1, <1>2, Zenon DEF Prefix

-----------------------------------------------------------------------------
(* The steps of a script that found the board at rest.                      *)

(* The board runs a line.                                                   *)
LEMMA LineRuns ==
  ASSUME IInv, HostInv, EnvInv, PlainLines, Running, script # <<>>, phase = "wait", Receive
  PROVE  /\ EnvInv' /\ ScriptInv' /\ MediaInv' /\ ImageInv'
         /\ KeepsDevice => KeepsDevice'
         /\ KeepsImage => KeepsImage'
<1> DEFINE line == Head(script)
<1>1. wire = <<[kind |-> "line", line |-> line]>> /\ Resting
  BY Zenon DEF Running, InStep, Receive
<1>2. Head(wire).kind = "line" /\ Head(wire).line = line
  BY <1>1
<1>3. line \in Line /\ script \in Seq(Line)
  BY DEF HostInv
<1>4. /\ Dispatch(line) /\ line.op # "acmd" /\ tx = <<>> /\ handler = "rx_handler_command"
      /\ wire # <<>> /\ wire' = <<>>
      /\ UNCHANGED <<script, phase, sent, image, target, expected, quiet, kills>>
  BY <1>1, <1>2, Zenon DEF Receive, PlainLines, Resting
<1>5. store = expected /\ expected \in [Dev -> [Area -> Content]] /\ ~Ran
  BY <1>4, Zenon DEF Running, MediaInv, Ran
<1>6. /\ line.op = "flash" => SameDevice
      /\ WritesImage(line) => SameImage
  <2>1. line.op = "flash" => SameDevice
    BY <1>3, FirstLine, Zenon DEF Running, ScriptInv
  <2>2. WritesImage(line) => SameImage
    BY <1>3, FirstLine, Zenon DEF Running, ScriptInv
  <2> QED
    BY <2>1, <2>2, Zenon
<1>7. ScriptInv /\ phase' = "wait"
  BY <1>4, Zenon DEF Running
<1> HIDE DEF line
<1>8. /\ EnvInv' /\ Agrees(store', Spoilt(line))
      /\ Answered("OKAY")' => store' = Effect(line, image)
      /\ SetsDevice(line) => Answered("OKAY")' /\ mmcdev' = line.u.d
      /\ ~SetsDevice(line) => UNCHANGED mmcdev
      /\ SameImage => SameImage'
      /\ handler' = "rx_handler_command" \/ store' = expected
  <2>1. CASE line.op = "download"
    <3>1. cb_download(Len(line.img)) /\ Len(line.img) \in Nat
      <4>1. line.img \in Seq(Byte)
        BY <1>3, <2>1, LineFields, Zenon
      <4>2. cb_download(Len(line.img))
        BY <1>4, <2>1, Zenon DEF Dispatch
      <4> QED
        BY <4>1, <4>2
    <3>2. /\ EnvInv' /\ UNCHANGED <<store, mmcdev, devinfo>> /\ ~Answered("OKAY")'
          /\ SameImage => SameImage'
      BY <1>4, <3>1, DownloadRun, Zenon
    <3>3. ~SetsDevice(line)
      BY <2>1, Zenon DEF SetsDevice
    <3> QED
      BY <1>3, <1>5, <3>2, <3>3, SpoiltAgrees, Zenon
  <2>2. CASE line.op = "flash"
    <3>1. WritesImage(line) /\ ~SetsDevice(line)
      BY <2>2, Zenon DEF WritesImage, SetsDevice
    <3>2. /\ EnvInv' /\ UNCHANGED <<rxVars, mmcdev>>
          /\ Agrees(store', Spoilt(line))
          /\ Answered("OKAY")' => store' = Effect(line, image)
      BY <1>3, <1>4, <1>5, <1>6, <2>2, <3>1, FlashRun, Zenon
    <3>3. (SameImage => SameImage') /\ handler' = "rx_handler_command"
      BY <1>4, <3>2, Zenon DEF SameImage, Prefix, rxVars
    <3> QED
      BY <3>1, <3>2, <3>3, Zenon
  <2>3. CASE line.op = "ucmd"
    <3>1. /\ EnvInv' /\ UNCHANGED rxVars
          /\ Agrees(store', Spoilt(line))
          /\ Answered("OKAY")' => store' = Effect(line, image)
          /\ SetsDevice(line) => Answered("OKAY")' /\ mmcdev' = line.u.d
          /\ ~SetsDevice(line) => UNCHANGED mmcdev
      BY <1>3, <1>4, <1>5, <1>6, <2>3, CmdRun, Zenon
    <3>2. (SameImage => SameImage') /\ handler' = "rx_handler_command"
      BY <1>4, <3>1, Zenon DEF SameImage, Prefix, rxVars
    <3> QED
      BY <3>1, <3>2, Zenon
  <2> QED
    BY <1>3, <1>4, <2>1, <2>2, <2>3, LineFields, Zenon
<1>9. SetsDevice(line) \/ (SameDevice => SameDevice')
  BY <1>4, <1>8, Zenon DEF SameDevice
<1>10. ScriptInv'
  BY <1>3, <1>4, <1>7, <1>8, <1>9, OrderKept, Zenon DEF line
<1>11. MediaInv'
  <2>1. Spoilt(Head(script))' = Spoilt(line) /\ Effect(Head(script), image)' = Effect(line, image)
    BY <1>4, SameView, Zenon DEF line
  <2>2. Ran' \/ store' = expected'
    BY <1>4, <1>7, <1>8, Zenon DEF Ran
  <2>3. Ran' \/ ~Ran'
    BY Zenon
  <2>4. Agrees(store', Spoilt(Head(script))')
    BY <1>8, <2>1, Zenon
  <2>5. Answered("OKAY")' => store' = Effect(Head(script), image)'
    BY <1>8, <2>1, Zenon
  <2>6. Head(script') = line
    BY <1>4, Zenon DEF line
  <2> QED
    BY <1>4, <1>5, <1>8, <2>2, <2>4, <2>5, <2>6, Zenon DEF MediaInv
<1>12. ImageInv'
  BY <1>7, Zenon DEF ImageInv
<1>13. KeepsDevice => KeepsDevice'
  <2>1. CASE SetsDevice(line)
    <3>1. handler' = "rx_handler_command"
      <4>1. line.op = "ucmd"
        BY <2>1, Zenon DEF SetsDevice
      <4>2. cb_run_uboot_cmd(line.u)
        BY <1>4, <4>1, Zenon DEF Dispatch
      <4> QED
        BY <1>4, <4>2, Zenon DEF cb_run_uboot_cmd, rxVars
    <3> QED
      BY <1>4, <1>7, <2>1, <3>1, Zenon DEF KeepsDevice, Ran, line
  <2>2. CASE ~SetsDevice(line)
    BY <1>5, <1>9, <2>2, Zenon DEF KeepsDevice
  <2> QED
    BY <2>1, <2>2, Zenon
<1>14. KeepsImage => KeepsImage'
  BY <1>4, <1>8, Zenon DEF KeepsImage
<1> QED
  BY <1>8, <1>10, <1>11, <1>12, <1>13, <1>14, Zenon

(* A part of an image arrives.                                              *)
LEMMA PartArrives ==
  ASSUME IInv, HostInv, EnvInv, Running, phase \in {"data", "finish"}, Receive
  PROVE  /\ EnvInv' /\ ScriptInv' /\ MediaInv' /\ ImageInv'
         /\ KeepsDevice => KeepsDevice'
         /\ KeepsImage'
<1> DEFINE img == Head(script).img
<1>1. /\ wire # <<>> /\ wire' = <<>> /\ script # <<>>
      /\ UNCHANGED <<script, phase, sent, image, target, expected, quiet, kills>>
  BY Zenon DEF Receive, HostInv
<1>2. /\ Head(script) \in Line /\ Head(script).op = "download" /\ script \in Seq(Line)
      /\ sent \in Nat /\ sent <= Len(img)
  BY <1>1 DEF HostInv
<1>3. img \in Seq(Byte)
  BY <1>2, LineFields, Zenon
<1>4. /\ handler = "rx_handler_dl_image" /\ download_size = Len(img)
      /\ \E data \in Seq(Byte) : /\ wire = <<[kind |-> "data", data |-> data]>>
                                 /\ phase = "data" => download_bytes + Len(data) = sent
                                 /\ phase = "finish" => download_bytes + Len(data) = download_size
      /\ phase = "data" => sent < Len(img)
  <2>1. CASE phase = "data"
    BY <1>1, <2>1, Zenon DEF Running, InStep, Arriving
  <2>2. CASE phase = "finish"
    BY <1>1, <2>2, Zenon DEF Running, InStep, Arriving
  <2> QED
    BY <2>1, <2>2, Zenon
<1>5. PICK data \in Seq(Byte) :
        /\ wire = <<[kind |-> "data", data |-> data]>>
        /\ phase = "data" => download_bytes + Len(data) = sent
        /\ phase = "finish" => download_bytes + Len(data) = download_size
  BY <1>4, Zenon
<1>6. Head(wire).kind = "data" /\ Head(wire).data = data
  BY <1>5
<1>7. /\ \A k \in 1 .. download_bytes : buffer[k - 1] = img[k]
      /\ data = SubSeq(img, download_bytes + 1, sent)
      /\ phase = "finish" => sent = Len(img)
  BY <1>1, <1>6, Zenon DEF Running, ImageInv
<1>8. download_bytes + Len(data) = sent /\ rx_handler_dl_image(data)
  BY <1>4, <1>5, <1>6, <1>7, Zenon DEF Receive
<1> HIDE DEF img
<1>9. /\ download_bytes' = sent /\ \A k \in 1 .. sent : buffer'[k - 1] = img[k]
      /\ sent = Len(img) => fastboot_bytes' = Len(img)
      /\ sent # Len(img) => UNCHANGED handler
      /\ UNCHANGED <<in_complete, envVars, tabVars, mmcVars, card>>
  BY <1>2, <1>3, <1>4, <1>7, <1>8, ImageTaken, Zenon DEF img
<1>10. ~Ran /\ ~Ran'
  BY <1>1, Zenon DEF Ran
<1>11. EnvInv' /\ UNCHANGED <<mmcdev, devinfo, store>>
  BY <1>9, Zenon DEF EnvInv, envVars, tabVars, mmcVars
<1>12. MediaInv'
  BY <1>1, <1>10, <1>11, Zenon DEF Running, MediaInv
<1>13. ScriptInv'
  <2>1. SameDevice => SameDevice'
    BY <1>1, <1>11, Zenon DEF SameDevice
  <2> QED
    BY <1>1, <1>2, <2>1, OrderKept, Zenon DEF Running
<1>14. ImageInv'
  <2>1. Head(script').img = img /\ sent' = sent /\ wire' = <<>> /\ phase' = phase
    BY <1>1, Zenon DEF img
  <2> QED
    BY <1>7, <1>9, <2>1, Zenon DEF ImageInv, img
<1>15. KeepsDevice => KeepsDevice'
  BY <1>1, <1>10, <1>11, Zenon DEF KeepsDevice, SameDevice
<1>16. KeepsImage'
  <2>1. CASE phase = "data"
    <3>1. sent # Len(img)
      BY <1>2, <1>3, <1>4, <2>1 DEF img
    <3> QED
      BY <1>4, <1>9, <3>1, Zenon DEF KeepsImage
  <2>2. CASE phase = "finish"
    BY <1>1, <2>2, Zenon DEF KeepsImage
  <2> QED
    BY <2>1, <2>2, Zenon
<1> QED
  BY <1>11, <1>12, <1>13, <1>14, <1>15, <1>16, Zenon

(* A line, or the next part of an image, is sent.                           *)
LEMMA SentOn ==
  ASSUME IInv, HostInv, Running, SendLine \/ SendData
  PROVE  /\ ScriptInv' /\ MediaInv' /\ ImageInv'
         /\ KeepsDevice => KeepsDevice'
         /\ KeepsImage => KeepsImage'
<1>1. /\ UNCHANGED vars /\ UNCHANGED <<script, image, target, expected>>
      /\ phase \in {"ready", "data"} /\ wire = <<>>
  BY Zenon DEF SendLine, SendData
<1>2. /\ UNCHANGED <<handler, download_bytes, buffer, fastboot_bytes, download_size>>
      /\ UNCHANGED <<mmcdev, devinfo, store>>
  BY <1>1, Zenon DEF vars, rxVars, envVars, tabVars, mmcVars
<1>3. wire' # <<>>
  <2>1. \A x : <<x>> # <<>>
    BY Zenon
  <2> QED
    BY <2>1, Zenon DEF SendLine, SendData
<1>4. ~Ran /\ ~Ran'
  BY <1>1, <1>3, Zenon DEF Ran
<1>5. (SameDevice <=> SameDevice') /\ (SameImage <=> SameImage')
  BY <1>1, <1>2, Zenon DEF SameDevice, SameImage, Prefix
<1>6. ScriptInv'
  BY <1>1, <1>5, Zenon DEF Running, ScriptInv
<1>7. MediaInv'
  BY <1>1, <1>2, <1>4, Zenon DEF Running, MediaInv
<1>8. ImageInv'
  <2>1. CASE SendLine
    BY <2>1, Zenon DEF SendLine, ImageInv
  <2>2. CASE SendData
    <3> DEFINE img == Head(script).img
               n == IF length < Len(img) - sent THEN length ELSE Len(img) - sent
               data == SubSeq(img, sent + 1, sent + n)
    <3>1. /\ phase = "data" /\ wire' = <<[kind |-> "data", data |-> data]>>
          /\ sent' = sent + n /\ (phase' = "finish" => sent + n = Len(img))
      BY <2>2, Zenon DEF SendData
    <3>2. handler = "rx_handler_dl_image" /\ download_bytes = sent
      BY <1>1, <1>3, <3>1, Zenon DEF Running, InStep, Arriving
    <3>3. \A k \in 1 .. download_bytes : buffer[k - 1] = img[k]
      BY <3>1, Zenon DEF Running, ImageInv
    <3>4. Head(script').img = img /\ handler' # "rx_handler_command"
      BY <1>1, <1>2, <3>2, Zenon
    <3> HIDE DEF img, n
    <3>5. Head(wire').data = SubSeq(img, download_bytes + 1, sent')
      BY <3>1, <3>2
    <3> HIDE DEF data
    <3> QED
      BY <1>2, <3>1, <3>3, <3>4, <3>5, Zenon DEF ImageInv
  <2> QED
    BY <2>1, <2>2, Zenon
<1>9. KeepsDevice => KeepsDevice'
  BY <1>4, <1>5, Zenon DEF KeepsDevice
<1>10. KeepsImage => KeepsImage'
  BY <1>1, <1>2, <1>5, Zenon DEF KeepsImage
<1> QED
  BY <1>6, <1>7, <1>8, <1>9, <1>10, Zenon

(* A line that was answered OKAY has had its effect, and the rest of the    *)
(* script finds what it relies on.                                          *)
LEMMA LineIsDone ==
  ASSUME IInv, HostInv, Running, script # <<>>, LineDone, wire = <<>>,
         handler = "rx_handler_command", Answered("OKAY"),
         UNCHANGED <<rxVars, envVars, tabVars, mmcVars>>,
         phase = "finish" \/ (phase = "wait" /\ Head(script).op # "download")
  PROVE  /\ script' # <<>> => ScriptInv' /\ MediaInv' /\ ImageInv'
         /\ script' = <<>> => EndInv'
         /\ KeepsDevice => KeepsDevice'
         /\ KeepsImage => KeepsImage'
<1> DEFINE line == Head(script)
<1>1. /\ script' = Tail(script) /\ phase' = "ready" /\ wire' = <<>>
      /\ image' = IF line.op = "download" THEN line.img ELSE image
      /\ target' = IF SetsDevice(line) THEN line.u.d ELSE target
      /\ expected' = Effect(line, image)
  BY Zenon DEF LineDone, SetsDevice
<1>2. /\ UNCHANGED <<handler, download_bytes, buffer, fastboot_bytes>>
      /\ UNCHANGED <<mmcdev, devinfo, store>>
  BY Zenon DEF rxVars, envVars, tabVars, mmcVars
<1>3. line \in Line /\ script \in Seq(Line) /\ (phase = "finish" => line.op = "download")
  BY DEF HostInv
<1>4. /\ store = Effect(line, image)
      /\ SetsDevice(line) => mmcdev = line.u.d
      /\ ~SetsDevice(line) => (KeepsDevice => SameDevice)
  <2>1. CASE phase = "finish"
    <3>1. ~WritesImage(line) /\ ~SetsDevice(line) /\ ~Ran
      BY <1>3, <2>1, Zenon DEF WritesImage, SetsDevice, Ran
    <3>2. store = expected
      BY <3>1, Zenon DEF Running, MediaInv
    <3> QED
      BY <1>3, <3>1, <3>2, EffectOf, Zenon DEF KeepsDevice
  <2>2. CASE phase = "wait"
    BY <2>2, Zenon DEF Running, MediaInv, Ran, KeepsDevice
  <2> QED
    BY <2>1, <2>2, Zenon
<1>5. line.op = "download" => SameImage'
  <2> SUFFICES ASSUME line.op = "download" PROVE SameImage'
    BY Zenon
  <2>1. phase = "finish" /\ line.img \in Seq(Byte)
    BY <1>3, LineFields, Zenon
  <2>2. /\ download_bytes = Len(line.img) /\ fastboot_bytes = Len(line.img)
        /\ \A k \in 1 .. Len(line.img) : buffer[k - 1] = line.img[k]
    BY <2>1, Zenon DEF Running, ImageInv
  <2>3. Prefix(fastboot_bytes) = line.img
    BY <2>1, <2>2, WholeImage, Zenon
  <2> QED
    BY <1>1, <1>2, <2>2, <2>3, Zenon DEF SameImage, Prefix
<1>6. line.op # "download" /\ SameImage => SameImage'
  BY <1>1, <1>2, Zenon DEF SameImage, Prefix
<1>7. SetsDevice(line) \/ SameDevice => SameDevice'
  BY <1>1, <1>2, <1>4, Zenon DEF SameDevice
<1>8. ~Ran' /\ store' = expected'
  BY <1>1, <1>2, <1>4, Zenon DEF Ran
<1> HIDE DEF line
<1>9. ScriptInv'
  <2>1. SameDevice' \/ NamesDevice(Tail(script))
    BY <1>3, <1>7, RestOfScript, Zenon DEF Running, ScriptInv, line
  <2>2. SameImage' \/ CarriesImage(Tail(script))
    BY <1>3, <1>5, <1>6, RestOfScript, Zenon DEF Running, ScriptInv, line
  <2> QED
    BY <1>1, <1>8, <2>1, <2>2, Zenon DEF ScriptInv
<1>10. MediaInv' /\ ImageInv'
  <2>1. store \in [Dev -> [Area -> Content]]
    BY Zenon DEF IInv, DevInv
  <2> QED
    BY <1>1, <1>2, <1>8, <2>1, Zenon DEF MediaInv, ImageInv
<1>11. EndInv'
  BY <1>1, <1>8, Zenon DEF EndInv, Agrees
<1>12. KeepsDevice => KeepsDevice'
  BY <1>4, <1>7, Zenon DEF KeepsDevice
<1>13. KeepsImage => KeepsImage'
  <2>1. phase = "finish" => line.op = "download"
    BY <1>3, Zenon
  <2> QED
    BY <1>5, <1>6, <2>1, Zenon DEF KeepsImage
<1> QED
  BY <1>9, <1>10, <1>11, <1>12, <1>13, Zenon

(* uuu reads an answer.                                                     *)
LEMMA AnswerIsRead ==
  ASSUME IInv, HostInv, EnvInv, Running, ReadAnswer
  PROVE  /\ script' # <<>> => ScriptInv' /\ MediaInv' /\ ImageInv'
         /\ script' = <<>> => EndInv'
         /\ KeepsDevice => KeepsDevice'
         /\ KeepsImage => KeepsImage'
<1>1. phase \in {"wait", "finish"} /\ tx # <<>> /\ TxComplete /\ in_complete = "fastboot_complete"
  BY AnswerRead, Zenon DEF EnvInv
<1>2. UNCHANGED <<rxVars, envVars, tabVars, mmcVars>> /\ script # <<>>
  BY <1>1, AnswerOnly, Zenon DEF HostInv
<1>3. /\ UNCHANGED <<handler, download_bytes, buffer, fastboot_bytes>>
      /\ UNCHANGED <<mmcdev, devinfo, store>>
  BY <1>2, Zenon DEF rxVars, envVars, tabVars, mmcVars
<1>4. ASSUME NEW m, Answered(m) PROVE Head(tx).msg = m
  BY <1>1, <1>4, AnswerTaken, Zenon
<1>5. CASE phase = "wait" /\ handler = "rx_handler_command" /\ Answered("OKAY")
  <2>1. wire = <<>> /\ Head(script).op # "download" /\ Head(tx).msg = "OKAY"
    <3>1. ~Answered("FAIL")
      BY <1>4, <1>5, Zenon
    <3> QED
      BY <1>1, <1>4, <1>5, <3>1, Zenon DEF Running, InStep, Resting
  <2>2. LineDone
    BY <2>1, AnswerRead, Zenon
  <2> QED
    BY <1>2, <1>5, <2>1, <2>2, LineIsDone, Zenon
<1>6. CASE phase = "wait" /\ handler = "rx_handler_command" /\ ~Answered("OKAY")
  <2>1. wire = <<>> /\ Answered("FAIL") /\ Head(tx).msg = "FAIL" /\ Ran
    <3>1. wire = <<>> /\ Answered("FAIL")
      BY <1>1, <1>6, Zenon DEF Running, InStep, Resting
    <3> QED
      BY <1>4, <1>6, <3>1, Zenon DEF Ran
  <2>2. GiveUp("failed")
    BY <2>1, AnswerRead, Zenon
  <2>3. /\ script' = <<>> /\ wire' = <<>> /\ phase' = "ready" /\ UNCHANGED <<target, image>>
        /\ expected' = Spoilt(Head(script))
    BY <2>1, <2>2, Zenon DEF GiveUp
  <2>4. Agrees(store, Spoilt(Head(script))) /\ ~SetsDevice(Head(script))
    BY <1>6, <2>1, Zenon DEF Running, MediaInv
  <2>5. EndInv'
    BY <1>3, <2>3, <2>4, Zenon DEF EndInv
  <2>6. KeepsDevice => KeepsDevice'
    BY <1>3, <2>3, <2>4, Zenon DEF KeepsDevice, SameDevice
  <2>7. KeepsImage => KeepsImage'
    BY <1>3, <1>6, <2>3, Zenon DEF KeepsImage, SameImage, Prefix
  <2> QED
    BY <2>3, <2>5, <2>6, <2>7, Zenon
<1>7. CASE phase = "wait" /\ handler # "rx_handler_command"
  <2>1. /\ wire = <<>> /\ handler = "rx_handler_dl_image" /\ Head(tx).msg = "DATA"
        /\ Head(script).op = "download" /\ download_bytes = 0
    <3>1. /\ wire = <<>> /\ handler = "rx_handler_dl_image" /\ Answered("DATA")
          /\ Head(script).op = "download" /\ download_bytes = 0
      BY <1>1, <1>7, Zenon DEF Running, InStep, Resting
    <3> QED
      BY <1>4, <3>1, Zenon
  <2>2. phase' = "data" /\ UNCHANGED <<wire, script, sent, image, target, expected>>
    BY <1>7, <2>1, AnswerRead, Zenon
  <2>3. ~Ran /\ ~Ran'
    BY <1>7, <2>2, Zenon DEF Ran
  <2>4. (SameDevice <=> SameDevice') /\ (SameImage <=> SameImage')
    BY <1>3, <2>2, Zenon DEF SameDevice, SameImage, Prefix
  <2>5. ScriptInv'
    BY <2>2, <2>4, Zenon DEF Running, ScriptInv
  <2>6. MediaInv'
    BY <1>3, <2>2, <2>3, Zenon DEF Running, MediaInv
  <2>7. ImageInv'
    <3>1. \A k \in 1 .. 0 : FALSE
      OBVIOUS
    <3> QED
      BY <1>3, <2>1, <2>2, <3>1, Zenon DEF ImageInv
  <2>8. (KeepsDevice => KeepsDevice') /\ KeepsImage'
    BY <1>3, <2>1, <2>3, <2>4, Zenon DEF KeepsDevice, KeepsImage
  <2> QED
    BY <1>2, <2>2, <2>5, <2>6, <2>7, <2>8, Zenon
<1>8. CASE phase = "finish"
  <2>1. wire = <<>> /\ handler = "rx_handler_command" /\ Answered("OKAY")
    BY <1>1, <1>8, Zenon DEF Running, InStep, Arriving
  <2>2. LineDone
    BY <1>4, <1>8, <2>1, AnswerRead, Zenon
  <2> QED
    BY <1>2, <1>8, <2>1, <2>2, LineIsDone, Zenon
<1> QED
  BY <1>1, <1>5, <1>6, <1>7, <1>8, Zenon

(* uuu is stopped in the middle of a script.                                *)
LEMMA StoppedMidway ==
  ASSUME IInv, HostInv, EnvInv, Running, Stop
  PROVE  EndInv'
<1> DEFINE line == Head(script)
<1>1. /\ script # <<>> /\ UNCHANGED wire /\ expected' = Spoilt(line)
      /\ UNCHANGED <<devinfo, store>>
  BY Zenon DEF Stop, GiveUp, vars, tabVars, mmcVars
<1>2. line \in Line /\ script \in Seq(Line)
  BY <1>1 DEF HostInv
<1>3. Agrees(store, Spoilt(line))
  BY <1>2, SpoiltAgrees, Zenon DEF Running, MediaInv
<1>4. ASSUME wire # <<>>, Head(wire).kind = "line" PROVE Head(wire).line = line
  <2>1. \A data : Head(<<[kind |-> "data", data |-> data]>>).kind # "line"
    OBVIOUS
  <2>2. wire = <<[kind |-> "line", line |-> line]>>
    BY <1>4, <2>1, Zenon DEF Running, InStep, HostInv
  <2> QED
    BY <2>2
<1>5. ASSUME line.op = "flash", devinfo # NoDev
      PROVE  \A a \in Covered(devinfo, line.p) \cup {line.p} : Spoilt(line)[devinfo][a] = Unknown
  <2>1. SameDevice
    BY <1>1, <1>2, <1>5, FirstLine, Zenon DEF Running, ScriptInv
  <2>2. devinfo = target
    BY <1>5, <2>1, Zenon DEF EnvInv, SameDevice
  <2>3. ASSUME NEW a \in Covered(devinfo, line.p) \cup {line.p}
        PROVE  Spoilt(line)[devinfo][a] = Unknown
    <3>1. a \in Area /\ devinfo \in Dev
      <4>1. line.p \in Area
        BY <1>2, <1>5, LineFields, Zenon DEF Area
      <4> QED
        BY <1>5, <4>1, CoveredAreas, Zenon DEF IInv, DevInv
    <3> QED
      BY <1>2, <1>5, <2>2, <3>1, SpoiltAreas, Zenon DEF Hits
  <2> QED
    BY <2>3, Zenon
<1>6. ASSUME line.op = "ucmd", line.u.c = "ext4write"
      PROVE  Spoilt(line)[line.u.d][line.u.f] = Unknown
  <2>1. line.u.d \in Dev /\ line.u.f \in Area
    BY <1>2, <1>6, LineFields, UbootCmdFields, Zenon DEF Area
  <2>2. Hits(line, line.u.d, line.u.f)
    BY <1>6, Zenon DEF Hits
  <2> QED
    BY <1>2, <2>1, <2>2, SpoiltAreas, Zenon
<1> HIDE DEF line
<1>7. ASSUME wire # <<>>, Head(wire).kind = "line" PROVE Expendable(Head(wire).line)'
  BY <1>1, <1>4, <1>5, <1>6, <1>7, Zenon DEF Expendable
<1> QED
  BY <1>1, <1>3, <1>7, Zenon DEF EndInv

(* A script is started.                                                     *)
LEMMA Started ==
  ASSUME InOrder(Scripts, Whole), IInv, HostInv, EnvInv, LastingInv, kills \/ InStep,
         NEW s \in Scripts, Start(s)
  PROVE  /\ EnvInv' /\ LastingInv'
         /\ quiet' => ScriptInv' /\ MediaInv' /\ ImageInv' /\ InStep' /\ EndInv'
<1>1. /\ script = <<>> /\ script' = s /\ phase' = "ready" /\ (kills => s \in Whole)
      /\ quiet' = (handler = "rx_handler_command" /\ tx = <<>> /\ wire = <<>>)
      /\ expected' = store /\ UNCHANGED <<wire, image, target, kills>>
  BY Zenon DEF Start
<1>2. /\ UNCHANGED <<download_bytes, buffer, fastboot_bytes>>
      /\ UNCHANGED <<fastboot_dev, mmcdev, devinfo, store>>
      /\ in_complete' = "fastboot_complete"
      /\ handler = "rx_handler_command" => handler' = "rx_handler_command"
      /\ tx = <<>> => tx' = <<>>
  <2>1. CASE UNCHANGED vars
    BY <2>1, Zenon DEF vars, rxVars, txVars, envVars, tabVars, mmcVars, EnvInv
  <2>2. CASE fastboot_set_alt
    BY <2>2, Zenon DEF fastboot_set_alt, envVars, tabVars, mmcVars
  <2> QED
    BY <2>1, <2>2, Zenon DEF Start
<1>3. EnvInv'
  BY <1>2, Zenon DEF EnvInv
<1>4. (SameDevice <=> SameDevice') /\ (SameImage <=> SameImage')
  BY <1>1, <1>2, Zenon DEF SameDevice, SameImage, Prefix
<1>5. ~kills => quiet' /\ SameDevice /\ SameImage
  <2> SUFFICES ASSUME ~kills PROVE quiet' /\ SameDevice /\ SameImage
    BY Zenon
  <2>1. phase = "ready"
    BY <1>1, Zenon DEF HostInv
  <2>2. handler = "rx_handler_command" /\ tx = <<>> /\ wire = <<>>
    BY <2>1, Zenon DEF InStep, Resting
  <2> QED
    BY <1>1, <2>1, <2>2, Zenon DEF LastingInv, KeepsDevice, KeepsImage, Ran
<1>6. LastingInv'
  BY <1>1, <1>4, <1>5, Zenon DEF LastingInv, KeepsDevice, KeepsImage
<1>7. ScriptInv'
  <2>1. SameDevice' \/ NamesDevice(s)
    BY <1>1, <1>4, <1>5, Zenon DEF InOrder
  <2>2. SameImage' \/ CarriesImage(s)
    BY <1>1, <1>4, <1>5, Zenon DEF InOrder
  <2> QED
    BY <1>1, <2>1, <2>2, Zenon DEF ScriptInv
<1>8. MediaInv' /\ ImageInv'
  <2>1. ~Ran' /\ store \in [Dev -> [Area -> Content]]
    BY <1>1, Zenon DEF Ran, IInv, DevInv
  <2> QED
    BY <1>1, <1>2, <2>1, Zenon DEF MediaInv, ImageInv
<1>9. quiet' => InStep'
  BY <1>1, <1>2, Zenon DEF InStep, Resting
<1>10. quiet' => EndInv'
  BY <1>1, <1>2, Zenon DEF EndInv, Agrees
<1> QED
  BY <1>3, <1>6, <1>7, <1>8, <1>9, <1>10, Zenon

(* What arrives when the script has been given up changes nothing of what   *)
(* uuu reports.                                                             *)
LEMMA ReceivedLate ==
  ASSUME IInv, HostInv, EnvInv, PlainLines, EndInv, Receive
  PROVE  EndInv'
<1>1. wire # <<>> /\ wire' = <<>> /\ UNCHANGED expected
  BY Zenon DEF Receive
<1>2. UNCHANGED store => EndInv'
  BY <1>1, Zenon DEF EndInv
<1>3. ASSUME NEW x \in Dev, NEW p, NEW data, store' = Written(x, p, data),
             \A a \in Covered(x, p) \cup {p} : expected[x][a] = Unknown
      PROVE  EndInv'
  <2>1. store \in [Dev -> [Area -> Content]]
    BY Zenon DEF IInv, DevInv
  <2>2. ASSUME NEW d \in Dev, NEW a \in Area, expected[d][a] # Unknown
        PROVE  store'[d][a] = expected[d][a]
    <3>1. ~(d = x /\ a \in Covered(x, p) \cup {p})
      BY <1>3, <2>2, Zenon
    <3>2. Written(x, p, data)[d][a] = store[d][a]
      BY <2>1, <3>1, WrittenAreas
    <3> QED
      BY <1>3, <2>2, <3>2, Zenon DEF EndInv, Agrees
  <2> QED
    BY <1>1, <2>2, Zenon DEF EndInv, Agrees
<1>4. CASE handler = "rx_handler_dl_image"
  <2>1. UNCHANGED store
    BY <1>4, Zenon DEF Receive, rx_handler_dl_image, mmcVars
  <2> QED
    BY <1>2, <2>1, Zenon
<1>5. CASE handler # "rx_handler_dl_image" /\ Head(wire).kind # "line"
  <2>1. UNCHANGED store
    BY <1>5, Zenon DEF Receive, UnknownCommand, Answer, mmcVars
  <2> QED
    BY <1>2, <2>1, Zenon
<1>6. CASE handler # "rx_handler_dl_image" /\ Head(wire).kind = "line"
  <2> DEFINE line == Head(wire).line
  <2>1. Dispatch(line) /\ Expendable(line) /\ line.op # "acmd"
    BY <1>1, <1>6, Zenon DEF Receive, EndInv, PlainLines
  <2>2. line \in Line
    <3>1. PICK q \in Parcel : wire = <<q>>
      BY <1>1, Zenon DEF HostInv
    <3>2. Head(wire) = q
      BY <3>1
    <3> QED
      BY <1>6, <3>2, ParcelFields, Zenon
  <2> HIDE DEF line
  <2>3. CASE line.op = "download"
    <3>1. UNCHANGED store
      BY <2>1, <2>3, Zenon DEF Dispatch, cb_download, mmcVars
    <3> QED
      BY <1>2, <3>1, Zenon
  <2>4. CASE line.op = "flash"
    <3>1. line.p \in Part
      BY <2>2, <2>4, LineFields, Zenon
    <3>2. PICK ok \in BOOLEAN : cb_flash(line.p, ok)
      BY <2>1, <2>4, Zenon DEF Dispatch
    <3>3. NoDev \notin Dev
      BY DEF NoDev, Dev, SD, Emmc
    <3>4. \/ store' = store
          \/ devinfo \in Dev /\ store' = Written(devinfo, line.p, Torn)
          \/ devinfo \in Dev /\ store' = Written(devinfo, line.p, Prefix(download_bytes))
      BY <3>1, <3>2, FlashEffect, Zenon
    <3>5. devinfo \in Dev =>
            \A a \in Covered(devinfo, line.p) \cup {line.p} : expected[devinfo][a] = Unknown
      BY <2>1, <2>4, <3>3, Zenon DEF Expendable
    <3> QED
      BY <1>2, <1>3, <3>4, <3>5, Zenon
  <2>5. CASE line.op = "ucmd"
    <3>1. line.u \in UbootCmd
      BY <2>2, <2>5, LineFields, Zenon
    <3>2. store' = IF line.u.c = "ext4write" /\ CmdSucceeds(line.u)
                     THEN Written(line.u.d, line.u.f, Prefix(fastboot_bytes)) ELSE store
      BY <2>1, <2>5, <3>1, CmdEffect, Zenon DEF Dispatch
    <3>3. CASE line.u.c = "ext4write" /\ CmdSucceeds(line.u)
      <4>1. line.u.d \in Dev /\ line.u.f \in File
        BY <3>1, <3>3, UbootCmdFields, Zenon
      <4>2. Covered(line.u.d, line.u.f) = {line.u.f}
        BY <4>1, SizeAssumption DEF Covered, Part
      <4>3. expected[line.u.d][line.u.f] = Unknown
        BY <2>1, <2>5, <3>3, Zenon DEF Expendable
      <4> QED
        BY <1>3, <3>2, <3>3, <4>1, <4>2, <4>3, Zenon
    <3>4. CASE ~(line.u.c = "ext4write" /\ CmdSucceeds(line.u))
      BY <1>2, <3>2, <3>4, Zenon
    <3> QED
      BY <3>3, <3>4, Zenon
  <2> QED
    BY <2>1, <2>2, <2>3, <2>4, <2>5, LineFields, Zenon
<1> QED
  BY <1>4, <1>5, <1>6, Zenon

-----------------------------------------------------------------------------
(* No step stores an ACmd, or takes the device that is flashed away from    *)
(* the environment.                                                         *)
LEMMA EnvKept ==
  ASSUME InOrder(Scripts, Whole), IInv, HostInv, EnvInv, PlainLines, [SessionNext]_allVars
  PROVE  EnvInv' /\ PlainLines'
<1>1. ASSUME UNCHANGED <<in_complete, envVars, tabVars>> PROVE EnvInv'
  BY <1>1, Zenon DEF EnvInv, envVars, tabVars
<1>2. ASSUME UNCHANGED vars PROVE EnvInv'
  BY <1>1, <1>2, Zenon DEF vars, txVars
<1>3. ASSUME UNCHANGED <<script, wire>> PROVE PlainLines'
  BY <1>3, Zenon DEF PlainLines
<1>4. ASSUME NEW why, GiveUp(why) PROVE PlainLines'
  <2>1. DOMAIN <<>> = {}
    OBVIOUS
  <2> QED
    BY <1>4, <2>1, Zenon DEF GiveUp, PlainLines
<1>5. ASSUME NEW s \in Scripts, Start(s) PROVE EnvInv' /\ PlainLines'
  <2>1. UNCHANGED vars \/ fastboot_set_alt
    BY <1>5, Zenon DEF Start
  <2>2. fastboot_set_alt => UNCHANGED <<in_complete, envVars, tabVars>>
    BY Zenon DEF fastboot_set_alt, EnvInv
  <2>3. EnvInv'
    BY <1>1, <1>2, <2>1, <2>2, Zenon
  <2>4. script' = s /\ UNCHANGED wire
    BY <1>5, Zenon DEF Start
  <2> QED
    BY <2>3, <2>4, Zenon DEF PlainLines, InOrder
<1>6. CASE SendLine
  <2>1. /\ UNCHANGED vars /\ UNCHANGED script /\ script # <<>>
        /\ wire' = <<[kind |-> "line", line |-> Head(script)]>>
    BY <1>6, Zenon DEF SendLine
  <2>2. Head(script) = script[1] /\ 1 \in DOMAIN script
    BY <2>1 DEF HostInv
  <2>3. Head(wire').line = Head(script)
    BY <2>1
  <2> QED
    BY <1>2, <2>1, <2>2, <2>3, Zenon DEF PlainLines
<1>7. CASE SendData
  <2>1. \A data : Head(<<[kind |-> "data", data |-> data]>>).kind # "line"
    OBVIOUS
  <2> QED
    BY <1>2, <1>7, <2>1, Zenon DEF SendData, PlainLines
<1>8. CASE ReadAnswer
  <2>1. TxComplete /\ in_complete = "fastboot_complete" /\ script # <<>>
    BY <1>8, AnswerRead, Zenon DEF EnvInv, HostInv
  <2>2. EnvInv'
    BY <1>1, <2>1, AnswerOnly, Zenon
  <2>3. CASE LineDone
    <3>1. script' = Tail(script) /\ UNCHANGED wire
      BY <2>3, Zenon DEF LineDone
    <3>2. \A i \in DOMAIN Tail(script) : i + 1 \in DOMAIN script /\ Tail(script)[i] = script[i + 1]
      BY <2>1 DEF HostInv
    <3> QED
      BY <2>2, <3>1, <3>2, Zenon DEF PlainLines
  <2> QED
    BY <1>3, <1>4, <1>8, <2>2, <2>3, AnswerRead, Zenon
<1>9. CASE Receive
  <2>1. wire # <<>> /\ wire' = <<>> /\ UNCHANGED script
    BY <1>9, Zenon DEF Receive
  <2>2. PlainLines'
    BY <2>1, Zenon DEF PlainLines
  <2>3. CASE handler = "rx_handler_dl_image"
    <3>1. UNCHANGED <<in_complete, envVars, tabVars>>
      BY <1>9, <2>3, Zenon DEF Receive, rx_handler_dl_image
    <3> QED
      BY <1>1, <2>2, <3>1, Zenon
  <2>4. CASE handler # "rx_handler_dl_image" /\ Head(wire).kind # "line"
    <3>1. UNCHANGED <<in_complete, envVars, tabVars>>
      BY <1>9, <2>4, Zenon DEF Receive, UnknownCommand, Answer
    <3> QED
      BY <1>1, <2>2, <3>1, Zenon
  <2>5. CASE handler # "rx_handler_dl_image" /\ Head(wire).kind = "line"
    <3> DEFINE line == Head(wire).line
    <3>1. Dispatch(line) /\ line.op # "acmd"
      BY <1>9, <2>1, <2>5, Zenon DEF Receive, PlainLines
    <3>2. PICK q \in Parcel : wire = <<q>>
      BY <2>1, Zenon DEF HostInv
    <3>3. Head(wire) = q
      BY <3>2
    <3>4. line \in Line
      BY <2>5, <3>3, ParcelFields, Zenon
    <3> HIDE DEF line
    <3>5. CASE line.op = "download"
      <4>1. UNCHANGED <<in_complete, envVars, tabVars>>
        BY <3>1, <3>5, Zenon DEF Dispatch, cb_download
      <4> QED
        BY <1>1, <2>2, <4>1, Zenon
    <3>6. CASE line.op = "flash"
      <4>1. UNCHANGED <<in_complete, envVars, tabVars>>
        BY <3>1, <3>6, Zenon DEF Dispatch, cb_flash
      <4> QED
        BY <1>1, <2>2, <4>1, Zenon
    <3>7. CASE line.op = "ucmd"
      <4>1. cb_run_uboot_cmd(line.u) /\ line.u \in UbootCmd
        BY <3>1, <3>4, <3>7, LineFields, Zenon DEF Dispatch
      <4> QED
        BY <2>2, <4>1, CmdEffect, Zenon
    <3> QED
      BY <3>1, <3>4, <3>5, <3>6, <3>7, LineFields, Zenon
  <2> QED
    BY <2>3, <2>4, <2>5, Zenon
<1>10. CASE Stop \/ TimeOut
  BY <1>2, <1>4, <1>10, Zenon DEF Stop, TimeOut
<1>11. CASE SessionInsertCard
  BY <1>1, <1>3, <1>11, Zenon DEF SessionInsertCard, InsertCard, txVars, hostVars
<1>12. CASE UNCHANGED allVars
  BY <1>2, <1>3, <1>12, Zenon DEF allVars, hostVars
<1> QED
  BY <1>5, <1>6, <1>7, <1>8, <1>9, <1>10, <1>11, <1>12, Zenon DEF SessionNext

(* Every step keeps what uuu's reports rest on.                             *)
LEMMA ReportStep ==
  ASSUME InOrder(Scripts, Whole), SessionInv, ReportInv, [SessionNext]_allVars
  PROVE  ReportInv'
<1>1. /\ IInv /\ HostInv /\ (kills \/ InStep) /\ EnvInv /\ PlainLines /\ LastingInv
      /\ (quiet /\ script # <<>> => Running) /\ (quiet /\ script = <<>> => EndInv)
  BY Zenon DEF SessionInv, ReportInv
<1>2. EnvInv' /\ PlainLines' /\ UNCHANGED kills
  BY <1>1, EnvKept, KillsKept, Zenon
<1>3. quiet /\ script # <<>> /\ ~Stop => InStep'
  BY <1>1, InStepStep, Zenon DEF Running
<1>4. ASSUME NEW s \in Scripts, Start(s) PROVE ReportInv'
  BY <1>1, <1>2, <1>4, Started, Zenon DEF ReportInv, Running
<1>5. ASSUME UNCHANGED quiet, ~quiet PROVE ReportInv'
  BY <1>1, <1>2, <1>5, Zenon DEF ReportInv, LastingInv
<1>6. ASSUME UNCHANGED quiet, quiet,
             script' # <<>> => InStep' /\ ScriptInv' /\ MediaInv' /\ ImageInv',
             script' = <<>> => EndInv',
             kills \/ ((KeepsDevice => KeepsDevice') /\ (KeepsImage => KeepsImage'))
      PROVE  ReportInv'
  BY <1>1, <1>2, <1>6, Zenon DEF ReportInv, LastingInv, Running
<1>7. CASE quiet /\ (SendLine \/ SendData)
  <2>1. script # <<>> /\ UNCHANGED <<quiet, script>>
    BY <1>1, <1>7, Zenon DEF SendLine, SendData, HostInv
  <2>2. ~Stop
    BY <1>7, <2>1, Zenon DEF Stop, GiveUp
  <2> QED
    BY <1>1, <1>3, <1>6, <1>7, <2>1, <2>2, SentOn, Zenon
<1>8. CASE quiet /\ ReadAnswer
  <2>1. script # <<>> /\ tx # <<>> /\ TxComplete /\ in_complete = "fastboot_complete"
    BY <1>1, <1>8, AnswerRead, Zenon DEF HostInv, EnvInv
  <2>2. tx' = Tail(tx)
    BY <2>1, AnswerOnly, Zenon
  <2>3. tx \in Seq(Response)
    BY <1>1, Zenon DEF IInv, TxInv
  <2>4. Tail(tx) # tx
    BY <2>1, <2>3
  <2>5. ~Stop
    BY <2>2, <2>4, Zenon DEF Stop, vars, txVars
  <2>6. UNCHANGED quiet
    BY <1>8, AnswerRead, Zenon DEF LineDone, GiveUp
  <2> QED
    BY <1>1, <1>3, <1>6, <1>8, <2>1, <2>5, <2>6, AnswerIsRead, Zenon
<1>9. CASE quiet /\ Receive /\ script # <<>>
  <2>1. UNCHANGED <<quiet, script>> /\ wire # <<>> /\ ~Stop
    BY <1>9, Zenon DEF Receive, Stop, GiveUp
  <2>2. phase \in {"wait", "data", "finish"}
    BY <1>1, <1>9, <2>1, Zenon DEF HostInv, Running, InStep
  <2>3. CASE phase = "wait"
    BY <1>1, <1>3, <1>6, <1>9, <2>1, <2>3, LineRuns, Zenon
  <2>4. CASE phase \in {"data", "finish"}
    BY <1>1, <1>3, <1>6, <1>9, <2>1, <2>4, PartArrives, Zenon
  <2> QED
    BY <2>2, <2>3, <2>4, Zenon
<1>10. CASE quiet /\ Receive /\ script = <<>>
  <2>1. UNCHANGED <<quiet, script>> /\ wire # <<>>
    BY <1>10, Zenon DEF Receive
  <2>2. kills
    BY <1>1, <1>10, <2>1, Zenon DEF HostInv, InStep
  <2>3. EndInv'
    BY <1>1, <1>10, ReceivedLate, Zenon
  <2> QED
    BY <1>6, <1>10, <2>1, <2>2, <2>3, Zenon
<1>11. CASE quiet /\ Stop
  <2>1. kills /\ script # <<>> /\ script' = <<>> /\ UNCHANGED quiet
    BY <1>11, Zenon DEF Stop, GiveUp
  <2>2. EndInv'
    BY <1>1, <1>11, <2>1, StoppedMidway, Zenon
  <2> QED
    BY <1>6, <1>11, <2>1, <2>2, Zenon
<1>12. quiet => ~TimeOut
  <2> SUFFICES ASSUME quiet, TimeOut PROVE FALSE
    BY Zenon
  <2>1. script # <<>> /\ phase \in {"wait", "finish"} /\ wire = <<>> /\ tx = <<>>
    BY <1>1, Zenon DEF TimeOut, HostInv
  <2> QED
    BY <1>1, <2>1, StillOwed, Zenon DEF Running
<1>13. CASE quiet /\ (SessionInsertCard \/ UNCHANGED allVars)
  <2>1. /\ UNCHANGED hostVars /\ UNCHANGED <<rxVars, txVars, envVars, tabVars, mmcVars>>
    BY <1>13, Zenon DEF SessionInsertCard, InsertCard, allVars, vars
  <2>2. /\ UNCHANGED <<wire, script, phase, sent, image, target, expected, quiet>>
        /\ UNCHANGED <<handler, download_bytes, buffer, fastboot_bytes, tx>>
        /\ UNCHANGED <<mmcdev, devinfo, store>>
    BY <2>1, Zenon DEF hostVars, rxVars, txVars, envVars, tabVars, mmcVars
  <2>3. (SameDevice <=> SameDevice') /\ (SameImage <=> SameImage')
    BY <2>2, Zenon DEF SameDevice, SameImage, Prefix
  <2>4. /\ Spoilt(Head(script))' = Spoilt(Head(script)) /\ Ran' = Ran
        /\ Effect(Head(script), image)' = Effect(Head(script), image)
    BY <2>2, SameView, Zenon DEF Ran
  <2>5. ScriptInv => ScriptInv'
    BY <2>2, <2>3, Zenon DEF ScriptInv
  <2>6. MediaInv => MediaInv'
    BY <2>2, <2>3, <2>4, Zenon DEF MediaInv, Answered
  <2>7. ImageInv => ImageInv'
    BY <2>2, Zenon DEF ImageInv
  <2>8. EndInv => EndInv'
    BY <2>2, <2>3, Zenon DEF EndInv, Expendable
  <2>9. (KeepsDevice => KeepsDevice') /\ (KeepsImage => KeepsImage')
    BY <2>2, <2>3, <2>4, Zenon DEF KeepsDevice, KeepsImage
  <2>10. script # <<>> => ~Stop
    BY <2>2, Zenon DEF Stop, GiveUp
  <2> QED
    BY <1>1, <1>3, <1>6, <1>13, <2>2, <2>5, <2>6, <2>7, <2>8, <2>9, <2>10, Zenon DEF Running
<1>14. (\E s \in Scripts : Start(s)) \/ UNCHANGED quiet
  BY AnswerRead, Zenon DEF SessionNext, allVars, hostVars, SendLine, SendData, LineDone, GiveUp,
       Receive, Stop, TimeOut, SessionInsertCard
<1> QED
  BY <1>4, <1>5, <1>7, <1>8, <1>9, <1>10, <1>11, <1>12, <1>13, <1>14, Zenon DEF SessionNext

(* A session starts with media that hold what uuu expects.                  *)
LEMMA ReportInit == SessionInit => ReportInv
<1> SUFFICES ASSUME SessionInit PROVE ReportInv
  BY Zenon
<1>1. /\ Init /\ wire = <<>> /\ script = <<>> /\ phase = "ready" /\ image = <<>>
      /\ target = Emmc /\ expected = store /\ quiet = TRUE
  BY Zenon DEF SessionInit
<1>2. EnvInv /\ mmcdev = Emmc /\ fastboot_bytes = 0 /\ download_bytes = 0
  BY <1>1, Zenon DEF Init, EnvInv
<1>3. DOMAIN <<>> = {} /\ [i \in 1 .. 0 |-> buffer[i - 1]] = <<>>
  OBVIOUS
<1>4. PlainLines
  BY <1>1, <1>3, Zenon DEF PlainLines
<1>5. LastingInv
  BY <1>1, <1>2, <1>3, Zenon DEF LastingInv, KeepsDevice, KeepsImage, SameDevice, SameImage, Prefix
<1>6. EndInv
  BY <1>1, Zenon DEF EndInv, Agrees
<1> QED
  BY <1>1, <1>2, <1>4, <1>5, <1>6, Zenon DEF ReportInv

(* When a script that found the board at rest has ended, the media hold     *)
(* what the answers told uuu, for all scripts whose lines are in order: the *)
(* device is named before anything is flashed, the image is downloaded      *)
(* before it is written, and no command is an acmd.                         *)
THEOREM ReportsTrue == InOrder(Scripts, Whole) => (SessionSpec => []StoreAsReported)
<1> SUFFICES ASSUME InOrder(Scripts, Whole) PROVE SessionSpec => []StoreAsReported
  BY Zenon
<1>1. SessionInv /\ ReportInv /\ [SessionNext]_allVars => SessionInv' /\ ReportInv'
  BY SessionInvStep, ReportStep, Zenon
<1>2. SessionInv /\ ReportInv => StoreAsReported
  BY Zenon DEF ReportInv, EndInv, Agrees, StoreAsReported
<1> QED
  BY <1>1, <1>2, SessionInvInit, ReportInit, PTL DEF SessionSpec
=============================================================================
