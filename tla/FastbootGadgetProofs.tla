------------------------ MODULE FastbootGadgetProofs ------------------------
(***************************************************************************)
(* Proofs about the fastboot function, for every size of the buffers and   *)
(* every host.  The invariant IInv collects what the properties of         *)
(* FastbootGadget need from each other; each handler preserves it.         *)
(***************************************************************************)
EXTENDS FastbootGadget, TLAPS

-----------------------------------------------------------------------------
(* Lemmas on the operators of the model.                                   *)

(* What rx_bytes_expected asks for: whole packets, no more than the         *)
(* request's buffer holds, and all that is left unless that is too much.    *)
LEMMA RxBytesExpected ==
  ASSUME NEW r \in Nat, r > 0
  PROVE  /\ rx_bytes_expected(r) \in 1 .. EpBufferSize
         /\ rx_bytes_expected(r) % MaxPacket = 0
         /\ rx_bytes_expected(r) = EpBufferSize \/ rx_bytes_expected(r) >= r
<1> USE SizeAssumption
<1> DEFINE M == MaxPacket  E == EpBufferSize
<1>1. CASE r > E
  BY <1>1 DEF rx_bytes_expected
<1>2. CASE r <= E /\ r % M = 0
  BY <1>2 DEF rx_bytes_expected
<1>3. CASE r <= E /\ r % M > 0
  <2> DEFINE q == r \div M  k == E \div M
  <2>1. q \in Nat /\ r % M \in 0 .. M - 1 /\ r = M * q + (r % M)
    OBVIOUS
  <2>2. k \in Nat /\ E = M * k
    OBVIOUS
  <2>3. rx_bytes_expected(r) = M * q + M
    BY <1>3, <2>1 DEF rx_bytes_expected
  <2>4. q < k
    BY <1>3, <2>1, <2>2
  <2>5. M * (q + 1) <= M * k
    BY <2>1, <2>2, <2>4
  <2>6. (M * (q + 1)) % M = 0
    BY <2>1
  <2>7. M * q + M = M * (q + 1)
    BY <2>1
  <2> HIDE DEF q, k, M, E
  <2>8. rx_bytes_expected(r) >= r
    BY <2>1, <2>3, SizeAssumption DEF M
  <2> QED
    BY <2>1, <2>2, <2>3, <2>5, <2>6, <2>7, <2>8 DEF M, E
<1> QED
  BY <1>1, <1>2, <1>3

(* At most one entry of a queue is in_req.                                  *)
Once(q) ==
  \A i, j \in DOMAIN q : q[i].req = "in_req" /\ q[j].req = "in_req" => i = j

(* Two queues, one after the other.                                         *)
LEMMA Concatenated ==
  ASSUME NEW S, NEW a \in Seq(S), NEW b \in Seq(S)
  PROVE  /\ a \o b \in Seq(S) /\ Len(a \o b) = Len(a) + Len(b)
         /\ \A i \in 1 .. Len(a) + Len(b) :
              (a \o b)[i] = IF i <= Len(a) THEN a[i] ELSE b[i - Len(a)]
OBVIOUS

(* usb_ep_dequeue leaves no in_req on the queue.                            *)
LEMMA DequeueProperties ==
  ASSUME NEW q \in Seq(Response), Once(q)
  PROVE  /\ Dequeue(q) \in Seq(Response)
         /\ \A i \in DOMAIN Dequeue(q) : Dequeue(q)[i].req # "in_req"
<1>1. CASE ~ \E i \in DOMAIN q : q[i].req = "in_req"
  BY <1>1, Zenon DEF Dequeue
<1>2. CASE \E i \in DOMAIN q : q[i].req = "in_req"
  <2> DEFINE k == CHOOSE i \in DOMAIN q : q[i].req = "in_req"
             a == SubSeq(q, 1, k - 1)
             b == SubSeq(q, k + 1, Len(q))
  <2>1. k \in 1 .. Len(q) /\ q[k].req = "in_req"
    BY <1>2
  <2>2. Dequeue(q) = a \o b
    BY <1>2, Zenon DEF Dequeue
  <2>3. Len(q) \in Nat /\ \A i \in 1 .. Len(q) : q[i] \in Response
    OBVIOUS
  <2> HIDE DEF k
  <2>4. /\ a \in Seq(Response) /\ Len(a) = k - 1
        /\ \A i \in 1 .. k - 1 : a[i] = q[i]
    BY <2>1, <2>3
  <2>5. /\ b \in Seq(Response) /\ Len(b) = Len(q) - k
        /\ \A i \in 1 .. Len(q) - k : b[i] = q[k + i]
    <3>1. \A i \in k + 1 .. Len(q) : q[i] \in Response
      BY <2>1, <2>3
    <3>2. /\ b \in Seq(Response)
          /\ Len(b) = IF k + 1 <= Len(q) THEN Len(q) - (k + 1) + 1 ELSE 0
          /\ \A i \in 1 .. Len(q) - (k + 1) + 1 : b[i] = q[k + 1 + i - 1]
      BY <3>1, <2>1, <2>3
    <3> QED BY <3>2, <2>1, <2>3
  <2> HIDE DEF a, b
  <2>6. /\ a \o b \in Seq(Response)
        /\ Len(a \o b) = Len(q) - 1
        /\ \A i \in 1 .. Len(q) - 1 :
             (a \o b)[i] = IF i <= k - 1 THEN q[i] ELSE q[i + 1]
    <3>1. /\ a \o b \in Seq(Response)
          /\ Len(a \o b) = Len(a) + Len(b)
          /\ \A i \in 1 .. Len(a) + Len(b) :
               (a \o b)[i] = IF i <= Len(a) THEN a[i] ELSE b[i - Len(a)]
      BY <2>4, <2>5, Concatenated, Zenon
    <3> QED BY <3>1, <2>1, <2>3, <2>4, <2>5
  <2>7. \A j \in 1 .. Len(q) : j # k => q[j].req # "in_req"
    BY <2>1 DEF Once
  <2>8. \A i \in 1 .. Len(q) - 1 : (a \o b)[i].req # "in_req"
    BY <2>1, <2>3, <2>6, <2>7
  <2>9. DOMAIN (a \o b) = 1 .. Len(q) - 1
    BY <2>6
  <2> QED BY <2>2, <2>6, <2>8, <2>9, Zenon
<1> QED BY <1>1, <1>2, Zenon

(* fastboot_tx_write and fastboot_tx_write_more keep in_req at most once.   *)
LEMMA TxWriteProperties ==
  ASSUME NEW q \in Seq(Response), Once(q), NEW m \in Message
  PROVE  /\ TxWrite(q, m) \in Seq(Response) /\ Once(TxWrite(q, m))
         /\ TxWriteMore(q, m) \in Seq(Response) /\ Once(TxWriteMore(q, m))
<1>1. /\ [req |-> "in_req", msg |-> m] \in Response
      /\ [req |-> "fifo", msg |-> m] \in Response
  BY Zenon DEF Response
<1>2. TxWrite(q, m) \in Seq(Response) /\ Once(TxWrite(q, m))
  <2> DEFINE d == Dequeue(q)
  <2>1. d \in Seq(Response) /\ \A i \in DOMAIN d : d[i].req # "in_req"
    BY DequeueProperties, Zenon
  <2> HIDE DEF d
  <2> QED BY <1>1, <2>1 DEF TxWrite, Once, d
<1>3. TxWriteMore(q, m) \in Seq(Response) /\ Once(TxWriteMore(q, m))
  BY <1>1 DEF TxWriteMore, Once
<1> QED BY <1>2, <1>3, Zenon

(* Reading the first response.                                              *)
LEMMA TailProperties ==
  ASSUME NEW q \in Seq(Response), Once(q), q # <<>>
  PROVE  Tail(q) \in Seq(Response) /\ Once(Tail(q))
<1>1. /\ Len(q) \in Nat \ {0} /\ Tail(q) \in Seq(Response) /\ Len(Tail(q)) = Len(q) - 1
      /\ \A i \in 1 .. Len(q) - 1 : Tail(q)[i] = q[i + 1]
  OBVIOUS
<1>2. DOMAIN q = 1 .. Len(q) /\ DOMAIN Tail(q) = 1 .. Len(q) - 1
  BY <1>1
<1> HIDE DEF Once
<1>3. ASSUME NEW i \in 1 .. Len(q) - 1, NEW j \in 1 .. Len(q) - 1,
             Tail(q)[i].req = "in_req", Tail(q)[j].req = "in_req"
      PROVE  i = j
  <2>1. i + 1 \in DOMAIN q /\ j + 1 \in DOMAIN q
    BY <1>1, <1>2
  <2>2. q[i + 1].req = "in_req" /\ q[j + 1].req = "in_req"
    BY <1>1, <1>3, Zenon
  <2>3. i + 1 = j + 1
    BY <2>1, <2>2, Zenon DEF Once
  <2> QED
    BY <1>1, <2>3
<1> QED
  BY <1>1, <1>2, <1>3, Zenon DEF Once

(* What the buffer holds is content that a medium can have.                 *)
LEMMA PrefixType ==
  ASSUME buffer \in [0 .. BufSize - 1 -> Byte], NEW n \in 0 .. BufSize
  PROVE  Prefix(n) \in Content
<1> USE SizeAssumption
<1>1. \A i \in 1 .. n : buffer[i - 1] \in Byte
  OBVIOUS
<1>2. Prefix(n) \in [1 .. n -> Byte]
  BY <1>1, Zenon DEF Prefix
<1> QED BY <1>2 DEF Content

(* A write to one device keeps the media well formed and the other device   *)
(* as it was.                                                               *)
LEMMA WrittenType ==
  ASSUME store \in [Dev -> [Area -> Content]],
         NEW d \in Dev, NEW a \in Area, NEW data \in Content
  PROVE  /\ Written(d, a, data) \in [Dev -> [Area -> Content]]
         /\ \A e \in Dev \ {d} : Written(d, a, data)[e] = store[e]
BY Zenon DEF Written, Content

-----------------------------------------------------------------------------
(* The inductive invariant, by the variables that its parts are about.     *)

RxInv ==
  /\ configured \in BOOLEAN
  /\ handler \in {"rx_handler_command", "rx_handler_dl_image"}
  /\ length \in Nat
  /\ download_size \in Nat
  /\ download_bytes \in Nat
  /\ buffer \in [0 .. BufSize - 1 -> Byte]
  /\ fastboot_bytes \in 0 .. BufSize
  /\ DownloadFits /\ RequestFits /\ RequestCovers /\ SizesAgree

InComplete ==
  {"fastboot_complete", "do_acmd_complete", "compl_do_reset",
   "do_bootm_on_complete", "do_exit_on_complete"}

TxInv ==
  /\ tx \in Seq(Response) /\ InReqOnce
  /\ in_complete \in InComplete
  /\ g_a_cmd_buff \in UbootCmd

DevInv ==
  /\ fastboot_dev \in BOOLEAN
  /\ mmcdev \in Dev
  /\ devinfo \in Dev \cup {NoDev}
  /\ ptable \in Dev \cup {NoDev}
  /\ curr_device \in Dev
  /\ card \in SUBSET Dev
  /\ store \in [Dev -> [Area -> Content]]
  /\ TableIsSelected

IInv == RxInv /\ TxInv /\ DevInv

(* The invariant types every variable of the function.                      *)
LEMMA InvImpliesTypeOK == IInv => TypeOK
BY Zenon DEF IInv, RxInv, TxInv, DevInv, InComplete, TypeOK

(* A step that leaves a group of variables alone keeps that part.           *)
LEMMA RxUnchanged == RxInv /\ UNCHANGED rxVars => RxInv'
BY Zenon DEF RxInv, rxVars, DownloadFits, RequestFits, RequestCovers, SizesAgree

(* The same for the responses and the stored ACmd.                          *)
LEMMA TxUnchanged == TxInv /\ UNCHANGED txVars => TxInv'
BY Zenon DEF TxInv, txVars, InReqOnce

(* The same for the environment, the table and the media.                   *)
LEMMA DevUnchanged ==
  DevInv /\ UNCHANGED <<envVars, tabVars, mmcVars, card>> => DevInv'
BY Zenon DEF DevInv, envVars, tabVars, mmcVars, TableIsSelected

(* A step that queues an answer keeps TxInv.                                *)
LEMMA TxAnswered ==
  ASSUME TxInv, NEW m \in Message, tx' = TxWrite(tx, m),
         in_complete' \in InComplete, g_a_cmd_buff' \in UbootCmd
  PROVE  TxInv'
<1>1. Once(tx)
  BY Zenon DEF TxInv, InReqOnce, Once
<1>2. tx' \in Seq(Response) /\ Once(tx')
  BY <1>1, TxWriteProperties, Zenon DEF TxInv
<1> QED BY <1>2, Zenon DEF TxInv, InReqOnce, Once

(* The state in which U-Boot enters "fastboot 0" satisfies the invariant.   *)
LEMMA InvInit == Init => IInv
<1> SUFFICES ASSUME Init PROVE IInv
  BY Zenon
<1> USE SizeAssumption
<1>1. RxInv
  <2>1. Fresh \in [0 .. BufSize - 1 -> Byte]
    BY Zenon DEF Fresh
  <2>2. length \in 1 .. EpBufferSize /\ length % MaxPacket = 0
    BY DEF Init
  <2>3. /\ configured = FALSE /\ handler = "rx_handler_command"
        /\ length = EpBufferSize /\ download_size = 0 /\ download_bytes = 0
        /\ buffer = Fresh /\ fastboot_bytes = 0
    BY Zenon DEF Init
  <2>4. RequestFits
    BY <2>2, <2>3, Zenon DEF RequestFits
  <2>5. DownloadFits /\ RequestCovers /\ SizesAgree
    BY <2>3 DEF DownloadFits, RequestCovers, SizesAgree
  <2>6. configured \in BOOLEAN /\ buffer \in [0 .. BufSize - 1 -> Byte]
    BY <2>1, <2>3, Zenon
  <2>7. /\ handler \in {"rx_handler_command", "rx_handler_dl_image"}
        /\ length \in Nat /\ download_size \in Nat /\ download_bytes \in Nat
        /\ fastboot_bytes \in 0 .. BufSize
    BY <2>3
  <2> QED BY <2>4, <2>5, <2>6, <2>7, Zenon DEF RxInv
<1>2. TxInv
  BY DEF Init, TxInv, InReqOnce, InComplete, UbootCmd
<1>3. DevInv
  <2>1. <<>> \in Content
    BY DEF Content
  <2>2. store \in [Dev -> [Area -> Content]]
    BY <2>1, Zenon DEF Init
  <2> QED BY <2>2, Zenon DEF Init, DevInv, TableIsSelected, Dev, SD, Emmc, NoDev
<1> QED BY <1>1, <1>2, <1>3, Zenon DEF IInv

-----------------------------------------------------------------------------
(* Each handler preserves the invariant.                                   *)

(* cb_download: a size that is refused leaves the request as it was; one    *)
(* that is accepted fits in the buffer.                                     *)
LEMMA DownloadStep ==
  ASSUME IInv, NEW n \in Nat, cb_download(n)
  PROVE  IInv'
<1> USE SizeAssumption
<1>1. TxInv'
  <2>1. TxInv /\ in_complete' \in InComplete /\ g_a_cmd_buff' \in UbootCmd
    BY Zenon DEF IInv, TxInv, cb_download
  <2>2. tx' = TxWrite(tx, "FAIL") \/ tx' = TxWrite(tx, "DATA")
    BY Zenon DEF cb_download
  <2> QED BY <2>1, <2>2, TxAnswered, Zenon DEF Message
<1>2. DevInv'
  BY DevUnchanged, Zenon DEF IInv, cb_download
<1>3. RxInv'
  <2>1. /\ configured' = configured /\ buffer' = buffer
        /\ fastboot_bytes' = fastboot_bytes /\ download_bytes' = 0
        /\ handler = "rx_handler_command"
    BY Zenon DEF cb_download, Listening
  <2>2. CASE n = 0 \/ n > BufSize
    <3>1. /\ download_size' = 0 /\ handler' = handler /\ length' = length
      BY <2>2, Zenon DEF cb_download, Refused
    <3> QED
      BY <2>1, <3>1 DEF IInv, RxInv, DownloadFits, RequestFits,
                        RequestCovers, SizesAgree
  <2>3. CASE n > 0 /\ n <= BufSize
    <3>1. /\ download_size' = n /\ handler' = "rx_handler_dl_image"
          /\ length' = rx_bytes_expected(n)
      BY <2>3 DEF cb_download, Refused
    <3>2. /\ rx_bytes_expected(n) \in 1 .. EpBufferSize
          /\ rx_bytes_expected(n) % MaxPacket = 0
          /\ rx_bytes_expected(n) = EpBufferSize \/ rx_bytes_expected(n) >= n
      BY <2>3, RxBytesExpected, Zenon
    <3> QED
      BY <2>1, <2>3, <3>1, <3>2 DEF IInv, RxInv, DownloadFits, RequestFits,
                                    RequestCovers, SizesAgree
  <2> QED BY <2>2, <2>3
<1> QED BY <1>1, <1>2, <1>3, Zenon DEF IInv

(* rx_handler_dl_image: no more is copied than was announced; the packet    *)
(* that completes the image publishes its size.                             *)
LEMMA ImageStep ==
  ASSUME IInv, NEW data \in Seq(Byte), rx_handler_dl_image(data)
  PROVE  IInv'
<1> USE SizeAssumption
<1> DEFINE total == download_bytes + Taken(data)
<1>1. /\ handler = "rx_handler_dl_image"
      /\ buffer' = [i \in DOMAIN buffer |->
                      IF i \in download_bytes .. total - 1
                        THEN data[i - download_bytes + 1] ELSE buffer[i]]
      /\ download_bytes' = total /\ configured' = configured
  BY Zenon DEF rx_handler_dl_image
<1>2. /\ total >= download_size =>
           /\ download_size' = 0
           /\ handler' = "rx_handler_command" /\ length' = EpBufferSize
           /\ tx' = TxWrite(tx, "OKAY")
           /\ fastboot_bytes' = total
      /\ ~(total >= download_size) =>
           /\ length' = rx_bytes_expected(download_size - total)
           /\ UNCHANGED <<download_size, handler, tx, fastboot_bytes>>
  BY Zenon DEF rx_handler_dl_image, DownloadDone
<1>3. UNCHANGED <<in_complete, g_a_cmd_buff, envVars, tabVars, mmcVars, card>>
  BY Zenon DEF rx_handler_dl_image
<1>4. /\ download_size \in Nat /\ download_bytes \in Nat /\ Len(data) \in Nat
      /\ download_bytes < download_size /\ download_size <= BufSize
  BY <1>1 DEF IInv, RxInv, DownloadFits
<1>5. /\ Taken(data) \in 0 .. Len(data)
      /\ total \in download_bytes .. download_size
      /\ total \in 0 .. BufSize
  BY <1>4 DEF Taken
<1>6. TxInv'
  <2>1. tx' = TxWrite(tx, "OKAY") \/ tx' = tx
    BY <1>2, Zenon
  <2>2. TxInv /\ in_complete' \in InComplete /\ g_a_cmd_buff' \in UbootCmd
    BY <1>3, Zenon DEF IInv, TxInv
  <2>3. CASE tx' = tx
    BY <1>3, <2>2, <2>3, TxUnchanged, Zenon DEF txVars
  <2> QED BY <2>1, <2>2, <2>3, TxAnswered, Zenon DEF Message
<1>7. DevInv'
  BY <1>3, DevUnchanged, Zenon DEF IInv
<1>8. buffer' \in [0 .. BufSize - 1 -> Byte]
  <2>1. buffer \in [0 .. BufSize - 1 -> Byte]
    BY Zenon DEF IInv, RxInv
  <2>2. \A i \in download_bytes .. total - 1 :
          data[i - download_bytes + 1] \in Byte
    BY <1>4, <1>5
  <2> QED BY <1>1, <2>1, <2>2, Zenon
<1>9. RxInv'
  <2> HIDE DEF total
  <2>1. CASE total >= download_size
    <3>1. /\ download_size' = 0 /\ handler' = "rx_handler_command"
          /\ length' = EpBufferSize /\ fastboot_bytes' = total
      BY <1>2, <2>1, Zenon
    <3>2. download_bytes' = total /\ configured' \in BOOLEAN
      BY <1>1, Zenon DEF IInv, RxInv
    <3>3. /\ length' \in Nat /\ download_size' \in Nat
          /\ download_bytes' \in Nat /\ fastboot_bytes' \in 0 .. BufSize
      BY <1>5, <3>1, <3>2
    <3>4. DownloadFits' /\ RequestFits' /\ RequestCovers' /\ SizesAgree'
      BY <1>5, <3>1, <3>2 DEF DownloadFits, RequestFits, RequestCovers,
                              SizesAgree
    <3> QED BY <1>8, <3>1, <3>2, <3>3, <3>4, Zenon DEF RxInv
  <2>2. CASE ~(total >= download_size)
    <3> DEFINE r == download_size - total
    <3>1. /\ length' = rx_bytes_expected(r) /\ download_size' = download_size
          /\ handler' = handler /\ fastboot_bytes' = fastboot_bytes
      BY <1>2, <2>2, Zenon
    <3>2. r \in Nat /\ r > 0
      BY <1>4, <1>5, <2>2
    <3> HIDE DEF r
    <3>3. /\ rx_bytes_expected(r) \in 1 .. EpBufferSize
          /\ rx_bytes_expected(r) % MaxPacket = 0
          /\ rx_bytes_expected(r) = EpBufferSize \/ rx_bytes_expected(r) >= r
      BY <3>2, RxBytesExpected, Zenon
    <3>4. /\ handler' = "rx_handler_dl_image" /\ download_bytes' = total
          /\ configured' \in BOOLEAN /\ fastboot_bytes' \in 0 .. BufSize
      BY <1>1, <3>1, Zenon DEF IInv, RxInv
    <3>5. RequestFits' /\ SizesAgree'
      BY <3>1, <3>3, <3>4, Zenon DEF RequestFits, SizesAgree
    <3>6. DownloadFits' /\ RequestCovers'
      BY <1>4, <1>5, <2>2, <3>1, <3>3, <3>4 DEF r, DownloadFits, RequestCovers
    <3>7. length' \in Nat /\ download_size' \in Nat /\ download_bytes' \in Nat
      BY <1>4, <1>5, <3>1, <3>3, <3>4
    <3> QED BY <1>8, <3>4, <3>5, <3>6, <3>7, Zenon DEF RxInv
  <2> QED BY <2>1, <2>2, Zenon
<1> QED BY <1>6, <1>7, <1>9, Zenon DEF IInv

(* The device and the file that a U-Boot command names.                     *)
LEMMA UbootCmdFields ==
  ASSUME NEW u \in UbootCmd
  PROVE  /\ u.c \in {"setenv mmcdev", "mmc dev", "ext4write"} => u.d \in Dev
         /\ u.c = "ext4write" => u.f \in File
<1>1. CASE u \in [c : {"setenv fastboot_dev", "nop"}]
  BY <1>1, Zenon
<1>2. CASE u \in [c : {"setenv mmcdev", "mmc dev"}, d : Dev]
  BY <1>2, Zenon
<1>3. CASE u \in [c : {"ext4write"}, d : Dev, f : File]
  BY <1>3, Zenon
<1> QED BY <1>1, <1>2, <1>3, Zenon DEF UbootCmd

(* run_command keeps the environment and the media well formed.             *)
LEMMA RunCommandType ==
  ASSUME IInv, NEW u \in UbootCmd, RunCommand(u)
  PROVE  /\ fastboot_dev' \in BOOLEAN
         /\ mmcdev' \in Dev
         /\ curr_device' \in Dev
         /\ store' \in [Dev -> [Area -> Content]]
<1>1. fastboot_dev' \in BOOLEAN
  BY Zenon DEF RunCommand
<1>2. mmcdev' \in Dev /\ curr_device' \in Dev
  <2>1. mmcdev \in Dev /\ curr_device \in Dev
    BY Zenon DEF IInv, DevInv
  <2>2. /\ mmcdev' = IF u.c = "setenv mmcdev" THEN u.d ELSE mmcdev
        /\ curr_device' = IF u.c = "mmc dev" /\ CmdSucceeds(u) THEN u.d
                                                               ELSE curr_device
    BY Zenon DEF RunCommand
  <2> QED BY <2>1, <2>2, UbootCmdFields, Zenon
<1>3. store' \in [Dev -> [Area -> Content]]
  <2>1. store \in [Dev -> [Area -> Content]]
    BY Zenon DEF IInv, DevInv
  <2>2. CASE u.c = "ext4write" /\ CmdSucceeds(u)
    <3>1. u.d \in Dev /\ u.f \in Area
      BY <2>2, UbootCmdFields, Zenon DEF Area
    <3>2. Prefix(fastboot_bytes) \in Content
      BY PrefixType, Zenon DEF IInv, RxInv
    <3>3. store' = Written(u.d, u.f, Prefix(fastboot_bytes))
      BY <2>2, Zenon DEF RunCommand
    <3> QED BY <2>1, <3>1, <3>2, <3>3, WrittenType, Zenon
  <2>3. CASE ~(u.c = "ext4write" /\ CmdSucceeds(u))
    BY <2>1, <2>3, Zenon DEF RunCommand
  <2> QED BY <2>2, <2>3, Zenon
<1> QED BY <1>1, <1>2, <1>3, Zenon

(* cb_run_uboot_cmd: the table is loaded for the device that is selected    *)
(* from now on, or emptied.                                                 *)
LEMMA CmdStep ==
  ASSUME IInv, NEW u \in UbootCmd, cb_run_uboot_cmd(u)
  PROVE  IInv'
<1>1. RxInv'
  BY RxUnchanged, Zenon DEF IInv, cb_run_uboot_cmd
<1>2. TxInv'
  <2>1. TxInv /\ in_complete' \in InComplete /\ g_a_cmd_buff' \in UbootCmd
    BY Zenon DEF IInv, TxInv, cb_run_uboot_cmd
  <2>2. tx' = TxWrite(tx, "FAIL") \/ tx' = TxWrite(tx, "OKAY")
    BY Zenon DEF cb_run_uboot_cmd
  <2> QED BY <2>1, <2>2, TxAnswered, Zenon DEF Message
<1>3. /\ fastboot_dev' \in BOOLEAN /\ mmcdev' \in Dev /\ curr_device' \in Dev
      /\ store' \in [Dev -> [Area -> Content]]
  BY RunCommandType, Zenon DEF cb_run_uboot_cmd
<1>4. card' = card /\ card \in SUBSET Dev
  BY Zenon DEF IInv, DevInv, cb_run_uboot_cmd
<1>5. /\ devinfo' \in Dev \cup {NoDev} /\ ptable' \in Dev \cup {NoDev}
      /\ TableIsSelected'
  <2>1. /\ devinfo \in Dev \cup {NoDev} /\ ptable \in Dev \cup {NoDev}
        /\ TableIsSelected
    BY Zenon DEF IInv, DevInv
  <2>2. \/ UNCHANGED <<devinfo, ptable>>
        \/ /\ devinfo' = mmcdev'
           /\ ptable' = IF mmcdev' = devinfo THEN ptable
                        ELSE IF mmcdev' \in card THEN mmcdev' ELSE NoDev
    BY Zenon DEF cb_run_uboot_cmd, fastboot_setup, LoadPartitions, tabVars
  <2> QED BY <1>3, <1>4, <2>1, <2>2, Zenon DEF TableIsSelected
<1>6. DevInv'
  BY <1>3, <1>4, <1>5, Zenon DEF DevInv
<1> QED BY <1>1, <1>2, <1>6, Zenon DEF IInv

(* A flash that is accepted writes the device that devinfo names: its table *)
(* is loaded, so it has a medium and "mmc dev" on it succeeds.              *)
LEMMA FlashStep ==
  ASSUME IInv, NEW p \in Part, NEW ok \in BOOLEAN, cb_flash(p, ok)
  PROVE  IInv' /\ \A d \in Dev \ {devinfo} : store'[d] = store[d]
<1> DEFINE data == IF ok THEN Prefix(download_bytes) ELSE Torn
<1>1. /\ store \in [Dev -> [Area -> Content]] /\ curr_device \in Dev
      /\ card \in SUBSET Dev /\ TableIsSelected
      /\ ptable \in Dev \cup {NoDev}
  BY Zenon DEF IInv, DevInv
<1>2. data \in Content
  <2>1. download_bytes \in 0 .. BufSize
    BY SizeAssumption DEF IInv, RxInv, DownloadFits
  <2> QED BY <2>1, PrefixType, Zenon DEF IInv, RxInv, Content
<1>3. p \in Area
  BY Zenon DEF Area, Part
<1> HIDE DEF data
<1>4. FlashAccepted(p) => devinfo \in Dev /\ devinfo \in card
  BY <1>1, Zenon DEF FlashAccepted, TableIsSelected
<1>5. /\ \E m \in Message : tx' = TxWrite(tx, m)
      /\ curr_device' \in Dev
      /\ store' \in [Dev -> [Area -> Content]]
      /\ \A d \in Dev \ {devinfo} : store'[d] = store[d]
  <2>1. CASE ~FlashAccepted(p)
    BY <1>1, <2>1, Zenon DEF cb_flash, mmcVars, Message
  <2>2. CASE FlashAccepted(p) /\ IsSparse(p)
    <3>1. FlashSparse(p, ok)
      BY <2>2, Zenon DEF cb_flash
    <3>2. curr_device' = curr_device /\ store' = Written(devinfo, p, data)
      BY <3>1, Zenon DEF FlashSparse, data
    <3>3. \E m \in Message : tx' = TxWrite(tx, m)
      BY <3>1, Zenon DEF FlashSparse, Message
    <3>4. /\ store' \in [Dev -> [Area -> Content]]
          /\ \A d \in Dev \ {devinfo} : store'[d] = store[d]
      BY <1>1, <1>2, <1>3, <1>4, <2>2, <3>2, WrittenType, ZenonT(60)
    <3> QED BY <1>1, <3>2, <3>3, <3>4, Zenon
  <2>3. CASE FlashAccepted(p) /\ ~IsSparse(p)
    <3>1. FlashRaw(p, ok)
      BY <2>3, Zenon DEF cb_flash
    <3>2. curr_device' = devinfo /\ store' = Written(devinfo, p, data)
      BY <1>4, <2>3, <3>1, Zenon DEF FlashRaw, data
    <3>3. \E m \in Message : tx' = TxWrite(tx, m)
      BY <3>1, Zenon DEF FlashRaw, Message
    <3>4. /\ store' \in [Dev -> [Area -> Content]]
          /\ \A d \in Dev \ {devinfo} : store'[d] = store[d]
      <4>1. devinfo \in Dev /\ p \in Area /\ store' = Written(devinfo, p, data)
        BY <1>3, <1>4, <2>3, <3>2, Zenon
      <4>2. store \in [Dev -> [Area -> Content]]
        BY <1>1, Zenon
      <4> QED BY <1>2, <4>1, <4>2, WrittenType, ZenonT(60)
    <3> QED BY <1>4, <2>3, <3>2, <3>3, <3>4, Zenon
  <2> QED BY <2>1, <2>2, <2>3, Zenon
<1>6. UNCHANGED <<rxVars, in_complete, g_a_cmd_buff, envVars, tabVars, card>>
  BY Zenon DEF cb_flash
<1>7. RxInv'
  BY <1>6, RxUnchanged, Zenon DEF IInv
<1>8. TxInv'
  <2>1. TxInv /\ in_complete' \in InComplete /\ g_a_cmd_buff' \in UbootCmd
    BY <1>6, Zenon DEF IInv, TxInv
  <2> QED BY <1>5, <2>1, TxAnswered, Zenon
<1>9. DevInv'
  BY <1>5, <1>6, Zenon DEF IInv, DevInv, TableIsSelected, envVars, tabVars
<1> QED BY <1>5, <1>7, <1>8, <1>9, Zenon DEF IInv

(* An erase touches the device that devinfo names.                          *)
LEMMA EraseStep ==
  ASSUME IInv, NEW p \in Part, NEW o \in EraseOutcome,
         cb_erase(p, o)
  PROVE  IInv' /\ \A d \in Dev \ {devinfo} : store'[d] = store[d]
<1>1. /\ store \in [Dev -> [Area -> Content]]
      /\ devinfo \in Dev \cup {NoDev}
  BY Zenon DEF IInv, DevInv
<1>2. p \in Area /\ Torn \in Content
  BY Zenon DEF Area, Content
<1>3. /\ \/ store' = store
         \/ devinfo # NoDev /\ store' = Written(devinfo, p, Torn)
      /\ \E m \in Message : tx' = TxWrite(tx, m)
  BY Zenon DEF cb_erase, EraseAccepted, Message
<1>4. /\ store' \in [Dev -> [Area -> Content]]
      /\ \A d \in Dev \ {devinfo} : store'[d] = store[d]
  <2>1. CASE store' = store
    BY <1>1, <2>1, Zenon
  <2>2. CASE devinfo # NoDev /\ store' = Written(devinfo, p, Torn)
    BY <1>1, <1>2, <2>2, WrittenType, Zenon
  <2> QED BY <1>3, <2>1, <2>2, Zenon
<1>5. UNCHANGED <<rxVars, in_complete, g_a_cmd_buff, envVars, tabVars,
                  curr_device, card>>
  BY Zenon DEF cb_erase
<1>6. RxInv'
  BY <1>5, RxUnchanged, Zenon DEF IInv
<1>7. TxInv'
  <2>1. TxInv /\ in_complete' \in InComplete /\ g_a_cmd_buff' \in UbootCmd
    BY <1>5, Zenon DEF IInv, TxInv
  <2> QED BY <1>3, <2>1, TxAnswered, Zenon
<1>8. DevInv'
  BY <1>4, <1>5, Zenon DEF IInv, DevInv, TableIsSelected, envVars, tabVars
<1> QED BY <1>4, <1>6, <1>7, <1>8, Zenon DEF IInv

(* The commands that only answer: whatever they queue is well formed.       *)
LEMMA AnswerStep ==
  ASSUME IInv, NEW q \in Seq(Response), Once(q), NEW c \in InComplete,
         Answer(q, c)
  PROVE  IInv'
<1>1. RxInv'
  BY RxUnchanged, Zenon DEF IInv, Answer
<1>2. TxInv'
  BY Zenon DEF IInv, TxInv, Answer, InReqOnce, Once
<1>3. DevInv'
  BY DevUnchanged, Zenon DEF IInv, Answer
<1> QED BY <1>1, <1>2, <1>3, Zenon DEF IInv

(* Every command that rx_handler_command dispatches to.                     *)
LEMMA CommandStep ==
  ASSUME IInv, Command
  PROVE  IInv'
<1>1. tx \in Seq(Response) /\ Once(tx) /\ in_complete \in InComplete
  BY Zenon DEF IInv, TxInv, InReqOnce, Once
<1>2. \A m \in Message : /\ TxWrite(tx, m) \in Seq(Response)
                         /\ Once(TxWrite(tx, m))
  BY <1>1, TxWriteProperties, Zenon
<1>3. CASE \E n \in Sizes : cb_download(n)
  BY <1>3, DownloadStep, SizeAssumption, Zenon
<1>4. CASE \E p \in Part, ok \in BOOLEAN : cb_flash(p, ok)
  BY <1>4, FlashStep, Zenon
<1>5. CASE \E p \in Part, o \in EraseOutcome : cb_erase(p, o)
  BY <1>5, EraseStep, Zenon
<1>6. CASE \E u \in Cmds : cb_run_uboot_cmd(u)
  BY <1>6, CmdStep, CmdsAssumption, Zenon
<1>7. CASE \E u \in Cmds : cb_run_uboot_acmd(u)
  <2>1. PICK u \in UbootCmd : cb_run_uboot_acmd(u)
    BY <1>7, CmdsAssumption, Zenon
  <2>2. RxInv'
    BY <2>1, RxUnchanged, Zenon DEF IInv, cb_run_uboot_acmd
  <2>3. TxInv'
    <3>1. /\ tx' = TxWrite(tx, "OKAY") /\ in_complete' \in InComplete
          /\ g_a_cmd_buff' \in UbootCmd
      BY <2>1, Zenon DEF cb_run_uboot_acmd, InComplete
    <3> QED BY <3>1, TxAnswered, Zenon DEF IInv, Message
  <2>4. DevInv'
    BY <2>1, DevUnchanged, Zenon DEF IInv, cb_run_uboot_acmd
  <2> QED BY <2>2, <2>3, <2>4, Zenon DEF IInv
<1>8. CASE \E m \in {"OKAY", "FAIL"} : cb_getvar(m)
  BY <1>1, <1>2, <1>8, AnswerStep, Zenon DEF cb_getvar, Message
<1>9. CASE cb_getvar_all
  <2> DEFINE q == TxWriteMore(tx, "INFO")
  <2>1. q \in Seq(Response) /\ Once(q)
    BY <1>1, TxWriteProperties, Zenon DEF Message
  <2> HIDE DEF q
  <2>2. /\ TxWriteMore(q, "OKAY") \in Seq(Response)
        /\ Once(TxWriteMore(q, "OKAY"))
    BY <2>1, TxWriteProperties, Zenon DEF Message
  <2>3. Answer(TxWriteMore(q, "OKAY"), in_complete)
    BY <1>9, Zenon DEF cb_getvar_all, q
  <2> QED BY <1>1, <2>2, <2>3, AnswerStep, Zenon
<1>10. CASE cb_upload
  <2> DEFINE q == TxWriteMore(tx, "DATA")
             r == TxWrite(q, "image")
             t == TxWriteMore(r, "OKAY")
  <2>1. q \in Seq(Response) /\ Once(q)
    BY <1>1, TxWriteProperties, Zenon DEF Message
  <2> HIDE DEF q
  <2>2. r \in Seq(Response) /\ Once(r)
    BY <2>1, TxWriteProperties, Zenon DEF Message
  <2> HIDE DEF r
  <2>3. t \in Seq(Response) /\ Once(t)
    BY <2>2, TxWriteProperties, Zenon DEF Message
  <2> HIDE DEF t
  <2>4. Answer(TxWrite(tx, "FAIL"), in_complete) \/ Answer(t, in_complete)
    BY <1>10, Zenon DEF cb_upload, q, r, t
  <2> QED BY <1>1, <1>2, <2>3, <2>4, AnswerStep, Zenon DEF Message
<1>11. CASE cb_reboot \/ cb_boot \/ cb_continue \/ UnknownCommand
  BY <1>1, <1>2, <1>11, AnswerStep, Zenon
  DEF cb_reboot, cb_boot, cb_continue, UnknownCommand, Message, InComplete
<1> QED
  BY <1>3, <1>4, <1>5, <1>6, <1>7, <1>8, <1>9, <1>10, <1>11, Zenon DEF Command

(* A reset loses all but the media.                                         *)
LEMMA ResetStep ==
  ASSUME IInv, Reset
  PROVE  IInv'
<1> USE SizeAssumption
<1>1. RxInv'
  <2>1. Fresh \in [0 .. BufSize - 1 -> Byte]
    BY Zenon DEF Fresh
  <2>2. /\ configured' = FALSE /\ handler' = "rx_handler_command"
        /\ length' = EpBufferSize /\ download_size' = 0 /\ download_bytes' = 0
        /\ buffer' = Fresh /\ fastboot_bytes' = 0
    BY Zenon DEF Reset
  <2>3. RequestFits'
    BY <2>2 DEF RequestFits
  <2>4. DownloadFits' /\ RequestCovers' /\ SizesAgree'
    BY <2>2 DEF DownloadFits, RequestCovers, SizesAgree
  <2>5. configured' \in BOOLEAN /\ buffer' \in [0 .. BufSize - 1 -> Byte]
    BY <2>1, <2>2, Zenon
  <2>6. /\ handler' \in {"rx_handler_command", "rx_handler_dl_image"}
        /\ length' \in Nat /\ download_size' \in Nat /\ download_bytes' \in Nat
        /\ fastboot_bytes' \in 0 .. BufSize
    BY <2>2
  <2> QED BY <2>3, <2>4, <2>5, <2>6, Zenon DEF RxInv
<1>2. TxInv'
  BY DEF Reset, TxInv, InReqOnce, InComplete, UbootCmd
<1>3. DevInv'
  BY Zenon DEF Reset, IInv, DevInv, TableIsSelected, Dev, SD, Emmc, NoDev
<1> QED BY <1>1, <1>2, <1>3, Zenon DEF IInv

(* Reading a response: a stored ACmd runs and leaves the table alone.       *)
LEMMA TxCompleteStep ==
  ASSUME IInv, TxComplete
  PROVE  IInv'
<1>1. tx \in Seq(Response) /\ Once(tx) /\ tx # <<>>
  BY Zenon DEF IInv, TxInv, InReqOnce, Once, TxComplete
<1>2. Tail(tx) \in Seq(Response) /\ Once(Tail(tx))
  BY <1>1, TailProperties, Zenon
<1>3. ASSUME tx' = Tail(tx), UNCHANGED <<in_complete, g_a_cmd_buff>>
      PROVE  TxInv'
  BY <1>2, <1>3, Zenon DEF IInv, TxInv, InReqOnce, Once
<1>4. CASE /\ tx' = Tail(tx)
           /\ UNCHANGED <<rxVars, in_complete, g_a_cmd_buff, envVars, tabVars,
                          mmcVars, card>>
  BY <1>3, <1>4, RxUnchanged, DevUnchanged, Zenon DEF IInv
<1>5. CASE /\ tx' = Tail(tx)
           /\ RunCommand(g_a_cmd_buff)
           /\ UNCHANGED <<rxVars, in_complete, g_a_cmd_buff, tabVars, card>>
  <2>1. g_a_cmd_buff \in UbootCmd
    BY Zenon DEF IInv, TxInv
  <2>2. /\ fastboot_dev' \in BOOLEAN /\ mmcdev' \in Dev /\ curr_device' \in Dev
        /\ store' \in [Dev -> [Area -> Content]]
    BY <1>5, <2>1, RunCommandType, Zenon
  <2>3. DevInv'
    BY <1>5, <2>2, Zenon DEF IInv, DevInv, TableIsSelected, tabVars
  <2> QED BY <1>3, <1>5, <2>3, RxUnchanged, Zenon DEF IInv
<1>6. CASE Reset
  BY <1>6, ResetStep, Zenon
<1> QED BY <1>4, <1>5, <1>6, Zenon DEF TxComplete

(* The host selects the configuration: a download that it breaks off has    *)
(* not arrived in full, so the two sizes need not agree.                    *)
LEMMA SetAltStep ==
  ASSUME IInv, fastboot_set_alt
  PROVE  IInv'
<1> USE SizeAssumption
<1>1. RxInv'
  <2>1. /\ configured' \in BOOLEAN /\ handler' = "rx_handler_command"
        /\ length' = EpBufferSize
        /\ UNCHANGED <<download_size, download_bytes, buffer, fastboot_bytes>>
    BY Zenon DEF fastboot_set_alt
  <2>2. SizesAgree'
    BY <2>1 DEF IInv, RxInv, SizesAgree, DownloadFits
  <2>3. RequestFits'
    BY <2>1 DEF RequestFits
  <2>4. DownloadFits' /\ RequestCovers'
    BY <2>1, Zenon DEF IInv, RxInv, DownloadFits, RequestCovers
  <2> QED BY <2>1, <2>2, <2>3, <2>4, Zenon DEF IInv, RxInv
<1>2. TxInv'
  BY DEF fastboot_set_alt, IInv, TxInv, InReqOnce, InComplete
<1>3. DevInv'
  BY DevUnchanged, Zenon DEF fastboot_set_alt, IInv
<1> QED BY <1>1, <1>2, <1>3, Zenon DEF IInv

(* fastboot_disable frees the requests and keeps the rest.                  *)
LEMMA DisableStep ==
  ASSUME IInv, fastboot_disable
  PROVE  IInv'
<1>1. RxInv'
  BY Zenon DEF fastboot_disable, IInv, RxInv, DownloadFits, RequestFits,
         RequestCovers, SizesAgree
<1>2. TxInv'
  BY DEF fastboot_disable, IInv, TxInv, InReqOnce
<1>3. DevInv'
  BY DevUnchanged, Zenon DEF fastboot_disable, IInv
<1> QED BY <1>1, <1>2, <1>3, Zenon DEF IInv

(* A card in the SD slot changes no table.                                  *)
LEMMA InsertCardStep ==
  ASSUME IInv, InsertCard
  PROVE  IInv'
<1>1. RxInv' /\ TxInv'
  BY RxUnchanged, TxUnchanged, Zenon DEF InsertCard, IInv
<1>2. DevInv'
  BY Zenon DEF InsertCard, IInv, DevInv, TableIsSelected, envVars, tabVars, mmcVars
<1> QED BY <1>1, <1>2, Zenon DEF IInv

(* Every step of the function, with any host, preserves the invariant.      *)
LEMMA InvStep == IInv /\ [Next]_vars => IInv'
<1> SUFFICES ASSUME IInv, [Next]_vars PROVE IInv'
  BY Zenon
<1>1. CASE \E data \in Packet : rx_handler_dl_image(data)
  <2>1. PICK data \in Packet : rx_handler_dl_image(data)
    BY <1>1, Zenon
  <2>2. data \in Seq(Byte)
    BY SizeAssumption DEF Packet
  <2> QED BY <2>1, <2>2, ImageStep, Zenon
<1>2. CASE UNCHANGED vars
  BY <1>2, RxUnchanged, TxUnchanged, DevUnchanged, Zenon DEF IInv, vars
<1> QED
  BY Zenon, <1>1, <1>2, CommandStep, TxCompleteStep, SetAltStep, DisableStep,
     ResetStep, InsertCardStep DEF Next

-----------------------------------------------------------------------------
(* The properties of FastbootGadget, for every value of the constants.     *)

(* The invariant holds in every state that any host can bring about.        *)
THEOREM Invariance == Spec => []IInv
BY InvInit, InvStep, PTL DEF Spec

(* Every variable keeps its type.                                           *)
THEOREM TypeCorrect == Spec => []TypeOK
BY Invariance, InvImpliesTypeOK, PTL

(* No packet of an image is copied outside ${fastboot_buffer}.              *)
THEOREM DownloadStaysInBuffer == Spec => []DownloadFits
<1>1. IInv => DownloadFits
  BY Zenon DEF IInv, RxInv
<1> QED BY <1>1, Invariance, PTL

(* The OUT request is for whole packets and fits in its buffer:             *)
(* rx_bytes_expected is right for every image size, packet size and request *)
(* buffer that is a multiple of it.                                         *)
THEOREM RequestIsRight == Spec => []RequestFits
<1>1. IInv => RequestFits
  BY Zenon DEF IInv, RxInv
<1> QED BY <1>1, Invariance, PTL

(* The OUT request covers the rest of the image when that fits, so a        *)
(* download never stops for want of a request (rx_bytes_expected).          *)
THEOREM RequestCoversRest == Spec => []RequestCovers
<1>1. IInv => RequestCovers
  BY Zenon DEF IInv, RxInv
<1> QED BY <1>1, Invariance, PTL

(* in_req is never queued while it is queued, whatever mix of               *)
(* fastboot_tx_write and fastboot_tx_write_more the handlers use.           *)
THEOREM InReqQueuedOnce == Spec => []InReqOnce
<1>1. IInv => InReqOnce
  BY Zenon DEF IInv, TxInv
<1> QED BY <1>1, Invariance, PTL

(* The size that ext4write is given is the size that flash uses.            *)
THEOREM OneImageSize == Spec => []SizesAgree
<1>1. IInv => SizesAgree
  BY Zenon DEF IInv, RxInv
<1> QED BY <1>1, Invariance, PTL

(* The partition table is never that of a device other than the selected.   *)
THEOREM TableFollowsDevice == Spec => []TableIsSelected
<1>1. IInv => TableIsSelected
  BY Zenon DEF IInv, DevInv
<1> QED BY <1>1, Invariance, PTL

(* cb_flash and cb_erase never change a device other than the selected one. *)
THEOREM OnlySelectedWritten == Spec => WritesSelected
<1> DEFINE A ==
      (\/ \E p \in Part, ok \in BOOLEAN : cb_flash(p, ok)
       \/ \E p \in Part, o \in EraseOutcome : cb_erase(p, o))
      => \A d \in Dev \ {devinfo} : store'[d] = store[d]
<1>1. IInv /\ [Next]_vars => [A]_vars
  BY FlashStep, EraseStep, Zenon
<1>2. Spec => [][A]_vars
  BY <1>1, Invariance, PTL DEF Spec
<1> QED BY <1>2, Zenon DEF WritesSelected

=============================================================================
