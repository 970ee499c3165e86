---------------------------- MODULE MCToolScripts ----------------------------
(* Images of one or two bytes: the root image is sparse, the kernel takes   *)
(* two packets.                                                             *)
EXTENDS ToolScripts

MCCapacity == [p \in Part |-> BufSize]
Root == <<"s", "r">>
Uboot == <<"b">>
Tree == <<"t">>
Kernel == <<"k", "k">>

(* Scripts that carry the image that they write.                            *)
WholeScripts ==
  UNION {{ PyWriteAll(d, Root, Uboot), PyWriteBoot(d, Uboot),
           QtWriteRootfs(d, Root), PyWriteFile(d, "dtb", Tree),
           PyWriteFile(d, "zImage", Kernel) } : d \in Dev}

(* And the two halves of an upload, in any order.                           *)
AllScripts ==
  WholeScripts \cup {PyUploadDownload(Tree), PyUploadDownload(Kernel)}
    \cup {PyUploadWrite(d, "dtb") : d \in Dev}

(* The scripts of the runs that pass are in order.                          *)
ASSUME ScriptsInOrder == InOrder(AllScripts, WholeScripts)

QtAll == { QtWriteAll(Emmc, Root, Uboot, Tree, Kernel) }
NoosOnCard == { PyWriteNoos(SD, Uboot) }

(* What FlashingTab1IMX tells whoever chose "SD/TF": when the script has    *)
(* run, the card holds the bare-metal image.                                *)
BareOnChosen == result = "done" => store[SD]["bootloader"] = Uboot
=============================================================================
