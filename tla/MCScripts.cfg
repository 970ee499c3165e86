CONSTANTS
  Byte = {"z", "c", "s", "r", "b", "t", "k"}
  Zero = "z"
  Text = "c"
  SparseMagic = {"s"}
  File = {"dtb", "zImage"}
  Cmds = {}
  Sizes = {}
  BufSize = 2
  EpBufferSize = 1
  MaxPacket = 1
  UploadMax = 2
  Capacity <- MCCapacity
  MaxTx = 3
  Scripts <- AllScripts
  MaxRuns = 3
  Whole <- WholeScripts
  Kills = {TRUE, FALSE}
SPECIFICATION FairSpec
INVARIANTS StoreAsReported NeverStranded
PROPERTIES ScriptsEnd
CHECK_DEADLOCK FALSE
