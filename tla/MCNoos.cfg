CONSTANTS
  Byte = {"z", "c", "s", "r", "b", "t", "k"}
  Zero = "z"
  Text = "c"
  SparseMagic = {"s"}
  File = {"dtb", "zImage"}
  Cmds = {}
  Sizes = {}
  BufSize = 2
  EpBufferSize = 1
  MaxPacket = 1
  UploadMax = 2
  Capacity <- MCCapacity
  MaxTx = 3
  Scripts <- NoosOnCard
  MaxRuns = 1
  Whole <- WholeScripts
  Kills = {FALSE}
SPECIFICATION FairSpec
INVARIANTS BareOnChosen
CHECK_DEADLOCK FALSE
