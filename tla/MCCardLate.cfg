CONSTANTS
  Byte = {"z", "s"}
  Zero = "z"
  SparseMagic = {"s"}
  File = {"f"}
  Cmds <- UbootCmd
  Sizes = {1, 2}
  BufSize = 1
  EpBufferSize = 2
  MaxPacket = 1
  UploadMax = 2
  Capacity <- MCCapacity
  MaxTx = 1
SPECIFICATION Spec
VIEW Control

PROPERTIES TableFollowsEnv
