CONSTANTS
  Byte = {"z", "s"}
  Zero = "z"
  SparseMagic = {"s"}
  File = {"f"}
  Cmds = {}
  Sizes = {0, 1, 3, 5, 6, 8}
  BufSize = 6
  EpBufferSize = 4
  MaxPacket = 2
  UploadMax = 3
  Capacity <- MCCapacity
  MaxTx = 2
SPECIFICATION Spec
INVARIANTS TypeOK DownloadFits RequestFits RequestCovers InReqOnce SizesAgree
