SPECIFICATION Spec
CONSTANTS
  FlashBytes = 16
  BlockBytes = 4
  RowBytes = 8
  Ram <- MCRam
  Jobs <- MCJobs
INVARIANT TypeOK
INVARIANT WiresAgree
