CONSTANTS
  BlockWords = 2
  Blocks = 2
  RAMWords = 4
  Bases = {0, 3}
  Slices = {1, 2}
  HaltTicks = 1
  ChopTicks = 2
  ListLength = 2
  MacroblockWords = 3
  OutputWords = 2
  FIFOWords = 4
  Parameters = {4}
  SizeValues = 16
  ReadsAhead = TRUE
  TableWords = 3
  MaxWrites = 5
SPECIFICATION Spec
INVARIANT OutFIFOIsNotOverdrawn
