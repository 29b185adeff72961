CONSTANTS
  Byte = {127, 128, 191, 193, 194, 223, 224, 239, 240}
  MaxSize = 5
SPECIFICATION FairSpec
INVARIANTS TypeOK Partition SplitsAtStarts LenAgrees
PROPERTY Covered
