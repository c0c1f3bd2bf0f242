\* Chains of up to three descriptors; a header of two bytes, up to two bytes of
\* payload, an image of two sectors, eight as the end of u64, four of u32.
SPECIFICATION RequestSpec
CONSTANTS
  Descriptors <- MCDescriptors
  MaxChain = 3
  BlockChains <- MCBlockChains
  HEADER_SIZE = 2
  RESPONSE_SIZE = 2
  MAXIMUM = 2
  SECTOR_SIZE = 2
  CAPACITY = 4
  Amounts = {0, 1, 2, 3, 4, 5}
  Sectors = {0, 1, 2, 3, 4}
  MaxU64 = 7
  MaxU32 = 4
INVARIANTS TypeOK WrittenIsPrefix UsedIsWritten ReadIsWhole StatusIsTruthful
CHECK_DEADLOCK FALSE
