\* Two descriptors, chains of one or two, indices that wrap at eight.
SPECIFICATION Spec
CONSTANTS
  QSize = 2
  IdxMod = 8
  MaxChain = 2
  Lens = {1, 2}
INVARIANTS TypeOK OnlyRevokeFails
PROPERTY ImplementsChannel
CHECK_DEADLOCK FALSE
