SPECIFICATION Spec
CONSTANTS
  NUMBER_OF_VECTOR_THREADS = 2
  LANE_HALF = 16
  RegisterID <- MCRegisters
  REG_R0 = "r0"
  REG_FLAGS = "flags"
  REG_PC = "pc"
  ShiftLeft <- MCShiftLeft
  BitOr <- MCBitOr
  ORB_SHIFT = 2
  ORC_SHIFT = 4
  Addr <- MCAddr
  Images <- MCImages
  None = None
  FetchLine <- SharedLines
  Accesses <- SharedAccesses
  NUM_CACHE_LINES_L1_INSN_CACHE = 2
  Order <- MCOrder
INVARIANTS TypeOK OnePacketPerRead
PROPERTIES NoPacketOverwritten ImplementsCoreMemory
