SPECIFICATION FairSpec
CONSTANTS
  NUMBER_OF_VECTOR_THREADS = 2
  LANE_HALF = 64
  RegisterID <- MCRegisters
  REG_R0 = "r0"
  REG_FLAGS = "flags"
  REG_PC = "pc"
  ShiftLeft <- MCShiftLeft
  BitOr <- MCBitOr
  ORB_SHIFT = 2
  ORC_SHIFT = 4
  Addr <- MCAddr
  Images <- MCImages
  None = None
  MAX_THREAD_CONTEXTS = 2
  TINY_COUNTER_RANGE = 3
  Order <- MCOrder
PROPERTIES ImplementsIsa ProgramEnds StoresNotOverwritten
CHECK_DEADLOCK FALSE
