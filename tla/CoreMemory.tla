----------------------------- MODULE CoreMemory -----------------------------
(***************************************************************************)
(* The memory as the core sees it, at its two buses: the fetch stage asks  *)
(* for lines of two instructions, the store stage for vectors of words.    *)
(* The memory answers a line, and finishes a vector access, in one step at *)
(* any later time.                                                         *)
(*                                                                         *)
(* MemorySpec says what each side may rely on.  Module SimtPipeline takes  *)
(* the memory's steps from here and keeps the rules for the clients;       *)
(* module MemoryHierarchy implements the memory with caches, multiplexers  *)
(* and a DRAM, in which a vector access is made lane by lane.              *)
(***************************************************************************)
EXTENDS VectorOps

CONSTANTS
  Addr,    \* the data memory words that programs use
  Images,  \* the assembled programs: [code |-> ..., data |-> ...]
  None     \* an empty slot

VARIABLES
  prog,                         \* the code image in memory
  mem,                          \* the data memory
  insn_request, insn_response,  \* the bus from fetch to the instruction cache
  vec_request, vec_response,    \* the bus from store to the vector memory controller
  vec_accepted                  \* the request the controller is working on

insnBus    == <<insn_request, insn_response>>
vecBus     == <<vec_request, vec_response>>
memoryVars == <<prog, mem, insnBus, vecBus, vec_accepted>>

VecBusPacket ==
  [packet_type : {"read", "write", "read_response"}, address : VectorValue, payload : VectorValue]

InsnLine == [{0, 1} -> Instruction]

IsRead(pkt)  == pkt # None /\ pkt.packet_type = "read"
IsWrite(pkt) == pkt # None /\ pkt.packet_type = "write"

MemoryInit ==
  /\ \E image \in Images : prog = image.code /\ mem = image.data
  /\ insn_request = None /\ insn_response = None
  /\ vec_request = None /\ vec_response = None /\ vec_accepted = None

-----------------------------------------------------------------------------
\* The memory's steps.
InsnMemoryRespond ==
  /\ insn_request # None
  /\ insn_response' = [half \in {0, 1} |-> InsnAt(prog, insn_request + half)]
  /\ insn_request' = None
  /\ UNCHANGED <<prog, mem, vecBus, vec_accepted>>

VecMemoryAccept ==
  /\ vec_accepted = None /\ vec_request # None
  /\ vec_accepted' = vec_request
  /\ vec_request' = None
  /\ UNCHANGED <<prog, mem, insnBus, vec_response>>

VecMemoryRead ==
  /\ IsRead(vec_accepted)
  /\ vec_response' =
       [vec_accepted EXCEPT
          !.packet_type = "read_response",
          !.payload = [t \in Threads |-> LET a == vec_accepted.address[t]
                                         IN IF a \in Addr THEN mem[a] ELSE 0]]
  /\ vec_accepted' = None
  /\ UNCHANGED <<prog, mem, insnBus, vec_request>>

\* Memory after the lanes of a write went out in order.
AfterWrite(m, pkt) ==
  LET LastLane(a) == {t \in Threads : /\ pkt.address[t] = a
                                      /\ \A u \in Threads : u > t => pkt.address[u] # a}
  IN [a \in Addr |-> IF LastLane(a) # {} THEN pkt.payload[CHOOSE t \in LastLane(a) : TRUE]
                     ELSE m[a]]

VecMemoryWrite ==
  /\ IsWrite(vec_accepted)
  /\ mem' = AfterWrite(mem, vec_accepted)
  /\ vec_accepted' = None
  /\ UNCHANGED <<prog, insnBus, vecBus>>

VecMemoryFinish == VecMemoryRead \/ VecMemoryWrite

-----------------------------------------------------------------------------
\* The clients' steps.  A client has at most one read outstanding.
FetchAsks ==
  /\ insn_request = None /\ insn_response = None
  /\ insn_request' \in Int
  /\ UNCHANGED <<prog, mem, insn_response, vecBus, vec_accepted>>

FetchTakes ==
  /\ insn_response # None
  /\ insn_response' = None
  /\ UNCHANGED <<prog, mem, insn_request, vecBus, vec_accepted>>

\* The store stage sends whether or not the slot is taken, but nothing behind a
\* read that was not answered.
StoreSends ==
  /\ ~IsRead(vec_request) /\ ~IsRead(vec_accepted) /\ vec_response = None
  /\ vec_request' \in VecBusPacket
  /\ \/ vec_request'.packet_type = "write"
     \/ vec_request'.packet_type = "read" /\ vec_request'.payload = create_vec(0)
  /\ UNCHANGED <<prog, mem, insnBus, vec_response, vec_accepted>>

StoreTakes ==
  /\ vec_response # None
  /\ vec_response' = None
  /\ UNCHANGED <<prog, mem, insnBus, vec_request, vec_accepted>>

MemoryNext == \/ InsnMemoryRespond \/ VecMemoryAccept \/ VecMemoryFinish
              \/ FetchAsks \/ FetchTakes \/ StoreSends \/ StoreTakes

MemorySpec == MemoryInit /\ [][MemoryNext]_memoryVars
=============================================================================
