------------------------- MODULE MemoryTrafficProofs -------------------------
(***************************************************************************)
(* The packets of the memory hierarchy: every packet is of the kind of the *)
(* bus it is on, no component overwrites a packet that waits in a slot,    *)
(* and a client that waits has exactly one packet of its read on the way.  *)
(* The three results are proved together, as none of them is inductive     *)
(* alone: a cache that passes packets on by assignment (no test of the     *)
(* slot behind it) is safe only because of what else can be in flight, and *)
(* that is known only because nothing has been overwritten before. The     *)
(* inductive invariant MemoryInv says of which kind each packet is         *)
(* (TypeInv), how many reads there are and what may be in front of a write *)
(* (TrafficInv, VecReads), and in which order the components have their    *)
(* turns while two answers are on the way (RoundInv).                      *)
(***************************************************************************)
EXTENDS MemoryHierarchy, FiniteSetTheorems, SequenceTheorems, TLAPS

-----------------------------------------------------------------------------
(***************************************************************************)
(* Types: the packets of each bus, and what a component holds at each of   *)
(* its switches.                                                           *)
(***************************************************************************)

\* Instructions and data have address spaces of their own, so the caches of one side
\* never see an address of the other.
CodeAddress == {Code(pc) : pc \in FetchLine}
DataAddress == {Data(a) : a \in LaneValue}

\* The packets of the two clients, on their way down and up.
FetchRead ==
  [packet_type : {"read"}, source : {"fetch"}, address : CodeAddress,
   payload : CodeAddress \union {0}]
FetchAnswer ==
  [packet_type : {"read_response"}, source : {"fetch"}, address : CodeAddress,
   payload : InsnLine]
StoreRequest ==
  [packet_type : {"read", "write"}, source : {"store"}, address : DataAddress,
   payload : LaneValue]
StoreAnswer ==
  [packet_type : {"read_response"}, source : {"store"}, address : DataAddress,
   payload : LaneValue]

\* The buses in front of the internal multiplexer carry the packets of one client, the
\* two behind it those of both.
InsnBus == {"core_L1i", "L1i_L2i", "core_L2i", "L2i_mux"}
DataBus == {"core_L1d", "L1d_L2d", "core_L2d", "L2d_mux"}

RequestOn(b) == IF b \in InsnBus THEN FetchRead ELSE IF b \in DataBus THEN StoreRequest
                ELSE FetchRead \union StoreRequest
AnswerOn(b) == IF b \in InsnBus THEN FetchAnswer ELSE IF b \in DataBus THEN StoreAnswer
               ELSE FetchAnswer \union StoreAnswer

BusInv ==
  /\ DOMAIN request = Bus /\ DOMAIN response = Bus
  /\ \A b \in Bus : request[b] \in Slot(RequestOn(b)) /\ response[b] \in Slot(AnswerOn(b))

\* What each component may hold at each of its switches.
L1iInv ==
  /\ \/ l1i_at \in {"boot", "top"} /\ l1i_pkt = None
     \/ l1i_at = "lookup" /\ l1i_pkt \in FetchRead
     \/ l1i_at = "fill" /\ l1i_pkt \in FetchAnswer
  /\ L1InsnCacheLines \in [0 .. NUM_CACHE_LINES_L1_INSN_CACHE - 1 -> Slot(CachedLine)]

SelectionInv ==
  /\ selection_at \in [Sides -> {"top", "forward", "respond", "route"}]
  /\ DOMAIN selection_pkt = Sides
  /\ \A s \in Sides :
       \/ selection_at[s] \in {"top", "respond"} /\ selection_pkt[s] = None
       \/ selection_at[s] = "forward" /\ selection_pkt[s] \in RequestOn(Above[s])
       \/ selection_at[s] = "route" /\ selection_pkt[s] \in AnswerOn(Above[s])

MuxInv ==
  \/ mux_at = "top" /\ mux_pkt = None
  \/ mux_at = "forward_fetch" /\ mux_pkt \in FetchRead
  \/ mux_at = "forward_vec" /\ mux_pkt \in StoreRequest
  \/ mux_at = "route" /\ mux_pkt \in FetchAnswer \union StoreAnswer

DramInv ==
  /\ \/ dram_at = "top" /\ dram_pkt = None
     \/ dram_at \in {"accepted", "delay"} /\ dram_pkt \in FetchRead \union StoreRequest
  /\ storage \in [Addr -> LaneValue]

VecInv ==
  /\ vec_request \in Slot(VecRequest) /\ vec_response \in Slot(VecPacket)
  /\ vec_pkt \in Slot(VecPacket)
  /\ lane \in 0 .. NUMBER_OF_VECTOR_THREADS
  /\ \/ vec_at = "top" /\ vec_pkt = None /\ lane = 0
     \/ vec_at = "lanes" /\ (IsRead(vec_pkt) \/ IsWrite(vec_pkt))
     \/ vec_at \in {"await_lane", "got_lane"} /\ IsRead(vec_pkt) /\ LanesLeft
  /\ vec_at = "got_lane" => lane_response \in LaneValue

ClientInv ==
  /\ fetch_awaits \in Slot(FetchLine) /\ load_awaits \in BOOLEAN
  /\ turn \in 1 .. Len(Order)
  /\ \A pc \in DOMAIN prog : prog[pc] \in Instruction

TypeInv == BusInv /\ L1iInv /\ SelectionInv /\ MuxInv /\ DramInv /\ VecInv /\ ClientInv

-----------------------------------------------------------------------------
(***************************************************************************)
(* Traffic: every place a packet can be in, the reads under way and the    *)
(* writes in front of them.                                                *)
(***************************************************************************)

Holder == {"L1i", "select_insn", "select_data", "mux", "dram"}
Holding == [L1i |-> l1i_pkt, select_insn |-> selection_pkt["insn"],
            select_data |-> selection_pkt["data"], mux |-> mux_pkt, dram |-> dram_pkt]

\* A packet is on a bus, as a request or as a response, or held by a component between
\* two of its switches.
Place == ({"request", "response"} \X Bus) \union ({"held"} \X Holder)

Traffic(req, resp, held) ==
  [p \in Place |-> IF p[1] = "request" THEN req[p[2]]
                   ELSE IF p[1] = "response" THEN resp[p[2]] ELSE held[p[2]]]

traffic == Traffic(request, response, Holding)

\* A read is under way from the request of its client to the response the client takes;
\* it stays one packet all along.
IsReadOf(pkt, source) == pkt # None /\ pkt.source = source /\ ~IsWrite(pkt)
Reads(f, source) == {p \in Place : IsReadOf(f[p], source)}

OneRead(f, source, waits) ==
  IF waits THEN \E p \in Place : Reads(f, source) = {p} ELSE Reads(f, source) = {}

\* The way down from the vector memory controller to the DRAM, in the order the
\* components pass a packet on; 0 off that way.
RequestStage ==
  [core_L1d |-> 1, L1d_L2d |-> 2, core_L2d |-> 4, L2d_mux |-> 5, L2_L3 |-> 7, L3_DRAM |-> 8,
   core_L1i |-> 0, L1i_L2i |-> 0, core_L2i |-> 0, L2i_mux |-> 0]
HolderStage == [select_data |-> 3, mux |-> 6, dram |-> 9, L1i |-> 0, select_insn |-> 0]
Stage(p) == IF p[1] = "request" THEN RequestStage[p[2]]
            ELSE IF p[1] = "held" THEN HolderStage[p[2]] ELSE 0

\* A read waits for an answer, so nothing is sent after it: a write under way is in
\* front of the read, nearer to the DRAM, and the read is still a request then.
NoWriteBehindRead(f) ==
  \A p, q \in Place :
    IsReadOf(f[p], "store") /\ IsWrite(f[q]) => IsRead(f[p]) /\ Stage(p) < Stage(q)

\* A load of the store stage is one vector packet: in the request slot, in the
\* controller, or in the response slot.
VecReads ==
  One(load_awaits) = One(IsRead(vec_request)) + One(IsRead(vec_pkt)) + One(vec_response # None)

\* A client that waits has one packet of its read under way, one that does not has
\* none, and no write is behind a read.
InOrder(f, fetching, loading) ==
  /\ OneRead(f, "fetch", fetching) /\ OneRead(f, "store", loading)
  /\ NoWriteBehindRead(f)
  /\ \A p \in Place : IsWrite(f[p]) => Stage(p) > 0

\* When fetch and the vector memory controller wait for an answer.
Fetching == fetch_awaits # None
Loading  == vec_at = "await_lane"

Ordered(req, resp, held) == InOrder(Traffic(req, resp, held), Fetching, Loading)

TrafficInv == InOrder(traffic, Fetching, Loading)

-----------------------------------------------------------------------------
(* Rounds: the order of the turns of a round, which each component keeps. *)

\* The place of a component in the list of the scheduler, and the turns until it is up.
Position(c) == CHOOSE k \in DOMAIN Order : Order[k] = c
TurnsUntil(c) == IF Position(c) >= turn THEN Position(c) - turn
                 ELSE Position(c) - turn + Len(Order)
ComesBefore(c, d) == TurnsUntil(c) < TurnsUntil(d)

\* The L3 cache moves the answer of the DRAM up without testing the slot above it. That
\* is safe because while an answer is in the lower slot the upper one is empty, and
\* while one is in the upper slot the DRAM is not about to answer before the
\* multiplexer has had its turn.
RoundInv ==
  /\ response["L3_DRAM"] # None =>
       response["L2_L3"] = None /\ dram_at = "top" /\ ComesBefore("L3", "dram")
  /\ response["L2_L3"] # None =>
       /\ dram_at = "delay" => ~IsRead(dram_pkt)
       /\ dram_at = "accepted" /\ IsRead(dram_pkt) => ComesBefore("l2di", "dram")

USE DEF Slot

-----------------------------------------------------------------------------
(* Every step keeps the types, component by component. *)

LEMMA ZeroIsLaneValue == 0 \in LaneValue
  BY VectorOpsAssumption DEF LaneValue

\* An empty slot is told from every packet.
LEMMA NoneIsNoPacket ==
  /\ None \notin FetchRead \union FetchAnswer \union StoreRequest \union StoreAnswer
  /\ None \notin VecPacket \union VecRequest \union CachedLine \union FetchLine
  <1>1. /\ FetchRead \subseteq BusPacket /\ FetchAnswer \subseteq BusPacket
        /\ StoreRequest \subseteq BusPacket /\ StoreAnswer \subseteq BusPacket
    BY ZeroIsLaneValue DEF FetchRead, FetchAnswer, StoreRequest, StoreAnswer, BusPacket,
       CodeAddress,
       DataAddress
  <1>2. VecRequest \subseteq VecPacket
    BY DEF VecRequest
  <1> QED  BY <1>1, <1>2, MemoryHierarchyAssumption

\* What the kind of a packet says of its type and its source.
LEMMA Kinds ==
  /\ \A pkt \in FetchRead \union FetchAnswer : ~IsWrite(pkt) /\ pkt.source = "fetch"
  /\ \A pkt \in StoreRequest \union StoreAnswer : pkt.source = "store"
  /\ \A pkt \in FetchRead : IsRead(pkt)
  /\ \A pkt \in StoreRequest : IsRead(pkt) \/ IsWrite(pkt)
  /\ \A pkt \in FetchAnswer \union StoreAnswer : ~IsRead(pkt) /\ ~IsWrite(pkt)
  BY NoneIsNoPacket DEF FetchRead, FetchAnswer, StoreRequest, StoreAnswer, IsRead, IsWrite

LEMMA BusNames ==
  /\ Bus = InsnBus \union DataBus \union {"L2_L3", "L3_DRAM"}
  /\ \A b \in InsnBus : RequestOn(b) = FetchRead /\ AnswerOn(b) = FetchAnswer
  /\ \A b \in DataBus : RequestOn(b) = StoreRequest /\ AnswerOn(b) = StoreAnswer
  /\ \A b \in {"L2_L3", "L3_DRAM"} : /\ RequestOn(b) = FetchRead \union StoreRequest
                                     /\ AnswerOn(b) = FetchAnswer \union StoreAnswer
  BY DEF Bus, InsnBus, DataBus, RequestOn, AnswerOn

\* Every slot is empty at reset and every component at its first switch.
LEMMA InitTypes == Init => TypeInv
  <1> SUFFICES ASSUME Init PROVE TypeInv
    OBVIOUS
  <1>1. BusInv
    BY DEF Init, BusInv
  <1>2. L1iInv
    BY DEF Init, L1iInv
  <1>3. SelectionInv
    BY DEF Init, SelectionInv
  <1>4. MuxInv
    BY DEF Init, MuxInv
  <1>5. DramInv
    BY MemoryHierarchyAssumption DEF Init, DramInv
  <1>6. VecInv
    BY VectorOpsAssumption DEF Init, VecInv
  <1>7. ClientInv
    <2>1. 1 \in 1 .. Len(Order)
      <3>1. PICK k \in DOMAIN Order : Order[k] = "L3"
        BY EveryComponentHasItsTurn DEF Component
      <3>2. Len(Order) \in Nat /\ DOMAIN Order = 1 .. Len(Order)
        BY EveryComponentHasItsTurn
      <3> QED  BY <3>1, <3>2
    <2> QED  BY <2>1, MemoryHierarchyAssumption DEF Init, ClientInv
  <1> QED  BY <1>1, <1>2, <1>3, <1>4, <1>5, <1>6, <1>7 DEF TypeInv

\* The data caches and the L3 cache only move packets on.
LEMMA L1DataCacheTypes ==
  ASSUME BusInv, L1DataCacheTurn PROVE BusInv'
  BY DEF BusInv, L1DataCacheTurn, PassRequest, PassResponse, Moved, Bus, InsnBus, DataBus,
     RequestOn, AnswerOn

LEMMA L2DataCacheTypes ==
  ASSUME BusInv, L2DataCacheTurn PROVE BusInv'
  BY DEF BusInv, L2DataCacheTurn, PassRequest, PassResponse, Moved, Bus, InsnBus, DataBus,
     RequestOn, AnswerOn

LEMMA L3CacheTypes ==
  ASSUME BusInv, L3CacheTurn PROVE BusInv'
  BY DEF BusInv, L3CacheTurn, PassRequest, PassResponse, Moved, Bus, InsnBus, DataBus, RequestOn,
     AnswerOn

\* The L2 instruction cache makes new packets, of the same kind.
LEMMA L2InsnCacheTypes ==
  ASSUME BusInv, L2InsnCacheTurn PROVE BusInv'
  <1>1. \A pkt \in FetchRead : Packet("read", pkt.source, pkt.address, pkt.address) \in FetchRead
    BY DEF FetchRead, Packet
  <1>2. \A pkt \in FetchAnswer :
          Packet("read_response", pkt.source, pkt.address, pkt.payload) \in FetchAnswer
    BY DEF FetchAnswer, Packet
  <1> QED  BY <1>1, <1>2 DEF BusInv, L2InsnCacheTurn, Bus, InsnBus, DataBus, RequestOn, AnswerOn

\* Fetch sends a read of code and takes an answer with a line.
LEMMA FetchTypes ==
  ASSUME BusInv, ClientInv, FetchTurn PROVE BusInv' /\ fetch_awaits' \in Slot(FetchLine)
  <1>1. \A pc \in FetchLine : Packet("read", "fetch", Code(pc), 0) \in FetchRead
    BY DEF FetchRead, Packet, CodeAddress
  <1> QED  BY <1>1 DEF BusInv, ClientInv, FetchTurn, buses, Bus, InsnBus, DataBus, RequestOn,
           AnswerOn

LEMMA L1iTakesResponseTypes ==
  ASSUME NEW req, NEW resp, L1iTakesResponse(req, resp), L1iInv,
         resp["L1i_L2i"] \in Slot(FetchAnswer)
  PROVE  L1iInv'
  BY DEF L1iTakesResponse, L1iInv

\* Every code address has a line in the L1 instruction cache.
LEMMA IndexInCache ==
  ASSUME NEW address \in CodeAddress
  PROVE  get_l1_insn_cache_index(address) \in 0 .. NUM_CACHE_LINES_L1_INSN_CACHE - 1
  <1>1. PICK pc \in FetchLine : address = Code(pc)
    BY DEF CodeAddress
  <1>2. pc \in Nat /\ address[2] = pc
    BY <1>1, MemoryHierarchyAssumption DEF Code
  <1>3. NUM_CACHE_LINES_L1_INSN_CACHE \in Nat \ {0}
    BY MemoryHierarchyAssumption
  <1>4. pc \div 2 \in Nat
    BY <1>2, SMT
  <1> HIDE MemoryHierarchyAssumption
  <1>5. \A m \in Nat \ {0}, k \in Nat : k % m \in 0 .. m - 1
    BY SMT
  <1> QED  BY <1>2, <1>3, <1>4, <1>5 DEF get_l1_insn_cache_index

LEMMA L1InsnCacheTypes ==
  ASSUME BusInv, L1iInv, L1InsnCacheTurn PROVE BusInv' /\ L1iInv'
  <1>0. request["core_L1i"] \in Slot(FetchRead) /\ response["L1i_L2i"] \in Slot(FetchAnswer)
    BY DEF BusInv, Bus, InsnBus, RequestOn, AnswerOn
  <1>1. CASE L1iBoot
    BY <1>1 DEF L1iBoot, BusInv, L1iInv, buses
  <1>2. CASE L1iAccept
    <2>1. BusInv'
      BY <1>2 DEF L1iAccept, L1iTakesResponse, BusInv, Bus, InsnBus, DataBus, RequestOn, AnswerOn
    <2>2. CASE request["core_L1i"] # None
      BY <1>0, <1>2, <2>1, <2>2 DEF L1iAccept, L1iInv
    <2>3. CASE request["core_L1i"] = None
      BY <1>0, <1>2, <2>1, <2>3, L1iTakesResponseTypes DEF L1iAccept
    <2> QED  BY <2>1, <2>2, <2>3
  <1>3. CASE L1iLookup
    <2>1. l1i_pkt \in FetchRead
      BY <1>3 DEF L1iLookup, L1iInv
    <2>2. CASE Hit(l1i_pkt.address) /\ response["core_L1i"] = None
      <3> DEFINE line == L1InsnCacheLines[get_l1_insn_cache_index(l1i_pkt.address)]
                 answer == Packet("read_response", l1i_pkt.source, l1i_pkt.address, line.payload)
                 resp == [response EXCEPT !["core_L1i"] = answer]
      <3>1. line \in CachedLine
        BY <2>1, <2>2, IndexInCache DEF Hit, L1iInv, FetchRead
      <3>2. answer \in FetchAnswer
        <4>1. line.payload \in InsnLine
          BY <3>1 DEF CachedLine
        <4> QED  BY <2>1, <4>1 DEF FetchRead, FetchAnswer, Packet
      <3>3. L1iTakesResponse(request, resp)
        BY <1>3, <2>2 DEF L1iLookup
      <3> HIDE DEF answer
      <3>4. L1iInv'
        <4>1. resp["L1i_L2i"] \in Slot(FetchAnswer)
          BY <1>0 DEF BusInv, Bus
        <4> QED  BY <3>3, <4>1, L1iTakesResponseTypes
      <3>5. BusInv'
        BY <3>2, <3>3 DEF L1iTakesResponse, BusInv, Bus, InsnBus, DataBus, RequestOn, AnswerOn
      <3> QED  BY <3>4, <3>5
    <2>3. CASE ~Hit(l1i_pkt.address) /\ request["L1i_L2i"] = None
      <3>1. L1iTakesResponse([request EXCEPT !["L1i_L2i"] = l1i_pkt], response)
        BY <1>3, <2>3 DEF L1iLookup
      <3>2. L1iInv'
        BY <1>0, <3>1, L1iTakesResponseTypes
      <3>3. BusInv'
        BY <2>1, <3>1 DEF L1iTakesResponse, BusInv, Bus, InsnBus, DataBus, RequestOn, AnswerOn
      <3> QED  BY <3>2, <3>3
    <2>4. CASE UNCHANGED <<l1iVars, buses>>
      BY <2>4 DEF BusInv, L1iInv, buses, l1iVars
    <2> QED  BY <1>3, <2>2, <2>3, <2>4 DEF L1iLookup
  <1>4. CASE L1iFill
    <2>1. l1i_pkt \in FetchAnswer
      BY <1>4 DEF L1iFill, L1iInv
    <2>2. L1InsnCacheLines' \in [0 .. NUM_CACHE_LINES_L1_INSN_CACHE - 1 -> Slot(CachedLine)]
      <3>1. [address |-> l1i_pkt.address, payload |-> l1i_pkt.payload] \in CachedLine
        BY <2>1 DEF FetchAnswer, CachedLine, CodeAddress
      <3> QED  BY <1>4, <3>1 DEF L1iFill, L1iInv
    <2>3. BusInv'
      BY <1>4, <2>1 DEF L1iFill, BusInv, Bus, InsnBus, DataBus, RequestOn, AnswerOn
    <2>4. L1iInv'
      BY <1>4, <2>1, <2>2 DEF L1iFill, L1iInv
    <2> QED  BY <2>3, <2>4
  <1> QED  BY <1>1, <1>2, <1>3, <1>4 DEF L1InsnCacheTurn

\* A selection multiplexer hands on what it has taken.
LEMMA SelectionTypes ==
  ASSUME BusInv, SelectionInv, NEW s \in Sides, SelectionTurn(s) PROVE BusInv' /\ SelectionInv'
  <1>0. /\ Above[s] \in Bus /\ Below[s] \in Bus /\ Above[s] # Below[s]
        /\ RequestOn(Below[s]) = RequestOn(Above[s]) /\ AnswerOn(Below[s]) = AnswerOn(Above[s])
    BY DEF Sides, Above, Below, Bus, InsnBus, DataBus, RequestOn, AnswerOn
  <1>1. /\ selection_at' \in [Sides -> {"top", "forward", "respond", "route"}]
        /\ DOMAIN selection_pkt' = Sides
        /\ \A r \in Sides \ {s} : /\ selection_at'[r] = selection_at[r]
                                  /\ selection_pkt'[r] = selection_pkt[r]
    BY DEF SelectionInv, SelectionTurn, SelectionAccept, SelectionForward, SelectionRespond,
       SelectionRoute, SelectionSteps, selectionVars
  <1>2. /\ BusInv'
        /\ \/ selection_at'[s] \in {"top", "respond"} /\ selection_pkt'[s] = None
           \/ selection_at'[s] = "forward" /\ selection_pkt'[s] \in RequestOn(Above[s])
           \/ selection_at'[s] = "route" /\ selection_pkt'[s] \in AnswerOn(Above[s])
    <2>1. CASE SelectionAccept(s)
      BY <1>0, <2>1 DEF SelectionAccept, SelectionSteps, SelectionInv, BusInv
    <2>2. CASE SelectionForward(s)
      BY <1>0, <2>2 DEF SelectionForward, SelectionSteps, SelectionInv, BusInv, selectionVars
    <2>3. CASE SelectionRespond(s)
      BY <1>0, <2>3 DEF SelectionRespond, SelectionSteps, SelectionInv, BusInv
    <2>4. CASE SelectionRoute(s)
      BY <1>0, <2>4 DEF SelectionRoute, SelectionSteps, SelectionInv, BusInv
    <2> QED  BY <2>1, <2>2, <2>3, <2>4 DEF SelectionTurn
  <1> QED  BY <1>1, <1>2 DEF SelectionInv

\* The three tests at the end of each turn of the internal multiplexer take a packet,
\* or none.
LEMMA MuxTestTypes ==
  ASSUME NEW req, NEW resp, MuxTestFetch(req, resp) \/ MuxTestVec(req, resp)
                            \/ MuxTestResponse(req, resp),
         DOMAIN req = Bus, DOMAIN resp = Bus,
         \A b \in Bus : req[b] \in Slot(RequestOn(b)) /\ resp[b] \in Slot(AnswerOn(b))
  PROVE  BusInv' /\ MuxInv'
  <1>1. CASE req["L2i_mux"] # None /\ MuxTestFetch(req, resp)
    BY <1>1 DEF MuxTestFetch, MuxTakes, BusInv, MuxInv, Bus, InsnBus, DataBus, RequestOn, AnswerOn
  <1>2. CASE MuxTestVec(req, resp)
    BY <1>2 DEF MuxTestVec, MuxTestResponse, MuxTakes, BusInv, MuxInv, Bus, InsnBus, DataBus,
       RequestOn, AnswerOn
  <1>3. CASE MuxTestResponse(req, resp)
    BY <1>3 DEF MuxTestResponse, MuxTakes, BusInv, MuxInv, Bus, InsnBus, DataBus, RequestOn,
       AnswerOn
  <1> QED  BY <1>1, <1>2, <1>3 DEF MuxTestFetch

LEMMA MuxTypes ==
  ASSUME BusInv, MuxInv, InternalMultiplexerTurn PROVE BusInv' /\ MuxInv'
  <1>1. CASE MuxAccept
    BY <1>1, MuxTestTypes DEF MuxAccept, BusInv
  <1>2. CASE MuxForward /\ request["L2_L3"] # None
    BY <1>2 DEF MuxForward, BusInv, MuxInv, muxVars, buses
  <1>3. CASE MuxForward /\ request["L2_L3"] = None
    <2> DEFINE sent == [request EXCEPT !["L2_L3"] = mux_pkt]
    <2>1. MuxTestVec(sent, response) \/ MuxTestResponse(sent, response)
      BY <1>3 DEF MuxForward
    <2>2. mux_pkt \in FetchRead \union StoreRequest
      BY <1>3 DEF MuxForward, MuxInv
    <2>3. DOMAIN sent = Bus /\ \A b \in Bus : sent[b] \in Slot(RequestOn(b))
      BY <2>2 DEF BusInv, Bus, InsnBus, DataBus, RequestOn
    <2> HIDE DEF sent
    <2> QED  BY <2>1, <2>3, MuxTestTypes DEF BusInv
  <1>4. CASE MuxRoute
    <2> DEFINE to == IF mux_pkt.source = "fetch" THEN "L2i_mux" ELSE "L2d_mux"
               routed == [response EXCEPT ![to] = mux_pkt]
    <2>1. MuxTestFetch(request, routed) /\ mux_pkt \in FetchAnswer \union StoreAnswer
      BY <1>4 DEF MuxRoute, MuxInv
    <2>2. /\ to \in Bus
          /\ \/ to = "L2i_mux" /\ mux_pkt \in FetchAnswer
             \/ to = "L2d_mux" /\ mux_pkt \in StoreAnswer
      BY <2>1 DEF FetchAnswer, StoreAnswer, Bus
    <2>3. DOMAIN routed = Bus /\ \A b \in Bus : routed[b] \in Slot(AnswerOn(b))
      <3> HIDE DEF to
      <3> QED  BY <2>2 DEF BusInv, Bus, InsnBus, DataBus, AnswerOn
    <2> HIDE DEF routed
    <2> QED  BY <2>1, <2>3, MuxTestTypes DEF BusInv
  <1> QED  BY <1>1, <1>2, <1>3, <1>4 DEF InternalMultiplexerTurn

\* What the DRAM holds at an address is of the kind of the address.
LEMMA StorageTypes ==
  ASSUME DramInv, ClientInv
  PROVE  /\ \A address \in CodeAddress : InStorage(address) \in InsnLine
         /\ \A address \in DataAddress : InStorage(address) \in LaneValue
  <1>1. \A pc : InsnAt(prog, pc) \in Instruction
    <2>1. ZeroInsn \in Instruction
      BY VectorOpsAssumption DEF ZeroInsn, Instruction, Opcode
    <2> QED  BY <2>1 DEF InsnAt, ClientInv
  <1>2. \A pc : Line(pc) \in InsnLine
    BY <1>1 DEF Line, InsnLine
  <1>3. \A address \in CodeAddress : InStorage(address) = Line(address[2])
    BY DEF CodeAddress, Code, InStorage
  <1>4. ASSUME NEW address \in DataAddress PROVE InStorage(address) \in LaneValue
    <2>1. address[1] = "data" /\ storage \in [Addr -> LaneValue]
      BY DEF DataAddress, Data, DramInv
    <2> QED  BY <2>1, ZeroIsLaneValue DEF InStorage
  <1> QED  BY <1>2, <1>3, <1>4

LEMMA DramTypes ==
  ASSUME BusInv, DramInv, ClientInv, DramTurn PROVE BusInv' /\ DramInv'
  <1>1. CASE DramAccept
    BY <1>1 DEF DramAccept, BusInv, DramInv, Bus, InsnBus, DataBus, RequestOn, AnswerOn
  <1>2. CASE DramDelay
    BY <1>2 DEF DramDelay, BusInv, DramInv, buses
  <1>3. CASE DramRead
    <2> DEFINE answer == Packet("read_response", dram_pkt.source, dram_pkt.address,
                                InStorage(dram_pkt.address))
    <2>1. dram_pkt \in FetchRead \/ dram_pkt \in StoreRequest
      BY <1>3 DEF DramRead, DramInv
    <2>2. CASE dram_pkt \in FetchRead
      <3>1. InStorage(dram_pkt.address) \in InsnLine
        BY <2>2, StorageTypes DEF FetchRead
      <3>2. answer \in FetchAnswer
        BY <2>2, <3>1 DEF FetchRead, FetchAnswer, Packet
      <3>3. response' = [response EXCEPT !["L3_DRAM"] = answer]
        BY <1>3 DEF DramRead
      <3> HIDE DEF answer
      <3> QED  BY <1>3, <3>2, <3>3 DEF DramRead, BusInv, DramInv, Bus, InsnBus, DataBus,
               RequestOn, AnswerOn
    <2>3. CASE dram_pkt \in StoreRequest
      <3>1. InStorage(dram_pkt.address) \in LaneValue
        BY <2>3, StorageTypes DEF StoreRequest
      <3>2. answer \in StoreAnswer
        BY <2>3, <3>1 DEF StoreRequest, StoreAnswer, Packet
      <3>3. response' = [response EXCEPT !["L3_DRAM"] = answer]
        BY <1>3 DEF DramRead
      <3> HIDE DEF answer
      <3> QED  BY <1>3, <3>2, <3>3 DEF DramRead, BusInv, DramInv, Bus, InsnBus, DataBus,
               RequestOn, AnswerOn
    <2> QED  BY <2>1, <2>2, <2>3
  <1>4. CASE DramWrite
    <2>1. dram_pkt.payload \in LaneValue
      BY <1>4, Kinds DEF DramWrite, DramInv, StoreRequest
    <2> QED  BY <1>4, <2>1 DEF DramWrite, BusInv, DramInv, buses
  <1> QED  BY <1>1, <1>2, <1>3, <1>4 DEF DramTurn

\* The store stage sends one of its accesses.
LEMMA StoreTypes ==
  ASSUME VecInv, ClientInv, StoreTurn PROVE VecInv' /\ load_awaits' \in BOOLEAN
  <1>1. /\ vec_request' \in Slot(VecRequest) /\ vec_response' \in Slot(VecPacket)
        /\ load_awaits' \in BOOLEAN
    BY MemoryHierarchyAssumption DEF VecInv, ClientInv, StoreTurn, vecBus, IsRead
  <1> QED  BY <1>1 DEF StoreTurn, vecVars, VecInv, IsRead, IsWrite, LanesLeft

\* The vectors of a vector packet, and what becomes of one.
LEMMA LanesOfPackets ==
  /\ VecRequest \subseteq VecPacket
  /\ \A pkt \in VecRequest : IsRead(pkt) \/ IsWrite(pkt)
  /\ \A pkt \in VecPacket, t \in Threads : pkt.address[t] \in LaneValue /\ pkt.payload[t] \in LaneValue
  /\ \A pkt \in VecPacket, t \in Threads, x \in LaneValue :
       LET filled == [pkt EXCEPT !.payload[t] = x]
       IN filled \in VecPacket /\ filled.packet_type = pkt.packet_type
  /\ \A pkt \in VecPacket : [pkt EXCEPT !.packet_type = "read_response"] \in VecPacket
  <1>1. VecRequest \subseteq VecPacket
    BY DEF VecRequest
  <1>2. \A pkt \in VecRequest : IsRead(pkt) \/ IsWrite(pkt)
    BY NoneIsNoPacket DEF VecRequest, IsRead, IsWrite
  <1>3. \A pkt \in VecPacket, t \in Threads : pkt.address[t] \in LaneValue /\ pkt.payload[t] \in LaneValue
    BY DEF VecPacket, VectorValue
  <1>4. ASSUME NEW pkt \in VecPacket, NEW t \in Threads, NEW x \in LaneValue
        PROVE  LET filled == [pkt EXCEPT !.payload[t] = x]
               IN filled \in VecPacket /\ filled.packet_type = pkt.packet_type
    <2>1. [pkt.payload EXCEPT ![t] = x] \in VectorValue
      BY DEF VecPacket, VectorValue
    <2> QED  BY <2>1 DEF VecPacket
  <1>5. \A pkt \in VecPacket : [pkt EXCEPT !.packet_type = "read_response"] \in VecPacket
    BY DEF VecPacket
  <1> QED  BY <1>1, <1>2, <1>3, <1>4, <1>5

LEMMA VecTypes ==
  ASSUME BusInv, VecInv, VectorMemoryControllerTurn PROVE BusInv' /\ VecInv'
  <1> USE VectorOpsAssumption
  <1>1. CASE VecAccept
    BY <1>1, LanesOfPackets, NoneIsNoPacket DEF VecAccept, BusInv, VecInv, buses, IsRead, IsWrite
  <1>2. CASE VecSendLane
    <2> DEFINE address == Data(vec_pkt.address[lane])
               read    == Packet("read", "store", address, 0)
               write   == Packet("write", "store", address, vec_pkt.payload[lane])
    <2>1. vec_pkt \in VecPacket /\ lane \in Threads
      BY <1>2 DEF VecSendLane, VecInv, LanesLeft, IsRead, IsWrite, Threads
    <2>2. read \in StoreRequest /\ write \in StoreRequest
      <3>1. address \in DataAddress
        BY <2>1, LanesOfPackets DEF DataAddress
      <3> QED  BY <2>1, <3>1, LanesOfPackets, ZeroIsLaneValue DEF StoreRequest, Packet
    <2>3. CASE request["core_L1d"] # None
      BY <1>2, <2>3 DEF VecSendLane, BusInv, VecInv, buses, vecBus, vecVars, LanesLeft
    <2>4. CASE request["core_L1d"] = None /\ IsRead(vec_pkt)
      <3>1. request' = [request EXCEPT !["core_L1d"] = read] /\ VecTakesLane(response)
        BY <1>2, <2>4 DEF VecSendLane
      <3> HIDE DEF read
      <3>2. UNCHANGED <<vec_pkt, vecBus, lane>> /\ LanesLeft
        BY <1>2, <2>4 DEF VecSendLane
      <3>3. BusInv'
        BY <2>2, <3>1 DEF VecTakesLane, BusInv, Bus, InsnBus, DataBus, RequestOn, AnswerOn
      <3>4. vec_at' = "got_lane" => lane_response' \in LaneValue
        BY <3>1 DEF VecTakesLane, BusInv, Bus, InsnBus, DataBus, AnswerOn, StoreAnswer
      <3>5. VecInv'
        BY <2>4, <3>1, <3>2, <3>4 DEF VecTakesLane, VecInv, vecBus, LanesLeft, IsRead
      <3> QED  BY <3>3, <3>5
    <2>5. CASE request["core_L1d"] = None /\ ~IsRead(vec_pkt)
      <3>1. request' = [request EXCEPT !["core_L1d"] = write]
        BY <1>2, <2>5 DEF VecSendLane
      <3> HIDE DEF write
      <3>2. /\ lane' = lane + 1 /\ vec_at = "lanes"
            /\ UNCHANGED <<vec_pkt, vecBus, vec_at, lane_response, response>>
        BY <1>2, <2>5 DEF VecSendLane
      <3>3. BusInv'
        BY <2>2, <3>1, <3>2 DEF BusInv, Bus, InsnBus, DataBus, RequestOn
      <3>4. VecInv'
        BY <2>1, <3>2 DEF VecInv, vecBus, IsRead, IsWrite, Threads
      <3> QED  BY <3>3, <3>4
    <2> QED  BY <2>3, <2>4, <2>5
  <1>3. CASE VecAwaitLane
    <2>1. BusInv'
      BY <1>3 DEF VecAwaitLane, VecTakesLane, BusInv, Bus, InsnBus, DataBus, RequestOn, AnswerOn
    <2>2. vec_at' = "got_lane" => lane_response' \in LaneValue
      BY <1>3 DEF VecAwaitLane, VecTakesLane, BusInv, Bus, InsnBus, DataBus, AnswerOn, StoreAnswer
    <2>3. VecInv'
      BY <1>3, <2>2 DEF VecAwaitLane, VecTakesLane, VecInv, vecBus, LanesLeft, IsRead
    <2> QED  BY <2>1, <2>3
  <1>4. CASE VecStoreLane
    <2>1. vec_pkt \in VecPacket /\ lane \in Threads /\ lane_response \in LaneValue
      BY <1>4 DEF VecStoreLane, VecInv, LanesLeft, IsRead, Threads
    <2>2. vec_pkt' \in VecPacket /\ vec_pkt'.packet_type = vec_pkt.packet_type
      BY <1>4, <2>1, LanesOfPackets DEF VecStoreLane
    <2> QED  BY <1>4, <2>1, <2>2, NoneIsNoPacket DEF VecStoreLane, BusInv, VecInv, vecBus, buses,
              IsRead, IsWrite, Threads
  <1>5. CASE VecFinish
    BY <1>5, LanesOfPackets DEF VecFinish, BusInv, VecInv, buses, IsRead, IsWrite, LanesLeft
  <1> QED  BY <1>1, <1>2, <1>3, <1>4, <1>5 DEF VectorMemoryControllerTurn

\* What the turn of a component leaves alone keeps its types.
LEMMA UntouchedTypes ==
  /\ BusInv /\ UNCHANGED buses => BusInv'
  /\ L1iInv /\ UNCHANGED l1iVars => L1iInv'
  /\ SelectionInv /\ UNCHANGED selectionVars => SelectionInv'
  /\ MuxInv /\ UNCHANGED muxVars => MuxInv'
  /\ DramInv /\ UNCHANGED dramVars => DramInv'
  /\ VecInv /\ UNCHANGED <<vecBus, vecVars>> => VecInv'
  <1>1. BusInv /\ UNCHANGED buses => BusInv'
    BY DEF BusInv, buses
  <1>2. L1iInv /\ UNCHANGED l1iVars => L1iInv'
    BY DEF L1iInv, l1iVars
  <1>3. SelectionInv /\ UNCHANGED selectionVars => SelectionInv'
    BY DEF SelectionInv, selectionVars
  <1>4. MuxInv /\ UNCHANGED muxVars => MuxInv'
    BY DEF MuxInv, muxVars
  <1>5. DramInv /\ UNCHANGED dramVars => DramInv'
    BY DEF DramInv, dramVars
  <1>6. VecInv /\ UNCHANGED <<vecBus, vecVars>> => VecInv'
    BY DEF VecInv, vecBus, vecVars, IsRead, IsWrite, LanesLeft
  <1> QED  BY <1>1, <1>2, <1>3, <1>4, <1>5, <1>6

LEMMA PassTurnTypes ==
  ASSUME ClientInv, PassTurn, UNCHANGED prog, fetch_awaits' \in Slot(FetchLine),
         load_awaits' \in BOOLEAN
  PROVE  ClientInv'
  <1>1. Len(Order) \in Nat
    BY EveryComponentHasItsTurn
  <1> QED  BY <1>1 DEF ClientInv, PassTurn

\* One step for each component.
LEMMA TypesKept == TypeInv /\ [Next]_vars => TypeInv'
  <1> SUFFICES ASSUME TypeInv, [Next]_vars PROVE TypeInv'
    OBVIOUS
  <1> USE DEF TypeInv
  <1>1. CASE UNCHANGED vars
    BY <1>1, UntouchedTypes DEF vars, parts, clients, ClientInv
  <1>2. CASE Next
    <2> DEFINE c == Order[turn]
    <2>0. Turn(c) /\ PassTurn
      BY <1>2 DEF Next
    <2> HIDE DEF c
    <2>1. CASE NotForward /\ BusInv'
      BY <2>0, <2>1, UntouchedTypes, PassTurnTypes DEF NotForward, clients, ClientInv
    <2>2. CASE InternalMultiplexerTurn
      BY <2>0, <2>2, MuxTypes, UntouchedTypes, PassTurnTypes
      DEF InternalMultiplexerTurn, MuxAccept, MuxForward, MuxRoute, NotMux, clients, ClientInv
    <2>3. CASE DramTurn
      BY <2>0, <2>3, DramTypes, UntouchedTypes, PassTurnTypes
      DEF DramTurn, DramAccept, DramDelay, DramRead, DramWrite, NotDram, clients, ClientInv
    <2>4. CASE FetchTurn
      BY <2>0, <2>4, FetchTypes, UntouchedTypes, PassTurnTypes DEF FetchTurn, ClientInv
    <2>5. CASE StoreTurn
      BY <2>0, <2>5, StoreTypes, UntouchedTypes, PassTurnTypes DEF StoreTurn, ClientInv
    <2>6. CASE L1InsnCacheTurn
      BY <2>0, <2>6, L1InsnCacheTypes, UntouchedTypes, PassTurnTypes
      DEF L1InsnCacheTurn, L1iBoot, L1iAccept, L1iLookup, L1iFill, NotL1i, clients, ClientInv
    <2>7. CASE VectorMemoryControllerTurn
      BY <2>0, <2>7, VecTypes, UntouchedTypes, PassTurnTypes
      DEF VectorMemoryControllerTurn, VecAccept, VecSendLane, VecAwaitLane, VecStoreLane,
          VecFinish, NotVec, clients, ClientInv
    <2>8. ASSUME NEW s \in Sides, SelectionTurn(s) PROVE TypeInv'
      BY <2>0, <2>8, SelectionTypes, UntouchedTypes, PassTurnTypes
      DEF SelectionTurn, SelectionAccept, SelectionForward, SelectionRespond, SelectionRoute,
          NotSelection, clients, ClientInv
    <2>9. \/ L2DataCacheTurn \/ L2InsnCacheTurn \/ L3CacheTurn \/ L1DataCacheTurn
          \/ InternalMultiplexerTurn \/ DramTurn \/ FetchTurn \/ StoreTurn \/ L1InsnCacheTurn
          \/ VectorMemoryControllerTurn \/ \E s \in Sides : SelectionTurn(s)
      BY <2>0 DEF Turn, Sides
    <2>10. CASE L2DataCacheTurn \/ L2InsnCacheTurn \/ L3CacheTurn \/ L1DataCacheTurn
      BY <2>1, <2>10, L1DataCacheTypes, L2DataCacheTypes, L2InsnCacheTypes, L3CacheTypes
      DEF L2DataCacheTurn, L2InsnCacheTurn, L3CacheTurn, L1DataCacheTurn
    <2> QED  BY <2>2, <2>3, <2>4, <2>5, <2>6, <2>7, <2>8, <2>9, <2>10
  <1> QED  BY <1>1, <1>2

LEMMA TypeInvImpliesTypeOK == TypeInv => TypeOK
  <1> SUFFICES ASSUME TypeInv PROVE TypeOK
    OBVIOUS
  <1> USE DEF TypeInv
  <1>1. \A pkt \in FetchRead \union StoreRequest :
          IsPacket(pkt) /\ pkt.packet_type # "read_response"
    BY DEF FetchRead, StoreRequest, IsPacket, CodeAddress, DataAddress
  <1>2. \A pkt \in FetchAnswer \union StoreAnswer :
          IsPacket(pkt) /\ pkt.packet_type = "read_response"
    BY DEF FetchAnswer, StoreAnswer, InsnLine, IsPacket, CodeAddress, DataAddress
  <1>3. ASSUME NEW b \in Bus
        PROVE  /\ request[b] # None => IsPacket(request[b]) /\ request[b].packet_type # "read_response"
               /\ response[b] # None => IsPacket(response[b]) /\ response[b].packet_type = "read_response"
               /\ b \in InsnBus => \A pkt \in {request[b], response[b]} \ {None} : pkt.source = "fetch"
               /\ b \in DataBus => \A pkt \in {request[b], response[b]} \ {None} : pkt.source = "store"
    <2>1. request[b] \in Slot(RequestOn(b)) /\ response[b] \in Slot(AnswerOn(b))
      BY DEF BusInv
    <2>2. /\ RequestOn(b) \subseteq FetchRead \union StoreRequest
          /\ AnswerOn(b) \subseteq FetchAnswer \union StoreAnswer
      BY DEF RequestOn, AnswerOn
    <2>3. b \in InsnBus => RequestOn(b) = FetchRead /\ AnswerOn(b) = FetchAnswer
      BY BusNames
    <2>4. b \in DataBus => RequestOn(b) = StoreRequest /\ AnswerOn(b) = StoreAnswer
      BY BusNames
    <2> QED  BY <1>1, <1>2, <2>1, <2>2, <2>3, <2>4, Kinds
  <1>4. {vec_request, vec_response, vec_pkt} \subseteq Slot(VecPacket)
    BY LanesOfPackets DEF VecInv
  <1>5. /\ storage \in [Addr -> LaneValue]
        /\ l1i_at \in {"boot", "top", "lookup", "fill"}
        /\ selection_at \in [Sides -> {"top", "forward", "respond", "route"}]
        /\ mux_at \in {"top", "forward_fetch", "forward_vec", "route"}
        /\ dram_at \in {"top", "accepted", "delay"}
        /\ vec_at \in {"top", "lanes", "await_lane", "got_lane"}
        /\ lane \in 0 .. NUMBER_OF_VECTOR_THREADS
    BY DEF DramInv, L1iInv, SelectionInv, MuxInv, VecInv
  <1> QED  BY <1>3, <1>4, <1>5 DEF TypeOK, BusInv, ClientInv, InsnBus, DataBus

-----------------------------------------------------------------------------
(***************************************************************************)
(* How a step changes the packets under way: one moves, or one is added or *)
(* removed.                                                                *)
(***************************************************************************)

\* The way down has one place for each stage.
LEMMA Stages ==
  /\ \A p \in Place : Stage(p) \in 0 .. 9
  /\ \A p, q \in Place : Stage(p) = Stage(q) /\ Stage(p) > 0 => p = q
  <1>1. \A b \in Bus : RequestStage[b] \in 0 .. 9
    BY DEF Bus, RequestStage
  <1>2. \A h \in Holder : HolderStage[h] \in 0 .. 9
    BY DEF Holder, HolderStage
  <1>3. \A p \in Place : Stage(p) \in 0 .. 9
    BY <1>1, <1>2 DEF Place, Stage
  <1>4. \A b, c \in Bus : RequestStage[b] = RequestStage[c] /\ RequestStage[b] > 0 => b = c
    BY DEF Bus, RequestStage
  <1>5. \A h, k \in Holder : HolderStage[h] = HolderStage[k] /\ HolderStage[h] > 0 => h = k
    BY DEF Holder, HolderStage
  <1>6. \A b \in Bus, h \in Holder : RequestStage[b] = HolderStage[h] => HolderStage[h] = 0
    BY DEF Bus, RequestStage, Holder, HolderStage
  <1>7. ASSUME NEW p \in Place, NEW q \in Place, Stage(p) = Stage(q), Stage(p) > 0 PROVE p = q
    <2>1. \/ p[1] = "request" /\ p[2] \in Bus /\ p = <<"request", p[2]>>
          \/ p[1] = "held" /\ p[2] \in Holder /\ p = <<"held", p[2]>>
      BY <1>7 DEF Place, Stage
    <2>2. \/ q[1] = "request" /\ q[2] \in Bus /\ q = <<"request", q[2]>>
          \/ q[1] = "held" /\ q[2] \in Holder /\ q = <<"held", q[2]>>
      BY <1>7 DEF Place, Stage
    <2> QED BY <1>7, <1>4, <1>5, <1>6, <2>1, <2>2 DEF Stage
  <1> QED  BY <1>3, <1>7

\* A packet moves: its place p is emptied, and a packet that carries on its errand is
\* put in the empty place q.
Moves(f, g, p, q) ==
  /\ p \in Place /\ q \in Place /\ p # q /\ f[p] # None /\ f[q] = None
  /\ g[p] = None /\ g[q] # None
  /\ \A r \in Place \ {p, q} : g[r] = f[r]

\* A read that moves is still the only one of its client.
LEMMA MovedRead ==
  ASSUME NEW f, NEW g, NEW p, NEW q, NEW s, NEW waits \in BOOLEAN, Moves(f, g, p, q), OneRead(f, s, waits),
         g[q].source = f[p].source, IsWrite(g[q]) <=> IsWrite(f[p])
  PROVE  OneRead(g, s, waits)
  <1>1. IsReadOf(g[q], s) <=> IsReadOf(f[p], s)
    BY DEF Moves, IsReadOf
  <1>2. ~IsReadOf(None, s)
    BY DEF IsReadOf
  <1>3. Reads(g, s) = {IF r = p THEN q ELSE r : r \in Reads(f, s)}
    BY <1>1, <1>2 DEF Moves, Reads
  <1> QED  BY <1>3 DEF OneRead, Moves

\* The packet y at stage j carries on the errand of the packet x at stage i: a request
\* goes one stage further, or a read is answered at the last.
Carried(x, y, i, j) ==
  /\ x # None /\ y # None /\ y.source = x.source /\ (IsWrite(y) <=> IsWrite(x))
  /\ IsWrite(x) \/ (IsRead(x) /\ x.source = "store") =>
       \/ i > 0 /\ j = i + 1 /\ (IsRead(y) <=> IsRead(x))
       \/ i = 9 /\ IsRead(x)

\* A packet that moves on by one stage, or turns into its answer, keeps the order.
LEMMA MovedPacket ==
  ASSUME NEW f, NEW g, NEW p, NEW q, NEW fetching \in BOOLEAN, NEW loading \in BOOLEAN,
         Moves(f, g, p, q), InOrder(f, fetching, loading),
         Carried(f[p], g[q], Stage(p), Stage(q))
  PROVE  InOrder(g, fetching, loading)
  <1>0. p \in Place /\ q \in Place
    BY DEF Moves
  <1>1. OneRead(g, "fetch", fetching) /\ OneRead(g, "store", loading)
    BY MovedRead DEF InOrder, Carried
  <1>2. ASSUME NEW r \in Place, IsWrite(g[r]) PROVE Stage(r) > 0
    <2>1. CASE r = q
      <3>1. IsWrite(f[p]) /\ ~IsRead(f[p])
        BY <1>2, <2>1 DEF Carried, IsWrite, IsRead
      <3> QED  BY <1>0, <2>1, <3>1, Stages DEF Carried
    <2>2. CASE r # q
      BY <1>2, <2>2 DEF Moves, InOrder, IsWrite
    <2> QED  BY <2>1, <2>2
  <1>3. ASSUME NEW a \in Place, NEW b \in Place, IsReadOf(g[a], "store"), IsWrite(g[b])
        PROVE  IsRead(g[a]) /\ Stage(a) < Stage(b)
    <2>0. a # p /\ b # p /\ a # b
      BY <1>3 DEF Moves, IsReadOf, IsWrite
    <2>1. CASE a # q /\ b # q
      BY <1>3, <2>0, <2>1 DEF Moves, InOrder, NoWriteBehindRead
    <2>2. CASE a = q
      <3>1. IsReadOf(f[p], "store") /\ IsWrite(f[b]) /\ f[p].source = "store"
        BY <1>3, <2>0, <2>2 DEF Moves, IsReadOf, Carried
      <3>2. IsRead(f[p]) /\ Stage(p) < Stage(b)
        BY <3>1, <1>0 DEF InOrder, NoWriteBehindRead
      <3>3. Stage(b) \in 0 .. 9 /\ Stage(p) \in 0 .. 9 /\ Stage(b) # Stage(p)
        BY <1>0, <3>2, Stages
      <3>4. Stage(q) = Stage(b) => Stage(b) = 0
        BY <1>0, <2>0, <2>2, Stages
      <3> QED  BY <2>2, <3>1, <3>2, <3>3, <3>4 DEF Carried
    <2>3. CASE b = q
      <3>1. IsReadOf(f[a], "store") /\ IsWrite(f[p]) /\ ~IsRead(f[p])
        BY <1>3, <2>0, <2>3 DEF Moves, Carried, IsWrite, IsRead
      <3>2. IsRead(f[a]) /\ Stage(a) < Stage(p)
        BY <3>1, <1>0 DEF InOrder, NoWriteBehindRead
      <3>3. Stage(a) \in 0 .. 9 /\ Stage(p) \in 0 .. 9
        BY <1>0, Stages
      <3> QED  BY <2>0, <2>3, <3>1, <3>2, <3>3 DEF Moves, Carried
    <2> QED  BY <2>1, <2>2, <2>3
  <1> QED  BY <1>1, <1>2, <1>3 DEF InOrder, NoWriteBehindRead

\* A client asks: its only read appears.
LEMMA AddedRead ==
  ASSUME NEW f, NEW g, NEW q \in Place, NEW s, f[q] = None, \A r \in Place \ {q} : g[r] = f[r],
         OneRead(f, s, FALSE), IsReadOf(g[q], s)
  PROVE  OneRead(g, s, TRUE)
  <1>1. Reads(g, s) = {q}
    BY DEF OneRead, Reads
  <1> QED  BY <1>1 DEF OneRead

\* A place without a read of the client, before and after, does not matter to it.
LEMMA OtherRead ==
  ASSUME NEW f, NEW g, NEW q \in Place, NEW s, NEW waits \in BOOLEAN, 
         \A r \in Place \ {q} : g[r] = f[r],
         OneRead(f, s, waits), ~IsReadOf(f[q], s), ~IsReadOf(g[q], s)
  PROVE  OneRead(g, s, waits)
  <1>1. Reads(g, s) = Reads(f, s)
    BY DEF Reads
  <1> QED  BY <1>1 DEF OneRead

\* A client takes its answer: no read of it is left.
LEMMA RemovedRead ==
  ASSUME NEW f, NEW g, NEW q \in Place, NEW s, \A r \in Place \ {q} : g[r] = f[r],
         OneRead(f, s, TRUE), IsReadOf(f[q], s), ~IsReadOf(g[q], s)
  PROVE  OneRead(g, s, FALSE)
  <1>1. q \in Reads(f, s) /\ Reads(g, s) = Reads(f, s) \ {q}
    BY DEF Reads
  <1> QED  BY <1>1 DEF OneRead

LEMMA OnlyRead ==
  ASSUME NEW f, NEW s, NEW waits, OneRead(f, s, waits),
         NEW p \in Place, NEW q \in Place, IsReadOf(f[p], s), IsReadOf(f[q], s)
  PROVE  p = q /\ waits
  BY DEF OneRead, Reads

\* A packet moves from a bus to the next one, or between a bus and a component, down
\* and up.
LEMMA RequestPassed ==
  ASSUME NEW req, NEW resp, NEW held, NEW reqs, NEW b \in Bus, NEW c \in Bus,
         b # c, req[c] = None, reqs[b] = None, \A d \in Bus \ {b, c} : reqs[d] = req[d],
         Carried(req[b], reqs[c], RequestStage[b], RequestStage[c]),
         Ordered(req, resp, held)
  PROVE  Ordered(reqs, resp, held)
  <1>1. Moves(Traffic(req, resp, held), Traffic(reqs, resp, held), <<"request", b>>, <<"request", c>>)
    BY DEF Moves, Traffic, Place, Carried
  <1>2. /\ Traffic(req, resp, held)[<<"request", b>>] = req[b]
        /\ Traffic(reqs, resp, held)[<<"request", c>>] = reqs[c]
    BY DEF Traffic, Place
  <1>3. Stage(<<"request", b>>) = RequestStage[b] /\ Stage(<<"request", c>>) = RequestStage[c]
    BY DEF Stage
  <1> QED  BY <1>1, <1>2, <1>3, MovedPacket DEF Ordered, Fetching, Loading

LEMMA AnswerPassed ==
  ASSUME NEW req, NEW resp, NEW held, NEW resps, NEW b \in Bus, NEW c \in Bus,
         b # c, resp[c] = None, resps[b] = None, \A d \in Bus \ {b, c} : resps[d] = resp[d],
         Carried(resp[b], resps[c], 0, 0),
         Ordered(req, resp, held)
  PROVE  Ordered(req, resps, held)
  <1>1. Moves(Traffic(req, resp, held), Traffic(req, resps, held), <<"response", b>>, <<"response", c>>)
    BY DEF Moves, Traffic, Place, Carried
  <1>2. /\ Traffic(req, resp, held)[<<"response", b>>] = resp[b]
        /\ Traffic(req, resps, held)[<<"response", c>>] = resps[c]
    BY DEF Traffic, Place
  <1>3. Stage(<<"response", b>>) = 0 /\ Stage(<<"response", c>>) = 0
    BY DEF Stage
  <1> QED  BY <1>1, <1>2, <1>3, MovedPacket DEF Ordered, Fetching, Loading

LEMMA RequestTaken ==
  ASSUME NEW req, NEW resp, NEW held, NEW reqs, NEW holds, NEW b \in Bus, NEW h \in Holder,
         held[h] = None, reqs[b] = None, \A d \in Bus \ {b} : reqs[d] = req[d],
         \A k \in Holder \ {h} : holds[k] = held[k],
         Carried(req[b], holds[h], RequestStage[b], HolderStage[h]),
         Ordered(req, resp, held)
  PROVE  Ordered(reqs, resp, holds)
  <1>1. Moves(Traffic(req, resp, held), Traffic(reqs, resp, holds), <<"request", b>>, <<"held", h>>)
    BY DEF Moves, Traffic, Place, Carried
  <1>2. /\ Traffic(req, resp, held)[<<"request", b>>] = req[b]
        /\ Traffic(reqs, resp, holds)[<<"held", h>>] = holds[h]
    BY DEF Traffic, Place
  <1>3. Stage(<<"request", b>>) = RequestStage[b] /\ Stage(<<"held", h>>) = HolderStage[h]
    BY DEF Stage
  <1> QED  BY <1>1, <1>2, <1>3, MovedPacket DEF Ordered, Fetching, Loading

LEMMA RequestSent ==
  ASSUME NEW req, NEW resp, NEW held, NEW reqs, NEW holds, NEW b \in Bus, NEW h \in Holder,
         holds[h] = None, req[b] = None, \A d \in Bus \ {b} : reqs[d] = req[d],
         \A k \in Holder \ {h} : holds[k] = held[k],
         Carried(held[h], reqs[b], HolderStage[h], RequestStage[b]),
         Ordered(req, resp, held)
  PROVE  Ordered(reqs, resp, holds)
  <1>1. Moves(Traffic(req, resp, held), Traffic(reqs, resp, holds), <<"held", h>>, <<"request", b>>)
    BY DEF Moves, Traffic, Place, Carried
  <1>2. /\ Traffic(req, resp, held)[<<"held", h>>] = held[h]
        /\ Traffic(reqs, resp, holds)[<<"request", b>>] = reqs[b]
    BY DEF Traffic, Place
  <1>3. Stage(<<"held", h>>) = HolderStage[h] /\ Stage(<<"request", b>>) = RequestStage[b]
    BY DEF Stage
  <1> QED  BY <1>1, <1>2, <1>3, MovedPacket DEF Ordered, Fetching, Loading

LEMMA AnswerTaken ==
  ASSUME NEW req, NEW resp, NEW held, NEW resps, NEW holds, NEW b \in Bus, NEW h \in Holder,
         held[h] = None, resps[b] = None, \A d \in Bus \ {b} : resps[d] = resp[d],
         \A k \in Holder \ {h} : holds[k] = held[k],
         Carried(resp[b], holds[h], 0, HolderStage[h]),
         Ordered(req, resp, held)
  PROVE  Ordered(req, resps, holds)
  <1>1. Moves(Traffic(req, resp, held), Traffic(req, resps, holds), <<"response", b>>, <<"held", h>>)
    BY DEF Moves, Traffic, Place, Carried
  <1>2. /\ Traffic(req, resp, held)[<<"response", b>>] = resp[b]
        /\ Traffic(req, resps, holds)[<<"held", h>>] = holds[h]
    BY DEF Traffic, Place
  <1>3. Stage(<<"response", b>>) = 0 /\ Stage(<<"held", h>>) = HolderStage[h]
    BY DEF Stage
  <1> QED  BY <1>1, <1>2, <1>3, MovedPacket DEF Ordered, Fetching, Loading

LEMMA AnswerSent ==
  ASSUME NEW req, NEW resp, NEW held, NEW resps, NEW holds, NEW b \in Bus, NEW h \in Holder,
         holds[h] = None, resp[b] = None, \A d \in Bus \ {b} : resps[d] = resp[d],
         \A k \in Holder \ {h} : holds[k] = held[k],
         Carried(held[h], resps[b], HolderStage[h], 0),
         Ordered(req, resp, held)
  PROVE  Ordered(req, resps, holds)
  <1>1. Moves(Traffic(req, resp, held), Traffic(req, resps, holds), <<"held", h>>, <<"response", b>>)
    BY DEF Moves, Traffic, Place, Carried
  <1>2. /\ Traffic(req, resp, held)[<<"held", h>>] = held[h]
        /\ Traffic(req, resps, holds)[<<"response", b>>] = resps[b]
    BY DEF Traffic, Place
  <1>3. Stage(<<"held", h>>) = HolderStage[h] /\ Stage(<<"response", b>>) = 0
    BY DEF Stage
  <1> QED  BY <1>1, <1>2, <1>3, MovedPacket DEF Ordered, Fetching, Loading

-----------------------------------------------------------------------------
(***************************************************************************)
(* Every step keeps the order of the packets and overwrites none, by       *)
(* component.                                                              *)
(***************************************************************************)

\* A packet in a slot stays there or is taken: no step puts another in its place.
NothingOverwritten ==
  \A b \in Bus :
    /\ request[b] # None => request'[b] \in {request[b], None}
    /\ response[b] # None => response'[b] \in {response[b], None}

\* Every packet a component passes on carries on the errand of the one it took.
LEMMA CarriedOn ==
  /\ \A x, y \in FetchRead \union FetchAnswer : \A i, j : Carried(x, y, i, j)
  /\ \A x \in StoreAnswer : \A i, j : Carried(x, x, i, j)
  /\ \A x \in FetchRead \union StoreRequest : \A i \in 1 .. 8 : Carried(x, x, i, i + 1)
  /\ \A x \in StoreRequest, y \in StoreAnswer : \A j : IsRead(x) => Carried(x, y, 9, j)
  <1>1. \A x, y \in FetchRead \union FetchAnswer : \A i, j : Carried(x, y, i, j)
    BY Kinds, NoneIsNoPacket DEF Carried
  <1>2. \A x \in StoreAnswer : \A i, j : Carried(x, x, i, j)
    BY Kinds, NoneIsNoPacket DEF Carried
  <1>3. \A x \in FetchRead \union StoreRequest : \A i \in 1 .. 8 : Carried(x, x, i, i + 1)
    BY Kinds, NoneIsNoPacket DEF Carried
  <1>4. ASSUME NEW x \in StoreRequest, NEW y \in StoreAnswer, NEW j, IsRead(x)
        PROVE  Carried(x, y, 9, j)
    <2>1. x # None /\ y # None /\ x.source = "store" /\ y.source = "store" /\ ~IsWrite(y)
      BY Kinds, NoneIsNoPacket
    <2>2. ~IsWrite(x)
      BY <1>4 DEF IsRead, IsWrite
    <2> QED  BY <1>4, <2>1, <2>2 DEF Carried
  <1> QED  BY <1>1, <1>2, <1>3, <1>4

\* The packets under way are those on the buses and in the components.
LEMMA TrafficAt ==
  /\ \A b \in Bus : /\ <<"request", b>> \in Place /\ <<"response", b>> \in Place
                    /\ traffic[<<"request", b>>] = request[b]
                    /\ traffic[<<"response", b>>] = response[b]
  /\ \A h \in Holder : <<"held", h>> \in Place /\ traffic[<<"held", h>>] = Holding[h]
  BY DEF traffic, Traffic, Place

\* Two reads of one client cannot be under way.
LEMMA TwoReads ==
  ASSUME TrafficInv, NEW p \in Place, NEW q \in Place, p # q,
         NEW s \in {"fetch", "store"}, IsReadOf(traffic[p], s), IsReadOf(traffic[q], s)
  PROVE  FALSE
  BY OnlyRead DEF TrafficInv, InOrder

\* Every packet but a write is a read of its client.
LEMMA AnswersAndFetchesAreReads ==
  /\ \A pkt \in FetchRead \union FetchAnswer : IsReadOf(pkt, "fetch")
  /\ \A pkt \in StoreAnswer : IsReadOf(pkt, "store")
  /\ \A pkt \in FetchRead \union FetchAnswer \union StoreRequest \union StoreAnswer :
       /\ pkt # None
       /\ IsRead(pkt) => IsReadOf(pkt, pkt.source)
       /\ ~IsWrite(pkt) => IsReadOf(pkt, pkt.source)
  BY Kinds, NoneIsNoPacket DEF IsReadOf, IsRead, IsWrite

\* On the side of one client there is at most one answer, and at most one read of code.
LEMMA OneAnswerPerSide ==
  ASSUME TypeInv, TrafficInv, NEW b \in Bus, NEW c \in Bus, b # c
  PROVE  /\ {b, c} \subseteq InsnBus => request[b] = None \/ request[c] = None
         /\ {b, c} \subseteq InsnBus => response[b] = None \/ response[c] = None
         /\ {b, c} \subseteq DataBus => response[b] = None \/ response[c] = None
  <1>1. /\ request[b] \in Slot(RequestOn(b)) /\ response[b] \in Slot(AnswerOn(b))
        /\ request[c] \in Slot(RequestOn(c)) /\ response[c] \in Slot(AnswerOn(c))
    BY DEF TypeInv, BusInv
  <1>2. ASSUME {b, c} \subseteq InsnBus
        PROVE  (request[b] = None \/ request[c] = None) /\ (response[b] = None \/ response[c] = None)
    <2>1. \A d \in {b, c} : /\ request[d] # None => IsReadOf(request[d], "fetch")
                            /\ response[d] # None => IsReadOf(response[d], "fetch")
      BY <1>1, <1>2, BusNames, AnswersAndFetchesAreReads
    <2>2. request[b] = None \/ request[c] = None
      <3> SUFFICES ASSUME request[b] # None, request[c] # None PROVE FALSE
        OBVIOUS
      <3>1. \A d \in {b, c} : <<"request", d>> \in Place /\ IsReadOf(traffic[<<"request", d>>], "fetch")
        BY <2>1, TrafficAt
      <3> QED  BY <3>1, TwoReads
    <2>3. response[b] = None \/ response[c] = None
      <3> SUFFICES ASSUME response[b] # None, response[c] # None PROVE FALSE
        OBVIOUS
      <3>1. \A d \in {b, c} : <<"response", d>> \in Place /\ IsReadOf(traffic[<<"response", d>>], "fetch")
        BY <2>1, TrafficAt
      <3> QED  BY <3>1, TwoReads
    <2> QED  BY <2>2, <2>3
  <1>3. ASSUME {b, c} \subseteq DataBus PROVE response[b] = None \/ response[c] = None
    <2> SUFFICES ASSUME response[b] # None, response[c] # None PROVE FALSE
      OBVIOUS
    <2>1. \A d \in {b, c} : IsReadOf(response[d], "store")
      BY <1>1, <1>3, BusNames, AnswersAndFetchesAreReads
    <2>2. \A d \in {b, c} : <<"response", d>> \in Place /\ IsReadOf(traffic[<<"response", d>>], "store")
      BY <2>1, TrafficAt
    <2> QED  BY <2>2, TwoReads
  <1> QED  BY <1>2, <1>3

\* A data cache moves a packet down, and one up if the slot above is empty then.
LEMMA PassOrder ==
  ASSUME TypeInv, TrafficInv, NotForward,
         NEW up \in Bus, NEW down \in Bus, up # down, PassRequest(up, down),
         RequestStage[up] \in 1 .. 8, RequestStage[down] = RequestStage[up] + 1,
         RequestOn(up) \subseteq FetchRead \union StoreRequest,
         \/ UNCHANGED response
         \/ PassResponse(up, down) /\ (response[down] # None => response[up] = None)
  PROVE  TrafficInv' /\ NothingOverwritten
  <1>0. Ordered(request, response, Holding)
    BY DEF TrafficInv, traffic, Ordered
  <1>1. /\ DOMAIN request = Bus /\ DOMAIN response = Bus
        /\ request[up] \in Slot(FetchRead \union StoreRequest)
        /\ response[down] \in Slot(FetchAnswer \union StoreAnswer)
    BY DEF TypeInv, BusInv, AnswerOn
  <1>2. Ordered(request', response, Holding)
    <2>1. CASE request[down] = None /\ request[up] # None
      <3>1. /\ request'[up] = None /\ request'[down] = request[up]
            /\ \A d \in Bus \ {up, down} : request'[d] = request[d]
        BY <1>1, <2>1 DEF PassRequest, Moved
      <3>2. Carried(request[up], request'[down], RequestStage[up], RequestStage[down])
        BY <1>1, <2>1, <3>1, CarriedOn
      <3> QED  BY <1>0, <2>1, <3>1, <3>2, RequestPassed
    <2>2. CASE ~(request[down] = None /\ request[up] # None)
      BY <1>0, <2>2 DEF PassRequest
    <2> QED  BY <2>1, <2>2
  <1>3. Ordered(request', response', Holding)
    <2>1. CASE response' = Moved(response, down, up) /\ response[down] # None /\ response[up] = None
      <3>1. /\ response'[down] = None /\ response'[up] = response[down]
            /\ \A d \in Bus \ {up, down} : response'[d] = response[d]
        BY <1>1, <2>1 DEF Moved
      <3>2. Carried(response[down], response'[up], 0, 0)
        BY <1>1, <2>1, <3>1, CarriedOn
      <3> HIDE <2>1
      <3>3. response[up] = None
        BY <2>1
      <3> QED  BY <1>2, <3>1, <3>2, <3>3, AnswerPassed
    <2>2. CASE response' = response
      BY <1>2, <2>2
    <2> QED  BY <2>1, <2>2 DEF PassResponse
  <1>4. NothingOverwritten
    BY <1>1 DEF NothingOverwritten, PassRequest, PassResponse, Moved
  <1>5. Holding' = Holding /\ UNCHANGED <<fetch_awaits, vec_at>>
    BY DEF NotForward, Holding, l1iVars, selectionVars, muxVars, dramVars, clients, vecVars
  <1> QED  BY <1>3, <1>4, <1>5 DEF TrafficInv, traffic, Ordered, Fetching, Loading

\* The L2 instruction cache answers and asks without testing the slots it fills: one
\* read of fetch is under way, so they are empty.
LEMMA L2InsnCacheOrder ==
  ASSUME TypeInv, TrafficInv, L2InsnCacheTurn PROVE TrafficInv' /\ NothingOverwritten
  <1> DEFINE asked    == request["core_L2i"]
             answered == response["L2i_mux"]
             read     == Packet("read", asked.source, asked.address, asked.address)
             answer   == Packet("read_response", answered.source, answered.address, answered.payload)
  <1>0. Ordered(request, response, Holding)
    BY DEF TrafficInv, traffic, Ordered
  <1>1. /\ DOMAIN request = Bus /\ DOMAIN response = Bus
        /\ asked \in Slot(FetchRead) /\ answered \in Slot(FetchAnswer)
    BY DEF TypeInv, BusInv, Bus, InsnBus, RequestOn, AnswerOn
  <1>2. /\ {"core_L2i", "L2i_mux"} \subseteq Bus
        /\ asked # None => request["L2i_mux"] = None
        /\ answered # None => response["core_L2i"] = None
    BY OneAnswerPerSide DEF Bus, InsnBus
  <1>3. /\ asked # None => read \in FetchRead
        /\ answered # None => answer \in FetchAnswer
    BY <1>1 DEF FetchRead, FetchAnswer, Packet
  <1>4. /\ request' = IF asked = None THEN request
                      ELSE [request EXCEPT !["core_L2i"] = None, !["L2i_mux"] = read]
        /\ response' = IF answered = None THEN response
                       ELSE [response EXCEPT !["L2i_mux"] = None, !["core_L2i"] = answer]
    BY DEF L2InsnCacheTurn
  <1> HIDE DEF read, answer
  <1>5. Ordered(request', response, Holding)
    <2>1. CASE asked # None
      <3>1. /\ request'["core_L2i"] = None /\ request'["L2i_mux"] = read
            /\ \A d \in Bus \ {"core_L2i", "L2i_mux"} : request'[d] = request[d]
        BY <1>1, <1>2, <1>4, <2>1
      <3>2. Carried(asked, read, 0, 0)
        BY <1>1, <1>3, <2>1, CarriedOn
      <3>3. RequestStage["core_L2i"] = 0 /\ RequestStage["L2i_mux"] = 0
        BY DEF RequestStage
      <3> QED  BY <1>0, <1>2, <2>1, <3>1, <3>2, <3>3, RequestPassed
    <2>2. CASE asked = None
      BY <1>0, <1>4, <2>2
    <2> QED  BY <2>1, <2>2
  <1>6. Ordered(request', response', Holding)
    <2>1. CASE answered # None
      <3>1. /\ response'["L2i_mux"] = None /\ response'["core_L2i"] = answer
            /\ \A d \in Bus \ {"core_L2i", "L2i_mux"} : response'[d] = response[d]
        BY <1>1, <1>2, <1>4, <2>1
      <3>2. Carried(answered, answer, 0, 0)
        BY <1>1, <1>3, <2>1, CarriedOn
      <3> QED  BY <1>5, <1>2, <2>1, <3>1, <3>2, AnswerPassed
    <2>2. CASE answered = None
      BY <1>5, <1>4, <2>2
    <2> QED  BY <2>1, <2>2
  <1>7. NothingOverwritten
    BY <1>1, <1>2, <1>4 DEF NothingOverwritten
  <1>8. Holding' = Holding /\ UNCHANGED <<fetch_awaits, vec_at>>
    BY DEF L2InsnCacheTurn, NotForward, Holding, l1iVars, selectionVars, muxVars, dramVars, clients,
       vecVars
  <1> QED  BY <1>6, <1>7, <1>8 DEF TrafficInv, traffic, Ordered, Fetching, Loading

\* The data caches have one answer on their side; the L3 cache relies on the rounds.
LEMMA ForwardOrder ==
  ASSUME TypeInv, TrafficInv, RoundInv, L1DataCacheTurn \/ L2DataCacheTurn \/ L3CacheTurn
  PROVE  TrafficInv' /\ NothingOverwritten
  <1>0. \A b \in Bus : RequestOn(b) \subseteq FetchRead \union StoreRequest
    BY DEF RequestOn
  <1>1. CASE L1DataCacheTurn
    BY <1>0, <1>1, PassOrder DEF L1DataCacheTurn, Bus, RequestStage
  <1>2. CASE L2DataCacheTurn
    <2>1. response["L2d_mux"] # None => response["core_L2d"] = None
      BY OneAnswerPerSide DEF Bus, DataBus
    <2> QED  BY <1>0, <1>2, <2>1, PassOrder DEF L2DataCacheTurn, Bus, RequestStage
  <1>3. CASE L3CacheTurn
    BY <1>0, <1>3, PassOrder DEF L3CacheTurn, Bus, RequestStage, RoundInv
  <1> QED  BY <1>1, <1>2, <1>3

\* A change to one bus or one component is a change at one place.
LEMMA ChangedPlace ==
  ASSUME NEW req, NEW resp, NEW held
  PROVE  /\ \A reqs : \A b \in Bus : (\A d \in Bus \ {b} : reqs[d] = req[d]) =>
              \A r \in Place \ {<<"request", b>>} :
                Traffic(reqs, resp, held)[r] = Traffic(req, resp, held)[r]
         /\ \A resps : \A b \in Bus : (\A d \in Bus \ {b} : resps[d] = resp[d]) =>
              \A r \in Place \ {<<"response", b>>} :
                Traffic(req, resps, held)[r] = Traffic(req, resp, held)[r]
         /\ \A holds : \A h \in Holder : (\A k \in Holder \ {h} : holds[k] = held[k]) =>
              \A r \in Place \ {<<"held", h>>} :
                Traffic(req, resp, holds)[r] = Traffic(req, resp, held)[r]
  BY DEF Traffic, Place

\* When one place changes no write gets behind a read if the place had none, or is
\* first on the way down, or takes a write while no load waits.
LEMMA ChangedPacket ==
  ASSUME NEW f, NEW g, NEW q \in Place, \A r \in Place \ {q} : g[r] = f[r], NoWriteBehindRead(f),
         \A p \in Place : IsWrite(f[p]) => Stage(p) > 0,
         \/ ~IsReadOf(g[q], "store") /\ ~IsWrite(g[q])
         \/ IsRead(g[q]) /\ Stage(q) = 1
         \/ IsWrite(g[q]) /\ Stage(q) > 0 /\ OneRead(f, "store", FALSE)
  PROVE  NoWriteBehindRead(g) /\ \A p \in Place : IsWrite(g[p]) => Stage(p) > 0
  <1>1. \A p \in Place : IsWrite(g[p]) => Stage(p) > 0
    BY DEF IsRead, IsWrite
  <1>2. ASSUME NEW a \in Place, NEW b \in Place, IsReadOf(g[a], "store"), IsWrite(g[b])
        PROVE  IsRead(g[a]) /\ Stage(a) < Stage(b)
    <2>1. a # b
      BY <1>2 DEF IsReadOf
    <2>2. CASE a # q /\ b # q
      BY <1>2, <2>2 DEF NoWriteBehindRead
    <2>3. CASE a = q
      <3>1. IsRead(g[a]) /\ Stage(a) = 1
        BY <1>2, <2>3 DEF IsReadOf
      <3> QED  BY <1>1, <1>2, <2>1, <3>1, Stages
    <2>4. CASE b = q
      <3>1. OneRead(f, "store", FALSE) /\ IsReadOf(f[a], "store")
        BY <1>2, <2>1, <2>4 DEF IsRead, IsWrite
      <3> QED  BY <3>1 DEF OneRead, Reads
    <2> QED  BY <2>2, <2>3, <2>4
  <1> QED  BY <1>1, <1>2 DEF NoWriteBehindRead

\* A client that does not wait sends a request, a read or a write.
LEMMA FetchAdded ==
  ASSUME NEW f, NEW g, NEW q \in Place, f[q] = None, \A r \in Place \ {q} : g[r] = f[r],
         NEW loading \in BOOLEAN, InOrder(f, FALSE, loading), g[q] \in FetchRead
  PROVE  InOrder(g, TRUE, loading)
  <1>1. IsReadOf(g[q], "fetch") /\ ~IsReadOf(g[q], "store") /\ ~IsWrite(g[q])
    BY AnswersAndFetchesAreReads, Kinds DEF IsReadOf
  <1>2. OneRead(g, "fetch", TRUE)
    BY <1>1, AddedRead DEF InOrder
  <1>3. OneRead(g, "store", loading)
    BY <1>1, OtherRead DEF InOrder, IsReadOf
  <1> QED  BY <1>1, <1>2, <1>3, ChangedPacket DEF InOrder

LEMMA LoadAdded ==
  ASSUME NEW f, NEW g, NEW q \in Place, f[q] = None, \A r \in Place \ {q} : g[r] = f[r],
         NEW fetching \in BOOLEAN, InOrder(f, fetching, FALSE),
         g[q] \in StoreRequest, IsRead(g[q]), Stage(q) = 1
  PROVE  InOrder(g, fetching, TRUE)
  <1>1. IsReadOf(g[q], "store") /\ ~IsReadOf(g[q], "fetch")
    BY Kinds DEF IsReadOf, IsRead, IsWrite
  <1>2. OneRead(g, "store", TRUE)
    BY <1>1, AddedRead DEF InOrder
  <1>3. OneRead(g, "fetch", fetching)
    <2>1. OneRead(f, "fetch", fetching) /\ ~IsReadOf(f[q], "fetch")
      BY DEF InOrder, IsReadOf
    <2> QED  BY <1>1, <2>1, OtherRead
  <1> QED  BY <1>2, <1>3, ChangedPacket DEF InOrder

LEMMA WriteAdded ==
  ASSUME NEW f, NEW g, NEW q \in Place, f[q] = None, \A r \in Place \ {q} : g[r] = f[r],
         NEW fetching \in BOOLEAN, InOrder(f, fetching, FALSE), IsWrite(g[q]), Stage(q) > 0
  PROVE  InOrder(g, fetching, FALSE)
  <1>1. ~IsReadOf(g[q], "store") /\ ~IsReadOf(g[q], "fetch")
    BY DEF IsReadOf
  <1>2. OneRead(g, "store", FALSE) /\ OneRead(f, "store", FALSE)
    BY <1>1, OtherRead DEF InOrder, IsReadOf
  <1>3. OneRead(g, "fetch", fetching)
    BY <1>1, OtherRead DEF InOrder, IsReadOf
  <1> QED  BY <1>2, <1>3, ChangedPacket DEF InOrder

\* A client takes its answer, or the DRAM a write.
LEMMA PacketRemoved ==
  ASSUME NEW f, NEW g, NEW q \in Place, g[q] = None, \A r \in Place \ {q} : g[r] = f[r],
         NEW fetching \in BOOLEAN, NEW loading \in BOOLEAN, InOrder(f, fetching, loading)
  PROVE  /\ f[q] \in FetchAnswer => fetching /\ InOrder(g, FALSE, loading)
         /\ f[q] \in StoreAnswer => loading /\ InOrder(g, fetching, FALSE)
         /\ IsWrite(f[q]) => InOrder(g, fetching, loading)
  <1>0. \A s : ~IsReadOf(g[q], s)
    BY DEF IsReadOf
  <1>1. NoWriteBehindRead(g) /\ \A p \in Place : IsWrite(g[p]) => Stage(p) > 0
    BY <1>0, ChangedPacket DEF InOrder, IsWrite
  <1>2. ASSUME NEW s \in {"fetch", "store"}, NEW waits \in BOOLEAN, OneRead(f, s, waits)
        PROVE  /\ IsReadOf(f[q], s) => waits /\ OneRead(g, s, FALSE)
               /\ ~IsReadOf(f[q], s) => OneRead(g, s, waits)
    <2>1. ASSUME IsReadOf(f[q], s) PROVE waits /\ OneRead(g, s, FALSE)
      <3>1. waits = TRUE
        BY <1>2, <2>1, OnlyRead
      <3> QED  BY <1>0, <1>2, <2>1, <3>1, RemovedRead
    <2>2. ASSUME ~IsReadOf(f[q], s) PROVE OneRead(g, s, waits)
      BY <1>0, <1>2, <2>2, OtherRead
    <2> QED  BY <2>1, <2>2
  <1>3. /\ f[q] \in FetchAnswer => IsReadOf(f[q], "fetch") /\ ~IsReadOf(f[q], "store")
        /\ f[q] \in StoreAnswer => IsReadOf(f[q], "store") /\ ~IsReadOf(f[q], "fetch")
        /\ IsWrite(f[q]) => ~IsReadOf(f[q], "store") /\ ~IsReadOf(f[q], "fetch")
    BY AnswersAndFetchesAreReads, Kinds DEF IsReadOf
  <1> QED  BY <1>1, <1>2, <1>3 DEF InOrder

LEMMA FetchOrder ==
  ASSUME TypeInv, TrafficInv, FetchTurn PROVE TrafficInv' /\ NothingOverwritten
  <1>0. /\ DOMAIN request = Bus /\ DOMAIN response = Bus
        /\ request["core_L1i"] \in Slot(FetchRead) /\ response["core_L1i"] \in Slot(FetchAnswer)
        /\ "core_L1i" \in Bus /\ Fetching \in BOOLEAN /\ Loading \in BOOLEAN
    BY DEF TypeInv, BusInv, Bus, InsnBus, RequestOn, AnswerOn, Fetching, Loading
  <1>1. Holding' = Holding /\ UNCHANGED vec_at
    BY DEF FetchTurn, Holding, l1iVars, selectionVars, muxVars, dramVars, vecVars
  <1>2. CASE /\ fetch_awaits = None
             /\ \E pc \in FetchLine :
                  /\ fetch_awaits' = pc
                  /\ request' = [request EXCEPT !["core_L1i"] = Packet("read", "fetch", Code(pc), 0)]
             /\ UNCHANGED response
    <2>1. PICK pc \in FetchLine :
            /\ fetch_awaits' = pc
            /\ request' = [request EXCEPT !["core_L1i"] = Packet("read", "fetch", Code(pc), 0)]
      BY <1>2
    <2> DEFINE read == Packet("read", "fetch", Code(pc), 0)
               q    == <<"request", "core_L1i">>
    <2>2. read \in FetchRead
      BY DEF FetchRead, Packet, CodeAddress
    <2>3. request' = [request EXCEPT !["core_L1i"] = read]
      BY <2>1
    <2> HIDE DEF read
    <2>4. ~Fetching /\ Fetching'
      BY <1>2, <2>1, NoneIsNoPacket DEF Fetching
    <2>5. request["core_L1i"] = None
      <3> SUFFICES ASSUME request["core_L1i"] # None PROVE FALSE
        OBVIOUS
      <3>1. q \in Place /\ IsReadOf(traffic[q], "fetch")
        BY <1>0, TrafficAt, AnswersAndFetchesAreReads
      <3> QED  BY <2>4, <3>1, OnlyRead DEF TrafficInv, InOrder
    <2>6. /\ q \in Place /\ traffic[q] = None /\ traffic'[q] = read
          /\ \A r \in Place \ {q} : traffic'[r] = traffic[r]
      BY <1>0, <1>1, <1>2, <2>3, <2>5 DEF traffic, Traffic, Place
    <2> HIDE DEF q
    <2>7. InOrder(traffic', TRUE, Loading)
      <3>1. InOrder(traffic, FALSE, Loading) /\ traffic'[q] \in FetchRead
        BY <1>0, <2>2, <2>4, <2>6 DEF TrafficInv
      <3> QED  BY <1>0, <2>6, <3>1, FetchAdded
    <2>8. NothingOverwritten
      BY <1>0, <1>2, <2>3, <2>5 DEF NothingOverwritten
    <2> QED  BY <1>1, <2>4, <2>7, <2>8 DEF TrafficInv, Fetching, Loading
  <1>3. CASE /\ fetch_awaits # None /\ response["core_L1i"] # None
             /\ fetch_awaits' = None
             /\ response' = [response EXCEPT !["core_L1i"] = None]
             /\ UNCHANGED request
    <2> DEFINE q == <<"response", "core_L1i">>
    <2>1. ~Fetching'
      BY <1>3 DEF Fetching
    <2>2. /\ q \in Place /\ traffic[q] \in FetchAnswer /\ traffic'[q] = None
          /\ \A r \in Place \ {q} : traffic'[r] = traffic[r]
      BY <1>0, <1>1, <1>3 DEF traffic, Traffic, Place
    <2>3. InOrder(traffic', FALSE, Loading)
      BY <1>0, <2>2, PacketRemoved DEF TrafficInv
    <2>4. NothingOverwritten
      BY <1>0, <1>3 DEF NothingOverwritten
    <2> QED  BY <1>1, <2>1, <2>3, <2>4 DEF TrafficInv, Fetching, Loading
  <1>4. CASE UNCHANGED <<fetch_awaits, buses>>
    BY <1>1, <1>4 DEF TrafficInv, traffic, Fetching, Loading, NothingOverwritten, buses
  <1> QED  BY <1>2, <1>3, <1>4 DEF FetchTurn

-----------------------------------------------------------------------------
(* The L1 instruction cache. *)

\* What the components hold, apart from one of them.
Without(h) == [k \in Holder |-> IF k = h THEN None ELSE Holding[k]]

LEMMA SameTraffic ==
  ASSUME NEW req, NEW resp, NEW held, NEW holds, \A k \in Holder : holds[k] = held[k],
         Ordered(req, resp, held)
  PROVE  Ordered(req, resp, holds)
  <1>1. \A p \in Place : Traffic(req, resp, holds)[p] = Traffic(req, resp, held)[p]
    BY DEF Traffic, Place
  <1>2. \A s : Reads(Traffic(req, resp, holds), s) = Reads(Traffic(req, resp, held), s)
    BY <1>1 DEF Reads
  <1> QED  BY <1>1, <1>2 DEF Ordered, InOrder, OneRead, NoWriteBehindRead

\* When a component holds an answer the slot it will fill is empty: there is one answer
\* for each side.
LEMMA HeldAnswerAlone ==
  ASSUME TypeInv, TrafficInv, NEW b \in InsnBus \union DataBus, NEW h \in Holder,
         Holding[h] \in AnswerOn(b)
  PROVE  response[b] = None
  <1>0. b \in Bus /\ response[b] \in Slot(AnswerOn(b))
    BY DEF TypeInv, BusInv, InsnBus, DataBus, Bus
  <1> SUFFICES ASSUME response[b] # None PROVE FALSE
    OBVIOUS
  <1>1. PICK s \in {"fetch", "store"} : \A pkt \in AnswerOn(b) : IsReadOf(pkt, s)
    BY BusNames, AnswersAndFetchesAreReads
  <1>2. IsReadOf(traffic[<<"response", b>>], s) /\ IsReadOf(traffic[<<"held", h>>], s)
    BY <1>0, <1>1, TrafficAt
  <1>3. <<"response", b>> \in Place /\ <<"held", h>> \in Place /\ <<"response", b>> # <<"held", h>>
    BY <1>0, TrafficAt
  <1> QED  BY <1>2, <1>3, TwoReads

\* The L1 instruction cache takes a line that waits, at the end of its turn.
LEMMA L1iTakesResponseOrder ==
  ASSUME NEW req, NEW resp, L1iTakesResponse(req, resp), UNCHANGED <<selectionVars, muxVars, dram_pkt>>,
         DOMAIN resp = Bus, resp["L1i_L2i"] \in Slot(FetchAnswer), Ordered(req, resp, Without("L1i"))
  PROVE  Ordered(request', response', Holding')
  <1>1. /\ "L1i_L2i" \in Bus /\ "L1i" \in Holder /\ Without("L1i")["L1i"] = None
        /\ Holding'["L1i"] = l1i_pkt'
        /\ \A k \in Holder \ {"L1i"} : Holding'[k] = Without("L1i")[k]
    BY DEF Bus, Holder, Without, Holding, selectionVars, muxVars
  <1>2. CASE resp["L1i_L2i"] # None
    <2>1. /\ request' = req /\ response'["L1i_L2i"] = None
          /\ \A d \in Bus \ {"L1i_L2i"} : response'[d] = resp[d]
          /\ Holding'["L1i"] = resp["L1i_L2i"]
      BY <1>1, <1>2 DEF L1iTakesResponse
    <2>2. Carried(resp["L1i_L2i"], Holding'["L1i"], 0, HolderStage["L1i"])
      BY <1>2, <2>1, CarriedOn
    <2> QED  BY <1>1, <2>1, <2>2, AnswerTaken
  <1>3. CASE resp["L1i_L2i"] = None
    <2>1. request' = req /\ response' = resp /\ Holding'["L1i"] = None
      BY <1>1, <1>3 DEF L1iTakesResponse
    <2>2. \A k \in Holder : Holding'[k] = Without("L1i")[k]
      BY <1>1, <2>1
    <2> QED  BY <2>1, <2>2, SameTraffic
  <1> QED  BY <1>2, <1>3

LEMMA L1InsnCacheOrder ==
  ASSUME TypeInv, TrafficInv, L1InsnCacheTurn PROVE TrafficInv' /\ NothingOverwritten
  <1>0. /\ request["core_L1i"] \in Slot(FetchRead) /\ request["L1i_L2i"] \in Slot(FetchRead)
        /\ response["core_L1i"] \in Slot(FetchAnswer) /\ response["L1i_L2i"] \in Slot(FetchAnswer)
        /\ DOMAIN request = Bus /\ DOMAIN response = Bus
        /\ "core_L1i" \in Bus /\ "L1i_L2i" \in Bus /\ "L1i" \in Holder
        /\ Holding["L1i"] = l1i_pkt /\ Holding'["L1i"] = l1i_pkt'
    BY DEF TypeInv, BusInv, Bus, InsnBus, RequestOn, AnswerOn, Holder, Holding
  <1>1. /\ UNCHANGED <<selectionVars, muxVars, dram_pkt, fetch_awaits, vec_at>>
        /\ \A k \in Holder \ {"L1i"} : Holding'[k] = Holding[k]
    BY DEF L1InsnCacheTurn, L1iBoot, L1iAccept, L1iLookup, L1iFill, NotL1i, Holding, Holder,
       selectionVars, muxVars, dramVars, clients, vecVars
  <1>2. Ordered(request, response, Holding)
    BY DEF TrafficInv, traffic, Ordered
  <1>3. /\ Without("L1i")["L1i"] = None
        /\ \A k \in Holder \ {"L1i"} : Without("L1i")[k] = Holding[k]
    BY <1>0 DEF Without
  <1>4. l1i_pkt = None => Ordered(request, response, Without("L1i"))
    BY <1>0, <1>2, <1>3, SameTraffic
  <1>5. CASE UNCHANGED <<l1i_pkt, buses>>
    <2>1. \A k \in Holder : Holding'[k] = Holding[k]
      BY <1>0, <1>1, <1>5
    <2>2. Ordered(request', response', Holding')
      BY <1>2, <1>5, <2>1, SameTraffic DEF buses
    <2> QED  BY <1>1, <1>5, <2>2 DEF TrafficInv, traffic, Ordered, Fetching, Loading,
             NothingOverwritten, buses
  <1>6. /\ ~UNCHANGED <<l1i_pkt, buses>> => Ordered(request', response', Holding')
        /\ NothingOverwritten
    <2>1. CASE L1iBoot
      BY <2>1 DEF L1iBoot, NothingOverwritten, buses
    <2>2. CASE L1iAccept
      <3>0. l1i_pkt = None
        BY <2>2 DEF L1iAccept, TypeInv, L1iInv
      <3>1. CASE request["core_L1i"] # None
        <4>1. /\ Holding'["L1i"] = request["core_L1i"] /\ request'["core_L1i"] = None
              /\ \A d \in Bus \ {"core_L1i"} : request'[d] = request[d]
              /\ response' = response
          BY <1>0, <2>2, <3>1 DEF L1iAccept
        <4>2. Carried(request["core_L1i"], Holding'["L1i"], RequestStage["core_L1i"], HolderStage["L1i"])
          BY <1>0, <3>1, <4>1, CarriedOn
        <4>3. Ordered(request', response', Holding')
          BY <1>0, <1>1, <1>2, <3>0, <4>1, <4>2, RequestTaken
        <4>4. NothingOverwritten
          BY <4>1 DEF NothingOverwritten
        <4> QED  BY <4>3, <4>4
      <3>2. CASE request["core_L1i"] = None
        <4>1. L1iTakesResponse(request, response)
          BY <2>2, <3>2 DEF L1iAccept
        <4>2. Ordered(request', response', Holding')
          BY <1>0, <1>1, <1>4, <3>0, <4>1, L1iTakesResponseOrder
        <4>3. NothingOverwritten
          BY <1>0, <4>1 DEF L1iTakesResponse, NothingOverwritten
        <4> QED  BY <4>2, <4>3
      <3> QED  BY <3>1, <3>2
    <2>3. CASE L1iLookup
      <3>0. l1i_pkt \in FetchRead
        BY <2>3 DEF L1iLookup, TypeInv, L1iInv
      <3>1. CASE Hit(l1i_pkt.address) /\ response["core_L1i"] = None
        <4> DEFINE line   == L1InsnCacheLines[get_l1_insn_cache_index(l1i_pkt.address)]
                   answer == Packet("read_response", l1i_pkt.source, l1i_pkt.address, line.payload)
                   resp   == [response EXCEPT !["core_L1i"] = answer]
        <4>1. L1iTakesResponse(request, resp)
          BY <2>3, <3>1 DEF L1iLookup
        <4>2. answer \in FetchAnswer
          <5>1. line \in CachedLine
            BY <3>0, <3>1, IndexInCache DEF Hit, TypeInv, L1iInv, FetchRead
          <5>2. line.payload \in InsnLine
            BY <5>1 DEF CachedLine
          <5> QED  BY <3>0, <5>2 DEF FetchRead, FetchAnswer, Packet
        <4> HIDE DEF answer
        <4>3. /\ resp["core_L1i"] = answer /\ DOMAIN resp = Bus
              /\ \A d \in Bus \ {"core_L1i"} : resp[d] = response[d]
          BY <1>0
        <4>4. resp["L1i_L2i"] \in Slot(FetchAnswer)
          BY <1>0, <4>3
        <4>5. Carried(l1i_pkt, answer, HolderStage["L1i"], 0)
          BY <3>0, <4>2, CarriedOn
        <4>6. \A d \in Bus : response[d] # None => response'[d] \in {response[d], None}
          BY <1>0, <3>1, <4>1, <4>3 DEF L1iTakesResponse
        <4>7. request' = request
          BY <4>1 DEF L1iTakesResponse
        <4> HIDE DEF resp
        <4>8. Ordered(request, resp, Without("L1i"))
          BY <1>0, <1>2, <1>3, <3>1, <4>3, <4>5, AnswerSent
        <4>9. Ordered(request', response', Holding')
          BY <1>1, <4>1, <4>3, <4>4, <4>8, L1iTakesResponseOrder
        <4> QED  BY <4>6, <4>7, <4>9 DEF NothingOverwritten
      <3>2. CASE ~Hit(l1i_pkt.address) /\ request["L1i_L2i"] = None
        <4> DEFINE req == [request EXCEPT !["L1i_L2i"] = l1i_pkt]
        <4>1. L1iTakesResponse(req, response)
          BY <2>3, <3>2 DEF L1iLookup
        <4>2. /\ req["L1i_L2i"] = l1i_pkt
              /\ \A d \in Bus \ {"L1i_L2i"} : req[d] = request[d]
          BY <1>0
        <4>3. Carried(l1i_pkt, req["L1i_L2i"], HolderStage["L1i"], RequestStage["L1i_L2i"])
          BY <3>0, <4>2, CarriedOn
        <4>4. NothingOverwritten
          BY <1>0, <3>2, <4>1, <4>2 DEF L1iTakesResponse, NothingOverwritten
        <4> HIDE DEF req
        <4>5. Ordered(req, response, Without("L1i"))
          BY <1>0, <1>2, <1>3, <3>2, <4>2, <4>3, RequestSent
        <4>6. Ordered(request', response', Holding')
          BY <1>0, <1>1, <4>1, <4>5, L1iTakesResponseOrder
        <4> QED  BY <4>4, <4>6
      <3>3. CASE UNCHANGED <<l1iVars, buses>>
        BY <3>3 DEF l1iVars, buses, NothingOverwritten
      <3> QED  BY <2>3, <3>1, <3>2, <3>3 DEF L1iLookup
    <2>4. CASE L1iFill
      <3>0. l1i_pkt \in FetchAnswer
        BY <2>4 DEF L1iFill, TypeInv, L1iInv
      <3>1. CASE response["core_L1i"] # None
        BY <2>4, <3>1 DEF L1iFill, buses, NothingOverwritten
      <3>2. CASE response["core_L1i"] = None
        <4>1. /\ Holding'["L1i"] = None /\ response'["core_L1i"] = l1i_pkt
              /\ \A d \in Bus \ {"core_L1i"} : response'[d] = response[d]
              /\ request' = request
          BY <1>0, <2>4, <3>2 DEF L1iFill
        <4>2. Carried(Holding["L1i"], response'["core_L1i"], HolderStage["L1i"], 0)
          BY <1>0, <3>0, <4>1, CarriedOn
        <4>3. Ordered(request', response', Holding')
          BY <1>0, <1>1, <1>2, <3>2, <4>1, <4>2, AnswerSent
        <4>4. NothingOverwritten
          BY <3>2, <4>1 DEF NothingOverwritten
        <4> QED  BY <4>3, <4>4
      <3> QED  BY <3>1, <3>2
    <2> QED  BY <2>1, <2>2, <2>3, <2>4 DEF L1InsnCacheTurn
  <1> QED  BY <1>1, <1>5, <1>6 DEF TrafficInv, traffic, Ordered, Fetching, Loading

-----------------------------------------------------------------------------
(* The selection multiplexers. *)

Selector == [insn |-> "select_insn", data |-> "select_data"]

\* A selection multiplexer tests the slot below before it forwards a request, but not
\* the one above when it hands on an answer.
LEMMA SelectionOrder ==
  ASSUME TypeInv, TrafficInv, NEW s \in Sides, SelectionTurn(s)
  PROVE  TrafficInv' /\ NothingOverwritten
  <1> DEFINE h == Selector[s]
             a == Above[s]
             b == Below[s]
  <1>0. /\ a \in Bus /\ b \in Bus /\ a # b /\ h \in Holder
        /\ {a, b} \subseteq InsnBus \/ {a, b} \subseteq DataBus
        /\ RequestOn(b) = RequestOn(a) /\ AnswerOn(b) = AnswerOn(a)
        /\ Holding[h] = selection_pkt[s] /\ Holding'[h] = selection_pkt'[s]
        /\ DOMAIN selection_at = Sides /\ DOMAIN selection_pkt = Sides
    BY DEF Sides, Above, Below, Selector, Bus, Holder, InsnBus, DataBus, RequestOn, AnswerOn,
       Holding,
       TypeInv, SelectionInv
  <1>1. /\ DOMAIN request = Bus /\ DOMAIN response = Bus
        /\ request[a] \in Slot(RequestOn(a)) /\ response[b] \in Slot(AnswerOn(a))
    BY <1>0 DEF TypeInv, BusInv
  <1>2. Ordered(request, response, Holding)
    BY DEF TrafficInv, traffic, Ordered
  <1>3. \A r \in Sides \ {s} : selection_pkt'[r] = selection_pkt[r]
    BY <1>0 DEF SelectionTurn, SelectionAccept, SelectionForward, SelectionRespond,
       SelectionRoute, SelectionSteps, selectionVars
  <1>4. /\ \A k \in Holder \ {h} : Holding'[k] = Holding[k]
        /\ UNCHANGED <<fetch_awaits, vec_at>>
    BY <1>3 DEF SelectionTurn, SelectionAccept, SelectionForward, SelectionRespond,
       SelectionRoute, NotSelection, l1iVars, muxVars, dramVars, clients, vecVars, Holding, Holder,
       Selector, Sides
  <1>5. /\ \A x \in RequestOn(a) : Carried(x, x, RequestStage[a], HolderStage[h])
        /\ \A x \in RequestOn(a) : Carried(x, x, HolderStage[h], RequestStage[b])
        /\ \A x \in AnswerOn(a) : Carried(x, x, 0, HolderStage[h])
        /\ \A x \in AnswerOn(a) : Carried(x, x, HolderStage[h], 0)
    <2>1. CASE s = "insn"
      <3>1. RequestOn(a) = FetchRead /\ AnswerOn(a) = FetchAnswer
        BY <2>1, BusNames DEF Above, InsnBus
      <3> QED  BY <3>1, CarriedOn
    <2>2. CASE s = "data"
      <3>1. RequestOn(a) = StoreRequest /\ AnswerOn(a) = StoreAnswer
        BY <2>2, BusNames DEF Above, DataBus
      <3>2. RequestStage[a] = 2 /\ HolderStage[h] = 3 /\ RequestStage[b] = 4
        BY <2>2 DEF Above, Below, Selector, RequestStage, HolderStage
      <3>3. /\ \A x \in StoreRequest : Carried(x, x, 2, 3)
            /\ \A x \in StoreRequest : Carried(x, x, 3, 4)
        <4>1. 2 \in 1 .. 8 /\ 3 \in 1 .. 8 /\ 2 + 1 = 3 /\ 3 + 1 = 4
          OBVIOUS
        <4> QED  BY <4>1, CarriedOn
      <3>4. \A x \in StoreAnswer : Carried(x, x, 0, 3) /\ Carried(x, x, 3, 0)
        BY CarriedOn
      <3> QED  BY <3>1, <3>2, <3>3, <3>4
    <2> QED  BY <2>1, <2>2 DEF Sides
  <1>6. None \notin RequestOn(a) \union AnswerOn(a)
    BY NoneIsNoPacket DEF RequestOn, AnswerOn
  <1>7. selection_at[s] = "top" => selection_pkt[s] = None
    BY <1>6 DEF TypeInv, SelectionInv
  <1> HIDE DEF h, a, b
  <1>8. CASE SelectionAccept(s)
    <2>1. CASE request[a] # None
      <3>1. /\ Holding'[h] = request[a] /\ request'[a] = None
            /\ \A d \in Bus \ {a} : request'[d] = request[d]
            /\ response' = response
        BY <1>0, <1>1, <1>8, <2>1 DEF SelectionAccept, SelectionSteps, a
      <3>2. Carried(request[a], Holding'[h], RequestStage[a], HolderStage[h]) /\ Holding[h] = None
        BY <1>0, <1>1, <1>5, <1>7, <1>8, <2>1, <3>1 DEF SelectionAccept
      <3>3. Ordered(request', response', Holding')
        BY <1>0, <1>2, <1>4, <3>1, <3>2, RequestTaken
      <3> QED  BY <1>4, <3>1, <3>3 DEF NothingOverwritten, TrafficInv, traffic, Ordered, Fetching,
               Loading
    <2>2. CASE request[a] = None
      <3>1. /\ UNCHANGED <<request, response>>
            /\ \A k \in Holder : Holding'[k] = Holding[k]
        BY <1>0, <1>4, <1>7, <1>8, <2>2 DEF SelectionAccept, SelectionSteps, a
      <3>2. Ordered(request', response', Holding')
        BY <1>2, <3>1, SameTraffic
      <3> QED  BY <1>4, <3>1, <3>2 DEF NothingOverwritten, TrafficInv, traffic, Ordered, Fetching,
               Loading
    <2> QED  BY <2>1, <2>2
  <1>9. CASE SelectionForward(s)
    <2>1. CASE request[b] = None
      <3>1. /\ Holding'[h] = None /\ request'[b] = selection_pkt[s]
            /\ \A d \in Bus \ {b} : request'[d] = request[d]
            /\ response' = response
        BY <1>0, <1>1, <1>9, <2>1 DEF SelectionForward, SelectionSteps, b
      <3>2. selection_pkt[s] \in RequestOn(a)
        BY <1>9 DEF SelectionForward, TypeInv, SelectionInv, a
      <3>3. Carried(Holding[h], request'[b], HolderStage[h], RequestStage[b])
        BY <1>0, <1>5, <3>1, <3>2
      <3>4. Ordered(request', response', Holding')
        BY <1>0, <1>2, <1>4, <2>1, <3>1, <3>3, RequestSent
      <3> QED  BY <1>4, <2>1, <3>1, <3>4 DEF NothingOverwritten, TrafficInv, traffic, Ordered,
               Fetching, Loading
    <2>2. CASE request[b] # None
      <3>1. /\ UNCHANGED <<request, response>>
            /\ \A k \in Holder : Holding'[k] = Holding[k]
        BY <1>0, <1>4, <1>9, <2>2 DEF SelectionForward, selectionVars, b
      <3>2. Ordered(request', response', Holding')
        BY <1>2, <3>1, SameTraffic
      <3> QED  BY <1>4, <3>1, <3>2 DEF NothingOverwritten, TrafficInv, traffic, Ordered, Fetching,
               Loading
    <2> QED  BY <2>1, <2>2
  <1>10. CASE SelectionRespond(s)
    <2>0. selection_pkt[s] = None
      BY <1>10 DEF SelectionRespond, TypeInv, SelectionInv
    <2>1. CASE response[b] # None
      <3>1. /\ Holding'[h] = response[b] /\ response'[b] = None
            /\ \A d \in Bus \ {b} : response'[d] = response[d]
            /\ request' = request
        BY <1>0, <1>1, <1>10, <2>1 DEF SelectionRespond, SelectionSteps, b
      <3>2. Carried(response[b], Holding'[h], 0, HolderStage[h]) /\ Holding[h] = None
        BY <1>0, <1>1, <1>5, <2>0, <2>1, <3>1
      <3>3. Ordered(request', response', Holding')
        BY <1>0, <1>2, <1>4, <3>1, <3>2, AnswerTaken
      <3> QED  BY <1>4, <3>1, <3>3 DEF NothingOverwritten, TrafficInv, traffic, Ordered, Fetching,
               Loading
    <2>2. CASE response[b] = None
      <3>1. /\ UNCHANGED <<request, response>>
            /\ \A k \in Holder : Holding'[k] = Holding[k]
        BY <1>0, <1>4, <1>10, <2>0, <2>2 DEF SelectionRespond, SelectionSteps, b
      <3>2. Ordered(request', response', Holding')
        BY <1>2, <3>1, SameTraffic
      <3> QED  BY <1>4, <3>1, <3>2 DEF NothingOverwritten, TrafficInv, traffic, Ordered, Fetching,
               Loading
    <2> QED  BY <2>1, <2>2
  <1>11. CASE SelectionRoute(s)
    <2>1. /\ Holding'[h] = None /\ response'[a] = selection_pkt[s]
          /\ \A d \in Bus \ {a} : response'[d] = response[d]
          /\ request' = request
      BY <1>0, <1>1, <1>11 DEF SelectionRoute, SelectionSteps, a
    <2>2. selection_pkt[s] \in AnswerOn(a)
      BY <1>11 DEF SelectionRoute, TypeInv, SelectionInv, a
    <2>3. response[a] = None
      BY <1>0, <2>2, HeldAnswerAlone
    <2>4. Carried(Holding[h], response'[a], HolderStage[h], 0)
      BY <1>0, <1>5, <2>1, <2>2
    <2>5. Ordered(request', response', Holding')
      BY <1>0, <1>2, <1>4, <2>1, <2>3, <2>4, AnswerSent
    <2> QED  BY <1>4, <2>1, <2>3, <2>5 DEF NothingOverwritten, TrafficInv, traffic, Ordered,
             Fetching, Loading
  <1> QED  BY <1>8, <1>9, <1>10, <1>11 DEF SelectionTurn

-----------------------------------------------------------------------------
(* The internal multiplexer and the DRAM. *)

\* What the tests at the end of a turn of the multiplexer take, relative to the slots
\* the turn has left.
OnlyEmptied(req, resp) ==
  \A b \in Bus : /\ req[b] # None => request'[b] \in {req[b], None}
                 /\ resp[b] # None => response'[b] \in {resp[b], None}

LEMMA MuxTestOrder ==
  ASSUME NEW req, NEW resp, MuxTestFetch(req, resp) \/ MuxTestVec(req, resp)
                            \/ MuxTestResponse(req, resp),
         DOMAIN req = Bus, DOMAIN resp = Bus,
         \A b \in Bus : req[b] \in Slot(RequestOn(b)) /\ resp[b] \in Slot(AnswerOn(b)),
         UNCHANGED <<l1i_pkt, selection_pkt, dram_pkt>>, Ordered(req, resp, Without("mux"))
  PROVE  Ordered(request', response', Holding') /\ OnlyEmptied(req, resp)
  <1>0. /\ "L2i_mux" \in Bus /\ "L2d_mux" \in Bus /\ "L2_L3" \in Bus /\ "mux" \in Holder
        /\ Without("mux")["mux"] = None /\ Holding'["mux"] = mux_pkt'
        /\ \A k \in Holder \ {"mux"} : Holding'[k] = Without("mux")[k]
    BY DEF Bus, Holder, Without, Holding
  <1>1. /\ req["L2i_mux"] \in Slot(FetchRead) /\ req["L2d_mux"] \in Slot(StoreRequest)
        /\ resp["L2_L3"] \in Slot(FetchAnswer \union StoreAnswer)
    BY <1>0, BusNames DEF InsnBus, DataBus
  <1>2. /\ RequestStage["L2i_mux"] = 0 /\ RequestStage["L2d_mux"] = 5 /\ HolderStage["mux"] = 6
        /\ 5 \in 1 .. 8 /\ 5 + 1 = 6
    BY DEF RequestStage, HolderStage
  <1>3. ASSUME NEW b \in {"L2i_mux", "L2d_mux"}, req[b] # None, mux_pkt' = req[b],
               request' = [req EXCEPT ![b] = None], response' = resp
        PROVE  Ordered(request', response', Holding') /\ OnlyEmptied(req, resp)
    <2>1. b \in Bus /\ request'[b] = None /\ \A d \in Bus \ {b} : request'[d] = req[d]
      BY <1>0, <1>3
    <2>2. Carried(req[b], Holding'["mux"], RequestStage[b], HolderStage["mux"])
      BY <1>0, <1>1, <1>2, <1>3, CarriedOn
    <2>3. Ordered(request', resp, Holding')
      <3> DEFINE held == Without("mux")
      <3>1. /\ "mux" \in Holder /\ held["mux"] = None
            /\ \A k \in Holder \ {"mux"} : Holding'[k] = held[k]
            /\ Ordered(req, resp, held)
        BY <1>0
      <3> HIDE DEF held
      <3> QED  BY <2>1, <2>2, <3>1, RequestTaken
    <2> QED  BY <1>3, <2>1, <2>3 DEF OnlyEmptied
  <1>4. CASE MuxTestResponse(req, resp)
    <2>1. CASE resp["L2_L3"] # None
      <3>1. /\ response'["L2_L3"] = None /\ \A d \in Bus \ {"L2_L3"} : response'[d] = resp[d]
            /\ request' = req /\ mux_pkt' = resp["L2_L3"]
        BY <1>0, <1>4, <2>1 DEF MuxTestResponse, MuxTakes
      <3>2. Carried(resp["L2_L3"], Holding'["mux"], 0, HolderStage["mux"])
        BY <1>0, <1>1, <2>1, <3>1, CarriedOn
      <3>3. Ordered(req, response', Holding')
        BY <1>0, <3>1, <3>2, AnswerTaken
      <3> QED  BY <3>1, <3>3 DEF OnlyEmptied
    <2>2. CASE resp["L2_L3"] = None
      <3>1. request' = req /\ response' = resp /\ \A k \in Holder : Holding'[k] = Without("mux")[k]
        BY <1>0, <1>4, <2>2 DEF MuxTestResponse, MuxTakes
      <3>2. Ordered(request', response', Holding')
        BY <3>1, SameTraffic
      <3> QED  BY <3>1, <3>2 DEF OnlyEmptied
    <2> QED  BY <2>1, <2>2
  <1>5. CASE MuxTestVec(req, resp)
    BY <1>3, <1>4, <1>5 DEF MuxTestVec, MuxTakes
  <1>6. CASE MuxTestFetch(req, resp)
    BY <1>3, <1>5, <1>6 DEF MuxTestFetch, MuxTakes
  <1> QED  BY <1>4, <1>5, <1>6

\* The multiplexer forwards what it holds when the slot behind it is empty and routes
\* an answer by its source.
LEMMA MuxOrder ==
  ASSUME TypeInv, TrafficInv, InternalMultiplexerTurn PROVE TrafficInv' /\ NothingOverwritten
  <1>0. /\ DOMAIN request = Bus /\ DOMAIN response = Bus
        /\ \A b \in Bus : request[b] \in Slot(RequestOn(b)) /\ response[b] \in Slot(AnswerOn(b))
        /\ {"L2i_mux", "L2d_mux", "L2_L3"} \subseteq Bus /\ "mux" \in Holder
        /\ Holding["mux"] = mux_pkt
    BY DEF TypeInv, BusInv, Bus, Holder, Holding
  <1>1. UNCHANGED <<l1i_pkt, selection_pkt, dram_pkt, fetch_awaits, vec_at>>
    BY DEF InternalMultiplexerTurn, MuxAccept, MuxForward, MuxRoute, NotMux, l1iVars, selectionVars,
       dramVars, clients, vecVars
  <1>2. Ordered(request, response, Holding)
    BY DEF TrafficInv, traffic, Ordered
  <1>3. /\ Without("mux")["mux"] = None
        /\ \A k \in Holder \ {"mux"} : Without("mux")[k] = Holding[k]
    BY <1>0 DEF Without
  <1>4. ASSUME Ordered(request', response', Holding') PROVE TrafficInv'
    BY <1>1, <1>4 DEF TrafficInv, traffic, Ordered, Fetching, Loading
  <1>5. CASE MuxAccept
    <2>1. mux_pkt = None /\ MuxTestFetch(request, response)
      BY <1>5, NoneIsNoPacket DEF MuxAccept, TypeInv, MuxInv
    <2>2. Ordered(request, response, Without("mux"))
      BY <1>0, <1>2, <1>3, <2>1, SameTraffic
    <2>3. Ordered(request', response', Holding') /\ OnlyEmptied(request, response)
      BY <1>0, <1>1, <2>1, <2>2, MuxTestOrder
    <2> QED  BY <1>4, <2>3 DEF OnlyEmptied, NothingOverwritten
  <1>6. CASE MuxForward /\ request["L2_L3"] # None
    <2>1. UNCHANGED <<request, response>> /\ \A k \in Holder : Holding'[k] = Holding[k]
      BY <1>1, <1>6 DEF MuxForward, muxVars, buses, Holding, Holder
    <2>2. Ordered(request', response', Holding')
      BY <1>2, <2>1, SameTraffic
    <2> QED  BY <1>4, <2>1, <2>2 DEF NothingOverwritten
  <1>7. CASE MuxForward /\ request["L2_L3"] = None
    <2> DEFINE sent == [request EXCEPT !["L2_L3"] = mux_pkt]
    <2>1. MuxTestVec(sent, response) \/ MuxTestResponse(sent, response)
      BY <1>7 DEF MuxForward
    <2>2. mux_pkt \in FetchRead \union StoreRequest
      BY <1>7 DEF MuxForward, TypeInv, MuxInv
    <2>3. DOMAIN sent = Bus /\ \A b \in Bus : sent[b] \in Slot(RequestOn(b))
      BY <1>0, <2>2 DEF BusInv, Bus, InsnBus, DataBus, RequestOn
    <2>4. sent["L2_L3"] = mux_pkt /\ \A d \in Bus \ {"L2_L3"} : sent[d] = request[d]
      BY <1>0
    <2> HIDE DEF sent
    <2>5. Carried(mux_pkt, sent["L2_L3"], HolderStage["mux"], RequestStage["L2_L3"])
      <3>1. HolderStage["mux"] = 6 /\ RequestStage["L2_L3"] = 7 /\ 6 \in 1 .. 8 /\ 6 + 1 = 7
        BY DEF HolderStage, RequestStage
      <3> QED  BY <2>2, <2>4, <3>1, CarriedOn
    <2>6. Ordered(sent, response, Without("mux"))
      BY <1>0, <1>2, <1>3, <1>7, <2>4, <2>5, RequestSent
    <2>7. Ordered(request', response', Holding') /\ OnlyEmptied(sent, response)
      BY <1>0, <1>1, <2>1, <2>3, <2>6, MuxTestOrder
    <2>8. NothingOverwritten
      BY <1>7, <2>4, <2>7 DEF OnlyEmptied, NothingOverwritten
    <2> QED  BY <1>4, <2>7, <2>8
  <1>8. CASE MuxRoute
    <2> DEFINE to     == IF mux_pkt.source = "fetch" THEN "L2i_mux" ELSE "L2d_mux"
               routed == [response EXCEPT ![to] = mux_pkt]
    <2>1. MuxTestFetch(request, routed) /\ mux_pkt \in FetchAnswer \union StoreAnswer
      BY <1>8 DEF MuxRoute, TypeInv, MuxInv
    <2>2. /\ to \in Bus
          /\ \/ to = "L2i_mux" /\ mux_pkt \in FetchAnswer
             \/ to = "L2d_mux" /\ mux_pkt \in StoreAnswer
      BY <2>1 DEF FetchAnswer, StoreAnswer, Bus
    <2> HIDE DEF to
    <2>3. /\ DOMAIN routed = Bus /\ \A b \in Bus : routed[b] \in Slot(AnswerOn(b))
          /\ routed[to] = mux_pkt /\ \A d \in Bus \ {to} : routed[d] = response[d]
      BY <1>0, <2>2 DEF Bus, InsnBus, DataBus, AnswerOn
    <2> HIDE DEF routed
    <2>4. response[to] = None
      <3>1. to \in InsnBus \union DataBus /\ mux_pkt \in AnswerOn(to)
        BY <2>2 DEF InsnBus, DataBus, AnswerOn
      <3> QED  BY <1>0, <3>1, HeldAnswerAlone
    <2>5. Carried(mux_pkt, routed[to], HolderStage["mux"], 0)
      BY <2>1, <2>3, CarriedOn
    <2>6. Ordered(request, routed, Without("mux"))
      BY <1>0, <1>2, <1>3, <2>2, <2>3, <2>4, <2>5, AnswerSent
    <2>7. Ordered(request', response', Holding') /\ OnlyEmptied(request, routed)
      BY <1>0, <1>1, <2>1, <2>3, <2>6, MuxTestOrder
    <2>8. NothingOverwritten
      BY <2>3, <2>4, <2>7 DEF OnlyEmptied, NothingOverwritten
    <2> QED  BY <1>4, <2>7, <2>8
  <1> QED  BY <1>5, <1>6, <1>7, <1>8 DEF InternalMultiplexerTurn

\* The DRAM answers into a slot it does not test: the rounds say that it is empty.
LEMMA DramOrder ==
  ASSUME TypeInv, TrafficInv, RoundInv, DramTurn PROVE TrafficInv' /\ NothingOverwritten
  <1>0. /\ DOMAIN request = Bus /\ DOMAIN response = Bus
        /\ request["L3_DRAM"] \in Slot(FetchRead \union StoreRequest)
        /\ "L3_DRAM" \in Bus /\ "dram" \in Holder
        /\ Holding["dram"] = dram_pkt /\ Holding'["dram"] = dram_pkt'
    BY DEF TypeInv, BusInv, Bus, InsnBus, DataBus, RequestOn, Holder, Holding
  <1>1. /\ UNCHANGED <<fetch_awaits, vec_at>>
        /\ \A k \in Holder \ {"dram"} : Holding'[k] = Holding[k]
    BY DEF DramTurn, DramAccept, DramDelay, DramRead, DramWrite, NotDram, l1iVars, selectionVars,
       muxVars, clients, vecVars, Holding, Holder
  <1>2. Ordered(request, response, Holding)
    BY DEF TrafficInv, traffic, Ordered
  <1>3. ASSUME Ordered(request', response', Holding') PROVE TrafficInv'
    BY <1>1, <1>3 DEF TrafficInv, traffic, Ordered, Fetching, Loading
  <1>4. CASE DramAccept
    <2>1. /\ Holding["dram"] = None /\ Holding'["dram"] = request["L3_DRAM"]
          /\ request'["L3_DRAM"] = None /\ \A d \in Bus \ {"L3_DRAM"} : request'[d] = request[d]
          /\ response' = response /\ request["L3_DRAM"] # None
      BY <1>0, <1>4, NoneIsNoPacket DEF DramAccept, TypeInv, DramInv
    <2>2. Carried(request["L3_DRAM"], Holding'["dram"], RequestStage["L3_DRAM"], HolderStage["dram"])
      <3>1. RequestStage["L3_DRAM"] = 8 /\ HolderStage["dram"] = 9 /\ 8 \in 1 .. 8 /\ 8 + 1 = 9
        BY DEF HolderStage, RequestStage
      <3> QED  BY <1>0, <2>1, <3>1, CarriedOn
    <2>3. Ordered(request', response', Holding')
      BY <1>0, <1>1, <1>2, <2>1, <2>2, RequestTaken
    <2> QED  BY <1>3, <2>1, <2>3 DEF NothingOverwritten
  <1>5. CASE DramDelay
    <2>1. UNCHANGED <<request, response>> /\ \A k \in Holder : Holding'[k] = Holding[k]
      BY <1>0, <1>1, <1>5 DEF DramDelay, buses
    <2>2. Ordered(request', response', Holding')
      BY <1>2, <2>1, SameTraffic
    <2> QED  BY <1>3, <2>1, <2>2 DEF NothingOverwritten
  <1>6. CASE DramRead
    <2> DEFINE answer == Packet("read_response", dram_pkt.source, dram_pkt.address,
                                InStorage(dram_pkt.address))
    <2>1. dram_pkt \in FetchRead \union StoreRequest /\ IsRead(dram_pkt)
      BY <1>6 DEF DramRead, TypeInv, DramInv
    <2>2. \/ dram_pkt \in FetchRead /\ answer \in FetchAnswer
          \/ dram_pkt \in StoreRequest /\ answer \in StoreAnswer
      <3>1. CASE dram_pkt \in FetchRead
        <4>1. InStorage(dram_pkt.address) \in InsnLine
          BY <3>1, StorageTypes DEF FetchRead, TypeInv
        <4> QED  BY <3>1, <4>1 DEF FetchRead, FetchAnswer, Packet
      <3>2. CASE dram_pkt \in StoreRequest
        <4>1. InStorage(dram_pkt.address) \in LaneValue
          BY <3>2, StorageTypes DEF StoreRequest, TypeInv
        <4> QED  BY <3>2, <4>1 DEF StoreRequest, StoreAnswer, Packet
      <3> QED  BY <2>1, <3>1, <3>2
    <2>3. response' = [response EXCEPT !["L3_DRAM"] = answer]
      BY <1>6 DEF DramRead
    <2> HIDE DEF answer
    <2>4. response["L3_DRAM"] = None
      BY <1>6 DEF DramRead, RoundInv
    <2>5. /\ response'["L3_DRAM"] = answer /\ \A d \in Bus \ {"L3_DRAM"} : response'[d] = response[d]
          /\ request' = request /\ Holding'["dram"] = None
      BY <1>0, <1>6, <2>3 DEF DramRead
    <2>6. Carried(Holding["dram"], response'["L3_DRAM"], HolderStage["dram"], 0)
      <3>1. HolderStage["dram"] = 9
        BY DEF HolderStage
      <3> QED  BY <1>0, <2>1, <2>2, <2>5, <3>1, CarriedOn
    <2>7. Ordered(request', response', Holding')
      BY <1>0, <1>1, <1>2, <2>4, <2>5, <2>6, AnswerSent
    <2> QED  BY <1>3, <2>4, <2>5, <2>7 DEF NothingOverwritten
  <1>7. CASE DramWrite
    <2> DEFINE q == <<"held", "dram">>
    <2>1. /\ q \in Place /\ IsWrite(traffic[q]) /\ traffic'[q] = None
          /\ \A r \in Place \ {q} : traffic'[r] = traffic[r]
      BY <1>0, <1>1, <1>7 DEF DramWrite, buses, traffic, Traffic, Place
    <2>2. Fetching \in BOOLEAN /\ Loading \in BOOLEAN
      BY DEF Fetching, Loading
    <2>3. InOrder(traffic', Fetching, Loading)
      BY <2>1, <2>2, PacketRemoved DEF TrafficInv
    <2>4. NothingOverwritten
      BY <1>7 DEF DramWrite, buses, NothingOverwritten
    <2> QED  BY <1>1, <2>3, <2>4 DEF TrafficInv, Fetching, Loading
  <1> QED  BY <1>4, <1>5, <1>6, <1>7 DEF DramTurn

-----------------------------------------------------------------------------
(* The vector memory controller. *)

\* The vector memory controller sends the next lane only when the slot is empty, and
\* reads one lane at a time.
LEMMA VecOrder ==
  ASSUME TypeInv, TrafficInv, VectorMemoryControllerTurn PROVE TrafficInv' /\ NothingOverwritten
  <1>0. /\ DOMAIN request = Bus /\ DOMAIN response = Bus
        /\ response["core_L1d"] \in Slot(StoreAnswer)
        /\ "core_L1d" \in Bus /\ Fetching \in BOOLEAN /\ Loading \in BOOLEAN
    BY DEF TypeInv, BusInv, Bus, InsnBus, DataBus, AnswerOn, Fetching, Loading
  <1>1. Holding' = Holding /\ UNCHANGED fetch_awaits
    BY DEF VectorMemoryControllerTurn, VecAccept, VecSendLane, VecAwaitLane, VecStoreLane,
       VecFinish, NotVec, Holding, l1iVars, selectionVars, muxVars, dramVars, clients
  <1>2. InOrder(traffic, Fetching, Loading)
    BY DEF TrafficInv
  <1>3. CASE UNCHANGED <<request, response>> /\ (Loading' <=> Loading)
    BY <1>1, <1>2, <1>3 DEF TrafficInv, traffic, Fetching, Loading, NothingOverwritten
  <1>4. CASE VecAccept \/ VecStoreLane \/ VecFinish
    BY <1>3, <1>4 DEF VecAccept, VecStoreLane, VecFinish, buses, Loading
  <1>5. CASE VecSendLane /\ request["core_L1d"] # None
    BY <1>3, <1>5 DEF VecSendLane, vecVars, buses, Loading
  <1>6. CASE VecSendLane /\ request["core_L1d"] = None
    <2> DEFINE address == Data(vec_pkt.address[lane])
               read    == Packet("read", "store", address, 0)
               write   == Packet("write", "store", address, vec_pkt.payload[lane])
               q       == <<"request", "core_L1d">>
    <2>1. vec_pkt \in VecPacket /\ lane \in Threads
      BY <1>6, VectorOpsAssumption DEF VecSendLane, TypeInv, VecInv, LanesLeft, IsRead, IsWrite,
         Threads
    <2>2. /\ read \in StoreRequest /\ write \in StoreRequest
          /\ read.packet_type = "read" /\ write.packet_type = "write"
      <3>1. address \in DataAddress
        BY <2>1, LanesOfPackets DEF DataAddress
      <3> QED  BY <2>1, <3>1, LanesOfPackets, ZeroIsLaneValue DEF StoreRequest, Packet
    <2>3. IsRead(read) /\ IsWrite(write)
      BY <2>2, NoneIsNoPacket DEF IsRead, IsWrite
    <2>4. ~Loading /\ InOrder(traffic, Fetching, FALSE)
      <3>1. ~Loading
        BY <1>6 DEF VecSendLane, Loading
      <3> QED  BY <1>0, <1>2, <3>1
    <2>5. response["core_L1d"] = None
      <3> SUFFICES ASSUME response["core_L1d"] # None PROVE FALSE
        OBVIOUS
      <3>1. <<"response", "core_L1d">> \in Place /\ IsReadOf(traffic[<<"response", "core_L1d">>], "store")
        BY <1>0, TrafficAt, AnswersAndFetchesAreReads
      <3> QED  BY <2>4, <3>1, OnlyRead DEF InOrder
    <2>6. Stage(q) = 1 /\ q \in Place /\ traffic[q] = None
      BY <1>0, <1>6, TrafficAt DEF Stage, RequestStage
    <2>7. CASE IsRead(vec_pkt)
      <3>1. request' = [request EXCEPT !["core_L1d"] = read] /\ VecTakesLane(response)
        BY <1>6, <2>7 DEF VecSendLane
      <3> HIDE DEF read
      <3>2. response' = response /\ Loading'
        BY <2>5, <3>1 DEF VecTakesLane, Loading
      <3>3. traffic'[q] = read /\ \A r \in Place \ {q} : traffic'[r] = traffic[r]
        BY <1>0, <1>1, <3>1, <3>2 DEF traffic, Traffic, Place
      <3> HIDE DEF q
      <3>4. InOrder(traffic', Fetching, TRUE)
        BY <1>0, <2>2, <2>3, <2>4, <2>6, <3>3, LoadAdded
      <3>5. NothingOverwritten
        BY <1>0, <1>6, <3>1, <3>2 DEF NothingOverwritten
      <3> QED  BY <1>1, <3>2, <3>4, <3>5 DEF TrafficInv, Fetching, Loading
    <2>8. CASE ~IsRead(vec_pkt)
      <3>1. request' = [request EXCEPT !["core_L1d"] = write] /\ UNCHANGED <<response, vec_at>>
        BY <1>6, <2>8 DEF VecSendLane
      <3> HIDE DEF write
      <3>3. traffic'[q] = write /\ \A r \in Place \ {q} : traffic'[r] = traffic[r]
        BY <1>0, <1>1, <3>1 DEF traffic, Traffic, Place
      <3> HIDE DEF q
      <3>4. InOrder(traffic', Fetching, FALSE)
        <4>1. IsWrite(traffic'[q]) /\ Stage(q) > 0
          BY <2>3, <2>6, <3>3
        <4> QED  BY <1>0, <2>4, <2>6, <3>3, <4>1, WriteAdded
      <3>5. NothingOverwritten
        BY <1>0, <1>6, <3>1 DEF NothingOverwritten
      <3> QED  BY <1>1, <2>4, <3>1, <3>4, <3>5 DEF TrafficInv, Fetching, Loading
    <2> QED  BY <2>7, <2>8
  <1>7. CASE VecAwaitLane
    <2> DEFINE q == <<"response", "core_L1d">>
    <2>1. CASE response["core_L1d"] = None
      BY <1>3, <1>7, <2>1 DEF VecAwaitLane, VecTakesLane, Loading
    <2>2. CASE response["core_L1d"] # None
      <3>1. /\ response' = [response EXCEPT !["core_L1d"] = None] /\ UNCHANGED request
            /\ ~Loading'
        BY <1>7, <2>2 DEF VecAwaitLane, VecTakesLane, Loading
      <3>2. /\ q \in Place /\ traffic[q] \in StoreAnswer /\ traffic'[q] = None
            /\ \A r \in Place \ {q} : traffic'[r] = traffic[r]
        BY <1>0, <1>1, <2>2, <3>1 DEF traffic, Traffic, Place
      <3> HIDE DEF q
      <3>3. InOrder(traffic', Fetching, FALSE)
        BY <1>0, <1>2, <3>2, PacketRemoved
      <3>4. NothingOverwritten
        BY <1>0, <3>1 DEF NothingOverwritten
      <3> QED  BY <1>1, <3>1, <3>3, <3>4 DEF TrafficInv, Fetching, Loading
    <2> QED  BY <2>1, <2>2
  <1> QED  BY <1>4, <1>5, <1>6, <1>7 DEF VectorMemoryControllerTurn

-----------------------------------------------------------------------------
(***************************************************************************)
(* Turns pass, and while an answer is at the L3 cache its turn is before   *)
(* the one of the DRAM.                                                    *)
(***************************************************************************)

\* Every component has one place in the list of the scheduler.
LEMMA PositionOf ==
  \A c \in Component : Position(c) \in 1 .. Len(Order) /\ Order[Position(c)] = c
  <1>1. DOMAIN Order = 1 .. Len(Order)
    BY EveryComponentHasItsTurn
  <1> QED  BY <1>1, EveryComponentHasItsTurn DEF Position

\* The turns of a round, counted down.
LEMMA Rounds ==
  ASSUME NEW n \in Nat, NEW t \in 1 .. n, NEW p \in 1 .. n
  PROVE  LET next          == IF t = n THEN 1 ELSE t + 1
             until(now) == IF p >= now THEN p - now ELSE p - now + n
         IN /\ until(t) \in 0 .. n - 1
            /\ until(next) = IF p = t THEN n - 1 ELSE until(t) - 1
            /\ p # t => until(t) > 0
  OBVIOUS

\* With the turn of a component every other one is a turn nearer, and it is last.
LEMMA TurnsPass ==
  ASSUME ClientInv, PassTurn, NEW c \in Component, c = Order[turn]
  PROVE  /\ TurnsUntil(c) = 0
         /\ \A d \in Component : TurnsUntil(d) \in 0 .. Len(Order) - 1
         /\ \A d \in Component : TurnsUntil(d)' = IF d = c THEN Len(Order) - 1 ELSE TurnsUntil(d) - 1
         /\ \A d \in Component \ {c} : TurnsUntil(d) > 0
  <1>1. turn \in 1 .. Len(Order) /\ Len(Order) \in Nat /\ DOMAIN Order = 1 .. Len(Order)
    BY EveryComponentHasItsTurn DEF ClientInv
  <1>2. Position(c) = turn
    BY <1>1, PositionOf, EveryComponentHasItsTurn
  <1>3. \A d \in Component \ {c} : Position(d) \in 1 .. Len(Order) /\ Position(d) # turn
    BY <1>2, PositionOf
  <1>4. turn' = IF turn = Len(Order) THEN 1 ELSE turn + 1
    BY DEF PassTurn
  <1>5. ASSUME NEW d \in Component
        PROVE  /\ TurnsUntil(d) \in 0 .. Len(Order) - 1
               /\ TurnsUntil(d)' = IF d = c THEN Len(Order) - 1 ELSE TurnsUntil(d) - 1
               /\ d # c => TurnsUntil(d) > 0
    <2> DEFINE p == Position(d)
    <2>1. p \in 1 .. Len(Order) /\ (d # c => p # turn) /\ (d = c => p = turn)
      BY <1>2, <1>3, PositionOf
    <2>2. /\ TurnsUntil(d) = IF p >= turn THEN p - turn ELSE p - turn + Len(Order)
          /\ TurnsUntil(d)' = IF p >= turn' THEN p - turn' ELSE p - turn' + Len(Order)
      BY DEF TurnsUntil
    <2> HIDE DEF p
    <2>3. /\ TurnsUntil(d) \in 0 .. Len(Order) - 1
          /\ TurnsUntil(d)' = IF p = turn THEN Len(Order) - 1 ELSE TurnsUntil(d) - 1
          /\ p # turn => TurnsUntil(d) > 0
      <3> DEFINE until(now) == IF p >= now THEN p - now ELSE p - now + Len(Order)
      <3>1. /\ until(turn) \in 0 .. Len(Order) - 1
            /\ until(IF turn = Len(Order) THEN 1 ELSE turn + 1)
                 = IF p = turn THEN Len(Order) - 1 ELSE until(turn) - 1
            /\ p # turn => until(turn) > 0
        BY <1>1, <2>1, Rounds
      <3>2. TurnsUntil(d) = until(turn) /\ TurnsUntil(d)' = until(turn')
        BY <2>2
      <3> HIDE DEF until
      <3> QED  BY <1>4, <3>1, <3>2
    <2> QED  BY <2>1, <2>3
  <1>6. TurnsUntil(c) = 0
    BY <1>1, <1>2 DEF TurnsUntil
  <1> QED  BY <1>5, <1>6

\* So the order of two components that do not have the turn stays.
LEMMA ComesBeforeKept ==
  ASSUME ClientInv, PassTurn, NEW c \in Component, c = Order[turn]
  PROVE  /\ \A d \in Component : ~ComesBefore(d, c)
         /\ \A d \in Component \ {c} : ComesBefore(d, c)'
         /\ \A d, e \in Component \ {c} : ComesBefore(d, e) => ComesBefore(d, e)'
  <1>1. Len(Order) \in Nat
    BY EveryComponentHasItsTurn
  <1> QED  BY <1>1, TurnsPass DEF ComesBefore

\* While the DRAM works on the read of one client and the answer to the other waits in
\* front of the multiplexer, nothing can make the multiplexer serve anything else
\* first.
LEMMA NothingElseAtMux ==
  ASSUME TypeInv, TrafficInv, response["L2_L3"] # None, IsRead(dram_pkt)
  PROVE  mux_at = "top" /\ request["L2i_mux"] = None /\ request["L2d_mux"] = None
  <1> DEFINE first  == <<"response", "L2_L3">>
             second == <<"held", "dram">>
  <1>0. /\ {"L2_L3", "L2i_mux", "L2d_mux"} \subseteq Bus /\ {"mux", "dram"} \subseteq Holder
        /\ first \in Place /\ second \in Place /\ first # second
        /\ traffic[first] = response["L2_L3"] /\ traffic[second] = dram_pkt
    BY TrafficAt DEF Bus, Holder, Holding
  <1>1. /\ response["L2_L3"] \in FetchAnswer \union StoreAnswer
        /\ dram_pkt \in FetchRead \union StoreRequest
    BY <1>0, NoneIsNoPacket, BusNames DEF TypeInv, BusInv, DramInv, IsRead
  <1>2. PICK s \in {"fetch", "store"}, t \in {"fetch", "store"} :
          IsReadOf(traffic[first], s) /\ IsReadOf(traffic[second], t)
    BY <1>0, <1>1, AnswersAndFetchesAreReads, Kinds
  <1>3. s # t
    BY <1>0, <1>2, TwoReads
  <1>4. ASSUME NEW p \in Place, p # first, p # second, NEW r \in {"fetch", "store"}
        PROVE  ~IsReadOf(traffic[p], r)
    BY <1>0, <1>2, <1>3, <1>4, TwoReads
  <1>5. ASSUME NEW p \in Place PROVE ~IsWrite(traffic[p])
    <2> SUFFICES ASSUME IsWrite(traffic[p]) PROVE FALSE
      OBVIOUS
    <2>1. CASE s = "store"
      <3>1. IsRead(traffic[first])
        BY <1>0, <1>2, <2>1 DEF TrafficInv, InOrder, NoWriteBehindRead
      <3> QED  BY <1>0, <1>1, <3>1, Kinds
    <2>2. CASE t = "store"
      <3>1. Stage(second) < Stage(p) /\ Stage(second) = 9
        BY <1>0, <1>2, <2>2 DEF TrafficInv, InOrder, NoWriteBehindRead, Stage, HolderStage
      <3> QED  BY <3>1, Stages
    <2> QED  BY <1>3, <2>1, <2>2
  <1>6. ASSUME NEW p \in Place, p # first, p # second,
               traffic[p] \in FetchRead \union FetchAnswer \union StoreRequest \union StoreAnswer
        PROVE  FALSE
    <2>1. traffic[p].source \in {"fetch", "store"} /\ IsReadOf(traffic[p], traffic[p].source)
      BY <1>5, <1>6, AnswersAndFetchesAreReads, Kinds
    <2> QED  BY <1>4, <1>6, <2>1
  <1>7. mux_at = "top"
    <2> DEFINE p == <<"held", "mux">>
    <2>1. p \in Place /\ traffic[p] = mux_pkt /\ p # first /\ p # second
      BY <1>0, TrafficAt DEF Holding
    <2> QED  BY <1>6, <2>1 DEF TypeInv, MuxInv
  <1>8. ASSUME NEW b \in {"L2i_mux", "L2d_mux"} PROVE request[b] = None
    <2> DEFINE p == <<"request", b>>
    <2>1. p \in Place /\ traffic[p] = request[b] /\ p # first /\ p # second
      BY <1>0, TrafficAt
    <2>2. request[b] \in Slot(FetchRead \union StoreRequest)
      BY <1>0 DEF TypeInv, BusInv, RequestOn
    <2> QED  BY <1>6, <2>1, <2>2
  <1> QED  BY <1>7, <1>8

\* The multiplexer takes the answer of the L3 cache in its turn when it has nothing
\* else to do.
LEMMA MuxLeavesL3 ==
  ASSUME BusInv, InternalMultiplexerTurn
  PROVE  /\ response'["L3_DRAM"] = response["L3_DRAM"]
         /\ response'["L2_L3"] \in {response["L2_L3"], None}
         /\ mux_at = "top" /\ request["L2i_mux"] = None /\ request["L2d_mux"] = None =>
              response'["L2_L3"] = None
  <1>1. /\ DOMAIN response = Bus /\ {"L3_DRAM", "L2_L3", "L2i_mux", "L2d_mux"} \subseteq Bus
    BY DEF BusInv, Bus
  <1>2. ASSUME NEW req, NEW resp, DOMAIN resp = Bus, MuxTestFetch(req, resp) \/ MuxTestVec(req, resp)
                                                      \/ MuxTestResponse(req, resp)
        PROVE  /\ response'["L3_DRAM"] = resp["L3_DRAM"]
               /\ response'["L2_L3"] \in {resp["L2_L3"], None}
               /\ req["L2i_mux"] = None /\ req["L2d_mux"] = None => response'["L2_L3"] = None
    BY <1>1, <1>2 DEF MuxTestFetch, MuxTestVec, MuxTestResponse, MuxTakes
  <1>3. CASE MuxAccept
    BY <1>1, <1>2, <1>3 DEF MuxAccept
  <1>4. CASE MuxForward
    <2>1. mux_at # "top"
      BY <1>4 DEF MuxForward
    <2>2. CASE UNCHANGED <<muxVars, buses>>
      BY <2>1, <2>2 DEF buses
    <2>3. CASE \E sent : MuxTestVec(sent, response) \/ MuxTestResponse(sent, response)
      BY <1>1, <1>2, <2>1, <2>3
    <2> QED  BY <1>4, <2>2, <2>3 DEF MuxForward
  <1>5. CASE MuxRoute
    <2>1. mux_at # "top"
      BY <1>5 DEF MuxRoute
    <2>2. PICK to \in {"L2i_mux", "L2d_mux"} : MuxTestFetch(request, [response EXCEPT ![to] = mux_pkt])
      BY <1>5 DEF MuxRoute
    <2>3. /\ DOMAIN [response EXCEPT ![to] = mux_pkt] = Bus
          /\ [response EXCEPT ![to] = mux_pkt]["L3_DRAM"] = response["L3_DRAM"]
          /\ [response EXCEPT ![to] = mux_pkt]["L2_L3"] = response["L2_L3"]
      BY <1>1
    <2> QED  BY <1>2, <2>1, <2>2, <2>3
  <1> QED  BY <1>3, <1>4, <1>5 DEF InternalMultiplexerTurn

\* An answer is in one of the two slots at the L3 cache, never in both.
LEMMA RoundsKept ==
  ASSUME TypeInv, TrafficInv, RoundInv, Next PROVE RoundInv'
  <1>0. PICK c \in Component : c = Order[turn] /\ Turn(c)
    BY DEF Next, Turn, Component
  <1>1. Turn(c) /\ PassTurn /\ c = Order[turn] /\ ClientInv
    BY <1>0 DEF Next, TypeInv
  <1>2. {"L3", "dram", "l2di"} \subseteq Component
    BY DEF Component
  <1>3. /\ \A d \in Component : ~ComesBefore(d, c)
        /\ \A d \in Component \ {c} : ComesBefore(d, c)'
        /\ \A d, e \in Component \ {c} : ComesBefore(d, e) => ComesBefore(d, e)'
    BY <1>1, ComesBeforeKept
  <1>4. DOMAIN response = Bus /\ {"L3_DRAM", "L2_L3"} \subseteq Bus
    BY DEF TypeInv, BusInv, Bus
  <1>5. CASE c = "L3"
    <2>1. L3CacheTurn
      BY <1>1, <1>5 DEF Turn
    <2>2. UNCHANGED <<dram_at, dram_pkt>>
      BY <2>1 DEF L3CacheTurn, NotForward, dramVars
    <2>3. /\ response'["L3_DRAM"] = None
          /\ response'["L2_L3"] = IF response["L3_DRAM"] # None THEN response["L3_DRAM"]
                                  ELSE response["L2_L3"]
      BY <1>4, <2>1 DEF L3CacheTurn, PassResponse, Moved
    <2> QED  BY <1>2, <1>3, <1>5, <2>2, <2>3 DEF RoundInv
  <1>6. CASE c = "dram"
    <2>1. DramTurn
      BY <1>1, <1>6 DEF Turn
    <2>2. response["L3_DRAM"] = None
      BY <1>2, <1>3, <1>6 DEF RoundInv
    <2>3. ComesBefore("L3", "dram")' /\ ComesBefore("l2di", "dram")'
      BY <1>2, <1>3, <1>6
    <2>4. response["L2_L3"] # None /\ dram_at \in {"accepted", "delay"} => ~IsRead(dram_pkt)
      BY <1>2, <1>3, <1>6 DEF RoundInv
    <2>5. CASE DramAccept
      BY <2>2, <2>3, <2>5 DEF DramAccept, RoundInv
    <2>6. CASE DramDelay
      BY <2>2, <2>4, <2>6 DEF DramDelay, RoundInv, buses, IsRead
    <2>7. CASE DramRead
      <3>1. response'["L2_L3"] = response["L2_L3"] /\ dram_at' = "top"
        BY <1>4, <2>7 DEF DramRead
      <3>2. response["L2_L3"] = None
        BY <2>4, <2>7 DEF DramRead
      <3> QED  BY <2>3, <3>1, <3>2 DEF RoundInv
    <2>8. CASE DramWrite
      BY <2>2, <2>8 DEF DramWrite, RoundInv, buses
    <2> QED  BY <2>1, <2>5, <2>6, <2>7, <2>8 DEF DramTurn
  <1>7. CASE c = "l2di"
    <2>1. InternalMultiplexerTurn
      BY <1>1, <1>7 DEF Turn
    <2>2. UNCHANGED <<dram_at, dram_pkt>>
      BY <2>1 DEF InternalMultiplexerTurn, MuxAccept, MuxForward, MuxRoute, NotMux, dramVars
    <2>3. /\ response'["L3_DRAM"] = response["L3_DRAM"]
          /\ response'["L2_L3"] \in {response["L2_L3"], None}
          /\ response["L2_L3"] # None /\ IsRead(dram_pkt) => response'["L2_L3"] = None
      BY <2>1, MuxLeavesL3, NothingElseAtMux DEF TypeInv
    <2>4. ComesBefore("L3", "dram") => ComesBefore("L3", "dram")'
      BY <1>2, <1>3, <1>7
    <2> QED  BY <2>2, <2>3, <2>4 DEF RoundInv, IsRead
  <1>8. CASE c \notin {"L3", "dram", "l2di"}
    <2>1. UNCHANGED <<dram_at, dram_pkt>>
      BY <1>1, <1>8 DEF Turn, L2DataCacheTurn, L2InsnCacheTurn, L1DataCacheTurn, NotForward,
         FetchTurn, StoreTurn, L1InsnCacheTurn, L1iBoot, L1iAccept, L1iLookup, L1iFill, NotL1i,
         VectorMemoryControllerTurn, VecAccept, VecSendLane, VecAwaitLane, VecStoreLane, VecFinish,
         NotVec, SelectionTurn, SelectionAccept, SelectionForward, SelectionRespond, SelectionRoute,
         NotSelection, dramVars
    <2>2. response'["L3_DRAM"] = response["L3_DRAM"] /\ response'["L2_L3"] = response["L2_L3"]
      <3>1. CASE L2DataCacheTurn \/ L2InsnCacheTurn \/ L1DataCacheTurn
        BY <1>4, <3>1 DEF L2DataCacheTurn, L2InsnCacheTurn, L1DataCacheTurn, PassResponse, Moved
      <3>2. CASE FetchTurn \/ StoreTurn
        BY <1>4, <3>2 DEF FetchTurn, StoreTurn, buses
      <3>3. CASE L1InsnCacheTurn
        BY <1>4, <3>3 DEF L1InsnCacheTurn, L1iBoot, L1iAccept, L1iLookup, L1iFill,
           L1iTakesResponse, buses
      <3>4. CASE VectorMemoryControllerTurn
        BY <1>4, <3>4 DEF VectorMemoryControllerTurn, VecAccept, VecSendLane, VecAwaitLane,
           VecStoreLane, VecFinish, VecTakesLane, buses
      <3>5. CASE SelectionTurn("data") \/ SelectionTurn("insn")
        BY <1>4, <3>5 DEF SelectionTurn, SelectionAccept, SelectionForward, SelectionRespond,
           SelectionRoute, Above, Below
      <3> QED  BY <1>1, <1>8, <3>1, <3>2, <3>3, <3>4, <3>5 DEF Turn
    <2>3. /\ ComesBefore("L3", "dram") => ComesBefore("L3", "dram")'
          /\ ComesBefore("l2di", "dram") => ComesBefore("l2di", "dram")'
      BY <1>2, <1>3, <1>8
    <2> QED  BY <2>1, <2>2, <2>3 DEF RoundInv, IsRead
  <1> QED  BY <1>5, <1>6, <1>7, <1>8

-----------------------------------------------------------------------------
(* The inductive invariant and the theorems. *)

MemoryInv == TypeInv /\ VecReads /\ TrafficInv /\ RoundInv

LEMMA InitMemoryInv == Init => MemoryInv
  <1> SUFFICES ASSUME Init PROVE MemoryInv
    OBVIOUS
  <1>1. TypeInv
    BY InitTypes
  <1>2. VecReads
    BY DEF Init, VecReads, One, IsRead
  <1>3. TrafficInv
    <2>1. \A p \in Place : traffic[p] = None
      BY DEF Init, traffic, Traffic, Place, Holding, Holder, Sides
    <2>2. \A s : Reads(traffic, s) = {}
      BY <2>1 DEF Reads, IsReadOf
    <2>3. ~Fetching /\ ~Loading
      BY DEF Init, Fetching, Loading
    <2> QED  BY <2>1, <2>2, <2>3 DEF TrafficInv, InOrder, OneRead, NoWriteBehindRead, IsReadOf,
             IsWrite
  <1>4. RoundInv
    BY DEF Init, RoundInv, Bus
  <1> QED  BY <1>1, <1>2, <1>3, <1>4 DEF MemoryInv

\* One step for each component, from the lemmas above.
LEMMA TrafficKept ==
  ASSUME MemoryInv, Next PROVE TrafficInv' /\ NothingOverwritten
  <1>1. PICK c \in Component : Turn(c)
    BY DEF Next, Turn, Component
  <1>2. CASE StoreTurn
    BY <1>2 DEF MemoryInv, StoreTurn, buses, TrafficInv, traffic, Holding, Fetching, Loading,
       vecVars,
       l1iVars, selectionVars, muxVars, dramVars, NothingOverwritten
  <1> QED  BY <1>1, <1>2, ForwardOrder, L2InsnCacheOrder, FetchOrder, L1InsnCacheOrder,
           SelectionOrder, MuxOrder, DramOrder, VecOrder DEF Turn, MemoryInv, Sides

\* A vector packet moves from slot to controller to slot.
LEMMA VecReadsKept ==
  ASSUME MemoryInv, Next PROVE VecReads'
  <1>0. /\ vec_request \in Slot(VecRequest) /\ vec_pkt \in Slot(VecPacket)
        /\ vec_response \in Slot(VecPacket) /\ load_awaits \in BOOLEAN
        /\ VecReads
    BY DEF MemoryInv, TypeInv, VecInv, ClientInv
  <1>1. CASE UNCHANGED <<load_awaits, vec_request, vec_response, vec_pkt>>
    BY <1>0, <1>1 DEF VecReads, IsRead
  <1>2. CASE StoreTurn
    <2>0. vec_pkt' = vec_pkt
      BY <1>2 DEF StoreTurn, vecVars
    <2>1. CASE ~load_awaits /\ vec_request' \in Accesses /\ load_awaits' = IsRead(vec_request')
               /\ UNCHANGED vec_response
      <3>1. ~IsRead(vec_pkt) /\ vec_response = None
        BY <1>0, <2>1 DEF VecReads, One
      <3>2. load_awaits' <=> IsRead(vec_request')
        BY <2>1
      <3>3. One(IsRead(vec_pkt')) = 0 /\ One(vec_response' # None) = 0
        BY <2>0, <2>1, <3>1 DEF One
      <3>4. One(load_awaits') = One(IsRead(vec_request')) /\ One(load_awaits') \in Nat
        BY <3>2 DEF One
      <3> QED  BY <3>3, <3>4 DEF VecReads
    <2>2. CASE load_awaits /\ vec_response # None /\ load_awaits' = FALSE /\ vec_response' = None
               /\ UNCHANGED vec_request
      BY <1>0, <2>0, <2>2 DEF VecReads, One, IsRead
    <2> QED  BY <1>1, <1>2, <2>0, <2>1, <2>2 DEF StoreTurn, vecBus
  <1>3. CASE VectorMemoryControllerTurn
    <2>0. load_awaits' = load_awaits
      BY <1>3 DEF VectorMemoryControllerTurn, VecAccept, VecSendLane, VecAwaitLane, VecStoreLane,
         VecFinish, NotVec, clients
    <2>1. CASE VecAccept
      <3>1. vec_pkt = None
        BY <2>1, NoneIsNoPacket DEF VecAccept, MemoryInv, TypeInv, VecInv, IsRead, IsWrite
      <3> QED  BY <1>0, <2>0, <2>1, <3>1 DEF VecAccept, VecReads, One, IsRead
    <2>2. CASE VecSendLane \/ VecAwaitLane
      BY <1>1, <2>0, <2>2 DEF VecSendLane, VecAwaitLane, vecBus, vecVars
    <2>3. CASE VecStoreLane
      <3>1. vec_pkt \in VecPacket /\ lane \in Threads /\ lane_response \in LaneValue
        BY <2>3, VectorOpsAssumption
        DEF VecStoreLane, MemoryInv, TypeInv, VecInv, LanesLeft, IsRead, Threads
      <3>2. vec_pkt' \in VecPacket /\ vec_pkt'.packet_type = vec_pkt.packet_type
        BY <2>3, <3>1, LanesOfPackets DEF VecStoreLane
      <3>3. IsRead(vec_pkt') <=> IsRead(vec_pkt)
        BY <3>1, <3>2, NoneIsNoPacket DEF IsRead
      <3> QED  BY <1>0, <2>0, <2>3, <3>3 DEF VecStoreLane, VecReads, vecBus, IsRead
    <2>4. CASE VecFinish
      <3>1. vec_pkt' = None /\ vec_request' = vec_request
        BY <2>4 DEF VecFinish
      <3>2. vec_response' # None <=> vec_response # None \/ IsRead(vec_pkt)
        <4>1. IsRead(vec_pkt) => [vec_pkt EXCEPT !.packet_type = "read_response"] # None
          BY <1>0, LanesOfPackets, NoneIsNoPacket DEF IsRead
        <4> QED  BY <2>4, <4>1 DEF VecFinish
      <3>3. ~(vec_response # None /\ IsRead(vec_pkt))
        BY <1>0 DEF VecReads, One
      <3> QED  BY <1>0, <2>0, <3>1, <3>2, <3>3 DEF VecReads, One, IsRead
    <2> QED  BY <1>3, <2>1, <2>2, <2>3, <2>4 DEF VectorMemoryControllerTurn
  <1>4. PICK c \in Component : Turn(c)
    BY DEF Next, Turn, Component
  <1>5. \/ StoreTurn \/ VectorMemoryControllerTurn
        \/ UNCHANGED <<load_awaits, vec_request, vec_response, vec_pkt>>
    BY <1>4 DEF Turn, L2DataCacheTurn, L2InsnCacheTurn, L1DataCacheTurn, L3CacheTurn, NotForward,
       FetchTurn, L1InsnCacheTurn, L1iBoot, L1iAccept, L1iLookup, L1iFill, NotL1i,
       InternalMultiplexerTurn, MuxAccept, MuxForward, MuxRoute, NotMux,
       DramTurn, DramAccept, DramDelay, DramRead, DramWrite, NotDram,
       SelectionTurn, SelectionAccept, SelectionForward, SelectionRespond, SelectionRoute,
       NotSelection, vecBus, vecVars, clients
  <1> QED  BY <1>1, <1>2, <1>3, <1>5

LEMMA MemoryInvKept == MemoryInv /\ [Next]_vars => MemoryInv'
  <1> SUFFICES ASSUME MemoryInv, [Next]_vars PROVE MemoryInv'
    OBVIOUS
  <1>1. CASE Next
    BY <1>1, TypesKept, VecReadsKept, TrafficKept, RoundsKept DEF MemoryInv
  <1>2. CASE UNCHANGED vars
    <2>1. TypeInv'
      BY TypesKept DEF MemoryInv
    <2>2. VecReads'
      BY <1>2 DEF MemoryInv, VecReads, IsRead, vars, parts, clients, vecBus, vecVars
    <2>3. TrafficInv'
      BY <1>2 DEF MemoryInv, TrafficInv, traffic, Fetching, Loading, Holding, vars, parts, buses,
         clients, vecVars, l1iVars, selectionVars, muxVars, dramVars
    <2>4. RoundInv'
      BY <1>2 DEF MemoryInv, RoundInv, ComesBefore, TurnsUntil, IsRead, vars, parts, buses, dramVars
    <2> QED  BY <2>1, <2>2, <2>3, <2>4 DEF MemoryInv
  <1> QED  BY <1>1, <1>2

(***************************************************************************)
(* Every packet is of the kind of its bus and every component is at one of *)
(* its switches: a response never comes where a request is read, and the   *)
(* packets of one client never cross to the buses of the other             *)
(* (MemoryBus.h, Packets.h).                                               *)
(***************************************************************************)
THEOREM MemoryTypeCorrect == Spec => []TypeOK
  <1>1. MemoryInv => TypeOK
    BY TypeInvImpliesTypeOK DEF MemoryInv
  <1> QED  BY <1>1, InitMemoryInv, MemoryInvKept, PTL DEF Spec

(***************************************************************************)
(* No component ever loses a packet of another one by writing over it,     *)
(* which the asserts of send_request and send_response (MemoryBus.h)       *)
(* demand: not the caches and multiplexers, which send answers without a   *)
(* test of the slot, nor the DRAM, whose answer goes into a slot that the  *)
(* L3 cache has to have emptied. It holds because each client has one read *)
(* under way, no write is sent behind it, and the answers of the two       *)
(* clients meet only at the L3 cache, where the order of the turns keeps   *)
(* them apart.                                                             *)
(***************************************************************************)
THEOREM NoPacketIsOverwritten == Spec => NoPacketOverwritten
  <1>1. MemoryInv /\ [Next]_vars =>
          [\A b \in Bus : /\ request[b] # None => request'[b] \in {request[b], None}
                          /\ response[b] # None => response'[b] \in {response[b], None}]_vars
    BY TrafficKept DEF NothingOverwritten
  <1> QED  BY <1>1, InitMemoryInv, MemoryInvKept, PTL DEF Spec, NoPacketOverwritten

-----------------------------------------------------------------------------
(* One packet for every read. *)

\* The components as a sequence: the count of reads adds the slots of the buses and
\* these.
HolderName == <<"L1i", "select_insn", "select_data", "mux", "dram">>

\* The sums that OnePacketPerRead counts are the cardinalities of the sets of reads.
LEMMA ReadsCounted ==
  ASSUME NEW s, NEW waits \in BOOLEAN, OneRead(traffic, s, waits)
  PROVE  ReadsInFlight(s) = One(waits)
  <1> DEFINE asked    == {b \in Bus : IsReadOf(request[b], s)}
             answered == {b \in Bus : IsReadOf(response[b], s)}
             held     == {k \in DOMAIN Held : IsReadOf(Held[k], s)}
  <1>1. ReadsInFlight(s) = Cardinality(asked) + Cardinality(answered) + Cardinality(held)
    BY DEF ReadsInFlight, IsReadOf
  <1>2. /\ DOMAIN Held = 1 .. 5
        /\ \A k \in 1 .. 5 : HolderName[k] \in Holder /\ Held[k] = Holding[HolderName[k]]
        /\ \A h \in Holder : \E k \in 1 .. 5 : HolderName[k] = h
        /\ \A j, k \in 1 .. 5 : HolderName[j] = HolderName[k] => j = k
    BY DEF Held, HolderName, Holder, Holding
  <1>3. /\ \A b \in Bus : b \in asked <=> <<"request", b>> \in Reads(traffic, s)
        /\ \A b \in Bus : b \in answered <=> <<"response", b>> \in Reads(traffic, s)
        /\ \A k \in DOMAIN Held : k \in held <=> <<"held", HolderName[k]>> \in Reads(traffic, s)
    <2>1. \A b \in Bus : b \in asked <=> <<"request", b>> \in Reads(traffic, s)
      BY TrafficAt DEF Reads
    <2>2. \A b \in Bus : b \in answered <=> <<"response", b>> \in Reads(traffic, s)
      BY TrafficAt DEF Reads
    <2>3. ASSUME NEW k \in DOMAIN Held PROVE k \in held <=> <<"held", HolderName[k]>> \in Reads(traffic, s)
      <3>1. <<"held", HolderName[k]>> \in Place /\ traffic[<<"held", HolderName[k]>>] = Held[k]
        BY <1>2, TrafficAt
      <3> QED  BY <3>1 DEF Reads
    <2> QED  BY <2>1, <2>2, <2>3
  <1>4. /\ asked \subseteq Bus /\ answered \subseteq Bus /\ held \subseteq DOMAIN Held
    OBVIOUS
  <1> HIDE DEF asked, answered, held
  <1>5. Cardinality({}) = 0 /\ \A x : Cardinality({x}) = 1
    BY FS_EmptySet, FS_Singleton
  <1>6. CASE ~waits
    <2>1. asked = {} /\ answered = {} /\ held = {}
      BY <1>3, <1>4, <1>6 DEF OneRead
    <2> QED  BY <1>1, <1>5, <1>6, <2>1 DEF One
  <1>7. CASE waits
    <2>1. PICK p \in Place : Reads(traffic, s) = {p}
      BY <1>7 DEF OneRead
    <2>2. CASE \E b \in Bus : p = <<"request", b>>
      <3>1. PICK b \in Bus : asked = {b} /\ answered = {} /\ held = {}
        BY <1>3, <1>4, <2>1, <2>2
      <3> QED  BY <1>1, <1>5, <1>7, <3>1 DEF One
    <2>3. CASE \E b \in Bus : p = <<"response", b>>
      <3>1. PICK b \in Bus : answered = {b} /\ asked = {} /\ held = {}
        BY <1>3, <1>4, <2>1, <2>3
      <3> QED  BY <1>1, <1>5, <1>7, <3>1 DEF One
    <2>4. CASE \E h \in Holder : p = <<"held", h>>
      <3>1. PICK k \in DOMAIN Held : held = {k} /\ asked = {} /\ answered = {}
        BY <1>2, <1>3, <1>4, <2>1, <2>4
      <3> QED  BY <1>1, <1>5, <1>7, <3>1 DEF One
    <2> QED  BY <2>2, <2>3, <2>4 DEF Place
  <1> QED  BY <1>6, <1>7

(***************************************************************************)
(* Exactly one packet is under way for a client that waits, from its       *)
(* request to its answer, and none for a client that does not: no          *)
(* component of the hierarchy drops a read, answers it twice, or answers   *)
(* one that nobody asked. Neither client has a tag to tell a late answer   *)
(* from its own, so this is what makes their waits sound.                  *)
(***************************************************************************)
THEOREM ReadsAreAnsweredOnce == Spec => []OnePacketPerRead
  <1>1. MemoryInv => OnePacketPerRead
    <2> SUFFICES ASSUME MemoryInv PROVE OnePacketPerRead
      OBVIOUS
    <2>1. /\ OneRead(traffic, "fetch", Fetching) /\ OneRead(traffic, "store", Loading)
          /\ Fetching \in BOOLEAN /\ Loading \in BOOLEAN
      BY DEF MemoryInv, TrafficInv, InOrder, Fetching, Loading
    <2>2. ReadsInFlight("fetch") = One(Fetching) /\ ReadsInFlight("store") = One(Loading)
      BY <2>1, ReadsCounted
    <2> QED  BY <2>2 DEF OnePacketPerRead, MemoryInv, VecReads, Fetching, Loading
  <1> QED  BY <1>1, InitMemoryInv, MemoryInvKept, PTL DEF Spec
=============================================================================
