-------------------------- MODULE MemoryHierarchy --------------------------
(***************************************************************************)
(* The memory behind the core: the L1 caches, the multiplexers that choose *)
(* between cores and between instructions and data, the L2 caches, L3, the *)
(* DRAM, and the vector memory controller, which makes a vector access     *)
(* lane by lane.  Only the L1 instruction cache keeps anything; the other  *)
(* caches pass packets on.                                                 *)
(*                                                                         *)
(*   fetch - core_L1i - L1i - L1i_L2i - mux - core_L2i - L2i - L2i_mux     *)
(*                                                               \         *)
(*                                               l2di - L2_L3 - L3 -       *)
(*                                                               /         *)
(*   store - vecctl - core_L1d - L1d - L1d_L2d - mux - core_L2d - L2d -    *)
(*           L2d_mux                          ... L3 - L3_DRAM - DRAM      *)
(*                                                                         *)
(* A bus has one slot for requests and one for responses.  A sender need   *)
(* not find its slot free: L2i, L2d, L3 and both kinds of multiplexer do   *)
(* not test the slot they send a response to (L2i: a request either).      *)
(* That no packet is overwritten follows from the scheduler's rounds,      *)
(* which are therefore part of the model: in each round every component is *)
(* resumed once, in the order of registration, and runs one segment.  One  *)
(* segment is one action.                                                  *)
(*                                                                         *)
(* A packet that a coroutine holds in a local variable is None when the    *)
(* variable's block has ended.                                             *)
(*                                                                         *)
(* The clients are those of module CoreMemory.  The DRAM's latency is any  *)
(* number of rounds, from one on.                                          *)
(***************************************************************************)
EXTENDS VectorOps, Sequences

CONSTANTS
  Addr,      \* the data memory words that programs use
  Images,    \* the assembled programs: [code |-> ..., data |-> ...]
  None,      \* an empty slot
  FetchLine, \* the lines that fetch may ask for: PCs of their first instruction
  Accesses,  \* the requests that store may send
  NUM_CACHE_LINES_L1_INSN_CACHE,
  Order      \* the components, in the order of their registration

Bus == {"core_L1i", "L1i_L2i", "core_L2i", "L2i_mux",
        "core_L1d", "L1d_L2d", "core_L2d", "L2d_mux", "L2_L3", "L3_DRAM"}

VARIABLES
  prog, storage,                  \* code and data in the DRAM
  request, response,              \* the slots of every bus
  vec_request, vec_response,      \* the bus from store to the vector memory controller
  fetch_awaits, load_awaits,      \* the line fetch waits for, and whether store waits
  l1i_at, l1i_pkt, L1InsnCacheLines,
  selection_at, selection_pkt,    \* the core selection multiplexers
  mux_at, mux_pkt,                \* the core internal multiplexer, l2di
  dram_at, dram_pkt,
  vec_at, vec_pkt, lane, lane_response,  \* the vector memory controller
  turn                            \* the component to be resumed next

l1iVars       == <<l1i_at, l1i_pkt, L1InsnCacheLines>>
selectionVars == <<selection_at, selection_pkt>>
muxVars       == <<mux_at, mux_pkt>>
dramVars      == <<storage, dram_at, dram_pkt>>
vecVars       == <<vec_at, vec_pkt, lane, lane_response>>
vecBus        == <<vec_request, vec_response>>
buses         == <<request, response>>
clients       == <<fetch_awaits, load_awaits>>
parts == <<prog, dramVars, buses, vecBus, clients, l1iVars, selectionVars, muxVars,
           vecVars>>
vars == <<parts, turn>>

VecPacket ==
  [packet_type : {"read", "write", "read_response"}, address : VectorValue, payload : VectorValue]

-----------------------------------------------------------------------------
\* Code and data share the DRAM but not their addresses.
Code(pc) == <<"code", pc>>
Data(a)  == <<"data", a>>

Line(pc) == [half \in {0, 1} |-> InsnAt(prog, pc + half)]

Packet(type, source, address, payload) ==
  [packet_type |-> type, source |-> source, address |-> address, payload |-> payload]

InsnLine == [{0, 1} -> Instruction]

\* What is on the buses: the reads of fetch, the lanes of store's accesses, and
\* the answers.  The L2 cache of instructions fills the payload of a read.
BusPacket ==
  [packet_type : {"read", "write", "read_response"}, source : {"fetch", "store"},
   address : {Code(pc) : pc \in FetchLine} \union {Data(a) : a \in LaneValue},
   payload : {Code(pc) : pc \in FetchLine} \union InsnLine \union LaneValue]

CachedLine == [address : {Code(pc) : pc \in FetchLine}, payload : InsnLine]

\* What store sends: the vectors of a read are still to be filled.
VecRequest == {pkt \in VecPacket : \/ pkt.packet_type = "write"
                                   \/ pkt.packet_type = "read" /\ pkt.payload = create_vec(0)}

Component == {"L2d", "L2i", "l2di", "L3", "dram", "fetch", "store", "L1d", "L1i", "vecctl",
              "select_data", "select_insn"}

ASSUME MemoryHierarchyAssumption ==
  /\ Addr \subseteq LaneValue
  /\ \A image \in Images :
       /\ \A pc \in DOMAIN image.code : image.code[pc] \in Instruction
       /\ image.data \in [Addr -> LaneValue]
  /\ \A pc \in FetchLine : pc \in Nat /\ pc % 2 = 0
  /\ Accesses \subseteq VecRequest
  /\ NUM_CACHE_LINES_L1_INSN_CACHE \in Nat \ {0}
  /\ None \notin (BusPacket \union VecPacket \union CachedLine \union InsnLine \union Int)

\* Every component is registered once.
ASSUME EveryComponentHasItsTurn ==
  /\ Order \in Seq(Component)
  /\ \A c \in Component : \E k \in DOMAIN Order : Order[k] = c
  /\ \A j, k \in DOMAIN Order : Order[j] = Order[k] => j = k

IsRead(pkt)  == pkt # None /\ pkt.packet_type = "read"
IsWrite(pkt) == pkt # None /\ pkt.packet_type = "write"

\* The core selection multiplexers, and the buses between which they stand.
Sides == {"insn", "data"}
Above == [insn |-> "L1i_L2i", data |-> "L1d_L2d"]
Below == [insn |-> "core_L2i", data |-> "core_L2d"]

Init ==
  /\ \E image \in Images : prog = image.code /\ storage = image.data
  /\ request = [b \in Bus |-> None] /\ response = [b \in Bus |-> None]
  /\ vec_request = None /\ vec_response = None
  /\ fetch_awaits = None /\ load_awaits = FALSE
  /\ l1i_at = "boot" /\ l1i_pkt = None
  /\ L1InsnCacheLines = [k \in 0 .. NUM_CACHE_LINES_L1_INSN_CACHE - 1 |-> None]
  /\ selection_at = [s \in Sides |-> "top"] /\ selection_pkt = [s \in Sides |-> None]
  /\ mux_at = "top" /\ mux_pkt = None
  /\ dram_at = "top" /\ dram_pkt = None
  /\ vec_at = "top" /\ vec_pkt = None /\ lane = 0 /\ lane_response = None
  /\ turn = 1

-----------------------------------------------------------------------------
\* The clients.
FetchTurn ==
  /\ \/ /\ fetch_awaits = None
        /\ \E pc \in FetchLine :
             /\ fetch_awaits' = pc
             /\ request' = [request EXCEPT !["core_L1i"] =
                              Packet("read", "fetch", Code(pc), 0)]
        /\ UNCHANGED response
     \/ /\ fetch_awaits # None /\ response["core_L1i"] # None
        /\ fetch_awaits' = None
        /\ response' = [response EXCEPT !["core_L1i"] = None]
        /\ UNCHANGED request
     \/ /\ fetch_awaits = None \/ response["core_L1i"] = None
        /\ UNCHANGED <<fetch_awaits, buses>>
  /\ UNCHANGED <<prog, dramVars, load_awaits, vecBus, l1iVars, selectionVars, muxVars, vecVars>>

StoreTurn ==
  /\ \/ /\ ~load_awaits
        /\ vec_request' \in Accesses
        /\ load_awaits' = IsRead(vec_request')
        /\ UNCHANGED vec_response
     \/ /\ load_awaits /\ vec_response # None
        /\ load_awaits' = FALSE
        /\ vec_response' = None
        /\ UNCHANGED vec_request
     \/ /\ ~load_awaits \/ vec_response = None
        /\ UNCHANGED <<load_awaits, vecBus>>
  /\ UNCHANGED <<prog, dramVars, buses, fetch_awaits, l1iVars, selectionVars, muxVars, vecVars>>

-----------------------------------------------------------------------------
\* The caches that only pass on: each turn one request down and one response up.
NotForward == UNCHANGED <<prog, dramVars, vecBus, clients, l1iVars, selectionVars,
                          muxVars, vecVars>>

Moved(slots, from, to) == [slots EXCEPT ![to] = slots[from], ![from] = None]

\* Tests the slot below before it takes a request.
PassRequest(up, down) ==
  request' = IF request[down] = None /\ request[up] # None THEN Moved(request, up, down)
             ELSE request

PassResponse(up, down) ==
  response' = IF response[down] # None THEN Moved(response, down, up) ELSE response

L1DataCacheTurn ==
  /\ PassRequest("core_L1d", "L1d_L2d")
  /\ IF response["core_L1d"] = None THEN PassResponse("core_L1d", "L1d_L2d")
     ELSE UNCHANGED response
  /\ NotForward

L2DataCacheTurn ==
  /\ PassRequest("core_L2d", "L2d_mux")
  /\ PassResponse("core_L2d", "L2d_mux")
  /\ NotForward

L3CacheTurn ==
  /\ PassRequest("L2_L3", "L3_DRAM")
  /\ PassResponse("L2_L3", "L3_DRAM")
  /\ NotForward

\* Makes a packet for raw data of one of the instruction side, and back; a
\* request is passed on whether or not the slot below is free.
L2InsnCacheTurn ==
  LET asked    == request["core_L2i"]
      answered == response["L2i_mux"]
  IN /\ request' =
          IF asked = None THEN request
          ELSE [request EXCEPT !["core_L2i"] = None,
                               !["L2i_mux"] = Packet("read", asked.source, asked.address,
                                                     asked.address)]
     /\ response' =
          IF answered = None THEN response
          ELSE [response EXCEPT !["L2i_mux"] = None,
                                !["core_L2i"] = Packet("read_response", answered.source,
                                                       answered.address, answered.payload)]
     /\ NotForward

-----------------------------------------------------------------------------
\* The L1 instruction cache, direct mapped.
NotL1i == UNCHANGED <<prog, dramVars, vecBus, clients, selectionVars, muxVars, vecVars>>

get_l1_insn_cache_index(address) == (address[2] \div 2) % NUM_CACHE_LINES_L1_INSN_CACHE

\* Mutant: the tag of the line is not compared.
Hit_NoTag(address) == L1InsnCacheLines[get_l1_insn_cache_index(address)] # None

Hit(address) ==
  LET line == L1InsnCacheLines[get_l1_insn_cache_index(address)]
  IN line # None /\ line.address = address

\* The end of the segment, after requests became req and responses resp: takes
\* a response from below if there is one.
L1iTakesResponse(req, resp) ==
  /\ request' = req
  /\ IF resp["L1i_L2i"] # None
     THEN /\ l1i_at' = "fill"
          /\ l1i_pkt' = resp["L1i_L2i"]
          /\ response' = [resp EXCEPT !["L1i_L2i"] = None]
     ELSE /\ l1i_at' = "top"
          /\ l1i_pkt' = None
          /\ response' = resp
  /\ UNCHANGED L1InsnCacheLines

L1iBoot ==
  /\ l1i_at = "boot"
  /\ l1i_at' = "top"
  /\ UNCHANGED <<l1i_pkt, L1InsnCacheLines, buses>> /\ NotL1i

L1iAccept ==
  /\ l1i_at = "top"
  /\ IF request["core_L1i"] # None
     THEN /\ l1i_pkt' = request["core_L1i"]
          /\ request' = [request EXCEPT !["core_L1i"] = None]
          /\ l1i_at' = "lookup"
          /\ UNCHANGED <<response, L1InsnCacheLines>>
     ELSE L1iTakesResponse(request, response)
  /\ NotL1i

\* Answers a hit, or asks the level below, once the slot it needs is free.
L1iLookup ==
  /\ l1i_at = "lookup"
  /\ IF Hit(l1i_pkt.address)
     THEN IF response["core_L1i"] # None THEN UNCHANGED <<l1iVars, buses>>
          ELSE L1iTakesResponse(request,
                 [response EXCEPT !["core_L1i"] =
                    Packet("read_response", l1i_pkt.source, l1i_pkt.address,
                           L1InsnCacheLines[get_l1_insn_cache_index(l1i_pkt.address)].payload)])
     ELSE IF request["L1i_L2i"] # None THEN UNCHANGED <<l1iVars, buses>>
          ELSE L1iTakesResponse([request EXCEPT !["L1i_L2i"] = l1i_pkt], response)
  /\ NotL1i

\* Mutant: the line is stored but not handed up.
L1iFill_KeepsLine ==
  /\ l1i_at = "fill"
  /\ L1InsnCacheLines' =
       [L1InsnCacheLines EXCEPT ![get_l1_insn_cache_index(l1i_pkt.address)] =
          [address |-> l1i_pkt.address, payload |-> l1i_pkt.payload]]
  /\ l1i_at' = "top" /\ l1i_pkt' = None
  /\ UNCHANGED buses /\ NotL1i

L1iFill ==
  /\ l1i_at = "fill"
  /\ L1InsnCacheLines' =
       [L1InsnCacheLines EXCEPT ![get_l1_insn_cache_index(l1i_pkt.address)] =
          [address |-> l1i_pkt.address, payload |-> l1i_pkt.payload]]
  /\ IF response["core_L1i"] # None THEN UNCHANGED <<l1i_at, l1i_pkt, response>>
     ELSE /\ response' = [response EXCEPT !["core_L1i"] = l1i_pkt]
          /\ l1i_at' = "top" /\ l1i_pkt' = None
  /\ UNCHANGED request /\ NotL1i

L1InsnCacheTurn == L1iBoot \/ L1iAccept \/ L1iLookup \/ L1iFill

-----------------------------------------------------------------------------
\* The core selection multiplexers, of one input each: NUM_CORES is 1.
NotSelection == UNCHANGED <<prog, dramVars, vecBus, clients, l1iVars, muxVars, vecVars>>

SelectionSteps(s, at, pkt) ==
  /\ selection_at' = [selection_at EXCEPT ![s] = at]
  /\ selection_pkt' = [selection_pkt EXCEPT ![s] = pkt]

SelectionAccept(s) ==
  /\ selection_at[s] = "top"
  /\ IF request[Above[s]] # None
     THEN /\ SelectionSteps(s, "forward", request[Above[s]])
          /\ request' = [request EXCEPT ![Above[s]] = None]
     ELSE /\ SelectionSteps(s, "respond", None)
          /\ UNCHANGED request
  /\ UNCHANGED response /\ NotSelection

\* Mutant: the slot below is not tested.
SelectionForward_Untested(s) ==
  /\ selection_at[s] = "forward"
  /\ request' = [request EXCEPT ![Below[s]] = selection_pkt[s]]
  /\ SelectionSteps(s, "respond", None)
  /\ UNCHANGED response /\ NotSelection

SelectionForward(s) ==
  /\ selection_at[s] = "forward"
  /\ IF request[Below[s]] # None THEN UNCHANGED <<selectionVars, request>>
     ELSE /\ request' = [request EXCEPT ![Below[s]] = selection_pkt[s]]
          /\ SelectionSteps(s, "respond", None)
  /\ UNCHANGED response /\ NotSelection

SelectionRespond(s) ==
  /\ selection_at[s] = "respond"
  /\ IF response[Below[s]] # None
     THEN /\ SelectionSteps(s, "route", response[Below[s]])
          /\ response' = [response EXCEPT ![Below[s]] = None]
     ELSE /\ SelectionSteps(s, "top", None)
          /\ UNCHANGED response
  /\ UNCHANGED request /\ NotSelection

SelectionRoute(s) ==
  /\ selection_at[s] = "route"
  /\ response' = [response EXCEPT ![Above[s]] = selection_pkt[s]]
  /\ SelectionSteps(s, "top", None)
  /\ UNCHANGED request /\ NotSelection

SelectionTurn(s) == \/ SelectionAccept(s) \/ SelectionForward(s)
                    \/ SelectionRespond(s) \/ SelectionRoute(s)

-----------------------------------------------------------------------------
\* The core internal multiplexer.  A segment may run through several of its
\* tests; each operator below is the rest of the segment from one test on, after
\* requests became req and responses resp.
NotMux == UNCHANGED <<prog, dramVars, vecBus, clients, l1iVars, selectionVars, vecVars>>

MuxTakes(at, pkt) == mux_at' = at /\ mux_pkt' = pkt

MuxTestResponse(req, resp) ==
  /\ request' = req
  /\ IF resp["L2_L3"] # None
     THEN /\ MuxTakes("route", resp["L2_L3"])
          /\ response' = [resp EXCEPT !["L2_L3"] = None]
     ELSE /\ MuxTakes("top", None)
          /\ response' = resp

MuxTestVec(req, resp) ==
  IF req["L2d_mux"] # None
  THEN /\ MuxTakes("forward_vec", req["L2d_mux"])
       /\ request' = [req EXCEPT !["L2d_mux"] = None]
       /\ response' = resp
  ELSE MuxTestResponse(req, resp)

\* Mutant: fetch is served only when no data request waits.
MuxTestFetch_DataFirst(req, resp) ==
  IF req["L2d_mux"] # None
  THEN /\ MuxTakes("forward_vec", req["L2d_mux"])
       /\ request' = [req EXCEPT !["L2d_mux"] = None]
       /\ response' = resp
  ELSE IF req["L2i_mux"] # None
  THEN /\ MuxTakes("forward_fetch", req["L2i_mux"])
       /\ request' = [req EXCEPT !["L2i_mux"] = None]
       /\ response' = resp
  ELSE MuxTestResponse(req, resp)

MuxTestFetch(req, resp) ==
  IF req["L2i_mux"] # None
  THEN /\ MuxTakes("forward_fetch", req["L2i_mux"])
       /\ request' = [req EXCEPT !["L2i_mux"] = None]
       /\ response' = resp
  ELSE MuxTestVec(req, resp)

MuxAccept ==
  /\ mux_at = "top"
  /\ MuxTestFetch(request, response)
  /\ NotMux

MuxForward ==
  /\ mux_at \in {"forward_fetch", "forward_vec"}
  /\ LET sent == [request EXCEPT !["L2_L3"] = mux_pkt]
     IN IF request["L2_L3"] # None THEN UNCHANGED <<muxVars, buses>>
        ELSE IF mux_at = "forward_fetch" THEN MuxTestVec(sent, response)
        ELSE MuxTestResponse(sent, response)
  /\ NotMux

\* Mutant: every response goes to the data side.
MuxRoute_ToData ==
  /\ mux_at = "route"
  /\ MuxTestFetch(request, [response EXCEPT !["L2d_mux"] = mux_pkt])
  /\ NotMux

\* Hands the response up and is back at the first test without a switch.
MuxRoute ==
  /\ mux_at = "route"
  /\ LET to == IF mux_pkt.source = "fetch" THEN "L2i_mux" ELSE "L2d_mux"
     IN MuxTestFetch(request, [response EXCEPT ![to] = mux_pkt])
  /\ NotMux

InternalMultiplexerTurn == MuxAccept \/ MuxForward \/ MuxRoute

-----------------------------------------------------------------------------
\* The DRAM.
NotDram == UNCHANGED <<prog, vecBus, clients, l1iVars, selectionVars, muxVars, vecVars>>

DramAccept ==
  /\ dram_at = "top" /\ request["L3_DRAM"] # None
  /\ dram_pkt' = request["L3_DRAM"]
  /\ request' = [request EXCEPT !["L3_DRAM"] = None]
  /\ dram_at' = "accepted"
  /\ UNCHANGED <<storage, response>> /\ NotDram

DramDelay ==
  /\ \/ dram_at = "top" /\ request["L3_DRAM"] = None /\ dram_at' = "top"
     \/ dram_at \in {"accepted", "delay"} /\ dram_at' = "delay"
  /\ UNCHANGED <<storage, dram_pkt, buses>> /\ NotDram

InStorage(address) ==
  IF address[1] = "code" THEN Line(address[2])
  ELSE IF address[2] \in Addr THEN storage[address[2]] ELSE 0

DramRead ==
  /\ dram_at = "delay" /\ IsRead(dram_pkt)
  /\ response' = [response EXCEPT !["L3_DRAM"] =
                    Packet("read_response", dram_pkt.source, dram_pkt.address,
                           InStorage(dram_pkt.address))]
  /\ dram_at' = "top" /\ dram_pkt' = None
  /\ UNCHANGED <<storage, request>> /\ NotDram

DramWrite ==
  /\ dram_at = "delay" /\ IsWrite(dram_pkt)
  /\ storage' = [a \in Addr |-> IF Data(a) = dram_pkt.address THEN dram_pkt.payload
                                ELSE storage[a]]
  /\ dram_at' = "top" /\ dram_pkt' = None
  /\ UNCHANGED buses /\ NotDram

DramTurn == DramAccept \/ DramDelay \/ DramRead \/ DramWrite

-----------------------------------------------------------------------------
\* The vector memory controller.
NotVec == UNCHANGED <<prog, dramVars, clients, l1iVars, selectionVars, muxVars>>

LanesLeft == lane < NUMBER_OF_VECTOR_THREADS

VecAccept ==
  /\ vec_at = "top"
  /\ IF vec_request # None
     THEN /\ vec_pkt' = vec_request
          /\ vec_request' = None
          /\ vec_at' = "lanes"
     ELSE UNCHANGED <<vec_at, vec_pkt, vec_request>>
  /\ UNCHANGED <<vec_response, lane, lane_response, buses>> /\ NotVec

\* Takes the answer to the lane's read if it has come.
VecTakesLane(resp) ==
  IF resp["core_L1d"] # None
  THEN /\ lane_response' = resp["core_L1d"].payload
       /\ response' = [resp EXCEPT !["core_L1d"] = None]
       /\ vec_at' = "got_lane"
  ELSE /\ vec_at' = "await_lane"
       /\ UNCHANGED lane_response
       /\ response' = resp

\* Mutant: a lane is sent although the one before still waits.
VecSendLane_Untested ==
  /\ vec_at = "lanes" /\ LanesLeft
  /\ LET address == Data(vec_pkt.address[lane])
     IN IF IsRead(vec_pkt)
        THEN /\ request' = [request EXCEPT !["core_L1d"] = Packet("read", "store", address, 0)]
             /\ VecTakesLane(response)
             /\ UNCHANGED lane
        ELSE /\ request' = [request EXCEPT !["core_L1d"] =
                              Packet("write", "store", address, vec_pkt.payload[lane])]
             /\ lane' = lane + 1
             /\ UNCHANGED <<vec_at, lane_response, response>>
  /\ UNCHANGED <<vec_pkt, vecBus>> /\ NotVec

VecSendLane ==
  /\ vec_at = "lanes" /\ LanesLeft
  /\ LET address == Data(vec_pkt.address[lane])
     IN IF request["core_L1d"] # None THEN UNCHANGED <<vecVars, buses>>
        ELSE IF IsRead(vec_pkt)
        THEN /\ request' = [request EXCEPT !["core_L1d"] = Packet("read", "store", address, 0)]
             /\ VecTakesLane(response)
             /\ UNCHANGED lane
        ELSE /\ request' = [request EXCEPT !["core_L1d"] =
                              Packet("write", "store", address, vec_pkt.payload[lane])]
             /\ lane' = lane + 1
             /\ UNCHANGED <<vec_at, lane_response, response>>
  /\ UNCHANGED <<vec_pkt, vecBus>> /\ NotVec

VecAwaitLane ==
  /\ vec_at = "await_lane"
  /\ VecTakesLane(response)
  /\ UNCHANGED <<vec_pkt, lane, request, vecBus>> /\ NotVec

VecStoreLane ==
  /\ vec_at = "got_lane"
  /\ vec_pkt' = [vec_pkt EXCEPT !.payload[lane] = lane_response]
  /\ lane' = lane + 1
  /\ vec_at' = "lanes" /\ lane_response' = None
  /\ UNCHANGED <<vecBus, buses>> /\ NotVec

\* Mutant: the loaded vector is not sent to the core.
VecFinish_NoAnswer ==
  /\ vec_at = "lanes" /\ ~LanesLeft
  /\ vec_at' = "top" /\ vec_pkt' = None /\ lane' = 0
  /\ UNCHANGED <<lane_response, vecBus, buses>> /\ NotVec

VecFinish ==
  /\ vec_at = "lanes" /\ ~LanesLeft
  /\ vec_response' = IF IsRead(vec_pkt) THEN [vec_pkt EXCEPT !.packet_type = "read_response"]
                     ELSE vec_response
  /\ vec_at' = "top" /\ vec_pkt' = None /\ lane' = 0
  /\ UNCHANGED <<lane_response, vec_request, buses>> /\ NotVec

VectorMemoryControllerTurn ==
  VecAccept \/ VecSendLane \/ VecAwaitLane \/ VecStoreLane \/ VecFinish

-----------------------------------------------------------------------------
Turn(c) ==
  \/ c = "L2d"         /\ L2DataCacheTurn
  \/ c = "L2i"         /\ L2InsnCacheTurn
  \/ c = "l2di"        /\ InternalMultiplexerTurn
  \/ c = "L3"          /\ L3CacheTurn
  \/ c = "dram"        /\ DramTurn
  \/ c = "fetch"       /\ FetchTurn
  \/ c = "store"       /\ StoreTurn
  \/ c = "L1d"         /\ L1DataCacheTurn
  \/ c = "L1i"         /\ L1InsnCacheTurn
  \/ c = "vecctl"      /\ VectorMemoryControllerTurn
  \/ c = "select_data" /\ SelectionTurn("data")
  \/ c = "select_insn" /\ SelectionTurn("insn")

PassTurn == turn' = IF turn = Len(Order) THEN 1 ELSE turn + 1

Next == Turn(Order[turn]) /\ PassTurn

Spec == Init /\ [][Next]_vars

-----------------------------------------------------------------------------
(***************************************************************************)
(* Correctness.                                                            *)
(***************************************************************************)

Slot(S) == S \union {None}

IsPacket(pkt) ==
  /\ pkt.packet_type \in {"read", "write", "read_response"}
  /\ CASE pkt.source = "fetch" -> /\ pkt.address \in {Code(pc) : pc \in FetchLine}
                                  /\ pkt.packet_type # "write"
                                  /\ pkt.packet_type = "read_response" =>
                                       pkt.payload \in [{0, 1} -> Instruction]
       [] pkt.source = "store" -> /\ pkt.address \in {Data(a) : a \in LaneValue}
                                  /\ pkt.payload \in LaneValue
       [] OTHER -> FALSE

\* Requests and responses stay on their side of the buses, a bus of one side
\* carries only packets of its client, and every component is at one of its
\* switches.
TypeOK ==
  /\ storage \in [Addr -> LaneValue]
  /\ DOMAIN request = Bus /\ DOMAIN response = Bus
  /\ \A b \in Bus :
       /\ request[b] # None => IsPacket(request[b]) /\ request[b].packet_type # "read_response"
       /\ response[b] # None => IsPacket(response[b]) /\ response[b].packet_type = "read_response"
       /\ b \in {"core_L1i", "L1i_L2i", "core_L2i", "L2i_mux"} =>
            \A pkt \in {request[b], response[b]} \ {None} : pkt.source = "fetch"
       /\ b \in {"core_L1d", "L1d_L2d", "core_L2d", "L2d_mux"} =>
            \A pkt \in {request[b], response[b]} \ {None} : pkt.source = "store"
  /\ {vec_request, vec_response, vec_pkt} \subseteq Slot(VecPacket)
  /\ fetch_awaits \in Slot(FetchLine) /\ load_awaits \in BOOLEAN
  /\ l1i_at \in {"boot", "top", "lookup", "fill"}
  /\ selection_at \in [Sides -> {"top", "forward", "respond", "route"}]
  /\ mux_at \in {"top", "forward_fetch", "forward_vec", "route"}
  /\ dram_at \in {"top", "accepted", "delay"}
  /\ vec_at \in {"top", "lanes", "await_lane", "got_lane"}
  /\ lane \in 0 .. NUMBER_OF_VECTOR_THREADS
  /\ turn \in 1 .. Len(Order)

\* The asserts of MemoryBus.h:96 and :103: what a component sends finds its slot
\* free, although seven of the senders do not look.  (An equal packet cannot be
\* told apart; OnePacketPerRead excludes that there are two.)
NoPacketOverwritten ==
  [][\A b \in Bus :
       /\ request[b] # None => request'[b] \in {request[b], None}
       /\ response[b] # None => response'[b] \in {response[b], None}]_vars

-----------------------------------------------------------------------------
\* What the components hold between two switches.
Held == <<l1i_pkt, selection_pkt["insn"], selection_pkt["data"], mux_pkt, dram_pkt>>

One(b) == IF b THEN 1 ELSE 0

\* How many packets of a client's reads are on their way, down or up.
ReadsInFlight(source) ==
  LET Counts(pkt) == pkt # None /\ pkt.source = source /\ ~IsWrite(pkt)
  IN Cardinality({b \in Bus : Counts(request[b])})
     + Cardinality({b \in Bus : Counts(response[b])})
     + Cardinality({k \in DOMAIN Held : Counts(Held[k])})

\* A client that waits has exactly one packet on its way, and one that does not
\* has none: no read is lost, answered twice, or answered to the other client.
OnePacketPerRead ==
  /\ ReadsInFlight("fetch") = One(fetch_awaits # None)
  /\ One(load_awaits) = One(IsRead(vec_request)) + One(IsRead(vec_pkt)) + One(vec_response # None)
  /\ ReadsInFlight("store") = One(vec_at = "await_lane")

-----------------------------------------------------------------------------
(***************************************************************************)
(* The hierarchy implements the memory of CoreMemory.  A vector write      *)
(* takes effect when its first lane is sent: the abstract memory is the    *)
(* DRAM's with every write on its way, and the lanes still to be sent,     *)
(* applied in order.                                                       *)
(***************************************************************************)

\* Memory m after the write pkt, if it is one.
Written(m, pkt) ==
  [a \in Addr |-> IF IsWrite(pkt) /\ pkt.address = Data(a) THEN pkt.payload ELSE m[a]]

\* Memory m after the lanes of the vector write pkt from first on, in order.
LanesWritten(m, pkt, first) ==
  LET LastLane(a) == {t \in Threads : /\ t >= first /\ pkt.address[t] = a
                                      /\ \A u \in Threads : u > t => pkt.address[u] # a}
  IN [a \in Addr |-> IF LastLane(a) # {} THEN pkt.payload[CHOOSE t \in LastLane(a) : TRUE]
                     ELSE m[a]]

\* Memory after the writes that are on their way below the core internal
\* multiplexer, below the core selection multiplexer, and below the controller.
MemoryAtL3 == Written(Written(Written(storage, dram_pkt), request["L3_DRAM"]), request["L2_L3"])
MemoryAtL2 == Written(Written(Written(MemoryAtL3, mux_pkt), request["L2d_mux"]),
                       request["core_L2d"])
MemoryAtL1 == Written(Written(Written(MemoryAtL2, selection_pkt["data"]), request["L1d_L2d"]),
                       request["core_L1d"])

MemoryInEffect ==
  IF IsWrite(vec_pkt) /\ lane > 0 THEN LanesWritten(MemoryAtL1, vec_pkt, lane) ELSE MemoryAtL1

CoreView == INSTANCE CoreMemory WITH
  mem           <- MemoryInEffect,
  insn_request  <- IF response["core_L1i"] = None THEN fetch_awaits ELSE None,
  insn_response <- IF response["core_L1i"] = None THEN None ELSE response["core_L1i"].payload,
  vec_accepted  <- IF IsWrite(vec_pkt) /\ lane > 0 THEN None
                   ELSE IF IsRead(vec_pkt) THEN [vec_pkt EXCEPT !.payload = create_vec(0)]
                   ELSE vec_pkt

\* Fetch gets the line it asked for, a load sees all earlier stores and no part
\* of a later one, and every answer is given once.
ImplementsCoreMemory == CoreView!MemorySpec

-----------------------------------------------------------------------------
\* The rounds go on, and the DRAM, which counts a fixed number of rounds per
\* access (Task.h:39-49), answers in the end.
DramFinish == Order[turn] = "dram" /\ (DramRead \/ DramWrite) /\ PassTurn

Fairness == WF_vars(Next) /\ SF_vars(DramFinish)

FairSpec == Spec /\ Fairness

\* Whatever the other client does, a fetch is answered, and a load after the
\* stores before it.
FetchAnswered == (fetch_awaits # None) ~> (fetch_awaits = None)
LoadAnswered  == load_awaits ~> ~load_awaits
=============================================================================
