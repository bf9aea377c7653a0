----------------------- MODULE MemoryRefinementProofs ------------------------
(***************************************************************************)
(* The memory hierarchy implements the memory of module CoreMemory, which  *)
(* answers a line or a vector access in one step. The refinement mapping   *)
(* takes the memory to be the DRAM's with every write that is under way    *)
(* applied in order. The argument: a component that passes a write on      *)
(* leaves that memory as it is, and only a lane that the vector memory     *)
(* controller sends changes it (WrittenPassedOn and the lemmas ...Memory). *)
(* A line that is given to fetch is the line it asked for, from the        *)
(* program, whether the cache had it or the DRAM (AnswersInv). A lane that *)
(* is loaded holds what the memory held when it was answered, and still    *)
(* does when the vector is complete, because no write is sent while a load *)
(* waits (LoadInv). So every turn is one step of the abstract memory, or   *)
(* none.                                                                   *)
(***************************************************************************)
EXTENDS MemoryTrafficProofs, WellFoundedInduction

USE DEF Slot

-----------------------------------------------------------------------------
(* The lanes of a vector write, one after the other. *)

\* A set of lanes that is not empty has a last one.
LEMMA LastThread ==
  ASSUME NEW S \in SUBSET Threads, S # {} PROVE \E t \in S : \A u \in S : u <= t
  <1> DEFINE n == NUMBER_OF_VECTOR_THREADS
             R == OpToRel(<, Nat)
             T == {k \in Nat : n - 1 - k \in S}
  <1>0. n \in Nat /\ S \subseteq 0 .. n - 1
    BY VectorOpsAssumption DEF Threads
  <1>1. \A i, j \in Nat : <<i, j>> \in R <=> i < j
    BY DEF OpToRel
  <1>2. IsWellFoundedOn(R, Nat)
    BY NatLessThanWellFounded
  <1> HIDE DEF R, n
  <1>3. T # {}
    <2>1. PICK t \in S : TRUE
      OBVIOUS
    <2>2. n - 1 - t \in T
      BY <1>0
    <2> QED  BY <2>2
  <1>4. PICK k \in T : \A j \in T : ~(<<j, k>> \in R)
    <2>1. T \subseteq Nat
      OBVIOUS
    <2> HIDE DEF T
    <2> QED  BY <1>2, <1>3, <2>1, WFMin
  <1>5. \A u \in S : n - 1 - u \in T
    BY <1>0
  <1>6. \A u \in S : ~(n - 1 - u < k)
    BY <1>1, <1>4, <1>5
  <1> QED  BY <1>0, <1>4, <1>6

\* The last lane from first on that writes to an address, and what a lane writes.
LastLane(pkt, first, a) ==
  {t \in Threads : /\ t >= first /\ pkt.address[t] = a
                   /\ \A u \in Threads : u > t => pkt.address[u] # a}

LaneWrite(pkt, k) == Packet("write", "store", Data(pkt.address[k]), pkt.payload[k])

\* The last lane decides what the memory holds at its address.
Decided(m, pkt, first, a) ==
  IF LastLane(pkt, first, a) # {} THEN pkt.payload[CHOOSE t \in LastLane(pkt, first, a) : TRUE]
  ELSE m[a]

LEMMA LanesWrittenAt ==
  ASSUME NEW m, NEW pkt, NEW first
  PROVE  LanesWritten(m, pkt, first) = [a \in Addr |-> Decided(m, pkt, first, a)]
  BY DEF LanesWritten, LastLane, Decided

LEMMA LastLaneDecides ==
  ASSUME NEW m, NEW pkt, NEW first, NEW a
  PROVE  /\ LastLane(pkt, first, a) = {} => Decided(m, pkt, first, a) = m[a]
         /\ \A k \in LastLane(pkt, first, a) : Decided(m, pkt, first, a) = pkt.payload[k]
  <1>1. LastLane(pkt, first, a) = {} => Decided(m, pkt, first, a) = m[a]
    BY DEF Decided
  <1>2. ASSUME NEW k \in LastLane(pkt, first, a) PROVE Decided(m, pkt, first, a) = pkt.payload[k]
    <2>1. \A t \in LastLane(pkt, first, a) : t = k
      BY <1>2, VectorOpsAssumption DEF LastLane, Threads
    <2>2. (CHOOSE t \in LastLane(pkt, first, a) : TRUE) \in LastLane(pkt, first, a)
      BY <1>2
    <2>3. (CHOOSE t \in LastLane(pkt, first, a) : TRUE) = k
      BY <2>1, <2>2
    <2>4. LastLane(pkt, first, a) # {}
      BY <1>2
    <2> QED  BY <2>3, <2>4 DEF Decided
  <1> QED  BY <1>1, <1>2

\* A lane that is written before the rest of them is one of them: the lanes behind it
\* decide where they write.
LEMMA OneLaneWritten ==
  ASSUME NEW m, NEW pkt, NEW k \in Threads, LaneWrite(pkt, k) # None
  PROVE  LanesWritten(Written(m, LaneWrite(pkt, k)), pkt, k + 1) = LanesWritten(m, pkt, k)
  <1> DEFINE w == Written(m, LaneWrite(pkt, k))
  <1>0. Threads = 0 .. NUMBER_OF_VECTOR_THREADS - 1 /\ NUMBER_OF_VECTOR_THREADS \in Nat
    BY VectorOpsAssumption DEF Threads
  <1>1. \A a \in Addr : w[a] = IF pkt.address[k] = a THEN pkt.payload[k] ELSE m[a]
    BY DEF Written, LaneWrite, Packet, IsWrite, Data
  <1> HIDE DEF w
  <1>2. ASSUME NEW a \in Addr PROVE Decided(w, pkt, k + 1, a) = Decided(m, pkt, k, a)
    <2>0. LastLane(pkt, k + 1, a) \subseteq LastLane(pkt, k, a)
      BY <1>0 DEF LastLane
    <2>1. CASE LastLane(pkt, k + 1, a) # {}
      <3>1. PICK t \in LastLane(pkt, k + 1, a) : TRUE
        BY <2>1
      <3> QED  BY <2>0, <3>1, LastLaneDecides
    <2>2. CASE LastLane(pkt, k + 1, a) = {} /\ pkt.address[k] # a
      <3>1. LastLane(pkt, k, a) = {}
        BY <1>0, <2>2 DEF LastLane
      <3> QED  BY <1>1, <2>2, <3>1, LastLaneDecides
    <2>3. CASE LastLane(pkt, k + 1, a) = {} /\ pkt.address[k] = a
      <3> DEFINE S == {u \in Threads : u > k /\ pkt.address[u] = a}
      <3>1. S = {}
        <4> SUFFICES ASSUME S # {} PROVE FALSE
          OBVIOUS
        <4>1. PICK t \in S : \A u \in S : u <= t
          BY LastThread
        <4>2. t \in LastLane(pkt, k + 1, a)
          BY <1>0, <4>1 DEF LastLane
        <4> QED  BY <2>3, <4>2
      <3>2. k \in LastLane(pkt, k, a)
        BY <1>0, <2>3, <3>1 DEF LastLane
      <3> QED  BY <1>1, <2>3, <3>2, LastLaneDecides
    <2> QED  BY <2>1, <2>2, <2>3
  <1>3. [a \in Addr |-> Decided(w, pkt, k + 1, a)] = [a \in Addr |-> Decided(m, pkt, k, a)]
    BY <1>2
  <1>4. LanesWritten(w, pkt, k + 1) = LanesWritten(m, pkt, k)
    BY <1>3, LanesWrittenAt
  <1> QED  BY <1>4 DEF w

\* After the last lane nothing is left to be written.
LEMMA AllLanesWritten ==
  ASSUME NEW m, NEW pkt
  PROVE  LanesWritten(m, pkt, NUMBER_OF_VECTOR_THREADS) = [a \in Addr |-> m[a]]
  <1>1. \A a : LastLane(pkt, NUMBER_OF_VECTOR_THREADS, a) = {}
    BY VectorOpsAssumption DEF LastLane, Threads
  <1>2. [a \in Addr |-> Decided(m, pkt, NUMBER_OF_VECTOR_THREADS, a)] = [a \in Addr |-> m[a]]
    BY <1>1, LastLaneDecides
  <1> QED  BY <1>2, LanesWrittenAt

\* With no lane sent, the lanes to write are the vector write of the abstract memory.
LEMMA NoLaneWritten ==
  ASSUME NEW m, NEW pkt PROVE CoreView!AfterWrite(m, pkt) = LanesWritten(m, pkt, 0)
  <1> DEFINE Last(a) == {t \in Threads : /\ pkt.address[t] = a
                                         /\ \A u \in Threads : u > t => pkt.address[u] # a}
             After(S, a) == IF S # {} THEN pkt.payload[CHOOSE t \in S : TRUE] ELSE m[a]
  <1>1. \A a : LastLane(pkt, 0, a) = Last(a)
    BY VectorOpsAssumption DEF LastLane, Threads
  <1>2. CoreView!AfterWrite(m, pkt) = [a \in Addr |-> After(Last(a), a)]
    BY DEF CoreView!AfterWrite, CoreView!Threads, Threads
  <1>3. \A a : Decided(m, pkt, 0, a) = After(LastLane(pkt, 0, a), a)
    BY DEF Decided
  <1> HIDE DEF Last, After
  <1>4. [a \in Addr |-> After(Last(a), a)] = [a \in Addr |-> Decided(m, pkt, 0, a)]
    BY <1>1, <1>3
  <1> QED  BY <1>2, <1>4, LanesWrittenAt

-----------------------------------------------------------------------------
(* Only a lane that is sent changes the memory. *)

\* A write passed on to an empty slot in front of it, and a packet that is no write,
\* leave the memory as it is.
LEMMA WrittenPassedOn ==
  /\ \A m, x : Written(Written(m, None), x) = Written(Written(m, x), None)
  /\ \A m, x : ~IsWrite(x) => Written(m, x) = Written(m, None)
  /\ \A m, x, y : Written(Written(m, x), None) = Written(m, x)
  /\ \A m : Written(m, None) = [a \in Addr |-> m[a]]
  BY DEF Written, IsWrite

\* The data caches and the L3 cache pass a write on to the next slot.
LEMMA L1DataCacheMemory ==
  ASSUME TypeInv, L1DataCacheTurn PROVE MemoryAtL1' = MemoryAtL1
  <1>1. UNCHANGED <<storage, dram_pkt, mux_pkt, selection_pkt>>
    BY DEF L1DataCacheTurn, NotForward, dramVars, muxVars, selectionVars
  <1>2. DOMAIN request = Bus
    BY DEF TypeInv, BusInv
  <1>3. CASE request["L1d_L2d"] = None /\ request["core_L1d"] # None
    <2>1. /\ request'["L1d_L2d"] = request["core_L1d"] /\ request'["core_L1d"] = None
          /\ \A d \in Bus \ {"core_L1d", "L1d_L2d"} : request'[d] = request[d]
      BY <1>2, <1>3 DEF L1DataCacheTurn, PassRequest, Moved, Bus
    <2> QED  BY <1>1, <1>3, <2>1, WrittenPassedOn DEF MemoryAtL1, MemoryAtL2, MemoryAtL3, Bus
  <1>4. CASE ~(request["L1d_L2d"] = None /\ request["core_L1d"] # None)
    <2>1. request' = request
      BY <1>4 DEF L1DataCacheTurn, PassRequest
    <2> QED  BY <1>1, <2>1 DEF MemoryAtL1, MemoryAtL2, MemoryAtL3
  <1> QED  BY <1>3, <1>4

LEMMA L2DataCacheMemory ==
  ASSUME TypeInv, L2DataCacheTurn PROVE MemoryAtL1' = MemoryAtL1
  <1>1. UNCHANGED <<storage, dram_pkt, mux_pkt, selection_pkt>>
    BY DEF L2DataCacheTurn, NotForward, dramVars, muxVars, selectionVars
  <1>2. DOMAIN request = Bus
    BY DEF TypeInv, BusInv
  <1>3. CASE request["L2d_mux"] = None /\ request["core_L2d"] # None
    <2>1. /\ request'["L2d_mux"] = request["core_L2d"] /\ request'["core_L2d"] = None
          /\ \A d \in Bus \ {"core_L2d", "L2d_mux"} : request'[d] = request[d]
      BY <1>2, <1>3 DEF L2DataCacheTurn, PassRequest, Moved, Bus
    <2> QED  BY <1>1, <1>3, <2>1, WrittenPassedOn DEF MemoryAtL1, MemoryAtL2, MemoryAtL3, Bus
  <1>4. CASE ~(request["L2d_mux"] = None /\ request["core_L2d"] # None)
    <2>1. request' = request
      BY <1>4 DEF L2DataCacheTurn, PassRequest
    <2> QED  BY <1>1, <2>1 DEF MemoryAtL1, MemoryAtL2, MemoryAtL3
  <1> QED  BY <1>3, <1>4

LEMMA L3CacheMemory ==
  ASSUME TypeInv, L3CacheTurn PROVE MemoryAtL1' = MemoryAtL1
  <1>1. UNCHANGED <<storage, dram_pkt, mux_pkt, selection_pkt>>
    BY DEF L3CacheTurn, NotForward, dramVars, muxVars, selectionVars
  <1>2. DOMAIN request = Bus
    BY DEF TypeInv, BusInv
  <1>3. CASE request["L3_DRAM"] = None /\ request["L2_L3"] # None
    <2>1. /\ request'["L3_DRAM"] = request["L2_L3"] /\ request'["L2_L3"] = None
          /\ \A d \in Bus \ {"L2_L3", "L3_DRAM"} : request'[d] = request[d]
      BY <1>2, <1>3 DEF L3CacheTurn, PassRequest, Moved, Bus
    <2> QED  BY <1>1, <1>3, <2>1, WrittenPassedOn DEF MemoryAtL1, MemoryAtL2, MemoryAtL3, Bus
  <1>4. CASE ~(request["L3_DRAM"] = None /\ request["L2_L3"] # None)
    <2>1. request' = request
      BY <1>4 DEF L3CacheTurn, PassRequest
    <2> QED  BY <1>1, <2>1 DEF MemoryAtL1, MemoryAtL2, MemoryAtL3
  <1> QED  BY <1>3, <1>4

\* A selection multiplexer takes a write and passes it on.
LEMMA SelectionMemory ==
  ASSUME TypeInv, NEW s \in Sides, SelectionTurn(s) PROVE MemoryAtL1' = MemoryAtL1
  <1>1. UNCHANGED <<storage, dram_pkt, mux_pkt>>
    BY DEF SelectionTurn, SelectionAccept, SelectionForward, SelectionRespond, SelectionRoute,
       NotSelection, dramVars, muxVars
  <1>2. /\ DOMAIN request = Bus /\ DOMAIN selection_pkt = Sides
        /\ Above[s] \in Bus /\ Below[s] \in Bus /\ Above[s] # Below[s]
    BY DEF TypeInv, BusInv, SelectionInv, Sides, Above, Below, Bus
  <1>3. CASE SelectionAccept(s) /\ request[Above[s]] # None
    <2>1. /\ selection_pkt[s] = None
          /\ selection_pkt'[s] = request[Above[s]] /\ request'[Above[s]] = None
          /\ \A d \in Bus \ {Above[s]} : request'[d] = request[d]
          /\ \A r \in Sides \ {s} : selection_pkt'[r] = selection_pkt[r]
      BY <1>2, <1>3, NoneIsNoPacket
      DEF SelectionAccept, SelectionSteps, TypeInv, SelectionInv
    <2> QED  BY <1>1, <1>2, <2>1, WrittenPassedOn
             DEF MemoryAtL1, MemoryAtL2, MemoryAtL3, Bus, Sides, Above
  <1>4. CASE SelectionForward(s) /\ request[Below[s]] = None
    <2>1. /\ request'[Below[s]] = selection_pkt[s] /\ selection_pkt'[s] = None
          /\ \A d \in Bus \ {Below[s]} : request'[d] = request[d]
          /\ \A r \in Sides \ {s} : selection_pkt'[r] = selection_pkt[r]
      BY <1>2, <1>4 DEF SelectionForward, SelectionSteps
    <2> QED  BY <1>1, <1>2, <1>4, <2>1, WrittenPassedOn
             DEF MemoryAtL1, MemoryAtL2, MemoryAtL3, Bus, Sides, Below
  <1>5. CASE /\ request' = request /\ ~IsWrite(selection_pkt[s]) /\ ~IsWrite(selection_pkt'[s])
             /\ \A r \in Sides \ {s} : selection_pkt'[r] = selection_pkt[r]
    BY <1>1, <1>5, WrittenPassedOn DEF MemoryAtL1, MemoryAtL2, MemoryAtL3, Sides
  <1>6. CASE UNCHANGED <<selection_pkt, request>>
    BY <1>1, <1>6 DEF MemoryAtL1, MemoryAtL2, MemoryAtL3
  <1>7. ~IsWrite(None) /\ \A b \in Bus : \A x \in AnswerOn(b) : ~IsWrite(x)
    BY Kinds DEF AnswerOn, IsWrite
  <1>8. selection_at[s] = "top" \/ selection_at[s] = "respond" => ~IsWrite(selection_pkt[s])
    BY <1>7 DEF TypeInv, SelectionInv
  <1>9. selection_at[s] = "route" => ~IsWrite(selection_pkt[s])
    BY <1>2, <1>7 DEF TypeInv, SelectionInv
  <1>10. ~IsWrite(response[Below[s]])
    BY <1>2, <1>7 DEF TypeInv, BusInv
  <1> QED  BY <1>2, <1>3, <1>4, <1>5, <1>6, <1>7, <1>8, <1>9, <1>10
           DEF SelectionTurn, SelectionAccept, SelectionForward, SelectionRespond, SelectionRoute,
               SelectionSteps, selectionVars

\* What the tests of the internal multiplexer take from the buses.
MuxTook(req) ==
  /\ \A d \in Bus \ {"L2i_mux", "L2d_mux"} : request'[d] = req[d]
  /\ \/ ~IsWrite(mux_pkt') /\ request'["L2d_mux"] = req["L2d_mux"]
     \/ mux_pkt' = req["L2d_mux"] /\ request'["L2d_mux"] = None

LEMMA MuxTestMemory ==
  ASSUME NEW req, NEW resp, MuxTestFetch(req, resp) \/ MuxTestVec(req, resp)
                            \/ MuxTestResponse(req, resp),
         DOMAIN req = Bus, req["L2i_mux"] \in Slot(FetchRead),
         resp["L2_L3"] \in Slot(FetchAnswer \union StoreAnswer)
  PROVE  MuxTook(req)
  <1>1. ~IsWrite(None)
    BY DEF IsWrite
  <1>2. CASE MuxTestResponse(req, resp)
    BY <1>1, <1>2, Kinds DEF MuxTestResponse, MuxTakes, MuxTook
  <1>3. CASE MuxTestVec(req, resp)
    BY <1>2, <1>3 DEF MuxTestVec, MuxTakes, MuxTook, Bus
  <1>4. CASE MuxTestFetch(req, resp)
    BY <1>3, <1>4, Kinds DEF MuxTestFetch, MuxTakes, MuxTook, Bus
  <1> QED  BY <1>2, <1>3, <1>4

LEMMA MuxMemory ==
  ASSUME TypeInv, InternalMultiplexerTurn PROVE MemoryAtL1' = MemoryAtL1
  <1>1. UNCHANGED <<storage, dram_pkt, selection_pkt>>
    BY DEF InternalMultiplexerTurn, MuxAccept, MuxForward, MuxRoute, NotMux, dramVars, selectionVars
  <1>2. /\ DOMAIN request = Bus /\ DOMAIN response = Bus /\ request["L2i_mux"] \in Slot(FetchRead)
        /\ response["L2_L3"] \in Slot(FetchAnswer \union StoreAnswer)
    BY DEF TypeInv, BusInv, Bus, InsnBus, DataBus, RequestOn, AnswerOn
  <1>3. CASE MuxTook(request) /\ ~IsWrite(mux_pkt)
    BY <1>1, <1>3, WrittenPassedOn DEF MemoryAtL1, MemoryAtL2, MemoryAtL3, MuxTook, Bus
  <1>4. CASE MuxForward /\ request["L2_L3"] = None
    <2> DEFINE sent == [request EXCEPT !["L2_L3"] = mux_pkt]
    <2>1. MuxTestVec(sent, response) \/ MuxTestResponse(sent, response)
      BY <1>4 DEF MuxForward
    <2>2. /\ sent["L2_L3"] = mux_pkt /\ \A d \in Bus \ {"L2_L3"} : sent[d] = request[d]
          /\ DOMAIN sent = Bus
      BY <1>2 DEF Bus
    <2> HIDE DEF sent
    <2>3. MuxTook(sent)
      <3>1. sent["L2i_mux"] \in Slot(FetchRead)
        BY <1>2, <2>2 DEF Bus
      <3> QED  BY <1>2, <2>1, <2>2, <3>1, MuxTestMemory
    <2> QED  BY <1>1, <1>4, <2>2, <2>3, WrittenPassedOn
             DEF MemoryAtL1, MemoryAtL2, MemoryAtL3, MuxTook, Bus
  <1>5. CASE UNCHANGED <<muxVars, buses>>
    BY <1>1, <1>5 DEF MemoryAtL1, MemoryAtL2, MemoryAtL3, muxVars, buses
  <1>6. CASE MuxAccept
    <2>1. ~IsWrite(mux_pkt)
      BY <1>6 DEF MuxAccept, TypeInv, MuxInv, IsWrite
    <2>2. MuxTook(request)
      BY <1>2, <1>6, MuxTestMemory DEF MuxAccept
    <2> QED  BY <1>3, <2>1, <2>2
  <1>7. CASE MuxRoute
    <2> DEFINE to     == IF mux_pkt.source = "fetch" THEN "L2i_mux" ELSE "L2d_mux"
               routed == [response EXCEPT ![to] = mux_pkt]
    <2>1. MuxTestFetch(request, routed) /\ ~IsWrite(mux_pkt)
      BY <1>7, Kinds DEF MuxRoute, TypeInv, MuxInv
    <2>2. routed["L2_L3"] = response["L2_L3"]
      BY <1>2 DEF Bus
    <2> HIDE DEF routed
    <2>3. MuxTook(request)
      BY <1>2, <2>1, <2>2, MuxTestMemory
    <2> QED  BY <1>3, <2>1, <2>3
  <1> QED  BY <1>4, <1>5, <1>6, <1>7 DEF InternalMultiplexerTurn, MuxForward

\* The DRAM takes a write, and stores it.
LEMMA DramMemory ==
  ASSUME TypeInv, DramTurn PROVE MemoryAtL1' = MemoryAtL1
  <1>1. UNCHANGED <<mux_pkt, selection_pkt>>
    BY DEF DramTurn, DramAccept, DramDelay, DramRead, DramWrite, NotDram, muxVars, selectionVars
  <1>2. DOMAIN request = Bus
    BY DEF TypeInv, BusInv
  <1>3. CASE DramAccept
    <2>1. /\ dram_pkt = None /\ dram_pkt' = request["L3_DRAM"] /\ request'["L3_DRAM"] = None
          /\ \A d \in Bus \ {"L3_DRAM"} : request'[d] = request[d]
          /\ storage' = storage
      BY <1>2, <1>3, NoneIsNoPacket DEF DramAccept, TypeInv, DramInv, Bus
    <2> QED  BY <1>1, <2>1, WrittenPassedOn DEF MemoryAtL1, MemoryAtL2, MemoryAtL3, Bus
  <1>4. CASE DramDelay
    BY <1>1, <1>4 DEF DramDelay, buses, MemoryAtL1, MemoryAtL2, MemoryAtL3
  <1>5. CASE DramRead
    <2>1. /\ dram_pkt' = None /\ UNCHANGED <<storage, request>> /\ ~IsWrite(dram_pkt)
      BY <1>5 DEF DramRead, IsRead, IsWrite
    <2> QED  BY <1>1, <2>1, WrittenPassedOn DEF MemoryAtL1, MemoryAtL2, MemoryAtL3
  <1>6. CASE DramWrite
    <2>1. /\ dram_pkt' = None /\ request' = request
          /\ storage' = Written(storage, dram_pkt)
      BY <1>6 DEF DramWrite, Written, buses
    <2> QED  BY <1>1, <2>1, WrittenPassedOn DEF MemoryAtL1, MemoryAtL2, MemoryAtL3
  <1> QED  BY <1>3, <1>4, <1>5, <1>6 DEF DramTurn

\* The instruction side, and the clients, have no writes on the buses.
LEMMA OtherMemory ==
  ASSUME TypeInv, L2InsnCacheTurn \/ L1InsnCacheTurn \/ FetchTurn \/ StoreTurn
  PROVE  MemoryAtL1' = MemoryAtL1
  <1>1. UNCHANGED <<storage, dram_pkt, mux_pkt, selection_pkt>>
    BY DEF L2InsnCacheTurn, NotForward, L1InsnCacheTurn, L1iBoot, L1iAccept, L1iLookup, L1iFill,
       NotL1i, FetchTurn, StoreTurn, dramVars, muxVars, selectionVars
  <1>2. DOMAIN request = Bus
    BY DEF TypeInv, BusInv
  <1>3. \A d \in DataBus \union {"L2_L3", "L3_DRAM"} : request'[d] = request[d]
    BY <1>2 DEF DataBus, Bus, L2InsnCacheTurn, L1InsnCacheTurn, L1iBoot, L1iAccept, L1iLookup,
       L1iFill,
       L1iTakesResponse, FetchTurn, StoreTurn, buses
  <1> QED  BY <1>1, <1>3 DEF DataBus, MemoryAtL1, MemoryAtL2, MemoryAtL3

\* The vector memory controller sends a lane of a write.
LaneWritten == vec_at = "lanes" /\ LanesLeft /\ request["core_L1d"] = None /\ IsWrite(vec_pkt)

LEMMA VecMemory ==
  ASSUME TypeInv, VectorMemoryControllerTurn
  PROVE  MemoryAtL1' = IF VecSendLane /\ LaneWritten THEN Written(MemoryAtL1, LaneWrite(vec_pkt, lane))
                       ELSE MemoryAtL1
  <1>1. UNCHANGED <<storage, dram_pkt, mux_pkt, selection_pkt>>
    BY DEF VectorMemoryControllerTurn, VecAccept, VecSendLane, VecAwaitLane, VecStoreLane,
       VecFinish,
       NotVec, dramVars, muxVars, selectionVars
  <1>2. DOMAIN request = Bus
    BY DEF TypeInv, BusInv
  <1>3. CASE VecSendLane /\ LaneWritten
    <2>1. request' = [request EXCEPT !["core_L1d"] = LaneWrite(vec_pkt, lane)]
      BY <1>3 DEF VecSendLane, LaneWritten, LaneWrite, IsRead, IsWrite
    <2>2. /\ request'["core_L1d"] = LaneWrite(vec_pkt, lane)
          /\ \A d \in Bus \ {"core_L1d"} : request'[d] = request[d]
      BY <1>2, <2>1 DEF Bus
    <2> QED  BY <1>1, <1>3, <2>2, WrittenPassedOn
             DEF LaneWritten, MemoryAtL1, MemoryAtL2, MemoryAtL3, Bus
  <1>4. CASE VecSendLane /\ ~LaneWritten /\ request' # request
    <2>1. /\ ~IsWrite(request'["core_L1d"]) /\ request["core_L1d"] = None
          /\ \A d \in Bus \ {"core_L1d"} : request'[d] = request[d]
      <3>1. ~IsWrite(vec_pkt) /\ request["core_L1d"] = None
        BY <1>4 DEF VecSendLane, LaneWritten, buses
      <3>2. vec_at = "lanes"
        BY <1>4 DEF VecSendLane
      <3>3. IsRead(vec_pkt)
        BY <3>1, <3>2 DEF TypeInv, VecInv
      <3>4. request' = [request EXCEPT !["core_L1d"] = Packet("read", "store", Data(vec_pkt.address[lane]), 0)]
        BY <1>4, <3>1, <3>3 DEF VecSendLane
      <3>5. ~IsWrite(Packet("read", "store", Data(vec_pkt.address[lane]), 0))
        BY DEF Packet, IsWrite
      <3> QED  BY <1>2, <3>1, <3>4, <3>5 DEF Bus
    <2> QED  BY <1>1, <1>4, <2>1, WrittenPassedOn DEF MemoryAtL1, MemoryAtL2, MemoryAtL3, Bus
  <1>5. CASE ~(VecSendLane /\ LaneWritten) /\ request' = request
    BY <1>1, <1>5 DEF MemoryAtL1, MemoryAtL2, MemoryAtL3
  <1> QED  BY <1>3, <1>4, <1>5
           DEF VectorMemoryControllerTurn, VecAccept, VecAwaitLane, VecStoreLane, VecFinish, buses

-----------------------------------------------------------------------------
(* Every answer under way is what its client asked for. *)

\* A packet of a client has the address the client waits for, and an answer the
\* contents the memory has there.
AsAsked(x) ==
  /\ IsReadOf(x, "fetch") =>
       /\ x.address = Code(fetch_awaits)
       /\ x.packet_type = "read_response" => x.payload = Line(fetch_awaits)
  /\ IsReadOf(x, "store") =>
       /\ x.address = Data(vec_pkt.address[lane])
       /\ x.packet_type = "read_response" => x.payload = InStorage(x.address)

AllAsAsked(req, resp, held) ==
  /\ \A b \in Bus : AsAsked(req[b]) /\ AsAsked(resp[b])
  /\ \A h \in Holder : AsAsked(held[h])

\* A line in the L1 instruction cache is the line of its address in the program.
CacheInv ==
  \A k \in DOMAIN L1InsnCacheLines : L1InsnCacheLines[k] # None =>
    \E pc \in FetchLine : L1InsnCacheLines[k] = [address |-> Code(pc), payload |-> Line(pc)]

AnswersInv == AllAsAsked(request, response, Holding) /\ CacheInv

\* An empty slot and a write answer nothing.
LEMMA NothingAsked == AsAsked(None) /\ \A x : IsWrite(x) => AsAsked(x)
  BY DEF AsAsked, IsReadOf, IsWrite

\* The data caches and the L3 cache pass packets on.
LEMMA ForwardAnswers ==
  ASSUME TypeInv, AllAsAsked(request, response, Holding),
         L1DataCacheTurn \/ L2DataCacheTurn \/ L3CacheTurn
  PROVE  AllAsAsked(request', response', Holding')
  <1>1. \A h \in Holder : Holding'[h] = Holding[h]
    BY DEF L1DataCacheTurn, L2DataCacheTurn, L3CacheTurn, NotForward, Holding, Holder, l1iVars,
       selectionVars, muxVars, dramVars
  <1>2. DOMAIN request = Bus /\ DOMAIN response = Bus
    BY DEF TypeInv, BusInv
  <1>3. PICK up \in Bus, down \in Bus :
          /\ up # down /\ PassRequest(up, down)
          /\ PassResponse(up, down) \/ UNCHANGED response
    BY DEF L1DataCacheTurn, L2DataCacheTurn, L3CacheTurn, Bus
  <1>4. \A b \in Bus : request'[b] = None \/ \E c \in Bus : request'[b] = request[c]
    BY <1>2, <1>3 DEF PassRequest, Moved
  <1>5. \A b \in Bus : response'[b] = None \/ \E c \in Bus : response'[b] = response[c]
    BY <1>2, <1>3 DEF PassResponse, Moved
  <1> QED  BY <1>1, <1>4, <1>5, NothingAsked DEF AllAsAsked

\* The L2 instruction cache makes packets with the address of those it took.
LEMMA L2InsnCacheAnswers ==
  ASSUME TypeInv, AllAsAsked(request, response, Holding), L2InsnCacheTurn
  PROVE  AllAsAsked(request', response', Holding')
  <1> DEFINE asked    == request["core_L2i"]
             answered == response["L2i_mux"]
             down == Packet("read", asked.source, asked.address, asked.address)
             up   == Packet("read_response", answered.source, answered.address, answered.payload)
  <1>1. \A h \in Holder : Holding'[h] = Holding[h]
    BY DEF L2InsnCacheTurn, NotForward, Holding, Holder, l1iVars, selectionVars, muxVars, dramVars
  <1>2. /\ DOMAIN request = Bus /\ DOMAIN response = Bus
        /\ asked \in Slot(FetchRead) /\ answered \in Slot(FetchAnswer)
        /\ AsAsked(asked) /\ AsAsked(answered)
    BY DEF TypeInv, BusInv, Bus, InsnBus, RequestOn, AnswerOn, AllAsAsked
  <1>3. asked # None => AsAsked(down)
    <2> SUFFICES ASSUME asked # None PROVE AsAsked(down)
      OBVIOUS
    <2>1. asked.source = "fetch" /\ asked.address = Code(fetch_awaits)
      BY <1>2, Kinds, AnswersAndFetchesAreReads DEF AsAsked
    <2> QED  BY <2>1 DEF AsAsked, Packet, IsReadOf
  <1>4. answered # None => AsAsked(up)
    <2> SUFFICES ASSUME answered # None PROVE AsAsked(up)
      OBVIOUS
    <2>1. answered.source = "fetch" /\ answered.packet_type = "read_response"
      BY <1>2 DEF FetchAnswer
    <2>2. answered.address = Code(fetch_awaits) /\ answered.payload = Line(fetch_awaits)
      BY <1>2, <2>1, AnswersAndFetchesAreReads DEF AsAsked
    <2> QED  BY <2>1, <2>2 DEF AsAsked, Packet, IsReadOf
  <1>5. /\ request' = IF asked = None THEN request
                      ELSE [request EXCEPT !["core_L2i"] = None, !["L2i_mux"] = down]
        /\ response' = IF answered = None THEN response
                       ELSE [response EXCEPT !["L2i_mux"] = None, !["core_L2i"] = up]
    BY DEF L2InsnCacheTurn
  <1> HIDE DEF down, up
  <1>6. \A b \in Bus : AsAsked(request'[b])
    BY <1>2, <1>3, <1>5, NothingAsked DEF AllAsAsked
  <1>7. \A b \in Bus : AsAsked(response'[b])
    BY <1>2, <1>4, <1>5, NothingAsked DEF AllAsAsked
  <1> QED  BY <1>1, <1>6, <1>7 DEF AllAsAsked

\* The L1 instruction cache takes a line that waits.
LEMMA L1iTakesResponseAnswers ==
  ASSUME NEW req, NEW resp, L1iTakesResponse(req, resp), UNCHANGED <<selectionVars, muxVars, dram_pkt>>,
         DOMAIN resp = Bus, \A b \in Bus : AsAsked(req[b]) /\ AsAsked(resp[b]),
         \A h \in Holder \ {"L1i"} : AsAsked(Holding[h])
  PROVE  AllAsAsked(request', response', Holding')
  <1>1. /\ Holding'["L1i"] = l1i_pkt' /\ "L1i_L2i" \in Bus
        /\ \A h \in Holder \ {"L1i"} : Holding'[h] = Holding[h]
    BY DEF Holding, Holder, selectionVars, muxVars, Bus
  <1>2. AsAsked(l1i_pkt') /\ \A b \in Bus : AsAsked(request'[b]) /\ AsAsked(response'[b])
    BY <1>1, NothingAsked DEF L1iTakesResponse
  <1> QED  BY <1>1, <1>2 DEF AllAsAsked

\* A hit has the tag of the address that was asked for, hence its line.
LEMMA HitAsAsked ==
  ASSUME TypeInv, CacheInv, AsAsked(l1i_pkt), l1i_pkt \in FetchRead, Hit(l1i_pkt.address)
  PROVE  AsAsked(Packet("read_response", l1i_pkt.source, l1i_pkt.address,
                        L1InsnCacheLines[get_l1_insn_cache_index(l1i_pkt.address)].payload))
  <1> DEFINE k == get_l1_insn_cache_index(l1i_pkt.address)
  <1>1. l1i_pkt.source = "fetch" /\ l1i_pkt.address = Code(fetch_awaits)
    BY Kinds, AnswersAndFetchesAreReads DEF AsAsked
  <1>2. k \in DOMAIN L1InsnCacheLines
    BY IndexInCache DEF TypeInv, L1iInv, FetchRead
  <1>3. L1InsnCacheLines[k] # None /\ L1InsnCacheLines[k].address = l1i_pkt.address
    BY DEF Hit
  <1>4. PICK pc \in FetchLine : L1InsnCacheLines[k] = [address |-> Code(pc), payload |-> Line(pc)]
    BY <1>2, <1>3 DEF CacheInv
  <1>5. pc = fetch_awaits
    BY <1>1, <1>3, <1>4 DEF Code
  <1>6. L1InsnCacheLines[k].payload = Line(fetch_awaits)
    BY <1>4, <1>5
  <1> HIDE DEF k
  <1>7. AsAsked(Packet("read_response", l1i_pkt.source, l1i_pkt.address, L1InsnCacheLines[k].payload))
    BY <1>1, <1>6 DEF AsAsked, Packet, IsReadOf
  <1> QED  BY <1>7 DEF k

LEMMA L1InsnCacheAnswers ==
  ASSUME TypeInv, AnswersInv, L1InsnCacheTurn PROVE AllAsAsked(request', response', Holding')
  <1>0. /\ DOMAIN request = Bus /\ DOMAIN response = Bus
        /\ "core_L1i" \in Bus /\ "L1i_L2i" \in Bus /\ "L1i" \in Holder
        /\ Holding["L1i"] = l1i_pkt /\ Holding'["L1i"] = l1i_pkt'
    BY DEF TypeInv, BusInv, Bus, Holder, Holding
  <1>1. /\ UNCHANGED <<selectionVars, muxVars, dram_pkt>>
        /\ \A h \in Holder \ {"L1i"} : Holding'[h] = Holding[h]
    BY DEF L1InsnCacheTurn, L1iBoot, L1iAccept, L1iLookup, L1iFill, NotL1i, Holding, Holder,
       selectionVars, muxVars, dramVars
  <1>2. /\ \A b \in Bus : AsAsked(request[b]) /\ AsAsked(response[b])
        /\ \A h \in Holder : AsAsked(Holding[h])
        /\ CacheInv
    BY DEF AnswersInv, AllAsAsked
  <1>3. ASSUME AsAsked(l1i_pkt'), \A b \in Bus : AsAsked(request'[b]) /\ AsAsked(response'[b])
        PROVE  AllAsAsked(request', response', Holding')
    BY <1>0, <1>1, <1>2, <1>3 DEF AllAsAsked
  <1>4. CASE UNCHANGED <<l1i_pkt, buses>>
    BY <1>0, <1>2, <1>3, <1>4 DEF buses
  <1>5. CASE L1iAccept
    <2>1. CASE request["core_L1i"] # None
      BY <1>0, <1>2, <1>3, <1>5, <2>1, NothingAsked DEF L1iAccept
    <2>2. CASE request["core_L1i"] = None
      BY <1>0, <1>1, <1>2, <1>5, <2>2, L1iTakesResponseAnswers DEF L1iAccept
    <2> QED  BY <2>1, <2>2
  <1>6. CASE L1iLookup
    <2>0. l1i_pkt \in FetchRead
      BY <1>6 DEF L1iLookup, TypeInv, L1iInv
    <2>1. CASE Hit(l1i_pkt.address) /\ response["core_L1i"] = None
      <3> DEFINE answer == Packet("read_response", l1i_pkt.source, l1i_pkt.address,
                             L1InsnCacheLines[get_l1_insn_cache_index(l1i_pkt.address)].payload)
                 resp   == [response EXCEPT !["core_L1i"] = answer]
      <3>1. L1iTakesResponse(request, resp)
        BY <1>6, <2>1 DEF L1iLookup
      <3>2. AsAsked(answer)
        BY <1>0, <1>2, <2>0, <2>1, HitAsAsked
      <3> HIDE DEF answer
      <3>3. DOMAIN resp = Bus /\ \A b \in Bus : AsAsked(resp[b])
        BY <1>0, <1>2, <3>2
      <3> HIDE DEF resp
      <3> QED  BY <1>1, <1>2, <3>1, <3>3, L1iTakesResponseAnswers
    <2>2. CASE ~Hit(l1i_pkt.address) /\ request["L1i_L2i"] = None
      <3> DEFINE req == [request EXCEPT !["L1i_L2i"] = l1i_pkt]
      <3>1. L1iTakesResponse(req, response)
        BY <1>6, <2>2 DEF L1iLookup
      <3>2. \A b \in Bus : AsAsked(req[b])
        BY <1>0, <1>2
      <3> HIDE DEF req
      <3> QED  BY <1>0, <1>1, <1>2, <3>1, <3>2, L1iTakesResponseAnswers
    <2>3. CASE UNCHANGED <<l1iVars, buses>>
      BY <1>4, <2>3 DEF l1iVars
    <2> QED  BY <1>6, <2>1, <2>2, <2>3 DEF L1iLookup
  <1>7. CASE L1iFill
    BY <1>0, <1>2, <1>3, <1>7, NothingAsked DEF L1iFill
  <1>8. CASE L1iBoot
    BY <1>4, <1>8 DEF L1iBoot
  <1> QED  BY <1>5, <1>6, <1>7, <1>8 DEF L1InsnCacheTurn

\* A line is stored under the address it was asked for.
LEMMA CacheKept ==
  ASSUME TypeInv, TrafficInv, AnswersInv, Next PROVE CacheInv'
  <1>1. prog' = prog
    BY DEF Next, Turn, L2DataCacheTurn, L2InsnCacheTurn, L1DataCacheTurn, L3CacheTurn, NotForward,
       FetchTurn, StoreTurn, L1InsnCacheTurn, L1iBoot, L1iAccept, L1iLookup, L1iFill, NotL1i,
       InternalMultiplexerTurn, MuxAccept, MuxForward, MuxRoute, NotMux,
       DramTurn, DramAccept, DramDelay, DramRead, DramWrite, NotDram,
       VectorMemoryControllerTurn, VecAccept, VecSendLane, VecAwaitLane, VecStoreLane, VecFinish,
       NotVec, SelectionTurn, SelectionAccept, SelectionForward, SelectionRespond, SelectionRoute,
       NotSelection
  <1>2. \A pc : Line(pc)' = Line(pc)
    BY <1>1 DEF Line
  <1>3. CASE UNCHANGED L1InsnCacheLines
    BY <1>1, <1>3 DEF AnswersInv, CacheInv, Line
  <1>4. CASE L1iFill
    <2>0. l1i_pkt \in FetchAnswer /\ IsReadOf(l1i_pkt, "fetch")
      BY <1>4, AnswersAndFetchesAreReads DEF L1iFill, TypeInv, L1iInv
    <2>1. <<"held", "L1i">> \in Place /\ traffic[<<"held", "L1i">>] = l1i_pkt /\ AsAsked(l1i_pkt)
      BY TrafficAt DEF Holder, Holding, AnswersInv, AllAsAsked
    <2>2. Fetching
      BY <2>0, <2>1, OnlyRead DEF TrafficInv, InOrder
    <2>3. fetch_awaits \in FetchLine
      BY <2>2 DEF Fetching, TypeInv, ClientInv
    <2>4. /\ l1i_pkt.address = Code(fetch_awaits) /\ l1i_pkt.payload = Line(fetch_awaits)
      BY <2>0, <2>1 DEF AsAsked, FetchAnswer
    <2>5. L1InsnCacheLines' =
            [L1InsnCacheLines EXCEPT ![get_l1_insn_cache_index(l1i_pkt.address)] =
               [address |-> Code(fetch_awaits), payload |-> Line(fetch_awaits)]]
      BY <1>4, <2>4 DEF L1iFill
    <2>6. ASSUME NEW k \in DOMAIN L1InsnCacheLines', L1InsnCacheLines'[k] # None
          PROVE  \E pc \in FetchLine :
                   L1InsnCacheLines'[k] = [address |-> Code(pc), payload |-> Line(pc)]
      BY <2>3, <2>5, <2>6 DEF AnswersInv, CacheInv
    <2> QED  BY <1>1, <2>6 DEF CacheInv, Line
  <1>5. L1iFill \/ UNCHANGED L1InsnCacheLines
    BY DEF Next, Turn, L2DataCacheTurn, L2InsnCacheTurn, L1DataCacheTurn, L3CacheTurn, NotForward,
       FetchTurn, StoreTurn, L1InsnCacheTurn, L1iBoot, L1iAccept, L1iLookup, L1iTakesResponse, l1iVars,
       InternalMultiplexerTurn, MuxAccept, MuxForward, MuxRoute, NotMux,
       DramTurn, DramAccept, DramDelay, DramRead, DramWrite, NotDram,
       VectorMemoryControllerTurn, VecAccept, VecSendLane, VecAwaitLane, VecStoreLane, VecFinish,
       NotVec, SelectionTurn, SelectionAccept, SelectionForward, SelectionRespond, SelectionRoute,
       NotSelection
  <1> QED  BY <1>3, <1>4, <1>5

\* The multiplexers pass packets on.
LEMMA SelectionAnswers ==
  ASSUME TypeInv, AllAsAsked(request, response, Holding), NEW s \in Sides, SelectionTurn(s)
  PROVE  AllAsAsked(request', response', Holding')
  <1>0. /\ DOMAIN request = Bus /\ DOMAIN response = Bus /\ DOMAIN selection_pkt = Sides
        /\ Above[s] \in Bus /\ Below[s] \in Bus
    BY DEF TypeInv, BusInv, SelectionInv, Sides, Above, Below, Bus
  <1>1. UNCHANGED <<l1i_pkt, mux_pkt, dram_pkt>>
    BY DEF SelectionTurn, SelectionAccept, SelectionForward, SelectionRespond, SelectionRoute,
       NotSelection, l1iVars, muxVars, dramVars
  <1>2. /\ \A b \in Bus : AsAsked(request[b]) /\ AsAsked(response[b])
        /\ \A r \in Sides : AsAsked(selection_pkt[r])
        /\ AsAsked(l1i_pkt) /\ AsAsked(mux_pkt) /\ AsAsked(dram_pkt)
    BY DEF AllAsAsked, Holding, Holder, Sides
  <1>3. \A r \in Sides : AsAsked(selection_pkt'[r])
    BY <1>0, <1>2, NothingAsked DEF SelectionTurn, SelectionAccept, SelectionForward,
       SelectionRespond,
       SelectionRoute, SelectionSteps, selectionVars
  <1>4. \A b \in Bus : AsAsked(request'[b]) /\ AsAsked(response'[b])
    BY <1>0, <1>2, NothingAsked DEF SelectionTurn, SelectionAccept, SelectionForward,
       SelectionRespond,
       SelectionRoute
  <1> QED  BY <1>1, <1>2, <1>3, <1>4 DEF AllAsAsked, Holding, Holder, Sides

LEMMA MuxTestAnswers ==
  ASSUME NEW req, NEW resp, MuxTestFetch(req, resp) \/ MuxTestVec(req, resp)
                            \/ MuxTestResponse(req, resp),
         DOMAIN req = Bus, DOMAIN resp = Bus, \A b \in Bus : AsAsked(req[b]) /\ AsAsked(resp[b])
  PROVE  AsAsked(mux_pkt') /\ \A b \in Bus : AsAsked(request'[b]) /\ AsAsked(response'[b])
  <1>1. {"L2i_mux", "L2d_mux", "L2_L3"} \subseteq Bus
    BY DEF Bus
  <1>2. CASE MuxTestResponse(req, resp)
    BY <1>1, <1>2, NothingAsked DEF MuxTestResponse, MuxTakes
  <1>3. CASE MuxTestVec(req, resp)
    BY <1>1, <1>2, <1>3, NothingAsked DEF MuxTestVec, MuxTakes
  <1>4. CASE MuxTestFetch(req, resp)
    BY <1>1, <1>3, <1>4, NothingAsked DEF MuxTestFetch, MuxTakes
  <1> QED  BY <1>2, <1>3, <1>4

LEMMA MuxAnswers ==
  ASSUME TypeInv, AllAsAsked(request, response, Holding), InternalMultiplexerTurn
  PROVE  AllAsAsked(request', response', Holding')
  <1>0. DOMAIN request = Bus /\ DOMAIN response = Bus
    BY DEF TypeInv, BusInv
  <1>1. UNCHANGED <<l1i_pkt, selection_pkt, dram_pkt>>
    BY DEF InternalMultiplexerTurn, MuxAccept, MuxForward, MuxRoute, NotMux, l1iVars, selectionVars,
       dramVars
  <1>2. /\ \A b \in Bus : AsAsked(request[b]) /\ AsAsked(response[b])
        /\ \A h \in Holder : AsAsked(Holding[h])
        /\ AsAsked(mux_pkt)
    BY DEF AllAsAsked, Holding, Holder
  <1>3. ASSUME AsAsked(mux_pkt'), \A b \in Bus : AsAsked(request'[b]) /\ AsAsked(response'[b])
        PROVE  AllAsAsked(request', response', Holding')
    BY <1>1, <1>2, <1>3 DEF AllAsAsked, Holding, Holder
  <1>4. CASE UNCHANGED <<muxVars, buses>>
    BY <1>2, <1>3, <1>4 DEF muxVars, buses
  <1>5. CASE MuxAccept
    BY <1>0, <1>2, <1>3, <1>5, MuxTestAnswers DEF MuxAccept
  <1>6. CASE MuxForward
    <2> DEFINE sent == [request EXCEPT !["L2_L3"] = mux_pkt]
    <2>1. \/ MuxTestVec(sent, response) \/ MuxTestResponse(sent, response)
          \/ UNCHANGED <<muxVars, buses>>
      BY <1>6 DEF MuxForward
    <2>2. DOMAIN sent = Bus /\ \A b \in Bus : AsAsked(sent[b])
      BY <1>0, <1>2
    <2> HIDE DEF sent
    <2> QED  BY <1>0, <1>2, <1>3, <1>4, <2>1, <2>2, MuxTestAnswers
  <1>7. CASE MuxRoute
    <2> DEFINE to     == IF mux_pkt.source = "fetch" THEN "L2i_mux" ELSE "L2d_mux"
               routed == [response EXCEPT ![to] = mux_pkt]
    <2>1. MuxTestFetch(request, routed)
      BY <1>7 DEF MuxRoute
    <2>2. DOMAIN routed = Bus /\ \A b \in Bus : AsAsked(routed[b])
      BY <1>0, <1>2
    <2> HIDE DEF routed
    <2> QED  BY <1>0, <1>2, <1>3, <2>1, <2>2, MuxTestAnswers
  <1> QED  BY <1>5, <1>6, <1>7 DEF InternalMultiplexerTurn

\* The DRAM answers with the contents of the address.
LEMMA DramAnswers ==
  ASSUME TypeInv, AllAsAsked(request, response, Holding), DramTurn
  PROVE  AllAsAsked(request', response', Holding')
  <1>0. DOMAIN request = Bus /\ DOMAIN response = Bus /\ "L3_DRAM" \in Bus
    BY DEF TypeInv, BusInv, Bus
  <1>1. UNCHANGED <<l1i_pkt, selection_pkt, mux_pkt>>
    BY DEF DramTurn, DramAccept, DramDelay, DramRead, DramWrite, NotDram, l1iVars, selectionVars,
       muxVars
  <1>2. /\ \A b \in Bus : AsAsked(request[b]) /\ AsAsked(response[b])
        /\ \A h \in Holder : AsAsked(Holding[h])
        /\ AsAsked(dram_pkt)
    BY DEF AllAsAsked, Holding, Holder
  <1>3. ASSUME AsAsked(dram_pkt'), \A b \in Bus : AsAsked(request'[b]) /\ AsAsked(response'[b])
        PROVE  AllAsAsked(request', response', Holding')
    BY <1>1, <1>2, <1>3 DEF AllAsAsked, Holding, Holder
  <1>4. CASE DramAccept
    BY <1>0, <1>2, <1>3, <1>4, NothingAsked DEF DramAccept
  <1>5. CASE DramDelay
    BY <1>2, <1>3, <1>5 DEF DramDelay, buses
  <1>6. CASE DramRead
    <2> DEFINE answer == Packet("read_response", dram_pkt.source, dram_pkt.address,
                                InStorage(dram_pkt.address))
    <2>1. dram_pkt \in FetchRead \union StoreRequest /\ ~IsWrite(dram_pkt)
      BY <1>6 DEF DramRead, TypeInv, DramInv, IsRead, IsWrite
    <2>2. /\ answer.source = dram_pkt.source /\ answer.address = dram_pkt.address
          /\ answer.payload = InStorage(dram_pkt.address)
      BY DEF Packet
    <2>3. response' = [response EXCEPT !["L3_DRAM"] = answer] /\ dram_pkt' = None /\ request' = request
      BY <1>6 DEF DramRead
    <2> HIDE DEF answer
    <2>4. CASE dram_pkt \in FetchRead
      <3>1. dram_pkt.address = Code(fetch_awaits) /\ dram_pkt.source = "fetch"
        BY <1>2, <2>4, Kinds, AnswersAndFetchesAreReads DEF AsAsked
      <3>2. InStorage(Code(fetch_awaits)) = Line(fetch_awaits)
        BY DEF InStorage, Code
      <3>3. AsAsked(answer)
        BY <2>2, <3>1, <3>2 DEF AsAsked, IsReadOf
      <3> QED  BY <1>0, <1>2, <1>3, <2>3, <3>3, NothingAsked
    <2>5. CASE dram_pkt \in StoreRequest
      <3>1. IsReadOf(dram_pkt, "store") /\ dram_pkt.source = "store"
        BY <2>1, <2>5, Kinds, AnswersAndFetchesAreReads
      <3>2. dram_pkt.address = Data(vec_pkt.address[lane])
        BY <1>2, <3>1 DEF AsAsked
      <3>3. AsAsked(answer)
        BY <2>2, <3>1, <3>2 DEF AsAsked, IsReadOf
      <3> QED  BY <1>0, <1>2, <1>3, <2>3, <3>3, NothingAsked
    <2> QED  BY <2>1, <2>4, <2>5
  <1>7. CASE DramWrite
    BY <1>2, <1>3, <1>7, NothingAsked DEF DramWrite, buses
  <1> QED  BY <1>4, <1>5, <1>6, <1>7 DEF DramTurn

\* The vector memory controller asks for its next lane.
LEMMA VecAnswers ==
  ASSUME TypeInv, AllAsAsked(request, response, Holding), VectorMemoryControllerTurn
  PROVE  AllAsAsked(request', response', Holding')
  <1>0. DOMAIN request = Bus /\ DOMAIN response = Bus /\ "core_L1d" \in Bus
    BY DEF TypeInv, BusInv, Bus
  <1>1. \A h \in Holder : Holding'[h] = Holding[h]
    BY DEF VectorMemoryControllerTurn, VecAccept, VecSendLane, VecAwaitLane, VecStoreLane,
       VecFinish,
       NotVec, Holding, Holder, l1iVars, selectionVars, muxVars, dramVars
  <1>2. /\ \A b \in Bus : AsAsked(request[b]) /\ AsAsked(response[b])
        /\ \A h \in Holder : AsAsked(Holding[h])
    BY DEF AllAsAsked
  <1>3. ASSUME \A b \in Bus : AsAsked(request'[b]) /\ AsAsked(response'[b])
        PROVE  AllAsAsked(request', response', Holding')
    BY <1>1, <1>2, <1>3 DEF AllAsAsked
  <1>4. CASE UNCHANGED buses
    BY <1>2, <1>3, <1>4 DEF buses
  <1>5. VecTakesLane(response) => \A b \in Bus : AsAsked(response'[b])
    BY <1>0, <1>2, NothingAsked DEF VecTakesLane
  <1>6. CASE VecAwaitLane
    BY <1>2, <1>3, <1>5, <1>6 DEF VecAwaitLane
  <1>7. CASE VecSendLane
    <2> DEFINE read  == Packet("read", "store", Data(vec_pkt.address[lane]), 0)
               write == Packet("write", "store", Data(vec_pkt.address[lane]), vec_pkt.payload[lane])
    <2>1. AsAsked(read) /\ AsAsked(write)
      BY DEF AsAsked, IsReadOf, IsWrite, Packet
    <2>2. \/ UNCHANGED buses
          \/ request' = [request EXCEPT !["core_L1d"] = read] /\ VecTakesLane(response)
          \/ request' = [request EXCEPT !["core_L1d"] = write] /\ UNCHANGED response
      BY <1>7 DEF VecSendLane
    <2> HIDE DEF read, write
    <2>3. CASE request' = [request EXCEPT !["core_L1d"] = read] /\ VecTakesLane(response)
      BY <1>0, <1>2, <1>3, <1>5, <2>1, <2>3
    <2>4. CASE request' = [request EXCEPT !["core_L1d"] = write] /\ UNCHANGED response
      BY <1>0, <1>2, <1>3, <2>1, <2>4
    <2> QED  BY <1>4, <2>2, <2>3, <2>4
  <1> QED  BY <1>4, <1>6, <1>7 DEF VectorMemoryControllerTurn, VecAccept, VecStoreLane, VecFinish

\* Fetch asks for a line, or takes the answer.
LEMMA FetchAnswers ==
  ASSUME TypeInv, FetchTurn, NEW p \in Place
  PROVE  \/ traffic'[p] \in {None, traffic[p]}
         \/ traffic'[p] = Packet("read", "fetch", Code(fetch_awaits'), 0) /\ ~Fetching
  <1>0. DOMAIN request = Bus /\ DOMAIN response = Bus
    BY DEF TypeInv, BusInv
  <1>1. \A h \in Holder : Holding'[h] = Holding[h]
    BY DEF FetchTurn, Holding, Holder, l1iVars, selectionVars, muxVars, dramVars
  <1>2. \A b \in Bus : response'[b] \in {None, response[b]}
    BY <1>0 DEF FetchTurn, buses
  <1>3. \A b \in Bus : \/ request'[b] = request[b]
                       \/ request'[b] = Packet("read", "fetch", Code(fetch_awaits'), 0) /\ ~Fetching
    BY <1>0 DEF FetchTurn, buses, Fetching
  <1> QED  BY <1>1, <1>2, <1>3 DEF traffic, Traffic, Place

\* What was as asked stays so: the address a client waits for does not change while it
\* waits, and no write reaches the DRAM in front of an answer.
LEMMA StillAsAsked ==
  ASSUME TypeInv, TrafficInv, TrafficInv', UNCHANGED prog,
         Fetching /\ Fetching' => fetch_awaits' = fetch_awaits,
         Loading' => vec_pkt' = vec_pkt /\ lane' = lane,
         UNCHANGED storage \/ DramWrite,
         NEW p \in Place, IsReadOf(traffic'[p], "fetch") => Fetching, AsAsked(traffic'[p])
  PROVE  AsAsked(traffic[p])'
  <1>1. ASSUME IsReadOf(traffic'[p], "fetch")
        PROVE  /\ traffic'[p].address = Code(fetch_awaits')
               /\ traffic'[p].packet_type = "read_response" => traffic'[p].payload = Line(fetch_awaits)'
    <2>1. Fetching'
      BY <1>1, OnlyRead DEF TrafficInv, InOrder
    <2>2. fetch_awaits' = fetch_awaits
      BY <1>1, <2>1
    <2> QED  BY <1>1, <2>2 DEF AsAsked, Line
  <1>2. ASSUME IsReadOf(traffic'[p], "store")
        PROVE  /\ traffic'[p].address = Data(vec_pkt'.address[lane'])
               /\ traffic'[p].packet_type = "read_response" =>
                    traffic'[p].payload = InStorage(traffic[p].address)'
    <2>1. Loading'
      BY <1>2, OnlyRead DEF TrafficInv, InOrder
    <2>2. vec_pkt' = vec_pkt /\ lane' = lane
      BY <2>1
    <2>3. CASE UNCHANGED storage
      <3>1. InStorage(traffic[p].address)' = InStorage(traffic'[p].address)
        BY <2>3 DEF InStorage, Line
      <3> QED  BY <1>2, <2>2, <3>1 DEF AsAsked
    <2>4. CASE DramWrite
      <3>1. /\ <<"held", "dram">> \in Place /\ IsWrite(traffic[<<"held", "dram">>])
            /\ \A r \in Place \ {<<"held", "dram">>} : traffic'[r] = traffic[r]
            /\ traffic'[<<"held", "dram">>] = None
        BY <2>4 DEF DramWrite, NotDram, traffic, Traffic, Place, Holder, Holding, buses, l1iVars,
           selectionVars, muxVars
      <3>2. traffic'[p] = traffic[p]
        BY <1>2, <3>1 DEF IsReadOf
      <3>3. IsRead(traffic[p])
        BY <1>2, <3>1, <3>2 DEF TrafficInv, InOrder, NoWriteBehindRead
      <3> QED  BY <1>2, <2>2, <3>2, <3>3 DEF AsAsked, IsRead
    <2> QED  BY <2>3, <2>4
  <1> QED  BY <1>1, <1>2 DEF AsAsked, IsReadOf, IsWrite

\* The same for the places of the traffic.
LEMMA EveryPlaceAsAsked ==
  /\ AllAsAsked(request, response, Holding) <=> \A p \in Place : AsAsked(traffic[p])
  /\ AllAsAsked(request', response', Holding') <=> \A p \in Place : AsAsked(traffic'[p])
  <1>1. \A req, resp, held : AllAsAsked(req, resp, held)
                             <=> \A p \in Place : AsAsked(Traffic(req, resp, held)[p])
    <2> TAKE req, resp, held
    <2>1. /\ \A b \in Bus : /\ <<"request", b>> \in Place /\ <<"response", b>> \in Place
                            /\ Traffic(req, resp, held)[<<"request", b>>] = req[b]
                            /\ Traffic(req, resp, held)[<<"response", b>>] = resp[b]
          /\ \A h \in Holder : <<"held", h>> \in Place /\ Traffic(req, resp, held)[<<"held", h>>] = held[h]
      BY DEF Traffic, Place
    <2>2. \A p \in Place : \/ \E b \in Bus : p = <<"request", b>> \/ p = <<"response", b>>
                           \/ \E h \in Holder : p = <<"held", h>>
      BY DEF Place
    <2>3. ASSUME AllAsAsked(req, resp, held), NEW p \in Place
          PROVE  AsAsked(Traffic(req, resp, held)[p])
      <3>1. CASE \E b \in Bus : p = <<"request", b>>
        BY <2>1, <2>3, <3>1 DEF AllAsAsked
      <3>2. CASE \E b \in Bus : p = <<"response", b>>
        BY <2>1, <2>3, <3>2 DEF AllAsAsked
      <3>3. CASE \E h \in Holder : p = <<"held", h>>
        BY <2>1, <2>3, <3>3 DEF AllAsAsked
      <3> QED  BY <2>2, <3>1, <3>2, <3>3
    <2>4. ASSUME \A p \in Place : AsAsked(Traffic(req, resp, held)[p])
          PROVE  AllAsAsked(req, resp, held)
      <3>1. ASSUME NEW b \in Bus PROVE AsAsked(req[b]) /\ AsAsked(resp[b])
        BY <2>1, <2>4
      <3>2. ASSUME NEW h \in Holder PROVE AsAsked(held[h])
        BY <2>1, <2>4
      <3> QED  BY <3>1, <3>2 DEF AllAsAsked
    <2> QED  BY <2>3, <2>4
  <1> QED  BY <1>1 DEF traffic

\* The program in memory is not changed.
LEMMA ProgramKept == ASSUME Next PROVE prog' = prog
  BY DEF Next, Turn, L2DataCacheTurn, L2InsnCacheTurn, L1DataCacheTurn, L3CacheTurn, NotForward,
     FetchTurn, StoreTurn, L1InsnCacheTurn, L1iBoot, L1iAccept, L1iLookup, L1iFill, NotL1i,
     InternalMultiplexerTurn, MuxAccept, MuxForward, MuxRoute, NotMux,
     DramTurn, DramAccept, DramDelay, DramRead, DramWrite, NotDram,
     VectorMemoryControllerTurn, VecAccept, VecSendLane, VecAwaitLane, VecStoreLane, VecFinish,
     NotVec, SelectionTurn, SelectionAccept, SelectionForward, SelectionRespond, SelectionRoute,
     NotSelection

\* The turns of the components between the clients and the DRAM.
InnerTurn ==
  \/ L2DataCacheTurn \/ L2InsnCacheTurn \/ L3CacheTurn \/ L1DataCacheTurn
  \/ InternalMultiplexerTurn \/ DramTurn \/ L1InsnCacheTurn \/ \E s \in Sides : SelectionTurn(s)

LEMMA Turns ==
  ASSUME Next PROVE InnerTurn \/ FetchTurn \/ StoreTurn \/ VectorMemoryControllerTurn
  BY DEF Next, Turn, InnerTurn, Sides

LEMMA ClientsUntouched ==
  ASSUME InnerTurn PROVE UNCHANGED <<clients, vecBus, vecVars>>
  BY DEF InnerTurn, L2DataCacheTurn, L2InsnCacheTurn, L1DataCacheTurn, L3CacheTurn, NotForward,
     L1InsnCacheTurn, L1iBoot, L1iAccept, L1iLookup, L1iFill, NotL1i,
     InternalMultiplexerTurn, MuxAccept, MuxForward, MuxRoute, NotMux,
     DramTurn, DramAccept, DramDelay, DramRead, DramWrite, NotDram,
     SelectionTurn, SelectionAccept, SelectionForward, SelectionRespond, SelectionRoute,
     NotSelection

\* Only the DRAM changes what is stored.
LEMMA OnlyDramStores ==
  ASSUME Next PROVE UNCHANGED storage \/ DramWrite
  BY DEF Next, Turn, L2DataCacheTurn, L2InsnCacheTurn, L1DataCacheTurn, L3CacheTurn, NotForward,
     FetchTurn, StoreTurn, L1InsnCacheTurn, L1iBoot, L1iAccept, L1iLookup, L1iFill, NotL1i,
     InternalMultiplexerTurn, MuxAccept, MuxForward, MuxRoute, NotMux,
     DramTurn, DramAccept, DramDelay, DramRead,
     VectorMemoryControllerTurn, VecAccept, VecSendLane, VecAwaitLane, VecStoreLane, VecFinish,
     NotVec, SelectionTurn, SelectionAccept, SelectionForward, SelectionRespond, SelectionRoute,
     NotSelection, dramVars

\* One step for each component.
LEMMA AnswersKept ==
  ASSUME TypeInv, TrafficInv, TrafficInv', AnswersInv, Next PROVE AnswersInv'
  <1>0. /\ AllAsAsked(request, response, Holding) /\ CacheInv'
        /\ prog' = prog /\ (UNCHANGED storage \/ DramWrite)
    BY CacheKept, ProgramKept, OnlyDramStores DEF AnswersInv
  <1>1. ASSUME \A p \in Place : AsAsked(traffic[p])' PROVE AnswersInv'
    <2>1. AllAsAsked(request, response, Holding)'
      <3>1. /\ \A b \in Bus : /\ <<"request", b>> \in Place /\ <<"response", b>> \in Place
                              /\ traffic'[<<"request", b>>] = request'[b]
                              /\ traffic'[<<"response", b>>] = response'[b]
            /\ \A h \in Holder : <<"held", h>> \in Place /\ traffic'[<<"held", h>>] = Holding'[h]
        BY DEF traffic, Traffic, Place
      <3>2. ASSUME NEW b \in Bus PROVE AsAsked(request[b])' /\ AsAsked(response[b])'
        <4>1. AsAsked(traffic[<<"request", b>>])' /\ AsAsked(traffic[<<"response", b>>])'
          BY <1>1, <3>1
        <4> QED  BY <3>1, <4>1
      <3>3. ASSUME NEW h \in Holder PROVE AsAsked(Holding[h])'
        <4>1. AsAsked(traffic[<<"held", h>>])'
          BY <1>1, <3>1
        <4> QED  BY <3>1, <4>1
      <3> QED  BY <3>2, <3>3 DEF AllAsAsked
    <2> QED  BY <1>0, <2>1 DEF AnswersInv
  <1>2. \A p \in Place : IsReadOf(traffic'[p], "fetch") => Fetching'
    BY OnlyRead DEF TrafficInv, InOrder
  <1>3. CASE AllAsAsked(request', response', Holding') /\ fetch_awaits' = fetch_awaits
             /\ (Loading' => vec_pkt' = vec_pkt /\ lane' = lane)
    <2>1. ASSUME NEW p \in Place PROVE AsAsked(traffic[p])'
      <3>1. AsAsked(traffic'[p])
        BY <1>3, EveryPlaceAsAsked
      <3>2. Fetching' <=> Fetching
        BY <1>3 DEF Fetching
      <3> QED  BY <1>0, <1>2, <1>3, <3>1, <3>2, StillAsAsked
    <2> QED  BY <1>1, <2>1
  <1>4. CASE InnerTurn
    <2>1. AllAsAsked(request', response', Holding')
      BY <1>0, <1>4, ForwardAnswers, L2InsnCacheAnswers, L1InsnCacheAnswers, SelectionAnswers,
         MuxAnswers, DramAnswers DEF InnerTurn
    <2> QED  BY <1>3, <1>4, <2>1, ClientsUntouched DEF clients, vecVars
  <1>5. CASE VectorMemoryControllerTurn
    <2>1. fetch_awaits' = fetch_awaits
      BY <1>5 DEF VectorMemoryControllerTurn, VecAccept, VecSendLane, VecAwaitLane, VecStoreLane,
         VecFinish, NotVec, clients
    <2>2. Loading' => vec_pkt' = vec_pkt /\ lane' = lane
      BY <1>5 DEF VectorMemoryControllerTurn, VecAccept, VecSendLane, VecAwaitLane, VecStoreLane,
         VecFinish, Loading, vecVars
    <2> QED  BY <1>0, <1>3, <1>5, <2>1, <2>2, VecAnswers
  <1>6. CASE StoreTurn
    <2>1. UNCHANGED <<buses, l1iVars, selectionVars, muxVars, dramVars, fetch_awaits, vecVars>>
      BY <1>6 DEF StoreTurn
    <2>2. AllAsAsked(request', response', Holding')
      BY <1>0, <2>1 DEF buses, l1iVars, selectionVars, muxVars, dramVars, Holding, Holder,
         AllAsAsked
    <2> QED  BY <1>3, <2>1, <2>2 DEF vecVars
  <1>7. CASE FetchTurn
    <2>1. ASSUME NEW p \in Place PROVE AsAsked(traffic[p])'
      <3>1. vec_pkt' = vec_pkt /\ lane' = lane
        BY <1>7 DEF FetchTurn, vecVars
      <3>2. Fetching /\ Fetching' => fetch_awaits' = fetch_awaits
        BY <1>7 DEF FetchTurn, Fetching
      <3>3. CASE traffic'[p] = Packet("read", "fetch", Code(fetch_awaits'), 0)
        BY <3>3 DEF Packet, AsAsked, IsReadOf
      <3>4. CASE traffic'[p] \in {None, traffic[p]}
        <4>1. AsAsked(traffic'[p])
          BY <1>0, <3>4, EveryPlaceAsAsked, NothingAsked
        <4>2. IsReadOf(traffic'[p], "fetch") => Fetching
          BY <3>4, OnlyRead DEF TrafficInv, InOrder, IsReadOf
        <4> QED  BY <1>0, <3>1, <3>2, <4>1, <4>2, StillAsAsked
      <3> QED  BY <1>7, <3>3, <3>4, FetchAnswers
    <2> QED  BY <1>1, <2>1
  <1> QED  BY <1>4, <1>5, <1>6, <1>7, Turns

-----------------------------------------------------------------------------
(* A load is filled with what the memory holds. *)

\* What a load sees at an address.
SeenAt(a) == IF a \in Addr THEN MemoryAtL1[a] ELSE 0

\* The lanes loaded so far, and the one just answered, hold what the memory holds.
LoadInv ==
  IsRead(vec_pkt) =>
    /\ \A t \in Threads : t < lane => vec_pkt.payload[t] = SeenAt(vec_pkt.address[t])
    /\ vec_at = "got_lane" => lane_response = SeenAt(vec_pkt.address[lane])

\* When a lane is answered no write is under way, so the memory is what is stored.
LEMMA NoWriteBehindAnswer ==
  ASSUME TypeInv, TrafficInv, response["core_L1d"] # None PROVE \A a \in Addr : MemoryAtL1[a] = storage[a]
  <1> DEFINE p == <<"response", "core_L1d">>
  <1>1. response["core_L1d"] \in StoreAnswer
    BY DEF TypeInv, BusInv, Bus, InsnBus, DataBus, AnswerOn
  <1>2. p \in Place /\ traffic[p] = response["core_L1d"]
    BY TrafficAt DEF Bus
  <1>3. IsReadOf(traffic[p], "store") /\ ~IsRead(traffic[p])
    BY <1>1, <1>2, Kinds, AnswersAndFetchesAreReads
  <1>4. \A q \in Place : ~IsWrite(traffic[q])
    BY <1>2, <1>3 DEF TrafficInv, InOrder, NoWriteBehindRead
  <1>5. /\ \A b \in {"L3_DRAM", "L2_L3", "L2d_mux", "core_L2d", "L1d_L2d", "core_L1d"} : ~IsWrite(request[b])
        /\ ~IsWrite(dram_pkt) /\ ~IsWrite(mux_pkt) /\ ~IsWrite(selection_pkt["data"])
    BY <1>4, TrafficAt DEF Bus, Holder, Holding
  <1>6. MemoryAtL1 = Written(storage, None)
    BY <1>5, WrittenPassedOn DEF MemoryAtL1, MemoryAtL2, MemoryAtL3
  <1> QED  BY <1>6, WrittenPassedOn

\* The memory does not change during a load, as only lanes of a write do that.
LEMMA LoadKept ==
  ASSUME TypeInv, TrafficInv, AnswersInv, LoadInv, Next PROVE LoadInv'
  <1>1. CASE UNCHANGED vecVars /\ MemoryAtL1' = MemoryAtL1
    BY <1>1 DEF LoadInv, SeenAt, vecVars, IsRead
  <1>2. CASE InnerTurn
    <2>1. MemoryAtL1' = MemoryAtL1
      BY <1>2, L1DataCacheMemory, L2DataCacheMemory, L3CacheMemory, SelectionMemory, MuxMemory,
         DramMemory, OtherMemory DEF InnerTurn
    <2> QED  BY <1>1, <1>2, <2>1, ClientsUntouched
  <1>3. CASE FetchTurn \/ StoreTurn
    <2>1. UNCHANGED vecVars
      BY <1>3 DEF FetchTurn, StoreTurn
    <2> QED  BY <1>1, <1>3, <2>1, OtherMemory
  <1>4. CASE VectorMemoryControllerTurn
    <2>0. /\ vec_pkt \in Slot(VecPacket) /\ lane \in 0 .. NUMBER_OF_VECTOR_THREADS
          /\ Threads = 0 .. NUMBER_OF_VECTOR_THREADS - 1 /\ NUMBER_OF_VECTOR_THREADS \in Nat
      BY VectorOpsAssumption DEF TypeInv, VecInv, Threads
    <2>1. ASSUME IsRead(vec_pkt) PROVE MemoryAtL1' = MemoryAtL1
      BY <1>4, <2>1, VecMemory DEF LaneWritten, IsRead, IsWrite
    <2>2. CASE VecAccept
      <3>1. lane' = 0 /\ vec_at' \in {"top", "lanes"}
        BY <2>2 DEF VecAccept, TypeInv, VecInv
      <3> QED  BY <2>0, <3>1 DEF LoadInv
    <2>3. CASE VecSendLane
      <3> SUFFICES ASSUME IsRead(vec_pkt') PROVE LoadInv'
        BY DEF LoadInv
      <3>1. vec_pkt' = vec_pkt /\ IsRead(vec_pkt)
        BY <2>3 DEF VecSendLane, vecVars, IsRead
      <3>2. lane' = lane /\ (UNCHANGED vecVars \/ VecTakesLane(response))
        BY <2>3, <3>1 DEF VecSendLane, vecVars
      <3>3. response["core_L1d"] = None
        <4> SUFFICES ASSUME response["core_L1d"] # None PROVE FALSE
          OBVIOUS
        <4>1. ~Loading
          BY <2>3 DEF VecSendLane, Loading
        <4>2. response["core_L1d"] \in StoreAnswer
          BY DEF TypeInv, BusInv, Bus, InsnBus, DataBus, AnswerOn
        <4>3. <<"response", "core_L1d">> \in Place
              /\ IsReadOf(traffic[<<"response", "core_L1d">>], "store")
          BY <4>2, TrafficAt, AnswersAndFetchesAreReads DEF Bus
        <4> QED  BY <4>1, <4>3, OnlyRead DEF TrafficInv, InOrder
      <3>4. CASE UNCHANGED vecVars
        BY <1>1, <2>1, <3>1, <3>4
      <3>5. CASE vec_at' = "await_lane"
        BY <2>1, <3>1, <3>2, <3>5 DEF LoadInv, SeenAt
      <3> QED  BY <3>2, <3>3, <3>4, <3>5 DEF VecTakesLane
    <2>4. CASE VecAwaitLane
      <3>1. IsRead(vec_pkt) /\ lane \in Threads /\ UNCHANGED <<vec_pkt, lane>> /\ VecTakesLane(response)
        BY <2>0, <2>4 DEF VecAwaitLane, TypeInv, VecInv, LanesLeft
      <3>2. CASE response["core_L1d"] = None
        BY <2>1, <3>1, <3>2 DEF VecTakesLane, LoadInv, SeenAt
      <3>3. CASE response["core_L1d"] # None
        <4>1. response["core_L1d"] \in StoreAnswer
          BY <3>3 DEF TypeInv, BusInv, Bus, InsnBus, DataBus, AnswerOn
        <4>2. AsAsked(response["core_L1d"]) /\ IsReadOf(response["core_L1d"], "store")
          BY <4>1, AnswersAndFetchesAreReads DEF AnswersInv, AllAsAsked, Bus
        <4>3. response["core_L1d"].payload = InStorage(Data(vec_pkt.address[lane]))
          BY <4>1, <4>2 DEF AsAsked, StoreAnswer
        <4>4. InStorage(Data(vec_pkt.address[lane])) = SeenAt(vec_pkt.address[lane])
          BY <3>3, NoWriteBehindAnswer DEF InStorage, Data, SeenAt
        <4>5. lane_response' = SeenAt(vec_pkt.address[lane])
          BY <3>1, <3>3, <4>3, <4>4 DEF VecTakesLane
        <4> QED  BY <2>1, <3>1, <4>5 DEF LoadInv, SeenAt
      <3> QED  BY <3>2, <3>3
    <2>5. CASE VecStoreLane
      <3>1. IsRead(vec_pkt) /\ lane \in Threads /\ vec_pkt \in VecPacket
        BY <2>0, <2>5 DEF VecStoreLane, TypeInv, VecInv, LanesLeft, IsRead
      <3>2. /\ vec_pkt' = [vec_pkt EXCEPT !.payload[lane] = lane_response]
            /\ lane' = lane + 1 /\ vec_at' = "lanes" /\ lane_response = SeenAt(vec_pkt.address[lane])
        BY <2>5, <3>1 DEF VecStoreLane, LoadInv
      <3>3. /\ vec_pkt'.address = vec_pkt.address
            /\ \A t \in Threads : vec_pkt'.payload[t] = IF t = lane THEN lane_response
                                                        ELSE vec_pkt.payload[t]
        BY <3>1, <3>2 DEF VecPacket, VectorValue
      <3>4. ASSUME NEW t \in Threads, t < lane'
            PROVE  vec_pkt'.payload[t] = SeenAt(vec_pkt.address[t])
        BY <2>0, <3>1, <3>2, <3>3, <3>4 DEF LoadInv
      <3> QED  BY <2>1, <3>1, <3>2, <3>3, <3>4 DEF LoadInv, SeenAt
    <2>6. CASE VecFinish
      BY <2>6 DEF VecFinish, LoadInv, IsRead
    <2> QED  BY <1>4, <2>2, <2>3, <2>4, <2>5, <2>6 DEF VectorMemoryControllerTurn
  <1> QED  BY <1>2, <1>3, <1>4, Turns

-----------------------------------------------------------------------------
(* Every turn is a step of the abstract memory, or changes nothing it sees. *)

\* The operators of the abstract memory, under the refinement mapping, are those of the
\* hierarchy.
LEMMA SameOperators ==
  /\ CoreView!Threads = Threads /\ CoreView!create_vec(0) = create_vec(0)
  /\ \A x : CoreView!IsRead(x) <=> IsRead(x)
  /\ \A x : CoreView!IsWrite(x) <=> IsWrite(x)
  /\ CoreView!VecBusPacket = VecPacket
  /\ \A pc : [half \in {0, 1} |-> CoreView!InsnAt(prog, pc + half)] = Line(pc)
  <1>1. CoreView!Threads = Threads /\ CoreView!LaneValue = LaneValue
    BY DEF CoreView!Threads, Threads, CoreView!LaneValue, LaneValue
  <1>2. CoreView!create_vec(0) = create_vec(0) /\ CoreView!VectorValue = VectorValue
    BY <1>1 DEF CoreView!create_vec, create_vec, CoreView!VectorValue, VectorValue,
       CoreView!Wrap, Wrap
  <1>3. \A x : (CoreView!IsRead(x) <=> IsRead(x)) /\ (CoreView!IsWrite(x) <=> IsWrite(x))
    BY DEF CoreView!IsRead, IsRead, CoreView!IsWrite, IsWrite
  <1>4. CoreView!VecBusPacket = VecPacket
    BY <1>2 DEF CoreView!VecBusPacket, VecPacket
  <1>5. \A pc : [half \in {0, 1} |-> CoreView!InsnAt(prog, pc + half)] = Line(pc)
    BY DEF CoreView!InsnAt, InsnAt, CoreView!ZeroInsn, ZeroInsn, Line
  <1> QED  BY <1>1, <1>2, <1>3, <1>4, <1>5

\* What the refinement mapping makes of the state of the clients.
InsnAsked == IF response["core_L1i"] = None THEN fetch_awaits ELSE None
InsnGiven == IF response["core_L1i"] = None THEN None ELSE response["core_L1i"].payload
Accepted  == IF IsWrite(vec_pkt) /\ lane > 0 THEN None
             ELSE IF IsRead(vec_pkt) THEN [vec_pkt EXCEPT !.payload = create_vec(0)]
             ELSE vec_pkt

Same == UNCHANGED <<prog, MemoryInEffect, InsnAsked, InsnGiven, vec_request, vec_response, Accepted>>

\* A turn that keeps what the mapping shows is a step that changes nothing.
LEMMA SameIsStutter == Same => UNCHANGED CoreView!memoryVars
  BY DEF Same, InsnAsked, InsnGiven, Accepted, CoreView!memoryVars, CoreView!insnBus,
     CoreView!vecBus

\* What the mapping depends on.
LEMMA SameView ==
  /\ UNCHANGED <<vec_pkt, lane>> /\ MemoryAtL1' = MemoryAtL1 => MemoryInEffect' = MemoryInEffect
  /\ UNCHANGED <<vec_pkt, lane>> => Accepted' = Accepted
  /\ UNCHANGED fetch_awaits /\ response'["core_L1i"] = response["core_L1i"]
       => InsnAsked' = InsnAsked /\ InsnGiven' = InsnGiven
  <1>1. UNCHANGED <<vec_pkt, lane>> /\ MemoryAtL1' = MemoryAtL1 => MemoryInEffect' = MemoryInEffect
    BY DEF MemoryInEffect, IsWrite, LanesWritten
  <1>2. UNCHANGED <<vec_pkt, lane>> => Accepted' = Accepted
    BY DEF Accepted, IsRead, IsWrite
  <1>3. UNCHANGED fetch_awaits /\ response'["core_L1i"] = response["core_L1i"]
          => InsnAsked' = InsnAsked /\ InsnGiven' = InsnGiven
    BY DEF InsnAsked, InsnGiven
  <1> QED  BY <1>1, <1>2, <1>3

\* A line comes only when fetch waits.
LEMMA NoLineUnasked ==
  ASSUME TypeInv, TrafficInv
  PROVE  /\ fetch_awaits = None => response["core_L1i"] = None
         /\ response["core_L1i"] \in Slot(FetchAnswer)
         /\ response["core_L1i"] # None => InsnGiven # None
  <1>1. response["core_L1i"] \in Slot(FetchAnswer)
    BY DEF TypeInv, BusInv, Bus, InsnBus, AnswerOn
  <1>2. ASSUME response["core_L1i"] # None PROVE Fetching
    <2>1. /\ <<"response", "core_L1i">> \in Place
          /\ IsReadOf(traffic[<<"response", "core_L1i">>], "fetch")
      BY <1>1, <1>2, TrafficAt, AnswersAndFetchesAreReads DEF Bus
    <2> QED  BY <2>1, OnlyRead DEF TrafficInv, InOrder
  <1>3. ASSUME response["core_L1i"] # None PROVE InsnGiven # None
    <2>1. response["core_L1i"].payload \in InsnLine
      BY <1>1, <1>3 DEF FetchAnswer
    <2> QED  BY <1>3, <2>1, MemoryHierarchyAssumption DEF InsnGiven
  <1> QED  BY <1>1, <1>2, <1>3 DEF Fetching

\* Fetch asks, takes its line, or waits.
LEMMA FetchStep ==
  ASSUME TypeInv, TrafficInv, FetchTurn PROVE CoreView!FetchAsks \/ CoreView!FetchTakes \/ Same
  <1>0. /\ UNCHANGED <<prog, vec_request, vec_response>> /\ MemoryInEffect' = MemoryInEffect
        /\ Accepted' = Accepted
    <2>1. UNCHANGED <<prog, vec_request, vec_response, vec_pkt, lane>>
      BY DEF FetchTurn, vecVars, vecBus
    <2> QED  BY <2>1, SameView, OtherMemory
  <1>1. CASE fetch_awaits = None /\ fetch_awaits' \in FetchLine /\ UNCHANGED response
    <2>1. InsnAsked = None /\ InsnGiven = None /\ InsnGiven' = None /\ InsnAsked' \in Int
      BY <1>1, NoLineUnasked, MemoryHierarchyAssumption DEF InsnAsked, InsnGiven
    <2> QED  BY <1>0, <2>1 DEF CoreView!FetchAsks, CoreView!vecBus, InsnAsked, InsnGiven, Accepted
  <1>2. CASE /\ fetch_awaits # None /\ response["core_L1i"] # None /\ fetch_awaits' = None
             /\ response' = [response EXCEPT !["core_L1i"] = None]
    <2>1. response'["core_L1i"] = None
      BY <1>2 DEF TypeInv, BusInv, Bus
    <2>2. InsnAsked' = InsnAsked /\ InsnGiven # None /\ InsnGiven' = None
      BY <1>2, <2>1, NoLineUnasked DEF InsnAsked, InsnGiven
    <2> QED  BY <1>0, <2>2 DEF CoreView!FetchTakes, CoreView!vecBus, InsnAsked, InsnGiven, Accepted
  <1>3. CASE UNCHANGED <<fetch_awaits, buses>>
    BY <1>0, <1>3, SameView DEF Same, buses
  <1> QED  BY <1>1, <1>2, <1>3 DEF FetchTurn

\* The store stage sends an access, takes a loaded vector, or waits.
LEMMA StoreStep ==
  ASSUME TypeInv, VecReads, TrafficInv, StoreTurn PROVE CoreView!StoreSends \/ CoreView!StoreTakes \/ Same
  <1>0. /\ UNCHANGED prog /\ MemoryInEffect' = MemoryInEffect
        /\ Accepted' = Accepted /\ InsnAsked' = InsnAsked /\ InsnGiven' = InsnGiven
    <2>1. UNCHANGED <<prog, vec_pkt, lane, fetch_awaits, response>>
      BY DEF StoreTurn, vecVars, buses
    <2> QED  BY <2>1, SameView, OtherMemory
  <1>1. CASE ~load_awaits /\ vec_request' \in Accesses /\ UNCHANGED vec_response
    <2>1. ~IsRead(vec_request) /\ ~IsRead(vec_pkt) /\ vec_response = None
      BY <1>1 DEF VecReads, One, TypeInv, ClientInv
    <2>2. ~IsRead(Accepted)
      BY <2>1 DEF Accepted, IsRead
    <2>3. vec_request' \in VecRequest
      BY <1>1, MemoryHierarchyAssumption
    <2>4. /\ vec_request' \in VecPacket
          /\ \/ vec_request'.packet_type = "write"
             \/ vec_request'.packet_type = "read" /\ vec_request'.payload = create_vec(0)
      BY <2>3 DEF VecRequest
    <2> QED  BY <1>0, <1>1, <2>1, <2>2, <2>4, SameOperators
             DEF CoreView!StoreSends, CoreView!insnBus, InsnAsked, InsnGiven, Accepted
  <1>2. CASE vec_response # None /\ vec_response' = None /\ UNCHANGED vec_request
    BY <1>0, <1>2 DEF CoreView!StoreTakes, CoreView!insnBus, InsnAsked, InsnGiven, Accepted
  <1>3. CASE UNCHANGED vecBus
    BY <1>0, <1>3 DEF Same, vecBus
  <1> QED  BY <1>1, <1>2, <1>3 DEF StoreTurn, vecBus

\* What the components between the clients and the DRAM leave alone.
LEMMA InnerTurnFrame ==
  ASSUME InnerTurn PROVE UNCHANGED <<prog, fetch_awaits, vec_request, vec_response, vec_pkt, lane>>
  <1>1. UNCHANGED <<clients, vecBus, vecVars>>
    BY ClientsUntouched
  <1>2. prog' = prog
    BY DEF InnerTurn, L2DataCacheTurn, L2InsnCacheTurn, L1DataCacheTurn, L3CacheTurn, NotForward,
       L1InsnCacheTurn, L1iBoot, L1iAccept, L1iLookup, L1iFill, NotL1i,
       InternalMultiplexerTurn, MuxAccept, MuxForward, MuxRoute, NotMux,
       DramTurn, DramAccept, DramDelay, DramRead, DramWrite, NotDram,
       SelectionTurn, SelectionAccept, SelectionForward, SelectionRespond, SelectionRoute,
       NotSelection
  <1> QED  BY <1>1, <1>2 DEF clients, vecBus, vecVars

\* Only the L1 instruction cache gives a line to fetch.
LEMMA LinesToFetch ==
  ASSUME TypeInv, InnerTurn
  PROVE  \/ response'["core_L1i"] = response["core_L1i"]
         \/ L1InsnCacheTurn /\ response["core_L1i"] = None
  <1>0. DOMAIN response = Bus
    BY DEF TypeInv, BusInv
  <1>1. CASE L2DataCacheTurn \/ L2InsnCacheTurn \/ L3CacheTurn \/ L1DataCacheTurn
    BY <1>0, <1>1 DEF L2DataCacheTurn, L2InsnCacheTurn, L3CacheTurn, L1DataCacheTurn, PassResponse,
       Moved, Bus
  <1>2. CASE DramTurn
    BY <1>0, <1>2 DEF DramTurn, DramAccept, DramDelay, DramRead, DramWrite, buses, Bus
  <1>3. ASSUME NEW s \in Sides, SelectionTurn(s) PROVE response'["core_L1i"] = response["core_L1i"]
    BY <1>0, <1>3 DEF SelectionTurn, SelectionAccept, SelectionForward, SelectionRespond,
       SelectionRoute, Above, Below, Sides, Bus
  <1>4. CASE L1InsnCacheTurn
    BY <1>0, <1>4 DEF L1InsnCacheTurn, L1iBoot, L1iAccept, L1iLookup, L1iFill, L1iTakesResponse,
       buses, Bus
  <1>5. CASE InternalMultiplexerTurn
    <2>1. ASSUME NEW req, NEW resp, MuxTestFetch(req, resp) \/ MuxTestVec(req, resp)
                                    \/ MuxTestResponse(req, resp), DOMAIN resp = Bus
          PROVE  response'["core_L1i"] = resp["core_L1i"]
      BY <2>1 DEF MuxTestFetch, MuxTestVec, MuxTestResponse, Bus
    <2>2. CASE MuxAccept
      BY <1>0, <2>1, <2>2 DEF MuxAccept
    <2>3. CASE MuxForward
      BY <1>0, <2>1, <2>3 DEF MuxForward, buses
    <2>4. CASE MuxRoute
      <3> DEFINE to == IF mux_pkt.source = "fetch" THEN "L2i_mux" ELSE "L2d_mux"
                 routed == [response EXCEPT ![to] = mux_pkt]
      <3>1. MuxTestFetch(request, routed)
        BY <2>4 DEF MuxRoute
      <3>2. DOMAIN routed = Bus /\ routed["core_L1i"] = response["core_L1i"]
        BY <1>0 DEF Bus
      <3> HIDE DEF routed
      <3> QED  BY <2>1, <3>1, <3>2
    <2> QED  BY <1>5, <2>2, <2>3, <2>4 DEF InternalMultiplexerTurn
  <1> QED  BY <1>1, <1>2, <1>3, <1>4, <1>5 DEF InnerTurn

\* A line that is given to fetch is the answer of the abstract memory; no other turn of
\* these components shows.
LEMMA InnerStep ==
  ASSUME TypeInv, TypeInv', TrafficInv', AnswersInv', InnerTurn PROVE CoreView!InsnMemoryRespond \/ Same
  <1>0. /\ UNCHANGED <<prog, fetch_awaits, vec_request, vec_response>>
        /\ MemoryInEffect' = MemoryInEffect /\ Accepted' = Accepted
    <2>1. MemoryAtL1' = MemoryAtL1
      BY L1DataCacheMemory, L2DataCacheMemory, L3CacheMemory, SelectionMemory, MuxMemory,
         DramMemory, OtherMemory DEF InnerTurn
    <2> QED  BY <2>1, InnerTurnFrame, SameView
  <1>1. CASE response'["core_L1i"] = response["core_L1i"]
    BY <1>0, <1>1, SameView DEF Same
  <1>2. CASE response["core_L1i"] = None /\ response'["core_L1i"] # None
    <2>1. response'["core_L1i"] \in FetchAnswer
      BY <1>2 DEF TypeInv, BusInv, Bus, InsnBus, DataBus, AnswerOn
    <2>2. IsReadOf(response'["core_L1i"], "fetch")
      BY <2>1, AnswersAndFetchesAreReads
    <2>3. AsAsked(response["core_L1i"])'
      BY DEF AnswersInv, AllAsAsked, Bus
    <2>4. response'["core_L1i"].payload = Line(fetch_awaits)'
      BY <2>1, <2>2, <2>3 DEF AsAsked, FetchAnswer
    <2>5. Line(fetch_awaits)' = Line(fetch_awaits)
      BY <1>0 DEF Line
    <2>6. fetch_awaits # None
      <3>1. /\ <<"response", "core_L1i">> \in Place
            /\ traffic'[<<"response", "core_L1i">>] = response'["core_L1i"]
        BY DEF traffic, Traffic, Place, Bus
      <3>2. Fetching'
        BY <2>2, <3>1, OnlyRead DEF TrafficInv, InOrder
      <3> QED  BY <1>0, <3>2 DEF Fetching
    <2>7. /\ InsnAsked = fetch_awaits /\ InsnAsked # None /\ InsnAsked' = None
          /\ InsnGiven' = Line(InsnAsked)
      BY <1>2, <2>4, <2>5, <2>6 DEF InsnAsked, InsnGiven
    <2>8. InsnGiven' = [half \in {0, 1} |-> CoreView!InsnAt(prog, InsnAsked + half)]
      BY <2>7, SameOperators
    <2> QED  BY <1>0, <2>7, <2>8
             DEF CoreView!InsnMemoryRespond, CoreView!vecBus, InsnAsked, InsnGiven, Accepted
  <1> QED  BY <1>1, <1>2, LinesToFetch

-----------------------------------------------------------------------------
(* The vector memory controller: accepts, reads and writes. *)

LEMMA ZeroVector == create_vec(0) \in VectorValue
  <1>1. LANE_HALF \in Nat \ {0}
    BY VectorOpsAssumption
  <1>2. Wrap(0) = 0
    <2>1. \A h \in Nat \ {0} : (0 + h) % (2 * h) = h
      BY SMT
    <2> QED  BY <1>1, <2>1 DEF Wrap
  <1> QED  BY <1>2, ZeroIsLaneValue DEF create_vec, VectorValue

\* The controller takes a request from its slot; the first lane of a write is the
\* abstract write, the other lanes show nothing more; the end of a load is the abstract
\* read.
LEMMA VecStep ==
  ASSUME TypeInv, VecReads, LoadInv, VectorMemoryControllerTurn
  PROVE  CoreView!VecMemoryAccept \/ CoreView!VecMemoryRead \/ CoreView!VecMemoryWrite \/ Same
  <1>0. /\ UNCHANGED <<prog, fetch_awaits>>
        /\ vec_pkt \in Slot(VecPacket) /\ vec_request \in Slot(VecRequest)
        /\ lane \in 0 .. NUMBER_OF_VECTOR_THREADS
        /\ NUMBER_OF_VECTOR_THREADS \in Nat \ {0}
        /\ Threads = 0 .. NUMBER_OF_VECTOR_THREADS - 1
    BY VectorOpsAssumption DEF TypeInv, VecInv, Threads, VectorMemoryControllerTurn, VecAccept,
       VecSendLane, VecAwaitLane, VecStoreLane, VecFinish, NotVec, clients
  <1>1. InsnAsked' = InsnAsked /\ InsnGiven' = InsnGiven
    <2>1. response'["core_L1i"] = response["core_L1i"]
      BY DEF TypeInv, BusInv, Bus, VectorMemoryControllerTurn, VecAccept, VecSendLane, VecAwaitLane,
         VecStoreLane, VecFinish, VecTakesLane, buses
    <2> QED  BY <1>0, <2>1, SameView
  <1>2. CASE UNCHANGED <<vec_pkt, lane, vec_request, vec_response>> /\ MemoryAtL1' = MemoryAtL1
    BY <1>0, <1>1, <1>2, SameView DEF Same
  <1>3. CASE VecAccept
    <2>0. vec_pkt = None /\ lane = 0 /\ lane' = 0 /\ MemoryAtL1' = MemoryAtL1
      BY <1>3, VecMemory, NoneIsNoPacket DEF VecAccept, VecSendLane, TypeInv, VecInv, IsRead,
         IsWrite
    <2>1. CASE vec_request = None
      BY <1>2, <1>3, <2>0, <2>1 DEF VecAccept
    <2>2. CASE vec_request # None
      <3>1. vec_pkt' = vec_request /\ vec_request' = None /\ vec_response' = vec_response
        BY <1>3, <2>2 DEF VecAccept
      <3>2. MemoryInEffect' = MemoryInEffect
        BY <2>0 DEF MemoryInEffect
      <3>3. Accepted = None
        BY <2>0 DEF Accepted, IsRead
      <3>4. Accepted' = vec_request
        <4>1. IsRead(vec_request) => [vec_request EXCEPT !.payload = create_vec(0)] = vec_request
          BY <1>0 DEF IsRead, VecRequest, VecPacket
        <4> QED  BY <2>0, <3>1, <4>1 DEF Accepted
      <3> QED  BY <1>0, <1>1, <2>2, <3>1, <3>2, <3>3, <3>4
               DEF CoreView!VecMemoryAccept, CoreView!insnBus, InsnAsked, InsnGiven, Accepted
    <2> QED  BY <2>1, <2>2
  <1>4. CASE VecSendLane /\ ~LaneWritten
    <2>1. UNCHANGED <<vec_pkt, vec_request, vec_response>> /\ MemoryAtL1' = MemoryAtL1
      BY <1>4, VecMemory DEF VecSendLane, vecBus
    <2>2. lane' = lane
      BY <1>4, <1>0 DEF VecSendLane, LaneWritten, vecVars, TypeInv, VecInv
    <2> QED  BY <1>2, <2>1, <2>2
  <1>5. CASE VecSendLane /\ LaneWritten
    <2>1. /\ UNCHANGED <<vec_pkt, vec_request, vec_response>> /\ lane' = lane + 1
          /\ IsWrite(vec_pkt) /\ ~IsRead(vec_pkt) /\ lane \in Threads
      BY <1>0, <1>5 DEF VecSendLane, LaneWritten, vecBus, LanesLeft, IsRead, IsWrite
    <2>2. MemoryAtL1' = Written(MemoryAtL1, LaneWrite(vec_pkt, lane))
      BY <1>5, VecMemory
    <2>3. LaneWrite(vec_pkt, lane) # None
      <3>1. vec_pkt \in VecPacket
        BY <1>0, <2>1 DEF IsWrite
      <3>2. LaneWrite(vec_pkt, lane) \in StoreRequest
        <4>1. /\ Data(vec_pkt.address[lane]) \in DataAddress
              /\ vec_pkt.payload[lane] \in LaneValue
          BY <2>1, <3>1, LanesOfPackets DEF DataAddress
        <4> QED  BY <4>1 DEF LaneWrite, Packet, StoreRequest
      <3> QED  BY <3>2, NoneIsNoPacket
    <2>4. LanesWritten(MemoryAtL1', vec_pkt, lane + 1) = LanesWritten(MemoryAtL1, vec_pkt, lane)
      BY <2>1, <2>2, <2>3, OneLaneWritten
    <2>5. MemoryInEffect' = LanesWritten(MemoryAtL1, vec_pkt, lane) /\ Accepted' = None
      <3>1. IsWrite(vec_pkt') /\ lane' > 0
        BY <1>0, <2>1 DEF IsWrite
      <3>2. MemoryInEffect' = LanesWritten(MemoryAtL1', vec_pkt', lane')
        BY <3>1 DEF MemoryInEffect, LanesWritten
      <3> QED  BY <2>1, <2>4, <3>1, <3>2 DEF Accepted
    <2>6. CASE lane > 0
      <3>1. MemoryInEffect' = MemoryInEffect /\ Accepted' = Accepted
        BY <2>1, <2>5, <2>6 DEF MemoryInEffect, Accepted
      <3> QED  BY <1>0, <1>1, <2>1, <3>1 DEF Same
    <2>7. CASE lane = 0
      <3>1. Accepted = vec_pkt /\ MemoryInEffect = MemoryAtL1
        BY <2>1, <2>7 DEF Accepted, MemoryInEffect
      <3>2. MemoryInEffect' = CoreView!AfterWrite(MemoryInEffect, Accepted)
        BY <2>5, <2>7, <3>1, NoLaneWritten
      <3>3. CoreView!IsWrite(Accepted)
        BY <2>1, <3>1, SameOperators
      <3> QED  BY <1>0, <1>1, <2>1, <2>5, <3>2, <3>3
               DEF CoreView!VecMemoryWrite, CoreView!insnBus, CoreView!vecBus, InsnAsked,
                  InsnGiven, Accepted
    <2> QED  BY <1>0, <2>6, <2>7
  <1>6. CASE VecAwaitLane
    BY <1>2, <1>6, VecMemory DEF VecAwaitLane, VecSendLane, vecBus
  <1>7. CASE VecStoreLane
    <2>1. IsRead(vec_pkt) /\ vec_pkt \in VecPacket /\ lane \in Threads /\ lane_response \in LaneValue
      BY <1>0, <1>7 DEF VecStoreLane, TypeInv, VecInv, LanesLeft, IsRead
    <2>2. vec_pkt' = [vec_pkt EXCEPT !.payload[lane] = lane_response]
      BY <1>7 DEF VecStoreLane
    <2>3. vec_pkt' \in VecPacket /\ vec_pkt'.packet_type = vec_pkt.packet_type
          /\ vec_pkt'.address = vec_pkt.address
      <3>1. vec_pkt'.address = vec_pkt.address
        BY <2>1, <2>2 DEF VecPacket
      <3> QED  BY <2>1, <2>2, <3>1, LanesOfPackets
    <2>4. IsRead(vec_pkt') /\ ~IsWrite(vec_pkt') /\ ~IsWrite(vec_pkt)
      BY <2>1, <2>3, NoneIsNoPacket DEF IsRead, IsWrite
    <2>5. [vec_pkt' EXCEPT !.payload = create_vec(0)] = [vec_pkt EXCEPT !.payload = create_vec(0)]
      BY <2>1, <2>3 DEF VecPacket
    <2>6. Accepted' = Accepted
      BY <2>1, <2>4, <2>5 DEF Accepted
    <2>7. MemoryAtL1' = MemoryAtL1 /\ UNCHANGED <<vec_request, vec_response>>
      BY <1>7, VecMemory DEF VecStoreLane, VecSendLane, vecBus
    <2>8. MemoryInEffect' = MemoryInEffect
      BY <2>4, <2>7 DEF MemoryInEffect
    <2> QED  BY <1>0, <1>1, <2>6, <2>7, <2>8 DEF Same
  <1>8. CASE VecFinish
    <2>0. /\ MemoryAtL1' = MemoryAtL1 /\ vec_request' = vec_request /\ vec_pkt' = None /\ lane' = 0
          /\ lane = NUMBER_OF_VECTOR_THREADS /\ (IsRead(vec_pkt) \/ IsWrite(vec_pkt))
      BY <1>0, <1>8, VecMemory DEF VecFinish, VecSendLane, LanesLeft, TypeInv, VecInv
    <2>1. Accepted' = None /\ MemoryInEffect' = MemoryAtL1
      BY <2>0 DEF Accepted, MemoryInEffect, IsRead
    <2>2. CASE IsWrite(vec_pkt)
      <3>1. ~IsRead(vec_pkt) /\ vec_response' = vec_response /\ lane > 0
        BY <1>0, <1>8, <2>0, <2>2 DEF VecFinish, IsRead, IsWrite
      <3>2. MemoryInEffect = [a \in Addr |-> MemoryAtL1[a]]
        BY <2>0, <2>2, <3>1, AllLanesWritten DEF MemoryInEffect
      <3>3. [a \in Addr |-> MemoryAtL1[a]] = MemoryAtL1
        BY DEF MemoryAtL1, Written
      <3>4. Accepted = None
        BY <2>2, <3>1 DEF Accepted
      <3> QED  BY <1>0, <1>1, <2>0, <2>1, <3>1, <3>2, <3>3, <3>4 DEF Same
    <2>3. CASE IsRead(vec_pkt)
      <3>1. ~IsWrite(vec_pkt) /\ vec_pkt \in VecPacket
        BY <1>0, <2>3 DEF IsRead, IsWrite
      <3>2. MemoryInEffect = MemoryAtL1 /\ Accepted = [vec_pkt EXCEPT !.payload = create_vec(0)]
        BY <2>3, <3>1 DEF MemoryInEffect, Accepted
      <3>3. vec_response' = [vec_pkt EXCEPT !.packet_type = "read_response"]
        BY <1>8, <2>3 DEF VecFinish
      <3>4. /\ Accepted.packet_type = "read" /\ Accepted.address = vec_pkt.address
            /\ Accepted # None /\ Accepted \in VecPacket
        <4>1. create_vec(0) \in VectorValue
          BY ZeroVector
        <4>2. Accepted \in VecPacket
          BY <3>1, <3>2, <4>1 DEF VecPacket
        <4> QED  BY <2>3, <3>1, <3>2, <4>2, NoneIsNoPacket DEF VecPacket, IsRead
      <3>5. vec_pkt.payload = [t \in Threads |-> IF Accepted.address[t] \in Addr
                                                 THEN MemoryInEffect[Accepted.address[t]] ELSE 0]
        <4>1. \A t \in Threads : vec_pkt.payload[t] = SeenAt(vec_pkt.address[t])
          BY <1>0, <2>0, <2>3 DEF LoadInv
        <4>2. vec_pkt.payload \in [Threads -> LaneValue]
          BY <3>1 DEF VecPacket, VectorValue
        <4> QED  BY <3>2, <3>4, <4>1, <4>2 DEF SeenAt
      <3>6. vec_response' = [Accepted EXCEPT !.packet_type = "read_response", !.payload = vec_pkt.payload]
        BY <3>1, <3>2, <3>3 DEF VecPacket
      <3>7. CoreView!IsRead(Accepted)
        BY <3>4, SameOperators DEF IsRead
      <3> QED  BY <1>0, <1>1, <2>0, <2>1, <3>2, <3>5, <3>6, <3>7, SameOperators
               DEF CoreView!VecMemoryRead, CoreView!insnBus, InsnAsked, InsnGiven, Accepted
    <2> QED  BY <2>0, <2>2, <2>3
  <1> QED  BY <1>3, <1>4, <1>5, <1>6, <1>7, <1>8 DEF VectorMemoryControllerTurn

-----------------------------------------------------------------------------
(* The inductive invariant and the theorem. *)

HierarchyInv == MemoryInv /\ AnswersInv /\ LoadInv

\* At reset nothing is under way and the cache is empty.
LEMMA InitHierarchyInv == Init => HierarchyInv
  <1> SUFFICES ASSUME Init PROVE HierarchyInv
    OBVIOUS
  <1>1. MemoryInv
    BY InitMemoryInv
  <1>2. \A p \in Place : traffic[p] = None
    BY DEF Init, traffic, Traffic, Place, Holding, Holder, Sides
  <1>3. AllAsAsked(request, response, Holding)
    BY <1>2, EveryPlaceAsAsked, NothingAsked
  <1>4. CacheInv
    BY DEF Init, CacheInv
  <1>5. LoadInv
    BY DEF Init, LoadInv, IsRead
  <1> QED  BY <1>1, <1>3, <1>4, <1>5 DEF HierarchyInv, AnswersInv

LEMMA HierarchyInvKept == HierarchyInv /\ [Next]_vars => HierarchyInv'
  <1> SUFFICES ASSUME HierarchyInv, [Next]_vars PROVE HierarchyInv'
    OBVIOUS
  <1>1. MemoryInv'
    BY MemoryInvKept DEF HierarchyInv
  <1>2. CASE Next
    BY <1>1, <1>2, AnswersKept, LoadKept DEF HierarchyInv, MemoryInv
  <1>3. CASE UNCHANGED vars
    <2>1. /\ UNCHANGED <<prog, storage, request, response, fetch_awaits, L1InsnCacheLines>>
          /\ UNCHANGED <<vec_pkt, vec_at, lane, lane_response>>
          /\ UNCHANGED <<dram_pkt, mux_pkt, selection_pkt, l1i_pkt>>
      BY <1>3 DEF vars, parts, buses, dramVars, clients, l1iVars, selectionVars, muxVars, vecVars
    <2>2. AnswersInv'
      BY <2>1 DEF HierarchyInv, AnswersInv, AllAsAsked, AsAsked, CacheInv, IsReadOf, IsWrite, Line,
         InStorage, Holding
    <2>3. LoadInv'
      <3>1. MemoryAtL1' = MemoryAtL1
        BY <2>1 DEF MemoryAtL1, MemoryAtL2, MemoryAtL3
      <3> QED  BY <2>1, <3>1 DEF HierarchyInv, LoadInv, SeenAt, IsRead
    <2> QED  BY <1>1, <2>2, <2>3 DEF HierarchyInv
  <1> QED  BY <1>2, <1>3

\* The hierarchy starts as the abstract memory does, with an assembled program.
LEMMA InitialMemory == Init => CoreView!MemoryInit
  <1> SUFFICES ASSUME Init PROVE CoreView!MemoryInit
    OBVIOUS
  <1>1. PICK image \in Images : prog = image.code /\ storage = image.data
    BY DEF Init
  <1>2. image.data \in [Addr -> LaneValue]
    BY MemoryHierarchyAssumption
  <1>3. MemoryInEffect = image.data
    <2>1. ~IsWrite(None)
      BY DEF IsWrite
    <2>2. MemoryAtL1 = Written(storage, None)
      BY WrittenPassedOn DEF Init, MemoryAtL1, MemoryAtL2, MemoryAtL3, Bus, Sides
    <2>3. MemoryInEffect = MemoryAtL1
      BY <2>1 DEF Init, MemoryInEffect
    <2> QED  BY <1>1, <1>2, <2>2, <2>3, WrittenPassedOn
  <1>4. InsnAsked = None /\ InsnGiven = None /\ Accepted = None
    BY DEF Init, InsnAsked, InsnGiven, Accepted, IsRead, IsWrite, Bus
  <1> QED  BY <1>1, <1>3, <1>4
           DEF Init, CoreView!MemoryInit, InsnAsked, InsnGiven, Accepted

\* Every turn maps to a step of the abstract memory, or to none.
LEMMA EveryStepMaps ==
  ASSUME HierarchyInv, HierarchyInv', [Next]_vars
  PROVE  [CoreView!MemoryNext]_(CoreView!memoryVars)
  <1>0. TypeInv /\ TypeInv' /\ VecReads /\ TrafficInv /\ TrafficInv' /\ AnswersInv' /\ LoadInv
    BY DEF HierarchyInv, MemoryInv
  <1>1. CASE UNCHANGED vars
    <2>1. /\ UNCHANGED <<prog, storage, request, response, fetch_awaits, vec_request, vec_response>>
          /\ UNCHANGED <<vec_pkt, lane, dram_pkt, mux_pkt, selection_pkt>>
      BY <1>1 DEF vars, parts, buses, vecBus, dramVars, clients, selectionVars, muxVars, vecVars
    <2>2. MemoryAtL1' = MemoryAtL1
      BY <2>1 DEF MemoryAtL1, MemoryAtL2, MemoryAtL3
    <2> QED  BY <2>1, <2>2, SameView, SameIsStutter DEF Same
  <1>2. CASE Next
    BY <1>0, <1>2, Turns, InnerStep, FetchStep, StoreStep, VecStep, SameIsStutter
    DEF CoreView!MemoryNext, CoreView!VecMemoryFinish
  <1> QED  BY <1>1, <1>2

(***************************************************************************)
(* The caches, the multiplexers, the DRAM and the vector memory controller *)
(* together are the memory that the core relies on: every line that fetch  *)
(* receives is the line of the program at the PC it asked for, every       *)
(* vector that a load receives holds in each lane what the writes before   *)
(* it have left at the address of that lane, and the lanes of a write take *)
(* effect as if at once, the last one deciding where several have the same *)
(* address (L1InsnCache.cpp, CoreInternalMemoryMultiplexer.cpp,            *)
(* VectorMemoryController.cpp and the DRAM behind them, for every order of *)
(* registration and every latency of the DRAM).                            *)
(***************************************************************************)
THEOREM HierarchyImplementsCoreMemory == Spec => ImplementsCoreMemory
  BY InitHierarchyInv, HierarchyInvKept, InitialMemory, EveryStepMaps, PTL
  DEF Spec, ImplementsCoreMemory, CoreView!MemorySpec
=============================================================================
