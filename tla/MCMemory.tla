------------------------------ MODULE MCMemory ------------------------------
(***************************************************************************)
(* The memory hierarchy with two lanes, two words of data, and an          *)
(* instruction cache of two lines.  In one run both clients are at work:   *)
(* fetch asks for two lines that contend for a line of the cache, and      *)
(* store sends one kind of store and a load.  In another run store is      *)
(* alone, but its stores differ, so that their order shows.  The run for   *)
(* liveness has one lane and one line, which fetch may first ask for at    *)
(* any moment of the traffic of store.                                     *)
(***************************************************************************)
EXTENDS MemoryHierarchy

MCShiftLeft(x, n) == x
MCBitOr(x, y) == x

MCRegisters == {"r0", "flags", "pc"}

\* Instructions that differ.
MCImages ==
  {[code |-> [pc \in 0 .. 5 |-> [ZeroInsn EXCEPT !.imm = pc + 1]],
    data |-> [a \in Addr |-> 0]]}

MCAddr == {0, 1}
DataAddr == {0, 1, 2}

Access(type, address, payload) ==
  [packet_type |-> type, address |-> [t \in Threads |-> address[t + 1]],
   payload |-> [t \in Threads |-> payload[t + 1]]]

Store01 == Access("write", <<0, 1>>, <<1, 2>>)
Store12 == Access("write", <<1, 2>>, <<1, 2>>)
Load10  == Access("read", <<1, 0>>, <<0, 0>>)

\* The words of a store are adjacent (StoreStage.cpp:53).  The two stores meet
\* in word 1, and the load takes its words in the opposite order.
DataAccesses == {Store01, Store12, Load10}

SharedAccesses == {Store01, Load10}
SharedLines == {0, 4}
LiveLine == {0}

\* The order of the constructors of CoreClusterGrid, Core and CoreCluster.
MCOrder == <<"L2d", "L2i", "l2di", "L3", "dram", "fetch", "store", "L1d", "L1i", "vecctl",
             "select_data", "select_insn">>
=============================================================================
