----------------------------- MODULE MCLowering -----------------------------
(***************************************************************************)
(* The generator on coroutines built like those of CoreLib: requests that  *)
(* are received and answered, busy flags that are waited for, switches on  *)
(* what was received, loops that wait for a response and break.            *)
(***************************************************************************)
EXTENDS CoroutineLowering

MCValues == 0 .. 2

Busy == Input({1})
Recvs == <<Recv, Yield>>
Wait == <<While(Busy, <<Yield>>)>>

Plain == {<<Send>>, Recvs, Wait \o <<Send>>}

\* A loop that waits for a response, and one that counts.
Loops ==
  {<<While(One, <<If(Busy, b \o <<BreakStmt>>), Yield>>)>> : b \in {<<>>, Recvs}} \union
  {<<While(One, <<IfElse(Busy, Recvs \o <<j>>, <<Send>>), Yield>>)>> : j \in {BreakStmt, Continue}}
    \union
  {<<While(X({1, 2}), <<Send, Recv, Yield>> \o b)>> :
     b \in {<<>>, <<If(Busy, <<BreakStmt>>), Send>>, <<If(Busy, <<Continue>>), Send>>}}

Ifs ==
  {<<If(c, b)>> : c \in {Busy, X({1})}, b \in Plain} \union
  {<<IfElse(c, b1, b2)>> : c \in {Busy, X({1})}, b1 \in Plain, b2 \in Plain \union {<<>>}} \union
  {<<IfElse(X({0}), <<IfElse(Busy, <<>>, <<Send>>)>>, Recvs)>>}

Inner == <<Switch(<<Case({0}, <<BreakStmt>>)>>, <<Send>>), Send>>

Switches ==
  {<<Switch(<<Case({0}, b1 \o <<BreakStmt>>), Case({1}, b2 \o <<BreakStmt, Send>>)>>, <<Send>>)>> :
     b1 \in Plain \union Loops, b2 \in {<<>>, Wait, <<If(Busy, Recvs)>>}} \union
  {<<Switch(<<Case({0, 2}, b \o <<BreakStmt>>)>>, <<>>)>> : b \in Plain \union Ifs} \union
  {<<Switch(<<Case({0}, Inner), Case({1}, <<If(Busy, <<BreakStmt>>), Send>>)>>, <<Send>>)>>}

\* The jumps of a loop with a switch in it.
Jumps ==
  {<<Switch(<<Case({0}, <<j>>)>>, <<Send>>), Send>> : j \in {BreakStmt, Continue}} \union
  {s \o <<If(Busy, <<j>>), Send>> :
     s \in {<<Switch(<<Case({0}, <<BreakStmt>>)>>, <<Send>>)>>, Recvs},
     j \in {BreakStmt, Continue}} \union
  {<<IfElse(Busy, Inner, <<j>>), Send>> : j \in {BreakStmt, Continue}}

Bodies == Plain \union Loops \union Ifs \union Switches

\* An endless loop that takes a request if there is one.
Serve(b) == <<While(One, <<If(Busy, Recvs \o b), Yield>>)>>

MCPrograms ==
  {Serve(b1 \o b2) : b1 \in Bodies, b2 \in Plain \union Loops} \union
  {<<While(One, Recvs \o b)>> : b \in Jumps \union Loops} \union
  {<<Recv>> \o b \o Serve(<<Send>>) : b \in Plain \union Loops}
=============================================================================
