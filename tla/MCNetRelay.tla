----------------------------- MODULE MCNetRelay -----------------------------
(* Instances of NetRelay for TLC: which way data flows, over which ids.    *)
EXTENDS NetRelay

Up == [way |-> "up", ids |-> {1}, bytes |-> 2]
Down == [way |-> "down", ids |-> {1, 2}, bytes |-> 2]
OneByte == [way |-> "down", ids |-> {1, 2}, bytes |-> 1]

UpOnly == {Up}
DownOnly == {Down}
OneByteOnly == {OneByte}
EachWay == {Up, Down}
=============================================================================
