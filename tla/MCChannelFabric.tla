--------------------------- MODULE MCChannelFabric ---------------------------
(* Instances of ChannelFabric for TLC: who makes which requests. Endpoint 1*)
(* serves, endpoint 2 is a client.                                         *)
EXTENDS ChannelFabric

WatchA == {{"a"}}

By(e, kinds) == kinds \X {e}

OneWay == By(1, {"listen", "ack", "close"}) \cup By(2, {"connect", "data", "close", "depart"})
Duplex == By(1, {"listen", "data", "ack", "malformed"}) \cup By(2, {"connect", "data", "ack", "cut"})
(* Endpoint 1 also connects to itself.                                    *)
Limits == By(1, {"listen", "connect", "ack", "close", "depart"})
            \cup By(2, {"connect", "data", "close", "depart"})
Naming == By(1, {"listen", "close", "malformed", "depart"})
            \cup By(2, {"watch", "cut", "depart"}) \cup By(0, {"shutdown"})
=============================================================================
