---------------------------- MODULE ChannelPipes ----------------------------
(***************************************************************************)
(* What the channel fabric promises the two sides of a connected pair      *)
(* (docs/design/extensions.md): two streams of messages, each reliable and *)
(* in order, with at most Window bytes unacknowledged, until the pair is   *)
(* cut. Messages sent before the cut still arrive; only the failure of a   *)
(* side's own connection loses what was on its way to it. Nothing is said  *)
(* of ids, names, budgets or outboxes.                                     *)
(***************************************************************************)
EXTENDS Integers, Sequences, SequencesExt

CONSTANTS Pairs, Window, Sizes

VARIABLES
  status,   \* of each pair: "none", "open" or "cut"
  wire,     \* wire[p][s]: the messages on their way to side s of pair p
  unacked,  \* unacked[p][s]: bytes side s has sent and not seen acknowledged
  failed    \* the sides <<p, s>> whose connection has failed

vars == <<status, wire, unacked, failed>>

Sides    == {1, 2}
Other(s) == 3 - s
Total(w) == FoldLeft(LAMBDA n, m : n + m, 0, w)

Init ==
  /\ status = [p \in Pairs |-> "none"]
  /\ wire = [p \in Pairs |-> [s \in Sides |-> <<>>]]
  /\ unacked = [p \in Pairs |-> [s \in Sides |-> 0]]
  /\ failed = {}

Open(p) ==
  /\ status[p] = "none"
  /\ status' = [status EXCEPT ![p] = "open"]
  /\ UNCHANGED <<wire, unacked>>

(* A message that fits the window is put on the wire, or is lost because   *)
(* the connection of the receiving side has failed.                        *)
Transmit(p, s, n) ==
  /\ status[p] = "open"
  /\ unacked[p][s] + n =< Window
  /\ unacked' = [unacked EXCEPT ![p][s] = @ + n]
  /\ wire' = IF <<p, Other(s)>> \in failed' THEN wire
             ELSE [wire EXCEPT ![p][Other(s)] = Append(@, n)]
  /\ UNCHANGED status

Receive(p, s) ==
  /\ wire[p][s] # <<>>
  /\ wire' = [wire EXCEPT ![p][s] = Tail(@)]
  /\ UNCHANGED <<status, unacked>>

(* Side s acknowledges messages: never one that is still on the wire.      *)
Acknowledge(p, s) ==
  /\ status[p] = "open"
  /\ \E left \in Total(wire[p][s])..unacked[p][Other(s)] :
       unacked' = [unacked EXCEPT ![p][Other(s)] = left]
  /\ UNCHANGED <<status, wire>>

Cut(P) ==
  /\ \A p \in P : status[p] = "open"
  /\ status' = [p \in Pairs |-> IF p \in P THEN "cut" ELSE status[p]]
  /\ unacked' = [p \in Pairs |-> IF p \in P THEN [s \in Sides |-> 0] ELSE unacked[p]]
  /\ UNCHANGED wire

Lose(F) ==
  /\ F \subseteq failed'
  /\ wire' = [p \in Pairs |-> [s \in Sides |-> IF <<p, s>> \in F THEN <<>> ELSE wire[p][s]]]
  /\ UNCHANGED <<status, unacked>>

Next ==
  /\ failed \subseteq failed'     \* a connection may fail at any moment
  /\ \/ \E p \in Pairs :
          \/ Open(p)
          \/ \E s \in Sides : Receive(p, s) \/ Acknowledge(p, s)
          \/ \E s \in Sides, n \in Sizes : Transmit(p, s, n)
     \/ \E P \in SUBSET Pairs : Cut(P)
     \/ \E F \in SUBSET (Pairs \X Sides) : Lose(F)

Spec == Init /\ [][Next]_vars
=============================================================================
