------------------------ MODULE MCTerminalDelivery ------------------------
(* Instances of TerminalDelivery for TLC. Every client starts on PTY 1; it *)
(* leads, or previews PTY 1 as an unfocused subscriber.                    *)
EXTENDS TerminalDelivery

CONSTANTS c1, c2

AllWatch  == [c \in Clients |-> Ptys]
LeadsOne  == [c \in Clients |-> 1]
OneLeads  == [c \in Clients |-> IF c = c1 THEN 1 ELSE NoPty]

(* The terminal begins at its smaller size; a message may enlarge it.      *)
SmallAtFirst == \A p \in Ptys : pty[p].size = 1 \/ \E c \in Clients : requests[c] > 0

(* Chunks and messages come in any order, three of them in all. Nothing in *)
(* LiveSpec makes a PTY write or a client ask.                             *)
ThreeEvents ==
  \A c \in Clients, p \in Ptys : pty[p].ver + Len(pty[p].input) + requests[c] =< 3
=============================================================================
