------------------------------ MODULE NetRelay ------------------------------
(***************************************************************************)
(* TCP streams relayed for one connection, crates/server/src/net.rs. The   *)
(* connection's dispatch loop handles one request at a time and owns the   *)
(* table of streams; every stream has a reader task (target to client) and *)
(* a writer task (client to target) that run beside it. Two credits bound  *)
(* each direction: the stream's own window and the connection's total.     *)
(*                                                                         *)
(* The client obeys the protocol: it acknowledges what it received, keeps  *)
(* its unacknowledged bytes within the window it was told, and reuses an id*)
(* only after NET_CLOSED or a refusal. A request is handled as it is sent; *)
(* what the server emits waits in the outbox. UDP flows, TLS, resolution,  *)
(* target policy and the job admission of extensions are left out; how the *)
(* target is reached and what it sends is arbitrary.                       *)
(***************************************************************************)
EXTENDS Integers, Sequences, FiniteSets, FiniteSetsExt, SequencesExt, Sums

CONSTANTS
  StreamIds,       \* stream ids the client uses
  MaxSockets,      \* NET_MAX_SOCKETS
  Aggregate,       \* NET_WINDOW_AGGREGATE
  WindowMin, WindowMax,  \* NET_WINDOW_MIN, NET_WINDOW_BYTES
  Chunks,          \* payload sizes of NET_DATA
  Congested,       \* OUTBOX_CONGESTED_BYTES, in frames
  Plans,           \* behaviours looked at: which way data flows, over which ids, how many bytes a stream
  MaxStreams       \* bound on the streams ever opened

ASSUME NetConstants ==
  /\ IsFiniteSet(StreamIds)
  /\ {MaxSockets, Aggregate, WindowMin, WindowMax, MaxStreams} \subseteq Nat
  /\ Chunks \subseteq Nat \ {0}
  /\ Plans \subseteq [way : {"up", "down"}, ids : SUBSET StreamIds, bytes : Nat]

Streams == 1..MaxStreams

VARIABLES
  table,        \* NetSockets.map: id -> stream, 0 when there is no entry
  stream,       \* the state shared by an entry and its tasks, by stream
  outstanding,  \* NetSockets.outstanding
  inbound,      \* NetSockets.inbound_total
  outbox,       \* by stream id, the frames emitted and not yet received
  client,       \* what the client knows of each id
  plan          \* what is looked at: [way: {"up", "down"}, ids: SUBSET StreamIds, bytes: Nat]

netVars == <<table, stream, outstanding, inbound, outbox, client, plan>>

Clamp(n, lo, hi) == IF n < lo THEN lo ELSE IF n > hi THEN hi ELSE n
PerStreamWindow(n) == Clamp(Aggregate \div n, WindowMin, WindowMax)
InboundAggregate == SumOf([n \in 1..MaxSockets |-> PerStreamWindow(n)])

NoStream ==
  [phase |-> "none", id |-> 0, window |-> 0, acked |-> 0, ackNew |-> FALSE, sent |-> 0,
   held |-> 0, wake |-> FALSE, done |-> FALSE,
   writes |-> <<>>, writer |-> "none", writing |-> 0, written |-> 0,
   queued |-> 0, taking |-> 0, releasing |-> 0]

NoView == [st |-> "free", got |-> 0, acked |-> 0, up |-> 0, upAcked |-> 0,
           window |-> 0, half |-> FALSE]

NetInit ==
  /\ table = [i \in StreamIds |-> 0]
  /\ stream = [n \in Streams |-> NoStream]
  /\ outstanding = 0 /\ inbound = 0
  /\ outbox = [i \in StreamIds |-> <<>>]
  /\ client = [i \in StreamIds |-> NoView]
  /\ plan \in Plans

-----------------------------------------------------------------------------
Emit(kind, id, n) == outbox' = [outbox EXCEPT ![id] = Append(@, [kind |-> kind, n |-> n])]
QueuedFrames == FoldFunction(LAMBDA q, t : Len(q) + t, 0, outbox)

Attached(n) == stream[n].phase # "none" /\ table[stream[n].id] = n

(* Credit.notify_waiters: whoever has registered is woken.                 *)
WakeReaders(ss) ==
  [n \in Streams |-> IF ss[n].phase = "parked" THEN [ss[n] EXCEPT !.wake = TRUE] ELSE ss[n]]

(* CreditCharge::set: the stream's share of the total becomes want, and    *)
(* readers are woken when it shrinks.                                      *)
MutSetCharge(n, want, ss) ==   \* the total is not told of a smaller share
  /\ outstanding' = IF want > ss[n].held THEN outstanding + want - ss[n].held ELSE outstanding
  /\ stream' = [ss EXCEPT ![n].held = want]
SetCharge(n, want, ss) ==
  LET charged == [ss EXCEPT ![n].held = want]
  IN  /\ outstanding' = outstanding + want - ss[n].held
      /\ stream' = IF want < ss[n].held THEN WakeReaders(charged) ELSE charged

(* The tasks' queue of writes ends with its receiver; charges of what it   *)
(* held stay.                                                              *)
EndWriter(s) == [s EXCEPT !.writer = "ended", !.writes = <<>>, !.writing = 0]

-----------------------------------------------------------------------------
(* Requests.                                                               *)

Swept == [i \in StreamIds |-> IF table[i] # 0 /\ stream[table[i]].done THEN 0 ELSE table[i]]
Entries(t) == {i \in StreamIds : t[i] # 0}
Unused == {n \in Streams : stream[n].phase = "none"}

OpenSocket(id, t) ==
  LET n == Min(Unused)
  IN  /\ table' = [t EXCEPT ![id] = n]
      /\ stream' = [stream EXCEPT ![n] = [NoStream EXCEPT !.phase = "connecting", !.id = id,
                      !.window = PerStreamWindow(Cardinality(Entries(t)) + 1)]]
      /\ client' = [client EXCEPT ![id] = [NoView EXCEPT !.st = "opening", !.window = WindowMin]]
      /\ UNCHANGED outbox

Open(id) ==
  /\ client[id].st = "free" /\ Unused # {}
  /\ LET t == Swept
     IN  \/ t[id] = 0 /\ Cardinality(Entries(t)) < MaxSockets /\ OpenSocket(id, t)
         \/ /\ t[id] # 0 \/ Cardinality(Entries(t)) >= MaxSockets
            /\ table' = t
            /\ Emit("refused", id, 0)
            /\ client' = [client EXCEPT ![id] = [NoView EXCEPT !.st = "opening"]]
            /\ UNCHANGED stream
  /\ UNCHANGED <<outstanding, inbound, plan>>

(* close_with, and a full NET_CLOSE: the entry goes, and its tasks see it. *)
Unlisted(id, kind) == table' = [table EXCEPT ![id] = 0] /\ Emit(kind, id, 0)
DropEntry(id, kind) == Unlisted(id, kind) /\ UNCHANGED stream

(* The receiver of the writes is dropped with the writer, and the send of  *)
(* what was admitted fails unseen.                                         *)
Push(s, item) == IF s.writer = "ended" THEN s ELSE [s EXCEPT !.writes = Append(@, item)]

(* InboundWindow::admit: the stream's own window is asked first.           *)
Data(id, k) ==
  LET c == client[id]
      n == table[id]
  IN  /\ plan.way = "up"
      /\ c.st \in {"opening", "open"} /\ ~c.half
      /\ c.up + k - c.upAcked =< c.window /\ c.up + k =< plan.bytes
      /\ client' = [client EXCEPT ![id].up = @ + k]
      /\ IF n = 0 THEN UNCHANGED <<table, stream, outbox>>
         ELSE IF stream[n].queued + k > stream[n].window THEN DropEntry(id, "over_budget")
         ELSE /\ stream' = [stream EXCEPT ![n].queued = @ + k, ![n].taking = k]
              /\ UNCHANGED <<table, outbox>>
      /\ UNCHANGED <<outstanding, inbound, plan>>

(* The connection's total is asked next: it is charged and the data queued,*)
(* or the charge of the stream is given back and the stream closed.        *)
MutChargeTotal(n) ==   \* the charge of the stream stays
  LET s == stream[n]
      k == s.taking
  IN  /\ k > 0
      /\ \/ /\ inbound + k =< InboundAggregate
            /\ stream' = [stream EXCEPT ![n] = Push([s EXCEPT !.taking = 0], k)]
            /\ inbound' = inbound + k
            /\ UNCHANGED <<table, outbox>>
         \/ /\ inbound + k > InboundAggregate
            /\ stream' = [stream EXCEPT ![n].taking = 0]
            /\ Unlisted(s.id, "over_budget") /\ UNCHANGED inbound
      /\ UNCHANGED <<outstanding, client, plan>>
ChargeTotal(n) ==
  LET s == stream[n]
      k == s.taking
  IN  /\ k > 0
      /\ \/ /\ inbound + k =< InboundAggregate
            /\ stream' = [stream EXCEPT ![n] = Push([s EXCEPT !.taking = 0], k)]
            /\ inbound' = inbound + k
            /\ UNCHANGED <<table, outbox>>
         \/ /\ inbound + k > InboundAggregate
            /\ stream' = [stream EXCEPT ![n].queued = @ - k, ![n].taking = 0]
            /\ Unlisted(s.id, "over_budget") /\ UNCHANGED inbound
      /\ UNCHANGED <<outstanding, client, plan>>

Ack(id) ==
  LET c == client[id]
      n == table[id]
  IN  /\ c.got > c.acked /\ c.st \in {"opening", "open"}
      /\ client' = [client EXCEPT ![id].acked = c.got]
      /\ stream' = IF n # 0 /\ c.got > stream[n].acked
                   THEN WakeReaders([stream EXCEPT ![n].acked = c.got, ![n].ackNew = TRUE])
                   ELSE stream
      /\ UNCHANGED <<table, outstanding, inbound, outbox, plan>>

CloseWrite(id) ==
  LET n == table[id]
  IN  /\ plan.way = "up" /\ client[id].st = "open" /\ ~client[id].half
      /\ client' = [client EXCEPT ![id].half = TRUE]
      /\ stream' = IF n = 0 THEN stream ELSE [stream EXCEPT ![n] = Push(@, 0)]
      /\ UNCHANGED <<table, outstanding, inbound, outbox, plan>>

Close(id) ==
  /\ client[id].st \in {"opening", "open"}
  /\ client' = [client EXCEPT ![id] = [NoView EXCEPT !.st = "closing"]]
  /\ IF table[id] = 0 THEN UNCHANGED <<table, stream, outbox>> ELSE DropEntry(id, "closed")
  /\ UNCHANGED <<outstanding, inbound, plan>>

(* The client takes the next frame; what does not fit its state it ignores.*)
Receive(id) ==
  /\ outbox[id] # <<>>
  /\ outbox' = [outbox EXCEPT ![id] = Tail(@)]
  /\ LET f == Head(outbox[id])
         c == client[id]
     IN  client' = [client EXCEPT ![id] =
           CASE f.kind = "opened" /\ c.st = "opening" -> [c EXCEPT !.st = "open", !.window = f.n]
             [] f.kind = "data" /\ c.st \in {"opening", "open"} -> [c EXCEPT !.got = @ + f.n]
             [] f.kind = "ack" /\ f.n > c.upAcked /\ f.n =< c.up -> [c EXCEPT !.upAcked = f.n]
             [] f.kind \in {"refused", "closed", "over_budget"} -> NoView
             [] OTHER -> c]
  /\ UNCHANGED <<table, stream, outstanding, inbound, plan>>

-----------------------------------------------------------------------------
(* The tasks of a stream. An entry that was removed aborts the reader,     *)
(* which sees it, or whatever else is ready, at its next wait.             *)

(* Resolution, connect and handshake end; the window rides the accept.     *)
Reached(n) ==
  /\ stream[n].phase = "connecting"
  /\ stream' = [stream EXCEPT ![n].phase = "gates", ![n].writer = "idle"]
  /\ Emit("opened", stream[n].id, stream[n].window)
  /\ UNCHANGED <<table, outstanding, inbound, client, plan>>

Unreachable(n) ==
  /\ stream[n].phase = "connecting"
  /\ stream' = [stream EXCEPT ![n] = EndWriter([@ EXCEPT !.phase = "closed"])]
  /\ Emit("refused", stream[n].id, 0)
  /\ UNCHANGED <<table, outstanding, inbound, client, plan>>

(* Aborted before the target was reached: nobody is told.                  *)
GiveUp(n) ==
  /\ stream[n].phase = "connecting" /\ ~Attached(n)
  /\ stream' = [stream EXCEPT ![n] = EndWriter([@ EXCEPT !.phase = "gone", !.done = TRUE])]
  /\ UNCHANGED <<table, outstanding, inbound, outbox, client, plan>>

GatesOpen(n, want) ==
  want < stream[n].window /\ outstanding + want - stream[n].held < Aggregate

(* The last acknowledgement is read, the charge follows it and both gates  *)
(* are asked; an acknowledgement of what was never sent ends the stream.   *)
Gates(n) ==
  LET s == stream[n]
      want == s.sent - s.acked
  IN  /\ s.phase = "gates"
      /\ \/ /\ want < 0
            /\ stream' = [stream EXCEPT ![n].phase = "stopping"]
            /\ UNCHANGED outstanding
         \/ /\ want >= 0
            /\ SetCharge(n, want, [stream EXCEPT
                 ![n].phase = IF GatesOpen(n, want) THEN "ready" ELSE "register",
                 ![n].ackNew = FALSE])
      /\ UNCHANGED <<table, inbound, outbox, client, plan>>

(* credit.notified(): only what is notified from here on wakes the reader. *)
Register(n) ==
  /\ stream[n].phase = "register"
  /\ stream' = [stream EXCEPT ![n].phase = "parked", ![n].wake = FALSE]
  /\ UNCHANGED <<table, outstanding, inbound, outbox, client, plan>>

Wake(n) ==
  /\ stream[n].phase = "parked" /\ (stream[n].wake \/ stream[n].ackNew)
  /\ stream' = [stream EXCEPT ![n].phase = "gates", ![n].wake = FALSE]
  /\ UNCHANGED <<table, outstanding, inbound, outbox, client, plan>>

(* The abort ends the wait; so does the loss of the acknowledgements'      *)
(* sender, as if the gates were open. CreditCharge::drop ends the share;   *)
(* the reader's counts go with it.                                         *)
Aborted(n) ==
  /\ stream[n].phase \in {"parked", "ready"} /\ ~Attached(n)
  /\ SetCharge(n, 0, [stream EXCEPT ![n] =
       [@ EXCEPT !.phase = "gone", !.sent = 0, !.acked = 0, !.ackNew = FALSE, !.wake = FALSE]])
  /\ UNCHANGED <<table, inbound, outbox, client, plan>>

AcksLost(n) ==
  /\ stream[n].phase = "parked" /\ ~Attached(n)
  /\ stream' = [stream EXCEPT ![n].phase = "ready"]
  /\ UNCHANGED <<table, outstanding, inbound, outbox, client, plan>>

Read(n, k) ==
  LET s == stream[n]
  IN  /\ s.phase = "ready" /\ QueuedFrames =< Congested
      /\ plan.way = "down" /\ s.sent + k =< plan.bytes
      /\ stream' = [stream EXCEPT ![n].phase = "gates", ![n].sent = @ + k]
      /\ Emit("data", s.id, k)
      /\ UNCHANGED <<table, outstanding, inbound, client, plan>>

(* The target ends the stream: EOF or a reset.                             *)
TargetEnds(n) ==
  /\ stream[n].phase = "ready" /\ QueuedFrames =< Congested
  /\ stream' = [stream EXCEPT ![n].phase = "stopping"]
  /\ UNCHANGED <<table, outstanding, inbound, outbox, client, plan>>

(* writer_task.abort() takes effect where the writer waits, and is waited  *)
(* for; then the client is told.                                           *)
Stop(n) ==
  /\ stream[n].phase = "stopping" /\ stream[n].writer \notin {"landed", "failed"}
  /\ stream' = [stream EXCEPT ![n] = EndWriter([@ EXCEPT !.phase = "closed"])]
  /\ Emit("closed", stream[n].id, 0)
  /\ UNCHANGED <<table, outstanding, inbound, client, plan>>

(* done is set after the last frame was emitted, and the charge dropped.   *)
Finish(n) ==
  /\ stream[n].phase = "closed"
  /\ SetCharge(n, 0, [stream EXCEPT ![n].phase = "gone", ![n].done = TRUE])
  /\ UNCHANGED <<table, inbound, outbox, client, plan>>

Reader(n) ==
  \/ Reached(n) \/ Unreachable(n) \/ GiveUp(n)
  \/ Gates(n) \/ Register(n) \/ Wake(n) \/ Aborted(n) \/ AcksLost(n)
  \/ \E k \in Chunks : Read(n, k)
  \/ TargetEnds(n) \/ Stop(n) \/ Finish(n)

TakeWrite(n) ==
  LET s == stream[n]
  IN  /\ s.writer = "idle" /\ s.writes # <<>>
      /\ stream' = [stream EXCEPT ![n] =
           IF Head(s.writes) = 0 THEN EndWriter(s)
           ELSE [s EXCEPT !.writer = "writing", !.writing = Head(s.writes), !.writes = Tail(@)]]
      /\ UNCHANGED <<table, outstanding, inbound, outbox, client, plan>>

(* The write ends; its charge is released whether or not it landed, of the *)
(* stream and then of the connection, and an acknowledgement follows one   *)
(* that did.                                                               *)
Written(n, ok) ==
  LET s == stream[n]
  IN  /\ s.writer = "writing"
      /\ stream' = [stream EXCEPT ![n] =
           [s EXCEPT !.writer = IF ok THEN "landed" ELSE "failed",
                     !.queued = @ - s.writing, !.writing = 0, !.releasing = s.writing]]
      /\ UNCHANGED <<table, outstanding, inbound, outbox, client, plan>>

WriteReleased(n) ==
  LET s == stream[n]
      rest == [s EXCEPT !.releasing = 0]
  IN  /\ s.writer \in {"landed", "failed"}
      /\ inbound' = inbound - s.releasing
      /\ \/ /\ s.writer = "landed"
            /\ stream' = [stream EXCEPT ![n] =
                 [rest EXCEPT !.writer = "idle", !.written = @ + s.releasing]]
            /\ Emit("ack", s.id, s.written + s.releasing)
         \/ s.writer = "failed" /\ stream' = [stream EXCEPT ![n] = EndWriter(rest)] /\ UNCHANGED outbox
      /\ UNCHANGED <<table, outstanding, client, plan>>

(* The entry is gone and every write of it was taken.                      *)
WritesEnd(n) ==
  /\ stream[n].writer = "idle" /\ stream[n].writes = <<>> /\ ~Attached(n)
  /\ stream' = [stream EXCEPT ![n].writer = "ended"]
  /\ UNCHANGED <<table, outstanding, inbound, outbox, client, plan>>

Writer(n) ==
  \/ TakeWrite(n) \/ WriteReleased(n) \/ WritesEnd(n)
  \/ \E ok \in BOOLEAN : Written(n, ok)

(* One request at a time: a new one waits until the last was admitted.     *)
NetRequest ==
  \/ /\ \A n \in Streams : stream[n].taking = 0
     /\ \E id \in plan.ids :
          \/ Open(id) \/ Ack(id) \/ CloseWrite(id) \/ Close(id)
          \/ \E k \in Chunks : Data(id, k)
  \/ \E n \in Streams : ChargeTotal(n)

NetNext == NetRequest \/ (\E id \in plan.ids : Receive(id)) \/ \E n \in Streams : Reader(n) \/ Writer(n)

NetSpec == NetInit /\ [][NetNext]_netVars

(* Tasks are scheduled, resolution, connect and handshake time out and the *)
(* connection's outbox is drained. Targets owe nothing: neither data, nor  *)
(* an end, nor that a write completes.                                     *)
NetFairness ==
  /\ \A id \in StreamIds : WF_netVars(Receive(id))
  /\ \A n \in Streams :
       /\ WF_netVars(Reached(n) \/ Unreachable(n) \/ GiveUp(n))
       /\ WF_netVars(Gates(n) \/ Register(n) \/ Wake(n))
       /\ WF_netVars(Aborted(n))
       /\ WF_netVars(Stop(n) \/ Finish(n))
       /\ WF_netVars(TakeWrite(n) \/ WriteReleased(n) \/ WritesEnd(n))
       /\ WF_netVars(ChargeTotal(n))

NetLiveSpec == NetSpec /\ NetFairness

-----------------------------------------------------------------------------
(* Properties.                                                             *)

(* Every byte a reader waits on is charged once, and a stream that ended,  *)
(* by whatever exit, holds no share of the connection's credit: a share    *)
(* left behind would shrink the window for as long as the connection lives.*)
CreditIsTheSumOfShares ==
  /\ outstanding = SumOf([n \in Streams |-> stream[n].held])
  /\ \A n \in Streams : stream[n].phase \in {"none", "connecting", "gone"} => stream[n].held = 0

(* Whatever is queued for targets is charged, to its stream and to the     *)
(* connection, and "the two counters have to agree" (net.rs): the total is *)
(* what the streams hold but for what is between the two, and a refusal by *)
(* the total leaves nothing behind in the stream.                          *)
QueuedIsCharged ==
  /\ \A n \in Streams : stream[n].writer # "ended" =>
       stream[n].queued = SumOf(stream[n].writes) + stream[n].writing + stream[n].taking
  /\ SumOf([n \in Streams |-> stream[n].queued - stream[n].taking + stream[n].releasing]) = inbound
  /\ inbound =< InboundAggregate

(* A compliant client is never closed for its budget: "the ceiling cannot  *)
(* be a figure a client honouring every window it was granted can reach"   *)
(* (net.rs, INBOUND_AGGREGATE_BYTES).                                      *)
CompliantIsNeverRefused == \A id \in StreamIds : \A i \in DOMAIN outbox[id] : outbox[id][i].kind # "over_budget"

(* A compliant acknowledgement is never taken for a forgery.               *)
AcksAreNotForged == \A n \in Streams : Attached(n) => stream[n].acked =< stream[n].sent

(* "Register before re-reading, so an ack landing between the check and the*)
(* wait is not missed" (net.rs): a reader whose gates stay open reads.     *)
NoReaderStalls ==
  \A n \in Streams :
    ~ <>[](stream[n].phase = "parked" /\ stream[n].held < stream[n].window
                                      /\ outstanding < Aggregate /\ Attached(n))
=============================================================================
