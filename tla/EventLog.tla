------------------------------ MODULE EventLog ------------------------------
(***************************************************************************)
(* The server's journal of events, crates/server/src/events.rs, and the    *)
(* stream of it a client follows, lib.rs (handle_events). Producers record *)
(* into a ring that evicts, and broadcast to whoever follows over a        *)
(* channel that forgets; a stream begins with a dump of the ring and says  *)
(* how many records it missed. One stream is looked at, of either kind.    *)
(*                                                                         *)
(* Records are named by their sequence number, counted from 1. What a      *)
(* stream has written or sent is a sequence of items: how many records an  *)
(* item says are missing, and the records it holds.                        *)
(***************************************************************************)
EXTENDS Integers, Sequences, FiniteSets, FiniteSetsExt, SequencesExt, Sums

CONSTANTS
  Producers,     \* tasks that record events
  SizeOf,        \* the sizes of the records, a sequence; its length bounds them
  RingSizes,     \* the capacities a client may configure
  LiveCap,       \* LIVE_CHANNEL_RECORDS
  BatchBytes     \* LIVE_BATCH_MAX_BYTES

ASSUME EvConstants ==
  /\ SizeOf \in Seq(Nat) /\ RingSizes \subseteq Nat
  /\ LiveCap \in Nat /\ BatchBytes \in Nat

VARIABLES
  ring,          \* EventLog.ring: its capacity, what it keeps, how many it dropped
  nextSequence,  \* EventLog.next_sequence
  taken,         \* by producer, the sequence number it holds, 0 for none
  order,         \* every record ever, as the ring's lock ordered them
  live,          \* every record ever broadcast on live_tx
  follower       \* the stream, its task and its receiver

evVars == <<ring, nextSequence, taken, order, live, follower>>

NoFollower ==
  [st |-> "none", kind |-> "client", history |-> FALSE, from |-> 0, dump |-> <<>>,
   next |-> 1, batch |-> <<>>, pending |-> 0, hand |-> <<>>, out |-> <<>>,
   stop |-> FALSE, asked |-> 0]

EvInit ==
  /\ \E size \in RingSizes : ring = [capacity |-> size, kept |-> <<>>, dropped |-> 0]
  /\ nextSequence = 1 /\ taken = [p \in Producers |-> 0]
  /\ order = <<>> /\ live = <<>> /\ follower = NoFollower

Missing(n) == [missing |-> n, records |-> <<>>]
Holding(records) == [missing |-> 0, records |-> records]

-----------------------------------------------------------------------------
(* The ring *)

Bytes(records) == SumOf([i \in DOMAIN records |-> SizeOf[records[i]]])

(* The newest of a sequence of records, as many as fit.                    *)
Newest(records, room) ==
  LET fits == {i \in 1..Len(records) + 1 : Bytes(SubSeq(records, i, Len(records))) =< room}
  IN  SubSeq(records, Min(fits), Len(records))

(* The oldest make room; a record larger than the ring is not retained.    *)
AppendTo(r, n) ==
  IF SizeOf[n] > r.capacity THEN [r EXCEPT !.dropped = @ + 1]
  ELSE LET rest == Newest(r.kept, r.capacity - SizeOf[n])
       IN  [r EXCEPT !.kept = Append(rest, n), !.dropped = @ + Len(r.kept) - Len(rest)]

(* The records at some positions of a sequence, in turn.                   *)
RecordsAt(records, positions) ==
  [i \in 1..Cardinality(positions) |->
     records[CHOOSE p \in positions : Cardinality({q \in positions : q =< p}) = i]]

(* The replacement takes the records over from the oldest on. One that is  *)
(* too large is dropped when its turn comes; of the others those stay that *)
(* fit together with all that come after them.                             *)
Resize(r, size) ==
  LET fits == {i \in DOMAIN r.kept : SizeOf[r.kept[i]] =< size}
      stay == {i \in fits : SumOf([j \in {h \in fits : h >= i} |-> SizeOf[r.kept[j]]]) =< size}
  IN  [capacity |-> size, kept |-> RecordsAt(r.kept, stay),
       dropped |-> r.dropped + Len(r.kept) - Cardinality(stay)]

Configure(size) ==
  /\ size # ring.capacity
  /\ ring' = Resize(ring, size)
  /\ UNCHANGED <<nextSequence, taken, order, live, follower>>

-----------------------------------------------------------------------------
(* Recording *)

Ended == {"none", "refused", "stopped", "failed", "aborted"}
Received == follower.st \notin Ended   \* receiver_count() # 0

(* The sequence number is taken before the lock.                           *)
TakeSequence(p) ==
  /\ taken[p] = 0 /\ nextSequence =< Len(SizeOf)
  /\ taken' = [taken EXCEPT ![p] = nextSequence] /\ nextSequence' = nextSequence + 1
  /\ UNCHANGED <<ring, order, live, follower>>

(* Under the lock: into the ring, and to the receivers if there are any,   *)
(* the record the ring could not hold too.                                 *)
Record(p) ==
  /\ taken[p] # 0
  /\ taken' = [taken EXCEPT ![p] = 0]
  /\ ring' = AppendTo(ring, taken[p]) /\ order' = Append(order, taken[p])
  /\ live' = IF Received THEN Append(live, taken[p]) ELSE live
  /\ UNCHANGED <<nextSequence, follower>>

-----------------------------------------------------------------------------
(* A stream: its start, and its receiver *)

(* The snapshot and the subscription are one critical section. A file is   *)
(* open before it.                                                         *)
Start(kind, history) ==
  /\ follower.st = "none"
  /\ follower' = [NoFollower EXCEPT !.st = "opening", !.kind = kind, !.history = history,
       !.from = Len(order), !.next = Len(live) + 1,
       !.dump = [missing |-> ring.dropped, records |-> IF history THEN ring.kept ELSE <<>>]]
  /\ UNCHANGED <<ring, nextSequence, taken, order, live>>

(* Mutant: the dump is built once the lock is released.                    *)
MutDumpSent ==
  /\ follower.st = "opening"
  /\ follower' = [follower EXCEPT !.st = "recv",
       !.out = <<[missing |-> ring.dropped,
                  records |-> IF follower.history THEN ring.kept ELSE <<>>]>>]
  /\ UNCHANGED <<ring, nextSequence, taken, order, live>>

DumpSent ==
  /\ follower.st = "opening"
  /\ follower' = [follower EXCEPT !.st = "recv", !.out = <<follower.dump>>]
  /\ UNCHANGED <<ring, nextSequence, taken, order, live>>

Unread(f) == Len(live) - f.next + 1
Lost(f) == IF Unread(f) > LiveCap THEN Unread(f) - LiveCap ELSE 0
Caught(f) == [f EXCEPT !.next = @ + Lost(f)]   \* at the oldest the channel still holds

FollowerStep(st) == follower.st = st /\ UNCHANGED <<ring, nextSequence, taken, order, live>>

-----------------------------------------------------------------------------
(* A client's stream: what is there goes into one message *)

ClientReceives ==
  /\ FollowerStep("recv") /\ follower.kind = "client"
  /\ LET f == follower IN
     \/ /\ f.pending # 0
        /\ follower' = [f EXCEPT !.st = "fill", !.batch = <<f.pending>>, !.pending = 0]
     \/ /\ f.pending = 0 /\ Lost(f) > 0
        /\ follower' = [Caught(f) EXCEPT !.out = Append(@, Missing(Lost(f)))]
     \/ /\ f.pending = 0 /\ Lost(f) = 0 /\ Unread(f) > 0
        /\ follower' = [f EXCEPT !.st = "fill", !.batch = <<live[f.next]>>, !.next = @ + 1]

Sent(f, items) == [f EXCEPT !.st = "recv", !.batch = <<>>, !.out = @ \o items]

Lagged(f) == Sent(Caught(f), <<Holding(f.batch), Missing(Lost(f))>>)

(* The record that does not fit opens the next message.                    *)
ClientFills ==
  /\ FollowerStep("fill")
  /\ LET f == follower
         head == live[f.next]
         taking == [f EXCEPT !.next = @ + 1]
     IN  follower' =
           IF Lost(f) > 0 THEN Lagged(f)
           ELSE IF Unread(f) = 0 THEN Sent(f, <<Holding(f.batch)>>)
           ELSE IF Bytes(f.batch) + SizeOf[head] =< BatchBytes
                THEN [taking EXCEPT !.batch = Append(@, head)]
                ELSE [Sent(taking, <<Holding(f.batch)>>) EXCEPT !.pending = head]

(* The task ends where it would wait.                                      *)
ClientAborted ==
  /\ \/ FollowerStep("recv") /\ follower.pending = 0
     \/ FollowerStep("opening")
  /\ follower.kind = "client" /\ follower.stop
  /\ follower' = [follower EXCEPT !.st = "aborted"]

-----------------------------------------------------------------------------
(* A file's stream: record by record, and what is left after the stop *)

FileTakes(f, st) ==
  IF Lost(f) > 0 THEN [Caught(f) EXCEPT !.st = st, !.hand = <<Missing(Lost(f))>>]
  ELSE [f EXCEPT !.st = st, !.hand = <<Holding(<<live[f.next]>>)>>, !.next = @ + 1]

FileReceives ==
  /\ FollowerStep("recv") /\ follower.kind = "file"
  /\ ~follower.stop /\ Unread(follower) > 0
  /\ follower' = FileTakes(follower, "write")

(* Mutant: the stop ends the task at once.                                 *)
MutFileStops ==
  /\ FollowerStep("recv") /\ follower.kind = "file" /\ follower.stop
  /\ follower' = [follower EXCEPT !.st = "stopped"]

FileStops ==
  /\ FollowerStep("recv") /\ follower.kind = "file" /\ follower.stop
  /\ follower' = [follower EXCEPT !.st = "drain"]

FileDrains ==
  /\ FollowerStep("drain")
  /\ follower' = IF Unread(follower) > 0 THEN FileTakes(follower, "drainWrite")
                 ELSE [follower EXCEPT !.st = "stopped"]

FileWrites(st, next) ==
  /\ FollowerStep(st)
  /\ follower' = [follower EXCEPT !.st = next, !.out = @ \o follower.hand, !.hand = <<>>]

(* A write, the flush of the dump or the last flush fails.                 *)
FileFails ==
  /\ follower.kind = "file"
  /\ \/ /\ FollowerStep("opening") /\ follower' = [follower EXCEPT !.st = "refused"]
     \/ /\ FollowerStep("write") \/ FollowerStep("drainWrite") \/ FollowerStep("drain")
        /\ follower.st = "drain" => Unread(follower) = 0
        /\ follower' = [follower EXCEPT !.st = "failed"]

(* StreamStop, the end of the client, or for a file the shutdown. A file's *)
(* task is registered once its dump is written.                            *)
StreamStop ==
  /\ follower.st \notin Ended /\ ~follower.stop
  /\ follower.st = "opening" => follower.kind = "client"
  /\ follower' = [follower EXCEPT !.stop = TRUE, !.asked = Len(order)]
  /\ UNCHANGED <<ring, nextSequence, taken, order, live>>

EvNext ==
  \/ \E p \in Producers : TakeSequence(p) \/ Record(p)
  \/ \E size \in RingSizes : Configure(size)
  \/ \E kind \in {"client", "file"}, history \in BOOLEAN : Start(kind, history)
  \/ DumpSent \/ StreamStop
  \/ ClientReceives \/ ClientFills \/ ClientAborted
  \/ FileReceives \/ FileStops \/ FileDrains \/ FileFails
  \/ FileWrites("write", "recv") \/ FileWrites("drainWrite", "drain")

EvSpec == EvInit /\ [][EvNext]_evVars

-----------------------------------------------------------------------------
(* Properties *)

(* How many records an item accounts for, and how far into the lock's     *)
(* order a stream's items reach up to the i-th: the first is the dump.     *)
Accounted(item) == item.missing + Len(item.records)
UpTo(f, i) == f.from + SumOf([j \in 2..i |-> Accounted(f.out[j])])
Told(f) == UpTo(f, Len(f.out))

(* Each record a stream holds stands in its place.                         *)
InPlace(f) ==
  \A i \in 2..Len(f.out) :
    f.out[i].records = SubSeq(order, UpTo(f, i - 1) + 1, UpTo(f, i - 1) + Len(f.out[i].records))

InHand(f) ==
  Len(f.batch) + (IF f.pending # 0 THEN 1 ELSE 0)
    + SumOf([j \in DOMAIN f.hand |-> Accounted(f.hand[j])])

(* A record made while a stream starts is in its dump or follows it live,  *)
(* never both and never neither; and from there on the records a stream    *)
(* holds and those it says it missed account for every record in turn, up  *)
(* to what its task has in hand and what the channel still owes it,        *)
(* whatever lags, resizes and other producers do (snapshot_and_subscribe,  *)
(* record, and both tasks). A dump with history accounts, by its count of  *)
(* the dropped, for every record before the stream.                        *)
StreamsAccountForEveryRecord ==
  follower.out # <<>> =>
    LET dump == follower.out[1]
    IN  /\ follower.history => dump.missing + Len(dump.records) = follower.from
        /\ \A i \in 1..Len(dump.records) :
             \E at \in 1..follower.from : order[at] = dump.records[i]
        /\ InPlace(follower)
        /\ follower.st \notin Ended =>
             Told(follower) + InHand(follower) + Unread(follower) = Len(order)

(* A recording that was stopped without an error accounts for every record *)
(* made before the stop was asked for, those the channel still held too    *)
(* (start_file_stream's drain, stop_file_stream, shutdown_file_streams).   *)
RecordingsEndWhole ==
  follower.st = "stopped" => Told(follower) >= follower.asked
=============================================================================
