--------------------------- MODULE ProcessStreams ---------------------------
(***************************************************************************)
(* The streams of one native child process and the watchers that share it, *)
(* crates/server/src/process.rs: stdin with one writer role, output copied *)
(* to every watcher within its own window, and the exit that ends a watch. *)
(*                                                                         *)
(* Bytes are counted, one per packet, so that the limit on unacknowledged  *)
(* packets acts as the window does; stderr repeats stdout. The record's    *)
(* lock makes a handler one action; a task that is aborted may still finish*)
(* the turn it is in. What a client does with what it reads is its own.    *)
(***************************************************************************)
EXTENDS Integers, Sequences, FiniteSets

CONSTANTS
  Watchers,        \* endpoints that may watch the process
  Creator,         \* the endpoint that spawned it
  Window,          \* PROCESS_DEFAULT_STREAM_WINDOW, in packets
  Loads,           \* bounds on the packets accepted for stdin and read from stdout
  MaxRewatches     \* bound on the watches after the creator's first

VARIABLES
  stdin,     \* the stdin half of RecordInner, its queue and its writer task; from is a
             \* history: who wrote each packet that was accepted
  stdout,    \* the output half, and its reader task
  ending,    \* child_outcome, tree_cleanup_done, terminal_queued, FinalRecord, the exits to queue
  binding,   \* RecordInner.bindings: what each watcher acknowledged, or Unbound
  frames,    \* frames on their way to each watcher
  view,      \* what each watcher knows from the frames it has read
  rewatches, \* watches made
  load       \* the bounds of this behaviour: what the client types, what the child prints

streamVars == <<stdin, stdout, ending, binding, frames, view, rewatches, load>>

ASSUME StreamConstants ==
  /\ Creator \in Watchers /\ "nobody" \notin Watchers /\ IsFiniteSet(Watchers)
  /\ Loads \subseteq [ins : Nat, outs : Nat]
  /\ Window \in Nat \ {0} /\ MaxRewatches \in Nat

Unbound == -1
Bindings == {w \in Watchers : binding[w] # Unbound}

NoWatch == [on |-> FALSE, writable |-> FALSE, since |-> 0, acked |-> 0, got |-> 0, ended |-> FALSE]

StreamInit ==
  /\ stdin = [controller |-> Creator, tx |-> TRUE, received |-> 0, acked |-> 0, state |-> "accepting",
              queue |-> 0, task |-> "waiting", done |-> FALSE, from |-> <<>>]
  /\ stdout = [next |-> 0, task |-> "reading", readers |-> 1]
  /\ ending = [reaped |-> FALSE, cleaned |-> FALSE, aborted |-> FALSE, terminal |-> FALSE, exits |-> {}, final |-> 0]
  /\ binding = [w \in Watchers |-> IF w = Creator THEN 0 ELSE Unbound]
  /\ frames = [w \in Watchers |-> <<>>]
  /\ view = [w \in Watchers |-> IF w = Creator
               THEN [NoWatch EXCEPT !.on = TRUE, !.writable = TRUE]  ELSE NoWatch]
  /\ rewatches = 0 /\ load \in Loads

-----------------------------------------------------------------------------
(* What is sent.                                                           *)

To(ws, f, q) == [w \in Watchers |-> IF w \in ws THEN Append(q[w], f) ELSE q[w]]
AckFrame(in) == [kind |-> "ack", n |-> in.acked]
SendAckTo(w) == frames' = To({w}, AckFrame(stdin), frames)
SendAck(in) == frames' = To(Bindings, AckFrame(in), frames)

Unbind(ws) ==
  /\ binding' = [w \in Watchers |-> IF w \in ws THEN Unbound ELSE binding[w]]

Released(ws, in) == IF in.controller \in ws THEN [in EXCEPT !.controller = "nobody"] ELSE in

(* The bindings and the role are taken with the decision.                  *)
StreamTerminal(in, out, end, b) ==
  IF end.reaped /\ end.cleaned /\ in.done /\ out.readers = 0 /\ ~end.terminal
  THEN /\ ending' = [end EXCEPT !.terminal = TRUE,
                                !.exits = {w \in Watchers : b[w] # Unbound}, !.final = out.next]
       /\ stdin' = [in EXCEPT !.controller = "nobody"]
       /\ binding' = [w \in Watchers |-> Unbound]
  ELSE ending' = end /\ stdin' = in /\ binding' = b

-----------------------------------------------------------------------------
(* Requests of a watcher.                                                  *)

Bound(w) == binding[w] # Unbound

(* A write that lost a race is answered with what was acknowledged, and    *)
(* harms nobody.                                                           *)
MutStdinTakes(w, offset) ==   \* whoever watches may write
  /\ stdin.state = "accepting"
  /\ offset = stdin.received /\ offset + 1 =< stdin.acked + Window /\ stdin.tx
StdinTakes(w, offset) ==
  /\ stdin.controller = w /\ stdin.state = "accepting"
  /\ offset = stdin.received /\ offset + 1 =< stdin.acked + Window /\ stdin.tx

Stdin(w, offset) ==
  /\ Bound(w) /\ view[w].on /\ ~ending.reaped
  /\ \/ /\ StdinTakes(w, offset) /\ stdin.received < load.ins
        /\ stdin' = [stdin EXCEPT !.received = offset + 1, !.queue = @ + 1,
                                  !.from = Append(@, w)]
        /\ UNCHANGED frames
     \/ /\ ~StdinTakes(w, offset) /\ frames[w] = <<>>
        /\ SendAckTo(w) /\ UNCHANGED stdin
  /\ UNCHANGED <<stdout, ending, binding, view, rewatches, load>>

CloseStdin(w) ==
  /\ Bound(w) /\ ~ending.reaped /\ stdin.state = "accepting"
  /\ stdin' = [stdin EXCEPT !.state = "closing", !.tx = FALSE]
  /\ SendAck(stdin')
  /\ UNCHANGED <<stdout, ending, binding, view, rewatches, load>>

(* An acknowledgement of what was never sent evicts.                       *)
OutputAck(w, n) ==
  /\ Bound(w)
  /\ IF n < binding[w] \/ n > stdout.next
     THEN Unbind({w}) /\ stdin' = Released({w}, stdin) /\ view' = [view EXCEPT ![w] = [NoWatch EXCEPT !.ended = TRUE]]
     ELSE /\ binding' = [binding EXCEPT ![w] = n]
          /\ UNCHANGED <<stdin, view>>
  /\ UNCHANGED <<stdout, ending, frames, rewatches, load>>

(* The snapshot is queued before the binding exists, under the lock.       *)
StreamWatch(w, wants) ==
  /\ ~Bound(w) /\ ~view[w].on /\ ~view[w].ended /\ frames[w] = <<>> /\ rewatches < MaxRewatches
  /\ ~ending.terminal
  /\ wants => ~ending.reaped /\ stdin.controller = "nobody" /\ stdin.state = "accepting"
  /\ stdin' = IF wants THEN [stdin EXCEPT !.controller = w] ELSE stdin
  /\ binding' = [binding EXCEPT ![w] = stdout.next]
  /\ frames' = To({w}, [kind |-> "watched", writable |-> wants, received |-> stdin.received,
                        n |-> stdin.acked, next |-> stdout.next], frames)
  /\ rewatches' = rewatches + 1
  /\ UNCHANGED <<stdout, ending, view, load>>

StreamUnwatch(w) ==
  /\ Bound(w) /\ ~ending.reaped
  /\ Unbind({w}) /\ stdin' = Released({w}, stdin) /\ frames' = To({w}, [kind |-> "unwatched"], frames)
  /\ UNCHANGED <<stdout, ending, view, rewatches, load>>

-----------------------------------------------------------------------------
(* stdin_writer.                                                           *)

WriterTakes ==
  /\ stdin.task = "waiting" /\ stdin.queue > 0
  /\ stdin' = [stdin EXCEPT !.task = "writing", !.queue = @ - 1]
  /\ UNCHANGED <<stdout, ending, binding, frames, view, rewatches, load>>

WriterWrites ==
  /\ stdin.task \in {"writing", "aborted"}
  /\ stdin' = [stdin EXCEPT !.task = IF @ = "writing" THEN "waiting" ELSE "gone", !.acked = @ + 1]
  /\ SendAck(stdin')
  /\ UNCHANGED <<stdout, ending, binding, view, rewatches, load>>

(* The child closed its end, or the last sender is gone and all is written.*)
WriterStops ==
  LET closed == [stdin EXCEPT !.task = "gone", !.state = "closed", !.done = TRUE, !.tx = FALSE, !.queue = 0]
  IN  /\ stdin.task = "writing" \/ (stdin.task = "waiting" /\ stdin.queue = 0 /\ ~stdin.tx)
      /\ IF stdin.state # "closed" THEN SendAck(closed) ELSE UNCHANGED frames
      /\ StreamTerminal(closed, stdout, ending, binding)
      /\ UNCHANGED <<stdout, view, rewatches, load>>

AbortLands ==
  \/ /\ stdin.task = "aborted"
     /\ stdin' = [stdin EXCEPT !.task = "gone"]
     /\ UNCHANGED <<stdout, ending, binding, frames, view, rewatches, load>>
  \/ /\ stdout.task = "aborted"
     /\ stdout' = [stdout EXCEPT !.task = "cut"]
     /\ UNCHANGED <<stdin, ending, binding, frames, view, rewatches, load>>

-----------------------------------------------------------------------------
(* output_reader.                                                          *)

ReaderReads ==
  /\ stdout.task = "reading" /\ stdout.next < load.outs
  /\ stdout' = [stdout EXCEPT !.task = "got"]
  /\ UNCHANGED <<stdin, ending, binding, frames, view, rewatches, load>>

(* Who has no credit loses its binding, and its connection.                *)
HasCredit(w) == stdout.next - binding[w] < Window

MutReaderDelivers ==   \* who has no credit misses the packet
  /\ stdout.task \in {"got", "aborted"}
  /\ stdout' = [stdout EXCEPT !.task = IF @ = "got" THEN "reading" ELSE "cut", !.next = @ + 1]
  /\ frames' = To({w \in Bindings : HasCredit(w)}, [kind |-> "out", n |-> stdout.next], frames)
  /\ UNCHANGED <<stdin, ending, binding, view, rewatches, load>>
ReaderDelivers ==
  LET slow == {w \in Bindings : ~HasCredit(w)}
  IN  /\ stdout.task \in {"got", "aborted"}
      /\ stdout' = [stdout EXCEPT !.task = IF @ = "got" THEN "reading" ELSE "cut", !.next = @ + 1]
      /\ frames' = To(Bindings \ slow, [kind |-> "out", n |-> stdout.next], frames)
      /\ Unbind(slow) /\ stdin' = Released(slow, stdin)
      /\ view' = [w \in Watchers |-> IF w \in slow THEN [NoWatch EXCEPT !.ended = TRUE] ELSE view[w]]
      /\ UNCHANGED <<ending, rewatches, load>>

ReaderStops ==
  LET out == [stdout EXCEPT !.task = "gone", !.readers = 0]
  IN  /\ stdout.task = "reading"
      /\ stdout' = out
      /\ StreamTerminal(stdin, out, ending, binding)
      /\ UNCHANGED <<frames, view, rewatches, load>>

-----------------------------------------------------------------------------
(* The end.                                                                *)

(* wait_child.                                                             *)
StreamChildExits ==
  LET in == [stdin EXCEPT !.state = IF @ = "accepting" THEN "closing" ELSE @, !.tx = FALSE]
  IN  /\ ~ending.reaped
      /\ IF stdin.state = "accepting" THEN SendAck(in) ELSE UNCHANGED frames
      /\ StreamTerminal(in, stdout, [ending EXCEPT !.reaped = TRUE], binding)
      /\ UNCHANGED <<stdout, view, rewatches, load>>

(* The tasks are told to stop, and counted as stopped.                     *)
StoppedIn  == [stdin EXCEPT !.state = "closed", !.tx = FALSE, !.done = TRUE, !.queue = 0,
                            !.task = IF @ = "writing" THEN "aborted" ELSE "gone"]
StoppedOut == [stdout EXCEPT !.readers = 0, !.task = CASE @ = "got" -> "aborted" [] @ = "reading" -> "cut" [] OTHER -> @]

(* schedule_residual_cleanup: its second half follows when it was unlocked.*)
StreamCleanup ==
  /\ ending.reaped /\ ~ending.cleaned
  /\ ending' = [ending EXCEPT !.cleaned = TRUE]
  /\ IF stdin.done /\ stdout.readers = 0
     THEN UNCHANGED <<stdin, stdout, frames>>
     ELSE /\ stdin' = StoppedIn /\ stdout' = StoppedOut
          /\ IF stdin.state # "closed" THEN SendAck(stdin') ELSE UNCHANGED frames
  /\ UNCHANGED <<binding, view, rewatches, load>>

(* abort_pipes, when the owner of an ordinary child or the server goes.    *)
StreamAbort ==
  /\ ~ending.aborted
  /\ ending' = [ending EXCEPT !.aborted = TRUE]
  /\ stdin' = StoppedIn /\ stdout' = StoppedOut
  /\ UNCHANGED <<binding, frames, view, rewatches, load>>

StreamQueueTerminal ==
  /\ ~ending.terminal /\ ending.cleaned /\ stdin.done /\ stdout.readers = 0
  /\ StreamTerminal(stdin, stdout, ending, binding)
  /\ UNCHANGED <<stdout, frames, view, rewatches, load>>

StreamExits ==
  /\ ending.exits # {}
  /\ frames' = To(ending.exits, [kind |-> "exit", n |-> ending.final], frames)
  /\ ending' = [ending EXCEPT !.exits = {}]
  /\ UNCHANGED <<stdin, stdout, binding, view, rewatches, load>>

-----------------------------------------------------------------------------
(* A watcher reads its next frame.                                         *)
ReadFrame(w) ==
  /\ frames[w] # <<>>
  /\ frames' = [frames EXCEPT ![w] = Tail(@)]
  /\ LET f == Head(frames[w])
         v == view[w]
     IN  view' = [view EXCEPT ![w] =
           CASE v.ended -> v
             [] ~v.ended /\ f.kind = "watched" ->
                  [NoWatch EXCEPT !.on = TRUE, !.writable = f.writable, !.since = f.received,
                     !.acked = f.n, !.got = f.next]
             [] ~v.ended /\ f.kind = "ack" -> [v EXCEPT !.acked = f.n]
             [] ~v.ended /\ f.kind = "out" -> [v EXCEPT !.got = f.n + 1]
             [] ~v.ended /\ f.kind = "unwatched" -> NoWatch
             [] ~v.ended /\ f.kind = "exit" -> [NoWatch EXCEPT !.ended = TRUE, !.got = v.got]]
  /\ UNCHANGED <<stdin, stdout, ending, binding, rewatches, load>>

StreamNext ==
  \/ \E w \in Watchers :
       \/ \E offset \in 0..load.ins : Stdin(w, offset)
       \/ CloseStdin(w) \/ StreamUnwatch(w) \/ ReadFrame(w)
       \/ \E n \in 0..(load.outs + 1) : OutputAck(w, n)
       \/ \E wants \in BOOLEAN : StreamWatch(w, wants)
  \/ WriterTakes \/ WriterWrites \/ WriterStops \/ AbortLands
  \/ ReaderReads \/ ReaderDelivers \/ ReaderStops
  \/ StreamChildExits \/ StreamCleanup \/ StreamAbort \/ StreamQueueTerminal \/ StreamExits

StreamSpec == StreamInit /\ [][StreamNext]_streamVars

-----------------------------------------------------------------------------
(* Properties.                                                             *)

(* Stdin is one stream with one writer at a time. Whoever was told it may  *)
(* write is, for as long as it watches, the one who wrote all that was     *)
(* accepted since the offset it was told, and whoever was told it may not  *)
(* wrote none of it: released, claimed again, evicted or refused in a race,*)
(* the role is the one each watcher was told of. While the writer task     *)
(* lives, what was accepted is acknowledged, queued or in its hands, once; *)
(* and no watcher was told that more was acknowledged than was.            *)
StdinIsOneStream ==
  /\ \A w \in Watchers : view[w].on =>
       \A i \in (view[w].since + 1)..stdin.received :
         IF view[w].writable THEN Bound(w) => stdin.from[i] = w ELSE stdin.from[i] # w
  /\ stdin.task \in {"waiting", "writing"} =>
       stdin.received = stdin.acked + stdin.queue + (IF stdin.task = "writing" THEN 1 ELSE 0)
  /\ \A w \in Watchers : view[w].acked =< stdin.acked
  /\ stdin.controller \in Bindings \cup {"nobody"}

(* Where an output frame leaves its reader; and where the first i frames of*)
(* q leave one who was at got.                                             *)
IsOutput(f) == f.kind \in {"watched", "out", "exit"}
Reaches(f) == CASE f.kind = "out" -> f.n + 1 [] f.kind = "watched" -> f.next [] f.kind = "exit" -> f.n
LeadsTo(q, got, i, p) ==
  /\ (\A k \in 1..i : ~IsOutput(q[k])) => p = got
  /\ \A k \in 1..i : IsOutput(q[k]) /\ (\A m \in (k + 1)..i : ~IsOutput(q[m])) => p = Reaches(q[k])

(* Every watch sees the output whole, from where it was told it begins to  *)
(* its exit, which is last and counts all that was read, unless a cleanup  *)
(* cut the reader short: a frame lost between would be lost for good.      *)
OutputIsWhole ==
  /\ ending.terminal /\ stdout.task \notin {"aborted", "cut"} => stdout.next = ending.final
  /\ \A w \in Watchers :
       LET q == frames[w]
       IN  ~view[w].ended => \A i \in DOMAIN q : q[i].kind \in {"out", "exit"} =>
                               LeadsTo(q, view[w].got, i - 1, q[i].n)
=============================================================================
