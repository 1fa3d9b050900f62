-------------------------- MODULE ProcessLifecycle --------------------------
(***************************************************************************)
(* The registry of native child processes, crates/server/src/process.rs:   *)
(* how a generation is admitted, spawned, watched, terminated, published   *)
(* and forgotten while its endpoint or the server shuts down.              *)
(*                                                                         *)
(* A process id of an endpoint and a place in the server's generation      *)
(* budget follow the connection's writer: the guard of the frame that says *)
(* a spawn failed, a child exited, a watch ended or a result was read runs *)
(* when that frame was written or dropped with its connection.             *)
(*                                                                         *)
(* Timers may fire at any time; SIGTERM may be ignored, SIGKILL may not.   *)
(* Streams are the subject of ProcessStreams: here io says whether the     *)
(* stdin writer and the output readers have ended. Request and buffer bytes*)
(* and the limits on watchers are left out.                                *)
(***************************************************************************)
EXTENDS Integers, Sequences, FiniteSets, SequencesExt

CONSTANTS
  Endpoints,        \* connections
  ProcessIds,       \* ids an endpoint may choose
  MaxPerEndpoint, MaxGenerations, MaxSpawning,   \* Policy and spawn_slots
  MaxSpawns,        \* bound on the generations ever admitted
  MaxWatches        \* bound on the watches ever accepted

ASSUME ProcConstants ==
  /\ 0 \notin ProcessIds /\ "nobody" \notin Endpoints
  /\ {MaxPerEndpoint, MaxGenerations, MaxSpawning, MaxSpawns, MaxWatches} \subseteq Nat

VARIABLES
  srv,      \* ServerState, and how far Server::shutdown is
  ep,       \* EndpointState, the frames with guards queued for its writer, Manager::shutdown
  proc,     \* Pending, run_spawn, Record and the child, by generation
  watches   \* watches accepted so far

procVars == <<srv, ep, proc, watches>>

Generations == 1..MaxSpawns

Free == [kind |-> "free", g |-> 0]
PendingSlot(g) == [kind |-> "pending", g |-> g]
BoundSlot(g) == [kind |-> "bound", g |-> g]
ReplySlot(g) == [kind |-> "reply", g |-> g]

Binding(e, id) == [e |-> e, id |-> id]

NoProc ==
  [pc |-> "none", phase |-> "queued", lost |-> FALSE, completed |-> FALSE, ownerAlive |-> FALSE,
   owner |-> "nobody", id |-> 0, detachable |-> FALSE, bindings |-> {},
   child |-> "none", timer |-> FALSE, reaped |-> FALSE, io |-> FALSE, cleaned |-> FALSE,
   terminal |-> FALSE, exits |-> {}, publishing |-> FALSE, remaining |-> 0, released |-> FALSE]

ProcInit ==
  /\ srv = [accepting |-> TRUE, generations |-> 0, pending |-> {}, live |-> {}, finals |-> {},
            stage |-> "up", todo |-> {}, freeing |-> {}, waits |-> {}, mine |-> {}]
  /\ ep = [e \in Endpoints |->
             [accepting |-> TRUE, slots |-> [i \in ProcessIds |-> Free], owned |-> {},
              queue |-> <<>>, kicked |-> FALSE,
              stage |-> "open", work |-> {}, waits |-> {}, mine |-> {}]]
  /\ proc = [g \in Generations |-> NoProc]
  /\ watches = 0

(* A handler is a function of the state it finds.                          *)
Now == [srv |-> srv, ep |-> ep, proc |-> proc]
Becomes(s) == srv' = s.srv /\ ep' = s.ep /\ proc' = s.proc

Less(n, k) == IF n > k THEN n - k ELSE 0   \* saturating_sub

-----------------------------------------------------------------------------
(* What several handlers do.                                               *)

MutReleasePending(s, g, keep) ==   \* the place of a failed spawn does not wait for its notice
  LET p == s.proc[g]
  IN  [s EXCEPT !.srv.pending = @ \ {g}, !.srv.generations = Less(@, 1),
                !.ep[p.owner].slots[p.id] = IF ~keep /\ @ = PendingSlot(g) THEN Free ELSE @]
ReleasePending(s, g, keep) ==
  LET p == s.proc[g]
  IN  [s EXCEPT !.srv.pending = @ \ {g},
                !.srv.generations = IF keep THEN @ ELSE Less(@, 1),
                !.ep[p.owner].slots[p.id] = IF ~keep /\ @ = PendingSlot(g) THEN Free ELSE @]

MarkCompleted(s, g) == [s EXCEPT !.proc[g].completed = TRUE]

RemoveBoundSlot(s, e, id, g) ==
  [s EXCEPT !.ep[e].slots[id] = IF @ = BoundSlot(g) THEN Free ELSE @]

(* release_record_endpoint_slots: the same for every binding of g.         *)
RemoveBoundSlots(s, g) ==
  [s EXCEPT !.ep = [e \in Endpoints |-> [s.ep[e] EXCEPT !.slots =
     [i \in ProcessIds |->
        IF Binding(e, i) \in s.proc[g].bindings /\ s.ep[e].slots[i] = BoundSlot(g) THEN Free
        ELSE s.ep[e].slots[i]]]]]

Queue(s, e, kind, g, id) ==
  [s EXCEPT !.ep[e].queue = Append(@, [kind |-> kind, g |-> g, id |-> id])]

(* release_record, for each of gs; only its owner has g among the owned.    *)
ReleaseRecords(s, gs) ==
  LET due == {g \in gs : ~s.proc[g].released}
  IN  [s EXCEPT !.proc = [g \in Generations |->
                            [s.proc[g] EXCEPT !.released = @ \/ g \in due]],
                !.srv.generations = Less(@, Cardinality(due \cap s.srv.live)),
                !.srv.live = @ \ due,
                !.ep = [e \in Endpoints |-> [s.ep[e] EXCEPT !.owned = @ \ due]]]

FinishDetached(s, g) ==
  IF s.proc[g].released \/ g \notin s.srv.live THEN s
  ELSE [s EXCEPT !.srv.live = @ \ {g}, !.srv.finals = @ \cup {g}]

FinishTerminal(s, g) ==
  IF s.proc[g].detachable THEN FinishDetached(s, g) ELSE ReleaseRecords(s, {g})

(* The bindings are taken with the decision, so that nobody else emits for *)
(* them; the exits are queued after the record is unlocked.                *)
TryQueueTerminal(s, g) ==
  LET p == s.proc[g]
  IN  IF p.reaped /\ p.cleaned /\ p.io /\ ~p.terminal
      THEN [s EXCEPT !.proc[g] = [p EXCEPT !.terminal = TRUE, !.exits = p.bindings,
                                           !.bindings = {}, !.publishing = TRUE]]
      ELSE s

(* Signals go to the group; a child that is dead keeps its outcome.        *)
Terminate(s, g) == [s EXCEPT !.proc[g].child = IF @ = "running" THEN "termed" ELSE @]
ForceKill(s, g) == [s EXCEPT !.proc[g].child = IF @ \in {"running", "termed"} THEN "killed" ELSE @]
AbortPipes(s, g) == TryQueueTerminal([s EXCEPT !.proc[g].io = TRUE], g)

(* What changes one record only, done to each of gs.                       *)
Each(op(_, _), s, gs) ==
  [s EXCEPT !.proc = [g \in Generations |-> IF g \in gs THEN op(s, g).proc[g] ELSE s.proc[g]]]

MutWriterGuard(s, e, f) ==   \* the id of an exited process is kept for its watcher
  CASE f.kind = "failed"    -> ReleasePending(s, f.g, FALSE)
    [] f.kind = "unwatched" -> RemoveBoundSlot(s, e, f.id, f.g)
    [] f.kind = "reply"     -> [s EXCEPT !.ep[e].slots[f.id] = IF @ = ReplySlot(f.g) THEN Free ELSE @]
    [] f.kind = "exit"      -> LET t == [s EXCEPT !.proc[f.g].remaining = @ - 1]
                               IN  IF t.proc[f.g].remaining = 0 THEN FinishTerminal(t, f.g) ELSE t
WriterGuard(s, e, f) ==
  CASE f.kind = "failed"    -> ReleasePending(s, f.g, FALSE)
    [] f.kind = "unwatched" -> RemoveBoundSlot(s, e, f.id, f.g)
    [] f.kind = "reply"     -> [s EXCEPT !.ep[e].slots[f.id] = IF @ = ReplySlot(f.g) THEN Free ELSE @]
    [] f.kind = "exit"      -> LET t == [RemoveBoundSlot(s, e, f.id, f.g)
                                           EXCEPT !.proc[f.g].remaining = @ - 1]
                               IN  IF t.proc[f.g].remaining = 0 THEN FinishTerminal(t, f.g) ELSE t

-----------------------------------------------------------------------------
(* Spawning.                                                               *)

Slots(e) == {ep[e].slots[i] : i \in ProcessIds} \ {Free}
Usage(e) ==
  Cardinality({i \in ProcessIds : ep[e].slots[i] # Free})
    + Cardinality({g \in ep[e].owned : BoundSlot(g) \notin Slots(e)})

Admitted(e, id) == srv.accepting /\ ep[e].accepting /\ ep[e].slots[id] = Free

Spawn(e, id, det) ==
  \E g \in Generations :
    /\ proc[g].pc = "none" /\ \A h \in 1..(g - 1) : proc[h].pc # "none"
    /\ Admitted(e, id) /\ Usage(e) < MaxPerEndpoint /\ srv.generations < MaxGenerations
    /\ Becomes([Now EXCEPT
         !.proc[g] = [NoProc EXCEPT !.pc = "queued", !.owner = e, !.id = id, !.detachable = det],
         !.srv.generations = @ + 1, !.srv.pending = @ \cup {g},
         !.ep[e].slots[id] = PendingSlot(g)])
    /\ UNCHANGED watches

(* A permit, unless the pending spawn was cancelled first.                 *)
AcquireSlot(g) ==
  /\ proc[g].pc = "queued"
  /\ Cardinality({h \in Generations : proc[h].pc = "active"}) < MaxSpawning
  /\ proc' = [proc EXCEPT ![g].pc = IF proc[g].phase = "queued" THEN "active" ELSE "ended",
                          ![g].phase = IF @ = "queued" THEN "active" ELSE @]
  /\ UNCHANGED <<srv, ep, watches>>

SpawnCancelled(g) ==
  /\ proc[g].pc = "queued" /\ proc[g].phase = "done"
  /\ proc' = [proc EXCEPT ![g].pc = "ended"]
  /\ UNCHANGED <<srv, ep, watches>>

(* The owner is looked at once, before and apart from what follows.        *)
SpawnFails(g) ==
  /\ proc[g].pc = "active"
  /\ proc' = [proc EXCEPT ![g].pc = "failing", ![g].phase = "done",
                          ![g].ownerAlive = ep[proc[g].owner].accepting]
  /\ UNCHANGED <<srv, ep, watches>>

ReportFailure(g) ==
  LET p == proc[g]
      s == [Now EXCEPT !.proc[g].pc = "ended"]
  IN  /\ p.pc = "failing"
      /\ Becomes(MarkCompleted(IF p.ownerAlive
           THEN Queue(ReleasePending(s, g, TRUE), p.owner, "failed", g, p.id)
           ELSE ReleasePending(s, g, FALSE), g))
      /\ UNCHANGED watches

SpawnSucceeds(g) ==
  LET p == proc[g]
  IN  /\ p.pc = "active"
      /\ proc' = [proc EXCEPT ![g].pc = "made", ![g].child = "running",
           ![g].bindings = IF ep[p.owner].accepting THEN {[e |-> p.owner, id |-> p.id]} ELSE {}]
      /\ UNCHANGED <<srv, ep, watches>>

(* transfer_pending_to_record, under the locks of the server and its owner.*)
Transfer(g) ==
  LET p == proc[g]
      ours == ep[p.owner].slots[p.id] = PendingSlot(g)
      bound == srv.accepting /\ ep[p.owner].accepting /\ ours /\ ~p.lost
  IN  /\ p.pc = "made"
      /\ Becomes([Now EXCEPT
           !.srv.pending = @ \ {g}, !.srv.live = @ \cup {g},
           !.ep[p.owner].slots[p.id] = IF bound THEN BoundSlot(g) ELSE IF ours THEN Free ELSE @,
           !.ep[p.owner].owned = IF bound /\ ~p.detachable THEN @ \cup {g} ELSE @,
           !.proc[g] = [p EXCEPT !.pc = IF bound THEN "bound" ELSE "unbound", !.phase = "done",
                                 !.bindings = IF bound THEN @ ELSE {}, !.completed = TRUE]])
      /\ UNCHANGED watches

(* An ordinary child nobody owns is terminated; then its tasks may run.    *)
OpenGate(g) ==
  LET orphan == proc[g].pc = "unbound" /\ ~proc[g].detachable
      s == [Now EXCEPT !.proc[g].pc = "up", !.proc[g].timer = orphan]
  IN  /\ proc[g].pc \in {"bound", "unbound"}
      /\ Becomes(IF orphan THEN Terminate(s, g) ELSE s)
      /\ UNCHANGED watches

RunSpawn(g) ==
  AcquireSlot(g) \/ SpawnCancelled(g) \/ SpawnFails(g) \/ ReportFailure(g) \/ SpawnSucceeds(g)
    \/ Transfer(g) \/ OpenGate(g)

-----------------------------------------------------------------------------
(* The child and the tasks of its record.                                  *)

ChildDies(g) ==
  /\ proc[g].child \in {"running", "termed", "killed"}
  /\ proc' = [proc EXCEPT ![g].child = "dead"]
  /\ UNCHANGED <<srv, ep, watches>>

(* wait_child.                                                             *)
Reap(g) ==
  /\ proc[g].pc = "up" /\ proc[g].child = "dead" /\ ~proc[g].reaped
  /\ proc' = [proc EXCEPT ![g].reaped = TRUE]
  /\ UNCHANGED <<srv, ep, watches>>

IoEnds(g) ==
  /\ proc[g].pc = "up" /\ ~proc[g].io
  /\ Becomes(TryQueueTerminal([Now EXCEPT !.proc[g].io = TRUE], g))
  /\ UNCHANGED watches

(* schedule_residual_cleanup, when the pipes ended or its grace did.       *)
ResidualCleanup(g) ==
  /\ proc[g].reaped /\ ~proc[g].cleaned
  /\ Becomes(TryQueueTerminal([Now EXCEPT !.proc[g].cleaned = TRUE, !.proc[g].io = TRUE], g))
  /\ UNCHANGED watches

TerminateTimeout(g) ==
  /\ proc[g].timer
  /\ LET s == [Now EXCEPT !.proc[g].timer = FALSE]
     IN  Becomes(IF proc[g].reaped \/ proc[g].terminal THEN s ELSE ForceKill(s, g))
  /\ UNCHANGED watches

(* An endpoint has at most one binding of a process.                       *)
QueueExits(s, g, exits) ==
  [s EXCEPT !.ep = [e \in Endpoints |-> [s.ep[e] EXCEPT !.queue =
     IF \E b \in exits : b.e = e
     THEN Append(@, [kind |-> "exit", g |-> g, id |-> (CHOOSE b \in exits : b.e = e).id])
     ELSE @]]]

PublishExit(g) ==
  LET p == proc[g]
      s == [Now EXCEPT !.proc[g].publishing = FALSE, !.proc[g].exits = {},
                       !.proc[g].remaining = Cardinality(p.exits)]
  IN  /\ p.publishing
      /\ Becomes(IF p.exits = {} THEN FinishTerminal(s, g)
                 ELSE QueueExits(s, g, p.exits))
      /\ UNCHANGED watches

FinalExpires(g) ==
  /\ g \in srv.finals
  /\ srv' = [srv EXCEPT !.finals = @ \ {g}, !.generations = Less(@, 1)]
  /\ UNCHANGED <<ep, proc, watches>>

RecordStep(g) ==
  Reap(g) \/ IoEnds(g) \/ ResidualCleanup(g) \/ TerminateTimeout(g) \/ PublishExit(g)

-----------------------------------------------------------------------------
(* Requests of an endpoint, and its writer.                                *)

WatchLive(e, id, g) ==
  /\ Admitted(e, id) /\ g \in srv.live /\ watches < MaxWatches
  /\ \A b \in proc[g].bindings : b.e # e
  /\ Usage(e) + (IF g \in ep[e].owned THEN 0 ELSE 1) =< MaxPerEndpoint
  /\ ~proc[g].terminal
  /\ Becomes([Now EXCEPT !.proc[g].bindings = @ \cup {Binding(e, id)},
                         !.ep[e].slots[id] = BoundSlot(g)])
  /\ watches' = watches + 1

WatchFinal(e, id, g) ==
  /\ Admitted(e, id) /\ g \in srv.finals /\ watches < MaxWatches
  /\ Usage(e) < MaxPerEndpoint
  /\ Becomes(Queue([Now EXCEPT !.ep[e].slots[id] = ReplySlot(g)], e, "reply", g, id))
  /\ watches' = watches + 1

(* PROCESS_CONTROL, for a binding that has not been given its exit.        *)
Controlled(e, id, g) ==
  /\ ep[e].stage = "open" /\ ep[e].slots[id] = BoundSlot(g)
  /\ Binding(e, id) \in proc[g].bindings /\ ~proc[g].reaped /\ ~proc[g].terminal

Unwatch(e, id, g) ==
  /\ Controlled(e, id, g)
  /\ Becomes(Queue([Now EXCEPT !.proc[g].bindings = @ \ {Binding(e, id)}], e, "unwatched", g, id))
  /\ UNCHANGED watches

Signal(e, id, g) ==
  /\ Controlled(e, id, g)
  /\ \/ Becomes(Terminate([Now EXCEPT !.proc[g].timer = TRUE], g))
     \/ Becomes(ForceKill(Now, g))
  /\ UNCHANGED watches

(* A watcher that breaks the protocol or exceeds its window loses its      *)
(* binding and its connection; its id is kept until then.                  *)
Evict(e, id, g) ==
  /\ Binding(e, id) \in proc[g].bindings /\ proc[g].pc = "up" /\ ~ep[e].kicked
  /\ Becomes([Now EXCEPT !.proc[g].bindings = @ \ {Binding(e, id)}, !.ep[e].kicked = TRUE])
  /\ UNCHANGED watches

(* The next frame was written, or dropped; a kicked endpoint's outbox      *)
(* refuses frames, whose guards then run at once.                          *)
WriteFrame(e) ==
  \E i \in DOMAIN ep[e].queue :
    /\ i = 1 \/ ep[e].kicked
    /\ Becomes(WriterGuard([Now EXCEPT !.ep[e].queue = RemoveAt(@, i)], e, ep[e].queue[i]))
    /\ UNCHANGED watches

-----------------------------------------------------------------------------
(* Manager::shutdown: the end of an endpoint.                              *)

EndpointCloses(e) ==
  /\ ep[e].stage = "open"
  /\ ep' = [ep EXCEPT ![e] = [@ EXCEPT !.accepting = FALSE, !.stage = "slots",
       !.work = {[slot |-> ep[e].slots[i], id |-> i] : i \in {j \in ProcessIds : ep[e].slots[j] # Free}},
       !.slots = [i \in ProcessIds |-> Free], !.mine = ep[e].owned, !.owned = {}]]
  /\ UNCHANGED <<srv, proc, watches>>

(* Cancelling a pending spawn takes it out of the hands of run_spawn, or it*)
(* is waited for.                                                          *)
EndpointDropsSlot(e) ==
  \E w \in ep[e].work :
    LET g == w.slot.g
        s == [Now EXCEPT !.ep[e].work = @ \ {w}]
        lost == [s EXCEPT !.proc[g].lost = TRUE]
    IN  /\ Becomes(
             CASE w.slot.kind = "pending" /\ proc[g].phase = "queued" ->
                    [lost EXCEPT !.proc[g].phase = "done",
                                 !.ep[e].work = @ \cup {[w EXCEPT !.slot.kind = "cancelled"]}]
               [] w.slot.kind = "pending" /\ proc[g].phase # "queued" ->
                    [lost EXCEPT !.ep[e].waits = IF proc[g].completed THEN @ ELSE @ \cup {g}]
               [] w.slot.kind = "cancelled" -> MarkCompleted(ReleasePending(s, g, FALSE), g)
               [] w.slot.kind = "bound" -> [s EXCEPT !.proc[g].bindings = @ \ {Binding(e, w.id)}]
               [] w.slot.kind = "reply" -> s)
        /\ UNCHANGED watches

EndpointTerminates(e) ==
  LET mine == ep[e].mine \cup {g \in ep[e].waits : ~proc[g].detachable /\ g \in srv.live}
  IN  /\ ep[e].stage = "slots" /\ ep[e].work = {}
      /\ \A g \in ep[e].waits : proc[g].completed
      /\ Becomes(Each(Terminate, [Now EXCEPT !.ep[e].stage = "grace", !.ep[e].waits = {},
                                             !.ep[e].mine = mine], mine))
      /\ UNCHANGED watches

Unreaped(gs) == {g \in gs : ~proc[g].reaped}

MutEndpointForces(e) ==   \* the grace ends and nothing is forced
  /\ ep[e].stage = "grace"
  /\ ep' = [ep EXCEPT ![e].stage = "abort"]
  /\ UNCHANGED <<srv, proc, watches>>
EndpointForces(e) ==
  /\ ep[e].stage = "grace"
  /\ Becomes(Each(ForceKill, [Now EXCEPT !.ep[e].stage = "abort"], Unreaped(ep[e].mine)))
  /\ UNCHANGED watches

EndpointAborts(e) ==
  /\ ep[e].stage = "abort"
  /\ Becomes(Each(AbortPipes, [Now EXCEPT !.ep[e].stage = "gone"], ep[e].mine))
  /\ UNCHANGED watches

EndpointShutdown(e) ==
  EndpointDropsSlot(e) \/ EndpointTerminates(e) \/ EndpointForces(e) \/ EndpointAborts(e)

-----------------------------------------------------------------------------
(* Server::shutdown.                                                       *)

ServerCloses ==
  /\ srv.stage = "up"
  /\ srv' = [srv EXCEPT !.accepting = FALSE, !.stage = "cancel", !.todo = srv.pending]
  /\ UNCHANGED <<ep, proc, watches>>

MutServerCancels ==   \* who waits for a spawn that it cancelled is not told
  \E g \in srv.todo :
    LET s == [Now EXCEPT !.srv.todo = @ \ {g}]
    IN  /\ srv.stage = "cancel"
        /\ Becomes(IF proc[g].phase = "queued"
                   THEN ReleasePending([s EXCEPT !.proc[g].phase = "done"], g, FALSE)
                   ELSE [s EXCEPT !.srv.waits = @ \cup {g}])
        /\ UNCHANGED watches
ServerCancels ==
  \E g \in srv.todo \cup srv.freeing :
    LET s == [Now EXCEPT !.srv.todo = @ \ {g}, !.srv.freeing = @ \ {g}]
    IN  /\ srv.stage = "cancel"
        /\ Becomes(
             CASE g \in srv.freeing -> MarkCompleted(ReleasePending(s, g, FALSE), g)
               [] g \notin srv.freeing /\ proc[g].phase = "queued" ->
                    [s EXCEPT !.proc[g].phase = "done", !.srv.freeing = @ \cup {g}]
               [] g \notin srv.freeing /\ proc[g].phase # "queued" ->
                    [s EXCEPT !.srv.waits = @ \cup {g}])
        /\ UNCHANGED watches

MutServerSnapshots ==   \* a spawn that was under way is not waited for
  /\ srv.stage = "cancel" /\ srv.todo = {} /\ srv.freeing = {}
  /\ srv' = [srv EXCEPT !.stage = "slots", !.mine = srv.live, !.todo = srv.live, !.waits = {}]
  /\ UNCHANGED <<ep, proc, watches>>
ServerSnapshots ==
  /\ srv.stage = "cancel" /\ srv.todo = {} /\ srv.freeing = {}
  /\ \A g \in srv.waits : proc[g].completed
  /\ srv' = [srv EXCEPT !.stage = "slots", !.mine = srv.live, !.todo = srv.live, !.waits = {}]
  /\ UNCHANGED <<ep, proc, watches>>

ServerUnbinds ==
  /\ srv.stage = "slots"
  /\ \/ \E g \in srv.todo :
          Becomes([RemoveBoundSlots(Now, g) EXCEPT !.srv.todo = @ \ {g}, !.proc[g].bindings = {}])
     \/ /\ srv.todo = {}
        /\ srv' = [srv EXCEPT !.stage = "terminate", !.todo = srv.mine]
        /\ UNCHANGED <<ep, proc>>
  /\ UNCHANGED watches

(* terminate_record, one record after the other: freeing holds the one that*)
(* was sent its signal and has its grace.                                  *)
ServerTerminates ==
  /\ srv.stage = "terminate"
  /\ \/ \E g \in srv.todo :
          /\ srv.freeing = {}
          /\ Becomes(Terminate([Now EXCEPT !.srv.todo = @ \ {g}, !.srv.freeing = {g}], g))
     \/ \E g \in srv.freeing :
          LET s == [Now EXCEPT !.srv.freeing = {}]
          IN  Becomes(AbortPipes(IF proc[g].reaped THEN s ELSE ForceKill(s, g), g))
     \/ /\ srv.todo = {} /\ srv.freeing = {}
        /\ Becomes(ReleaseRecords([Now EXCEPT !.srv.stage = "finals"], srv.mine))
  /\ UNCHANGED watches

ServerClears ==
  /\ srv.stage = "finals"
  /\ srv' = [srv EXCEPT !.stage = "down", !.finals = {},
       !.generations = Less(@, Cardinality(srv.finals))]
  /\ UNCHANGED <<ep, proc, watches>>

ServerShutdown == ServerCancels \/ ServerSnapshots \/ ServerUnbinds \/ ServerTerminates \/ ServerClears

EndpointRequest(e, id) ==
  \/ \E det \in BOOLEAN : Spawn(e, id, det)
  \/ \E g \in Generations :
       WatchLive(e, id, g) \/ WatchFinal(e, id, g) \/ Unwatch(e, id, g) \/ Signal(e, id, g)

ProcNext ==
  \/ \E e \in Endpoints :
       \/ \E id \in ProcessIds : EndpointRequest(e, id) \/ \E g \in Generations : Evict(e, id, g)
       \/ WriteFrame(e) \/ EndpointCloses(e) \/ EndpointShutdown(e)
  \/ \E g \in Generations : RunSpawn(g) \/ RecordStep(g) \/ ChildDies(g) \/ FinalExpires(g)
  \/ ServerCloses \/ ServerShutdown

ProcSpec == ProcInit /\ [][ProcNext]_procVars

(* Tasks are scheduled and their timers fire; frames are written or dropped*)
(* (a guarded frame that is not ends its connection); a kicked connection  *)
(* is cleaned up; what was killed dies.                                    *)
KickedCloses(e) == ep[e].kicked /\ EndpointCloses(e)
KilledDies(g) == proc[g].child = "killed" /\ ChildDies(g)
ProcFairness ==
  /\ \A e \in Endpoints :
       WF_procVars(WriteFrame(e)) /\ WF_procVars(EndpointShutdown(e)) /\ WF_procVars(KickedCloses(e))
  /\ \A g \in Generations :
       /\ WF_procVars(RunSpawn(g)) /\ WF_procVars(RecordStep(g))
       /\ WF_procVars(KilledDies(g)) /\ WF_procVars(FinalExpires(g))
  /\ WF_procVars(ServerShutdown)

ProcLiveSpec == ProcSpec /\ ProcFairness

-----------------------------------------------------------------------------
(* Properties.                                                             *)

(* An id stays the process's until its last frame was written, and is given*)
(* back then: a bound slot has a binding to emit for, or a frame on its way*)
(* or being made, unless the connection is being ended.                    *)
IdsFollowTheWriter ==
  \A e \in Endpoints, id \in ProcessIds :
    LET s == ep[e].slots[id]
    IN  /\ s.kind = "bound" /\ ~ep[e].kicked =>
             \/ Binding(e, id) \in proc[s.g].bindings \cup proc[s.g].exits
             \/ \E i \in DOMAIN ep[e].queue : ep[e].queue[i].g = s.g /\ ep[e].queue[i].id = id
        /\ \A g \in Generations :
             Binding(e, id) \in proc[g].bindings \cup proc[g].exits /\ ep[e].stage = "open" =>
               s \in {PendingSlot(g), BoundSlot(g)}

(* Nothing outlives the server: when Server::shutdown returns every child  *)
(* is dead or was killed, and nothing is pending or live. The notice of a  *)
(* spawn that failed may still be on its way, and charged until then.      *)
NothingOutlivesTheServer ==
  srv.stage = "down" =>
    /\ \A g \in Generations : proc[g].child \in {"none", "killed", "dead"}
    /\ srv.live = {} /\ srv.pending = {}

(* Every place taken in the server's budget of generations is somebody's:  *)
(* a pending spawn, a live process, a result that is kept, or the notice of*)
(* a failure on its way. Whoever of a spawn, an endpoint and the server    *)
(* ends one first, it is given back once.                                  *)
FailuresOnTheirWay ==
  {g \in Generations : \E e \in Endpoints : \E i \in DOMAIN ep[e].queue :
     ep[e].queue[i].kind = "failed" /\ ep[e].queue[i].g = g}
Charged == srv.pending \cup srv.live \cup srv.finals \cup FailuresOnTheirWay

GenerationsAreCharged ==
  srv.generations = Cardinality(Charged) /\ srv.generations =< MaxGenerations

(* An ordinary child ends after its endpoint, whichever of the two won the *)
(* race, and both shutdowns return.                                        *)
OrdinaryChildrenEnd ==
  \A g \in Generations :
    (proc[g].child # "none" /\ ~proc[g].detachable /\ ep[proc[g].owner].stage # "open")
      ~> (proc[g].child = "dead" /\ proc[g].released)

ShutdownsReturn ==
  /\ \A e \in Endpoints : (ep[e].stage = "slots") ~> (ep[e].stage = "gone")
  /\ (srv.stage = "cancel") ~> (srv.stage = "down" /\ srv.generations = 0)
=============================================================================
