---------------------------- MODULE ProcessProofs ----------------------------
(***************************************************************************)
(* Proofs about native processes, for any endpoints, ids, limits and load. *)
(*                                                                         *)
(* Of ProcessLifecycle: an inductive invariant of the registry, and that   *)
(* ids follow the writer, that the budget of generations is exact and that *)
(* nothing outlives the server. Of ProcessStreams: stdin is one stream     *)
(* with one writer at a time, and every watch sees the output whole.       *)
(***************************************************************************)
EXTENDS ProcessLifecycle, ProcessStreams, SequenceTheorems, FiniteSetTheorems, TLAPS

-----------------------------------------------------------------------------
(* The registry: its inductive invariant.                                  *)

Stages == {"up", "cancel", "slots", "terminate", "finals", "down"}
AnySlot == {Free} \cup UNION {{PendingSlot(g), BoundSlot(g), ReplySlot(g)} : g \in Generations}
AnyFrame == [kind : {"failed", "unwatched", "reply", "exit"}, g : Generations, id : ProcessIds]
AnyWork == [slot : [kind : {"pending", "cancelled", "bound", "reply"}, g : Generations], id : ProcessIds]
AnyBinding == [e : Endpoints, id : ProcessIds]

SrvTypeOK ==
  /\ DOMAIN srv = {"accepting", "generations", "pending", "live", "finals", "stage", "todo",
                   "freeing", "waits", "mine"}
  /\ srv.accepting \in BOOLEAN /\ srv.generations \in Nat /\ srv.stage \in Stages
  /\ srv.pending \subseteq Generations /\ srv.live \subseteq Generations
  /\ srv.finals \subseteq Generations /\ srv.todo \subseteq Generations
  /\ srv.freeing \subseteq Generations /\ srv.mine \subseteq Generations
EpTypeOK(E) ==
  /\ DOMAIN E = {"accepting", "slots", "owned", "queue", "kicked", "stage", "work", "waits", "mine"}
  /\ E.accepting \in BOOLEAN /\ E.kicked \in BOOLEAN
  /\ E.stage \in {"open", "slots", "grace", "abort", "gone"}
  /\ E.slots \in [ProcessIds -> AnySlot]
  /\ E.queue \in Seq(AnyFrame)
  /\ E.work \subseteq AnyWork
ProcTypeOK(p) ==
  /\ DOMAIN p = DOMAIN NoProc
  /\ p.pc \in {"none", "queued", "active", "failing", "made", "bound", "unbound", "up", "ended"}
  /\ p.phase \in {"queued", "active", "done"}
  /\ p.lost \in BOOLEAN /\ p.completed \in BOOLEAN /\ p.detachable \in BOOLEAN /\ p.ownerAlive \in BOOLEAN
  /\ p.child \in {"none", "running", "termed", "killed", "dead"}
  /\ p.reaped \in BOOLEAN /\ p.io \in BOOLEAN /\ p.cleaned \in BOOLEAN /\ p.terminal \in BOOLEAN
  /\ p.publishing \in BOOLEAN /\ p.released \in BOOLEAN
  /\ p.bindings \subseteq AnyBinding /\ p.exits \subseteq AnyBinding
  /\ p.pc # "none" => p.owner \in Endpoints /\ p.id \in ProcessIds
ProcTypes ==
  /\ SrvTypeOK
  /\ DOMAIN ep = Endpoints /\ \A e \in Endpoints : EpTypeOK(ep[e])
  /\ DOMAIN proc = Generations /\ \A g \in Generations : ProcTypeOK(proc[g])

HasRecord == {"bound", "unbound", "up"}
Pendings == {"queued", "active", "failing", "made", "ended"}
Claimed(p) == p.pc \in {"active", "failing", "made"} \/ (p.pc = "queued" /\ p.phase = "queued")
Claims(p) == p.pc \in {"active", "made"} \/ (p.pc = "queued" /\ p.phase = "queued")

RunOK(p) ==
  /\ p.pc = "queued" => p.phase # "active"
  /\ p.pc \in {"active", "made"} => p.phase = "active"
  /\ p.pc \in {"failing", "bound", "unbound", "up", "ended"} => p.phase = "done"
  /\ p.pc \notin HasRecord \cup {"made"} => p.child = "none" /\ p.bindings = {}
  /\ p.pc = "made" => p.bindings \subseteq {Binding(p.owner, p.id)}
  /\ p.reaped => p.child = "dead" /\ p.pc = "up"
  /\ p.terminal => p.reaped /\ p.bindings = {}
  /\ p.publishing => p.terminal
  /\ ~p.publishing => p.exits = {}
  /\ p.released => p.pc \in HasRecord
  /\ \A b, c \in p.bindings \cup p.exits : b.e = c.e => b = c

PlaceOK(g, p, pending, live, finals, stage) ==
  /\ Claimed(p) => g \in pending /\ ~p.completed
  /\ p.completed => g \notin pending
  /\ g \in pending => p.pc \in Pendings
  /\ g \in live => p.pc \in HasRecord /\ ~p.released
  /\ p.pc \in HasRecord => g \in live \/ p.reaped \/ stage \in {"finals", "down"}
  /\ g \in finals => p.terminal /\ g \notin live

Places == \A g \in Generations :
  RunOK(proc[g]) /\ PlaceOK(g, proc[g], srv.pending, srv.live, srv.finals, srv.stage)

Cancelled(g) == g \in srv.pending /\ proc[g].phase = "done" /\ proc[g].pc \in {"queued", "ended"}
CancelsOK ==
  /\ srv.stage = "cancel" => \A g \in srv.freeing : Cancelled(g)
  /\ \A e \in Endpoints : \A w \in ep[e].work : 
      /\ w.slot.kind = "pending" => proc[w.slot.g].pc # "none"
      /\ w.slot.kind = "cancelled" => Cancelled(w.slot.g) /\ ~(srv.stage = "cancel" /\ w.slot.g \in srv.freeing)
  /\ \A e, f \in Endpoints : \A w \in ep[e].work, v \in ep[f].work :
       w.slot.kind = "cancelled" /\ v.slot.kind = "cancelled" /\ w.slot.g = v.slot.g => e = f /\ w = v

Over(p) == p.child \notin {"running", "termed"}
ShutOK ==
  /\ srv.accepting <=> srv.stage = "up"
  /\ srv.stage \in {"up", "slots"} => srv.freeing = {}
  /\ srv.stage = "cancel" => /\ srv.pending \subseteq srv.todo \cup srv.freeing \cup srv.waits
                             /\ \A g \in srv.todo : proc[g].pc # "none"
  /\ srv.stage \notin {"up", "cancel"} => srv.pending = {}
  /\ srv.stage \in {"slots", "terminate"} =>
       srv.live \subseteq srv.mine /\ \A g \in srv.mine : proc[g].pc \in HasRecord
  /\ srv.stage = "terminate" => /\ \A g \in srv.mine \ (srv.todo \cup srv.freeing) : Over(proc[g])
                                /\ \A g, h \in srv.freeing : g = h
  /\ srv.stage \in {"finals", "down"} => srv.live = {} /\ \A g \in Generations : Over(proc[g])

FreesId(f) == f.kind \in {"exit", "unwatched"}
FramesOK ==
  /\ \A e \in Endpoints : \A i \in DOMAIN ep[e].queue :
       LET f == ep[e].queue[i]
       IN  /\ f.kind = "failed" => proc[f.g].pc = "ended" /\ f.g \notin srv.pending
           /\ f.kind = "exit" => proc[f.g].terminal
  /\ \A e, d \in Endpoints : \A i \in DOMAIN ep[e].queue, j \in DOMAIN ep[d].queue :
       LET f == ep[e].queue[i]
           h == ep[d].queue[j]
       IN  f.kind = "failed" /\ h.kind = "failed" /\ f.g = h.g => e = d /\ i = j

Held(e, id, g) == Binding(e, id) \in proc[g].bindings \cup proc[g].exits
FreedBy(e, id, g, i) == FreesId(ep[e].queue[i]) /\ ep[e].queue[i].g = g /\ ep[e].queue[i].id = id
SlotOK(e, id) ==
  /\ \A g \in Generations :
       /\ ep[e].slots[id] = PendingSlot(g) =>
            proc[g].pc \in Pendings /\ proc[g].owner = e /\ proc[g].id = id
       /\ ep[e].slots[id] = BoundSlot(g) => proc[g].pc \in HasRecord
       /\ ep[e].slots[id] = BoundSlot(g) /\ ~ep[e].kicked =>
            Held(e, id, g) \/ \E i \in DOMAIN ep[e].queue : FreedBy(e, id, g, i)
       /\ ep[e].stage = "open" /\ Held(e, id, g) =>
            /\ ep[e].slots[id] \in {PendingSlot(g), BoundSlot(g)}
            /\ \A i \in DOMAIN ep[e].queue : ~FreedBy(e, id, g, i)
       /\ ep[e].stage = "open" /\ Claims(proc[g]) /\ proc[g].owner = e /\ proc[g].id = id =>
            ep[e].slots[id] = PendingSlot(g) /\ (proc[g].pc = "made" => Held(e, id, g))
       /\ \A i \in DOMAIN ep[e].queue :
            ep[e].stage = "open" /\ FreedBy(e, id, g, i) => ep[e].slots[id] = BoundSlot(g)
  /\ ep[e].stage = "open" => \A g, h \in Generations : \A i, j \in DOMAIN ep[e].queue :
       FreedBy(e, id, g, i) /\ FreedBy(e, id, h, j) => i = j
IdsOf(e) ==
  /\ ep[e].accepting <=> ep[e].stage = "open"
  /\ ep[e].stage = "open" => ep[e].work = {}
  /\ ep[e].stage # "open" => \A id \in ProcessIds : ep[e].slots[id] = Free
  /\ \A id \in ProcessIds : SlotOK(e, id)
SlotsOK == \A e \in Endpoints : IdsOf(e)

ProcInv ==
  /\ ProcTypes /\ Places /\ CancelsOK /\ ShutOK /\ FramesOK /\ SlotsOK
  /\ GenerationsAreCharged

-----------------------------------------------------------------------------
(* The handlers.                                                           *)

(* What the handlers do to the three parts of the state.                   *)
IsState(s) == DOMAIN s = {"srv", "ep", "proc"}

(* Now is a state of three parts, and a handler becomes them.              *)
LEMMA NowIs == /\ IsState(Now) /\ Now.srv = srv /\ Now.ep = ep /\ Now.proc = proc
               /\ \A s : Becomes(s) <=> srv' = s.srv /\ ep' = s.ep /\ proc' = s.proc
BY DEF Now, IsState, Becomes

(* Signals.                                                                *)
Termed(p) == [p EXCEPT !.child = IF @ = "running" THEN "termed" ELSE @]
Forced(p) == [p EXCEPT !.child = IF @ \in {"running", "termed"} THEN "killed" ELSE @]

(* terminate_group: one SIGTERM, to a child that runs.                     *)
LEMMA TerminateIs ==
  ASSUME NEW s, IsState(s), NEW g
  PROVE  LET t == Terminate(s, g)
         IN  /\ IsState(t) /\ t.srv = s.srv /\ t.ep = s.ep
             /\ t.proc = [s.proc EXCEPT ![g] = Termed(s.proc[g])]
BY DEF Terminate, Termed, IsState

(* force_kill: one SIGKILL, to a child that is not dead.                   *)
LEMMA ForceKillIs ==
  ASSUME NEW s, IsState(s), NEW g
  PROVE  LET t == ForceKill(s, g)
         IN  /\ IsState(t) /\ t.srv = s.srv /\ t.ep = s.ep
             /\ t.proc = [s.proc EXCEPT ![g] = Forced(s.proc[g])]
BY DEF ForceKill, Forced, IsState

(* A record whose child, tree and streams are done hands its bindings over.*)
Tried(p) ==
  IF p.reaped /\ p.cleaned /\ p.io /\ ~p.terminal
  THEN [p EXCEPT !.terminal = TRUE, !.exits = p.bindings, !.bindings = {}, !.publishing = TRUE]
  ELSE p

(* try_queue_terminal decides about one record.                            *)
LEMMA TryIs ==
  ASSUME NEW s, IsState(s), NEW g, s.proc = [s.proc EXCEPT ![g] = s.proc[g]]
  PROVE  LET t == TryQueueTerminal(s, g)
         IN  /\ IsState(t) /\ t.srv = s.srv /\ t.ep = s.ep
             /\ t.proc = [s.proc EXCEPT ![g] = Tried(s.proc[g])]
BY DEF TryQueueTerminal, Tried, IsState

(* abort_pipes ends the streams of one record and tries its end.           *)
LEMMA AbortPipesIs ==
  ASSUME NEW s, IsState(s), NEW g \in DOMAIN s.proc
  PROVE  LET t == AbortPipes(s, g)
         IN  /\ IsState(t) /\ t.srv = s.srv /\ t.ep = s.ep
             /\ t.proc = [s.proc EXCEPT ![g] = Tried([s.proc[g] EXCEPT !.io = TRUE])]
<1> DEFINE r == [s EXCEPT !.proc[g].io = TRUE]
<1>1. /\ IsState(r) /\ r.srv = s.srv /\ r.ep = s.ep
      /\ r.proc = [s.proc EXCEPT ![g].io = TRUE]
  BY DEF IsState
<1>2. r.proc = [r.proc EXCEPT ![g] = r.proc[g]] /\ r.proc[g] = [s.proc[g] EXCEPT !.io = TRUE]
  BY <1>1
<1> HIDE DEF r
<1>3. LET t == TryQueueTerminal(r, g)
      IN  /\ IsState(t) /\ t.srv = r.srv /\ t.ep = r.ep
          /\ t.proc = [r.proc EXCEPT ![g] = Tried(r.proc[g])]
  BY <1>1, <1>2, TryIs, ZenonT(60)
<1>4. [r.proc EXCEPT ![g] = Tried(r.proc[g])] = [s.proc EXCEPT ![g] = Tried([s.proc[g] EXCEPT !.io = TRUE])]
  BY <1>1, <1>2
<1>5. AbortPipes(s, g) = TryQueueTerminal(r, g)
  BY DEF AbortPipes, r
<1>. QED BY <1>1, <1>3, <1>4, <1>5

(* release_pending gives back the place and the id.                        *)
LEMMA ReleasePendingIs ==
  ASSUME NEW s, IsState(s), NEW g
  PROVE  LET t == ReleasePending(s, g, FALSE)
             p == s.proc[g]
         IN  /\ IsState(t) /\ t.proc = s.proc
             /\ t.srv = [s.srv EXCEPT !.pending = @ \ {g}, !.generations = Less(@, 1)]
             /\ t.ep = [s.ep EXCEPT ![p.owner].slots[p.id] = IF @ = PendingSlot(g) THEN Free ELSE @]
BY DEF ReleasePending, IsState

(* release_pending, when the failure notice keeps both.                    *)
LEMMA KeepPendingIs ==
  ASSUME NEW s, IsState(s), NEW g
  PROVE  LET t == ReleasePending(s, g, TRUE)
             p == s.proc[g]
         IN  /\ IsState(t) /\ t.proc = s.proc
             /\ t.srv = [s.srv EXCEPT !.pending = @ \ {g}]
             /\ t.ep = [s.ep EXCEPT ![p.owner].slots[p.id] = @]
BY DEF ReleasePending, IsState

(* mark_completed changes one flag of one spawn.                           *)
LEMMA MarkCompletedIs ==
  ASSUME NEW s, IsState(s), NEW g
  PROVE  LET t == MarkCompleted(s, g)
         IN  /\ IsState(t) /\ t.srv = s.srv /\ t.ep = s.ep
             /\ t.proc = [s.proc EXCEPT ![g].completed = TRUE]
BY DEF MarkCompleted, IsState

(* remove_bound_slot frees one id if it is the process's.                  *)
LEMMA RemoveBoundSlotIs ==
  ASSUME NEW s, IsState(s), NEW e, NEW id, NEW g
  PROVE  LET t == RemoveBoundSlot(s, e, id, g)
         IN  /\ IsState(t) /\ t.srv = s.srv /\ t.proc = s.proc
             /\ t.ep = [s.ep EXCEPT ![e].slots[id] = IF @ = BoundSlot(g) THEN Free ELSE @]
BY DEF RemoveBoundSlot, IsState

(* A frame is queued last.                                                 *)
LEMMA QueueIs ==
  ASSUME NEW s, IsState(s), NEW e, NEW kind, NEW g, NEW id
  PROVE  LET t == Queue(s, e, kind, g, id)
         IN  /\ IsState(t) /\ t.srv = s.srv /\ t.proc = s.proc
             /\ t.ep = [s.ep EXCEPT ![e].queue = Append(@, [kind |-> kind, g |-> g, id |-> id])]
BY DEF Queue, IsState

(* release_record forgets the records that were not released.              *)
LEMMA ReleaseRecordsIs ==
  ASSUME NEW s, IsState(s), NEW gs
  PROVE  LET t == ReleaseRecords(s, gs)
             due == {g \in gs : ~s.proc[g].released}
         IN  /\ IsState(t)
             /\ t.proc = [g \in Generations |-> [s.proc[g] EXCEPT !.released = @ \/ g \in due]]
             /\ t.srv = [s.srv EXCEPT !.generations = Less(@, Cardinality(due \cap s.srv.live)),
                                      !.live = @ \ due]
             /\ t.ep = [e \in Endpoints |-> [s.ep[e] EXCEPT !.owned = @ \ due]]
BY DEF ReleaseRecords, IsState

(* finish_detached keeps the result in the place of the process.           *)
LEMMA FinishDetachedIs ==
  ASSUME NEW s, IsState(s), NEW g
  PROVE  LET t == FinishDetached(s, g)
         IN  /\ IsState(t) /\ t.proc = s.proc /\ t.ep = s.ep
             /\ t.srv = IF s.proc[g].released \/ g \notin s.srv.live THEN s.srv
                        ELSE [s.srv EXCEPT !.live = @ \ {g}, !.finals = @ \cup {g}]
BY DEF FinishDetached, IsState

(* Each endpoint with a binding is sent the exit, once.                    *)
LEMMA QueueExitsIs ==
  ASSUME NEW s, IsState(s), NEW g, NEW exits
  PROVE  LET t == QueueExits(s, g, exits)
         IN  /\ IsState(t) /\ t.srv = s.srv /\ t.proc = s.proc
             /\ t.ep = [e \in Endpoints |-> [s.ep[e] EXCEPT !.queue =
                  IF \E b \in exits : b.e = e
                  THEN Append(@, [kind |-> "exit", g |-> g, id |-> (CHOOSE b \in exits : b.e = e).id])
                  ELSE @]]
BY DEF QueueExits, IsState

(* release_record_endpoint_slots frees the ids of the bindings.            *)
LEMMA RemoveBoundSlotsIs ==
  ASSUME NEW s, IsState(s), NEW g
  PROVE  LET t == RemoveBoundSlots(s, g)
         IN  /\ IsState(t) /\ t.srv = s.srv /\ t.proc = s.proc
             /\ t.ep = [e \in Endpoints |-> [s.ep[e] EXCEPT !.slots =
                  [i \in ProcessIds |->
                     IF Binding(e, i) \in s.proc[g].bindings /\ s.ep[e].slots[i] = BoundSlot(g) THEN Free
                     ELSE s.ep[e].slots[i]]]]
BY DEF RemoveBoundSlots, IsState

-----------------------------------------------------------------------------
(* What a step of a record's tasks, or a signal, may change of it.         *)
QuietRun(p, q) ==
  /\ q.owner = p.owner /\ q.id = p.id /\ q.phase = p.phase
  /\ q.completed = p.completed /\ q.released = p.released
  /\ q.pc = p.pc \/ {p.pc, q.pc} \subseteq HasRecord
  /\ q.bindings \cup q.exits = p.bindings \cup p.exits
  /\ p.reaped => q.reaped
  /\ p.terminal => q.terminal
  /\ Over(p) => Over(q)
  /\ ProcTypeOK(q) /\ RunOK(q)

(* Steps that are quiet for every record move none of them.                *)
LEMMA PlacesStay ==
  ASSUME ProcTypes, Places, \A g \in Generations : QuietRun(proc[g], proc'[g]),
         srv'.pending = srv.pending, srv'.live = srv.live, srv'.finals = srv.finals,
         srv.stage \in {"finals", "down"} => srv'.stage \in {"finals", "down"}
  PROVE  Places'
BY DEF ProcTypes, ProcTypeOK, Places, PlaceOK, QuietRun, Claimed, HasRecord, Pendings

(* Nobody is added to those who cancel spawns.                             *)
LEMMA CancelsStay ==
  ASSUME CancelsOK,
         \A g \in Generations : Cancelled(g) => Cancelled(g)',
         \A g \in Generations : proc[g].pc # "none" => proc'[g].pc # "none",
         srv'.stage = "cancel" => \A g \in srv'.freeing : srv.stage = "cancel" /\ g \in srv.freeing,
         srv.freeing \subseteq Generations,
         \A e \in Endpoints : ep[e].work \subseteq AnyWork /\ ep'[e].work \subseteq ep[e].work
  PROVE  CancelsOK'
<1>1. \A e \in Endpoints : \A w \in ep[e].work : w.slot.g \in Generations
  BY DEF AnyWork
<1>2. srv'.stage = "cancel" => \A g \in srv'.freeing : Cancelled(g)'
  BY DEF CancelsOK
<1>3. ASSUME NEW e \in Endpoints, NEW w \in ep'[e].work
      PROVE  /\ w.slot.kind = "pending" => proc'[w.slot.g].pc # "none"
             /\ w.slot.kind = "cancelled" =>
                  Cancelled(w.slot.g)' /\ ~(srv'.stage = "cancel" /\ w.slot.g \in srv'.freeing)
  BY <1>1 DEF CancelsOK
<1>4. \A e, f \in Endpoints : \A w \in ep'[e].work, v \in ep'[f].work :
       w.slot.kind = "cancelled" /\ v.slot.kind = "cancelled" /\ w.slot.g = v.slot.g => e = f /\ w = v
  BY DEF CancelsOK
<1>. QED BY <1>2, <1>3, <1>4 DEF CancelsOK

(* A server that does not move keeps what its stage says.                  *)
LEMMA ShutStay ==
  ASSUME ShutOK, srv' = srv,
         srv.mine \subseteq Generations, srv.todo \subseteq Generations,
         \A g \in Generations : Over(proc[g]) => Over(proc'[g]),
         \A g \in Generations : proc[g].pc \in HasRecord => proc'[g].pc \in HasRecord,
         \A g \in Generations : proc[g].pc # "none" => proc'[g].pc # "none"
  PROVE  ShutOK'
BY DEF ShutOK

(* What the queued frames say, one frame and one pair of frames at a time. *)
LEMMA FrameFacts ==
  ASSUME FramesOK, NEW e \in Endpoints, NEW i \in DOMAIN ep[e].queue
  PROVE  /\ ep[e].queue[i].kind = "failed" =>
              proc[ep[e].queue[i].g].pc = "ended" /\ ep[e].queue[i].g \notin srv.pending
         /\ ep[e].queue[i].kind = "exit" => proc[ep[e].queue[i].g].terminal
BY DEF FramesOK

LEMMA FailureOnce ==
  ASSUME FramesOK, NEW e \in Endpoints, NEW d \in Endpoints,
         NEW i \in DOMAIN ep[e].queue, NEW j \in DOMAIN ep[d].queue,
         ep[e].queue[i].kind = "failed", ep[d].queue[j].kind = "failed",
         ep[e].queue[i].g = ep[d].queue[j].g
  PROVE  e = d /\ i = j
BY DEF FramesOK

(* And how a step establishes them.                                        *)
LEMMA FramesAre ==
  ASSUME \A e \in Endpoints : \A i \in DOMAIN ep'[e].queue :
           /\ ep'[e].queue[i].kind = "failed" =>
                proc'[ep'[e].queue[i].g].pc = "ended" /\ ep'[e].queue[i].g \notin srv'.pending
           /\ ep'[e].queue[i].kind = "exit" => proc'[ep'[e].queue[i].g].terminal,
         \A e, d \in Endpoints : \A i \in DOMAIN ep'[e].queue, j \in DOMAIN ep'[d].queue :
           ep'[e].queue[i].kind = "failed" /\ ep'[d].queue[j].kind = "failed"
             /\ ep'[e].queue[i].g = ep'[d].queue[j].g => e = d /\ i = j
  PROVE  FramesOK'
BY DEF FramesOK

(* Queues that do not change stand for what they stood for.                *)
LEMMA FramesStay ==
  ASSUME FramesOK, srv'.pending \subseteq srv.pending,
         \A e \in Endpoints : ep[e].queue \in Seq(AnyFrame) /\ ep'[e].queue = ep[e].queue,
         \A g \in Generations : proc[g].pc = "ended" => proc'[g].pc = "ended",
         \A g \in Generations : proc[g].terminal => proc'[g].terminal
  PROVE  FramesOK'
<1>1. ASSUME NEW e \in Endpoints, NEW i \in DOMAIN ep'[e].queue
      PROVE  /\ ep'[e].queue[i].kind = "failed" =>
                  proc'[ep'[e].queue[i].g].pc = "ended" /\ ep'[e].queue[i].g \notin srv'.pending
             /\ ep'[e].queue[i].kind = "exit" => proc'[ep'[e].queue[i].g].terminal
  <2>1. i \in DOMAIN ep[e].queue /\ ep'[e].queue[i] = ep[e].queue[i]
    OBVIOUS
  <2>2. ep[e].queue[i] \in AnyFrame
    BY <2>1
  <2>3. ep[e].queue[i].g \in Generations
    BY <2>2 DEF AnyFrame
  <2>. QED BY <2>1, <2>3, FrameFacts
<1>2. ASSUME NEW e \in Endpoints, NEW d \in Endpoints,
             NEW i \in DOMAIN ep'[e].queue, NEW j \in DOMAIN ep'[d].queue,
             ep'[e].queue[i].kind = "failed", ep'[d].queue[j].kind = "failed",
             ep'[e].queue[i].g = ep'[d].queue[j].g
      PROVE  e = d /\ i = j
  <2>1. /\ i \in DOMAIN ep[e].queue /\ ep'[e].queue[i] = ep[e].queue[i]
        /\ j \in DOMAIN ep[d].queue /\ ep'[d].queue[j] = ep[d].queue[j]
    OBVIOUS
  <2>. QED BY <1>2, <2>1, FailureOnce
<1>. QED BY <1>1, <1>2, FramesAre

(* The ids of an endpoint, while nothing it holds or claims changes hands. *)
SameEnds(p, q) ==
  /\ q.owner = p.owner /\ q.id = p.id
  /\ q.bindings \cup q.exits = p.bindings \cup p.exits
  /\ Claims(q) => Claims(p)
  /\ q.pc = "made" => p.pc = "made"
  /\ p.pc \in HasRecord => q.pc \in HasRecord
  /\ p.pc \in Pendings => q.pc \in Pendings

(* Ids that nothing touches stay whose they are.                           *)
LEMMA IdsStay ==
  ASSUME NEW e \in Endpoints, IdsOf(e),
         \A g \in Generations : SameEnds(proc[g], proc'[g]),
         ep'[e].accepting = ep[e].accepting, ep'[e].slots = ep[e].slots,
         ep'[e].queue = ep[e].queue,
         ep'[e].stage = "open" <=> ep[e].stage = "open", ep[e].kicked => ep'[e].kicked,
         ep'[e].work \subseteq ep[e].work
  PROVE  IdsOf(e)'
<1>1. \A id \in ProcessIds, g \in Generations : Held(e, id, g)' <=> Held(e, id, g)
  BY DEF Held, SameEnds
<1>2. \A id, g, i : FreedBy(e, id, g, i)' <=> FreedBy(e, id, g, i)
  BY DEF FreedBy
<1>3. ASSUME NEW id \in ProcessIds PROVE SlotOK(e, id)'
  BY <1>1, <1>2 DEF IdsOf, SlotOK, SameEnds
<1>. QED BY <1>3 DEF IdsOf

(* A quiet step keeps the ends of a record.                                *)
LEMMA QuietIsSame == ASSUME NEW p, NEW q, QuietRun(p, q) PROVE SameEnds(p, q)
BY DEF QuietRun, SameEnds, Claims, HasRecord, Pendings

(* The budget is exact while none of its parts changes.                    *)
LEMMA ChargesStay ==
  ASSUME GenerationsAreCharged, srv'.generations = srv.generations,
         srv'.pending = srv.pending, srv'.live = srv.live, srv'.finals = srv.finals,
         \A e \in Endpoints : ep'[e].queue = ep[e].queue
  PROVE  GenerationsAreCharged'
<1>1. FailuresOnTheirWay' = FailuresOnTheirWay
  BY DEF FailuresOnTheirWay
<1>. QED BY <1>1 DEF GenerationsAreCharged, Charged

(* A step that is quiet for every record and touches no id.                *)
LEMMA QuietStep ==
  ASSUME ProcInv, srv' = srv, DOMAIN ep' = Endpoints, DOMAIN proc' = Generations,
         \A g \in Generations : QuietRun(proc[g], proc'[g]),
         \A e \in Endpoints :
           /\ EpTypeOK(ep'[e]) /\ ep'[e].work \subseteq ep[e].work
           /\ ep'[e].accepting = ep[e].accepting /\ ep'[e].slots = ep[e].slots
           /\ ep'[e].queue = ep[e].queue /\ ep'[e].kicked = ep[e].kicked
           /\ ep'[e].stage = "open" <=> ep[e].stage = "open"
  PROVE  ProcInv'
<1>1. ProcTypes'
  BY DEF ProcInv, ProcTypes, SrvTypeOK, QuietRun
<1>2. Places'
  BY PlacesStay DEF ProcInv
<1>3. \A g \in Generations :
        /\ Cancelled(g) => Cancelled(g)'
        /\ proc[g].pc # "none" => proc'[g].pc # "none"
        /\ Over(proc[g]) => Over(proc'[g])
        /\ proc[g].pc \in HasRecord => proc'[g].pc \in HasRecord
        /\ proc[g].pc = "ended" => proc'[g].pc = "ended"
        /\ proc[g].terminal => proc'[g].terminal
  BY DEF QuietRun, Cancelled, HasRecord
<1>4. CancelsOK'
  <2>1. \A e \in Endpoints : ep[e].work \subseteq AnyWork /\ ep'[e].work \subseteq ep[e].work
    BY DEF ProcInv, ProcTypes, EpTypeOK
  <2>. QED BY <1>3, <2>1, CancelsStay DEF ProcInv, ProcTypes, SrvTypeOK
<1>5. ShutOK'
  BY <1>3, ShutStay DEF ProcInv, ProcTypes, SrvTypeOK
<1>6. FramesOK'
  <2>1. \A e \in Endpoints : ep[e].queue \in Seq(AnyFrame) /\ ep'[e].queue = ep[e].queue
    BY DEF ProcInv, ProcTypes, EpTypeOK
  <2>. QED BY <1>3, <2>1, FramesStay DEF ProcInv
<1>7. SlotsOK'
  <2>. SUFFICES ASSUME NEW e \in Endpoints PROVE IdsOf(e)'
    BY DEF SlotsOK
  <2>1. \A g \in Generations : SameEnds(proc[g], proc'[g])
    BY QuietIsSame
  <2>. QED BY <2>1, IdsStay DEF ProcInv, SlotsOK
<1>8. GenerationsAreCharged'
  BY ChargesStay DEF ProcInv
<1>. QED BY <1>1, <1>2, <1>4, <1>5, <1>6, <1>7, <1>8 DEF ProcInv

(* A step of one record that is quiet.                                     *)
LEMMA QuietOne ==
  ASSUME ProcInv, srv' = srv, ep' = ep, NEW g \in Generations, NEW q,
         proc' = [proc EXCEPT ![g] = q], QuietRun(proc[g], q)
  PROVE  ProcInv'
<1>1. \A h \in Generations : QuietRun(proc[h], proc[h])
  BY DEF ProcInv, ProcTypes, Places, QuietRun
<1>2. DOMAIN proc' = Generations /\ proc'[g] = q /\ \A h \in Generations \ {g} : proc'[h] = proc[h]
  BY DEF ProcInv, ProcTypes
<1>3. \A h \in Generations : QuietRun(proc[h], proc'[h])
  BY <1>1, <1>2
<1>4. \A e \in Endpoints : EpTypeOK(ep'[e])
  BY DEF ProcInv, ProcTypes, EpTypeOK
<1>5. DOMAIN ep' = Endpoints
  BY DEF ProcInv, ProcTypes
<1>. QED BY <1>3, <1>4, <1>5, <1>2, QuietStep

(* A record that hands its bindings over still has them, as exits.         *)
LEMMA TriedIsQuiet ==
  ASSUME NEW p, ProcTypeOK(p), RunOK(p)
  PROVE  QuietRun(p, Tried(p))
<1>1. CASE ~(p.reaped /\ p.cleaned /\ p.io /\ ~p.terminal)
  BY <1>1 DEF Tried, QuietRun
<1>2. CASE p.reaped /\ p.cleaned /\ p.io /\ ~p.terminal
  <2> DEFINE q == Tried(p)
  <2>1. q = [p EXCEPT !.terminal = TRUE, !.exits = p.bindings, !.bindings = {}, !.publishing = TRUE]
    BY <1>2 DEF Tried
  <2>2. /\ q.owner = p.owner /\ q.id = p.id /\ q.phase = p.phase /\ q.pc = p.pc /\ q.child = p.child
        /\ q.completed = p.completed /\ q.released = p.released /\ q.reaped = p.reaped
        /\ q.lost = p.lost /\ q.detachable = p.detachable /\ q.ownerAlive = p.ownerAlive
        /\ q.io = p.io /\ q.cleaned = p.cleaned
        /\ q.terminal = TRUE /\ q.publishing = TRUE /\ q.exits = p.bindings /\ q.bindings = {}
        /\ DOMAIN q = DOMAIN p
    BY <2>1 DEF ProcTypeOK, NoProc
  <2>3. p.exits = {}
    BY <1>2 DEF RunOK, ProcTypeOK
  <2> HIDE DEF q
  <2>4. ProcTypeOK(q)
    BY <2>2 DEF ProcTypeOK
  <2>5. RunOK(q)
    BY <1>2, <2>2, <2>3 DEF RunOK, HasRecord
  <2>6. QuietRun(p, q)
    BY <2>2, <2>3, <2>4, <2>5 DEF QuietRun, Over
  <2>. QED BY <2>6 DEF q
<1>. QED BY <1>1, <1>2

(* Quiet steps compose.                                                    *)
LEMMA QuietTwice ==
  ASSUME NEW p, NEW q, NEW r, QuietRun(p, q), QuietRun(q, r) PROVE QuietRun(p, r)
BY DEF QuietRun

(* The edits that the steps of a record make.                              *)
LEMMA ChildEditIsQuiet ==
  ASSUME NEW p, ProcTypeOK(p), RunOK(p), NEW c \in {"none", "running", "termed", "killed", "dead"},
         p.child = "none" <=> c = "none", p.child = "dead" => c = "dead", Over(p) => c \notin {"running", "termed"}
  PROVE  QuietRun(p, [p EXCEPT !.child = c])
<1> DEFINE q == [p EXCEPT !.child = c]
<1>1. /\ q.owner = p.owner /\ q.id = p.id /\ q.phase = p.phase /\ q.pc = p.pc /\ q.child = c
      /\ q.completed = p.completed /\ q.released = p.released /\ q.reaped = p.reaped
      /\ q.lost = p.lost /\ q.detachable = p.detachable /\ q.ownerAlive = p.ownerAlive
      /\ q.io = p.io /\ q.cleaned = p.cleaned
      /\ q.terminal = p.terminal /\ q.publishing = p.publishing /\ q.exits = p.exits
      /\ q.bindings = p.bindings /\ DOMAIN q = DOMAIN p
  BY DEF ProcTypeOK, NoProc
<1> HIDE DEF q
<1>2. ProcTypeOK(q)
  BY <1>1 DEF ProcTypeOK
<1>3. RunOK(q)
  BY <1>1 DEF RunOK, HasRecord
<1>4. QuietRun(p, q)
  BY <1>1, <1>2, <1>3 DEF QuietRun, Over
<1>. QED BY <1>4 DEF q

(* Setting a flag of a record is quiet.                                    *)
LEMMA FlagEditIsQuiet ==
  ASSUME NEW p, ProcTypeOK(p), RunOK(p), NEW q,
         \/ q = [p EXCEPT !.io = TRUE]
         \/ q = [p EXCEPT !.cleaned = TRUE, !.io = TRUE]
         \/ \E b \in BOOLEAN : q = [p EXCEPT !.timer = b]
         \/ q = [p EXCEPT !.lost = TRUE]
         \/ p.child = "dead" /\ p.pc = "up" /\ q = [p EXCEPT !.reaped = TRUE]
         \/ p.pc \in {"bound", "unbound"} /\ \E b \in BOOLEAN : q = [p EXCEPT !.pc = "up", !.timer = b]
  PROVE  QuietRun(p, q)
<1>1. /\ q.owner = p.owner /\ q.id = p.id /\ q.phase = p.phase /\ q.child = p.child
      /\ q.completed = p.completed /\ q.released = p.released
      /\ q.detachable = p.detachable /\ q.ownerAlive = p.ownerAlive
      /\ q.terminal = p.terminal /\ q.publishing = p.publishing /\ q.exits = p.exits
      /\ q.bindings = p.bindings /\ DOMAIN q = DOMAIN p
      /\ q.io \in BOOLEAN /\ q.cleaned \in BOOLEAN /\ q.lost \in BOOLEAN
  BY ZenonT(60) DEF ProcTypeOK, NoProc
<1>2. \/ q.pc = p.pc /\ q.reaped = p.reaped
      \/ q.pc = p.pc /\ p.child = "dead" /\ p.pc = "up" /\ q.reaped = TRUE
      \/ q.pc = "up" /\ p.pc \in {"bound", "unbound"} /\ q.reaped = p.reaped
  BY DEF ProcTypeOK, NoProc
<1>3. ProcTypeOK(q)
  BY <1>1, <1>2 DEF ProcTypeOK
<1>4. RunOK(q)
  <2>1. p.reaped => q.reaped /\ q.pc = "up"
    BY <1>1, <1>2 DEF RunOK
  <2>2. q.reaped => q.child = "dead" /\ q.pc = "up"
    BY <1>1, <1>2 DEF RunOK
  <2>3. q.pc = p.pc \/ {p.pc, q.pc} \subseteq HasRecord
    BY <1>2 DEF HasRecord
  <2>. QED BY <1>1, <2>1, <2>2, <2>3 DEF RunOK, HasRecord
<1>5. p.reaped => q.reaped
  BY <1>2
<1>. QED BY <1>1, <1>2, <1>3, <1>4, <1>5 DEF QuietRun, Over, HasRecord

(* Signals are quiet, and SIGKILL is the end.                              *)
LEMMA SignalsAreQuiet ==
  ASSUME NEW p, ProcTypeOK(p), RunOK(p)
  PROVE  QuietRun(p, Termed(p)) /\ QuietRun(p, Forced(p)) /\ Over(Forced(p))
<1>1. QuietRun(p, Termed(p))
  <2>1. CASE p.child = "running"
    <3>1. Termed(p) = [p EXCEPT !.child = "termed"]
      BY <2>1 DEF Termed
    <3>. QED BY <2>1, <3>1, ChildEditIsQuiet DEF Over
  <2>2. CASE p.child # "running"
    <3>1. Termed(p) = [p EXCEPT !.child = @]
      BY <2>2 DEF Termed
    <3>2. p.child \in {"none", "running", "termed", "killed", "dead"}
      BY DEF ProcTypeOK
    <3>. QED BY <2>2, <3>1, <3>2, ChildEditIsQuiet DEF Over
  <2>. QED BY <2>1, <2>2
<1>2. QuietRun(p, Forced(p))
  <2>1. CASE p.child \in {"running", "termed"}
    <3>1. Forced(p) = [p EXCEPT !.child = "killed"]
      BY <2>1 DEF Forced
    <3>. QED BY <2>1, <3>1, ChildEditIsQuiet DEF Over
  <2>2. CASE p.child \notin {"running", "termed"}
    <3>1. Forced(p) = [p EXCEPT !.child = @]
      BY <2>2 DEF Forced
    <3>2. p.child \in {"none", "running", "termed", "killed", "dead"}
      BY DEF ProcTypeOK
    <3>. QED BY <2>2, <3>1, <3>2, ChildEditIsQuiet DEF Over
  <2>. QED BY <2>1, <2>2
<1>3. Over(Forced(p))
  BY DEF Forced, Over, ProcTypeOK, NoProc
<1>. QED BY <1>1, <1>2, <1>3

-----------------------------------------------------------------------------
(* The steps of a record, of its child, and signals.                       *)

(* The invariant of one record.                                            *)
LEMMA RecordsOK ==
  ASSUME ProcInv, NEW g \in Generations
  PROVE  ProcTypeOK(proc[g]) /\ RunOK(proc[g]) /\ g \in DOMAIN proc /\ DOMAIN proc = Generations
BY DEF ProcInv, ProcTypes, Places

(* The child, its tasks and the gate move nothing but a record.            *)
LEMMA QuietActions ==
  ASSUME ProcInv, NEW g \in Generations,
         ChildDies(g) \/ Reap(g) \/ IoEnds(g) \/ ResidualCleanup(g) \/ TerminateTimeout(g) \/ OpenGate(g)
  PROVE  ProcInv'
<1> DEFINE p == proc[g]
<1>0. ProcTypeOK(p) /\ RunOK(p) /\ g \in DOMAIN proc
  BY RecordsOK
<1>s. srv' = srv /\ ep' = ep => \A q : proc' = [proc EXCEPT ![g] = q] /\ QuietRun(p, q) => ProcInv'
  BY QuietOne
<1>1. CASE ChildDies(g)
  <2>1. proc' = [proc EXCEPT ![g] = [p EXCEPT !.child = "dead"]] /\ srv' = srv /\ ep' = ep
    BY <1>1 DEF ChildDies
  <2>2. p.child # "none"
    BY <1>1 DEF ChildDies
  <2>3. QuietRun(p, [p EXCEPT !.child = "dead"])
    BY <1>0, <2>2, ChildEditIsQuiet
  <2>. QED BY <1>s, <2>1, <2>3
<1>2. CASE Reap(g)
  <2>1. proc' = [proc EXCEPT ![g] = [p EXCEPT !.reaped = TRUE]] /\ srv' = srv /\ ep' = ep
        /\ p.child = "dead" /\ p.pc = "up"
    BY <1>2 DEF Reap
  <2>2. QuietRun(p, [p EXCEPT !.reaped = TRUE])
    BY <1>0, <2>1, FlagEditIsQuiet
  <2>. QED BY <1>s, <2>1, <2>2
<1>3. CASE IoEnds(g)
  <2>1. Becomes(AbortPipes(Now, g))
    BY <1>3 DEF IoEnds, AbortPipes
  <2>2. srv' = srv /\ ep' = ep /\ proc' = [proc EXCEPT ![g] = Tried([p EXCEPT !.io = TRUE])]
    <3>1. /\ AbortPipes(Now, g).srv = Now.srv /\ AbortPipes(Now, g).ep = Now.ep
          /\ AbortPipes(Now, g).proc = [Now.proc EXCEPT ![g] = Tried([Now.proc[g] EXCEPT !.io = TRUE])]
      <4>1. IsState(Now) /\ g \in DOMAIN Now.proc
        BY <1>0, NowIs
      <4>. QED BY <4>1, AbortPipesIs
    <3>2. Now.srv = srv /\ Now.ep = ep /\ Now.proc = proc
      BY NowIs, ZenonT(60)
    <3>3. srv' = AbortPipes(Now, g).srv /\ ep' = AbortPipes(Now, g).ep /\ proc' = AbortPipes(Now, g).proc
      BY <2>1, ZenonT(60) DEF Becomes
    <3>. QED BY <3>1, <3>2, <3>3
  <2>3. QuietRun(p, [p EXCEPT !.io = TRUE])
    BY <1>0, FlagEditIsQuiet
  <2>4. QuietRun([p EXCEPT !.io = TRUE], Tried([p EXCEPT !.io = TRUE]))
    BY <2>3, TriedIsQuiet DEF QuietRun
  <2>. QED BY <1>s, <2>2, <2>3, <2>4, QuietTwice
<1>4. CASE ResidualCleanup(g)
  <2> DEFINE s == [Now EXCEPT !.proc[g].cleaned = TRUE, !.proc[g].io = TRUE]
             q == [p EXCEPT !.cleaned = TRUE, !.io = TRUE]
  <2>1. Becomes(TryQueueTerminal(s, g))
    BY <1>4 DEF ResidualCleanup
  <2>2. IsState(s) /\ s.srv = srv /\ s.ep = ep /\ s.proc = [proc EXCEPT ![g] = q]
    BY <1>0, NowIs DEF IsState
  <2>3. s.proc[g] = q /\ s.proc = [s.proc EXCEPT ![g] = s.proc[g]]
    BY <1>0, <2>2
  <2> HIDE DEF s
  <2>4. TryQueueTerminal(s, g).srv = srv /\ TryQueueTerminal(s, g).ep = ep
        /\ TryQueueTerminal(s, g).proc = [s.proc EXCEPT ![g] = Tried(q)]
    <3>1. /\ TryQueueTerminal(s, g).srv = s.srv /\ TryQueueTerminal(s, g).ep = s.ep
          /\ TryQueueTerminal(s, g).proc = [s.proc EXCEPT ![g] = Tried(s.proc[g])]
      <4>1. IsState(s)
        BY <2>2
      <4>. QED BY <4>1, <2>3, TryIs
    <3>. QED BY <2>2, <2>3, <3>1
  <2>5. [s.proc EXCEPT ![g] = Tried(q)] = [proc EXCEPT ![g] = Tried(q)]
    BY <2>2
  <2>6. QuietRun(p, q)
    BY <1>0, FlagEditIsQuiet
  <2>7. QuietRun(q, Tried(q))
    BY <2>6, TriedIsQuiet DEF QuietRun
  <2>. QED BY <1>s, <2>1, <2>4, <2>5, <2>6, <2>7, NowIs, QuietTwice
<1>5. CASE TerminateTimeout(g)
  <2> DEFINE s == [Now EXCEPT !.proc[g].timer = FALSE]
             q == [p EXCEPT !.timer = FALSE]
  <2>1. Becomes(IF proc[g].reaped \/ proc[g].terminal THEN s ELSE ForceKill(s, g))
    BY <1>5 DEF TerminateTimeout
  <2>2. IsState(s) /\ s.srv = srv /\ s.ep = ep /\ s.proc = [proc EXCEPT ![g] = q]
    BY <1>0, NowIs DEF IsState
  <2>3. s.proc[g] = q
    BY <1>0, <2>2
  <2> HIDE DEF s
  <2>4. QuietRun(p, q)
    BY <1>0, FlagEditIsQuiet
  <2> HIDE DEF q
  <2>5. QuietRun(q, Forced(q))
    BY <2>4, SignalsAreQuiet DEF QuietRun
  <2>6. CASE proc[g].reaped \/ proc[g].terminal
    BY <1>s, <2>1, <2>2, <2>4, <2>6, NowIs
  <2>7. CASE ~(proc[g].reaped \/ proc[g].terminal)
    <3>1. ForceKill(s, g).srv = srv /\ ForceKill(s, g).ep = ep
          /\ ForceKill(s, g).proc = [s.proc EXCEPT ![g] = Forced(q)]
      BY <2>2, <2>3, ForceKillIs, ZenonT(60)
    <3>2. [s.proc EXCEPT ![g] = Forced(q)] = [proc EXCEPT ![g] = Forced(q)]
      BY <2>2
    <3>. QED BY <1>s, <2>1, <2>4, <2>5, <2>7, <3>1, <3>2, NowIs, QuietTwice
  <2>. QED BY <2>6, <2>7
<1>6. CASE OpenGate(g)
  <2> DEFINE orphan == proc[g].pc = "unbound" /\ ~proc[g].detachable
             s == [Now EXCEPT !.proc[g].pc = "up", !.proc[g].timer = orphan]
             q == [p EXCEPT !.pc = "up", !.timer = orphan]
  <2>1. Becomes(IF orphan THEN Terminate(s, g) ELSE s) /\ p.pc \in {"bound", "unbound"}
    BY <1>6 DEF OpenGate
  <2>0. orphan \in BOOLEAN
    OBVIOUS
  <2> HIDE DEF orphan
  <2>2. IsState(s) /\ s.srv = srv /\ s.ep = ep /\ s.proc = [proc EXCEPT ![g] = q]
    BY <1>0, NowIs DEF IsState
  <2>3. s.proc[g] = q
    BY <1>0, <2>2
  <2> HIDE DEF s
  <2>4. QuietRun(p, q)
    BY <1>0, <2>0, <2>1, FlagEditIsQuiet
  <2> HIDE DEF q
  <2>5. QuietRun(q, Termed(q))
    BY <2>4, SignalsAreQuiet DEF QuietRun
  <2>6. CASE ~orphan
    BY <1>s, <2>1, <2>2, <2>4, <2>6, NowIs
  <2>7. CASE orphan
    <3>1. Terminate(s, g).srv = srv /\ Terminate(s, g).ep = ep
          /\ Terminate(s, g).proc = [s.proc EXCEPT ![g] = Termed(q)]
      BY <2>2, <2>3, TerminateIs, ZenonT(60)
    <3>2. [s.proc EXCEPT ![g] = Termed(q)] = [proc EXCEPT ![g] = Termed(q)]
      BY <2>2
    <3>. QED BY <1>s, <2>1, <2>4, <2>5, <2>7, <3>1, <3>2, NowIs, QuietTwice
  <2>. QED BY <2>6, <2>7
<1>. QED BY <1>1, <1>2, <1>3, <1>4, <1>5, <1>6

(* PROCESS_CONTROL with a signal.                                          *)
LEMMA SignalKeeps ==
  ASSUME ProcInv, NEW e, NEW id, NEW g \in Generations, Signal(e, id, g)
  PROVE  ProcInv'
<1> DEFINE p == proc[g]
<1>0. ProcTypeOK(p) /\ RunOK(p) /\ g \in DOMAIN proc
  BY RecordsOK
<1>s. srv' = srv /\ ep' = ep => \A q : proc' = [proc EXCEPT ![g] = q] /\ QuietRun(p, q) => ProcInv'
  BY QuietOne
<1>1. CASE Becomes(Terminate([Now EXCEPT !.proc[g].timer = TRUE], g))
  <2> DEFINE s == [Now EXCEPT !.proc[g].timer = TRUE]
             q == [p EXCEPT !.timer = TRUE]
  <2>2. IsState(s) /\ s.srv = srv /\ s.ep = ep /\ s.proc = [proc EXCEPT ![g] = q]
    BY <1>0, NowIs DEF IsState
  <2>3. s.proc[g] = q
    BY <1>0, <2>2
  <2>1. Becomes(Terminate(s, g))
    BY <1>1, ZenonT(60)
  <2> HIDE DEF s
  <2>4. QuietRun(p, q)
    BY <1>0, FlagEditIsQuiet
  <2> HIDE DEF q
  <2>5. QuietRun(q, Termed(q))
    BY <2>4, SignalsAreQuiet DEF QuietRun
  <2>6. Terminate(s, g).srv = srv /\ Terminate(s, g).ep = ep
        /\ Terminate(s, g).proc = [s.proc EXCEPT ![g] = Termed(q)]
    BY <2>2, <2>3, TerminateIs
  <2>7. [s.proc EXCEPT ![g] = Termed(q)] = [proc EXCEPT ![g] = Termed(q)]
    BY <2>2
  <2>. QED BY <1>s, <2>1, <2>4, <2>5, <2>6, <2>7, NowIs, QuietTwice
<1>2. CASE Becomes(ForceKill(Now, g))
  <2>1. srv' = srv /\ ep' = ep /\ proc' = [proc EXCEPT ![g] = Forced(p)]
    <3>1. /\ ForceKill(Now, g).srv = Now.srv /\ ForceKill(Now, g).ep = Now.ep
          /\ ForceKill(Now, g).proc = [Now.proc EXCEPT ![g] = Forced(Now.proc[g])]
      BY NowIs, ForceKillIs
    <3>. QED BY <1>2, <3>1, NowIs
  <2>. QED BY <1>0, <1>s, <2>1, SignalsAreQuiet
<1>. QED BY <1>1, <1>2 DEF Signal

(* An endpoint that is closed goes on to terminate, force and abort.       *)
ClosedEdit(E, F) ==
  /\ EpTypeOK(F) /\ F.work \subseteq E.work
  /\ F.accepting = E.accepting /\ F.slots = E.slots
  /\ F.queue = E.queue /\ F.kicked = E.kicked
  /\ F.stage = "open" <=> E.stage = "open"

(* A closed endpoint moves on with its shutdown.                           *)
LEMMA ClosedStep ==
  ASSUME ProcInv, srv' = srv, NEW e \in Endpoints, NEW F, ep' = [ep EXCEPT ![e] = F],
         ClosedEdit(ep[e], F), DOMAIN proc' = Generations,
         \A g \in Generations : QuietRun(proc[g], proc'[g])
  PROVE  ProcInv'
<1>1. DOMAIN ep' = Endpoints /\ ep'[e] = F /\ \A d \in Endpoints \ {e} : ep'[d] = ep[d]
  BY DEF ProcInv, ProcTypes
<1>2. \A d \in Endpoints : EpTypeOK(ep[d])
  BY DEF ProcInv, ProcTypes
<1>3. \A d \in Endpoints : ClosedEdit(ep[d], ep'[d])
  BY <1>1, <1>2 DEF ClosedEdit
<1>. QED BY <1>1, <1>3, QuietStep DEF ClosedEdit

(* Manager::shutdown sends SIGTERM.                                        *)
LEMMA EndpointTerminatesKeeps ==
  ASSUME ProcInv, NEW e \in Endpoints, EndpointTerminates(e)
  PROVE  ProcInv'
<1> DEFINE mine == ep[e].mine \cup {g \in ep[e].waits : ~proc[g].detachable /\ g \in srv.live}
           s == [Now EXCEPT !.ep[e].stage = "grace", !.ep[e].waits = {}, !.ep[e].mine = mine]
           F == [ep[e] EXCEPT !.stage = "grace", !.waits = {}, !.mine = mine]
<1>1. Becomes(Each(Terminate, s, mine)) /\ ep[e].stage = "slots"
  BY DEF EndpointTerminates
<1>2. DOMAIN ep = Endpoints /\ EpTypeOK(ep[e]) /\ DOMAIN proc = Generations
  BY DEF ProcInv, ProcTypes
<1> HIDE DEF mine
<1>3. IsState(s) /\ s.srv = srv /\ s.proc = proc /\ s.ep = [ep EXCEPT ![e] = F]
  BY <1>2, NowIs DEF IsState
<1> HIDE DEF s
<1>4. \A g \in Generations : Terminate(s, g).proc[g] = Termed(proc[g])
  <2>1. ASSUME NEW g \in Generations PROVE Terminate(s, g).proc[g] = Termed(proc[g])
    <3>1. Terminate(s, g).proc = [s.proc EXCEPT ![g] = Termed(s.proc[g])]
      BY <1>3, TerminateIs
    <3>. QED BY <1>2, <1>3, <3>1
  <2>. QED BY <2>1
<1>5. /\ Each(Terminate, s, mine).srv = s.srv /\ Each(Terminate, s, mine).ep = s.ep
      /\ Each(Terminate, s, mine).proc =
           [g \in Generations |-> IF g \in mine THEN Terminate(s, g).proc[g] ELSE s.proc[g]]
  BY <1>3 DEF Each, IsState
<1>6. srv' = srv /\ ep' = [ep EXCEPT ![e] = F]
      /\ proc' = [g \in Generations |-> IF g \in mine THEN Termed(proc[g]) ELSE proc[g]]
  BY <1>1, <1>3, <1>4, <1>5, NowIs
<1>7. ClosedEdit(ep[e], F)
  BY <1>1, <1>2 DEF ClosedEdit, EpTypeOK
<1> HIDE DEF F
<1>8. DOMAIN proc' = Generations /\ \A g \in Generations : QuietRun(proc[g], proc'[g])
  <2>1. \A g \in Generations : QuietRun(proc[g], Termed(proc[g])) /\ QuietRun(proc[g], proc[g])
    BY RecordsOK, SignalsAreQuiet DEF QuietRun
  <2>. QED BY <1>6, <2>1
<1>. QED BY <1>6, <1>7, <1>8, ClosedStep

(* Manager::shutdown sends SIGKILL when the grace ended.                   *)
LEMMA EndpointForcesKeeps ==
  ASSUME ProcInv, NEW e \in Endpoints, EndpointForces(e)
  PROVE  ProcInv'
<1> DEFINE gs == Unreaped(ep[e].mine)
           s == [Now EXCEPT !.ep[e].stage = "abort"]
           F == [ep[e] EXCEPT !.stage = "abort"]
<1>1. Becomes(Each(ForceKill, s, gs)) /\ ep[e].stage = "grace"
  BY DEF EndpointForces
<1>2. DOMAIN ep = Endpoints /\ EpTypeOK(ep[e]) /\ DOMAIN proc = Generations
  BY DEF ProcInv, ProcTypes
<1> HIDE DEF gs
<1>3. IsState(s) /\ s.srv = srv /\ s.proc = proc /\ s.ep = [ep EXCEPT ![e] = F]
  BY <1>2, NowIs DEF IsState
<1> HIDE DEF s
<1>4. ASSUME NEW g \in Generations PROVE ForceKill(s, g).proc[g] = Forced(proc[g])
  <2>1. ForceKill(s, g).proc = [s.proc EXCEPT ![g] = Forced(s.proc[g])]
    BY <1>3, ForceKillIs
  <2>. QED BY <1>2, <1>3, <2>1
<1>5. /\ Each(ForceKill, s, gs).srv = s.srv /\ Each(ForceKill, s, gs).ep = s.ep
      /\ Each(ForceKill, s, gs).proc =
           [g \in Generations |-> IF g \in gs THEN ForceKill(s, g).proc[g] ELSE s.proc[g]]
  BY <1>3 DEF Each, IsState
<1>6. srv' = srv /\ ep' = [ep EXCEPT ![e] = F]
      /\ proc' = [g \in Generations |-> IF g \in gs THEN Forced(proc[g]) ELSE proc[g]]
  BY <1>1, <1>3, <1>4, <1>5, NowIs
<1>7. ClosedEdit(ep[e], F)
  BY <1>1, <1>2 DEF ClosedEdit, EpTypeOK
<1> HIDE DEF F
<1>8. DOMAIN proc' = Generations /\ \A g \in Generations : QuietRun(proc[g], proc'[g])
  <2>1. \A g \in Generations : QuietRun(proc[g], Forced(proc[g])) /\ QuietRun(proc[g], proc[g])
    BY RecordsOK, SignalsAreQuiet DEF QuietRun
  <2>. QED BY <1>6, <2>1
<1>. QED BY <1>6, <1>7, <1>8, ClosedStep

Aborted(p) == Tried([p EXCEPT !.io = TRUE])

(* Aborting the pipes is quiet.                                            *)
LEMMA AbortedIsQuiet ==
  ASSUME NEW p, ProcTypeOK(p), RunOK(p)
  PROVE  QuietRun(p, Aborted(p))
<1>1. QuietRun(p, [p EXCEPT !.io = TRUE])
  BY FlagEditIsQuiet
<1>2. QuietRun([p EXCEPT !.io = TRUE], Aborted(p))
  BY <1>1, TriedIsQuiet DEF QuietRun, Aborted
<1>. QED BY <1>1, <1>2, QuietTwice

(* Manager::shutdown aborts the pipes.                                     *)
LEMMA EndpointAbortsKeeps ==
  ASSUME ProcInv, NEW e \in Endpoints, EndpointAborts(e)
  PROVE  ProcInv'
<1> DEFINE gs == ep[e].mine
           s == [Now EXCEPT !.ep[e].stage = "gone"]
           F == [ep[e] EXCEPT !.stage = "gone"]
<1>1. Becomes(Each(AbortPipes, s, gs)) /\ ep[e].stage = "abort"
  BY DEF EndpointAborts
<1>2. DOMAIN ep = Endpoints /\ EpTypeOK(ep[e]) /\ DOMAIN proc = Generations
  BY DEF ProcInv, ProcTypes
<1> HIDE DEF gs
<1>3. IsState(s) /\ s.srv = srv /\ s.proc = proc /\ s.ep = [ep EXCEPT ![e] = F]
  BY <1>2, NowIs DEF IsState
<1> HIDE DEF s
<1>4. ASSUME NEW g \in Generations PROVE AbortPipes(s, g).proc[g] = Aborted(proc[g])
  <2>1. AbortPipes(s, g).proc = [s.proc EXCEPT ![g] = Tried([s.proc[g] EXCEPT !.io = TRUE])]
    BY <1>2, <1>3, AbortPipesIs
  <2>. QED BY <1>2, <1>3, <2>1 DEF Aborted
<1>5. /\ Each(AbortPipes, s, gs).srv = s.srv /\ Each(AbortPipes, s, gs).ep = s.ep
      /\ Each(AbortPipes, s, gs).proc =
           [g \in Generations |-> IF g \in gs THEN AbortPipes(s, g).proc[g] ELSE s.proc[g]]
  BY <1>3 DEF Each, IsState
<1>6. srv' = srv /\ ep' = [ep EXCEPT ![e] = F]
      /\ proc' = [g \in Generations |-> IF g \in gs THEN Aborted(proc[g]) ELSE proc[g]]
  BY <1>1, <1>3, <1>4, <1>5, NowIs
<1>7. ClosedEdit(ep[e], F)
  BY <1>1, <1>2 DEF ClosedEdit, EpTypeOK
<1> HIDE DEF F
<1>8. DOMAIN proc' = Generations /\ \A g \in Generations : QuietRun(proc[g], proc'[g])
  <2>1. \A g \in Generations : QuietRun(proc[g], Aborted(proc[g])) /\ QuietRun(proc[g], proc[g])
    BY RecordsOK, AbortedIsQuiet DEF QuietRun
  <2>. QED BY <1>6, <2>1
<1>. QED BY <1>6, <1>7, <1>8, ClosedStep

-----------------------------------------------------------------------------
(* Spawning.                                                               *)

(* A step of one spawn that moves nothing between the server's sets.       *)
LEMMA SpawnStep ==
  ASSUME ProcInv, srv' = srv, NEW g \in Generations, NEW q,
         proc' = [proc EXCEPT ![g] = q], proc[g].pc # "none", q.pc # "none",
         ProcTypeOK(q), RunOK(q),
         PlaceOK(g, q, srv.pending, srv.live, srv.finals, srv.stage),
         proc[g].pc = "ended" => q.pc = "ended", proc[g].terminal => q.terminal,
         srv.stage \in {"up", "cancel"} \/ (Over(proc[g]) => Over(q)),
         proc[g].pc \in HasRecord => q.pc \in HasRecord,
         DOMAIN ep' = Endpoints,
         \A e \in Endpoints : EpTypeOK(ep'[e]) /\ ep'[e].queue = ep[e].queue,
         CancelsOK', SlotsOK'
  PROVE  ProcInv'
<1>1. DOMAIN proc' = Generations /\ proc'[g] = q /\ \A h \in Generations \ {g} : proc'[h] = proc[h]
  BY DEF ProcInv, ProcTypes
<1>2. ProcTypes'
  BY <1>1 DEF ProcInv, ProcTypes, SrvTypeOK
<1>3. Places'
  BY <1>1 DEF ProcInv, Places
<1>4. ShutOK'
  BY <1>1 DEF ProcInv, ShutOK, ProcTypes, SrvTypeOK
<1>5. FramesOK'
  <2>1. \A e \in Endpoints : ep[e].queue \in Seq(AnyFrame) /\ ep'[e].queue = ep[e].queue
    BY DEF ProcInv, ProcTypes, EpTypeOK
  <2>2. \A h \in Generations : proc[h].pc = "ended" => proc'[h].pc = "ended"
    BY <1>1
  <2>3. \A h \in Generations : proc[h].terminal => proc'[h].terminal
    BY <1>1
  <2>. QED BY <2>1, <2>2, <2>3, FramesStay DEF ProcInv
<1>6. GenerationsAreCharged'
  BY ChargesStay DEF ProcInv
<1>. QED BY <1>2, <1>3, <1>4, <1>5, <1>6 DEF ProcInv

(* The same, when the spawn keeps what it had of its endpoint's ids.       *)
LEMMA OwnSpawnStep ==
  ASSUME ProcInv, srv' = srv, ep' = ep, NEW g \in Generations, NEW q,
         proc' = [proc EXCEPT ![g] = q], proc[g].pc # "none", q.pc # "none",
         ProcTypeOK(q), RunOK(q),
         PlaceOK(g, q, srv.pending, srv.live, srv.finals, srv.stage),
         proc[g].pc = "ended" => q.pc = "ended", proc[g].terminal => q.terminal,
         srv.stage \in {"up", "cancel"} \/ (Over(proc[g]) => Over(q)),
         SameEnds(proc[g], q),
         Cancelled(g) => q.phase = "done" /\ q.pc \in {"queued", "ended"}
  PROVE  ProcInv'
<1>1. DOMAIN proc' = Generations /\ proc'[g] = q /\ \A h \in Generations \ {g} : proc'[h] = proc[h]
  BY DEF ProcInv, ProcTypes
<1>2. CancelsOK'
  <2>1. \A h \in Generations : Cancelled(h) => Cancelled(h)'
    BY <1>1 DEF Cancelled
  <2>2. \A h \in Generations : proc[h].pc # "none" => proc'[h].pc # "none"
    BY <1>1
  <2>3. \A e \in Endpoints : ep[e].work \subseteq AnyWork /\ ep'[e].work \subseteq ep[e].work
    BY DEF ProcInv, ProcTypes, EpTypeOK
  <2>. QED BY <2>1, <2>2, <2>3, CancelsStay DEF ProcInv, ProcTypes, SrvTypeOK
<1>3. SlotsOK'
  <2>. SUFFICES ASSUME NEW e \in Endpoints PROVE IdsOf(e)'
    BY DEF SlotsOK
  <2>1. \A h \in Generations : SameEnds(proc[h], proc'[h])
    BY <1>1 DEF SameEnds
  <2>. QED BY <2>1, IdsStay DEF ProcInv, SlotsOK
<1>4. DOMAIN ep' = Endpoints /\ \A e \in Endpoints : EpTypeOK(ep'[e]) /\ ep'[e].queue = ep[e].queue
  BY DEF ProcInv, ProcTypes, EpTypeOK
<1>5. proc[g].pc \in HasRecord => q.pc \in HasRecord
  BY DEF SameEnds
<1>. QED BY <1>2, <1>3, <1>4, <1>5, SpawnStep

(* What the invariant says of one generation.                              *)
LEMMA SpawnFacts ==
  ASSUME ProcInv, NEW g \in Generations
  PROVE  /\ ProcTypeOK(proc[g]) /\ RunOK(proc[g])
         /\ PlaceOK(g, proc[g], srv.pending, srv.live, srv.finals, srv.stage)
         /\ DOMAIN proc = Generations
BY DEF ProcInv, ProcTypes, Places

(* run_spawn takes a permit, is cancelled, or fails to spawn.              *)
LEMMA AcquireKeeps ==
  ASSUME ProcInv, NEW g \in Generations, AcquireSlot(g) \/ SpawnCancelled(g) \/ SpawnFails(g)
  PROVE  ProcInv'
<1> DEFINE p == proc[g]
           q == proc'[g]
<1>0. /\ ProcTypeOK(p) /\ RunOK(p) /\ PlaceOK(g, p, srv.pending, srv.live, srv.finals, srv.stage)
      /\ DOMAIN proc = Generations
  BY SpawnFacts
<1>1. srv' = srv /\ ep' = ep /\ proc' = [proc EXCEPT ![g] = q]
  BY <1>0 DEF AcquireSlot, SpawnCancelled, SpawnFails
<1>2. \/ p.pc = "queued" /\ p.phase = "queued" /\ q.pc = "active" /\ q.phase = "active"
      \/ p.pc = "queued" /\ p.phase = "done" /\ q.pc = "ended" /\ q.phase = "done"
      \/ p.pc = "active" /\ q.pc = "failing" /\ q.phase = "done"
  BY <1>0 DEF AcquireSlot, SpawnCancelled, SpawnFails, ProcTypeOK, NoProc, RunOK
<1>3. /\ q.owner = p.owner /\ q.id = p.id /\ q.child = p.child
      /\ q.completed = p.completed /\ q.released = p.released /\ q.lost = p.lost
      /\ q.detachable = p.detachable /\ q.reaped = p.reaped /\ q.io = p.io /\ q.cleaned = p.cleaned
      /\ q.terminal = p.terminal /\ q.publishing = p.publishing /\ q.exits = p.exits
      /\ q.bindings = p.bindings /\ DOMAIN q = DOMAIN p
  BY <1>0 DEF AcquireSlot, SpawnCancelled, SpawnFails, ProcTypeOK, NoProc
<1>4. q.ownerAlive \in BOOLEAN
  <2>1. \A e \in Endpoints : ep[e].accepting \in BOOLEAN
    BY DEF ProcInv, ProcTypes, EpTypeOK
  <2>2. CASE SpawnFails(g)
    BY <1>0, <2>1, <2>2 DEF SpawnFails, ProcTypeOK, NoProc
  <2>3. CASE AcquireSlot(g) \/ SpawnCancelled(g)
    BY <1>0, <2>3 DEF AcquireSlot, SpawnCancelled, ProcTypeOK, NoProc
  <2>. QED BY <2>2, <2>3
<1> HIDE DEF p, q
<1>5. ProcTypeOK(q)
  BY <1>0, <1>2, <1>3, <1>4 DEF ProcTypeOK
<1>6. RunOK(q)
  BY <1>0, <1>2, <1>3 DEF RunOK, HasRecord
<1>7. PlaceOK(g, q, srv.pending, srv.live, srv.finals, srv.stage)
  BY <1>0, <1>2, <1>3 DEF PlaceOK, HasRecord, Claimed, Pendings, RunOK
<1>8. SameEnds(p, q)
  BY <1>2, <1>3 DEF SameEnds, Claims, HasRecord, Pendings
<1>9. Cancelled(g) => q.phase = "done" /\ q.pc \in {"queued", "ended"}
  BY <1>2 DEF Cancelled, p
<1>10. p.pc # "none" /\ q.pc # "none" /\ (p.pc = "ended" => q.pc = "ended")
       /\ (p.terminal => q.terminal) /\ (Over(p) => Over(q))
  BY <1>2, <1>3 DEF Over
<1>. QED BY <1>1, <1>5, <1>6, <1>7, <1>8, <1>9, <1>10, OwnSpawnStep DEF p

(* run_spawn has a child and its record.                                   *)
LEMMA SpawnSucceedsKeeps ==
  ASSUME ProcInv, NEW g \in Generations, SpawnSucceeds(g)
  PROVE  ProcInv'
<1> DEFINE p == proc[g]
           q == proc'[g]
           made == IF ep[p.owner].accepting THEN {Binding(p.owner, p.id)} ELSE {}
<1>0. /\ ProcTypeOK(p) /\ RunOK(p) /\ PlaceOK(g, p, srv.pending, srv.live, srv.finals, srv.stage)
      /\ DOMAIN proc = Generations
  BY SpawnFacts
<1>1. srv' = srv /\ ep' = ep /\ proc' = [proc EXCEPT ![g] = q] /\ p.pc = "active" /\ q.pc = "made"
      /\ q.bindings = made /\ q.child = "running"
  BY <1>0 DEF SpawnSucceeds, ProcTypeOK, NoProc, Binding
<1>3. /\ q.owner = p.owner /\ q.id = p.id /\ q.phase = p.phase
      /\ q.completed = p.completed /\ q.released = p.released /\ q.lost = p.lost
      /\ q.detachable = p.detachable /\ q.reaped = p.reaped /\ q.io = p.io /\ q.cleaned = p.cleaned
      /\ q.terminal = p.terminal /\ q.publishing = p.publishing /\ q.exits = p.exits
      /\ q.ownerAlive = p.ownerAlive /\ DOMAIN q = DOMAIN p
  BY <1>0 DEF SpawnSucceeds, ProcTypeOK, NoProc
<1>2. p.owner \in Endpoints /\ p.id \in ProcessIds
  BY <1>0, <1>1 DEF ProcTypeOK
<1>4. made \subseteq {Binding(p.owner, p.id)} /\ made \subseteq AnyBinding
  BY <1>2 DEF AnyBinding, Binding
<1>5. p.bindings = {} /\ p.exits = {} /\ ~p.terminal /\ ~p.reaped /\ ~p.publishing
  BY <1>0, <1>1 DEF RunOK, HasRecord
<1>11. ASSUME NEW e \in Endpoints PROVE IdsOf(e)'
  <2>1. \A h \in Generations \ {g} : proc'[h] = proc[h]
    BY <1>0, <1>1
  <2>2. IdsOf(e) /\ UNCHANGED ep[e]
    BY <1>1 DEF ProcInv, SlotsOK
  <2>3. \A id, h, i : FreedBy(e, id, h, i)' <=> FreedBy(e, id, h, i)
    BY <1>1 DEF FreedBy
  <2>4. ASSUME NEW id \in ProcessIds PROVE SlotOK(e, id)'
    <3>1. ASSUME NEW h \in Generations, Held(e, id, h)', ~Held(e, id, h), ep[e].stage = "open"
          PROVE  ep[e].slots[id] = PendingSlot(h) /\ \A i \in DOMAIN ep[e].queue : ~FreedBy(e, id, h, i)
      <4>1. h = g
        BY <2>1, <3>1 DEF Held
      <4>2. Binding(e, id) \in made
        BY <1>1, <1>3, <1>5, <3>1, <4>1 DEF Held
      <4>3. e = p.owner /\ id = p.id
        BY <4>2, <1>4 DEF Binding
      <4>4. Claims(p)
        BY <1>1 DEF Claims
      <4>5. ep[e].slots[id] = PendingSlot(g)
        <5>1. SlotOK(e, id)
          BY <2>2 DEF IdsOf
        <5>. QED BY <3>1, <4>3, <4>4, <5>1 DEF SlotOK
      <4>6. PendingSlot(g) # BoundSlot(g)
        BY DEF PendingSlot, BoundSlot
      <4>. QED BY <2>2, <3>1, <4>1, <4>5, <4>6 DEF IdsOf, SlotOK
    <3>2. \A h \in Generations : Held(e, id, h) => Held(e, id, h)'
      BY <1>1, <1>3, <1>5, <2>1 DEF Held
    <3>3. \A h \in Generations :
            /\ proc[h].pc \in Pendings => proc'[h].pc \in Pendings
            /\ proc[h].pc \in HasRecord => proc'[h].pc \in HasRecord
            /\ Claims(proc'[h]) => Claims(proc[h])
            /\ proc'[h].owner = proc[h].owner /\ proc'[h].id = proc[h].id
            /\ h # g => proc'[h].pc = proc[h].pc
      BY <1>1, <1>3, <2>1 DEF Pendings, HasRecord, Claims
    <3>4. ASSUME ep[e].stage = "open", p.owner = e, p.id = id PROVE Held(e, id, g)'
      <4>1. ep[e].accepting
        BY <2>2, <3>4 DEF IdsOf
      <4>2. Binding(e, id) \in made
        BY <3>4, <4>1
      <4>. QED BY <1>1, <4>2 DEF Held
    <3>. QED BY <2>2, <2>3, <3>1, <3>2, <3>3, <3>4 DEF IdsOf, SlotOK
  <2>. QED BY <2>2, <2>4 DEF IdsOf
<1>12. CancelsOK'
  <2>1. \A h \in Generations : Cancelled(h) => Cancelled(h)'
    BY <1>0, <1>1 DEF Cancelled
  <2>2. \A h \in Generations : proc[h].pc # "none" => proc'[h].pc # "none"
    BY <1>0, <1>1
  <2>3. \A e \in Endpoints : ep[e].work \subseteq AnyWork /\ ep'[e].work \subseteq ep[e].work
    BY <1>1 DEF ProcInv, ProcTypes, EpTypeOK
  <2>. QED BY <1>1, <2>1, <2>2, <2>3, CancelsStay DEF ProcInv, ProcTypes, SrvTypeOK
<1>13. srv.stage \in {"up", "cancel"}
  <2>1. g \in srv.pending
    BY <1>0, <1>1 DEF PlaceOK, Claimed
  <2>. QED BY <2>1 DEF ProcInv, ShutOK
<1>14. DOMAIN ep' = Endpoints /\ \A e \in Endpoints : EpTypeOK(ep'[e]) /\ ep'[e].queue = ep[e].queue
  BY <1>1 DEF ProcInv, ProcTypes, EpTypeOK
<1> HIDE DEF p, q, made
<1>6. ProcTypeOK(q)
  BY <1>0, <1>1, <1>2, <1>3, <1>4 DEF ProcTypeOK
<1>7. RunOK(q)
  <2>1. \A b, c \in q.bindings \cup q.exits : b.e = c.e => b = c
    BY <1>1, <1>3, <1>4, <1>5
  <2>. QED BY <1>0, <1>1, <1>3, <1>4, <1>5, <2>1 DEF RunOK, HasRecord
<1>8. PlaceOK(g, q, srv.pending, srv.live, srv.finals, srv.stage)
  BY <1>0, <1>1, <1>3 DEF PlaceOK, HasRecord, Claimed, Pendings
<1>9. SlotsOK'
  BY <1>11 DEF SlotsOK
<1>10. p.pc # "none" /\ q.pc # "none" /\ (p.pc = "ended" => q.pc = "ended") /\ (p.terminal => q.terminal)
       /\ (p.pc \in HasRecord => q.pc \in HasRecord)
  BY <1>1, <1>3 DEF HasRecord
<1>. QED BY <1>1, <1>6, <1>7, <1>8, <1>9, <1>10, <1>12, <1>13, <1>14, SpawnStep DEF p

(* Sets of generations are counted.                                        *)
LEMMA GenerationsFinite ==
  ASSUME NEW S \in SUBSET Generations
  PROVE  /\ IsFiniteSet(S) /\ Cardinality(S) \in Nat
         /\ \A g \in Generations \ S : Cardinality(S \cup {g}) = Cardinality(S) + 1
         /\ \A g \in S : Cardinality(S \ {g}) = Cardinality(S) - 1 /\ Cardinality(S) > 0
<1>1. IsFiniteSet(Generations)
  <2>1. MaxSpawns \in Int /\ 1 \in Int
    BY ProcConstants
  <2>. QED BY <2>1, FS_Interval DEF Generations
<1>2. IsFiniteSet(S) /\ Cardinality(S) \in Nat
  BY <1>1, FS_Subset, FS_CardinalityType
<1>3. \A g \in Generations \ S : Cardinality(S \cup {g}) = Cardinality(S) + 1
  BY <1>2, FS_AddElement
<1>4. ASSUME NEW g \in S PROVE Cardinality(S \ {g}) = Cardinality(S) - 1 /\ Cardinality(S) > 0
  <2>1. S # {}
    BY <1>4
  <2>. QED BY <1>2, <2>1, FS_RemoveElement, FS_EmptySet
<1>. QED BY <1>2, <1>3, <1>4

(* A notice of failure names a generation.                                 *)
LEMMA FailuresTyped ==
  FailuresOnTheirWay \subseteq Generations
BY DEF FailuresOnTheirWay

(* What is charged is a generation.                                        *)
LEMMA ChargedTyped == ProcTypes => Charged \subseteq Generations
BY FailuresTyped DEF ProcTypes, SrvTypeOK, Charged

(* The sets that a generation is charged for by are disjoint.              *)
LEMMA FailuresAreOver ==
  ASSUME ProcInv, NEW g \in Generations, g \in FailuresOnTheirWay
  PROVE  proc[g].pc = "ended" /\ g \notin srv.pending \cup srv.live \cup srv.finals
<1>1. proc[g].pc = "ended" /\ g \notin srv.pending
  BY DEF FailuresOnTheirWay, ProcInv, FramesOK
<1>2. g \notin srv.live /\ g \notin srv.finals
  BY <1>1, SpawnFacts DEF PlaceOK, HasRecord, RunOK
<1>. QED BY <1>1, <1>2

(* SPAWN: the id, the place and the pending entry are taken together.      *)
LEMMA SpawnKeeps ==
  ASSUME ProcInv, NEW e \in Endpoints, NEW id \in ProcessIds, NEW det \in BOOLEAN, Spawn(e, id, det)
  PROVE  ProcInv'
<1> DEFINE q(g) == [NoProc EXCEPT !.pc = "queued", !.owner = e, !.id = id, !.detachable = det]
<1>1. PICK g \in Generations :
        /\ proc[g].pc = "none" /\ Admitted(e, id) /\ srv.generations < MaxGenerations
        /\ Becomes([Now EXCEPT
             !.proc[g] = [NoProc EXCEPT !.pc = "queued", !.owner = e, !.id = id, !.detachable = det],
             !.srv.generations = @ + 1, !.srv.pending = @ \cup {g},
             !.ep[e].slots[id] = PendingSlot(g)])
  BY DEF Spawn
<1>2. proc' = [proc EXCEPT ![g] = q(g)]
  BY <1>1 DEF Now, Becomes
<1>3. srv' = [srv EXCEPT !.generations = @ + 1, !.pending = @ \cup {g}]
  BY <1>1 DEF Now, Becomes
<1>4. ep' = [ep EXCEPT ![e].slots[id] = PendingSlot(g)]
  BY <1>1 DEF Now, Becomes
<1>t. ProcTypes
  BY DEF ProcInv
<1>5. /\ DOMAIN proc' = Generations /\ proc'[g] = q(g)
      /\ \A h \in Generations \ {g} : proc'[h] = proc[h]
  BY <1>2, <1>t DEF ProcTypes
<1>6. /\ DOMAIN srv' = DOMAIN srv /\ srv'.generations = srv.generations + 1
      /\ srv'.pending = srv.pending \cup {g}
      /\ srv'.accepting = srv.accepting /\ srv'.live = srv.live /\ srv'.finals = srv.finals
      /\ srv'.stage = srv.stage /\ srv'.todo = srv.todo /\ srv'.freeing = srv.freeing
      /\ srv'.waits = srv.waits /\ srv'.mine = srv.mine
  BY <1>3, <1>t DEF ProcTypes, SrvTypeOK
<1>7. /\ DOMAIN ep' = Endpoints /\ \A d \in Endpoints \ {e} : ep'[d] = ep[d]
      /\ ep'[e].slots = [ep[e].slots EXCEPT ![id] = PendingSlot(g)]
      /\ DOMAIN ep'[e] = DOMAIN ep[e]
      /\ ep'[e].accepting = ep[e].accepting /\ ep'[e].queue = ep[e].queue
      /\ ep'[e].kicked = ep[e].kicked /\ ep'[e].stage = ep[e].stage /\ ep'[e].work = ep[e].work
  BY <1>4, <1>t DEF ProcTypes, EpTypeOK
<1>8. /\ q(g).pc = "queued" /\ q(g).phase = "queued" /\ q(g).owner = e /\ q(g).id = id
      /\ q(g).bindings = {} /\ q(g).exits = {} /\ q(g).child = "none" /\ DOMAIN q(g) = DOMAIN NoProc
      /\ ~q(g).completed /\ ~q(g).reaped /\ ~q(g).terminal /\ ~q(g).publishing /\ ~q(g).released
      /\ q(g).lost \in BOOLEAN /\ q(g).completed \in BOOLEAN /\ q(g).detachable \in BOOLEAN
      /\ q(g).ownerAlive \in BOOLEAN /\ q(g).reaped \in BOOLEAN /\ q(g).io \in BOOLEAN
      /\ q(g).cleaned \in BOOLEAN /\ q(g).terminal \in BOOLEAN /\ q(g).publishing \in BOOLEAN
      /\ q(g).released \in BOOLEAN
  BY DEF NoProc
<1> HIDE DEF q
<1>9. /\ ep[e].accepting /\ ep[e].slots[id] = Free /\ srv.accepting
      /\ ep[e].stage = "open" /\ srv.stage = "up"
  BY <1>1 DEF Admitted, ProcInv, SlotsOK, IdsOf, ShutOK
<1>10. /\ proc[g].bindings = {} /\ proc[g].exits = {} /\ ~proc[g].terminal
       /\ g \notin srv.pending /\ g \notin srv.live /\ g \notin srv.finals
  BY <1>1, SpawnFacts DEF RunOK, PlaceOK, HasRecord, Pendings
<1>11. ProcTypes'
  <2>1. SrvTypeOK'
    BY <1>6, <1>t DEF ProcTypes, SrvTypeOK
  <2>2. EpTypeOK(ep'[e])
    <3>1. PendingSlot(g) \in AnySlot
      BY DEF AnySlot
    <3>. QED BY <1>7, <3>1, <1>t DEF ProcTypes, EpTypeOK
  <2>3. ProcTypeOK(q(g))
    BY <1>8 DEF ProcTypeOK
  <2>. QED BY <1>5, <1>7, <2>1, <2>2, <2>3, <1>t DEF ProcTypes
<1>12. Places'
  <2>1. RunOK(q(g)) /\ PlaceOK(g, q(g), srv'.pending, srv'.live, srv'.finals, srv'.stage)
    BY <1>6, <1>8, <1>10 DEF RunOK, PlaceOK, HasRecord, Claimed, Pendings
  <2>2. \A h \in Generations \ {g} :
          RunOK(proc[h]) /\ PlaceOK(h, proc[h], srv'.pending, srv'.live, srv'.finals, srv'.stage)
    BY <1>6, SpawnFacts DEF PlaceOK
  <2>. QED BY <1>5, <2>1, <2>2 DEF Places
<1>13. CancelsOK'
  <2>1. \A h \in Generations : Cancelled(h) => Cancelled(h)'
    BY <1>1, <1>5, <1>6 DEF Cancelled
  <2>2. \A h \in Generations : proc[h].pc # "none" => proc'[h].pc # "none"
    BY <1>5, <1>8
  <2>3. \A d \in Endpoints : ep[d].work \subseteq AnyWork /\ ep'[d].work \subseteq ep[d].work
    BY <1>7, <1>t DEF ProcTypes, EpTypeOK
  <2>. QED BY <1>6, <2>1, <2>2, <2>3, CancelsStay DEF ProcInv, ProcTypes, SrvTypeOK
<1>14. ShutOK'
  BY <1>6, <1>9 DEF ProcInv, ShutOK
<1>15. ASSUME NEW d \in Endpoints PROVE IdsOf(d)'
  <2>1. IdsOf(d)
    BY DEF ProcInv, SlotsOK
  <2>2. \A h \in Generations : Held(d, id, h)' <=> Held(d, id, h)
    BY <1>5, <1>8, <1>10 DEF Held
  <2>3. \A i \in ProcessIds, h \in Generations : Held(d, i, h)' <=> Held(d, i, h)
    BY <1>5, <1>8, <1>10 DEF Held
  <2>4. \A i, h, j : FreedBy(d, i, h, j)' <=> FreedBy(d, i, h, j)
    BY <1>7 DEF FreedBy
  <2>5. ASSUME NEW i \in ProcessIds, d # e \/ i # id PROVE SlotOK(d, i)'
    <3>1. ep'[d].slots[i] = ep[d].slots[i] /\ ep'[d].stage = ep[d].stage
          /\ ep'[d].queue = ep[d].queue /\ ep'[d].kicked = ep[d].kicked
      BY <1>7, <2>5, <1>t DEF ProcTypes, EpTypeOK
    <3>2. \A h \in Generations :
            /\ proc[h].pc \in Pendings => /\ proc'[h].pc \in Pendings
                                           /\ proc'[h].owner = proc[h].owner /\ proc'[h].id = proc[h].id
            /\ proc[h].pc \in HasRecord => proc'[h].pc \in HasRecord
            /\ Claims(proc'[h]) /\ proc'[h].owner = d /\ proc'[h].id = i =>
                 Claims(proc[h]) /\ proc[h].owner = d /\ proc[h].id = i
            /\ proc'[h].pc = "made" => proc[h].pc = "made"
      BY <1>1, <1>5, <1>8, <2>5 DEF Pendings, HasRecord
    <3>. QED BY <2>1, <2>3, <2>4, <3>1, <3>2 DEF IdsOf, SlotOK
  <2>6. ASSUME d = e PROVE SlotOK(e, id)'
    <3>1. ep'[e].slots[id] = PendingSlot(g) /\ Free # PendingSlot(g)
          /\ \A h : PendingSlot(h) = PendingSlot(g) => h = g
      BY <1>7, <1>t DEF ProcTypes, EpTypeOK, PendingSlot, Free
    <3>2. \A h \in Generations : Free # BoundSlot(h) /\ Free # PendingSlot(h) /\ BoundSlot(h) # PendingSlot(g)
      BY DEF PendingSlot, BoundSlot, Free
    <3>3. \A h \in Generations :
            /\ ~Held(e, id, h)
            /\ \A j \in DOMAIN ep[e].queue : ~FreedBy(e, id, h, j)
            /\ Claims(proc[h]) => proc[h].owner # e \/ proc[h].id # id
      BY <1>9, <2>1, <2>6, <3>2 DEF IdsOf, SlotOK
    <3>4. \A h \in Generations : ~Held(e, id, h)'
      BY <2>2, <2>6, <3>3
    <3>5. \A h \in Generations, j \in DOMAIN ep'[e].queue : ~FreedBy(e, id, h, j)'
      BY <1>7, <2>4, <2>6, <3>3
    <3>6. \A h \in Generations : Claims(proc'[h]) /\ proc'[h].owner = e /\ proc'[h].id = id => h = g
      BY <1>5, <3>3
    <3>. QED BY <1>5, <1>8, <3>1, <3>2, <3>4, <3>5, <3>6 DEF SlotOK, Pendings
  <2>7. \A i \in ProcessIds : SlotOK(d, i)'
    BY <2>5, <2>6
  <2>. QED BY <1>7, <1>9, <2>1, <2>7 DEF IdsOf
<1>16. FramesOK'
  <2>1. \A d \in Endpoints : ep'[d].queue = ep[d].queue /\ ep[d].queue \in Seq(AnyFrame)
    BY <1>7, <1>t DEF ProcTypes, EpTypeOK
  <2>2. ASSUME NEW d \in Endpoints, NEW i \in DOMAIN ep[d].queue
        PROVE  /\ ep[d].queue[i].kind = "failed" => proc'[ep[d].queue[i].g].pc = "ended"
                                                     /\ ep[d].queue[i].g \notin srv'.pending
               /\ ep[d].queue[i].kind = "exit" => proc'[ep[d].queue[i].g].terminal
    <3>0. ep[d].queue[i] \in AnyFrame
      BY <2>1
    <3>1. ep[d].queue[i].g \in Generations
      BY <3>0 DEF AnyFrame
    <3>2. /\ ep[d].queue[i].kind = "failed" => proc[ep[d].queue[i].g].pc = "ended"
                                                 /\ ep[d].queue[i].g \notin srv.pending
          /\ ep[d].queue[i].kind = "exit" => proc[ep[d].queue[i].g].terminal
      BY FrameFacts DEF ProcInv
    <3>3. ep[d].queue[i].g # g => proc'[ep[d].queue[i].g] = proc[ep[d].queue[i].g]
      BY <1>5, <3>1
    <3>4. ep[d].queue[i].g = g => ep[d].queue[i].kind # "failed" /\ ep[d].queue[i].kind # "exit"
      BY <1>1, <1>10, <3>2
    <3>. QED BY <1>6, <3>2, <3>3, <3>4
  <2>3. ASSUME NEW c \in Endpoints, NEW d \in Endpoints,
               NEW i \in DOMAIN ep[c].queue, NEW j \in DOMAIN ep[d].queue,
               ep[c].queue[i].kind = "failed", ep[d].queue[j].kind = "failed",
               ep[c].queue[i].g = ep[d].queue[j].g
        PROVE  c = d /\ i = j
    BY <2>3, FailureOnce DEF ProcInv
  <2>4. \A d \in Endpoints : \A i \in DOMAIN ep'[d].queue :
           /\ ep'[d].queue[i].kind = "failed" =>
                proc'[ep'[d].queue[i].g].pc = "ended" /\ ep'[d].queue[i].g \notin srv'.pending
           /\ ep'[d].queue[i].kind = "exit" => proc'[ep'[d].queue[i].g].terminal
    BY <2>1, <2>2
  <2>5. \A c, d \in Endpoints : \A i \in DOMAIN ep'[c].queue, j \in DOMAIN ep'[d].queue :
           ep'[c].queue[i].kind = "failed" /\ ep'[d].queue[j].kind = "failed"
             /\ ep'[c].queue[i].g = ep'[d].queue[j].g => c = d /\ i = j
    BY <2>1, <2>3
  <2>. QED BY <2>4, <2>5, FramesAre
<1>17. GenerationsAreCharged'
  <2>1. FailuresOnTheirWay' = FailuresOnTheirWay
    BY <1>7 DEF FailuresOnTheirWay
  <2>2. Charged' = Charged \cup {g}
    BY <1>6, <2>1 DEF Charged
  <2>3. g \notin Charged
    BY <1>1, <1>10, FailuresAreOver DEF Charged
  <2>4. Cardinality(Charged') = Cardinality(Charged) + 1
    BY <2>2, <2>3, <1>t, ChargedTyped, GenerationsFinite
  <2>5. srv.generations \in Nat /\ MaxGenerations \in Nat
    BY <1>t, ProcConstants DEF ProcTypes, SrvTypeOK
  <2>. QED BY <1>1, <1>6, <2>4, <2>5 DEF ProcInv, GenerationsAreCharged
<1>18. SlotsOK'
  BY <1>15 DEF SlotsOK
<1>. QED BY <1>11, <1>12, <1>13, <1>14, <1>16, <1>17, <1>18 DEF ProcInv

-----------------------------------------------------------------------------
(* The ids of an endpoint when slots are given back or frames move on.     *)

SlotsDiffer ==
  /\ \A g : Free # PendingSlot(g) /\ Free # BoundSlot(g) /\ Free # ReplySlot(g)
  /\ \A g, h : /\ PendingSlot(g) # BoundSlot(h) /\ PendingSlot(g) # ReplySlot(h)
               /\ BoundSlot(g) # ReplySlot(h)
               /\ PendingSlot(g) = PendingSlot(h) => g = h
               /\ BoundSlot(g) = BoundSlot(h) => g = h

(* The kinds of slots are apart.                                           *)
LEMMA SlotsDo == SlotsDiffer
BY DEF SlotsDiffer, Free, PendingSlot, BoundSlot, ReplySlot

FrameIn(e, id, g) == \E i \in DOMAIN ep[e].queue : FreedBy(e, id, g, i)

(* What may be given back: a slot nobody claims or holds any more.         *)
GivenBack(e, id) ==
  \E h \in Generations :
    /\ ~Held(e, id, h)
    /\ \/ ep[e].slots[id] = PendingSlot(h) /\ ~Claims(proc'[h])
       \/ ep[e].slots[id] = ReplySlot(h)
       \/ ep[e].slots[id] = BoundSlot(h) /\ ~FrameIn(e, id, h)'

(* Ids may be freed by who gives them back, and by nobody else.            *)
LEMMA IdsEdit ==
  ASSUME NEW e \in Endpoints, IdsOf(e),
         \A g \in Generations : SameEnds(proc[g], proc'[g]),
         ep'[e].accepting = ep[e].accepting, ep'[e].stage = ep[e].stage, ep'[e].kicked = ep[e].kicked,
         ep[e].stage = "open" => ep'[e].work \subseteq ep[e].work,
         \A id \in ProcessIds : \/ ep'[e].slots[id] = ep[e].slots[id]
                                \/ ep'[e].slots[id] = Free /\ GivenBack(e, id),
         \A id \in ProcessIds, g \in Generations :
           /\ FrameIn(e, id, g)' => FrameIn(e, id, g)
           /\ FrameIn(e, id, g) /\ ep'[e].slots[id] = BoundSlot(g) => FrameIn(e, id, g)',
         ep[e].stage = "open" => \A id \in ProcessIds, g, h \in Generations :
           \A i, j \in DOMAIN ep'[e].queue : FreedBy(e, id, g, i)' /\ FreedBy(e, id, h, j)' => i = j
  PROVE  IdsOf(e)'
<1>0. SlotsDiffer
  BY SlotsDo
<1>1. \A id \in ProcessIds, g \in Generations : Held(e, id, g)' <=> Held(e, id, g)
  BY DEF Held, SameEnds
<1>2. ASSUME NEW id \in ProcessIds PROVE SlotOK(e, id)'
  <2>1. SlotOK(e, id)
    BY DEF IdsOf
  <2>2. CASE ep'[e].slots[id] = ep[e].slots[id]
    <3>1. ASSUME NEW g \in Generations
          PROVE  /\ ep'[e].slots[id] = PendingSlot(g) =>
                  proc'[g].pc \in Pendings /\ proc'[g].owner = e /\ proc'[g].id = id
                 /\ ep'[e].slots[id] = BoundSlot(g) => proc'[g].pc \in HasRecord
                 /\ ep'[e].slots[id] = BoundSlot(g) /\ ~ep'[e].kicked =>
                      Held(e, id, g)' \/ FrameIn(e, id, g)'
                 /\ ep'[e].stage = "open" /\ Held(e, id, g)' =>
                      ep'[e].slots[id] \in {PendingSlot(g), BoundSlot(g)} /\ ~FrameIn(e, id, g)'
                 /\ ep'[e].stage = "open" /\ Claims(proc'[g]) /\ proc'[g].owner = e /\ proc'[g].id = id =>
                      ep'[e].slots[id] = PendingSlot(g) /\ (proc'[g].pc = "made" => Held(e, id, g)')
                 /\ ep'[e].stage = "open" /\ FrameIn(e, id, g)' => ep'[e].slots[id] = BoundSlot(g)
      BY <1>1, <2>1, <2>2 DEF SlotOK, FrameIn, SameEnds
    <3>. QED BY <3>1 DEF SlotOK, FrameIn
  <2>3. CASE ep'[e].slots[id] = Free /\ GivenBack(e, id)
    <3>1. PICK k \in Generations :
            /\ ~Held(e, id, k)
            /\ \/ ep[e].slots[id] = PendingSlot(k) /\ ~Claims(proc'[k])
               \/ ep[e].slots[id] = ReplySlot(k)
               \/ ep[e].slots[id] = BoundSlot(k) /\ ~FrameIn(e, id, k)'
      BY <2>3 DEF GivenBack
    <3>2. ASSUME NEW g \in Generations, ep[e].stage = "open"
          PROVE  ~Held(e, id, g) /\ ~FrameIn(e, id, g)'
                 /\ ~(Claims(proc'[g]) /\ proc'[g].owner = e /\ proc'[g].id = id)
      <4>1. ~Held(e, id, g)
        BY <1>0, <2>1, <3>1, <3>2 DEF SlotOK, SlotsDiffer
      <4>2. ~FrameIn(e, id, g)'
        BY <1>0, <2>1, <3>1, <3>2 DEF SlotOK, SlotsDiffer, FrameIn
      <4>3. ~(Claims(proc'[g]) /\ proc'[g].owner = e /\ proc'[g].id = id)
        BY <1>0, <2>1, <3>1, <3>2 DEF SlotOK, SlotsDiffer, SameEnds
      <4>. QED BY <4>1, <4>2, <4>3
    <3>3. \A g : ep'[e].slots[id] # PendingSlot(g) /\ ep'[e].slots[id] # BoundSlot(g)
      BY <1>0, <2>3 DEF SlotsDiffer
    <3>. QED BY <1>1, <3>2, <3>3 DEF SlotOK, FrameIn
  <2>. QED BY <2>2, <2>3
<1>3. ep'[e].stage # "open" => \A id \in ProcessIds : ep'[e].slots[id] = Free
  BY DEF IdsOf
<1>. QED BY <1>2, <1>3 DEF IdsOf

-----------------------------------------------------------------------------
(* Steps of Server::shutdown that leave the endpoints alone.               *)

(* A step of Server::shutdown that touches no endpoint.                    *)
LEMMA ServerStep ==
  ASSUME ProcInv, ep' = ep, SrvTypeOK', DOMAIN proc' = Generations,
         \A g \in Generations : QuietRun(proc[g], proc'[g]),
         srv'.generations = srv.generations, srv'.pending = srv.pending, srv'.live = srv.live,
         srv'.finals = srv.finals,
         srv.stage \in {"finals", "down"} => srv'.stage \in {"finals", "down"},
         srv'.stage = "cancel" => \A g \in srv'.freeing : srv.stage = "cancel" /\ g \in srv.freeing,
         ShutOK'
  PROVE  ProcInv'
<1>1. ProcTypes'
  BY DEF ProcInv, ProcTypes, QuietRun, EpTypeOK
<1>2. Places'
  BY PlacesStay DEF ProcInv
<1>3. \A g \in Generations :
        /\ Cancelled(g) => Cancelled(g)'
        /\ proc[g].pc # "none" => proc'[g].pc # "none"
        /\ proc[g].pc = "ended" => proc'[g].pc = "ended"
        /\ proc[g].terminal => proc'[g].terminal
  BY DEF QuietRun, Cancelled, HasRecord
<1>4. CancelsOK'
  <2>1. \A e \in Endpoints : ep[e].work \subseteq AnyWork /\ ep'[e].work \subseteq ep[e].work
    BY DEF ProcInv, ProcTypes, EpTypeOK
  <2>. QED BY <1>3, <2>1, CancelsStay DEF ProcInv, ProcTypes, SrvTypeOK
<1>6. FramesOK'
  <2>1. \A e \in Endpoints : ep[e].queue \in Seq(AnyFrame) /\ ep'[e].queue = ep[e].queue
    BY DEF ProcInv, ProcTypes, EpTypeOK
  <2>. QED BY <1>3, <2>1, FramesStay DEF ProcInv
<1>7. SlotsOK'
  <2>. SUFFICES ASSUME NEW e \in Endpoints PROVE IdsOf(e)'
    BY DEF SlotsOK
  <2>1. \A g \in Generations : SameEnds(proc[g], proc'[g])
    BY QuietIsSame
  <2>. QED BY <2>1, IdsStay DEF ProcInv, SlotsOK
<1>8. GenerationsAreCharged'
  BY ChargesStay DEF ProcInv
<1>. QED BY <1>1, <1>2, <1>4, ShutOK', <1>6, <1>7, <1>8 DEF ProcInv

(* The ids of an endpoint that has closed are free.                        *)
LEMMA ClosedIds ==
  ASSUME NEW e \in Endpoints, ep'[e].stage # "open", ~ep'[e].accepting,
         \A id \in ProcessIds : ep'[e].slots[id] = Free, ep'[e].accepting \in BOOLEAN
  PROVE  IdsOf(e)'
<1>1. SlotsDiffer
  BY SlotsDo
<1>2. ASSUME NEW id \in ProcessIds PROVE SlotOK(e, id)'
  BY <1>1 DEF SlotOK, SlotsDiffer
<1>. QED BY <1>2 DEF IdsOf

(* An endpoint that is closed holds no id.                                 *)
LEMMA ClosedIdsStay ==
  ASSUME ProcInv, NEW e \in Endpoints, ep[e].stage # "open", ep'[e].stage # "open",
         ep'[e].accepting = ep[e].accepting, ep'[e].slots = ep[e].slots
  PROVE  IdsOf(e)'
<1>1. IdsOf(e) /\ ep[e].accepting \in BOOLEAN
  BY DEF ProcInv, SlotsOK, ProcTypes, EpTypeOK
<1>. QED BY <1>1, ClosedIds DEF IdsOf

(* An id whose slot, frames and holders stay.                              *)
LEMMA SlotStays ==
  ASSUME NEW e \in Endpoints, NEW id \in ProcessIds, SlotOK(e, id),
         ep'[e].slots[id] = ep[e].slots[id], ep'[e].stage = ep[e].stage,
         ep[e].kicked => ep'[e].kicked,
         \A g \in Generations :
           /\ Held(e, id, g)' <=> Held(e, id, g)
           /\ FrameIn(e, id, g)' <=> FrameIn(e, id, g)
           /\ proc[g].pc \in Pendings => \/ proc'[g].pc \in Pendings /\ proc'[g].owner = proc[g].owner
                                             /\ proc'[g].id = proc[g].id
                                       \/ ep[e].slots[id] # PendingSlot(g)
           /\ proc[g].pc \in HasRecord => proc'[g].pc \in HasRecord
           /\ Claims(proc'[g]) /\ proc'[g].owner = e /\ proc'[g].id = id =>
                Claims(proc[g]) /\ proc[g].owner = e /\ proc[g].id = id
           /\ proc'[g].pc = "made" => proc[g].pc = "made",
         ep[e].stage = "open" => \A g, h \in Generations : \A i, j \in DOMAIN ep'[e].queue :
           FreedBy(e, id, g, i)' /\ FreedBy(e, id, h, j)' => i = j
  PROVE  SlotOK(e, id)'
<1>1. ASSUME NEW g \in Generations
      PROVE  /\ ep'[e].slots[id] = PendingSlot(g) =>
                  proc'[g].pc \in Pendings /\ proc'[g].owner = e /\ proc'[g].id = id
             /\ ep'[e].slots[id] = BoundSlot(g) => proc'[g].pc \in HasRecord
             /\ ep'[e].slots[id] = BoundSlot(g) /\ ~ep'[e].kicked =>
                  Held(e, id, g)' \/ FrameIn(e, id, g)'
             /\ ep'[e].stage = "open" /\ Held(e, id, g)' =>
                  ep'[e].slots[id] \in {PendingSlot(g), BoundSlot(g)} /\ ~FrameIn(e, id, g)'
             /\ ep'[e].stage = "open" /\ Claims(proc'[g]) /\ proc'[g].owner = e /\ proc'[g].id = id =>
                  ep'[e].slots[id] = PendingSlot(g) /\ (proc'[g].pc = "made" => Held(e, id, g)')
             /\ ep'[e].stage = "open" /\ FrameIn(e, id, g)' => ep'[e].slots[id] = BoundSlot(g)
  BY DEF SlotOK, FrameIn
<1>. QED BY <1>1 DEF SlotOK, FrameIn

(* An id that nobody claims, holds or frees any more.                      *)
LEMMA SlotEmpties ==
  ASSUME NEW e \in Endpoints, NEW id \in ProcessIds,
         \A g \in Generations : ep'[e].slots[id] # PendingSlot(g) /\ ep'[e].slots[id] # BoundSlot(g),
         ep'[e].stage = "open" => \A g \in Generations :
           /\ ~Held(e, id, g)' /\ ~FrameIn(e, id, g)'
           /\ ~(Claims(proc'[g]) /\ proc'[g].owner = e /\ proc'[g].id = id)
  PROVE  SlotOK(e, id)'
BY DEF SlotOK, FrameIn

-----------------------------------------------------------------------------
(* The queues of the writers.                                              *)

(* Every frame was there before, or is new and allowed; a notice of failure*)
(* is not repeated.                                                        *)
LEMMA FramesMove ==
  ASSUME FramesOK, srv'.pending \subseteq srv.pending,
         \A e \in Endpoints : ep[e].queue \in Seq(AnyFrame),
         \A g \in Generations : proc[g].pc = "ended" => proc'[g].pc = "ended",
         \A g \in Generations : proc[g].terminal => proc'[g].terminal,
         NEW from,
         \A e \in Endpoints : \A i \in DOMAIN ep'[e].queue :
           \/ from[e][i] \in DOMAIN ep[e].queue /\ ep'[e].queue[i] = ep[e].queue[from[e][i]]
           \/ ep'[e].queue[i].kind # "failed" /\
              (ep'[e].queue[i].kind = "exit" => proc'[ep'[e].queue[i].g].terminal),
         \A e \in Endpoints : \A i, j \in DOMAIN ep'[e].queue :
           from[e][i] = from[e][j] => i = j
  PROVE  FramesOK'
<1>1. \A e \in Endpoints : \A i \in DOMAIN ep[e].queue : ep[e].queue[i].g \in Generations
  <2>1. \A e \in Endpoints : \A i \in DOMAIN ep[e].queue : ep[e].queue[i] \in AnyFrame
    OBVIOUS
  <2>. QED BY <2>1 DEF AnyFrame
<1>2. ASSUME NEW e \in Endpoints, NEW i \in DOMAIN ep'[e].queue
      PROVE  LET f == ep'[e].queue[i]
             IN  /\ f.kind = "failed" => proc'[f.g].pc = "ended" /\ f.g \notin srv'.pending
                 /\ f.kind = "exit" => proc'[f.g].terminal
  <2>1. CASE from[e][i] \in DOMAIN ep[e].queue /\ ep'[e].queue[i] = ep[e].queue[from[e][i]]
    <3>1. PICK k \in DOMAIN ep[e].queue : ep'[e].queue[i] = ep[e].queue[k]
      BY <2>1
    <3>2. /\ ep[e].queue[k].kind = "failed" =>
                proc[ep[e].queue[k].g].pc = "ended" /\ ep[e].queue[k].g \notin srv.pending
          /\ ep[e].queue[k].kind = "exit" => proc[ep[e].queue[k].g].terminal
      BY FrameFacts
    <3>. QED BY <1>1, <3>1, <3>2
  <2>2. CASE ep'[e].queue[i].kind # "failed"
             /\ (ep'[e].queue[i].kind = "exit" => proc'[ep'[e].queue[i].g].terminal)
    BY <2>2
  <2>. QED BY <2>1, <2>2
<1>3. ASSUME NEW e \in Endpoints, NEW d \in Endpoints, NEW i \in DOMAIN ep'[e].queue,
             NEW j \in DOMAIN ep'[d].queue,
             ep'[e].queue[i].kind = "failed", ep'[d].queue[j].kind = "failed",
             ep'[e].queue[i].g = ep'[d].queue[j].g
      PROVE  e = d /\ i = j
  <2>1. /\ from[e][i] \in DOMAIN ep[e].queue /\ ep'[e].queue[i] = ep[e].queue[from[e][i]]
        /\ from[d][j] \in DOMAIN ep[d].queue /\ ep'[d].queue[j] = ep[d].queue[from[d][j]]
    BY <1>3, ZenonT(60)
  <2>2. e = d /\ from[e][i] = from[d][j]
    <3>1. PICK k \in DOMAIN ep[e].queue, l \in DOMAIN ep[d].queue : from[e][i] = k /\ from[d][j] = l
      BY <2>1
    <3>2. ep[e].queue[k].kind = "failed" /\ ep[d].queue[l].kind = "failed" /\ ep[e].queue[k].g = ep[d].queue[l].g
      BY <1>3, <2>1, <3>1
    <3>. QED BY <3>1, <3>2, FailureOnce
  <2>. QED BY <2>2
<1>4. \A e \in Endpoints : \A i \in DOMAIN ep'[e].queue :
        /\ ep'[e].queue[i].kind = "failed" =>
             proc'[ep'[e].queue[i].g].pc = "ended" /\ ep'[e].queue[i].g \notin srv'.pending
        /\ ep'[e].queue[i].kind = "exit" => proc'[ep'[e].queue[i].g].terminal
  BY <1>2
<1>5. \A e, d \in Endpoints : \A i \in DOMAIN ep'[e].queue, j \in DOMAIN ep'[d].queue :
        ep'[e].queue[i].kind = "failed" /\ ep'[d].queue[j].kind = "failed"
          /\ ep'[e].queue[i].g = ep'[d].queue[j].g => e = d /\ i = j
  BY <1>3
<1>. QED BY <1>4, <1>5, FramesAre

(* A sequence with one more frame.                                         *)
LEMMA Appended ==
  ASSUME NEW q \in Seq(AnyFrame), NEW f \in AnyFrame
  PROVE  /\ Append(q, f) \in Seq(AnyFrame)
         /\ DOMAIN Append(q, f) = DOMAIN q \cup {Len(q) + 1} /\ Len(q) + 1 \notin DOMAIN q
         /\ \A i \in DOMAIN q : Append(q, f)[i] = q[i]
         /\ Append(q, f)[Len(q) + 1] = f
<1>1. Append(q, f) \in Seq(AnyFrame) /\ Len(q) \in Nat /\ DOMAIN q = 1..Len(q)
      /\ Len(Append(q, f)) = Len(q) + 1 /\ DOMAIN Append(q, f) = 1..(Len(q) + 1)
      /\ \A i \in 1..Len(q) : Append(q, f)[i] = q[i]
      /\ Append(q, f)[Len(q) + 1] = f
  OBVIOUS
<1>. QED BY <1>1

(* Where the frames after one that is written come from.                   *)
Shifted(k, i) == IF i < k THEN i ELSE i + 1

(* A sequence without its k-th frame.                                      *)
LEMMA Removed ==
  ASSUME NEW q \in Seq(AnyFrame), NEW k \in DOMAIN q
  PROVE  LET r == RemoveAt(q, k)
         IN  /\ r \in Seq(AnyFrame)
             /\ \A i \in DOMAIN r : /\ i \in Int /\ Shifted(k, i) \in DOMAIN q \ {k}
                                    /\ r[i] = q[Shifted(k, i)]
             /\ \A i \in DOMAIN q \ {k} : \E j \in DOMAIN r : Shifted(k, j) = i
             /\ \A i, j \in DOMAIN r : Shifted(k, i) = Shifted(k, j) => i = j
<1> DEFINE r == RemoveAt(q, k)
<1>1. Len(q) \in Nat /\ DOMAIN q = 1..Len(q) /\ k \in 1..Len(q)
  OBVIOUS
<1>2. /\ SubSeq(q, 1, k - 1) \in Seq(AnyFrame) /\ Len(SubSeq(q, 1, k - 1)) = k - 1
      /\ \A i \in 1..(k - 1) : SubSeq(q, 1, k - 1)[i] = q[i]
  BY <1>1, SubSeqProperties
<1>3. /\ SubSeq(q, k + 1, Len(q)) \in Seq(AnyFrame) /\ Len(SubSeq(q, k + 1, Len(q))) = Len(q) - k
      /\ \A i \in 1..(Len(q) - k) : SubSeq(q, k + 1, Len(q))[i] = q[k + i]
  BY <1>1, SubSeqProperties, SMTT(30)
<1> DEFINE a == SubSeq(q, 1, k - 1)
           b == SubSeq(q, k + 1, Len(q))
<1>4. r = a \o b
  BY DEF RemoveAt
<1> HIDE DEF r, a, b
<1>a. /\ a \in Seq(AnyFrame) /\ b \in Seq(AnyFrame) /\ Len(a) = k - 1 /\ Len(b) = Len(q) - k
      /\ \A i \in 1..(k - 1) : a[i] = q[i]
      /\ \A i \in 1..(Len(q) - k) : b[i] = q[k + i]
  BY <1>2, <1>3 DEF a, b
<1>5. /\ r \in Seq(AnyFrame) /\ Len(r) = Len(a) + Len(b)
      /\ \A i \in 1..(Len(a) + Len(b)) : r[i] = IF i =< Len(a) THEN a[i] ELSE b[i - Len(a)]
  BY <1>4, <1>a, ConcatProperties
<1>6. \A i \in 1..(Len(q) - 1) : r[i] = IF i < k THEN q[i] ELSE q[i + 1]
  <2>1. Len(a) + Len(b) = Len(q) - 1
    BY <1>1, <1>a
  <2>2. \A i \in 1..(Len(q) - 1) : i < k => i =< k - 1 /\ i \in 1..(k - 1)
    BY <1>1
  <2>3. \A i \in 1..(Len(q) - 1) : ~(i < k) =>
          ~(i =< k - 1) /\ i - (k - 1) \in 1..(Len(q) - k) /\ k + (i - (k - 1)) = i + 1
    BY <1>1
  <2>. QED BY <1>a, <1>5, <2>1, <2>2, <2>3, SMTT(30)
<1>7a. Len(r) = Len(q) - 1
  BY <1>1, <1>5, <1>a
<1>7. DOMAIN r = 1..(Len(q) - 1)
  BY <1>5, <1>7a
<1>8. \A i \in DOMAIN r : i \in Int /\ Shifted(k, i) \in DOMAIN q \ {k} /\ r[i] = q[Shifted(k, i)]
  BY <1>1, <1>6, <1>7 DEF Shifted
<1>9. \A i \in DOMAIN q \ {k} : \E j \in DOMAIN r : Shifted(k, j) = i
  <2>1. ASSUME NEW i \in DOMAIN q \ {k} PROVE \E j \in DOMAIN r : Shifted(k, j) = i
    <3>1. CASE i < k
      <4>1. i \in DOMAIN r /\ Shifted(k, i) = i
        BY <1>1, <1>7, <3>1 DEF Shifted
      <4>. QED BY <4>1
    <3>2. CASE i > k
      <4>1. i - 1 \in DOMAIN r /\ Shifted(k, i - 1) = i
        BY <1>1, <1>7, <3>2 DEF Shifted
      <4>. QED BY <4>1
    <3>. QED BY <1>1, <3>1, <3>2
  <2>. QED BY <2>1
<1>10. \A i, j \in DOMAIN r : Shifted(k, i) = Shifted(k, j) => i = j
  BY <1>1, <1>7 DEF Shifted
<1>. QED BY <1>5, <1>8, <1>9, <1>10 DEF r

(* One place is given back.                                                *)
LEMMA OneGivenBack ==
  ASSUME ProcInv, NEW g \in Generations, g \in Charged, Charged' = Charged \ {g},
         srv'.generations = Less(srv.generations, 1)
  PROVE  GenerationsAreCharged'
<1>1. Charged \subseteq Generations /\ srv.generations \in Nat /\ MaxGenerations \in Nat
  BY ChargedTyped, ProcConstants DEF ProcInv, ProcTypes, SrvTypeOK
<1>2. Cardinality(Charged') = Cardinality(Charged) - 1 /\ Cardinality(Charged) > 0
  BY <1>1, GenerationsFinite
<1>3. srv.generations = Cardinality(Charged) /\ srv.generations =< MaxGenerations
  BY DEF ProcInv, GenerationsAreCharged
<1>. QED BY <1>1, <1>2, <1>3 DEF GenerationsAreCharged, Less

(* Places are given back for a set of generations that held them.          *)
LEMMA SomeGivenBack ==
  ASSUME ProcInv, NEW S, S \subseteq Charged, Charged' = Charged \ S,
         srv'.generations = Less(srv.generations, Cardinality(S))
  PROVE  GenerationsAreCharged'
<1>1. Charged \subseteq Generations /\ srv.generations \in Nat /\ MaxGenerations \in Nat
  BY ChargedTyped, ProcConstants DEF ProcInv, ProcTypes, SrvTypeOK
<1>2. /\ IsFiniteSet(Charged) /\ Cardinality(Charged) \in Nat /\ Cardinality(S) \in Nat
      /\ Cardinality(Charged \ S) \in Nat
  <2>1. S \in SUBSET Generations /\ Charged \in SUBSET Generations
        /\ Charged \ S \in SUBSET Generations
    BY <1>1
  <2>. QED BY <2>1, GenerationsFinite
<1>3. Cardinality(Charged \ S) = Cardinality(Charged) - Cardinality(S)
  <2>1. Charged \cap S = S
    OBVIOUS
  <2>2. Cardinality(Charged \ S) = Cardinality(Charged) - Cardinality(Charged \cap S)
    BY <1>2, FS_Difference
  <2>. QED BY <2>1, <2>2
<1>4. srv.generations = Cardinality(Charged) /\ srv.generations =< MaxGenerations
  BY DEF ProcInv, GenerationsAreCharged
<1>. QED BY <1>1, <1>2, <1>3, <1>4 DEF GenerationsAreCharged, Less

(* Nothing is given back when nobody who held a place is gone.             *)
LEMMA NoneGivenBack ==
  ASSUME ProcInv, Charged' = Charged, srv'.generations = srv.generations
  PROVE  GenerationsAreCharged'
BY DEF ProcInv, GenerationsAreCharged

-----------------------------------------------------------------------------
(* Server::shutdown.                                                       *)

(* Records that do not change are quiet.                                   *)
LEMMA NothingChanges ==
  ASSUME ProcInv, proc' = proc
  PROVE  DOMAIN proc' = Generations /\ \A g \in Generations : QuietRun(proc[g], proc'[g])
BY RecordsOK DEF QuietRun, ProcInv, ProcTypes

(* What each step of it may assume of the server's record.                 *)
LEMMA ServerFacts ==
  ASSUME ProcInv
  PROVE  SrvTypeOK /\ ShutOK /\ ProcTypes
BY DEF ProcInv, ProcTypes

(* Server::shutdown stops accepting and takes the pending spawns.          *)
LEMMA ServerClosesKeeps ==
  ASSUME ProcInv, ServerCloses
  PROVE  ProcInv'
<1>0. SrvTypeOK /\ ShutOK /\ ProcTypes
  BY ServerFacts
<1>1. /\ srv' = [srv EXCEPT !.accepting = FALSE, !.stage = "cancel", !.todo = srv.pending]
      /\ ep' = ep /\ proc' = proc /\ srv.stage = "up"
  BY DEF ServerCloses
<1>2. /\ DOMAIN srv' = DOMAIN srv /\ srv'.accepting = FALSE /\ srv'.stage = "cancel"
      /\ srv'.todo = srv.pending /\ srv'.generations = srv.generations
      /\ srv'.pending = srv.pending /\ srv'.live = srv.live /\ srv'.finals = srv.finals
      /\ srv'.freeing = srv.freeing /\ srv'.waits = srv.waits /\ srv'.mine = srv.mine
  BY <1>0, <1>1 DEF SrvTypeOK
<1>3. SrvTypeOK'
  BY <1>0, <1>2 DEF SrvTypeOK, Stages
<1>4. \A g \in srv.pending : proc[g].pc # "none"
  <2>1. \A g \in srv.pending : g \in Generations
    BY <1>0 DEF SrvTypeOK
  <2>. QED BY <2>1, SpawnFacts DEF PlaceOK, Pendings
<1>5. ShutOK'
  BY <1>1, <1>2, <1>4 DEF ShutOK
<1>6. srv'.freeing = {}
  BY <1>0, <1>1, <1>2 DEF ShutOK
<1>. QED BY <1>1, <1>2, <1>3, <1>5, <1>6, NothingChanges, ServerStep

(* Server::shutdown has waited, and takes the live records.                *)
LEMMA ServerSnapshotsKeeps ==
  ASSUME ProcInv, ServerSnapshots
  PROVE  ProcInv'
<1>0. SrvTypeOK /\ ShutOK /\ ProcTypes
  BY ServerFacts
<1>1. /\ srv' = [srv EXCEPT !.stage = "slots", !.mine = srv.live, !.todo = srv.live, !.waits = {}]
      /\ ep' = ep /\ proc' = proc /\ srv.stage = "cancel" /\ srv.todo = {} /\ srv.freeing = {}
      /\ \A g \in srv.waits : proc[g].completed
  BY DEF ServerSnapshots
<1>2. /\ DOMAIN srv' = DOMAIN srv /\ srv'.accepting = srv.accepting /\ srv'.stage = "slots"
      /\ srv'.todo = srv.live /\ srv'.generations = srv.generations
      /\ srv'.pending = srv.pending /\ srv'.live = srv.live /\ srv'.finals = srv.finals
      /\ srv'.freeing = srv.freeing /\ srv'.mine = srv.live
  BY <1>0, <1>1 DEF SrvTypeOK
<1>3. SrvTypeOK'
  BY <1>0, <1>2 DEF SrvTypeOK, Stages
<1>4. srv.pending = {}
  <2>1. ASSUME NEW g \in srv.pending PROVE FALSE
    <3>1. g \in Generations /\ g \in srv.waits
      BY <1>0, <1>1 DEF SrvTypeOK, ShutOK
    <3>. QED BY <1>1, <3>1, SpawnFacts DEF PlaceOK
  <2>. QED BY <2>1
<1>5. \A g \in srv.live : proc[g].pc \in HasRecord
  <2>1. \A g \in srv.live : g \in Generations
    BY <1>0 DEF SrvTypeOK
  <2>. QED BY <2>1, SpawnFacts DEF PlaceOK
<1>6. ShutOK'
  BY <1>0, <1>1, <1>2, <1>4, <1>5 DEF ShutOK
<1>. QED BY <1>1, <1>2, <1>3, <1>6, NothingChanges, ServerStep

(* A step that only lets results that are kept go.                         *)
LEMMA FinalsGo ==
  ASSUME ProcInv, ep' = ep, proc' = proc, SrvTypeOK',
         srv'.pending = srv.pending, srv'.live = srv.live, srv'.finals \subseteq srv.finals,
         srv.stage \in {"finals", "down"} => srv'.stage \in {"finals", "down"},
         srv'.stage = "cancel" => srv.stage = "cancel" /\ srv'.freeing = srv.freeing,
         ShutOK', GenerationsAreCharged'
  PROVE  ProcInv'
<1>1. ProcTypes'
  BY DEF ProcInv, ProcTypes, EpTypeOK
<1>2. Places'
  BY DEF ProcInv, Places, PlaceOK
<1>4. CancelsOK'
  BY DEF ProcInv, CancelsOK, Cancelled
<1>6. FramesOK'
  <2>1. \A e \in Endpoints : ep[e].queue \in Seq(AnyFrame) /\ ep'[e].queue = ep[e].queue
    BY DEF ProcInv, ProcTypes, EpTypeOK
  <2>. QED BY <2>1, FramesStay DEF ProcInv
<1>7. SlotsOK'
  <2>. SUFFICES ASSUME NEW e \in Endpoints PROVE IdsOf(e)'
    BY DEF SlotsOK
  <2>1. \A g \in Generations : SameEnds(proc[g], proc'[g])
    BY DEF SameEnds
  <2>. QED BY <2>1, IdsStay DEF ProcInv, SlotsOK
<1>. QED BY <1>1, <1>2, <1>4, ShutOK', <1>6, <1>7, GenerationsAreCharged' DEF ProcInv

(* A result that was kept expires, with its place.                         *)
LEMMA FinalExpiresKeeps ==
  ASSUME ProcInv, NEW g \in Generations, FinalExpires(g)
  PROVE  ProcInv'
<1>0. SrvTypeOK /\ ShutOK /\ ProcTypes
  BY ServerFacts
<1>1. /\ srv' = [srv EXCEPT !.finals = @ \ {g}, !.generations = Less(@, 1)]
      /\ ep' = ep /\ proc' = proc /\ g \in srv.finals
  BY DEF FinalExpires
<1>2. /\ DOMAIN srv' = DOMAIN srv /\ srv'.accepting = srv.accepting /\ srv'.stage = srv.stage
      /\ srv'.todo = srv.todo /\ srv'.generations = Less(srv.generations, 1)
      /\ srv'.pending = srv.pending /\ srv'.live = srv.live /\ srv'.finals = srv.finals \ {g}
      /\ srv'.freeing = srv.freeing /\ srv'.waits = srv.waits /\ srv'.mine = srv.mine
  BY <1>0, <1>1 DEF SrvTypeOK
<1>3. SrvTypeOK'
  BY <1>0, <1>2 DEF SrvTypeOK, Less
<1>4. ShutOK'
  BY <1>0, <1>1, <1>2 DEF ShutOK
<1>5. GenerationsAreCharged'
  <2>1. FailuresOnTheirWay' = FailuresOnTheirWay
    BY <1>1 DEF FailuresOnTheirWay
  <2>2. g \notin FailuresOnTheirWay /\ g \notin srv.live /\ g \notin srv.pending
    <3>1. g \notin srv.live /\ proc[g].terminal /\ proc[g].pc = "up"
      BY <1>1, SpawnFacts DEF PlaceOK, RunOK
    <3>2. g \notin srv.pending
      BY <3>1, SpawnFacts DEF PlaceOK, Pendings
    <3>. QED BY <1>1, <3>1, <3>2, FailuresAreOver
  <2>3. Charged' = Charged \ {g} /\ g \in Charged
    BY <1>1, <1>2, <2>1, <2>2 DEF Charged
  <2>. QED BY <1>2, <2>3, OneGivenBack
<1>. QED BY <1>1, <1>2, <1>3, <1>4, <1>5, FinalsGo

(* Server::shutdown drops the results that were kept.                      *)
LEMMA ServerClearsKeeps ==
  ASSUME ProcInv, ServerClears
  PROVE  ProcInv'
<1>0. SrvTypeOK /\ ShutOK /\ ProcTypes
  BY ServerFacts
<1>1. /\ srv' = [srv EXCEPT !.stage = "down", !.finals = {},
                            !.generations = Less(@, Cardinality(srv.finals))]
      /\ ep' = ep /\ proc' = proc /\ srv.stage = "finals"
  BY DEF ServerClears
<1>2. /\ DOMAIN srv' = DOMAIN srv /\ srv'.accepting = srv.accepting /\ srv'.stage = "down"
      /\ srv'.todo = srv.todo /\ srv'.generations = Less(srv.generations, Cardinality(srv.finals))
      /\ srv'.pending = srv.pending /\ srv'.live = srv.live /\ srv'.finals = {}
      /\ srv'.freeing = srv.freeing /\ srv'.waits = srv.waits /\ srv'.mine = srv.mine
  BY <1>0, <1>1 DEF SrvTypeOK
<1>c. Cardinality(srv.finals) \in Nat /\ srv.generations \in Nat
  BY <1>0, GenerationsFinite DEF SrvTypeOK
<1>3. SrvTypeOK'
  BY <1>0, <1>2, <1>c DEF SrvTypeOK, Less, Stages
<1>4. ShutOK'
  BY <1>0, <1>1, <1>2 DEF ShutOK
<1>5. GenerationsAreCharged'
  <2>1. FailuresOnTheirWay' = FailuresOnTheirWay /\ FailuresOnTheirWay \subseteq Generations
    BY <1>1, FailuresTyped DEF FailuresOnTheirWay
  <2>2. Charged = srv.finals \cup FailuresOnTheirWay /\ Charged' = FailuresOnTheirWay
    BY <1>0, <1>1, <1>2, <2>1 DEF Charged, ShutOK
  <2>3. srv.finals \cap FailuresOnTheirWay = {}
    BY <2>1, FailuresAreOver
  <2>4. srv.finals \subseteq Charged /\ Charged' = Charged \ srv.finals
    BY <2>2, <2>3
  <2>. QED BY <1>2, <2>4, SomeGivenBack
<1>. QED BY <1>1, <1>2, <1>3, <1>4, <1>5, FinalsGo

(* A pending spawn that was cancelled gives its place and its id back.     *)
LEMMA GivesUp ==
  ASSUME ProcInv, NEW g \in Generations, Cancelled(g),
         proc' = [proc EXCEPT ![g].completed = TRUE],
         SrvTypeOK', srv'.pending = srv.pending \ {g}, srv'.generations = Less(srv.generations, 1),
         srv'.live = srv.live, srv'.finals = srv.finals, srv'.stage = srv.stage,
         srv'.freeing \subseteq srv.freeing, ShutOK',
         srv.stage = "cancel" => g \notin srv'.freeing,
         DOMAIN ep' = Endpoints,
         \A e \in Endpoints :
           /\ EpTypeOK(ep'[e]) /\ ep'[e].work \subseteq ep[e].work
           /\ ep'[e].accepting = ep[e].accepting /\ ep'[e].queue = ep[e].queue
           /\ ep'[e].kicked = ep[e].kicked /\ ep'[e].stage = ep[e].stage
           /\ \A id \in ProcessIds :
                \/ ep'[e].slots[id] = ep[e].slots[id]
                \/ ep'[e].slots[id] = Free /\ ep[e].slots[id] = PendingSlot(g)
           /\ \A w \in ep'[e].work : w.slot.kind = "cancelled" => w.slot.g # g
  PROVE  ProcInv'
<1> DEFINE p == proc[g]
           q == proc'[g]
<1>0. /\ ProcTypeOK(p) /\ RunOK(p) /\ PlaceOK(g, p, srv.pending, srv.live, srv.finals, srv.stage)
      /\ DOMAIN proc = Generations /\ ProcTypes
  BY SpawnFacts DEF ProcInv
<1>1. DOMAIN proc' = Generations /\ \A h \in Generations \ {g} : proc'[h] = proc[h]
  BY <1>0
<1>2. q = [p EXCEPT !.completed = TRUE]
  BY <1>0
<1>3. /\ q.owner = p.owner /\ q.id = p.id /\ q.child = p.child /\ q.pc = p.pc /\ q.phase = p.phase
      /\ q.completed = TRUE /\ q.released = p.released /\ q.lost = p.lost
      /\ q.detachable = p.detachable /\ q.reaped = p.reaped /\ q.io = p.io /\ q.cleaned = p.cleaned
      /\ q.terminal = p.terminal /\ q.publishing = p.publishing /\ q.exits = p.exits
      /\ q.bindings = p.bindings /\ q.ownerAlive = p.ownerAlive /\ DOMAIN q = DOMAIN p
  BY <1>0, <1>2 DEF ProcTypeOK, NoProc
<1>4. p.pc \in {"queued", "ended"} /\ p.phase = "done" /\ g \in srv.pending
  BY DEF Cancelled
<1> HIDE DEF p, q
<1>5. ProcTypeOK(q) /\ RunOK(q)
  <2>1. ProcTypeOK(q)
    BY <1>0, <1>3 DEF ProcTypeOK
  <2>2. RunOK(q)
    BY <1>0, <1>3 DEF RunOK
  <2>. QED BY <2>1, <2>2
<1>6. ProcTypes'
  BY <1>0, <1>1, <1>5 DEF ProcTypes, q
<1>7. Places'
  <2>1. PlaceOK(g, q, srv'.pending, srv'.live, srv'.finals, srv'.stage)
    BY <1>0, <1>3, <1>4 DEF PlaceOK, HasRecord, Claimed, Pendings
  <2>2. \A h \in Generations \ {g} :
          RunOK(proc[h]) /\ PlaceOK(h, proc[h], srv'.pending, srv'.live, srv'.finals, srv'.stage)
    BY SpawnFacts DEF PlaceOK
  <2>. QED BY <1>1, <1>5, <2>1, <2>2 DEF Places, q
<1>8. CancelsOK'
  <2>1. \A h \in Generations : h # g /\ Cancelled(h) => Cancelled(h)'
    BY <1>1 DEF Cancelled
  <2>2. \A e \in Endpoints : \A w \in ep[e].work : w.slot.g \in Generations
    <3>1. \A e \in Endpoints : ep[e].work \subseteq AnyWork
      BY <1>0 DEF ProcTypes, EpTypeOK
    <3>. QED BY <3>1 DEF AnyWork
  <2>3. srv'.stage = "cancel" => \A h \in srv'.freeing : Cancelled(h)'
    BY <2>1 DEF CancelsOK, ProcInv, SrvTypeOK
  <2>4. ASSUME NEW e \in Endpoints, NEW w \in ep'[e].work
        PROVE  /\ w.slot.kind = "pending" => proc'[w.slot.g].pc # "none"
               /\ w.slot.kind = "cancelled" =>
                    Cancelled(w.slot.g)' /\ ~(srv'.stage = "cancel" /\ w.slot.g \in srv'.freeing)
    <3>1. proc[w.slot.g].pc # "none" => proc'[w.slot.g].pc # "none"
      BY <1>1, <1>3, <2>2 DEF p, q
    <3>. QED BY <2>1, <2>2, <3>1 DEF CancelsOK, ProcInv
  <2>5. \A e, f \in Endpoints : \A w \in ep'[e].work, v \in ep'[f].work :
          w.slot.kind = "cancelled" /\ v.slot.kind = "cancelled" /\ w.slot.g = v.slot.g => e = f /\ w = v
    BY DEF CancelsOK, ProcInv
  <2>. QED BY <2>3, <2>4, <2>5 DEF CancelsOK
<1>9. FramesOK'
  <2>1. \A e \in Endpoints : ep[e].queue \in Seq(AnyFrame) /\ ep'[e].queue = ep[e].queue
    BY <1>0 DEF ProcTypes, EpTypeOK
  <2>2. \A h \in Generations :
          (proc[h].pc = "ended" => proc'[h].pc = "ended") /\ (proc[h].terminal => proc'[h].terminal)
    BY <1>1, <1>3 DEF p, q
  <2>. QED BY <2>1, <2>2, FramesStay DEF ProcInv
<1>10. SlotsOK'
  <2>. SUFFICES ASSUME NEW e \in Endpoints PROVE IdsOf(e)'
    BY DEF SlotsOK
  <2>1. IdsOf(e)
    BY DEF ProcInv, SlotsOK
  <2>2. \A h \in Generations : SameEnds(proc[h], proc'[h])
    BY <1>1, <1>3 DEF SameEnds, Claims, p, q
  <2>3. \A id, h, i : FreedBy(e, id, h, i)' <=> FreedBy(e, id, h, i)
    BY DEF FreedBy
  <2>4. \A id, h : FrameIn(e, id, h)' <=> FrameIn(e, id, h)
    BY <2>3 DEF FrameIn
  <2>5. ep[e].stage = "open" => \A id \in ProcessIds, a, h \in Generations :
           \A i, j \in DOMAIN ep'[e].queue : FreedBy(e, id, a, i)' /\ FreedBy(e, id, h, j)' => i = j
    BY <2>1, <2>3 DEF IdsOf, SlotOK
  <2>6. \A id \in ProcessIds : ~Held(e, id, g)
    BY <1>0, <1>4 DEF Held, RunOK, HasRecord, p
  <2>7. ~Claims(proc'[g])
    BY <1>3, <1>4 DEF Claims, q
  <2>8. \A id \in ProcessIds : \/ ep'[e].slots[id] = ep[e].slots[id]
                               \/ ep'[e].slots[id] = Free /\ GivenBack(e, id)
    BY <2>6, <2>7 DEF GivenBack
  <2>. QED BY <2>1, <2>2, <2>4, <2>5, <2>8, IdsEdit
<1>11. GenerationsAreCharged'
  <2>1. FailuresOnTheirWay' = FailuresOnTheirWay
    BY DEF FailuresOnTheirWay
  <2>2. g \notin FailuresOnTheirWay /\ g \notin srv.live /\ g \notin srv.finals
    BY <1>0, <1>4, FailuresAreOver DEF PlaceOK, HasRecord, RunOK, p
  <2>3. Charged' = Charged \ {g} /\ g \in Charged
    BY <1>4, <2>1, <2>2 DEF Charged
  <2>. QED BY <2>3, OneGivenBack
<1>. QED BY <1>6, <1>7, <1>8, <1>9, <1>10, <1>11 DEF ProcInv

(* Cancelling a spawn that has no permit.                                  *)
LEMMA Cancels ==
  ASSUME ProcInv, NEW g \in Generations, proc[g].pc # "none", proc[g].phase = "queued",
         NEW q, proc' = [proc EXCEPT ![g] = q],
         q = [proc[g] EXCEPT !.phase = "done"] \/ q = [proc[g] EXCEPT !.lost = TRUE, !.phase = "done"],
         SrvTypeOK', srv'.pending = srv.pending, srv'.generations = srv.generations,
         srv'.live = srv.live, srv'.finals = srv.finals, srv'.stage = srv.stage, ShutOK',
         DOMAIN ep' = Endpoints,
         \A e \in Endpoints :
           /\ EpTypeOK(ep'[e]) /\ (ep[e].stage = "open" => ep'[e].work \subseteq ep[e].work)
           /\ ep'[e].accepting = ep[e].accepting /\ ep'[e].queue = ep[e].queue
           /\ ep'[e].kicked = ep[e].kicked /\ ep'[e].stage = ep[e].stage
           /\ ep'[e].slots = ep[e].slots,
         (/\ Cancelled(g)'
          /\ \A h \in Generations : Cancelled(h) => Cancelled(h)'
          /\ ~Cancelled(g) /\ \A h \in Generations : proc[h].pc # "none" => proc'[h].pc # "none")
            => CancelsOK'
  PROVE  ProcInv'
<1> DEFINE p == proc[g]
<1>0. /\ ProcTypeOK(p) /\ RunOK(p) /\ PlaceOK(g, p, srv.pending, srv.live, srv.finals, srv.stage)
      /\ DOMAIN proc = Generations /\ ProcTypes
  BY SpawnFacts DEF ProcInv
<1>1. DOMAIN proc' = Generations /\ proc'[g] = q /\ \A h \in Generations \ {g} : proc'[h] = proc[h]
  BY <1>0
<1>3. /\ q.owner = p.owner /\ q.id = p.id /\ q.child = p.child /\ q.pc = p.pc /\ q.phase = "done"
      /\ q.completed = p.completed /\ q.released = p.released /\ q.lost \in BOOLEAN
      /\ q.detachable = p.detachable /\ q.reaped = p.reaped /\ q.io = p.io /\ q.cleaned = p.cleaned
      /\ q.terminal = p.terminal /\ q.publishing = p.publishing /\ q.exits = p.exits
      /\ q.bindings = p.bindings /\ q.ownerAlive = p.ownerAlive /\ DOMAIN q = DOMAIN p
  BY <1>0, ZenonT(60) DEF ProcTypeOK, NoProc
<1>4. p.pc = "queued" /\ p.phase = "queued" /\ g \in srv.pending
  BY <1>0 DEF RunOK, PlaceOK, Claimed, HasRecord, ProcTypeOK
<1> HIDE DEF p
<1>5. ProcTypeOK(q) /\ RunOK(q)
  BY <1>0, <1>3, <1>4 DEF ProcTypeOK, RunOK
<1>6. ProcTypes'
  BY <1>0, <1>1, <1>5 DEF ProcTypes
<1>7. Places'
  <2>1. PlaceOK(g, q, srv'.pending, srv'.live, srv'.finals, srv'.stage)
    BY <1>0, <1>3, <1>4 DEF PlaceOK, HasRecord, Claimed, Pendings
  <2>2. \A h \in Generations \ {g} :
          RunOK(proc[h]) /\ PlaceOK(h, proc[h], srv'.pending, srv'.live, srv'.finals, srv'.stage)
    BY SpawnFacts
  <2>. QED BY <1>1, <1>5, <2>1, <2>2 DEF Places
<1>8. CancelsOK'
  <2>1. Cancelled(g)' /\ ~Cancelled(g)
    BY <1>1, <1>3, <1>4 DEF Cancelled
  <2>2. \A h \in Generations : Cancelled(h) => Cancelled(h)'
    BY <1>1, <2>1 DEF Cancelled
  <2>3. \A h \in Generations : proc[h].pc # "none" => proc'[h].pc # "none"
    BY <1>1, <1>3 DEF p
  <2>. QED BY <2>1, <2>2, <2>3
<1>9. FramesOK'
  <2>1. \A e \in Endpoints : ep[e].queue \in Seq(AnyFrame) /\ ep'[e].queue = ep[e].queue
    BY <1>0 DEF ProcTypes, EpTypeOK
  <2>2. \A h \in Generations :
          (proc[h].pc = "ended" => proc'[h].pc = "ended") /\ (proc[h].terminal => proc'[h].terminal)
    BY <1>1, <1>3 DEF p
  <2>. QED BY <2>1, <2>2, FramesStay DEF ProcInv
<1>10. SlotsOK'
  <2>. SUFFICES ASSUME NEW e \in Endpoints PROVE IdsOf(e)'
    BY DEF SlotsOK
  <2>1. IdsOf(e)
    BY DEF ProcInv, SlotsOK
  <2>2. \A h \in Generations : SameEnds(proc[h], proc'[h])
    BY <1>1, <1>3 DEF SameEnds, Claims, p
  <2>3. \A id, h, i : FreedBy(e, id, h, i)' <=> FreedBy(e, id, h, i)
    BY DEF FreedBy
  <2>4. \A id, h : FrameIn(e, id, h)' <=> FrameIn(e, id, h)
    BY <2>3 DEF FrameIn
  <2>5. ep[e].stage = "open" => \A id \in ProcessIds, a, h \in Generations :
           \A i, j \in DOMAIN ep'[e].queue : FreedBy(e, id, a, i)' /\ FreedBy(e, id, h, j)' => i = j
    BY <2>1, <2>3 DEF IdsOf, SlotOK
  <2>. QED BY <2>1, <2>2, <2>4, <2>5, IdsEdit
<1>11. GenerationsAreCharged'
  BY ChargesStay DEF ProcInv
<1>. QED BY <1>6, <1>7, <1>8, <1>9, <1>10, <1>11 DEF ProcInv

(* What ReleasePending does to the endpoints.                              *)
LEMMA SlotGivenUp ==
  ASSUME NEW E, DOMAIN E = Endpoints, \A e \in Endpoints : EpTypeOK(E[e]),
         NEW o \in Endpoints, NEW id \in ProcessIds, NEW g \in Generations, NEW F,
         F = [E EXCEPT ![o].slots[id] = IF @ = PendingSlot(g) THEN Free ELSE @]
  PROVE  /\ DOMAIN F = Endpoints
         /\ \A e \in Endpoints :
              /\ EpTypeOK(F[e]) /\ F[e].work = E[e].work
              /\ F[e].accepting = E[e].accepting /\ F[e].queue = E[e].queue
              /\ F[e].kicked = E[e].kicked /\ F[e].stage = E[e].stage
              /\ \A i \in ProcessIds :
                   \/ F[e].slots[i] = E[e].slots[i]
                   \/ F[e].slots[i] = Free /\ E[e].slots[i] = PendingSlot(g)
<1> DEFINE to == IF E[o].slots[id] = PendingSlot(g) THEN Free ELSE E[o].slots[id]
<1>1. DOMAIN F = Endpoints /\ \A e \in Endpoints \ {o} : F[e] = E[e]
  OBVIOUS
<1>2. /\ DOMAIN F[o] = DOMAIN E[o] /\ F[o].slots = [E[o].slots EXCEPT ![id] = to]
      /\ F[o].work = E[o].work
      /\ F[o].accepting = E[o].accepting /\ F[o].queue = E[o].queue
      /\ F[o].kicked = E[o].kicked /\ F[o].stage = E[o].stage
  BY DEF EpTypeOK
<1>3. E[o].slots \in [ProcessIds -> AnySlot] /\ Free \in AnySlot
  BY DEF EpTypeOK, AnySlot
<1>4. to \in AnySlot
  BY <1>3
<1>5. to = E[o].slots[id] \/ (to = Free /\ E[o].slots[id] = PendingSlot(g))
  OBVIOUS
<1> HIDE DEF to
<1>6. F[o].slots \in [ProcessIds -> AnySlot]
  BY <1>2, <1>3, <1>4
<1>7. EpTypeOK(F[o])
  BY <1>2, <1>6 DEF EpTypeOK
<1>9. \A i \in ProcessIds :
         \/ F[o].slots[i] = E[o].slots[i]
         \/ F[o].slots[i] = Free /\ E[o].slots[i] = PendingSlot(g)
  BY <1>2, <1>3, <1>5
<1>. QED BY <1>1, <1>2, <1>7, <1>9

(* Server::shutdown cancels a spawn, or will wait for it.                  *)
LEMMA ServerCancelsKeeps ==
  ASSUME ProcInv, ServerCancels
  PROVE  ProcInv'
<1>0. SrvTypeOK /\ ShutOK /\ ProcTypes
  BY ServerFacts
<1>1. PICK g \in srv.todo \cup srv.freeing :
        /\ srv.stage = "cancel"
        /\ LET s == [Now EXCEPT !.srv.todo = @ \ {g}, !.srv.freeing = @ \ {g}]
           IN Becomes(
             CASE g \in srv.freeing -> MarkCompleted(ReleasePending(s, g, FALSE), g)
               [] g \notin srv.freeing /\ proc[g].phase = "queued" ->
                    [s EXCEPT !.proc[g].phase = "done", !.srv.freeing = @ \cup {g}]
               [] g \notin srv.freeing /\ proc[g].phase # "queued" ->
                    [s EXCEPT !.srv.waits = @ \cup {g}])
  BY DEF ServerCancels
<1> DEFINE s == [Now EXCEPT !.srv.todo = @ \ {g}, !.srv.freeing = @ \ {g}]
           S == [srv EXCEPT !.todo = @ \ {g}, !.freeing = @ \ {g}]
<1>2. IsState(s) /\ s.srv = S /\ s.ep = ep /\ s.proc = proc
  BY <1>0, NowIs DEF IsState, SrvTypeOK
<1>3. g \in Generations
  BY <1>0 DEF SrvTypeOK
<1>4. /\ DOMAIN S = DOMAIN srv /\ S.accepting = srv.accepting /\ S.stage = srv.stage
      /\ S.todo = srv.todo \ {g} /\ S.generations = srv.generations
      /\ S.pending = srv.pending /\ S.live = srv.live /\ S.finals = srv.finals
      /\ S.freeing = srv.freeing \ {g} /\ S.waits = srv.waits /\ S.mine = srv.mine
  BY <1>0 DEF SrvTypeOK
<1>5. g \notin srv.freeing => g \in srv.todo
  OBVIOUS
<1> HIDE DEF s, S
<1>a. CASE g \in srv.freeing
  <2>1. Becomes(MarkCompleted(ReleasePending(s, g, FALSE), g))
    BY <1>1, <1>a DEF s
  <2> DEFINE t == ReleasePending(s, g, FALSE)
  <2>2. /\ IsState(t) /\ t.proc = proc
        /\ t.srv = [S EXCEPT !.pending = @ \ {g}, !.generations = Less(@, 1)]
        /\ t.ep = [ep EXCEPT ![proc[g].owner].slots[proc[g].id] =
                     IF @ = PendingSlot(g) THEN Free ELSE @]
    <3>1. /\ IsState(t) /\ t.proc = s.proc
          /\ t.srv = [s.srv EXCEPT !.pending = @ \ {g}, !.generations = Less(@, 1)]
          /\ t.ep = [s.ep EXCEPT ![s.proc[g].owner].slots[s.proc[g].id] =
                       IF @ = PendingSlot(g) THEN Free ELSE @]
      BY <1>2, ReleasePendingIs
    <3>. QED BY <1>2, <3>1
  <2> HIDE DEF t
  <2>3. srv' = t.srv /\ ep' = t.ep /\ proc' = [proc EXCEPT ![g].completed = TRUE]
    <3>1. /\ MarkCompleted(t, g).srv = t.srv /\ MarkCompleted(t, g).ep = t.ep
          /\ MarkCompleted(t, g).proc = [t.proc EXCEPT ![g].completed = TRUE]
      BY <2>2, MarkCompletedIs, ZenonT(60)
    <3>2. Becomes(MarkCompleted(t, g))
      BY <2>1 DEF t
    <3>. QED BY <2>2, <3>1, <3>2 DEF Becomes
  <2>4. Cancelled(g)
    BY <1>1, <1>a DEF ProcInv, CancelsOK
  <2>5. proc[g].owner \in Endpoints /\ proc[g].id \in ProcessIds
    BY <1>3, <2>4, SpawnFacts DEF Cancelled, ProcTypeOK
  <2>6. /\ DOMAIN ep = Endpoints /\ \A e \in Endpoints : EpTypeOK(ep[e])
        /\ ep' = [ep EXCEPT ![proc[g].owner].slots[proc[g].id] =
                     IF @ = PendingSlot(g) THEN Free ELSE @]
    BY <1>0, <2>2, <2>3, ZenonT(60) DEF ProcTypes
  <2>7. /\ DOMAIN ep' = Endpoints
        /\ \A e \in Endpoints :
              /\ EpTypeOK(ep'[e]) /\ ep'[e].work = ep[e].work
              /\ ep'[e].accepting = ep[e].accepting /\ ep'[e].queue = ep[e].queue
              /\ ep'[e].kicked = ep[e].kicked /\ ep'[e].stage = ep[e].stage
              /\ \A i \in ProcessIds :
                   \/ ep'[e].slots[i] = ep[e].slots[i]
                   \/ ep'[e].slots[i] = Free /\ ep[e].slots[i] = PendingSlot(g)
    <3>1. PICK o \in Endpoints, i0 \in ProcessIds : proc[g].owner = o /\ proc[g].id = i0
      BY <2>5
    <3>2. o \in Endpoints /\ i0 \in ProcessIds /\ g \in Generations
      BY <1>3, <3>1
    <3>3. ep' = [ep EXCEPT ![o].slots[i0] = IF @ = PendingSlot(g) THEN Free ELSE @]
      BY <2>6, <3>1
    <3> DEFINE to == IF ep[o].slots[i0] = PendingSlot(g) THEN Free ELSE ep[o].slots[i0]
    <3>4. DOMAIN ep' = Endpoints /\ \A e \in Endpoints \ {o} : ep'[e] = ep[e]
      BY <2>6, <3>2, <3>3
    <3>5. /\ DOMAIN ep'[o] = DOMAIN ep[o] /\ ep'[o].slots = [ep[o].slots EXCEPT ![i0] = to]
          /\ ep'[o].work = ep[o].work
          /\ ep'[o].accepting = ep[o].accepting /\ ep'[o].queue = ep[o].queue
          /\ ep'[o].kicked = ep[o].kicked /\ ep'[o].stage = ep[o].stage
      <4>1. ep'[o] = [ep[o] EXCEPT !.slots = [@ EXCEPT ![i0] = to]]
        BY <2>6, <3>2, <3>3
      <4>2. EpTypeOK(ep[o])
        BY <2>6, <3>2
      <4> HIDE DEF to
      <4>. QED BY <4>1, <4>2 DEF EpTypeOK
    <3>6. EpTypeOK(ep[o]) /\ ep[o].slots \in [ProcessIds -> AnySlot] /\ Free \in AnySlot
      BY <2>6, <3>2 DEF EpTypeOK, AnySlot
    <3>7. to \in AnySlot /\ (to = ep[o].slots[i0] \/ (to = Free /\ ep[o].slots[i0] = PendingSlot(g)))
      BY <3>2, <3>6
    <3> HIDE DEF to
    <3>8. ep'[o].slots \in [ProcessIds -> AnySlot]
      BY <3>2, <3>5, <3>6, <3>7
    <3>9. EpTypeOK(ep'[o])
      BY <3>5, <3>6, <3>8 DEF EpTypeOK
    <3>10. \A i \in ProcessIds : \/ ep'[o].slots[i] = ep[o].slots[i]
                                 \/ ep'[o].slots[i] = Free /\ ep[o].slots[i] = PendingSlot(g)
      BY <3>2, <3>5, <3>6, <3>7
    <3>11. \A e \in Endpoints : EpTypeOK(ep[e])
      BY <2>6
    <3>. QED BY <3>4, <3>5, <3>9, <3>10, <3>11
  <2>8. /\ DOMAIN srv' = DOMAIN srv /\ srv'.accepting = srv.accepting /\ srv'.stage = srv.stage
        /\ srv'.todo = srv.todo \ {g} /\ srv'.generations = Less(srv.generations, 1)
        /\ srv'.pending = srv.pending \ {g} /\ srv'.live = srv.live /\ srv'.finals = srv.finals
        /\ srv'.freeing = srv.freeing \ {g} /\ srv'.waits = srv.waits /\ srv'.mine = srv.mine
    <3>1. srv' = [S EXCEPT !.pending = @ \ {g}, !.generations = Less(@, 1)]
      BY <2>2, <2>3
    <3>2. DOMAIN srv = {"accepting", "generations", "pending", "live", "finals", "stage", "todo",
                        "freeing", "waits", "mine"}
      BY <1>0 DEF SrvTypeOK
    <3>. QED BY <1>4, <3>1, <3>2
  <2>9. SrvTypeOK'
    BY <1>0, <2>8 DEF SrvTypeOK, Less
  <2>10. ShutOK'
    <3>1. \A h \in srv'.todo : proc'[h].pc # "none"
      <4>1. \A h \in srv'.todo : h \in Generations /\ proc[h].pc # "none" /\ h # g
        BY <1>0, <1>1, <2>8 DEF SrvTypeOK, ShutOK
      <4>. QED BY <1>0, <2>3, <4>1 DEF ProcTypes
    <3>. QED BY <1>0, <1>1, <2>8, <3>1 DEF ShutOK
  <2>11. \A e \in Endpoints : \A w \in ep'[e].work : w.slot.kind = "cancelled" => w.slot.g # g
    <3>1. \A e \in Endpoints : \A w \in ep[e].work :
            w.slot.kind = "cancelled" => ~(srv.stage = "cancel" /\ w.slot.g \in srv.freeing)
      BY DEF ProcInv, CancelsOK
    <3>. QED BY <1>1, <1>a, <2>7, <3>1
  <2>. QED BY <1>3, <2>3, <2>4, <2>7, <2>8, <2>9, <2>10, <2>11, GivesUp, ZenonT(60)
<1>b. CASE g \notin srv.freeing /\ proc[g].phase = "queued"
  <2>1. Becomes([s EXCEPT !.proc[g].phase = "done", !.srv.freeing = @ \cup {g}])
    BY <1>1, <1>5, <1>b DEF s
  <2>2. proc' = [proc EXCEPT ![g] = [proc[g] EXCEPT !.phase = "done"]] /\ ep' = ep
        /\ srv' = [S EXCEPT !.freeing = @ \cup {g}]
    BY <1>2, <2>1 DEF Becomes, IsState
  <2>3. /\ DOMAIN srv' = DOMAIN srv /\ srv'.accepting = srv.accepting /\ srv'.stage = srv.stage
        /\ srv'.todo = srv.todo \ {g} /\ srv'.generations = srv.generations
        /\ srv'.pending = srv.pending /\ srv'.live = srv.live /\ srv'.finals = srv.finals
        /\ srv'.freeing = srv.freeing \cup {g} /\ srv'.waits = srv.waits /\ srv'.mine = srv.mine
    BY <1>0, <1>4, <2>2 DEF SrvTypeOK
  <2>4. SrvTypeOK'
    BY <1>0, <1>3, <2>3 DEF SrvTypeOK
  <2>5. proc[g].pc # "none"
    BY <1>0, <1>1, <1>5, <1>b DEF ShutOK
  <2>6. ShutOK'
    <3>1. \A h \in srv'.todo : proc'[h].pc # "none"
      <4>1. \A h \in srv'.todo : h \in Generations /\ proc[h].pc # "none" /\ h # g
        BY <1>0, <1>1, <2>3 DEF SrvTypeOK, ShutOK
      <4>. QED BY <1>0, <2>2, <4>1 DEF ProcTypes
    <3>. QED BY <1>0, <1>1, <2>3, <3>1 DEF ShutOK
  <2>7. DOMAIN ep' = Endpoints /\ \A e \in Endpoints : EpTypeOK(ep'[e])
    BY <1>0, <2>2 DEF ProcTypes, EpTypeOK
  <2>8. ASSUME Cancelled(g)', \A h \in Generations : Cancelled(h) => Cancelled(h)',
               ~Cancelled(g), \A h \in Generations : proc[h].pc # "none" => proc'[h].pc # "none"
        PROVE  CancelsOK'
    <3>1. \A e \in Endpoints : \A w \in ep[e].work : w.slot.g \in Generations
      <4>1. \A e \in Endpoints : ep[e].work \subseteq AnyWork
        BY <1>0 DEF ProcTypes, EpTypeOK
      <4>. QED BY <4>1 DEF AnyWork
    <3>2. \A h \in srv'.freeing : Cancelled(h)'
      BY <1>0, <1>1, <2>3, <2>8 DEF CancelsOK, ProcInv, SrvTypeOK
    <3>3. ASSUME NEW e \in Endpoints, NEW w \in ep'[e].work
          PROVE  /\ w.slot.kind = "pending" => proc'[w.slot.g].pc # "none"
                 /\ w.slot.kind = "cancelled" =>
                      Cancelled(w.slot.g)' /\ ~(srv'.stage = "cancel" /\ w.slot.g \in srv'.freeing)
      BY <2>2, <2>3, <2>8, <3>1 DEF CancelsOK, ProcInv
    <3>. QED BY <2>2, <3>2, <3>3 DEF CancelsOK, ProcInv
  <2>. QED BY <1>3, <1>b, <2>2, <2>3, <2>4, <2>5, <2>6, <2>7, <2>8, Cancels
<1>c. CASE g \notin srv.freeing /\ proc[g].phase # "queued"
  <2>1. Becomes([s EXCEPT !.srv.waits = @ \cup {g}])
    BY <1>1, <1>5, <1>c DEF s
  <2>2. proc' = proc /\ ep' = ep /\ srv' = [S EXCEPT !.waits = @ \cup {g}]
    BY <1>2, <2>1 DEF Becomes, IsState
  <2>3. /\ DOMAIN srv' = DOMAIN srv /\ srv'.accepting = srv.accepting /\ srv'.stage = srv.stage
        /\ srv'.todo = srv.todo \ {g} /\ srv'.generations = srv.generations
        /\ srv'.pending = srv.pending /\ srv'.live = srv.live /\ srv'.finals = srv.finals
        /\ srv'.freeing = srv.freeing \ {g} /\ srv'.waits = srv.waits \cup {g} /\ srv'.mine = srv.mine
    BY <1>0, <1>4, <2>2 DEF SrvTypeOK
  <2>4. SrvTypeOK'
    BY <1>0, <2>3 DEF SrvTypeOK
  <2>5. ShutOK'
    BY <1>0, <1>1, <2>2, <2>3 DEF ShutOK
  <2>. QED BY <1>1, <2>2, <2>3, <2>4, <2>5, NothingChanges, ServerStep
<1>. QED BY <1>a, <1>b, <1>c, ZenonT(60)

-----------------------------------------------------------------------------
(* Bindings that come and go.                                              *)

SameRun(p, q) ==
  /\ q.pc = p.pc /\ q.phase = p.phase /\ q.owner = p.owner /\ q.id = p.id
  /\ q.completed = p.completed /\ q.released = p.released /\ q.child = p.child
  /\ q.reaped = p.reaped /\ q.terminal = p.terminal

(* A record keeps its run while its bindings become exits, frames or       *)
(* nothing.                                                                *)
LEMMA EndsStep ==
  ASSUME ProcInv, srv' = srv, NEW g \in Generations, NEW q,
         proc' = [proc EXCEPT ![g] = q], SameRun(proc[g], q), ProcTypeOK(q), RunOK(q),
         DOMAIN ep' = Endpoints,
         \A e \in Endpoints : EpTypeOK(ep'[e]) /\ ep'[e].work \subseteq ep[e].work,
         FramesOK', FailuresOnTheirWay' = FailuresOnTheirWay, SlotsOK'
  PROVE  ProcInv'
<1>0. ProcTypes /\ PlaceOK(g, proc[g], srv.pending, srv.live, srv.finals, srv.stage)
  BY SpawnFacts DEF ProcInv
<1>1. DOMAIN proc' = Generations /\ proc'[g] = q /\ \A h \in Generations \ {g} : proc'[h] = proc[h]
  BY <1>0 DEF ProcTypes
<1>2. ProcTypes'
  BY <1>0, <1>1 DEF ProcTypes, SrvTypeOK
<1>3. Places'
  <2>1. PlaceOK(g, q, srv'.pending, srv'.live, srv'.finals, srv'.stage)
    BY <1>0 DEF PlaceOK, Claimed, SameRun
  <2>2. \A h \in Generations \ {g} :
          RunOK(proc[h]) /\ PlaceOK(h, proc[h], srv'.pending, srv'.live, srv'.finals, srv'.stage)
    BY SpawnFacts
  <2>. QED BY <1>1, <2>1, <2>2 DEF Places
<1>4. \A h \in Generations :
        /\ Cancelled(h) => Cancelled(h)'
        /\ Over(proc[h]) => Over(proc'[h])
        /\ proc[h].pc \in HasRecord => proc'[h].pc \in HasRecord
        /\ proc[h].pc # "none" => proc'[h].pc # "none"
  BY <1>1 DEF Cancelled, SameRun, Over
<1>5. CancelsOK'
  <2>1. \A e \in Endpoints : ep[e].work \subseteq AnyWork /\ ep'[e].work \subseteq ep[e].work
    BY <1>0 DEF ProcTypes, EpTypeOK
  <2>. QED BY <1>0, <1>4, <2>1, CancelsStay DEF ProcInv, ProcTypes, SrvTypeOK
<1>6. ShutOK'
  BY <1>0, <1>4, ShutStay DEF ProcInv, ProcTypes, SrvTypeOK
<1>7. GenerationsAreCharged'
  BY DEF ProcInv, GenerationsAreCharged, Charged
<1>. QED BY <1>2, <1>3, <1>5, <1>6, <1>7, FramesOK', SlotsOK' DEF ProcInv

(* Every record stays the run that it was when one of them does.           *)
LEMMA RunsStay ==
  ASSUME ProcInv, NEW g \in Generations, NEW q,
         proc' = [proc EXCEPT ![g] = q], SameRun(proc[g], q)
  PROVE  /\ DOMAIN proc' = Generations /\ proc'[g] = q
         /\ \A h \in Generations \ {g} : proc'[h] = proc[h]
         /\ \A h \in Generations : SameRun(proc[h], proc'[h])
BY DEF ProcInv, ProcTypes, SameRun

(* An id whose holder and whose frames do not change stays the way it was. *)
LEMMA IdElsewhere ==
  ASSUME NEW e \in Endpoints, NEW id \in ProcessIds, SlotOK(e, id),
         \A h \in Generations : SameRun(proc[h], proc'[h]),
         ep'[e].slots[id] = ep[e].slots[id], ep'[e].stage = ep[e].stage,
         ep[e].kicked => ep'[e].kicked,
         \A h \in Generations : Held(e, id, h)' <=> Held(e, id, h),
         \A h \in Generations : \A i :
           (i \in DOMAIN ep'[e].queue /\ FreedBy(e, id, h, i)') <=>
             (i \in DOMAIN ep[e].queue /\ FreedBy(e, id, h, i))
  PROVE  SlotOK(e, id)'
<1>1. \A h \in Generations : FrameIn(e, id, h)' <=> FrameIn(e, id, h)
  BY DEF FrameIn
<1>2. ep[e].stage = "open" => \A g, h \in Generations : \A i, j \in DOMAIN ep'[e].queue :
        FreedBy(e, id, g, i)' /\ FreedBy(e, id, h, j)' => i = j
  BY DEF SlotOK
<1>3. \A h \in Generations :
        /\ proc[h].pc \in Pendings => /\ proc'[h].pc \in Pendings /\ proc'[h].owner = proc[h].owner
                                       /\ proc'[h].id = proc[h].id
        /\ proc[h].pc \in HasRecord => proc'[h].pc \in HasRecord
        /\ Claims(proc'[h]) /\ proc'[h].owner = e /\ proc'[h].id = id =>
             Claims(proc[h]) /\ proc[h].owner = e /\ proc[h].id = id
        /\ proc'[h].pc = "made" => proc[h].pc = "made"
  BY DEF SameRun, Claims
<1>. QED BY <1>1, <1>2, <1>3, SlotStays

(* So do the ids of an endpoint whose slots and frames do not change.      *)
LEMMA IdsElsewhere ==
  ASSUME NEW e \in Endpoints, IdsOf(e),
         \A h \in Generations : SameRun(proc[h], proc'[h]),
         ep'[e].slots = ep[e].slots, ep'[e].stage = ep[e].stage, ep'[e].queue = ep[e].queue,
         ep'[e].accepting = ep[e].accepting, ep'[e].work \subseteq ep[e].work,
         ep[e].kicked => ep'[e].kicked,
         \A id \in ProcessIds, h \in Generations : Held(e, id, h)' <=> Held(e, id, h)
  PROVE  IdsOf(e)'
<1>1. ASSUME NEW id \in ProcessIds PROVE SlotOK(e, id)'
  <2>1. \A h \in Generations : \A i :
           (i \in DOMAIN ep'[e].queue /\ FreedBy(e, id, h, i)') <=>
             (i \in DOMAIN ep[e].queue /\ FreedBy(e, id, h, i))
    BY DEF FreedBy
  <2>. QED BY <2>1, IdElsewhere DEF IdsOf
<1>. QED BY <1>1 DEF IdsOf

(* A record that loses a binding.                                          *)
LEMMA LosesBinding ==
  ASSUME NEW p, ProcTypeOK(p), RunOK(p), NEW b
  PROVE  LET q == [p EXCEPT !.bindings = @ \ {b}]
         IN  /\ SameRun(p, q) /\ ProcTypeOK(q) /\ RunOK(q)
             /\ q.bindings = p.bindings \ {b} /\ q.exits = p.exits
<1> DEFINE q == [p EXCEPT !.bindings = @ \ {b}]
<1>1. /\ SameRun(p, q) /\ q.bindings = p.bindings \ {b} /\ q.exits = p.exits
      /\ DOMAIN q = DOMAIN p /\ q.lost = p.lost /\ q.detachable = p.detachable
      /\ q.ownerAlive = p.ownerAlive /\ q.io = p.io /\ q.cleaned = p.cleaned
      /\ q.publishing = p.publishing
  BY DEF ProcTypeOK, NoProc, SameRun
<1> HIDE DEF q
<1>2. ProcTypeOK(q)
  BY <1>1 DEF ProcTypeOK, SameRun
<1>3. RunOK(q)
  BY <1>1 DEF RunOK, SameRun
<1>. QED BY <1>1, <1>2, <1>3 DEF q

(* A held id that is being given up has no frame of its own yet.           *)
LEMMA ExitsOrBindings ==
  ASSUME NEW p, RunOK(p), ProcTypeOK(p)
  PROVE  p.bindings # {} => p.exits = {} /\ ~p.terminal
BY DEF RunOK, ProcTypeOK

-----------------------------------------------------------------------------
(* Manager::shutdown: closing, and what becomes of each slot.              *)

(* Manager::shutdown closes the endpoint and takes its slots.              *)
LEMMA EndpointClosesKeeps ==
  ASSUME ProcInv, NEW e \in Endpoints, EndpointCloses(e)
  PROVE  ProcInv'
<1> DEFINE work == {[slot |-> ep[e].slots[i], id |-> i] : i \in {j \in ProcessIds : ep[e].slots[j] # Free}}
<1>0. ProcTypes /\ EpTypeOK(ep[e])
  BY DEF ProcInv, ProcTypes
<1>1. /\ ep' = [ep EXCEPT ![e] = [@ EXCEPT !.accepting = FALSE, !.stage = "slots", !.work = work,
            !.slots = [i \in ProcessIds |-> Free], !.mine = ep[e].owned, !.owned = {}]]
      /\ srv' = srv /\ proc' = proc /\ ep[e].stage = "open"
  BY DEF EndpointCloses
<1>2. ASSUME NEW w \in work
      PROVE  w \in AnyWork /\ w.slot.kind # "cancelled" /\ (w.slot.kind = "pending" => proc[w.slot.g].pc # "none")
  <2>1. PICK i \in ProcessIds : ep[e].slots[i] # Free /\ w = [slot |-> ep[e].slots[i], id |-> i]
    OBVIOUS
  <2>2. ep[e].slots[i] \in AnySlot
    BY <1>0 DEF EpTypeOK
  <2>3. PICK g \in Generations : ep[e].slots[i] \in {PendingSlot(g), BoundSlot(g), ReplySlot(g)}
    BY <2>1, <2>2 DEF AnySlot
  <2>4. w.slot.g = g /\ w.slot \in [kind : {"pending", "cancelled", "bound", "reply"}, g : Generations]
        /\ w.slot.kind # "cancelled" /\ (w.slot.kind = "pending" => ep[e].slots[i] = PendingSlot(g))
    BY <2>1, <2>3 DEF PendingSlot, BoundSlot, ReplySlot
  <2>5. ep[e].slots[i] = PendingSlot(g) => proc[g].pc \in Pendings
    BY DEF ProcInv, SlotsOK, IdsOf, SlotOK
  <2>. QED BY <2>1, <2>4, <2>5 DEF AnyWork, Pendings
<1> HIDE DEF work
<1>3. /\ DOMAIN ep' = Endpoints /\ \A d \in Endpoints \ {e} : ep'[d] = ep[d]
      /\ DOMAIN ep'[e] = DOMAIN ep[e] /\ ep'[e].accepting = FALSE /\ ep'[e].stage = "slots"
      /\ ep'[e].work = work /\ ep'[e].slots = [i \in ProcessIds |-> Free]
      /\ ep'[e].queue = ep[e].queue /\ ep'[e].kicked = ep[e].kicked
  BY <1>0, <1>1 DEF ProcTypes, EpTypeOK
<1>4. EpTypeOK(ep'[e])
  <2>1. Free \in AnySlot /\ work \subseteq AnyWork
    BY <1>2 DEF AnySlot
  <2>. QED BY <1>0, <1>3, <2>1 DEF EpTypeOK
<1>5. ProcTypes'
  BY <1>0, <1>1, <1>3, <1>4 DEF ProcTypes, SrvTypeOK
<1>6. Places' /\ ShutOK'
  BY <1>1 DEF ProcInv, Places, ShutOK
<1>7. CancelsOK'
  <2>1. \A g \in srv.freeing : g \in Generations
    BY <1>0 DEF ProcTypes, SrvTypeOK
  <2>2. ASSUME NEW d \in Endpoints, NEW w \in ep'[d].work
        PROVE  /\ w.slot.kind = "cancelled" => d # e /\ w \in ep[d].work
               /\ w.slot.kind = "pending" => proc[w.slot.g].pc # "none"
    BY <1>2, <1>3 DEF ProcInv, CancelsOK
  <2>3. \A g : Cancelled(g)' <=> Cancelled(g)
    BY <1>1 DEF Cancelled
  <2>. QED BY <1>1, <2>2, <2>3 DEF ProcInv, CancelsOK
<1>8. FramesOK'
  <2>1. \A d \in Endpoints : ep[d].queue \in Seq(AnyFrame) /\ ep'[d].queue = ep[d].queue
    BY <1>0, <1>3 DEF ProcTypes, EpTypeOK
  <2>. QED BY <1>1, <2>1, FramesStay DEF ProcInv
<1>9. SlotsOK'
  <2>1. IdsOf(e)'
    BY <1>3, ClosedIds
  <2>2. ASSUME NEW d \in Endpoints \ {e} PROVE IdsOf(d)'
    BY <1>1, <1>3, IdsStay DEF SameEnds, ProcInv, SlotsOK
  <2>. QED BY <2>1, <2>2 DEF SlotsOK
<1>10. GenerationsAreCharged'
  BY <1>1, <1>3, ChargesStay DEF ProcInv
<1>. QED BY <1>5, <1>6, <1>7, <1>8, <1>9, <1>10 DEF ProcInv

(* An endpoint that drops the binding of an id it has taken back.          *)
LEMMA ClosedDropsBinding ==
  ASSUME ProcInv, NEW e \in Endpoints, ep[e].stage # "open", NEW id, NEW g \in Generations,
         srv' = srv, proc' = [proc EXCEPT ![g].bindings = @ \ {Binding(e, id)}],
         NEW F, ep' = [ep EXCEPT ![e] = F], ClosedEdit(ep[e], F)
  PROVE  ProcInv'
<1> DEFINE q == [proc[g] EXCEPT !.bindings = @ \ {Binding(e, id)}]
<1>0. ProcTypes /\ ProcTypeOK(proc[g]) /\ RunOK(proc[g])
  BY SpawnFacts DEF ProcInv
<1>1. /\ SameRun(proc[g], q) /\ ProcTypeOK(q) /\ RunOK(q)
      /\ q.bindings = proc[g].bindings \ {Binding(e, id)} /\ q.exits = proc[g].exits
  BY <1>0, LosesBinding
<1>2. proc' = [proc EXCEPT ![g] = q]
  BY <1>0 DEF ProcTypes
<1> HIDE DEF q
<1>3. /\ DOMAIN proc' = Generations /\ proc'[g] = q
      /\ \A h \in Generations \ {g} : proc'[h] = proc[h]
      /\ \A h \in Generations : SameRun(proc[h], proc'[h])
  BY <1>1, <1>2, RunsStay
<1>4. DOMAIN ep' = Endpoints /\ ep'[e] = F /\ \A d \in Endpoints \ {e} : ep'[d] = ep[d]
  BY <1>0 DEF ProcTypes
<1>5. \A d \in Endpoints : EpTypeOK(ep'[d]) /\ ep'[d].work \subseteq ep[d].work /\ ep'[d].queue = ep[d].queue
  BY <1>0, <1>4 DEF ProcTypes, ClosedEdit
<1>6. FailuresOnTheirWay' = FailuresOnTheirWay
  BY <1>5 DEF FailuresOnTheirWay
<1>7. FramesOK'
  <2>1. \A d \in Endpoints : ep[d].queue \in Seq(AnyFrame) /\ ep'[d].queue = ep[d].queue
    BY <1>0, <1>5 DEF ProcTypes, EpTypeOK
  <2>2. \A h \in Generations :
          (proc[h].pc = "ended" => proc'[h].pc = "ended") /\ (proc[h].terminal => proc'[h].terminal)
    BY <1>3 DEF SameRun
  <2>. QED BY <2>1, <2>2, FramesStay DEF ProcInv
<1>8. SlotsOK'
  <2>1. IdsOf(e)'
    BY <1>4, ClosedIdsStay DEF ClosedEdit
  <2>2. ASSUME NEW d \in Endpoints \ {e} PROVE IdsOf(d)'
    <3>1. \A i \in ProcessIds, h \in Generations : Held(d, i, h)' <=> Held(d, i, h)
      <4>1. \A i : Binding(d, i) # Binding(e, id)
        BY DEF Binding
      <4>. QED BY <1>1, <1>3, <4>1 DEF Held
    <3>2. IdsOf(d) /\ ep'[d] = ep[d]
      BY <1>4, ZenonT(60) DEF ProcInv, SlotsOK
    <3>. QED BY <1>3, <3>1, <3>2, IdsElsewhere
  <2>. QED BY <2>1, <2>2 DEF SlotsOK
<1>. QED BY <1>1, <1>2, <1>4, <1>5, <1>6, <1>7, <1>8, EndsStep

(* Manager::shutdown deals with one slot that it took.                     *)
LEMMA EndpointDropsSlotKeeps ==
  ASSUME ProcInv, NEW e \in Endpoints, EndpointDropsSlot(e)
  PROVE  ProcInv'
<1>0. ProcTypes /\ EpTypeOK(ep[e]) /\ SrvTypeOK /\ ShutOK /\ DOMAIN ep = Endpoints
      /\ \A d \in Endpoints : EpTypeOK(ep[d])
  BY SMTT(30), ZenonT(60) DEF ProcInv, ProcTypes
<1>1. PICK w \in ep[e].work :
        LET g == w.slot.g
            s == [Now EXCEPT !.ep[e].work = @ \ {w}]
            lost == [s EXCEPT !.proc[g].lost = TRUE]
        IN  Becomes(
             CASE w.slot.kind = "pending" /\ proc[g].phase = "queued" ->
                    [lost EXCEPT !.proc[g].phase = "done",
                                 !.ep[e].work = @ \cup {[w EXCEPT !.slot.kind = "cancelled"]}]
               [] w.slot.kind = "pending" /\ proc[g].phase # "queued" ->
                    [lost EXCEPT !.ep[e].waits = IF proc[g].completed THEN @ ELSE @ \cup {g}]
               [] w.slot.kind = "cancelled" -> MarkCompleted(ReleasePending(s, g, FALSE), g)
               [] w.slot.kind = "bound" -> [s EXCEPT !.proc[g].bindings = @ \ {Binding(e, w.id)}]
               [] w.slot.kind = "reply" -> s)
  BY DEF EndpointDropsSlot
<1> DEFINE g == w.slot.g
           p == proc[g]
           s == [Now EXCEPT !.ep[e].work = @ \ {w}]
           F == [ep[e] EXCEPT !.work = @ \ {w}]
           E == [ep EXCEPT ![e] = F]
<1>2. IsState(s) /\ s.srv = srv /\ s.ep = E /\ s.proc = proc
  BY <1>0, NowIs DEF IsState
<1>3. w \in AnyWork
  BY <1>0 DEF EpTypeOK
<1>4. /\ g \in Generations /\ w.id \in ProcessIds
      /\ w.slot \in [kind : {"pending", "cancelled", "bound", "reply"}, g : Generations]
      /\ w = [slot |-> w.slot, id |-> w.id]
  BY <1>3 DEF AnyWork
<1>5. /\ DOMAIN F = DOMAIN ep[e] /\ F.work = ep[e].work \ {w} /\ F.accepting = ep[e].accepting
      /\ F.slots = ep[e].slots /\ F.queue = ep[e].queue /\ F.kicked = ep[e].kicked
      /\ F.stage = ep[e].stage
  BY <1>0 DEF EpTypeOK
<1>6. ep[e].stage # "open"
  BY DEF ProcInv, SlotsOK, IdsOf
<1>7. DOMAIN proc = Generations /\ ProcTypeOK(p) /\ RunOK(p)
      /\ PlaceOK(g, p, srv.pending, srv.live, srv.finals, srv.stage)
  BY <1>4, SpawnFacts
<1>8. ClosedEdit(ep[e], F)
  BY <1>0, <1>5 DEF ClosedEdit, EpTypeOK
<1>9. E[e] = F /\ DOMAIN E = Endpoints /\ \A d \in Endpoints \ {e} : E[d] = ep[d]
  BY <1>0
<1> DEFINE lost == [s EXCEPT !.proc[g].lost = TRUE]
<1> HIDE DEF s, F, E
<1>10. IsState(lost) /\ lost.srv = srv /\ lost.ep = E /\ lost.proc = [proc EXCEPT ![g].lost = TRUE]
  BY <1>2 DEF IsState
<1> HIDE DEF lost, g
<1>a. CASE w.slot.kind = "pending" /\ p.phase = "queued"
  <2> DEFINE v == [w EXCEPT !.slot.kind = "cancelled"]
             G == [F EXCEPT !.work = @ \cup {v}]
             q == [p EXCEPT !.lost = TRUE, !.phase = "done"]
  <2>1. Becomes([lost EXCEPT !.proc[g].phase = "done", !.ep[e].work = @ \cup {v}])
    BY <1>1, <1>a DEF lost, s, g
  <2>2. srv' = srv /\ proc' = [lost.proc EXCEPT ![g].phase = "done"] /\ ep' = [E EXCEPT ![e].work = @ \cup {v}]
    BY <1>10, <2>1 DEF Becomes, IsState
  <2>3. proc' = [proc EXCEPT ![g] = q]
    BY <1>4, <1>7, <1>10, <2>2
  <2>4. ep' = [ep EXCEPT ![e] = G]
    BY <1>0, <2>2 DEF E
  <2>5. v.slot.kind = "cancelled" /\ v.slot.g = g /\ v \in AnyWork
    BY <1>4 DEF AnyWork, g
  <2>6. /\ DOMAIN G = DOMAIN ep[e] /\ G.work = (ep[e].work \ {w}) \cup {v}
        /\ G.accepting = ep[e].accepting
        /\ G.slots = ep[e].slots /\ G.queue = ep[e].queue /\ G.kicked = ep[e].kicked
        /\ G.stage = ep[e].stage
    BY <1>0, <1>5 DEF EpTypeOK
  <2>q. q = [proc[g] EXCEPT !.phase = "done"] \/ q = [proc[g] EXCEPT !.lost = TRUE, !.phase = "done"]
    OBVIOUS
  <2> HIDE DEF G, v, q
  <2>7. EpTypeOK(G)
    BY <1>0, <2>5, <2>6 DEF EpTypeOK
  <2>8. DOMAIN ep' = Endpoints /\ ep'[e] = G /\ \A d \in Endpoints \ {e} : ep'[d] = ep[d]
    BY <1>0, <2>4
  <2>9. \A d \in Endpoints :
          /\ EpTypeOK(ep'[d]) /\ (ep[d].stage = "open" => ep'[d].work \subseteq ep[d].work)
          /\ ep'[d].accepting = ep[d].accepting /\ ep'[d].queue = ep[d].queue
          /\ ep'[d].kicked = ep[d].kicked /\ ep'[d].stage = ep[d].stage
          /\ ep'[d].slots = ep[d].slots
    BY <1>0, <1>6, <2>6, <2>7, <2>8
  <2>10. p.pc # "none"
    BY <1>a DEF g, ProcInv, CancelsOK
  <2>11. SrvTypeOK'
    BY <1>0, <2>2 DEF SrvTypeOK
  <2>12. ShutOK'
    <3>1. q.child = p.child /\ q.pc = p.pc
      BY <1>7 DEF q, ProcTypeOK, NoProc
    <3>2. \A h \in Generations : proc'[h].child = proc[h].child /\ proc'[h].pc = proc[h].pc
      BY <1>7, <2>3, <3>1
    <3>. QED BY <1>0, <2>2, <3>2, ShutStay DEF SrvTypeOK, Over
  <2>13. ASSUME Cancelled(g)', \A h \in Generations : Cancelled(h) => Cancelled(h)',
                ~Cancelled(g), \A h \in Generations : proc[h].pc # "none" => proc'[h].pc # "none"
         PROVE  CancelsOK'
    <3>1. \A d \in Endpoints : \A u \in ep[d].work : u.slot.g \in Generations
      <4>1. \A d \in Endpoints : ep[d].work \subseteq AnyWork
        BY <1>0 DEF EpTypeOK
      <4>. QED BY <4>1 DEF AnyWork
    <3>2. srv'.stage = "cancel" => \A h \in srv'.freeing : Cancelled(h)' /\ h # g
      BY <1>0, <2>2, <2>13 DEF CancelsOK, ProcInv, SrvTypeOK
    <3>3. \A d \in Endpoints : \A u \in ep'[d].work : u \in ep[d].work \/ (d = e /\ u = v)
      BY <2>6, <2>8
    <3>4. \A d \in Endpoints : \A u \in ep[d].work : u.slot.kind = "cancelled" => u.slot.g # g
      BY <2>13 DEF CancelsOK, ProcInv
    <3>5. ASSUME NEW d \in Endpoints, NEW u \in ep'[d].work
          PROVE  /\ u.slot.kind = "pending" => proc'[u.slot.g].pc # "none"
                 /\ u.slot.kind = "cancelled" =>
                      Cancelled(u.slot.g)' /\ ~(srv'.stage = "cancel" /\ u.slot.g \in srv'.freeing)
      <4>1. CASE u \in ep[d].work
        BY <2>2, <2>13, <3>1, <4>1 DEF CancelsOK, ProcInv
      <4>2. CASE d = e /\ u = v
        BY <2>5, <2>13, <3>2, <4>2
      <4>. QED BY <3>3, <4>1, <4>2
    <3>6. \A c, d \in Endpoints : \A u \in ep'[c].work, x \in ep'[d].work :
            u.slot.kind = "cancelled" /\ x.slot.kind = "cancelled" /\ u.slot.g = x.slot.g => c = d /\ u = x
      BY <2>5, <3>3, <3>4 DEF CancelsOK, ProcInv
    <3>. QED BY <3>2, <3>5, <3>6 DEF CancelsOK
  <2>14. (/\ Cancelled(g)'
          /\ \A h \in Generations : Cancelled(h) => Cancelled(h)'
          /\ ~Cancelled(g) /\ \A h \in Generations : proc[h].pc # "none" => proc'[h].pc # "none")
            => CancelsOK'
    BY <2>13
  <2>15. proc[g].pc # "none" /\ proc[g].phase = "queued" /\ DOMAIN ep' = Endpoints
    BY <1>a, <2>8, <2>10
  <2>16. srv'.pending = srv.pending /\ srv'.generations = srv.generations
         /\ srv'.live = srv.live /\ srv'.finals = srv.finals /\ srv'.stage = srv.stage
    BY <2>2
  <2> HIDE DEF p
  <2>. QED BY <1>4, <2>q, <2>3, <2>9, <2>11, <2>12, <2>14, <2>15, <2>16, Cancels
<1>b. CASE w.slot.kind = "pending" /\ p.phase # "queued"
  <2> DEFINE waits == IF proc[g].completed THEN F.waits ELSE F.waits \cup {g}
             G == [F EXCEPT !.waits = waits]
             q == [p EXCEPT !.lost = TRUE]
  <2>1. Becomes([lost EXCEPT !.ep[e].waits = IF proc[g].completed THEN @ ELSE @ \cup {g}])
    BY <1>1, <1>b DEF lost, s, g
  <2>2. srv' = srv /\ proc' = lost.proc
        /\ ep' = [E EXCEPT ![e].waits = IF proc[g].completed THEN @ ELSE @ \cup {g}]
    BY <1>10, <2>1 DEF Becomes, IsState
  <2>3. proc' = [proc EXCEPT ![g] = q]
    BY <1>10, <2>2
  <2>4. ep' = [ep EXCEPT ![e] = G]
    BY <1>0, <2>2 DEF E
  <2>5. ClosedEdit(ep[e], G)
    <3>1. /\ DOMAIN G = DOMAIN ep[e] /\ G.work = ep[e].work \ {w}
          /\ G.accepting = ep[e].accepting
          /\ G.slots = ep[e].slots /\ G.queue = ep[e].queue /\ G.kicked = ep[e].kicked
          /\ G.stage = ep[e].stage
      BY <1>0, <1>5 DEF EpTypeOK
    <3> HIDE DEF G
    <3>. QED BY <1>0, <3>1 DEF ClosedEdit, EpTypeOK
  <2>6. QuietRun(p, q) /\ \A h \in Generations : QuietRun(proc[h], proc[h])
    <3>1. QuietRun(p, q)
      BY <1>7, FlagEditIsQuiet
    <3>. QED BY <3>1, NothingChanges, RecordsOK DEF QuietRun
  <2>7. DOMAIN proc' = Generations /\ \A h \in Generations : QuietRun(proc[h], proc'[h])
    BY <1>7, <2>3, <2>6
  <2> HIDE DEF G
  <2>. QED BY <2>2, <2>4, <2>5, <2>7, ClosedStep
<1>c. CASE w.slot.kind = "cancelled"
  <2> DEFINE t == ReleasePending(s, g, FALSE)
  <2>1. Becomes(MarkCompleted(t, g))
    BY <1>1, <1>c DEF s, g
  <2>2. /\ IsState(t) /\ t.proc = proc
        /\ t.srv = [srv EXCEPT !.pending = @ \ {g}, !.generations = Less(@, 1)]
        /\ t.ep = [E EXCEPT ![proc[g].owner].slots[proc[g].id] =
                     IF @ = PendingSlot(g) THEN Free ELSE @]
    <3>1. /\ IsState(t) /\ t.proc = s.proc
          /\ t.srv = [s.srv EXCEPT !.pending = @ \ {g}, !.generations = Less(@, 1)]
          /\ t.ep = [s.ep EXCEPT ![s.proc[g].owner].slots[s.proc[g].id] =
                       IF @ = PendingSlot(g) THEN Free ELSE @]
      BY <1>2, ReleasePendingIs
    <3>. QED BY <1>2, <3>1
  <2> HIDE DEF t
  <2>3. srv' = t.srv /\ ep' = t.ep /\ proc' = [proc EXCEPT ![g].completed = TRUE]
    <3>1. /\ MarkCompleted(t, g).srv = t.srv /\ MarkCompleted(t, g).ep = t.ep
          /\ MarkCompleted(t, g).proc = [t.proc EXCEPT ![g].completed = TRUE]
      BY <2>2, MarkCompletedIs, ZenonT(60)
    <3>. QED BY <2>1, <2>2, <3>1 DEF Becomes
  <2>4. Cancelled(g) /\ ~(srv.stage = "cancel" /\ g \in srv.freeing)
    BY <1>c DEF ProcInv, CancelsOK, g
  <2>5. proc[g].owner \in Endpoints /\ proc[g].id \in ProcessIds
    BY <1>7, <2>4 DEF Cancelled, ProcTypeOK
  <2>6. \A d \in Endpoints : EpTypeOK(E[d])
    BY <1>0, <1>8, <1>9, ZenonT(60) DEF ClosedEdit
  <2>7. /\ DOMAIN ep' = Endpoints
        /\ \A d \in Endpoints :
              /\ EpTypeOK(ep'[d]) /\ ep'[d].work = E[d].work
              /\ ep'[d].accepting = E[d].accepting /\ ep'[d].queue = E[d].queue
              /\ ep'[d].kicked = E[d].kicked /\ ep'[d].stage = E[d].stage
              /\ \A i \in ProcessIds :
                   \/ ep'[d].slots[i] = E[d].slots[i]
                   \/ ep'[d].slots[i] = Free /\ E[d].slots[i] = PendingSlot(g)
    <3>1. ep' = [E EXCEPT ![proc[g].owner].slots[proc[g].id] = IF @ = PendingSlot(g) THEN Free ELSE @]
      BY <2>2, <2>3
    <3>2. PICK o \in Endpoints, i0 \in ProcessIds : proc[g].owner = o /\ proc[g].id = i0
      BY <2>5
    <3>3. ep' = [E EXCEPT ![o].slots[i0] = IF @ = PendingSlot(g) THEN Free ELSE @]
      BY <3>1, <3>2
    <3>. QED BY <1>4, <1>9, <2>6, <3>3, SlotGivenUp
  <2>8. \A d \in Endpoints :
              /\ E[d].work \subseteq ep[d].work /\ (d = e => E[d].work = ep[d].work \ {w})
              /\ E[d].accepting = ep[d].accepting /\ E[d].queue = ep[d].queue
              /\ E[d].kicked = ep[d].kicked /\ E[d].stage = ep[d].stage
              /\ E[d].slots = ep[d].slots
    BY <1>5, <1>9
  <2>9. /\ DOMAIN srv' = DOMAIN srv /\ srv'.accepting = srv.accepting /\ srv'.stage = srv.stage
        /\ srv'.todo = srv.todo /\ srv'.generations = Less(srv.generations, 1)
        /\ srv'.pending = srv.pending \ {g} /\ srv'.live = srv.live /\ srv'.finals = srv.finals
        /\ srv'.freeing = srv.freeing /\ srv'.waits = srv.waits /\ srv'.mine = srv.mine
    BY <1>0, <2>2, <2>3 DEF SrvTypeOK
  <2>10. SrvTypeOK'
    BY <1>0, <2>9 DEF SrvTypeOK, Less
  <2>11. ShutOK'
    <3>1. \A h \in Generations : proc'[h].child = proc[h].child /\ proc'[h].pc = proc[h].pc
      BY <1>7, <2>3 DEF ProcTypeOK, NoProc
    <3>. QED BY <1>0, <2>9, <3>1 DEF ShutOK, SrvTypeOK, Over
  <2>12. \A d \in Endpoints : \A u \in ep'[d].work : u.slot.kind = "cancelled" => u.slot.g # g
    BY <1>c, <2>7, <2>8 DEF ProcInv, CancelsOK, g
  <2>13. \A d \in Endpoints :
           /\ EpTypeOK(ep'[d]) /\ ep'[d].work \subseteq ep[d].work
           /\ ep'[d].accepting = ep[d].accepting /\ ep'[d].queue = ep[d].queue
           /\ ep'[d].kicked = ep[d].kicked /\ ep'[d].stage = ep[d].stage
           /\ \A i \in ProcessIds :
                \/ ep'[d].slots[i] = ep[d].slots[i]
                \/ ep'[d].slots[i] = Free /\ ep[d].slots[i] = PendingSlot(g)
    BY <2>7, <2>8
  <2>. QED BY <1>4, <2>3, <2>4, <2>7, <2>9, <2>10, <2>11, <2>12, <2>13, GivesUp, ZenonT(60)
<1>d. CASE w.slot.kind = "bound"
  <2>1. Becomes([s EXCEPT !.proc[g].bindings = @ \ {Binding(e, w.id)}])
    BY <1>1, <1>d DEF s, g
  <2>2. srv' = srv /\ proc' = [proc EXCEPT ![g].bindings = @ \ {Binding(e, w.id)}] /\ ep' = [ep EXCEPT ![e] = F]
    BY <1>2, <2>1 DEF Becomes, IsState, E
  <2>. QED BY <1>4, <1>6, <1>8, <2>2, ClosedDropsBinding
<1>e. CASE w.slot.kind = "reply"
  <2>1. Becomes(s)
    BY <1>1, <1>e DEF s, g
  <2>2. srv' = srv /\ proc' = proc /\ ep' = [ep EXCEPT ![e] = F]
    BY <1>2, <2>1 DEF Becomes, E
  <2>. QED BY <1>8, <2>2, ClosedStep, NothingChanges
<1>. QED BY <1>4, <1>a, <1>b, <1>c, <1>d, <1>e, ZenonT(60)

-----------------------------------------------------------------------------
(* The end of a record.                                                    *)

Kept(p, q, due) ==
  /\ q.pc = p.pc /\ q.phase = p.phase /\ q.owner = p.owner /\ q.id = p.id
  /\ q.completed = p.completed /\ q.child = p.child
  /\ q.reaped = p.reaped /\ q.terminal = p.terminal
  /\ q.released <=> p.released \/ due
  /\ ProcTypeOK(q) /\ RunOK(q)

(* A record is released or becomes a result that is kept.                  *)
LEMMA RecordEnds ==
  ASSUME ProcInv, NEW due \in SUBSET Generations,
         DOMAIN proc' = Generations, \A g \in Generations : Kept(proc[g], proc'[g], g \in due),
         \A g \in due : proc[g].reaped \/ srv'.stage \in {"finals", "down"},
         SrvTypeOK', srv'.pending = srv.pending, ShutOK',
         srv.stage \in {"finals", "down"} => srv'.stage \in {"finals", "down"},
         srv'.stage = "cancel" => srv.stage = "cancel" /\ srv'.freeing = srv.freeing,
         \/ /\ srv'.live = srv.live \ due /\ srv'.finals = srv.finals
            /\ srv'.generations = Less(srv.generations, Cardinality(due \cap srv.live))
         \/ /\ due = {} /\ srv'.generations = srv.generations
            /\ \E g \in srv.live : /\ proc[g].terminal /\ srv'.live = srv.live \ {g}
                                   /\ srv'.finals = srv.finals \cup {g}
         \/ /\ due = {} /\ srv'.generations = srv.generations
            /\ srv'.live = srv.live /\ srv'.finals = srv.finals,
         DOMAIN ep' = Endpoints,
         \A e \in Endpoints : EpTypeOK(ep'[e]) /\ ep'[e].work \subseteq ep[e].work,
         FramesOK', FailuresOnTheirWay' = FailuresOnTheirWay, SlotsOK'
  PROVE  ProcInv'
<1>0. ProcTypes
  BY DEF ProcInv
<1>1. ProcTypes'
  BY DEF ProcTypes, Kept
<1>2. Places'
  <2>. SUFFICES ASSUME NEW g \in Generations
                PROVE  (RunOK(proc[g]) /\ PlaceOK(g, proc[g], srv.pending, srv.live, srv.finals, srv.stage))'
    BY DEF Places
  <2>1. PlaceOK(g, proc[g], srv.pending, srv.live, srv.finals, srv.stage) /\ Kept(proc[g], proc'[g], g \in due)
    BY SpawnFacts
  <2>2. /\ Claimed(proc'[g]) <=> Claimed(proc[g])
        /\ proc'[g].pc = proc[g].pc /\ proc'[g].completed = proc[g].completed
        /\ proc'[g].reaped = proc[g].reaped /\ proc'[g].terminal = proc[g].terminal
        /\ proc'[g].released <=> proc[g].released \/ g \in due
        /\ RunOK(proc'[g])
    BY <2>1 DEF Kept, Claimed
  <2>3. /\ g \in srv'.live => g \in srv.live /\ g \notin due
        /\ g \in srv.live => g \in srv'.live \/ g \in due \/ proc[g].terminal
        /\ g \in srv'.finals => g \in srv.finals \/ (proc[g].terminal /\ g \notin srv'.live)
    OBVIOUS
  <2>4. proc[g].terminal => proc[g].reaped
    BY SpawnFacts DEF RunOK
  <2>5. /\ Claimed(proc[g]) => g \in srv.pending /\ ~proc[g].completed
        /\ proc[g].completed => g \notin srv.pending
        /\ g \in srv.pending => proc[g].pc \in Pendings
        /\ g \in srv.live => proc[g].pc \in HasRecord /\ ~proc[g].released
        /\ proc[g].pc \in HasRecord => g \in srv.live \/ proc[g].reaped \/ srv.stage \in {"finals", "down"}
        /\ g \in srv.finals => proc[g].terminal /\ g \notin srv.live
    BY <2>1 DEF PlaceOK
  <2>6. PlaceOK(g, proc'[g], srv'.pending, srv'.live, srv'.finals, srv'.stage)
    BY <2>2, <2>3, <2>4, <2>5 DEF PlaceOK
  <2>. QED BY <2>2, <2>6
<1>3. \A h \in Generations :
        /\ Cancelled(h) => Cancelled(h)'
        /\ proc[h].pc # "none" => proc'[h].pc # "none"
  BY DEF Cancelled, Kept
<1>4. CancelsOK'
  <2>1. \A e \in Endpoints : ep[e].work \subseteq AnyWork /\ ep'[e].work \subseteq ep[e].work
    BY <1>0 DEF ProcTypes, EpTypeOK
  <2>. QED BY <1>0, <1>3, <2>1, CancelsStay DEF ProcInv, ProcTypes, SrvTypeOK
<1>5. GenerationsAreCharged'
  <2>1. \A g \in srv.live : g \in Generations
    BY <1>0 DEF ProcTypes, SrvTypeOK
  <2>2. \A g \in srv.live : g \notin srv.pending /\ g \notin srv.finals /\ g \notin FailuresOnTheirWay
    <3>1. \A g \in srv.live : g \notin FailuresOnTheirWay
      BY <2>1, FailuresAreOver
    <3>2. \A g \in srv.live : g \notin srv.finals /\ g \notin srv.pending
      BY <2>1, SpawnFacts DEF PlaceOK, HasRecord, Pendings
    <3>. QED BY <3>1, <3>2
  <2>3. CASE /\ srv'.live = srv.live \ due /\ srv'.finals = srv.finals
             /\ srv'.generations = Less(srv.generations, Cardinality(due \cap srv.live))
    <3>1. Charged' = Charged \ (due \cap srv.live)
      BY <2>2, <2>3 DEF Charged
    <3>2. due \cap srv.live \subseteq Charged
      BY DEF Charged
    <3>. QED BY <2>3, <3>1, <3>2, SomeGivenBack
  <2>4. CASE /\ srv'.generations = srv.generations
             /\ \E g \in srv.live : /\ proc[g].terminal /\ srv'.live = srv.live \ {g}
                                    /\ srv'.finals = srv.finals \cup {g}
    <3>1. Charged' = Charged
      BY <2>4 DEF Charged
    <3>. QED BY <2>4, <3>1, NoneGivenBack
  <2>5. CASE srv'.generations = srv.generations /\ srv'.live = srv.live /\ srv'.finals = srv.finals
    <3>1. Charged' = Charged
      BY <2>5 DEF Charged
    <3>. QED BY <2>5, <3>1, NoneGivenBack
  <2>. QED BY <2>3, <2>4, <2>5
<1>. QED BY <1>1, <1>2, <1>4, <1>5, ShutOK', FramesOK', SlotsOK' DEF ProcInv

(* What FinishTerminal does, whichever kind of process it ends.            *)
SameEndpoint(E, F) ==
  /\ DOMAIN F = DOMAIN E /\ F.accepting = E.accepting /\ F.slots = E.slots /\ F.queue = E.queue
  /\ F.kicked = E.kicked /\ F.stage = E.stage /\ F.work = E.work

Ended(p, q, due) ==
  /\ DOMAIN q = DOMAIN p /\ q.pc = p.pc /\ q.phase = p.phase /\ q.lost = p.lost
  /\ q.completed = p.completed /\ q.ownerAlive = p.ownerAlive /\ q.owner = p.owner
  /\ q.id = p.id /\ q.detachable = p.detachable /\ q.bindings = p.bindings
  /\ q.child = p.child /\ q.reaped = p.reaped /\ q.io = p.io /\ q.cleaned = p.cleaned
  /\ q.terminal = p.terminal /\ q.exits = p.exits /\ q.publishing = p.publishing
  /\ q.released \in BOOLEAN /\ (q.released <=> p.released \/ due)

(* release_record of one record.                                           *)
LEMMA ReleasedIs ==
  ASSUME NEW p, ProcTypeOK(p), NEW h, NEW due
  PROVE  Ended(p, [p EXCEPT !.released = @ \/ h \in due], h \in due)
BY DEF ProcTypeOK, NoProc, Ended

(* finish_terminal, by the kind of record.                                 *)
LEMMA FinishTerminalIs ==
  ASSUME NEW s, IsState(s), NEW g \in Generations,
         DOMAIN s.proc = Generations, \A h \in Generations : ProcTypeOK(s.proc[h]),
         DOMAIN s.ep = Endpoints, \A e \in Endpoints : EpTypeOK(s.ep[e]),
         DOMAIN s.srv = {"accepting", "generations", "pending", "live", "finals", "stage", "todo",
                         "freeing", "waits", "mine"}
  PROVE  \E due \in SUBSET {g} :
           LET t == FinishTerminal(s, g)
           IN  /\ DOMAIN t.proc = Generations
               /\ \A h \in Generations : Ended(s.proc[h], t.proc[h], h \in due)
               /\ DOMAIN t.ep = Endpoints /\ \A e \in Endpoints : SameEndpoint(s.ep[e], t.ep[e])
               /\ DOMAIN t.srv = DOMAIN s.srv
               /\ t.srv.accepting = s.srv.accepting /\ t.srv.pending = s.srv.pending
               /\ t.srv.stage = s.srv.stage /\ t.srv.todo = s.srv.todo
               /\ t.srv.freeing = s.srv.freeing /\ t.srv.waits = s.srv.waits /\ t.srv.mine = s.srv.mine
               /\ \/ /\ t.srv.live = s.srv.live \ due /\ t.srv.finals = s.srv.finals
                     /\ t.srv.generations = Less(s.srv.generations, Cardinality(due \cap s.srv.live))
                  \/ /\ due = {} /\ t.srv.generations = s.srv.generations /\ g \in s.srv.live
                     /\ t.srv.live = s.srv.live \ {g} /\ t.srv.finals = s.srv.finals \cup {g}
                  \/ /\ due = {} /\ t.srv.generations = s.srv.generations
                     /\ t.srv.live = s.srv.live /\ t.srv.finals = s.srv.finals
<1> DEFINE t == FinishTerminal(s, g)
<1>1. CASE s.proc[g].detachable
  <2>1. t = FinishDetached(s, g)
    BY <1>1 DEF FinishTerminal
  <2>2. /\ t.proc = s.proc /\ t.ep = s.ep
        /\ t.srv = IF s.proc[g].released \/ g \notin s.srv.live THEN s.srv
                   ELSE [s.srv EXCEPT !.live = @ \ {g}, !.finals = @ \cup {g}]
    <3>1. LET u == FinishDetached(s, g)
          IN  /\ u.proc = s.proc /\ u.ep = s.ep
              /\ u.srv = IF s.proc[g].released \/ g \notin s.srv.live THEN s.srv
                         ELSE [s.srv EXCEPT !.live = @ \ {g}, !.finals = @ \cup {g}]
      BY FinishDetachedIs
    <3>. QED BY <2>1, <3>1
  <2> HIDE DEF t
  <2>3. \A h \in Generations : Ended(s.proc[h], t.proc[h], h \in {})
    BY <2>2 DEF Ended, ProcTypeOK
  <2>4. \A e \in Endpoints : SameEndpoint(s.ep[e], t.ep[e])
    BY <2>2 DEF SameEndpoint
  <2>5. CASE s.proc[g].released \/ g \notin s.srv.live
    <3>1. t.srv = s.srv
      BY <2>2, <2>5
    <3>2. {} \in SUBSET {g}
      OBVIOUS
    <3>. QED BY <2>2, <2>3, <2>4, <3>1, <3>2 DEF t
  <2>6. CASE ~(s.proc[g].released \/ g \notin s.srv.live)
    <3>1. t.srv = [s.srv EXCEPT !.live = @ \ {g}, !.finals = @ \cup {g}] /\ g \in s.srv.live
      BY <2>2, <2>6
    <3>2. {} \in SUBSET {g}
      OBVIOUS
    <3>. QED BY <2>2, <2>3, <2>4, <3>1, <3>2 DEF t
  <2>. QED BY <2>5, <2>6
<1>2. CASE ~s.proc[g].detachable
  <2> DEFINE due == {h \in {g} : ~s.proc[h].released}
  <2>1. t = ReleaseRecords(s, {g})
    BY <1>2 DEF FinishTerminal
  <2>2. /\ t.proc = [h \in Generations |-> [s.proc[h] EXCEPT !.released = @ \/ h \in due]]
        /\ t.srv = [s.srv EXCEPT !.generations = Less(@, Cardinality(due \cap s.srv.live)),
                                      !.live = @ \ due]
        /\ t.ep = [e \in Endpoints |-> [s.ep[e] EXCEPT !.owned = @ \ due]]
    <3>1. LET u == ReleaseRecords(s, {g})
              d == {h \in {g} : ~s.proc[h].released}
          IN  /\ u.proc = [h \in Generations |-> [s.proc[h] EXCEPT !.released = @ \/ h \in d]]
              /\ u.srv = [s.srv EXCEPT !.generations = Less(@, Cardinality(d \cap s.srv.live)),
                                       !.live = @ \ d]
              /\ u.ep = [e \in Endpoints |-> [s.ep[e] EXCEPT !.owned = @ \ d]]
      BY DEF ReleaseRecords, IsState
    <3>. QED BY <2>1, <3>1
  <2>3. due \in SUBSET {g}
    OBVIOUS
  <2> HIDE DEF t, due
  <2>4. \A e \in Endpoints : SameEndpoint(s.ep[e], t.ep[e])
    BY <2>2 DEF SameEndpoint, EpTypeOK
  <2>5. \A h \in Generations : Ended(s.proc[h], t.proc[h], h \in due)
    BY <2>2, ReleasedIs
  <2>. QED BY <2>2, <2>3, <2>4, <2>5 DEF t
<1>. QED BY <1>1, <1>2

(* Server::shutdown unbinds the records from their endpoints.              *)
LEMMA ServerUnbindsKeeps ==
  ASSUME ProcInv, ServerUnbinds
  PROVE  ProcInv'
<1>0. SrvTypeOK /\ ShutOK /\ ProcTypes /\ DOMAIN ep = Endpoints /\ \A d \in Endpoints : EpTypeOK(ep[d])
  BY ServerFacts DEF ProcTypes
<1>s. srv.stage = "slots" /\ srv.pending = {}
  BY <1>0 DEF ServerUnbinds, ShutOK
<1>1. CASE srv.todo = {} /\ srv' = [srv EXCEPT !.stage = "terminate", !.todo = srv.mine]
             /\ UNCHANGED <<ep, proc>>
  <2>1. /\ DOMAIN srv' = DOMAIN srv /\ srv'.accepting = srv.accepting /\ srv'.stage = "terminate"
        /\ srv'.todo = srv.mine /\ srv'.generations = srv.generations
        /\ srv'.pending = srv.pending /\ srv'.live = srv.live /\ srv'.finals = srv.finals
        /\ srv'.freeing = srv.freeing /\ srv'.waits = srv.waits /\ srv'.mine = srv.mine
    BY <1>0, <1>1 DEF SrvTypeOK
  <2>2. SrvTypeOK'
    BY <1>0, <2>1 DEF SrvTypeOK, Stages
  <2>3. ShutOK'
    BY <1>0, <1>1, <1>s, <2>1 DEF ShutOK
  <2>. QED BY <1>1, <1>s, <2>1, <2>2, <2>3, NothingChanges, ServerStep
<1>2. ASSUME NEW g \in srv.todo,
             Becomes([RemoveBoundSlots(Now, g) EXCEPT !.srv.todo = @ \ {g}, !.proc[g].bindings = {}])
      PROVE  ProcInv'
  <2> DEFINE t == RemoveBoundSlots(Now, g)
             p == proc[g]
             q == [p EXCEPT !.bindings = {}]
             slots(d) == [i \in ProcessIds |->
                            IF Binding(d, i) \in p.bindings /\ ep[d].slots[i] = BoundSlot(g) THEN Free
                            ELSE ep[d].slots[i]]
  <2>1. /\ IsState(t) /\ t.srv = srv /\ t.proc = proc
        /\ t.ep = [e \in Endpoints |-> [ep[e] EXCEPT !.slots = slots(e)]]
    <3>1. /\ IsState(t) /\ t.srv = Now.srv /\ t.proc = Now.proc
          /\ t.ep = [e \in Endpoints |-> [Now.ep[e] EXCEPT !.slots =
               [i \in ProcessIds |->
                  IF Binding(e, i) \in Now.proc[g].bindings /\ Now.ep[e].slots[i] = BoundSlot(g) THEN Free
                  ELSE Now.ep[e].slots[i]]]]
      BY NowIs, RemoveBoundSlotsIs
    <3>. QED BY <3>1, NowIs
  <2> HIDE DEF t
  <2>2. srv' = [srv EXCEPT !.todo = @ \ {g}] /\ ep' = t.ep /\ proc' = [proc EXCEPT ![g].bindings = {}]
    BY <1>2, <2>1 DEF Becomes, IsState, t
  <2>g. g \in Generations
    BY <1>0 DEF SrvTypeOK
  <2>3. /\ ProcTypeOK(p) /\ RunOK(p) /\ PlaceOK(g, p, srv.pending, srv.live, srv.finals, srv.stage)
        /\ DOMAIN proc = Generations
    BY <2>g, SpawnFacts
  <2>4. proc' = [proc EXCEPT ![g] = q]
    BY <2>2
  <2>5. /\ SameRun(p, q) /\ q.bindings = {} /\ q.exits = p.exits
        /\ DOMAIN q = DOMAIN p /\ q.lost = p.lost /\ q.detachable = p.detachable
        /\ q.ownerAlive = p.ownerAlive /\ q.io = p.io /\ q.cleaned = p.cleaned
        /\ q.publishing = p.publishing
    BY <2>3 DEF ProcTypeOK, NoProc, SameRun
  <2>6. /\ DOMAIN srv' = DOMAIN srv /\ srv'.accepting = srv.accepting /\ srv'.stage = srv.stage
        /\ srv'.todo = srv.todo \ {g} /\ srv'.generations = srv.generations
        /\ srv'.pending = srv.pending /\ srv'.live = srv.live /\ srv'.finals = srv.finals
        /\ srv'.freeing = srv.freeing /\ srv'.waits = srv.waits /\ srv'.mine = srv.mine
    BY <1>0, <2>2 DEF SrvTypeOK
  <2>7. DOMAIN ep' = Endpoints /\ \A d \in Endpoints :
          /\ ep'[d].slots = slots(d)
          /\ DOMAIN ep'[d] = DOMAIN ep[d] /\ ep'[d].accepting = ep[d].accepting
          /\ ep'[d].queue = ep[d].queue /\ ep'[d].kicked = ep[d].kicked
          /\ ep'[d].stage = ep[d].stage /\ ep'[d].work = ep[d].work
    BY <1>0, <2>1, <2>2 DEF EpTypeOK
  <2> HIDE DEF q
  <2>8. ProcTypeOK(q) /\ RunOK(q)
    <3>1. ProcTypeOK(q)
      BY <2>3, <2>5 DEF ProcTypeOK, SameRun
    <3>2. RunOK(q)
      BY <2>3, <2>5 DEF RunOK, SameRun
    <3>. QED BY <3>1, <3>2
  <2>9. /\ DOMAIN proc' = Generations /\ proc'[g] = q
        /\ \A h \in Generations \ {g} : proc'[h] = proc[h]
        /\ \A h \in Generations : SameRun(proc[h], proc'[h])
    BY <2>g, <2>4, <2>5, RunsStay
  <2>10. \A h \in Generations : Kept(proc[h], proc'[h], h \in {})
    <3>1. \A h \in Generations : ProcTypeOK(proc'[h]) /\ RunOK(proc'[h])
      BY <2>8, <2>9, SpawnFacts
    <3>. QED BY <2>9, <3>1 DEF Kept, SameRun
  <2>11. SrvTypeOK'
    BY <1>0, <2>6 DEF SrvTypeOK
  <2>12. ShutOK'
    <3>1. \A h \in Generations : proc'[h].child = proc[h].child /\ proc'[h].pc = proc[h].pc
      BY <2>9 DEF SameRun
    <3>. QED BY <1>0, <1>s, <2>6, <3>1 DEF ShutOK, SrvTypeOK
  <2>13. \A d \in Endpoints : EpTypeOK(ep'[d])
    <3>1. \A d \in Endpoints : slots(d) \in [ProcessIds -> AnySlot]
      BY <1>0 DEF EpTypeOK, AnySlot
    <3>. QED BY <1>0, <2>7, <3>1 DEF EpTypeOK
  <2>14. FramesOK'
    <3>1. \A d \in Endpoints : ep[d].queue \in Seq(AnyFrame) /\ ep'[d].queue = ep[d].queue
      BY <1>0, <2>7 DEF EpTypeOK
    <3>2. \A h \in Generations :
            (proc[h].pc = "ended" => proc'[h].pc = "ended") /\ (proc[h].terminal => proc'[h].terminal)
      BY <2>9 DEF SameRun
    <3>. QED BY <2>6, <3>1, <3>2, FramesStay DEF ProcInv
  <2>15. FailuresOnTheirWay' = FailuresOnTheirWay
    <3>1. \A d \in Endpoints : ep'[d].queue = ep[d].queue
      BY <2>7
    <3>. QED BY <3>1 DEF FailuresOnTheirWay
  <2>16. ASSUME NEW d \in Endpoints PROVE IdsOf(d)'
    <3>1. IdsOf(d) /\ SlotsDiffer
      BY SlotsDo DEF ProcInv, SlotsOK
    <3>2. CASE ep[d].stage # "open"
      <4>1. \A i \in ProcessIds : ep'[d].slots[i] = Free
        BY <2>7, <3>1, <3>2, ZenonT(60) DEF IdsOf
      <4>2. ~ep'[d].accepting /\ ep'[d].accepting \in BOOLEAN
        BY <1>0, <2>7, <3>1, <3>2 DEF IdsOf, EpTypeOK
      <4>. QED BY <2>7, <3>2, <4>1, <4>2, ClosedIds
    <3>3. CASE ep[d].stage = "open"
      <4>1. ASSUME NEW i \in ProcessIds PROVE SlotOK(d, i)'
        <5>1. CASE Binding(d, i) \in p.bindings
          <6>1. Held(d, i, g) /\ p.exits = {} /\ p.pc \in HasRecord \cup {"made"}
            BY <2>3, <5>1, ExitsOrBindings DEF Held, RunOK
          <6>2. p.pc # "made"
            BY <1>s, <2>3 DEF PlaceOK, Claimed
          <6>3. ep[d].slots[i] = BoundSlot(g)
            BY <2>g, <3>1, <3>3, <6>1, <6>2 DEF IdsOf, SlotOK, Pendings, HasRecord
          <6>4. ep'[d].slots[i] = Free
            BY <2>7, <5>1, <6>3, ZenonT(60)
          <6>5. ASSUME NEW h \in Generations
                PROVE  /\ ~Held(d, i, h)' /\ ~FrameIn(d, i, h)'
                       /\ ~(Claims(proc'[h]) /\ proc'[h].owner = d /\ proc'[h].id = i)
            <7>1. ~FrameIn(d, i, h)
              BY <2>g, <3>1, <3>3, <6>1, <6>3 DEF IdsOf, SlotOK, SlotsDiffer, FrameIn
            <7>2. ~FrameIn(d, i, h)'
              BY <2>7, <7>1 DEF FrameIn, FreedBy
            <7>3. h # g => ~Held(d, i, h)
              BY <2>g, <3>1, <3>3, <6>3 DEF IdsOf, SlotOK, SlotsDiffer
            <7>4. ~Held(d, i, h)'
              BY <2>5, <2>9, <6>1, <7>3 DEF Held
            <7>5. ~(Claims(proc[h]) /\ proc[h].owner = d /\ proc[h].id = i)
              BY <3>1, <3>3, <6>3 DEF IdsOf, SlotOK, SlotsDiffer
            <7>6. ~(Claims(proc'[h]) /\ proc'[h].owner = d /\ proc'[h].id = i)
              BY <2>9, <7>5 DEF SameRun, Claims
            <7>. QED BY <7>2, <7>4, <7>6
          <6>. QED BY <3>1, <6>4, <6>5, SlotEmpties DEF SlotsDiffer
        <5>2. CASE Binding(d, i) \notin p.bindings
          <6>1. ep'[d].slots[i] = ep[d].slots[i]
            BY <2>7, <5>2
          <6>2. \A h \in Generations : Held(d, i, h)' <=> Held(d, i, h)
            BY <2>5, <2>9, <5>2 DEF Held
          <6>3. \A h \in Generations : \A j :
                  (j \in DOMAIN ep'[d].queue /\ FreedBy(d, i, h, j)') <=>
                    (j \in DOMAIN ep[d].queue /\ FreedBy(d, i, h, j))
            BY <2>7 DEF FreedBy
          <6>4. SlotOK(d, i)
            BY <3>1 DEF IdsOf
          <6>. QED BY <2>7, <2>9, <6>1, <6>2, <6>3, <6>4, IdElsewhere
        <5>. QED BY <5>1, <5>2
      <4>. QED BY <2>7, <3>1, <3>3, <4>1 DEF IdsOf
    <3>. QED BY <3>2, <3>3
  <2>17. SlotsOK'
    BY <2>16 DEF SlotsOK
  <2>18. \A d \in Endpoints : EpTypeOK(ep'[d]) /\ ep'[d].work \subseteq ep[d].work
    BY <2>7, <2>13
  <2>19. {} \in SUBSET Generations
    OBVIOUS
  <2>. QED BY <1>s, <2>6, <2>7, <2>9, <2>10, <2>11, <2>12, <2>14, <2>15, <2>17, <2>18, <2>19, RecordEnds
<1>. QED BY <1>1, <1>2 DEF ServerUnbinds

(* A record that is ended, released or not, keeps the rest.                *)
LEMMA EndedKept ==
  ASSUME NEW p, ProcTypeOK(p), RunOK(p), NEW q, NEW due \in BOOLEAN, Ended(p, q, due),
         due => p.pc \in HasRecord
  PROVE  Kept(p, q, due)
<1>1. ProcTypeOK(q)
  BY DEF ProcTypeOK, Ended
<1>2. RunOK(q)
  BY DEF RunOK, Ended
<1>. QED BY <1>1, <1>2 DEF Kept, Ended

(* Endpoints that only lose what they own keep their ids and frames.       *)
LEMMA EndpointsStay ==
  ASSUME ProcInv, srv'.pending = srv.pending, DOMAIN ep' = Endpoints,
         \A e \in Endpoints : SameEndpoint(ep[e], ep'[e]), NEW due,
         \A g \in Generations :
           /\ Kept(proc[g], proc'[g], g \in due)
           /\ proc'[g].bindings \cup proc'[g].exits = proc[g].bindings \cup proc[g].exits
  PROVE  /\ \A e \in Endpoints : EpTypeOK(ep'[e]) /\ ep'[e].work \subseteq ep[e].work
         /\ FramesOK' /\ FailuresOnTheirWay' = FailuresOnTheirWay /\ SlotsOK'
<1>0. ProcTypes
  BY DEF ProcInv
<1>1. \A e \in Endpoints : EpTypeOK(ep'[e]) /\ ep'[e].work \subseteq ep[e].work
  BY <1>0 DEF ProcTypes, EpTypeOK, SameEndpoint
<1>2. \A e \in Endpoints : ep[e].queue \in Seq(AnyFrame) /\ ep'[e].queue = ep[e].queue
  BY <1>0 DEF ProcTypes, EpTypeOK, SameEndpoint
<1>3. FramesOK'
  <2>1. \A h \in Generations :
          (proc[h].pc = "ended" => proc'[h].pc = "ended") /\ (proc[h].terminal => proc'[h].terminal)
    BY DEF Kept
  <2>. QED BY <1>2, <2>1, FramesStay DEF ProcInv
<1>4. FailuresOnTheirWay' = FailuresOnTheirWay
  BY <1>2 DEF FailuresOnTheirWay
<1>5. SlotsOK'
  <2>. SUFFICES ASSUME NEW e \in Endpoints PROVE IdsOf(e)'
    BY DEF SlotsOK
  <2>1. \A g \in Generations : SameEnds(proc[g], proc'[g])
    BY DEF SameEnds, Kept, Claims
  <2>2. IdsOf(e) /\ SameEndpoint(ep[e], ep'[e])
    BY DEF ProcInv, SlotsOK
  <2>. QED BY <2>1, <2>2, IdsStay DEF SameEndpoint
<1>. QED BY <1>1, <1>3, <1>4, <1>5

(* terminate_record for each record, and their release.                    *)
LEMMA ServerTerminatesKeeps ==
  ASSUME ProcInv, ServerTerminates
  PROVE  ProcInv'
<1>0. SrvTypeOK /\ ShutOK /\ ProcTypes /\ DOMAIN ep = Endpoints /\ DOMAIN proc = Generations
  BY ServerFacts DEF ProcTypes
<1>s. /\ srv.stage = "terminate" /\ srv.pending = {} /\ srv.live \subseteq srv.mine
      /\ \A g \in srv.mine : g \in Generations /\ proc[g].pc \in HasRecord
      /\ \A g \in srv.mine \ (srv.todo \cup srv.freeing) : Over(proc[g])
      /\ \A g, h \in srv.freeing : g = h
  BY <1>0 DEF ServerTerminates, ShutOK, SrvTypeOK
<1>1. ASSUME NEW g \in srv.todo, srv.freeing = {},
             Becomes(Terminate([Now EXCEPT !.srv.todo = @ \ {g}, !.srv.freeing = {g}], g))
      PROVE  ProcInv'
  <2> DEFINE s == [Now EXCEPT !.srv.todo = @ \ {g}, !.srv.freeing = {g}]
             S == [srv EXCEPT !.todo = @ \ {g}, !.freeing = {g}]
  <2>1. IsState(s) /\ s.srv = S /\ s.ep = ep /\ s.proc = proc
    BY <1>0, NowIs DEF IsState, SrvTypeOK
  <2>g. g \in Generations
    BY <1>0 DEF SrvTypeOK
  <2>2. Becomes(Terminate(s, g))
    BY <1>1
  <2> HIDE DEF s
  <2>3. srv' = S /\ ep' = ep /\ proc' = [proc EXCEPT ![g] = Termed(proc[g])]
    <3>1. /\ Terminate(s, g).srv = s.srv /\ Terminate(s, g).ep = s.ep
          /\ Terminate(s, g).proc = [s.proc EXCEPT ![g] = Termed(s.proc[g])]
      BY <2>1, TerminateIs
    <3>. QED BY <2>1, <2>2, <3>1 DEF Becomes
  <2>4. /\ DOMAIN srv' = DOMAIN srv /\ srv'.accepting = srv.accepting /\ srv'.stage = srv.stage
        /\ srv'.todo = srv.todo \ {g} /\ srv'.generations = srv.generations
        /\ srv'.pending = srv.pending /\ srv'.live = srv.live /\ srv'.finals = srv.finals
        /\ srv'.freeing = {g} /\ srv'.waits = srv.waits /\ srv'.mine = srv.mine
    BY <1>0, <2>3 DEF SrvTypeOK
  <2>5. SrvTypeOK'
    BY <1>0, <2>g, <2>4 DEF SrvTypeOK
  <2>6. DOMAIN proc' = Generations /\ \A h \in Generations : QuietRun(proc[h], proc'[h])
    <3>1. \A h \in Generations : QuietRun(proc[h], Termed(proc[h])) /\ QuietRun(proc[h], proc[h])
      BY RecordsOK, SignalsAreQuiet DEF QuietRun
    <3>. QED BY <1>0, <2>3, <3>1
  <2>7. ShutOK'
    <3>1. \A h \in Generations : /\ Over(proc[h]) => Over(proc'[h])
                                 /\ proc[h].pc \in HasRecord => proc'[h].pc \in HasRecord
      BY <2>6 DEF QuietRun
    <3>. QED BY <1>0, <1>1, <1>s, <2>4, <3>1 DEF ShutOK
  <2>. QED BY <1>s, <2>3, <2>4, <2>5, <2>6, <2>7, ServerStep
<1>2. ASSUME NEW g \in srv.freeing,
             LET s == [Now EXCEPT !.srv.freeing = {}]
             IN  Becomes(AbortPipes(IF proc[g].reaped THEN s ELSE ForceKill(s, g), g))
      PROVE  ProcInv'
  <2> DEFINE s == [Now EXCEPT !.srv.freeing = {}]
             S == [srv EXCEPT !.freeing = {}]
             t == IF proc[g].reaped THEN s ELSE ForceKill(s, g)
             p == proc[g]
             q == IF p.reaped THEN p ELSE Forced(p)
  <2>1. IsState(s) /\ s.srv = S /\ s.ep = ep /\ s.proc = proc
    BY <1>0, NowIs DEF IsState, SrvTypeOK
  <2>g. g \in Generations
    BY <1>0 DEF SrvTypeOK
  <2>2. Becomes(AbortPipes(t, g))
    BY <1>2
  <2> HIDE DEF s
  <2>3. /\ IsState(t) /\ t.srv = S /\ t.ep = ep /\ DOMAIN t.proc = Generations /\ t.proc[g] = q
        /\ \A r : [t.proc EXCEPT ![g] = r] = [proc EXCEPT ![g] = r]
    <3>1. /\ IsState(ForceKill(s, g)) /\ ForceKill(s, g).srv = s.srv /\ ForceKill(s, g).ep = s.ep
          /\ ForceKill(s, g).proc = [s.proc EXCEPT ![g] = Forced(s.proc[g])]
      BY <2>1, ForceKillIs
    <3>2. CASE p.reaped
      BY <1>0, <2>1, <3>2
    <3>3. CASE ~p.reaped
      <4>1. t = ForceKill(s, g) /\ q = Forced(p)
        BY <3>3
      <4>. QED BY <1>0, <2>g, <2>1, <3>1, <4>1
    <3>. QED BY <3>2, <3>3
  <2> HIDE DEF t, q
  <2>4. srv' = S /\ ep' = ep /\ proc' = [proc EXCEPT ![g] = Aborted(q)]
    <3>1. g \in DOMAIN t.proc /\ t.proc[g] = q
      BY <1>0, <2>g, <2>3
    <3>2. /\ AbortPipes(t, g).srv = t.srv /\ AbortPipes(t, g).ep = t.ep
          /\ AbortPipes(t, g).proc = [t.proc EXCEPT ![g] = Tried([t.proc[g] EXCEPT !.io = TRUE])]
      BY <2>3, <3>1, AbortPipesIs
    <3>3. [t.proc EXCEPT ![g] = Aborted(q)] = [proc EXCEPT ![g] = Aborted(q)]
      BY <2>3
    <3>. QED BY <2>2, <2>3, <3>1, <3>2, <3>3 DEF Becomes, Aborted
  <2>5. /\ DOMAIN srv' = DOMAIN srv /\ srv'.accepting = srv.accepting /\ srv'.stage = srv.stage
        /\ srv'.todo = srv.todo /\ srv'.generations = srv.generations
        /\ srv'.pending = srv.pending /\ srv'.live = srv.live /\ srv'.finals = srv.finals
        /\ srv'.freeing = {} /\ srv'.waits = srv.waits /\ srv'.mine = srv.mine
    BY <1>0, <2>4 DEF SrvTypeOK
  <2>6. SrvTypeOK'
    BY <1>0, <2>5 DEF SrvTypeOK
  <2>7. QuietRun(p, Aborted(q)) /\ Over(Aborted(q))
    <3>1. ProcTypeOK(p) /\ RunOK(p) /\ QuietRun(p, p)
      BY <2>g, RecordsOK, SpawnFacts DEF QuietRun
    <3>2. QuietRun(p, q) /\ Over(q)
      BY <3>1, SignalsAreQuiet DEF q, RunOK, Over
    <3>3. QuietRun(q, Aborted(q))
      BY <3>2, AbortedIsQuiet DEF QuietRun
    <3>. QED BY <3>2, <3>3, QuietTwice DEF QuietRun
  <2>8. DOMAIN proc' = Generations /\ proc'[g] = Aborted(q) /\ \A h \in Generations : QuietRun(proc[h], proc'[h])
    <3>1. \A h \in Generations : QuietRun(proc[h], proc[h])
      BY RecordsOK DEF QuietRun
    <3>. QED BY <1>0, <2>g, <2>4, <2>7, <3>1
  <2>9. ShutOK'
    <3>1. \A h \in Generations : /\ Over(proc[h]) => Over(proc'[h])
                                 /\ proc[h].pc \in HasRecord => proc'[h].pc \in HasRecord
      BY <2>8 DEF QuietRun
    <3>2. Over(proc'[g])
      BY <2>7, <2>8
    <3>3. \A h \in srv.mine \ srv.todo : Over(proc'[h])
      BY <1>s, <3>1, <3>2
    <3>. QED BY <1>0, <1>s, <2>5, <3>1, <3>3 DEF ShutOK
  <2>. QED BY <1>s, <2>4, <2>5, <2>6, <2>8, <2>9, ServerStep
<1>3. ASSUME srv.todo = {}, srv.freeing = {},
             Becomes(ReleaseRecords([Now EXCEPT !.srv.stage = "finals"], srv.mine))
      PROVE  ProcInv'
  <2> DEFINE s == [Now EXCEPT !.srv.stage = "finals"]
             S == [srv EXCEPT !.stage = "finals"]
             due == {g \in srv.mine : ~proc[g].released}
  <2>1. IsState(s) /\ s.srv = S /\ s.ep = ep /\ s.proc = proc
    BY <1>0, NowIs DEF IsState, SrvTypeOK
  <2>s. /\ DOMAIN S = DOMAIN srv /\ S.accepting = srv.accepting /\ S.stage = "finals"
        /\ S.todo = srv.todo /\ S.generations = srv.generations
        /\ S.pending = srv.pending /\ S.live = srv.live /\ S.finals = srv.finals
        /\ S.freeing = srv.freeing /\ S.waits = srv.waits /\ S.mine = srv.mine
    BY <1>0 DEF SrvTypeOK
  <2> HIDE DEF s, S
  <2>2. /\ proc' = [g \in Generations |-> [proc[g] EXCEPT !.released = @ \/ g \in due]]
        /\ srv' = [S EXCEPT !.generations = Less(@, Cardinality(due \cap S.live)), !.live = @ \ due]
        /\ ep' = [e \in Endpoints |-> [ep[e] EXCEPT !.owned = @ \ due]]
    <3>1. LET t == ReleaseRecords(s, srv.mine)
              d == {g \in srv.mine : ~s.proc[g].released}
          IN  /\ t.proc = [g \in Generations |-> [s.proc[g] EXCEPT !.released = @ \/ g \in d]]
              /\ t.srv = [s.srv EXCEPT !.generations = Less(@, Cardinality(d \cap s.srv.live)),
                                       !.live = @ \ d]
              /\ t.ep = [e \in Endpoints |-> [s.ep[e] EXCEPT !.owned = @ \ d]]
      BY <2>1 DEF ReleaseRecords, IsState
    <3>2. Becomes(ReleaseRecords(s, srv.mine))
      BY <1>3 DEF s
    <3>. QED BY <2>1, <3>1, <3>2 DEF Becomes
  <2>3. due \in SUBSET Generations /\ (\A g \in due : g \in srv.mine) /\ srv.live \subseteq due
    <3>1. \A g \in srv.live : ~proc[g].released
      BY <1>s, SpawnFacts DEF PlaceOK
    <3>. QED BY <1>s, <3>1
  <2> HIDE DEF due
  <2>4. /\ DOMAIN srv' = DOMAIN srv /\ srv'.accepting = srv.accepting /\ srv'.stage = "finals"
        /\ srv'.todo = srv.todo /\ srv'.generations = Less(srv.generations, Cardinality(due \cap srv.live))
        /\ srv'.pending = srv.pending /\ srv'.live = srv.live \ due /\ srv'.finals = srv.finals
        /\ srv'.freeing = srv.freeing /\ srv'.waits = srv.waits /\ srv'.mine = srv.mine
    BY <1>0, <2>2, <2>s DEF SrvTypeOK
  <2>5. \A g \in Generations : Ended(proc[g], proc'[g], g \in due)
    BY <1>0, <2>2, ReleasedIs DEF ProcTypes
  <2>6. \A g \in Generations : Kept(proc[g], proc'[g], g \in due)
    <3>. SUFFICES ASSUME NEW g \in Generations PROVE Kept(proc[g], proc'[g], g \in due)
      OBVIOUS
    <3>1. (g \in due) \in BOOLEAN /\ (g \in due => proc[g].pc \in HasRecord)
      BY <1>s, <2>3
    <3>. QED BY <2>5, <3>1, EndedKept, SpawnFacts
  <2>7. DOMAIN proc' = Generations /\ DOMAIN ep' = Endpoints
    BY <2>2
  <2>8. \A e \in Endpoints : SameEndpoint(ep[e], ep'[e])
    BY <1>0, <2>2 DEF SameEndpoint, ProcTypes, EpTypeOK
  <2>9. \A g \in Generations :
           /\ Kept(proc[g], proc'[g], g \in due)
           /\ proc'[g].bindings \cup proc'[g].exits = proc[g].bindings \cup proc[g].exits
    BY <2>5, <2>6 DEF Ended
  <2>10. /\ \A e \in Endpoints : EpTypeOK(ep'[e]) /\ ep'[e].work \subseteq ep[e].work
         /\ FramesOK' /\ FailuresOnTheirWay' = FailuresOnTheirWay /\ SlotsOK'
    BY <2>4, <2>7, <2>8, <2>9, EndpointsStay
  <2>11. SrvTypeOK'
    <3>1. srv'.generations \in Nat
      <4>1. Cardinality(due \cap srv.live) \in Nat
        BY <2>3, GenerationsFinite
      <4>. QED BY <1>0, <2>4, <4>1 DEF SrvTypeOK, Less
    <3>. QED BY <1>0, <2>4, <3>1 DEF SrvTypeOK, Stages
  <2>12. ShutOK'
    <3>1. srv'.live = {}
      BY <2>3, <2>4
    <3>2. ASSUME NEW g \in Generations PROVE Over(proc[g])
      <4>1. CASE g \in srv.mine
        BY <1>3, <1>s, <4>1
      <4>2. CASE g \notin srv.mine
        <5>1. proc[g].pc \in HasRecord => proc[g].reaped
          BY <1>s, <4>2, SpawnFacts DEF PlaceOK
        <5>2. proc[g].pc # "made"
          BY <1>s, SpawnFacts DEF PlaceOK, Claimed
        <5>. QED BY <5>1, <5>2, SpawnFacts DEF RunOK, Over
      <4>. QED BY <4>1, <4>2
    <3>3. \A g \in Generations : Over(proc'[g])
      BY <2>6, <3>2 DEF Kept, Over
    <3>. QED BY <1>0, <1>s, <2>4, <3>1, <3>3 DEF ShutOK
  <2>. QED BY <1>s, <2>3, <2>4, <2>6, <2>7, <2>10, <2>11, <2>12, RecordEnds
<1>. QED BY <1>1, <1>2, <1>3 DEF ServerTerminates

-----------------------------------------------------------------------------
(* A spawn that fails, and what it tells its endpoint.                     *)

(* A frame more: what stood in the queues stands there still.              *)
LEMMA FrameAppended ==
  ASSUME NEW e \in Endpoints, ep[e].queue \in Seq(AnyFrame), NEW f \in AnyFrame,
         ep'[e].queue = Append(ep[e].queue, f), NEW n, n = Len(ep[e].queue) + 1
  PROVE  /\ n \notin DOMAIN ep[e].queue /\ DOMAIN ep'[e].queue = DOMAIN ep[e].queue \cup {n}
         /\ \A i \in DOMAIN ep[e].queue : ep'[e].queue[i] = ep[e].queue[i]
         /\ ep'[e].queue[n] = f
         /\ \A id, g : \A i \in DOMAIN ep[e].queue : FreedBy(e, id, g, i)' <=> FreedBy(e, id, g, i)
         /\ \A id, g : \A i \in DOMAIN ep'[e].queue : FreedBy(e, id, g, i)' =>
              \/ i \in DOMAIN ep[e].queue /\ FreedBy(e, id, g, i)
              \/ i = n /\ FreesId(f) /\ f.g = g /\ f.id = id
         /\ \A id, g : FrameIn(e, id, g)' <=>
                         FrameIn(e, id, g) \/ (FreesId(f) /\ f.g = g /\ f.id = id)
<1>1. /\ n \notin DOMAIN ep[e].queue /\ DOMAIN ep'[e].queue = DOMAIN ep[e].queue \cup {n}
      /\ \A i \in DOMAIN ep[e].queue : ep'[e].queue[i] = ep[e].queue[i]
      /\ ep'[e].queue[n] = f
  BY Appended
<1>2. \A id, g : \A i \in DOMAIN ep[e].queue : FreedBy(e, id, g, i)' <=> FreedBy(e, id, g, i)
  BY <1>1 DEF FreedBy
<1>3. \A id, g, i : i = n => (FreedBy(e, id, g, i)' <=> FreesId(f) /\ f.g = g /\ f.id = id)
  BY <1>1 DEF FreedBy
<1>4. ASSUME NEW id, NEW g
      PROVE  FrameIn(e, id, g)' <=> FrameIn(e, id, g) \/ (FreesId(f) /\ f.g = g /\ f.id = id)
  <2>1. FrameIn(e, id, g)' <=> \E i \in DOMAIN ep'[e].queue : FreedBy(e, id, g, i)'
    BY DEF FrameIn
  <2>. QED BY <1>1, <1>2, <1>3, <2>1 DEF FrameIn
<1>5. \A id, g : \A i \in DOMAIN ep'[e].queue : FreedBy(e, id, g, i)' =>
              \/ i \in DOMAIN ep[e].queue /\ FreedBy(e, id, g, i)
              \/ i = n /\ FreesId(f) /\ f.g = g /\ f.id = id
  BY <1>1 DEF FreedBy
<1>. QED BY <1>1, <1>2, <1>4, <1>5

(* The record of a spawn that has failed.                                  *)
LEMMA FailedRecord ==
  ASSUME ProcInv, NEW g \in Generations, proc[g].pc = "failing",
         proc' = [proc EXCEPT ![g] = [proc[g] EXCEPT !.pc = "ended", !.completed = TRUE]]
  PROVE  LET q == proc'[g]
         IN  /\ DOMAIN proc' = Generations /\ \A h \in Generations \ {g} : proc'[h] = proc[h]
             /\ ProcTypeOK(q) /\ RunOK(q) /\ q.pc = "ended" /\ q.phase = "done" /\ q.completed
             /\ q.child = proc[g].child
             /\ \A h \in Generations : SameEnds(proc[h], proc'[h])
             /\ \A h \in Generations : proc[h].pc = "ended" => proc'[h].pc = "ended"
             /\ \A h \in Generations : proc[h].terminal => proc'[h].terminal
             /\ ~Claims(q) /\ \A e, id : ~Held(e, id, g)
             /\ proc[g].owner \in Endpoints /\ proc[g].id \in ProcessIds
             /\ g \in srv.pending /\ g \notin srv.live /\ g \notin srv.finals /\ g \notin FailuresOnTheirWay
<1> DEFINE p == proc[g]
           q == proc'[g]
<1>0. /\ ProcTypeOK(p) /\ RunOK(p) /\ PlaceOK(g, p, srv.pending, srv.live, srv.finals, srv.stage)
      /\ DOMAIN proc = Generations
  BY SpawnFacts
<1>1. DOMAIN proc' = Generations /\ \A h \in Generations \ {g} : proc'[h] = proc[h]
  BY <1>0
<1>2. q = [p EXCEPT !.pc = "ended", !.completed = TRUE]
  BY <1>0
<1>3. /\ q.owner = p.owner /\ q.id = p.id /\ q.child = p.child /\ q.pc = "ended" /\ q.phase = p.phase
      /\ q.completed = TRUE /\ q.released = p.released /\ q.lost = p.lost
      /\ q.detachable = p.detachable /\ q.reaped = p.reaped /\ q.io = p.io /\ q.cleaned = p.cleaned
      /\ q.terminal = p.terminal /\ q.publishing = p.publishing /\ q.exits = p.exits
      /\ q.bindings = p.bindings /\ q.ownerAlive = p.ownerAlive /\ DOMAIN q = DOMAIN p
  BY <1>0, <1>2 DEF ProcTypeOK, NoProc
<1>4. p.pc = "failing" /\ p.phase = "done" /\ g \in srv.pending /\ g \notin srv.live
      /\ ~p.terminal /\ ~p.publishing /\ ~p.reaped /\ ~p.released /\ p.exits = {} /\ p.bindings = {}
  BY <1>0 DEF RunOK, PlaceOK, Claimed, HasRecord
<1> HIDE DEF q
<1>5. ProcTypeOK(q)
  BY <1>0, <1>3, <1>4 DEF ProcTypeOK
<1>6. RunOK(q)
  BY <1>0, <1>3, <1>4 DEF RunOK, HasRecord
<1>7. \A h \in Generations : SameEnds(proc[h], proc'[h])
  <2>1. SameEnds(p, q)
    BY <1>3, <1>4 DEF SameEnds, Claims, HasRecord, Pendings
  <2>. QED BY <1>1, <2>1 DEF q, SameEnds
<1>8. ~Claims(q) /\ \A e, id : ~Held(e, id, g)
  BY <1>3, <1>4 DEF Claims, Held
<1>9. g \notin srv.finals /\ g \notin FailuresOnTheirWay
  BY <1>0, <1>4, FailuresAreOver DEF PlaceOK
<1>10. p.owner \in Endpoints /\ p.id \in ProcessIds
  BY <1>0, <1>4 DEF ProcTypeOK
<1>11. \A h \in Generations : /\ proc[h].pc = "ended" => proc'[h].pc = "ended"
                              /\ proc[h].terminal => proc'[h].terminal
  BY <1>1, <1>3 DEF q
<1>. QED BY <1>1, <1>3, <1>4, <1>5, <1>6, <1>7, <1>8, <1>9, <1>10, <1>11 DEF q

(* A spawn that gives its place among the pending up when it has failed.   *)
LEMMA SpawnGoes ==
  ASSUME ProcInv, NEW g \in Generations, proc[g].pc = "failing",
         proc' = [proc EXCEPT ![g] = [proc[g] EXCEPT !.pc = "ended", !.completed = TRUE]],
         SrvTypeOK', srv'.pending = srv.pending \ {g}, srv'.live = srv.live,
         srv'.finals = srv.finals, srv'.stage = srv.stage, srv'.accepting = srv.accepting,
         srv'.todo = srv.todo, srv'.freeing = srv.freeing, srv'.waits = srv.waits,
         srv'.mine = srv.mine,
         DOMAIN ep' = Endpoints,
         \A e \in Endpoints : EpTypeOK(ep'[e]) /\ ep'[e].work = ep[e].work,
         FramesOK', SlotsOK', GenerationsAreCharged'
  PROVE  ProcInv'
<1> DEFINE q == proc'[g]
<1>0. /\ DOMAIN proc' = Generations /\ \A h \in Generations \ {g} : proc'[h] = proc[h]
      /\ ProcTypeOK(q) /\ RunOK(q) /\ q.pc = "ended" /\ q.phase = "done" /\ q.completed
      /\ q.child = proc[g].child
  BY FailedRecord
<1> HIDE DEF q
<1>t. SrvTypeOK /\ ShutOK /\ ProcTypes
  BY ServerFacts
<1>1. ProcTypes'
  BY <1>0, <1>t DEF ProcTypes, q
<1>2. Places'
  <2>1. PlaceOK(g, q, srv'.pending, srv'.live, srv'.finals, srv'.stage)
    <3>1. PlaceOK(g, proc[g], srv.pending, srv.live, srv.finals, srv.stage) /\ RunOK(proc[g])
      BY SpawnFacts
    <3>. QED BY <1>0, <3>1 DEF PlaceOK, HasRecord, Claimed, Pendings, RunOK
  <2>2. \A h \in Generations \ {g} :
          RunOK(proc[h]) /\ PlaceOK(h, proc[h], srv'.pending, srv'.live, srv'.finals, srv'.stage)
    BY SpawnFacts DEF PlaceOK
  <2>. QED BY <1>0, <2>1, <2>2 DEF Places, q
<1>3. CancelsOK'
  <2>1. \A h \in Generations : Cancelled(h) => Cancelled(h)'
    BY <1>0 DEF Cancelled
  <2>2. \A h \in Generations : proc[h].pc # "none" => proc'[h].pc # "none"
    BY <1>0 DEF q
  <2>3. \A e \in Endpoints : ep[e].work \subseteq AnyWork /\ ep'[e].work \subseteq ep[e].work
    BY <1>t DEF ProcTypes, EpTypeOK
  <2>. QED BY <1>t, <2>1, <2>2, <2>3, CancelsStay DEF ProcInv, SrvTypeOK
<1>4. ShutOK'
  <2>1. \A h \in Generations :
          /\ proc'[h].child = proc[h].child
          /\ proc[h].pc \in HasRecord => proc'[h].pc \in HasRecord
          /\ proc[h].pc # "none" => proc'[h].pc # "none"
    BY <1>0 DEF q, HasRecord
  <2>. QED BY <1>t, <2>1 DEF ShutOK, SrvTypeOK, Over
<1>. QED BY <1>1, <1>2, <1>3, <1>4, FramesOK', SlotsOK', GenerationsAreCharged' DEF ProcInv

(* run_spawn gives the place back, or queues the notice that does.         *)
LEMMA ReportFailureKeeps ==
  ASSUME ProcInv, NEW g \in Generations, ReportFailure(g)
  PROVE  ProcInv'
<1> DEFINE p == proc[g]
           s == [Now EXCEPT !.proc[g].pc = "ended"]
<1>0. SrvTypeOK /\ ShutOK /\ ProcTypes /\ DOMAIN ep = Endpoints /\ DOMAIN proc = Generations
      /\ \A e \in Endpoints : EpTypeOK(ep[e])
  BY ServerFacts DEF ProcTypes
<1>1. /\ p.pc = "failing"
      /\ Becomes(MarkCompleted(IF p.ownerAlive
           THEN Queue(ReleasePending(s, g, TRUE), p.owner, "failed", g, p.id)
           ELSE ReleasePending(s, g, FALSE), g))
  BY DEF ReportFailure
<1>3. p.owner \in Endpoints /\ p.id \in ProcessIds
  BY <1>1, SpawnFacts DEF ProcTypeOK
<1>p. PICK o \in Endpoints, i0 \in ProcessIds : o = p.owner /\ i0 = p.id
  BY <1>3
<1>2. /\ IsState(s) /\ s.srv = srv /\ s.ep = ep /\ s.proc = [proc EXCEPT ![g].pc = "ended"]
      /\ s.proc[g].owner = o /\ s.proc[g].id = i0
  <2>1. IsState(s) /\ s.srv = srv /\ s.ep = ep /\ s.proc = [proc EXCEPT ![g].pc = "ended"]
    BY NowIs DEF IsState
  <2> HIDE DEF s
  <2>2. ProcTypeOK(p)
    BY SpawnFacts
  <2>3. s.proc[g] = [p EXCEPT !.pc = "ended"]
    BY <1>0, <2>1
  <2>. QED BY <1>p, <2>1, <2>2, <2>3 DEF ProcTypeOK, NoProc
<1> HIDE DEF s
<1>f. PICK f : f = [kind |-> "failed", g |-> g, id |-> i0]
  OBVIOUS
<1>4. [s.proc EXCEPT ![g].completed = TRUE] =
        [proc EXCEPT ![g] = [proc[g] EXCEPT !.pc = "ended", !.completed = TRUE]]
  BY <1>0, <1>2
<1>5. f \in AnyFrame
  BY <1>f, ZenonT(60) DEF AnyFrame
<1>a. CASE p.ownerAlive
  <2> DEFINE t == ReleasePending(s, g, TRUE)
             u == Queue(t, o, "failed", g, i0)
  <2>1. /\ IsState(t) /\ t.proc = s.proc /\ t.srv = [srv EXCEPT !.pending = @ \ {g}]
        /\ t.ep = [ep EXCEPT ![o].slots[i0] = @]
    <3>1. /\ IsState(t) /\ t.proc = s.proc /\ t.srv = [s.srv EXCEPT !.pending = @ \ {g}]
          /\ t.ep = [s.ep EXCEPT ![s.proc[g].owner].slots[s.proc[g].id] = @]
      BY <1>2, KeepPendingIs
    <3>. QED BY <1>2, <3>1
  <2> HIDE DEF t
  <2>2. IsState(u) /\ u.srv = t.srv /\ u.proc = t.proc /\ u.ep = [t.ep EXCEPT ![o].queue = Append(@, f)]
    <3>1. /\ IsState(u) /\ u.srv = t.srv /\ u.proc = t.proc
          /\ u.ep = [t.ep EXCEPT ![o].queue = Append(@, [kind |-> "failed", g |-> g, id |-> i0])]
      BY <2>1 DEF Queue, IsState
    <3>. QED BY <1>f, <3>1
  <2>3. Becomes(MarkCompleted(u, g))
    BY <1>1, <1>a, <1>p DEF t
  <2> HIDE DEF u
  <2>4. /\ srv' = [srv EXCEPT !.pending = @ \ {g}] /\ ep' = [t.ep EXCEPT ![o].queue = Append(@, f)]
        /\ proc' = [proc EXCEPT ![g] = [proc[g] EXCEPT !.pc = "ended", !.completed = TRUE]]
    <3>1. /\ MarkCompleted(u, g).srv = u.srv /\ MarkCompleted(u, g).ep = u.ep
          /\ MarkCompleted(u, g).proc = [u.proc EXCEPT ![g].completed = TRUE]
      BY <2>2, MarkCompletedIs
    <3>. QED BY <1>4, <2>1, <2>2, <2>3, <3>1 DEF Becomes
  <2>5. /\ DOMAIN t.ep = Endpoints /\ \A e \in Endpoints \ {o} : t.ep[e] = ep[e]
        /\ t.ep[o] = [ep[o] EXCEPT !.slots[i0] = @]
    BY <1>0, <2>1
  <2>6. /\ DOMAIN t.ep[o] = DOMAIN ep[o] /\ t.ep[o].slots = ep[o].slots
        /\ t.ep[o].accepting = ep[o].accepting /\ t.ep[o].queue = ep[o].queue
        /\ t.ep[o].kicked = ep[o].kicked /\ t.ep[o].stage = ep[o].stage /\ t.ep[o].work = ep[o].work
    <3>1. ep[o].slots \in [ProcessIds -> AnySlot] /\ EpTypeOK(ep[o])
      BY <1>0 DEF EpTypeOK
    <3>. QED BY <2>5, <3>1 DEF EpTypeOK
  <2>7. /\ DOMAIN ep' = Endpoints /\ \A e \in Endpoints \ {o} : ep'[e] = ep[e]
        /\ DOMAIN ep'[o] = DOMAIN ep[o] /\ ep'[o].slots = ep[o].slots
        /\ ep'[o].accepting = ep[o].accepting /\ ep'[o].queue = Append(ep[o].queue, f)
        /\ ep'[o].kicked = ep[o].kicked /\ ep'[o].stage = ep[o].stage /\ ep'[o].work = ep[o].work
    <3>1. EpTypeOK(ep[o])
      BY <1>0
    <3>. QED BY <2>4, <2>5, <2>6, <3>1 DEF EpTypeOK
  <2>8. /\ DOMAIN srv' = DOMAIN srv /\ srv'.accepting = srv.accepting /\ srv'.stage = srv.stage
        /\ srv'.todo = srv.todo /\ srv'.generations = srv.generations
        /\ srv'.pending = srv.pending \ {g} /\ srv'.live = srv.live /\ srv'.finals = srv.finals
        /\ srv'.freeing = srv.freeing /\ srv'.waits = srv.waits /\ srv'.mine = srv.mine
    BY <1>0, <2>4 DEF SrvTypeOK
  <2>9. SrvTypeOK'
    BY <1>0, <2>8 DEF SrvTypeOK
  <2>10. \A e \in Endpoints : EpTypeOK(ep'[e]) /\ ep'[e].work = ep[e].work
    <3>1. EpTypeOK(ep'[o])
      <4>1. ep'[o].queue \in Seq(AnyFrame)
        BY <1>0, <1>5, <2>7, Appended DEF EpTypeOK
      <4>2. EpTypeOK(ep[o])
        BY <1>0
      <4>. QED BY <2>7, <4>1, <4>2 DEF EpTypeOK
    <3>. QED BY <1>0, <2>7, <3>1
  <2> DEFINE n == Len(ep[o].queue) + 1
  <2>11. PICK k : k = n
    OBVIOUS
  <2>12. /\ k \notin DOMAIN ep[o].queue /\ DOMAIN ep'[o].queue = DOMAIN ep[o].queue \cup {k}
         /\ \A i \in DOMAIN ep[o].queue : ep'[o].queue[i] = ep[o].queue[i]
         /\ ep'[o].queue[k] = f
         /\ \A id, h : \A i \in DOMAIN ep[o].queue : FreedBy(o, id, h, i)' <=> FreedBy(o, id, h, i)
         /\ \A id, h : \A i \in DOMAIN ep'[o].queue : FreedBy(o, id, h, i)' =>
              \/ i \in DOMAIN ep[o].queue /\ FreedBy(o, id, h, i)
              \/ i = k /\ FreesId(f) /\ f.g = h /\ f.id = id
         /\ \A id, h : FrameIn(o, id, h)' <=>
                         FrameIn(o, id, h) \/ (FreesId(f) /\ f.g = h /\ f.id = id)
    <3>1. ep[o].queue \in Seq(AnyFrame)
      BY <1>0 DEF EpTypeOK
    <3>2. ep'[o].queue = Append(ep[o].queue, f) /\ k = Len(ep[o].queue) + 1
      BY <2>7, <2>11
    <3>. QED BY <1>5, <3>1, <3>2, FrameAppended
  <2>13. ~FreesId(f) /\ f.kind = "failed" /\ f.g = g
    BY <1>f DEF FreesId
  <2>14. /\ \A h \in Generations : SameEnds(proc[h], proc'[h])
         /\ \A h \in Generations : proc[h].pc = "ended" => proc'[h].pc = "ended"
         /\ \A h \in Generations : proc[h].terminal => proc'[h].terminal
         /\ proc'[g].pc = "ended"
         /\ g \in srv.pending /\ g \notin srv.live /\ g \notin srv.finals /\ g \notin FailuresOnTheirWay
    BY <1>1, <2>4, FailedRecord
  <2>15. SlotsOK'
    <3>. SUFFICES ASSUME NEW e \in Endpoints PROVE IdsOf(e)'
      BY DEF SlotsOK
    <3>1. IdsOf(e)
      BY DEF ProcInv, SlotsOK
    <3>2. CASE e # o
      <4>1. ep'[e] = ep[e]
        BY <2>7, <3>2
      <4>. QED BY <2>14, <3>1, <4>1, IdsStay
    <3>3. CASE e = o
      <4>1. \A id, h : FrameIn(e, id, h)' <=> FrameIn(e, id, h)
        BY <2>12, <2>13, <3>3
      <4>2. ep[e].stage = "open" => \A id \in ProcessIds, a, h \in Generations :
               \A i, j \in DOMAIN ep'[e].queue : FreedBy(e, id, a, i)' /\ FreedBy(e, id, h, j)' => i = j
        BY <2>12, <2>13, <3>1, <3>3 DEF IdsOf, SlotOK
      <4>3. /\ ep'[e].accepting = ep[e].accepting /\ ep'[e].stage = ep[e].stage
            /\ ep'[e].kicked = ep[e].kicked /\ ep'[e].work = ep[e].work /\ ep'[e].slots = ep[e].slots
        BY <2>7, <3>3
      <4>. QED BY <2>14, <3>1, <4>1, <4>2, <4>3, IdsEdit
    <3>. QED BY <3>2, <3>3
  <2>16. FramesOK'
    <3>0. \A e \in Endpoints : ep[e].queue \in Seq(AnyFrame)
      BY <1>0 DEF EpTypeOK
    <3>1. \A e \in Endpoints : \A i \in DOMAIN ep[e].queue :
            ep'[e].queue[i] = ep[e].queue[i] /\ ep[e].queue[i].g \in Generations
      <4>1. \A e \in Endpoints : \A i \in DOMAIN ep[e].queue : ep[e].queue[i] \in AnyFrame
        BY <3>0
      <4>. QED BY <2>7, <2>12, <4>1 DEF AnyFrame
    <3>2. \A e \in Endpoints : \A i \in DOMAIN ep'[e].queue :
            i \in DOMAIN ep[e].queue \/ (e = o /\ i = k /\ ep'[e].queue[i] = f)
      BY <2>7, <2>12
    <3>3. \A e \in Endpoints : \A i \in DOMAIN ep[e].queue :
            ep[e].queue[i].kind = "failed" => ep[e].queue[i].g # g
      BY <1>1 DEF ProcInv, FramesOK
    <3>4. ASSUME NEW e \in Endpoints, NEW i \in DOMAIN ep'[e].queue
          PROVE  /\ ep'[e].queue[i].kind = "failed" => proc'[ep'[e].queue[i].g].pc = "ended"
                                                       /\ ep'[e].queue[i].g \notin srv'.pending
                 /\ ep'[e].queue[i].kind = "exit" => proc'[ep'[e].queue[i].g].terminal
      <4>1. CASE i \in DOMAIN ep[e].queue
        <5>1. /\ ep[e].queue[i].kind = "failed" =>
                   proc[ep[e].queue[i].g].pc = "ended" /\ ep[e].queue[i].g \notin srv.pending
              /\ ep[e].queue[i].kind = "exit" => proc[ep[e].queue[i].g].terminal
          BY <4>1, FrameFacts DEF ProcInv
        <5>. QED BY <2>8, <2>14, <3>1, <4>1, <5>1
      <4>2. CASE ep'[e].queue[i] = f
        BY <2>8, <2>13, <2>14, <4>2
      <4>. QED BY <3>2, <4>1, <4>2
    <3>5. \A e, d \in Endpoints : \A i \in DOMAIN ep'[e].queue, j \in DOMAIN ep'[d].queue :
            ep'[e].queue[i].kind = "failed" /\ ep'[d].queue[j].kind = "failed"
              /\ ep'[e].queue[i].g = ep'[d].queue[j].g => e = d /\ i = j
      <4>1. \A e, d \in Endpoints : \A i \in DOMAIN ep[e].queue, j \in DOMAIN ep[d].queue :
              ep[e].queue[i].kind = "failed" /\ ep[d].queue[j].kind = "failed"
                /\ ep[e].queue[i].g = ep[d].queue[j].g => e = d /\ i = j
        BY DEF ProcInv, FramesOK
      <4>. QED BY <2>13, <3>1, <3>2, <3>3, <4>1
    <3>. QED BY <3>4, <3>5 DEF FramesOK
  <2>17. GenerationsAreCharged'
    <3>1. FailuresOnTheirWay' = FailuresOnTheirWay \cup {g}
      <4>0. \A h \in Generations : h \in FailuresOnTheirWay <=>
              \E e \in Endpoints : \E i \in DOMAIN ep[e].queue :
                ep[e].queue[i].kind = "failed" /\ ep[e].queue[i].g = h
        BY DEF FailuresOnTheirWay
      <4>1. \A h \in Generations : h \in FailuresOnTheirWay' <=>
              \E e \in Endpoints : \E i \in DOMAIN ep'[e].queue :
                ep'[e].queue[i].kind = "failed" /\ ep'[e].queue[i].g = h
        BY DEF FailuresOnTheirWay
      <4>2. \A e \in Endpoints : \A i \in DOMAIN ep[e].queue :
              i \in DOMAIN ep'[e].queue /\ ep'[e].queue[i] = ep[e].queue[i]
        BY <2>7, <2>12
      <4>3. \A e \in Endpoints : \A i \in DOMAIN ep'[e].queue :
              (i \in DOMAIN ep[e].queue /\ ep'[e].queue[i] = ep[e].queue[i]) \/ ep'[e].queue[i] = f
        BY <2>7, <2>12, SMTT(30)
      <4>4. ASSUME NEW h \in Generations
            PROVE  h \in FailuresOnTheirWay' <=> h \in FailuresOnTheirWay \/ h = g
        <5>1. h \in FailuresOnTheirWay => h \in FailuresOnTheirWay'
          BY <4>0, <4>1, <4>2
        <5>2. h = g => h \in FailuresOnTheirWay'
          BY <1>3, <2>12, <2>13, <4>1
        <5>3. h \in FailuresOnTheirWay' => h \in FailuresOnTheirWay \/ h = g
          BY <2>13, <4>0, <4>1, <4>3
        <5>. QED BY <5>1, <5>2, <5>3
      <4>5. FailuresOnTheirWay' \subseteq Generations
        BY DEF FailuresOnTheirWay
      <4>. QED BY <4>4, <4>5, FailuresTyped
    <3>2. Charged' = Charged
      BY <2>8, <2>14, <3>1 DEF Charged
    <3>. QED BY <2>8, <3>2, NoneGivenBack
  <2>. QED BY <1>1, <2>4, <2>7, <2>8, <2>9, <2>10, <2>15, <2>16, <2>17, SpawnGoes
<1>b. CASE ~p.ownerAlive
  <2> DEFINE t == ReleasePending(s, g, FALSE)
  <2>1. /\ IsState(t) /\ t.proc = s.proc
        /\ t.srv = [srv EXCEPT !.pending = @ \ {g}, !.generations = Less(@, 1)]
        /\ t.ep = [ep EXCEPT ![o].slots[i0] = IF @ = PendingSlot(g) THEN Free ELSE @]
    <3>1. /\ IsState(t) /\ t.proc = s.proc
          /\ t.srv = [s.srv EXCEPT !.pending = @ \ {g}, !.generations = Less(@, 1)]
          /\ t.ep = [s.ep EXCEPT ![s.proc[g].owner].slots[s.proc[g].id] =
                       IF @ = PendingSlot(g) THEN Free ELSE @]
      BY <1>2, ReleasePendingIs
    <3>. QED BY <1>2, <3>1
  <2>2. Becomes(MarkCompleted(t, g))
    BY <1>1, <1>b
  <2> HIDE DEF t
  <2>3. /\ srv' = [srv EXCEPT !.pending = @ \ {g}, !.generations = Less(@, 1)]
        /\ ep' = [ep EXCEPT ![o].slots[i0] = IF @ = PendingSlot(g) THEN Free ELSE @]
        /\ proc' = [proc EXCEPT ![g] = [proc[g] EXCEPT !.pc = "ended", !.completed = TRUE]]
    <3>1. /\ MarkCompleted(t, g).srv = t.srv /\ MarkCompleted(t, g).ep = t.ep
          /\ MarkCompleted(t, g).proc = [t.proc EXCEPT ![g].completed = TRUE]
      BY <2>1, MarkCompletedIs
    <3>. QED BY <1>4, <2>1, <2>2, <3>1 DEF Becomes
  <2>4. /\ DOMAIN srv' = DOMAIN srv /\ srv'.accepting = srv.accepting /\ srv'.stage = srv.stage
        /\ srv'.todo = srv.todo /\ srv'.generations = Less(srv.generations, 1)
        /\ srv'.pending = srv.pending \ {g} /\ srv'.live = srv.live /\ srv'.finals = srv.finals
        /\ srv'.freeing = srv.freeing /\ srv'.waits = srv.waits /\ srv'.mine = srv.mine
    BY <1>0, <2>3 DEF SrvTypeOK
  <2>5. SrvTypeOK'
    BY <1>0, <2>4 DEF SrvTypeOK, Less
  <2>6. /\ DOMAIN ep' = Endpoints
        /\ \A e \in Endpoints :
              /\ EpTypeOK(ep'[e]) /\ ep'[e].work = ep[e].work
              /\ ep'[e].accepting = ep[e].accepting /\ ep'[e].queue = ep[e].queue
              /\ ep'[e].kicked = ep[e].kicked /\ ep'[e].stage = ep[e].stage
              /\ \A i \in ProcessIds :
                   \/ ep'[e].slots[i] = ep[e].slots[i]
                   \/ ep'[e].slots[i] = Free /\ ep[e].slots[i] = PendingSlot(g)
    BY <1>0, <2>3, SlotGivenUp
  <2>7. /\ \A h \in Generations : SameEnds(proc[h], proc'[h])
        /\ \A h \in Generations : proc[h].pc = "ended" => proc'[h].pc = "ended"
        /\ \A h \in Generations : proc[h].terminal => proc'[h].terminal
        /\ ~Claims(proc'[g]) /\ \A e, id : ~Held(e, id, g)
        /\ g \in srv.pending /\ g \notin srv.live /\ g \notin srv.finals /\ g \notin FailuresOnTheirWay
    BY <1>1, <2>3, FailedRecord
  <2>8. FramesOK'
    <3>1. \A e \in Endpoints : ep[e].queue \in Seq(AnyFrame) /\ ep'[e].queue = ep[e].queue
      BY <1>0, <2>6 DEF EpTypeOK
    <3>. QED BY <2>4, <2>7, <3>1, FramesStay DEF ProcInv
  <2>9. SlotsOK'
    <3>. SUFFICES ASSUME NEW e \in Endpoints PROVE IdsOf(e)'
      BY DEF SlotsOK
    <3>1. IdsOf(e)
      BY DEF ProcInv, SlotsOK
    <3>2. \A id, h, i : FreedBy(e, id, h, i)' <=> FreedBy(e, id, h, i)
      BY <2>6 DEF FreedBy
    <3>3. \A id, h : FrameIn(e, id, h)' <=> FrameIn(e, id, h)
      BY <2>6, <3>2 DEF FrameIn
    <3>4. ep[e].stage = "open" => \A id \in ProcessIds, a, h \in Generations :
             \A i, j \in DOMAIN ep'[e].queue : FreedBy(e, id, a, i)' /\ FreedBy(e, id, h, j)' => i = j
      BY <2>6, <3>1, <3>2 DEF IdsOf, SlotOK
    <3>5. \A id \in ProcessIds : \/ ep'[e].slots[id] = ep[e].slots[id]
                                 \/ ep'[e].slots[id] = Free /\ GivenBack(e, id)
      BY <2>6, <2>7 DEF GivenBack
    <3>. QED BY <2>6, <2>7, <3>1, <3>3, <3>4, <3>5, IdsEdit
  <2>10. GenerationsAreCharged'
    <3>1. \A e \in Endpoints : ep'[e].queue = ep[e].queue
      BY <2>6
    <3>2. FailuresOnTheirWay' = FailuresOnTheirWay
      BY <3>1 DEF FailuresOnTheirWay
    <3>3. Charged' = Charged \ {g} /\ g \in Charged
      BY <2>4, <2>7, <3>2 DEF Charged
    <3>. QED BY <2>4, <3>3, OneGivenBack
  <2>11. \A e \in Endpoints : EpTypeOK(ep'[e]) /\ ep'[e].work = ep[e].work
    BY <2>6, ZenonT(60)
  <2>. QED BY <1>1, <2>3, <2>4, <2>5, <2>6, <2>8, <2>9, <2>10, <2>11, SpawnGoes, ZenonT(60)
<1>. QED BY <1>a, <1>b

-----------------------------------------------------------------------------
(* A spawn becomes a record.                                               *)

(* transfer_pending_to_record: a pending spawn becomes live.               *)
LEMMA TransferKeeps ==
  ASSUME ProcInv, NEW g \in Generations, Transfer(g)
  PROVE  ProcInv'
<1> DEFINE p == proc[g]
<1>0. SrvTypeOK /\ ShutOK /\ ProcTypes /\ DOMAIN ep = Endpoints /\ DOMAIN proc = Generations
      /\ \A e \in Endpoints : EpTypeOK(ep[e])
  BY ServerFacts DEF ProcTypes
<1>p. /\ ProcTypeOK(p) /\ RunOK(p) /\ PlaceOK(g, p, srv.pending, srv.live, srv.finals, srv.stage)
      /\ p.pc = "made"
  BY SpawnFacts, ZenonT(60) DEF Transfer
<1>1. PICK o \in Endpoints, i0 \in ProcessIds : o = p.owner /\ i0 = p.id
  BY <1>p, ZenonT(60) DEF ProcTypeOK
<1> DEFINE ours == ep[o].slots[i0] = PendingSlot(g)
           bound == srv.accepting /\ ep[o].accepting /\ ours /\ ~p.lost
           to == IF bound THEN BoundSlot(g) ELSE IF ours THEN Free ELSE ep[o].slots[i0]
           q == [p EXCEPT !.pc = IF bound THEN "bound" ELSE "unbound", !.phase = "done",
                          !.bindings = IF bound THEN @ ELSE {}, !.completed = TRUE]
<1>2. Becomes([Now EXCEPT
           !.srv.pending = @ \ {g}, !.srv.live = @ \cup {g},
           !.ep[o].slots[i0] = IF bound THEN BoundSlot(g) ELSE IF ours THEN Free ELSE @,
           !.ep[o].owned = IF bound /\ ~p.detachable THEN @ \cup {g} ELSE @,
           !.proc[g] = q])
  BY <1>1 DEF Transfer
<1>b. bound \in BOOLEAN /\ (bound => ours)
  BY <1>0 DEF SrvTypeOK, EpTypeOK
<1>3. /\ srv' = [srv EXCEPT !.pending = @ \ {g}, !.live = @ \cup {g}]
      /\ proc' = [proc EXCEPT ![g] = q]
  BY <1>2 DEF Becomes, Now
<1>4. ep' = [ep EXCEPT ![o].slots[i0] = IF bound THEN BoundSlot(g) ELSE IF ours THEN Free ELSE @,
                       ![o].owned = IF bound /\ ~p.detachable THEN @ \cup {g} ELSE @]
  BY <1>2 DEF Becomes, Now
<1>5. /\ DOMAIN ep' = Endpoints /\ \A e \in Endpoints \ {o} : ep'[e] = ep[e]
      /\ DOMAIN ep'[o] = DOMAIN ep[o] /\ ep'[o].slots = [ep[o].slots EXCEPT ![i0] = to]
      /\ ep'[o].accepting = ep[o].accepting /\ ep'[o].queue = ep[o].queue
      /\ ep'[o].kicked = ep[o].kicked /\ ep'[o].stage = ep[o].stage /\ ep'[o].work = ep[o].work
  <2>1. EpTypeOK(ep[o])
    BY <1>0
  <2>. QED BY <1>0, <1>4, <2>1 DEF EpTypeOK
<1>6. /\ q.owner = o /\ q.id = i0 /\ q.child = p.child /\ q.phase = "done"
      /\ q.completed = TRUE /\ q.released = p.released /\ q.lost = p.lost
      /\ q.detachable = p.detachable /\ q.reaped = p.reaped /\ q.io = p.io /\ q.cleaned = p.cleaned
      /\ q.terminal = p.terminal /\ q.publishing = p.publishing /\ q.exits = p.exits
      /\ q.ownerAlive = p.ownerAlive /\ DOMAIN q = DOMAIN p
      /\ q.pc = (IF bound THEN "bound" ELSE "unbound")
      /\ q.bindings = (IF bound THEN p.bindings ELSE {})
  BY <1>1, <1>p DEF ProcTypeOK, NoProc
<1>7. /\ DOMAIN srv' = DOMAIN srv /\ srv'.accepting = srv.accepting /\ srv'.stage = srv.stage
      /\ srv'.todo = srv.todo /\ srv'.generations = srv.generations
      /\ srv'.pending = srv.pending \ {g} /\ srv'.live = srv.live \cup {g} /\ srv'.finals = srv.finals
      /\ srv'.freeing = srv.freeing /\ srv'.waits = srv.waits /\ srv'.mine = srv.mine
  BY <1>0, <1>3 DEF SrvTypeOK
<1>8. /\ DOMAIN proc' = Generations /\ proc'[g] = q
      /\ \A h \in Generations \ {g} : proc'[h] = proc[h]
  BY <1>0, <1>3
<1> HIDE DEF q, bound
<1>9. /\ g \in srv.pending /\ g \notin srv.live /\ g \notin srv.finals /\ ~p.released
      /\ ~p.terminal /\ ~p.reaped /\ ~p.publishing /\ p.exits = {}
      /\ p.bindings \subseteq {Binding(o, i0)} /\ g \notin FailuresOnTheirWay
  BY <1>1, <1>p, FailuresAreOver DEF RunOK, PlaceOK, Claimed, HasRecord
<1>10. SrvTypeOK'
  BY <1>0, <1>7 DEF SrvTypeOK
<1>11. ProcTypeOK(q)
  BY <1>b, <1>p, <1>6 DEF ProcTypeOK
<1>12. RunOK(q)
  BY <1>b, <1>p, <1>6, <1>9 DEF RunOK, HasRecord
<1>13. \A e \in Endpoints : EpTypeOK(ep'[e]) /\ ep'[e].work = ep[e].work /\ ep'[e].queue = ep[e].queue
  <2>1. EpTypeOK(ep[o]) /\ ep[o].slots \in [ProcessIds -> AnySlot]
    BY <1>0 DEF EpTypeOK
  <2>2. to \in AnySlot
    BY <2>1 DEF AnySlot
  <2> HIDE DEF to
  <2>3. ep'[o].slots \in [ProcessIds -> AnySlot]
    BY <1>5, <2>1, <2>2
  <2>4. EpTypeOK(ep'[o])
    BY <1>5, <2>1, <2>3 DEF EpTypeOK
  <2>. QED BY <1>0, <1>5, <2>4
<1>14. ProcTypes'
  BY <1>5, <1>8, <1>10, <1>11, <1>13, <1>0 DEF ProcTypes
<1>15. Places'
  <2>1. PlaceOK(g, q, srv'.pending, srv'.live, srv'.finals, srv'.stage)
    BY <1>b, <1>6, <1>7, <1>9 DEF PlaceOK, HasRecord, Claimed
  <2>2. \A h \in Generations \ {g} :
          RunOK(proc[h]) /\ PlaceOK(h, proc[h], srv'.pending, srv'.live, srv'.finals, srv'.stage)
    BY <1>7, SpawnFacts DEF PlaceOK
  <2>. QED BY <1>8, <1>12, <2>1, <2>2 DEF Places
<1>16. /\ \A h \in Generations : Cancelled(h) => Cancelled(h)'
       /\ \A h \in Generations : proc[h].pc # "none" => proc'[h].pc # "none"
       /\ \A h \in Generations : proc[h].pc = "ended" => proc'[h].pc = "ended"
       /\ \A h \in Generations : proc[h].terminal => proc'[h].terminal
  <2>1. q.pc # "none" /\ q.terminal = p.terminal
    BY <1>6
  <2>. QED BY <1>p, <1>7, <1>8, <2>1 DEF Cancelled
<1>17. CancelsOK'
  <2>1. \A e \in Endpoints : ep[e].work \subseteq AnyWork /\ ep'[e].work \subseteq ep[e].work
    BY <1>0, <1>13 DEF EpTypeOK
  <2>. QED BY <1>0, <1>7, <1>16, <2>1, CancelsStay DEF ProcInv, SrvTypeOK
<1>18. srv.stage \in {"up", "cancel"}
  BY <1>0, <1>9 DEF ShutOK
<1>19. ShutOK'
  BY <1>0, <1>7, <1>16, <1>18 DEF ShutOK, SrvTypeOK
<1>20. FramesOK'
  <2>1. \A e \in Endpoints : ep[e].queue \in Seq(AnyFrame) /\ ep'[e].queue = ep[e].queue
    BY <1>0, <1>13 DEF EpTypeOK
  <2>. QED BY <1>7, <1>16, <2>1, FramesStay DEF ProcInv
<1>21. GenerationsAreCharged'
  <2>1. FailuresOnTheirWay' = FailuresOnTheirWay
    BY <1>13 DEF FailuresOnTheirWay
  <2>2. Charged' = Charged
    BY <1>7, <1>9, <2>1 DEF Charged
  <2>. QED BY <1>7, <2>2, NoneGivenBack
<1>22. SlotsOK'
  <2>. SUFFICES ASSUME NEW e \in Endpoints PROVE IdsOf(e)'
    BY DEF SlotsOK
  <2>1. IdsOf(e) /\ SlotsDiffer
    BY SlotsDo DEF ProcInv, SlotsOK
  <2>2. \A id, h, i : FreedBy(e, id, h, i)' <=> FreedBy(e, id, h, i)
    BY <1>13 DEF FreedBy
  <2>3. \A id, h : FrameIn(e, id, h)' <=> FrameIn(e, id, h)
    BY <1>13, <2>2 DEF FrameIn
  <2>4. ASSUME NEW id \in ProcessIds, e # o \/ id # i0 PROVE SlotOK(e, id)'
    <3>0. SlotOK(e, id)
      BY <2>1 DEF IdsOf
    <3>1. Binding(e, id) # Binding(o, i0)
      BY <2>4 DEF Binding
    <3>2. \A h \in Generations : Held(e, id, h)' <=> Held(e, id, h)
      BY <1>6, <1>8, <1>9, <3>1 DEF Held
    <3>3. ep[e].slots[id] # PendingSlot(g)
      BY <1>1, <2>4, <3>0 DEF SlotOK
    <3>4. /\ ep'[e].slots[id] = ep[e].slots[id] /\ ep'[e].stage = ep[e].stage
          /\ ep'[e].kicked = ep[e].kicked /\ ep'[e].queue = ep[e].queue
      <4>1. ep[o].slots \in [ProcessIds -> AnySlot]
        BY <1>0 DEF EpTypeOK
      <4>. QED BY <1>5, <2>4, <4>1
    <3>5. ep[e].stage = "open" => \A a, h \in Generations : \A i, j \in DOMAIN ep'[e].queue :
            FreedBy(e, id, a, i)' /\ FreedBy(e, id, h, j)' => i = j
      BY <2>2, <3>0, <3>4 DEF SlotOK
    <3>6. \A h \in Generations :
           /\ proc[h].pc \in Pendings => \/ proc'[h].pc \in Pendings /\ proc'[h].owner = proc[h].owner
                                             /\ proc'[h].id = proc[h].id
                                         \/ ep[e].slots[id] # PendingSlot(h)
           /\ proc[h].pc \in HasRecord => proc'[h].pc \in HasRecord
           /\ Claims(proc'[h]) /\ proc'[h].owner = e /\ proc'[h].id = id =>
                Claims(proc[h]) /\ proc[h].owner = e /\ proc[h].id = id
           /\ proc'[h].pc = "made" => proc[h].pc = "made"
      <4>1. q.pc \in HasRecord /\ q.pc # "made" /\ ~Claims(q)
        BY <1>6 DEF HasRecord, Claims
      <4>. QED BY <1>8, <3>3, <4>1
    <3>. QED BY <2>3, <3>0, <3>2, <3>4, <3>5, <3>6, SlotStays
  <2>5. ASSUME e = o, ep[o].stage = "open" PROVE SlotOK(o, i0)'
    <3>0. SlotOK(o, i0) /\ p.owner = o /\ p.id = i0 /\ Claims(p)
      BY <1>1, <1>p, <2>1, <2>5 DEF IdsOf, Claims
    <3>1. ours /\ Held(o, i0, g)
      BY <1>p, <2>5, <3>0 DEF SlotOK
    <3>2. ASSUME NEW h \in Generations
          PROVE  /\ Held(o, i0, h) => h = g
                 /\ ~FrameIn(o, i0, h)
                 /\ ~(Claims(proc'[h]) /\ proc'[h].owner = o /\ proc'[h].id = i0)
      <4>1. Held(o, i0, h) => h = g
        BY <2>1, <2>5, <3>0, <3>1 DEF SlotOK, SlotsDiffer
      <4>2. ~FrameIn(o, i0, h)
        BY <2>1, <2>5, <3>0, <3>1 DEF SlotOK, SlotsDiffer, FrameIn
      <4>3. h # g => ~(Claims(proc[h]) /\ proc[h].owner = o /\ proc[h].id = i0)
        BY <2>1, <2>5, <3>0, <3>1 DEF SlotOK, SlotsDiffer
      <4>4. ~Claims(q)
        BY <1>6 DEF Claims
      <4>. QED BY <1>8, <4>1, <4>2, <4>3, <4>4
    <3>3. ep'[o].slots[i0] = to
      <4>1. ep[o].slots \in [ProcessIds -> AnySlot]
        BY <1>0 DEF EpTypeOK
      <4>. QED BY <1>5, <4>1
    <3>4. \A h \in Generations : ~FrameIn(o, i0, h)'
      BY <2>3, <2>5, <3>2
    <3>5. CASE bound
      <4>1. ep'[o].slots[i0] = BoundSlot(g)
        BY <3>3, <3>5
      <4>2. \A h \in Generations : Held(o, i0, h)' <=> h = g
        <5>1. \A h \in Generations : Held(o, i0, h)' <=> Held(o, i0, h)
          BY <1>6, <1>8, <3>5 DEF Held
        <5>. QED BY <3>1, <3>2, <5>1
      <4>3. q.pc = "bound"
        BY <1>6, <3>5
      <4>4. ASSUME NEW h \in Generations
            PROVE  /\ ep'[o].slots[i0] # PendingSlot(h)
                   /\ ep'[o].slots[i0] = BoundSlot(h) => proc'[h].pc \in HasRecord /\ Held(o, i0, h)'
                   /\ Held(o, i0, h)' => ep'[o].slots[i0] = BoundSlot(h)
        BY <1>8, <2>1, <4>1, <4>2, <4>3 DEF SlotsDiffer, HasRecord
      <4>. QED BY <3>2, <3>4, <4>4 DEF SlotOK, FrameIn
    <3>6. CASE ~bound
      <4>1. ep'[o].slots[i0] = Free
        BY <3>1, <3>3, <3>6
      <4>2. \A h \in Generations : ~Held(o, i0, h)'
        <5>1. ~Held(o, i0, g)'
          BY <1>6, <1>8, <1>9, <3>6 DEF Held
        <5>2. \A h \in Generations \ {g} : ~Held(o, i0, h)'
          BY <1>8, <3>2 DEF Held
        <5>. QED BY <5>1, <5>2
      <4>. QED BY <2>1, <3>2, <3>4, <4>1, <4>2, SlotEmpties DEF SlotsDiffer
    <3>. QED BY <3>5, <3>6
  <2>6. CASE ep[e].stage = "open"
    <3>1. \A id \in ProcessIds : SlotOK(e, id)'
      BY <2>4, <2>5, <2>6
    <3>2. ep'[e].accepting = ep[e].accepting /\ ep'[e].stage = ep[e].stage /\ ep'[e].work = ep[e].work
      BY <1>5
    <3>. QED BY <2>1, <2>6, <3>1, <3>2 DEF IdsOf
  <2>7. CASE ep[e].stage # "open"
    <3>1. ep'[e].slots = ep[e].slots
      <4>1. CASE e = o
        <5>1. ep[o].slots[i0] = Free /\ ep[o].slots \in [ProcessIds -> AnySlot]
          BY <1>0, <2>1, <2>7, <4>1 DEF IdsOf, EpTypeOK
        <5>2. to = ep[o].slots[i0]
          BY <1>b, <2>1, <5>1 DEF SlotsDiffer
        <5>3. ep'[o].slots = [ep[o].slots EXCEPT ![i0] = ep[o].slots[i0]]
          BY <1>5, <5>2
        <5>. QED BY <4>1, <5>1, <5>3
      <4>2. CASE e # o
        BY <1>5, <4>2
      <4>. QED BY <4>1, <4>2
    <3>2. ep'[e].accepting = ep[e].accepting /\ ep'[e].stage = ep[e].stage
      BY <1>5
    <3>. QED BY <2>7, <3>1, <3>2, ClosedIdsStay
  <2>. QED BY <2>6, <2>7
<1>. QED BY <1>14, <1>15, <1>17, <1>19, <1>20, <1>21, <1>22, ZenonT(60) DEF ProcInv

-----------------------------------------------------------------------------
(* Watches, and what ends them.                                            *)

(* Only the bindings of an endpoint change.                                *)
LEMMA BindingStep ==
  ASSUME ProcInv, srv' = srv, DOMAIN proc' = Generations,
         \A h \in Generations : SameRun(proc[h], proc'[h]) /\ ProcTypeOK(proc'[h]) /\ RunOK(proc'[h]),
         NEW e \in Endpoints, DOMAIN ep' = Endpoints, \A d \in Endpoints \ {e} : ep'[d] = ep[d],
         EpTypeOK(ep'[e]), ep'[e].work = ep[e].work,
         \A d \in Endpoints \ {e}, id \in ProcessIds, h \in Generations :
           Held(d, id, h)' <=> Held(d, id, h),
         FramesOK', FailuresOnTheirWay' = FailuresOnTheirWay, IdsOf(e)'
  PROVE  ProcInv'
<1>0. SrvTypeOK /\ ShutOK /\ ProcTypes
  BY ServerFacts
<1>1. \A h \in Generations : Kept(proc[h], proc'[h], h \in {})
  BY DEF Kept, SameRun
<1>2. ShutOK'
  <2>1. \A h \in Generations : proc'[h].child = proc[h].child /\ proc'[h].pc = proc[h].pc
    BY DEF SameRun
  <2>. QED BY <1>0, <2>1 DEF ShutOK, SrvTypeOK, Over
<1>3. SrvTypeOK'
  BY <1>0 DEF SrvTypeOK
<1>4. \A d \in Endpoints : EpTypeOK(ep'[d]) /\ ep'[d].work \subseteq ep[d].work
  BY <1>0 DEF ProcTypes
<1>5. SlotsOK'
  <2>. SUFFICES ASSUME NEW d \in Endpoints PROVE IdsOf(d)'
    BY DEF SlotsOK
  <2>1. CASE d # e
    <3>1. IdsOf(d) /\ ep'[d] = ep[d]
      BY <2>1 DEF ProcInv, SlotsOK
    <3>2. \A id \in ProcessIds, h \in Generations : Held(d, id, h)' <=> Held(d, id, h)
      BY <2>1
    <3>3. \A h \in Generations : SameRun(proc[h], proc'[h])
      OBVIOUS
    <3>. QED BY <3>1, <3>2, <3>3, IdsElsewhere
  <2>. QED BY <2>1
<1>6. {} \in SUBSET Generations
  OBVIOUS
<1>. QED BY <1>1, <1>2, <1>3, <1>4, <1>5, <1>6, RecordEnds

(* Frames join the queues, none of them the notice of a failure.           *)
LEMMA FramesJoin ==
  ASSUME ProcInv, srv'.pending \subseteq srv.pending,
         \A h \in Generations : proc[h].pc = "ended" => proc'[h].pc = "ended",
         \A h \in Generations : proc[h].terminal => proc'[h].terminal,
         \A d \in Endpoints :
           \/ ep'[d].queue = ep[d].queue
           \/ \E f \in AnyFrame : /\ f.kind # "failed" /\ (f.kind = "exit" => proc'[f.g].terminal)
                                  /\ ep'[d].queue = Append(ep[d].queue, f)
  PROVE  FramesOK' /\ FailuresOnTheirWay' = FailuresOnTheirWay
<1>0. \A d \in Endpoints : ep[d].queue \in Seq(AnyFrame)
  BY DEF ProcInv, ProcTypes, EpTypeOK
<1>1. ASSUME NEW d \in Endpoints
      PROVE  /\ \A i \in DOMAIN ep[d].queue : i \in DOMAIN ep'[d].queue /\ ep'[d].queue[i] = ep[d].queue[i]
             /\ \A i \in DOMAIN ep'[d].queue :
                  \/ i \in DOMAIN ep[d].queue /\ ep'[d].queue[i] = ep[d].queue[i]
                  \/ ep'[d].queue[i].kind # "failed" /\
                     (ep'[d].queue[i].kind = "exit" => proc'[ep'[d].queue[i].g].terminal)
  <2>1. CASE ep'[d].queue = ep[d].queue
    BY <2>1
  <2>2. CASE ep'[d].queue # ep[d].queue
    <3>1. PICK f \in AnyFrame : /\ f.kind # "failed" /\ (f.kind = "exit" => proc'[f.g].terminal)
                                /\ ep'[d].queue = Append(ep[d].queue, f)
      BY <2>2
    <3>2. ep[d].queue \in Seq(AnyFrame)
      BY <1>0
    <3>. QED BY <3>1, <3>2, Appended
  <2>. QED BY <2>1, <2>2
<1>2. PICK from : from = [d \in Endpoints |-> [i \in DOMAIN ep'[d].queue |-> i]]
  OBVIOUS
<1>3. FramesOK'
  <2>1. \A d \in Endpoints : \A i \in DOMAIN ep'[d].queue : from[d][i] = i
    BY <1>2
  <2>2. \A d \in Endpoints : \A i, j \in DOMAIN ep'[d].queue : from[d][i] = from[d][j] => i = j
    BY <2>1
  <2>3. \A d \in Endpoints : \A i \in DOMAIN ep'[d].queue :
            \/ from[d][i] \in DOMAIN ep[d].queue /\ ep'[d].queue[i] = ep[d].queue[from[d][i]]
            \/ ep'[d].queue[i].kind # "failed" /\
               (ep'[d].queue[i].kind = "exit" => proc'[ep'[d].queue[i].g].terminal)
    BY <1>1, <2>1
  <2>4. FramesOK
    BY DEF ProcInv
  <2>. QED BY <1>0, <2>2, <2>3, <2>4, FramesMove
<1>4. FailuresOnTheirWay' = FailuresOnTheirWay
  <2>1. \A g \in Generations :
          (\E d \in Endpoints : \E i \in DOMAIN ep'[d].queue :
             ep'[d].queue[i].kind = "failed" /\ ep'[d].queue[i].g = g)
          <=> (\E d \in Endpoints : \E i \in DOMAIN ep[d].queue :
                 ep[d].queue[i].kind = "failed" /\ ep[d].queue[i].g = g)
    BY <1>1
  <2>. QED BY <2>1 DEF FailuresOnTheirWay
<1>. QED BY <1>3, <1>4

(* A watcher that broke the protocol loses its binding.                    *)
LEMMA EvictKeeps ==
  ASSUME ProcInv, NEW e \in Endpoints, NEW id \in ProcessIds, NEW g \in Generations, Evict(e, id, g)
  PROVE  ProcInv'
<1> DEFINE p == proc[g]
           q == [p EXCEPT !.bindings = @ \ {Binding(e, id)}]
<1>0. ProcTypes /\ DOMAIN ep = Endpoints /\ EpTypeOK(ep[e]) /\ ProcTypeOK(p) /\ RunOK(p)
  BY ServerFacts, RecordsOK DEF ProcTypes
<1>1. /\ srv' = srv /\ proc' = [proc EXCEPT ![g] = q] /\ ep' = [ep EXCEPT ![e].kicked = TRUE]
      /\ p.pc = "up"
  <2>1. Becomes([Now EXCEPT !.proc[g].bindings = @ \ {Binding(e, id)}, !.ep[e].kicked = TRUE]) /\ p.pc = "up"
    BY DEF Evict
  <2>. QED BY <2>1 DEF Becomes, Now
<1>2. SameRun(p, q) /\ ProcTypeOK(q) /\ RunOK(q) /\ q.bindings = p.bindings \ {Binding(e, id)} /\ q.exits = p.exits
  BY <1>0, LosesBinding
<1> HIDE DEF q
<1>3. /\ DOMAIN proc' = Generations /\ proc'[g] = q
      /\ \A h \in Generations \ {g} : proc'[h] = proc[h]
      /\ \A h \in Generations : SameRun(proc[h], proc'[h])
  BY <1>1, <1>2, RunsStay
<1>4. \A h \in Generations : ProcTypeOK(proc'[h]) /\ RunOK(proc'[h])
  BY <1>2, <1>3, RecordsOK
<1>5. /\ DOMAIN ep' = Endpoints /\ \A d \in Endpoints \ {e} : ep'[d] = ep[d]
      /\ DOMAIN ep'[e] = DOMAIN ep[e] /\ ep'[e].accepting = ep[e].accepting /\ ep'[e].slots = ep[e].slots
      /\ ep'[e].queue = ep[e].queue /\ ep'[e].kicked = TRUE /\ ep'[e].stage = ep[e].stage
      /\ ep'[e].work = ep[e].work
  BY <1>0, <1>1 DEF EpTypeOK
<1>6. EpTypeOK(ep'[e])
  BY <1>0, <1>5 DEF EpTypeOK
<1>7. \A d \in Endpoints, i \in ProcessIds, h \in Generations :
        /\ Held(d, i, h)' => Held(d, i, h)
        /\ d # e \/ h # g => (Held(d, i, h)' <=> Held(d, i, h))
  BY <1>2, <1>3 DEF Held, Binding
<1>8. FramesOK' /\ FailuresOnTheirWay' = FailuresOnTheirWay
  <2>1. \A d \in Endpoints : ep'[d].queue = ep[d].queue
    BY <1>5
  <2>2. \A h \in Generations : /\ proc[h].pc = "ended" => proc'[h].pc = "ended"
                               /\ proc[h].terminal => proc'[h].terminal
    BY <1>3 DEF SameRun
  <2>. QED BY <1>1, <2>1, <2>2, FramesJoin
<1>9. IdsOf(e)'
  <2>1. IdsOf(e)
    BY DEF ProcInv, SlotsOK
  <2>2. \A i, h, j : FreedBy(e, i, h, j)' <=> FreedBy(e, i, h, j)
    BY <1>5 DEF FreedBy
  <2>3. \A h \in Generations : /\ proc'[h].pc = proc[h].pc /\ (Claims(proc'[h]) <=> Claims(proc[h]))
                               /\ proc'[h].owner = proc[h].owner /\ proc'[h].id = proc[h].id
    BY <1>3 DEF SameRun, Claims
  <2>4. ASSUME NEW i \in ProcessIds PROVE SlotOK(e, i)'
    BY <1>1, <1>5, <1>7, <2>1, <2>2, <2>3 DEF IdsOf, SlotOK
  <2>. QED BY <1>5, <2>1, <2>4 DEF IdsOf
<1>. QED BY <1>1, <1>3, <1>4, <1>5, <1>6, <1>7, <1>8, <1>9, BindingStep, ZenonT(60)

(* An id that is free is nobody's.                                         *)
LEMMA FreeIsFree ==
  ASSUME ProcInv, NEW e \in Endpoints, NEW id \in ProcessIds, ep[e].slots[id] = Free,
         ep[e].stage = "open", NEW h \in Generations
  PROVE  /\ ~Held(e, id, h) /\ ~FrameIn(e, id, h)
         /\ ~(Claims(proc[h]) /\ proc[h].owner = e /\ proc[h].id = id)
<1>1. SlotOK(e, id) /\ SlotsDiffer
  BY SlotsDo DEF ProcInv, SlotsOK, IdsOf
<1>. QED BY <1>1 DEF SlotOK, SlotsDiffer, FrameIn

(* WATCH of a live process binds an id to it.                              *)
LEMMA WatchLiveKeeps ==
  ASSUME ProcInv, NEW e \in Endpoints, NEW id \in ProcessIds, NEW g \in Generations, WatchLive(e, id, g)
  PROVE  ProcInv'
<1> DEFINE p == proc[g]
           q == [p EXCEPT !.bindings = @ \cup {Binding(e, id)}]
<1>0. /\ ProcTypes /\ DOMAIN ep = Endpoints /\ EpTypeOK(ep[e]) /\ ProcTypeOK(p) /\ RunOK(p)
      /\ PlaceOK(g, p, srv.pending, srv.live, srv.finals, srv.stage)
  BY ServerFacts, SpawnFacts DEF ProcTypes
<1>1. /\ srv' = srv /\ proc' = [proc EXCEPT ![g] = q] /\ ep' = [ep EXCEPT ![e].slots[id] = BoundSlot(g)]
      /\ ep[e].accepting /\ ep[e].slots[id] = Free /\ g \in srv.live /\ ~p.terminal
      /\ \A b \in p.bindings : b.e # e
  <2>1. Becomes([Now EXCEPT !.proc[g].bindings = @ \cup {Binding(e, id)}, !.ep[e].slots[id] = BoundSlot(g)])
    BY DEF WatchLive
  <2>. QED BY <2>1 DEF Becomes, Now, WatchLive, Admitted
<1>s. ep[e].stage = "open"
  BY <1>1 DEF ProcInv, SlotsOK, IdsOf
<1>x. p.exits = {} /\ p.pc \in HasRecord /\ ~p.publishing
  BY <1>0, <1>1 DEF RunOK, PlaceOK
<1>2. /\ SameRun(p, q) /\ DOMAIN q = DOMAIN p /\ q.bindings = p.bindings \cup {Binding(e, id)}
      /\ q.exits = p.exits /\ q.lost = p.lost /\ q.detachable = p.detachable
      /\ q.ownerAlive = p.ownerAlive /\ q.io = p.io /\ q.cleaned = p.cleaned
      /\ q.publishing = p.publishing
  BY <1>0 DEF ProcTypeOK, NoProc, SameRun
<1> HIDE DEF q
<1>b. Binding(e, id) \in AnyBinding /\ Binding(e, id).e = e
  BY DEF Binding, AnyBinding
<1>q. ProcTypeOK(q) /\ RunOK(q)
  <2>1. ProcTypeOK(q)
    BY <1>0, <1>2, <1>b DEF ProcTypeOK, SameRun
  <2>2. \A b, c \in q.bindings \cup q.exits : b.e = c.e => b = c
    BY <1>0, <1>1, <1>x, <1>2, <1>b DEF RunOK
  <2>3. RunOK(q)
    BY <1>0, <1>1, <1>x, <1>2, <2>2 DEF RunOK, SameRun, HasRecord
  <2>. QED BY <2>1, <2>3
<1>3. /\ DOMAIN proc' = Generations /\ proc'[g] = q
      /\ \A h \in Generations \ {g} : proc'[h] = proc[h]
      /\ \A h \in Generations : SameRun(proc[h], proc'[h])
  BY <1>1, <1>2, RunsStay
<1>4. \A h \in Generations : ProcTypeOK(proc'[h]) /\ RunOK(proc'[h])
  BY <1>q, <1>3, RecordsOK
<1>5. /\ DOMAIN ep' = Endpoints /\ \A d \in Endpoints \ {e} : ep'[d] = ep[d]
      /\ DOMAIN ep'[e] = DOMAIN ep[e] /\ ep'[e].accepting = ep[e].accepting
      /\ ep'[e].slots = [ep[e].slots EXCEPT ![id] = BoundSlot(g)]
      /\ ep'[e].queue = ep[e].queue /\ ep'[e].kicked = ep[e].kicked /\ ep'[e].stage = ep[e].stage
      /\ ep'[e].work = ep[e].work
  BY <1>0, <1>1 DEF EpTypeOK
<1>6. EpTypeOK(ep'[e]) /\ ep'[e].slots[id] = BoundSlot(g)
      /\ \A i \in ProcessIds \ {id} : ep'[e].slots[i] = ep[e].slots[i]
  <2>1. BoundSlot(g) \in AnySlot /\ ep[e].slots \in [ProcessIds -> AnySlot]
    BY <1>0 DEF AnySlot, EpTypeOK
  <2>2. ep'[e].slots \in [ProcessIds -> AnySlot]
    BY <1>5, <2>1
  <2>3. EpTypeOK(ep'[e])
    BY <1>0, <1>5, <2>2 DEF EpTypeOK
  <2>. QED BY <1>5, <2>1, <2>3
<1>7. \A d \in Endpoints, i \in ProcessIds, h \in Generations :
        d # e \/ i # id \/ h # g => (Held(d, i, h)' <=> Held(d, i, h))
  BY <1>2, <1>3 DEF Held, Binding
<1>k. Held(e, id, g)'
  BY <1>2, <1>3 DEF Held
<1>8. FramesOK' /\ FailuresOnTheirWay' = FailuresOnTheirWay
  <2>1. \A d \in Endpoints : ep'[d].queue = ep[d].queue
    BY <1>5
  <2>2. \A h \in Generations : /\ proc[h].pc = "ended" => proc'[h].pc = "ended"
                               /\ proc[h].terminal => proc'[h].terminal
    BY <1>3 DEF SameRun
  <2>. QED BY <1>1, <2>1, <2>2, FramesJoin
<1>9. IdsOf(e)'
  <2>1. IdsOf(e) /\ SlotsDiffer
    BY SlotsDo DEF ProcInv, SlotsOK
  <2>2. \A i, h, j : FreedBy(e, i, h, j)' <=> FreedBy(e, i, h, j)
    BY <1>5 DEF FreedBy
  <2>3. ASSUME NEW i \in ProcessIds, i # id PROVE SlotOK(e, i)'
    <3>1. SlotOK(e, i) /\ ep'[e].slots[i] = ep[e].slots[i]
      BY <1>6, <2>1, <2>3 DEF IdsOf
    <3>2. \A h \in Generations : Held(e, i, h)' <=> Held(e, i, h)
      BY <1>7, <2>3
    <3>3. \A h \in Generations : \A j :
            (j \in DOMAIN ep'[e].queue /\ FreedBy(e, i, h, j)') <=>
              (j \in DOMAIN ep[e].queue /\ FreedBy(e, i, h, j))
      BY <1>5, <2>2
    <3>. QED BY <1>3, <1>5, <3>1, <3>2, <3>3, IdElsewhere
  <2>4. SlotOK(e, id)'
    <3>1. ASSUME NEW h \in Generations
          PROVE  /\ Held(e, id, h)' => h = g
                 /\ \A j \in DOMAIN ep'[e].queue : ~FreedBy(e, id, h, j)'
                 /\ ~(Claims(proc'[h]) /\ proc'[h].owner = e /\ proc'[h].id = id)
      <4>1. /\ ~Held(e, id, h) /\ ~FrameIn(e, id, h)
            /\ ~(Claims(proc[h]) /\ proc[h].owner = e /\ proc[h].id = id)
        BY <1>1, <1>s, FreeIsFree
      <4>2. Held(e, id, h)' => h = g
        BY <1>7, <4>1
      <4>3. \A j \in DOMAIN ep'[e].queue : ~FreedBy(e, id, h, j)'
        BY <1>5, <2>2, <4>1 DEF FrameIn
      <4>4. ~(Claims(proc'[h]) /\ proc'[h].owner = e /\ proc'[h].id = id)
        BY <1>3, <4>1 DEF SameRun, Claims
      <4>. QED BY <4>2, <4>3, <4>4
    <3>2. ASSUME NEW h \in Generations
          PROVE  /\ ep'[e].slots[id] # PendingSlot(h)
                 /\ ep'[e].slots[id] = BoundSlot(h) => proc'[h].pc \in HasRecord /\ Held(e, id, h)'
                 /\ Held(e, id, h)' => ep'[e].slots[id] = BoundSlot(h)
      BY <1>2, <1>3, <1>6, <1>k, <1>x, <2>1, <3>1 DEF SlotsDiffer, SameRun
    <3>. QED BY <3>1, <3>2 DEF SlotOK
  <2>. QED BY <1>5, <2>1, <2>3, <2>4, <1>s DEF IdsOf
<1>. QED BY <1>1, <1>3, <1>4, <1>5, <1>6, <1>7, <1>8, <1>9, BindingStep

(* WATCH of a result that is kept takes an id for the reply.               *)
LEMMA WatchFinalKeeps ==
  ASSUME ProcInv, NEW e \in Endpoints, NEW id \in ProcessIds, NEW g \in Generations, WatchFinal(e, id, g)
  PROVE  ProcInv'
<1> DEFINE s == [Now EXCEPT !.ep[e].slots[id] = ReplySlot(g)]
<1>0. ProcTypes /\ DOMAIN ep = Endpoints /\ EpTypeOK(ep[e])
  BY ServerFacts DEF ProcTypes
<1>f. PICK f : f = [kind |-> "reply", g |-> g, id |-> id]
  OBVIOUS
<1>g. f \in AnyFrame /\ f.kind = "reply" /\ ~FreesId(f)
  BY <1>f DEF AnyFrame, FreesId
<1>1. /\ Becomes(Queue(s, e, "reply", g, id))
      /\ ep[e].accepting /\ ep[e].slots[id] = Free
  BY DEF WatchFinal, Admitted
<1>s. ep[e].stage = "open"
  BY <1>1 DEF ProcInv, SlotsOK, IdsOf
<1>2. IsState(s) /\ s.srv = srv /\ s.proc = proc /\ s.ep = [ep EXCEPT ![e].slots[id] = ReplySlot(g)]
  BY NowIs DEF IsState
<1> HIDE DEF s
<1>3. /\ srv' = srv /\ proc' = proc
      /\ ep' = [s.ep EXCEPT ![e].queue = Append(@, f)]
  <2>1. LET t == Queue(s, e, "reply", g, id)
        IN  /\ t.srv = s.srv /\ t.proc = s.proc
            /\ t.ep = [s.ep EXCEPT ![e].queue = Append(@, [kind |-> "reply", g |-> g, id |-> id])]
    BY <1>2 DEF Queue, IsState
  <2>. QED BY <1>1, <1>2, <1>f, <2>1 DEF Becomes
<1>4. /\ DOMAIN s.ep = Endpoints /\ \A d \in Endpoints \ {e} : s.ep[d] = ep[d]
      /\ s.ep[e] = [ep[e] EXCEPT !.slots[id] = ReplySlot(g)]
  BY <1>0, <1>2
<1>5. /\ DOMAIN ep' = Endpoints /\ \A d \in Endpoints \ {e} : ep'[d] = ep[d]
      /\ DOMAIN ep'[e] = DOMAIN ep[e] /\ ep'[e].accepting = ep[e].accepting
      /\ ep'[e].slots = [ep[e].slots EXCEPT ![id] = ReplySlot(g)]
      /\ ep'[e].queue = Append(ep[e].queue, f) /\ ep'[e].kicked = ep[e].kicked
      /\ ep'[e].stage = ep[e].stage /\ ep'[e].work = ep[e].work
  BY <1>0, <1>3, <1>4 DEF EpTypeOK
<1>q. ep[e].queue \in Seq(AnyFrame) /\ ep[e].slots \in [ProcessIds -> AnySlot]
  BY <1>0 DEF EpTypeOK
<1>6. EpTypeOK(ep'[e]) /\ ep'[e].slots[id] = ReplySlot(g)
      /\ \A i \in ProcessIds \ {id} : ep'[e].slots[i] = ep[e].slots[i]
  <2>1. ReplySlot(g) \in AnySlot
    BY DEF AnySlot
  <2>2. ep'[e].slots \in [ProcessIds -> AnySlot]
    BY <1>5, <1>q, <2>1
  <2>3. ep'[e].queue \in Seq(AnyFrame)
    BY <1>5, <1>g, <1>q, Appended
  <2>4. EpTypeOK(ep'[e])
    BY <1>0, <1>5, <2>2, <2>3 DEF EpTypeOK
  <2>. QED BY <1>5, <1>q, <2>4
<1>7. \A d, i, h : Held(d, i, h)' <=> Held(d, i, h)
  BY <1>3 DEF Held
<1>8. FramesOK' /\ FailuresOnTheirWay' = FailuresOnTheirWay
  <2>1. \A d \in Endpoints :
           \/ ep'[d].queue = ep[d].queue
           \/ \E u \in AnyFrame : /\ u.kind # "failed" /\ (u.kind = "exit" => proc'[u.g].terminal)
                                  /\ ep'[d].queue = Append(ep[d].queue, u)
    BY <1>5, <1>g
  <2>. QED BY <1>3, <2>1, FramesJoin
<1>n. PICK n : n = Len(ep[e].queue) + 1
  OBVIOUS
<1>a. /\ n \notin DOMAIN ep[e].queue /\ DOMAIN ep'[e].queue = DOMAIN ep[e].queue \cup {n}
      /\ \A i, h : \A j \in DOMAIN ep[e].queue : FreedBy(e, i, h, j)' <=> FreedBy(e, i, h, j)
      /\ \A i, h : \A j \in DOMAIN ep'[e].queue : FreedBy(e, i, h, j)' =>
              j \in DOMAIN ep[e].queue /\ FreedBy(e, i, h, j)
      /\ \A i, h : FrameIn(e, i, h)' <=> FrameIn(e, i, h)
  <2>1. /\ n \notin DOMAIN ep[e].queue /\ DOMAIN ep'[e].queue = DOMAIN ep[e].queue \cup {n}
        /\ \A i, h : \A j \in DOMAIN ep[e].queue : FreedBy(e, i, h, j)' <=> FreedBy(e, i, h, j)
        /\ \A i, h : \A j \in DOMAIN ep'[e].queue : FreedBy(e, i, h, j)' =>
              \/ j \in DOMAIN ep[e].queue /\ FreedBy(e, i, h, j)
              \/ j = n /\ FreesId(f) /\ f.g = h /\ f.id = i
        /\ \A i, h : FrameIn(e, i, h)' <=> FrameIn(e, i, h) \/ (FreesId(f) /\ f.g = h /\ f.id = i)
    BY <1>5, <1>g, <1>n, <1>q, FrameAppended
  <2>. QED BY <1>g, <2>1
<1>9. IdsOf(e)'
  <2>1. IdsOf(e) /\ SlotsDiffer
    BY SlotsDo DEF ProcInv, SlotsOK
  <2>r. \A h \in Generations : SameRun(proc[h], proc'[h])
    BY <1>3 DEF SameRun
  <2>3. ASSUME NEW i \in ProcessIds, i # id PROVE SlotOK(e, i)'
    <3>1. SlotOK(e, i) /\ ep'[e].slots[i] = ep[e].slots[i]
      BY <1>6, <2>1, <2>3 DEF IdsOf
    <3>2. \A h \in Generations : Held(e, i, h)' <=> Held(e, i, h)
      BY <1>7
    <3>3. \A h \in Generations : \A j :
            (j \in DOMAIN ep'[e].queue /\ FreedBy(e, i, h, j)') <=>
              (j \in DOMAIN ep[e].queue /\ FreedBy(e, i, h, j))
      BY <1>a
    <3>. QED BY <2>r, <1>5, <3>1, <3>2, <3>3, IdElsewhere
  <2>4. SlotOK(e, id)'
    <3>1. ASSUME NEW h \in Generations
          PROVE  /\ ~Held(e, id, h)' /\ ~FrameIn(e, id, h)'
                 /\ ~(Claims(proc'[h]) /\ proc'[h].owner = e /\ proc'[h].id = id)
      <4>1. /\ ~Held(e, id, h) /\ ~FrameIn(e, id, h)
            /\ ~(Claims(proc[h]) /\ proc[h].owner = e /\ proc[h].id = id)
        BY <1>1, <1>s, FreeIsFree
      <4>2. proc'[h] = proc[h]
        BY <1>3
      <4>. QED BY <1>7, <1>a, <4>1, <4>2
    <3>2. \A h \in Generations : ep'[e].slots[id] # PendingSlot(h) /\ ep'[e].slots[id] # BoundSlot(h)
      BY <1>6, <2>1 DEF SlotsDiffer
    <3>. QED BY <3>1, <3>2, SlotEmpties
  <2>. QED BY <1>5, <2>1, <2>3, <2>4, <1>s DEF IdsOf
<1>r. \A h \in Generations : SameRun(proc[h], proc'[h]) /\ ProcTypeOK(proc'[h]) /\ RunOK(proc'[h])
  <2>1. proc' = proc
    BY <1>3
  <2>. QED BY <2>1, RecordsOK DEF SameRun
<1>d. DOMAIN proc' = Generations
  BY <1>3, <1>0 DEF ProcTypes
<1>. QED BY <1>3, <1>5, <1>6, <1>7, <1>8, <1>9, <1>r, <1>d, BindingStep

(* A frame that frees an id takes the place of what held it.               *)
LEMMA IdLeaves ==
  ASSUME ProcInv, NEW e \in Endpoints, NEW id \in ProcessIds, NEW g \in Generations,
         Held(e, id, g), ~Held(e, id, g)', proc[g].pc \in HasRecord,
         \A h \in Generations : SameRun(proc[h], proc'[h]),
         \A i \in ProcessIds, h \in Generations :
           i # id \/ h # g => (Held(e, i, h)' <=> Held(e, i, h)),
         NEW f \in AnyFrame, FreesId(f), f.g = g, f.id = id,
         ep'[e].queue = Append(ep[e].queue, f), ep'[e].slots = ep[e].slots,
         ep'[e].accepting = ep[e].accepting, ep'[e].stage = ep[e].stage,
         ep'[e].kicked = ep[e].kicked, ep'[e].work = ep[e].work
  PROVE  IdsOf(e)'
<1>0. ep[e].queue \in Seq(AnyFrame)
  BY DEF ProcInv, ProcTypes, EpTypeOK
<1>1. CASE ep[e].stage # "open"
  BY <1>1, ClosedIdsStay
<1>n. PICK n : n = Len(ep[e].queue) + 1
  OBVIOUS
<1>a. /\ n \notin DOMAIN ep[e].queue /\ DOMAIN ep'[e].queue = DOMAIN ep[e].queue \cup {n}
      /\ \A i, h : \A j \in DOMAIN ep[e].queue : FreedBy(e, i, h, j)' <=> FreedBy(e, i, h, j)
      /\ \A i, h : \A j \in DOMAIN ep'[e].queue : FreedBy(e, i, h, j)' =>
              \/ j \in DOMAIN ep[e].queue /\ FreedBy(e, i, h, j)
              \/ j = n /\ h = g /\ i = id
      /\ \A i, h : FrameIn(e, i, h)' <=> FrameIn(e, i, h) \/ (h = g /\ i = id)
  <2>1. /\ n \notin DOMAIN ep[e].queue /\ DOMAIN ep'[e].queue = DOMAIN ep[e].queue \cup {n}
        /\ \A i, h : \A j \in DOMAIN ep[e].queue : FreedBy(e, i, h, j)' <=> FreedBy(e, i, h, j)
        /\ \A i, h : \A j \in DOMAIN ep'[e].queue : FreedBy(e, i, h, j)' =>
              \/ j \in DOMAIN ep[e].queue /\ FreedBy(e, i, h, j)
              \/ j = n /\ FreesId(f) /\ f.g = h /\ f.id = i
        /\ \A i, h : FrameIn(e, i, h)' <=> FrameIn(e, i, h) \/ (FreesId(f) /\ f.g = h /\ f.id = i)
    BY <1>0, <1>n, FrameAppended
  <2>. QED BY <2>1
<1>b. CASE ep[e].stage = "open"
  <2>1. IdsOf(e) /\ SlotsDiffer
    BY SlotsDo DEF ProcInv, SlotsOK
  <2>2. ep[e].slots[id] = BoundSlot(g)
    BY <1>b, <2>1 DEF IdsOf, SlotOK, HasRecord, Pendings
  <2>3. ASSUME NEW i \in ProcessIds, i # id PROVE SlotOK(e, i)'
    <3>1. SlotOK(e, i) /\ ep'[e].slots[i] = ep[e].slots[i]
      BY <2>1, <2>3 DEF IdsOf
    <3>2. \A h \in Generations : Held(e, i, h)' <=> Held(e, i, h)
      BY <2>3
    <3>3. \A h \in Generations : \A j :
            (j \in DOMAIN ep'[e].queue /\ FreedBy(e, i, h, j)') <=>
              (j \in DOMAIN ep[e].queue /\ FreedBy(e, i, h, j))
      BY <1>a, <2>3
    <3>. QED BY <3>1, <3>2, <3>3, IdElsewhere
  <2>4. SlotOK(e, id)'
    <3>0. SlotOK(e, id)
      BY <2>1 DEF IdsOf
    <3>1. ASSUME NEW h \in Generations
          PROVE  /\ ~Held(e, id, h)'
                 /\ \A j \in DOMAIN ep[e].queue : ~FreedBy(e, id, h, j)
                 /\ ~(Claims(proc'[h]) /\ proc'[h].owner = e /\ proc'[h].id = id)
      <4>1. h # g => ~Held(e, id, h)
        BY <1>b, <2>2, <2>1, <3>0 DEF SlotOK, SlotsDiffer
      <4>2. ~Held(e, id, h)'
        BY <4>1
      <4>3. \A j \in DOMAIN ep[e].queue : ~FreedBy(e, id, h, j)
        BY <1>b, <2>2, <2>1, <3>0 DEF SlotOK, SlotsDiffer
      <4>4. ~(Claims(proc[h]) /\ proc[h].owner = e /\ proc[h].id = id)
        BY <1>b, <2>2, <2>1, <3>0 DEF SlotOK, SlotsDiffer
      <4>5. ~(Claims(proc'[h]) /\ proc'[h].owner = e /\ proc'[h].id = id)
        BY <4>4 DEF SameRun, Claims
      <4>. QED BY <4>2, <4>3, <4>5
    <3>2. \A h \in Generations : \A j \in DOMAIN ep'[e].queue : FreedBy(e, id, h, j)' => j = n /\ h = g
      BY <1>a, <3>1
    <3>3. \E j \in DOMAIN ep'[e].queue : FreedBy(e, id, g, j)'
      <4>1. FrameIn(e, id, g)'
        BY <1>a
      <4>. QED BY <4>1 DEF FrameIn
    <3>4. ASSUME NEW h \in Generations
          PROVE  /\ ep'[e].slots[id] # PendingSlot(h)
                 /\ ep'[e].slots[id] = BoundSlot(h) => proc'[h].pc \in HasRecord /\ h = g
      <4>1. proc[g].pc \in HasRecord
        BY <1>b, <2>2, <3>0 DEF SlotOK
      <4>. QED BY <1>b, <2>2, <2>1, <4>1 DEF SlotsDiffer, SameRun
    <3>5. ep'[e].slots[id] = BoundSlot(g)
      BY <2>2
    <3>. QED BY <3>1, <3>2, <3>3, <3>4, <3>5 DEF SlotOK
  <2>. QED BY <1>b, <2>2, <2>1, <2>3, <2>4 DEF IdsOf
<1>. QED BY <1>1, <1>b

(* UNWATCH: the id is kept until the answer was written.                   *)
LEMMA UnwatchRequestKeeps ==
  ASSUME ProcInv, NEW e \in Endpoints, NEW id \in ProcessIds, NEW g \in Generations, Unwatch(e, id, g)
  PROVE  ProcInv'
<1> DEFINE p == proc[g]
           q == [p EXCEPT !.bindings = @ \ {Binding(e, id)}]
           s == [Now EXCEPT !.proc[g].bindings = @ \ {Binding(e, id)}]
<1>0. /\ ProcTypes /\ DOMAIN ep = Endpoints /\ EpTypeOK(ep[e]) /\ ProcTypeOK(p) /\ RunOK(p)
      /\ ep[e].queue \in Seq(AnyFrame)
  BY ServerFacts, RecordsOK DEF ProcTypes, EpTypeOK
<1>f. PICK f : f = [kind |-> "unwatched", g |-> g, id |-> id]
  OBVIOUS
<1>g. f \in AnyFrame /\ f.kind = "unwatched" /\ FreesId(f) /\ f.g = g /\ f.id = id
  BY <1>f DEF AnyFrame, FreesId
<1>1. /\ Becomes(Queue(s, e, "unwatched", g, id))
      /\ ep[e].stage = "open" /\ ep[e].slots[id] = BoundSlot(g) /\ Binding(e, id) \in p.bindings
  BY DEF Unwatch, Controlled
<1>2. IsState(s) /\ s.srv = srv /\ s.ep = ep /\ s.proc = [proc EXCEPT ![g] = q]
  BY NowIs DEF IsState
<1> HIDE DEF s
<1>3. srv' = srv /\ proc' = [proc EXCEPT ![g] = q] /\ ep' = [ep EXCEPT ![e].queue = Append(@, f)]
  <2>1. LET t == Queue(s, e, "unwatched", g, id)
        IN  /\ t.srv = s.srv /\ t.proc = s.proc
            /\ t.ep = [s.ep EXCEPT ![e].queue = Append(@, [kind |-> "unwatched", g |-> g, id |-> id])]
    BY <1>2 DEF Queue, IsState
  <2>. QED BY <1>1, <1>2, <1>f, <2>1 DEF Becomes
<1>4. SameRun(p, q) /\ ProcTypeOK(q) /\ RunOK(q) /\ q.bindings = p.bindings \ {Binding(e, id)} /\ q.exits = p.exits
  BY <1>0, LosesBinding
<1>x. p.exits = {} /\ ~p.terminal
  BY <1>0, <1>1, ExitsOrBindings
<1> HIDE DEF q
<1>5. /\ DOMAIN proc' = Generations /\ proc'[g] = q
      /\ \A h \in Generations \ {g} : proc'[h] = proc[h]
      /\ \A h \in Generations : SameRun(proc[h], proc'[h])
  BY <1>3, <1>4, RunsStay
<1>6. \A h \in Generations : ProcTypeOK(proc'[h]) /\ RunOK(proc'[h])
  BY <1>4, <1>5, RecordsOK
<1>7. /\ DOMAIN ep' = Endpoints /\ \A d \in Endpoints \ {e} : ep'[d] = ep[d]
      /\ DOMAIN ep'[e] = DOMAIN ep[e] /\ ep'[e].accepting = ep[e].accepting /\ ep'[e].slots = ep[e].slots
      /\ ep'[e].queue = Append(ep[e].queue, f) /\ ep'[e].kicked = ep[e].kicked
      /\ ep'[e].stage = ep[e].stage /\ ep'[e].work = ep[e].work
  BY <1>0, <1>3 DEF EpTypeOK
<1>8. EpTypeOK(ep'[e])
  <2>1. ep'[e].queue \in Seq(AnyFrame)
    BY <1>0, <1>7, <1>g, Appended
  <2>. QED BY <1>0, <1>7, <2>1 DEF EpTypeOK
<1>9. /\ \A d \in Endpoints, i \in ProcessIds, h \in Generations :
           d # e \/ i # id \/ h # g => (Held(d, i, h)' <=> Held(d, i, h))
      /\ ~Held(e, id, g)' /\ Held(e, id, g)
  BY <1>1, <1>4, <1>5, <1>x DEF Held, Binding
<1>10. FramesOK' /\ FailuresOnTheirWay' = FailuresOnTheirWay
  <2>1. \A d \in Endpoints :
           \/ ep'[d].queue = ep[d].queue
           \/ \E u \in AnyFrame : /\ u.kind # "failed" /\ (u.kind = "exit" => proc'[u.g].terminal)
                                  /\ ep'[d].queue = Append(ep[d].queue, u)
    BY <1>7, <1>g
  <2>2. \A h \in Generations : /\ proc[h].pc = "ended" => proc'[h].pc = "ended"
                               /\ proc[h].terminal => proc'[h].terminal
    BY <1>5 DEF SameRun
  <2>. QED BY <1>3, <2>1, <2>2, FramesJoin
<1>11. IdsOf(e)'
  <2>1. SlotOK(e, id)
    BY DEF ProcInv, SlotsOK, IdsOf
  <2>2. p.pc \in HasRecord
    BY <1>1, <2>1 DEF SlotOK
  <2>3. \A i \in ProcessIds, h \in Generations : i # id \/ h # g => (Held(e, i, h)' <=> Held(e, i, h))
    BY <1>9
  <2>. QED BY <1>0, <1>5, <1>7, <1>9, <1>g, <2>2, <2>3, IdLeaves
<1>. QED BY <1>3, <1>5, <1>6, <1>7, <1>8, <1>9, <1>10, <1>11, BindingStep

-----------------------------------------------------------------------------
(* The exits of a process are queued, or nobody is there to be told.       *)

(* A record is finished, after an edit that leaves its run alone.          *)
LEMMA RecordFinishes ==
  ASSUME ProcInv, NEW g \in Generations, NEW q, SameRun(proc[g], q), ProcTypeOK(q), RunOK(q),
         proc[g].terminal, NEW s, IsState(s), s.srv = srv, s.proc = [proc EXCEPT ![g] = q],
         DOMAIN s.ep = Endpoints, \A e \in Endpoints : EpTypeOK(s.ep[e]),
         Becomes(FinishTerminal(s, g))
  PROVE  /\ srv'.pending = srv.pending /\ DOMAIN ep' = Endpoints
         /\ \A e \in Endpoints : SameEndpoint(s.ep[e], ep'[e])
         /\ proc'[g].bindings = q.bindings /\ proc'[g].exits = q.exits
         /\ \A h \in Generations \ {g} : /\ proc'[h].bindings = proc[h].bindings
                                         /\ proc'[h].exits = proc[h].exits
         /\ \E due \in SUBSET Generations : \A h \in Generations : Kept(proc[h], proc'[h], h \in due)
         /\ (/\ \A e \in Endpoints : EpTypeOK(ep'[e]) /\ ep'[e].work \subseteq ep[e].work
             /\ FramesOK' /\ FailuresOnTheirWay' = FailuresOnTheirWay /\ SlotsOK') => ProcInv'
<1>0. SrvTypeOK /\ ShutOK /\ ProcTypes /\ RunOK(proc[g])
      /\ PlaceOK(g, proc[g], srv.pending, srv.live, srv.finals, srv.stage)
  BY ServerFacts, SpawnFacts
<1>1. /\ DOMAIN s.proc = Generations /\ s.proc[g] = q
      /\ \A h \in Generations \ {g} : s.proc[h] = proc[h]
  BY <1>0 DEF ProcTypes
<1>2. \A h \in Generations : ProcTypeOK(s.proc[h]) /\ RunOK(s.proc[h])
  BY <1>1, RecordsOK
<1>3. DOMAIN s.srv = {"accepting", "generations", "pending", "live", "finals", "stage", "todo",
                      "freeing", "waits", "mine"}
  BY <1>0 DEF SrvTypeOK
<1>4. PICK due \in SUBSET {g} :
           LET t == FinishTerminal(s, g)
           IN  /\ DOMAIN t.proc = Generations
               /\ \A h \in Generations : Ended(s.proc[h], t.proc[h], h \in due)
               /\ DOMAIN t.ep = Endpoints /\ \A e \in Endpoints : SameEndpoint(s.ep[e], t.ep[e])
               /\ DOMAIN t.srv = DOMAIN s.srv
               /\ t.srv.accepting = s.srv.accepting /\ t.srv.pending = s.srv.pending
               /\ t.srv.stage = s.srv.stage /\ t.srv.todo = s.srv.todo
               /\ t.srv.freeing = s.srv.freeing /\ t.srv.waits = s.srv.waits /\ t.srv.mine = s.srv.mine
               /\ \/ /\ t.srv.live = s.srv.live \ due /\ t.srv.finals = s.srv.finals
                     /\ t.srv.generations = Less(s.srv.generations, Cardinality(due \cap s.srv.live))
                  \/ /\ due = {} /\ t.srv.generations = s.srv.generations /\ g \in s.srv.live
                     /\ t.srv.live = s.srv.live \ {g} /\ t.srv.finals = s.srv.finals \cup {g}
                  \/ /\ due = {} /\ t.srv.generations = s.srv.generations
                     /\ t.srv.live = s.srv.live /\ t.srv.finals = s.srv.finals
  BY <1>1, <1>2, <1>3, FinishTerminalIs
<1>5. /\ DOMAIN proc' = Generations
      /\ \A h \in Generations : Ended(s.proc[h], proc'[h], h \in due)
      /\ DOMAIN ep' = Endpoints /\ \A e \in Endpoints : SameEndpoint(s.ep[e], ep'[e])
      /\ DOMAIN srv' = DOMAIN srv
      /\ srv'.accepting = srv.accepting /\ srv'.pending = srv.pending
      /\ srv'.stage = srv.stage /\ srv'.todo = srv.todo
      /\ srv'.freeing = srv.freeing /\ srv'.waits = srv.waits /\ srv'.mine = srv.mine
      /\ \/ /\ srv'.live = srv.live \ due /\ srv'.finals = srv.finals
            /\ srv'.generations = Less(srv.generations, Cardinality(due \cap srv.live))
         \/ /\ due = {} /\ srv'.generations = srv.generations /\ g \in srv.live
            /\ srv'.live = srv.live \ {g} /\ srv'.finals = srv.finals \cup {g}
         \/ /\ due = {} /\ srv'.generations = srv.generations
            /\ srv'.live = srv.live /\ srv'.finals = srv.finals
  BY <1>4 DEF Becomes
<1>6. proc[g].reaped /\ proc[g].pc \in HasRecord
  BY <1>0 DEF RunOK, HasRecord
<1>7. \A h \in Generations : SameRun(proc[h], s.proc[h])
  BY <1>1 DEF SameRun
<1>8. \A h \in Generations : Kept(proc[h], proc'[h], h \in due)
  <2>. SUFFICES ASSUME NEW h \in Generations PROVE Kept(proc[h], proc'[h], h \in due)
    OBVIOUS
  <2>1. (h \in due) \in BOOLEAN /\ (h \in due => s.proc[h].pc \in HasRecord)
    BY <1>6, <1>7 DEF SameRun
  <2>2. Kept(s.proc[h], proc'[h], h \in due)
    BY <1>2, <1>5, <2>1, EndedKept
  <2>. QED BY <1>7, <2>2 DEF Kept, SameRun
<1>9. /\ proc'[g].bindings = q.bindings /\ proc'[g].exits = q.exits
      /\ \A h \in Generations \ {g} : /\ proc'[h].bindings = proc[h].bindings
                                      /\ proc'[h].exits = proc[h].exits
  BY <1>1, <1>5 DEF Ended
<1>10. due \in SUBSET Generations /\ \A h \in due : proc[h].reaped
  BY <1>6
<1>11. SrvTypeOK'
  <2>1. srv'.generations \in Nat
    <3>1. Cardinality(due \cap srv.live) \in Nat
      BY <1>10, GenerationsFinite
    <3>. QED BY <1>0, <1>5, <3>1 DEF SrvTypeOK, Less
  <2>. QED BY <1>0, <1>5, <2>1 DEF SrvTypeOK
<1>12. ShutOK'
  <2>1. \A h \in Generations : proc'[h].child = proc[h].child /\ proc'[h].pc = proc[h].pc
    BY <1>8 DEF Kept
  <2>2. srv'.live \subseteq srv.live
    BY <1>5
  <2>. QED BY <1>0, <1>5, <2>1, <2>2 DEF ShutOK, SrvTypeOK, Over
<1>13. /\ srv.stage \in {"finals", "down"} => srv'.stage \in {"finals", "down"}
       /\ srv'.stage = "cancel" => srv.stage = "cancel" /\ srv'.freeing = srv.freeing
  BY <1>5
<1>14. \/ /\ srv'.live = srv.live \ due /\ srv'.finals = srv.finals
          /\ srv'.generations = Less(srv.generations, Cardinality(due \cap srv.live))
       \/ /\ due = {} /\ srv'.generations = srv.generations
          /\ \E h \in srv.live : /\ proc[h].terminal /\ srv'.live = srv.live \ {h}
                                 /\ srv'.finals = srv.finals \cup {h}
       \/ /\ due = {} /\ srv'.generations = srv.generations
          /\ srv'.live = srv.live /\ srv'.finals = srv.finals
  BY <1>5
<1>15. (/\ \A e \in Endpoints : EpTypeOK(ep'[e]) /\ ep'[e].work \subseteq ep[e].work
        /\ FramesOK' /\ FailuresOnTheirWay' = FailuresOnTheirWay /\ SlotsOK') => ProcInv'
  BY <1>5, <1>8, <1>10, <1>11, <1>12, <1>13, <1>14, RecordEnds
<1>. QED BY <1>5, <1>8, <1>9, <1>10, <1>15

(* publish_exit queues the exits, or there is nobody to tell.              *)
LEMMA PublishExitKeeps ==
  ASSUME ProcInv, NEW g \in Generations, PublishExit(g)
  PROVE  ProcInv'
<1> DEFINE p == proc[g]
           q == [p EXCEPT !.publishing = FALSE, !.exits = {}, !.remaining = Cardinality(p.exits)]
           s == [Now EXCEPT !.proc[g].publishing = FALSE, !.proc[g].exits = {},
                            !.proc[g].remaining = Cardinality(p.exits)]
<1>0. /\ ProcTypes /\ DOMAIN ep = Endpoints /\ ProcTypeOK(p) /\ RunOK(p)
      /\ \A e \in Endpoints : EpTypeOK(ep[e])
  BY ServerFacts, RecordsOK DEF ProcTypes
<1>1. /\ p.publishing
      /\ Becomes(IF p.exits = {} THEN FinishTerminal(s, g) ELSE QueueExits(s, g, p.exits))
  BY DEF PublishExit
<1>2. IsState(s) /\ s.srv = srv /\ s.ep = ep /\ s.proc = [proc EXCEPT ![g] = q]
  BY <1>0, NowIs DEF IsState, ProcTypes
<1> HIDE DEF s
<1>3. p.terminal /\ p.reaped /\ p.bindings = {} /\ p.pc = "up"
  BY <1>0, <1>1 DEF RunOK
<1>4. /\ SameRun(p, q) /\ DOMAIN q = DOMAIN p /\ q.bindings = p.bindings
      /\ q.exits = {} /\ q.lost = p.lost /\ q.detachable = p.detachable
      /\ q.ownerAlive = p.ownerAlive /\ q.io = p.io /\ q.cleaned = p.cleaned
      /\ q.publishing = FALSE
  BY <1>0 DEF ProcTypeOK, NoProc, SameRun
<1> HIDE DEF q
<1>5. ProcTypeOK(q) /\ RunOK(q)
  <2>1. ProcTypeOK(q)
    BY <1>0, <1>4 DEF ProcTypeOK, SameRun
  <2>2. RunOK(q)
    BY <1>0, <1>3, <1>4 DEF RunOK, SameRun
  <2>. QED BY <2>1, <2>2
<1>a. CASE p.exits = {}
  <2>1. Becomes(FinishTerminal(s, g))
    BY <1>1, <1>a
  <2>2. DOMAIN s.ep = Endpoints /\ \A e \in Endpoints : EpTypeOK(s.ep[e])
    BY <1>0, <1>2
  <2>3. /\ srv'.pending = srv.pending /\ DOMAIN ep' = Endpoints
        /\ \A e \in Endpoints : SameEndpoint(s.ep[e], ep'[e])
        /\ proc'[g].bindings = q.bindings /\ proc'[g].exits = q.exits
        /\ \A h \in Generations \ {g} : /\ proc'[h].bindings = proc[h].bindings
                                        /\ proc'[h].exits = proc[h].exits
        /\ \E due \in SUBSET Generations : \A h \in Generations : Kept(proc[h], proc'[h], h \in due)
        /\ (/\ \A e \in Endpoints : EpTypeOK(ep'[e]) /\ ep'[e].work \subseteq ep[e].work
            /\ FramesOK' /\ FailuresOnTheirWay' = FailuresOnTheirWay /\ SlotsOK') => ProcInv'
    BY <1>2, <1>3, <1>4, <1>5, <2>1, <2>2, RecordFinishes
  <2>4. PICK due \in SUBSET Generations : \A h \in Generations : Kept(proc[h], proc'[h], h \in due)
    BY <2>3
  <2>5. \A h \in Generations : proc'[h].bindings \cup proc'[h].exits = proc[h].bindings \cup proc[h].exits
    BY <1>4, <1>a, <2>3
  <2>6. \A e \in Endpoints : SameEndpoint(ep[e], ep'[e])
    BY <1>2, <2>3
  <2>7. /\ \A e \in Endpoints : EpTypeOK(ep'[e]) /\ ep'[e].work \subseteq ep[e].work
        /\ FramesOK' /\ FailuresOnTheirWay' = FailuresOnTheirWay /\ SlotsOK'
    BY <2>3, <2>4, <2>5, <2>6, EndpointsStay
  <2>. QED BY <2>3, <2>7
<1>b. CASE p.exits # {}
  <2> DEFINE told(e) == \E b \in p.exits : b.e = e
             exit(e) == [kind |-> "exit", g |-> g, id |-> (CHOOSE b \in p.exits : b.e = e).id]
  <2>1. /\ srv' = srv /\ proc' = [proc EXCEPT ![g] = q]
        /\ ep' = [e \in Endpoints |-> [ep[e] EXCEPT !.queue = IF told(e) THEN Append(@, exit(e)) ELSE @]]
    <3>1. Becomes(QueueExits(s, g, p.exits))
      BY <1>1, <1>b
    <3>2. LET t == QueueExits(s, g, p.exits)
          IN  /\ t.srv = s.srv /\ t.proc = s.proc
              /\ t.ep = [e \in Endpoints |-> [s.ep[e] EXCEPT !.queue =
                           IF told(e) THEN Append(@, exit(e)) ELSE @]]
      BY <1>2 DEF QueueExits, IsState
    <3>. QED BY <1>2, <3>1, <3>2 DEF Becomes
  <2>2. ASSUME NEW e \in Endpoints, told(e)
        PROVE  \E i \in ProcessIds : /\ Binding(e, i) \in p.exits /\ exit(e).id = i
                                     /\ \A b \in p.exits : b.e = e => b = Binding(e, i)
    <3>1. PICK b \in p.exits : b.e = e /\ b = (CHOOSE c \in p.exits : c.e = e)
      BY <2>2
    <3>2. b \in AnyBinding /\ b = Binding(e, b.id) /\ b.id \in ProcessIds
      <4>1. b \in AnyBinding
        BY <1>0 DEF ProcTypeOK
      <4>. QED BY <3>1, <4>1 DEF AnyBinding, Binding
    <3>3. \A c \in p.exits : c.e = e => c = b
      BY <1>0, <3>1 DEF RunOK
    <3>4. exit(e).id = b.id
      BY <3>1
    <3>. QED BY <3>1, <3>2, <3>3, <3>4
  <2>3. \A e \in Endpoints : ~told(e) => ep'[e].queue = ep[e].queue
    BY <1>0, <2>1 DEF EpTypeOK
  <2>4. \A e \in Endpoints : told(e) => ep'[e].queue = Append(ep[e].queue, exit(e))
    BY <1>0, <2>1 DEF EpTypeOK
  <2>5. \A e \in Endpoints : exit(e).kind = "exit" /\ exit(e).g = g /\ (told(e) => exit(e) \in AnyFrame)
    <3>1. \A e \in Endpoints : told(e) => exit(e).id \in ProcessIds
      BY <2>2
    <3>2. \A e \in Endpoints : told(e) => exit(e) \in AnyFrame
      BY <3>1 DEF AnyFrame
    <3>. QED BY <3>2
  <2>6. /\ DOMAIN ep' = Endpoints /\ \A e \in Endpoints :
           /\ DOMAIN ep'[e] = DOMAIN ep[e] /\ ep'[e].accepting = ep[e].accepting /\ ep'[e].slots = ep[e].slots
           /\ ep'[e].kicked = ep[e].kicked /\ ep'[e].stage = ep[e].stage /\ ep'[e].work = ep[e].work
    BY <1>0, <2>1 DEF EpTypeOK
  <2> HIDE DEF exit
  <2>7. /\ DOMAIN proc' = Generations /\ proc'[g] = q
        /\ \A h \in Generations \ {g} : proc'[h] = proc[h]
        /\ \A h \in Generations : SameRun(proc[h], proc'[h])
    BY <1>4, <2>1, RunsStay
  <2>8. \A e \in Endpoints : EpTypeOK(ep'[e]) /\ ep'[e].work \subseteq ep[e].work
    <3>. SUFFICES ASSUME NEW e \in Endpoints PROVE EpTypeOK(ep'[e])
      BY <2>6
    <3>1. ep[e].queue \in Seq(AnyFrame) /\ EpTypeOK(ep[e])
      BY <1>0 DEF EpTypeOK
    <3>2. ep'[e].queue \in Seq(AnyFrame)
      <4>1. CASE told(e)
        <5>1. PICK f \in AnyFrame : ep'[e].queue = Append(ep[e].queue, f)
          BY <2>4, <2>5, <4>1
        <5>. QED BY <3>1, <5>1, Appended
      <4>2. CASE ~told(e)
        BY <2>3, <3>1, <4>2
      <4>. QED BY <4>1, <4>2
    <3>. QED BY <2>6, <3>1, <3>2 DEF EpTypeOK
  <2>9. FramesOK' /\ FailuresOnTheirWay' = FailuresOnTheirWay
    <3>1. \A h \in Generations : /\ proc[h].pc = "ended" => proc'[h].pc = "ended"
                                 /\ proc[h].terminal => proc'[h].terminal
      BY <2>7 DEF SameRun
    <3>2. proc'[g].terminal
      BY <1>3, <3>1
    <3>3. \A d \in Endpoints :
           \/ ep'[d].queue = ep[d].queue
           \/ \E u \in AnyFrame : /\ u.kind # "failed" /\ (u.kind = "exit" => proc'[u.g].terminal)
                                  /\ ep'[d].queue = Append(ep[d].queue, u)
      BY <2>3, <2>4, <2>5, <3>2
    <3>. QED BY <2>1, <3>1, <3>3, FramesJoin
  <2>10. SlotsOK'
    <3>. SUFFICES ASSUME NEW e \in Endpoints PROVE IdsOf(e)'
      BY DEF SlotsOK
    <3>1. CASE told(e)
      <4>1. PICK i \in ProcessIds : /\ Binding(e, i) \in p.exits /\ exit(e).id = i
                                    /\ \A b \in p.exits : b.e = e => b = Binding(e, i)
        BY <2>2, <3>1
      <4>2. Held(e, i, g) /\ ~Held(e, i, g)'
        BY <1>3, <1>4, <2>7, <4>1 DEF Held
      <4>3. \A j \in ProcessIds, h \in Generations : j # i \/ h # g => (Held(e, j, h)' <=> Held(e, j, h))
        <5>1. \A j \in ProcessIds \ {i} : ~Held(e, j, g) /\ ~Held(e, j, g)'
          BY <1>3, <1>4, <2>7, <4>1 DEF Held, Binding
        <5>2. \A j \in ProcessIds, h \in Generations \ {g} : Held(e, j, h)' <=> Held(e, j, h)
          BY <2>7 DEF Held
        <5>. QED BY <5>1, <5>2
      <4>4. PICK f \in AnyFrame : FreesId(f) /\ f.g = g /\ f.id = i /\ ep'[e].queue = Append(ep[e].queue, f)
        BY <2>4, <2>5, <3>1, <4>1 DEF FreesId
      <4>5. p.pc \in HasRecord
        BY <1>3 DEF HasRecord
      <4>. QED BY <2>6, <2>7, <4>2, <4>3, <4>4, <4>5, IdLeaves
    <3>2. CASE ~told(e)
      <4>1. ep'[e].queue = ep[e].queue
        BY <2>3, <3>2
      <4>2. \A j \in ProcessIds, h \in Generations : Held(e, j, h)' <=> Held(e, j, h)
        <5>1. \A j \in ProcessIds : ~Held(e, j, g) /\ ~Held(e, j, g)'
          BY <1>3, <1>4, <2>7, <3>2 DEF Held, Binding
        <5>2. \A j \in ProcessIds, h \in Generations \ {g} : Held(e, j, h)' <=> Held(e, j, h)
          BY <2>7 DEF Held
        <5>. QED BY <5>1, <5>2
      <4>3. IdsOf(e)
        BY DEF ProcInv, SlotsOK
      <4>. QED BY <2>6, <2>7, <4>1, <4>2, <4>3, IdsElsewhere
    <3>. QED BY <3>1, <3>2
  <2>. QED BY <1>4, <1>5, <2>1, <2>6, <2>8, <2>9, <2>10, EndsStep
<1>. QED BY <1>a, <1>b

-----------------------------------------------------------------------------
(* The writer of an endpoint takes a frame, and its guard runs.            *)

(* A frame less: what it stood for is its guard's to give back.            *)
LEMMA FrameTaken ==
  ASSUME ProcInv, srv'.pending \subseteq srv.pending,
         \A h \in Generations : proc[h].pc = "ended" => proc'[h].pc = "ended",
         \A h \in Generations : proc[h].terminal => proc'[h].terminal,
         NEW e \in Endpoints, NEW k \in DOMAIN ep[e].queue, NEW f, f = ep[e].queue[k],
         ep'[e].queue = RemoveAt(ep[e].queue, k),
         \A d \in Endpoints \ {e} : ep'[d].queue = ep[d].queue
  PROVE  /\ FramesOK' /\ ep'[e].queue \in Seq(AnyFrame)
         /\ FailuresOnTheirWay' =
              IF f.kind = "failed" THEN FailuresOnTheirWay \ {f.g} ELSE FailuresOnTheirWay
         /\ f.kind = "failed" => f.g \in FailuresOnTheirWay
         /\ \A d \in Endpoints, id \in ProcessIds, h \in Generations :
              /\ FrameIn(d, id, h)' => FrameIn(d, id, h)
              /\ FrameIn(d, id, h) =>
                   FrameIn(d, id, h)' \/ (d = e /\ FreesId(f) /\ f.g = h /\ f.id = id)
              /\ d = e /\ ep[e].stage = "open" /\ FreesId(f) /\ f.g = h /\ f.id = id =>
                   ~FrameIn(d, id, h)'
         /\ \A d \in Endpoints : ep[d].stage = "open" =>
              \A id \in ProcessIds, g, h \in Generations : \A i, j \in DOMAIN ep'[d].queue :
                FreedBy(d, id, g, i)' /\ FreedBy(d, id, h, j)' => i = j
<1>0. \A d \in Endpoints : ep[d].queue \in Seq(AnyFrame)
  BY DEF ProcInv, ProcTypes, EpTypeOK
<1>t. \A d \in Endpoints : \A i \in DOMAIN ep[d].queue : ep[d].queue[i].g \in Generations
  <2>1. \A d \in Endpoints : \A i \in DOMAIN ep[d].queue : ep[d].queue[i] \in AnyFrame
    BY <1>0
  <2>. QED BY <2>1 DEF AnyFrame
<1>1. PICK from : from = [d \in Endpoints |-> [i \in DOMAIN ep'[d].queue |->
                            IF d = e THEN Shifted(k, i) ELSE i]]
  OBVIOUS
<1>2. /\ ep'[e].queue \in Seq(AnyFrame)
      /\ \A i \in DOMAIN ep'[e].queue : /\ Shifted(k, i) \in DOMAIN ep[e].queue \ {k}
                                        /\ ep'[e].queue[i] = ep[e].queue[Shifted(k, i)]
      /\ \A i \in DOMAIN ep[e].queue \ {k} : \E j \in DOMAIN ep'[e].queue : Shifted(k, j) = i
      /\ \A i, j \in DOMAIN ep'[e].queue : Shifted(k, i) = Shifted(k, j) => i = j
  <2>1. ep[e].queue \in Seq(AnyFrame)
    BY <1>0
  <2>. QED BY <2>1, Removed
<1>3. \A d \in Endpoints :
        /\ \A i \in DOMAIN ep'[d].queue : /\ from[d][i] \in DOMAIN ep[d].queue
                                          /\ ep'[d].queue[i] = ep[d].queue[from[d][i]]
                                          /\ d = e => from[d][i] # k
        /\ \A i \in DOMAIN ep[d].queue :
             (d # e \/ i # k) => \E j \in DOMAIN ep'[d].queue : from[d][j] = i
        /\ \A i, j \in DOMAIN ep'[d].queue : from[d][i] = from[d][j] => i = j
  <2>. SUFFICES ASSUME NEW d \in Endpoints
                PROVE  /\ \A i \in DOMAIN ep'[d].queue :
                            /\ from[d][i] \in DOMAIN ep[d].queue
                            /\ ep'[d].queue[i] = ep[d].queue[from[d][i]]
                            /\ d = e => from[d][i] # k
                       /\ \A i \in DOMAIN ep[d].queue :
                            (d # e \/ i # k) => \E j \in DOMAIN ep'[d].queue : from[d][j] = i
                       /\ \A i, j \in DOMAIN ep'[d].queue : from[d][i] = from[d][j] => i = j
    OBVIOUS
  <2>1. CASE d = e
    <3>1. \A i \in DOMAIN ep'[d].queue : from[d][i] = Shifted(k, i)
      BY <1>1, <2>1
    <3>. QED BY <1>2, <2>1, <3>1
  <2>2. CASE d # e
    <3>1. ep'[d].queue = ep[d].queue /\ \A i \in DOMAIN ep'[d].queue : from[d][i] = i
      BY <1>1, <2>2
    <3>. QED BY <2>2, <3>1
  <2>. QED BY <2>1, <2>2
<1>4. FramesOK'
  <2>1. FramesOK
    BY DEF ProcInv
  <2>2. \A d \in Endpoints : \A i \in DOMAIN ep'[d].queue :
          \/ from[d][i] \in DOMAIN ep[d].queue /\ ep'[d].queue[i] = ep[d].queue[from[d][i]]
          \/ ep'[d].queue[i].kind # "failed" /\
             (ep'[d].queue[i].kind = "exit" => proc'[ep'[d].queue[i].g].terminal)
    BY <1>3
  <2>3. \A d \in Endpoints : \A i, j \in DOMAIN ep'[d].queue : from[d][i] = from[d][j] => i = j
    BY <1>3
  <2>. QED BY <1>0, <2>1, <2>2, <2>3, FramesMove
<1>5. \A d \in Endpoints : \A id, h : \A i \in DOMAIN ep'[d].queue :
        FreedBy(d, id, h, i)' <=> FreedBy(d, id, h, from[d][i])
  BY <1>3 DEF FreedBy
<1>6. \A d \in Endpoints : ep[d].stage = "open" =>
        \A id \in ProcessIds, g, h \in Generations : \A i, j \in DOMAIN ep[d].queue :
          FreedBy(d, id, g, i) /\ FreedBy(d, id, h, j) => i = j
  BY DEF ProcInv, SlotsOK, IdsOf, SlotOK
<1>7. \A d \in Endpoints : ep[d].stage = "open" =>
        \A id \in ProcessIds, g, h \in Generations : \A i, j \in DOMAIN ep'[d].queue :
          FreedBy(d, id, g, i)' /\ FreedBy(d, id, h, j)' => i = j
  BY <1>3, <1>5, <1>6
<1>8. ASSUME NEW d \in Endpoints, NEW id \in ProcessIds, NEW h \in Generations
      PROVE  /\ FrameIn(d, id, h)' => FrameIn(d, id, h)
             /\ FrameIn(d, id, h) =>
                  FrameIn(d, id, h)' \/ (d = e /\ FreesId(f) /\ f.g = h /\ f.id = id)
             /\ d = e /\ ep[e].stage = "open" /\ FreesId(f) /\ f.g = h /\ f.id = id =>
                  ~FrameIn(d, id, h)'
  <2>0. FrameIn(d, id, h)' <=> \E i \in DOMAIN ep'[d].queue : FreedBy(d, id, h, i)'
    BY DEF FrameIn
  <2>1. FrameIn(d, id, h)' => FrameIn(d, id, h)
    BY <1>3, <1>5, <2>0 DEF FrameIn
  <2>2. FreedBy(e, id, h, k) <=> FreesId(f) /\ f.g = h /\ f.id = id
    BY DEF FreedBy
  <2>3. FrameIn(d, id, h) => FrameIn(d, id, h)' \/ (d = e /\ FreedBy(e, id, h, k))
    <3>. SUFFICES ASSUME FrameIn(d, id, h), ~(d = e /\ FreedBy(e, id, h, k)) PROVE FrameIn(d, id, h)'
      OBVIOUS
    <3>1. PICK i \in DOMAIN ep[d].queue : FreedBy(d, id, h, i)
      BY DEF FrameIn
    <3>2. PICK j \in DOMAIN ep'[d].queue : from[d][j] = i
      BY <1>3, <3>1
    <3>. QED BY <1>5, <2>0, <3>1, <3>2
  <2>4. d = e /\ ep[e].stage = "open" /\ FreedBy(e, id, h, k) => ~FrameIn(d, id, h)'
    BY <1>3, <1>5, <1>6, <2>0
  <2>. QED BY <2>1, <2>2, <2>3, <2>4
<1>9. f.kind = "failed" => f.g \in FailuresOnTheirWay
  BY <1>t DEF FailuresOnTheirWay
<1>10. FailuresOnTheirWay' =
         IF f.kind = "failed" THEN FailuresOnTheirWay \ {f.g} ELSE FailuresOnTheirWay
  <2>1. ASSUME NEW h \in Generations
        PROVE  (\E d \in Endpoints : \E i \in DOMAIN ep'[d].queue :
                  ep'[d].queue[i].kind = "failed" /\ ep'[d].queue[i].g = h)
               <=> (/\ \E d \in Endpoints : \E i \in DOMAIN ep[d].queue :
                         ep[d].queue[i].kind = "failed" /\ ep[d].queue[i].g = h
                    /\ ~(f.kind = "failed" /\ f.g = h))
    <3>1. \A d, c \in Endpoints : \A i \in DOMAIN ep[d].queue, j \in DOMAIN ep[c].queue :
            (/\ ep[d].queue[i].kind = "failed" /\ ep[c].queue[j].kind = "failed"
             /\ ep[d].queue[i].g = ep[c].queue[j].g) => d = c /\ i = j
      BY DEF ProcInv, FramesOK
    <3>2. ASSUME NEW d \in Endpoints, NEW i \in DOMAIN ep'[d].queue,
                 ep'[d].queue[i].kind = "failed", ep'[d].queue[i].g = h
          PROVE  /\ \E c \in Endpoints : \E j \in DOMAIN ep[c].queue :
                      ep[c].queue[j].kind = "failed" /\ ep[c].queue[j].g = h
                 /\ ~(f.kind = "failed" /\ f.g = h)
      <4>1. PICK m \in DOMAIN ep[d].queue : m = from[d][i] /\ ep'[d].queue[i] = ep[d].queue[m]
                                            /\ (d = e => m # k)
        BY <1>3, SMTT(30)
      <4>2. ep[d].queue[m].kind = "failed" /\ ep[d].queue[m].g = h
        BY <3>2, <4>1
      <4>3. ~(f.kind = "failed" /\ f.g = h)
        BY <3>1, <4>1, <4>2
      <4>. QED BY <4>2, <4>3
    <3>3. ASSUME NEW d \in Endpoints, NEW i \in DOMAIN ep[d].queue,
                 ep[d].queue[i].kind = "failed", ep[d].queue[i].g = h,
                 ~(f.kind = "failed" /\ f.g = h)
          PROVE  \E c \in Endpoints : \E j \in DOMAIN ep'[c].queue :
                   ep'[c].queue[j].kind = "failed" /\ ep'[c].queue[j].g = h
      <4>1. d # e \/ i # k
        BY <3>3
      <4>2. PICK j \in DOMAIN ep'[d].queue : from[d][j] = i
        BY <1>3, <4>1
      <4>. QED BY <1>3, <3>3, <4>2
    <3>. QED BY <3>2, <3>3
  <2>. QED BY <2>1 DEF FailuresOnTheirWay
<1>. QED BY <1>2, <1>4, <1>7, <1>8, <1>9, <1>10

(* What a guard may give back, with the frame it stands for gone.          *)
LEMMA TakenIds ==
  ASSUME ProcInv, srv'.pending \subseteq srv.pending,
         \A h \in Generations : SameEnds(proc[h], proc'[h]),
         \A h \in Generations : proc[h].pc = "ended" => proc'[h].pc = "ended",
         \A h \in Generations : proc[h].terminal => proc'[h].terminal,
         NEW e \in Endpoints, NEW k \in DOMAIN ep[e].queue, NEW f, f = ep[e].queue[k],
         ep'[e].queue = RemoveAt(ep[e].queue, k),
         \A d \in Endpoints \ {e} : ep'[d].queue = ep[d].queue,
         \A d \in Endpoints : /\ ep'[d].accepting = ep[d].accepting /\ ep'[d].stage = ep[d].stage
                              /\ ep'[d].kicked = ep[d].kicked /\ ep'[d].work = ep[d].work,
         \A d \in Endpoints, id \in ProcessIds :
           LET ends == d = e /\ id = f.id /\ FreesId(f) /\ ep[d].slots[id] = BoundSlot(f.g)
           IN  \/ ep'[d].slots[id] = ep[d].slots[id] /\ ~ends
               \/ /\ ep'[d].slots[id] = Free
                  /\ \/ ends
                     \/ f.kind = "failed" /\ ep[d].slots[id] = PendingSlot(f.g)
                     \/ d = e /\ id = f.id /\ ep[d].slots[id] = ReplySlot(f.g)
  PROVE  SlotsOK'
<1>. SUFFICES ASSUME NEW d \in Endpoints PROVE IdsOf(d)'
  BY DEF SlotsOK
<1>0. IdsOf(d) /\ SlotsDiffer
  BY SlotsDo DEF ProcInv, SlotsOK
<1>f. f.g \in Generations /\ (f.kind = "failed" => proc[f.g].pc = "ended")
  <2>1. ep[e].queue \in Seq(AnyFrame)
    BY DEF ProcInv, ProcTypes, EpTypeOK
  <2>2. f \in AnyFrame
    BY <2>1
  <2>. QED BY <2>2 DEF AnyFrame, ProcInv, FramesOK
<1>1. /\ \A id \in ProcessIds, h \in Generations :
            /\ FrameIn(d, id, h)' => FrameIn(d, id, h)
            /\ FrameIn(d, id, h) =>
                 FrameIn(d, id, h)' \/ (d = e /\ FreesId(f) /\ f.g = h /\ f.id = id)
            /\ d = e /\ ep[e].stage = "open" /\ FreesId(f) /\ f.g = h /\ f.id = id =>
                 ~FrameIn(d, id, h)'
      /\ ep[d].stage = "open" => \A id \in ProcessIds, g, h \in Generations :
           \A i, j \in DOMAIN ep'[d].queue : FreedBy(d, id, g, i)' /\ FreedBy(d, id, h, j)' => i = j
  BY FrameTaken
<1>2. ASSUME NEW id \in ProcessIds
      PROVE  ep'[d].slots[id] = ep[d].slots[id] \/ (ep'[d].slots[id] = Free /\ GivenBack(d, id))
  <2>1. CASE ep[d].stage # "open"
    <3>1. ep[d].slots[id] = Free
      BY <1>0, <2>1 DEF IdsOf
    <3>. QED BY <3>1
  <2>2. CASE ep[d].stage = "open" /\ ep'[d].slots[id] # ep[d].slots[id]
    <3>0. SlotOK(d, id) /\ ep'[d].slots[id] = Free
      BY <1>0, <2>2, ZenonT(60) DEF IdsOf
    <3>1. CASE d = e /\ id = f.id /\ FreesId(f) /\ ep[d].slots[id] = BoundSlot(f.g)
      <4>1. ~FrameIn(d, id, f.g)'
        BY <1>1, <1>f, <2>2, <3>1
      <4>2. FreedBy(d, id, f.g, k)
        BY <3>1, ZenonT(60) DEF FreedBy
      <4>3. ~Held(d, id, f.g)
        BY <1>f, <2>2, <3>0, <3>1, <4>2 DEF SlotOK
      <4>. QED BY <1>f, <3>0, <3>1, <4>1, <4>3, ZenonT(60) DEF GivenBack
    <3>2. CASE f.kind = "failed" /\ ep[d].slots[id] = PendingSlot(f.g)
      <4>1. RunOK(proc[f.g])
        BY <1>f, RecordsOK
      <4>2. ~Held(d, id, f.g)
        BY <1>f, <3>2, <4>1 DEF Held, RunOK, HasRecord
      <4>3. ~Claims(proc'[f.g])
        BY <1>f, <3>2 DEF Claims
      <4>. QED BY <1>f, <3>0, <3>2, <4>2, <4>3 DEF GivenBack
    <3>3. CASE d = e /\ id = f.id /\ ep[d].slots[id] = ReplySlot(f.g)
      <4>1. ~Held(d, id, f.g)
        <5>1. ep[d].stage = "open" /\ Held(d, id, f.g) => ep[d].slots[id] \in {PendingSlot(f.g), BoundSlot(f.g)}
          BY <1>f, <3>0 DEF SlotOK
        <5>2. ep[d].slots[id] # PendingSlot(f.g) /\ ep[d].slots[id] # BoundSlot(f.g)
          BY <1>0, <3>3 DEF SlotsDiffer
        <5>. QED BY <2>2, <5>1, <5>2
      <4>. QED BY <1>f, <3>0, <3>3, <4>1 DEF GivenBack
    <3>. QED BY <2>2, <3>1, <3>2, <3>3
  <2>. QED BY <2>1, <2>2
<1>3. \A id \in ProcessIds, g \in Generations :
        /\ FrameIn(d, id, g)' => FrameIn(d, id, g)
        /\ FrameIn(d, id, g) /\ ep'[d].slots[id] = BoundSlot(g) => FrameIn(d, id, g)'
  <2>. SUFFICES ASSUME NEW id \in ProcessIds, NEW g \in Generations
                PROVE  /\ FrameIn(d, id, g)' => FrameIn(d, id, g)
                       /\ FrameIn(d, id, g) /\ ep'[d].slots[id] = BoundSlot(g) => FrameIn(d, id, g)'
    OBVIOUS
  <2>1. d = e /\ FreesId(f) /\ f.g = g /\ f.id = id => ep'[d].slots[id] # BoundSlot(g)
    BY <1>0 DEF SlotsDiffer
  <2>. QED BY <1>1, <2>1
<1>4. ep[d].stage = "open" => ep'[d].work \subseteq ep[d].work
  OBVIOUS
<1>. QED BY <1>0, <1>1, <1>2, <1>3, <1>4, IdsEdit

(* A guard that touches no record.                                         *)
LEMMA GuardStep ==
  ASSUME ProcInv, proc' = proc, DOMAIN srv' = DOMAIN srv, srv'.generations \in Nat,
         srv'.accepting = srv.accepting, srv'.stage = srv.stage, srv'.todo = srv.todo,
         srv'.pending = srv.pending, srv'.live = srv.live, srv'.finals = srv.finals,
         srv'.freeing = srv.freeing, srv'.waits = srv.waits, srv'.mine = srv.mine,
         DOMAIN ep' = Endpoints,
         \A d \in Endpoints : EpTypeOK(ep'[d]) /\ ep'[d].work = ep[d].work,
         FramesOK', SlotsOK', GenerationsAreCharged'
  PROVE  ProcInv'
<1>0. SrvTypeOK /\ ShutOK /\ ProcTypes /\ Places
  BY ServerFacts DEF ProcInv
<1>1. ProcTypes'
  BY <1>0 DEF ProcTypes, SrvTypeOK
<1>2. Places'
  BY <1>0 DEF Places
<1>3. CancelsOK'
  <2>1. \A h \in Generations : Cancelled(h) => Cancelled(h)'
    BY DEF Cancelled
  <2>2. \A d \in Endpoints : ep[d].work \subseteq AnyWork /\ ep'[d].work \subseteq ep[d].work
    BY <1>0 DEF ProcTypes, EpTypeOK
  <2>. QED BY <1>0, <2>1, <2>2, CancelsStay DEF ProcInv, SrvTypeOK
<1>4. ShutOK'
  BY <1>0 DEF ShutOK
<1>. QED BY <1>1, <1>2, <1>3, <1>4, FramesOK', SlotsOK', GenerationsAreCharged' DEF ProcInv

(* One slot is freed if it is what is expected.                            *)
LEMMA OneSlot ==
  ASSUME NEW E, DOMAIN E = Endpoints, \A d \in Endpoints : EpTypeOK(E[d]),
         NEW o \in Endpoints, NEW id \in ProcessIds, NEW x, NEW F,
         F = [E EXCEPT ![o].slots[id] = IF @ = x THEN Free ELSE @]
  PROVE  /\ DOMAIN F = Endpoints
         /\ \A d \in Endpoints :
              /\ EpTypeOK(F[d]) /\ F[d].work = E[d].work
              /\ F[d].accepting = E[d].accepting /\ F[d].queue = E[d].queue
              /\ F[d].kicked = E[d].kicked /\ F[d].stage = E[d].stage
              /\ \A i \in ProcessIds :
                   F[d].slots[i] = IF d = o /\ i = id /\ E[d].slots[i] = x THEN Free ELSE E[d].slots[i]
<1>1. DOMAIN F = Endpoints /\ \A d \in Endpoints \ {o} : F[d] = E[d]
  OBVIOUS
<1>2. EpTypeOK(E[o]) /\ E[o].slots \in [ProcessIds -> AnySlot]
  BY DEF EpTypeOK
<1> DEFINE y == IF E[o].slots[id] = x THEN Free ELSE E[o].slots[id]
<1>3. F[o] = [E[o] EXCEPT !.slots[id] = y]
  OBVIOUS
<1>4. y \in AnySlot
  BY <1>2 DEF AnySlot
<1> HIDE DEF y
<1>5. /\ DOMAIN F[o] = DOMAIN E[o] /\ F[o].slots = [E[o].slots EXCEPT ![id] = y]
      /\ F[o].work = E[o].work
      /\ F[o].accepting = E[o].accepting /\ F[o].queue = E[o].queue
      /\ F[o].kicked = E[o].kicked /\ F[o].stage = E[o].stage
  BY <1>2, <1>3 DEF EpTypeOK
<1>6. F[o].slots \in [ProcessIds -> AnySlot]
  BY <1>2, <1>4, <1>5
<1>7. EpTypeOK(F[o])
  BY <1>2, <1>5, <1>6 DEF EpTypeOK
<1>8. \A i \in ProcessIds : F[o].slots[i] = IF i = id /\ E[o].slots[i] = x THEN Free ELSE E[o].slots[i]
  BY <1>2, <1>5 DEF y
<1>. QED BY <1>1, <1>5, <1>7, <1>8

(* The guard of a frame, when it was written or dropped.                   *)
LEMMA WriteFrameKeeps ==
  ASSUME ProcInv, NEW e \in Endpoints, WriteFrame(e)
  PROVE  ProcInv'
<1>0. /\ SrvTypeOK /\ ShutOK /\ ProcTypes /\ DOMAIN ep = Endpoints /\ DOMAIN proc = Generations
      /\ \A d \in Endpoints : EpTypeOK(ep[d])
  BY ServerFacts DEF ProcTypes
<1>1. PICK k \in DOMAIN ep[e].queue :
         Becomes(WriterGuard([Now EXCEPT !.ep[e].queue = RemoveAt(@, k)], e, ep[e].queue[k]))
  BY DEF WriteFrame
<1>f. PICK f : f = ep[e].queue[k]
  OBVIOUS
<1>g. PICK g \in Generations, id \in ProcessIds : g = f.g /\ id = f.id
  <2>1. ep[e].queue \in Seq(AnyFrame)
    BY <1>0 DEF EpTypeOK
  <2>2. f \in AnyFrame
    BY <1>f, <2>1
  <2>. QED BY <2>2 DEF AnyFrame
<1>k. f.kind \in {"failed", "unwatched", "reply", "exit"}
  <2>1. ep[e].queue \in Seq(AnyFrame)
    BY <1>0 DEF EpTypeOK
  <2>2. f \in AnyFrame
    BY <1>f, <2>1
  <2>. QED BY <2>2 DEF AnyFrame
<1> DEFINE s == [Now EXCEPT !.ep[e].queue = RemoveAt(@, k)]
<1>2. /\ IsState(s) /\ s.srv = srv /\ s.proc = proc
      /\ s.ep = [ep EXCEPT ![e].queue = RemoveAt(ep[e].queue, k)]
  BY NowIs DEF IsState
<1>3. Becomes(WriterGuard(s, e, f))
  BY <1>1, <1>f
<1> HIDE DEF s
<1>4. /\ DOMAIN s.ep = Endpoints /\ \A d \in Endpoints \ {e} : s.ep[d] = ep[d]
      /\ s.ep[e].queue = RemoveAt(ep[e].queue, k)
      /\ \A d \in Endpoints :
           /\ DOMAIN s.ep[d] = DOMAIN ep[d] /\ s.ep[d].slots = ep[d].slots /\ s.ep[d].work = ep[d].work
           /\ s.ep[d].accepting = ep[d].accepting /\ s.ep[d].kicked = ep[d].kicked
           /\ s.ep[d].stage = ep[d].stage
  BY <1>0, <1>2 DEF EpTypeOK
<1>5. \A d \in Endpoints : EpTypeOK(s.ep[d])
  <2>1. s.ep[e].queue \in Seq(AnyFrame)
    <3>1. ep[e].queue \in Seq(AnyFrame)
      BY <1>0 DEF EpTypeOK
    <3>. QED BY <1>4, <3>1, Removed
  <2>. QED BY <1>0, <1>4, <2>1 DEF EpTypeOK
<1>n. PICK E : E = s.ep
  OBVIOUS
<1>m. DOMAIN E = Endpoints /\ \A d \in Endpoints : EpTypeOK(E[d])
  BY <1>4, <1>5, <1>n
<1>6. /\ f.kind = "failed" => proc[g].pc = "ended" /\ g \notin srv.pending
      /\ f.kind = "exit" => proc[g].terminal
  BY <1>f, <1>g DEF ProcInv, FramesOK
(* A guard that frees at most one slot.                                    *)
<1>7. ASSUME NEW x, NEW o \in Endpoints, NEW i0 \in ProcessIds, NEW F, \A d \in Endpoints : SameEndpoint(F[d], ep'[d]),
             DOMAIN ep' = Endpoints, F = [s.ep EXCEPT ![o].slots[i0] = IF @ = x THEN Free ELSE @],
             \/ f.kind = "failed" /\ x = PendingSlot(g)
             \/ FreesId(f) /\ o = e /\ i0 = id /\ x = BoundSlot(g)
             \/ f.kind = "reply" /\ o = e /\ i0 = id /\ x = ReplySlot(g),
             srv'.pending \subseteq srv.pending,
             \A h \in Generations : SameEnds(proc[h], proc'[h]),
             \A h \in Generations : proc[h].pc = "ended" => proc'[h].pc = "ended",
             \A h \in Generations : proc[h].terminal => proc'[h].terminal
      PROVE  /\ FramesOK' /\ SlotsOK'
             /\ \A d \in Endpoints : EpTypeOK(ep'[d]) /\ ep'[d].work = ep[d].work
             /\ FailuresOnTheirWay' =
                  IF f.kind = "failed" THEN FailuresOnTheirWay \ {g} ELSE FailuresOnTheirWay
             /\ f.kind = "failed" => g \in FailuresOnTheirWay
  <2>1. /\ DOMAIN F = Endpoints
        /\ \A d \in Endpoints :
              /\ EpTypeOK(F[d]) /\ F[d].work = E[d].work
              /\ F[d].accepting = E[d].accepting /\ F[d].queue = E[d].queue
              /\ F[d].kicked = E[d].kicked /\ F[d].stage = E[d].stage
              /\ \A i \in ProcessIds :
                   F[d].slots[i] = IF d = o /\ i = i0 /\ E[d].slots[i] = x THEN Free ELSE E[d].slots[i]
    <3>0. F = [E EXCEPT ![o].slots[i0] = IF @ = x THEN Free ELSE @]
      BY <1>7, <1>n
    <3>1. DOMAIN F = Endpoints /\ \A d \in Endpoints \ {o} : F[d] = E[d]
      BY <1>m, <3>0
    <3>2. EpTypeOK(E[o]) /\ E[o].slots \in [ProcessIds -> AnySlot]
      BY <1>m DEF EpTypeOK
    <3> DEFINE y == IF E[o].slots[i0] = x THEN Free ELSE E[o].slots[i0]
    <3>3. F[o] = [E[o] EXCEPT !.slots[i0] = y]
      BY <1>m, <3>0
    <3>4. y \in AnySlot
      BY <3>2 DEF AnySlot
    <3> HIDE DEF y
    <3>5. /\ DOMAIN F[o] = DOMAIN E[o] /\ F[o].slots = [E[o].slots EXCEPT ![i0] = y]
          /\ F[o].work = E[o].work
          /\ F[o].accepting = E[o].accepting /\ F[o].queue = E[o].queue
          /\ F[o].kicked = E[o].kicked /\ F[o].stage = E[o].stage
      BY <3>2, <3>3 DEF EpTypeOK
    <3>6. F[o].slots \in [ProcessIds -> AnySlot]
      BY <3>2, <3>4, <3>5
    <3>7. EpTypeOK(F[o])
      BY <3>2, <3>5, <3>6 DEF EpTypeOK
    <3>8. \A i \in ProcessIds : F[o].slots[i] = IF i = i0 /\ E[o].slots[i] = x THEN Free ELSE E[o].slots[i]
      BY <3>2, <3>5 DEF y
    <3>. QED BY <1>m, <3>1, <3>5, <3>7, <3>8
  <2>2. \A d \in Endpoints : EpTypeOK(ep'[d])
    <3>. SUFFICES ASSUME NEW d \in Endpoints PROVE EpTypeOK(ep'[d])
      OBVIOUS
    <3>1. SameEndpoint(F[d], ep'[d])
      BY <1>7
    <3>2. EpTypeOK(F[d])
      BY <2>1
    <3>. QED BY <3>1, <3>2 DEF EpTypeOK, SameEndpoint
  <2>3. \A d \in Endpoints :
              /\ ep'[d].work = ep[d].work
              /\ ep'[d].accepting = ep[d].accepting /\ ep'[d].queue = s.ep[d].queue
              /\ ep'[d].kicked = ep[d].kicked /\ ep'[d].stage = ep[d].stage
              /\ \A i \in ProcessIds :
                   ep'[d].slots[i] = IF d = o /\ i = i0 /\ ep[d].slots[i] = x THEN Free ELSE ep[d].slots[i]
    <3>. SUFFICES ASSUME NEW d \in Endpoints
                  PROVE  /\ ep'[d].work = ep[d].work
                         /\ ep'[d].accepting = ep[d].accepting /\ ep'[d].queue = s.ep[d].queue
                         /\ ep'[d].kicked = ep[d].kicked /\ ep'[d].stage = ep[d].stage
                         /\ \A i \in ProcessIds :
                              ep'[d].slots[i] = IF d = o /\ i = i0 /\ ep[d].slots[i] = x THEN Free
                                                ELSE ep[d].slots[i]
      OBVIOUS
    <3>1. SameEndpoint(F[d], ep'[d])
      BY <1>7
    <3>2. /\ E[d].slots = ep[d].slots /\ E[d].work = ep[d].work
          /\ E[d].accepting = ep[d].accepting /\ E[d].kicked = ep[d].kicked
          /\ E[d].stage = ep[d].stage /\ E[d].queue = s.ep[d].queue
      BY <1>4, <1>n
    <3>3. /\ F[d].work = E[d].work
          /\ F[d].accepting = E[d].accepting /\ F[d].queue = E[d].queue
          /\ F[d].kicked = E[d].kicked /\ F[d].stage = E[d].stage
          /\ \A i \in ProcessIds :
               F[d].slots[i] = IF d = o /\ i = i0 /\ E[d].slots[i] = x THEN Free ELSE E[d].slots[i]
      BY <2>1
    <3>. QED BY <3>1, <3>2, <3>3 DEF SameEndpoint
  <2>4. /\ ep'[e].queue = RemoveAt(ep[e].queue, k)
        /\ \A d \in Endpoints \ {e} : ep'[d].queue = ep[d].queue
    BY <1>4, <2>3
  <2>5. /\ FramesOK'
        /\ FailuresOnTheirWay' =
              IF f.kind = "failed" THEN FailuresOnTheirWay \ {f.g} ELSE FailuresOnTheirWay
        /\ f.kind = "failed" => f.g \in FailuresOnTheirWay
    BY <1>7, <1>f, <2>4, FrameTaken
  <2>6. \A d \in Endpoints, i \in ProcessIds :
           LET ends == d = e /\ i = f.id /\ FreesId(f) /\ ep[d].slots[i] = BoundSlot(f.g)
           IN  \/ ep'[d].slots[i] = ep[d].slots[i] /\ ~ends
               \/ /\ ep'[d].slots[i] = Free
                  /\ \/ ends
                     \/ f.kind = "failed" /\ ep[d].slots[i] = PendingSlot(f.g)
                     \/ d = e /\ i = f.id /\ ep[d].slots[i] = ReplySlot(f.g)
    <3>1. CASE f.kind = "failed" /\ x = PendingSlot(g)
      BY <1>g, <2>3, <3>1 DEF FreesId
    <3>2. CASE FreesId(f) /\ o = e /\ i0 = id /\ x = BoundSlot(g)
      BY <1>g, <2>3, <3>2
    <3>3. CASE f.kind = "reply" /\ o = e /\ i0 = id /\ x = ReplySlot(g)
      BY <1>g, <2>3, <3>3 DEF FreesId
    <3>. QED BY <1>7, <3>1, <3>2, <3>3
  <2>7. SlotsOK'
    <3>1. /\ srv'.pending \subseteq srv.pending
          /\ \A h \in Generations : SameEnds(proc[h], proc'[h])
          /\ \A h \in Generations : proc[h].pc = "ended" => proc'[h].pc = "ended"
          /\ \A h \in Generations : proc[h].terminal => proc'[h].terminal
      BY <1>7
    <3>2. \A d \in Endpoints : /\ ep'[d].accepting = ep[d].accepting /\ ep'[d].stage = ep[d].stage
                                /\ ep'[d].kicked = ep[d].kicked /\ ep'[d].work = ep[d].work
      BY <2>3
    <3>. QED BY <1>f, <2>4, <2>6, <3>1, <3>2, TakenIds
  <2>. QED BY <1>g, <2>2, <2>3, <2>5, <2>7
<1>s. \A h \in Generations : SameEnds(proc[h], proc[h])
  BY DEF SameEnds
<1>t. \A F : \A d \in Endpoints : SameEndpoint(F[d], F[d])
  BY DEF SameEndpoint
<1>a. CASE f.kind = "failed"
  <2>1. PICK o \in Endpoints, i0 \in ProcessIds : o = proc[g].owner /\ i0 = proc[g].id
    BY <1>6, <1>a, SpawnFacts DEF ProcTypeOK
  <2>2. WriterGuard(s, e, f) = ReleasePending(s, g, FALSE)
    BY <1>a, <1>g DEF WriterGuard
  <2>3. /\ srv' = [srv EXCEPT !.pending = @ \ {g}, !.generations = Less(@, 1)] /\ proc' = proc
        /\ ep' = [s.ep EXCEPT ![o].slots[i0] = IF @ = PendingSlot(g) THEN Free ELSE @]
    <3>1. LET t == ReleasePending(s, g, FALSE)
          IN  /\ t.proc = s.proc
              /\ t.srv = [s.srv EXCEPT !.pending = @ \ {g}, !.generations = Less(@, 1)]
              /\ t.ep = [s.ep EXCEPT ![s.proc[g].owner].slots[s.proc[g].id] =
                           IF @ = PendingSlot(g) THEN Free ELSE @]
      BY <1>2, ReleasePendingIs, ZenonT(60)
    <3>. QED BY <1>2, <1>3, <2>1, <2>2, <3>1 DEF Becomes
  <2>4. /\ DOMAIN srv' = DOMAIN srv /\ srv'.accepting = srv.accepting /\ srv'.stage = srv.stage
        /\ srv'.todo = srv.todo /\ srv'.generations = Less(srv.generations, 1)
        /\ srv'.pending = srv.pending /\ srv'.live = srv.live /\ srv'.finals = srv.finals
        /\ srv'.freeing = srv.freeing /\ srv'.waits = srv.waits /\ srv'.mine = srv.mine
    BY <1>0, <1>6, <1>a, <2>3 DEF SrvTypeOK
  <2>5. DOMAIN ep' = Endpoints
    BY <1>4, <2>3
  <2>6. /\ FramesOK' /\ SlotsOK'
        /\ \A d \in Endpoints : EpTypeOK(ep'[d]) /\ ep'[d].work = ep[d].work
        /\ FailuresOnTheirWay' = FailuresOnTheirWay \ {g} /\ g \in FailuresOnTheirWay
    <3>1. PICK F : F = [s.ep EXCEPT ![o].slots[i0] = IF @ = PendingSlot(g) THEN Free ELSE @]
      OBVIOUS
    <3>2. \A d \in Endpoints : SameEndpoint(F[d], ep'[d])
      BY <1>t, <2>3, <3>1
    <3>3. /\ srv'.pending \subseteq srv.pending
          /\ \A h \in Generations : SameEnds(proc[h], proc'[h])
          /\ \A h \in Generations : proc[h].pc = "ended" => proc'[h].pc = "ended"
          /\ \A h \in Generations : proc[h].terminal => proc'[h].terminal
      BY <1>s, <2>3, <2>4
    <3>4. PICK x : x = PendingSlot(g)
      OBVIOUS
    <3>5. F = [s.ep EXCEPT ![o].slots[i0] = IF @ = x THEN Free ELSE @]
      BY <3>1, <3>4
    <3>. QED BY <1>7, <1>a, <2>5, <3>2, <3>3, <3>4, <3>5
  <2>7. GenerationsAreCharged'
    <3>1. g \notin srv.pending \cup srv.live \cup srv.finals
      BY <2>6, FailuresAreOver
    <3>2. Charged' = Charged \ {g} /\ g \in Charged
      BY <2>4, <2>6, <3>1 DEF Charged
    <3>. QED BY <2>4, <3>2, OneGivenBack
  <2>8. srv'.generations \in Nat
    BY <1>0, <2>4 DEF SrvTypeOK, Less
  <2>. QED BY <2>3, <2>4, <2>5, <2>6, <2>7, <2>8, GuardStep
<1>b. ASSUME NEW x, srv' = srv, proc' = proc, ep' = [s.ep EXCEPT ![e].slots[id] = IF @ = x THEN Free ELSE @],
             \/ f.kind = "unwatched" /\ x = BoundSlot(g)
             \/ f.kind = "reply" /\ x = ReplySlot(g)
      PROVE  ProcInv'
  <2>1. DOMAIN ep' = Endpoints
    BY <1>4, <1>b
  <2>2. /\ FramesOK' /\ SlotsOK'
        /\ \A d \in Endpoints : EpTypeOK(ep'[d]) /\ ep'[d].work = ep[d].work
        /\ FailuresOnTheirWay' = FailuresOnTheirWay
    <3>1. PICK F : F = [s.ep EXCEPT ![e].slots[id] = IF @ = x THEN Free ELSE @]
      OBVIOUS
    <3>2. \A d \in Endpoints : SameEndpoint(F[d], ep'[d])
      BY <1>b, <1>t, <3>1
    <3>3. \/ FreesId(f) /\ x = BoundSlot(g)
          \/ f.kind = "reply" /\ x = ReplySlot(g)
      BY <1>b DEF FreesId
    <3>4. f.kind # "failed"
      BY <1>b
    <3>. QED BY <1>7, <1>b, <1>s, <2>1, <3>1, <3>2, <3>3, <3>4
  <2>3. GenerationsAreCharged'
    <3>1. Charged' = Charged
      BY <1>b, <2>2 DEF Charged
    <3>. QED BY <1>b, <3>1, NoneGivenBack
  <2>4. srv.generations \in Nat
    BY <1>0 DEF SrvTypeOK
  <2>. QED BY <1>b, <2>1, <2>2, <2>3, <2>4, GuardStep
<1>c. CASE f.kind = "unwatched"
  <2>1. WriterGuard(s, e, f) = RemoveBoundSlot(s, e, id, g)
    BY <1>c, <1>g DEF WriterGuard
  <2>2. LET t == RemoveBoundSlot(s, e, id, g)
        IN  /\ t.srv = s.srv /\ t.proc = s.proc
            /\ t.ep = [s.ep EXCEPT ![e].slots[id] = IF @ = BoundSlot(g) THEN Free ELSE @]
    BY <1>2 DEF RemoveBoundSlot, IsState
  <2>3. /\ srv' = srv /\ proc' = proc
        /\ ep' = [s.ep EXCEPT ![e].slots[id] = IF @ = BoundSlot(g) THEN Free ELSE @]
    BY <1>2, <1>3, <2>1, <2>2 DEF Becomes
  <2>. QED BY <1>b, <1>c, <2>3
<1>d. CASE f.kind = "reply"
  <2>1. WriterGuard(s, e, f) = [s EXCEPT !.ep[e].slots[id] = IF @ = ReplySlot(g) THEN Free ELSE @]
    BY <1>d, <1>g DEF WriterGuard
  <2>2. LET t == [s EXCEPT !.ep[e].slots[id] = IF @ = ReplySlot(g) THEN Free ELSE @]
        IN  /\ t.srv = s.srv /\ t.proc = s.proc
            /\ t.ep = [s.ep EXCEPT ![e].slots[id] = IF @ = ReplySlot(g) THEN Free ELSE @]
    BY <1>2 DEF IsState
  <2>3. /\ srv' = srv /\ proc' = proc
        /\ ep' = [s.ep EXCEPT ![e].slots[id] = IF @ = ReplySlot(g) THEN Free ELSE @]
    BY <1>2, <1>3, <2>1, <2>2 DEF Becomes
  <2>. QED BY <1>b, <1>d, <2>3
<1>e. CASE f.kind = "exit"
  <2> DEFINE p == proc[g]
             q == [p EXCEPT !.remaining = @ - 1]
             r == RemoveBoundSlot(s, e, id, g)
             t == [r EXCEPT !.proc[g].remaining = @ - 1]
  <2>1. WriterGuard(s, e, f) = IF t.proc[g].remaining = 0 THEN FinishTerminal(t, g) ELSE t
    BY <1>e, <1>g DEF WriterGuard
  <2>2. /\ IsState(r) /\ r.srv = srv /\ r.proc = proc
        /\ r.ep = [s.ep EXCEPT ![e].slots[id] = IF @ = BoundSlot(g) THEN Free ELSE @]
    <3>1. /\ IsState(r) /\ r.srv = s.srv /\ r.proc = s.proc
          /\ r.ep = [s.ep EXCEPT ![e].slots[id] = IF @ = BoundSlot(g) THEN Free ELSE @]
      BY <1>2 DEF RemoveBoundSlot, IsState
    <3>. QED BY <1>2, <3>1
  <2> HIDE DEF r
  <2>3. /\ IsState(t) /\ t.srv = srv /\ t.proc = [proc EXCEPT ![g] = q] /\ t.ep = r.ep
    BY <2>2 DEF IsState
  <2> HIDE DEF t
  <2>4. ProcTypeOK(p) /\ RunOK(p) /\ p.terminal
    BY <1>6, <1>e, SpawnFacts
  <2>5. /\ SameRun(p, q) /\ DOMAIN q = DOMAIN p /\ q.bindings = p.bindings
        /\ q.exits = p.exits /\ q.lost = p.lost /\ q.detachable = p.detachable
        /\ q.ownerAlive = p.ownerAlive /\ q.io = p.io /\ q.cleaned = p.cleaned
        /\ q.publishing = p.publishing
    BY <2>4 DEF ProcTypeOK, NoProc, SameRun
  <2> HIDE DEF q
  <2>6. ProcTypeOK(q) /\ RunOK(q)
    <3>1. ProcTypeOK(q)
      BY <2>4, <2>5 DEF ProcTypeOK, SameRun
    <3>2. RunOK(q)
      BY <2>4, <2>5 DEF RunOK, SameRun
    <3>. QED BY <3>1, <3>2
  <2>7. PICK F : F = [s.ep EXCEPT ![e].slots[id] = IF @ = BoundSlot(g) THEN Free ELSE @]
    OBVIOUS
  <2>8. DOMAIN F = Endpoints /\ \A d \in Endpoints : EpTypeOK(F[d])
    <3>1. F = [E EXCEPT ![e].slots[id] = IF @ = BoundSlot(g) THEN Free ELSE @]
      BY <1>n, <2>7
    <3>. QED BY <1>m, <3>1, OneSlot, SMTT(30)
  <2>9. FreesId(f) /\ f.kind # "failed"
    BY <1>e DEF FreesId
  <2>10. CASE t.proc[g].remaining = 0
    <3>1. Becomes(FinishTerminal(t, g))
      BY <1>3, <2>1, <2>10
    <3>2. DOMAIN t.ep = Endpoints /\ \A d \in Endpoints : EpTypeOK(t.ep[d])
      BY <2>2, <2>3, <2>7, <2>8
    <3>3. /\ srv'.pending = srv.pending /\ DOMAIN ep' = Endpoints
          /\ \A d \in Endpoints : SameEndpoint(t.ep[d], ep'[d])
          /\ proc'[g].bindings = q.bindings /\ proc'[g].exits = q.exits
          /\ \A h \in Generations \ {g} : /\ proc'[h].bindings = proc[h].bindings
                                          /\ proc'[h].exits = proc[h].exits
          /\ \E due \in SUBSET Generations : \A h \in Generations : Kept(proc[h], proc'[h], h \in due)
          /\ (/\ \A d \in Endpoints : EpTypeOK(ep'[d]) /\ ep'[d].work \subseteq ep[d].work
              /\ FramesOK' /\ FailuresOnTheirWay' = FailuresOnTheirWay /\ SlotsOK') => ProcInv'
      BY <2>3, <2>4, <2>5, <2>6, <3>1, <3>2, RecordFinishes
    <3>4. PICK due \in SUBSET Generations : \A h \in Generations : Kept(proc[h], proc'[h], h \in due)
      BY <3>3
    <3>5. \A h \in Generations : SameEnds(proc[h], proc'[h])
      <4>1. \A h \in Generations : proc'[h].bindings \cup proc'[h].exits = proc[h].bindings \cup proc[h].exits
        BY <2>5, <3>3
      <4>. QED BY <3>4, <4>1 DEF SameEnds, Kept, Claims
    <3>6. \A h \in Generations : /\ proc[h].pc = "ended" => proc'[h].pc = "ended"
                                 /\ proc[h].terminal => proc'[h].terminal
      BY <3>4 DEF Kept
    <3>7. /\ FramesOK' /\ SlotsOK'
          /\ \A d \in Endpoints : EpTypeOK(ep'[d]) /\ ep'[d].work = ep[d].work
          /\ FailuresOnTheirWay' = FailuresOnTheirWay
      <4>1. \A d \in Endpoints : SameEndpoint(F[d], ep'[d])
        BY <2>2, <2>3, <2>7, <3>3
      <4>2. srv'.pending \subseteq srv.pending
        BY <3>3
      <4>. QED BY <1>7, <2>7, <2>9, <3>3, <3>5, <3>6, <4>1, <4>2
    <3>. QED BY <3>3, <3>7
  <2>11. CASE t.proc[g].remaining # 0
    <3>1. srv' = srv /\ proc' = [proc EXCEPT ![g] = q] /\ ep' = F
      BY <1>3, <2>1, <2>2, <2>3, <2>7, <2>11 DEF Becomes
    <3>2. /\ DOMAIN proc' = Generations /\ proc'[g] = q
          /\ \A h \in Generations \ {g} : proc'[h] = proc[h]
          /\ \A h \in Generations : SameRun(proc[h], proc'[h])
      BY <2>5, <3>1, RunsStay
    <3>3. \A h \in Generations : SameEnds(proc[h], proc'[h])
      <4>1. \A h \in Generations : proc'[h].bindings \cup proc'[h].exits = proc[h].bindings \cup proc[h].exits
        BY <2>5, <3>2
      <4>. QED BY <3>2, <4>1 DEF SameEnds, SameRun, Claims
    <3>4. \A h \in Generations : /\ proc[h].pc = "ended" => proc'[h].pc = "ended"
                                 /\ proc[h].terminal => proc'[h].terminal
      BY <3>2 DEF SameRun
    <3>5. /\ FramesOK' /\ SlotsOK'
          /\ \A d \in Endpoints : EpTypeOK(ep'[d]) /\ ep'[d].work = ep[d].work
          /\ FailuresOnTheirWay' = FailuresOnTheirWay
      <4>1. \A d \in Endpoints : SameEndpoint(F[d], ep'[d])
        BY <1>t, <3>1
      <4>2. srv'.pending \subseteq srv.pending /\ DOMAIN ep' = Endpoints
        BY <2>8, <3>1
      <4>. QED BY <1>7, <2>7, <2>9, <3>3, <3>4, <4>1, <4>2
    <3>6. DOMAIN ep' = Endpoints /\ \A d \in Endpoints : EpTypeOK(ep'[d]) /\ ep'[d].work \subseteq ep[d].work
      BY <2>8, <3>1, <3>5
    <3>. QED BY <2>5, <2>6, <3>1, <3>5, <3>6, EndsStep
  <2>. QED BY <2>10, <2>11
<1>. QED BY <1>k, <1>a, <1>c, <1>d, <1>e

-----------------------------------------------------------------------------
(* The registry starts within the invariant.                               *)
LEMMA ProcStarts == ProcInit => ProcInv
<1>. SUFFICES ASSUME ProcInit PROVE ProcInv
  OBVIOUS
<1>1. /\ srv = [accepting |-> TRUE, generations |-> 0, pending |-> {}, live |-> {}, finals |-> {},
                stage |-> "up", todo |-> {}, freeing |-> {}, waits |-> {}, mine |-> {}]
      /\ DOMAIN ep = Endpoints /\ DOMAIN proc = Generations
      /\ \A e \in Endpoints :
           ep[e] = [accepting |-> TRUE, slots |-> [i \in ProcessIds |-> Free], owned |-> {},
                    queue |-> <<>>, kicked |-> FALSE,
                    stage |-> "open", work |-> {}, waits |-> {}, mine |-> {}]
      /\ \A g \in Generations : proc[g] = NoProc
  BY DEF ProcInit
<1>2. \A e \in Endpoints :
        /\ EpTypeOK(ep[e]) /\ ep[e].accepting /\ ep[e].stage = "open" /\ ep[e].work = {}
        /\ DOMAIN ep[e].queue = {}
        /\ \A id \in ProcessIds : ep[e].slots[id] = Free
  <2>. SUFFICES ASSUME NEW e \in Endpoints
                PROVE  /\ EpTypeOK(ep[e]) /\ ep[e].accepting /\ ep[e].stage = "open" /\ ep[e].work = {}
                       /\ DOMAIN ep[e].queue = {}
                       /\ \A id \in ProcessIds : ep[e].slots[id] = Free
    OBVIOUS
  <2>1. /\ DOMAIN ep[e] = {"accepting", "slots", "owned", "queue", "kicked", "stage", "work", "waits", "mine"}
        /\ ep[e].accepting = TRUE /\ ep[e].kicked = FALSE /\ ep[e].stage = "open"
        /\ ep[e].queue = <<>> /\ ep[e].work = {} /\ ep[e].slots = [i \in ProcessIds |-> Free]
    BY <1>1
  <2>2. ep[e].slots \in [ProcessIds -> AnySlot]
    BY <2>1 DEF AnySlot
  <2>3. ep[e].queue \in Seq(AnyFrame) /\ DOMAIN ep[e].queue = {}
    BY <2>1
  <2>4. \A id \in ProcessIds : ep[e].slots[id] = Free
    BY <2>1
  <2>. QED BY <2>1, <2>2, <2>3, <2>4 DEF EpTypeOK
<1>3. \A g \in Generations :
        /\ ProcTypeOK(proc[g]) /\ RunOK(proc[g]) /\ proc[g].pc = "none" /\ ~proc[g].terminal
        /\ ~proc[g].completed
        /\ proc[g].bindings = {} /\ proc[g].exits = {} /\ proc[g].child = "none"
  <2>. SUFFICES ASSUME NEW g \in Generations
                PROVE  /\ ProcTypeOK(proc[g]) /\ RunOK(proc[g]) /\ proc[g].pc = "none" /\ ~proc[g].terminal
                       /\ ~proc[g].completed
                       /\ proc[g].bindings = {} /\ proc[g].exits = {} /\ proc[g].child = "none"
    OBVIOUS
  <2>1. PICK p : p = NoProc /\ p = proc[g]
    BY <1>1
  <2>2. /\ p.pc = "none" /\ p.phase = "queued" /\ p.lost = FALSE /\ p.completed = FALSE
        /\ p.ownerAlive = FALSE /\ p.detachable = FALSE /\ p.bindings = {}
        /\ p.child = "none" /\ p.reaped = FALSE /\ p.io = FALSE
        /\ p.cleaned = FALSE /\ p.terminal = FALSE /\ p.exits = {} /\ p.publishing = FALSE
        /\ p.released = FALSE
    BY <2>1 DEF NoProc
  <2>3. ProcTypeOK(p)
    BY <2>1, <2>2 DEF ProcTypeOK
  <2>4. RunOK(p)
    BY <2>2 DEF RunOK, HasRecord
  <2>. QED BY <2>1, <2>2, <2>3, <2>4
<1>4. SrvTypeOK
  BY <1>1 DEF SrvTypeOK, Stages
<1>5. ProcTypes
  BY <1>1, <1>2, <1>3, <1>4 DEF ProcTypes
<1>6. Places
  <2>1. /\ srv.pending = {} /\ srv.live = {} /\ srv.finals = {}
    BY <1>1
  <2>. QED BY <1>3, <2>1 DEF Places, PlaceOK, Claimed, HasRecord
<1>7. CancelsOK
  <2>1. srv.stage = "up"
    BY <1>1
  <2>. QED BY <1>2, <2>1 DEF CancelsOK
<1>8. ShutOK
  <2>1. srv.stage = "up" /\ srv.accepting = TRUE /\ srv.freeing = {}
    BY <1>1
  <2>. QED BY <2>1 DEF ShutOK
<1>9. FramesOK
  BY <1>2 DEF FramesOK
<1>10. SlotsOK
  <2>. SUFFICES ASSUME NEW e \in Endpoints PROVE IdsOf(e)
    BY DEF SlotsOK
  <2>1. \A id \in ProcessIds : SlotOK(e, id)
    BY <1>2, <1>3, SlotsDo DEF SlotOK, SlotsDiffer, Held, Claims
  <2>. QED BY <1>2, <2>1 DEF IdsOf
<1>11. GenerationsAreCharged
  <2>1. /\ srv.pending = {} /\ srv.live = {} /\ srv.finals = {} /\ srv.generations = 0
    BY <1>1
  <2>2. FailuresOnTheirWay = {}
    BY <1>2 DEF FailuresOnTheirWay
  <2>3. Charged = {}
    BY <2>1, <2>2 DEF Charged
  <2>. QED BY <2>1, <2>3, FS_EmptySet, ProcConstants DEF GenerationsAreCharged
<1>. QED BY <1>5, <1>6, <1>7, <1>8, <1>9, <1>10, <1>11 DEF ProcInv

(* Every step of the registry, of a connection's writer, of an endpoint's  *)
(* end and of the server's keeps the invariant.                            *)
LEMMA ProcSteps == ProcInv /\ [ProcNext]_procVars => ProcInv'
<1>. SUFFICES ASSUME ProcInv, [ProcNext]_procVars PROVE ProcInv'
  OBVIOUS
<1>1. ASSUME NEW e \in Endpoints, NEW id \in ProcessIds, EndpointRequest(e, id)
      PROVE  ProcInv'
  BY <1>1, SpawnKeeps, WatchLiveKeeps, WatchFinalKeeps, UnwatchRequestKeeps, SignalKeeps DEF EndpointRequest
<1>2. ASSUME NEW e \in Endpoints, NEW id \in ProcessIds, NEW g \in Generations, Evict(e, id, g)
      PROVE  ProcInv'
  BY <1>2, EvictKeeps
<1>3. ASSUME NEW e \in Endpoints, WriteFrame(e) \/ EndpointCloses(e) \/ EndpointShutdown(e)
      PROVE  ProcInv'
  BY <1>3, WriteFrameKeeps, EndpointClosesKeeps, EndpointDropsSlotKeeps, EndpointTerminatesKeeps,
     EndpointForcesKeeps, EndpointAbortsKeeps DEF EndpointShutdown
<1>4. ASSUME NEW g \in Generations, RunSpawn(g)
      PROVE  ProcInv'
  BY <1>4, AcquireKeeps, SpawnSucceedsKeeps, ReportFailureKeeps, TransferKeeps, QuietActions DEF RunSpawn
<1>5. ASSUME NEW g \in Generations, RecordStep(g) \/ ChildDies(g) \/ FinalExpires(g)
      PROVE  ProcInv'
  BY <1>5, QuietActions, PublishExitKeeps, FinalExpiresKeeps DEF RecordStep
<1>6. CASE ServerCloses
  BY <1>6, ServerClosesKeeps
<1>7. CASE ServerShutdown
  BY <1>7, ServerCancelsKeeps, ServerSnapshotsKeeps, ServerUnbindsKeeps, ServerTerminatesKeeps,
     ServerClearsKeeps DEF ServerShutdown
<1>8. CASE UNCHANGED procVars
  <2>1. /\ srv' = srv /\ ep' = ep /\ proc' = proc
    BY <1>8, ZenonT(60) DEF procVars
  <2>2. /\ ProcTypes' /\ Places' /\ CancelsOK' /\ ShutOK' /\ FramesOK' /\ GenerationsAreCharged'
    <3>1. ProcTypes' /\ Places'
      BY <2>1 DEF ProcInv, ProcTypes, SrvTypeOK, Places
    <3>2. CancelsOK' /\ ShutOK'
      BY <2>1 DEF ProcInv, CancelsOK, Cancelled, ShutOK
    <3>3. FramesOK'
      <4>1. \A e \in Endpoints : ep[e].queue \in Seq(AnyFrame) /\ ep'[e].queue = ep[e].queue
        BY <2>1 DEF ProcInv, ProcTypes, EpTypeOK
      <4>. QED BY <2>1, <4>1, FramesStay DEF ProcInv
    <3>4. GenerationsAreCharged'
      BY <2>1 DEF ProcInv, GenerationsAreCharged, Charged, FailuresOnTheirWay
    <3>. QED BY <3>1, <3>2, <3>3, <3>4
  <2>3. SlotsOK'
    <3>1. \A g \in Generations : SameEnds(proc[g], proc'[g])
      BY <2>1 DEF SameEnds
    <3>2. ASSUME NEW e \in Endpoints PROVE IdsOf(e)'
      <4>1. IdsOf(e)
        BY DEF ProcInv, SlotsOK
      <4>. QED BY <2>1, <3>1, <4>1, IdsStay
    <3>. QED BY <3>2 DEF SlotsOK
  <2>. QED BY <2>2, <2>3, ZenonT(60) DEF ProcInv
<1>. QED BY <1>1, <1>2, <1>3, <1>4, <1>5, <1>6, <1>7, <1>8 DEF ProcNext

(* The inductive invariant of the registry: types; where a generation may  *)
(* be charged in each state of its spawn and of its record; who holds a    *)
(* cancelled spawn; how far the server is; what the queued frames stand    *)
(* for; and what each process id is taken by.                              *)
THEOREM ProcessesAreInvariant == ProcSpec => []ProcInv
<1>1. ProcInit => ProcInv
  BY ProcStarts
<1>2. ProcInv /\ [ProcNext]_procVars => ProcInv'
  BY ProcSteps
<1>. QED BY <1>1, <1>2, PTL DEF ProcSpec

(* A process id is given back by the writer of its last frame and by       *)
(* nobody before it.                                                       *)
THEOREM IdsAreTheWriters == ProcSpec => []IdsFollowTheWriter
<1>1. ProcInv => IdsFollowTheWriter
  <2>. SUFFICES ASSUME ProcInv, NEW e \in Endpoints, NEW id \in ProcessIds
                PROVE  LET s == ep[e].slots[id]
                       IN  /\ s.kind = "bound" /\ ~ep[e].kicked =>
                                \/ Binding(e, id) \in proc[s.g].bindings \cup proc[s.g].exits
                                \/ \E i \in DOMAIN ep[e].queue :
                                     ep[e].queue[i].g = s.g /\ ep[e].queue[i].id = id
                           /\ \A g \in Generations :
                                Binding(e, id) \in proc[g].bindings \cup proc[g].exits /\ ep[e].stage = "open"
                                  => s \in {PendingSlot(g), BoundSlot(g)}
    BY DEF IdsFollowTheWriter
  <2>1. SlotOK(e, id)
    BY DEF ProcInv, SlotsOK, IdsOf
  <2>2. PICK s : s = ep[e].slots[id]
    OBVIOUS
  <2>3. s \in AnySlot
    BY <2>2 DEF ProcInv, ProcTypes, EpTypeOK
  <2>4. ASSUME s.kind = "bound" PROVE s.g \in Generations /\ s = BoundSlot(s.g)
    BY <2>3, <2>4 DEF AnySlot, Free, PendingSlot, BoundSlot, ReplySlot
  <2>5. s.kind = "bound" /\ ~ep[e].kicked =>
          \/ Held(e, id, s.g)
          \/ \E i \in DOMAIN ep[e].queue : FreedBy(e, id, s.g, i)
    BY <2>1, <2>2, <2>4 DEF SlotOK
  <2>6. \A g \in Generations : Held(e, id, g) /\ ep[e].stage = "open" => s \in {PendingSlot(g), BoundSlot(g)}
    BY <2>1, <2>2 DEF SlotOK
  <2>. QED BY <2>2, <2>5, <2>6 DEF Held, FreedBy
<1>. QED BY <1>1, ProcessesAreInvariant, PTL

(* When Server::shutdown returns, no child runs and no generation is       *)
(* pending or live.                                                        *)
THEOREM TheServerIsTheLast == ProcSpec => []NothingOutlivesTheServer
<1>1. ProcInv => NothingOutlivesTheServer
  <2>. SUFFICES ASSUME ProcInv, srv.stage = "down"
                PROVE  /\ \A g \in Generations : proc[g].child \in {"none", "killed", "dead"}
                       /\ srv.live = {} /\ srv.pending = {}
    BY DEF NothingOutlivesTheServer
  <2>1. srv.live = {} /\ srv.pending = {} /\ \A g \in Generations : Over(proc[g])
    BY DEF ProcInv, ShutOK
  <2>2. \A g \in Generations : proc[g].child \in {"none", "running", "termed", "killed", "dead"}
    BY DEF ProcInv, ProcTypes, ProcTypeOK
  <2>. QED BY <2>1, <2>2 DEF Over
<1>. QED BY <1>1, ProcessesAreInvariant, PTL

(* The server's generation budget counts exactly the generations that      *)
(* exist, and is never exceeded.                                           *)
THEOREM TheBudgetIsExact == ProcSpec => []GenerationsAreCharged
<1>1. ProcInv => GenerationsAreCharged
  BY DEF ProcInv
<1>. QED BY <1>1, ProcessesAreInvariant, PTL

-----------------------------------------------------------------------------
(* The streams of one process.                                             *)

Frame ==
  [kind : {"ack", "out", "exit"}, n : Nat]
    \cup [kind : {"watched"}, writable : BOOLEAN, received : Nat, n : Nat, next : Nat]
    \cup [kind : {"unwatched"}]

StdinType ==
  [controller : Watchers \cup {"nobody"}, tx : BOOLEAN, received : Nat, acked : Nat,
   state : {"accepting", "closing", "closed"}, queue : Nat,
   task : {"waiting", "writing", "aborted", "gone"}, done : BOOLEAN, from : Seq(Watchers)]
StdoutType ==
  [next : Nat, task : {"reading", "got", "gone", "aborted", "cut"}, readers : {0, 1}]
EndingType ==
  [reaped : BOOLEAN, cleaned : BOOLEAN, aborted : BOOLEAN, terminal : BOOLEAN,
   exits : SUBSET Watchers, final : Nat]
ViewType ==
  [on : BOOLEAN, writable : BOOLEAN, since : Nat, acked : Nat, got : Nat, ended : BOOLEAN]

StreamTypeOK ==
  /\ stdin \in StdinType /\ stdout \in StdoutType /\ ending \in EndingType
  /\ binding \in [Watchers -> Nat \cup {Unbound}]
  /\ frames \in [Watchers -> Seq(Frame)]
  /\ view \in [Watchers -> ViewType]
  /\ rewatches \in 0..MaxRewatches /\ load \in Loads

(* Stdin: what was acknowledged, and what is queued or being written, was  *)
(* received; nobody was or will be told of more.                           *)
InHand == stdin.queue + (IF stdin.task \in {"writing", "aborted"} THEN 1 ELSE 0)
StdinCounted ==
  /\ Len(stdin.from) = stdin.received
  /\ stdin.acked + InHand =< stdin.received
AcksTold ==
  \A w \in Watchers :
    /\ view[w].acked =< stdin.acked
    /\ \A i \in 1..Len(frames[w]) : frames[w][i].kind \in {"ack", "watched"} => frames[w][i].n =< stdin.acked
RoleIsBound == stdin.controller \in Bindings \cup {"nobody"}

(* Output: whoever is bound, or waits for its exit, has all that was read  *)
(* on its way; whoever was unbound has nothing to come after that.         *)
ReaderStopped ==
  /\ stdout.readers = 0 => stdout.task \in {"gone", "aborted", "cut"}
  /\ ending.terminal => stdout.readers = 0 /\ Bindings = {}
  /\ ~ending.terminal => ending.exits = {}
  /\ ending.terminal /\ stdout.task = "gone" => stdout.next = ending.final
WatchesAreUpToDate ==
  \A w \in Watchers : ~view[w].ended =>
    /\ Bound(w) => LeadsTo(frames[w], view[w].got, Len(frames[w]), stdout.next)
    /\ w \in ending.exits => LeadsTo(frames[w], view[w].got, Len(frames[w]), ending.final)
UnwatchedIsLast ==
  \A w \in Watchers : \A i \in 1..Len(frames[w]) :
    frames[w][i].kind = "unwatched" => i = Len(frames[w]) /\ ~Bound(w) /\ w \notin ending.exits
FramesAreWhole ==
  \A w \in Watchers : ~view[w].ended =>
    \A i \in 1..Len(frames[w]) : frames[w][i].kind \in {"out", "exit"} =>
      LeadsTo(frames[w], view[w].got, i - 1, frames[w][i].n)

StreamInv ==
  /\ StreamTypeOK
  /\ StdinCounted /\ AcksTold /\ RoleIsBound
  /\ ReaderStopped /\ WatchesAreUpToDate /\ UnwatchedIsLast /\ FramesAreWhole

-----------------------------------------------------------------------------
(* Queues of frames.                                                       *)

(* Appending a frame leaves what the earlier frames do as it was, and the  *)
(* new one ends where it reaches if it is output (To, SendAck).            *)
LEMMA AppendLeads ==
  ASSUME NEW q \in Seq(Frame), NEW f \in Frame, NEW got
  PROVE  /\ \A p : \A i \in 0..Len(q) : LeadsTo(q, got, i, p) => LeadsTo(Append(q, f), got, i, p)
         /\ \A p : ~IsOutput(f) /\ LeadsTo(q, got, Len(q), p) => LeadsTo(Append(q, f), got, Len(q) + 1, p)
         /\ IsOutput(f) => LeadsTo(Append(q, f), got, Len(q) + 1, Reaches(f))
<1> DEFINE r == Append(q, f)
<1>1. Len(q) \in Nat /\ Len(r) = Len(q) + 1 /\ r[Len(q) + 1] = f
  OBVIOUS
<1>2. \A k \in 1..Len(q) : r[k] = q[k]
  OBVIOUS
<1> HIDE DEF r
<1>3. ASSUME NEW i \in 0..Len(q), NEW p, LeadsTo(q, got, i, p)  PROVE LeadsTo(r, got, i, p)
  <2>1. \A k \in 1..i : r[k] = q[k]
    BY <1>1, <1>2
  <2> QED  BY <2>1, <1>3, <1>1, SMTT(20) DEF LeadsTo
<1>4. ASSUME NEW p, ~IsOutput(f), LeadsTo(q, got, Len(q), p)  PROVE LeadsTo(r, got, Len(q) + 1, p)
  <2>1. (\A k \in 1..(Len(q) + 1) : ~IsOutput(r[k])) => p = got
    <3>1. (\A k \in 1..Len(q) : ~IsOutput(q[k])) => p = got
      BY <1>4 DEF LeadsTo
    <3> QED  BY <3>1, <1>1, <1>2
  <2>2. ASSUME NEW k \in 1..(Len(q) + 1), IsOutput(r[k]), \A m \in (k + 1)..(Len(q) + 1) : ~IsOutput(r[m])
        PROVE  p = Reaches(r[k])
    <3>1. k # Len(q) + 1
      BY <2>2, <1>4, <1>1
    <3>2. k \in 1..Len(q) /\ r[k] = q[k]
      BY <3>1, <1>1, <1>2
    <3>3. \A m \in (k + 1)..Len(q) : ~IsOutput(q[m])
      BY <2>2, <1>1, <1>2, <3>2
    <3> QED  BY <3>2, <3>3, <2>2, <1>4 DEF LeadsTo
  <2> QED  BY <2>1, <2>2 DEF LeadsTo
<1>5. ASSUME IsOutput(f)  PROVE LeadsTo(r, got, Len(q) + 1, Reaches(f))
  <2>1. ~ \A k \in 1..(Len(q) + 1) : ~IsOutput(r[k])
    BY <1>1, <1>5
  <2>2. ASSUME NEW k \in 1..(Len(q) + 1), IsOutput(r[k]), \A m \in (k + 1)..(Len(q) + 1) : ~IsOutput(r[m])
        PROVE  Reaches(f) = Reaches(r[k])
    <3>1. k = Len(q) + 1
      BY <2>2, <1>1, <1>5
    <3> QED  BY <3>1, <1>1
  <2> QED  BY <2>1, <2>2 DEF LeadsTo
<1> QED  BY <1>3, <1>4, <1>5 DEF r

(* Reading the first frame takes the reader where that frame leads, and    *)
(* leaves the rest of the queue to lead on from there (ReadFrame).         *)
LEMMA TailLeads ==
  ASSUME NEW q \in Seq(Frame), q # <<>>, NEW got, NEW i \in 1..Len(q), NEW p, LeadsTo(q, got, i, p)
  PROVE  LeadsTo(Tail(q), IF IsOutput(Head(q)) THEN Reaches(Head(q)) ELSE got, i - 1, p)
<1> DEFINE r == Tail(q)
           at == IF IsOutput(q[1]) THEN Reaches(q[1]) ELSE got
<1>1. Len(q) \in Nat \ {0} /\ Len(r) = Len(q) - 1 /\ Head(q) = q[1]
  BY HeadTailProperties DEF r
<1>2. \A k \in 1..(Len(q) - 1) : r[k] = q[k + 1]
  BY HeadTailProperties DEF r
<1> HIDE DEF r
<1>3. (\A k \in 1..(i - 1) : ~IsOutput(r[k])) => p = at
  <2> SUFFICES ASSUME \A k \in 1..(i - 1) : ~IsOutput(r[k])  PROVE p = at
    OBVIOUS
  <2>1. \A m \in 2..i : ~IsOutput(q[m])
    <3> TAKE m \in 2..i
    <3>1. m - 1 \in 1..(i - 1) /\ m - 1 \in 1..(Len(q) - 1) /\ q[m] = q[(m - 1) + 1]
      BY <1>1
    <3> QED  BY <3>1, <1>2
  <2>2. CASE IsOutput(q[1])
    <3>1. 1 \in 1..i /\ 1 + 1 = 2
      BY <1>1
    <3> QED  BY <3>1, <2>1, <2>2 DEF LeadsTo
  <2>3. CASE ~IsOutput(q[1])
    <3>1. \A k \in 1..i : k = 1 \/ k \in 2..i
      BY <1>1
    <3>2. \A k \in 1..i : ~IsOutput(q[k])
      BY <3>1, <2>1, <2>3
    <3> QED  BY <3>2, <2>3 DEF LeadsTo
  <2> QED  BY <2>2, <2>3
<1>4. ASSUME NEW k \in 1..(i - 1), IsOutput(r[k]), \A m \in (k + 1)..(i - 1) : ~IsOutput(r[m])
      PROVE  p = Reaches(r[k])
  <2>1. k + 1 \in 1..i /\ r[k] = q[k + 1]
    BY <1>1, <1>2
  <2>2. \A m \in ((k + 1) + 1)..i : ~IsOutput(q[m])
    <3> TAKE m \in ((k + 1) + 1)..i
    <3>1. m - 1 \in (k + 1)..(i - 1) /\ m - 1 \in 1..(Len(q) - 1) /\ q[m] = q[(m - 1) + 1]
      BY <1>1
    <3> QED  BY <3>1, <1>2, <1>4
  <2> QED  BY <2>1, <2>2, <1>4 DEF LeadsTo
<1> QED  BY <1>3, <1>4, <1>1 DEF LeadsTo, r

(* A frame sent to some watchers leaves the others' queues alone (To).     *)
LEMMA ToAppends ==
  ASSUME frames \in [Watchers -> Seq(Frame)], NEW f \in Frame, NEW ws
  PROVE  /\ To(ws, f, frames) \in [Watchers -> Seq(Frame)]
         /\ \A w \in Watchers : To(ws, f, frames)[w] = IF w \in ws THEN Append(frames[w], f) ELSE frames[w]
BY DEF To

-----------------------------------------------------------------------------
(* What a step may do.                                                     *)

(* A quiet step sends at most an acknowledgement, to watchers, reads no    *)
(* output, and ends watches without telling them, or to send their exits.  *)
Quiet ==
  /\ stdout'.next = stdout.next /\ stdin.acked =< stdin'.acked
  /\ \/ frames' = frames
     \/ \E f \in Frame, ws \in SUBSET Bindings :
          f.kind = "ack" /\ f.n =< stdin'.acked /\ frames' = To(ws, f, frames)
  /\ \A w \in Watchers :
       \/ view'[w].ended /\ view'[w].acked = 0
       \/ view'[w].ended = view[w].ended /\ view'[w].got = view[w].got /\ view'[w].acked = view[w].acked
  /\ \A w \in Watchers : binding'[w] # Unbound => Bound(w)
  /\ \A w \in Watchers : w \in ending'.exits =>
       \/ w \in ending.exits /\ ending'.final = ending.final
       \/ Bound(w) /\ ending'.final = stdout.next

(* The end is queued, or nothing happens (StreamTerminal).                 *)
LEMMA TerminalStep ==
  ASSUME StreamTypeOK, NEW in \in StdinType, NEW out \in StdoutType, NEW end \in EndingType,
         StreamTerminal(in, out, end, binding)
  PROVE  /\ stdin' \in StdinType /\ ending' \in EndingType /\ binding' \in [Watchers -> Nat \cup {Unbound}]
         /\ \/ stdin' = in /\ ending' = end /\ binding' = binding
            \/ /\ out.readers = 0 /\ ~end.terminal
               /\ stdin' = [in EXCEPT !.controller = "nobody"]
               /\ ending'.terminal /\ ending'.exits = Bindings /\ ending'.final = out.next
               /\ \A w \in Watchers : binding'[w] = Unbound
<1>1. CASE end.reaped /\ end.cleaned /\ in.done /\ out.readers = 0 /\ ~end.terminal
  <2>1. /\ ending' = [end EXCEPT !.terminal = TRUE, !.exits = Bindings, !.final = out.next]
        /\ stdin' = [in EXCEPT !.controller = "nobody"]
        /\ binding' = [w \in Watchers |-> Unbound]
    BY <1>1 DEF StreamTerminal, Bindings
  <2>2. Bindings \in SUBSET Watchers /\ out.next \in Nat
    BY DEF Bindings, StdoutType
  <2>3. ending' \in EndingType /\ ending'.terminal /\ ending'.exits = Bindings /\ ending'.final = out.next
    BY <2>1, <2>2 DEF EndingType
  <2>4. stdin' \in StdinType
    BY <2>1 DEF StdinType
  <2> QED  BY <2>1, <2>3, <2>4, <1>1
<1>2. CASE ~(end.reaped /\ end.cleaned /\ in.done /\ out.readers = 0 /\ ~end.terminal)
  BY <1>2 DEF StreamTerminal, StreamTypeOK
<1> QED  BY <1>1, <1>2

(* A quiet step leaves every watch whole and nobody told too much.         *)
LEMMA QuietKeeps ==
  ASSUME StreamInv, Quiet, StreamTypeOK'
  PROVE  AcksTold' /\ WatchesAreUpToDate' /\ UnwatchedIsLast' /\ FramesAreWhole'
<1> USE DEF StreamInv
<1>t. StreamTypeOK /\ stdin.acked \in Nat /\ stdin'.acked \in Nat /\ stdout.next \in Nat
  BY DEF StreamTypeOK, StdinType, StdoutType
<1>1. SUFFICES ASSUME NEW w \in Watchers
      PROVE  /\ view'[w].acked =< stdin'.acked
             /\ \A i \in 1..Len(frames'[w]) :
                  frames'[w][i].kind \in {"ack", "watched"} => frames'[w][i].n =< stdin'.acked
             /\ \A i \in 1..Len(frames'[w]) :
                  frames'[w][i].kind = "unwatched" => i = Len(frames'[w]) /\ binding'[w] = Unbound /\ w \notin ending'.exits
             /\ ~view'[w].ended =>
                  /\ binding'[w] # Unbound => LeadsTo(frames'[w], view'[w].got, Len(frames'[w]), stdout'.next)
                  /\ w \in ending'.exits => LeadsTo(frames'[w], view'[w].got, Len(frames'[w]), ending'.final)
                  /\ \A i \in 1..Len(frames'[w]) : frames'[w][i].kind \in {"out", "exit"} =>
                       LeadsTo(frames'[w], view'[w].got, i - 1, frames'[w][i].n)
  BY DEF AcksTold, WatchesAreUpToDate, UnwatchedIsLast, FramesAreWhole, Bound
<1> DEFINE q == frames[w]
           got == view[w].got
<1>2. q \in Seq(Frame) /\ Len(q) \in Nat /\ \A i \in 1..Len(q) : q[i] \in Frame
  BY <1>t DEF StreamTypeOK
<1>3. view'[w].acked =< stdin'.acked
  <2>1. view[w].acked =< stdin.acked /\ view[w].acked \in Nat
    BY <1>t DEF AcksTold, StreamTypeOK, ViewType
  <2> QED  BY <2>1, <1>t DEF Quiet
<1>4. ~view'[w].ended => ~view[w].ended /\ view'[w].got = got
  BY DEF Quiet
<1>5. /\ binding'[w] # Unbound => Bound(w)
      /\ w \in ending'.exits => \/ w \in ending.exits /\ ending'.final = ending.final
                                \/ Bound(w) /\ ending'.final = stdout.next
      /\ stdout'.next = stdout.next /\ stdin.acked =< stdin'.acked
  BY DEF Quiet
<1>6. /\ \A i \in 1..Len(q) : q[i].kind = "unwatched" => i = Len(q) /\ ~Bound(w) /\ w \notin ending.exits
      /\ \A i \in 1..Len(q) : q[i].kind \in {"ack", "watched"} => q[i].n =< stdin.acked /\ q[i].n \in Nat
  BY <1>2 DEF UnwatchedIsLast, AcksTold, Frame
<1>7. ~view[w].ended => /\ Bound(w) => LeadsTo(q, got, Len(q), stdout.next)
                        /\ w \in ending.exits => LeadsTo(q, got, Len(q), ending.final)
                        /\ \A i \in 1..Len(q) : q[i].kind \in {"out", "exit"} => LeadsTo(q, got, i - 1, q[i].n)
  BY DEF WatchesAreUpToDate, FramesAreWhole
<1>8. ~view'[w].ended => /\ binding'[w] # Unbound => LeadsTo(q, got, Len(q), stdout'.next)
                         /\ w \in ending'.exits => LeadsTo(q, got, Len(q), ending'.final)
  BY <1>4, <1>5, <1>7
<1>9. CASE frames'[w] = q
  <2>1. \A i \in 1..Len(q) : q[i].kind \in {"ack", "watched"} => q[i].n =< stdin'.acked
    BY <1>6, <1>5, <1>t
  <2>2. \A i \in 1..Len(q) : q[i].kind = "unwatched" => i = Len(q) /\ binding'[w] = Unbound /\ w \notin ending'.exits
    BY <1>6, <1>5 DEF Bound
  <2> QED  BY <2>1, <2>2, <1>3, <1>4, <1>7, <1>8, <1>9
<1>10. CASE \E f \in Frame : f.kind = "ack" /\ f.n =< stdin'.acked /\ Bound(w) /\ frames'[w] = Append(q, f)
  <2> PICK f \in Frame : f.kind = "ack" /\ f.n =< stdin'.acked /\ Bound(w) /\ frames'[w] = Append(q, f)
    BY <1>10
  <2> DEFINE r == Append(q, f)
  <2>1. Len(r) = Len(q) + 1 /\ r[Len(q) + 1] = f /\ \A i \in 1..Len(q) : r[i] = q[i]
    BY <1>2
  <2>2. ~IsOutput(f)
    BY DEF IsOutput
  <2>3. /\ \A p : \A i \in 0..Len(q) : LeadsTo(q, got, i, p) => LeadsTo(r, got, i, p)
        /\ \A p : LeadsTo(q, got, Len(q), p) => LeadsTo(r, got, Len(q) + 1, p)
    BY AppendLeads, <1>2, <2>2
  <2>4. frames'[w] = r
    OBVIOUS
  <2> HIDE DEF r
  <2>5. \A i \in 1..Len(r) : i = Len(q) + 1 \/ (i \in 1..Len(q) /\ i - 1 \in 0..Len(q))
    BY <2>1, <1>2
  <2>6. \A i \in 1..Len(r) : r[i].kind \in {"ack", "watched"} => r[i].n =< stdin'.acked
    BY <2>1, <2>5, <1>6, <1>5, <1>t, SMTT(30)
  <2>7. \A i \in 1..Len(r) : r[i].kind # "unwatched"
    BY <2>1, <2>5, <1>6
  <2>8. ~view[w].ended => \A i \in 1..Len(r) : r[i].kind \in {"out", "exit"} => LeadsTo(r, got, i - 1, r[i].n)
    BY <2>1, <2>3, <2>5, <1>7
  <2>9. ~view'[w].ended => /\ binding'[w] # Unbound => LeadsTo(r, got, Len(r), stdout'.next)
                           /\ w \in ending'.exits => LeadsTo(r, got, Len(r), ending'.final)
    BY <2>1, <2>3, <1>8
  <2> QED  BY <2>4, <2>6, <2>7, <2>8, <2>9, <1>3, <1>4
<1>11. frames'[w] = q \/ \E f \in Frame : f.kind = "ack" /\ f.n =< stdin'.acked /\ Bound(w) /\ frames'[w] = Append(q, f)
  <2>1. CASE frames' = frames
    BY <2>1
  <2>2. CASE \E f \in Frame, ws \in SUBSET Bindings : f.kind = "ack" /\ f.n =< stdin'.acked /\ frames' = To(ws, f, frames)
    <3> PICK f \in Frame, ws \in SUBSET Bindings : f.kind = "ack" /\ f.n =< stdin'.acked /\ frames' = To(ws, f, frames)
      BY <2>2
    <3>1. frames'[w] = IF w \in ws THEN Append(frames[w], f) ELSE frames[w]
      BY DEF To
    <3>2. w \in ws => Bound(w)
      BY DEF Bindings, Bound
    <3> QED  BY <3>1, <3>2
  <2> QED  BY <2>1, <2>2 DEF Quiet
<1> QED  BY <1>9, <1>10, <1>11

-----------------------------------------------------------------------------
(* The requests and the tasks whose steps are quiet.                       *)

(* An acknowledgement to every watcher is a quiet frame (SendAck).         *)
LEMMA AckIsSent ==
  ASSUME StreamTypeOK, NEW in \in StdinType, SendAck(in), in.acked =< stdin'.acked
  PROVE  /\ frames' \in [Watchers -> Seq(Frame)]
         /\ \E f \in Frame, ws \in SUBSET Bindings :
              f.kind = "ack" /\ f.n =< stdin'.acked /\ frames' = To(ws, f, frames)
<1> DEFINE f == AckFrame(in)
<1>1. f \in Frame /\ f.kind = "ack" /\ f.n = in.acked
  BY DEF AckFrame, Frame, StdinType
<1>2. frames' = To(Bindings, f, frames)
  BY DEF SendAck
<1> HIDE DEF f
<1>3. frames' \in [Watchers -> Seq(Frame)]
  BY <1>1, <1>2, ToAppends DEF StreamTypeOK
<1> QED  BY <1>1, <1>2, <1>3

(* A packet that is taken is one more, of its writer (stdin).              *)
LEMMA StdinTaken ==
  ASSUME stdin \in StdinType, NEW w \in Watchers,
         stdin' = [stdin EXCEPT !.received = stdin.received + 1, !.queue = @ + 1, !.from = Append(@, w)]
  PROVE  /\ stdin' \in StdinType /\ stdin'.received = stdin.received + 1 /\ stdin'.queue = stdin.queue + 1
         /\ stdin'.from = Append(stdin.from, w) /\ stdin'.acked = stdin.acked
         /\ stdin'.task = stdin.task /\ stdin'.controller = stdin.controller
<1> DEFINE from == Append(stdin.from, w)
           received == stdin.received + 1
           queue == stdin.queue + 1
<1>1. from \in Seq(Watchers) /\ received \in Nat /\ queue \in Nat
  BY DEF StdinType
<1>2. stdin' = [stdin EXCEPT !.received = received, !.queue = queue, !.from = from]
  OBVIOUS
<1> HIDE DEF from, received, queue
<1>3. /\ stdin' \in StdinType /\ stdin'.received = received /\ stdin'.queue = queue /\ stdin'.from = from
      /\ stdin'.acked = stdin.acked /\ stdin'.task = stdin.task /\ stdin'.controller = stdin.controller
  BY <1>1, <1>2 DEF StdinType
<1> QED  BY <1>3 DEF from, received, queue

(* Stdin is answered with an acknowledgement, or taken: what is queued     *)
(* then follows what was received (stdin).                                 *)
LEMMA StdinKeeps ==
  ASSUME StreamInv, NEW w \in Watchers, NEW offset \in Nat, Stdin(w, offset)
  PROVE  StreamInv'
<1> USE DEF StreamInv
<1>0. StreamTypeOK /\ stdin \in StdinType /\ UNCHANGED <<stdout, ending, binding, view, rewatches, load>>
  BY DEF StreamTypeOK, Stdin
<1>1. CASE StdinTakes(w, offset) /\ UNCHANGED frames
           /\ stdin' = [stdin EXCEPT !.received = offset + 1, !.queue = @ + 1, !.from = Append(@, w)]
  <2>1. offset = stdin.received
    BY <1>1 DEF StdinTakes
  <2>2. /\ stdin'.received = stdin.received + 1 /\ stdin'.queue = stdin.queue + 1
        /\ stdin'.from = Append(stdin.from, w)
        /\ stdin'.acked = stdin.acked /\ stdin'.task = stdin.task /\ stdin'.controller = stdin.controller
        /\ stdin' \in StdinType
    BY <1>0, <1>1, <2>1, StdinTaken
  <2>3. StreamTypeOK'
    BY <1>0, <1>1, <2>2 DEF StreamTypeOK
  <2>4. StdinCounted'
    <3>1. stdin.from \in Seq(Watchers) /\ Len(stdin.from) = stdin.received /\ stdin.received \in Nat
      BY <1>0 DEF StdinType, StdinCounted
    <3>2. Len(stdin'.from) = stdin'.received
      BY <2>2, <3>1
    <3>3. stdin'.acked + InHand' =< stdin'.received
      BY <1>0, <2>2 DEF StdinCounted, InHand, StdinType
    <3> QED  BY <3>2, <3>3 DEF StdinCounted
  <2>5. RoleIsBound' /\ ReaderStopped'
    BY <1>0, <2>2 DEF RoleIsBound, ReaderStopped, Bindings
  <2>6. Quiet
    BY <1>0, <1>1, <2>2, SMTT(30) DEF Quiet, Bound, StdinType, StreamTypeOK, ReaderStopped
  <2> QED  BY <2>3, <2>4, <2>5, <2>6, QuietKeeps
<1>2. CASE SendAckTo(w) /\ UNCHANGED stdin /\ Bound(w)
  <2> DEFINE f == AckFrame(stdin)
  <2>1. f \in Frame /\ f.kind = "ack" /\ f.n = stdin.acked /\ frames' = To({w}, f, frames)
    BY <1>0, <1>2 DEF AckFrame, SendAckTo, Frame, StdinType
  <2> HIDE DEF f
  <2>2. StreamTypeOK'
    BY <1>0, <1>2, <2>1, ToAppends DEF StreamTypeOK
  <2>3. StdinCounted' /\ RoleIsBound' /\ ReaderStopped'
    BY <1>0, <1>2 DEF StdinCounted, InHand, RoleIsBound, ReaderStopped, Bindings
  <2>4. {w} \in SUBSET Bindings
    BY <1>2 DEF Bindings, Bound
  <2>5. Quiet
    BY <1>0, <1>2, <2>1, <2>4 DEF Quiet, Bound, StdinType, ReaderStopped
  <2> QED  BY <2>2, <2>3, <2>5, QuietKeeps
<1> QED  BY <1>1, <1>2 DEF Stdin

(* Closing stdin queues nothing (close_stdin).                             *)
LEMMA CloseStdinKeeps ==
  ASSUME StreamInv, NEW w \in Watchers, CloseStdin(w)
  PROVE  StreamInv'
<1> USE DEF StreamInv
<1>0. StreamTypeOK /\ stdin \in StdinType /\ UNCHANGED <<stdout, ending, binding, view, rewatches, load>>
  BY DEF StreamTypeOK, CloseStdin
<1>1. stdin' \in StdinType /\ stdin' = [stdin EXCEPT !.state = "closing", !.tx = FALSE] /\ SendAck(stdin')
  BY <1>0 DEF CloseStdin, StdinType
<1>2. /\ stdin'.received = stdin.received /\ stdin'.queue = stdin.queue /\ stdin'.from = stdin.from
      /\ stdin'.acked = stdin.acked /\ stdin'.task = stdin.task /\ stdin'.controller = stdin.controller
      /\ stdin'.acked =< stdin'.acked
  BY <1>0, <1>1 DEF StdinType
<1>3. /\ frames' \in [Watchers -> Seq(Frame)]
      /\ \E f \in Frame, ws \in SUBSET Bindings : f.kind = "ack" /\ f.n =< stdin'.acked /\ frames' = To(ws, f, frames)
  BY <1>0, <1>1, <1>2, AckIsSent
<1>4. StreamTypeOK'
  BY <1>0, <1>1, <1>3 DEF StreamTypeOK
<1>5. StdinCounted' /\ RoleIsBound' /\ ReaderStopped'
  BY <1>0, <1>2 DEF StdinCounted, InHand, RoleIsBound, ReaderStopped, Bindings
<1>6. Quiet
  BY <1>0, <1>2, <1>3 DEF Quiet, Bound, StdinType, ReaderStopped
<1> QED  BY <1>4, <1>5, <1>6, QuietKeeps

(* A stale acknowledgement ends the watch, and with it the role            *)
(* (output_ack).                                                           *)
LEMMA OutputAckKeeps ==
  ASSUME StreamInv, NEW w \in Watchers, NEW n \in Nat, OutputAck(w, n)
  PROVE  StreamInv'
<1> USE DEF StreamInv
<1>0. /\ StreamTypeOK /\ stdin \in StdinType /\ UNCHANGED <<stdout, ending, frames, rewatches, load>>
      /\ binding \in [Watchers -> Nat \cup {Unbound}] /\ Bound(w) /\ view \in [Watchers -> ViewType]
  BY DEF StreamTypeOK, OutputAck
<1>1. CASE n < binding[w] \/ n > stdout.next
  <2>1. /\ binding' = [v \in Watchers |-> IF v \in {w} THEN Unbound ELSE binding[v]]
        /\ stdin' = Released({w}, stdin)
        /\ view' = [view EXCEPT ![w] = [NoWatch EXCEPT !.ended = TRUE]]
    BY <1>1 DEF OutputAck, Unbind
  <2>2. binding' \in [Watchers -> Nat \cup {Unbound}] /\ \A v \in Watchers : binding'[v] = IF v = w THEN Unbound ELSE binding[v]
    BY <1>0, <2>1
  <2>3. /\ stdin' \in StdinType
        /\ stdin'.controller = IF stdin.controller = w THEN "nobody" ELSE stdin.controller
        /\ stdin'.received = stdin.received /\ stdin'.queue = stdin.queue /\ stdin'.from = stdin.from
        /\ stdin'.acked = stdin.acked /\ stdin'.task = stdin.task
    BY <1>0, <2>1 DEF StdinType, Released
  <2>4. view' \in [Watchers -> ViewType] /\ view'[w].ended /\ view'[w].acked = 0
        /\ \A v \in Watchers \ {w} : view'[v] = view[v]
    BY <1>0, <2>1 DEF ViewType, NoWatch
  <2>5. StreamTypeOK'
    BY <1>0, <2>2, <2>3, <2>4 DEF StreamTypeOK
  <2>6. StdinCounted' /\ RoleIsBound' /\ ReaderStopped'
    BY <1>0, <2>2, <2>3 DEF StdinCounted, InHand, RoleIsBound, ReaderStopped, Bindings
  <2>7. Quiet
    <3>1. stdin.acked =< stdin'.acked /\ stdout'.next = stdout.next /\ frames' = frames
      BY <1>0, <2>3 DEF StdinType
    <3>2. \A v \in Watchers : \/ view'[v].ended /\ view'[v].acked = 0
                              \/ view'[v].ended = view[v].ended /\ view'[v].got = view[v].got /\ view'[v].acked = view[v].acked
      BY <2>4
    <3>3. \A v \in Watchers : binding'[v] # Unbound => Bound(v)
      BY <2>2 DEF Bound
    <3> QED  BY <1>0, <3>1, <3>2, <3>3 DEF Quiet
  <2> QED  BY <2>5, <2>6, <2>7, QuietKeeps
<1>2. CASE ~(n < binding[w] \/ n > stdout.next)
  <2>1. binding' = [binding EXCEPT ![w] = n] /\ UNCHANGED <<stdin, view>>
    BY <1>2 DEF OutputAck
  <2>2. n # Unbound
    BY DEF Unbound
  <2>3. StreamTypeOK'
    BY <1>0, <2>1 DEF StreamTypeOK
  <2>4. Bindings' = Bindings
    BY <1>0, <2>1, <2>2 DEF Bindings, Bound
  <2>5. StdinCounted' /\ RoleIsBound' /\ ReaderStopped'
    BY <1>0, <2>1, <2>4 DEF StdinCounted, InHand, RoleIsBound, ReaderStopped
  <2>6. Quiet
    BY <1>0, <2>1, <2>2 DEF Quiet, Bound, StdinType, ReaderStopped
  <2> QED  BY <2>3, <2>5, <2>6, QuietKeeps
<1> QED  BY <1>1, <1>2

(* A step that may be the one that queues the end is quiet, whatever else  *)
(* it did to the tasks (StreamTerminal).                                   *)
LEMMA TerminalKeeps ==
  ASSUME StreamInv, NEW in \in StdinType, NEW end \in EndingType, stdout' \in StdoutType,
         in.controller = stdin.controller, in.acked = stdin.acked, in.received = stdin.received, in.from = stdin.from,
         in.acked + in.queue + (IF in.task \in {"writing", "aborted"} THEN 1 ELSE 0) =< in.received,
         stdout'.next = stdout.next, stdout'.readers = 0 => stdout'.task \in {"gone", "aborted", "cut"},
         ending.terminal => stdout'.readers = 0 /\ (stdout'.task = "gone" => stdout.task = "gone"),
         end.terminal = ending.terminal, end.exits = ending.exits, end.final = ending.final,
         frames' = frames \/ SendAck(in), UNCHANGED <<view, rewatches, load>>,
         StreamTerminal(in, stdout', end, binding)
  PROVE  StreamInv'
<1> USE DEF StreamInv
<1>0. StreamTypeOK /\ stdin \in StdinType
  BY DEF StreamTypeOK
<1>1. /\ stdin' \in StdinType /\ ending' \in EndingType /\ binding' \in [Watchers -> Nat \cup {Unbound}]
      /\ \/ stdin' = in /\ ending' = end /\ binding' = binding
         \/ /\ stdout'.readers = 0 /\ ~end.terminal
            /\ stdin' = [in EXCEPT !.controller = "nobody"]
            /\ ending'.terminal /\ ending'.exits = Bindings /\ ending'.final = stdout'.next
            /\ \A w \in Watchers : binding'[w] = Unbound
  BY <1>0, TerminalStep
<1>2. /\ stdin'.received = stdin.received /\ stdin'.from = stdin.from /\ stdin'.acked = stdin.acked
      /\ stdin'.queue = in.queue /\ stdin'.task = in.task
  BY <1>1 DEF StdinType
<1>3. stdin.acked =< stdin'.acked /\ in.acked =< stdin'.acked
  BY <1>0, <1>2 DEF StdinType
<1>4. /\ frames' \in [Watchers -> Seq(Frame)]
      /\ \/ frames' = frames
         \/ \E f \in Frame, ws \in SUBSET Bindings : f.kind = "ack" /\ f.n =< stdin'.acked /\ frames' = To(ws, f, frames)
  BY <1>0, <1>3, AckIsSent DEF StreamTypeOK
<1>5. StreamTypeOK'
  BY <1>0, <1>1, <1>4 DEF StreamTypeOK
<1>6. StdinCounted'
  <2>1. stdin'.acked + InHand' =< stdin'.received
    BY <1>0, <1>1, <1>2 DEF InHand, StdinType
  <2> QED  BY <2>1, <1>2 DEF StdinCounted
<1>7. RoleIsBound' /\ ReaderStopped' /\ Quiet
  <2>1. CASE stdin' = in /\ ending' = end /\ binding' = binding
    <3>1. Bindings' = Bindings
      BY <2>1 DEF Bindings
    <3>2. RoleIsBound'
      BY <2>1, <3>1 DEF RoleIsBound
    <3>3. ReaderStopped'
      BY <2>1, <3>1 DEF ReaderStopped
    <3>4. Quiet
      BY <2>1, <1>3, <1>4 DEF Quiet, Bound
    <3> QED  BY <3>2, <3>3, <3>4
  <2>2. CASE /\ stdout'.readers = 0 /\ ~end.terminal
             /\ stdin' = [in EXCEPT !.controller = "nobody"]
             /\ ending'.terminal /\ ending'.exits = Bindings /\ ending'.final = stdout'.next
             /\ \A w \in Watchers : binding'[w] = Unbound
    <3>1. Bindings' = {}
      BY <2>2 DEF Bindings
    <3>2. RoleIsBound'
      BY <2>2 DEF RoleIsBound, StdinType
    <3>3. ReaderStopped'
      BY <2>2, <3>1 DEF ReaderStopped
    <3>4. \A w \in Watchers : w \in Bindings => Bound(w)
      BY DEF Bindings, Bound
    <3>5. Quiet
      BY <2>2, <1>3, <1>4, <3>4 DEF Quiet
    <3> QED  BY <3>2, <3>3, <3>5
  <2> QED  BY <1>1, <2>1, <2>2
<1> QED  BY <1>5, <1>6, <1>7, QuietKeeps

(* The writer task takes what is queued (stdin_writer).                    *)
LEMMA WriterTakesKeeps ==
  ASSUME StreamInv, WriterTakes
  PROVE  StreamInv'
<1> USE DEF StreamInv
<1>0. StreamTypeOK /\ stdin \in StdinType /\ UNCHANGED <<stdout, ending, binding, frames, view, rewatches, load>>
  BY DEF StreamTypeOK, WriterTakes
<1>1. stdin.queue - 1 \in Nat /\ stdin.task = "waiting"
  BY <1>0 DEF WriterTakes, StdinType
<1>2. /\ stdin' \in StdinType /\ stdin'.received = stdin.received /\ stdin'.queue = stdin.queue - 1
      /\ stdin'.from = stdin.from /\ stdin'.acked = stdin.acked /\ stdin'.task = "writing"
      /\ stdin'.controller = stdin.controller
  BY <1>0, <1>1 DEF WriterTakes, StdinType
<1>3. StreamTypeOK'
  BY <1>0, <1>2 DEF StreamTypeOK
<1>4. StdinCounted'
  <2>1. stdin'.acked + InHand' =< stdin'.received
    BY <1>0, <1>1, <1>2 DEF InHand, StdinCounted, StdinType
  <2> QED  BY <2>1, <1>2 DEF StdinCounted
<1>5. RoleIsBound' /\ ReaderStopped'
  BY <1>0, <1>2 DEF RoleIsBound, ReaderStopped, Bindings
<1>6. Quiet
  BY <1>0, <1>2 DEF Quiet, Bound, StdinType, ReaderStopped
<1> QED  BY <1>3, <1>4, <1>5, <1>6, QuietKeeps

(* It acknowledges what the pipe took, which was in its hand.              *)
LEMMA WriterWritesKeeps ==
  ASSUME StreamInv, WriterWrites
  PROVE  StreamInv'
<1> USE DEF StreamInv
<1>0. StreamTypeOK /\ stdin \in StdinType /\ UNCHANGED <<stdout, ending, binding, view, rewatches, load>>
  BY DEF StreamTypeOK, WriterWrites
<1>1. stdin.acked + 1 \in Nat /\ stdin.task \in {"writing", "aborted"}
  BY <1>0 DEF WriterWrites, StdinType
<1>2. /\ stdin' \in StdinType /\ stdin'.received = stdin.received /\ stdin'.queue = stdin.queue
      /\ stdin'.from = stdin.from /\ stdin'.acked = stdin.acked + 1 /\ stdin'.task \in {"waiting", "gone"}
      /\ stdin'.controller = stdin.controller /\ stdin'.acked =< stdin'.acked
  <2> DEFINE task == IF stdin.task = "writing" THEN "waiting" ELSE "gone"
             acked == stdin.acked + 1
  <2>1. stdin' = [stdin EXCEPT !.task = task, !.acked = acked]
    BY DEF WriterWrites
  <2>2. task \in {"waiting", "gone"} /\ acked \in Nat /\ acked =< acked
    BY <1>1
  <2> HIDE DEF task, acked
  <2>3. /\ stdin' \in StdinType /\ stdin'.received = stdin.received /\ stdin'.queue = stdin.queue
        /\ stdin'.from = stdin.from /\ stdin'.acked = acked /\ stdin'.task = task
        /\ stdin'.controller = stdin.controller
    BY <1>0, <2>1, <2>2 DEF StdinType
  <2> QED  BY <2>2, <2>3 DEF acked
<1>3. /\ frames' \in [Watchers -> Seq(Frame)]
      /\ \E f \in Frame, ws \in SUBSET Bindings : f.kind = "ack" /\ f.n =< stdin'.acked /\ frames' = To(ws, f, frames)
  BY <1>0, <1>2, AckIsSent DEF WriterWrites
<1>4. StreamTypeOK'
  BY <1>0, <1>2, <1>3 DEF StreamTypeOK
<1>5. StdinCounted'
  <2>1. stdin'.acked + InHand' =< stdin'.received
    BY <1>0, <1>1, <1>2 DEF InHand, StdinCounted, StdinType
  <2> QED  BY <2>1, <1>2 DEF StdinCounted
<1>6. RoleIsBound' /\ ReaderStopped'
  BY <1>0, <1>2 DEF RoleIsBound, ReaderStopped, Bindings
<1>7. Quiet
  <2>1. stdin.acked =< stdin'.acked
    BY <1>0, <1>2 DEF StdinType
  <2> QED  BY <2>1, <1>0, <1>3 DEF Quiet, Bound, ReaderStopped
<1> QED  BY <1>4, <1>5, <1>6, <1>7, QuietKeeps

(* When it ends, what is queued is dropped and stdin is done.              *)
LEMMA WriterStopsKeeps ==
  ASSUME StreamInv, WriterStops
  PROVE  StreamInv'
<1> DEFINE closed == [stdin EXCEPT !.task = "gone", !.state = "closed", !.done = TRUE, !.tx = FALSE, !.queue = 0]
<1>0. /\ StreamTypeOK /\ stdin \in StdinType /\ stdout \in StdoutType /\ ending \in EndingType
      /\ UNCHANGED <<stdout, view, rewatches, load>> /\ (frames' = frames \/ SendAck(closed))
      /\ StreamTerminal(closed, stdout', ending, binding)
  BY DEF StreamInv, StreamTypeOK, WriterStops
<1>1. /\ closed \in StdinType /\ closed.controller = stdin.controller /\ closed.acked = stdin.acked
      /\ closed.received = stdin.received /\ closed.from = stdin.from /\ closed.queue = 0 /\ closed.task = "gone"
  BY <1>0 DEF StdinType
<1> HIDE DEF closed
<1>2. closed.acked + closed.queue + (IF closed.task \in {"writing", "aborted"} THEN 1 ELSE 0) =< closed.received
  BY <1>0, <1>1 DEF StreamInv, StdinCounted, InHand, StdinType
<1>3. /\ stdout' \in StdoutType /\ stdout' = stdout
      /\ stdout'.readers = 0 => stdout'.task \in {"gone", "aborted", "cut"}
      /\ ending.terminal => stdout'.readers = 0
  BY <1>0 DEF StreamInv, ReaderStopped
<1> QED  BY <1>0, <1>1, <1>2, <1>3, TerminalKeeps

(* What was in hand is lost with a task, and nobody was told of it (abort).*)
LEMMA AbortLandsKeeps ==
  ASSUME StreamInv, AbortLands
  PROVE  StreamInv'
<1> USE DEF StreamInv
<1>0. StreamTypeOK /\ stdin \in StdinType /\ stdout \in StdoutType /\ UNCHANGED <<ending, binding, frames, view, rewatches, load>>
  BY DEF StreamTypeOK, AbortLands
<1>1. CASE stdin.task = "aborted" /\ stdin' = [stdin EXCEPT !.task = "gone"] /\ UNCHANGED stdout
  <2>1. /\ stdin' \in StdinType /\ stdin'.received = stdin.received /\ stdin'.queue = stdin.queue
        /\ stdin'.from = stdin.from /\ stdin'.acked = stdin.acked /\ stdin'.task = "gone"
        /\ stdin'.controller = stdin.controller
    BY <1>0, <1>1 DEF StdinType
  <2>2. StreamTypeOK'
    BY <1>0, <1>1, <2>1 DEF StreamTypeOK
  <2>3. stdin'.acked + InHand' =< stdin'.received
    BY <1>0, <1>1, <2>1 DEF InHand, StdinCounted, StdinType
  <2>4. StdinCounted' /\ RoleIsBound' /\ ReaderStopped'
    BY <1>0, <1>1, <2>1, <2>3 DEF StdinCounted, RoleIsBound, ReaderStopped, Bindings
  <2>5. Quiet
    BY <1>0, <1>1, <2>1 DEF Quiet, Bound, StdinType, ReaderStopped
  <2> QED  BY <2>2, <2>4, <2>5, QuietKeeps
<1>2. CASE stdout.task = "aborted" /\ stdout' = [stdout EXCEPT !.task = "cut"] /\ UNCHANGED stdin
  <2>1. stdout' \in StdoutType /\ stdout'.next = stdout.next /\ stdout'.task = "cut" /\ stdout'.readers = stdout.readers
    BY <1>0, <1>2 DEF StdoutType
  <2>2. StreamTypeOK'
    BY <1>0, <1>2, <2>1 DEF StreamTypeOK
  <2>3. StdinCounted' /\ RoleIsBound' /\ ReaderStopped'
    BY <1>0, <1>2, <2>1 DEF StdinCounted, InHand, RoleIsBound, ReaderStopped, Bindings
  <2>4. Quiet
    BY <1>0, <1>2, <2>1 DEF Quiet, Bound, StdinType, ReaderStopped
  <2> QED  BY <2>2, <2>3, <2>4, QuietKeeps
<1> QED  BY <1>1, <1>2 DEF AbortLands

(* The reader has read, and owes what it read (output_reader).             *)
LEMMA ReaderReadsKeeps ==
  ASSUME StreamInv, ReaderReads
  PROVE  StreamInv'
<1> USE DEF StreamInv
<1>0. StreamTypeOK /\ stdin \in StdinType /\ stdout \in StdoutType /\ UNCHANGED <<stdin, ending, binding, frames, view, rewatches, load>>
  BY DEF StreamTypeOK, ReaderReads
<1>1. /\ stdout' \in StdoutType /\ stdout'.next = stdout.next /\ stdout'.task = "got" /\ stdout'.readers = stdout.readers
      /\ stdout.task = "reading"
  BY <1>0 DEF StdoutType, ReaderReads
<1>2. StreamTypeOK'
  BY <1>0, <1>1 DEF StreamTypeOK
<1>3. StdinCounted' /\ RoleIsBound' /\ ReaderStopped'
  BY <1>0, <1>1 DEF StdinCounted, InHand, RoleIsBound, ReaderStopped, Bindings
<1>4. Quiet
  BY <1>0, <1>1 DEF Quiet, Bound, StdinType, ReaderStopped
<1> QED  BY <1>2, <1>3, <1>4, QuietKeeps

(* The reader is at the end of its pipe, with nothing owed.                *)
LEMMA ReaderStopsKeeps ==
  ASSUME StreamInv, ReaderStops
  PROVE  StreamInv'
<1>0. /\ StreamTypeOK /\ stdin \in StdinType /\ stdout \in StdoutType /\ ending \in EndingType
      /\ UNCHANGED <<frames, view, rewatches, load>> /\ stdout.task = "reading"
      /\ StreamTerminal(stdin, stdout', ending, binding)
  BY DEF StreamInv, StreamTypeOK, ReaderStops
<1>1. /\ stdout' \in StdoutType /\ stdout'.next = stdout.next /\ stdout'.task = "gone" /\ stdout'.readers = 0
  BY <1>0 DEF StdoutType, ReaderStops
<1>2. stdin.acked + stdin.queue + (IF stdin.task \in {"writing", "aborted"} THEN 1 ELSE 0) =< stdin.received
  BY <1>0 DEF StreamInv, StdinCounted, InHand, StdinType
<1>3. ~ending.terminal
  BY <1>0 DEF StreamInv, ReaderStopped
<1> QED  BY <1>0, <1>1, <1>2, <1>3, TerminalKeeps

(* wait_child closes stdin, and may be the last to come in.                *)
LEMMA ChildExitsKeeps ==
  ASSUME StreamInv, StreamChildExits
  PROVE  StreamInv'
<1> DEFINE state == IF stdin.state = "accepting" THEN "closing" ELSE stdin.state
           in == [stdin EXCEPT !.state = state, !.tx = FALSE]
           end == [ending EXCEPT !.reaped = TRUE]
<1>0. /\ StreamTypeOK /\ stdin \in StdinType /\ stdout \in StdoutType /\ ending \in EndingType
      /\ UNCHANGED <<stdout, view, rewatches, load>> /\ (frames' = frames \/ SendAck(in))
      /\ StreamTerminal(in, stdout', end, binding)
  BY DEF StreamInv, StreamTypeOK, StreamChildExits
<1>1. state \in {"accepting", "closing", "closed"}
  BY <1>0 DEF StdinType
<1> HIDE DEF state
<1>2. /\ in \in StdinType /\ in.controller = stdin.controller /\ in.acked = stdin.acked
      /\ in.received = stdin.received /\ in.from = stdin.from /\ in.queue = stdin.queue /\ in.task = stdin.task
  BY <1>0, <1>1 DEF StdinType
<1>3. /\ end \in EndingType /\ end.terminal = ending.terminal
      /\ end.exits = ending.exits /\ end.final = ending.final
  BY <1>0 DEF EndingType
<1> HIDE DEF in, end
<1>4. in.acked + in.queue + (IF in.task \in {"writing", "aborted"} THEN 1 ELSE 0) =< in.received
  BY <1>0, <1>2 DEF StreamInv, StdinCounted, InHand, StdinType
<1>5. /\ stdout' \in StdoutType /\ stdout' = stdout
      /\ stdout'.readers = 0 => stdout'.task \in {"gone", "aborted", "cut"}
      /\ ending.terminal => stdout'.readers = 0
  BY <1>0 DEF StreamInv, ReaderStopped
<1> QED  BY <1>0, <1>2, <1>3, <1>4, <1>5, TerminalKeeps

(* What StoppedIn leaves of stdin.                                         *)
LEMMA StoppedInType ==
  ASSUME stdin \in StdinType
  PROVE  /\ StoppedIn \in StdinType /\ StoppedIn.controller = stdin.controller /\ StoppedIn.acked = stdin.acked
         /\ StoppedIn.received = stdin.received /\ StoppedIn.from = stdin.from /\ StoppedIn.queue = 0
         /\ StoppedIn.task = IF stdin.task = "writing" THEN "aborted" ELSE "gone"
<1>1. CASE stdin.task = "writing"
  BY <1>1 DEF StdinType, StoppedIn
<1>2. CASE stdin.task # "writing"
  BY <1>2 DEF StdinType, StoppedIn
<1> QED  BY <1>1, <1>2

(* Stopping the tasks drops what is queued and leaves what is in hand      *)
(* (abort_pipes, schedule_residual_cleanup).                               *)
LEMMA StopKeeps ==
  ASSUME StreamInv, stdin' = StoppedIn, stdout' = StoppedOut, frames' = frames \/ SendAck(stdin'),
         ending' \in EndingType, ending'.terminal = ending.terminal, ending'.exits = ending.exits,
         ending'.final = ending.final, UNCHANGED <<binding, view, rewatches, load>>
  PROVE  StreamInv'
<1> USE DEF StreamInv
<1>0. StreamTypeOK /\ stdin \in StdinType /\ stdout \in StdoutType
  BY DEF StreamTypeOK
<1>1. /\ stdin' \in StdinType /\ stdin'.controller = stdin.controller /\ stdin'.acked = stdin.acked
      /\ stdin'.received = stdin.received /\ stdin'.from = stdin.from /\ stdin'.queue = 0
      /\ stdin'.task = IF stdin.task = "writing" THEN "aborted" ELSE "gone"
  BY <1>0, StoppedInType
<1>2. /\ stdout' \in StdoutType /\ stdout'.next = stdout.next /\ stdout'.readers = 0
      /\ stdout'.task \in {"gone", "aborted", "cut"} /\ (stdout'.task = "gone" => stdout.task = "gone")
  <2> DEFINE task == CASE stdout.task = "got" -> "aborted" [] stdout.task = "reading" -> "cut" [] OTHER -> stdout.task
  <2>1. stdout' = [stdout EXCEPT !.readers = 0, !.task = task]
    BY DEF StoppedOut
  <2>2. task \in {"gone", "aborted", "cut"} /\ (task = "gone" => stdout.task = "gone")
    BY <1>0 DEF StdoutType
  <2> HIDE DEF task
  <2> QED  BY <1>0, <2>1, <2>2 DEF StdoutType
<1>3. stdin.acked =< stdin'.acked /\ stdin'.acked =< stdin'.acked
  BY <1>0, <1>1 DEF StdinType
<1>4. /\ frames' \in [Watchers -> Seq(Frame)]
      /\ \/ frames' = frames
         \/ \E f \in Frame, ws \in SUBSET Bindings : f.kind = "ack" /\ f.n =< stdin'.acked /\ frames' = To(ws, f, frames)
  BY <1>0, <1>1, <1>3, AckIsSent DEF StreamTypeOK
<1>5. StreamTypeOK'
  BY <1>0, <1>1, <1>2, <1>4 DEF StreamTypeOK
<1>6. StdinCounted'
  <2>1. stdin'.acked + InHand' =< stdin'.received
    BY <1>0, <1>1 DEF InHand, StdinCounted, StdinType
  <2> QED  BY <2>1, <1>1 DEF StdinCounted
<1>7. RoleIsBound' /\ ReaderStopped'
  BY <1>1, <1>2 DEF RoleIsBound, ReaderStopped, Bindings
<1>8. Quiet
  BY <1>2, <1>3, <1>4 DEF Quiet, Bound
<1> QED  BY <1>5, <1>6, <1>7, <1>8, QuietKeeps

(* The residual cleanup stops the tasks unless they have ended.            *)
LEMMA CleanupKeeps ==
  ASSUME StreamInv, StreamCleanup
  PROVE  StreamInv'
<1> USE DEF StreamInv
<1>0. StreamTypeOK /\ stdin \in StdinType /\ ending \in EndingType /\ UNCHANGED <<binding, view, rewatches, load>>
  BY DEF StreamTypeOK, StreamCleanup
<1>1. /\ ending' \in EndingType /\ ending'.terminal = ending.terminal /\ ending'.exits = ending.exits
      /\ ending'.final = ending.final
  BY <1>0 DEF StreamCleanup, EndingType
<1>2. CASE UNCHANGED <<stdin, stdout, frames>>
  <2>1. StreamTypeOK'
    BY <1>0, <1>1, <1>2 DEF StreamTypeOK
  <2>2. StdinCounted' /\ RoleIsBound' /\ ReaderStopped'
    BY <1>0, <1>1, <1>2 DEF StdinCounted, InHand, RoleIsBound, ReaderStopped, Bindings
  <2>3. Quiet
    BY <1>0, <1>1, <1>2 DEF Quiet, Bound, StdinType, ReaderStopped
  <2> QED  BY <2>1, <2>2, <2>3, QuietKeeps
<1>3. CASE stdin' = StoppedIn /\ stdout' = StoppedOut /\ (frames' = frames \/ SendAck(stdin'))
  BY <1>0, <1>1, <1>3, StopKeeps
<1> QED  BY <1>2, <1>3 DEF StreamCleanup

(* abort_pipes stops them, once.                                           *)
LEMMA AbortKeeps ==
  ASSUME StreamInv, StreamAbort
  PROVE  StreamInv'
<1>0. ending \in EndingType /\ UNCHANGED <<binding, frames, view, rewatches, load>> /\ stdin' = StoppedIn /\ stdout' = StoppedOut
  BY DEF StreamInv, StreamTypeOK, StreamAbort
<1>1. /\ ending' \in EndingType /\ ending'.terminal = ending.terminal /\ ending'.exits = ending.exits
      /\ ending'.final = ending.final
  BY <1>0 DEF StreamAbort, EndingType
<1> QED  BY <1>0, <1>1, StopKeeps

(* queue_terminal, from the cleanup.                                       *)
LEMMA QueueTerminalKeeps ==
  ASSUME StreamInv, StreamQueueTerminal
  PROVE  StreamInv'
<1>0. /\ StreamTypeOK /\ stdin \in StdinType /\ stdout \in StdoutType /\ ending \in EndingType
      /\ UNCHANGED <<stdout, frames, view, rewatches, load>>
      /\ StreamTerminal(stdin, stdout', ending, binding)
  BY DEF StreamInv, StreamTypeOK, StreamQueueTerminal
<1>1. stdin.acked + stdin.queue + (IF stdin.task \in {"writing", "aborted"} THEN 1 ELSE 0) =< stdin.received
  BY <1>0 DEF StreamInv, StdinCounted, InHand, StdinType
<1>2. /\ stdout' \in StdoutType /\ stdout' = stdout
      /\ stdout'.readers = 0 => stdout'.task \in {"gone", "aborted", "cut"}
      /\ ending.terminal => stdout'.readers = 0
  BY <1>0 DEF StreamInv, ReaderStopped
<1> QED  BY <1>0, <1>1, <1>2, TerminalKeeps

-----------------------------------------------------------------------------
(* The steps that are not quiet.                                           *)

(* What the invariant says of one watcher, from its frames, its view and   *)
(* where it stands.                                                        *)
Watched(q, v, bound, due, next, final, acked) ==
  /\ v.acked =< acked
  /\ \A i \in 1..Len(q) : q[i].kind \in {"ack", "watched"} => q[i].n =< acked
  /\ \A i \in 1..Len(q) : q[i].kind = "unwatched" => i = Len(q) /\ ~bound /\ ~due
  /\ ~v.ended => /\ bound => LeadsTo(q, v.got, Len(q), next)
                 /\ due => LeadsTo(q, v.got, Len(q), final)
                 /\ \A i \in 1..Len(q) : q[i].kind \in {"out", "exit"} => LeadsTo(q, v.got, i - 1, q[i].n)

(* It says so of each of them, before a step and after.                    *)
LEMMA WatchedIsAll ==
  /\ StreamInv => \A w \in Watchers :
       Watched(frames[w], view[w], Bound(w), w \in ending.exits, stdout.next, ending.final, stdin.acked)
  /\ (\A w \in Watchers :
       Watched(frames'[w], view'[w], binding'[w] # Unbound, w \in ending'.exits, stdout'.next, ending'.final, stdin'.acked))
     => AcksTold' /\ WatchesAreUpToDate' /\ UnwatchedIsLast' /\ FramesAreWhole'
<1>1. StreamInv => \A w \in Watchers :
        Watched(frames[w], view[w], Bound(w), w \in ending.exits, stdout.next, ending.final, stdin.acked)
  BY DEF StreamInv, Watched, AcksTold, WatchesAreUpToDate, UnwatchedIsLast, FramesAreWhole
<1>2. (\A w \in Watchers :
        Watched(frames'[w], view'[w], binding'[w] # Unbound, w \in ending'.exits, stdout'.next, ending'.final, stdin'.acked))
      => AcksTold' /\ WatchesAreUpToDate' /\ UnwatchedIsLast' /\ FramesAreWhole'
  BY DEF Watched, AcksTold, WatchesAreUpToDate, UnwatchedIsLast, FramesAreWhole, Bound
<1> QED  BY <1>1, <1>2

(* One more frame at the end of a queue that holds no unwatched.           *)
LEMMA OneMoreFrame ==
  ASSUME NEW q \in Seq(Frame), NEW f \in Frame, NEW got, NEW acked \in Nat,
         \A i \in 1..Len(q) : q[i].kind # "unwatched",
         \A i \in 1..Len(q) : q[i].kind \in {"ack", "watched"} => q[i].n =< acked,
         f.kind \in {"ack", "watched"} => f.n =< acked
  PROVE  /\ Len(Append(q, f)) = Len(q) + 1 /\ Len(q) \in Nat
         /\ \A i \in 1..Len(Append(q, f)) :
              Append(q, f)[i].kind \in {"ack", "watched"} => Append(q, f)[i].n =< acked
         /\ \A i \in 1..Len(Append(q, f)) : Append(q, f)[i].kind = "unwatched" =>
              i = Len(Append(q, f)) /\ f.kind = "unwatched"
         /\ (\A i \in 1..Len(q) : q[i].kind \in {"out", "exit"} => LeadsTo(q, got, i - 1, q[i].n))
            /\ (f.kind \in {"out", "exit"} => LeadsTo(q, got, Len(q), f.n))
            => \A i \in 1..Len(Append(q, f)) : Append(q, f)[i].kind \in {"out", "exit"} =>
                 LeadsTo(Append(q, f), got, i - 1, Append(q, f)[i].n)
<1> DEFINE r == Append(q, f)
<1>1. Len(r) = Len(q) + 1 /\ Len(q) \in Nat /\ r[Len(q) + 1] = f /\ \A i \in 1..Len(q) : r[i] = q[i]
  OBVIOUS
<1>2. \A p : \A i \in 0..Len(q) : LeadsTo(q, got, i, p) => LeadsTo(r, got, i, p)
  BY AppendLeads
<1> HIDE DEF r
<1>3. \A i \in 1..Len(r) : i = Len(q) + 1 \/ (i \in 1..Len(q) /\ i - 1 \in 0..Len(q))
  BY <1>1
<1>4. Len(q) \in 0..Len(q) /\ (Len(q) + 1) - 1 = Len(q)
  BY <1>1
<1>5. \A i \in 1..Len(r) : r[i].kind \in {"ack", "watched"} => r[i].n =< acked
  BY <1>1, <1>3
<1>6. \A i \in 1..Len(r) : r[i].kind = "unwatched" => i = Len(r) /\ f.kind = "unwatched"
  BY <1>1, <1>3
<1>7. ASSUME \A i \in 1..Len(q) : q[i].kind \in {"out", "exit"} => LeadsTo(q, got, i - 1, q[i].n),
             f.kind \in {"out", "exit"} => LeadsTo(q, got, Len(q), f.n),
             NEW i \in 1..Len(r), r[i].kind \in {"out", "exit"}
      PROVE  LeadsTo(r, got, i - 1, r[i].n)
  <2>1. CASE i = Len(q) + 1
    BY <2>1, <1>1, <1>2, <1>4, <1>7
  <2>2. CASE i \in 1..Len(q) /\ i - 1 \in 0..Len(q)
    BY <2>2, <1>1, <1>2, <1>7
  <2> QED  BY <1>3, <2>1, <2>2
<1> QED  BY <1>1, <1>5, <1>6, <1>7 DEF r

(* A watch starts where the output has come to (watch).                    *)
LEMMA WatchKeeps ==
  ASSUME StreamInv, NEW w \in Watchers, NEW wants \in BOOLEAN, StreamWatch(w, wants)
  PROVE  StreamInv'
<1> USE DEF StreamInv
<1>0. /\ StreamTypeOK /\ stdin \in StdinType /\ stdout \in StdoutType /\ UNCHANGED <<stdout, ending, view, load>>
      /\ binding \in [Watchers -> Nat \cup {Unbound}] /\ frames \in [Watchers -> Seq(Frame)] /\ ~ending.terminal
      /\ frames[w] = <<>> /\ ~Bound(w)
  BY DEF StreamTypeOK, StreamWatch
<1>1. stdin.received \in Nat /\ stdin.acked \in Nat /\ stdout.next \in Nat /\ stdout.next # Unbound
  BY <1>0 DEF StdinType, StdoutType, Unbound
<1>2. /\ stdin' \in StdinType /\ stdin'.received = stdin.received /\ stdin'.queue = stdin.queue
      /\ stdin'.from = stdin.from /\ stdin'.acked = stdin.acked /\ stdin'.task = stdin.task
      /\ stdin'.controller = IF wants THEN w ELSE stdin.controller
  <2>1. CASE wants
    BY <1>0, <2>1 DEF StreamWatch, StdinType
  <2>2. CASE ~wants
    BY <1>0, <2>2 DEF StreamWatch
  <2> QED  BY <2>1, <2>2
<1> DEFINE f == [kind |-> "watched", writable |-> wants, received |-> stdin.received,
                 n |-> stdin.acked, next |-> stdout.next]
<1>3. f \in Frame /\ IsOutput(f) /\ Reaches(f) = stdout.next /\ f.kind = "watched" /\ f.n = stdin.acked
  BY <1>1 DEF Frame, IsOutput, Reaches
<1>4. frames' = To({w}, f, frames) /\ binding' = [binding EXCEPT ![w] = stdout.next] /\ rewatches' = rewatches + 1
      /\ rewatches < MaxRewatches
  BY DEF StreamWatch
<1> HIDE DEF f
<1>5. /\ frames' \in [Watchers -> Seq(Frame)] /\ frames'[w] = Append(<<>>, f)
      /\ \A v \in Watchers \ {w} : frames'[v] = frames[v]
  <2>1. /\ frames' \in [Watchers -> Seq(Frame)]
        /\ \A v \in Watchers : frames'[v] = IF v \in {w} THEN Append(frames[v], f) ELSE frames[v]
    BY <1>0, <1>3, <1>4, ToAppends
  <2>2. frames'[w] = Append(frames[w], f)
    BY <2>1
  <2> QED  BY <1>0, <2>1, <2>2
<1>6. binding' \in [Watchers -> Nat \cup {Unbound}] /\ binding'[w] # Unbound /\ \A v \in Watchers \ {w} : binding'[v] = binding[v]
  BY <1>0, <1>1, <1>4
<1>7. StreamTypeOK'
  <2>1. rewatches' \in 0..MaxRewatches
    BY <1>0, <1>4, StreamConstants DEF StreamTypeOK
  <2> QED  BY <2>1, <1>0, <1>2, <1>5, <1>6 DEF StreamTypeOK
<1>8. StdinCounted' /\ RoleIsBound' /\ ReaderStopped'
  BY <1>0, <1>2, <1>6 DEF StdinCounted, InHand, RoleIsBound, ReaderStopped, Bindings
<1>9. ASSUME NEW v \in Watchers
      PROVE  Watched(frames'[v], view'[v], binding'[v] # Unbound, v \in ending'.exits, stdout'.next, ending'.final, stdin'.acked)
  <2>0. Watched(frames[v], view[v], Bound(v), v \in ending.exits, stdout.next, ending.final, stdin.acked)
    BY WatchedIsAll
  <2>1. CASE v # w
    BY <2>0, <2>1, <1>0, <1>2, <1>5, <1>6 DEF Watched, Bound
  <2>2. CASE v = w
    <3> DEFINE r == Append(<<>>, f)
               got == view[w].got
    <3>1. <<>> \in Seq(Frame) /\ Len(<<>>) = 0 /\ \A i \in 1..0 : FALSE
      OBVIOUS
    <3>2. Len(r) = 1 /\ LeadsTo(r, got, 1, stdout.next)
      <4>1. Len(r) = 1 /\ Len(<<>>) + 1 = 1
        OBVIOUS
      <4>2. LeadsTo(r, got, Len(<<>>) + 1, Reaches(f))
        BY <3>1, <1>3, AppendLeads
      <4> QED  BY <4>1, <4>2, <1>3
    <3>3. r[1] = f
      OBVIOUS
    <3>4. frames'[w] = r
      BY <1>5
    <3>5. v \notin ending'.exits
      BY <1>0 DEF ReaderStopped
    <3>6. view[w].acked =< stdin.acked
      BY <2>0, <2>2 DEF Watched
    <3> HIDE DEF r
    <3>7. \A i \in 1..Len(r) : i = 1 /\ i = Len(r) /\ r[i].kind = "watched" /\ r[i].n = stdin.acked
      BY <3>2, <3>3, <1>3
    <3>8. \A i \in 1..Len(r) : r[i].n =< stdin.acked /\ r[i].kind # "unwatched" /\ r[i].kind \notin {"out", "exit"}
      BY <3>7, <1>1
    <3> HIDE DEF got
    <3>9. Watched(r, view[w], TRUE, FALSE, stdout.next, ending.final, stdin.acked)
      BY <3>2, <3>6, <3>8 DEF Watched, got
    <3> QED  BY <2>2, <3>4, <3>5, <3>9, <1>0, <1>2, <1>6 DEF Watched
  <2> QED  BY <2>1, <2>2
<1>10. AcksTold' /\ WatchesAreUpToDate' /\ UnwatchedIsLast' /\ FramesAreWhole'
  BY <1>9, WatchedIsAll
<1> QED  BY <1>7, <1>8, <1>10

(* Releasing the role of those who are unbound touches nothing else        *)
(* (release_controller).                                                   *)
LEMMA ReleasedType ==
  ASSUME stdin \in StdinType, NEW ws
  PROVE  /\ Released(ws, stdin) \in StdinType /\ Released(ws, stdin).received = stdin.received
         /\ Released(ws, stdin).queue = stdin.queue /\ Released(ws, stdin).from = stdin.from
         /\ Released(ws, stdin).acked = stdin.acked /\ Released(ws, stdin).task = stdin.task
         /\ Released(ws, stdin).controller = IF stdin.controller \in ws THEN "nobody" ELSE stdin.controller
BY DEF Released, StdinType

(* A watch ends with an unwatched frame, and nothing comes after (unwatch).*)
LEMMA UnwatchKeeps ==
  ASSUME StreamInv, NEW w \in Watchers, StreamUnwatch(w)
  PROVE  StreamInv'
<1> USE DEF StreamInv
<1>0. /\ StreamTypeOK /\ stdin \in StdinType /\ UNCHANGED <<stdout, ending, view, rewatches, load>>
      /\ binding \in [Watchers -> Nat \cup {Unbound}] /\ frames \in [Watchers -> Seq(Frame)] /\ Bound(w)
      /\ stdin.acked \in Nat
  BY DEF StreamTypeOK, StreamUnwatch, StdinType
<1>1. /\ stdin' \in StdinType /\ stdin'.received = stdin.received /\ stdin'.queue = stdin.queue
      /\ stdin'.from = stdin.from /\ stdin'.acked = stdin.acked /\ stdin'.task = stdin.task
      /\ stdin'.controller = IF stdin.controller \in {w} THEN "nobody" ELSE stdin.controller
  BY <1>0, ReleasedType DEF StreamUnwatch
<1> DEFINE f == [kind |-> "unwatched"]
<1>2. f \in Frame /\ f.kind = "unwatched"
  BY DEF Frame
<1>3. frames' = To({w}, f, frames) /\ binding' = [v \in Watchers |-> IF v \in {w} THEN Unbound ELSE binding[v]]
  BY DEF StreamUnwatch, Unbind
<1> HIDE DEF f
<1>4. /\ frames' \in [Watchers -> Seq(Frame)]
      /\ \A v \in Watchers : frames'[v] = IF v \in {w} THEN Append(frames[v], f) ELSE frames[v]
  BY <1>0, <1>2, <1>3, ToAppends
<1>5. binding' \in [Watchers -> Nat \cup {Unbound}] /\ \A v \in Watchers : binding'[v] = IF v = w THEN Unbound ELSE binding[v]
  BY <1>0, <1>3
<1>6. StreamTypeOK'
  BY <1>0, <1>1, <1>4, <1>5 DEF StreamTypeOK
<1>7. StdinCounted' /\ RoleIsBound' /\ ReaderStopped'
  BY <1>0, <1>1, <1>5 DEF StdinCounted, InHand, RoleIsBound, ReaderStopped, Bindings
<1>8. ASSUME NEW v \in Watchers
      PROVE  Watched(frames'[v], view'[v], binding'[v] # Unbound, v \in ending'.exits, stdout'.next, ending'.final, stdin'.acked)
  <2>0. Watched(frames[v], view[v], Bound(v), v \in ending.exits, stdout.next, ending.final, stdin.acked)
    BY WatchedIsAll
  <2>1. CASE v # w
    BY <2>0, <2>1, <1>0, <1>1, <1>4, <1>5 DEF Watched, Bound
  <2>2. CASE v = w
    <3> DEFINE q == frames[w]
               got == view[w].got
               r == Append(q, f)
    <3>1. q \in Seq(Frame) /\ frames'[w] = r /\ binding'[w] = Unbound
      BY <1>0, <1>4, <1>5
    <3>2. /\ \A i \in 1..Len(q) : q[i].kind # "unwatched"
          /\ \A i \in 1..Len(q) : q[i].kind \in {"ack", "watched"} => q[i].n =< stdin.acked
          /\ ~view[w].ended => \A i \in 1..Len(q) : q[i].kind \in {"out", "exit"} => LeadsTo(q, got, i - 1, q[i].n)
          /\ view[w].acked =< stdin.acked
      BY <2>0, <2>2, <1>0 DEF Watched
    <3>3. w \notin ending'.exits
      <4>1. w \in Bindings
        BY <1>0 DEF Bindings, Bound
      <4> QED  BY <4>1, <1>0 DEF ReaderStopped
    <3> HIDE DEF q, got, r
    <3>4. /\ \A i \in 1..Len(r) : r[i].kind \in {"ack", "watched"} => r[i].n =< stdin.acked
          /\ \A i \in 1..Len(r) : r[i].kind = "unwatched" => i = Len(r)
          /\ ~view[w].ended => \A i \in 1..Len(r) : r[i].kind \in {"out", "exit"} => LeadsTo(r, got, i - 1, r[i].n)
      <4>1. f.kind \notin {"ack", "watched", "out", "exit"}
        BY <1>2
      <4>2. /\ \A i \in 1..Len(r) : r[i].kind \in {"ack", "watched"} => r[i].n =< stdin.acked
            /\ \A i \in 1..Len(r) : r[i].kind = "unwatched" => i = Len(r) /\ f.kind = "unwatched"
        BY <3>1, <3>2, <1>0, <1>2, <4>1, OneMoreFrame DEF r
      <4>3. ~view[w].ended => \A i \in 1..Len(r) : r[i].kind \in {"out", "exit"} => LeadsTo(r, got, i - 1, r[i].n)
        BY <3>1, <3>2, <1>0, <1>2, <4>1, OneMoreFrame DEF r
      <4> QED  BY <4>2, <4>3
    <3> QED  BY <2>2, <3>1, <3>2, <3>3, <3>4, <1>0, <1>1 DEF Watched, got
  <2> QED  BY <2>1, <2>2
<1>9. AcksTold' /\ WatchesAreUpToDate' /\ UnwatchedIsLast' /\ FramesAreWhole'
  BY <1>8, WatchedIsAll
<1> QED  BY <1>6, <1>7, <1>9

(* Every watcher with credit gets what was read, and the others lose their *)
(* watch (output_reader).                                                  *)
LEMMA DeliversKeeps ==
  ASSUME StreamInv, ReaderDelivers
  PROVE  StreamInv'
<1> USE DEF StreamInv
<1> DEFINE slow == {w \in Bindings : ~HasCredit(w)}
           f == [kind |-> "out", n |-> stdout.next]
<1>0. /\ StreamTypeOK /\ stdin \in StdinType /\ stdout \in StdoutType /\ UNCHANGED <<ending, rewatches, load>>
      /\ binding \in [Watchers -> Nat \cup {Unbound}] /\ frames \in [Watchers -> Seq(Frame)]
      /\ view \in [Watchers -> ViewType] /\ stdin.acked \in Nat
  BY DEF StreamTypeOK, ReaderDelivers, StdinType
<1>1. /\ stdout' \in StdoutType /\ stdout'.next = stdout.next + 1 /\ stdout'.readers = stdout.readers
      /\ (stdout'.task = "cut" \/ (stdout'.task = "reading" /\ stdout.task = "got"))
  <2>1. stdout.next + 1 \in Nat
    BY <1>0 DEF StdoutType
  <2>2. CASE stdout.task = "got"
    BY <2>1, <2>2, <1>0 DEF ReaderDelivers, StdoutType
  <2>3. CASE stdout.task = "aborted"
    BY <2>1, <2>3, <1>0 DEF ReaderDelivers, StdoutType
  <2> QED  BY <2>2, <2>3 DEF ReaderDelivers
<1>2. f \in Frame /\ IsOutput(f) /\ Reaches(f) = stdout.next + 1 /\ f.kind = "out" /\ f.n = stdout.next
  BY <1>0 DEF Frame, IsOutput, Reaches, StdoutType
<1>3. /\ frames' = To(Bindings \ slow, f, frames) /\ stdin' = Released(slow, stdin)
      /\ binding' = [w \in Watchers |-> IF w \in slow THEN Unbound ELSE binding[w]]
      /\ view' = [w \in Watchers |-> IF w \in slow THEN [NoWatch EXCEPT !.ended = TRUE] ELSE view[w]]
  BY DEF ReaderDelivers, Unbind
<1>4. slow \subseteq Bindings /\ \A w \in Watchers : w \in Bindings <=> Bound(w)
  BY DEF Bindings, Bound
<1> HIDE DEF f, slow
<1>5. /\ stdin' \in StdinType /\ stdin'.received = stdin.received /\ stdin'.queue = stdin.queue
      /\ stdin'.from = stdin.from /\ stdin'.acked = stdin.acked /\ stdin'.task = stdin.task
      /\ stdin'.controller = IF stdin.controller \in slow THEN "nobody" ELSE stdin.controller
  BY <1>0, <1>3, ReleasedType
<1>6. /\ frames' \in [Watchers -> Seq(Frame)]
      /\ \A v \in Watchers : frames'[v] = IF v \in Bindings \ slow THEN Append(frames[v], f) ELSE frames[v]
  BY <1>0, <1>2, <1>3, ToAppends
<1>7. binding' \in [Watchers -> Nat \cup {Unbound}] /\ \A v \in Watchers : binding'[v] = IF v \in slow THEN Unbound ELSE binding[v]
  BY <1>0, <1>3
<1>8. /\ view' \in [Watchers -> ViewType]
      /\ \A v \in Watchers : v \in slow => view'[v].ended /\ view'[v].acked = 0
      /\ \A v \in Watchers : v \notin slow => view'[v] = view[v]
  <2>1. [NoWatch EXCEPT !.ended = TRUE] \in ViewType /\ [NoWatch EXCEPT !.ended = TRUE].ended
        /\ [NoWatch EXCEPT !.ended = TRUE].acked = 0
    BY DEF NoWatch, ViewType
  <2> QED  BY <2>1, <1>0, <1>3
<1>9. StreamTypeOK'
  BY <1>0, <1>1, <1>5, <1>6, <1>7, <1>8 DEF StreamTypeOK
<1>10. StdinCounted'
  BY <1>5 DEF StdinCounted, InHand
<1>11. RoleIsBound'
  BY <1>5, <1>7 DEF RoleIsBound, Bindings
<1>12. ReaderStopped'
  <2>1. Bindings = {} => Bindings' = {}
    BY <1>7 DEF Bindings
  <2> QED  BY <2>1, <1>0, <1>1 DEF ReaderStopped
<1>13. ASSUME NEW v \in Watchers
      PROVE  Watched(frames'[v], view'[v], binding'[v] # Unbound, v \in ending'.exits, stdout'.next, ending'.final, stdin'.acked)
  <2>0. Watched(frames[v], view[v], Bound(v), v \in ending.exits, stdout.next, ending.final, stdin.acked)
    BY WatchedIsAll
  <2>1. CASE ~Bound(v)
    <3>1. frames'[v] = frames[v] /\ view'[v] = view[v] /\ binding'[v] = Unbound
      BY <2>1, <1>4, <1>6, <1>7, <1>8 DEF Bound
    <3> QED  BY <2>0, <2>1, <3>1, <1>0, <1>5 DEF Watched
  <2>2. CASE v \in slow
    <3>1. frames'[v] = frames[v] /\ view'[v].ended /\ view'[v].acked = 0 /\ binding'[v] = Unbound /\ Bound(v)
      BY <2>2, <1>4, <1>6, <1>7, <1>8
    <3> QED  BY <2>0, <3>1, <1>0, <1>5 DEF Watched
  <2>3. CASE Bound(v) /\ v \notin slow
    <3> DEFINE q == frames[v]
               got == view[v].got
               r == Append(q, f)
    <3>1. q \in Seq(Frame) /\ frames'[v] = r /\ view'[v] = view[v]
      BY <2>3, <1>0, <1>4, <1>6, <1>8
    <3>2. /\ \A i \in 1..Len(q) : q[i].kind # "unwatched"
          /\ \A i \in 1..Len(q) : q[i].kind \in {"ack", "watched"} => q[i].n =< stdin.acked
          /\ ~view[v].ended => /\ \A i \in 1..Len(q) : q[i].kind \in {"out", "exit"} => LeadsTo(q, got, i - 1, q[i].n)
                               /\ LeadsTo(q, got, Len(q), stdout.next)
          /\ view[v].acked =< stdin.acked
      BY <2>0, <2>3 DEF Watched
    <3>3. v \notin ending'.exits
      BY <2>3, <1>0, <1>4 DEF ReaderStopped
    <3> HIDE DEF q, got, r
    <3>4. /\ \A i \in 1..Len(r) : r[i].kind \in {"ack", "watched"} => r[i].n =< stdin.acked
          /\ \A i \in 1..Len(r) : r[i].kind # "unwatched"
          /\ ~view[v].ended => \A i \in 1..Len(r) : r[i].kind \in {"out", "exit"} => LeadsTo(r, got, i - 1, r[i].n)
          /\ Len(r) = Len(q) + 1
      BY <3>1, <3>2, <1>0, <1>2, OneMoreFrame DEF r
    <3>5. LeadsTo(r, got, Len(r), stdout'.next)
      <4>1. LeadsTo(r, got, Len(q) + 1, Reaches(f))
        BY <3>1, <1>2, AppendLeads DEF r
      <4> QED  BY <4>1, <3>4, <1>1, <1>2
    <3> QED  BY <3>1, <3>2, <3>3, <3>4, <3>5, <1>0, <1>5 DEF Watched, got
  <2> QED  BY <2>1, <2>2, <2>3
<1>14. AcksTold' /\ WatchesAreUpToDate' /\ UnwatchedIsLast' /\ FramesAreWhole'
  BY <1>13, WatchedIsAll
<1> QED  BY <1>9, <1>10, <1>11, <1>12, <1>14

(* The exit follows all that was read (queue_terminal).                    *)
LEMMA ExitsKeep ==
  ASSUME StreamInv, StreamExits
  PROVE  StreamInv'
<1> USE DEF StreamInv
<1> DEFINE f == [kind |-> "exit", n |-> ending.final]
<1>0. /\ StreamTypeOK /\ stdin \in StdinType /\ ending \in EndingType
      /\ UNCHANGED <<stdin, stdout, binding, view, rewatches, load>>
      /\ frames \in [Watchers -> Seq(Frame)] /\ stdin.acked \in Nat /\ ending.exits # {}
  BY DEF StreamTypeOK, StreamExits, StdinType
<1>1. ending' \in EndingType /\ ending'.exits = {} /\ ending'.terminal = ending.terminal /\ ending'.final = ending.final
  BY <1>0 DEF StreamExits, EndingType
<1>2. f \in Frame /\ f.kind = "exit" /\ f.n = ending.final
  BY <1>0 DEF Frame, EndingType
<1>3. frames' = To(ending.exits, f, frames)
  BY DEF StreamExits
<1> HIDE DEF f
<1>4. /\ frames' \in [Watchers -> Seq(Frame)]
      /\ \A v \in Watchers : frames'[v] = IF v \in ending.exits THEN Append(frames[v], f) ELSE frames[v]
  BY <1>0, <1>2, <1>3, ToAppends
<1>5. ending.terminal /\ \A v \in Watchers : ~Bound(v)
  BY <1>0 DEF ReaderStopped, Bindings, Bound
<1>6. StreamTypeOK'
  BY <1>0, <1>1, <1>4 DEF StreamTypeOK
<1>7. StdinCounted' /\ RoleIsBound' /\ ReaderStopped'
  BY <1>0, <1>1, <1>5 DEF StdinCounted, InHand, RoleIsBound, ReaderStopped, Bindings
<1>8. ASSUME NEW v \in Watchers
      PROVE  Watched(frames'[v], view'[v], binding'[v] # Unbound, v \in ending'.exits, stdout'.next, ending'.final, stdin'.acked)
  <2>0. Watched(frames[v], view[v], Bound(v), v \in ending.exits, stdout.next, ending.final, stdin.acked)
    BY WatchedIsAll
  <2>1. v \notin ending'.exits /\ binding'[v] = Unbound /\ view'[v] = view[v]
    BY <1>0, <1>1, <1>5 DEF Bound
  <2>2. CASE v \notin ending.exits
    BY <2>0, <2>1, <2>2, <1>0, <1>4 DEF Watched
  <2>3. CASE v \in ending.exits
    <3> DEFINE q == frames[v]
               got == view[v].got
               r == Append(q, f)
    <3>1. q \in Seq(Frame) /\ frames'[v] = r
      BY <2>3, <1>0, <1>4
    <3>2. /\ \A i \in 1..Len(q) : q[i].kind # "unwatched"
          /\ \A i \in 1..Len(q) : q[i].kind \in {"ack", "watched"} => q[i].n =< stdin.acked
          /\ ~view[v].ended => /\ \A i \in 1..Len(q) : q[i].kind \in {"out", "exit"} => LeadsTo(q, got, i - 1, q[i].n)
                               /\ LeadsTo(q, got, Len(q), ending.final)
          /\ view[v].acked =< stdin.acked
      BY <2>0, <2>3 DEF Watched
    <3> HIDE DEF q, got, r
    <3>3. /\ \A i \in 1..Len(r) : r[i].kind \in {"ack", "watched"} => r[i].n =< stdin.acked
          /\ \A i \in 1..Len(r) : r[i].kind # "unwatched"
          /\ ~view[v].ended => \A i \in 1..Len(r) : r[i].kind \in {"out", "exit"} => LeadsTo(r, got, i - 1, r[i].n)
      BY <3>1, <3>2, <1>0, <1>2, OneMoreFrame DEF r
    <3> QED  BY <2>1, <3>1, <3>2, <3>3, <1>0 DEF Watched, got
  <2> QED  BY <2>2, <2>3
<1>9. AcksTold' /\ WatchesAreUpToDate' /\ UnwatchedIsLast' /\ FramesAreWhole'
  BY <1>8, WatchedIsAll
<1> QED  BY <1>6, <1>7, <1>9

(* What a watcher makes of the frame it reads.                             *)
AfterFrame(v, f) ==
  CASE v.ended -> v
    [] ~v.ended /\ f.kind = "watched" ->
         [NoWatch EXCEPT !.on = TRUE, !.writable = f.writable, !.since = f.received,
            !.acked = f.n, !.got = f.next]
    [] ~v.ended /\ f.kind = "ack" -> [v EXCEPT !.acked = f.n]
    [] ~v.ended /\ f.kind = "out" -> [v EXCEPT !.got = f.n + 1]
    [] ~v.ended /\ f.kind = "unwatched" -> NoWatch
    [] ~v.ended /\ f.kind = "exit" -> [NoWatch EXCEPT !.ended = TRUE, !.got = v.got]

(* It goes where the frame leads, and is told what the frame tells.        *)
LEMMA AfterFrameType ==
  ASSUME NEW v \in ViewType, NEW f \in Frame
  PROVE  /\ AfterFrame(v, f) \in ViewType
         /\ ~AfterFrame(v, f).ended => ~v.ended
         /\ ~AfterFrame(v, f).ended /\ f.kind # "unwatched" =>
              AfterFrame(v, f).got = IF IsOutput(f) THEN Reaches(f) ELSE v.got
         /\ AfterFrame(v, f).acked \in {0, v.acked} \/ (f.kind \in {"ack", "watched"} /\ AfterFrame(v, f).acked = f.n)
<1> USE DEF AfterFrame
<1>1. CASE v.ended
  BY <1>1
<1>2. CASE ~v.ended /\ f.kind = "watched"
  <2>1. f.writable \in BOOLEAN /\ f.received \in Nat /\ f.n \in Nat /\ f.next \in Nat
    BY <1>2 DEF Frame
  <2>2. AfterFrame(v, f) = [NoWatch EXCEPT !.on = TRUE, !.writable = f.writable, !.since = f.received,
                              !.acked = f.n, !.got = f.next]
    BY <1>2
  <2>3. AfterFrame(v, f) \in ViewType /\ AfterFrame(v, f).acked = f.n /\ AfterFrame(v, f).got = f.next
    <3> HIDE DEF AfterFrame
    <3>1. PICK b \in BOOLEAN, n \in Nat, a \in Nat, g \in Nat :
            f.writable = b /\ f.received = n /\ f.n = a /\ f.next = g
      BY <2>1
    <3> DEFINE r1 == [NoWatch EXCEPT !.on = TRUE]
               r2 == [r1 EXCEPT !.writable = b]
               r3 == [r2 EXCEPT !.since = n]
               r4 == [r3 EXCEPT !.acked = a]
               r5 == [r4 EXCEPT !.got = g]
    <3>2. AfterFrame(v, f) = r5
      BY <2>2, <3>1, Zenon
    <3>3. r1 \in ViewType
      BY DEF NoWatch, ViewType
    <3> HIDE DEF r1
    <3>4. r2 \in ViewType
      BY <3>3 DEF ViewType
    <3> HIDE DEF r2
    <3>5. r3 \in ViewType
      BY <3>4 DEF ViewType
    <3> HIDE DEF r3
    <3>6. r4 \in ViewType /\ r4.acked = a
      BY <3>5 DEF ViewType
    <3> HIDE DEF r4
    <3>7. r5 \in ViewType /\ r5.acked = a /\ r5.got = g
      BY <3>6 DEF ViewType
    <3> HIDE DEF r5
    <3> QED  BY <3>1, <3>2, <3>7
  <2>4. IsOutput(f) /\ Reaches(f) = f.next
    BY <1>2 DEF IsOutput, Reaches
  <2> QED  BY <2>3, <2>4, <1>2
<1>3. CASE ~v.ended /\ f.kind = "ack"
  <2>1. f.n \in Nat /\ ~IsOutput(f)
    BY <1>3 DEF Frame, IsOutput
  <2>2. AfterFrame(v, f) = [v EXCEPT !.acked = f.n]
    BY <1>3
  <2> QED  BY <2>1, <2>2, <1>3 DEF ViewType
<1>4. CASE ~v.ended /\ f.kind = "out"
  <2>1. f.n + 1 \in Nat /\ IsOutput(f) /\ Reaches(f) = f.n + 1
    BY <1>4 DEF Frame, IsOutput, Reaches
  <2>2. AfterFrame(v, f) = [v EXCEPT !.got = f.n + 1]
    BY <1>4
  <2> QED  BY <2>1, <2>2, <1>4 DEF ViewType
<1>5. CASE ~v.ended /\ f.kind = "unwatched"
  <2>1. AfterFrame(v, f) = NoWatch
    BY <1>5
  <2> QED  BY <2>1, <1>5 DEF ViewType, NoWatch
<1>6. CASE ~v.ended /\ f.kind = "exit"
  <2>1. AfterFrame(v, f) = [NoWatch EXCEPT !.ended = TRUE, !.got = v.got]
    BY <1>6
  <2> QED  BY <2>1, <1>6 DEF ViewType, NoWatch
<1>7. f.kind \in {"watched", "ack", "out", "unwatched", "exit"}
  BY DEF Frame
<1> QED  BY <1>1, <1>2, <1>3, <1>4, <1>5, <1>6, <1>7

(* A watcher that reads a frame is where the rest of its queue goes on     *)
(* from.                                                                   *)
LEMMA ReadFrameKeeps ==
  ASSUME StreamInv, NEW w \in Watchers, ReadFrame(w)
  PROVE  StreamInv'
<1> USE DEF StreamInv
<1> DEFINE q == frames[w]
           f == Head(q)
           r == Tail(q)
           v == view[w]
           u == AfterFrame(v, f)
<1>0. /\ StreamTypeOK /\ stdin \in StdinType /\ stdin.acked \in Nat
      /\ UNCHANGED <<stdin, stdout, ending, binding, rewatches, load>>
      /\ frames \in [Watchers -> Seq(Frame)] /\ view \in [Watchers -> ViewType]
      /\ q \in Seq(Frame) /\ q # <<>> /\ v \in ViewType
  BY DEF StreamTypeOK, ReadFrame, StdinType
<1>1. /\ Len(q) \in Nat \ {0} /\ f = q[1] /\ f \in Frame /\ r \in Seq(Frame) /\ Len(r) = Len(q) - 1
      /\ \A k \in 1..(Len(q) - 1) : r[k] = q[k + 1]
  BY <1>0, HeadTailProperties
<1>2. frames' = [frames EXCEPT ![w] = r] /\ view' = [view EXCEPT ![w] = u]
  BY DEF ReadFrame, AfterFrame
<1>3. Watched(q, v, Bound(w), w \in ending.exits, stdout.next, ending.final, stdin.acked)
  BY WatchedIsAll
<1> HIDE DEF q, f, r, v, u
<1>4. /\ u \in ViewType /\ (~u.ended => ~v.ended)
      /\ ~u.ended /\ f.kind # "unwatched" => u.got = IF IsOutput(f) THEN Reaches(f) ELSE v.got
      /\ u.acked \in {0, v.acked} \/ (f.kind \in {"ack", "watched"} /\ u.acked = f.n)
  BY <1>0, <1>1, AfterFrameType DEF u
<1>5. StreamTypeOK'
  BY <1>0, <1>1, <1>2, <1>4 DEF StreamTypeOK
<1>6. StdinCounted' /\ RoleIsBound' /\ ReaderStopped'
  BY <1>0 DEF StdinCounted, InHand, RoleIsBound, ReaderStopped, Bindings
<1>7. frames'[w] = r /\ view'[w] = u /\ \A x \in Watchers \ {w} : frames'[x] = frames[x] /\ view'[x] = view[x]
  BY <1>0, <1>2
<1>8. \A i \in 1..Len(r) : i + 1 \in 1..Len(q) /\ r[i] = q[i + 1] /\ i + 1 # 1
  BY <1>1
<1>9. f.kind = "unwatched" => Len(q) = 1 /\ ~Bound(w) /\ w \notin ending.exits
  BY <1>1, <1>3 DEF Watched
<1>10. \A p : \A i \in 1..Len(q) : ~u.ended /\ f.kind # "unwatched" /\ LeadsTo(q, v.got, i, p) => LeadsTo(r, u.got, i - 1, p)
  <2> SUFFICES ASSUME NEW i \in 1..Len(q), NEW p, ~u.ended, f.kind # "unwatched", LeadsTo(q, v.got, i, p)
               PROVE  LeadsTo(r, u.got, i - 1, p)
    OBVIOUS
  <2>1. LeadsTo(Tail(q), IF IsOutput(Head(q)) THEN Reaches(Head(q)) ELSE v.got, i - 1, p)
    BY <1>0, TailLeads
  <2> QED  BY <2>1, <1>4 DEF r, f
<1>11. u.acked =< stdin.acked
  <2>1. v.acked =< stdin.acked /\ (f.kind \in {"ack", "watched"} => f.n =< stdin.acked)
    BY <1>1, <1>3 DEF Watched
  <2> QED  BY <2>1, <1>0, <1>4
<1>12. \A i \in 1..Len(r) : r[i].kind \in {"ack", "watched"} => r[i].n =< stdin.acked
  BY <1>3, <1>8 DEF Watched
<1>13. \A i \in 1..Len(r) : r[i].kind = "unwatched" => i = Len(r) /\ ~Bound(w) /\ w \notin ending.exits
  BY <1>1, <1>3, <1>8 DEF Watched
<1>14. ASSUME ~u.ended
       PROVE  /\ Bound(w) => LeadsTo(r, u.got, Len(r), stdout.next)
              /\ w \in ending.exits => LeadsTo(r, u.got, Len(r), ending.final)
  <2>1. Len(q) \in 1..Len(q) /\ Len(q) - 1 = Len(r)
    BY <1>1
  <2>2. /\ Bound(w) => LeadsTo(q, v.got, Len(q), stdout.next)
        /\ w \in ending.exits => LeadsTo(q, v.got, Len(q), ending.final)
    BY <1>3, <1>4, <1>14 DEF Watched
  <2> QED  BY <2>1, <2>2, <1>9, <1>10, <1>14
<1>15. ASSUME ~u.ended, NEW i \in 1..Len(r), r[i].kind \in {"out", "exit"}
       PROVE  LeadsTo(r, u.got, i - 1, r[i].n)
  <2>1. i + 1 \in 1..Len(q) /\ r[i] = q[i + 1] /\ (i + 1) - 1 = i /\ i \in 1..Len(q) /\ Len(q) # 1
    BY <1>1, <1>8
  <2>2. LeadsTo(q, v.got, (i + 1) - 1, q[i + 1].n)
    BY <1>3, <1>4, <1>15, <2>1 DEF Watched
  <2>3. LeadsTo(q, v.got, i, r[i].n)
    BY <2>1, <2>2
  <2> QED  BY <2>1, <2>3, <1>9, <1>10, <1>15
<1>16. ASSUME NEW x \in Watchers
       PROVE  Watched(frames'[x], view'[x], binding'[x] # Unbound, x \in ending'.exits, stdout'.next, ending'.final, stdin'.acked)
  <2>1. CASE x # w
    <3>1. Watched(frames[x], view[x], Bound(x), x \in ending.exits, stdout.next, ending.final, stdin.acked)
      BY WatchedIsAll
    <3>2. frames'[x] = frames[x] /\ view'[x] = view[x]
      BY <2>1, <1>7
    <3> QED  BY <3>1, <3>2, <1>0 DEF Watched, Bound
  <2>2. CASE x = w
    BY <2>2, <1>0, <1>7, <1>11, <1>12, <1>13, <1>14, <1>15 DEF Watched, Bound
  <2> QED  BY <2>1, <2>2
<1>17. AcksTold' /\ WatchesAreUpToDate' /\ UnwatchedIsLast' /\ FramesAreWhole'
  BY <1>16, WatchedIsAll
<1> QED  BY <1>5, <1>6, <1>17

-----------------------------------------------------------------------------
(* The theorems.                                                           *)

(* The creator watches and holds the role; nothing has been said.          *)
LEMMA InitEstablishesInv == StreamInit => StreamInv
<1> SUFFICES ASSUME StreamInit  PROVE StreamInv
  OBVIOUS
<1>0. Creator \in Watchers
  BY StreamConstants
<1>1. stdin \in StdinType /\ stdin.controller = Creator /\ stdin.received = 0 /\ stdin.acked = 0
      /\ stdin.queue = 0 /\ stdin.task = "waiting" /\ stdin.from = <<>>
  BY <1>0 DEF StreamInit, StdinType
<1>2. stdout \in StdoutType /\ stdout.next = 0 /\ stdout.readers = 1
  BY DEF StreamInit, StdoutType
<1>3. ending \in EndingType /\ ~ending.terminal /\ ending.exits = {}
  BY DEF StreamInit, EndingType
<1>4. binding \in [Watchers -> Nat \cup {Unbound}] /\ Bound(Creator) /\ \A w \in Watchers : w # Creator => ~Bound(w)
  BY <1>0 DEF StreamInit, Bound, Unbound
<1>5. view \in [Watchers -> ViewType] /\ \A w \in Watchers : view[w].got = 0 /\ view[w].acked = 0
  <2>1. NoWatch \in ViewType /\ [NoWatch EXCEPT !.on = TRUE, !.writable = TRUE] \in ViewType
        /\ NoWatch.got = 0 /\ NoWatch.acked = 0
        /\ [NoWatch EXCEPT !.on = TRUE, !.writable = TRUE].got = 0
        /\ [NoWatch EXCEPT !.on = TRUE, !.writable = TRUE].acked = 0
    BY DEF NoWatch, ViewType
  <2> QED  BY <2>1 DEF StreamInit
<1>6. frames \in [Watchers -> Seq(Frame)] /\ \A w \in Watchers : frames[w] = <<>>
  BY DEF StreamInit
<1>7. rewatches \in 0..MaxRewatches /\ load \in Loads
  BY StreamConstants DEF StreamInit
<1>8. StreamTypeOK
  BY <1>1, <1>2, <1>3, <1>4, <1>5, <1>6, <1>7 DEF StreamTypeOK
<1>9. StdinCounted /\ RoleIsBound /\ ReaderStopped
  BY <1>0, <1>1, <1>2, <1>3, <1>4 DEF StdinCounted, InHand, RoleIsBound, ReaderStopped, Bindings, Bound
<1>10. AcksTold /\ UnwatchedIsLast /\ FramesAreWhole
  BY <1>1, <1>5, <1>6 DEF AcksTold, UnwatchedIsLast, FramesAreWhole
<1>11. WatchesAreUpToDate
  <2>1. LeadsTo(<<>>, 0, 0, 0)
    BY DEF LeadsTo
  <2>2. ASSUME NEW w \in Watchers
        PROVE  LeadsTo(frames[w], view[w].got, Len(frames[w]), stdout.next) /\ w \notin ending.exits
    <3>1. frames[w] = <<>> /\ Len(frames[w]) = 0 /\ view[w].got = 0 /\ stdout.next = 0 /\ w \notin ending.exits
      BY <1>2, <1>3, <1>5, <1>6
    <3> QED  BY <2>1, <3>1
  <2> QED  BY <2>2 DEF WatchesAreUpToDate
<1> QED  BY <1>8, <1>9, <1>10, <1>11 DEF StreamInv

(* Every step keeps it, whoever takes it.                                  *)
LEMMA NextKeepsInv == StreamInv /\ [StreamNext]_streamVars => StreamInv'
<1> SUFFICES ASSUME StreamInv, [StreamNext]_streamVars  PROVE StreamInv'
  OBVIOUS
<1>1. ASSUME NEW w \in Watchers, NEW offset \in 0..load.ins, Stdin(w, offset)  PROVE StreamInv'
  BY <1>1, StdinKeeps
<1>2. ASSUME NEW w \in Watchers, CloseStdin(w) \/ StreamUnwatch(w) \/ ReadFrame(w)  PROVE StreamInv'
  BY <1>2, CloseStdinKeeps, UnwatchKeeps, ReadFrameKeeps
<1>3. ASSUME NEW w \in Watchers, NEW n \in 0..(load.outs + 1), OutputAck(w, n)  PROVE StreamInv'
  BY <1>3, OutputAckKeeps
<1>4. ASSUME NEW w \in Watchers, NEW wants \in BOOLEAN, StreamWatch(w, wants)  PROVE StreamInv'
  BY <1>4, WatchKeeps
<1>5. CASE WriterTakes \/ WriterWrites \/ WriterStops \/ AbortLands
  BY <1>5, WriterTakesKeeps, WriterWritesKeeps, WriterStopsKeeps, AbortLandsKeeps
<1>6. CASE ReaderReads \/ ReaderDelivers \/ ReaderStops
  BY <1>6, ReaderReadsKeeps, DeliversKeeps, ReaderStopsKeeps
<1>7. CASE StreamChildExits \/ StreamCleanup \/ StreamAbort \/ StreamQueueTerminal \/ StreamExits
  BY <1>7, ChildExitsKeeps, CleanupKeeps, AbortKeeps, QueueTerminalKeeps, ExitsKeep
<1>8. CASE UNCHANGED streamVars
  BY <1>8 DEF streamVars, StreamInv, StreamTypeOK, StdinCounted, InHand, AcksTold, RoleIsBound, ReaderStopped,
     WatchesAreUpToDate, UnwatchedIsLast, FramesAreWhole, Bindings, Bound
<1> QED  BY <1>1, <1>2, <1>3, <1>4, <1>5, <1>6, <1>7, <1>8 DEF StreamNext

(* The inductive invariant holds of every instance.                        *)
THEOREM InvHolds == StreamSpec => []StreamInv
BY InitEstablishesInv, NextKeepsInv, PTL DEF StreamSpec

-----------------------------------------------------------------------------
(* Who writes.                                                             *)

(* What a watcher is told of the role when it is bound stays true for as   *)
(* long as it is bound, and stdin's history agrees with it.                *)
Told(w, writable, since) ==
  /\ Bound(w) => (writable <=> stdin.controller = w)
  /\ \A i \in (since + 1)..Len(stdin.from) :
       IF writable THEN Bound(w) => stdin.from[i] = w ELSE stdin.from[i] # w

RolesTold ==
  \A w \in Watchers :
    /\ view[w].on => Told(w, view[w].writable, view[w].since)
    /\ \A i \in 1..Len(frames[w]) : frames[w][i].kind = "watched" =>
         Told(w, frames[w][i].writable, frames[w][i].received)

(* What a living writer task has still to acknowledge.                     *)
AllCounted ==
  stdin.task \in {"waiting", "writing"} =>
    stdin.received = stdin.acked + stdin.queue + (IF stdin.task = "writing" THEN 1 ELSE 0)

(* A step that takes nothing from a watcher and gives the role to nobody:  *)
(* what each is told, it is told already.                                  *)
RolesStay ==
  /\ stdin'.from = stdin.from
  /\ \A w \in Watchers : binding'[w] # Unbound => Bound(w) /\ (stdin'.controller = w <=> stdin.controller = w)
RolesHeard ==
  \A w \in Watchers :
    /\ view'[w].on =>
         \/ /\ view[w].on /\ view'[w].writable = view[w].writable
            /\ view'[w].since = view[w].since
         \/ \E i \in 1..Len(frames[w]) :
              /\ frames[w][i].kind = "watched" /\ view'[w].writable = frames[w][i].writable
              /\ view'[w].since = frames[w][i].received
    /\ \A i \in 1..Len(frames'[w]) : frames'[w][i].kind = "watched" =>
         \E j \in 1..Len(frames[w]) : frames[w][j] = frames'[w][i]

(* Such a step keeps what is told.                                         *)
LEMMA StayKeepsRoles ==
  ASSUME RolesTold, RolesStay, RolesHeard
  PROVE  RolesTold'
<1>1. ASSUME NEW w \in Watchers, NEW writable, NEW since, Told(w, writable, since)
      PROVE  /\ binding'[w] # Unbound => (writable <=> stdin'.controller = w)
             /\ \A i \in (since + 1)..Len(stdin'.from) :
                  IF writable THEN binding'[w] # Unbound => stdin'.from[i] = w ELSE stdin'.from[i] # w
  BY <1>1 DEF Told, RolesStay
<1>2. ASSUME NEW w \in Watchers, view'[w].on
      PROVE  Told(w, view'[w].writable, view'[w].since)
  BY <1>2 DEF RolesTold, RolesHeard
<1>3. ASSUME NEW w \in Watchers, NEW i \in 1..Len(frames'[w]), frames'[w][i].kind = "watched"
      PROVE  Told(w, frames'[w][i].writable, frames'[w][i].received)
  BY <1>3 DEF RolesTold, RolesHeard
<1>4. ASSUME NEW w \in Watchers, view'[w].on
      PROVE  Told(w, view[w].writable, view[w].since)'
  BY <1>1, <1>2, <1>4 DEF Told, Bound
<1>5. ASSUME NEW w \in Watchers, NEW i \in 1..Len(frames'[w]), frames'[w][i].kind = "watched"
      PROVE  /\ Bound(w)' => (frames'[w][i].writable <=> stdin'.controller = w)
             /\ \A k \in (frames'[w][i].received + 1)..Len(stdin'.from) :
                  IF frames'[w][i].writable THEN Bound(w)' => stdin'.from[k] = w ELSE stdin'.from[k] # w
  BY <1>1, <1>3, <1>5 DEF Bound
<1>. QED
  BY <1>4, <1>5 DEF RolesTold, Told

(* A frame that tells nothing of the role.                                 *)
LEMMA OtherFrameHeard ==
  ASSUME StreamTypeOK, UNCHANGED view,
         frames' = frames \/ \E f \in Frame, ws \in SUBSET Watchers :
                                  f.kind # "watched" /\ frames' = To(ws, f, frames)
  PROVE  RolesHeard
<1>0. frames \in [Watchers -> Seq(Frame)]
  BY DEF StreamTypeOK
<1>1. ASSUME NEW w \in Watchers, NEW i \in 1..Len(frames'[w]), frames'[w][i].kind = "watched"
      PROVE  \E j \in 1..Len(frames[w]) : frames[w][j] = frames'[w][i]
  <2>1. CASE frames' = frames
    BY <1>1, <2>1
  <2>2. ASSUME NEW f \in Frame, NEW ws \in SUBSET Watchers, f.kind # "watched", frames' = To(ws, f, frames)
        PROVE  \E j \in 1..Len(frames[w]) : frames[w][j] = frames'[w][i]
    <3>0. To(ws, f, frames)[w] = IF w \in ws THEN Append(frames[w], f) ELSE frames[w]
      BY <1>0, <2>2, ToAppends
    <3>1. frames'[w] = frames[w] \/ frames'[w] = Append(frames[w], f)
      BY <2>2, <3>0
    <3>2. frames[w] \in Seq(Frame)
      BY <1>0
    <3>3. CASE frames'[w] = Append(frames[w], f)
      <4>1. i # Len(frames[w]) + 1
        BY <1>1, <2>2, <3>2, <3>3
      <4>2. i \in 1..Len(frames[w]) /\ frames'[w][i] = frames[w][i]
        BY <1>1, <3>2, <3>3, <4>1
      <4> QED  BY <4>2
    <3> QED  BY <1>1, <3>1, <3>3
  <2> QED  BY <2>1, <2>2
<1>. QED
  BY <1>1 DEF RolesHeard

(* An acknowledgement is such a frame (SendAck).                           *)
LEMMA AckHeard ==
  ASSUME StreamTypeOK, UNCHANGED view, NEW in \in StdinType, frames' = frames \/ SendAck(in)
  PROVE  RolesHeard
<1>1. AckFrame(in) \in Frame /\ AckFrame(in).kind # "watched"
  BY DEF AckFrame, Frame, StdinType
<1>2. CASE SendAck(in)
  <2>1. Bindings \in SUBSET Watchers
    BY DEF Bindings
  <2> QED  BY <1>1, <1>2, <2>1, OtherFrameHeard DEF SendAck
<1>. QED
  BY <1>2, OtherFrameHeard

(* Both facts, of a step that leaves who is bound and who holds the role.  *)
LEMMA SameRoles ==
  ASSUME StreamInv, RolesTold, stdin'.from = stdin.from, stdin'.controller = stdin.controller,
         \A w \in Watchers : binding'[w] # Unbound => Bound(w), RolesHeard
  PROVE  RolesTold'
BY StayKeepsRoles DEF RolesStay

(* The role is taken from everyone when the end is queued, and from nobody *)
(* before (StreamTerminal).                                                *)
LEMMA TerminalRoles ==
  ASSUME StreamInv, RolesTold, AllCounted, NEW in, NEW out, NEW end, StreamTerminal(in, out, end, binding),
         in \in StdinType, in.from = stdin.from, in.controller = stdin.controller, RolesHeard,
         in.task \in {"waiting", "writing"} =>
           in.received = in.acked + in.queue + (IF in.task = "writing" THEN 1 ELSE 0)
  PROVE  RolesTold' /\ AllCounted'
<1>1. CASE stdin' = in /\ binding' = binding
  <2>1. RolesTold'
    BY <1>1, SameRoles DEF Bound
  <2> QED  BY <1>1, <2>1 DEF AllCounted
<1>2. CASE stdin' = [in EXCEPT !.controller = "nobody"] /\ binding' = [w \in Watchers |-> Unbound]
  <2>1. /\ stdin'.from = in.from /\ stdin'.task = in.task /\ stdin'.received = in.received
        /\ stdin'.acked = in.acked /\ stdin'.queue = in.queue
    BY <1>2 DEF StdinType
  <2>2. RolesStay
    BY <1>2, <2>1 DEF RolesStay
  <2> QED  BY <2>1, <2>2, StayKeepsRoles DEF AllCounted
<1>. QED
  BY <1>1, <1>2 DEF StreamTerminal

(* The watcher that holds the role writes; the others are told it is not   *)
(* theirs (stdin).                                                         *)
LEMMA StdinRoles ==
  ASSUME StreamInv, RolesTold, AllCounted, NEW w \in Watchers, NEW offset \in Nat, Stdin(w, offset)
  PROVE  RolesTold' /\ AllCounted'
<1>0. StreamTypeOK /\ stdin \in StdinType /\ Bound(w) /\ UNCHANGED <<binding, view>>
  BY DEF StreamInv, StreamTypeOK, Stdin
<1>1. CASE SendAckTo(w) /\ UNCHANGED stdin
  <2>1. AckFrame(stdin) \in Frame /\ AckFrame(stdin).kind # "watched"
    BY <1>0 DEF AckFrame, Frame, StdinType
  <2>2. RolesHeard
    BY <1>0, <1>1, <2>1, OtherFrameHeard DEF SendAckTo
  <2>3. RolesTold'
    BY <1>0, <1>1, <2>2, SameRoles DEF Bound
  <2> QED  BY <1>1, <2>3 DEF AllCounted
<1>2. CASE StdinTakes(w, offset) /\ UNCHANGED frames
           /\ stdin' = [stdin EXCEPT !.received = offset + 1, !.queue = @ + 1, !.from = Append(@, w)]
  <2>1. offset = stdin.received /\ stdin.controller = w
    BY <1>2 DEF StdinTakes
  <2>2. /\ stdin'.from = Append(stdin.from, w) /\ stdin'.controller = stdin.controller
        /\ stdin'.received = stdin.received + 1 /\ stdin'.queue = stdin.queue + 1
        /\ stdin'.acked = stdin.acked /\ stdin'.task = stdin.task
    BY <1>0, <1>2, <2>1, StdinTaken
  <2>3. stdin.from \in Seq(Watchers) /\ stdin.received \in Nat /\ stdin.queue \in Nat /\ stdin.acked \in Nat
    BY <1>0 DEF StdinType
  <2>4. /\ Len(stdin'.from) = Len(stdin.from) + 1 /\ Len(stdin.from) \in Nat
        /\ stdin'.from[Len(stdin.from) + 1] = w
        /\ \A i \in 1..Len(stdin.from) : stdin'.from[i] = stdin.from[i]
    BY <2>2, <2>3
  <2>5. ASSUME NEW v \in Watchers, NEW writable, NEW since \in Nat, Told(v, writable, since)
        PROVE  /\ Bound(v) => (writable <=> stdin'.controller = v)
               /\ \A i \in (since + 1)..Len(stdin'.from) :
                    IF writable THEN Bound(v) => stdin'.from[i] = v ELSE stdin'.from[i] # v
    <3>1. Bound(v) => (writable <=> v = w)
      BY <2>1, <2>5 DEF Told
    <3>2. ASSUME NEW i \in (since + 1)..Len(stdin'.from)
          PROVE  IF writable THEN Bound(v) => stdin'.from[i] = v ELSE stdin'.from[i] # v
      <4>1. CASE i = Len(stdin.from) + 1
        BY <1>0, <2>4, <3>1, <4>1
      <4>2. CASE i # Len(stdin.from) + 1
        <5>1. i \in (since + 1)..Len(stdin.from) /\ i \in 1..Len(stdin.from)
          BY <2>4, <4>2
        <5> QED  BY <2>4, <2>5, <5>1 DEF Told
      <4> QED  BY <4>1, <4>2
    <3> QED  BY <2>1, <2>2, <3>1, <3>2
  <2>6. ASSUME NEW v \in Watchers, view[v].on
        PROVE  /\ Bound(v) => (view[v].writable <=> stdin'.controller = v)
               /\ \A i \in (view[v].since + 1)..Len(stdin'.from) :
                    IF view[v].writable THEN Bound(v) => stdin'.from[i] = v ELSE stdin'.from[i] # v
    <3>1. view[v].since \in Nat
      BY <1>0 DEF StreamTypeOK, ViewType
    <3>2. Told(v, view[v].writable, view[v].since)
      BY <2>6 DEF RolesTold
    <3> QED  BY <2>5, <3>1, <3>2
  <2>7. ASSUME NEW v \in Watchers, NEW k \in 1..Len(frames[v]), frames[v][k].kind = "watched"
        PROVE  /\ Bound(v) => (frames[v][k].writable <=> stdin'.controller = v)
               /\ \A i \in (frames[v][k].received + 1)..Len(stdin'.from) :
                    IF frames[v][k].writable THEN Bound(v) => stdin'.from[i] = v ELSE stdin'.from[i] # v
    <3>1. frames[v][k] \in Frame
      BY <1>0 DEF StreamTypeOK
    <3>2. frames[v][k].received \in Nat
      BY <2>7, <3>1 DEF Frame
    <3>3. Told(v, frames[v][k].writable, frames[v][k].received)
      BY <2>7 DEF RolesTold
    <3> QED  BY <2>5, <3>2, <3>3
  <2>8. RolesTold'
    <3>1. ASSUME NEW v \in Watchers, view[v].on  PROVE Told(v, view[v].writable, view[v].since)'
      BY <1>0, <2>6, <3>1 DEF Told, Bound
    <3>0. frames' = frames /\ binding' = binding
      BY <1>0, <1>2
    <3>2. ASSUME NEW v \in Watchers, NEW k \in 1..Len(frames[v]), frames[v][k].kind = "watched"
          PROVE  Told(v, frames[v][k].writable, frames[v][k].received)'
      <4>1. frames'[v][k].writable = frames[v][k].writable /\ frames'[v][k].received = frames[v][k].received
        BY <3>0
      <4>2. /\ Bound(v) => (frames[v][k].writable <=> stdin'.controller = v)
            /\ \A i \in (frames[v][k].received + 1)..Len(stdin'.from) :
                 IF frames[v][k].writable THEN Bound(v) => stdin'.from[i] = v ELSE stdin'.from[i] # v
        BY <2>7, <3>2
      <4> QED  BY <3>0, <4>1, <4>2 DEF Told, Bound
    <3> QED  BY <1>0, <1>2, <3>1, <3>2 DEF RolesTold
  <2>9. AllCounted'
    BY <2>2, <2>3 DEF AllCounted
  <2> QED  BY <2>8, <2>9
<1>. QED
  BY <1>1, <1>2 DEF Stdin

(* A new watcher is told whether the role is its own (watch).              *)
LEMMA WatchRoles ==
  ASSUME StreamInv, RolesTold, AllCounted, NEW w \in Watchers, NEW wants \in BOOLEAN, StreamWatch(w, wants)
  PROVE  RolesTold' /\ AllCounted'
<1>0. /\ StreamTypeOK /\ stdin \in StdinType /\ UNCHANGED view /\ ~Bound(w) /\ ~view[w].on /\ frames[w] = <<>>
      /\ frames \in [Watchers -> Seq(Frame)] /\ binding \in [Watchers -> Nat \cup {Unbound}]
  BY DEF StreamInv, StreamTypeOK, StreamWatch
<1>1. /\ stdin'.controller = IF wants THEN w ELSE stdin.controller
      /\ wants => stdin.controller = "nobody"
      /\ stdin'.from = stdin.from /\ stdin'.received = stdin.received /\ stdin'.queue = stdin.queue
      /\ stdin'.acked = stdin.acked /\ stdin'.task = stdin.task
  BY <1>0 DEF StreamWatch, StdinType
<1>2. AllCounted'
  BY <1>1 DEF AllCounted
<1>. DEFINE f == [kind |-> "watched", writable |-> wants, received |-> stdin.received,
                  n |-> stdin.acked, next |-> stdout.next]
<1>3. f \in Frame /\ f.writable = wants /\ f.received = stdin.received
  BY <1>0 DEF Frame, StreamTypeOK, StdinType, StdoutType
<1>4. frames' = To({w}, f, frames) /\ binding' = [binding EXCEPT ![w] = stdout.next]
  BY DEF StreamWatch
<1>. HIDE DEF f
<1>5. frames'[w] = <<f>> /\ \A v \in Watchers \ {w} : frames'[v] = frames[v] /\ binding'[v] = binding[v]
  <2>1. \A v \in Watchers : To({w}, f, frames)[v] = IF v \in {w} THEN Append(frames[v], f) ELSE frames[v]
    BY <1>0, <1>3, ToAppends
  <2>2. Append(frames[w], f) = <<f>>
    BY <1>0, <1>3
  <2> QED  BY <1>0, <1>4, <2>1, <2>2
<1>6. w # "nobody" /\ stdin.controller # w
  BY <1>0, StreamConstants DEF StreamInv, RoleIsBound, Bindings, Bound
<1>7. wants <=> stdin'.controller = w
  BY <1>1, <1>6
<1>8. ASSUME NEW v \in Watchers, v # w, NEW writable, NEW since, Told(v, writable, since)
      PROVE  /\ binding'[v] # Unbound => (writable <=> stdin'.controller = v)
             /\ \A i \in (since + 1)..Len(stdin'.from) :
                  IF writable THEN binding'[v] # Unbound => stdin'.from[i] = v ELSE stdin'.from[i] # v
  <2>1. v # "nobody" /\ binding'[v] = binding[v]
    BY <1>5, <1>8, StreamConstants
  <2>2. stdin'.controller = v <=> stdin.controller = v
    BY <1>1, <1>8, <2>1
  <2> QED  BY <1>1, <1>8, <2>1, <2>2 DEF Told, Bound
<1>9. ASSUME NEW v \in Watchers, view'[v].on
      PROVE  /\ binding'[v] # Unbound => (view'[v].writable <=> stdin'.controller = v)
             /\ \A i \in (view'[v].since + 1)..Len(stdin'.from) :
                  IF view'[v].writable THEN binding'[v] # Unbound => stdin'.from[i] = v ELSE stdin'.from[i] # v
  <2>1. v # w /\ view'[v] = view[v] /\ view[v].on
    BY <1>0, <1>9
  <2>2. Told(v, view[v].writable, view[v].since)
    BY <2>1 DEF RolesTold
  <2> QED  BY <1>8, <2>1, <2>2
<1>10. ASSUME NEW v \in Watchers, NEW k \in 1..Len(frames'[v]), frames'[v][k].kind = "watched"
       PROVE  /\ binding'[v] # Unbound => (frames'[v][k].writable <=> stdin'.controller = v)
              /\ \A i \in (frames'[v][k].received + 1)..Len(stdin'.from) :
                   IF frames'[v][k].writable THEN binding'[v] # Unbound => stdin'.from[i] = v
                                             ELSE stdin'.from[i] # v
  <2>1. CASE v = w
    <3>1. frames'[v][k] = f
      BY <1>5, <1>10, <2>1
    <3>2. Len(stdin'.from) = stdin.received /\ stdin.received \in Nat
      BY <1>0, <1>1 DEF StreamInv, StdinCounted, StdinType
    <3>3. \A i \in (frames'[v][k].received + 1)..Len(stdin'.from) : FALSE
      BY <1>3, <3>1, <3>2
    <3> QED  BY <1>3, <1>7, <2>1, <3>1, <3>3
  <2>2. CASE v # w
    <3>1. frames'[v] = frames[v]
      BY <1>5, <2>2
    <3>2. Told(v, frames[v][k].writable, frames[v][k].received)
      BY <1>10, <3>1 DEF RolesTold
    <3> QED  BY <1>8, <2>2, <3>1, <3>2
  <2> QED  BY <2>1, <2>2
<1>11. RolesTold'
  BY <1>9, <1>10 DEF RolesTold, Told, Bound
<1>. QED
  BY <1>2, <1>11

(* Who is unbound loses the role, and nobody else does (release_controller)*)
LEMMA ReleaseRoles ==
  ASSUME StreamInv, RolesTold, AllCounted, NEW ws, RolesHeard, stdin' = Released(ws, stdin),
         binding' = [v \in Watchers |-> IF v \in ws THEN Unbound ELSE binding[v]]
  PROVE  RolesTold' /\ AllCounted'
<1>0. stdin \in StdinType
  BY DEF StreamInv, StreamTypeOK
<1>1. /\ stdin'.received = stdin.received /\ stdin'.queue = stdin.queue /\ stdin'.from = stdin.from
      /\ stdin'.acked = stdin.acked /\ stdin'.task = stdin.task
      /\ stdin'.controller = IF stdin.controller \in ws THEN "nobody" ELSE stdin.controller
  BY <1>0, ReleasedType
<1>2. ASSUME NEW v \in Watchers, binding'[v] # Unbound
      PROVE  Bound(v) /\ (stdin'.controller = v <=> stdin.controller = v)
  <2>1. v \notin ws /\ Bound(v) /\ v # "nobody"
    BY <1>2, StreamConstants DEF Bound
  <2> QED  BY <1>1, <2>1
<1>3. RolesStay
  BY <1>1, <1>2 DEF RolesStay
<1>4. RolesTold'
  BY <1>3, StayKeepsRoles
<1>. QED
  BY <1>1, <1>4 DEF AllCounted

(* A watcher that loses its watch shows nothing; the others are told       *)
(* nothing of the role (output_ack, unwatch, output_reader).               *)
LEMMA LeavingRoles ==
  ASSUME StreamInv, RolesTold, AllCounted,
         \/ \E w \in Watchers, n \in Nat : OutputAck(w, n)
         \/ \E w \in Watchers : StreamUnwatch(w)
         \/ ReaderDelivers
  PROVE  RolesTold' /\ AllCounted'
<1>0. /\ StreamTypeOK /\ stdin \in StdinType /\ view \in [Watchers -> ViewType]
      /\ frames \in [Watchers -> Seq(Frame)] /\ stdout.next \in Nat
  BY DEF StreamInv, StreamTypeOK, StdoutType
<1>1. ~[NoWatch EXCEPT !.ended = TRUE].on
  BY DEF NoWatch
<1>2. ASSUME NEW w \in Watchers, NEW n \in Nat, OutputAck(w, n)  PROVE RolesTold' /\ AllCounted'
  <2>1. CASE binding' = [binding EXCEPT ![w] = n] /\ UNCHANGED <<stdin, view, frames>>
    <3>1. RolesHeard
      BY <1>0, <2>1, OtherFrameHeard
    <3>2. \A v \in Watchers : binding'[v] # Unbound => Bound(v)
      BY <1>2, <2>1 DEF OutputAck, Bound, StreamInv, StreamTypeOK
    <3>3. RolesTold'
      BY <2>1, <3>1, <3>2, SameRoles
    <3> QED  BY <2>1, <3>3 DEF AllCounted
  <2>2. CASE /\ Unbind({w}) /\ stdin' = Released({w}, stdin) /\ UNCHANGED frames
             /\ view' = [view EXCEPT ![w] = [NoWatch EXCEPT !.ended = TRUE]]
    <3>1. \A v \in Watchers : view'[v] = IF v = w THEN [NoWatch EXCEPT !.ended = TRUE] ELSE view[v]
      BY <1>0, <2>2
    <3>2. RolesHeard
      BY <1>1, <2>2, <3>1 DEF RolesHeard
    <3> QED  BY <2>2, <3>2, ReleaseRoles DEF Unbind
  <2> QED  BY <1>2, <2>1, <2>2 DEF OutputAck
<1>3. ASSUME NEW w \in Watchers, StreamUnwatch(w)  PROVE RolesTold' /\ AllCounted'
  <2>1. [kind |-> "unwatched"] \in Frame /\ [kind |-> "unwatched"].kind # "watched"
    BY DEF Frame
  <2>2. RolesHeard
    BY <1>0, <1>3, <2>1, OtherFrameHeard DEF StreamUnwatch
  <2> QED  BY <1>3, <2>2, ReleaseRoles DEF StreamUnwatch, Unbind
<1>4. CASE ReaderDelivers
  <2>. DEFINE slow == {w \in Bindings : ~HasCredit(w)}
              f == [kind |-> "out", n |-> stdout.next]
  <2>1. f \in Frame /\ f.kind # "watched"
    BY <1>0 DEF Frame
  <2>2. /\ frames' = To(Bindings \ slow, f, frames) /\ stdin' = Released(slow, stdin)
        /\ binding' = [w \in Watchers |-> IF w \in slow THEN Unbound ELSE binding[w]]
        /\ view' = [w \in Watchers |-> IF w \in slow THEN [NoWatch EXCEPT !.ended = TRUE] ELSE view[w]]
    BY <1>4 DEF ReaderDelivers, Unbind
  <2>. HIDE DEF f, slow
  <2>3. ASSUME NEW w \in Watchers, NEW i \in 1..Len(frames'[w]), frames'[w][i].kind = "watched"
        PROVE  \E j \in 1..Len(frames[w]) : frames[w][j] = frames'[w][i]
    <3>0. To(Bindings \ slow, f, frames)[w] = IF w \in Bindings \ slow THEN Append(frames[w], f) ELSE frames[w]
      BY <1>0, <2>1, ToAppends
    <3>1. frames'[w] = frames[w] \/ frames'[w] = Append(frames[w], f)
      BY <2>2, <3>0
    <3>2. frames[w] \in Seq(Frame)
      BY <1>0
    <3>3. CASE frames'[w] = Append(frames[w], f)
      <4>1. i # Len(frames[w]) + 1
        BY <2>1, <2>3, <3>2, <3>3
      <4>2. i \in 1..Len(frames[w]) /\ frames'[w][i] = frames[w][i]
        BY <2>3, <3>2, <3>3, <4>1
      <4> QED  BY <4>2
    <3> QED  BY <2>3, <3>1, <3>3
  <2>4. \A w \in Watchers : view'[w].on => view'[w] = view[w]
    BY <1>1, <2>2
  <2>5. RolesHeard
    BY <2>3, <2>4 DEF RolesHeard
  <2> QED  BY <2>2, <2>5, ReleaseRoles
<1>. QED
  BY <1>2, <1>3, <1>4

(* The frame that ends a wait tells what was queued for it.                *)
LEMMA ReadRoles ==
  ASSUME StreamInv, RolesTold, AllCounted, NEW w \in Watchers, ReadFrame(w)
  PROVE  RolesTold' /\ AllCounted'
<1>. DEFINE q == frames[w]
            f == Head(q)
            v == view[w]
            u == AfterFrame(v, f)
<1>0. /\ UNCHANGED <<stdin, binding>> /\ q \in Seq(Frame) /\ q # <<>> /\ v \in ViewType
      /\ frames \in [Watchers -> Seq(Frame)] /\ view \in [Watchers -> ViewType]
  BY DEF StreamInv, StreamTypeOK, ReadFrame
<1>1. frames' = [frames EXCEPT ![w] = Tail(q)] /\ view' = [view EXCEPT ![w] = u]
  BY DEF ReadFrame, AfterFrame
<1>2. 1 \in 1..Len(q) /\ f = q[1] /\ f \in Frame
  BY <1>0
<1>. HIDE DEF f, u
<1>3. u.on => \/ v.on /\ u.writable = v.writable /\ u.since = v.since
              \/ f.kind = "watched" /\ u.writable = f.writable /\ u.since = f.received
  <2>. USE DEF u, AfterFrame
  <2>1. CASE v.ended
    BY <2>1
  <2>2. CASE ~v.ended /\ f.kind = "watched"
    <3>1. u = [NoWatch EXCEPT !.on = TRUE, !.writable = f.writable, !.since = f.received,
                 !.acked = f.n, !.got = f.next]
      BY <2>2
    <3> QED  BY <2>2, <3>1 DEF NoWatch
  <2>3. CASE ~v.ended /\ f.kind = "ack"
    <3>1. u = [v EXCEPT !.acked = f.n]
      BY <2>3
    <3> QED  BY <1>0, <3>1 DEF ViewType
  <2>4. CASE ~v.ended /\ f.kind = "out"
    <3>1. u = [v EXCEPT !.got = f.n + 1]
      BY <2>4
    <3> QED  BY <1>0, <3>1 DEF ViewType
  <2>5. CASE ~v.ended /\ f.kind = "unwatched"
    BY <2>5 DEF NoWatch
  <2>6. CASE ~v.ended /\ f.kind = "exit"
    <3>1. u = [NoWatch EXCEPT !.ended = TRUE, !.got = v.got]
      BY <2>6
    <3> QED  BY <3>1 DEF NoWatch
  <2>7. f.kind \in {"watched", "ack", "out", "unwatched", "exit"}
    BY <1>2 DEF Frame
  <2> QED  BY <2>1, <2>2, <2>3, <2>4, <2>5, <2>6, <2>7
<1>4. /\ frames'[w] = Tail(q) /\ view'[w] = u
      /\ \A x \in Watchers \ {w} : frames'[x] = frames[x] /\ view'[x] = view[x]
  BY <1>0, <1>1
<1>5. ASSUME NEW i \in 1..Len(Tail(q))
      PROVE  i + 1 \in 1..Len(q) /\ q[i + 1] = Tail(q)[i]
  BY <1>0
<1>. HIDE DEF q, v
<1>6. RolesHeard
  <2>1. ASSUME NEW x \in Watchers, view'[x].on
        PROVE  \/ /\ view[x].on /\ view'[x].writable = view[x].writable
                  /\ view'[x].since = view[x].since
               \/ \E i \in 1..Len(frames[x]) :
                    /\ frames[x][i].kind = "watched" /\ view'[x].writable = frames[x][i].writable
                    /\ view'[x].since = frames[x][i].received
    <3>1. CASE x = w
      BY <1>2, <1>3, <1>4, <2>1, <3>1 DEF q, v
    <3>2. CASE x # w
      BY <1>4, <2>1, <3>2
    <3> QED  BY <3>1, <3>2
  <2>2. ASSUME NEW x \in Watchers, NEW i \in 1..Len(frames'[x])
        PROVE  \E j \in 1..Len(frames[x]) : frames[x][j] = frames'[x][i]
    <3>1. CASE x = w
      <4>1. i \in 1..Len(Tail(q)) /\ frames'[x][i] = Tail(q)[i]
        BY <1>4, <2>2, <3>1
      <4>2. i + 1 \in 1..Len(q) /\ q[i + 1] = Tail(q)[i]
        BY <1>5, <4>1
      <4> QED  BY <3>1, <4>1, <4>2 DEF q
    <3>2. CASE x # w
      BY <1>4, <2>2, <3>2
    <3> QED  BY <3>1, <3>2
  <2> QED  BY <2>1, <2>2 DEF RolesHeard
<1>7. RolesTold'
  BY <1>0, <1>6, SameRoles DEF Bound
<1>. QED
  BY <1>0, <1>7 DEF AllCounted

(* The tasks of stdin and stdout, and closing stdin, leave the roles.      *)
LEMMA TaskRoles ==
  ASSUME StreamInv, RolesTold, AllCounted,
         \/ \E w \in Watchers : CloseStdin(w)
         \/ WriterTakes \/ WriterWrites \/ AbortLands \/ ReaderReads
         \/ StreamCleanup \/ StreamAbort \/ StreamExits
  PROVE  RolesTold' /\ AllCounted'
<1>0. StreamTypeOK /\ stdin \in StdinType /\ stdin.queue \in Nat /\ stdin.acked \in Nat /\ stdin.received \in Nat
      /\ StoppedIn \in StdinType /\ ending.final \in Nat
  BY StoppedInType DEF StreamInv, StreamTypeOK, StdinType, EndingType
<1>1. ASSUME NEW in \in StdinType, stdin' = in, in.from = stdin.from, in.controller = stdin.controller,
             frames' = frames \/ SendAck(in), UNCHANGED <<binding, view>>,
             in.task \in {"waiting", "writing"} =>
               in.received = in.acked + in.queue + (IF in.task = "writing" THEN 1 ELSE 0)
      PROVE  RolesTold' /\ AllCounted'
  <2>1. RolesHeard
    BY <1>0, <1>1, AckHeard
  <2>2. RolesTold'
    BY <1>1, <2>1, SameRoles DEF Bound
  <2> QED  BY <1>1, <2>2 DEF AllCounted
<1>2. CASE UNCHANGED <<stdin, binding, view, frames>>
  BY <1>0, <1>1, <1>2 DEF AllCounted
<1>3. ASSUME NEW w \in Watchers, CloseStdin(w)  PROVE RolesTold' /\ AllCounted'
  <2>. DEFINE in == [stdin EXCEPT !.state = "closing", !.tx = FALSE]
  <2>1. /\ in \in StdinType /\ in.from = stdin.from /\ in.controller = stdin.controller
        /\ in.task = stdin.task /\ in.received = stdin.received /\ in.acked = stdin.acked /\ in.queue = stdin.queue
    BY <1>0 DEF StdinType
  <2>2. stdin' = in /\ SendAck(stdin') /\ UNCHANGED <<binding, view>>
    BY <1>3 DEF CloseStdin
  <2>. HIDE DEF in
  <2>3. SendAck(in)
    BY <2>2
  <2>. QED  BY <1>1, <2>1, <2>2, <2>3 DEF AllCounted
<1>4. CASE WriterTakes
  <2>. DEFINE queue == stdin.queue - 1
              in == [stdin EXCEPT !.task = "writing", !.queue = queue]
  <2>0. queue \in Nat /\ stdin.task = "waiting"
    BY <1>0, <1>4 DEF WriterTakes
  <2>1. /\ in \in StdinType /\ in.from = stdin.from /\ in.controller = stdin.controller
        /\ in.task = "writing" /\ in.received = stdin.received /\ in.acked = stdin.acked
        /\ in.queue = stdin.queue - 1
    BY <1>0, <2>0 DEF StdinType
  <2>2. stdin' = in /\ frames' = frames /\ UNCHANGED <<binding, view>>
    BY <1>4 DEF WriterTakes
  <2>. HIDE DEF in
  <2>3. in.received = in.acked + in.queue + 1
    BY <1>0, <2>0, <2>1 DEF AllCounted
  <2>. QED  BY <1>1, <2>1, <2>2, <2>3
<1>5. CASE WriterWrites
  <2>. DEFINE task == IF stdin.task = "writing" THEN "waiting" ELSE "gone"
              acked == stdin.acked + 1
              in == [stdin EXCEPT !.task = task, !.acked = acked]
  <2>0. acked \in Nat /\ task \in {"waiting", "gone"} /\ (task = "waiting" => stdin.task = "writing")
    BY <1>0
  <2>. HIDE DEF task, acked
  <2>1. /\ in \in StdinType /\ in.from = stdin.from /\ in.controller = stdin.controller
        /\ in.task = task /\ in.received = stdin.received /\ in.acked = acked /\ in.queue = stdin.queue
    BY <1>0, <2>0 DEF StdinType
  <2>2. stdin' = in /\ SendAck(stdin') /\ UNCHANGED <<binding, view>>
    BY <1>5 DEF WriterWrites, task, acked
  <2>. HIDE DEF in
  <2>3. SendAck(in)
    BY <2>2
  <2>4. in.task = "waiting" => in.received = in.acked + in.queue
    BY <1>0, <2>0, <2>1 DEF AllCounted, acked
  <2>. QED  BY <1>0, <1>1, <2>0, <2>1, <2>2, <2>3, <2>4
<1>6. CASE AbortLands
  <2>1. CASE stdin' = [stdin EXCEPT !.task = "gone"] /\ UNCHANGED <<binding, frames, view>>
    <3>. DEFINE in == [stdin EXCEPT !.task = "gone"]
    <3>1. in \in StdinType /\ in.from = stdin.from /\ in.controller = stdin.controller /\ in.task = "gone"
      BY <1>0 DEF StdinType
    <3>. HIDE DEF in
    <3>2. stdin' = in
      BY <2>1 DEF in
    <3>. QED  BY <1>1, <2>1, <3>1, <3>2
  <2>. QED  BY <1>2, <1>6, <2>1 DEF AbortLands
<1>7. ASSUME stdin' = StoppedIn, frames' = frames \/ SendAck(stdin'), UNCHANGED <<binding, view>>
      PROVE  RolesTold' /\ AllCounted'
  <2>1. /\ StoppedIn.from = stdin.from /\ StoppedIn.controller = stdin.controller
        /\ StoppedIn.task \notin {"waiting", "writing"}
    BY <1>0, StoppedInType
  <2>2. frames' = frames \/ SendAck(StoppedIn)
    BY <1>7
  <2>. QED  BY <1>0, <1>1, <1>7, <2>1, <2>2
<1>8. CASE StreamCleanup
  <2>1. UNCHANGED <<binding, view>>
        /\ \/ UNCHANGED <<stdin, frames>>
           \/ stdin' = StoppedIn /\ (frames' = frames \/ SendAck(stdin'))
    BY <1>8 DEF StreamCleanup
  <2>. QED  BY <1>2, <1>7, <2>1
<1>9. CASE StreamAbort
  BY <1>7, <1>9 DEF StreamAbort
<1>10. CASE StreamExits
  <2>1. [kind |-> "exit", n |-> ending.final] \in Frame /\ [kind |-> "exit", n |-> ending.final].kind # "watched"
    BY <1>0 DEF Frame
  <2>2. RolesHeard
    <3>1. ending.exits \in SUBSET Watchers
      BY <1>0 DEF StreamTypeOK, EndingType
    <3>. QED  BY <1>0, <1>10, <2>1, <3>1, OtherFrameHeard DEF StreamExits
  <2>3. RolesTold'
    BY <1>10, <2>2, SameRoles DEF StreamExits, Bound
  <2>. QED  BY <1>10, <2>3 DEF StreamExits, AllCounted
<1>. QED
  BY <1>2, <1>3, <1>4, <1>5, <1>6, <1>8, <1>9, <1>10 DEF ReaderReads

(* The steps that may queue the end.                                       *)
LEMMA EndRoles ==
  ASSUME StreamInv, RolesTold, AllCounted,
         WriterStops \/ ReaderStops \/ StreamChildExits \/ StreamQueueTerminal
  PROVE  RolesTold' /\ AllCounted'
<1>0. StreamTypeOK /\ stdin \in StdinType /\ UNCHANGED view
  BY DEF StreamInv, StreamTypeOK, WriterStops, ReaderStops, StreamChildExits, StreamQueueTerminal
<1>1. CASE WriterStops
  <2>. DEFINE closed == [stdin EXCEPT !.task = "gone", !.state = "closed", !.done = TRUE, !.tx = FALSE, !.queue = 0]
  <2>1. closed \in StdinType /\ closed.from = stdin.from /\ closed.controller = stdin.controller /\ closed.task = "gone"
    BY <1>0 DEF StdinType
  <2>2. (frames' = frames \/ SendAck(closed)) /\ StreamTerminal(closed, stdout, ending, binding)
    BY <1>1 DEF WriterStops
  <2>. HIDE DEF closed
  <2>3. RolesHeard
    BY <1>0, <2>1, <2>2, AckHeard
  <2>. QED  BY <2>1, <2>2, <2>3, TerminalRoles
<1>2. CASE ReaderStops \/ StreamQueueTerminal
  <2>1. frames' = frames /\ \E out : StreamTerminal(stdin, out, ending, binding)
    BY <1>2 DEF ReaderStops, StreamQueueTerminal
  <2>2. RolesHeard
    BY <1>0, <2>1, OtherFrameHeard
  <2>. QED  BY <1>0, <2>1, <2>2, TerminalRoles DEF AllCounted
<1>3. CASE StreamChildExits
  <2>. DEFINE state == IF stdin.state = "accepting" THEN "closing" ELSE stdin.state
              in == [stdin EXCEPT !.state = state, !.tx = FALSE]
  <2>0. state \in {"closing", "closed"} \cup {"accepting"}
    BY <1>0 DEF StdinType
  <2>1. /\ in \in StdinType /\ in.from = stdin.from /\ in.controller = stdin.controller
        /\ in.task = stdin.task /\ in.received = stdin.received /\ in.acked = stdin.acked /\ in.queue = stdin.queue
    <3>. HIDE DEF state
    <3>. QED  BY <1>0, <2>0 DEF StdinType
  <2>2. /\ frames' = frames \/ SendAck(in)
        /\ \E end : StreamTerminal(in, stdout, end, binding)
    BY <1>3 DEF StreamChildExits
  <2>. HIDE DEF in
  <2>3. RolesHeard
    BY <1>0, <2>1, <2>2, AckHeard
  <2>4. in.task \in {"waiting", "writing"} =>
          in.received = in.acked + in.queue + (IF in.task = "writing" THEN 1 ELSE 0)
    BY <2>1 DEF AllCounted
  <2>. QED  BY <2>1, <2>2, <2>3, <2>4, TerminalRoles
<1>. QED
  BY <1>1, <1>2, <1>3

(* Every step keeps the roles and the count.                               *)
LEMMA NextKeepsRoles == StreamInv /\ RolesTold /\ AllCounted /\ [StreamNext]_streamVars
                          => RolesTold' /\ AllCounted'
<1> SUFFICES ASSUME StreamInv, RolesTold, AllCounted, [StreamNext]_streamVars
             PROVE  RolesTold' /\ AllCounted'
  OBVIOUS
<1>1. ASSUME NEW w \in Watchers, NEW offset \in 0..load.ins, Stdin(w, offset)
      PROVE  RolesTold' /\ AllCounted'
  BY <1>1, StdinRoles
<1>2. ASSUME NEW w \in Watchers, NEW wants \in BOOLEAN, StreamWatch(w, wants)
      PROVE  RolesTold' /\ AllCounted'
  BY <1>2, WatchRoles
<1>3. ASSUME NEW w \in Watchers, NEW n \in 0..(load.outs + 1), OutputAck(w, n)
      PROVE  RolesTold' /\ AllCounted'
  <2>1. n \in Nat
    OBVIOUS
  <2>. QED  BY <1>3, <2>1, LeavingRoles
<1>4. ASSUME NEW w \in Watchers, CloseStdin(w) \/ StreamUnwatch(w) \/ ReadFrame(w)
      PROVE  RolesTold' /\ AllCounted'
  BY <1>4, TaskRoles, LeavingRoles, ReadRoles
<1>5. CASE WriterTakes \/ WriterWrites \/ AbortLands \/ ReaderReads
           \/ StreamCleanup \/ StreamAbort \/ StreamExits
  BY <1>5, TaskRoles
<1>6. CASE WriterStops \/ ReaderStops \/ StreamChildExits \/ StreamQueueTerminal
  BY <1>6, EndRoles
<1>7. CASE ReaderDelivers
  BY <1>7, LeavingRoles
<1>8. CASE UNCHANGED streamVars
  BY <1>8 DEF streamVars, RolesTold, AllCounted, Told, Bound
<1> QED  BY <1>1, <1>2, <1>3, <1>4, <1>5, <1>6, <1>7, <1>8 DEF StreamNext

(* For any watchers taking the role in turn, leaving, being evicted, and   *)
(* for any end of the child, stdin is one stream with one writer at a time,*)
(* the one that was told it may write; what it accepted is accounted for   *)
(* while the writer task lives, and acknowledged to nobody before.         *)
THEOREM StdinIsOne == StreamSpec => []StdinIsOneStream
<1>1. ASSUME StreamInit  PROVE RolesTold /\ AllCounted
  <2>1. /\ stdin.from = <<>> /\ stdin.controller = Creator /\ stdin.received = 0 /\ stdin.acked = 0
        /\ stdin.queue = 0 /\ stdin.task = "waiting"
    BY <1>1 DEF StreamInit
  <2>2. \A w \in Watchers : frames[w] = <<>> /\ (Bound(w) <=> w = Creator)
    BY <1>1 DEF StreamInit, Bound, Unbound
  <2>3. \A w \in Watchers : view[w].on => w = Creator /\ view[w].writable /\ view[w].since = 0
    BY <1>1 DEF StreamInit, NoWatch
  <2>4. \A w \in Watchers : view[w].on => Told(w, view[w].writable, view[w].since)
    BY <2>1, <2>2, <2>3 DEF Told
  <2>5. RolesTold
    BY <2>2, <2>4 DEF RolesTold
  <2>6. AllCounted
    BY <2>1 DEF AllCounted
  <2> QED  BY <2>5, <2>6
<1>2. ASSUME StreamInv, RolesTold, AllCounted  PROVE StdinIsOneStream
  <2>1. Len(stdin.from) = stdin.received
    BY <1>2 DEF StreamInv, StdinCounted
  <2>2. \A w \in Watchers : view[w].on =>
          \A i \in (view[w].since + 1)..stdin.received :
            IF view[w].writable THEN Bound(w) => stdin.from[i] = w ELSE stdin.from[i] # w
    BY <1>2, <2>1 DEF RolesTold, Told
  <2> QED  BY <1>2, <2>2 DEF StdinIsOneStream, StreamInv, AllCounted, AcksTold, RoleIsBound
<1> QED  BY <1>1, <1>2, InvHolds, NextKeepsRoles, PTL DEF StreamSpec

(* For any watchers, window and output, every watch sees the output whole, *)
(* from where it was told it begins to its exit.                           *)
THEOREM OutputWhole == StreamSpec => []OutputIsWhole
<1>1. StreamInv => OutputIsWhole
  <2> SUFFICES ASSUME StreamInv  PROVE OutputIsWhole
    OBVIOUS
  <2>1. ending.terminal /\ stdout.task \notin {"aborted", "cut"} => stdout.next = ending.final
    BY DEF StreamInv, ReaderStopped
  <2>2. \A w \in Watchers : DOMAIN frames[w] = 1..Len(frames[w])
    BY DEF StreamInv, StreamTypeOK
  <2> QED  BY <2>1, <2>2 DEF OutputIsWhole, StreamInv, FramesAreWhole
<1> QED  BY <1>1, InvHolds, PTL
=============================================================================
