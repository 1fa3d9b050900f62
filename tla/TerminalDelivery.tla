--------------------------- MODULE TerminalDelivery ---------------------------
(***************************************************************************)
(* Terminal frames from the PTYs to the clients of one session,            *)
(* crates/server/src/lib.rs: the delivery tick, which parses PTY output,   *)
(* takes snapshots and sends each client the difference from what it sent  *)
(* last, and the client messages that change what a client is watching.    *)
(*                                                                         *)
(* The tick releases the session lock while it builds a diff and once      *)
(* after parsing; the message handlers run whenever it is free. A frame is *)
(* [ver, off, size]: the output the driver had parsed, the scrollback      *)
(* offset it shows (0 is live) and the terminal size. An outbox is FIFO    *)
(* and reliable, so grid holds what a client will show once it has applied *)
(* all it was sent. Byte windows, RTT estimation and exact deadlines are   *)
(* reduced to a frame window and to flags that time sets.                  *)
(***************************************************************************)
EXTENDS Integers, Sequences, FiniteSets, FiniteSetsExt

CONSTANTS Clients, Ptys, Sizes,
          NoPty,
          Window,        \* target_frame_window, at least 2
          ReadyCap,      \* READY_FRAME_QUEUE_CAP
          MaxOffset,     \* the deepest scrollback offset a client asks for
          StartSubs, StartLead,  \* who watches what at the start
          ChunkKinds,    \* the kinds of PTY output that occur
          ChunkMoves,    \* what output does to the scrollback
          AltScreen,     \* whether output may be coalesced (alternate screen)
          MayLose,       \* whether a client may lose a delta
          ParseBudget,   \* chunks parsed in one tick
          MaxOutput,     \* bound on the chunks a PTY writes
          MaxRequests    \* bound on the messages a client sends

ASSUME DeliveryAssumption ==
  /\ Ptys \subseteq Nat /\ IsFiniteSet(Ptys) /\ IsFiniteSet(Clients) /\ Clients # {}
  /\ NoPty \notin Ptys
  /\ Sizes \subseteq Nat \ {0} /\ Sizes # {}
  /\ Window \in Nat /\ Window >= 2
  /\ ReadyCap \in Nat \ {0} /\ ParseBudget \in Nat \ {0}
  /\ MaxOffset \in Nat /\ MaxOutput \in Nat /\ MaxRequests \in Nat
  /\ StartSubs \in [Clients -> SUBSET Ptys]
  /\ StartLead \in [Clients -> Ptys \cup {NoPty}]
  /\ \A c \in Clients : StartLead[c] \in StartSubs[c] \cup {NoPty}
  /\ ChunkKinds \subseteq {"data", "open", "end"}
  /\ ChunkMoves \subseteq {"stay", "scroll", "clear"}
  /\ AltScreen \in BOOLEAN /\ MayLose \in BOOLEAN

VARIABLES
  pty,      \* Session.ptys: parser, dirty flag, ready frames and the input channel
  client,   \* Session.clients
  pc,       \* where the tick is
  fed,      \* chunks parsed in this tick
  snaps,    \* snapshots: what this tick has to send for each PTY
  todo,     \* client_ids: the clients this tick has still to serve
  visit,    \* what the tick captured of the client it is serving
  left,     \* preview_ids not yet looked at
  job,      \* the diff being built without the lock
  grid,     \* what each client shows, or Torn
  lost,     \* history: the client lost a delta and has not resubscribed
  newest,   \* history: the newest live picture each client was shown
  requests  \* messages sent by each client

tickVars == <<pc, fed, snaps, todo, visit, left, job>>
vars == <<pty, client, tickVars, grid, lost, newest, requests>>

Blank == [ver |-> 0, off |-> 0, size |-> 0]   \* FrameState::default, or no entry
Gone  == [ver |-> 1, off |-> 0, size |-> 0]   \* no entry in scroll_caches
Torn  == [ver |-> 2, off |-> 0, size |-> 0]   \* a delta was applied to another grid

Frame == [ver : Nat, off : Nat, size : Nat]
Chunk == [kind : {"data", "open", "end"}, moves : {"stay", "scroll", "clear"}]

Live(p) == [ver |-> pty[p].ver, off |-> 0, size |-> pty[p].size]
IsLive(frame) == frame.off = 0 /\ frame.size # 0
Newest(ver, frame) == IF IsLive(frame) /\ frame.ver > ver THEN frame.ver ELSE ver

(* The lock is free between ticks and where the tick drops it.             *)
Unlocked == pc \in {"idle", "gap", "building"}

-----------------------------------------------------------------------------
(* The stream of one client and one PTY; each operator maps the client's   *)
(* record. Every reset of the diff base starts a new epoch; epochs are only*)
(* compared for one PTY, so the PTYs of a set may share a number.          *)
(* The operators named Mut are deliberately wrong variants of the ones     *)
(* they precede; no action uses them.                                      *)

Advance(cl, ps) ==
  [cl EXCEPT !.next = IF ps = {} THEN @ ELSE @ + 1,
             !.epoch = [p \in Ptys |-> IF p \in ps THEN cl.next + 1 ELSE @[p]]]

ResetBaseline(cl, p) ==
  Advance([cl EXCEPT !.last[p] = Blank, !.cache[p] = Gone, !.pdue[p] = TRUE], {p})

(* next_send_at becomes the present, which is later than a running tick's. *)
ResetInflight(cl) == [cl EXCEPT !.inflight = 0, !.due = (pc = "idle")]

UpdateScroll(cl, p, o) ==
  LET parks   == cl.offset[p] = 0 /\ o > 0
      returns == cl.offset[p] > 0 /\ o = 0
      moved   == [cl EXCEPT
                    !.offset[p] = o,
                    !.cache[p]  = IF parks THEN cl.last[p] ELSE IF returns THEN Gone ELSE @,
                    !.last[p]   = IF returns /\ cl.cache[p] # Gone THEN cl.cache[p] ELSE @]
  IN IF cl.offset[p] = o THEN cl ELSE ResetInflight(Advance(moved, {p}))

Subscribed(cl, p) == [cl EXCEPT !.subs = @ \cup {p}]

FirstSubscribe(cl, p) ==
  IF p \in cl.subs THEN cl ELSE ResetBaseline(Subscribed(cl, p), p)

Unsubscribed(cl, p) ==
  [cl EXCEPT !.subs = @ \ {p}, !.epoch[p] = 0, !.last[p] = Blank, !.pdue[p] = TRUE,
             !.offset[p] = 0, !.cache[p] = Gone, !.view[p] = 0,
             !.lead = IF @ = p THEN NoPty ELSE @]

Recorded(cl, paced) ==
  [cl EXCEPT !.inflight = @ + 1, !.owed = @ + 1, !.due = @ /\ ~paced]

(* build_update_msg: nothing when frame and base agree, a keyframe when the*)
(* sizes differ, otherwise a delta that only its base can take.            *)
Shown(g, frame, base) == IF frame.size # base.size \/ g = base THEN frame ELSE Torn

-----------------------------------------------------------------------------
(* Sizing: a PTY gets the smallest size a connected client views it at.    *)

Mediated(cls, p) ==
  LET views == {cls[c].view[p] : c \in {d \in Clients : cls[d].on}} \ {0}
  IN IF views = {} THEN pty[p].size ELSE Min(views)

ResizedClient(cl, ps) ==
  LET again == Advance([cl EXCEPT !.last = [p \in Ptys |->
                          IF p \in ps \cap cl.subs THEN Blank ELSE @[p]]], ps \cap cl.subs)
      clean == [again EXCEPT !.cache = [p \in Ptys |-> IF p \in ps THEN Gone ELSE @[p]]]
  IN IF \A p \in ps : cl.cache[p] = Gone THEN again ELSE ResetInflight(clean)

(* cls is the client map the handler leaves, ps the PTYs it touched.       *)
Mediate(cls, ps) ==
  LET new == {p \in ps : Mediated(cls, p) # pty[p].size}
  IN /\ client' = [c \in Clients |->
                     IF new # {} /\ cls[c].on THEN ResizedClient(cls[c], new) ELSE cls[c]]
     /\ pty' = [p \in Ptys |-> IF p \notin new THEN pty[p]
                  ELSE [pty[p] EXCEPT !.size = Mediated(cls, p), !.ready = <<>>,
                                      !.dirty = TRUE]]

-----------------------------------------------------------------------------
(* Client messages.                                                        *)

(* A message from c that counts against the bound.                         *)
Request(c) ==
  /\ Unlocked /\ client[c].on
  /\ requests[c] < MaxRequests
  /\ requests' = [requests EXCEPT ![c] = @ + 1]

MarkDirty(p) == pty' = [pty EXCEPT ![p].dirty = TRUE]

(* C2S_SUBSCRIBE, first or repeated.                                       *)
Subscribe(c, p) ==
  /\ Request(c)
  /\ client' = [client EXCEPT ![c] = ResetBaseline(Subscribed(@, p), p)]
  /\ MarkDirty(p)
  /\ lost' = [lost EXCEPT ![c][p] = FALSE]
  /\ UNCHANGED <<tickVars, grid, newest>>

(* C2S_UNSUBSCRIBE *)
Unsubscribe(c, p) ==
  /\ Request(c)
  /\ Mediate([client EXCEPT ![c] = ResetInflight(Unsubscribed(@, p))],
             IF p \in client[c].subs \/ client[c].view[p] > 0 THEN {p} ELSE {})
  /\ lost' = [lost EXCEPT ![c][p] = FALSE]
  /\ UNCHANGED <<tickVars, grid, newest>>

(* C2S_FOCUS: focusing the focused PTY returns it to the live view.        *)
Focus(c, p) ==
  LET cl == FirstSubscribe([client[c] EXCEPT !.lead = p], p)
  IN /\ Request(c)
     /\ client' = [client EXCEPT ![c] =
                     IF client[c].lead = p THEN UpdateScroll(cl, p, 0) ELSE ResetInflight(cl)]
     /\ MarkDirty(p)
     /\ UNCHANGED <<tickVars, grid, lost, newest>>

(* C2S_SCROLL, an absolute offset; C2S_SCROLL_BY, relative and clamped.    *)
Scroll(c, p, o) ==
  /\ Request(c)
  /\ client' = [client EXCEPT ![c] = UpdateScroll(@, p, o)]
  /\ MarkDirty(p)
  /\ UNCHANGED <<tickVars, grid, lost, newest>>

Clamp(o, top) == IF o < 0 THEN 0 ELSE IF o > top THEN top ELSE o

ScrollBy(c, p, delta) ==
  /\ Request(c)
  /\ client' = [client EXCEPT ![c] =
                  UpdateScroll(@, p, Clamp(@.offset[p] + delta, pty[p].depth))]
  /\ MarkDirty(p)
  /\ UNCHANGED <<tickVars, grid, lost, newest>>

(* C2S_INPUT returns the view to the live tail.                            *)
Input(c, p) ==
  /\ Request(c)
  /\ client[c].offset[p] > 0
  /\ client' = [client EXCEPT ![c] = UpdateScroll(@, p, 0)]
  /\ MarkDirty(p)
  /\ UNCHANGED <<tickVars, grid, lost, newest>>

(* C2S_RESIZE of one PTY; sz 0 withdraws the client's size.                *)
Resize(c, p, sz) ==
  /\ Request(c)
  /\ client[c].view[p] # sz
  /\ Mediate([client EXCEPT ![c].view[p] = sz], {p})
  /\ UNCHANGED <<tickVars, grid, lost, newest>>

(* C2S_ACK retires the oldest frame in flight, whichever it was sent for.  *)
MutAck(c) ==
  /\ Unlocked /\ client[c].on /\ client[c].owed > 0
  /\ client' = [client EXCEPT ![c].owed = @ - 1, ![c].inflight = @ - 1]
  /\ UNCHANGED <<pty, tickVars, grid, lost, newest, requests>>

Ack(c) ==
  /\ Unlocked /\ client[c].on /\ client[c].owed > 0
  /\ client' = [client EXCEPT ![c].owed = @ - 1,
                              ![c].inflight = IF @ > 0 THEN @ - 1 ELSE 0]
  /\ UNCHANGED <<pty, tickVars, grid, lost, newest, requests>>

(* The client discards or fails to apply a delta; it is to resubscribe.    *)
LoseDelta(c, p) ==
  /\ MayLose /\ Request(c)
  /\ p \in client[c].subs /\ ~lost[c][p] /\ grid[c][p] # Blank
  /\ grid' = [grid EXCEPT ![c][p] = Torn]
  /\ lost' = [lost EXCEPT ![c][p] = TRUE]
  /\ UNCHANGED <<pty, client, tickVars, newest>>

Disconnect(c) ==
  /\ Request(c)
  /\ Mediate([client EXCEPT ![c].on = FALSE], {p \in Ptys : client[c].view[p] > 0})
  /\ UNCHANGED <<tickVars, grid, lost, newest>>

-----------------------------------------------------------------------------
(* PTY output, and the passing of time between two ticks.                  *)

Output(p, chunk) ==
  /\ pty[p].ver + Len(pty[p].input) < MaxOutput
  /\ pty' = [pty EXCEPT ![p].input = Append(@, chunk)]
  /\ UNCHANGED <<client, tickVars, grid, lost, newest, requests>>

(* A coalesced burst, a lead's pacing deadline and a preview's fall due.   *)
Settle(p) ==
  /\ pc = "idle" /\ pty[p].held
  /\ pty' = [pty EXCEPT ![p].held = FALSE]
  /\ UNCHANGED <<client, tickVars, grid, lost, newest, requests>>

LeadDue(c) ==
  /\ pc = "idle" /\ ~client[c].due
  /\ client' = [client EXCEPT ![c].due = TRUE]
  /\ UNCHANGED <<pty, tickVars, grid, lost, newest, requests>>

PreviewDue(c, p) ==
  /\ pc = "idle" /\ ~client[c].pdue[p]
  /\ client' = [client EXCEPT ![c].pdue[p] = TRUE]
  /\ UNCHANGED <<pty, tickVars, grid, lost, newest, requests>>

-----------------------------------------------------------------------------
(* The tick, first part: parse what the PTYs wrote, with the lock held.    *)

TickStart ==
  /\ pc = "idle"
  /\ (\E c \in Clients : client[c].on) \/ (\E p \in Ptys : pty[p].input # <<>>)
  /\ pc' = "parse" /\ fed' = 0
  /\ UNCHANGED <<pty, client, snaps, todo, visit, left, job, grid, lost, newest, requests>>

Watched(p) == \E c \in Clients : client[c].on /\ p \in client[c].subs

MutBrake(p) == FALSE
Brake(p) == Watched(p) /\ Len(pty[p].ready) >= ReadyCap

MayFeed(p) == fed < ParseBudget /\ pty[p].input # <<>> /\ ~Brake(p)

(* An unfinished synchronized update leaves synced set; its end is a frame *)
(* boundary, queued as a ready frame unless the queue is full.             *)
Feed(p, hold) ==
  LET chunk == Head(pty[p].input)
      t == [pty[p] EXCEPT
              !.input  = Tail(@), !.ver = @ + 1, !.dirty = TRUE, !.held = hold,
              !.synced = chunk.kind = "open" \/ (@ /\ chunk.kind = "data"),
              !.moved  = IF chunk.moves = "stay" THEN @ ELSE @ + 1,
              !.depth  = CASE chunk.moves = "scroll" -> MaxOffset
                           [] chunk.moves = "clear"  -> 0
                           [] OTHER -> @]
      full == Len(t.ready) >= ReadyCap
      frame == [ver |-> t.ver, off |-> 0, size |-> t.size]
  IN /\ pc = "parse" /\ MayFeed(p)
     /\ hold => AltScreen
     /\ fed' = fed + 1
     /\ pty' = [pty EXCEPT ![p] =
          IF chunk.kind # "end" THEN t
          ELSE [t EXCEPT !.ready = IF full THEN @ ELSE Append(@, frame),
                         !.dirty = FALSE, !.held = FALSE]]
     /\ UNCHANGED <<client, pc, snaps, todo, visit, left, job, grid, lost, newest, requests>>

ParseDone ==
  /\ pc = "parse" /\ \A p \in Ptys : ~MayFeed(p)
  /\ pc' = "gap"
  /\ UNCHANGED <<pty, client, fed, snaps, todo, visit, left, job, grid, lost, newest, requests>>

-----------------------------------------------------------------------------
(* Second part: what each PTY has to send. A PTY gives up a frame, and is  *)
(* clean again, when one of its subscribers could take it now.             *)

VisualUpdate(p) == pty[p].dirty \/ pty[p].ready # <<>> \/ pty[p].input # <<>>

DuePreview(cl) ==
  cl.lead # NoPty /\ \E p \in cl.subs \ {cl.lead} : cl.pdue[p] /\ VisualUpdate(p)

WindowOpen(cl) == cl.inflight < Window
LeadOpen(cl) == cl.inflight < (IF DuePreview(cl) THEN Window - 1 ELSE Window)

CanTake(cl, p) ==
  /\ cl.on /\ p \in cl.subs /\ cl.offset[p] = 0
  /\ IF p = cl.lead THEN LeadOpen(cl) /\ cl.due ELSE WindowOpen(cl) /\ cl.pdue[p]

Needful(p) == \E c \in Clients : CanTake(client[c], p)

NoSnap == Blank

ScreenIsDue(p) == pty[p].dirty /\ ~pty[p].synced /\ ~pty[p].held

(* Where the frame of this tick comes from. Queued frames are older than   *)
(* the screen and go first.                                                *)
MutSource(p) ==   \* the screen goes first
  CASE ~Needful(p) -> "none"
    [] Needful(p) /\ ScreenIsDue(p) -> "screen"
    [] OTHER -> IF pty[p].ready # <<>> THEN "queue" ELSE "none"
Source(p) ==
  CASE ~Needful(p) -> "none"
    [] Needful(p) /\ pty[p].ready # <<>> -> "queue"
    [] OTHER -> IF ScreenIsDue(p) THEN "screen" ELSE "none"

SnapshotOf(p) ==
  CASE Source(p) = "queue"  -> Head(pty[p].ready)
    [] Source(p) = "screen" -> Live(p)
    [] OTHER -> NoSnap

(* reanchor_scrolled_clients: parked views move with the scrollback, and   *)
(* return to the live view, as UpdateScroll does, when it is gone.         *)
Reanchored(cl) ==
  LET to(p) == Clamp(cl.offset[p] + pty[p].moved, pty[p].depth)
      moves == {p \in Ptys : cl.offset[p] > 0 /\ pty[p].moved # 0}
      back  == {p \in moves : to(p) = 0}
      moved == [cl EXCEPT
        !.offset = [p \in Ptys |-> IF p \in moves THEN to(p) ELSE @[p]],
        !.cache  = [p \in Ptys |-> IF p \in back THEN Gone ELSE @[p]],
        !.last   = [p \in Ptys |-> IF p \in back /\ cl.cache[p] # Gone THEN cl.cache[p] ELSE @[p]]]
  IN IF back = {} THEN moved ELSE ResetInflight(Advance(moved, back))

Snapshot ==
  /\ pc = "gap" /\ pc' = "clients"
  /\ snaps' = [p \in Ptys |-> SnapshotOf(p)]
  /\ pty' = [p \in Ptys |->
       LET t == [pty[p] EXCEPT !.moved = 0]
       IN CASE Source(p) = "queue"  -> [t EXCEPT !.ready = Tail(@)]
            [] Source(p) = "screen" -> [t EXCEPT !.dirty = FALSE]
            [] OTHER -> t]
  /\ client' = [c \in Clients |->
                  IF client[c].on THEN Reanchored(client[c]) ELSE client[c]]
  /\ todo' = {c \in Clients : client[c].on}
  /\ UNCHANGED <<fed, visit, left, job, grid, lost, newest, requests>>

-----------------------------------------------------------------------------
(* Third part: serve the clients one by one. What is captured here is used *)
(* until the client is done, although building its frames frees the lock.  *)

Parked(cl) == {p \in Ptys : cl.offset[p] > 0}

CaptureVisit(c) ==
  LET cl == client[c]
  IN [c |-> c, lead |-> cl.lead, parked |-> Parked(cl),
      canLead |-> LeadOpen(cl) /\ cl.due, any |-> LeadOpen(cl) \/ WindowOpen(cl)]

ScrollFrame(cl, p) == [ver |-> pty[p].ver, off |-> cl.offset[p], size |-> pty[p].size]
ScrollBase(cl, p)  == IF cl.cache[p] = Gone THEN Blank ELSE cl.cache[p]

(* The parked PTYs whose scrollback frame goes out now, under the lock.    *)
ScrollSends(v, cl) ==
  {p \in v.parked : /\ p = v.lead => v.canLead
                    /\ ScrollFrame(cl, p) # ScrollBase(cl, p)}

SendScrollFrames(v, cl) ==
  LET now == ScrollSends(v, cl)
  IN /\ client' = [client EXCEPT ![v.c] =
          [cl EXCEPT !.cache = [p \in Ptys |-> IF p \in now THEN ScrollFrame(cl, p) ELSE @[p]],
                     !.inflight = @ + Cardinality(now), !.owed = @ + Cardinality(now),
                     !.due = @ /\ v.lead \notin now]]
     /\ grid' = [grid EXCEPT ![v.c] = [p \in Ptys |->
          IF p \in now THEN Shown(@[p], ScrollFrame(cl, p), ScrollBase(cl, p)) ELSE @[p]]]

(* The diff base, its epoch and the frame are captured, and the lock freed.*)
StartBuild(v, cl, p, lead) ==
  /\ job' = [p |-> p, frame |-> snaps[p], base |-> cl.last[p], epoch |-> cl.epoch[p],
             lead |-> lead]
  /\ pc' = "building"

ClientBegin(c) ==
  LET cl == client[c]
      v  == CaptureVisit(c)
      builds == v.lead # NoPty /\ v.lead \notin v.parked /\ v.canLead
                /\ snaps[v.lead] # NoSnap
  IN /\ pc = "clients" /\ c \in todo /\ cl.on /\ cl.subs # {}
     /\ visit' = v
     /\ left' = cl.subs \ ({cl.lead} \cup v.parked)
     /\ SendScrollFrames(v, cl)
     /\ IF builds THEN StartBuild(v, cl, v.lead, TRUE)
                  ELSE pc' = "previews" /\ UNCHANGED job
     /\ UNCHANGED <<pty, fed, snaps, todo, lost, newest, requests>>

SkipClient(c) ==
  /\ pc = "clients" /\ c \in todo /\ (~client[c].on \/ client[c].subs = {})
  /\ todo' = todo \ {c}
  /\ UNCHANGED <<pty, client, pc, fed, snaps, visit, left, job, grid, lost, newest, requests>>

MutStreamIsCurrent(cl, p, epoch) == p \in cl.subs
StreamIsCurrent(cl, p, epoch) == p \in cl.subs /\ cl.epoch[p] = epoch

NextClient ==
  /\ pc' = "clients" /\ todo' = todo \ {visit.c} /\ left' = {}

(* try_send_update, once the lock is held again. A stale diff is discarded *)
(* and the PTY marked dirty; it also ends the client's previews.           *)
FinishBuild ==
  LET c  == visit.c
      cl == client[c]
      p  == job.p
      current == StreamIsCurrent(cl, p, job.epoch)
      sends   == current /\ job.frame # job.base
      sent    == [Recorded(cl, job.lead) EXCEPT
                    !.last[p] = job.frame, !.pdue[p] = @ /\ job.lead]
  IN /\ pc = "building"
     /\ client' = IF cl.on /\ sends THEN [client EXCEPT ![c] = sent] ELSE client
     /\ grid' = IF cl.on /\ sends
                THEN [grid EXCEPT ![c][p] = Shown(@, job.frame, job.base)] ELSE grid
     /\ newest' = [newest EXCEPT ![c][p] = Newest(@, grid'[c][p])]
     /\ pty' = IF cl.on /\ ~current THEN [pty EXCEPT ![p].dirty = TRUE] ELSE pty
     /\ IF ~cl.on \/ (~current /\ ~job.lead)
        THEN NextClient
        ELSE pc' = "previews" /\ UNCHANGED <<todo, left>>
     /\ UNCHANGED <<fed, snaps, visit, job, lost, requests>>

(* The previews in ascending order, for as long as the window is open.     *)
PreviewStep ==
  LET cl == client[visit.c]
      p  == Min(left)
  IN /\ pc = "previews" /\ left # {} /\ visit.any /\ WindowOpen(cl)
     /\ left' = left \ {p}
     /\ IF cl.pdue[p] /\ snaps[p] # NoSnap
        THEN StartBuild(visit, cl, p, FALSE)
        ELSE UNCHANGED <<job, pc>>
     /\ UNCHANGED <<pty, client, fed, snaps, todo, visit, grid, lost, newest, requests>>

ClientDone ==
  /\ pc = "previews"
  /\ left = {} \/ ~visit.any \/ ~WindowOpen(client[visit.c])
  /\ NextClient
  /\ UNCHANGED <<pty, client, fed, snaps, visit, job, grid, lost, newest, requests>>

NoJob   == [p |-> NoPty, frame |-> Blank, base |-> Blank, epoch |-> 0, lead |-> FALSE]
NoVisit == [c |-> CHOOSE c \in Clients : TRUE, lead |-> NoPty, parked |-> {},
            canLead |-> FALSE, any |-> FALSE]

TickEnd ==
  /\ pc = "clients" /\ todo = {}
  /\ pc' = "idle" /\ fed' = 0 /\ snaps' = [p \in Ptys |-> NoSnap]
  /\ job' = NoJob /\ visit' = NoVisit
  /\ UNCHANGED <<pty, client, todo, left, grid, lost, newest, requests>>

-----------------------------------------------------------------------------
StartClient(c) ==
  [on |-> TRUE, subs |-> StartSubs[c], lead |-> StartLead[c],
   epoch |-> [p \in Ptys |-> IF p \in StartSubs[c] THEN 1 ELSE 0], next |-> 1,
   last |-> [p \in Ptys |-> Blank], cache |-> [p \in Ptys |-> Gone],
   offset |-> [p \in Ptys |-> 0], view |-> [p \in Ptys |-> 0],
   inflight |-> 0, owed |-> 0, due |-> TRUE, pdue |-> [p \in Ptys |-> TRUE]]

(* The session some time after its PTYs were created and subscribed to.    *)
Init ==
  /\ pty \in [Ptys -> {[input |-> <<>>, ver |-> 0, size |-> s, synced |-> FALSE,
                        held |-> FALSE, dirty |-> TRUE, ready |-> <<>>,
                        depth |-> 0, moved |-> 0] : s \in Sizes}]
  /\ client = [c \in Clients |-> StartClient(c)]
  /\ pc = "idle" /\ fed = 0 /\ snaps = [p \in Ptys |-> NoSnap]
  /\ todo = {} /\ visit = NoVisit /\ left = {} /\ job = NoJob
  /\ grid = [c \in Clients |-> [p \in Ptys |-> Blank]]
  /\ lost = [c \in Clients |-> [p \in Ptys |-> FALSE]]
  /\ newest = [c \in Clients |-> [p \in Ptys |-> 0]]
  /\ requests = [c \in Clients |-> 0]

Message(c) ==
  \/ \E p \in Ptys : Subscribe(c, p) \/ Unsubscribe(c, p) \/ Focus(c, p) \/ Input(c, p)
                     \/ LoseDelta(c, p)
  \/ \E p \in Ptys, o \in 0 .. MaxOffset : Scroll(c, p, o)
  \/ \E p \in Ptys, d \in {-1, 1} : ScrollBy(c, p, d)
  \/ \E p \in Ptys, sz \in Sizes \cup {0} : Resize(c, p, sz)
  \/ Disconnect(c)

TickStep ==
  \/ TickStart \/ ParseDone \/ Snapshot \/ FinishBuild \/ PreviewStep \/ ClientDone \/ TickEnd
  \/ \E p \in Ptys, hold \in BOOLEAN : Feed(p, hold)
  \/ \E c \in Clients : ClientBegin(c) \/ SkipClient(c)

Passing == (\E p \in Ptys : Settle(p)) \/ (\E c \in Clients : LeadDue(c))
           \/ (\E c \in Clients, p \in Ptys : PreviewDue(c, p))

Next ==
  \/ TickStep
  \/ Passing
  \/ \E c \in Clients : Message(c) \/ Ack(c)
  \/ \E p \in Ptys, kind \in ChunkKinds, moves \in ChunkMoves :
        Output(p, [kind |-> kind, moves |-> moves])

Spec == Init /\ [][Next]_vars

(* The delivery task is woken at least every BLANKET_FRAME_INTERVAL while  *)
(* a client is connected, and by PTY output; deadlines pass between its    *)
(* ticks; a client acks every frame, and the lock, which is fair, admits   *)
(* the handler.                                                            *)
Fairness ==
  /\ WF_vars(TickStep)
  /\ \A p \in Ptys : SF_vars(Settle(p))
  /\ \A c \in Clients : SF_vars(Ack(c)) /\ SF_vars(LeadDue(c))
                        /\ \A p \in Ptys : SF_vars(PreviewDue(c, p))

LiveSpec == Spec /\ Fairness

-----------------------------------------------------------------------------
Pty == [input : Seq(Chunk), ver : Nat, size : Sizes, synced : BOOLEAN, held : BOOLEAN,
        dirty : BOOLEAN, ready : Seq(Frame), depth : {0, MaxOffset}, moved : Nat]

Client == [on : BOOLEAN, subs : SUBSET Ptys, lead : Ptys \cup {NoPty}, epoch : [Ptys -> Nat],
           next : Nat, last : [Ptys -> Frame], cache : [Ptys -> Frame],
           offset : [Ptys -> 0 .. MaxOffset], view : [Ptys -> Sizes \cup {0}],
           inflight : Nat, owed : Nat, due : BOOLEAN, pdue : [Ptys -> BOOLEAN]]

(* Every variable has the type of the field or local it stands for.        *)
TypeOK ==
  /\ pty \in [Ptys -> Pty] /\ client \in [Clients -> Client]
  /\ pc \in {"idle", "parse", "gap", "clients", "building", "previews"}
  /\ fed \in Nat /\ snaps \in [Ptys -> Frame] /\ todo \in SUBSET Clients
  /\ visit \in [c : Clients, lead : Ptys \cup {NoPty}, parked : SUBSET Ptys,
                canLead : BOOLEAN, any : BOOLEAN]
  /\ left \in SUBSET Ptys
  /\ job \in [p : Ptys \cup {NoPty}, frame : Frame, base : Frame, epoch : Nat, lead : BOOLEAN]
  /\ grid \in [Clients -> [Ptys -> Frame]]
  /\ lost \in [Clients -> [Ptys -> BOOLEAN]]
  /\ newest \in [Clients -> [Ptys -> Nat]]
  /\ requests \in [Clients -> Nat]

(* What the server diffs against is what the client shows: last_sent for a *)
(* live view, the scroll cache for a parked one. A client that lost a delta*)
(* is excused until it resubscribes; from then on a keyframe restores it.  *)
BaselineIsShown ==
  \A c \in Clients, p \in Ptys :
    client[c].on /\ p \in client[c].subs /\ ~lost[c][p] =>
      IF client[c].offset[p] = 0
      THEN client[c].last[p] # Blank => grid[c][p] = client[c].last[p]
      ELSE client[c].cache[p] \notin {Gone, Blank} => grid[c][p] = client[c].cache[p]

(* The live view never goes back. It is fed from two places, the queue of  *)
(* whole synchronized frames and the screen as it is; after any parking,   *)
(* resize, lost delta, resubscription or stale diff, a client that shows   *)
(* it shows the newest picture of it that it ever had.                     *)
LiveViewsGoForward ==
  \A c \in Clients, p \in Ptys : IsLive(grid[c][p]) => grid[c][p].ver = newest[c][p]

(* A subscriber of the live view ends up showing the terminal as it is,    *)
(* once output and requests stop.                                          *)
Behind(c, p) ==
  /\ client[c].on /\ p \in client[c].subs /\ client[c].offset[p] = 0
  /\ ~pty[p].synced /\ ~lost[c][p]
  /\ grid[c][p] # Live(p)

ClientsCatchUp == \A c \in Clients, p \in Ptys : Behind(c, p) ~> ~Behind(c, p)

(* What a PTY wrote is parsed sooner or later: the brake on a watched PTY  *)
(* slows its program and does not stop it.                                 *)
OutputIsParsed ==
  \A p \in Ptys, n \in 0 .. MaxOutput :
    (pty[p].input # <<>> /\ pty[p].ver = n) ~> (pty[p].ver > n)
=============================================================================
