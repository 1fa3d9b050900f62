---------------------------- MODULE PtyLifecycle ----------------------------
(***************************************************************************)
(* The life of a terminal and of its child: crates/server/src/lib.rs       *)
(* (create, restart, close, kill and deadline requests, the tick's end of  *)
(* input, the supervisor, cleanup_pty_internal) and pty/pty_unix.rs (the   *)
(* descriptors, the reader threads, and the three tables of pids that      *)
(* decide who waits for a child and who may still signal it).              *)
(*                                                                         *)
(* A child is named by the order it was spawned in, and so is everything   *)
(* made for it: its pid, its tty, its reader, its channel. A pid the       *)
(* kernel has taken back is therefore known when it is signalled. Ids of   *)
(* terminals are handed out in turn and do not come round again. What a    *)
(* terminal shows, and to whom, is TerminalDelivery.                       *)
(***************************************************************************)
EXTENDS Integers, Sequences, FiniteSets

CONSTANTS
  MaxTerminals,   \* bound on the terminals ever created
  MaxChildren,    \* bound on the children ever spawned
  Fds,            \* descriptors free for terminals
  MaxPtys,        \* Config.max_ptys
  MaxExited,      \* max_exited()
  ChannelCap,     \* PTY_CHANNEL_CAPACITY
  MaxOutput,      \* bound on the chunks ever printed
  AsInit,         \* whether the server is PID 1
  Signals,        \* what clients send: "kill", "deadline"
  Followed        \* the kinds of signal strays records

ASSUME PtyConstants == MaxTerminals \in Nat /\ MaxChildren \in Nat /\ 0 \notin Fds

Ids == 1..MaxTerminals
Spawns == 1..MaxChildren

VARIABLES
  ptys,        \* Session.ptys: spawn 0 is no entry
  ids,         \* ids handed out so far
  inputs,      \* AppState.pty_fds; 0 is no entry
  fdTable,     \* the tty each descriptor stands for, 0 when closed
  child,       \* what has become of each child, and the descriptor of its master
  tty,         \* whether the child, or a descendant, holds each slave open, and chunks unread
  unprinted,   \* bound on the chunks still to come
  reader,      \* where each reader thread is, and the tty its read is on
  queue,       \* each byte channel: the tty a chunk came from, 0 for Eof
  owned,       \* pty_pids
  parked,      \* the keys of reaped_statuses
  abandoned,   \* abandoned_pids: "no", "grace", "due", "spent"
  cleanups,    \* cleanup_pty_internal calls the tick has decided
  supervisor,  \* where supervise is, and the calls it has decided
  announced,   \* spawns an S2C_EXITED was sent for
  strays       \* the kinds of signal sent to a pid already waited

ptyVars == <<ptys, ids, inputs, fdTable, child, tty, unprinted, reader, queue, owned, parked, abandoned,
             cleanups, supervisor, announced, strays>>
kernel == <<tty, unprinted, reader, queue>>

NoPty == [spawn |-> 0, gen |-> 0, exited |-> FALSE, drain |-> "off", timer |-> "off"]

PtyInit ==
  /\ ptys = [i \in Ids |-> NoPty] /\ ids \in 0..(MaxTerminals - 1)   \* some may be gone already
  /\ inputs = [i \in Ids |-> 0]
  /\ fdTable = [f \in Fds |-> 0]
  /\ child = [s \in Spawns |-> [st |-> "unborn", fd |-> 0]]
  /\ tty = [s \in Spawns |-> [attached |-> FALSE, kin |-> FALSE, printed |-> 0]]
  /\ unprinted \in 0..MaxOutput
  /\ reader = [s \in Spawns |-> [at |-> "none", on |-> 0]]
  /\ queue = [s \in Spawns |-> <<>>]
  /\ owned = {} /\ parked = {} /\ abandoned = [s \in Spawns |-> "no"]
  /\ cleanups = {} /\ supervisor = [at |-> "idle", due |-> {}]
  /\ announced = {} /\ strays = {}

-----------------------------------------------------------------------------
(* The kernel's side of a signal, a wait and a close.                      *)

Live(i) == ptys[i].spawn # 0 /\ ~ptys[i].exited
Alive(s) == child[s].st \in {"running", "asked", "killed"}
Born == {s \in Spawns : child[s].st # "unborn"}

(* kill(-pid): a zombie takes it in silence, and so does a pid nobody has. *)
After(st, signal) ==
  IF st = "running" \/ (st = "asked" /\ signal = "killed") THEN signal ELSE st
Signalled(c, ss, signal) ==
  [s \in Spawns |-> IF s \in ss THEN [c[s] EXCEPT !.st = After(@, signal)] ELSE c[s]]
Waited(c, ss) == [s \in Spawns |-> IF s \in ss THEN [c[s] EXCEPT !.st = "waited"] ELSE c[s]]

Stray(ss, kind) ==
  strays' = IF kind \in Followed /\ \E s \in ss : child[s].st = "waited" THEN strays \cup {kind} ELSE strays

(* close_pty: a hangup for the group, then the master. Some children are   *)
(* gone before the next line runs.                                         *)
HungUp(s) ==
  {Signalled(child, {s}, "asked")} \cup
    IF Alive(s) THEN {[child EXCEPT ![s].st = "zombie"]} ELSE {}
CloseMaster(s) == fdTable' = [fdTable EXCEPT ![child[s].fd] = 0]

(* poll_child_exited parks the status it waits for.                        *)
MutPolled(s) == s \in owned /\ child[s].st = "zombie"   \* what is parked is overlooked
Polled(s) == s \in parked \/ (s \in owned /\ child[s].st = "zombie")
Poll(ss) ==
  LET now == {s \in ss : Polled(s) /\ s \notin parked}
  IN  child' = Waited(child, now) /\ parked' = parked \cup now

-----------------------------------------------------------------------------
(* Requests, each under the session lock.                                  *)

(* spawn_pty and respawn_child.                                            *)
SpawnPty(i, f) ==
  LET s == Cardinality(Born) + 1
  IN  /\ s \in Spawns /\ fdTable[f] = 0
      /\ fdTable' = [fdTable EXCEPT ![f] = s] /\ inputs' = [inputs EXCEPT ![i] = f]
      /\ child' = [child EXCEPT ![s] = [st |-> "running", fd |-> f]]
      /\ tty' = [tty EXCEPT ![s].attached = TRUE]
      /\ reader' = [reader EXCEPT ![s].at = "loop"]
      /\ owned' = owned \cup {s}
      /\ ptys' = [ptys EXCEPT ![i] = [NoPty EXCEPT !.spawn = s,
                    !.gen = IF ptys[i].spawn = 0 THEN 0 ELSE ptys[i].gen + 1]]
      /\ UNCHANGED <<unprinted, queue, parked, abandoned, cleanups, supervisor, announced, strays>>

Create(f) ==
  /\ ids < MaxTerminals /\ Cardinality({i \in Ids : Live(i)}) < MaxPtys
  /\ ids' = ids + 1 /\ SpawnPty(ids + 1, f)

Restart(i, f) == ptys[i].spawn # 0 /\ ptys[i].exited /\ SpawnPty(i, f) /\ UNCHANGED ids

(* C2S_DEADLINE: refreshed, or cleared with the stop it had begun.         *)
Deadline(i, timer) ==
  /\ Live(i) /\ ptys' = [ptys EXCEPT ![i].timer = timer]
  /\ UNCHANGED <<ids, inputs, fdTable, child, kernel, owned, parked, abandoned, cleanups,
                 supervisor, announced, strays>>

Kill(i, signal) ==
  LET s == ptys[i].spawn
  IN  /\ Live(i)
      /\ child' = Signalled(child, {s}, signal) /\ Stray({s}, "kill")
      /\ UNCHANGED <<ptys, ids, inputs, fdTable, kernel, owned, parked, abandoned, cleanups,
                     supervisor, announced>>

(* abandon_pty_pid.                                                        *)
MutAbandonPty(s) == owned' = owned \ {s} /\ parked' = parked \ {s} /\ UNCHANGED abandoned
AbandonPty(s) ==
  /\ owned' = owned \ {s} /\ parked' = parked \ {s}
  /\ abandoned' = [abandoned EXCEPT ![s] = "grace"]

MutCloseTerminal(i) ==   \* the descriptor is closed again after cleanup closed it
  LET s == ptys[i].spawn
  IN  /\ s # 0
      /\ ptys' = [ptys EXCEPT ![i] = NoPty] /\ inputs' = [inputs EXCEPT ![i] = 0]
      /\ CloseMaster(s) /\ child' \in HungUp(s) /\ AbandonPty(s)
      /\ UNCHANGED <<ids, kernel, cleanups, supervisor, announced, strays>>
CloseTerminal(i) ==
  LET s == ptys[i].spawn
  IN  /\ s # 0
      /\ ptys' = [ptys EXCEPT ![i] = NoPty]
      /\ \/ ptys[i].exited /\ UNCHANGED <<inputs, fdTable, child, owned, parked, abandoned>>
         \/ /\ ~ptys[i].exited /\ inputs' = [inputs EXCEPT ![i] = 0]
            /\ CloseMaster(s) /\ child' \in HungUp(s) /\ AbandonPty(s)
      /\ UNCHANGED <<ids, kernel, cleanups, supervisor, announced, strays>>

-----------------------------------------------------------------------------
(* cleanup_pty_internal, for the child it was decided for.                 *)

MutCleanup(i, gen) ==   \* for whatever child is there
  LET s == ptys[i].spawn
  IN  /\ \/ ~Live(i) /\ UNCHANGED <<ptys, inputs, fdTable, child, owned, parked, announced>>
         \/ /\ Live(i)
            /\ ptys' = [ptys EXCEPT ![i].exited = TRUE, ![i].timer = "off"]
            /\ inputs' = [inputs EXCEPT ![i] = 0] /\ CloseMaster(s)
            /\ \E c \in HungUp(s) :
                  child' = IF s \notin parked /\ c[s].st = "zombie" THEN Waited(c, {s}) ELSE c
            /\ owned' = owned \ {s} /\ parked' = parked \ {s} /\ announced' = announced \cup {s}
      /\ UNCHANGED <<ids, kernel, abandoned, strays>>
Cleanup(i, gen) ==
  LET s == ptys[i].spawn
      stale == ~Live(i) \/ gen # ptys[i].gen
  IN  /\ \/ stale /\ UNCHANGED <<ptys, inputs, fdTable, child, owned, parked, announced>>
         \/ /\ ~stale
            /\ ptys' = [ptys EXCEPT ![i].exited = TRUE, ![i].timer = "off"]
            /\ inputs' = [inputs EXCEPT ![i] = 0] /\ CloseMaster(s)
            /\ \E c \in HungUp(s) :   \* collect_exit_status
                  child' = IF s \notin parked /\ c[s].st = "zombie" THEN Waited(c, {s}) ELSE c
            /\ owned' = owned \ {s} /\ parked' = parked \ {s} /\ announced' = announced \cup {s}
      /\ UNCHANGED <<ids, kernel, abandoned, strays>>

(* The tick reads a channel up to its budget or its brake; past Eof there  *)
(* is nothing. The cleanup follows at once, or after a grace when the child*)
(* has not been seen to exit.                                              *)
Tick(i) ==
  LET s == ptys[i].spawn
      eof == {n \in 1..Len(queue[s]) : queue[s][n] = 0}
  IN  /\ s # 0
      /\ \E n \in 1..Len(queue[s]) :
           /\ queue' = [queue EXCEPT ![s] = SubSeq(@, n + 1, Len(@))]
           /\ \/ /\ n \notin eof
                 /\ UNCHANGED <<ptys, child, parked, cleanups>>
              \/ /\ n \in eof
                 /\ cleanups' = cleanups \cup {<<i, ptys[i].gen>>}
                 /\ Poll(IF ptys[i].drain = "off" THEN {s} ELSE {})
                 /\ ptys' = IF ptys[i].drain = "off" /\ Polled(s)
                            THEN [ptys EXCEPT ![i].drain = "armed"] ELSE ptys
      /\ UNCHANGED <<ids, inputs, fdTable, tty, unprinted, reader, owned, abandoned, supervisor,
                     announced, strays>>

EofCleanup ==
  \E c \in cleanups :
    cleanups' = cleanups \ {c} /\ Cleanup(c[1], c[2]) /\ UNCHANGED supervisor

-----------------------------------------------------------------------------
(* One pass of supervise, lock by lock.                                    *)

Goes(from, to) == supervisor.at = from /\ supervisor' = [supervisor EXCEPT !.at = to]

Scan ==
  LET ss == {ptys[i].spawn : i \in {j \in Ids : Live(j) /\ ptys[j].drain = "off"}}
  IN  /\ Goes("idle", "ready")
      /\ Poll(ss)
      /\ ptys' = [i \in Ids |-> IF ptys[i].spawn \in ss /\ Polled(ptys[i].spawn)
                                THEN [ptys[i] EXCEPT !.drain = "armed"] ELSE ptys[i]]
      /\ UNCHANGED <<ids, inputs, fdTable, kernel, owned, abandoned, cleanups, announced, strays>>

(* The tick that a due fallback forces is a Tick like any other.           *)
Ready ==
  /\ supervisor.at = "ready"
  /\ supervisor' = [at |-> "cleanup",
                    due |-> {<<i, ptys[i].gen>> : i \in {j \in Ids : Live(j) /\ ptys[j].drain = "due"}}]
  /\ UNCHANGED <<ptys, ids, inputs, fdTable, child, kernel, owned, parked, abandoned, cleanups,
                 announced, strays>>

FallbackCleanup ==
  /\ supervisor.at = "cleanup"
  /\ \E c \in supervisor.due :
       supervisor' = [supervisor EXCEPT !.due = @ \ {c}] /\ Cleanup(c[1], c[2])
  /\ UNCHANGED cleanups

EnforceDeadlines ==
  \E late \in SUBSET {i \in Ids : Live(i) /\ ptys[i].timer # "off"} :
    LET stopped == {ptys[i].spawn : i \in {j \in late : ptys[j].timer = "stopping"}}
        first == {ptys[i].spawn : i \in late} \ stopped
    IN  /\ supervisor.due = {} /\ Goes("cleanup", "escalate")
        /\ ptys' = [i \in Ids |-> IF i \notin late THEN ptys[i] ELSE
                     [ptys[i] EXCEPT !.timer = IF @ = "armed" THEN "stopping" ELSE "off"]]
        /\ child' = Signalled(Signalled(child, first, "asked"), stopped, "killed")
        /\ Stray(first \cup stopped, "deadline")
        /\ UNCHANGED <<ids, inputs, fdTable, kernel, owned, parked, abandoned, cleanups, announced>>

EscalateAbandoned ==
  LET due == {s \in Spawns : abandoned[s] = "due"}
  IN  /\ Goes("escalate", "reap")
      /\ abandoned' = [s \in Spawns |-> IF s \in due THEN "spent" ELSE abandoned[s]]
      /\ child' = Signalled(child, due, "killed") /\ Stray(due, "escalate")
      /\ UNCHANGED <<ptys, ids, inputs, fdTable, kernel, owned, parked, cleanups, announced>>

(* An abandoned pid is forgotten when its wait succeeds; as PID 1 the      *)
(* server waits for what is left as well.                                  *)
ReapZombies ==
  LET zombies == {s \in Spawns : child[s].st = "zombie"}
      reaped == zombies \cap (owned \cup {s \in Spawns : AsInit \/ abandoned[s] # "no"})
  IN  /\ Goes("reap", "evict")
      /\ child' = Waited(child, reaped)
      /\ parked' = parked \cup (zombies \cap owned)
      /\ abandoned' = [s \in Spawns |-> IF s \in reaped THEN "no" ELSE abandoned[s]]
      /\ UNCHANGED <<ptys, ids, inputs, fdTable, kernel, owned, cleanups, announced, strays>>

(* The oldest beyond the limit, and whatever has lingered too long.        *)
EvictExited ==
  LET exited == {i \in Ids : ptys[i].exited}
  IN  /\ Goes("evict", "idle")
      /\ \E doomed \in SUBSET exited :
           /\ Cardinality(exited \ doomed) =< MaxExited
           /\ ptys' = [i \in Ids |-> IF i \in doomed THEN NoPty ELSE ptys[i]]
           /\ inputs' = [i \in Ids |-> IF i \in doomed THEN 0 ELSE inputs[i]]
      /\ UNCHANGED <<ids, fdTable, child, kernel, owned, parked, abandoned, cleanups, announced,
                     strays>>

SupervisorStep ==
  \/ Scan \/ Ready \/ FallbackCleanup \/ EnforceDeadlines \/ EscalateAbandoned \/ ReapZombies
  \/ EvictExited

-----------------------------------------------------------------------------
(* Time, the reader threads and the children.                              *)

DrainPasses(i) ==
  /\ ptys[i].drain = "armed" /\ ptys' = [ptys EXCEPT ![i].drain = "due"]
  /\ UNCHANGED <<ids, inputs, fdTable, child, kernel, owned, parked, abandoned, cleanups,
                 supervisor, announced, strays>>
GracePasses(s) ==
  /\ abandoned[s] = "grace" /\ abandoned' = [abandoned EXCEPT ![s] = "due"]
  /\ UNCHANGED <<ptys, ids, inputs, fdTable, child, kernel, owned, parked, cleanups, supervisor,
                 announced, strays>>

noRequest == <<ptys, ids, inputs, fdTable, owned, parked, abandoned, cleanups, supervisor,
               announced, strays>>

(* A read holds the tty its descriptor stood for when it began, whatever   *)
(* becomes of the descriptor.                                              *)
ReaderEnters(s) ==
  /\ reader[s].at = "loop"
  /\ reader' = [reader EXCEPT ![s] = [at |-> "blocked", on |-> fdTable[child[s].fd]]]
  /\ UNCHANGED <<noRequest, child, tty, unprinted, queue>>

SlaveOpen(t) == t # 0 /\ ((tty[t].attached /\ Alive(t)) \/ tty[t].kin)
HasReceiver(s) == \E i \in Ids : ptys[i].spawn = s
ReaderReturns(s) ==
  LET t == reader[s].on
      chunk == t # 0 /\ tty[t].printed > 0
  IN  /\ reader[s].at = "blocked" /\ (chunk \/ ~SlaveOpen(t))
      /\ HasReceiver(s) => Len(queue[s]) < ChannelCap
      /\ tty' = IF chunk THEN [tty EXCEPT ![t].printed = @ - 1] ELSE tty
      /\ queue' = IF HasReceiver(s) THEN [queue EXCEPT ![s] = Append(@, IF chunk THEN t ELSE 0)]
                  ELSE queue
      /\ reader' = [reader EXCEPT ![s] = [at |-> IF chunk /\ HasReceiver(s) THEN "loop" ELSE "gone",
                                          on |-> 0]]
      /\ UNCHANGED <<noRequest, child, unprinted>>

ChildEnds(s) ==
  /\ Alive(s) /\ child' = [child EXCEPT ![s].st = "zombie"] /\ UNCHANGED <<noRequest, kernel>>
KilledEnds(s) == child[s].st = "killed" /\ ChildEnds(s)

(* It prints, leaves a descendant on the terminal, or lets go of it; the   *)
(* descendant ends.                                                        *)
ChildActs(s) ==
  /\ \/ /\ SlaveOpen(s) /\ unprinted > 0
        /\ tty' = [tty EXCEPT ![s].printed = @ + 1] /\ unprinted' = unprinted - 1
     \/ /\ \/ Alive(s) /\ tty[s].attached /\ tty' = [tty EXCEPT ![s].kin = TRUE]
           \/ Alive(s) /\ tty[s].attached /\ tty' = [tty EXCEPT ![s].attached = FALSE]
           \/ tty[s].kin /\ tty' = [tty EXCEPT ![s].kin = FALSE]
        /\ UNCHANGED unprinted
  /\ UNCHANGED <<noRequest, child, reader, queue>>

-----------------------------------------------------------------------------
Request ==
  \/ \E f \in Fds : Create(f) \/ \E i \in Ids : Restart(i, f)
  \/ \E i \in Ids :
       \/ CloseTerminal(i)
       \/ "kill" \in Signals /\ \E signal \in {"asked", "killed"} : Kill(i, signal)
       \/ "deadline" \in Signals /\ \E timer \in {"off", "armed"} : Deadline(i, timer)

PtyNext ==
  \/ Request
  \/ \E i \in Ids : Tick(i) \/ DrainPasses(i)
  \/ EofCleanup \/ SupervisorStep
  \/ \E s \in Spawns : \/ GracePasses(s) \/ ReaderEnters(s) \/ ReaderReturns(s)
                       \/ ChildEnds(s) \/ ChildActs(s)

PtySpec == PtyInit /\ [][PtyNext]_ptyVars

(* The supervisor wakes at every deadline it keeps, time passes, and a     *)
(* killed child dies. Nothing is asked of the tick or the readers: nobody  *)
(* may be attached, and a descendant may hold the slave for ever.          *)
PtyFairness ==
  /\ WF_ptyVars(SupervisorStep)
  /\ \A i \in Ids : WF_ptyVars(DrainPasses(i))
  /\ \A s \in Spawns : WF_ptyVars(GracePasses(s)) /\ WF_ptyVars(KilledEnds(s))

PtyLiveSpec == PtySpec /\ PtyFairness

-----------------------------------------------------------------------------
(* Properties.                                                             *)

(* Exit detection and Eof race with a restart of the same id: the exit of a*)
(* child is announced, and its terminal hung up, only after that child died*)
(* or its own reader saw the end.                                          *)
NoChildDiesForAnother ==
  \A s \in announced : ~Alive(s) \/ reader[s].at = "gone"

(* Descriptors are numbers that come back: a live terminal's master, and   *)
(* where its input is written, are its own tty, whatever was closed around *)
(* it, and what has no live terminal takes no input.                       *)
TerminalsKeepTheirFds ==
  \A i \in Ids :
    /\ Live(i) => /\ fdTable[child[ptys[i].spawn].fd] = ptys[i].spawn
                  /\ inputs[i] = child[ptys[i].spawn].fd
    /\ ~Live(i) => inputs[i] = 0

(* The death of a child is announced if its terminal stays, however its    *)
(* status was collected and whoever still holds the tty.                   *)
ExitsAreNoticed ==
  \A s \in Spawns : (s \in Born /\ ~Alive(s)) ~> (s \in announced \/ ~HasReceiver(s))

(* C2S_CLOSE forgets the terminal but not the child: it dies and is waited *)
(* for, or it would stay a zombie for the life of the server.              *)
ClosedChildrenAreReaped ==
  \A s \in Spawns :
    (s \in Born /\ ~HasReceiver(s) /\ s \notin announced) ~> (child[s].st = "waited")

(* "a hangup the child answered promptly cancels the pending SIGKILL       *)
(* instead of firing it late" (docs/protocol.md): the group a close        *)
(* escalates against is one the server has not given back.                 *)
EscalationsHitTheirOwn == "escalate" \notin strays

(* "a group kill on a reaped pid would land on whatever recycled it"       *)
(* (lib.rs, C2S_KILL), and the same of a deadline's signals.               *)
KillsHitTheirOwn == strays \cap {"kill", "deadline"} = {}

(* "a child whose SIGCHLD we missed cannot linger as a zombie" (lib.rs,    *)
(* supervise): somebody will wait for every child not yet waited for.      *)
EveryChildHasAReaper ==
  \A s \in Born : child[s].st # "waited" => (s \in owned \/ abandoned[s] # "no" \/ AsInit)

(* A channel carries the output of its own terminal.                       *)
OutputStaysHome == \A s \in Spawns : \A n \in 1..Len(queue[s]) : queue[s][n] \in {0, s}
=============================================================================
