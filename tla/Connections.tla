---------------------------- MODULE Connections -----------------------------
(***************************************************************************)
(* How connections begin and end, crates/server/src/lib.rs, with the       *)
(* admission of the native jobs of extension connections,                  *)
(* crates/server/src/extension_jobs.rs. A connection registers, serves, is *)
(* cancelled or leaves, and joins its jobs before its registration drops.  *)
(* Shutdown seals the registry, cancels what is registered and waits until *)
(* nothing is.                                                             *)
(*                                                                         *)
(* A job holds a pending record, then a permit of its endpoint, then one of*)
(* the server, and then runs. Request bytes are charged and returned with  *)
(* the pending and active counts and are left out; a family's cancellation *)
(* acts on a pending job as its connection's does.                         *)
(***************************************************************************)
EXTENDS Integers, FiniteSets, FiniteSetsExt

CONSTANTS
  Conns,            \* connections that may be made
  Extension,        \* those made by extensions: only they have jobs
  MaxConnections,   \* Config.max_connections: 0 is no limit
  Jobs,             \* jobs that may be requested
  ActivePerEndpoint, ActiveGlobal, PendingPerEndpoint, PendingGlobal   \* Limits

VARIABLES
  latch,       \* ConnectionRegistry.shutting_down
  registered,  \* ConnectionRegistry.cancellations
  emptied,     \* a permit of ConnectionRegistry.drained
  closer,      \* where begin_server_shutdown and the wait after it are
  conn,        \* where each connection is
  cancelled,   \* connections whose ConnectionCancellation is set
  activeConns,      \* AppState.active_connections
  job,         \* where each job is, and its connection
  usage,       \* Usage, of each endpoint and of the server (key 0)
  permits,     \* the semaphores' free permits, likewise
  tasks,       \* EndpointInner.tasks
  drained      \* what each connection's drain listens for: "deaf", "listening", "woken"

connVars == <<latch, registered, emptied, closer, conn, cancelled, activeConns, job, usage,
              permits, tasks, drained>>
connState == <<latch, registered, emptied, closer, conn, cancelled, activeConns, drained>>
jobVars  == <<job, usage, permits, tasks>>

ASSUME ConnConstants ==
  /\ IsFiniteSet(Jobs) /\ 0 \notin Extension
  /\ ActivePerEndpoint \in Nat /\ ActiveGlobal \in Nat

Scopes == Extension \cup {0}
NoJob == [st |-> "none", of |-> 0]

ConnInit ==
  /\ latch = FALSE /\ registered = {} /\ emptied = FALSE /\ closer = "up"
  /\ conn = [c \in Conns |-> "new"] /\ cancelled = {} /\ activeConns = 0
  /\ job = [j \in Jobs |-> NoJob]
  /\ usage = [s \in Scopes |-> [pending |-> 0, active |-> 0]]
  /\ permits = [s \in Scopes |-> IF s = 0 THEN ActiveGlobal ELSE ActivePerEndpoint]
  /\ tasks = [c \in Extension |-> 0]
  /\ drained = [c \in Extension |-> "deaf"]

-----------------------------------------------------------------------------
(* Connections.                                                            *)

MutJoin(c) ==   \* the latch is read before the lock is taken
  \/ /\ conn[c] = "new" /\ ~latch
     /\ conn' = [conn EXCEPT ![c] = "unlatched"]
     /\ UNCHANGED <<latch, registered, emptied, closer, cancelled, activeConns, drained, jobVars>>
  \/ /\ conn[c] = "unlatched"
     /\ registered' = registered \cup {c} /\ conn' = [conn EXCEPT ![c] = "registered"]
     /\ UNCHANGED <<latch, emptied, closer, cancelled, activeConns, drained, jobVars>>
Join(c) ==
  /\ conn[c] = "new"
  /\ \/ /\ latch
        /\ conn' = [conn EXCEPT ![c] = "refused"] /\ cancelled' = cancelled \cup {c}
        /\ UNCHANGED registered
     \/ /\ ~latch
        /\ conn' = [conn EXCEPT ![c] = "registered"] /\ registered' = registered \cup {c}
        /\ UNCHANGED cancelled
  /\ UNCHANGED <<latch, emptied, closer, activeConns, drained, jobVars>>

Unregister(c) == registered' = registered \ {c} /\ emptied' = TRUE

HasRoom == MaxConnections = 0 \/ activeConns < MaxConnections

(* Network connections are counted; one too many drops its registration.   *)
Admit(c) ==
  /\ conn[c] = "registered"
  /\ \/ /\ c \in Extension \/ HasRoom
        /\ conn' = [conn EXCEPT ![c] = "serving"]
        /\ activeConns' = IF c \in Extension THEN activeConns ELSE activeConns + 1
        /\ UNCHANGED <<registered, emptied>>
     \/ /\ c \notin Extension /\ ~HasRoom
        /\ conn' = [conn EXCEPT ![c] = "refused"]
        /\ Unregister(c) /\ UNCHANGED activeConns
  /\ UNCHANGED <<latch, closer, cancelled, drained, jobVars>>

(* The client leaves, or its cancellation is seen.                         *)
Leave(c) ==
  /\ conn[c] = "serving"
  /\ conn' = [conn EXCEPT ![c] = IF c \in Extension THEN "draining" ELSE "drained"]
  /\ cancelled' = cancelled \cup {c}
  /\ UNCHANGED <<latch, registered, emptied, closer, activeConns, drained, jobVars>>

(* cancel_and_drain: it listens before it looks, so that a last job between*)
(* the two is heard.                                                       *)
MutDrain(c) ==   \* it looks, and then listens
  /\ c \in Extension
  /\ \/ /\ conn[c] = "draining" /\ drained[c] = "deaf"
        /\ conn' = [conn EXCEPT ![c] = IF tasks[c] = 0 THEN "drained" ELSE "parking"]
        /\ UNCHANGED drained
     \/ /\ conn[c] = "parking"
        /\ conn' = [conn EXCEPT ![c] = "parked"] /\ drained' = [drained EXCEPT ![c] = "listening"]
     \/ /\ conn[c] = "parked" /\ drained[c] = "woken"
        /\ conn' = [conn EXCEPT ![c] = "draining"] /\ drained' = [drained EXCEPT ![c] = "deaf"]
  /\ UNCHANGED <<latch, registered, emptied, closer, cancelled, activeConns, jobVars>>
Drain(c) ==
  /\ c \in Extension
  /\ \/ /\ conn[c] = "draining" /\ drained[c] = "deaf"
        /\ drained' = [drained EXCEPT ![c] = "listening"] /\ UNCHANGED conn
     \/ /\ conn[c] = "draining" /\ drained[c] # "deaf"
        /\ conn' = [conn EXCEPT ![c] = IF tasks[c] = 0 THEN "drained" ELSE "parked"]
        /\ UNCHANGED drained
     \/ /\ conn[c] = "parked" /\ drained[c] = "woken"
        /\ conn' = [conn EXCEPT ![c] = "draining"] /\ drained' = [drained EXCEPT ![c] = "deaf"]
  /\ UNCHANGED <<latch, registered, emptied, closer, cancelled, activeConns, jobVars>>

(* The registration drops with its handler; only then is a network         *)
(* connection no longer counted.                                           *)
Gone(c) ==
  /\ conn[c] = "drained"
  /\ conn' = [conn EXCEPT ![c] = IF c \in Extension THEN "gone" ELSE "unregistered"]
  /\ Unregister(c)
  /\ UNCHANGED <<latch, closer, cancelled, activeConns, drained, jobVars>>

Uncount(c) ==
  /\ conn[c] = "unregistered"
  /\ conn' = [conn EXCEPT ![c] = "gone"] /\ activeConns' = activeConns - 1
  /\ UNCHANGED <<latch, registered, emptied, closer, cancelled, drained, jobVars>>

-----------------------------------------------------------------------------
(* Shutdown.                                                               *)

Seal ==
  /\ closer = "up"
  /\ latch' = TRUE /\ closer' = "sealed"
  /\ UNCHANGED <<registered, emptied, conn, cancelled, activeConns, drained, jobVars>>

(* Every client was told, or the time for telling them has passed.         *)
CancelAll ==
  /\ closer = "sealed"
  /\ cancelled' = cancelled \cup registered /\ closer' = "waiting"
  /\ UNCHANGED <<latch, registered, emptied, conn, activeConns, drained, jobVars>>

(* wait_empty: a registration that drops leaves a permit behind.           *)
WaitEmpty ==
  /\ \/ /\ closer = "waiting"
        /\ closer' = IF registered = {} THEN "down" ELSE "parked"
        /\ UNCHANGED emptied
     \/ closer = "parked" /\ emptied /\ closer' = "waiting" /\ emptied' = FALSE
  /\ UNCHANGED <<latch, registered, conn, cancelled, activeConns, drained, jobVars>>

-----------------------------------------------------------------------------
(* Jobs.                                                                   *)

Charge(c, field, n) ==
  [s \in Scopes |-> IF s \in {0, c} THEN [usage[s] EXCEPT ![field] = @ + n] ELSE usage[s]]
Give(c, scopes) == [s \in Scopes |-> IF s \in scopes THEN permits[s] + 1 ELSE permits[s]]

Fits(c) == usage[c].pending < PendingPerEndpoint /\ usage[0].pending < PendingGlobal

Reserve(c, j) ==
  /\ c \in Extension /\ conn[c] = "serving"
  /\ job[j].st = "none" /\ \A i \in Jobs : job[i].st = "none" => j =< i
  /\ \/ /\ Fits(c)
        /\ job' = [job EXCEPT ![j] = [st |-> "pending", of |-> c]]
        /\ usage' = Charge(c, "pending", 1)
        /\ tasks' = [tasks EXCEPT ![c] = @ + 1]
        /\ UNCHANGED cancelled
     \/ ~Fits(c) /\ cancelled' = cancelled \cup {c} /\ UNCHANGED <<job, usage, tasks>>
  /\ UNCHANGED <<latch, registered, emptied, closer, conn, activeConns, drained, permits>>

(* Endpoint first: a saturated endpoint never hoards a server-wide permit. *)
TakePermit(j, from, scope, to) ==
  /\ job[j].st = from /\ permits[scope] > 0 /\ job[j].of \notin cancelled
  /\ job' = [job EXCEPT ![j].st = to]
  /\ permits' = [permits EXCEPT ![scope] = @ - 1]
  /\ UNCHANGED <<connState, usage, tasks>>

TakeEndpointPermit(j) == job[j].st # "none" /\ TakePermit(j, "pending", job[j].of, "endpoint")
TakeGlobalPermit(j)   == TakePermit(j, "endpoint", 0, "both")

(* Cancelled while it waits, or while it was given a permit: the permit of *)
(* its endpoint and the pending record return.                             *)
MutAbandon(j) ==   \* the wait for the second permit keeps the first
  LET c == job[j].of
  IN  /\ job[j].st \in {"pending", "endpoint"} /\ c \in cancelled
      /\ job' = [job EXCEPT ![j].st = "returned"]
      /\ usage' = Charge(c, "pending", -1)
      /\ UNCHANGED <<connState, tasks, permits>>
Abandon(j) ==
  LET c == job[j].of
  IN  /\ job[j].st \in {"pending", "endpoint"} /\ c \in cancelled
      /\ job' = [job EXCEPT ![j].st = "returned"]
      /\ usage' = Charge(c, "pending", -1)
      /\ permits' = IF job[j].st = "endpoint" THEN Give(c, {c}) ELSE permits
      /\ UNCHANGED <<connState, tasks>>

(* From here on a cancellation comes too late: the native call is made.    *)
Activate(j) ==
  LET c == job[j].of
      left == Charge(c, "pending", -1)
  IN  /\ job[j].st = "both"
      /\ job' = [job EXCEPT ![j].st = "active"]
      /\ usage' = [s \in Scopes |-> IF s \in {0, c} THEN [left[s] EXCEPT !.active = @ + 1]
                                                    ELSE left[s]]
      /\ UNCHANGED <<connState, permits, tasks>>

CallReturns(j) ==
  LET c == job[j].of
  IN  /\ job[j].st = "active"
      /\ job' = [job EXCEPT ![j].st = "returned"]
      /\ usage' = Charge(c, "active", -1)
      /\ permits' = Give(c, {0, c})
      /\ UNCHANGED <<connState, tasks>>

(* TaskGuard::drop.                                                        *)
MutTaskEnds(j) ==   \* the task counts as ended while its call still runs
  LET c == job[j].of
  IN  /\ job[j].st \in {"active", "returned"} /\ tasks[c] > 0
      /\ job' = [job EXCEPT ![j].st = IF @ = "active" THEN "active" ELSE "ended"]
      /\ tasks' = [tasks EXCEPT ![c] = @ - 1]
      /\ drained' = IF tasks[c] = 1 /\ drained[c] = "listening"
                    THEN [drained EXCEPT ![c] = "woken"] ELSE drained
      /\ UNCHANGED <<latch, registered, emptied, closer, conn, cancelled, activeConns, usage, permits>>
TaskEnds(j) ==
  LET c == job[j].of
  IN  /\ job[j].st = "returned"
      /\ job' = [job EXCEPT ![j].st = "ended"]
      /\ tasks' = [tasks EXCEPT ![c] = @ - 1]
      /\ drained' = IF tasks[c] = 1 /\ drained[c] = "listening"
                    THEN [drained EXCEPT ![c] = "woken"] ELSE drained
      /\ UNCHANGED <<latch, registered, emptied, closer, conn, cancelled, activeConns, usage, permits>>

JobStep(j) ==
  \/ TakeEndpointPermit(j) \/ TakeGlobalPermit(j) \/ Abandon(j) \/ Activate(j)
  \/ CallReturns(j) \/ TaskEnds(j)

ConnNext ==
  \/ \E c \in Conns : Join(c) \/ Admit(c) \/ Leave(c) \/ Drain(c) \/ Gone(c) \/ Uncount(c)
                        \/ \E j \in Jobs : Reserve(c, j)
  \/ Seal \/ CancelAll \/ WaitEmpty
  \/ \E j \in Jobs : JobStep(j)

ConnSpec == ConnInit /\ [][ConnNext]_connVars

(* Tasks are scheduled, a cancelled connection leaves its loop, and native *)
(* calls return: a drain waits for them, however long they take.           *)
ConnStep(c) == Admit(c) \/ Drain(c) \/ Gone(c) \/ Uncount(c) \/ (c \in cancelled /\ Leave(c))
ShutdownStep == CancelAll \/ WaitEmpty
ConnFairness ==
  /\ \A c \in Conns : WF_connVars(ConnStep(c))
  /\ WF_connVars(ShutdownStep)
  /\ \A j \in Jobs : WF_connVars(JobStep(j))

ConnLiveSpec == ConnSpec /\ ConnFairness

-----------------------------------------------------------------------------
(* Properties.                                                             *)

At(c, states) == {j \in Jobs : job[j].st \in states /\ job[j].of \in (IF c = 0 THEN Extension ELSE {c})}

(* What a job holds is charged once, to its endpoint and to the server, and*)
(* comes back by whatever path the job ends: a permit lost would shrink    *)
(* the server for every extension, one returned twice would let more run   *)
(* than the limit.                                                         *)
JobsHoldWhatIsCharged ==
  \A s \in Scopes :
    /\ usage[s].pending = Cardinality(At(s, {"pending", "endpoint", "both"}))
    /\ usage[s].active = Cardinality(At(s, {"active"}))
    /\ permits[s] = IF s = 0 THEN ActiveGlobal - Cardinality(At(s, {"both", "active"}))
                    ELSE ActivePerEndpoint - Cardinality(At(s, {"endpoint", "both", "active"}))

(* "a connection racing with shutdown is either registered and cancelled by*)
(* the snapshot or refused by register" (lib.rs): nobody that shutdown     *)
(* waits for has been left uncancelled.                                    *)
NobodySlipsPastShutdown == closer \in {"waiting", "parked"} => registered \subseteq cancelled

(* No call of a connection is still running when the connection is gone:   *)
(* cancel_and_drain joins them.                                            *)
CallsEndWithTheirConnection ==
  \A j \in Jobs : job[j].st \in {"pending", "endpoint", "both", "active"}
                    => conn[job[j].of] \in {"serving", "draining", "parked"}

(* Once sealed, the server comes down: every wait of shutdown and of the   *)
(* connections' ends hears what it waits for.                              *)
ShutdownCompletes == latch ~> (closer = "down")
=============================================================================
