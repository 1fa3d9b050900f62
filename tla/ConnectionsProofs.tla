-------------------------- MODULE ConnectionsProofs --------------------------
(* Proofs about Connections, for any number of connections and jobs and    *)
(* for all limits.                                                         *)
EXTENDS Connections, FiniteSetTheorems, TLAPS

JobStates == {"none", "pending", "endpoint", "both", "active", "returned", "ended"}
Unjoined  == {"pending", "endpoint", "both", "active", "returned"}

ConnTypeOK ==
  /\ latch \in BOOLEAN /\ emptied \in BOOLEAN
  /\ closer \in {"up", "sealed", "waiting", "parked", "down"}
  /\ registered \subseteq Conns /\ cancelled \subseteq Conns
  /\ conn \in [Conns -> {"new", "refused", "registered", "serving", "draining", "parked",
                         "drained", "unregistered", "gone"}]
  /\ job \in [Jobs -> [st : JobStates, of : Scopes]]
  /\ usage \in [Scopes -> [pending : Int, active : Int]]
  /\ permits \in [Scopes -> Int]
  /\ tasks \in [Extension -> Int]
  /\ drained \in [Extension -> {"deaf", "listening", "woken"}]

(* What shutdown needs: the registry was sealed first.                     *)
SealedFirst == closer # "up" => latch

(* Every job that was admitted has its connection, and a connection counts *)
(* the tasks it has to join.                                               *)
JobsAreOwned == \A j \in Jobs : job[j].st # "none" => job[j].of \in Extension \cap Conns
TasksAreCounted == \A c \in Extension : tasks[c] = Cardinality(At(c, Unjoined))
TasksAreJoined ==
  \A j \in Jobs : job[j].st \in Unjoined => conn[job[j].of] \in {"serving", "draining", "parked"}

ConnInv ==
  /\ ConnTypeOK
  /\ SealedFirst /\ NobodySlipsPastShutdown
  /\ JobsAreOwned /\ TasksAreCounted /\ TasksAreJoined
  /\ JobsHoldWhatIsCharged

-----------------------------------------------------------------------------
(* Counting jobs.                                                          *)

(* The jobs in some states are finitely many.                              *)
LEMMA AtIsFinite ==
  ASSUME NEW s, NEW X
  PROVE  IsFiniteSet(At(s, X)) /\ Cardinality(At(s, X)) \in Nat
<1>1. At(s, X) \subseteq Jobs
  BY DEF At
<1>. QED BY <1>1, ConnConstants, FS_Subset, FS_CardinalityType

(* Two sets that differ in one element at most.                            *)
LEMMA OneElement ==
  ASSUME NEW A, IsFiniteSet(A), NEW B, NEW x, B \ {x} = A \ {x}
  PROVE  Cardinality(B) = Cardinality(A) + (IF x \in B THEN 1 ELSE 0) - (IF x \in A THEN 1 ELSE 0)
<1>1. Cardinality(A) \in Nat
  BY FS_CardinalityType
<1>2. CASE x \in B
  <2>1. B = A \cup {x}
    BY <1>2
  <2>2. Cardinality(B) = IF x \in A THEN Cardinality(A) ELSE Cardinality(A) + 1
    BY <2>1, FS_AddElement
  <2>. QED BY <1>1, <1>2, <2>2
<1>3. CASE x \notin B
  <2>1. B = A \ {x}
    BY <1>3
  <2>2. Cardinality(B) = IF x \in A THEN Cardinality(A) - 1 ELSE Cardinality(A)
    BY <2>1, FS_RemoveElement
  <2>. QED BY <1>1, <1>3, <2>2
<1>. QED BY <1>2, <1>3

(* A job that was requested, or moves on, is counted where it arrives and  *)
(* no longer where it was, for its connection and for the server.          *)
LEMMA AtMoves ==
  ASSUME ConnTypeOK, NEW j \in Jobs, NEW c \in Extension, NEW st \in JobStates,
         job' = [job EXCEPT ![j] = [st |-> st, of |-> c]],
         job[j].of = c \/ job[j].st = "none",
         NEW s \in Scopes, NEW X, "none" \notin X
  PROVE  Cardinality(At(s, X)') =
           Cardinality(At(s, X)) + (IF s \in {0, c} /\ st \in X THEN 1 ELSE 0)
                                 - (IF s \in {0, c} /\ job[j].st \in X THEN 1 ELSE 0)
<1>1. 0 \notin Extension
  BY ConnConstants
<1>2. IsFiniteSet(At(s, X)) /\ Cardinality(At(s, X)) \in Nat
  BY AtIsFinite
<1>3. \A i \in Jobs \ {j} : i \in At(s, X)' <=> i \in At(s, X)
  BY DEF At, ConnTypeOK
<1>4. j \in At(s, X)' <=> s \in {0, c} /\ st \in X
  BY <1>1 DEF At, ConnTypeOK, Scopes
<1>5. j \in At(s, X) <=> s \in {0, c} /\ job[j].st \in X
  BY <1>1 DEF At, ConnTypeOK, Scopes
<1>6. At(s, X) \subseteq Jobs /\ At(s, X)' \subseteq Jobs
  BY DEF At
<1>7. At(s, X)' \ {j} = At(s, X) \ {j}
  BY <1>3, <1>6
<1> DEFINE A == At(s, X)
           B == At(s, X)'
<1>8. Cardinality(B) = Cardinality(A) + (IF j \in B THEN 1 ELSE 0) - (IF j \in A THEN 1 ELSE 0)
  <2> HIDE DEF A, B
  <2>. QED BY <1>2, <1>7, OneElement DEF A, B
<1>. QED BY <1>4, <1>5, <1>8
-----------------------------------------------------------------------------
(* What a job in state st of connection c adds to the count of scope s.    *)
Adds(s, c, st, X) == IF s \in {0, c} /\ st \in X THEN 1 ELSE 0

Waiting == {"pending", "endpoint", "both"}
Permitted(s) == IF s = 0 THEN {"both", "active"} ELSE {"endpoint", "both", "active"}

(* What each state adds: to pending, to active, to the permits in use and  *)
(* to the tasks.                                                           *)
AddsUp(s, c, st, pending, active, inUse, task) ==
  /\ Adds(s, c, st, Waiting) = pending /\ Adds(s, c, st, {"active"}) = active
  /\ Adds(s, c, st, Permitted(s)) = inUse /\ Adds(s, c, st, Unjoined) = task

(* What a job of each state adds to the four counters of the endpoint c    *)
(* and of the host.                                                        *)
LEMMA AddsOf ==
  ASSUME NEW c, c # 0
  PROVE  \A s : LET one == IF s \in {0, c} THEN 1 ELSE 0
                    own == IF s = c THEN 1 ELSE 0
                IN  /\ AddsUp(s, c, "none", 0, 0, 0, 0)
                    /\ AddsUp(s, c, "pending", one, 0, 0, one)
                    /\ AddsUp(s, c, "endpoint", one, 0, own, one)
                    /\ AddsUp(s, c, "both", one, 0, one, one)
                    /\ AddsUp(s, c, "active", 0, one, one, one)
                    /\ AddsUp(s, c, "returned", 0, 0, 0, one)
                    /\ AddsUp(s, c, "ended", 0, 0, 0, 0)
BY DEF AddsUp, Adds, Waiting, Unjoined, Permitted

(* The counters are numbers.                                               *)
LEMMA CountersAreInts ==
  ASSUME ConnInv
  PROVE  /\ \A s \in Scopes : usage[s].pending \in Int /\ usage[s].active \in Int /\ permits[s] \in Int
         /\ \A e \in Extension : e # 0 /\ e \in Scopes /\ tasks[e] \in Int
BY ConnConstants DEF ConnInv, ConnTypeOK, Scopes

(* The counters follow a job from one state to the next.                   *)
Follows(c, j, st) ==
  /\ \A s \in Scopes :
       /\ usage'[s].pending = usage[s].pending + Adds(s, c, st, Waiting) - Adds(s, c, job[j].st, Waiting)
       /\ usage'[s].active = usage[s].active + Adds(s, c, st, {"active"}) - Adds(s, c, job[j].st, {"active"})
       /\ permits'[s] = permits[s] - Adds(s, c, st, Permitted(s)) + Adds(s, c, job[j].st, Permitted(s))
  /\ \A e \in Extension :
       tasks'[e] = tasks[e] + Adds(e, c, st, Unjoined) - Adds(e, c, job[j].st, Unjoined)

(* A job that moves to a state whose counters move with it leaves every    *)
(* counter the number of jobs it counts.                                   *)
LEMMA MoveKeepsCounts ==
  ASSUME ConnInv, NEW j \in Jobs, NEW c \in Extension, NEW st \in JobStates,
         job' = [job EXCEPT ![j] = [st |-> st, of |-> c]],
         job[j].of = c \/ job[j].st = "none",
         Follows(c, j, st)
  PROVE  JobsHoldWhatIsCharged' /\ TasksAreCounted'
<1>1. \A s \in Scopes : \A X : "none" \notin X =>
        Cardinality(At(s, X)') = Cardinality(At(s, X)) + Adds(s, c, st, X) - Adds(s, c, job[j].st, X)
  BY AtMoves DEF Adds, ConnInv
<1>2. \A s \in Scopes : \A X : Cardinality(At(s, X)) \in Nat /\ Adds(s, c, st, X) \in {0, 1}
                                /\ Adds(s, c, job[j].st, X) \in {0, 1}
  BY AtIsFinite DEF Adds
<1>3. ActiveGlobal \in Nat /\ ActivePerEndpoint \in Nat
  BY ConnConstants
<1>4. ASSUME NEW s \in Scopes
      PROVE  /\ usage'[s].pending = Cardinality(At(s, Waiting)')
             /\ usage'[s].active = Cardinality(At(s, {"active"})')
             /\ permits'[s] = (IF s = 0 THEN ActiveGlobal ELSE ActivePerEndpoint)
                                - Cardinality(At(s, Permitted(s))')
  <2>1. /\ usage[s].pending = Cardinality(At(s, Waiting))
        /\ usage[s].active = Cardinality(At(s, {"active"}))
        /\ permits[s] = (IF s = 0 THEN ActiveGlobal ELSE ActivePerEndpoint)
                          - Cardinality(At(s, Permitted(s)))
    BY <1>4 DEF ConnInv, JobsHoldWhatIsCharged, Waiting, Permitted
  <2>2. "none" \notin Waiting /\ "none" \notin {"active"} /\ "none" \notin Permitted(s)
    BY DEF Waiting, Permitted
  <2>3. (IF s = 0 THEN ActiveGlobal ELSE ActivePerEndpoint) \in Nat
    BY <1>3
  <2>. QED BY <1>1, <1>2, <1>4, <2>1, <2>2, <2>3 DEF Follows
<1>5. JobsHoldWhatIsCharged'
  BY <1>4 DEF JobsHoldWhatIsCharged, Waiting, Permitted
<1>6. ASSUME NEW e \in Extension
      PROVE  tasks'[e] = Cardinality(At(e, Unjoined)')
  <2>1. tasks[e] = Cardinality(At(e, Unjoined)) /\ e \in Scopes /\ "none" \notin Unjoined
    BY DEF ConnInv, TasksAreCounted, Scopes, Unjoined
  <2>. QED BY <1>1, <1>2, <2>1 DEF Follows
<1>. QED BY <1>5, <1>6 DEF TasksAreCounted

(* So a job's step keeps the invariant if its counters follow it and its   *)
(* connection is still there to join it.                                   *)
LEMMA MoveKeepsInv ==
  ASSUME ConnInv, NEW j \in Jobs, NEW c \in Extension \cap Conns, NEW st \in JobStates,
         job' = [job EXCEPT ![j] = [st |-> st, of |-> c]],
         job[j].of = c \/ job[j].st = "none",
         st \in Unjoined => conn[c] \in {"serving", "draining", "parked"},
         Follows(c, j, st), ConnTypeOK',
         UNCHANGED <<latch, registered, closer, conn>>, cancelled \subseteq cancelled'
  PROVE  ConnInv'
<1>1. JobsHoldWhatIsCharged' /\ TasksAreCounted'
  BY MoveKeepsCounts
<1>2. /\ job'[j] = [st |-> st, of |-> c]
      /\ \A i \in Jobs \ {j} : job'[i] = job[i]
  BY DEF ConnInv, ConnTypeOK
<1>3. JobsAreOwned'
  BY <1>2 DEF ConnInv, JobsAreOwned
<1>4. TasksAreJoined'
  BY <1>2 DEF ConnInv, TasksAreJoined
<1>5. SealedFirst' /\ NobodySlipsPastShutdown'
  BY DEF ConnInv, SealedFirst, NobodySlipsPastShutdown
<1>. QED BY <1>1, <1>3, <1>4, <1>5 DEF ConnInv

(* A job that is somewhere has a connection, and its record is made of     *)
(* where it is and of that.                                                *)
LEMMA JobIsOwned ==
  ASSUME ConnInv, NEW j \in Jobs, job[j].st # "none"
  PROVE  /\ job[j].of \in Extension \cap Conns /\ job[j].of \in Scopes /\ 0 \in Scopes
         /\ job[j].of # 0
         /\ \A st : [job EXCEPT ![j].st = st] = [job EXCEPT ![j] = [st |-> st, of |-> job[j].of]]
         /\ job[j].st \in Unjoined => conn[job[j].of] \in {"serving", "draining", "parked"}
<1>1. job[j].of \in Extension \cap Conns
  BY DEF ConnInv, JobsAreOwned
<1>2. job[j] = [st |-> job[j].st, of |-> job[j].of] /\ DOMAIN job = Jobs
  BY DEF ConnInv, ConnTypeOK
<1>. QED BY <1>1, <1>2, ConnConstants DEF Scopes, ConnInv, TasksAreJoined

(* What leaves the jobs alone leaves their counts alone.                   *)
LEMMA IdleKeepsCounts ==
  ASSUME ConnInv, UNCHANGED jobVars
  PROVE  JobsHoldWhatIsCharged' /\ TasksAreCounted' /\ JobsAreOwned'
<1>1. \A s, X : At(s, X)' = At(s, X)
  BY DEF At, jobVars
<1>2. \A s, X : Cardinality(At(s, X)') = Cardinality(At(s, X))
  BY <1>1
<1>3. UNCHANGED <<job, usage, permits, tasks>>
  BY DEF jobVars
<1>4. JobsHoldWhatIsCharged'
  BY <1>2, <1>3 DEF ConnInv, JobsHoldWhatIsCharged
<1>5. TasksAreCounted'
  BY <1>2, <1>3 DEF ConnInv, TasksAreCounted
<1>. QED BY <1>3, <1>4, <1>5 DEF ConnInv, JobsAreOwned

-----------------------------------------------------------------------------
(* The steps of a job.                                                     *)

(* A reservation is charged to the endpoint and to the host in the same    *)
(* step.                                                                   *)
LEMMA ReserveKeepsInv ==
  ASSUME ConnInv, NEW c \in Conns, NEW j \in Jobs, Reserve(c, j)
  PROVE  ConnInv'
<1>1. CASE UNCHANGED <<job, usage, tasks>> /\ cancelled' = cancelled \cup {c}
  <2>1. UNCHANGED jobVars /\ UNCHANGED <<latch, registered, emptied, closer, conn, activeConns, drained>>
    BY <1>1 DEF Reserve, jobVars
  <2>2. ConnTypeOK' /\ SealedFirst' /\ NobodySlipsPastShutdown' /\ TasksAreJoined'
    BY <1>1, <2>1 DEF ConnInv, ConnTypeOK, SealedFirst, NobodySlipsPastShutdown, TasksAreJoined, jobVars
  <2>. QED BY <2>1, <2>2, IdleKeepsCounts DEF ConnInv
<1>2. CASE /\ job' = [job EXCEPT ![j] = [st |-> "pending", of |-> c]]
           /\ usage' = Charge(c, "pending", 1)
           /\ tasks' = [tasks EXCEPT ![c] = @ + 1]
           /\ UNCHANGED cancelled
  <2>1. c \in Extension \cap Conns /\ conn[c] = "serving" /\ job[j].st = "none" /\ "pending" \in JobStates
    BY DEF Reserve, JobStates
  <2>2. UNCHANGED <<latch, registered, emptied, closer, conn, cancelled, activeConns, drained, permits>>
    BY <1>2 DEF Reserve
  <2>3. c # 0 /\ c \in Scopes /\ 0 \in Scopes
    BY <2>1, ConnConstants DEF Scopes
  <2>4. \A s \in Scopes :
          /\ usage'[s].pending = usage[s].pending + (IF s \in {0, c} THEN 1 ELSE 0)
          /\ usage'[s].active = usage[s].active
          /\ usage'[s] \in [pending : Int, active : Int]
    BY <1>2 DEF Charge, ConnInv, ConnTypeOK
  <2>5. Follows(c, j, "pending")
    <3>1. \A e \in Extension : tasks'[e] = tasks[e] + (IF e = c THEN 1 ELSE 0)
      BY <1>2, <2>1 DEF ConnInv, ConnTypeOK
    <3>. QED BY <2>1, <2>2, <2>3, <2>4, <3>1, AddsOf, CountersAreInts DEF Follows, AddsUp
  <2>6. usage' \in [Scopes -> [pending : Int, active : Int]]
    BY <1>2, <2>4 DEF Charge
  <2>7. job' \in [Jobs -> [st : JobStates, of : Scopes]]
    BY <1>2, <2>1, <2>3 DEF ConnInv, ConnTypeOK
  <2>8. tasks' \in [Extension -> Int]
    BY <1>2, <2>1 DEF ConnInv, ConnTypeOK
  <2>9. ConnTypeOK'
    BY <2>2, <2>6, <2>7, <2>8 DEF ConnInv, ConnTypeOK
  <2>. QED BY <1>2, <2>1, <2>2, <2>5, <2>9, MoveKeepsInv
<1>. QED BY <1>1, <1>2 DEF Reserve

(* A permit is taken from the scope the job is counted in from then on.    *)
LEMMA TakePermitKeepsInv ==
  ASSUME ConnInv, NEW j \in Jobs, TakeEndpointPermit(j) \/ TakeGlobalPermit(j)
  PROVE  ConnInv'
<1> DEFINE c == job[j].of
<1>1. /\ c \in Extension \cap Conns /\ c \in Scopes /\ 0 \in Scopes /\ c # 0
      /\ \A st : [job EXCEPT ![j].st = st] = [job EXCEPT ![j] = [st |-> st, of |-> c]]
      /\ job[j].st \in Unjoined => conn[c] \in {"serving", "draining", "parked"}
  <2>1. job[j].st # "none"
    BY DEF TakeEndpointPermit, TakeGlobalPermit, TakePermit
  <2>. QED BY <2>1, JobIsOwned
<1>2. ASSUME NEW scope \in Scopes, NEW from \in JobStates, NEW to \in JobStates,
             TakePermit(j, from, scope, to), from \in Unjoined,
             Follows(c, j, to)
      PROVE  ConnInv'
  <2>1. /\ job' = [job EXCEPT ![j] = [st |-> to, of |-> c]]
        /\ permits' = [permits EXCEPT ![scope] = @ - 1]
        /\ UNCHANGED <<latch, registered, emptied, closer, conn, cancelled, activeConns, drained, usage, tasks>>
    BY <1>1, <1>2 DEF TakePermit, connState
  <2>2. ConnTypeOK'
    BY <1>1, <1>2, <2>1 DEF ConnInv, ConnTypeOK
  <2>. QED BY <1>1, <1>2, <2>1, <2>2, MoveKeepsInv DEF TakePermit
<1>3. CASE TakeEndpointPermit(j)
  <2>1. TakePermit(j, "pending", c, "endpoint") /\ job[j].st = "pending"
    BY <1>3 DEF TakeEndpointPermit, TakePermit
  <2>2. UNCHANGED <<usage, tasks>> /\ permits' = [permits EXCEPT ![c] = @ - 1]
    BY <2>1 DEF TakePermit
  <2>3. \A s \in Scopes : permits'[s] = permits[s] - (IF s = c THEN 1 ELSE 0)
    BY <1>1, <2>2 DEF ConnInv, ConnTypeOK
  <2>4. Follows(c, j, "endpoint")
    BY <1>1, <2>1, <2>2, <2>3, AddsOf, CountersAreInts DEF Follows, AddsUp
  <2>. QED BY <1>1, <1>2, <2>1, <2>4 DEF JobStates, Unjoined
<1>4. CASE TakeGlobalPermit(j)
  <2>1. TakePermit(j, "endpoint", 0, "both") /\ job[j].st = "endpoint"
    BY <1>4 DEF TakeGlobalPermit, TakePermit
  <2>2. UNCHANGED <<usage, tasks>> /\ permits' = [permits EXCEPT ![0] = @ - 1]
    BY <2>1 DEF TakePermit
  <2>3. \A s \in Scopes : permits'[s] = permits[s] - (IF s = 0 THEN 1 ELSE 0)
    BY <1>1, <2>2 DEF ConnInv, ConnTypeOK
  <2>4. Follows(c, j, "both")
    BY <1>1, <2>1, <2>2, <2>3, AddsOf, CountersAreInts DEF Follows, AddsUp
  <2>. QED BY <1>1, <1>2, <2>1, <2>4 DEF JobStates, Unjoined
<1>. QED BY <1>3, <1>4

(* An abandoned job gives back its pending charge, and the permit of its   *)
(* endpoint if it held it.                                                 *)
LEMMA AbandonKeepsInv ==
  ASSUME ConnInv, NEW j \in Jobs, Abandon(j)
  PROVE  ConnInv'
<1> DEFINE c == job[j].of
<1>1. job[j].st \in {"pending", "endpoint"}
  BY DEF Abandon
<1>2. /\ c \in Extension \cap Conns /\ c \in Scopes /\ 0 \in Scopes /\ c # 0
      /\ \A st : [job EXCEPT ![j].st = st] = [job EXCEPT ![j] = [st |-> st, of |-> c]]
      /\ conn[c] \in {"serving", "draining", "parked"}
  BY <1>1, JobIsOwned DEF Unjoined
<1>3. /\ job' = [job EXCEPT ![j] = [st |-> "returned", of |-> c]]
      /\ usage' = Charge(c, "pending", -1)
      /\ permits' = IF job[j].st = "endpoint" THEN Give(c, {c}) ELSE permits
      /\ UNCHANGED <<latch, registered, emptied, closer, conn, cancelled, activeConns, drained, tasks>>
  BY <1>2 DEF Abandon, connState
<1>4. \A s \in Scopes :
        /\ usage'[s].pending = usage[s].pending - (IF s \in {0, c} THEN 1 ELSE 0)
        /\ usage'[s].active = usage[s].active
        /\ usage'[s] \in [pending : Int, active : Int]
  BY <1>3 DEF Charge, ConnInv, ConnTypeOK
<1>5. \A s \in Scopes :
        permits'[s] = permits[s] + (IF s = c /\ job[j].st = "endpoint" THEN 1 ELSE 0)
  BY <1>3, CountersAreInts DEF Give
<1>6. Follows(c, j, "returned")
  <2>1. \A s \in Scopes :
          /\ AddsUp(s, c, "pending", IF s \in {0, c} THEN 1 ELSE 0, 0, 0, IF s \in {0, c} THEN 1 ELSE 0)
          /\ AddsUp(s, c, "endpoint", IF s \in {0, c} THEN 1 ELSE 0, 0, IF s = c THEN 1 ELSE 0, IF s \in {0, c} THEN 1 ELSE 0)
          /\ AddsUp(s, c, "returned", 0, 0, 0, IF s \in {0, c} THEN 1 ELSE 0)
    BY <1>2, AddsOf
  <2> HIDE DEF c
  <2>2. ASSUME NEW s \in Scopes
        PROVE  /\ usage'[s].pending = usage[s].pending + Adds(s, c, "returned", Waiting) - Adds(s, c, job[j].st, Waiting)
               /\ usage'[s].active = usage[s].active + Adds(s, c, "returned", {"active"}) - Adds(s, c, job[j].st, {"active"})
               /\ permits'[s] = permits[s] - Adds(s, c, "returned", Permitted(s)) + Adds(s, c, job[j].st, Permitted(s))
               /\ Adds(s, c, "returned", Unjoined) = Adds(s, c, job[j].st, Unjoined)
               /\ Adds(s, c, "returned", Unjoined) \in Int
    BY <1>1, <1>4, <1>5, <2>1, CountersAreInts DEF AddsUp
  <2>3. UNCHANGED tasks
    BY <1>3
  <2>. QED BY <2>2, <2>3, CountersAreInts DEF Follows
<1>7. ConnTypeOK'
  <2>1. usage' \in [Scopes -> [pending : Int, active : Int]]
    BY <1>3, <1>4 DEF Charge
  <2>2. permits' \in [Scopes -> Int]
    BY <1>3 DEF Give, ConnInv, ConnTypeOK
  <2>3. job' \in [Jobs -> [st : JobStates, of : Scopes]]
    BY <1>2, <1>3 DEF ConnInv, ConnTypeOK, JobStates
  <2>. QED BY <1>3, <2>1, <2>2, <2>3 DEF ConnInv, ConnTypeOK
<1>. QED BY <1>2, <1>3, <1>6, <1>7, MoveKeepsInv DEF JobStates

(* Activation moves a job from the pending count to the active one.        *)
LEMMA ActivateKeepsInv ==
  ASSUME ConnInv, NEW j \in Jobs, Activate(j)
  PROVE  ConnInv'
<1> DEFINE c == job[j].of
           left == Charge(c, "pending", -1)
<1>1. job[j].st = "both"
  BY DEF Activate
<1>2. /\ c \in Extension \cap Conns /\ c \in Scopes /\ 0 \in Scopes /\ c # 0
      /\ \A st : [job EXCEPT ![j].st = st] = [job EXCEPT ![j] = [st |-> st, of |-> c]]
      /\ conn[c] \in {"serving", "draining", "parked"}
  BY <1>1, JobIsOwned DEF Unjoined
<1>3. /\ job' = [job EXCEPT ![j] = [st |-> "active", of |-> c]]
      /\ usage' = [s \in Scopes |-> IF s \in {0, c} THEN [left[s] EXCEPT !.active = @ + 1] ELSE left[s]]
      /\ UNCHANGED <<latch, registered, emptied, closer, conn, cancelled, activeConns, drained,
                     tasks, permits>>
  BY <1>2 DEF Activate, connState
<1>4. \A s \in Scopes :
        /\ left[s].pending = usage[s].pending - (IF s \in {0, c} THEN 1 ELSE 0)
        /\ left[s].active = usage[s].active
        /\ left[s] \in [pending : Int, active : Int]
  BY DEF Charge, ConnInv, ConnTypeOK
<1>5. \A s \in Scopes :
        /\ usage'[s].pending = usage[s].pending - (IF s \in {0, c} THEN 1 ELSE 0)
        /\ usage'[s].active = usage[s].active + (IF s \in {0, c} THEN 1 ELSE 0)
        /\ usage'[s] \in [pending : Int, active : Int]
  <2> HIDE DEF left
  <2>. QED BY <1>3, <1>4, CountersAreInts
<1>6. Follows(c, j, "active")
  <2>1. \A s \in Scopes :
          /\ AddsUp(s, c, "both", IF s \in {0, c} THEN 1 ELSE 0, 0, IF s \in {0, c} THEN 1 ELSE 0, IF s \in {0, c} THEN 1 ELSE 0)
          /\ AddsUp(s, c, "active", 0, IF s \in {0, c} THEN 1 ELSE 0, IF s \in {0, c} THEN 1 ELSE 0, IF s \in {0, c} THEN 1 ELSE 0)
    BY <1>2, AddsOf
  <2> HIDE DEF c
  <2>2. UNCHANGED <<permits, tasks>>
    BY <1>3
  <2>3. ASSUME NEW s \in Scopes
        PROVE  /\ usage'[s].pending = usage[s].pending + Adds(s, c, "active", Waiting) - Adds(s, c, job[j].st, Waiting)
               /\ usage'[s].active = usage[s].active + Adds(s, c, "active", {"active"}) - Adds(s, c, job[j].st, {"active"})
               /\ permits'[s] = permits[s] - Adds(s, c, "active", Permitted(s)) + Adds(s, c, job[j].st, Permitted(s))
               /\ Adds(s, c, "active", Unjoined) = Adds(s, c, job[j].st, Unjoined)
               /\ Adds(s, c, "active", Unjoined) \in Int
    BY <1>1, <1>5, <2>1, <2>2, CountersAreInts DEF AddsUp
  <2>. QED BY <2>2, <2>3, CountersAreInts DEF Follows
<1>7. ConnTypeOK'
  <2>1. usage' \in [Scopes -> [pending : Int, active : Int]]
    BY <1>3, <1>5
  <2>2. job' \in [Jobs -> [st : JobStates, of : Scopes]]
    BY <1>2, <1>3 DEF ConnInv, ConnTypeOK, JobStates
  <2>. QED BY <1>3, <2>1, <2>2 DEF ConnInv, ConnTypeOK
<1>. QED BY <1>2, <1>3, <1>6, <1>7, MoveKeepsInv DEF JobStates

(* A returning call gives back its active charge and both permits.         *)
LEMMA CallReturnsKeepsInv ==
  ASSUME ConnInv, NEW j \in Jobs, CallReturns(j)
  PROVE  ConnInv'
<1> DEFINE c == job[j].of
<1>1. job[j].st = "active"
  BY DEF CallReturns
<1>2. /\ c \in Extension \cap Conns /\ c \in Scopes /\ 0 \in Scopes /\ c # 0
      /\ \A st : [job EXCEPT ![j].st = st] = [job EXCEPT ![j] = [st |-> st, of |-> c]]
      /\ conn[c] \in {"serving", "draining", "parked"}
  BY <1>1, JobIsOwned DEF Unjoined
<1>3. /\ job' = [job EXCEPT ![j] = [st |-> "returned", of |-> c]]
      /\ usage' = Charge(c, "active", -1)
      /\ permits' = Give(c, {0, c})
      /\ UNCHANGED <<latch, registered, emptied, closer, conn, cancelled, activeConns, drained, tasks>>
  BY <1>2 DEF CallReturns, connState
<1>4. \A s \in Scopes :
        /\ usage'[s].pending = usage[s].pending
        /\ usage'[s].active = usage[s].active - (IF s \in {0, c} THEN 1 ELSE 0)
        /\ usage'[s] \in [pending : Int, active : Int]
  BY <1>3 DEF Charge, ConnInv, ConnTypeOK
<1>5. \A s \in Scopes : permits'[s] = permits[s] + (IF s \in {0, c} THEN 1 ELSE 0)
  BY <1>3, CountersAreInts DEF Give
<1>6. Follows(c, j, "returned")
  <2>1. \A s \in Scopes :
          /\ AddsUp(s, c, "active", 0, IF s \in {0, c} THEN 1 ELSE 0, IF s \in {0, c} THEN 1 ELSE 0, IF s \in {0, c} THEN 1 ELSE 0)
          /\ AddsUp(s, c, "returned", 0, 0, 0, IF s \in {0, c} THEN 1 ELSE 0)
    BY <1>2, AddsOf
  <2> HIDE DEF c
  <2>2. ASSUME NEW s \in Scopes
        PROVE  /\ usage'[s].pending = usage[s].pending + Adds(s, c, "returned", Waiting) - Adds(s, c, job[j].st, Waiting)
               /\ usage'[s].active = usage[s].active + Adds(s, c, "returned", {"active"}) - Adds(s, c, job[j].st, {"active"})
               /\ permits'[s] = permits[s] - Adds(s, c, "returned", Permitted(s)) + Adds(s, c, job[j].st, Permitted(s))
               /\ Adds(s, c, "returned", Unjoined) = Adds(s, c, job[j].st, Unjoined)
               /\ Adds(s, c, "returned", Unjoined) \in Int
    BY <1>1, <1>4, <1>5, <2>1, CountersAreInts DEF AddsUp
  <2>3. UNCHANGED tasks
    BY <1>3
  <2>. QED BY <2>2, <2>3, CountersAreInts DEF Follows
<1>7. ConnTypeOK'
  <2>1. usage' \in [Scopes -> [pending : Int, active : Int]]
    BY <1>3, <1>4 DEF Charge
  <2>2. permits' \in [Scopes -> Int]
    BY <1>3 DEF Give, ConnInv, ConnTypeOK
  <2>3. job' \in [Jobs -> [st : JobStates, of : Scopes]]
    BY <1>2, <1>3 DEF ConnInv, ConnTypeOK, JobStates
  <2>. QED BY <1>3, <2>1, <2>2, <2>3 DEF ConnInv, ConnTypeOK
<1>. QED BY <1>2, <1>3, <1>6, <1>7, MoveKeepsInv DEF JobStates

(* A task ends after its call, and wakes the drain if it was the last.     *)
LEMMA TaskEndsKeepsInv ==
  ASSUME ConnInv, NEW j \in Jobs, TaskEnds(j)
  PROVE  ConnInv'
<1> DEFINE c == job[j].of
<1>1. job[j].st = "returned"
  BY DEF TaskEnds
<1>2. /\ c \in Extension \cap Conns /\ c \in Scopes /\ 0 \in Scopes /\ c # 0
      /\ \A st : [job EXCEPT ![j].st = st] = [job EXCEPT ![j] = [st |-> st, of |-> c]]
  BY <1>1, JobIsOwned
<1>3. /\ job' = [job EXCEPT ![j] = [st |-> "ended", of |-> c]]
      /\ tasks' = [tasks EXCEPT ![c] = @ - 1]
      /\ drained' = drained \/ drained' = [drained EXCEPT ![c] = "woken"]
      /\ UNCHANGED <<latch, registered, emptied, closer, conn, cancelled, activeConns, usage, permits>>
  BY <1>2 DEF TaskEnds
<1>4. \A e \in Extension : tasks'[e] = tasks[e] - (IF e = c THEN 1 ELSE 0)
  BY <1>2, <1>3 DEF ConnInv, ConnTypeOK
<1>5. Follows(c, j, "ended")
  BY <1>1, <1>2, <1>3, <1>4, AddsOf, CountersAreInts DEF Follows, AddsUp
<1>6. ConnTypeOK'
  <2>0. /\ tasks \in [Extension -> Int] /\ drained \in [Extension -> {"deaf", "listening", "woken"}]
        /\ job \in [Jobs -> [st : JobStates, of : Scopes]]
    BY DEF ConnInv, ConnTypeOK
  <2>. HIDE DEF c
  <2>1. tasks' \in [Extension -> Int]
    BY <1>2, <1>3, <2>0
  <2>2. drained' \in [Extension -> {"deaf", "listening", "woken"}]
    BY <1>2, <1>3, <2>0
  <2>3. job' \in [Jobs -> [st : JobStates, of : Scopes]]
    BY <1>2, <1>3, <2>0 DEF JobStates
  <2>. QED BY <1>3, <2>1, <2>2, <2>3 DEF ConnInv, ConnTypeOK
<1>. QED BY <1>2, <1>3, <1>5, <1>6, MoveKeepsInv DEF JobStates, Unjoined

-----------------------------------------------------------------------------
(* The steps of a connection and of shutdown. No job is touched.           *)

(* A connection that is given up has no job left to join.                  *)
LEMMA DrainedHasNoJobs ==
  ASSUME ConnInv, NEW c \in Extension, tasks[c] = 0
  PROVE  \A j \in Jobs : job[j].st \in Unjoined => job[j].of # c
<1>1. At(c, Unjoined) = {}
  BY AtIsFinite, FS_EmptySet DEF ConnInv, TasksAreCounted
<1>. QED BY <1>1, ConnConstants DEF At

(* So a connection may move unless it has jobs it could not join there.    *)
LEMMA MovesKeepJoined ==
  ASSUME ConnInv, UNCHANGED job, NEW c \in Conns, NEW st, conn' = [conn EXCEPT ![c] = st],
         \/ st \in {"serving", "draining", "parked"}
         \/ conn[c] \notin {"serving", "draining", "parked"}
         \/ \A j \in Jobs : job[j].st \in Unjoined => job[j].of # c
  PROVE  TasksAreJoined'
<1>1. \A x \in Conns : conn'[x] = IF x = c THEN st ELSE conn[x]
  BY DEF ConnInv, ConnTypeOK
<1>2. \A j \in Jobs : job[j].st \in Unjoined => job[j].of \in Conns
  BY DEF ConnInv, JobsAreOwned, Unjoined
<1>. QED BY <1>1, <1>2 DEF ConnInv, TasksAreJoined

(* A connection joins the registry only while it is not sealed.            *)
LEMMA JoinKeepsInv ==
  ASSUME ConnInv, NEW c \in Conns, Join(c)
  PROVE  ConnInv'
<1>1. UNCHANGED jobVars /\ UNCHANGED <<latch, emptied, closer, activeConns, drained>>
  BY DEF Join
<1>2. ConnTypeOK'
  BY <1>1 DEF Join, ConnInv, ConnTypeOK, jobVars
<1>3. TasksAreJoined'
  BY <1>1, MovesKeepJoined DEF Join, jobVars
<1>4. SealedFirst' /\ NobodySlipsPastShutdown'
  BY <1>1 DEF Join, ConnInv, SealedFirst, NobodySlipsPastShutdown
<1>. QED BY <1>1, <1>2, <1>3, <1>4, IdleKeepsCounts DEF ConnInv

(* A connection too many drops its registration.                           *)
LEMMA AdmitKeepsInv ==
  ASSUME ConnInv, NEW c \in Conns, Admit(c)
  PROVE  ConnInv'
<1>1. UNCHANGED jobVars /\ UNCHANGED <<latch, closer, cancelled, drained>> /\ conn[c] = "registered"
  BY DEF Admit
<1>2. ConnTypeOK'
  BY <1>1 DEF Admit, Unregister, ConnInv, ConnTypeOK, jobVars
<1>3. TasksAreJoined'
  BY <1>1, MovesKeepJoined DEF Admit, jobVars
<1>4. SealedFirst' /\ NobodySlipsPastShutdown'
  BY <1>1 DEF Admit, Unregister, ConnInv, SealedFirst, NobodySlipsPastShutdown
<1>. QED BY <1>1, <1>2, <1>3, <1>4, IdleKeepsCounts DEF ConnInv

(* A leaving connection is cancelled and reserves no more.                 *)
LEMMA LeaveKeepsInv ==
  ASSUME ConnInv, NEW c \in Conns, Leave(c)
  PROVE  ConnInv'
<1>1. /\ UNCHANGED jobVars /\ UNCHANGED <<latch, registered, emptied, closer, activeConns, drained>>
      /\ cancelled' = cancelled \cup {c} /\ conn[c] = "serving"
      /\ conn' = [conn EXCEPT ![c] = IF c \in Extension THEN "draining" ELSE "drained"]
  BY DEF Leave
<1>2. ConnTypeOK'
  BY <1>1 DEF ConnInv, ConnTypeOK, jobVars
<1>3. TasksAreJoined'
  <2>1. c \notin Extension => \A j \in Jobs : job[j].st \in Unjoined => job[j].of # c
    BY DEF ConnInv, JobsAreOwned, Unjoined
  <2>. QED BY <1>1, <2>1, MovesKeepJoined DEF jobVars
<1>4. SealedFirst' /\ NobodySlipsPastShutdown'
  BY <1>1 DEF ConnInv, SealedFirst, NobodySlipsPastShutdown
<1>. QED BY <1>1, <1>2, <1>3, <1>4, IdleKeepsCounts DEF ConnInv

(* A connection is drained only when its tasks have ended.                 *)
LEMMA DrainKeepsInv ==
  ASSUME ConnInv, NEW c \in Conns, Drain(c)
  PROVE  ConnInv'
<1>1. /\ UNCHANGED jobVars /\ UNCHANGED <<latch, registered, emptied, closer, cancelled, activeConns>>
      /\ c \in Extension
  BY DEF Drain
<1>2. ConnTypeOK'
  BY <1>1 DEF Drain, ConnInv, ConnTypeOK, jobVars
<1>3. TasksAreJoined'
  <2>1. CASE UNCHANGED conn
    BY <1>1, <2>1 DEF ConnInv, TasksAreJoined, jobVars
  <2>2. CASE conn' = [conn EXCEPT ![c] = IF tasks[c] = 0 THEN "drained" ELSE "parked"]
    BY <1>1, <2>2, DrainedHasNoJobs, MovesKeepJoined DEF jobVars
  <2>3. CASE conn' = [conn EXCEPT ![c] = "draining"]
    BY <1>1, <2>3, MovesKeepJoined DEF jobVars
  <2>. QED BY <2>1, <2>2, <2>3 DEF Drain
<1>4. SealedFirst' /\ NobodySlipsPastShutdown'
  BY <1>1 DEF ConnInv, SealedFirst, NobodySlipsPastShutdown
<1>. QED BY <1>1, <1>2, <1>3, <1>4, IdleKeepsCounts DEF ConnInv

(* A drained connection is unregistered.                                   *)
LEMMA GoneKeepsInv ==
  ASSUME ConnInv, NEW c \in Conns, Gone(c)
  PROVE  ConnInv'
<1>1. /\ UNCHANGED jobVars /\ UNCHANGED <<latch, closer, cancelled, drained>>
      /\ conn[c] = "drained"
      /\ conn' = [conn EXCEPT ![c] = IF c \in Extension THEN "gone" ELSE "unregistered"]
      /\ registered' = registered \ {c} /\ emptied' = TRUE /\ activeConns' = activeConns
  BY DEF Gone, Unregister
<1>2. ConnTypeOK'
  BY <1>1 DEF ConnInv, ConnTypeOK, jobVars
<1>3. TasksAreJoined'
  BY <1>1, MovesKeepJoined DEF jobVars
<1>4. SealedFirst' /\ NobodySlipsPastShutdown'
  BY <1>1 DEF ConnInv, SealedFirst, NobodySlipsPastShutdown
<1>. QED BY <1>1, <1>2, <1>3, <1>4, IdleKeepsCounts DEF ConnInv

(* A network connection that has left is no longer counted.                *)
LEMMA UncountKeepsInv ==
  ASSUME ConnInv, NEW c \in Conns, Uncount(c)
  PROVE  ConnInv'
<1>1. /\ UNCHANGED jobVars /\ UNCHANGED <<latch, registered, emptied, closer, cancelled, drained>>
      /\ conn[c] = "unregistered" /\ conn' = [conn EXCEPT ![c] = "gone"]
      /\ activeConns' = activeConns - 1
  BY DEF Uncount
<1>2. ConnTypeOK'
  BY <1>1 DEF ConnInv, ConnTypeOK, jobVars
<1>3. TasksAreJoined'
  BY <1>1, MovesKeepJoined DEF jobVars
<1>4. SealedFirst' /\ NobodySlipsPastShutdown'
  BY <1>1 DEF ConnInv, SealedFirst, NobodySlipsPastShutdown
<1>. QED BY <1>1, <1>2, <1>3, <1>4, IdleKeepsCounts DEF ConnInv

(* Sealing, cancelling and waiting of the shutdown change no counter.      *)
LEMMA ShutdownKeepsInv ==
  ASSUME ConnInv, Seal \/ CancelAll \/ WaitEmpty
  PROVE  ConnInv'
<1>1. UNCHANGED jobVars /\ UNCHANGED <<registered, conn, activeConns, drained>>
  BY DEF Seal, CancelAll, WaitEmpty
<1>2. ConnTypeOK'
  BY <1>1 DEF Seal, CancelAll, WaitEmpty, ConnInv, ConnTypeOK, jobVars
<1>3. TasksAreJoined'
  BY <1>1 DEF ConnInv, TasksAreJoined, jobVars
<1>4. SealedFirst' /\ NobodySlipsPastShutdown'
  BY <1>1 DEF Seal, CancelAll, WaitEmpty, ConnInv, SealedFirst, NobodySlipsPastShutdown
<1>. QED BY <1>1, <1>2, <1>3, <1>4, IdleKeepsCounts DEF ConnInv

-----------------------------------------------------------------------------
(* An empty registry satisfies the invariant.                              *)
LEMMA InitEstablishesInv == ConnInit => ConnInv
<1> SUFFICES ASSUME ConnInit PROVE ConnInv
  OBVIOUS
<1>1. \A s, X : "none" \notin X => At(s, X) = {}
  BY DEF ConnInit, At, NoJob
<1>2. \A s, X : "none" \notin X => Cardinality(At(s, X)) = 0
  BY <1>1, FS_EmptySet
<1>3. ConnTypeOK
  <2>1. /\ job \in [Jobs -> [st : JobStates, of : Scopes]]
        /\ usage \in [Scopes -> [pending : Int, active : Int]]
        /\ permits \in [Scopes -> Int]
    BY ConnConstants DEF ConnInit, NoJob, JobStates, Scopes
  <2>2. /\ conn \in [Conns -> {"new", "refused", "registered", "serving", "draining", "parked",
                              "drained", "unregistered", "gone"}]
        /\ tasks \in [Extension -> Int]
        /\ drained \in [Extension -> {"deaf", "listening", "woken"}]
    BY DEF ConnInit
  <2>. QED BY <2>1, <2>2 DEF ConnInit, ConnTypeOK
<1>4. JobsHoldWhatIsCharged
  BY <1>2, ConnConstants DEF ConnInit, JobsHoldWhatIsCharged
<1>5. TasksAreCounted
  BY <1>2 DEF ConnInit, TasksAreCounted, Unjoined
<1>. QED BY <1>3, <1>4, <1>5 DEF ConnInit, ConnInv, SealedFirst, NobodySlipsPastShutdown, JobsAreOwned,
     TasksAreJoined, NoJob, Unjoined

(* Every step keeps the inductive invariant.                               *)
LEMMA NextKeepsInv == ConnInv /\ [ConnNext]_connVars => ConnInv'
<1> SUFFICES ASSUME ConnInv, [ConnNext]_connVars PROVE ConnInv'
  OBVIOUS
<1>1. ASSUME NEW c \in Conns, Join(c) \/ Admit(c) \/ Leave(c) \/ Drain(c) \/ Gone(c) \/ Uncount(c)
      PROVE  ConnInv'
  BY <1>1, JoinKeepsInv, AdmitKeepsInv, LeaveKeepsInv, DrainKeepsInv, GoneKeepsInv,
     UncountKeepsInv
<1>2. ASSUME NEW c \in Conns, NEW j \in Jobs, Reserve(c, j)
      PROVE  ConnInv'
  BY <1>2, ReserveKeepsInv
<1>3. CASE Seal \/ CancelAll \/ WaitEmpty
  BY <1>3, ShutdownKeepsInv
<1>4. ASSUME NEW j \in Jobs, JobStep(j)
      PROVE  ConnInv'
  BY <1>4, TakePermitKeepsInv, AbandonKeepsInv, ActivateKeepsInv, CallReturnsKeepsInv,
     TaskEndsKeepsInv DEF JobStep
<1>5. CASE UNCHANGED connVars
  <2>1. UNCHANGED jobVars /\ UNCHANGED connState
    BY <1>5 DEF connVars, jobVars, connState
  <2>2. ConnTypeOK' /\ SealedFirst' /\ NobodySlipsPastShutdown' /\ TasksAreJoined'
    BY <2>1 DEF jobVars, connState, ConnInv, ConnTypeOK, SealedFirst, NobodySlipsPastShutdown,
       TasksAreJoined
  <2>. QED BY <2>1, <2>2, IdleKeepsCounts DEF ConnInv
<1>. QED BY <1>1, <1>2, <1>3, <1>4, <1>5 DEF ConnNext

(* The inductive invariant holds throughout: every counter is the number   *)
(* of jobs it counts, and every registered connection has been cancelled   *)
(* once the shutdown waits.                                                *)
THEOREM InvHolds == ConnSpec => []ConnInv
BY InitEstablishesInv, NextKeepsInv, PTL DEF ConnSpec

(* A permit is neither lost nor returned twice, whatever path a job takes: *)
(* the counters of extension_jobs.rs are the jobs that are there.          *)
THEOREM JobsAreCharged == ConnSpec => []JobsHoldWhatIsCharged
<1>1. ConnInv => JobsHoldWhatIsCharged
  BY DEF ConnInv
<1>. QED BY <1>1, InvHolds, PTL

(* Whoever shutdown waits for has been cancelled: a connection that races  *)
(* with the seal is refused or in the snapshot.                            *)
THEOREM NobodySlips == ConnSpec => []NobodySlipsPastShutdown
<1>1. ConnInv => NobodySlipsPastShutdown
  BY DEF ConnInv
<1>. QED BY <1>1, InvHolds, PTL

(* cancel_and_drain joins every call before the registration drops.        *)
THEOREM CallsAreJoined == ConnSpec => []CallsEndWithTheirConnection
<1>1. ConnInv => CallsEndWithTheirConnection
  BY DEF ConnInv, TasksAreJoined, CallsEndWithTheirConnection, Unjoined
<1>. QED BY <1>1, InvHolds, PTL
=============================================================================
