----------------------------- MODULE MCServices -----------------------------
(* Instances for TLC of the services that share nothing but the server:    *)
(* relayed sockets, connections with their jobs, native processes, the     *)
(* streams of one process, terminals with their children, the journal      *)
(* of events, and a surface on its way to a client. One of them runs in a  *)
(* behaviour; the others stay as they began.                               *)
EXTENDS NetRelay, Connections, ProcessLifecycle, ProcessStreams, PtyLifecycle,
  EventLog, SurfaceDelivery

VARIABLE service   \* the one that runs

servicesVars == <<netVars, connVars, procVars, streamVars, ptyVars, evVars, surfVars, service>>

Up == [way |-> "up", ids |-> {1}, bytes |-> 2]
Down == [way |-> "down", ids |-> {1, 2}, bytes |-> 1]
EachWay == {Up, Down}

(* What a client types, or what a child prints.                            *)
TypedOrPrinted == {[ins |-> 2, outs |-> 0], [ins |-> 0, outs |-> 2], [ins |-> 0, outs |-> 1]}

(* Four records, one larger than the smaller ring.                         *)
RecordSizes == <<1, 3, 1, 2>>

(* The plan of a relay, the load of a stream, or the output of a child that*)
(* does not run; of terminals, either two live or one prints.              *)
Idle == /\ plan = IF service = "net" THEN plan ELSE Up
        /\ load = IF service = "streams" THEN load ELSE [ins |-> 2, outs |-> 0]
        /\ ids = unprinted
        /\ service # "terminals" => unprinted = 0
        /\ service # "events" => ring.capacity = 2

Init == /\ NetInit /\ ConnInit /\ ProcInit /\ StreamInit /\ PtyInit
        /\ EvInit /\ SurfInit
        /\ service \in {"net", "connections", "processes", "streams", "terminals", "events",
                        "surfaces"}
        /\ Idle

Next ==
  \/ /\ service = "net" /\ NetNext
     /\ UNCHANGED <<connVars, procVars, streamVars, ptyVars, evVars, surfVars, service>>
  \/ /\ service = "connections" /\ ConnNext
     /\ UNCHANGED <<netVars, procVars, streamVars, ptyVars, evVars, surfVars, service>>
  \/ /\ service = "processes" /\ ProcNext
     /\ UNCHANGED <<netVars, connVars, streamVars, ptyVars, evVars, surfVars, service>>
  \/ /\ service = "streams" /\ StreamNext
     /\ UNCHANGED <<netVars, connVars, procVars, ptyVars, evVars, surfVars, service>>
  \/ /\ service = "terminals" /\ PtyNext
     /\ UNCHANGED <<netVars, connVars, procVars, streamVars, evVars, surfVars, service>>
  \/ /\ service = "events" /\ EvNext
     /\ UNCHANGED <<netVars, connVars, procVars, streamVars, ptyVars, surfVars, service>>
  \/ /\ service = "surfaces" /\ SurfNext
     /\ UNCHANGED <<netVars, connVars, procVars, streamVars, ptyVars, evVars, service>>

Spec == Init /\ [][Next]_servicesVars

(* Ids are told apart by who uses them first.                              *)
IdsInOrder ==
  \A i, j \in StreamIds : i < j /\ client[j].st # "free" => client[i].st # "free"

(* The first endpoint spawns, and endpoints leave one at a time; the server*)
(* may go while one does.                                                  *)
First == CHOOSE e \in Endpoints : TRUE
FirstSpawns == \A g \in Generations : proc[g].owner \in {"nobody", First}
OneEndpointLeaves == Cardinality({e \in Endpoints : ep[e].stage # "open"}) =< 1

(* Others watch a stream of two packets only on stdin, while the child runs*)
(* and its pipes are whole.                                                *)
LongStreamsRun ==
  /\ load.ins = 2 /\ rewatches > 0 => ~ending.reaped /\ ~ending.aborted
  /\ load.outs = 2 => rewatches = 0

(* Once a second child was spawned no descendant holds a terminal, the     *)
(* second keeps its own, and a second terminal prints nothing. No fairness *)
(* is asked of a child: progress is checked within ChildrenStay.           *)
ChildrenStay ==
  /\ Cardinality(Born) = 2 => \A s \in Spawns : ~tty[s].kin
  /\ \A s \in Spawns : s > 1 /\ child[s].st # "unborn" => tty[s].attached
SilentSecond ==
  Cardinality(Born) = 2 /\ ids = 2 => unprinted = 0 /\ \A s \in Spawns : tty[s].printed = 0

FewAtOnce ==
  /\ IdsInOrder /\ FirstSpawns /\ OneEndpointLeaves /\ LongStreamsRun /\ ChildrenStay
  /\ SilentSecond

(* Progress is asked of the connections, of the native processes, of the   *)
(* terminals and of the surface: ConnFairness, ProcFairness, PtyFairness   *)
(* and SurfFairness, of the one that runs.                                 *)
Connected == service = "connections"
Native == service = "processes"
Shown == service = "terminals"
Viewed == service = "surfaces"

LiveInit == Init /\ service \in {"connections", "processes", "terminals", "surfaces"}

LiveSpec ==
  /\ LiveInit
  /\ [][Next]_servicesVars
  /\ \A c \in Conns : WF_connVars(Connected /\ ConnStep(c))
  /\ WF_connVars(Connected /\ ShutdownStep)
  /\ \A j \in Jobs : WF_connVars(Connected /\ JobStep(j))
  /\ \A e \in Endpoints :
       /\ WF_procVars(Native /\ WriteFrame(e)) /\ WF_procVars(Native /\ EndpointShutdown(e))
       /\ WF_procVars(Native /\ KickedCloses(e))
  /\ \A g \in Generations :
       /\ WF_procVars(Native /\ RunSpawn(g)) /\ WF_procVars(Native /\ RecordStep(g))
       /\ WF_procVars(Native /\ KilledDies(g)) /\ WF_procVars(Native /\ FinalExpires(g))
  /\ WF_procVars(Native /\ ServerShutdown)
  /\ WF_ptyVars(Shown /\ SupervisorStep)
  /\ \A i \in Ids : WF_ptyVars(Shown /\ DrainPasses(i))
  /\ \A s \in Spawns : WF_ptyVars(Shown /\ GracePasses(s)) /\ WF_ptyVars(Shown /\ KilledEnds(s))
  /\ WF_surfVars(Viewed /\ SurfTick) /\ WF_surfVars(Viewed /\ SurfaceTaskEnds)
  /\ WF_surfVars(Viewed /\ KeyframeRequest)
=============================================================================
