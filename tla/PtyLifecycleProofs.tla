-------------------------- MODULE PtyLifecycleProofs -------------------------
(* Proofs about PtyLifecycle, for any number of terminals, children and    *)
(* descriptors: a descriptor that comes back is never mistaken for another *)
(* terminal's, and an exit is never announced for the wrong child.         *)
EXTENDS PtyLifecycle, FiniteSetTheorems, SequenceTheorems, TLAPS

NoneOrSpawn == Spawns \cup {0}

PtyRecord == [spawn : NoneOrSpawn, gen : Nat, exited : BOOLEAN, drain : {"off", "armed", "due"},
              timer : {"off", "armed", "stopping"}]

ChildRecord == [st : {"unborn", "running", "asked", "killed", "zombie", "waited"}, fd : Fds \cup {0}]
ChildType == [Spawns -> ChildRecord]

PtyTypeOK ==
  /\ ptys \in [Ids -> PtyRecord] /\ ids \in 0..MaxTerminals
  /\ inputs \in [Ids -> Fds \cup {0}] /\ fdTable \in [Fds -> NoneOrSpawn]
  /\ child \in ChildType
  /\ reader \in [Spawns -> [at : {"none", "loop", "blocked", "gone"}, on : NoneOrSpawn]]
  /\ queue \in [Spawns -> Seq(NoneOrSpawn)]
  /\ parked \in SUBSET Spawns /\ announced \in SUBSET Spawns
  /\ cleanups \in SUBSET (Ids \X Nat) /\ supervisor.due \in SUBSET (Ids \X Nat)
  /\ supervisor = [at |-> supervisor.at, due |-> supervisor.due]

(* Children are spawned in order and with a descriptor, and whatever names *)
(* one names one that was spawned.                                         *)
BornInOrder == \E n \in Nat : Born = 1..n
NamesAreBorn ==
  /\ \A s \in Born : child[s].fd \in Fds
  /\ \A i \in Ids : ptys[i].spawn # 0 => ptys[i].spawn \in Born
  /\ \A s \in Spawns : reader[s].at # "none" => s \in Born
  /\ parked \subseteq Born /\ announced \subseteq Born

(* A child has one terminal, and an id that was not handed out has none.   *)
OneTerminalEach ==
  \A i, j \in Ids : ptys[i].spawn # 0 /\ ptys[i].spawn = ptys[j].spawn => i = j
FreshIds == \A i \in Ids : i > ids => ptys[i].spawn = 0

(* What the code takes for an exit is one.                                 *)
Over(s) == ~Alive(s) \/ reader[s].at = "gone"
ParkedIsDead == \A s \in parked : ~Alive(s)
DrainIsDead == \A i \in Ids : ptys[i].spawn # 0 /\ ptys[i].drain # "off" => ~Alive(ptys[i].spawn)
EofIsGone == \A s \in Spawns : \A n \in 1..Len(queue[s]) : queue[s][n] = 0 => reader[s].at = "gone"

(* A cleanup on its way was decided for a child that is over, or for one   *)
(* that a restart has replaced: the generations tell them apart.           *)
Decided == cleanups \cup supervisor.due
CleanupsAreDue ==
  \A d \in Decided :
    /\ d[1] =< ids
    /\ ptys[d[1]].spawn # 0 => /\ d[2] =< ptys[d[1]].gen
                               /\ d[2] = ptys[d[1]].gen => Over(ptys[d[1]].spawn)

PtyInv ==
  /\ PtyTypeOK
  /\ BornInOrder /\ NamesAreBorn /\ OneTerminalEach /\ FreshIds
  /\ ParkedIsDead /\ DrainIsDead /\ EofIsGone /\ CleanupsAreDue
  /\ TerminalsKeepTheirFds /\ NoChildDiesForAnother

-----------------------------------------------------------------------------
(* What signals and waits do to the children: none comes back to life, and *)
(* each keeps its descriptor.                                              *)

DeadStates == {"unborn", "zombie", "waited"}

Ages(c, d) ==
  /\ d \in ChildType
  /\ \A s \in Spawns : /\ d[s].fd = c[s].fd
                       /\ d[s].st = "unborn" <=> c[s].st = "unborn"
                       /\ c[s].st \in DeadStates => d[s].st \in DeadStates

(* Children that do not change do not grow younger.                        *)
LEMMA AgesSame == ASSUME NEW c \in ChildType PROVE Ages(c, c)
BY DEF Ages, ChildType, ChildRecord

(* Children age step after step.                                           *)
LEMMA AgesTrans ==
  ASSUME NEW c \in ChildType, NEW d \in ChildType, NEW e \in ChildType, Ages(c, d), Ages(d, e)
  PROVE  Ages(c, e)
BY DEF Ages, ChildType, ChildRecord

(* A signal moves a child towards its end.                                 *)
LEMMA SignalledAges ==
  ASSUME NEW c \in ChildType, NEW ss, NEW signal \in {"asked", "killed"}
  PROVE  Signalled(c, ss, signal) \in ChildType /\ Ages(c, Signalled(c, ss, signal))
<1>1. \A s \in Spawns : /\ After(c[s].st, signal) = c[s].st \/ c[s].st \notin DeadStates
                        /\ After(c[s].st, signal) \in {c[s].st, signal}
  BY DEF After, DeadStates
<1>2. \A s \in Spawns :
        Signalled(c, ss, signal)[s] = IF s \in ss THEN [c[s] EXCEPT !.st = After(c[s].st, signal)] ELSE c[s]
  BY DEF Signalled
<1>3. \A s \in Spawns : /\ Signalled(c, ss, signal)[s].fd = c[s].fd
                        /\ Signalled(c, ss, signal)[s].st \in {c[s].st, After(c[s].st, signal)}
                        /\ Signalled(c, ss, signal)[s] \in ChildRecord
  BY <1>1, <1>2 DEF ChildType, ChildRecord
<1>4. Signalled(c, ss, signal) \in ChildType
  BY <1>3 DEF Signalled, ChildType
<1>5. \A s \in Spawns : c[s].st \in DeadStates => After(c[s].st, signal) = c[s].st
  BY DEF After, DeadStates
<1>6. \A s \in Spawns : c[s].st # "unborn" => After(c[s].st, signal) # "unborn"
  BY <1>1
<1>. QED BY <1>3, <1>4, <1>5, <1>6 DEF Ages, ChildType, ChildRecord, DeadStates

(* Waiting for zombies ends them.                                          *)
LEMMA WaitedAges ==
  ASSUME NEW c \in ChildType, NEW ss, \A s \in ss \cap Spawns : c[s].st = "zombie"
  PROVE  Waited(c, ss) \in ChildType /\ Ages(c, Waited(c, ss))
<1>1. \A s \in Spawns : Waited(c, ss)[s] = IF s \in ss THEN [c[s] EXCEPT !.st = "waited"] ELSE c[s]
  BY DEF Waited
<1>2. \A s \in Spawns : /\ Waited(c, ss)[s].fd = c[s].fd
                        /\ Waited(c, ss)[s].st = IF s \in ss THEN "waited" ELSE c[s].st
                        /\ Waited(c, ss)[s] \in ChildRecord
  BY <1>1 DEF ChildType, ChildRecord
<1>3. Waited(c, ss) \in ChildType
  BY <1>2 DEF Waited, ChildType
<1>. QED BY <1>2, <1>3 DEF Ages, ChildType, ChildRecord, DeadStates

(* So what was over stays over, and who was born stays born.               *)
LEMMA AgesKeeps ==
  ASSUME PtyTypeOK, Ages(child, child')
  PROVE  /\ Born' = Born /\ child' \in ChildType
         /\ \A s \in Spawns : child'[s].fd = child[s].fd /\ (~Alive(s) => ~Alive(s)')
<1>1. \A s \in Spawns : Alive(s) <=> child[s].st \notin DeadStates
  BY DEF PtyTypeOK, ChildType, ChildRecord, Alive, DeadStates
<1>2. \A s \in Spawns : Alive(s)' <=> child'[s].st \notin DeadStates
  BY DEF Ages, ChildType, ChildRecord, Alive, DeadStates
<1>. QED BY <1>1, <1>2 DEF Ages, Born, ChildType

-----------------------------------------------------------------------------
(* A step that spawns nobody keeps the invariant if what it decides, parks *)
(* and announces is over.                                                  *)

(* A step that gives birth to no child, moves no terminal to another child *)
(* and drains only what has ended keeps the invariant.                     *)
LEMMA QuietStep ==
  ASSUME PtyInv, PtyTypeOK', TerminalsKeepTheirFds', EofIsGone', Ages(child, child'), UNCHANGED ids,
         \A i \in Ids : \/ ptys'[i].spawn = 0
                        \/ /\ ptys'[i].spawn = ptys[i].spawn /\ ptys'[i].gen = ptys[i].gen
                           /\ \/ ptys'[i].drain \in {"off", ptys[i].drain} \/ ptys[i].drain # "off"
                              \/ ~Alive(ptys[i].spawn)',
         \A s \in Spawns : /\ reader[s].at = "gone" => reader'[s].at = "gone"
                           /\ reader'[s].at # "none" => reader[s].at # "none",
         \A s \in parked' : s \in Born /\ ~Alive(s)',
         \A s \in announced' : s \in announced \/ (s \in Born /\ Over(s)'),
         \A d \in Decided' : \/ d \in Decided
                             \/ \E i \in Ids, s \in Spawns :
                                  d = <<i, ptys[i].gen>> /\ ptys[i].spawn = s /\ Over(s)'
  PROVE  PtyInv'
<1>1. /\ Born' = Born
      /\ \A s \in Spawns : child'[s].fd = child[s].fd /\ (~Alive(s) => ~Alive(s)')
  BY AgesKeeps DEF PtyInv
<1>2. \A s \in Spawns : Over(s) => Over(s)'
  BY <1>1 DEF Over
<1>3. Born \subseteq Spawns /\ \A i \in Ids : ptys[i].spawn # 0 => ptys[i].spawn \in Spawns
  BY DEF Born, PtyInv, PtyTypeOK, PtyRecord, NoneOrSpawn
<1>4. BornInOrder'
  BY <1>1 DEF PtyInv, BornInOrder
<1>5. NamesAreBorn'
  BY <1>1, <1>3 DEF PtyInv, NamesAreBorn
<1>6. OneTerminalEach' /\ FreshIds'
  BY DEF PtyInv, OneTerminalEach, FreshIds
<1>7. ParkedIsDead'
  BY DEF ParkedIsDead
<1>8. DrainIsDead'
  BY <1>1, <1>3 DEF PtyInv, DrainIsDead
<1>9. NoChildDiesForAnother'
  <2>1. \A s \in announced : Over(s) /\ s \in Spawns
    BY DEF PtyInv, PtyTypeOK, NoChildDiesForAnother, Over
  <2>2. \A s \in announced' : Over(s)'
    BY <1>2, <2>1
  <2>. QED BY <2>2 DEF NoChildDiesForAnother, Over
<1>10. CleanupsAreDue'
  <2>1. ASSUME NEW d \in Decided', ptys'[d[1]].spawn # 0
        PROVE  /\ d[1] =< ids /\ d[2] =< ptys'[d[1]].gen
               /\ d[2] = ptys'[d[1]].gen => \E s \in Spawns : ptys'[d[1]].spawn = s /\ Over(s)'
    <3>1. CASE d \in Decided
      <4>1. d[1] \in Ids
        BY <3>1 DEF Decided, PtyInv, PtyTypeOK
      <4>2. ptys'[d[1]].spawn = ptys[d[1]].spawn /\ ptys'[d[1]].gen = ptys[d[1]].gen
        BY <2>1, <4>1
      <4>3. PICK s \in Spawns : s = ptys[d[1]].spawn
        BY <1>3, <2>1, <4>1, <4>2
      <4>4. /\ d[1] =< ids /\ d[2] =< ptys[d[1]].gen
            /\ d[2] = ptys[d[1]].gen => Over(s)
        BY <2>1, <3>1, <4>2, <4>3 DEF PtyInv, CleanupsAreDue
      <4>. QED BY <1>2, <4>2, <4>3, <4>4
    <3>2. CASE d \notin Decided
      <4>1. PICK i \in Ids, s \in Spawns : d = <<i, ptys[i].gen>> /\ ptys[i].spawn = s /\ Over(s)'
        BY <3>2
      <4>2. d[1] = i /\ d[2] = ptys[i].gen /\ ptys[i].spawn # 0
        BY <4>1 DEF Spawns
      <4>3. i =< ids /\ ptys[i].gen \in Nat
        BY <4>2 DEF PtyInv, FreshIds, PtyTypeOK, PtyRecord, Ids
      <4>4. ptys'[i].spawn = s /\ ptys'[i].gen = ptys[i].gen
        BY <2>1, <4>1, <4>2
      <4>. QED BY <4>1, <4>2, <4>3, <4>4
    <3>. QED BY <3>1, <3>2
  <2>2. ASSUME NEW d \in Decided', ptys'[d[1]].spawn = 0
        PROVE  d[1] =< ids
    <3>1. CASE d \in Decided
      BY <3>1 DEF PtyInv, CleanupsAreDue
    <3>2. CASE d \notin Decided
      <4>1. PICK i \in Ids, s \in Spawns : d = <<i, ptys[i].gen>> /\ ptys[i].spawn = s
        BY <3>2
      <4>. QED BY <4>1 DEF Spawns, PtyInv, FreshIds, PtyTypeOK, Ids
    <3>. QED BY <3>1, <3>2
  <2>3. ASSUME NEW d \in Decided'
        PROVE  ptys'[d[1]].spawn # 0 => (d[2] = ptys'[d[1]].gen => Over(ptys[d[1]].spawn)')
    BY <2>1 DEF Over, Alive
  <2>. QED BY <2>1, <2>2, <2>3 DEF CleanupsAreDue
<1>. QED BY <1>4, <1>5, <1>6, <1>7, <1>8, <1>9, <1>10 DEF PtyInv

(* The descriptors of the others are theirs whatever is closed.            *)
LEMMA FdsKept ==
  ASSUME PtyInv, Ages(child, child'), UNCHANGED <<inputs, fdTable>>,
         \A i \in Ids : /\ Live(i)' => Live(i) /\ ptys'[i].spawn = ptys[i].spawn
                        /\ ~Live(i)' => ~Live(i)
  PROVE  TerminalsKeepTheirFds'
<1>1. \A s \in Spawns : child'[s].fd = child[s].fd
  BY AgesKeeps DEF PtyInv
<1>2. \A i \in Ids : Live(i) => ptys[i].spawn \in Spawns
  BY DEF Live, PtyInv, PtyTypeOK, PtyRecord, NoneOrSpawn
<1>. QED BY <1>1, <1>2 DEF PtyInv, TerminalsKeepTheirFds

(* Closing the master of one terminal takes no other its descriptor.       *)
LEMMA FdClosed ==
  ASSUME PtyInv, Ages(child, child'), NEW i \in Ids, Live(i), ~Live(i)',
         CloseMaster(ptys[i].spawn), inputs' = [inputs EXCEPT ![i] = 0],
         \A j \in Ids \ {i} : ptys'[j] = ptys[j]
  PROVE  TerminalsKeepTheirFds'
<1>1. \A s \in Spawns : child'[s].fd = child[s].fd
  BY AgesKeeps DEF PtyInv
<1>2. \A j \in Ids : Live(j) => ptys[j].spawn \in Spawns /\ ptys[j].spawn # 0
  BY DEF Live, PtyInv, PtyTypeOK, PtyRecord, NoneOrSpawn
<1>3. \A j \in Ids \ {i} : Live(j) => ptys[j].spawn # ptys[i].spawn
  BY <1>2 DEF PtyInv, OneTerminalEach
<1>4. \A j \in Ids \ {i} : /\ inputs'[j] = inputs[j] /\ (Live(j)' <=> Live(j))
                           /\ ptys'[j] = ptys[j]
  BY DEF PtyInv, PtyTypeOK, Live
<1>5. \A j \in Ids : Live(j) => /\ fdTable[child[ptys[j].spawn].fd] = ptys[j].spawn
                                /\ child[ptys[j].spawn].fd \in Fds
                                /\ inputs[j] = child[ptys[j].spawn].fd
  BY DEF PtyInv, TerminalsKeepTheirFds, NamesAreBorn, Live
<1>6. \A j \in Ids \ {i} : Live(j) => fdTable'[child[ptys[j].spawn].fd] = ptys[j].spawn
  <2>1. fdTable' = [fdTable EXCEPT ![child[ptys[i].spawn].fd] = 0]
    BY DEF CloseMaster
  <2>2. \A j \in Ids \ {i} : Live(j) => child[ptys[j].spawn].fd # child[ptys[i].spawn].fd
    BY <1>3, <1>5
  <2>. QED BY <1>5, <2>1, <2>2 DEF PtyInv, PtyTypeOK
<1>7. ASSUME NEW j \in Ids \ {i}
      PROVE  /\ Live(j)' => /\ fdTable'[child'[ptys'[j].spawn].fd] = ptys'[j].spawn
                            /\ inputs'[j] = child'[ptys'[j].spawn].fd
             /\ ~Live(j)' => inputs'[j] = 0
  BY <1>1, <1>2, <1>4, <1>5, <1>6 DEF PtyInv, TerminalsKeepTheirFds
<1>8. inputs'[i] = 0
  BY DEF PtyInv, PtyTypeOK
<1>. QED BY <1>7, <1>8 DEF TerminalsKeepTheirFds

-----------------------------------------------------------------------------
(* A new child: its number, its descriptor and its generation are new.     *)

(* The next child is one that was never born.                              *)
LEMMA NewChild ==
  ASSUME PtyInv
  PROVE  Cardinality(Born) + 1 \notin Born /\ Cardinality(Born) \in Nat
<1>1. PICK n \in Nat : Born = 1..n
  BY DEF PtyInv, BornInOrder
<1>2. Cardinality(1..n) = n
  BY FS_Interval
<1>. QED BY <1>1, <1>2

(* A spawn, first or restarted, gets a child and a descriptor of its own.  *)
LEMMA SpawnKeepsInv ==
  ASSUME PtyInv, NEW i \in Ids, NEW f \in Fds, SpawnPty(i, f),
         \/ UNCHANGED ids /\ ptys[i].spawn # 0 /\ ptys[i].exited
         \/ ids' = ids + 1 /\ i = ids + 1
  PROVE  PtyInv'
<1> DEFINE s == Cardinality(Born) + 1
           gen == IF ptys[i].spawn = 0 THEN 0 ELSE ptys[i].gen + 1
           new == [NoPty EXCEPT !.spawn = s, !.gen = gen]
<1>1. /\ s \in Spawns /\ s \notin Born /\ s # 0 /\ fdTable[f] = 0 /\ f # 0
  BY NewChild, PtyConstants DEF SpawnPty, Spawns
<1>2. /\ fdTable' = [fdTable EXCEPT ![f] = s] /\ inputs' = [inputs EXCEPT ![i] = f]
      /\ child' = [child EXCEPT ![s] = [st |-> "running", fd |-> f]]
      /\ reader' = [reader EXCEPT ![s].at = "loop"]
      /\ ptys' = [ptys EXCEPT ![i] = new]
      /\ UNCHANGED <<queue, parked, cleanups, supervisor, announced>>
  BY DEF SpawnPty
<1>3. gen \in Nat
  BY DEF PtyInv, PtyTypeOK, PtyRecord
<1>0. /\ new.spawn = s /\ new.gen = gen /\ new.exited = FALSE /\ new.drain = "off"
      /\ new \in PtyRecord
  <2>1. NoPty \in PtyRecord
    BY DEF NoPty, PtyRecord, NoneOrSpawn
  <2> HIDE DEF s, gen
  <2>. QED BY <1>1, <1>3, <2>1 DEF PtyRecord, NoneOrSpawn, NoPty
<1> HIDE DEF s, gen, new
<1>4. PtyTypeOK'
  <2>1. ptys' \in [Ids -> PtyRecord]
    BY <1>0, <1>2 DEF PtyInv, PtyTypeOK
  <2>2. reader' \in [Spawns -> [at : {"none", "loop", "blocked", "gone"}, on : NoneOrSpawn]]
    BY <1>1, <1>2 DEF PtyInv, PtyTypeOK
  <2>3. child' \in ChildType
    BY <1>1, <1>2 DEF PtyInv, PtyTypeOK, ChildType, ChildRecord
  <2>4. fdTable' \in [Fds -> NoneOrSpawn] /\ inputs' \in [Ids -> Fds \cup {0}]
    BY <1>1, <1>2 DEF PtyInv, PtyTypeOK, NoneOrSpawn
  <2>5. ids' \in 0..MaxTerminals
    BY PtyConstants DEF PtyInv, PtyTypeOK, Ids
  <2>. QED BY <1>2, <2>1, <2>2, <2>3, <2>4, <2>5 DEF PtyInv, PtyTypeOK
<1>5. /\ \A x \in Spawns \ {s} : /\ child'[x] = child[x] /\ reader'[x] = reader[x]
                                 /\ (Alive(x)' <=> Alive(x)) /\ (Over(x)' <=> Over(x))
      /\ child'[s].fd = f /\ child'[s].st = "running" /\ reader'[s].at = "loop"
  BY <1>1, <1>2 DEF PtyInv, PtyTypeOK, ChildType, Alive, Over
<1>6. Born' = Born \cup {s}
  BY <1>1, <1>5 DEF Born
<1>7. /\ \A j \in Ids \ {i} : ptys'[j] = ptys[j] /\ inputs'[j] = inputs[j]
      /\ ptys'[i] = new /\ inputs'[i] = f
  BY <1>2 DEF PtyInv, PtyTypeOK
<1>8. /\ \A j \in Ids : ptys[j].spawn # 0 => ptys[j].spawn \in Born
      /\ Born \subseteq Spawns
  BY DEF PtyInv, NamesAreBorn, Born
<1>9. BornInOrder'
  <2>1. PICK n \in Nat : Born = 1..n
    BY DEF PtyInv, BornInOrder
  <2>2. Cardinality(1..n) = n
    BY FS_Interval
  <2>3. s = n + 1
    BY <2>1, <2>2 DEF s
  <2>4. Born' = 1..(n + 1)
    BY <1>6, <2>1, <2>3
  <2>. QED BY <2>4 DEF BornInOrder
<1>10. NamesAreBorn'
  BY <1>1, <1>2, <1>5, <1>6, <1>0, <1>7, <1>8 DEF PtyInv, NamesAreBorn
<1>11. OneTerminalEach'
  BY <1>1, <1>0, <1>7, <1>8 DEF PtyInv, OneTerminalEach
<1>12. FreshIds'
  <2>1. ids \in Nat /\ ids' \in Nat /\ ids =< ids' /\ i =< ids' /\ Ids \subseteq Nat
    BY DEF PtyInv, PtyTypeOK, FreshIds, Ids
  <2>. QED BY <1>7, <2>1 DEF PtyInv, FreshIds
<1>13. ParkedIsDead' /\ NoChildDiesForAnother'
  <2>1. \A x \in parked \cup announced : x \in Spawns \ {s}
    BY <1>1, <1>8 DEF PtyInv, NamesAreBorn
  <2>. QED BY <1>2, <1>5, <2>1 DEF PtyInv, ParkedIsDead, NoChildDiesForAnother, Over
<1>14. DrainIsDead'
  BY <1>1, <1>5, <1>0, <1>7, <1>8 DEF PtyInv, DrainIsDead
<1>15. EofIsGone'
  <2>1. \A n \in 1..Len(queue[s]) : queue[s][n] # 0
    BY <1>1 DEF PtyInv, EofIsGone, NamesAreBorn
  <2>. QED BY <1>1, <1>2, <1>5, <2>1 DEF PtyInv, EofIsGone
<1>16. CleanupsAreDue'
  <2>1. Decided' = Decided /\ \A d \in Decided : d[1] \in Ids /\ d[2] \in Nat
    BY <1>2 DEF Decided, PtyInv, PtyTypeOK
  <2>2. \A d \in Decided : d[1] =< ids /\ d[1] =< ids'
    BY <2>1 DEF PtyInv, CleanupsAreDue, PtyTypeOK, Ids
  <2>3. ASSUME NEW d \in Decided, d[1] # i, ptys'[d[1]].spawn # 0
        PROVE  /\ d[2] =< ptys'[d[1]].gen
               /\ d[2] = ptys'[d[1]].gen => Over(ptys[d[1]].spawn)'
    <3>1. ptys'[d[1]] = ptys[d[1]]
      BY <1>7, <2>1, <2>3
    <3>2. ptys[d[1]].spawn \in Spawns \ {s}
      BY <1>1, <1>8, <2>1, <2>3, <3>1
    <3>3. /\ d[2] =< ptys[d[1]].gen
          /\ d[2] = ptys[d[1]].gen => Over(ptys[d[1]].spawn)
      BY <2>3, <3>1 DEF PtyInv, CleanupsAreDue
    <3>4. Over(ptys[d[1]].spawn) => Over(ptys[d[1]].spawn)'
      BY <1>5, <3>1, <3>2 DEF Over, Alive
    <3>. QED BY <3>1, <3>3, <3>4
  <2>4. ASSUME NEW d \in Decided, d[1] = i
        PROVE  d[2] =< gen /\ d[2] # gen
    <3>1. ptys[i].spawn # 0
      BY <2>2, <2>4 DEF PtyInv, PtyTypeOK
    <3>2. d[2] =< ptys[i].gen /\ ptys[i].gen \in Nat /\ d[2] \in Nat
      BY <2>1, <2>4, <3>1 DEF PtyInv, CleanupsAreDue, PtyTypeOK, PtyRecord
    <3>. QED BY <3>1, <3>2 DEF gen
  <2>. QED BY <1>0, <1>7, <2>1, <2>2, <2>3, <2>4 DEF CleanupsAreDue
<1>17. TerminalsKeepTheirFds'
  <2>1. ASSUME NEW j \in Ids \ {i}
        PROVE  /\ Live(j)' => /\ fdTable'[child'[ptys'[j].spawn].fd] = ptys'[j].spawn
                              /\ inputs'[j] = child'[ptys'[j].spawn].fd
               /\ ~Live(j)' => inputs'[j] = 0
    <3>1. Live(j)' <=> Live(j)
      BY <1>7 DEF Live
    <3>2. CASE Live(j)
      <4>1. /\ fdTable[child[ptys[j].spawn].fd] = ptys[j].spawn /\ ptys[j].spawn # 0
            /\ inputs[j] = child[ptys[j].spawn].fd /\ child[ptys[j].spawn].fd \in Fds
            /\ ptys[j].spawn \in Spawns \ {s}
        BY <1>1, <1>8, <3>2 DEF PtyInv, TerminalsKeepTheirFds, NamesAreBorn, Live
      <4>2. fdTable'[child[ptys[j].spawn].fd] = ptys[j].spawn
        BY <1>1, <1>2, <4>1 DEF PtyInv, PtyTypeOK
      <4>. QED BY <1>5, <1>7, <3>1, <3>2, <4>1, <4>2
    <3>3. CASE ~Live(j)
      BY <1>7, <3>1, <3>3 DEF PtyInv, TerminalsKeepTheirFds
    <3>. QED BY <3>2, <3>3
  <2>2. Live(i)' /\ fdTable'[f] = s
    BY <1>0, <1>1, <1>2, <1>7 DEF Live, PtyInv, PtyTypeOK
  <2>. QED BY <1>0, <1>5, <1>7, <2>1, <2>2 DEF TerminalsKeepTheirFds
<1>. QED BY <1>4, <1>9, <1>10, <1>11, <1>12, <1>13, <1>14, <1>15, <1>16, <1>17 DEF PtyInv

-----------------------------------------------------------------------------
(* The requests and the supervisor's steps, each a quiet step.             *)

(* Most steps leave the readers, the channels and what was decided alone.  *)
LEMMA QuieterStep ==
  ASSUME PtyInv, PtyTypeOK', TerminalsKeepTheirFds', Ages(child, child'),
         UNCHANGED <<ids, reader, queue>>,
         \A i \in Ids : \/ ptys'[i].spawn = 0
                        \/ /\ ptys'[i].spawn = ptys[i].spawn /\ ptys'[i].gen = ptys[i].gen
                           /\ \/ ptys'[i].drain \in {"off", ptys[i].drain} \/ ptys[i].drain # "off"
                              \/ ~Alive(ptys[i].spawn)',
         \A s \in parked' : s \in parked \/ (s \in Born /\ ~Alive(s)'),
         \A s \in announced' : s \in announced \/ (s \in Born /\ Over(s)'),
         Decided' \subseteq Decided
  PROVE  PtyInv'
<1>1. EofIsGone'
  BY DEF PtyInv, EofIsGone
<1>2. \A s \in parked' : s \in Born /\ ~Alive(s)'
  BY AgesKeeps DEF PtyInv, PtyTypeOK, NamesAreBorn, ParkedIsDead
<1>. QED BY <1>1, <1>2, QuietStep

(* A step that only touches what the invariant does not speak of.          *)
LEMMA SameTerminals ==
  ASSUME PtyInv, UNCHANGED <<ptys, ids, inputs, fdTable, child, reader, queue, parked, announced>>,
         Decided' \subseteq Decided, supervisor' = [at |-> supervisor'.at, due |-> supervisor'.due]
  PROVE  PtyInv'
<1>1. Ages(child, child')
  BY AgesSame DEF PtyInv, PtyTypeOK
<1>2. TerminalsKeepTheirFds'
  BY DEF PtyInv, TerminalsKeepTheirFds, Live
<1>3. PtyTypeOK'
  BY DEF PtyInv, PtyTypeOK, Decided
<1>. QED BY <1>1, <1>2, <1>3, QuieterStep

(* Setting a kill deadline touches no child.                               *)
LEMMA DeadlineKeepsInv ==
  ASSUME PtyInv, NEW i \in Ids, NEW timer \in {"off", "armed"}, Deadline(i, timer)
  PROVE  PtyInv'
<1>1. ptys' = [ptys EXCEPT ![i].timer = timer]
      /\ UNCHANGED <<ids, inputs, fdTable, child, reader, queue, parked, announced, cleanups, supervisor>>
  BY DEF Deadline, kernel
<1>2. \A j \in Ids : /\ ptys'[j].spawn = ptys[j].spawn /\ ptys'[j].gen = ptys[j].gen
                     /\ ptys'[j].drain = ptys[j].drain /\ ptys'[j].exited = ptys[j].exited
                     /\ ptys'[j] \in PtyRecord
  BY <1>1, ZenonT(60) DEF PtyInv, PtyTypeOK, PtyRecord
<1>3. Ages(child, child')
  BY <1>1, AgesSame DEF PtyInv, PtyTypeOK
<1>4. PtyTypeOK'
  BY <1>1, <1>2 DEF PtyInv, PtyTypeOK
<1>5. TerminalsKeepTheirFds'
  BY <1>1, <1>2, <1>3, FdsKept DEF Live
<1>. QED BY <1>1, <1>2, <1>3, <1>4, <1>5, QuieterStep DEF Decided

(* The drain timer of a terminal runs out.                                 *)
LEMMA DrainPassesKeepsInv ==
  ASSUME PtyInv, NEW i \in Ids, DrainPasses(i)
  PROVE  PtyInv'
<1>1. ptys' = [ptys EXCEPT ![i].drain = "due"] /\ ptys[i].drain = "armed"
      /\ UNCHANGED <<ids, inputs, fdTable, child, reader, queue, parked, announced, cleanups, supervisor>>
  BY DEF DrainPasses, kernel
<1>2. \A j \in Ids : /\ ptys'[j].spawn = ptys[j].spawn /\ ptys'[j].gen = ptys[j].gen
                     /\ ptys'[j].drain = ptys[j].drain \/ ptys[j].drain # "off"
                     /\ ptys'[j].exited = ptys[j].exited
                     /\ ptys'[j] \in PtyRecord
  BY <1>1, ZenonT(60) DEF PtyInv, PtyTypeOK, PtyRecord
<1>3. Ages(child, child')
  BY <1>1, AgesSame DEF PtyInv, PtyTypeOK
<1>4. PtyTypeOK'
  BY <1>1, <1>2 DEF PtyInv, PtyTypeOK
<1>5. TerminalsKeepTheirFds'
  BY <1>1, <1>2, <1>3, FdsKept DEF Live
<1>. QED BY <1>1, <1>2, <1>3, <1>4, <1>5, QuieterStep DEF Decided

(* Signals and deaths.                                                     *)
LEMMA AgingKeepsInv ==
  ASSUME PtyInv, Ages(child, child'),
         UNCHANGED <<ptys, ids, inputs, fdTable, reader, queue, announced>>,
         \A s \in parked' : s \in parked \/ (s \in Born /\ ~Alive(s)'),
         Decided' \subseteq Decided, supervisor' = [at |-> supervisor'.at, due |-> supervisor'.due]
  PROVE  PtyInv'
<1>1. PtyTypeOK'
  <2>1. parked' \in SUBSET Spawns /\ child' \in ChildType
    BY DEF PtyInv, PtyTypeOK, Born, Ages
  <2>. QED BY <2>1 DEF PtyInv, PtyTypeOK, Decided
<1>2. TerminalsKeepTheirFds'
  BY FdsKept DEF Live
<1>. QED BY <1>1, <1>2, QuieterStep

(* A kill reaches the child of the terminal it names.                      *)
LEMMA KillKeepsInv ==
  ASSUME PtyInv, NEW i \in Ids, NEW signal \in {"asked", "killed"}, Kill(i, signal)
  PROVE  PtyInv'
<1>1. child' = Signalled(child, {ptys[i].spawn}, signal)
      /\ UNCHANGED <<ptys, ids, inputs, fdTable, reader, queue, parked, announced, cleanups, supervisor>>
  BY DEF Kill, kernel
<1>2. Ages(child, child')
  BY <1>1, SignalledAges DEF PtyInv, PtyTypeOK
<1>3. supervisor' = [at |-> supervisor'.at, due |-> supervisor'.due]
  BY <1>1 DEF PtyInv, PtyTypeOK
<1>. QED BY <1>1, <1>2, <1>3, AgingKeepsInv DEF Decided

(* Escalation reaches abandoned children only.                             *)
LEMMA EscalateKeepsInv ==
  ASSUME PtyInv, EscalateAbandoned
  PROVE  PtyInv'
<1>1. PICK due : child' = Signalled(child, due, "killed")
  BY DEF EscalateAbandoned
<1>2. /\ UNCHANGED <<ptys, ids, inputs, fdTable, reader, queue, parked, announced, cleanups>>
      /\ supervisor' = [supervisor EXCEPT !.at = "reap"]
  BY DEF EscalateAbandoned, Goes, kernel
<1>3. Ages(child, child')
  BY <1>1, SignalledAges DEF PtyInv, PtyTypeOK
<1>4. supervisor'.due = supervisor.due /\ supervisor' = [at |-> supervisor'.at, due |-> supervisor'.due]
  BY <1>2 DEF PtyInv, PtyTypeOK
<1>. QED BY <1>2, <1>3, <1>4, AgingKeepsInv DEF Decided

(* The reaper waits for zombies, and parks what a terminal still owns.     *)
LEMMA ReapKeepsInv ==
  ASSUME PtyInv, ReapZombies
  PROVE  PtyInv'
<1> DEFINE zombies == {s \in Spawns : child[s].st = "zombie"}
           reaped == zombies \cap (owned \cup {s \in Spawns : AsInit \/ abandoned[s] # "no"})
<1>1. /\ UNCHANGED <<ptys, ids, inputs, fdTable, reader, queue, announced, cleanups>>
      /\ supervisor' = [supervisor EXCEPT !.at = "evict"]
      /\ child' = Waited(child, reaped)
      /\ parked' = parked \cup (zombies \cap owned)
  BY DEF ReapZombies, Goes, kernel
<1>2. Ages(child, child')
  BY <1>1, WaitedAges DEF PtyInv, PtyTypeOK
<1>3. supervisor'.due = supervisor.due /\ supervisor' = [at |-> supervisor'.at, due |-> supervisor'.due]
  BY <1>1 DEF PtyInv, PtyTypeOK
<1>4. \A s \in zombies : s \in Born /\ ~Alive(s)
  BY DEF Born, Alive
<1>5. \A s \in parked' : s \in parked \/ (s \in Born /\ ~Alive(s)')
  BY <1>1, <1>2, <1>4, AgesKeeps DEF PtyInv
<1>. QED BY <1>1, <1>2, <1>3, <1>5, AgingKeepsInv DEF Decided

(* A child ends.                                                           *)
LEMMA ChildEndsKeepsInv ==
  ASSUME PtyInv, NEW s \in Spawns, ChildEnds(s)
  PROVE  PtyInv'
<1>1. /\ child' = [child EXCEPT ![s].st = "zombie"] /\ Alive(s)
      /\ UNCHANGED <<ptys, ids, inputs, fdTable, reader, queue, parked, announced, cleanups, supervisor>>
  BY DEF ChildEnds, noRequest, kernel
<1>2. Ages(child, child')
  BY <1>1 DEF PtyInv, PtyTypeOK, Ages, ChildType, ChildRecord, Alive, DeadStates
<1>3. supervisor' = [at |-> supervisor'.at, due |-> supervisor'.due]
  BY <1>1 DEF PtyInv, PtyTypeOK
<1>. QED BY <1>1, <1>2, <1>3, AgingKeepsInv DEF Decided

-----------------------------------------------------------------------------
(* Closing, and cleaning up for the child it was decided for.              *)

(* A hangup signals the child behind it or ends it, and no other.          *)
LEMMA HungUpAges ==
  ASSUME PtyInv, NEW s \in Spawns, NEW c \in HungUp(s)
  PROVE  c \in ChildType /\ Ages(child, c)
<1>1. child \in ChildType
  BY DEF PtyInv, PtyTypeOK
<1>2. CASE c = Signalled(child, {s}, "asked")
  BY <1>1, <1>2, SignalledAges
<1>3. CASE Alive(s) /\ c = [child EXCEPT ![s].st = "zombie"]
  BY <1>1, <1>3 DEF Ages, ChildType, ChildRecord, Alive, DeadStates
<1>. QED BY <1>2, <1>3 DEF HungUp

(* Closing a terminal closes its descriptor and forgets its input.         *)
LEMMA CloseKeepsInv ==
  ASSUME PtyInv, NEW i \in Ids, CloseTerminal(i)
  PROVE  PtyInv'
<1>1. /\ ptys[i].spawn \in Spawns /\ ptys[i].spawn # 0
      /\ ptys' = [ptys EXCEPT ![i] = NoPty]
      /\ UNCHANGED <<ids, reader, queue, cleanups, supervisor, announced>>
  BY DEF CloseTerminal, kernel, PtyInv, PtyTypeOK, PtyRecord, NoneOrSpawn
<1>2. /\ \A j \in Ids \ {i} : ptys'[j] = ptys[j]
      /\ ptys'[i].spawn = 0 /\ ptys' \in [Ids -> PtyRecord] /\ ~Live(i)'
  BY <1>1 DEF PtyInv, PtyTypeOK, NoPty, PtyRecord, NoneOrSpawn, Live
<1>3. CASE ptys[i].exited /\ UNCHANGED <<inputs, fdTable, child, parked>>
  <2>1. Ages(child, child')
    BY <1>3, AgesSame DEF PtyInv, PtyTypeOK
  <2>2. \A j \in Ids : Live(j)' <=> Live(j)
    BY <1>2, <1>3 DEF Live
  <2>3. TerminalsKeepTheirFds'
    BY <1>2, <1>3, <2>1, <2>2, FdsKept
  <2>4. PtyTypeOK'
    BY <1>1, <1>2, <1>3 DEF PtyInv, PtyTypeOK
  <2>. QED BY <1>1, <1>2, <1>3, <2>1, <2>3, <2>4, QuieterStep DEF Decided
<1>4. CASE /\ ~ptys[i].exited /\ inputs' = [inputs EXCEPT ![i] = 0]
           /\ CloseMaster(ptys[i].spawn) /\ child' \in HungUp(ptys[i].spawn)
           /\ parked' = parked \ {ptys[i].spawn}
  <2>1. Ages(child, child') /\ child' \in ChildType
    BY <1>1, <1>4, HungUpAges
  <2>2. Live(i)
    BY <1>1, <1>4 DEF Live
  <2>3. TerminalsKeepTheirFds'
    BY <1>2, <1>4, <2>1, <2>2, FdClosed
  <2>4. fdTable' \in [Fds -> NoneOrSpawn] /\ inputs' \in [Ids -> Fds \cup {0}] /\ parked' \in SUBSET Spawns
    BY <1>4 DEF CloseMaster, PtyInv, PtyTypeOK, NoneOrSpawn
  <2>5. PtyTypeOK'
    BY <1>1, <1>2, <2>1, <2>4 DEF PtyInv, PtyTypeOK
  <2>. QED BY <1>1, <1>2, <1>4, <2>1, <2>3, <2>5, QuieterStep DEF Decided
<1>. QED BY <1>3, <1>4 DEF CloseTerminal, AbandonPty

(* A cleanup decided for one generation of a terminal ends that generation *)
(* or nothing.                                                             *)
LEMMA CleanupKeepsInv ==
  ASSUME PtyInv, NEW d \in Decided, Cleanup(d[1], d[2]),
         Decided' \subseteq Decided, supervisor' = [at |-> supervisor'.at, due |-> supervisor'.due]
  PROVE  PtyInv'
<1> DEFINE i == d[1]
           s == ptys[i].spawn
<1>1. i \in Ids /\ UNCHANGED <<ids, reader, queue>>
  BY DEF Decided, PtyInv, PtyTypeOK, Cleanup, kernel
<1>2. CASE UNCHANGED <<ptys, inputs, fdTable, child, parked, announced>>
  BY <1>1, <1>2, SameTerminals, ZenonT(60)
<1>3. CASE /\ Live(i) /\ d[2] = ptys[i].gen
           /\ ptys' = [ptys EXCEPT ![i].exited = TRUE, ![i].timer = "off"]
           /\ inputs' = [inputs EXCEPT ![i] = 0] /\ CloseMaster(s)
           /\ \E c \in HungUp(s) : child' = IF s \notin parked /\ c[s].st = "zombie" THEN Waited(c, {s}) ELSE c
           /\ parked' = parked \ {s} /\ announced' = announced \cup {s}
  <2>1. s \in Spawns /\ s \in Born /\ s # 0
    BY <1>1, <1>3 DEF Live, PtyInv, PtyTypeOK, PtyRecord, NoneOrSpawn, NamesAreBorn
  <2>2. Over(s)
    BY <1>3, <2>1 DEF PtyInv, CleanupsAreDue
  <2>3. Ages(child, child') /\ child' \in ChildType
    <3>1. PICK c \in HungUp(s) : child' = IF s \notin parked /\ c[s].st = "zombie" THEN Waited(c, {s}) ELSE c
      BY <1>3
    <3>2. c \in ChildType /\ Ages(child, c)
      BY <2>1, HungUpAges
    <3>3. CASE child' = c
      BY <3>2, <3>3
    <3>4. CASE child' = Waited(c, {s}) /\ c[s].st = "zombie"
      <4>1. Waited(c, {s}) \in ChildType /\ Ages(c, Waited(c, {s}))
        BY <3>2, <3>4, WaitedAges
      <4>. QED BY <3>2, <3>4, <4>1, AgesTrans DEF PtyInv, PtyTypeOK
    <3>. QED BY <3>1, <3>3, <3>4
  <2>4. /\ \A j \in Ids \ {i} : ptys'[j] = ptys[j]
        /\ ptys'[i].exited /\ ptys'[i].spawn = ptys[i].spawn /\ ptys'[i].gen = ptys[i].gen
        /\ ptys'[i].drain = ptys[i].drain /\ ptys' \in [Ids -> PtyRecord]
    <3> DEFINE p == [ptys EXCEPT ![i].exited = TRUE]
    <3>1. /\ \A j \in Ids \ {i} : p[j] = ptys[j]
          /\ p[i].exited /\ p[i].spawn = ptys[i].spawn /\ p[i].gen = ptys[i].gen
          /\ p[i].drain = ptys[i].drain /\ p \in [Ids -> PtyRecord]
      <4>1. ptys \in [Ids -> PtyRecord] /\ i \in Ids
        BY <1>1 DEF PtyInv, PtyTypeOK
      <4> HIDE DEF i
      <4>2. [ptys[i] EXCEPT !.exited = TRUE] \in PtyRecord
        BY <4>1 DEF PtyRecord
      <4>3. p = [ptys EXCEPT ![i] = [ptys[i] EXCEPT !.exited = TRUE]]
        BY <4>1
      <4>. QED BY <4>1, <4>2, <4>3 DEF PtyRecord
    <3>2. ptys' = [p EXCEPT ![i].timer = "off"]
      BY <1>3
    <3> HIDE DEF p
    <3>. QED BY <1>1, <3>1, <3>2 DEF PtyRecord
  <2>5. ~Live(i)'
    BY <2>4, SMTT(30) DEF Live
  <2>6. TerminalsKeepTheirFds'
    BY <1>1, <1>3, <2>3, <2>4, <2>5, FdClosed
  <2>7. /\ fdTable' \in [Fds -> NoneOrSpawn] /\ inputs' \in [Ids -> Fds \cup {0}]
        /\ parked' \in SUBSET Spawns /\ announced' \in SUBSET Spawns
    BY <1>3, <2>1 DEF CloseMaster, PtyInv, PtyTypeOK, NoneOrSpawn
  <2>8. PtyTypeOK'
    BY <1>1, <2>3, <2>4, <2>7 DEF PtyInv, PtyTypeOK, Decided
  <2>9. Over(s) => Over(ptys[i].spawn)'
    <3>1. ~Alive(s) => ~Alive(ptys[i].spawn)'
      BY <2>1, <2>3, <2>4, AgesKeeps, SMTT(30) DEF PtyInv, Alive
    <3>. QED BY <1>1, <2>4, <3>1 DEF Over
  <2>10. \A x \in announced' : x \in announced \/ (x \in Born /\ Over(x)')
    BY <1>3, <2>1, <2>2, <2>4, <2>9 DEF Over, Alive
  <2>. QED BY <1>1, <1>3, <2>3, <2>4, <2>6, <2>8, <2>10, QuieterStep
<1>. QED BY <1>2, <1>3 DEF Cleanup

(* The cleanup that the end of output decided.                             *)
LEMMA EofCleanupKeepsInv ==
  ASSUME PtyInv, EofCleanup
  PROVE  PtyInv'
<1>1. PICK c \in cleanups : cleanups' = cleanups \ {c} /\ Cleanup(c[1], c[2]) /\ UNCHANGED supervisor
  BY DEF EofCleanup
<1>2. supervisor' = [at |-> supervisor'.at, due |-> supervisor'.due]
  BY <1>1 DEF PtyInv, PtyTypeOK
<1>. QED BY <1>1, <1>2, CleanupKeepsInv DEF Decided

(* The cleanup that the supervisor decided.                                *)
LEMMA FallbackKeepsInv ==
  ASSUME PtyInv, FallbackCleanup
  PROVE  PtyInv'
<1>1. PICK c \in supervisor.due :
        supervisor' = [supervisor EXCEPT !.due = @ \ {c}] /\ Cleanup(c[1], c[2]) /\ UNCHANGED cleanups
  BY DEF FallbackCleanup
<1>2. supervisor' = [at |-> supervisor'.at, due |-> supervisor'.due] /\ supervisor'.due = supervisor.due \ {c}
  BY <1>1 DEF PtyInv, PtyTypeOK
<1>. QED BY <1>1, <1>2, CleanupKeepsInv DEF Decided

-----------------------------------------------------------------------------
(* Detecting an exit: a poll parks only what is dead, and the end of input *)
(* comes only from a reader that has stopped.                              *)

(* A poll reaps zombies, and what it parks has ended.                      *)
LEMMA PollFacts ==
  ASSUME PtyInv, NEW ss \in SUBSET Spawns, Poll(ss)
  PROVE  /\ Ages(child, child') /\ parked' \in SUBSET Spawns
         /\ \A s \in parked' : s \in parked \/ (s \in Born /\ ~Alive(s)')
         /\ \A s \in Spawns : Polled(s) => ~Alive(s)'
<1> DEFINE now == {s \in ss : Polled(s) /\ s \notin parked}
<1>1. child' = Waited(child, now) /\ parked' = parked \cup now
  BY DEF Poll
<1>2. \A s \in Spawns : Polled(s) => ~Alive(s)
  BY DEF Polled, PtyInv, ParkedIsDead, Alive
<1>3. \A s \in now : s \in Spawns /\ child[s].st = "zombie" /\ s \in Born /\ ~Alive(s)
  BY DEF Polled, Born, Alive
<1>4. Ages(child, child')
  BY <1>1, <1>3, WaitedAges DEF PtyInv, PtyTypeOK
<1>5. \A s \in Spawns : ~Alive(s) => ~Alive(s)'
  BY <1>4, AgesKeeps DEF PtyInv
<1>. QED BY <1>1, <1>2, <1>3, <1>4, <1>5 DEF PtyInv, PtyTypeOK

(* The scan arms the drain of terminals whose child has ended.             *)
LEMMA ScanKeepsInv ==
  ASSUME PtyInv, Scan
  PROVE  PtyInv'
<1> DEFINE ss == {ptys[i].spawn : i \in {j \in Ids : Live(j) /\ ptys[j].drain = "off"}}
<1>1. /\ Poll(ss) /\ supervisor' = [supervisor EXCEPT !.at = "ready"]
      /\ ptys' = [i \in Ids |-> IF ptys[i].spawn \in ss /\ Polled(ptys[i].spawn)
                                THEN [ptys[i] EXCEPT !.drain = "armed"] ELSE ptys[i]]
      /\ UNCHANGED <<ids, inputs, fdTable, reader, queue, cleanups, announced>>
  BY DEF Scan, Goes, kernel
<1>2. ss \in SUBSET Spawns
  BY DEF Live, PtyInv, PtyTypeOK, PtyRecord, NoneOrSpawn
<1> HIDE DEF ss
<1>3. /\ Ages(child, child') /\ parked' \in SUBSET Spawns
      /\ \A s \in parked' : s \in parked \/ (s \in Born /\ ~Alive(s)')
      /\ \A s \in Spawns : Polled(s) => ~Alive(s)'
  BY <1>1, <1>2, PollFacts
<1>4. \A i \in Ids : /\ ptys'[i].spawn = ptys[i].spawn /\ ptys'[i].gen = ptys[i].gen
                     /\ ptys'[i].exited = ptys[i].exited /\ ptys'[i] \in PtyRecord
                     /\ \/ ptys'[i].drain = ptys[i].drain
                        \/ ptys[i].spawn \in ss /\ Polled(ptys[i].spawn)
  BY <1>1, ZenonT(60) DEF PtyInv, PtyTypeOK, PtyRecord
<1>5. \A i \in Ids : ptys'[i].drain = ptys[i].drain \/ ~Alive(ptys[i].spawn)'
  BY <1>2, <1>3, <1>4 DEF Alive
<1>6. supervisor' = [at |-> supervisor'.at, due |-> supervisor'.due] /\ supervisor'.due = supervisor.due
  BY <1>1 DEF PtyInv, PtyTypeOK
<1>7. PtyTypeOK'
  <2>1. ptys' \in [Ids -> PtyRecord]
    BY <1>1, <1>4
  <2>. QED BY <1>1, <1>3, <1>6, <2>1 DEF PtyInv, PtyTypeOK, Ages
<1>8. TerminalsKeepTheirFds'
  BY <1>1, <1>3, <1>4, FdsKept DEF Live
<1>9. Decided' \subseteq Decided
  BY <1>1, <1>6 DEF Decided
<1>. QED BY <1>1, <1>3, <1>4, <1>5, <1>7, <1>8, <1>9, QuieterStep

(* The tick decides a cleanup only when it has read the end of output.     *)
LEMMA TickKeepsInv ==
  ASSUME PtyInv, NEW i \in Ids, Tick(i)
  PROVE  PtyInv'
<1> DEFINE s == ptys[i].spawn
<1>1. s \in Spawns /\ s # 0
  BY DEF Tick, PtyInv, PtyTypeOK, PtyRecord, NoneOrSpawn
<1>2. PICK n \in 1..Len(queue[s]) :
        /\ queue' = [queue EXCEPT ![s] = SubSeq(@, n + 1, Len(@))]
        /\ \/ UNCHANGED <<ptys, child, parked, cleanups>>
           \/ /\ queue[s][n] = 0
              /\ cleanups' = cleanups \cup {<<i, ptys[i].gen>>}
              /\ Poll(IF ptys[i].drain = "off" THEN {s} ELSE {})
              /\ ptys' = IF ptys[i].drain = "off" /\ Polled(s)
                         THEN [ptys EXCEPT ![i].drain = "armed"] ELSE ptys
  BY DEF Tick
<1>3. UNCHANGED <<ids, inputs, fdTable, reader, supervisor, announced>>
  BY DEF Tick
<1>4. queue[s] \in Seq(NoneOrSpawn) /\ queue \in [Spawns -> Seq(NoneOrSpawn)]
  BY <1>1 DEF PtyInv, PtyTypeOK
<1>5. /\ queue' \in [Spawns -> Seq(NoneOrSpawn)]
      /\ \A x \in Spawns \ {s} : queue'[x] = queue[x]
      /\ \A m \in 1..Len(queue'[s]) : \E k \in 1..Len(queue[s]) : queue'[s][m] = queue[s][k]
  <2> DEFINE q == queue[s]
             r == SubSeq(q, n + 1, Len(q))
  <2>1. q \in Seq(NoneOrSpawn) /\ n \in 1..Len(q)
    BY <1>2, <1>4
  <2>2. queue' = [queue EXCEPT ![s] = r]
    BY <1>2
  <2> HIDE DEF q
  <2>3. r \in Seq(NoneOrSpawn) /\ Len(r) = Len(q) - n /\ \A m \in 1..Len(r) : r[m] = q[n + m]
    BY <2>1
  <2>4. \A m \in 1..Len(r) : n + m \in 1..Len(q)
    BY <2>1, <2>3
  <2>5. \A m \in 1..Len(r) : \E k \in 1..Len(q) : r[m] = q[k]
    BY <2>3, <2>4
  <2> HIDE DEF r
  <2>. QED BY <1>1, <1>4, <2>2, <2>3, <2>5 DEF q
<1> HIDE DEF s
<1>6. EofIsGone'
  BY <1>1, <1>3, <1>5, SMTT(30) DEF PtyInv, EofIsGone
<1>7. CASE UNCHANGED <<ptys, child, parked, cleanups>>
  <2>1. Ages(child, child')
    BY <1>7, AgesSame DEF PtyInv, PtyTypeOK
  <2>2. PtyTypeOK'
    BY <1>3, <1>5, <1>7 DEF PtyInv, PtyTypeOK
  <2>3. TerminalsKeepTheirFds'
    BY <1>3, <1>7, <2>1, FdsKept DEF Live
  <2>4. \A x \in parked' : x \in Born /\ ~Alive(x)'
    BY <1>7 DEF PtyInv, NamesAreBorn, ParkedIsDead, Alive
  <2>. QED BY <1>3, <1>6, <1>7, <2>1, <2>2, <2>3, <2>4, QuietStep DEF Decided
<1>8. CASE /\ queue[s][n] = 0
           /\ cleanups' = cleanups \cup {<<i, ptys[i].gen>>}
           /\ Poll(IF ptys[i].drain = "off" THEN {s} ELSE {})
           /\ ptys' = IF ptys[i].drain = "off" /\ Polled(s)
                      THEN [ptys EXCEPT ![i].drain = "armed"] ELSE ptys
  <2>1. /\ Ages(child, child') /\ parked' \in SUBSET Spawns
        /\ \A x \in parked' : x \in parked \/ (x \in Born /\ ~Alive(x)')
        /\ \A x \in Spawns : Polled(x) => ~Alive(x)'
    <3>1. (IF ptys[i].drain = "off" THEN {s} ELSE {}) \in SUBSET Spawns
      BY <1>1
    <3>. QED BY <1>8, <3>1, PollFacts
  <2>2. \A x \in parked' : x \in Born /\ ~Alive(x)'
    BY <2>1, AgesKeeps DEF PtyInv, PtyTypeOK, NamesAreBorn, ParkedIsDead
  <2>3. \A j \in Ids : /\ ptys'[j].spawn = ptys[j].spawn /\ ptys'[j].gen = ptys[j].gen
                       /\ ptys'[j].exited = ptys[j].exited /\ ptys'[j] \in PtyRecord
                       /\ ptys'[j].drain = ptys[j].drain \/ (j = i /\ Polled(s))
    BY <1>8, ZenonT(60) DEF PtyInv, PtyTypeOK, PtyRecord
  <2>4. \A j \in Ids : ptys'[j].drain = ptys[j].drain \/ ~Alive(ptys[j].spawn)'
    BY <1>1, <2>1, <2>3 DEF Alive, s
  <2>5. ptys[i].gen \in Nat
    BY DEF PtyInv, PtyTypeOK, PtyRecord
  <2>6. PtyTypeOK'
    <3>1. ptys' \in [Ids -> PtyRecord]
      BY <1>8, <2>3 DEF PtyInv, PtyTypeOK
    <3>. QED BY <1>3, <1>5, <1>8, <2>1, <2>5, <3>1 DEF PtyInv, PtyTypeOK, Ages
  <2>7. TerminalsKeepTheirFds'
    BY <1>3, <2>1, <2>3, FdsKept DEF Live
  <2>8. \A d \in Decided' : \/ d \in Decided
                            \/ \E j \in Ids, x \in Spawns : d = <<j, ptys[j].gen>> /\ ptys[j].spawn = x /\ Over(x)'
    <3>1. \A x \in Spawns : x = s => Over(x)'
      BY <1>1, <1>2, <1>3, <1>8 DEF Over, PtyInv, EofIsGone
    <3>. QED BY <1>1, <1>3, <1>8, <3>1 DEF Decided, s
  <2>. QED BY <1>3, <1>6, <2>1, <2>2, <2>3, <2>4, <2>6, <2>7, <2>8, QuietStep
<1>. QED BY <1>2, <1>7, <1>8

(* The fallback cleanups are decided for the generations that are due.     *)
LEMMA ReadyKeepsInv ==
  ASSUME PtyInv, Ready
  PROVE  PtyInv'
<1> DEFINE due == {<<i, ptys[i].gen>> : i \in {j \in Ids : Live(j) /\ ptys[j].drain = "due"}}
<1>1. /\ supervisor' = [at |-> "cleanup", due |-> due]
      /\ UNCHANGED <<ptys, ids, inputs, fdTable, child, reader, queue, parked, announced, cleanups>>
  BY DEF Ready, kernel
<1>2. Ages(child, child')
  BY <1>1, AgesSame DEF PtyInv, PtyTypeOK
<1>3. due \in SUBSET (Ids \X Nat)
  BY DEF PtyInv, PtyTypeOK, PtyRecord
<1>4. \A d \in due : \E i \in Ids, s \in Spawns : d = <<i, ptys[i].gen>> /\ ptys[i].spawn = s /\ Over(s)'
  <2>1. ASSUME NEW i \in Ids, Live(i), ptys[i].drain = "due"
        PROVE  ptys[i].spawn \in Spawns /\ ~Alive(ptys[i].spawn)
    BY <2>1 DEF Live, PtyInv, PtyTypeOK, PtyRecord, NoneOrSpawn, DrainIsDead
  <2>2. \A s \in Spawns : ~Alive(s) => Over(s)'
    BY <1>1 DEF Over, Alive
  <2>. QED BY <2>1, <2>2
<1> HIDE DEF due
<1>5. supervisor'.due = due /\ supervisor' = [at |-> supervisor'.at, due |-> supervisor'.due]
  BY <1>1
<1>6. PtyTypeOK'
  BY <1>1, <1>3, <1>5 DEF PtyInv, PtyTypeOK
<1>7. TerminalsKeepTheirFds' /\ EofIsGone'
  BY <1>1, <1>2, FdsKept DEF Live, PtyInv, EofIsGone
<1>8. \A x \in parked' : x \in Born /\ ~Alive(x)'
  BY <1>1 DEF PtyInv, NamesAreBorn, ParkedIsDead, Alive
<1>9. \A d \in Decided' : \/ d \in Decided
                          \/ \E i \in Ids, s \in Spawns : d = <<i, ptys[i].gen>> /\ ptys[i].spawn = s /\ Over(s)'
  BY <1>1, <1>4, <1>5 DEF Decided
<1>. QED BY <1>1, <1>2, <1>6, <1>7, <1>8, <1>9, QuietStep

(* Enforcing the kill deadlines signals the children of their terminals.   *)
LEMMA EnforceKeepsInv ==
  ASSUME PtyInv, EnforceDeadlines
  PROVE  PtyInv'
<1>1. PICK late, first, stopped :
        /\ ptys' = [i \in Ids |-> IF i \notin late THEN ptys[i] ELSE
                     [ptys[i] EXCEPT !.timer = IF @ = "armed" THEN "stopping" ELSE "off"]]
        /\ child' = Signalled(Signalled(child, first, "asked"), stopped, "killed")
  <2>1. PICK late \in SUBSET {i \in Ids : Live(i) /\ ptys[i].timer # "off"} :
          LET stopped == {ptys[i].spawn : i \in {j \in late : ptys[j].timer = "stopping"}}
              first == {ptys[i].spawn : i \in late} \ stopped
          IN  /\ ptys' = [i \in Ids |-> IF i \notin late THEN ptys[i] ELSE
                           [ptys[i] EXCEPT !.timer = IF @ = "armed" THEN "stopping" ELSE "off"]]
              /\ child' = Signalled(Signalled(child, first, "asked"), stopped, "killed")
    BY Zenon DEF EnforceDeadlines
  <2> DEFINE stopped == {ptys[i].spawn : i \in {j \in late : ptys[j].timer = "stopping"}}
             first == {ptys[i].spawn : i \in late} \ stopped
  <2>2. /\ ptys' = [i \in Ids |-> IF i \notin late THEN ptys[i] ELSE
                     [ptys[i] EXCEPT !.timer = IF @ = "armed" THEN "stopping" ELSE "off"]]
        /\ child' = Signalled(Signalled(child, first, "asked"), stopped, "killed")
    BY <2>1
  <2> HIDE DEF stopped, first
  <2>. QED BY <2>2
<1>2. /\ UNCHANGED <<ids, inputs, fdTable, reader, queue, parked, announced, cleanups>>
      /\ supervisor' = [supervisor EXCEPT !.at = "escalate"]
  BY DEF EnforceDeadlines, Goes, kernel
<1>3. Ages(child, child') /\ child' \in ChildType
  <2>1. /\ Signalled(child, first, "asked") \in ChildType
        /\ Ages(child, Signalled(child, first, "asked"))
    BY SignalledAges DEF PtyInv, PtyTypeOK
  <2>2. child' \in ChildType /\ Ages(Signalled(child, first, "asked"), child')
    BY <1>1, <2>1, SignalledAges
  <2>. QED BY <2>1, <2>2, AgesTrans DEF PtyInv, PtyTypeOK
<1>4. \A i \in Ids : /\ ptys'[i].spawn = ptys[i].spawn /\ ptys'[i].gen = ptys[i].gen
                     /\ ptys'[i].drain = ptys[i].drain /\ ptys'[i].exited = ptys[i].exited
                     /\ ptys'[i] \in PtyRecord
  BY <1>1, ZenonT(60) DEF PtyInv, PtyTypeOK, PtyRecord
<1>5. supervisor' = [at |-> supervisor'.at, due |-> supervisor'.due] /\ supervisor'.due = supervisor.due
  BY <1>2 DEF PtyInv, PtyTypeOK
<1>6. PtyTypeOK'
  <2>1. ptys' \in [Ids -> PtyRecord]
    BY <1>1, <1>4
  <2>. QED BY <1>2, <1>3, <1>5, <2>1 DEF PtyInv, PtyTypeOK
<1>7. TerminalsKeepTheirFds'
  BY <1>2, <1>3, <1>4, FdsKept DEF Live
<1>. QED BY <1>2, <1>3, <1>4, <1>5, <1>6, <1>7, QuieterStep DEF Decided

(* Eviction removes terminals that have exited.                            *)
LEMMA EvictKeepsInv ==
  ASSUME PtyInv, EvictExited
  PROVE  PtyInv'
<1>1. PICK doomed \in SUBSET {i \in Ids : ptys[i].exited} :
        /\ ptys' = [i \in Ids |-> IF i \in doomed THEN NoPty ELSE ptys[i]]
        /\ inputs' = [i \in Ids |-> IF i \in doomed THEN 0 ELSE inputs[i]]
  BY DEF EvictExited
<1>2. /\ UNCHANGED <<ids, fdTable, child, reader, queue, parked, announced, cleanups>>
      /\ supervisor' = [supervisor EXCEPT !.at = "idle"]
  BY DEF EvictExited, Goes, kernel
<1>3. Ages(child, child')
  BY <1>2, AgesSame DEF PtyInv, PtyTypeOK
<1>4. NoPty \in PtyRecord /\ NoPty.spawn = 0
  BY DEF NoPty, PtyRecord, NoneOrSpawn
<1>5. \A i \in Ids : /\ ptys'[i] \in PtyRecord
                     /\ ptys'[i] = ptys[i] \/ (ptys'[i].spawn = 0 /\ ptys[i].exited)
  BY <1>1, <1>4 DEF PtyInv, PtyTypeOK
<1>6. \A i \in Ids : ptys[i].exited => inputs[i] = 0
  BY DEF PtyInv, TerminalsKeepTheirFds, Live
<1>7. inputs' = inputs
  BY <1>1, <1>6 DEF PtyInv, PtyTypeOK
<1>8. \A i \in Ids : Live(i)' <=> (Live(i) /\ ptys'[i] = ptys[i])
  BY <1>5 DEF Live
<1>9. \A i \in Ids : Live(i) => ptys'[i] = ptys[i]
  BY <1>5 DEF Live
<1>10. TerminalsKeepTheirFds'
  BY <1>2, <1>3, <1>7, <1>8, <1>9, FdsKept
<1>11. supervisor' = [at |-> supervisor'.at, due |-> supervisor'.due] /\ supervisor'.due = supervisor.due
  BY <1>2 DEF PtyInv, PtyTypeOK
<1>12. PtyTypeOK'
  <2>1. ptys' \in [Ids -> PtyRecord]
    BY <1>1, <1>5
  <2>. QED BY <1>2, <1>7, <1>11, <2>1 DEF PtyInv, PtyTypeOK
<1>. QED BY <1>2, <1>3, <1>5, <1>10, <1>11, <1>12, QuieterStep DEF Decided

-----------------------------------------------------------------------------
(* The readers and the children.                                           *)

(* A reader reports the end of output only as it leaves.                   *)
LEMMA ReaderKeepsInv ==
  ASSUME PtyInv, NEW s \in Spawns, ReaderEnters(s) \/ ReaderReturns(s)
  PROVE  PtyInv'
<1>1. UNCHANGED <<ptys, ids, inputs, fdTable, child, parked, announced, cleanups, supervisor>>
  BY DEF ReaderEnters, ReaderReturns, noRequest
<1>2. Ages(child, child')
  BY <1>1, AgesSame DEF PtyInv, PtyTypeOK
<1>3. TerminalsKeepTheirFds'
  BY <1>1, <1>2, FdsKept DEF Live
<1>4. \A x \in parked' : x \in Born /\ ~Alive(x)'
  BY <1>1 DEF PtyInv, NamesAreBorn, ParkedIsDead, Alive
<1>5. /\ reader' \in [Spawns -> [at : {"none", "loop", "blocked", "gone"}, on : NoneOrSpawn]]
      /\ queue' \in [Spawns -> Seq(NoneOrSpawn)]
      /\ \A x \in Spawns : /\ reader[x].at = "gone" => reader'[x].at = "gone"
                           /\ reader'[x].at # "none" => reader[x].at # "none"
      /\ EofIsGone'
  <2>1. CASE ReaderEnters(s)
    <3>1. /\ reader[s].at = "loop" /\ UNCHANGED queue
          /\ reader' = [reader EXCEPT ![s] = [at |-> "blocked", on |-> fdTable[child[s].fd]]]
      BY <2>1 DEF ReaderEnters
    <3>2. fdTable[child[s].fd] \in NoneOrSpawn
      BY <3>1 DEF PtyInv, PtyTypeOK, NamesAreBorn
    <3>3. \A x \in Spawns \ {s} : reader'[x] = reader[x]
      BY <3>1 DEF PtyInv, PtyTypeOK
    <3>4. reader' \in [Spawns -> [at : {"none", "loop", "blocked", "gone"}, on : NoneOrSpawn]]
          /\ reader'[s].at = "blocked"
      BY <3>1, <3>2 DEF PtyInv, PtyTypeOK
    <3>. QED BY <3>1, <3>3, <3>4 DEF PtyInv, PtyTypeOK, EofIsGone
  <2>2. CASE ReaderReturns(s)
    <3> DEFINE t == reader[s].on
               chunk == t # 0 /\ tty[t].printed > 0
               e == IF chunk THEN t ELSE 0
               at == IF chunk /\ HasReceiver(s) THEN "loop" ELSE "gone"
    <3>1. /\ reader[s].at = "blocked"
          /\ queue' = IF HasReceiver(s) THEN [queue EXCEPT ![s] = Append(@, e)] ELSE queue
          /\ reader' = [reader EXCEPT ![s] = [at |-> at, on |-> 0]]
      BY <2>2 DEF ReaderReturns
    <3>2. /\ e \in NoneOrSpawn /\ at \in {"loop", "gone"} /\ 0 \in NoneOrSpawn
          /\ e = 0 => at = "gone"
      BY DEF PtyInv, PtyTypeOK, NoneOrSpawn
    <3> HIDE DEF e, at
    <3>3. \A x \in Spawns \ {s} : reader'[x] = reader[x] /\ queue'[x] = queue[x]
      BY <3>1 DEF PtyInv, PtyTypeOK
    <3>4. /\ reader' \in [Spawns -> [at : {"none", "loop", "blocked", "gone"}, on : NoneOrSpawn]]
          /\ reader'[s].at = at
      BY <3>1, <3>2 DEF PtyInv, PtyTypeOK
    <3>5. queue[s] \in Seq(NoneOrSpawn) /\ queue \in [Spawns -> Seq(NoneOrSpawn)]
      BY DEF PtyInv, PtyTypeOK
    <3>6. /\ queue' \in [Spawns -> Seq(NoneOrSpawn)]
          /\ \A n \in 1..Len(queue'[s]) : queue'[s][n] = 0 => reader'[s].at = "gone"
      <4>1. CASE ~HasReceiver(s)
        BY <3>1, <3>5, <4>1 DEF PtyInv, EofIsGone
      <4>2. CASE HasReceiver(s)
        <5>1. queue'[s] = Append(queue[s], e) /\ queue' \in [Spawns -> Seq(NoneOrSpawn)]
          BY <3>1, <3>2, <3>5, <4>2
        <5>2. /\ Len(queue'[s]) = Len(queue[s]) + 1 /\ queue'[s][Len(queue[s]) + 1] = e
              /\ \A n \in 1..Len(queue[s]) : queue'[s][n] = queue[s][n] /\ queue[s][n] # 0
          BY <3>1, <3>5, <5>1 DEF PtyInv, EofIsGone
        <5>3. \A n \in 1..Len(queue'[s]) : n \in 1..Len(queue[s]) \/ n = Len(queue[s]) + 1
          BY <3>5, <5>2
        <5>. QED BY <3>2, <3>4, <5>1, <5>2, <5>3
      <4>. QED BY <4>1, <4>2
    <3>7. EofIsGone'
      BY <3>3, <3>6 DEF PtyInv, EofIsGone
    <3>. QED BY <3>1, <3>2, <3>3, <3>4, <3>6, <3>7
  <2>. QED BY <2>1, <2>2
<1>6. PtyTypeOK'
  BY <1>1, <1>5 DEF PtyInv, PtyTypeOK
<1>. QED BY <1>1, <1>2, <1>3, <1>4, <1>5, <1>6, QuietStep DEF Decided

(* A child prints or lets go of its terminal, or a grace period passes.    *)
LEMMA ChildActsKeepsInv ==
  ASSUME PtyInv, NEW s \in Spawns, ChildActs(s) \/ GracePasses(s)
  PROVE  PtyInv'
<1>1. UNCHANGED <<ptys, ids, inputs, fdTable, child, reader, queue, parked, announced, cleanups, supervisor>>
  BY DEF ChildActs, GracePasses, noRequest, kernel
<1>2. supervisor' = [at |-> supervisor'.at, due |-> supervisor'.due]
  BY <1>1 DEF PtyInv, PtyTypeOK
<1>. QED BY <1>1, <1>2, SameTerminals DEF Decided

-----------------------------------------------------------------------------
(* A server without terminals satisfies the invariant.                     *)
LEMMA InitEstablishesInv == PtyInit => PtyInv
<1> SUFFICES ASSUME PtyInit PROVE PtyInv
  OBVIOUS
<1>1. \A i \in Ids : ptys[i].spawn = 0 /\ ptys[i] \in PtyRecord /\ ~Live(i)
  BY DEF PtyInit, NoPty, PtyRecord, NoneOrSpawn, Live
<1>2. Born = {} /\ Decided = {}
  BY DEF PtyInit, Born, Decided
<1>3. Born = 1..0
  BY <1>2
<1>4. PtyTypeOK
  <2>1. /\ ptys \in [Ids -> PtyRecord] /\ child \in ChildType
        /\ reader \in [Spawns -> [at : {"none", "loop", "blocked", "gone"}, on : NoneOrSpawn]]
        /\ queue \in [Spawns -> Seq(NoneOrSpawn)]
    BY <1>1 DEF PtyInit, ChildType, ChildRecord, NoneOrSpawn
  <2>2. /\ inputs \in [Ids -> Fds \cup {0}] /\ fdTable \in [Fds -> NoneOrSpawn]
        /\ ids \in 0..MaxTerminals
    BY PtyConstants DEF PtyInit, NoneOrSpawn
  <2>. QED BY <2>1, <2>2 DEF PtyInit, PtyTypeOK
<1>5. BornInOrder /\ NamesAreBorn
  BY <1>1, <1>2, <1>3 DEF PtyInit, BornInOrder, NamesAreBorn
<1>6. EofIsGone
  BY DEF PtyInit, EofIsGone
<1>. QED BY <1>1, <1>2, <1>4, <1>5, <1>6 DEF PtyInit, PtyInv, OneTerminalEach, FreshIds, ParkedIsDead, DrainIsDead,
     CleanupsAreDue, TerminalsKeepTheirFds, NoChildDiesForAnother

(* Every step keeps the inductive invariant.                               *)
LEMMA NextKeepsInv == PtyInv /\ [PtyNext]_ptyVars => PtyInv'
<1> SUFFICES ASSUME PtyInv, [PtyNext]_ptyVars PROVE PtyInv'
  OBVIOUS
<1>1. CASE Request
  <2>1. ASSUME NEW f \in Fds, Create(f)
        PROVE  PtyInv'
    <3>1. ids + 1 \in Ids /\ ids' = ids + 1 /\ SpawnPty(ids + 1, f)
      BY <2>1, PtyConstants DEF Create, PtyInv, PtyTypeOK, Ids
    <3>. QED BY <3>1, SpawnKeepsInv
  <2>2. ASSUME NEW f \in Fds, NEW i \in Ids, Restart(i, f)
        PROVE  PtyInv'
    BY <2>2, SpawnKeepsInv DEF Restart
  <2>3. ASSUME NEW i \in Ids, CloseTerminal(i)
        PROVE  PtyInv'
    BY <2>3, CloseKeepsInv
  <2>4. ASSUME NEW i \in Ids, NEW signal \in {"asked", "killed"}, Kill(i, signal)
        PROVE  PtyInv'
    BY <2>4, KillKeepsInv
  <2>5. ASSUME NEW i \in Ids, NEW timer \in {"off", "armed"}, Deadline(i, timer)
        PROVE  PtyInv'
    BY <2>5, DeadlineKeepsInv
  <2>. QED BY <1>1, <2>1, <2>2, <2>3, <2>4, <2>5 DEF Request
<1>2. ASSUME NEW i \in Ids, Tick(i) \/ DrainPasses(i)
      PROVE  PtyInv'
  BY <1>2, TickKeepsInv, DrainPassesKeepsInv
<1>3. CASE EofCleanup \/ SupervisorStep
  BY <1>3, EofCleanupKeepsInv, ScanKeepsInv, ReadyKeepsInv, FallbackKeepsInv, EnforceKeepsInv,
     EscalateKeepsInv, ReapKeepsInv, EvictKeepsInv DEF SupervisorStep
<1>4. ASSUME NEW s \in Spawns, GracePasses(s) \/ ReaderEnters(s) \/ ReaderReturns(s) \/ ChildEnds(s) \/ ChildActs(s)
      PROVE  PtyInv'
  BY <1>4, ReaderKeepsInv, ChildEndsKeepsInv, ChildActsKeepsInv
<1>5. CASE UNCHANGED ptyVars
  <2>1. UNCHANGED <<ptys, ids, inputs, fdTable, child, reader, queue, parked, announced, cleanups, supervisor>>
    BY <1>5 DEF ptyVars
  <2>2. supervisor' = [at |-> supervisor'.at, due |-> supervisor'.due]
    BY <2>1 DEF PtyInv, PtyTypeOK
  <2>. QED BY <2>1, <2>2, SameTerminals DEF Decided
<1>. QED BY <1>1, <1>2, <1>3, <1>4, <1>5 DEF PtyNext

(* The inductive invariant holds throughout: a terminal keeps its          *)
(* descriptor, and a cleanup on its way is for a child that is over or was *)
(* replaced.                                                               *)
THEOREM InvHolds == PtySpec => []PtyInv
BY InitEstablishesInv, NextKeepsInv, PTL DEF PtySpec

(* A descriptor that was closed and comes back for another terminal is     *)
(* never the one a live terminal is read from or written to.               *)
THEOREM FdsAreKept == PtySpec => []TerminalsKeepTheirFds
<1>1. PtyInv => TerminalsKeepTheirFds
  BY DEF PtyInv
<1>. QED BY <1>1, InvHolds, PTL

(* No exit is announced, and no master hung up, for a child that runs and  *)
(* whose reader has not seen the end, however restarts race with the two   *)
(* ways an exit is found.                                                  *)
THEOREM ExitsAreTheirOwn == PtySpec => []NoChildDiesForAnother
<1>1. PtyInv => NoChildDiesForAnother
  BY DEF PtyInv
<1>. QED BY <1>1, InvHolds, PTL
=============================================================================
