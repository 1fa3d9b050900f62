------------------------------- MODULE KvStore -------------------------------
(***************************************************************************)
(* The server key-value store, crates/server/src/kv.rs: an in-memory map   *)
(* that is the truth for compare-and-swap and for prefix watches, a writer *)
(* thread that persists it behind the requests, and the subscriptions of   *)
(* every connection.                                                       *)
(*                                                                         *)
(* One action is one critical section of the store lock, or one step of a  *)
(* task between two of them. A connection task is sequential: while it is  *)
(* sending the snapshot of a KV_OPEN it handles no other message, but the  *)
(* other connections and the writer thread go on. The content hash that a  *)
(* CAS compares is the value itself, and a subscription's id is its slot.  *)
(***************************************************************************)
EXTENDS Integers, Sequences, FiniteSets

CONSTANTS Keys, Values, Conns, Slots,
          Absent,        \* hash 0: the key is not in the map
          NoCas,         \* KV_PUT_NO_CAS: base is ignored
          Nobody,        \* no connection
          Lost,          \* history: a mutation a crash took back
          Watchable,     \* Watchable[c]: the key sets the prefixes c opens select
          Bytes,         \* Bytes[v]: bytes an entry holding v is charged
          MaxEntries, TotalMax,      \* BLIT_KV_MAX_ENTRIES, BLIT_KV_TOTAL_MAX
          MaxInflight, UnackedMax,   \* BLIT_KV_INFLIGHT, BLIT_KV_UNACKED_MAX (updates)
          Faults,        \* which of "commit" (a failed transaction), "crash" happen
          MaxMutations   \* bound on the mutations of one behaviour

ASSUME KvAssumption ==
  /\ {Absent, NoCas} \cap Values = {} /\ Absent # NoCas
  /\ IsFiniteSet(Keys) /\ Nobody \notin Conns /\ Lost \notin Keys
  /\ Watchable \in [Conns -> SUBSET SUBSET Keys]
  /\ Bytes \in [Values -> Nat \ {0}]
  /\ {MaxEntries, TotalMax, MaxInflight, UnackedMax, MaxMutations} \subseteq Nat
  /\ Faults \subseteq {"commit", "crash"}

VARIABLES
  entries,     \* Store.entries; ver is the position of the mutation that wrote it
  total,       \* Store.total_bytes
  writer,      \* Store.writer: "up", or "none" for a memory-only store
  queue,       \* jobs sent to the writer thread and not yet received
  batch, cur,  \* the writer's batch, and the next job of it
  wstate,      \* where writer_loop is
  commitOk,    \* the outcome of its transaction
  txn,         \* the table inside the open transaction
  disk, hard,  \* the last commit, and what a power loss leaves of the database
  subs,        \* the subscriptions of every connection
  pending,     \* KvSubs.pending_puts of every connection
  log,         \* history: the key of every mutation, in mutation order
  okFloor,     \* history: last mutation of a key a DURABLE KV_DONE{OK} confirmed
  absentFloor  \* history: mutation of a key a DURABLE delete found it absent at

vars == <<entries, total, writer, queue, batch, cur, wstate, commitOk, txn,
          disk, hard, subs, pending, log, okFloor, absentFloor>>
writerVars == <<batch, cur, wstate, commitOk, txn, disk, hard>>
history    == <<okFloor, absentFloor>>

Vers   == 0 .. MaxMutations
Entry  == [val : Values \cup {Absent}, ver : Vers, by : Conns \cup {Nobody}]
Table  == [Keys -> Entry]
Job    == [key : Keys, entry : Entry, durable : BOOLEAN, conn : Conns \cup {Nobody}]
Update == [key : Keys, entry : Entry]

NoEntry == [val |-> Absent, ver |-> 0, by |-> Nobody]
Empty   == [k \in Keys |-> NoEntry]

Present(t) == {k \in Keys : t[k].val # Absent}
BytesOf(v) == IF v = Absent THEN 0 ELSE Bytes[v]

-----------------------------------------------------------------------------
(* Subscriptions. sent and floor are the last update id assigned and the   *)
(* acked floor, so sent - floor updates are retained in the unacked        *)
(* window. shown is what a client that applies every update sent so far    *)
(* holds for each key: the outbox is one FIFO per connection.              *)

NoSub == [phase |-> "none", match |-> {}, snap |-> Empty, rem |-> {},
          ended |-> FALSE, queued |-> <<>>, sent |-> 0, floor |-> 0,
          shown |-> Empty]

Send(s, es) ==
  IF s.sent - s.floor + 1 > UnackedMax
  THEN [s EXCEPT !.phase = "closed"]
  ELSE [s EXCEPT !.sent = @ + 1, !.shown = [k \in Keys |->
                    IF k \in DOMAIN es THEN es[k] ELSE @[k]]]

One(k, e) == [x \in {k} |-> e]

MutDeliver(s, k, e) == IF s.phase = "live" THEN Send(s, One(k, e)) ELSE s
Deliver(s, k, e) ==
  CASE s.phase = "snap" -> [s EXCEPT !.queued = Append(@, [key |-> k, entry |-> e])]
    [] s.phase = "live" -> Send(s, One(k, e))
    [] OTHER -> s

Broadcast(k, e) ==
  subs' = [c \in Conns |-> [i \in Slots |->
             IF k \in subs[c][i].match THEN Deliver(subs[c][i], k, e)
                                       ELSE subs[c][i]]]

Idle(c) == \A i \in Slots : subs[c][i].phase # "snap"

(* KV_OPEN: closed subscriptions are swept first, and the registration and *)
(* the clone of the matching entries are one critical section.             *)
Sweep(ss) == [i \in Slots |-> IF ss[i].phase = "closed" THEN NoSub ELSE ss[i]]

Open(c, i, match) ==
  /\ Idle(c)
  /\ Sweep(subs[c])[i].phase = "none"
  /\ subs' = [subs EXCEPT ![c] = [Sweep(@) EXCEPT
                ![i] = [NoSub EXCEPT !.phase = "snap", !.match = match,
                                     !.snap = entries,
                                     !.rem = match \cap Present(entries)]]]
  /\ UNCHANGED <<entries, total, writer, queue, writerVars, pending, log, history>>

(* One snapshot chunk; the last one carries SNAPSHOT_END. A chunk past the *)
(* budget closes the subscription, which then never enters the map.        *)
SendChunk(c, i, ks, last) ==
  LET s == subs[c][i]
      t == Send(s, [k \in ks |-> s.snap[k]])
  IN /\ s.phase = "snap" /\ ~s.ended
     /\ IF last THEN ks = s.rem ELSE ks # {} /\ ks \subseteq s.rem
     /\ subs' = [subs EXCEPT ![c][i] =
                   IF t.phase = "closed" THEN NoSub
                   ELSE [t EXCEPT !.rem = @ \ ks, !.ended = last]]
     /\ UNCHANGED <<entries, total, writer, queue, writerVars, pending, log, history>>

(* go_live sends what was queued meanwhile, in order and as far as the     *)
(* budget allows: the last update of a key is what the client is left with.*)
Flush(s) ==
  LET room == UnackedMax - (s.sent - s.floor)
      n    == IF room < Len(s.queued) THEN room ELSE Len(s.queued)
      Of(k) == {j \in 1 .. n : s.queued[j].key = k}
      Last(k) == CHOOSE j \in Of(k) : \A m \in Of(k) : m <= j
  IN [s EXCEPT !.phase = IF n < Len(s.queued) THEN "closed" ELSE "live",
               !.queued = <<>>, !.sent = @ + n,
               !.shown = [k \in Keys |-> IF Of(k) = {} THEN @[k]
                                         ELSE s.queued[Last(k)].entry]]

GoLive(c, i) ==
  LET s == subs[c][i]
      t == Flush(s)
  IN /\ s.phase = "snap" /\ s.ended
     /\ subs' = [subs EXCEPT ![c][i] =
                   IF t.phase = "closed" THEN NoSub
                   ELSE [t EXCEPT !.snap = Empty, !.ended = FALSE]]
     /\ UNCHANGED <<entries, total, writer, queue, writerVars, pending, log, history>>

(* KV_STOP *)
Stop(c, i) ==
  /\ Idle(c) /\ subs[c][i].phase # "none"
  /\ subs' = [subs EXCEPT ![c][i] = NoSub]
  /\ UNCHANGED <<entries, total, writer, queue, writerVars, pending, log, history>>

(* KV_ACK: cumulative; id may exceed what was sent. *)
Ack(c, i, id) ==
  LET s == subs[c][i]
  IN /\ Idle(c) /\ s.phase \in {"live", "closed"}
     /\ s.floor < id /\ id <= s.sent
     /\ subs' = [subs EXCEPT ![c][i].floor = id]
     /\ UNCHANGED <<entries, total, writer, queue, writerVars, pending, log, history>>

-----------------------------------------------------------------------------
(* KV_PUT. CasHolds, the durable budget and the size budgets are the       *)
(* refusals that depend on the store; a refused request changes nothing.   *)
(* The operators named Mut are deliberately wrong variants of the ones     *)
(* they precede; no action uses them.                                      *)

CasHolds(k, base) == base = NoCas \/ base = entries[k].val

DurableBudget(c, durable) == durable => pending[c] < MaxInflight

MutCharged(k, val) == total + BytesOf(val)
Charged(k, val) == total - BytesOf(entries[k].val) + BytesOf(val)

SizeBudgets(k, val) ==
  /\ entries[k].val = Absent => Cardinality(Present(entries)) < MaxEntries
  /\ Charged(k, val) <= TotalMax

(* Insert or remove, queue the write job, and reply: a queued DURABLE job  *)
(* leaves KV_DONE and the echo to the writer thread.                       *)
Mutate(c, k, val, durable) ==
  LET e == [val |-> val, ver |-> Len(log) + 1, by |-> c]
      job == [key |-> k, entry |-> e, durable |-> durable,
              conn |-> IF durable THEN c ELSE Nobody]
      queued == writer = "up"
  IN /\ Len(log) < MaxMutations
     /\ log' = Append(log, k)
     /\ entries' = [entries EXCEPT ![k] = e]
     /\ total' = Charged(k, val)
     /\ queue' = IF queued THEN Append(queue, job) ELSE queue
     /\ pending' = IF durable /\ queued THEN [pending EXCEPT ![c] = @ + 1] ELSE pending
     /\ IF durable /\ queued THEN UNCHANGED subs ELSE Broadcast(k, e)
     /\ UNCHANGED <<writer, writerVars, history>>

Put(c, k, val, base, durable) ==
  /\ Idle(c)
  /\ DurableBudget(c, durable)
  /\ CasHolds(k, base)
  /\ SizeBudgets(k, val)
  /\ Mutate(c, k, val, durable)

Delete(c, k, base, durable) ==
  /\ Idle(c)
  /\ base # Absent
  /\ DurableBudget(c, durable)
  /\ CasHolds(k, base)
  /\ entries[k].val # Absent
  /\ Mutate(c, k, Absent, durable)

(* NO_CAS delete of an absent key: KV_DONE{OK} at once, nothing queued.    *)
DeleteAbsent(c, k) ==
  /\ Idle(c)
  /\ DurableBudget(c, TRUE)
  /\ entries[k].val = Absent
  /\ absentFloor' = [absentFloor EXCEPT ![k] = entries[k].ver]
  /\ UNCHANGED <<entries, total, writer, queue, writerVars, subs, pending, log, okFloor>>

-----------------------------------------------------------------------------
(* The writer thread. It takes everything queued as one transaction.       *)

MutTakeBatch ==
  LET urgent == SelectSeq(queue, LAMBDA j : j.durable)
  IN /\ wstate = "idle" /\ queue # <<>>
     /\ batch' = IF urgent = <<>> THEN queue ELSE urgent
     /\ queue' = IF urgent = <<>> THEN <<>> ELSE SelectSeq(queue, LAMBDA j : ~j.durable)
     /\ txn' = disk /\ cur' = 1 /\ wstate' = "txn"
     /\ UNCHANGED <<entries, total, writer, commitOk, disk, hard, subs, pending, log, history>>

TakeBatch ==
  /\ wstate = "idle" /\ queue # <<>>
  /\ batch' = queue /\ queue' = <<>>
  /\ txn' = disk /\ cur' = 1 /\ wstate' = "txn"
  /\ UNCHANGED <<entries, total, writer, commitOk, disk, hard, subs, pending, log, history>>

ApplyJob ==
  /\ wstate = "txn" /\ cur <= Len(batch)
  /\ txn' = [txn EXCEPT ![batch[cur].key] = batch[cur].entry]
  /\ cur' = cur + 1
  /\ UNCHANGED <<entries, total, writer, queue, batch, wstate, commitOk, disk, hard,
                 subs, pending, log, history>>

MutImmediate == batch[1].durable
Immediate == \E i \in DOMAIN batch : batch[i].durable

Commit ==
  /\ wstate = "txn" /\ cur > Len(batch)
  /\ disk' = txn
  /\ hard' = IF Immediate THEN txn ELSE hard
  /\ commitOk' = TRUE /\ cur' = 1 /\ wstate' = "reply"
  /\ UNCHANGED <<entries, total, writer, queue, batch, txn, subs, pending, log, history>>

MutCommitFails ==
  /\ "commit" \in Faults /\ wstate = "txn" /\ wstate' = "gone"
  /\ UNCHANGED <<entries, total, writer, queue, batch, cur, commitOk, txn, disk, hard,
                 subs, pending, log, history>>

CommitFails ==
  /\ "commit" \in Faults
  /\ wstate = "txn"
  /\ commitOk' = FALSE /\ cur' = 1 /\ wstate' = "reply"
  /\ UNCHANGED <<entries, total, writer, queue, batch, txn, disk, hard,
                 subs, pending, log, history>>

(* The deferred KV_DONE, before the store lock is taken for the echo.      *)
Done ==
  /\ wstate = "reply" /\ cur <= Len(batch) /\ batch[cur].durable
  /\ okFloor' = IF commitOk THEN [okFloor EXCEPT ![batch[cur].key] = batch[cur].entry.ver]
                            ELSE okFloor
  /\ wstate' = "echo"
  /\ UNCHANGED <<entries, total, writer, queue, batch, cur, commitOk, txn, disk, hard,
                 subs, pending, log, absentFloor>>

(* The echo reads the current entry; then the DurableReply is dropped.     *)
MutEcho ==
  /\ wstate = "echo"
  /\ pending' = IF batch[cur].conn = Nobody THEN pending
                ELSE [pending EXCEPT ![batch[cur].conn] = @ - 1]
  /\ cur' = cur + 1 /\ wstate' = "reply"
  /\ UNCHANGED <<entries, total, writer, queue, batch, commitOk, txn, disk, hard,
                 subs, log, history>>

Echo ==
  LET job == batch[cur]
  IN /\ wstate = "echo"
     /\ Broadcast(job.key, entries[job.key])
     /\ pending' = IF job.conn = Nobody THEN pending
                   ELSE [pending EXCEPT ![job.conn] = @ - 1]
     /\ cur' = cur + 1 /\ wstate' = "reply"
     /\ UNCHANGED <<entries, total, writer, queue, batch, commitOk, txn, disk, hard,
                    log, history>>

SkipJob ==
  /\ wstate = "reply" /\ cur <= Len(batch) /\ ~batch[cur].durable
  /\ cur' = cur + 1
  /\ UNCHANGED <<entries, total, writer, queue, batch, wstate, commitOk, txn, disk, hard,
                 subs, pending, log, history>>

EndBatch ==
  /\ wstate = "reply" /\ cur > Len(batch)
  /\ batch' = <<>> /\ cur' = 1 /\ wstate' = "idle"
  /\ UNCHANGED <<entries, total, writer, queue, commitOk, txn, disk, hard,
                 subs, pending, log, history>>

(* redb makes an Eventual commit durable on its own, some time later.      *)
Harden ==
  /\ hard # disk /\ hard' = disk
  /\ UNCHANGED <<entries, total, writer, queue, batch, cur, wstate, commitOk, txn, disk,
                 subs, pending, log, history>>

-----------------------------------------------------------------------------
(* A connection ends: its subscriptions die with it, and the replies still *)
(* owed go to a dead outbox and to the old connection's counter.           *)
Orphan(js, c) == [i \in DOMAIN js |->
                    IF js[i].conn = c THEN [js[i] EXCEPT !.conn = Nobody] ELSE js[i]]

Disconnect(c) ==
  /\ subs[c] # [i \in Slots |-> NoSub] \/ pending[c] > 0
  /\ subs' = [subs EXCEPT ![c] = [i \in Slots |-> NoSub]]
  /\ pending' = [pending EXCEPT ![c] = 0]
  /\ queue' = Orphan(queue, c) /\ batch' = Orphan(batch, c)
  /\ UNCHANGED <<entries, total, writer, cur, wstate, commitOk, txn, disk, hard, log, history>>

(* The bytes charged to a table, one by one, and their number.             *)
ByteSet(t)  == UNION {{k} \X (1 .. BytesOf(t[k].val)) : k \in Keys}
SumBytes(t) == Cardinality(ByteSet(t))

(* The server stops and Store::open runs again. A killed process leaves    *)
(* the last commit, a power loss what was hard. The store may come back    *)
(* memory-only: empty when the database does not load, loaded when only    *)
(* the writer thread fails to start.                                       *)
Restart(left, loads, spawns) ==
  /\ "crash" \in Faults
  /\ left \in {disk, hard}
  /\ spawns => loads
  /\ disk' = left /\ hard' = left
  /\ entries' = IF loads THEN left ELSE Empty
  /\ total' = SumBytes(entries')
  /\ writer' = IF spawns THEN "up" ELSE "none"
  /\ queue' = <<>> /\ batch' = <<>> /\ cur' = 1 /\ wstate' = "idle"
  /\ commitOk' = TRUE /\ txn' = left
  /\ subs' = [c \in Conns |-> [i \in Slots |-> NoSub]]
  /\ pending' = [c \in Conns |-> 0]
  /\ log' = [n \in DOMAIN log |->
               IF log[n] # Lost /\ left[log[n]].ver < n THEN Lost ELSE log[n]]
  /\ UNCHANGED history

-----------------------------------------------------------------------------
Init ==
  /\ entries = Empty /\ total = 0 /\ writer = "up"
  /\ queue = <<>> /\ batch = <<>> /\ cur = 1 /\ wstate = "idle" /\ commitOk = TRUE
  /\ txn = Empty /\ disk = Empty /\ hard = Empty
  /\ subs = [c \in Conns |-> [i \in Slots |-> NoSub]]
  /\ pending = [c \in Conns |-> 0]
  /\ log = <<>>
  /\ okFloor = [k \in Keys |-> 0] /\ absentFloor = [k \in Keys |-> 0]

Request(c) ==
  \/ \E k \in Keys, val \in Values, base \in Values \cup {Absent, NoCas}, d \in BOOLEAN :
        Put(c, k, val, base, d)
  \/ \E k \in Keys, base \in Values \cup {NoCas}, d \in BOOLEAN : Delete(c, k, base, d)
  \/ \E k \in Keys : DeleteAbsent(c, k)
  \/ \E i \in Slots, match \in Watchable[c] : Open(c, i, match)
  \/ \E i \in Slots : Stop(c, i)
  \/ \E i \in Slots, id \in 1 .. MaxMutations + Cardinality(Keys) : Ack(c, i, id)

Snapshot(c) ==
  \E i \in Slots : \/ \E ks \in SUBSET Keys, last \in BOOLEAN : SendChunk(c, i, ks, last)
                   \/ GoLive(c, i)

WriterStep == TakeBatch \/ ApplyJob \/ Commit \/ CommitFails \/ Done \/ Echo \/ SkipJob \/ EndBatch

Crash == \E left \in {disk, hard}, loads, spawns \in BOOLEAN : Restart(left, loads, spawns)

Next ==
  \/ \E c \in Conns : Request(c) \/ Snapshot(c) \/ Disconnect(c)
  \/ WriterStep
  \/ Harden
  \/ Crash

Spec == Init /\ [][Next]_vars

(* The writer thread and the connection tasks are scheduled; clients, the  *)
(* disk's own pace and crashes are not.                                    *)
Fairness == WF_vars(WriterStep) /\ \A c \in Conns : WF_vars(Snapshot(c))

LiveSpec == Spec /\ Fairness

-----------------------------------------------------------------------------
SubType ==
  [phase : {"none", "snap", "live", "closed"}, match : SUBSET Keys, snap : Table,
   rem : SUBSET Keys, ended : BOOLEAN, queued : Seq(Update), sent : Nat, floor : Nat,
   shown : Table]

(* Every variable has the type of the field it stands for in kv.rs.        *)
TypeOK ==
  /\ entries \in Table /\ total \in Int /\ writer \in {"up", "none"}
  /\ queue \in Seq(Job) /\ batch \in Seq(Job) /\ cur \in Nat \ {0}
  /\ wstate \in {"idle", "txn", "reply", "echo"} /\ commitOk \in BOOLEAN
  /\ txn \in Table /\ disk \in Table /\ hard \in Table
  /\ subs \in [Conns -> [Slots -> SubType]]
  /\ pending \in [Conns -> Int]
  /\ log \in Seq(Keys \cup {Lost})
  /\ okFloor \in [Keys -> Nat] /\ absentFloor \in [Keys -> Nat]

(* The jobs of the batch whose KV_DONE and echo are still to come.         *)
Owed == IF wstate = "txn" THEN DOMAIN batch ELSE cur .. Len(batch)

(* kv.rs charges every put and delete to total_bytes by difference, over   *)
(* overwrites, removals and the load after a restart: the running total is *)
(* the bytes of the entries, or BUDGET refusals are wrong for ever after.  *)
TotalIsExact == total = SumBytes(entries)

(* A live watch that has applied what it was sent holds the store's        *)
(* current entry for every key of its prefix, unless a DURABLE mutation of *)
(* that key still owes its echo: nothing falls between the snapshot that   *)
(* is encoded off the lock and the updates queued behind it.               *)
Visible(e) == IF e.val = Absent THEN NoEntry ELSE e

UnechoedKeys == {queue[i].key : i \in {j \in DOMAIN queue : queue[j].durable}}
           \cup {batch[i].key : i \in {j \in Owed : batch[j].durable}}

WatchTracksStore ==
  \A c \in Conns, i \in Slots : subs[c][i].phase = "live" =>
    \A k \in subs[c][i].match \ UnechoedKeys :
      Visible(subs[c][i].shown[k]) = Visible(entries[k])

(* KV_DONE{OK} for a DURABLE put or delete: what it wrote, or a later      *)
(* mutation of the key, is on the disk after any crash.                    *)
DurableOkSurvives == \A k \in Keys : okFloor[k] <= hard[k].ver

(* "A DURABLE put's fsynced commit covers every mutation ordered before it *)
(* and crash durability stays prefix-consistent with the mutation order"   *)
(* (kv.rs:8-11): if a mutation is on the disk, so is every earlier one     *)
(* that no crash took back.                                                *)
PrefixConsistent ==
  \A k \in Keys : \A n \in 1 .. hard[k].ver :
    n \in DOMAIN log /\ log[n] # Lost => n <= hard[log[n]].ver

(* DURABLE is "fsync before replying" (docs/design/kv.md): an OK for the   *)
(* durable delete of a key found absent survives a crash as well.          *)
DurableDeleteSurvives == \A k \in Keys : absentFloor[k] <= hard[k].ver

(* "KV_DONE precedes the writer's own echo on the wire, so the client      *)
(* records the outcome before the update lands" (kv.rs, KV_PUT): a live    *)
(* watch is never sent its own connection's DURABLE mutation first.        *)
Undone(c) == {queue[i].entry.ver : i \in {j \in DOMAIN queue : queue[j].conn = c}}
        \cup {batch[i].entry.ver : i \in {j \in Owed : batch[j].conn = c
                                            /\ ~(wstate = "echo" /\ j = cur)}}

DonePrecedesEcho ==
  [][\A c \in Conns, i \in Slots, k \in Keys :
       /\ subs[c][i].phase = "live" /\ subs'[c][i].phase = "live"
       /\ subs'[c][i].shown[k] # subs[c][i].shown[k]
       => subs'[c][i].shown[k].ver \notin Undone(c)]_vars

(* Every DURABLE request is answered, committed or not, or its connection  *)
(* is gone: the writer thread never keeps a reply.                         *)
Awaited(c, n) ==
  n \in {queue[i].entry.ver : i \in {j \in DOMAIN queue : queue[j].conn = c}}
   \cup {batch[i].entry.ver : i \in {j \in Owed : batch[j].conn = c}}

DurableAnswered ==
  \A c \in Conns, n \in 1 .. MaxMutations : Awaited(c, n) ~> ~Awaited(c, n)

(* A watch converges: a live subscription ends up showing the current      *)
(* entry of each key of its prefix, or is gone.                            *)
WatchConverges ==
  \A c \in Conns, i \in Slots, k \in Keys :
    (subs[c][i].phase = "live" /\ k \in subs[c][i].match)
      ~> \/ subs[c][i].phase # "live" \/ k \notin subs[c][i].match
         \/ Visible(subs[c][i].shown[k]) = Visible(entries[k])
=============================================================================
