---------------------------- MODULE KvStoreProofs ----------------------------
(* Proofs about KvStore, for every value of its constants.                 *)
EXTENDS KvStore, FiniteSetTheorems, SequenceTheorems, WellFoundedInduction, TLAPS

-----------------------------------------------------------------------------
(* A non-empty set of positions has a last one.                            *)
LEMMA LargestExists ==
  ASSUME NEW n \in Nat, NEW S \in SUBSET (1 .. n), S # {}
  PROVE  \E x \in S : \A y \in S : y <= x
<1> DEFINE T == {n - x : x \in S}
<1>1. T \subseteq Nat /\ T # {}
  <2>1. \A x \in S : x \in 1 .. n
    OBVIOUS
  <2>2. \A x \in S : n - x \in Nat
    BY <2>1
  <2>3. PICK x \in S : TRUE
    OBVIOUS
  <2> QED BY <2>2, <2>3
<1>2. PICK t \in T : \A u \in T : ~ (<<u, t>> \in OpToRel(<, Nat))
  BY <1>1, NatLessThanWellFounded, WFMin
<1>3. PICK x \in S : t = n - x
  OBVIOUS
<1>4. \A y \in S : y <= x
  <2> SUFFICES ASSUME NEW y \in S PROVE y <= x
    OBVIOUS
  <2>1. n - y \in T /\ n - y \in Nat /\ n - x \in Nat
    OBVIOUS
  <2>2. ~ (<<n - y, n - x>> \in OpToRel(<, Nat))
    BY <1>2, <1>3, <2>1
  <2>3. ~ (n - y < n - x)
    BY <2>1, <2>2 DEF OpToRel
  <2> QED BY <2>3
<1> QED BY <1>4

(* What the assumption on the constants says of the numbers.               *)
LEMMA Budgets ==
  /\ MaxEntries \in Nat /\ TotalMax \in Nat /\ MaxInflight \in Nat
  /\ UnackedMax \in Nat /\ MaxMutations \in Nat
BY KvAssumption DEF KvAssumption

-----------------------------------------------------------------------------
(* Types.                                                                  *)

(* A key that is in no map, and the empty map, have the types the others   *)
(* have.                                                                   *)
LEMMA NoEntryType == NoEntry \in Entry /\ Empty \in Table
<1>1. NoEntry \in Entry
  BY Budgets DEF NoEntry, Entry, Vers
<1> QED BY <1>1 DEF Empty, Table

(* A subscription never retains more than the unacked budget: what makes   *)
(* the room that go_live computes a natural number.                        *)
SubOK == {s \in SubType : s.floor <= s.sent /\ s.sent - s.floor <= UnackedMax}
SubsOK == [Conns -> [Slots -> SubOK]]

(* A slot nobody opened is a subscription with nothing of a snapshot left. *)
LEMMA NoSubType == NoSub \in SubOK
<1>1. NoSub \in SubType
  BY NoEntryType, EmptySeq DEF NoSub, SubType
<1> QED BY <1>1, Budgets DEF NoSub, SubOK

(* KvSub::send keeps a subscription's type, at the unacked limit too.      *)
LEMMA SendType ==
  ASSUME NEW s \in SubOK, NEW ks \in SUBSET Keys, NEW es \in [ks -> Entry]
  PROVE  Send(s, es) \in SubOK
<1> DEFINE sh == [k \in Keys |-> IF k \in DOMAIN es THEN es[k] ELSE s.shown[k]]
<1>1. sh \in Table
  BY DEF SubOK, SubType, Table
<1>2. s \in SubType /\ s.sent \in Nat /\ s.floor \in Nat /\ s.sent + 1 \in Nat
  BY DEF SubOK, SubType
<1>3. CASE s.sent - s.floor + 1 > UnackedMax
  <2>1. Send(s, es) = [s EXCEPT !.phase = "closed"]
    BY <1>3 DEF Send
  <2>2. Send(s, es) \in SubType
    BY <1>2, <2>1 DEF SubType
  <2>3. Send(s, es).sent = s.sent /\ Send(s, es).floor = s.floor
    BY <1>2, <2>1 DEF SubType
  <2>4. s.floor <= s.sent /\ s.sent - s.floor <= UnackedMax
    BY DEF SubOK
  <2>5. Send(s, es).floor <= Send(s, es).sent
        /\ Send(s, es).sent - Send(s, es).floor <= UnackedMax
    BY <2>3, <2>4
  <2> QED BY <2>2, <2>5 DEF SubOK
<1>4. CASE ~(s.sent - s.floor + 1 > UnackedMax)
  <2>1. Send(s, es) = [s EXCEPT !.sent = s.sent + 1, !.shown = sh]
    BY <1>4 DEF Send
  <2>2. Send(s, es) \in SubType
    BY <1>1, <1>2, <2>1 DEF SubType
  <2>3. Send(s, es).sent = s.sent + 1 /\ Send(s, es).floor = s.floor
    BY <1>2, <2>1 DEF SubType
  <2>4. s.floor <= s.sent + 1 /\ s.sent + 1 - s.floor <= UnackedMax
    BY <1>2, <1>4, Budgets DEF SubOK
  <2>5. Send(s, es).floor <= Send(s, es).sent
        /\ Send(s, es).sent - Send(s, es).floor <= UnackedMax
    BY <1>2, <2>3, <2>4
  <2> QED BY <2>2, <2>5 DEF SubOK
<1> QED BY <1>3, <1>4

(* KvSub::deliver keeps a subscription's type: queued, sent or ignored.    *)
LEMMA DeliverType ==
  ASSUME NEW s \in SubOK, NEW k \in Keys, NEW e \in Entry
  PROVE  Deliver(s, k, e) \in SubOK
<1>1. One(k, e) \in [{k} -> Entry]
  BY DEF One
<1>2. CASE s.phase = "snap"
  <2>1. Append(s.queued, [key |-> k, entry |-> e]) \in Seq(Update)
    BY DEF SubOK, SubType, Update
  <2> QED BY <1>2, <2>1 DEF Deliver, SubOK, SubType
<1>3. CASE s.phase = "live"
  <2>1. Send(s, One(k, e)) \in SubOK
    BY <1>1, SendType
  <2> QED BY <1>3, <2>1 DEF Deliver
<1>4. CASE s.phase # "snap" /\ s.phase # "live"
  BY <1>4 DEF Deliver
<1> QED BY <1>2, <1>3, <1>4

(* Store::broadcast keeps the type of every connection's subscriptions.    *)
LEMMA BroadcastType ==
  ASSUME subs \in SubsOK, NEW k \in Keys, NEW e \in Entry, Broadcast(k, e)
  PROVE  subs' \in SubsOK
BY DeliverType DEF Broadcast, SubsOK

(* KvSub::go_live keeps a subscription's type: the last queued update of a *)
(* key exists whenever the key was queued, and no more is flushed than was *)
(* queued.                                                                 *)
LEMMA FlushType ==
  ASSUME NEW s \in SubOK
  PROVE  Flush(s) \in SubOK
<1> DEFINE room == UnackedMax - (s.sent - s.floor)
           n == IF room < Len(s.queued) THEN room ELSE Len(s.queued)
           Of(k) == {j \in 1 .. n : s.queued[j].key = k}
           Last(k) == CHOOSE j \in Of(k) : \A m \in Of(k) : m <= j
           sh == [k \in Keys |-> IF Of(k) = {} THEN s.shown[k] ELSE s.queued[Last(k)].entry]
<1>1. /\ s \in SubType /\ s.sent \in Nat /\ s.floor \in Nat /\ s.floor <= s.sent
      /\ s.sent - s.floor <= UnackedMax
      /\ Len(s.queued) \in Nat /\ \A j \in 1 .. Len(s.queued) : s.queued[j] \in Update
  BY DEF SubOK, SubType
<1>2. n \in Nat /\ n <= Len(s.queued) /\ n <= room /\ room \in Nat
  BY <1>1, Budgets
<1>3. ASSUME NEW k \in Keys, Of(k) # {}
      PROVE  s.queued[Last(k)].entry \in Entry
  <2>1. Of(k) \subseteq 1 .. Len(s.queued)
    BY <1>1, <1>2
  <2> HIDE DEF Of, n
  <2>2. \E x \in Of(k) : \A y \in Of(k) : y <= x
    BY <1>1, <1>3, <2>1, LargestExists
  <2>3. Last(k) \in Of(k)
    BY <2>2
  <2>4. s.queued[Last(k)] \in Update
    BY <1>1, <2>1, <2>3
  <2> QED BY <2>4 DEF Update
<1>4. sh \in Table
  BY <1>1, <1>3 DEF Table, SubType
<1> DEFINE ph == IF n < Len(s.queued) THEN "closed" ELSE "live"
<1>5. /\ ph \in {"closed", "live"}
      /\ Flush(s) = [s EXCEPT !.phase = ph, !.queued = <<>>, !.sent = s.sent + n,
                              !.shown = sh]
  BY DEF Flush
<1>6. s.sent + n \in Nat /\ s.floor <= s.sent + n /\ s.sent + n - s.floor <= UnackedMax
  BY <1>1, <1>2, Budgets, SMTT(30)
<1> HIDE DEF sh, n, room, ph
<1>7. Flush(s) \in SubType
  BY <1>1, <1>4, <1>5, <1>6, EmptySeq, ZenonT(60) DEF SubType
<1>8. Flush(s).sent = s.sent + n /\ Flush(s).floor = s.floor
  BY <1>1, <1>5 DEF SubType
<1>9. Flush(s).floor <= Flush(s).sent /\ Flush(s).sent - Flush(s).floor <= UnackedMax
  BY <1>1, <1>2, <1>6, <1>8
<1> QED BY <1>7, <1>9 DEF SubOK

(* The bytes charged to a table are finitely many, so their sum is a       *)
(* number.                                                                 *)
LEMMA ByteSetFinite ==
  ASSUME NEW t \in Table
  PROVE  IsFiniteSet(ByteSet(t)) /\ SumBytes(t) \in Nat
<1> DEFINE Parts == {{k} \X (1 .. BytesOf(t[k].val)) : k \in Keys}
<1>1. \A v \in Values \cup {Absent} : BytesOf(v) \in Nat
  BY KvAssumption DEF KvAssumption, BytesOf
<1>2. \A k \in Keys : IsFiniteSet({k} \X (1 .. BytesOf(t[k].val)))
  <2> SUFFICES ASSUME NEW k \in Keys
               PROVE  IsFiniteSet({k} \X (1 .. BytesOf(t[k].val)))
    OBVIOUS
  <2>1. BytesOf(t[k].val) \in Nat
    BY <1>1 DEF Table, Entry
  <2>2. IsFiniteSet(1 .. BytesOf(t[k].val))
    BY <2>1, FS_Interval
  <2> QED BY <2>2, FS_Singleton, FS_Product
<1>3. IsFiniteSet(Parts)
  <2>1. IsFiniteSet(Keys)
    BY KvAssumption DEF KvAssumption
  <2> DEFINE f == [k \in Keys |-> {k} \X (1 .. BytesOf(t[k].val))]
  <2>2. f \in Surjection(Keys, Parts)
    BY DEF Surjection
  <2> QED BY <2>1, <2>2, FS_Surjection
<1>4. IsFiniteSet(ByteSet(t))
  BY <1>2, <1>3, FS_UNION DEF ByteSet
<1> QED BY <1>4, FS_CardinalityType DEF SumBytes

(* The bytes of all keys but one, and the sum that is left when an entry   *)
(* is replaced: the arithmetic of the running total.                       *)
Others(t, k) == UNION {{h} \X (1 .. BytesOf(t[h].val)) : h \in Keys \ {k}}

(* The bytes of a table are those of one key and those of the others.      *)
LEMMA SumSplit ==
  ASSUME NEW t \in Table, NEW k \in Keys
  PROVE  SumBytes(t) = Cardinality(Others(t, k)) + BytesOf(t[k].val)
<1> DEFINE own == {k} \X (1 .. BytesOf(t[k].val))
<1>1. BytesOf(t[k].val) \in Nat
  BY KvAssumption DEF KvAssumption, BytesOf, Table, Entry
<1>2. ByteSet(t) = Others(t, k) \cup own
  BY DEF ByteSet, Others
<1>3. Others(t, k) \cap own = {}
  BY DEF Others
<1>4. IsFiniteSet(Others(t, k))
  BY <1>2, ByteSetFinite, FS_Subset
<1>5. IsFiniteSet(own) /\ Cardinality(own) = BytesOf(t[k].val)
  <2>1. IsFiniteSet(1 .. BytesOf(t[k].val)) /\ Cardinality(1 .. BytesOf(t[k].val)) = BytesOf(t[k].val)
    BY <1>1, FS_Interval
  <2>2. IsFiniteSet({k}) /\ Cardinality({k}) = 1
    BY FS_Singleton
  <2>3. IsFiniteSet(own) /\ Cardinality(own) = 1 * BytesOf(t[k].val)
    BY <2>1, <2>2, FS_Product, ZenonT(60)
  <2> QED BY <1>1, <2>3
<1> HIDE DEF own
<1>6. Cardinality(Others(t, k) \cup own)
        = Cardinality(Others(t, k)) + Cardinality(own) - Cardinality(Others(t, k) \cap own)
  BY <1>4, <1>5, FS_Union
<1>7. Cardinality(Others(t, k)) \in Nat /\ Cardinality({}) = 0
  BY <1>4, FS_CardinalityType, FS_EmptySet
<1> QED BY <1>1, <1>2, <1>3, <1>5, <1>6, <1>7 DEF SumBytes

(* Replacing one entry changes the sum by the difference the code adds.    *)
LEMMA SumChange ==
  ASSUME NEW t \in Table, NEW u \in Table, NEW k \in Keys,
         \A h \in Keys \ {k} : u[h] = t[h]
  PROVE  SumBytes(u) = SumBytes(t) - BytesOf(t[k].val) + BytesOf(u[k].val)
<1>1. Others(u, k) = Others(t, k)
  BY DEF Others
<1>2. \A v \in Values \cup {Absent} : BytesOf(v) \in Nat
  BY KvAssumption DEF KvAssumption, BytesOf
<1>3. BytesOf(t[k].val) \in Nat /\ BytesOf(u[k].val) \in Nat
  BY <1>2 DEF Table, Entry
<1>4. /\ SumBytes(t) = Cardinality(Others(t, k)) + BytesOf(t[k].val)
      /\ SumBytes(u) = Cardinality(Others(t, k)) + BytesOf(u[k].val)
  BY <1>1, SumSplit
<1>5. SumBytes(t) \in Nat /\ SumBytes(u) \in Nat
  BY ByteSetFinite
<1>6. Cardinality(Others(t, k)) \in Nat
  <2>1. Others(t, k) \subseteq ByteSet(t)
    BY DEF Others, ByteSet
  <2> QED BY <2>1, ByteSetFinite, FS_Subset, FS_CardinalityType
<1> QED BY <1>3, <1>4, <1>5, <1>6

(* A disconnection takes a job's reply away and nothing else of the job.   *)
LEMMA OrphanType ==
  ASSUME NEW js \in Seq(Job), NEW c \in Conns
  PROVE  /\ Orphan(js, c) \in Seq(Job) /\ Len(Orphan(js, c)) = Len(js)
         /\ \A i \in 1 .. Len(js) :
              /\ Orphan(js, c)[i].key = js[i].key /\ Orphan(js, c)[i].entry = js[i].entry
              /\ Orphan(js, c)[i].durable = js[i].durable
<1> DEFINE o == [i \in 1 .. Len(js) |->
                   IF js[i].conn = c THEN [js[i] EXCEPT !.conn = Nobody] ELSE js[i]]
<1>1. Orphan(js, c) = o
  BY DEF Orphan
<1>2. ASSUME NEW i \in 1 .. Len(js)
      PROVE  o[i] \in Job /\ o[i].key = js[i].key /\ o[i].entry = js[i].entry
             /\ o[i].durable = js[i].durable
  <2>1. js[i] \in Job
    OBVIOUS
  <2> QED BY <2>1 DEF Job
<1>3. o \in Seq(Job) /\ Len(o) = Len(js)
  BY <1>2
<1> QED BY <1>1, <1>2, <1>3

-----------------------------------------------------------------------------
(* The type invariant is inductive together with two facts: the budget of  *)
(* every subscription, and that an echo has a job to announce.             *)
EchoHasJob == wstate = "echo" => cur <= Len(batch)

TypeInv == TypeOK /\ subs \in SubsOK /\ EchoHasJob

(* The empty store has the types.                                          *)
LEMMA TypeInit == Init => TypeInv
BY NoEntryType, NoSubType, EmptySeq
   DEF Init, TypeInv, TypeOK, SubsOK, SubOK, EchoHasJob

(* The locked part of KV_PUT keeps the types.                              *)
LEMMA MutateType ==
  ASSUME TypeInv, NEW c \in Conns, NEW k \in Keys, NEW val \in Values \cup {Absent},
         NEW durable \in BOOLEAN, Mutate(c, k, val, durable)
  PROVE  TypeInv'
<1> DEFINE e == [val |-> val, ver |-> Len(log) + 1, by |-> c]
           queued == writer = "up"
           job == [key |-> k, entry |-> e, durable |-> durable,
                   conn |-> IF durable THEN c ELSE Nobody]
<1> USE DEF TypeInv, TypeOK
<1>1. e \in Entry
  BY Budgets DEF Mutate, Entry, Vers
<1>2. job \in Job
  BY <1>1 DEF Job
<1>3. entries' \in Table /\ total' \in Int
  <2>1. BytesOf(val) \in Int /\ BytesOf(entries[k].val) \in Int
    BY KvAssumption DEF KvAssumption, BytesOf, Table, Entry
  <2> QED BY <1>1, <2>1, SMTT(30) DEF Mutate, Table, Charged
<1>4. subs' \in SubsOK
  BY <1>1, BroadcastType DEF Mutate
<1>5. queue' \in Seq(Job) /\ log' \in Seq(Keys \cup {Lost}) /\ pending' \in [Conns -> Int]
  BY <1>2 DEF Mutate
<1>6. subs' \in [Conns -> [Slots -> SubType]]
  BY <1>4 DEF SubsOK, SubOK
<1> QED BY <1>3, <1>4, <1>5, <1>6 DEF Mutate, writerVars, history, EchoHasJob

(* One step per action, over the requests, the snapshots, the writer       *)
(* thread and the failures.                                                *)
LEMMA RequestType ==
  ASSUME TypeInv, NEW c \in Conns, Request(c)
  PROVE  TypeInv'
<1> USE DEF TypeInv, TypeOK
<1>1. ASSUME NEW k \in Keys, NEW val \in Values, NEW base, NEW d \in BOOLEAN,
             Put(c, k, val, base, d)
      PROVE  TypeInv'
  BY <1>1, MutateType DEF Put
<1>2. ASSUME NEW k \in Keys, NEW base, NEW d \in BOOLEAN, Delete(c, k, base, d)
      PROVE  TypeInv'
  BY <1>2, MutateType DEF Delete
<1>3. ASSUME NEW k \in Keys, DeleteAbsent(c, k)
      PROVE  TypeInv'
  BY <1>3, Budgets, SMTT(30) DEF DeleteAbsent, writerVars, Table, Entry, Vers, EchoHasJob, SubsOK
<1>4. ASSUME NEW i \in Slots, NEW match \in Watchable[c], Open(c, i, match)
      PROVE  TypeInv'
  <2>1. match \subseteq Keys
    BY KvAssumption DEF KvAssumption
  <2> DEFINE new == [NoSub EXCEPT !.phase = "snap", !.match = match, !.snap = entries,
                                  !.rem = match \cap Present(entries)]
  <2>2. new \in SubType
    BY <2>1, NoSubType DEF SubOK, SubType
  <2>3. new.floor = NoSub.floor /\ new.sent = NoSub.sent
    BY NoSubType DEF SubOK, SubType
  <2>4. new \in SubOK
    BY <2>2, <2>3, NoSubType DEF SubOK
  <2>5. Sweep(subs[c]) \in [Slots -> SubOK]
    BY NoSubType DEF Sweep, SubsOK
  <2>6. subs' \in SubsOK
    BY <1>4, <2>4, <2>5 DEF Open, SubsOK
  <2> HIDE DEF new
  <2>7. subs' \in [Conns -> [Slots -> SubType]]
    BY <2>6 DEF SubsOK, SubOK
  <2> QED BY <1>4, <2>6, <2>7 DEF Open, writerVars, history, EchoHasJob
<1>5. ASSUME NEW i \in Slots, Stop(c, i)
      PROVE  TypeInv'
  <2>1. subs' \in SubsOK
    BY <1>5, NoSubType DEF Stop, SubsOK
  <2>2. subs' \in [Conns -> [Slots -> SubType]]
    BY <2>1 DEF SubsOK, SubOK
  <2> QED BY <1>5, <2>1, <2>2 DEF Stop, writerVars, history, EchoHasJob
<1>6. ASSUME NEW i \in Slots, NEW id \in 1 .. MaxMutations + Cardinality(Keys), Ack(c, i, id)
      PROVE  TypeInv'
  <2> DEFINE s == subs[c][i]
             t == [s EXCEPT !.floor = id]
  <2>1. s \in SubType /\ s.sent \in Nat /\ s.floor \in Nat /\ s.sent - s.floor <= UnackedMax
    BY DEF SubsOK, SubOK, SubType
  <2>2. id \in Nat /\ s.floor < id /\ id <= s.sent
    <3>1. Cardinality(Keys) \in Nat
      BY KvAssumption, FS_CardinalityType DEF KvAssumption
    <3> QED BY <1>6, <3>1, Budgets DEF Ack
  <2>3. t \in SubType /\ t.sent = s.sent /\ t.floor = id
    BY <2>1, <2>2 DEF SubType
  <2>4. t.floor <= t.sent /\ t.sent - t.floor <= UnackedMax
    BY <2>1, <2>2, <2>3, Budgets, SMTT(30)
  <2>5. t \in SubOK
    BY <2>3, <2>4 DEF SubOK
  <2>6. subs' = [subs EXCEPT ![c] = [subs[c] EXCEPT ![i] = t]]
    BY <1>6 DEF Ack
  <2> HIDE DEF s, t
  <2>7. subs' \in SubsOK
    BY <2>5, <2>6 DEF SubsOK
  <2>8. subs' \in [Conns -> [Slots -> SubType]]
    BY <2>7, SMTT(30) DEF SubsOK, SubOK
  <2> QED BY <1>6, <2>7, <2>8 DEF Ack, writerVars, history, EchoHasJob
<1> QED BY <1>1, <1>2, <1>3, <1>4, <1>5, <1>6 DEF Request

(* The snapshot stream of KV_OPEN keeps the types, chunk by chunk.         *)
LEMMA SnapshotType ==
  ASSUME TypeInv, NEW c \in Conns, Snapshot(c)
  PROVE  TypeInv'
<1> USE DEF TypeInv, TypeOK
<1>1. ASSUME NEW i \in Slots, NEW ks \in SUBSET Keys, NEW last \in BOOLEAN,
             SendChunk(c, i, ks, last)
      PROVE  TypeInv'
  <2> DEFINE s == subs[c][i]
             es == [k \in ks |-> s.snap[k]]
             t == Send(s, es)
             u == [t EXCEPT !.rem = t.rem \ ks, !.ended = last]
  <2>1. s \in SubOK /\ es \in [ks -> Entry]
    BY DEF SubsOK, SubOK, SubType, Table
  <2>2. t \in SubOK
    BY <2>1, SendType
  <2>3. subs' = [subs EXCEPT ![c] = [subs[c] EXCEPT ![i] =
                   IF t.phase = "closed" THEN NoSub ELSE u]]
    BY <1>1 DEF SendChunk
  <2> HIDE DEF t
  <2>4. u \in SubType /\ u.sent = t.sent /\ u.floor = t.floor
    BY <2>2 DEF SubOK, SubType
  <2>5. u \in SubOK
    BY <2>2, <2>4 DEF SubOK
  <2> HIDE DEF u
  <2>6. subs' \in SubsOK
    BY <2>3, <2>5, NoSubType DEF SubsOK
  <2>7. subs' \in [Conns -> [Slots -> SubType]]
    BY <2>6 DEF SubsOK, SubOK
  <2> QED BY <1>1, <2>6, <2>7 DEF SendChunk, writerVars, history, EchoHasJob
<1>2. ASSUME NEW i \in Slots, GoLive(c, i)
      PROVE  TypeInv'
  <2> DEFINE t == Flush(subs[c][i])
             u == [t EXCEPT !.snap = Empty, !.ended = FALSE]
  <2>1. t \in SubOK
    BY FlushType DEF SubsOK
  <2>2. subs' = [subs EXCEPT ![c] = [subs[c] EXCEPT ![i] =
                   IF t.phase = "closed" THEN NoSub ELSE u]]
    BY <1>2 DEF GoLive
  <2> HIDE DEF t
  <2>3. u \in SubType /\ u.sent = t.sent /\ u.floor = t.floor
    BY <2>1, NoEntryType DEF SubOK, SubType
  <2>4. u \in SubOK
    BY <2>1, <2>3 DEF SubOK
  <2> HIDE DEF u
  <2>5. subs' \in SubsOK
    BY <2>2, <2>4, NoSubType DEF SubsOK
  <2>6. subs' \in [Conns -> [Slots -> SubType]]
    BY <2>5 DEF SubsOK, SubOK
  <2> QED BY <1>2, <2>5, <2>6 DEF GoLive, writerVars, history, EchoHasJob
<1> QED BY <1>1, <1>2 DEF Snapshot

(* Each step of writer_loop keeps the types: the job it is at exists.      *)
LEMMA WriterType ==
  ASSUME TypeInv, WriterStep
  PROVE  TypeInv'
<1> USE DEF TypeInv, TypeOK, EchoHasJob, SubsOK, history
<1>1. CASE TakeBatch
  BY <1>1, EmptySeq DEF TakeBatch
<1>2. CASE ApplyJob
  <2>1. batch[cur] \in Job
    BY <1>2 DEF ApplyJob
  <2>2. txn' \in Table
    BY <1>2, <2>1 DEF ApplyJob, Table, Job
  <2> QED BY <1>2, <2>2 DEF ApplyJob
<1>3. CASE Commit
  BY <1>3 DEF Commit
<1>4. CASE CommitFails
  <2>1. commitOk' \in BOOLEAN
    BY <1>4, Zenon DEF CommitFails
  <2>2. /\ cur' = 1 /\ wstate' = "reply"
        /\ UNCHANGED <<entries, total, writer, queue, batch, txn, disk, hard,
                       subs, pending, log, okFloor, absentFloor>>
    BY <1>4 DEF CommitFails
  <2> QED BY <2>1, <2>2
<1>5. CASE Done
  <2>1. batch[cur] \in Job
    BY <1>5 DEF Done
  <2>2. batch[cur].entry.ver \in Nat
    BY <2>1, Budgets DEF Job, Entry, Vers
  <2> QED BY <1>5, <2>2 DEF Done
<1>6. CASE Echo
  <2>1. batch[cur] \in Job
    BY <1>6 DEF Echo
  <2>2. batch[cur].key \in Keys /\ entries[batch[cur].key] \in Entry
    BY <2>1 DEF Job, Table
  <2>3. subs' \in SubsOK
    BY <1>6, <2>2, BroadcastType DEF Echo
  <2>4. subs' \in [Conns -> [Slots -> SubType]]
    BY <2>3 DEF SubsOK, SubOK
  <2>5. pending' \in [Conns -> Int]
    BY <1>6, <2>1 DEF Echo, Job
  <2> QED BY <1>6, <2>3, <2>4, <2>5 DEF Echo, history
<1>7. CASE SkipJob
  BY <1>7 DEF SkipJob
<1>8. CASE EndBatch
  BY <1>8, EmptySeq DEF EndBatch
<1> QED BY <1>1, <1>2, <1>3, <1>4, <1>5, <1>6, <1>7, <1>8 DEF WriterStep

(* KvSubs::shutdown keeps the types.                                       *)
LEMMA DisconnectType ==
  ASSUME TypeInv, NEW c \in Conns, Disconnect(c)
  PROVE  TypeInv'
<1> USE DEF TypeInv, TypeOK
<1>1. subs' \in SubsOK
  BY NoSubType DEF Disconnect, SubsOK
<1>2. subs' \in [Conns -> [Slots -> SubType]]
  BY <1>1 DEF SubsOK, SubOK
<1>3. queue' \in Seq(Job) /\ batch' \in Seq(Job) /\ Len(batch') = Len(batch)
  BY OrphanType DEF Disconnect
<1> QED BY <1>1, <1>2, <1>3 DEF Disconnect, history, EchoHasJob

(* Store::open on what a crash left keeps the types.                       *)
LEMMA RestartType ==
  ASSUME TypeInv, NEW left \in {disk, hard}, NEW loads \in BOOLEAN, NEW spawns \in BOOLEAN,
         Restart(left, loads, spawns)
  PROVE  TypeInv'
<1> USE DEF TypeInv, TypeOK
<1>1. left \in Table /\ entries' \in Table
  BY NoEntryType DEF Restart
<1>2. total' \in Int
  BY <1>1, ByteSetFinite DEF Restart
<1>3. subs' \in SubsOK
  BY NoSubType DEF Restart, SubsOK
<1>4. subs' \in [Conns -> [Slots -> SubType]]
  BY <1>3 DEF SubsOK, SubOK
<1>5. log' \in Seq(Keys \cup {Lost})
  <2> DEFINE new == [n \in 1 .. Len(log) |->
                       IF log[n] # Lost /\ left[log[n]].ver < n THEN Lost ELSE log[n]]
  <2>1. log' = new
    BY DEF Restart
  <2>2. \A n \in 1 .. Len(log) : new[n] \in Keys \cup {Lost}
    OBVIOUS
  <2>3. new \in Seq(Keys \cup {Lost})
    BY <2>2
  <2> QED BY <2>1, <2>3
<1> QED BY <1>1, <1>2, <1>3, <1>4, <1>5, EmptySeq DEF Restart, history, EchoHasJob

(* So does every step.                                                     *)
LEMMA TypeStep == TypeInv /\ [Next]_vars => TypeInv'
<1> SUFFICES ASSUME TypeInv, [Next]_vars PROVE TypeInv'
  OBVIOUS
<1>1. ASSUME NEW c \in Conns, Request(c) PROVE TypeInv'
  BY <1>1, RequestType
<1>2. ASSUME NEW c \in Conns, Snapshot(c) PROVE TypeInv'
  BY <1>2, SnapshotType
<1>3. ASSUME NEW c \in Conns, Disconnect(c) PROVE TypeInv'
  BY <1>3, DisconnectType
<1>4. CASE WriterStep
  BY <1>4, WriterType
<1>5. CASE Harden
  BY <1>5 DEF Harden, TypeInv, TypeOK, EchoHasJob, SubsOK, history
<1>6. CASE Crash
  BY <1>6, RestartType DEF Crash
<1>7. CASE UNCHANGED vars
  BY <1>7 DEF vars, TypeInv, TypeOK, EchoHasJob, SubsOK
<1> QED BY <1>1, <1>2, <1>3, <1>4, <1>5, <1>6, <1>7 DEF Next

(* Every variable of kv.rs keeps its type, in particular the unacked       *)
(* windows and the sequences the writer thread indexes.                    *)
THEOREM TypeCorrect == Spec => []TypeOK
<1>1. TypeInv => TypeOK
  BY DEF TypeInv
<1> QED BY <1>1, TypeInit, TypeStep, PTL DEF Spec

(* The types with what an echo needs, the job it is about.                 *)
THEOREM TypeInvariant == Spec => []TypeInv
BY TypeInit, TypeStep, PTL DEF Spec

-----------------------------------------------------------------------------
(* The running total.                                                      *)

(* A put or delete charges the difference; only a restart sums anew.       *)
LEMMA TotalStep == TypeInv /\ TypeInv' /\ TotalIsExact /\ [Next]_vars => TotalIsExact'
<1> SUFFICES ASSUME TypeInv, TypeInv', TotalIsExact, [Next]_vars PROVE TotalIsExact'
  OBVIOUS
<1>1. ASSUME NEW c \in Conns, NEW k \in Keys, NEW val, NEW d, Mutate(c, k, val, d)
      PROVE  TotalIsExact'
  <2>1. entries \in Table /\ entries' \in Table
    BY DEF TypeInv, TypeOK
  <2>2. /\ \A h \in Keys \ {k} : entries'[h] = entries[h]
        /\ entries'[k].val = val
        /\ total' = total - BytesOf(entries[k].val) + BytesOf(val)
    BY <1>1, <2>1 DEF Mutate, Charged, Table
  <2>3. SumBytes(entries') = SumBytes(entries) - BytesOf(entries[k].val) + BytesOf(entries'[k].val)
    BY <2>1, <2>2, SumChange
  <2> QED BY <2>2, <2>3 DEF TotalIsExact
<1>2. ASSUME UNCHANGED <<entries, total>> PROVE TotalIsExact'
  BY <1>2 DEF TotalIsExact
<1>3. ASSUME NEW c \in Conns, Request(c) PROVE TotalIsExact'
  <2>1. ASSUME NEW k \in Keys, NEW val, NEW base, NEW d,
               Put(c, k, val, base, d) \/ Delete(c, k, base, d)
        PROVE  TotalIsExact'
    BY <1>1, <2>1 DEF Put, Delete
  <2>2. ASSUME NEW k \in Keys, DeleteAbsent(c, k) PROVE TotalIsExact'
    BY <1>2, <2>2 DEF DeleteAbsent
  <2>3. ASSUME NEW i, NEW match, NEW id, Open(c, i, match) \/ Stop(c, i) \/ Ack(c, i, id)
        PROVE  TotalIsExact'
    BY <1>2, <2>3 DEF Open, Stop, Ack
  <2> QED BY <1>3, <2>1, <2>2, <2>3 DEF Request
<1>4. ASSUME NEW c \in Conns, Snapshot(c) \/ Disconnect(c) PROVE TotalIsExact'
  BY <1>2, <1>4 DEF Snapshot, SendChunk, GoLive, Disconnect
<1>5. CASE WriterStep
  BY <1>2, <1>5 DEF WriterStep, TakeBatch, ApplyJob, Commit, CommitFails, Done, Echo, SkipJob,
                    EndBatch
<1>6. CASE Harden
  BY <1>2, <1>6 DEF Harden
<1>7. CASE Crash
  BY <1>7 DEF Crash, Restart, TotalIsExact
<1>8. CASE UNCHANGED vars
  BY <1>2, <1>8 DEF vars
<1> QED BY <1>3, <1>4, <1>5, <1>6, <1>7, <1>8 DEF Next

(* total_bytes is exact after any number of puts, overwrites, deletes and  *)
(* restarts, so kv.rs refuses with BUDGET when the budget is exceeded and  *)
(* never because of a drift.                                               *)
THEOREM TotalExact == Spec => []TotalIsExact
<1>1. Init => TotalIsExact
  <2> SUFFICES ASSUME Init PROVE TotalIsExact
    OBVIOUS
  <2>1. ByteSet(Empty) = {}
    BY DEF ByteSet, Empty, NoEntry, BytesOf
  <2> QED BY <2>1, FS_EmptySet DEF Init, TotalIsExact, SumBytes
<1> QED BY <1>1, TypeInit, TypeStep, TotalStep, PTL DEF Spec

-----------------------------------------------------------------------------
(* Durability. Mutations are numbered in the order of the map's lock, and  *)
(* that order never turns round on its way to the disk: what is confirmed, *)
(* hard, committed, in the transaction, in the rest of the batch and in    *)
(* the queue carries ascending numbers.                                    *)
Ordered(js) == \A i, j \in 1 .. Len(js) : i < j => js[i].entry.ver < js[j].entry.ver

DiskOrder ==
  \A k \in Keys : /\ okFloor[k] <= hard[k].ver
                  /\ hard[k].ver <= disk[k].ver
                  /\ disk[k].ver <= Len(log)

QueueOrder ==
  /\ Ordered(queue)
  /\ \A j \in 1 .. Len(queue) :
       /\ queue[j].entry.ver <= Len(log)
       /\ \A k \in Keys : disk[k].ver < queue[j].entry.ver

BatchOrder ==
  /\ Ordered(batch)
  /\ \A i \in 1 .. Len(batch) :
       /\ batch[i].entry.ver <= Len(log)
       /\ \A j \in 1 .. Len(queue) : batch[i].entry.ver < queue[j].entry.ver

TxnOrder ==
  wstate = "txn" =>
    /\ \A k \in Keys :
         /\ disk[k].ver <= txn[k].ver
         /\ txn[k].ver <= Len(log)
         /\ \A j \in 1 .. Len(queue) : txn[k].ver < queue[j].entry.ver
         /\ \A i \in 1 .. Len(batch) : cur <= i => txn[k].ver < batch[i].entry.ver
    /\ \A i \in 1 .. Len(batch) : i < cur => batch[i].entry.ver <= txn[batch[i].key].ver

ReplyCovered ==
  wstate \in {"reply", "echo"} /\ commitOk =>
    \A i \in 1 .. Len(batch) :
      batch[i].durable => batch[i].entry.ver <= hard[batch[i].key].ver

WriteOrder == DiskOrder /\ QueueOrder /\ BatchOrder /\ TxnOrder /\ ReplyCovered

(* The numbers the invariant compares are natural numbers.                 *)
LEMMA VersionTypes ==
  ASSUME TypeInv
  PROVE  /\ \A k \in Keys : /\ okFloor[k] \in Nat /\ hard[k].ver \in Nat
                            /\ disk[k].ver \in Nat /\ txn[k].ver \in Nat
         /\ Len(log) \in Nat /\ Len(queue) \in Nat /\ Len(batch) \in Nat
         /\ \A j \in 1 .. Len(queue) : queue[j] \in Job /\ queue[j].entry.ver \in Nat
         /\ \A i \in 1 .. Len(batch) : /\ batch[i] \in Job /\ batch[i].entry.ver \in Nat
                                       /\ batch[i].key \in Keys
         /\ cur \in Nat \ {0}
<1>1. \A e \in Entry : e.ver \in Nat
  BY Budgets DEF Entry, Vers
<1>2. \A t \in Table, k \in Keys : t[k].ver \in Nat
  BY <1>1 DEF Table
<1>3. \A j \in Job : j.key \in Keys /\ j.entry.ver \in Nat
  BY <1>1 DEF Job
<1>4. \A k \in Keys : /\ okFloor[k] \in Nat /\ hard[k].ver \in Nat
                      /\ disk[k].ver \in Nat /\ txn[k].ver \in Nat
  BY <1>2 DEF TypeInv, TypeOK
<1>5. /\ queue \in Seq(Job) /\ batch \in Seq(Job) /\ log \in Seq(Keys \cup {Lost})
      /\ cur \in Nat \ {0}
  BY DEF TypeInv, TypeOK
<1>6. \A j \in 1 .. Len(queue) : queue[j] \in Job
  BY <1>5
<1>7. \A i \in 1 .. Len(batch) : batch[i] \in Job
  BY <1>5
<1> QED BY <1>3, <1>4, <1>5, <1>6, <1>7

(* With nothing written the numbers are in order.                          *)
LEMMA WriteOrderInit == Init => WriteOrder
BY Budgets DEF Init, WriteOrder, DiskOrder, QueueOrder, BatchOrder, TxnOrder, ReplyCovered,
               Ordered, Empty, NoEntry

(* Requests that do not touch the write path keep the order.               *)
LEMMA WriteOrderFrame ==
  ASSUME WriteOrder,
         UNCHANGED <<queue, batch, cur, wstate, commitOk, txn, disk, hard, log, okFloor>>
  PROVE  WriteOrder'
BY DEF WriteOrder, DiskOrder, QueueOrder, BatchOrder, TxnOrder, ReplyCovered, Ordered

(* KV_PUT takes the next number and the end of the queue in one critical   *)
(* section of the store lock, so what it queues is the newest.             *)
LEMMA MutateOrder ==
  ASSUME TypeInv, WriteOrder, NEW c \in Conns, NEW k \in Keys, NEW val \in Values \cup {Absent},
         NEW durable \in BOOLEAN, Mutate(c, k, val, durable)
  PROVE  WriteOrder'
<1> DEFINE n == Len(log) + 1
           job == [key |-> k, entry |-> [val |-> val, ver |-> n, by |-> c],
                   durable |-> durable, conn |-> IF durable THEN c ELSE Nobody]
<1>1. /\ queue \in Seq(Job) /\ log \in Seq(Keys \cup {Lost})
  BY DEF TypeInv, TypeOK
<1>2. /\ log' = Append(log, k) /\ queue' \in {queue, Append(queue, job)}
      /\ UNCHANGED <<batch, cur, wstate, commitOk, txn, disk, hard, okFloor>>
  BY DEF Mutate, writerVars, history
<1>3. Len(log') = n /\ Len(log) < n
  BY <1>1, <1>2
<1>4. \A j \in 1 .. Len(queue') :
        \/ j \in 1 .. Len(queue) /\ queue'[j] = queue[j]
        \/ j = Len(queue') /\ Len(queue') = Len(queue) + 1 /\ queue'[j].entry.ver = n
  <2>1. CASE queue' = queue
    BY <2>1
  <2>2. CASE queue' = Append(queue, job)
    <3> HIDE DEF n
    <3>1. job.entry.ver = n
      OBVIOUS
    <3> HIDE DEF job
    <3> QED BY <1>1, <2>2, <3>1
  <2> QED BY <1>2, <2>1, <2>2
<1> HIDE DEF job
<1>5. DiskOrder'
  BY <1>2, <1>3, VersionTypes DEF WriteOrder, DiskOrder
<1>10. Len(queue) \in Nat /\ Len(queue') \in Nat /\ Len(queue) <= Len(queue')
  BY <1>1, <1>2
<1>6. QueueOrder'
  <2>1. ASSUME NEW i \in 1 .. Len(queue'), NEW j \in 1 .. Len(queue'), i < j
        PROVE  queue'[i].entry.ver < queue'[j].entry.ver
    <3>1. i \in 1 .. Len(queue) /\ queue'[i] = queue[i]
      BY <1>4, <1>10, <2>1
    <3>2. CASE j \in 1 .. Len(queue) /\ queue'[j] = queue[j]
      BY <2>1, <3>1, <3>2 DEF WriteOrder, QueueOrder, Ordered
    <3>3. CASE queue'[j].entry.ver = n
      <4>1. queue[i].entry.ver <= Len(log)
        BY <3>1 DEF WriteOrder, QueueOrder
      <4> QED BY <3>1, <3>3, <4>1, VersionTypes
    <3> QED BY <1>4, <3>2, <3>3
  <2>2. ASSUME NEW j \in 1 .. Len(queue')
        PROVE  /\ queue'[j].entry.ver <= n
               /\ \A h \in Keys : disk[h].ver < queue'[j].entry.ver
    <3>1. CASE j \in 1 .. Len(queue) /\ queue'[j] = queue[j]
      BY <3>1, VersionTypes DEF WriteOrder, QueueOrder
    <3>2. CASE queue'[j].entry.ver = n
      BY <3>2, VersionTypes DEF WriteOrder, DiskOrder
    <3> QED BY <1>4, <3>1, <3>2
  <2> QED BY <1>2, <1>3, <2>1, <2>2 DEF QueueOrder, Ordered
<1>7. BatchOrder'
  <2>1. ASSUME NEW i \in 1 .. Len(batch), NEW j \in 1 .. Len(queue')
        PROVE  batch[i].entry.ver <= n /\ batch[i].entry.ver < queue'[j].entry.ver
    <3>1. batch[i].entry.ver < n /\ batch[i].entry.ver <= n
      <4>1. batch[i].entry.ver <= Len(log)
        BY DEF WriteOrder, BatchOrder
      <4> QED BY <4>1, VersionTypes, SMTT(30)
    <3>2. CASE j \in 1 .. Len(queue) /\ queue'[j] = queue[j]
      BY <3>1, <3>2 DEF WriteOrder, BatchOrder
    <3> QED BY <1>4, <3>1, <3>2
  <2>2. \A i \in 1 .. Len(batch) : batch[i].entry.ver <= n
    BY VersionTypes DEF WriteOrder, BatchOrder
  <2>3. Ordered(batch)'
    BY <1>2 DEF WriteOrder, BatchOrder, Ordered
  <2> HIDE DEF n
  <2> QED BY <1>2, <1>3, <2>1, <2>2, <2>3 DEF BatchOrder
<1>8. TxnOrder'
  BY <1>2, <1>3, <1>4, VersionTypes, SMTT(30) DEF WriteOrder, TxnOrder
<1>9. ReplyCovered'
  BY <1>2 DEF WriteOrder, ReplyCovered
<1> QED BY <1>5, <1>6, <1>7, <1>8, <1>9 DEF WriteOrder

(* writer_loop moves jobs towards the disk without changing their order,   *)
(* and replies after the commit of the whole batch.                        *)
LEMMA WriterOrder ==
  ASSUME TypeInv, WriteOrder, WriterStep
  PROVE  WriteOrder'
<1> USE VersionTypes DEF WriteOrder
<1>1. CASE TakeBatch
  <2>1. /\ batch' = queue /\ queue' = <<>> /\ txn' = disk /\ cur' = 1 /\ wstate' = "txn"
        /\ UNCHANGED <<commitOk, disk, hard, log, okFloor>>
    BY <1>1 DEF TakeBatch, history
  <2>2. DiskOrder' /\ QueueOrder'
    BY <2>1 DEF DiskOrder, QueueOrder, Ordered
  <2>3. BatchOrder'
    BY <2>1 DEF QueueOrder, BatchOrder, Ordered
  <2>4. TxnOrder'
    BY <2>1 DEF DiskOrder, QueueOrder, TxnOrder
  <2> QED BY <2>1, <2>2, <2>3, <2>4 DEF ReplyCovered
<1>2. CASE ApplyJob
  <2> DEFINE k0 == batch[cur].key
             e0 == batch[cur].entry
  <2>1. /\ wstate = "txn" /\ cur \in 1 .. Len(batch) /\ cur' = cur + 1
        /\ txn' = [txn EXCEPT ![k0] = e0]
        /\ UNCHANGED <<queue, batch, wstate, commitOk, disk, hard, log, okFloor>>
    BY <1>2 DEF ApplyJob, history
  <2>2. \A k \in Keys : txn'[k] = IF k = k0 THEN e0 ELSE txn[k]
    BY <2>1 DEF TypeInv, TypeOK, Table
  <2>3. DiskOrder' /\ QueueOrder' /\ BatchOrder'
    BY <2>1 DEF DiskOrder, QueueOrder, BatchOrder, Ordered
  <2>4. k0 \in Keys /\ e0.ver \in Nat
    BY <2>1
  <2>5. e0.ver <= Len(log) /\ \A j \in 1 .. Len(queue) : e0.ver < queue[j].entry.ver
    BY <2>1 DEF BatchOrder
  <2>6. \A i \in 1 .. Len(batch) : cur < i => e0.ver < batch[i].entry.ver
    BY <2>1 DEF BatchOrder, Ordered
  <2>7. \A k \in Keys : disk[k].ver <= txn'[k].ver /\ txn[k].ver <= txn'[k].ver
                        /\ txn'[k].ver <= Len(log)
    BY <2>1, <2>2, <2>4, <2>5 DEF TxnOrder
  <2>8. \A k \in Keys : \A j \in 1 .. Len(queue) : txn'[k].ver < queue[j].entry.ver
    BY <2>1, <2>2, <2>5 DEF TxnOrder
  <2>9. \A k \in Keys : \A i \in 1 .. Len(batch) : cur < i => txn'[k].ver < batch[i].entry.ver
    BY <2>1, <2>2, <2>6 DEF TxnOrder
  <2>10. \A i \in 1 .. Len(batch) : i <= cur => batch[i].entry.ver <= txn'[batch[i].key].ver
    <3> SUFFICES ASSUME NEW i \in 1 .. Len(batch), i <= cur
                 PROVE  batch[i].entry.ver <= txn'[batch[i].key].ver
      OBVIOUS
    <3>1. CASE i = cur
      BY <2>2, <2>4, <3>1
    <3>2. CASE i < cur
      <4>1. batch[i].entry.ver <= txn[batch[i].key].ver
        BY <2>1, <3>2 DEF TxnOrder
      <4>2. txn[batch[i].key].ver <= txn'[batch[i].key].ver
        BY <2>7
      <4>3. txn'[batch[i].key].ver \in Nat
        BY <2>2, <2>4
      <4> QED BY <4>1, <4>2, <4>3
    <3> QED BY <2>1, <3>1, <3>2
  <2>11. TxnOrder'
    BY <2>1, <2>7, <2>8, <2>9, <2>10 DEF TxnOrder
  <2>12. ReplyCovered'
    BY <2>1 DEF ReplyCovered
  <2> QED BY <2>3, <2>11, <2>12
<1>3. CASE Commit
  <2>1. /\ wstate = "txn" /\ cur > Len(batch) /\ disk' = txn /\ wstate' = "reply"
        /\ hard' = IF Immediate THEN txn ELSE hard
        /\ UNCHANGED <<queue, batch, log, okFloor>>
    BY <1>3 DEF Commit, history
  <2>2. DiskOrder'
    BY <2>1 DEF DiskOrder, TxnOrder
  <2>3. QueueOrder' /\ BatchOrder'
    BY <2>1 DEF QueueOrder, BatchOrder, TxnOrder, Ordered
  <2>4. ASSUME NEW i \in 1 .. Len(batch), batch[i].durable
        PROVE  batch[i].entry.ver <= hard'[batch[i].key].ver
    <3>1. Immediate
      BY <2>4 DEF Immediate, TypeInv, TypeOK
    <3> QED BY <2>1, <3>1, SMTT(30) DEF TxnOrder
  <2>5. ReplyCovered'
    BY <2>1, <2>4 DEF ReplyCovered
  <2> QED BY <2>1, <2>2, <2>3, <2>5 DEF TxnOrder
<1>4. CASE CommitFails
  <2>1. /\ wstate' = "reply" /\ ~commitOk'
        /\ UNCHANGED <<queue, batch, txn, disk, hard, log, okFloor>>
    BY <1>4 DEF CommitFails, history
  <2>2. DiskOrder' /\ QueueOrder' /\ BatchOrder'
    BY <2>1 DEF DiskOrder, QueueOrder, BatchOrder, Ordered
  <2> QED BY <2>1, <2>2 DEF TxnOrder, ReplyCovered
<1>5. CASE Done
  <2> DEFINE k0 == batch[cur].key
             n0 == batch[cur].entry.ver
  <2>1. /\ wstate = "reply" /\ cur \in 1 .. Len(batch) /\ batch[cur].durable
        /\ okFloor' = IF commitOk THEN [okFloor EXCEPT ![k0] = n0] ELSE okFloor
        /\ wstate' = "echo"
        /\ UNCHANGED <<queue, batch, cur, commitOk, txn, disk, hard, log>>
    BY <1>5 DEF Done
  <2>2. commitOk => n0 <= hard[k0].ver
    BY <2>1 DEF ReplyCovered
  <2>3. \A k \in Keys : okFloor'[k] = IF commitOk /\ k = k0 THEN n0 ELSE okFloor[k]
    BY <2>1 DEF TypeInv, TypeOK
  <2>4. DiskOrder'
    BY <2>1, <2>2, <2>3 DEF DiskOrder
  <2>5. QueueOrder' /\ BatchOrder'
    BY <2>1 DEF QueueOrder, BatchOrder, Ordered
  <2> QED BY <2>1, <2>4, <2>5 DEF TxnOrder, ReplyCovered
<1>6. CASE Echo \/ SkipJob
  <2>1. /\ wstate' = "reply" /\ wstate \in {"reply", "echo"}
        /\ UNCHANGED <<queue, batch, commitOk, txn, disk, hard, log, okFloor>>
    BY <1>6 DEF Echo, SkipJob, history
  <2>2. DiskOrder' /\ QueueOrder' /\ BatchOrder'
    BY <2>1 DEF DiskOrder, QueueOrder, BatchOrder, Ordered
  <2> QED BY <2>1, <2>2 DEF TxnOrder, ReplyCovered
<1>7. CASE EndBatch
  <2>1. /\ wstate' = "idle" /\ batch' = <<>>
        /\ UNCHANGED <<queue, txn, disk, hard, log, okFloor>>
    BY <1>7 DEF EndBatch, history
  <2>2. DiskOrder' /\ QueueOrder' /\ BatchOrder'
    BY <2>1 DEF DiskOrder, QueueOrder, BatchOrder, Ordered
  <2> QED BY <2>1, <2>2 DEF TxnOrder, ReplyCovered
<1> QED BY <1>1, <1>2, <1>3, <1>4, <1>5, <1>6, <1>7 DEF WriterStep

(* The disk hardens as a whole, so nothing confirmed is taken back.        *)
LEMMA HardenOrder ==
  ASSUME TypeInv, WriteOrder, Harden
  PROVE  WriteOrder'
<1>1. /\ hard' = disk
      /\ UNCHANGED <<queue, batch, cur, wstate, commitOk, txn, disk, log, okFloor>>
  BY DEF Harden, history
<1>2. DiskOrder'
  BY <1>1, VersionTypes DEF WriteOrder, DiskOrder
<1>3. QueueOrder' /\ BatchOrder' /\ TxnOrder'
  BY <1>1 DEF WriteOrder, QueueOrder, BatchOrder, TxnOrder, Ordered
<1>4. ReplyCovered'
  <2>1. ASSUME wstate \in {"reply", "echo"}, commitOk, NEW i \in 1 .. Len(batch), batch[i].durable
        PROVE  batch[i].entry.ver <= disk[batch[i].key].ver
    <3>1. batch[i].key \in Keys /\ batch[i].entry.ver \in Nat
      BY VersionTypes
    <3>2. /\ hard[batch[i].key].ver \in Nat /\ disk[batch[i].key].ver \in Nat
          /\ hard[batch[i].key].ver <= disk[batch[i].key].ver
      BY <3>1, VersionTypes DEF WriteOrder, DiskOrder
    <3>3. batch[i].entry.ver <= hard[batch[i].key].ver
      BY <2>1 DEF WriteOrder, ReplyCovered
    <3> QED BY <3>1, <3>2, <3>3
  <2> QED BY <1>1, <2>1 DEF ReplyCovered
<1> QED BY <1>2, <1>3, <1>4 DEF WriteOrder

(* A disconnection leaves what is written alone.                           *)
LEMMA DisconnectOrder ==
  ASSUME TypeInv, WriteOrder, NEW c \in Conns, Disconnect(c)
  PROVE  WriteOrder'
<1>1. /\ queue \in Seq(Job) /\ batch \in Seq(Job)
      /\ queue' = Orphan(queue, c) /\ batch' = Orphan(batch, c)
      /\ UNCHANGED <<cur, wstate, commitOk, txn, disk, hard, log, okFloor>>
  BY DEF Disconnect, TypeInv, TypeOK, history
<1>2. /\ Len(queue') = Len(queue)
      /\ \A j \in 1 .. Len(queue) : queue'[j].entry = queue[j].entry
  BY <1>1, OrphanType
<1>3. /\ Len(batch') = Len(batch)
      /\ \A i \in 1 .. Len(batch) : /\ batch'[i].key = batch[i].key
                                    /\ batch'[i].entry = batch[i].entry
                                    /\ batch'[i].durable = batch[i].durable
  BY <1>1, OrphanType
<1>4. DiskOrder'
  BY <1>1 DEF WriteOrder, DiskOrder
<1>5. QueueOrder'
  BY <1>1, <1>2 DEF WriteOrder, QueueOrder, Ordered
<1>6. BatchOrder'
  <2>1. Ordered(batch)'
    BY <1>1, <1>3 DEF WriteOrder, BatchOrder, Ordered
  <2> QED BY <1>1, <1>2, <1>3, <2>1, ZenonT(60) DEF WriteOrder, BatchOrder
<1>7. TxnOrder'
  <2> SUFFICES ASSUME wstate = "txn" PROVE TxnOrder'
    BY <1>1 DEF TxnOrder
  <2>1. ASSUME NEW k \in Keys
        PROVE  /\ disk'[k].ver <= txn'[k].ver /\ txn'[k].ver <= Len(log')
               /\ \A j \in 1 .. Len(queue') : txn'[k].ver < queue'[j].entry.ver
               /\ \A i \in 1 .. Len(batch') : cur' <= i => txn'[k].ver < batch'[i].entry.ver
    BY <1>1, <1>2, <1>3, SMTT(30) DEF WriteOrder, TxnOrder
  <2>2. ASSUME NEW i \in 1 .. Len(batch'), i < cur'
        PROVE  batch'[i].entry.ver <= txn'[batch'[i].key].ver
    <3>1. i \in 1 .. Len(batch) /\ i < cur
      BY <1>1, <1>3, <2>2
    <3>2. batch[i].entry.ver <= txn[batch[i].key].ver
      BY <3>1 DEF WriteOrder, TxnOrder
    <3> QED BY <1>1, <1>3, <3>1, <3>2
  <2> QED BY <2>1, <2>2 DEF TxnOrder
<1>8. ReplyCovered'
  BY <1>1, <1>3 DEF WriteOrder, ReplyCovered
<1> QED BY <1>4, <1>5, <1>6, <1>7, <1>8 DEF WriteOrder

(* A restart loses the queue, the batch and whatever was not hard.         *)
LEMMA RestartOrder ==
  ASSUME TypeInv, WriteOrder, NEW left \in {disk, hard}, NEW loads \in BOOLEAN,
         NEW spawns \in BOOLEAN, Restart(left, loads, spawns)
  PROVE  WriteOrder'
<1>1. /\ disk' = left /\ hard' = left /\ queue' = <<>> /\ batch' = <<>> /\ wstate' = "idle"
      /\ okFloor' = okFloor
  BY DEF Restart, history
<1>2. Len(log') = Len(log)
  BY DEF Restart, TypeInv, TypeOK
<1>3. DiskOrder'
  BY <1>1, <1>2, VersionTypes DEF WriteOrder, DiskOrder
<1>4. QueueOrder' /\ BatchOrder' /\ TxnOrder' /\ ReplyCovered'
  BY <1>1 DEF QueueOrder, BatchOrder, TxnOrder, ReplyCovered, Ordered
<1> QED BY <1>3, <1>4 DEF WriteOrder

(* So every step keeps the order.                                          *)
LEMMA WriteOrderStep == TypeInv /\ WriteOrder /\ [Next]_vars => WriteOrder'
<1> SUFFICES ASSUME TypeInv, WriteOrder, [Next]_vars PROVE WriteOrder'
  OBVIOUS
<1>1. ASSUME NEW c \in Conns, Request(c) PROVE WriteOrder'
  <2>1. ASSUME NEW k \in Keys, NEW val \in Values, NEW base, NEW d \in BOOLEAN,
               Put(c, k, val, base, d)
        PROVE  WriteOrder'
    BY <2>1, MutateOrder DEF Put
  <2>2. ASSUME NEW k \in Keys, NEW base, NEW d \in BOOLEAN, Delete(c, k, base, d)
        PROVE  WriteOrder'
    BY <2>2, MutateOrder DEF Delete
  <2>3. ASSUME NEW k \in Keys, DeleteAbsent(c, k)
        PROVE  WriteOrder'
    BY <2>3, WriteOrderFrame DEF DeleteAbsent, writerVars
  <2>4. ASSUME NEW i \in Slots, NEW match, NEW id,
               Open(c, i, match) \/ Stop(c, i) \/ Ack(c, i, id)
        PROVE  WriteOrder'
    BY <2>4, WriteOrderFrame, ZenonT(60) DEF Open, Stop, Ack, writerVars, history
  <2> QED BY <1>1, <2>1, <2>2, <2>3, <2>4, ZenonT(60) DEF Request
<1>2. ASSUME NEW c \in Conns, Snapshot(c) PROVE WriteOrder'
  BY <1>2, WriteOrderFrame DEF Snapshot, SendChunk, GoLive, writerVars, history
<1>3. ASSUME NEW c \in Conns, Disconnect(c) PROVE WriteOrder'
  BY <1>3, DisconnectOrder
<1>4. CASE WriterStep
  BY <1>4, WriterOrder
<1>5. CASE Harden
  BY <1>5, HardenOrder
<1>6. CASE Crash
  BY <1>6, RestartOrder DEF Crash
<1>7. CASE UNCHANGED vars
  BY <1>7, WriteOrderFrame DEF vars
<1> QED BY <1>1, <1>2, <1>3, <1>4, <1>5, <1>6, <1>7 DEF Next

(* A DURABLE put or delete that was answered OK is on the disk whatever    *)
(* power loss or process kill follows, and whatever commit fails later.    *)
THEOREM DurableSurvives == Spec => []DurableOkSurvives
<1>1. TypeInv /\ WriteOrder => DurableOkSurvives
  BY DEF WriteOrder, DiskOrder, DurableOkSurvives
<1> QED BY <1>1, TypeInit, TypeStep, WriteOrderInit, WriteOrderStep, PTL DEF Spec

-----------------------------------------------------------------------------
(* Prefix consistency, as long as no commit fails. A mutation that no      *)
(* crash took back is on the disk, or it waits in the queue, or it is in   *)
(* the open transaction; only a memory-only store never queues it.         *)
Prefix(t) == \A k \in Keys : \A n \in 1 .. t[k].ver : log[n] # Lost => n <= t[log[n]].ver

Waits(js, n) == \E j \in 1 .. Len(js) : js[j].key = log[n] /\ js[j].entry.ver = n

Placed ==
  \A n \in 1 .. Len(log) : log[n] # Lost =>
    \/ n <= disk[log[n]].ver
    \/ Waits(queue, n)
    \/ wstate = "txn" /\ Waits(batch, n)
    \/ writer = "none" /\ \A k \in Keys : disk[k].ver < n

MemoryOnly == writer = "none" => queue = <<>> /\ wstate = "idle"

PrefixInv == Prefix(hard) /\ Prefix(disk) /\ Placed /\ MemoryOnly

(* Steps that move nothing towards the disk.                               *)
LEMMA PrefixFrame ==
  ASSUME PrefixInv, UNCHANGED <<queue, disk, hard, log, writer>>,
         wstate = "txn" => wstate' = "txn" /\ batch' = batch,
         wstate = "idle" => wstate' = "idle"
  PROVE  PrefixInv'
<1>1. Prefix(hard)' /\ Prefix(disk)' /\ MemoryOnly'
  BY DEF PrefixInv, Prefix, MemoryOnly
<1>2. Placed'
  <2>1. ASSUME NEW n \in 1 .. Len(log) PROVE Waits(queue, n)' <=> Waits(queue, n)
    BY DEF Waits
  <2>2. ASSUME NEW n \in 1 .. Len(log), wstate = "txn" PROVE Waits(batch, n)' <=> Waits(batch, n)
    BY <2>2 DEF Waits
  <2> QED BY <2>1, <2>2 DEF PrefixInv, Placed
<1> QED BY <1>1, <1>2 DEF PrefixInv

(* KV_PUT: the new mutation is queued under the lock that numbered it, or  *)
(* the store is memory-only and its number is beyond the disk's.           *)
LEMMA MutatePrefix ==
  ASSUME TypeInv, WriteOrder, PrefixInv, NEW c \in Conns, NEW k \in Keys,
         NEW val \in Values \cup {Absent}, NEW durable \in BOOLEAN, Mutate(c, k, val, durable)
  PROVE  PrefixInv'
<1> DEFINE new == Len(log) + 1
           job == [key |-> k, entry |-> [val |-> val, ver |-> new, by |-> c],
                   durable |-> durable, conn |-> IF durable THEN c ELSE Nobody]
<1>1. /\ queue \in Seq(Job) /\ log \in Seq(Keys \cup {Lost}) /\ writer \in {"up", "none"}
      /\ Len(log) \in Nat /\ Len(queue) \in Nat
  BY VersionTypes DEF TypeInv, TypeOK
<1>2. /\ log' = Append(log, k)
      /\ queue' = IF writer = "up" THEN Append(queue, job) ELSE queue
      /\ UNCHANGED <<batch, wstate, disk, hard, writer>>
  BY DEF Mutate, writerVars, history
<1>3. Len(log') = new /\ log'[new] = k /\ \A n \in 1 .. Len(log) : log'[n] = log[n]
  BY <1>1, <1>2
<1>4. \A j \in 1 .. Len(queue) : j \in 1 .. Len(queue') /\ queue'[j] = queue[j]
  <2> HIDE DEF job
  <2> QED BY <1>1, <1>2
<1>5. writer = "up" => \E j \in 1 .. Len(queue') : queue'[j].key = k /\ queue'[j].entry.ver = new
  <2> HIDE DEF new
  <2>1. job.key = k /\ job.entry.ver = new
    OBVIOUS
  <2> HIDE DEF job
  <2>2. writer = "up" => Len(queue) + 1 \in 1 .. Len(queue') /\ queue'[Len(queue) + 1] = job
    BY <1>1, <1>2
  <2> QED BY <2>1, <2>2
<1>6. \A h \in Keys : disk[h].ver < new /\ hard[h].ver < new
  BY VersionTypes DEF WriteOrder, DiskOrder
<1>7. Prefix(disk)' /\ Prefix(hard)'
  <2>1. \A h \in Keys : \A n \in 1 .. disk[h].ver : n \in 1 .. Len(log)
    BY VersionTypes DEF WriteOrder, DiskOrder
  <2>2. \A h \in Keys : \A n \in 1 .. hard[h].ver : n \in 1 .. Len(log)
    BY VersionTypes, SMTT(30) DEF WriteOrder, DiskOrder
  <2>3. Prefix(disk)'
    BY <1>2, <1>3, <2>1 DEF PrefixInv, Prefix
  <2>4. Prefix(hard)'
    BY <1>2, <1>3, <2>2 DEF PrefixInv, Prefix
  <2> QED BY <2>3, <2>4
<1>8. Placed'
  <2> SUFFICES ASSUME NEW n \in 1 .. Len(log'), log'[n] # Lost
               PROVE  \/ n <= disk'[log'[n]].ver
                      \/ Waits(queue, n)'
                      \/ wstate' = "txn" /\ Waits(batch, n)'
                      \/ writer' = "none" /\ \A h \in Keys : disk'[h].ver < n
    BY DEF Placed
  <2>1. CASE n \in 1 .. Len(log)
    <3>1. log'[n] = log[n] /\ log[n] # Lost
      BY <1>3, <2>1
    <3>2. Waits(queue, n) => Waits(queue, n)'
      BY <1>4, <3>1 DEF Waits
    <3>3. Waits(batch, n) => Waits(batch, n)'
      BY <1>2, <3>1 DEF Waits
    <3> QED BY <1>2, <2>1, <3>1, <3>2, <3>3 DEF PrefixInv, Placed
  <2>2. CASE n = new
    <3>1. CASE writer = "up"
      BY <1>3, <1>5, <2>2, <3>1 DEF Waits
    <3>2. CASE writer = "none"
      BY <1>2, <1>6, <2>2, <3>2
    <3> QED BY <1>1, <3>1, <3>2
  <2>3. n \in 1 .. Len(log) \/ n = new
    BY <1>1, <1>3
  <2> QED BY <2>1, <2>2, <2>3
<1>9. MemoryOnly'
  BY <1>2 DEF PrefixInv, MemoryOnly
<1> QED BY <1>7, <1>8, <1>9 DEF PrefixInv

(* writer_loop: a whole queue becomes a transaction, and a transaction     *)
(* that commits leaves out nothing that is older than what it contains.    *)
LEMMA WriterPrefix ==
  ASSUME TypeInv, WriteOrder, PrefixInv, "commit" \notin Faults, WriterStep
  PROVE  PrefixInv'
<1>1. CASE TakeBatch
  <2>1. /\ wstate = "idle" /\ queue # <<>> /\ batch' = queue /\ wstate' = "txn"
        /\ UNCHANGED <<disk, hard, log, writer>>
    BY <1>1 DEF TakeBatch, history
  <2>2. Prefix(hard)' /\ Prefix(disk)'
    BY <2>1 DEF PrefixInv, Prefix
  <2>3. \A n \in 1 .. Len(log) : Waits(queue, n) => Waits(batch, n)'
    BY <2>1 DEF Waits
  <2>4. Placed'
    BY <2>1, <2>3 DEF PrefixInv, Placed
  <2>5. MemoryOnly'
    BY <2>1 DEF PrefixInv, MemoryOnly
  <2> QED BY <2>2, <2>4, <2>5 DEF PrefixInv
<1>2. CASE Commit
  <2>1. /\ wstate = "txn" /\ cur > Len(batch) /\ disk' = txn /\ wstate' = "reply"
        /\ hard' = IF Immediate THEN txn ELSE hard
        /\ UNCHANGED <<queue, batch, log, writer>>
    BY <1>2 DEF Commit, history
  <2>2. writer # "none"
    BY <2>1 DEF PrefixInv, MemoryOnly
  <2>3. \A k \in Keys : disk[k].ver <= txn[k].ver /\ txn[k].ver <= Len(log)
    BY <2>1 DEF WriteOrder, TxnOrder
  <2>4. \A n \in 1 .. Len(log) : log[n] # Lost => log[n] \in Keys
    BY DEF TypeInv, TypeOK
  <2>5. ASSUME NEW n \in 1 .. Len(log), log[n] # Lost, ~ Waits(queue, n)
        PROVE  n <= txn[log[n]].ver
    <3>1. CASE n <= disk[log[n]].ver
      BY <2>3, <2>4, <2>5, <3>1, VersionTypes
    <3>2. CASE Waits(batch, n)
      <4>1. PICK i \in 1 .. Len(batch) : batch[i].key = log[n] /\ batch[i].entry.ver = n
        BY <3>2 DEF Waits
      <4>2. i < cur
        BY <2>1, <4>1, VersionTypes
      <4> QED BY <2>1, <4>1, <4>2 DEF WriteOrder, TxnOrder
    <3> QED BY <2>1, <2>2, <2>5, <3>1, <3>2 DEF PrefixInv, Placed
  <2>6. ASSUME NEW k \in Keys, NEW n \in 1 .. txn[k].ver PROVE ~ Waits(queue, n)
    <3> SUFFICES ASSUME NEW j \in 1 .. Len(queue), queue[j].entry.ver = n PROVE FALSE
      BY DEF Waits
    <3>1. txn[k].ver < n
      BY <2>1 DEF WriteOrder, TxnOrder
    <3> QED BY <3>1, VersionTypes
  <2>7. ASSUME NEW k \in Keys, NEW n \in 1 .. txn[k].ver, log[n] # Lost
        PROVE  n <= txn[log[n]].ver
    <3>1. n \in 1 .. Len(log)
      BY <2>3, VersionTypes
    <3> QED BY <2>5, <2>6, <2>7, <3>1
  <2>8. Prefix(disk)' /\ Prefix(hard)'
    <3>1. Prefix(disk)'
      BY <2>1, <2>7 DEF Prefix
    <3>2. Immediate => Prefix(hard)'
      BY <2>1, <2>7 DEF Prefix
    <3>3. ~ Immediate => Prefix(hard)'
      BY <2>1 DEF PrefixInv, Prefix
    <3> HIDE DEF Prefix, Immediate
    <3> QED BY <3>1, <3>2, <3>3
  <2>9. Placed'
    <3>1. \A n \in 1 .. Len(log) : Waits(queue, n) => Waits(queue, n)'
      BY <2>1 DEF Waits
    <3> QED BY <2>1, <2>5, <3>1 DEF Placed
  <2>10. MemoryOnly'
    BY <2>1, <2>2 DEF MemoryOnly
  <2> QED BY <2>8, <2>9, <2>10 DEF PrefixInv
<1>3. CASE ApplyJob
  BY <1>3, PrefixFrame DEF ApplyJob
<1>4. CASE Done
  BY <1>4, PrefixFrame DEF Done
<1>5. CASE Echo \/ SkipJob \/ EndBatch
  BY <1>5, PrefixFrame DEF Echo, SkipJob, EndBatch
<1>6. ~ CommitFails
  BY DEF CommitFails
<1> QED BY <1>1, <1>2, <1>3, <1>4, <1>5, <1>6 DEF WriterStep

(* The disk hardens as a whole.                                            *)
LEMMA HardenPrefix ==
  ASSUME PrefixInv, Harden
  PROVE  PrefixInv'
<1>1. hard' = disk /\ UNCHANGED <<queue, batch, wstate, disk, log, writer>>
  BY DEF Harden
<1>2. Prefix(hard)' /\ Prefix(disk)' /\ MemoryOnly'
  BY <1>1 DEF PrefixInv, Prefix, MemoryOnly
<1>3. Placed'
  BY <1>1 DEF PrefixInv, Placed, Waits
<1> QED BY <1>2, <1>3 DEF PrefixInv

(* A disconnection keeps key and number of every job.                      *)
LEMMA DisconnectPrefix ==
  ASSUME TypeInv, PrefixInv, NEW c \in Conns, Disconnect(c)
  PROVE  PrefixInv'
<1>1. /\ queue \in Seq(Job) /\ batch \in Seq(Job)
      /\ queue' = Orphan(queue, c) /\ batch' = Orphan(batch, c)
      /\ UNCHANGED <<wstate, disk, hard, log, writer>>
  BY DEF Disconnect, TypeInv, TypeOK
<1>2. /\ Len(queue') = Len(queue)
      /\ \A j \in 1 .. Len(queue) : queue'[j].key = queue[j].key /\ queue'[j].entry = queue[j].entry
  BY <1>1, OrphanType
<1>3. /\ Len(batch') = Len(batch)
      /\ \A i \in 1 .. Len(batch) : batch'[i].key = batch[i].key /\ batch'[i].entry = batch[i].entry
  BY <1>1, OrphanType
<1>4. \A n \in 1 .. Len(log) : Waits(queue, n) => Waits(queue, n)'
  BY <1>1, <1>2 DEF Waits
<1>5. \A n \in 1 .. Len(log) : Waits(batch, n) => Waits(batch, n)'
  BY <1>1, <1>3 DEF Waits
<1>6. Placed'
  BY <1>1, <1>4, <1>5 DEF PrefixInv, Placed
<1>7. queue = <<>> => queue' = <<>>
  BY <1>1, <1>2 DEF Orphan
<1>8. Prefix(hard)' /\ Prefix(disk)' /\ MemoryOnly'
  BY <1>1, <1>7 DEF PrefixInv, Prefix, MemoryOnly
<1> QED BY <1>6, <1>8 DEF PrefixInv

(* After a restart a mutation is on the disk or lost.                      *)
LEMMA RestartPrefix ==
  ASSUME TypeInv, WriteOrder, NEW left \in {disk, hard}, NEW loads \in BOOLEAN,
         NEW spawns \in BOOLEAN, Restart(left, loads, spawns)
  PROVE  PrefixInv'
<1>1. /\ disk' = left /\ hard' = left /\ queue' = <<>> /\ wstate' = "idle"
      /\ log' = [n \in DOMAIN log |->
                   IF log[n] # Lost /\ left[log[n]].ver < n THEN Lost ELSE log[n]]
  BY DEF Restart
<1>2. log \in Seq(Keys \cup {Lost}) /\ DOMAIN log = 1 .. Len(log)
  BY DEF TypeInv, TypeOK
<1>3. Len(log') = Len(log) /\ DOMAIN log' = DOMAIN log
  BY <1>1, <1>2
<1>4. \A k \in Keys : left[k].ver \in Nat /\ left[k].ver <= Len(log)
  BY VersionTypes DEF WriteOrder, DiskOrder
<1>5. ASSUME NEW n \in 1 .. Len(log), log'[n] # Lost
      PROVE  log'[n] \in Keys /\ n <= left[log'[n]].ver
  <2>1. log'[n] = log[n] /\ log[n] \in Keys /\ ~ (left[log[n]].ver < n)
    BY <1>1, <1>2, <1>5
  <2> QED BY <1>4, <2>1
<1>6. \A k \in Keys : \A n \in 1 .. left[k].ver : n \in 1 .. Len(log)
  BY <1>2, <1>4
<1>7. Prefix(hard)' /\ Prefix(disk)'
  <2>1. ASSUME NEW k \in Keys, NEW n \in 1 .. left[k].ver, log'[n] # Lost
        PROVE  n <= left[log'[n]].ver
    BY <1>5, <1>6, <2>1
  <2>2. Prefix(disk)' <=> \A k \in Keys : \A n \in 1 .. disk'[k].ver :
                            log'[n] # Lost => n <= disk'[log'[n]].ver
    BY DEF Prefix
  <2>3. Prefix(hard)' <=> \A k \in Keys : \A n \in 1 .. hard'[k].ver :
                            log'[n] # Lost => n <= hard'[log'[n]].ver
    BY DEF Prefix
  <2>4. disk' = left /\ hard' = left
    BY <1>1
  <2> QED BY <2>1, <2>2, <2>3, <2>4
<1>8. Placed'
  BY <1>1, <1>3, <1>5 DEF Placed
<1> QED BY <1>1, <1>7, <1>8 DEF PrefixInv, MemoryOnly

(* So every step that is not a failed commit keeps the invariant.          *)
LEMMA PrefixStep ==
  ASSUME "commit" \notin Faults
  PROVE  TypeInv /\ WriteOrder /\ PrefixInv /\ [Next]_vars => PrefixInv'
<1> SUFFICES ASSUME TypeInv, WriteOrder, PrefixInv, [Next]_vars PROVE PrefixInv'
  OBVIOUS
<1>1. ASSUME NEW c \in Conns, Request(c) PROVE PrefixInv'
  <2>1. ASSUME NEW k \in Keys, NEW val \in Values, NEW base, NEW d \in BOOLEAN,
               Put(c, k, val, base, d)
        PROVE  PrefixInv'
    BY <2>1, MutatePrefix DEF Put
  <2>2. ASSUME NEW k \in Keys, NEW base, NEW d \in BOOLEAN, Delete(c, k, base, d)
        PROVE  PrefixInv'
    BY <2>2, MutatePrefix DEF Delete
  <2>3. ASSUME NEW k \in Keys, DeleteAbsent(c, k)
        PROVE  PrefixInv'
    BY <2>3, PrefixFrame, ZenonT(60) DEF DeleteAbsent, writerVars
  <2>4. ASSUME NEW i \in Slots, NEW match, NEW id,
               Open(c, i, match) \/ Stop(c, i) \/ Ack(c, i, id)
        PROVE  PrefixInv'
    BY <2>4, PrefixFrame, ZenonT(60) DEF Open, Stop, Ack, writerVars
  <2> QED BY <1>1, <2>1, <2>2, <2>3, <2>4 DEF Request
<1>2. ASSUME NEW c \in Conns, Snapshot(c) PROVE PrefixInv'
  BY <1>2, PrefixFrame DEF Snapshot, SendChunk, GoLive, writerVars
<1>3. ASSUME NEW c \in Conns, Disconnect(c) PROVE PrefixInv'
  BY <1>3, DisconnectPrefix
<1>4. CASE WriterStep
  BY <1>4, WriterPrefix
<1>5. CASE Harden
  BY <1>5, HardenPrefix
<1>6. CASE Crash
  BY <1>6, RestartPrefix DEF Crash
<1>7. CASE UNCHANGED vars
  BY <1>7, PrefixFrame DEF vars
<1> QED BY <1>1, <1>2, <1>3, <1>4, <1>5, <1>6, <1>7 DEF Next

(* Unless a commit fails, crashes are prefix-consistent with the mutation  *)
(* order, as kv.rs:8-11 states: with a mutation on the disk every earlier  *)
(* one that no crash took back is there too, batched or not, DURABLE or    *)
(* not, whichever connection sent it.                                      *)
THEOREM PrefixSurvives ==
  ASSUME "commit" \notin Faults
  PROVE  Spec => []PrefixConsistent
<1>1. Init => PrefixInv
  BY Budgets DEF Init, PrefixInv, Prefix, Placed, MemoryOnly, Empty, NoEntry
<1>2. TypeInv /\ WriteOrder /\ PrefixInv => PrefixConsistent
  BY DEF PrefixInv, Prefix, PrefixConsistent
<1>3. TypeInv /\ WriteOrder /\ PrefixInv /\ [Next]_vars => PrefixInv'
  BY PrefixStep
<1> QED BY <1>1, <1>2, <1>3, TypeInit, TypeStep, WriteOrderInit, WriteOrderStep, PTL DEF Spec
-----------------------------------------------------------------------------
(* The watches.                                                            *)

(* What the client will hold of a key once everything queued for it is     *)
(* sent: the last queued update of the key; if there is none and its entry *)
(* is still to come in the snapshot, that entry; else what it holds now.   *)
LastOf(s, k, j) ==
  s.queued[j].key = k /\ \A m \in 1 .. Len(s.queued) : s.queued[m].key = k => m <= j

Leads(s, k, e) ==
  /\ s.phase = "live" => Visible(s.shown[k]) = Visible(e)
  /\ s.phase = "snap" =>
       /\ \A j \in 1 .. Len(s.queued) : LastOf(s, k, j) => Visible(s.queued[j].entry) = Visible(e)
       /\ (\A j \in 1 .. Len(s.queued) : s.queued[j].key # k)
            => Visible(IF k \in s.rem THEN s.snap[k] ELSE s.shown[k]) = Visible(e)

(* SNAPSHOT_END goes out with the last of the snapshot.                    *)
Streamed(s) == s.phase = "snap" /\ s.ended => s.rem = {}

Tracked(s, owed, t) == Streamed(s) /\ \A k \in s.match \ owed : Leads(s, k, t[k])

(* Every open watch, live or still streaming its snapshot, is on its way   *)
(* to the current entry of each key that owes no echo; and between two     *)
(* batches the writer thread owes none.                                    *)
WatchInv ==
  /\ wstate = "idle" => batch = <<>>
  /\ \A c \in Conns, i \in Slots : Tracked(subs[c][i], UnechoedKeys, entries)

(* KvSub::send past the budget closes, and else shows what it sends.       *)
LEMMA SendShows ==
  ASSUME NEW s \in SubOK, NEW ks \in SUBSET Keys, NEW es \in [ks -> Entry]
  PROVE  /\ Send(s, es).match = s.match
         /\ \/ Send(s, es).phase = "closed"
            \/ /\ Send(s, es).phase = s.phase /\ Send(s, es).queued = s.queued
               /\ Send(s, es).rem = s.rem /\ Send(s, es).snap = s.snap
               /\ Send(s, es).ended = s.ended
               /\ \A k \in Keys : Send(s, es).shown[k] = IF k \in ks THEN es[k] ELSE s.shown[k]
<1> DEFINE sh == [k \in Keys |-> IF k \in DOMAIN es THEN es[k] ELSE s.shown[k]]
<1>1. s \in SubType
  BY DEF SubOK
<1>2. CASE s.sent - s.floor + 1 > UnackedMax
  <2>1. Send(s, es) = [s EXCEPT !.phase = "closed"]
    BY <1>2 DEF Send
  <2> QED BY <1>1, <2>1 DEF SubType
<1>3. CASE ~(s.sent - s.floor + 1 > UnackedMax)
  <2>1. Send(s, es) = [s EXCEPT !.sent = s.sent + 1, !.shown = sh]
    BY <1>3 DEF Send
  <2>2. \A k \in Keys : sh[k] = IF k \in ks THEN es[k] ELSE s.shown[k]
    OBVIOUS
  <2> HIDE DEF sh
  <2>3. Send(s, es).shown = sh
    BY <1>1, <2>1 DEF SubType
  <2>4. /\ Send(s, es).phase = s.phase /\ Send(s, es).queued = s.queued
        /\ Send(s, es).rem = s.rem /\ Send(s, es).snap = s.snap
        /\ Send(s, es).ended = s.ended /\ Send(s, es).match = s.match
    BY <1>1, <2>1 DEF SubType
  <2> QED BY <2>2, <2>3, <2>4
<1> QED BY <1>2, <1>3

(* KvSub::deliver sets the course of its key and no other: behind a        *)
(* snapshot the queued update is the last of its key, for a live watch it  *)
(* is sent, and a closed one follows nothing.                              *)
LEMMA DeliverLeads ==
  ASSUME NEW s \in SubOK, NEW k \in Keys, NEW e \in Entry
  PROVE  /\ Deliver(s, k, e).match = s.match
         /\ Streamed(s) => Streamed(Deliver(s, k, e))
         /\ Leads(Deliver(s, k, e), k, e)
         /\ \A h \in Keys : h # k => \A x : Leads(s, h, x) => Leads(Deliver(s, k, e), h, x)
<1>1. s \in SubType /\ s.queued \in Seq(Update)
  BY DEF SubOK, SubType
<1>2. CASE s.phase = "snap"
  <2> DEFINE u == [key |-> k, entry |-> e]
             q == Append(s.queued, u)
             n == Len(s.queued)
  <2>1. Deliver(s, k, e) = [s EXCEPT !.queued = q]
    BY <1>2 DEF Deliver
  <2>2. PICK d : d = Deliver(s, k, e)
    OBVIOUS
  <2>3. /\ d.phase = "snap" /\ d.queued = q /\ d.rem = s.rem /\ d.snap = s.snap
        /\ d.shown = s.shown /\ d.ended = s.ended /\ d.match = s.match
    BY <1>1, <1>2, <2>1, <2>2 DEF SubType
  <2>4. /\ n \in Nat /\ Len(q) = n + 1 /\ q[n + 1] = u
        /\ \A j \in 1 .. n : q[j] = s.queued[j]
    BY <1>1
  <2>5. u.key = k /\ u.entry = e
    OBVIOUS
  <2> HIDE DEF q, u
  <2>6. Leads(d, k, e)
    <3>1. ASSUME NEW j \in 1 .. Len(d.queued), LastOf(d, k, j)
          PROVE  d.queued[j].entry = e
      <4>1. n + 1 \in 1 .. Len(q) /\ q[n + 1].key = k
        BY <2>4, <2>5
      <4>2. n + 1 <= j
        BY <2>3, <3>1, <4>1 DEF LastOf
      <4>3. j = n + 1
        BY <2>3, <2>4, <3>1, <4>2
      <4> QED BY <2>3, <2>4, <2>5, <4>3
    <3>2. \E j \in 1 .. Len(d.queued) : d.queued[j].key = k
      BY <2>3, <2>4, <2>5
    <3> QED BY <2>3, <3>1, <3>2 DEF Leads
  <2>7. ASSUME NEW h \in Keys, h # k, NEW x, Leads(s, h, x)
        PROVE  Leads(d, h, x)
    <3>1. ASSUME NEW j \in 1 .. Len(d.queued), LastOf(d, h, j)
          PROVE  Visible(d.queued[j].entry) = Visible(x)
      <4>1. q[j].key = h /\ j \in 1 .. n + 1
        BY <2>3, <2>4, <3>1 DEF LastOf
      <4>2. j \in 1 .. n
        BY <2>4, <2>5, <2>7, <4>1
      <4>3. \A m \in 1 .. n : s.queued[m].key = h => m <= j
        BY <2>3, <2>4, <3>1 DEF LastOf
      <4>4. LastOf(s, h, j)
        BY <2>4, <4>1, <4>2, <4>3 DEF LastOf
      <4> QED BY <1>2, <2>3, <2>4, <2>7, <4>2, <4>4 DEF Leads
    <3>2. ASSUME \A j \in 1 .. Len(d.queued) : d.queued[j].key # h
          PROVE  Visible(IF h \in d.rem THEN d.snap[h] ELSE d.shown[h]) = Visible(x)
      <4>1. \A j \in 1 .. n : s.queued[j].key # h
        BY <2>3, <2>4, <3>2
      <4> QED BY <1>2, <2>3, <2>7, <4>1 DEF Leads
    <3> QED BY <2>3, <3>1, <3>2 DEF Leads
  <2>8. Streamed(s) => Streamed(d)
    BY <1>2, <2>3 DEF Streamed
  <2> QED BY <2>2, <2>3, <2>6, <2>7, <2>8
<1>3. CASE s.phase = "live"
  <2>1. One(k, e) \in [{k} -> Entry] /\ One(k, e)[k] = e
    BY DEF One
  <2>2. Deliver(s, k, e) = Send(s, One(k, e))
    BY <1>3 DEF Deliver
  <2>3. PICK d : d = Deliver(s, k, e)
    OBVIOUS
  <2>4. d.match = s.match /\ d.phase \in {"live", "closed"}
    BY <1>3, <2>1, <2>2, <2>3, SendShows
  <2>5. d.phase = "live" => \A h \in Keys : d.shown[h] = IF h = k THEN e ELSE s.shown[h]
    BY <1>3, <2>1, <2>2, <2>3, SendShows
  <2>6. Leads(d, k, e) /\ Streamed(d)
    BY <2>4, <2>5 DEF Leads, Streamed
  <2>7. \A h \in Keys : h # k => \A x : Leads(s, h, x) => Leads(d, h, x)
    BY <1>3, <2>4, <2>5 DEF Leads
  <2> QED BY <2>3, <2>4, <2>6, <2>7
<1>4. CASE s.phase # "snap" /\ s.phase # "live"
  <2>1. Deliver(s, k, e) = s
    BY <1>4 DEF Deliver
  <2>2. \A h, x : Leads(s, h, x)
    BY <1>4 DEF Leads
  <2> QED BY <2>1, <2>2
<1> QED BY <1>2, <1>3, <1>4

(* KvSub::go_live leaves the client where the queue led it: of a key that  *)
(* was queued the last update is sent, unless the budget ends the watch.   *)
LEMMA FlushLeads ==
  ASSUME NEW s \in SubOK, s.phase = "snap", s.rem = {}
  PROVE  /\ Flush(s).match = s.match /\ Flush(s).phase \in {"closed", "live"}
         /\ Flush(s).phase = "live" =>
              \A k \in Keys : \A x : Leads(s, k, x) => Visible(Flush(s).shown[k]) = Visible(x)
<1> DEFINE room == UnackedMax - (s.sent - s.floor)
           n == IF room < Len(s.queued) THEN room ELSE Len(s.queued)
           Of(k) == {j \in 1 .. n : s.queued[j].key = k}
           Last(k) == CHOOSE j \in Of(k) : \A m \in Of(k) : m <= j
           sh == [k \in Keys |-> IF Of(k) = {} THEN s.shown[k] ELSE s.queued[Last(k)].entry]
           ph == IF n < Len(s.queued) THEN "closed" ELSE "live"
<1>1. s \in SubType /\ Len(s.queued) \in Nat /\ s.sent \in Nat /\ s.floor \in Nat
  BY DEF SubOK, SubType
<1>2. n \in Int /\ n <= Len(s.queued)
  BY <1>1, Budgets
<1>3. Flush(s) = [s EXCEPT !.phase = ph, !.queued = <<>>, !.sent = s.sent + n, !.shown = sh]
  BY DEF Flush
<1>4. \A k \in Keys : sh[k] = IF Of(k) = {} THEN s.shown[k] ELSE s.queued[Last(k)].entry
  OBVIOUS
<1>5. ph \in {"closed", "live"} /\ (ph = "live" => n = Len(s.queued))
  BY <1>1, <1>2
<1>6. Flush(s).match = s.match /\ Flush(s).phase = ph /\ Flush(s).shown = sh
  <2> HIDE DEF ph, sh, n
  <2> QED BY <1>1, <1>3 DEF SubType
<1>7. ASSUME ph = "live", NEW k \in Keys, NEW x, Leads(s, k, x)
      PROVE  Visible(sh[k]) = Visible(x)
  <2>1. Of(k) = {j \in 1 .. Len(s.queued) : s.queued[j].key = k}
    BY <1>5, <1>7
  <2> HIDE DEF ph, n, sh, Of
  <2>2. CASE Of(k) = {}
    <3>1. \A j \in 1 .. Len(s.queued) : s.queued[j].key # k
      BY <2>1, <2>2
    <3>2. Visible(s.shown[k]) = Visible(x)
      BY <1>7, <3>1 DEF Leads
    <3> QED BY <1>4, <2>2, <3>2
  <2>3. CASE Of(k) # {}
    <3>1. \E j \in Of(k) : \A m \in Of(k) : m <= j
      BY <1>1, <2>1, <2>3, LargestExists
    <3>2. Last(k) \in Of(k) /\ \A m \in Of(k) : m <= Last(k)
      BY <3>1
    <3> HIDE DEF Last
    <3>3. Last(k) \in 1 .. Len(s.queued) /\ LastOf(s, k, Last(k))
      BY <2>1, <3>2 DEF LastOf
    <3>4. Visible(s.queued[Last(k)].entry) = Visible(x)
      BY <1>7, <3>3 DEF Leads
    <3> QED BY <1>4, <2>3, <3>4
  <2> QED BY <2>2, <2>3
<1> HIDE DEF ph, sh
<1> QED BY <1>5, <1>6, <1>7

(* The keys that owe an echo are read from the queue, the batch and the    *)
(* writer's place in it.                                                   *)
LEMMA UnechoedAre ==
  ASSUME TypeInv
  PROVE  \A k : k \in UnechoedKeys <=>
           \/ \E i \in 1 .. Len(queue) : queue[i].durable /\ queue[i].key = k
           \/ \E i \in Owed : batch[i].durable /\ batch[i].key = k
BY DEF TypeInv, TypeOK, UnechoedKeys

(* The same of the next state.                                             *)
LEMMA UnechoedAreNext ==
  ASSUME TypeInv'
  PROVE  \A k : k \in UnechoedKeys' <=>
           \/ \E i \in 1 .. Len(queue') : queue'[i].durable /\ queue'[i].key = k
           \/ \E i \in Owed' : batch'[i].durable /\ batch'[i].key = k
BY DEF TypeInv, TypeOK, UnechoedKeys

(* A step that takes no key from those owed an echo and writes no entry    *)
(* keeps every watch it does not touch on its way.                         *)
LEMMA WatchFrame ==
  ASSUME TypeInv, WatchInv, wstate' = "idle" => batch' = <<>>, entries' = entries,
         UnechoedKeys \subseteq UnechoedKeys',
         \A c \in Conns, i \in Slots :
           subs'[c][i] = subs[c][i] \/ Tracked(subs'[c][i], UnechoedKeys, entries)
  PROVE  WatchInv'
<1> SUFFICES ASSUME NEW c \in Conns, NEW i \in Slots
             PROVE  Tracked(subs'[c][i], UnechoedKeys', entries')
  BY DEF WatchInv
<1>1. Tracked(subs'[c][i], UnechoedKeys, entries)
  BY DEF WatchInv
<1> QED BY <1>1 DEF Tracked

(* A step that leaves queue, batch and writer alone owes the same echoes.  *)
LEMMA UnechoedFrame ==
  ASSUME UNCHANGED <<queue, batch, cur, wstate>>
  PROVE  UnechoedKeys' = UnechoedKeys
BY DEF UnechoedKeys, Owed

(* A slot nobody opened, or that was closed, follows nothing.              *)
LEMMA NoSubTracked == \A owed, t : Tracked(NoSub, owed, t)
BY DEF Tracked, Streamed, NoSub

(* Broadcasting a key's new entry sets every watch of the key on its way   *)
(* to it, whether or not the key owed an echo.                             *)
LEMMA BroadcastLeads ==
  ASSUME TypeInv, WatchInv, wstate' = "idle" => batch' = <<>>, NEW k \in Keys, NEW e \in Entry,
         Broadcast(k, e), entries'[k] = e, \A h \in Keys \ {k} : entries'[h] = entries[h],
         UnechoedKeys \subseteq UnechoedKeys' \cup {k}
  PROVE  WatchInv'
<1> SUFFICES ASSUME NEW c \in Conns, NEW i \in Slots
             PROVE  Tracked(subs'[c][i], UnechoedKeys', entries')
  BY DEF WatchInv
<1>1. PICK s : s = subs[c][i]
  OBVIOUS
<1>2. PICK d : d = subs'[c][i]
  OBVIOUS
<1>3. s \in SubOK /\ s.match \subseteq Keys
  BY <1>1 DEF TypeInv, SubsOK, SubOK, SubType
<1>4. d = IF k \in s.match THEN Deliver(s, k, e) ELSE s
  BY <1>1, <1>2 DEF Broadcast
<1>5. Streamed(s) /\ \A h \in s.match \ UnechoedKeys : Leads(s, h, entries[h])
  BY <1>1 DEF WatchInv, Tracked
<1>6. CASE k \in s.match
  <2>1. /\ d.match = s.match /\ Streamed(d) /\ Leads(d, k, e)
        /\ \A h \in Keys : h # k => \A x : Leads(s, h, x) => Leads(d, h, x)
    BY <1>3, <1>4, <1>5, <1>6, DeliverLeads
  <2>2. ASSUME NEW h \in s.match \ UnechoedKeys' PROVE Leads(d, h, entries'[h])
    <3>1. CASE h = k
      BY <2>1, <3>1
    <3>2. CASE h # k
      <4>1. h \in s.match \ UnechoedKeys /\ h \in Keys /\ entries'[h] = entries[h]
        BY <1>3, <2>2, <3>2
      <4> QED BY <1>5, <2>1, <3>2, <4>1
    <3> QED BY <3>1, <3>2
  <2> QED BY <1>2, <2>1, <2>2 DEF Tracked
<1>7. CASE k \notin s.match
  <2>1. ASSUME NEW h \in s.match \ UnechoedKeys' PROVE Leads(s, h, entries'[h])
    <3>1. h \in s.match \ UnechoedKeys /\ entries'[h] = entries[h]
      BY <1>3, <1>7, <2>1
    <3> QED BY <1>5, <3>1
  <2> QED BY <1>2, <1>4, <1>5, <1>7, <2>1 DEF Tracked
<1> QED BY <1>6, <1>7

(* KV_PUT and KV_DELETE: a mutation is broadcast at once, or owes its key  *)
(* an echo.                                                                *)
LEMMA MutateTracks ==
  ASSUME TypeInv, TypeInv', WatchInv, NEW c \in Conns, NEW k \in Keys,
         NEW val \in Values \cup {Absent}, NEW durable \in BOOLEAN, Mutate(c, k, val, durable)
  PROVE  WatchInv'
<1> DEFINE e == [val |-> val, ver |-> Len(log) + 1, by |-> c]
           job == [key |-> k, entry |-> e, durable |-> durable,
                   conn |-> IF durable THEN c ELSE Nobody]
<1>1. /\ queue' = IF writer = "up" THEN Append(queue, job) ELSE queue
      /\ entries' = [entries EXCEPT ![k] = e]
      /\ IF durable /\ writer = "up" THEN subs' = subs ELSE Broadcast(k, e)
      /\ UNCHANGED <<batch, cur, wstate>>
  BY DEF Mutate, writerVars
<1>2. job.key = k /\ job.durable = durable
  OBVIOUS
<1>3. queue \in Seq(Job) /\ entries \in Table /\ entries' \in Table
  BY DEF TypeInv, TypeOK
<1>4. Owed' = Owed /\ (wstate' = "idle" => batch' = <<>>)
  BY <1>1 DEF Owed, WatchInv
<1> HIDE DEF job
<1>5. /\ Len(queue) \in Nat /\ Len(queue) <= Len(queue') /\ Len(queue') \in Nat
      /\ \A j \in 1 .. Len(queue) : queue'[j] = queue[j]
      /\ writer = "up" => Len(queue') = Len(queue) + 1 /\ queue'[Len(queue')] = job
  BY <1>1, <1>3
<1>6. UnechoedKeys \subseteq UnechoedKeys'
  <2> SUFFICES ASSUME NEW h \in UnechoedKeys PROVE h \in UnechoedKeys'
    OBVIOUS
  <2>1. CASE \E j \in 1 .. Len(queue) : queue[j].durable /\ queue[j].key = h
    <3>1. \E j \in 1 .. Len(queue') : queue'[j].durable /\ queue'[j].key = h
      BY <1>5, <2>1
    <3> QED BY <3>1, UnechoedAreNext
  <2>2. CASE \E j \in Owed : batch[j].durable /\ batch[j].key = h
    <3>1. \E j \in Owed' : batch'[j].durable /\ batch'[j].key = h
      BY <1>1, <1>4, <2>2
    <3> QED BY <3>1, UnechoedAreNext
  <2> QED BY <2>1, <2>2, UnechoedAre
<1>7. entries'[k] = e /\ e \in Entry /\ \A h \in Keys \ {k} : entries'[h] = entries[h]
  <2>1. entries'[k] = e /\ \A h \in Keys \ {k} : entries'[h] = entries[h]
    BY <1>1, <1>3 DEF Table
  <2>2. entries'[k] \in Entry
    BY <1>3 DEF Table
  <2> QED BY <2>1, <2>2
<1> HIDE DEF e
<1>8. CASE durable /\ writer = "up"
  <2>1. k \in UnechoedKeys'
    <3>1. Len(queue') \in 1 .. Len(queue')
      BY <1>5, <1>8
    <3>2. \E j \in 1 .. Len(queue') : queue'[j].durable /\ queue'[j].key = k
      BY <1>2, <1>5, <1>8, <3>1
    <3> QED BY <3>2, UnechoedAreNext
  <2>2. subs' = subs
    BY <1>1, <1>8
  <2> SUFFICES ASSUME NEW d \in Conns, NEW i \in Slots
               PROVE  Tracked(subs'[d][i], UnechoedKeys', entries')
    BY <1>4 DEF WatchInv
  <2>3. Tracked(subs[d][i], UnechoedKeys, entries) /\ subs[d][i].match \subseteq Keys
    BY DEF WatchInv, TypeInv, SubsOK, SubOK, SubType
  <2>4. ASSUME NEW h \in subs[d][i].match \ UnechoedKeys'
        PROVE  Leads(subs[d][i], h, entries'[h])
    <3>1. h \in subs[d][i].match \ UnechoedKeys /\ entries'[h] = entries[h]
      BY <1>6, <1>7, <2>1, <2>3, <2>4
    <3> QED BY <2>3, <3>1 DEF Tracked
  <2> QED BY <2>2, <2>3, <2>4 DEF Tracked
<1>9. CASE ~(durable /\ writer = "up")
  <2>1. Broadcast(k, e)
    BY <1>1, <1>9
  <2> QED BY <1>4, <1>6, <1>7, <2>1, BroadcastLeads
<1> QED BY <1>8, <1>9

(* KV_OPEN: the clone and the registration are one critical section, so a  *)
(* new watch starts on its way to every entry it selects, and a sweep      *)
(* takes only closed ones.                                                 *)
LEMMA OpenTracks ==
  ASSUME TypeInv, WatchInv, NEW c \in Conns, NEW i \in Slots, NEW match \in SUBSET Keys,
         Open(c, i, match)
  PROVE  WatchInv'
<1> DEFINE new == [NoSub EXCEPT !.phase = "snap", !.match = match, !.snap = entries,
                                !.rem = match \cap Present(entries)]
<1>1. new.phase = "snap" /\ new.match = match /\ new.snap = entries
      /\ new.rem = match \cap Present(entries) /\ new.ended = FALSE
      /\ new.queued = <<>> /\ new.shown = Empty
  BY DEF NoSub
<1>2. subs' = [subs EXCEPT ![c] = [Sweep(subs[c]) EXCEPT ![i] = new]]
  BY DEF Open
<1> HIDE DEF new
<1>3. Tracked(new, UnechoedKeys, entries)
  <2>1. ASSUME NEW k \in match PROVE Leads(new, k, entries[k])
    <3>1. Visible(IF k \in new.rem THEN new.snap[k] ELSE new.shown[k]) = Visible(entries[k])
      <4>1. CASE k \in Present(entries)
        BY <1>1, <4>1
      <4>2. CASE k \notin Present(entries)
        <5>1. entries[k].val = Absent /\ new.shown[k] = NoEntry /\ k \notin new.rem
          BY <1>1, <4>2 DEF Present, Empty
        <5>2. Visible(NoEntry) = NoEntry
          BY DEF Visible, NoEntry
        <5> QED BY <5>1, <5>2 DEF Visible
      <4> QED BY <4>1, <4>2
    <3> QED BY <1>1, <3>1 DEF Leads
  <2> QED BY <1>1, <2>1 DEF Tracked, Streamed
<1>4. ASSUME NEW d \in Conns, NEW j \in Slots
      PROVE  subs'[d][j] = subs[d][j] \/ Tracked(subs'[d][j], UnechoedKeys, entries)
  <2>1. subs'[d][j] \in {subs[d][j], NoSub, new}
    BY <1>2 DEF Sweep, TypeInv, SubsOK
  <2> QED BY <1>3, <2>1, NoSubTracked
<1>5. UnechoedKeys' = UnechoedKeys /\ entries' = entries /\ (wstate' = "idle" => batch' = <<>>)
  BY UnechoedFrame DEF Open, writerVars, WatchInv
<1> QED BY <1>4, <1>5, WatchFrame

(* A chunk of the snapshot shows what was still to come, and the last one  *)
(* leaves nothing to come.                                                 *)
LEMMA ChunkTracks ==
  ASSUME TypeInv, WatchInv, NEW c \in Conns, NEW i \in Slots, NEW ks \in SUBSET Keys,
         NEW last \in BOOLEAN, SendChunk(c, i, ks, last)
  PROVE  WatchInv'
<1>1. PICK s : s = subs[c][i]
  OBVIOUS
<1>2. PICK es : es = [k \in ks |-> s.snap[k]]
  OBVIOUS
<1>3. PICK t : t = Send(s, es)
  OBVIOUS
<1>4. PICK u : u = [t EXCEPT !.rem = t.rem \ ks, !.ended = last]
  OBVIOUS
<1>5. s \in SubOK /\ es \in [ks -> Entry] /\ s.match \subseteq Keys
  BY <1>1, <1>2 DEF TypeInv, SubsOK, SubOK, SubType, Table
<1>6. s.phase = "snap" /\ ~s.ended /\ (IF last THEN ks = s.rem ELSE ks \subseteq s.rem)
  BY <1>1 DEF SendChunk
<1>7. subs' = [subs EXCEPT ![c] = [subs[c] EXCEPT ![i] =
                 IF t.phase = "closed" THEN NoSub ELSE u]]
  BY <1>1, <1>2, <1>3, <1>4 DEF SendChunk
<1>8. Streamed(s) /\ \A k \in s.match \ UnechoedKeys : Leads(s, k, entries[k])
  BY <1>1 DEF WatchInv, Tracked
<1>9. t.phase # "closed" => Tracked(u, UnechoedKeys, entries)
  <2> SUFFICES ASSUME t.phase # "closed" PROVE Tracked(u, UnechoedKeys, entries)
    OBVIOUS
  <2>1. /\ t.phase = "snap" /\ t.queued = s.queued /\ t.rem = s.rem /\ t.snap = s.snap
        /\ t.match = s.match
        /\ \A k \in Keys : t.shown[k] = IF k \in ks THEN es[k] ELSE s.shown[k]
    BY <1>3, <1>5, <1>6, SendShows
  <2>2. t \in SubType
    BY <1>3, <1>5, SendType DEF SubOK
  <2>3. /\ u.phase = t.phase /\ u.queued = t.queued /\ u.snap = t.snap /\ u.match = t.match
        /\ u.shown = t.shown /\ u.rem = t.rem \ ks /\ u.ended = last
    BY <1>4, <2>2 DEF SubType
  <2>4. Streamed(u)
    BY <1>6, <2>1, <2>3 DEF Streamed
  <2>5. ASSUME NEW k \in s.match \ UnechoedKeys PROVE Leads(u, k, entries[k])
    <3>1. Leads(s, k, entries[k]) /\ k \in Keys
      BY <1>5, <1>8
    <3>2. (IF k \in u.rem THEN u.snap[k] ELSE u.shown[k])
            = (IF k \in s.rem THEN s.snap[k] ELSE s.shown[k])
      <4>1. CASE k \in ks
        <5>1. k \in s.rem /\ k \notin u.rem /\ u.shown[k] = s.snap[k]
          BY <1>2, <1>6, <2>1, <2>3, <3>1, <4>1
        <5> QED BY <5>1
      <4>2. CASE k \notin ks
        <5>1. (k \in u.rem <=> k \in s.rem) /\ u.shown[k] = s.shown[k] /\ u.snap = s.snap
          BY <2>1, <2>3, <3>1, <4>2
        <5> QED BY <5>1
      <4> QED BY <4>1, <4>2
    <3>3. u.phase = "snap" /\ u.queued = s.queued
      BY <2>1, <2>3
    <3>4. \A j : LastOf(u, k, j) <=> LastOf(s, k, j)
      BY <3>3 DEF LastOf
    <3> QED BY <1>6, <3>1, <3>2, <3>3, <3>4 DEF Leads
  <2> QED BY <2>1, <2>3, <2>4, <2>5 DEF Tracked
<1>10. ASSUME NEW d \in Conns, NEW j \in Slots
       PROVE  subs'[d][j] = subs[d][j] \/ Tracked(subs'[d][j], UnechoedKeys, entries)
  <2>1. subs'[d][j] = subs[d][j]
        \/ subs'[d][j] = IF t.phase = "closed" THEN NoSub ELSE u
    BY <1>7 DEF TypeInv, SubsOK
  <2> QED BY <1>9, <2>1, NoSubTracked
<1>11. UnechoedKeys' = UnechoedKeys /\ entries' = entries /\ (wstate' = "idle" => batch' = <<>>)
  BY UnechoedFrame DEF SendChunk, writerVars, WatchInv
<1> QED BY <1>10, <1>11, WatchFrame

(* go_live turns a watch on its way into one that has arrived.             *)
LEMMA GoLiveTracks ==
  ASSUME TypeInv, WatchInv, NEW c \in Conns, NEW i \in Slots, GoLive(c, i)
  PROVE  WatchInv'
<1>1. PICK s : s = subs[c][i]
  OBVIOUS
<1>2. PICK t : t = Flush(s)
  OBVIOUS
<1>3. PICK u : u = [t EXCEPT !.snap = Empty, !.ended = FALSE]
  OBVIOUS
<1>4. s \in SubOK /\ s.match \subseteq Keys /\ t \in SubType
  <2>1. s \in SubOK
    BY <1>1 DEF TypeInv, SubsOK
  <2> QED BY <1>2, <2>1, FlushType DEF SubOK, SubType
<1>5. Streamed(s) /\ \A k \in s.match \ UnechoedKeys : Leads(s, k, entries[k])
  BY <1>1 DEF WatchInv, Tracked
<1>6. s.phase = "snap" /\ s.rem = {}
  BY <1>1, <1>5 DEF GoLive, Streamed
<1>7. subs' = [subs EXCEPT ![c] = [subs[c] EXCEPT ![i] =
                 IF t.phase = "closed" THEN NoSub ELSE u]]
  BY <1>1, <1>2, <1>3 DEF GoLive
<1>8. t.phase # "closed" => Tracked(u, UnechoedKeys, entries)
  <2> SUFFICES ASSUME t.phase # "closed" PROVE Tracked(u, UnechoedKeys, entries)
    OBVIOUS
  <2>1. /\ t.match = s.match /\ t.phase = "live"
        /\ \A k \in Keys : \A x : Leads(s, k, x) => Visible(t.shown[k]) = Visible(x)
    BY <1>2, <1>4, <1>6, FlushLeads
  <2>2. u.phase = t.phase /\ u.match = t.match /\ u.shown = t.shown
    BY <1>3, <1>4 DEF SubType
  <2>3. ASSUME NEW k \in s.match \ UnechoedKeys PROVE Leads(u, k, entries[k])
    <3>1. Visible(u.shown[k]) = Visible(entries[k])
      BY <1>4, <1>5, <2>1, <2>2, <2>3
    <3> QED BY <2>1, <2>2, <3>1 DEF Leads
  <2> QED BY <2>1, <2>2, <2>3 DEF Tracked, Streamed
<1>9. ASSUME NEW d \in Conns, NEW j \in Slots
      PROVE  subs'[d][j] = subs[d][j] \/ Tracked(subs'[d][j], UnechoedKeys, entries)
  <2>1. subs'[d][j] = subs[d][j]
        \/ subs'[d][j] = IF t.phase = "closed" THEN NoSub ELSE u
    BY <1>7 DEF TypeInv, SubsOK
  <2> QED BY <1>8, <2>1, NoSubTracked
<1>10. UnechoedKeys' = UnechoedKeys /\ entries' = entries /\ (wstate' = "idle" => batch' = <<>>)
  BY UnechoedFrame DEF GoLive, writerVars, WatchInv
<1> QED BY <1>9, <1>10, WatchFrame

(* KV_STOP and KV_ACK: a stopped watch follows nothing, and an ack moves   *)
(* the floor of the window only.                                           *)
LEMMA StopAckTracks ==
  ASSUME TypeInv, WatchInv, NEW c \in Conns, NEW i \in Slots, NEW id,
         Stop(c, i) \/ Ack(c, i, id)
  PROVE  WatchInv'
<1>1. PICK s : s = subs[c][i]
  OBVIOUS
<1>2. PICK u : u = IF Stop(c, i) THEN NoSub ELSE [s EXCEPT !.floor = id]
  OBVIOUS
<1>3. subs' = [subs EXCEPT ![c] = [subs[c] EXCEPT ![i] = u]]
  BY <1>1, <1>2 DEF Stop, Ack
<1>4. Tracked(s, UnechoedKeys, entries) /\ s \in SubType
  BY <1>1 DEF WatchInv, TypeInv, SubsOK, SubOK
<1>5. Tracked(u, UnechoedKeys, entries)
  <2>1. CASE Stop(c, i)
    BY <1>2, <2>1, NoSubTracked
  <2>2. CASE ~Stop(c, i)
    <3>1. u = [s EXCEPT !.floor = id]
      BY <1>2, <2>2
    <3>2. /\ u.phase = s.phase /\ u.queued = s.queued /\ u.rem = s.rem /\ u.snap = s.snap
          /\ u.match = s.match /\ u.shown = s.shown /\ u.ended = s.ended
      BY <1>4, <3>1 DEF SubType
    <3> QED BY <1>4, <3>2 DEF Tracked, Streamed, Leads, LastOf
  <2> QED BY <2>1, <2>2
<1>6. \A d \in Conns, j \in Slots : subs'[d][j] = subs[d][j] \/ subs'[d][j] = u
  BY <1>3 DEF TypeInv, SubsOK
<1>7. UnechoedKeys' = UnechoedKeys /\ entries' = entries /\ (wstate' = "idle" => batch' = <<>>)
  BY UnechoedFrame DEF Stop, Ack, writerVars, WatchInv
<1>8. \A d \in Conns, j \in Slots :
        subs'[d][j] = subs[d][j] \/ Tracked(subs'[d][j], UnechoedKeys, entries)
  BY <1>5, <1>6
<1> QED BY <1>7, <1>8, WatchFrame

(* The requests of a connection.                                           *)
LEMMA RequestTracks ==
  ASSUME TypeInv, TypeInv', WatchInv, NEW c \in Conns, Request(c)
  PROVE  WatchInv'
<1>1. ASSUME NEW k \in Keys, NEW val \in Values, NEW base, NEW d \in BOOLEAN,
             Put(c, k, val, base, d)
      PROVE  WatchInv'
  BY <1>1, MutateTracks DEF Put
<1>2. ASSUME NEW k \in Keys, NEW base, NEW d \in BOOLEAN, Delete(c, k, base, d)
      PROVE  WatchInv'
  BY <1>2, MutateTracks DEF Delete
<1>3. ASSUME NEW k \in Keys, DeleteAbsent(c, k)
      PROVE  WatchInv'
  <2>1. /\ entries' = entries /\ subs' = subs
        /\ UNCHANGED <<queue, batch, cur, wstate>>
    BY <1>3 DEF DeleteAbsent, writerVars
  <2>2. UnechoedKeys' = UnechoedKeys
    BY <2>1, UnechoedFrame
  <2> QED BY <2>1, <2>2 DEF WatchInv
<1>4. ASSUME NEW i \in Slots, NEW match \in Watchable[c], Open(c, i, match)
      PROVE  WatchInv'
  <2>1. match \in SUBSET Keys
    BY KvAssumption DEF KvAssumption
  <2> QED BY <1>4, <2>1, OpenTracks
<1>5. ASSUME NEW i \in Slots, NEW id, Stop(c, i) \/ Ack(c, i, id)
      PROVE  WatchInv'
  BY <1>5, StopAckTracks
<1> QED BY <1>1, <1>2, <1>3, <1>4, <1>5 DEF Request

(* writer_loop: the keys that owe an echo go with their jobs from the      *)
(* queue to the batch and through it, and leave only when they are echoed. *)
LEMMA WriterTracks ==
  ASSUME TypeInv, TypeInv', WatchInv, WriterStep
  PROVE  WatchInv'
<1>1. \A k \in UnechoedKeys :
        \/ \E i \in 1 .. Len(queue) : queue[i].durable /\ queue[i].key = k
        \/ \E i \in Owed : batch[i].durable /\ batch[i].key = k
  BY UnechoedAre
<1>2. \A k : \/ \E i \in 1 .. Len(queue') : queue'[i].durable /\ queue'[i].key = k
             \/ \E i \in Owed' : batch'[i].durable /\ batch'[i].key = k
             => k \in UnechoedKeys'
  BY UnechoedAreNext
<1>3. /\ queue \in Seq(Job) /\ batch \in Seq(Job) /\ cur \in Nat \ {0} /\ Len(batch) \in Nat
      /\ DOMAIN batch = 1 .. Len(batch) /\ DOMAIN queue = 1 .. Len(queue)
      /\ wstate = "echo" => cur <= Len(batch)
  BY DEF TypeInv, TypeOK, EchoHasJob
<1>4. wstate = "idle" => batch = <<>>
  BY DEF WatchInv
<1>5. CASE TakeBatch
  <2>1. /\ wstate = "idle" /\ batch' = queue /\ queue' = <<>> /\ cur' = 1 /\ wstate' = "txn"
        /\ entries' = entries /\ subs' = subs
    BY <1>5 DEF TakeBatch
  <2>2. Owed' = 1 .. Len(queue)
    BY <1>3, <2>1 DEF Owed
  <2>3. Owed = {}
    <3>1. Len(batch) = 0
      BY <1>4, <2>1
    <3> QED BY <1>3, <2>1, <3>1 DEF Owed
  <2>4. UnechoedKeys \subseteq UnechoedKeys'
    BY <1>1, <1>2, <2>1, <2>2, <2>3
  <2> QED BY <2>1, <2>4, WatchFrame
<1>6. CASE ApplyJob \/ Commit \/ CommitFails \/ Done \/ SkipJob
  <2>1. UNCHANGED <<queue, batch, entries, subs>> /\ wstate' # "idle"
    BY <1>6 DEF ApplyJob, Commit, CommitFails, Done, SkipJob
  <2>2. \A i \in Owed : batch[i].durable => i \in Owed'
    <3>1. CASE ApplyJob
      BY <2>1, <3>1 DEF ApplyJob, Owed
    <3>2. CASE Commit \/ CommitFails
      BY <1>3, <2>1, <3>2 DEF Commit, CommitFails, Owed
    <3>3. CASE Done
      BY <2>1, <3>3 DEF Done, Owed
    <3>4. CASE SkipJob
      <4>1. cur' = cur + 1 /\ ~batch[cur].durable /\ wstate = "reply" /\ wstate' = "reply"
        BY <3>4 DEF SkipJob
      <4>2. Owed = cur .. Len(batch) /\ Owed' = cur + 1 .. Len(batch)
        BY <2>1, <4>1 DEF Owed
      <4> QED BY <1>3, <4>1, <4>2
    <3> QED BY <1>6, <3>1, <3>2, <3>3, <3>4
  <2>3. UnechoedKeys \subseteq UnechoedKeys'
    BY <1>1, <1>2, <2>1, <2>2
  <2> QED BY <2>1, <2>3, WatchFrame
<1>7. CASE Echo
  <2>1. PICK k : k = batch[cur].key
    OBVIOUS
  <2>2. /\ wstate = "echo" /\ wstate' = "reply" /\ cur' = cur + 1
        /\ UNCHANGED <<queue, batch, entries>> /\ Broadcast(k, entries[k])
    BY <1>7, <2>1 DEF Echo
  <2>3. batch[cur] \in Job
    BY <1>3, <2>2
  <2>4. k \in Keys /\ entries[k] \in Entry
    BY <2>1, <2>3 DEF Job, Table, TypeInv, TypeOK
  <2>5. Owed = cur .. Len(batch) /\ Owed' = cur + 1 .. Len(batch)
    BY <2>2 DEF Owed
  <2>6. \A i \in Owed : i = cur \/ i \in Owed'
    BY <1>3, <2>5
  <2>7. UnechoedKeys \subseteq UnechoedKeys' \cup {k}
    BY <1>1, <1>2, <2>1, <2>2, <2>6
  <2> QED BY <2>2, <2>4, <2>7, BroadcastLeads
<1>8. CASE EndBatch
  <2>1. /\ wstate = "reply" /\ cur > Len(batch) /\ batch' = <<>>
        /\ UNCHANGED <<queue, entries, subs>>
    BY <1>8 DEF EndBatch
  <2>2. Owed = {}
    BY <1>3, <2>1 DEF Owed
  <2>3. UnechoedKeys \subseteq UnechoedKeys'
    BY <1>1, <1>2, <2>1, <2>2
  <2> QED BY <2>1, <2>3, WatchFrame
<1> QED BY <1>5, <1>6, <1>7, <1>8 DEF WriterStep

(* KvSubs::shutdown: the watches of the connection go, and an orphaned job *)
(* still owes the other watches its echo.                                  *)
LEMMA DisconnectTracks ==
  ASSUME TypeInv, TypeInv', WatchInv, NEW c \in Conns, Disconnect(c)
  PROVE  WatchInv'
<1>1. /\ subs' = [subs EXCEPT ![c] = [i \in Slots |-> NoSub]]
      /\ queue' = Orphan(queue, c) /\ batch' = Orphan(batch, c)
      /\ UNCHANGED <<entries, cur, wstate>>
  BY DEF Disconnect
<1>2. queue \in Seq(Job) /\ batch \in Seq(Job)
  BY DEF TypeInv, TypeOK
<1>3. /\ Len(queue') = Len(queue)
      /\ \A i \in 1 .. Len(queue) : queue'[i].key = queue[i].key
                                    /\ queue'[i].durable = queue[i].durable
  BY <1>1, <1>2, OrphanType
<1>4. /\ Len(batch') = Len(batch) /\ batch' \in Seq(Job)
      /\ \A i \in 1 .. Len(batch) : batch'[i].key = batch[i].key
                                    /\ batch'[i].durable = batch[i].durable
  BY <1>1, <1>2, OrphanType
<1>5. Owed' = Owed /\ Owed \subseteq 1 .. Len(batch)
  BY <1>1, <1>2, <1>4 DEF Owed, TypeInv, TypeOK
<1>6. UnechoedKeys \subseteq UnechoedKeys'
  <2> SUFFICES ASSUME NEW k \in UnechoedKeys PROVE k \in UnechoedKeys'
    OBVIOUS
  <2>1. \/ \E i \in 1 .. Len(queue') : queue'[i].durable /\ queue'[i].key = k
        \/ \E i \in Owed' : batch'[i].durable /\ batch'[i].key = k
    BY <1>3, <1>4, <1>5, UnechoedAre
  <2> QED BY <2>1, UnechoedAreNext
<1>7. \A d \in Conns, i \in Slots : subs'[d][i] = subs[d][i] \/ subs'[d][i] = NoSub
  BY <1>1 DEF TypeInv, SubsOK
<1>8. \A d \in Conns, i \in Slots :
        subs'[d][i] = subs[d][i] \/ Tracked(subs'[d][i], UnechoedKeys, entries)
  BY <1>7, NoSubTracked
<1>9. wstate' = "idle" => batch' = <<>>
  <2>1. wstate' = "idle" => Len(batch') = 0
    BY <1>1, <1>4 DEF WatchInv
  <2> QED BY <1>4, <2>1
<1> QED BY <1>1, <1>6, <1>8, <1>9, WatchFrame

(* So does every step; a restart leaves no watch.                          *)
LEMMA WatchStep == TypeInv /\ TypeInv' /\ WatchInv /\ [Next]_vars => WatchInv'
<1> SUFFICES ASSUME TypeInv, TypeInv', WatchInv, [Next]_vars PROVE WatchInv'
  OBVIOUS
<1>1. ASSUME NEW c \in Conns, Request(c) PROVE WatchInv'
  BY <1>1, RequestTracks
<1>2. ASSUME NEW c \in Conns, Snapshot(c) PROVE WatchInv'
  BY <1>2, ChunkTracks, GoLiveTracks DEF Snapshot
<1>3. ASSUME NEW c \in Conns, Disconnect(c) PROVE WatchInv'
  BY <1>3, DisconnectTracks
<1>4. CASE WriterStep
  BY <1>4, WriterTracks
<1>5. CASE Harden \/ UNCHANGED vars
  <2>1. UNCHANGED <<entries, subs, queue, batch, cur, wstate>>
    BY <1>5 DEF Harden, vars
  <2>2. UnechoedKeys' = UnechoedKeys
    BY <2>1, UnechoedFrame
  <2> QED BY <2>1, <2>2 DEF WatchInv
<1>6. CASE Crash
  <2>1. subs' = [c \in Conns |-> [i \in Slots |-> NoSub]] /\ batch' = <<>>
    BY <1>6 DEF Crash, Restart
  <2>2. \A c \in Conns, i \in Slots : Tracked(subs'[c][i], UnechoedKeys', entries')
    BY <2>1, NoSubTracked
  <2> QED BY <2>1, <2>2 DEF WatchInv
<1> QED BY <1>1, <1>2, <1>3, <1>4, <1>5, <1>6 DEF Next

(* Nothing falls between the snapshot of KV_OPEN, encoded off the lock,    *)
(* and the updates queued behind it, nor between a DURABLE mutation and    *)
(* the echo its commit owes: a live watch that applied what it was sent    *)
(* holds the store's current entry of every key that owes no echo, with    *)
(* failed commits, disconnections and crashes.                             *)
THEOREM WatchesTrack == Spec => []WatchTracksStore
<1>1. Init => WatchInv
  <2> SUFFICES ASSUME Init PROVE WatchInv
    OBVIOUS
  <2>1. subs = [c \in Conns |-> [i \in Slots |-> NoSub]] /\ batch = <<>>
    BY DEF Init
  <2> QED BY <2>1, NoSubTracked DEF WatchInv
<1>2. WatchInv => WatchTracksStore
  BY DEF WatchInv, Tracked, Leads, WatchTracksStore
<1> QED BY <1>1, <1>2, TypeInit, TypeStep, WatchStep, PTL DEF Spec
=============================================================================
