--------------------------- MODULE EventLogProofs ---------------------------
(***************************************************************************)
(* Theorems about EventLog: what a stream holds and what it says it missed *)
(* account for every record, and a recording that ends has everything made *)
(* before its stop was asked for. For any sizes of records and rings, any  *)
(* number of producers and any capacity of the channel.                    *)
(***************************************************************************)
EXTENDS EventLog, FiniteSetTheorems, WellFoundedInduction, SequenceTheorems, TLAPS

-----------------------------------------------------------------------------
(* The inductive invariant *)

Records == 1..Len(SizeOf)
Item == [missing : Nat, records : Seq(Records)]
States == {"none", "opening", "recv", "fill", "write", "drain", "drainWrite",
           "refused", "stopped", "failed", "aborted"}
Running == {"recv", "fill", "write", "drain", "drainWrite"}

Follower ==
  [st : States, kind : {"client", "file"}, history : BOOLEAN, from : Nat, dump : Item \cup {<<>>},
   next : Nat, batch : Seq(Records), pending : Records \cup {0}, hand : Seq(Item),
   out : Seq(Item), stop : BOOLEAN, asked : Nat]

EvTypeOK ==
  /\ ring \in [capacity : Nat, kept : Seq(Records), dropped : Nat]
  /\ nextSequence \in Nat \ {0} /\ taken \in [Producers -> Records \cup {0}]
  /\ order \in Seq(Records) /\ live \in Seq(Records)
  /\ follower \in Follower

(* A record is among the first of those the ring's lock ordered.           *)
Recorded(n, ord, upTo) == \E at \in 1..upTo : ord[at] = n

(* The ring keeps or has counted every record, once.                       *)
RingOK(r, ord) ==
  /\ r.dropped + Len(r.kept) = Len(ord)
  /\ \A i \in 1..Len(r.kept) : Recorded(r.kept[i], ord, Len(ord))

(* Nothing was broadcast before the stream began; since then everything    *)
(* was, while there was somebody to receive it.                            *)
LiveOK(f, lv, ord) ==
  /\ f.st = "none" => lv = <<>> /\ f.out = <<>>
  /\ f.from + Len(lv) =< Len(ord)
  /\ \A k \in 1..Len(lv) : lv[k] = ord[f.from + k]
  /\ f.st \notin Ended => f.from + Len(lv) = Len(ord)
  /\ 1 =< f.next /\ f.next =< Len(lv) + 1
  /\ f.asked =< Len(ord)

DumpOK(f, item, ord) ==
  /\ f.history => item.missing + Len(item.records) = f.from
  /\ \A i \in 1..Len(item.records) : Recorded(item.records[i], ord, f.from)

(* The records a sequence holds are those of the order behind a position.  *)
Follows(records, ord, upTo) ==
  /\ upTo + Len(records) =< Len(ord)
  /\ \A k \in 1..Len(records) : records[k] = ord[upTo + k]

OutOK(f, ord) ==
  f.out # <<>> => /\ DumpOK(f, f.out[1], ord)
                  /\ \A i \in 2..Len(f.out) : Follows(f.out[i].records, ord, UpTo(f, i - 1))

(* What the task has in hand follows what it has sent or written, and ends *)
(* where its receiver stands.                                              *)
HandOK(f, ord) ==
  /\ Told(f) + InHand(f) = f.from + f.next - 1
  /\ Follows(f.batch, ord, Told(f))
  /\ f.pending # 0 => f.batch = <<>> /\ f.hand = <<>> /\ Follows(<<f.pending>>, ord, Told(f))
  /\ Len(f.hand) =< 1
  /\ \A j \in 1..Len(f.hand) : Follows(f.hand[j].records, ord, Told(f))

(* Where in its task a stream has anything in hand.                        *)
TaskOK(f) ==
  /\ f.st # "fill" => f.batch = <<>>
  /\ f.st = "fill" => f.kind = "client" /\ f.pending = 0
  /\ f.st \notin {"write", "drainWrite"} => f.hand = <<>>
  /\ f.st \in {"write", "drainWrite"} => Len(f.hand) = 1
  /\ f.st \in {"write", "drain", "drainWrite"} => f.kind = "file"
  /\ f.kind = "file" => f.pending = 0

FollowerOK(f, ord) ==
  /\ f.st = "opening" => /\ f.out = <<>> /\ f.batch = <<>> /\ f.hand = <<>> /\ f.pending = 0
                         /\ f.next = 1 /\ f.dump \in Item /\ DumpOK(f, f.dump, ord)
  /\ f.st \in Running => f.out # <<>> /\ HandOK(f, ord) /\ TaskOK(f)
  /\ OutOK(f, ord)
  /\ f.st = "stopped" => Told(f) >= f.asked

EvInv ==
  EvTypeOK /\ RingOK(ring, order) /\ LiveOK(follower, live, order) /\ FollowerOK(follower, order)

-----------------------------------------------------------------------------
(* Sums *)

(* The units of a function on a finite set are finitely many.              *)
LEMMA UnitsFinite ==
  ASSUME NEW D, IsFiniteSet(D), NEW f \in [D -> Nat]
  PROVE  IsFiniteSet(Units(f)) /\ SumOf(f) \in Nat
<1> DEFINE Parts == {{x} \X (1..f[x]) : x \in D}
<1>1. \A x \in D : IsFiniteSet({x} \X (1..f[x]))
  <2> SUFFICES ASSUME NEW x \in D  PROVE IsFiniteSet({x} \X (1..f[x]))
    OBVIOUS
  <2>1. IsFiniteSet(1..f[x])
    BY FS_Interval
  <2> QED BY <2>1, FS_Singleton, FS_Product
<1>2. IsFiniteSet(Parts)
  <2> DEFINE g == [x \in D |-> {x} \X (1..f[x])]
  <2>1. g \in Surjection(D, Parts)
    BY DEF Surjection
  <2> QED BY <2>1, FS_Surjection
<1>3. DOMAIN f = D
  OBVIOUS
<1>4. IsFiniteSet(Units(f))
  BY <1>1, <1>2, <1>3, FS_UNION DEF Units
<1> QED BY <1>4, FS_CardinalityType DEF SumOf

(* One argument's units are as many as its value, and lie apart from the   *)
(* units of the others.                                                    *)
LEMMA SumSplit ==
  ASSUME NEW D, IsFiniteSet(D), NEW f \in [D -> Nat], NEW x \in D,
         NEW rest, rest = UNION {{y} \X (1..f[y]) : y \in D \ {x}}
  PROVE  IsFiniteSet(rest) /\ Cardinality(rest) \in Nat /\ SumOf(f) = Cardinality(rest) + f[x]
<1> DEFINE own == {x} \X (1..f[x])
<1>1. f[x] \in Nat /\ DOMAIN f = D
  OBVIOUS
<1>2. Units(f) = rest \cup own
  BY <1>1 DEF Units
<1>3. rest \cap own = {}
  OBVIOUS
<1>4. IsFiniteSet(rest)
  BY <1>2, UnitsFinite, FS_Subset
<1>5. IsFiniteSet(own) /\ Cardinality(own) = f[x]
  <2>1. IsFiniteSet(1..f[x]) /\ Cardinality(1..f[x]) = f[x]
    BY <1>1, FS_Interval
  <2>2. IsFiniteSet({x}) /\ Cardinality({x}) = 1
    BY FS_Singleton
  <2>3. IsFiniteSet(own) /\ Cardinality(own) = 1 * f[x]
    BY <2>1, <2>2, FS_Product, ZenonT(60)
  <2> QED BY <1>1, <2>3
<1> HIDE DEF own
<1>6. Cardinality(rest \cup own) = Cardinality(rest) + Cardinality(own) - Cardinality(rest \cap own)
  BY <1>4, <1>5, FS_Union
<1>7. Cardinality(rest) \in Nat /\ Cardinality({}) = 0
  BY <1>4, FS_CardinalityType, FS_EmptySet
<1>8. SumOf(f) = Cardinality(rest \cup own) /\ Cardinality(rest \cap own) = 0
  BY <1>2, <1>3, <1>7 DEF SumOf
<1>9. \A a, b, c \in Nat : c = 0 => a + b - c = a + b
  OBVIOUS
<1>10. SumOf(f) = Cardinality(rest) + f[x]
  BY <1>1, <1>5, <1>6, <1>7, <1>8, <1>9
<1> QED BY <1>4, <1>7, <1>10

(* A sum over nothing, of an empty sequence among others.                  *)
LEMMA SumOfNothing ==
  ASSUME NEW f, DOMAIN f = {}
  PROVE  SumOf(f) = 0
<1>1. Units(f) = {}
  BY DEF Units
<1> QED BY <1>1, FS_EmptySet DEF SumOf

LEMMA SumOfEmpty ==
  SumOf(<<>>) = 0
<1>1. DOMAIN <<>> = {}
  OBVIOUS
<1> QED BY <1>1, SumOfNothing

(* The least element of a set of numbers is one of them.                   *)
LEMMA MinIsMember ==
  ASSUME NEW S, S \subseteq Nat, S # {}
  PROVE  Min(S) \in S
<1> DEFINE Less == {ss \in Nat \X Nat : ss[1] < ss[2]}
<1>1. IsWellFoundedOn(Less, Nat)
  BY NatLessThanWellFounded DEF OpToRel
<1>2. PICK x \in S : \A y \in S : <<y, x>> \notin Less
  BY <1>1, WFMin
<1>3. ASSUME NEW y \in S  PROVE x =< y
  <2>1. x \in Nat /\ y \in Nat
    OBVIOUS
  <2>2. <<y, x>> \in Nat \X Nat /\ <<y, x>>[1] = y /\ <<y, x>>[2] = x
    BY <2>1
  <2> QED BY <1>2, <2>1, <2>2
<1> QED BY <1>3 DEF Min

(* A sequence of numbers that grows by one has a sum that grows by it.     *)
LEMMA SumGrows ==
  ASSUME NEW m \in Nat, m >= 1, NEW f \in [2..m -> Nat], NEW g \in [2..(m + 1) -> Nat],
         \A j \in 2..m : g[j] = f[j]
  PROVE  SumOf(f) \in Nat /\ SumOf(g) \in Nat /\ SumOf(g) = SumOf(f) + g[m + 1]
<1> DEFINE D == 2..(m + 1)
           rest == UNION {{y} \X (1..g[y]) : y \in D \ {m + 1}}
<1>1. D \ {m + 1} = 2..m /\ m + 1 \in D /\ DOMAIN f = 2..m
  OBVIOUS
<1>2. IsFiniteSet(D) /\ IsFiniteSet(2..m)
  BY FS_Interval
<1>3. rest = Units(f)
  BY <1>1 DEF Units
<1>4. SumOf(f) \in Nat
  BY <1>2, UnitsFinite
<1> HIDE DEF D
<1>5. g \in [D -> Nat]
  BY DEF D
<1>6. SumOf(g) = Cardinality(rest) + g[m + 1]
  BY <1>1, <1>2, <1>5, SumSplit, SMTT(30)
<1>7. g[m + 1] \in Nat
  BY <1>1, <1>5
<1>8. SumOf(f) = Cardinality(rest)
  BY <1>3 DEF SumOf
<1> HIDE DEF rest
<1> QED BY <1>4, <1>6, <1>7, <1>8

(* The sum of a sequence of one number.                                    *)
LEMMA SumOfOne ==
  ASSUME NEW f \in [{1} -> Nat]
  PROVE  SumOf(f) = f[1]
<1> DEFINE rest == UNION {{y} \X (1..f[y]) : y \in {1} \ {1}}
<1>1. rest = {}
  OBVIOUS
<1>2. IsFiniteSet({1}) /\ Cardinality({}) = 0
  BY FS_Singleton, FS_EmptySet
<1>3. SumOf(f) = Cardinality(rest) + f[1]
  BY <1>2, SumSplit
<1> HIDE DEF rest
<1> QED BY <1>1, <1>2, <1>3

-----------------------------------------------------------------------------
(* The ring *)

(* The records at some of its positions are records of the sequence: the   *)
(* rank of a position among them is a bijection.                           *)
LEMMA RecordsAtType ==
  ASSUME NEW s \in Seq(Records), NEW P, P \subseteq 1..Len(s)
  PROVE  /\ Cardinality(P) \in Nat /\ Cardinality(P) =< Len(s)
         /\ RecordsAt(s, P) \in Seq(Records) /\ Len(RecordsAt(s, P)) = Cardinality(P)
         /\ \A i \in 1..Cardinality(P) : \E p \in 1..Len(s) : RecordsAt(s, P)[i] = s[p]
<1> DEFINE n == Cardinality(P)
           upTo(p) == {q \in P : q =< p}
           rank == [p \in P |-> Cardinality(upTo(p))]
<1>1. /\ Len(s) \in Nat /\ IsFiniteSet(1..Len(s)) /\ Cardinality(1..Len(s)) = Len(s)
  BY FS_Interval
<1>2. IsFiniteSet(P) /\ n \in Nat /\ n =< Len(s)
  BY <1>1, FS_Subset, FS_CardinalityType
<1>3. \A p \in P : IsFiniteSet(upTo(p)) /\ rank[p] \in Nat /\ rank[p] =< n
  <2> SUFFICES ASSUME NEW p \in P
               PROVE  IsFiniteSet(upTo(p)) /\ rank[p] \in Nat /\ rank[p] =< n
    OBVIOUS
  <2>1. upTo(p) \subseteq P
    OBVIOUS
  <2> QED BY <1>2, <2>1, FS_Subset, FS_CardinalityType
<1>4. \A p \in P : rank[p] >= 1
  <2> SUFFICES ASSUME NEW p \in P  PROVE rank[p] >= 1
    OBVIOUS
  <2>1. p \in upTo(p)
    OBVIOUS
  <2>2. rank[p] # 0
    BY <1>3, <2>1, FS_EmptySet
  <2>3. rank[p] \in Nat
    BY <1>3
  <2> HIDE DEF rank
  <2> QED BY <2>2, <2>3
<1>5. \A p, q \in P : p < q => rank[p] # rank[q]
  <2> SUFFICES ASSUME NEW p \in P, NEW q \in P, p < q  PROVE rank[p] # rank[q]
    OBVIOUS
  <2>1. upTo(p) \subseteq upTo(q) /\ q \in upTo(q) /\ q \notin upTo(p)
    <3>1. P \subseteq Int
      OBVIOUS
    <3>2. \A r \in P : r =< p => r =< q
      BY <3>1
    <3>3. q =< q /\ ~(q =< p)
      BY <3>1
    <3> QED BY <3>2, <3>3
  <2>2. upTo(p) # upTo(q)
    BY <2>1
  <2> QED BY <1>3, <2>1, <2>2, FS_Subset
<1>6. rank \in Injection(P, 1..n)
  <2>1. rank \in [P -> 1..n]
    <3>1. \A p \in P : rank[p] \in 1..n
      <4> SUFFICES ASSUME NEW p \in P  PROVE rank[p] \in 1..n
        OBVIOUS
      <4>1. rank[p] \in Nat /\ rank[p] =< n /\ rank[p] >= 1
        BY <1>3, <1>4
      <4> HIDE DEF rank, n
      <4> QED BY <1>2, <4>1
    <3> QED BY <3>1
  <2> HIDE DEF rank
  <2>2. \A p, q \in P : rank[p] = rank[q] => p = q
    <3>1. \A p, q \in P : p < q \/ q < p \/ p = q
      OBVIOUS
    <3> QED BY <1>5, <3>1
  <2> QED BY <2>1, <2>2 DEF Injection, IsInjective
<1>7. rank \in Surjection(P, 1..n)
  <2>1. IsFiniteSet(1..n) /\ Cardinality(1..n) = n
    BY <1>2, FS_Interval
  <2> HIDE DEF rank
  <2> QED BY <1>2, <1>6, <2>1, FS_Injection
<1>8. \A i \in 1..n : \E p \in P : Cardinality(upTo(p)) = i
  BY <1>7 DEF Surjection
<1> DEFINE at(i) == CHOOSE p \in P : Cardinality({q \in P : q =< p}) = i
<1>9. \A i \in 1..n : at(i) \in P
  BY <1>8
<1>10. RecordsAt(s, P) = [i \in 1..n |-> s[at(i)]]
  BY DEF RecordsAt
<1> HIDE DEF at
<1>11. \A i \in 1..n : at(i) \in 1..Len(s) /\ s[at(i)] \in Records
  <2> HIDE DEF n
  <2>1. \A p \in P : p \in 1..Len(s) /\ s[p] \in Records
    OBVIOUS
  <2> QED BY <1>9, <2>1
<1>12. RecordsAt(s, P) \in Seq(Records) /\ Len(RecordsAt(s, P)) = n
  BY <1>2, <1>10, <1>11
<1> QED BY <1>2, <1>10, <1>11, <1>12

(* The newest that fit are the end of a sequence, if there is room at all. *)
LEMMA NewestType ==
  ASSUME NEW s \in Seq(Records), NEW room \in Nat
  PROVE  /\ Newest(s, room) \in Seq(Records) /\ Len(Newest(s, room)) =< Len(s)
         /\ \A i \in 1..Len(Newest(s, room)) : \E p \in 1..Len(s) : Newest(s, room)[i] = s[p]
<1> DEFINE fits == {i \in 1..Len(s) + 1 : Bytes(SubSeq(s, i, Len(s))) =< room}
           m == Min(fits)
<1>1. Len(s) \in Nat
  OBVIOUS
<1>2. Len(s) + 1 \in fits
  <2>1. SubSeq(s, Len(s) + 1, Len(s)) = <<>>
    BY <1>1
  <2>2. Bytes(<<>>) = 0
    <3>1. [i \in DOMAIN <<>> |-> SizeOf[<<>>[i]]] = <<>>
      OBVIOUS
    <3> QED BY <3>1, SumOfEmpty DEF Bytes
  <2>3. Bytes(SubSeq(s, Len(s) + 1, Len(s))) =< room
    <3> DEFINE none == SubSeq(s, Len(s) + 1, Len(s))
    <3>1. none = <<>>
      BY <2>1
    <3> HIDE DEF none
    <3>2. Bytes(none) = 0
      BY <2>2, <3>1
    <3>3. Bytes(none) =< room
      BY <3>2
    <3> QED BY <3>3 DEF none
  <2> QED BY <1>1, <2>3
<1>3. m \in 1..Len(s) + 1
  <2>1. fits \subseteq Nat /\ fits \subseteq 1..Len(s) + 1
    BY <1>1
  <2> HIDE DEF fits
  <2> QED BY <1>2, <2>1, MinIsMember
<1>4. Newest(s, room) = SubSeq(s, m, Len(s))
  BY DEF Newest
<1> HIDE DEF m
<1>5. /\ SubSeq(s, m, Len(s)) \in Seq(Records)
      /\ Len(SubSeq(s, m, Len(s))) = Len(s) - m + 1
      /\ \A i \in 1..(Len(s) - m + 1) : SubSeq(s, m, Len(s))[i] = s[m + i - 1]
  BY <1>1, <1>3
<1>6. \A i \in 1..(Len(s) - m + 1) : m + i - 1 \in 1..Len(s)
  BY <1>1, <1>3
<1> QED BY <1>1, <1>3, <1>4, <1>5, <1>6

(* A record that is appended, and a replacement of the ring, lose nothing  *)
(* uncounted and invent nothing.                                           *)
LEMMA AppendToOK ==
  ASSUME NEW r \in [capacity : Nat, kept : Seq(Records), dropped : Nat], NEW n \in Records
  PROVE  /\ AppendTo(r, n) \in [capacity : Nat, kept : Seq(Records), dropped : Nat]
         /\ AppendTo(r, n).dropped + Len(AppendTo(r, n).kept) = r.dropped + Len(r.kept) + 1
         /\ \A i \in 1..Len(AppendTo(r, n).kept) :
              \/ AppendTo(r, n).kept[i] = n
              \/ \E p \in 1..Len(r.kept) : AppendTo(r, n).kept[i] = r.kept[p]
<1>1. SizeOf[n] \in Nat /\ r.capacity \in Nat /\ r.kept \in Seq(Records) /\ r.dropped \in Nat
      /\ Len(r.kept) \in Nat
  BY EvConstants DEF EvConstants, Records
<1>2. CASE SizeOf[n] > r.capacity
  <2> DEFINE more == r.dropped + 1
             t == [r EXCEPT !.dropped = more]
  <2>1. AppendTo(r, n) = t
    BY <1>2 DEF AppendTo
  <2>2. more \in Nat
    BY <1>1
  <2>3. t.kept = r.kept /\ t.dropped = more
    OBVIOUS
  <2>4. t \in [capacity : Nat, kept : Seq(Records), dropped : Nat]
    <3> HIDE DEF more
    <3> QED BY <2>2
  <2>5. t.dropped + Len(t.kept) = r.dropped + Len(r.kept) + 1
    BY <1>1, <2>3
  <2>6. \A i \in 1..Len(t.kept) : \E p \in 1..Len(r.kept) : t.kept[i] = r.kept[p]
    BY <2>3
  <2> HIDE DEF t
  <2> QED BY <2>1, <2>4, <2>5, <2>6
<1>3. CASE ~(SizeOf[n] > r.capacity)
  <2> DEFINE room == r.capacity - SizeOf[n]
             rest == Newest(r.kept, room)
             kept == Append(rest, n)
             gone == r.dropped + Len(r.kept) - Len(rest)
             t == [r EXCEPT !.kept = kept, !.dropped = gone]
  <2>1. AppendTo(r, n) = t
    BY <1>3 DEF AppendTo
  <2>2. room \in Nat
    BY <1>1, <1>3
  <2>3. /\ rest \in Seq(Records) /\ Len(rest) =< Len(r.kept)
        /\ \A i \in 1..Len(rest) : \E p \in 1..Len(r.kept) : rest[i] = r.kept[p]
    <3> HIDE DEF room
    <3> QED BY <1>1, <2>2, NewestType
  <2> HIDE DEF rest
  <2>4. /\ kept \in Seq(Records) /\ Len(kept) = Len(rest) + 1 /\ kept[Len(rest) + 1] = n
        /\ \A i \in 1..Len(rest) : kept[i] = rest[i]
    BY <2>3
  <2>5. gone \in Nat /\ Len(rest) \in Nat
    BY <1>1, <2>3
  <2> HIDE DEF kept
  <2>6. gone + Len(kept) = r.dropped + Len(r.kept) + 1
    BY <1>1, <2>4, <2>5
  <2> HIDE DEF gone
  <2>7. t.kept = kept /\ t.dropped = gone
    OBVIOUS
  <2>8. t \in [capacity : Nat, kept : Seq(Records), dropped : Nat]
    BY <2>4, <2>5
  <2>9. \A i \in 1..Len(kept) : kept[i] = n \/ \E p \in 1..Len(r.kept) : kept[i] = r.kept[p]
    <3> SUFFICES ASSUME NEW i \in 1..Len(kept)
                 PROVE  kept[i] = n \/ \E p \in 1..Len(r.kept) : kept[i] = r.kept[p]
      OBVIOUS
    <3>1. i \in 1..Len(rest) \/ i = Len(rest) + 1
      BY <2>4, <2>5
    <3> QED BY <2>3, <2>4, <3>1
  <2> HIDE DEF t
  <2> QED BY <2>1, <2>6, <2>7, <2>8, <2>9
<1> QED BY <1>2, <1>3

LEMMA ResizeOK ==
  ASSUME NEW r \in [capacity : Nat, kept : Seq(Records), dropped : Nat], NEW size \in Nat
  PROVE  /\ Resize(r, size) \in [capacity : Nat, kept : Seq(Records), dropped : Nat]
         /\ Resize(r, size).dropped + Len(Resize(r, size).kept) = r.dropped + Len(r.kept)
         /\ \A i \in 1..Len(Resize(r, size).kept) :
              \E p \in 1..Len(r.kept) : Resize(r, size).kept[i] = r.kept[p]
<1>1. r.kept \in Seq(Records) /\ r.dropped \in Nat /\ Len(r.kept) \in Nat
      /\ DOMAIN r.kept = 1..Len(r.kept)
  OBVIOUS
<1>2. PICK stay : /\ stay \subseteq 1..Len(r.kept)
                  /\ Resize(r, size) = [capacity |-> size, kept |-> RecordsAt(r.kept, stay),
                                       dropped |-> r.dropped + Len(r.kept) - Cardinality(stay)]
  <2> DEFINE fits == {i \in DOMAIN r.kept : SizeOf[r.kept[i]] =< size}
             stay == {i \in fits : SumOf([j \in {h \in fits : h >= i} |-> SizeOf[r.kept[j]]]) =< size}
  <2>1. Resize(r, size) = [capacity |-> size, kept |-> RecordsAt(r.kept, stay),
                           dropped |-> r.dropped + Len(r.kept) - Cardinality(stay)]
    BY DEF Resize
  <2>2. stay \subseteq 1..Len(r.kept)
    BY <1>1
  <2> HIDE DEF stay
  <2> QED BY <2>1, <2>2
<1> DEFINE kept == RecordsAt(r.kept, stay)
           gone == r.dropped + Len(r.kept) - Cardinality(stay)
<1>3. /\ Cardinality(stay) \in Nat /\ Cardinality(stay) =< Len(r.kept)
      /\ kept \in Seq(Records) /\ Len(kept) = Cardinality(stay)
      /\ \A i \in 1..Cardinality(stay) : \E p \in 1..Len(r.kept) : kept[i] = r.kept[p]
  <2> DEFINE s == r.kept
  <2>1. s \in Seq(Records) /\ stay \subseteq 1..Len(s)
    BY <1>1, <1>2
  <2> HIDE DEF s
  <2>2. /\ Cardinality(stay) \in Nat /\ Cardinality(stay) =< Len(s)
        /\ RecordsAt(s, stay) \in Seq(Records) /\ Len(RecordsAt(s, stay)) = Cardinality(stay)
        /\ \A i \in 1..Cardinality(stay) : \E p \in 1..Len(s) : RecordsAt(s, stay)[i] = s[p]
    BY <2>1, RecordsAtType
  <2> QED BY <2>2 DEF s
<1>4. gone \in Nat
  BY <1>1, <1>3
<1>5. gone + Len(kept) = r.dropped + Len(r.kept)
  BY <1>1, <1>3
<1>6. Resize(r, size) = [capacity |-> size, kept |-> kept, dropped |-> gone]
  BY <1>2
<1> HIDE DEF kept, gone
<1> QED BY <1>3, <1>4, <1>5, <1>6

-----------------------------------------------------------------------------
(* Positions *)

(* Items account for a number of records, and so do several in a row.      *)
LEMMA UpToType ==
  ASSUME NEW f, f.from \in Nat, f.out \in Seq(Item), NEW i \in Nat, i =< Len(f.out)
  PROVE  UpTo(f, i) \in Nat /\ f.from =< UpTo(f, i)
<1> DEFINE h == [j \in 2..i |-> Accounted(f.out[j])]
<1>1. h \in [2..i -> Nat]
  <2>1. \A x \in Item : Accounted(x) \in Nat
    BY DEF Accounted, Item
  <2>2. \A j \in 2..i : f.out[j] \in Item
    OBVIOUS
  <2> QED BY <2>1, <2>2
<1>2. IsFiniteSet(2..i)
  BY FS_Interval
<1> HIDE DEF h
<1>3. SumOf(h) \in Nat
  BY <1>1, <1>2, UnitsFinite
<1> QED BY <1>3 DEF UpTo, h

(* An item that is appended accounts for what follows the items before it. *)
LEMMA OutGrows ==
  ASSUME NEW f, NEW g, NEW item \in Item, f.from \in Nat, f.out \in Seq(Item), f.out # <<>>,
         g.from = f.from, g.out = Append(f.out, item)
  PROVE  /\ Told(f) \in Nat /\ Told(g) = Told(f) + Accounted(item)
         /\ g.out \in Seq(Item) /\ g.out # <<>> /\ g.out[1] = f.out[1]
         /\ Len(g.out) = Len(f.out) + 1 /\ g.out[Len(f.out) + 1] = item
         /\ \A i \in 1..Len(f.out) : g.out[i] = f.out[i] /\ UpTo(g, i) = UpTo(f, i)
<1> DEFINE n == Len(f.out)
<1>1. n \in Nat /\ n >= 1
  OBVIOUS
<1>2. /\ g.out \in Seq(Item) /\ g.out # <<>> /\ Len(g.out) = n + 1 /\ g.out[n + 1] = item
      /\ \A i \in 1..n : g.out[i] = f.out[i]
  OBVIOUS
<1>3. \A i \in 1..n : UpTo(g, i) = UpTo(f, i)
  <2> SUFFICES ASSUME NEW i \in 1..n  PROVE UpTo(g, i) = UpTo(f, i)
    OBVIOUS
  <2>1. [j \in 2..i |-> Accounted(g.out[j])] = [j \in 2..i |-> Accounted(f.out[j])]
    BY <1>1, <1>2
  <2> QED BY <2>1 DEF UpTo
<1>4. Told(g) = Told(f) + Accounted(item) /\ Told(f) \in Nat
  <2> DEFINE h == [j \in 2..n |-> Accounted(f.out[j])]
             k == [j \in 2..(n + 1) |-> Accounted(g.out[j])]
  <2>1. \A x \in Item : Accounted(x) \in Nat
    BY SMTT(30) DEF Accounted, Item
  <2>2. \A j \in 2..n : f.out[j] \in Item /\ g.out[j] = f.out[j]
    BY <1>1, <1>2
  <2>3. h \in [2..n -> Nat]
    BY <2>1, <2>2
  <2>4. \A j \in 2..(n + 1) : g.out[j] \in Item
    BY <1>1, <1>2
  <2>5. k \in [2..(n + 1) -> Nat] /\ \A j \in 2..n : k[j] = h[j]
    BY <1>1, <2>1, <2>2, <2>4, SMTT(30)
  <2>6. k[n + 1] = Accounted(item)
    BY <1>1, <1>2
  <2> HIDE DEF h, k, n
  <2>7. SumOf(h) \in Nat /\ SumOf(k) = SumOf(h) + k[n + 1]
    BY <1>1, <2>3, <2>5, SumGrows
  <2>8. Told(f) = f.from + SumOf(h)
    BY DEF Told, UpTo, h, n
  <2>9. Told(g) = f.from + SumOf(k)
    BY <1>2 DEF Told, UpTo, k
  <2>10. Accounted(item) \in Nat
    BY <2>1
  <2> QED BY <2>6, <2>7, <2>8, <2>9, <2>10
<1> QED BY <1>1, <1>2, <1>3, <1>4

(* A stream's items stay in place when one is added that follows them.     *)
LEMMA OutOKGrows ==
  ASSUME NEW f, NEW g, NEW ord, NEW item \in Item,
         f.from \in Nat, f.out \in Seq(Item), f.out # <<>>, OutOK(f, ord),
         g.from = f.from, g.history = f.history, g.out = Append(f.out, item),
         Follows(item.records, ord, Told(f))
  PROVE  OutOK(g, ord)
<1> DEFINE n == Len(f.out)
<1>1. /\ n \in Nat /\ n >= 1 /\ g.out # <<>> /\ g.out[1] = f.out[1]
      /\ Len(g.out) = n + 1 /\ g.out[n + 1] = item
      /\ \A i \in 1..n : g.out[i] = f.out[i] /\ UpTo(g, i) = UpTo(f, i)
  <2>1. n \in Nat /\ n >= 1
    OBVIOUS
  <2>2. /\ g.out # <<>> /\ g.out[1] = f.out[1]
        /\ Len(g.out) = Len(f.out) + 1 /\ g.out[Len(f.out) + 1] = item
        /\ \A i \in 1..Len(f.out) : g.out[i] = f.out[i] /\ UpTo(g, i) = UpTo(f, i)
    BY OutGrows, ZenonT(60)
  <2> QED BY <2>1, <2>2
<1>2. DumpOK(g, g.out[1], ord)
  BY <1>1 DEF OutOK, DumpOK
<1>3. ASSUME NEW i \in 2..Len(g.out)
      PROVE  Follows(g.out[i].records, ord, UpTo(g, i - 1))
  <2>1. CASE i \in 2..n
    <3>1. i - 1 \in 1..n /\ i \in 1..n
      BY <1>1, <2>1
    <3>2. UpTo(g, i - 1) = UpTo(f, i - 1) /\ g.out[i] = f.out[i]
      BY <1>1, <3>1
    <3>3. Follows(f.out[i].records, ord, UpTo(f, i - 1))
      BY <2>1 DEF OutOK
    <3> QED BY <3>2, <3>3
  <2>2. CASE i = n + 1
    <3>1. i - 1 = n /\ n \in 1..n
      BY <1>1, <2>2
    <3>2. UpTo(g, i - 1) = Told(f) /\ g.out[i] = item
      BY <1>1, <2>2, <3>1 DEF Told
    <3> QED BY <3>2
  <2> QED BY <1>1, <2>1, <2>2
<1> QED BY <1>1, <1>2, <1>3 DEF OutOK

(* ... and leaves everything before it in place.                           *)
LEMMA ItemAdded ==
  ASSUME NEW f, NEW g, NEW ord, NEW item \in Item,
         f.from \in Nat, f.out \in Seq(Item), f.out # <<>>, OutOK(f, ord),
         g.from = f.from, g.history = f.history, g.out = Append(f.out, item),
         Follows(item.records, ord, Told(f))
  PROVE  /\ Told(g) = Told(f) + Accounted(item) /\ Told(g) \in Nat
         /\ g.out \in Seq(Item) /\ g.out # <<>> /\ OutOK(g, ord)
<1>1. Accounted(item) \in Nat
  BY DEF Accounted, Item
<1>2. /\ Told(f) \in Nat /\ Told(g) = Told(f) + Accounted(item)
      /\ g.out \in Seq(Item) /\ g.out # <<>>
  BY OutGrows
<1>3. OutOK(g, ord)
  BY OutOKGrows
<1> QED BY <1>1, <1>2, <1>3

(* What a stream has sent or written does not depend on its task.          *)
LEMMA SameOut ==
  ASSUME NEW f, NEW g, NEW ord, g.from = f.from, g.history = f.history, g.out = f.out
  PROVE  /\ Told(g) = Told(f) /\ \A i : UpTo(g, i) = UpTo(f, i)
         /\ OutOK(f, ord) => OutOK(g, ord)
<1>1. \A i : UpTo(g, i) = UpTo(f, i)
  BY DEF UpTo
<1>2. Told(g) = Told(f)
  BY <1>1 DEF Told
<1> QED BY <1>1, <1>2 DEF OutOK, DumpOK

(* A record at the end of the order moves nothing before it.               *)
LEMMA FollowsGrows ==
  ASSUME NEW s \in Seq(Records), NEW ord \in Seq(Records), NEW n \in Records, NEW upTo \in Nat,
         Follows(s, ord, upTo)
  PROVE  Follows(s, Append(ord, n), upTo)
<1>1. Len(s) \in Nat /\ Len(ord) \in Nat /\ upTo + Len(s) =< Len(ord)
      /\ \A k \in 1..Len(s) : s[k] = ord[upTo + k]
  BY DEF Follows
<1>2. Len(Append(ord, n)) = Len(ord) + 1 /\ \A i \in 1..Len(ord) : Append(ord, n)[i] = ord[i]
  OBVIOUS
<1>3. \A k \in 1..Len(s) : upTo + k \in 1..Len(ord)
  BY <1>1
<1> QED BY <1>1, <1>2, <1>3 DEF Follows

LEMMA RecordedGrows ==
  ASSUME NEW m, NEW ord \in Seq(Records), NEW n \in Records, NEW upTo \in Nat, upTo =< Len(ord),
         Recorded(m, ord, upTo)
  PROVE  /\ Recorded(m, Append(ord, n), upTo)
         /\ \A more \in Nat : more >= upTo => Recorded(m, Append(ord, n), more)
<1>1. PICK at \in 1..upTo : ord[at] = m
  BY DEF Recorded
<1>2. Append(ord, n)[at] = m
  BY <1>1
<1> QED BY <1>2 DEF Recorded

-----------------------------------------------------------------------------
(* Recording *)

(* The ring is replaced by one of another size.                            *)
LEMMA ConfigureKeeps ==
  ASSUME EvInv, NEW size \in RingSizes, Configure(size)
  PROVE  EvInv'
<1>1. /\ ring \in [capacity : Nat, kept : Seq(Records), dropped : Nat] /\ RingOK(ring, order)
      /\ ring' = Resize(ring, size) /\ UNCHANGED <<nextSequence, taken, order, live, follower>>
  BY DEF EvInv, EvTypeOK, Configure
<1>2. size \in Nat
  BY EvConstants DEF EvConstants
<1>3. /\ ring' \in [capacity : Nat, kept : Seq(Records), dropped : Nat]
      /\ ring'.dropped + Len(ring'.kept) = ring.dropped + Len(ring.kept)
      /\ \A i \in 1..Len(ring'.kept) : \E p \in 1..Len(ring.kept) : ring'.kept[i] = ring.kept[p]
  BY <1>1, <1>2, ResizeOK
<1>4. RingOK(ring', order)
  BY <1>1, <1>3 DEF RingOK
<1> QED BY <1>1, <1>3, <1>4 DEF EvInv, EvTypeOK

(* A producer takes the next number.                                       *)
LEMMA TakeSequenceKeeps ==
  ASSUME EvInv, NEW p \in Producers, TakeSequence(p)
  PROVE  EvInv'
<1>1. Len(SizeOf) \in Nat
  BY EvConstants DEF EvConstants
<1>2. /\ nextSequence \in Nat \ {0} /\ taken \in [Producers -> Records \cup {0}]
      /\ nextSequence =< Len(SizeOf)
      /\ taken' = [taken EXCEPT ![p] = nextSequence] /\ nextSequence' = nextSequence + 1
      /\ UNCHANGED <<ring, order, live, follower>>
  BY DEF EvInv, EvTypeOK, TakeSequence
<1>3. nextSequence \in Records
  BY <1>1, <1>2 DEF Records
<1>4. taken' \in [Producers -> Records \cup {0}] /\ nextSequence' \in Nat \ {0}
  BY <1>2, <1>3
<1> QED BY <1>2, <1>4 DEF EvInv, EvTypeOK

(* A record enters the ring, the order, and the channel if anybody is      *)
(* there.                                                                  *)
LEMMA RecordKeeps ==
  ASSUME EvInv, NEW p \in Producers, Record(p)
  PROVE  EvInv'
<1> DEFINE n == taken[p]
           f == follower
<1>1. /\ ring \in [capacity : Nat, kept : Seq(Records), dropped : Nat] /\ RingOK(ring, order)
      /\ order \in Seq(Records) /\ live \in Seq(Records) /\ f \in Follower
      /\ taken \in [Producers -> Records \cup {0}] /\ n \in Records
      /\ LiveOK(f, live, order) /\ FollowerOK(f, order)
      /\ ring' = AppendTo(ring, n) /\ order' = Append(order, n)
      /\ live' = IF Received THEN Append(live, n) ELSE live
      /\ taken' = [taken EXCEPT ![p] = 0]
      /\ UNCHANGED <<nextSequence, follower>>
  BY DEF EvInv, EvTypeOK, Record
<1>2. /\ order' \in Seq(Records) /\ Len(order) \in Nat /\ Len(order') = Len(order) + 1
      /\ order'[Len(order) + 1] = n /\ \A i \in 1..Len(order) : order'[i] = order[i]
  BY <1>1
<1>3. f.from \in Nat /\ f.out \in Seq(Item) /\ f.batch \in Seq(Records) /\ f.hand \in Seq(Item)
      /\ f.pending \in Records \cup {0} /\ Len(live) \in Nat /\ f.asked \in Nat
      /\ f.next \in Nat
  BY <1>1 DEF Follower
<1>4. f.from =< Len(order)
  BY <1>1, <1>2, <1>3, SMTT(30) DEF LiveOK
<1>5. /\ ring' \in [capacity : Nat, kept : Seq(Records), dropped : Nat]
      /\ RingOK(ring', order')
  <2>1. /\ ring' \in [capacity : Nat, kept : Seq(Records), dropped : Nat]
        /\ ring'.dropped + Len(ring'.kept) = ring.dropped + Len(ring.kept) + 1
        /\ \A i \in 1..Len(ring'.kept) :
             ring'.kept[i] = n \/ \E q \in 1..Len(ring.kept) : ring'.kept[i] = ring.kept[q]
    BY <1>1, AppendToOK
  <2>2. \A q \in 1..Len(ring.kept) : Recorded(ring.kept[q], order', Len(order'))
    <3> SUFFICES ASSUME NEW q \in 1..Len(ring.kept)
                 PROVE  Recorded(ring.kept[q], order', Len(order'))
      OBVIOUS
    <3>1. Recorded(ring.kept[q], order, Len(order))
      BY <1>1 DEF RingOK
    <3>2. Len(order) =< Len(order) /\ Len(order') \in Nat /\ Len(order') >= Len(order)
      BY <1>2
    <3> HIDE DEF n
    <3> QED BY <1>1, <1>2, <3>1, <3>2, RecordedGrows
  <2>3. Recorded(n, order', Len(order'))
    BY <1>2 DEF Recorded
  <2>4. ring'.dropped + Len(ring'.kept) = Len(order')
    BY <1>1, <1>2, <2>1 DEF RingOK
  <2> QED BY <2>1, <2>2, <2>3, <2>4 DEF RingOK
<1>6. live' \in Seq(Records) /\ LiveOK(f, live', order')
  <2>1. /\ f.from + Len(live) =< Len(order) /\ \A k \in 1..Len(live) : live[k] = order[f.from + k]
        /\ f.asked =< Len(order) /\ 1 =< f.next /\ f.next =< Len(live) + 1
        /\ f.st \notin Ended => f.from + Len(live) = Len(order)
        /\ f.st = "none" => live = <<>> /\ f.out = <<>>
    BY <1>1 DEF LiveOK
  <2>2. \A k \in 1..Len(live) : f.from + k \in 1..Len(order)
    BY <1>2, <1>3, <2>1, SMTT(30)
  <2>3. \A k \in 1..Len(live) : live[k] = order'[f.from + k]
    BY <1>2, <2>1, <2>2
  <2>4. CASE Received
    <3>1. /\ live' \in Seq(Records) /\ Len(live') = Len(live) + 1 /\ live'[Len(live) + 1] = n
          /\ \A k \in 1..Len(live) : live'[k] = live[k]
      BY <1>1, <2>4
    <3>2. f.from + Len(live) = Len(order) /\ f.st # "none"
      BY <2>1, <2>4 DEF Received, Ended
    <3>3. \A k \in 1..Len(live') : live'[k] = order'[f.from + k]
      <4> SUFFICES ASSUME NEW k \in 1..Len(live')  PROVE live'[k] = order'[f.from + k]
        OBVIOUS
      <4>1. CASE k \in 1..Len(live)
        BY <2>3, <3>1, <4>1
      <4>2. CASE k = Len(live) + 1
        <5>1. f.from + k = Len(order) + 1
          <6> HIDE DEF f
          <6> QED BY <1>2, <1>3, <3>2, <4>2, SMTT(30)
        <5>2. live'[k] = n
          BY <3>1, <4>2
        <5>3. order'[f.from + k] = n
          BY <1>2, <5>1
        <5> QED BY <5>2, <5>3
      <4> QED BY <1>3, <3>1, <4>1, <4>2
    <3>4. f.from + Len(live') = Len(order')
      <4>1. f.from + Len(live) + 1 = f.from + (Len(live) + 1)
        <5>1. \A a, b \in Nat : a + b + 1 = a + (b + 1)
          OBVIOUS
        <5> QED BY <1>3, <5>1
      <4> HIDE DEF f, n
      <4> QED BY <1>2, <3>1, <3>2, <4>1
    <3>5. f.asked =< Len(order') /\ f.next =< Len(live') + 1 /\ f.from + Len(live') =< Len(order')
      BY <1>2, <1>3, <2>1, <3>1, <3>4, SMTT(30)
    <3> QED BY <2>1, <3>1, <3>2, <3>3, <3>4, <3>5 DEF LiveOK
  <2>5. CASE ~Received
    <3>1. live' = live /\ f.st \in Ended
      BY <1>1, <2>5 DEF Received
    <3>2. f.asked =< Len(order') /\ f.from + Len(live) =< Len(order')
      BY <1>2, <1>3, <2>1, SMTT(30)
    <3> QED BY <1>1, <2>1, <2>3, <3>1, <3>2 DEF LiveOK
  <2> QED BY <2>4, <2>5
<1>7. \A s \in Seq(Records), u \in Nat : Follows(s, order, u) => Follows(s, order', u)
  BY <1>1, FollowsGrows
<1>8. \A item \in Item : DumpOK(f, item, order) => DumpOK(f, item, order')
  BY <1>1, <1>3, <1>4, RecordedGrows DEF DumpOK
<1>9. OutOK(f, order')
  <2> SUFFICES ASSUME f.out # <<>>
               PROVE  /\ DumpOK(f, f.out[1], order')
                      /\ \A i \in 2..Len(f.out) : Follows(f.out[i].records, order', UpTo(f, i - 1))
    BY DEF OutOK
  <2>1. f.out[1] \in Item /\ OutOK(f, order)
    BY <1>1, <1>3 DEF FollowerOK
  <2>2. ASSUME NEW i \in 2..Len(f.out)
        PROVE  Follows(f.out[i].records, order', UpTo(f, i - 1))
    <3>1. f.out[i] \in Item /\ i - 1 \in Nat /\ i - 1 =< Len(f.out)
      BY <1>3
    <3>2. f.out[i].records \in Seq(Records) /\ UpTo(f, i - 1) \in Nat
      BY <1>3, <3>1, UpToType DEF Item
    <3>3. Follows(f.out[i].records, order, UpTo(f, i - 1))
      BY <2>1 DEF OutOK
    <3> QED BY <1>7, <3>2, <3>3
  <2> QED BY <1>8, <2>1, <2>2 DEF OutOK
<1>10. f.st \in Running => HandOK(f, order')
  <2> SUFFICES ASSUME f.st \in Running  PROVE HandOK(f, order')
    OBVIOUS
  <2>1. HandOK(f, order) /\ f.out # <<>>
    BY <1>1 DEF FollowerOK
  <2>2. Told(f) \in Nat
    <3>1. Len(f.out) \in Nat /\ Len(f.out) =< Len(f.out)
      BY <1>3
    <3> QED BY <1>3, <3>1, UpToType DEF Told
  <2>3. Follows(f.batch, order', Told(f))
    BY <1>3, <1>7, <2>1, <2>2 DEF HandOK
  <2>4. f.pending # 0 => Follows(<<f.pending>>, order', Told(f))
    <3>1. f.pending # 0 => <<f.pending>> \in Seq(Records)
      BY <1>3
    <3> QED BY <1>7, <2>1, <2>2, <3>1 DEF HandOK
  <2>5. \A j \in 1..Len(f.hand) : Follows(f.hand[j].records, order', Told(f))
    <3>1. \A j \in 1..Len(f.hand) : f.hand[j].records \in Seq(Records)
      <4>1. \A j \in 1..Len(f.hand) : f.hand[j] \in Item
        BY <1>3
      <4> QED BY <4>1 DEF Item
    <3> QED BY <1>7, <2>1, <2>2, <3>1 DEF HandOK
  <2> QED BY <2>1, <2>3, <2>4, <2>5 DEF HandOK
<1>11. FollowerOK(f, order')
  BY <1>1, <1>8, <1>9, <1>10 DEF FollowerOK
<1>12. taken' \in [Producers -> Records \cup {0}]
  BY <1>1
<1> QED BY <1>1, <1>2, <1>5, <1>6, <1>11, <1>12 DEF EvInv, EvTypeOK

-----------------------------------------------------------------------------
(* The stream's task *)

(* What is in hand, when no item is and when one is.                       *)
LEMMA HandNone ==
  ASSUME NEW f, f.hand = <<>>, f.batch \in Seq(Records)
  PROVE  /\ f.pending = 0 => InHand(f) = Len(f.batch)
         /\ f.pending # 0 => InHand(f) = Len(f.batch) + 1
<1>1. [j \in DOMAIN f.hand |-> Accounted(f.hand[j])] = <<>>
  OBVIOUS
<1>2. SumOf([j \in DOMAIN f.hand |-> Accounted(f.hand[j])]) = 0
  BY <1>1, SumOfEmpty
<1>3. Len(f.batch) \in Nat
  OBVIOUS
<1>4. \A a \in Nat : a + 0 + 0 = a /\ a + 1 + 0 = a + 1
  OBVIOUS
<1>5. ASSUME f.pending = 0  PROVE InHand(f) = Len(f.batch)
  <2>1. InHand(f) = Len(f.batch) + 0 + 0
    BY <1>2, <1>5 DEF InHand
  <2> QED BY <1>3, <1>4, <2>1
<1>6. ASSUME f.pending # 0  PROVE InHand(f) = Len(f.batch) + 1
  <2>1. InHand(f) = Len(f.batch) + 1 + 0
    BY <1>2, <1>6 DEF InHand
  <2> QED BY <1>3, <1>4, <2>1
<1> QED BY <1>5, <1>6

LEMMA HandOne ==
  ASSUME NEW f, f.hand \in Seq(Item), Len(f.hand) = 1, f.batch = <<>>, f.pending = 0
  PROVE  f.hand[1] \in Item /\ InHand(f) = Accounted(f.hand[1]) /\ InHand(f) \in Nat
<1> DEFINE h == [j \in DOMAIN f.hand |-> Accounted(f.hand[j])]
<1>1. f.hand[1] \in Item /\ DOMAIN f.hand = {1}
  OBVIOUS
<1>2. Accounted(f.hand[1]) \in Nat
  BY <1>1 DEF Accounted, Item
<1>3. h \in [{1} -> Nat] /\ h[1] = Accounted(f.hand[1])
  BY <1>1, <1>2
<1>4. SumOf(h) = Accounted(f.hand[1])
  <2> HIDE DEF h
  <2> QED BY <1>3, SumOfOne
<1>5. InHand(f) = 0 + 0 + SumOf(h)
  BY DEF InHand
<1> HIDE DEF h
<1> QED BY <1>1, <1>2, <1>4, <1>5

(* What the two items of the model hold.                                   *)
LEMMA Items ==
  /\ \A n \in Nat : /\ Missing(n) \in Item /\ Accounted(Missing(n)) = n
                    /\ Missing(n).records = <<>>
  /\ \A s \in Seq(Records) : /\ Holding(s) \in Item /\ Accounted(Holding(s)) = Len(s)
                             /\ Holding(s).records = s
<1>1. ASSUME NEW n \in Nat
      PROVE  Missing(n) \in Item /\ Accounted(Missing(n)) = n /\ Missing(n).records = <<>>
  <2>1. Missing(n).missing = n /\ Missing(n).records = <<>>
    BY DEF Missing
  <2>2. Missing(n) \in Item
    BY DEF Missing, Item
  <2>3. Accounted(Missing(n)) = n + 0
    BY <2>1 DEF Accounted
  <2> QED BY <2>1, <2>2, <2>3
<1>2. ASSUME NEW s \in Seq(Records)
      PROVE  Holding(s) \in Item /\ Accounted(Holding(s)) = Len(s) /\ Holding(s).records = s
  <2>1. Holding(s).missing = 0 /\ Holding(s).records = s
    BY DEF Holding
  <2>2. Holding(s) \in Item
    BY DEF Holding, Item
  <2>3. Accounted(Holding(s)) = 0 + Len(s) /\ Len(s) \in Nat
    BY <2>1 DEF Accounted
  <2> QED BY <2>1, <2>2, <2>3
<1> QED BY <1>1, <1>2

(* No record, and the record the receiver is about to read, follow the     *)
(* position the receiver stands at.                                        *)
LEMMA EmptyFollows ==
  ASSUME NEW ord \in Seq(Records), NEW u \in Nat, u =< Len(ord)
  PROVE  Follows(<<>>, ord, u)
<1>1. Len(ord) \in Nat /\ u + Len(<<>>) = u
  OBVIOUS
<1> QED BY <1>1 DEF Follows

LEMMA OneFollows ==
  ASSUME NEW ord \in Seq(Records), NEW u \in Nat, u + 1 =< Len(ord), NEW n, n = ord[u + 1]
  PROVE  Follows(<<n>>, ord, u)
<1>1. Len(<<n>>) = 1 /\ <<n>>[1] = n
  OBVIOUS
<1>2. \A k \in 1..1 : <<n>>[k] = ord[u + k]
  BY <1>1
<1> QED BY <1>1, <1>2 DEF Follows

(* A record joins those that already follow.                               *)
LEMMA MoreFollows ==
  ASSUME NEW ord \in Seq(Records), NEW u \in Nat, NEW s \in Seq(Records), Follows(s, ord, u),
         u + Len(s) + 1 =< Len(ord), NEW n, n = ord[u + Len(s) + 1]
  PROVE  Follows(Append(s, n), ord, u)
<1> DEFINE t == Append(s, n)
           m == Len(s)
<1>1. m \in Nat /\ Len(t) = m + 1 /\ t[m + 1] = n /\ \A k \in 1..m : t[k] = s[k]
  OBVIOUS
<1>2. u + m =< Len(ord) /\ \A k \in 1..m : s[k] = ord[u + k]
  BY DEF Follows
<1>3. n = ord[u + m + 1] /\ u + m + 1 =< Len(ord)
  OBVIOUS
<1> HIDE DEF t, m
<1>4. u + Len(t) =< Len(ord)
  BY <1>1, <1>3
<1>5. ASSUME NEW k \in 1..Len(t)  PROVE t[k] = ord[u + k]
  <2>1. CASE k \in 1..m
    BY <1>1, <1>2, <2>1
  <2>2. CASE k = m + 1
    <3>1. u + k = u + m + 1
      BY <1>1, <2>2
    <3> QED BY <1>1, <1>3, <2>2, <3>1
  <2> QED BY <1>1, <2>1, <2>2
<1>6. Follows(t, ord, u)
  BY <1>4, <1>5 DEF Follows
<1> QED BY <1>6 DEF t

(* What is known of a stream whose task runs.                              *)
LEMMA RunningFacts ==
  ASSUME EvInv, follower.st \in Running
  PROVE  /\ follower \in Follower /\ order \in Seq(Records) /\ live \in Seq(Records)
         /\ follower.from \in Nat /\ follower.next \in Nat /\ follower.asked \in Nat
         /\ follower.out \in Seq(Item) /\ follower.out # <<>>
         /\ follower.batch \in Seq(Records) /\ follower.hand \in Seq(Item)
         /\ follower.pending \in Records \cup {0}
         /\ Len(live) \in Nat /\ Len(order) \in Nat /\ Told(follower) \in Nat
         /\ follower.from + Len(live) = Len(order)
         /\ \A k \in 1..Len(live) : live[k] = order[follower.from + k]
         /\ 1 =< follower.next /\ follower.next =< Len(live) + 1 /\ follower.asked =< Len(order)
         /\ OutOK(follower, order) /\ HandOK(follower, order) /\ TaskOK(follower)
         /\ follower.st \notin Ended
<1>1. /\ follower \in Follower /\ order \in Seq(Records) /\ live \in Seq(Records)
      /\ LiveOK(follower, live, order) /\ FollowerOK(follower, order)
  BY DEF EvInv, EvTypeOK
<1>2. /\ follower.from \in Nat /\ follower.next \in Nat /\ follower.asked \in Nat
      /\ follower.out \in Seq(Item) /\ follower.batch \in Seq(Records)
      /\ follower.hand \in Seq(Item) /\ follower.pending \in Records \cup {0}
  BY <1>1 DEF Follower
<1>3. Len(live) \in Nat /\ Len(order) \in Nat
  BY <1>1
<1>4. Told(follower) \in Nat
  <2>1. Len(follower.out) \in Nat /\ Len(follower.out) =< Len(follower.out)
    BY <1>2
  <2> QED BY <1>2, <2>1, UpToType DEF Told
<1>5. follower.st \notin Ended
  BY DEF Running, Ended
<1> QED BY <1>1, <1>2, <1>3, <1>4, <1>5 DEF LiveOK, FollowerOK

(* A step of the stream alone.                                             *)
LEMMA StreamStep ==
  ASSUME EvInv, follower.st \notin Ended, UNCHANGED <<ring, nextSequence, taken, order, live>>,
         follower' \in Follower, follower'.st # "none", follower'.from = follower.from,
         follower'.asked =< Len(order), 1 =< follower'.next, follower'.next =< Len(live) + 1,
         FollowerOK(follower', order)
  PROVE  EvInv'
<1>1. LiveOK(follower', live, order)
  BY DEF EvInv, LiveOK
<1> QED BY <1>1 DEF EvInv, EvTypeOK

(* ... after which the task still runs.                                    *)
LEMMA StillRuns ==
  ASSUME EvInv, follower.st \notin Ended, UNCHANGED <<ring, nextSequence, taken, order, live>>,
         follower' \in Follower, follower'.st \in Running, follower'.from = follower.from,
         follower'.asked =< Len(order), 1 =< follower'.next, follower'.next =< Len(live) + 1,
         follower'.out # <<>>, OutOK(follower', order), HandOK(follower', order), TaskOK(follower')
  PROVE  EvInv'
<1>1. follower'.st \notin {"none", "opening", "stopped"}
  BY DEF Running
<1>2. FollowerOK(follower', order)
  BY <1>1 DEF FollowerOK
<1> QED BY <1>1, <1>2, StreamStep

(* What a task may have in hand: a batch or nothing, the record that opens *)
(* the next batch, or an item.                                             *)
LEMMA BatchInHand ==
  ASSUME NEW g, NEW ord \in Seq(Records), g.hand = <<>>, g.pending = 0, g.batch \in Seq(Records),
         g.from \in Nat, g.next \in Nat, Told(g) \in Nat, Follows(g.batch, ord, Told(g)),
         Told(g) + Len(g.batch) + 1 = g.from + g.next
  PROVE  HandOK(g, ord)
<1>1. InHand(g) = Len(g.batch) /\ Len(g.batch) \in Nat
  BY HandNone
<1>2. Told(g) + InHand(g) = g.from + g.next - 1
  BY <1>1, SMTT(30)
<1>3. Len(g.hand) = 0
  OBVIOUS
<1> QED BY <1>2, <1>3 DEF HandOK

LEMMA NothingInHand ==
  ASSUME NEW g, NEW ord \in Seq(Records), g.hand = <<>>, g.pending = 0, g.batch = <<>>,
         g.from \in Nat, g.next \in Nat, Told(g) \in Nat, Told(g) =< Len(ord),
         Told(g) + 1 = g.from + g.next
  PROVE  HandOK(g, ord)
<1>1. g.batch \in Seq(Records) /\ Len(g.batch) = 0
  OBVIOUS
<1>2. Follows(g.batch, ord, Told(g))
  BY EmptyFollows
<1>3. Told(g) + Len(g.batch) + 1 = g.from + g.next
  BY <1>1
<1> QED BY <1>1, <1>2, <1>3, BatchInHand

LEMMA RecordInHand ==
  ASSUME NEW g, NEW ord \in Seq(Records), g.hand = <<>>, g.pending \in Records, g.batch = <<>>,
         g.from \in Nat, g.next \in Nat, Told(g) \in Nat, Told(g) + 2 = g.from + g.next,
         Follows(<<g.pending>>, ord, Told(g))
  PROVE  HandOK(g, ord)
<1>1. g.pending # 0 /\ g.batch \in Seq(Records) /\ Len(g.batch) = 0 /\ Len(g.hand) = 0
  BY EvConstants DEF EvConstants, Records
<1>2. InHand(g) = 0 + 1
  BY <1>1, HandNone
<1>3. Told(g) + InHand(g) = g.from + g.next - 1
  BY <1>2
<1>4. Told(g) =< Len(ord)
  <2>1. Len(<<g.pending>>) = 1 /\ Len(ord) \in Nat
    OBVIOUS
  <2> QED BY <2>1 DEF Follows
<1>5. Follows(g.batch, ord, Told(g))
  BY <1>4, EmptyFollows
<1> QED BY <1>1, <1>3, <1>5 DEF HandOK

LEMMA ItemInHand ==
  ASSUME NEW g, NEW ord \in Seq(Records), NEW item \in Item, g.hand = <<item>>, g.pending = 0,
         g.batch = <<>>, g.from \in Nat, g.next \in Nat, Told(g) \in Nat,
         Follows(item.records, ord, Told(g)), Told(g) + Accounted(item) + 1 = g.from + g.next
  PROVE  HandOK(g, ord)
<1>1. g.hand \in Seq(Item) /\ Len(g.hand) = 1 /\ g.hand[1] = item
  OBVIOUS
<1>2. InHand(g) = Accounted(item) /\ InHand(g) \in Nat
  BY <1>1, HandOne
<1>3. Told(g) + InHand(g) = g.from + g.next - 1
  <2> DEFINE told == Told(g)
             n == InHand(g)
             from == g.from
             next == g.next
  <2>1. /\ told + n + 1 = from + next
        /\ told \in Nat /\ n \in Nat /\ from \in Nat /\ next \in Nat
    BY <1>2
  <2> HIDE DEF told, n, from, next
  <2>2. told + n = from + next - 1
    BY <2>1
  <2> QED BY <2>2 DEF told, n, from, next
<1>4. Told(g) =< Len(ord)
  <2>1. item.records \in Seq(Records) /\ Len(ord) \in Nat
    BY DEF Item
  <2>2. Len(item.records) \in Nat
    BY <2>1
  <2> QED BY <2>1, <2>2 DEF Follows
<1>5. Follows(g.batch, ord, Told(g))
  BY <1>4, EmptyFollows
<1>6. \A j \in 1..Len(g.hand) : Follows(g.hand[j].records, ord, Told(g))
  BY <1>1
<1> QED BY <1>1, <1>3, <1>5, <1>6 DEF HandOK

(* A task that waits for its receiver has sent everything before it.       *)
LEMMA Waiting ==
  ASSUME EvInv, follower.st \in {"recv", "drain"}, follower.pending = 0
  PROVE  /\ follower.batch = <<>> /\ follower.hand = <<>> /\ follower.st \in Running
         /\ Told(follower) + 1 = follower.from + follower.next
         /\ Told(follower) =< Len(order)
<1>1. follower.st \in Running
  BY DEF Running
<1>2. follower.batch = <<>> /\ follower.hand = <<>>
  BY <1>1, RunningFacts DEF TaskOK
<1>3. InHand(follower) = 0
  <2>1. follower.batch \in Seq(Records) /\ Len(follower.batch) = 0
    BY <1>2
  <2> QED BY <1>2, <2>1, HandNone
<1>4. Told(follower) + InHand(follower) = follower.from + follower.next - 1
  BY <1>1, RunningFacts DEF HandOK
<1>5. /\ follower.from \in Nat /\ follower.next \in Nat /\ Told(follower) \in Nat
      /\ Len(live) \in Nat /\ follower.from + Len(live) = Len(order)
      /\ follower.next =< Len(live) + 1
  BY <1>1, RunningFacts
<1> QED BY <1>1, <1>2, <1>3, <1>4, <1>5, SMTT(30)

(* A task that fills a batch.                                              *)
LEMMA Filling ==
  ASSUME EvInv, follower.st = "fill"
  PROVE  /\ follower.kind = "client" /\ follower.pending = 0 /\ follower.hand = <<>>
         /\ follower.st \in Running /\ Len(follower.batch) \in Nat
         /\ Follows(follower.batch, order, Told(follower))
         /\ Told(follower) + Len(follower.batch) + 1 = follower.from + follower.next
<1>1. follower.st \in Running
  BY DEF Running
<1>2. follower.kind = "client" /\ follower.pending = 0 /\ follower.hand = <<>>
  BY <1>1, RunningFacts DEF TaskOK
<1>3. follower.batch \in Seq(Records) /\ Len(follower.batch) \in Nat
  BY <1>1, RunningFacts
<1>4. InHand(follower) = Len(follower.batch)
  BY <1>2, <1>3, HandNone
<1>5. /\ Told(follower) + InHand(follower) = follower.from + follower.next - 1
      /\ Follows(follower.batch, order, Told(follower))
  BY <1>1, RunningFacts DEF HandOK
<1>6. follower.from \in Nat /\ follower.next \in Nat /\ Told(follower) \in Nat
  BY <1>1, RunningFacts
<1> QED BY <1>1, <1>2, <1>3, <1>4, <1>5, <1>6

(* What the channel still owes, and what it has forgotten of it.           *)
LEMMA LostFacts ==
  ASSUME EvInv, follower.st \in Running
  PROVE  /\ Unread(follower) \in Nat /\ Unread(follower) = Len(live) - follower.next + 1
         /\ Lost(follower) \in Nat /\ follower.next + Lost(follower) =< Len(live) + 1
         /\ Unread(follower) > 0 =>
              /\ follower.next \in 1..Len(live) /\ live[follower.next] \in Records
              /\ live[follower.next] = order[follower.from + follower.next]
              /\ follower.next + 1 =< Len(live) + 1
<1>1. /\ follower.next \in Nat /\ Len(live) \in Nat /\ 1 =< follower.next
      /\ follower.next =< Len(live) + 1 /\ live \in Seq(Records)
      /\ \A k \in 1..Len(live) : live[k] = order[follower.from + k]
  BY RunningFacts
<1>2. Unread(follower) \in Nat /\ Unread(follower) = Len(live) - follower.next + 1
  BY <1>1 DEF Unread
<1>3. LiveCap \in Nat
  BY EvConstants DEF EvConstants
<1>4. Lost(follower) \in Nat /\ Lost(follower) =< Unread(follower)
  BY <1>2, <1>3 DEF Lost
<1>5. follower.next + Lost(follower) =< Len(live) + 1
  BY <1>1, <1>2, <1>4
<1>6. ASSUME Unread(follower) > 0
      PROVE  follower.next \in 1..Len(live) /\ follower.next + 1 =< Len(live) + 1
  BY <1>1, <1>2, <1>6
<1>7. ASSUME Unread(follower) > 0
      PROVE  /\ live[follower.next] \in Records
             /\ live[follower.next] = order[follower.from + follower.next]
  <2>1. follower.next \in 1..Len(live)
    BY <1>6, <1>7
  <2> QED BY <1>1, <2>1
<1> QED BY <1>2, <1>4, <1>5, <1>6, <1>7

-----------------------------------------------------------------------------
(* A client's stream *)

(* The record that was kept back opens the next message.                   *)
LEMMA PendingOpens ==
  ASSUME EvInv, FollowerStep("recv"), follower.kind = "client", follower.pending # 0,
         follower' = [follower EXCEPT !.st = "fill", !.batch = <<follower.pending>>, !.pending = 0]
  PROVE  EvInv'
<1> DEFINE b == <<follower.pending>>
<1>1. follower.st = "recv" /\ follower.st \in Running
  BY DEF FollowerStep, Running
<1>2. /\ follower \in Follower /\ order \in Seq(Records)
      /\ follower.from \in Nat /\ follower.next \in Nat /\ follower.out # <<>>
      /\ follower.pending \in Records \cup {0} /\ Told(follower) \in Nat
      /\ 1 =< follower.next /\ follower.next =< Len(live) + 1 /\ follower.asked =< Len(order)
      /\ OutOK(follower, order) /\ HandOK(follower, order) /\ TaskOK(follower)
      /\ follower.st \notin Ended
  BY <1>1, RunningFacts
<1>3. b \in Seq(Records) /\ Len(b) = 1
  BY <1>2
<1>4. follower.batch = <<>> /\ follower.hand = <<>>
  BY <1>1, <1>2 DEF TaskOK
<1>5. Told(follower) + 1 = follower.from + follower.next - 1
  <2>1. follower.batch \in Seq(Records) /\ Len(follower.batch) = 0
    BY <1>4
  <2>2. InHand(follower) = 0 + 1
    BY <1>4, <2>1, HandNone
  <2>3. Told(follower) + InHand(follower) = follower.from + follower.next - 1
    BY <1>2 DEF HandOK
  <2> QED BY <2>2, <2>3
<1>6. Follows(b, order, Told(follower))
  BY <1>2 DEF HandOK
<1> HIDE DEF b
<1>7. /\ follower'.st = "fill" /\ follower'.batch = b /\ follower'.pending = 0
      /\ follower'.hand = <<>> /\ follower'.kind = "client"
      /\ follower'.from = follower.from /\ follower'.next = follower.next
      /\ follower'.out = follower.out /\ follower'.history = follower.history
      /\ follower'.asked = follower.asked
  BY <1>2, <1>4 DEF b, Follower
<1>8. follower' \in Follower
  BY <1>2, <1>3 DEF b, Follower, States
<1>9. Told(follower') = Told(follower) /\ OutOK(follower', order)
  BY <1>2, <1>7, SameOut
<1>10. HandOK(follower', order)
  <2>1. /\ follower'.from \in Nat /\ follower'.next \in Nat /\ Told(follower') \in Nat
        /\ follower'.batch \in Seq(Records) /\ Follows(follower'.batch, order, Told(follower'))
    BY <1>2, <1>3, <1>6, <1>7, <1>9
  <2>2. Told(follower') + Len(follower'.batch) + 1 = follower'.from + follower'.next
    BY <1>2, <1>3, <1>5, <1>7, <1>9
  <2> QED BY <1>2, <1>7, <2>1, <2>2, BatchInHand
<1>11. TaskOK(follower') /\ follower'.st \in Running
  BY <1>7 DEF TaskOK, Running
<1>12. UNCHANGED <<ring, nextSequence, taken, order, live>>
  BY DEF FollowerStep
<1> QED BY <1>2, <1>7, <1>8, <1>9, <1>10, <1>11, <1>12, StillRuns

(* The channel forgot records: the stream says how many.                   *)
LEMMA ClientLags ==
  ASSUME EvInv, FollowerStep("recv"), follower.kind = "client", follower.pending = 0,
         Lost(follower) > 0,
         follower' = [Caught(follower) EXCEPT !.out = Append(@, Missing(Lost(follower)))]
  PROVE  EvInv'
<1> DEFINE n == Lost(follower)
           item == Missing(n)
           out == Append(follower.out, item)
           next == follower.next + n
<1>1. follower.st = "recv" /\ follower.st \in Running
  BY DEF FollowerStep, Running
<1>2. /\ follower \in Follower /\ order \in Seq(Records) /\ Len(order) \in Nat /\ Len(live) \in Nat
      /\ follower.from \in Nat /\ follower.next \in Nat /\ follower.out # <<>>
      /\ follower.out \in Seq(Item) /\ Told(follower) \in Nat
      /\ follower.from + Len(live) = Len(order)
      /\ 1 =< follower.next /\ follower.next =< Len(live) + 1 /\ follower.asked =< Len(order)
      /\ OutOK(follower, order) /\ TaskOK(follower) /\ follower.st \notin Ended
  BY <1>1, RunningFacts
<1>3. n \in Nat /\ next =< Len(live) + 1
  BY <1>1, LostFacts
<1>4. /\ follower.batch = <<>> /\ follower.hand = <<>> /\ Told(follower) =< Len(order)
      /\ Told(follower) + 1 = follower.from + follower.next
  BY <1>1, Waiting
<1>5. item \in Item /\ Accounted(item) = n /\ item.records = <<>>
  BY <1>3, Items
<1>6. Follows(item.records, order, Told(follower))
  BY <1>2, <1>4, <1>5, EmptyFollows
<1>7. next \in Nat /\ 1 =< next
  BY <1>2, <1>3, SMTT(30)
<1> HIDE DEF n, item
<1>8. out \in Seq(Item)
  BY <1>2, <1>5
<1> HIDE DEF out, next
<1>9. follower' = [follower EXCEPT !.next = next, !.out = out]
  BY <1>2 DEF Caught, n, next, item, out, Follower
<1>10. /\ follower'.st = "recv" /\ follower'.batch = <<>> /\ follower'.pending = 0
       /\ follower'.hand = <<>> /\ follower'.kind = "client"
       /\ follower'.from = follower.from /\ follower'.next = next
       /\ follower'.out = out /\ follower'.history = follower.history
       /\ follower'.asked = follower.asked
  BY <1>1, <1>2, <1>4, <1>9 DEF Follower
<1>11. follower' \in Follower
  BY <1>2, <1>7, <1>8, <1>9 DEF Follower
<1>12. /\ Told(follower') = Told(follower) + n /\ follower'.out # <<>>
       /\ OutOK(follower', order)
  <2>1. follower'.out = Append(follower.out, item)
    BY <1>10 DEF out
  <2>2. follower'.from = follower.from /\ follower'.history = follower.history
    BY <1>10
  <2>3. /\ Told(follower') = Told(follower) + Accounted(item)
        /\ follower'.out # <<>> /\ OutOK(follower', order)
    BY <1>2, <1>5, <1>6, <2>1, <2>2, ItemAdded, ZenonT(60)
  <2> QED BY <1>5, <2>3
<1>13. Told(follower') \in Nat /\ Told(follower') =< Len(order)
       /\ Told(follower') + 1 = follower'.from + follower'.next
  <2> DEFINE told == Told(follower)
             told2 == Told(follower')
  <2>1. /\ told \in Nat /\ told2 = told + n /\ told + 1 = follower.from + follower.next
        /\ follower.from \in Nat /\ follower.next \in Nat /\ n \in Nat
        /\ follower.from + Len(live) = Len(order) /\ Len(live) \in Nat
    BY <1>2, <1>3, <1>4, <1>12
  <2>2. follower.next + n =< Len(live) + 1
    BY <1>3 DEF next
  <2>3. follower'.from = follower.from /\ follower'.next = follower.next + n
    BY <1>10 DEF next
  <2> HIDE DEF told, told2
  <2> DEFINE all == Len(order)
             len == Len(live)
             at == follower.next
             from == follower.from
  <2>5. /\ told \in Nat /\ told2 = told + n /\ told + 1 = from + at
        /\ from \in Nat /\ at \in Nat /\ n \in Nat
        /\ from + len = all /\ len \in Nat /\ all \in Nat
    BY <1>2, <2>1
  <2>6. at + n =< len + 1
    BY <2>2
  <2> HIDE DEF all, len, at, from
  <2>7. told2 \in Nat
    BY <2>5
  <2>8. told2 =< all
    BY <2>5, <2>6
  <2>9. told2 + 1 = from + (at + n)
    BY <2>5, SMTT(30)
  <2>4. told2 \in Nat /\ told2 =< Len(order) /\ told2 + 1 = follower.from + (follower.next + n)
    BY <2>7, <2>8, <2>9 DEF all, at, from
  <2> QED BY <2>3, <2>4 DEF told2
<1>14. HandOK(follower', order)
  BY <1>2, <1>7, <1>10, <1>13, NothingInHand
<1>15. TaskOK(follower') /\ follower'.st \in Running
  BY <1>10 DEF TaskOK, Running
<1>16. UNCHANGED <<ring, nextSequence, taken, order, live>>
  BY DEF FollowerStep
<1> QED BY <1>2, <1>3, <1>7, <1>10, <1>11, <1>12, <1>14, <1>15, <1>16, StillRuns DEF next

(* The next record opens a message.                                        *)
LEMMA ClientReads ==
  ASSUME EvInv, FollowerStep("recv"), follower.kind = "client", follower.pending = 0,
         Unread(follower) > 0,
         follower' = [follower EXCEPT !.st = "fill", !.batch = <<live[follower.next]>>, !.next = @ + 1]
  PROVE  EvInv'
<1> DEFINE n == live[follower.next]
           b == <<n>>
           next == follower.next + 1
<1>1. follower.st = "recv" /\ follower.st \in Running
  BY DEF FollowerStep, Running
<1>2. /\ follower \in Follower /\ order \in Seq(Records) /\ Len(order) \in Nat /\ Len(live) \in Nat
      /\ follower.from \in Nat /\ follower.next \in Nat /\ follower.out # <<>>
      /\ Told(follower) \in Nat /\ follower.from + Len(live) = Len(order)
      /\ 1 =< follower.next /\ follower.asked =< Len(order)
      /\ OutOK(follower, order) /\ TaskOK(follower) /\ follower.st \notin Ended
  BY <1>1, RunningFacts
<1>3. /\ n \in Records /\ n = order[follower.from + follower.next]
      /\ next =< Len(live) + 1
  BY <1>1, LostFacts
<1>4. /\ follower.batch = <<>> /\ follower.hand = <<>>
      /\ Told(follower) + 1 = follower.from + follower.next
  BY <1>1, Waiting
<1>5. next \in Nat /\ 1 =< next
  BY <1>2
<1>6. Follows(b, order, Told(follower))
  <2> DEFINE told == Told(follower)
  <2>1. told \in Nat /\ n = order[told + 1]
    BY <1>2, <1>3, <1>4
  <2>2. told + 1 =< Len(order)
    <3> DEFINE all == Len(order)
               len == Len(live)
               at == follower.next
               from == follower.from
    <3>1. /\ told + 1 = from + at /\ from + len = all /\ at + 1 =< len + 1
          /\ from \in Nat /\ at \in Nat /\ len \in Nat /\ all \in Nat
      BY <1>2, <1>3, <1>4
    <3> HIDE DEF told, all, len, at, from
    <3>2. told + 1 =< all
      BY <3>1
    <3> QED BY <3>2 DEF all
  <2> HIDE DEF told, n
  <2>3. Follows(<<n>>, order, told)
    BY <1>2, <2>1, <2>2, OneFollows
  <2> QED BY <2>3 DEF told
<1> HIDE DEF n
<1>7. b \in Seq(Records) /\ Len(b) = 1
  BY <1>3
<1> HIDE DEF b, next
<1>8. follower' = [follower EXCEPT !.st = "fill", !.batch = b, !.next = next]
  BY DEF n, b, next
<1>9. /\ follower'.st = "fill" /\ follower'.batch = b /\ follower'.pending = 0
      /\ follower'.hand = <<>> /\ follower'.kind = "client"
      /\ follower'.from = follower.from /\ follower'.next = next
      /\ follower'.out = follower.out /\ follower'.history = follower.history
      /\ follower'.asked = follower.asked
  BY <1>2, <1>4, <1>8 DEF Follower
<1>10. follower' \in Follower
  BY <1>2, <1>5, <1>7, <1>8, ZenonT(60) DEF Follower, States
<1>11. Told(follower') = Told(follower) /\ OutOK(follower', order)
  BY <1>2, <1>9, SameOut, ZenonT(60)
<1>12. HandOK(follower', order)
  <2>1. /\ follower'.from \in Nat /\ follower'.next \in Nat /\ Told(follower') \in Nat
        /\ follower'.batch \in Seq(Records) /\ Follows(follower'.batch, order, Told(follower'))
    BY <1>2, <1>5, <1>6, <1>7, <1>9, <1>11
  <2>2. Told(follower') + Len(follower'.batch) + 1 = follower'.from + follower'.next
    <3> DEFINE told == Told(follower)
               at == follower.next
               from == follower.from
    <3>1. told \in Nat /\ at \in Nat /\ from \in Nat /\ told + 1 = from + at /\ next = at + 1
      BY <1>2, <1>4 DEF next
    <3> HIDE DEF told, at, from
    <3>2. told + 1 + 1 = from + next
      BY <3>1
    <3> QED BY <1>7, <1>9, <1>11, <3>2 DEF told, from
  <2> QED BY <1>2, <1>9, <2>1, <2>2, BatchInHand
<1>13. TaskOK(follower') /\ follower'.st \in Running
  BY <1>9 DEF TaskOK, Running
<1>14. UNCHANGED <<ring, nextSequence, taken, order, live>>
  BY DEF FollowerStep
<1>15. 1 =< follower'.next /\ follower'.next =< Len(live) + 1
  BY <1>3, <1>5, <1>9 DEF next
<1> QED BY <1>2, <1>9, <1>10, <1>11, <1>12, <1>13, <1>14, <1>15, StillRuns

(* There is nothing more: the message goes out.                            *)
LEMMA ClientSends ==
  ASSUME EvInv, FollowerStep("fill"), follower' = Sent(follower, <<Holding(follower.batch)>>)
  PROVE  EvInv'
<1> DEFINE item == Holding(follower.batch)
           out == Append(follower.out, item)
<1>1. follower.st = "fill"
  BY DEF FollowerStep
<1>2. /\ follower.kind = "client" /\ follower.pending = 0 /\ follower.hand = <<>>
      /\ follower.st \in Running /\ Len(follower.batch) \in Nat
      /\ Follows(follower.batch, order, Told(follower))
      /\ Told(follower) + Len(follower.batch) + 1 = follower.from + follower.next
  BY <1>1, Filling
<1>3. /\ follower \in Follower /\ order \in Seq(Records) /\ Len(order) \in Nat /\ Len(live) \in Nat
      /\ follower.from \in Nat /\ follower.next \in Nat /\ follower.out # <<>>
      /\ follower.batch \in Seq(Records)
      /\ follower.out \in Seq(Item) /\ Told(follower) \in Nat
      /\ 1 =< follower.next /\ follower.next =< Len(live) + 1 /\ follower.asked =< Len(order)
      /\ OutOK(follower, order) /\ follower.st \notin Ended
  BY <1>2, RunningFacts
<1>4. item \in Item /\ Accounted(item) = Len(follower.batch) /\ item.records = follower.batch
  BY <1>3, Items
<1>5. Follows(item.records, order, Told(follower))
  BY <1>2, <1>4
<1> HIDE DEF item
<1>6. out \in Seq(Item) /\ follower.out \o <<item>> = out
  BY <1>3, <1>4
<1> HIDE DEF out
<1>7. follower' = [follower EXCEPT !.st = "recv", !.batch = <<>>, !.out = out]
  BY <1>6 DEF Sent, item
<1>8. /\ follower'.st = "recv" /\ follower'.batch = <<>> /\ follower'.pending = 0
      /\ follower'.hand = <<>> /\ follower'.kind = "client"
      /\ follower'.from = follower.from /\ follower'.next = follower.next
      /\ follower'.out = out /\ follower'.history = follower.history
      /\ follower'.asked = follower.asked
  BY <1>2, <1>3, <1>7 DEF Follower
<1>9. follower' \in Follower
  <2>1. <<>> \in Seq(Records)
    OBVIOUS
  <2> QED BY <1>3, <1>6, <1>7, <2>1 DEF Follower, States
<1>10. /\ Told(follower') = Told(follower) + Len(follower.batch) /\ Told(follower') \in Nat
       /\ follower'.out # <<>> /\ OutOK(follower', order)
  <2>1. follower'.out = Append(follower.out, item)
    BY <1>8 DEF out
  <2>2. follower'.from = follower.from /\ follower'.history = follower.history
    BY <1>8
  <2>3. /\ Told(follower') = Told(follower) + Accounted(item) /\ Told(follower') \in Nat
        /\ follower'.out # <<>> /\ OutOK(follower', order)
    BY <1>3, <1>4, <1>5, <2>1, <2>2, ItemAdded, ZenonT(120)
  <2> QED BY <1>4, <2>3
<1>11. Told(follower') =< Len(order)
  BY <1>2, <1>10 DEF Follows
<1>12. HandOK(follower', order)
  BY <1>2, <1>3, <1>8, <1>10, <1>11, NothingInHand
<1>13. TaskOK(follower') /\ follower'.st \in Running
  BY <1>8 DEF TaskOK, Running
<1>14. UNCHANGED <<ring, nextSequence, taken, order, live>>
  BY DEF FollowerStep
<1> QED BY <1>3, <1>8, <1>9, <1>10, <1>12, <1>13, <1>14, StillRuns

(* The next record still fits into the message.                            *)
LEMMA ClientBatches ==
  ASSUME EvInv, FollowerStep("fill"), Unread(follower) > 0,
         follower' = [[follower EXCEPT !.next = @ + 1] EXCEPT !.batch = Append(@, live[follower.next])]
  PROVE  EvInv'
<1> DEFINE n == live[follower.next]
           b == Append(follower.batch, n)
           next == follower.next + 1
<1>1. follower.st = "fill"
  BY DEF FollowerStep
<1>2. /\ follower.kind = "client" /\ follower.pending = 0 /\ follower.hand = <<>>
      /\ follower.st \in Running /\ Len(follower.batch) \in Nat
      /\ Follows(follower.batch, order, Told(follower))
      /\ Told(follower) + Len(follower.batch) + 1 = follower.from + follower.next
  BY <1>1, Filling
<1>3. /\ follower \in Follower /\ order \in Seq(Records) /\ Len(order) \in Nat /\ Len(live) \in Nat
      /\ follower.from \in Nat /\ follower.next \in Nat /\ follower.out # <<>>
      /\ follower.batch \in Seq(Records) /\ Told(follower) \in Nat
      /\ follower.from + Len(live) = Len(order)
      /\ 1 =< follower.next /\ follower.asked =< Len(order)
      /\ OutOK(follower, order) /\ follower.st \notin Ended
  BY <1>2, RunningFacts
<1>4. /\ n \in Records /\ n = order[follower.from + follower.next]
      /\ next =< Len(live) + 1
  BY <1>2, LostFacts
<1>5. next \in Nat /\ 1 =< next
  BY <1>3
<1> HIDE DEF n
<1>6. Follows(b, order, Told(follower)) /\ Told(follower) + Len(b) + 1 = follower.from + next
  <2> DEFINE told == Told(follower)
             all == Len(order)
             len == Len(live)
             at == follower.next
             from == follower.from
             s == follower.batch
             m == Len(s)
  <2>1. /\ told \in Nat /\ m \in Nat /\ from \in Nat /\ at \in Nat /\ len \in Nat /\ all \in Nat
        /\ told + m + 1 = from + at /\ from + len = all /\ at + 1 =< len + 1 /\ next = at + 1
    BY <1>2, <1>3, <1>4
  <2>2. n = order[told + m + 1] /\ s \in Seq(Records) /\ Follows(s, order, told)
    BY <1>2, <1>3, <1>4
  <2>3. Len(Append(s, n)) = m + 1
    BY <2>2
  <2> HIDE DEF told, all, len, at, from, m, next
  <2>4. told + m + 1 =< all /\ told + (m + 1) + 1 = from + next
    BY <2>1
  <2> HIDE DEF s
  <2>5. Follows(Append(s, n), order, told)
    BY <1>3, <2>1, <2>2, <2>4, MoreFollows DEF m, all
  <2> QED BY <2>3, <2>4, <2>5 DEF told, from, s
<1>7. b \in Seq(Records)
  BY <1>3, <1>4
<1> HIDE DEF b, next
<1>8. follower' = [follower EXCEPT !.batch = b, !.next = next]
  BY <1>3 DEF n, b, next, Follower
<1>9. /\ follower'.st = "fill" /\ follower'.batch = b /\ follower'.pending = 0
      /\ follower'.hand = <<>> /\ follower'.kind = "client"
      /\ follower'.from = follower.from /\ follower'.next = next
      /\ follower'.out = follower.out /\ follower'.history = follower.history
      /\ follower'.asked = follower.asked
  BY <1>1, <1>2, <1>3, <1>8 DEF Follower
<1>10. follower' \in Follower
  BY <1>3, <1>5, <1>7, <1>8 DEF Follower, States
<1>11. Told(follower') = Told(follower) /\ OutOK(follower', order)
  BY <1>3, <1>9, SameOut
<1>12. HandOK(follower', order)
  <2>1. /\ follower'.from \in Nat /\ follower'.next \in Nat /\ Told(follower') \in Nat
        /\ follower'.batch \in Seq(Records) /\ Follows(follower'.batch, order, Told(follower'))
    BY <1>3, <1>5, <1>6, <1>7, <1>9, <1>11
  <2>2. Told(follower') + Len(follower'.batch) + 1 = follower'.from + follower'.next
    BY <1>6, <1>9, <1>11
  <2> QED BY <1>3, <1>9, <2>1, <2>2, BatchInHand
<1>13. TaskOK(follower') /\ follower'.st \in Running
  BY <1>9 DEF TaskOK, Running
<1>14. UNCHANGED <<ring, nextSequence, taken, order, live>>
  BY DEF FollowerStep
<1>15. 1 =< follower'.next /\ follower'.next =< Len(live) + 1
  BY <1>4, <1>5, <1>9 DEF next
<1> QED BY <1>3, <1>9, <1>10, <1>11, <1>12, <1>13, <1>14, <1>15, StillRuns

(* The next record does not fit: the message goes out without it.          *)
LEMMA ClientKeepsBack ==
  ASSUME EvInv, FollowerStep("fill"), Unread(follower) > 0,
         follower' = [Sent([follower EXCEPT !.next = @ + 1], <<Holding(follower.batch)>>)
                        EXCEPT !.pending = live[follower.next]]
  PROVE  EvInv'
<1> DEFINE n == live[follower.next]
           next == follower.next + 1
           item == Holding(follower.batch)
           out == Append(follower.out, item)
<1>1. follower.st = "fill"
  BY DEF FollowerStep
<1>2. /\ follower.kind = "client" /\ follower.pending = 0 /\ follower.hand = <<>>
      /\ follower.st \in Running /\ Len(follower.batch) \in Nat
      /\ Follows(follower.batch, order, Told(follower))
      /\ Told(follower) + Len(follower.batch) + 1 = follower.from + follower.next
  BY <1>1, Filling
<1>3. /\ follower \in Follower /\ order \in Seq(Records) /\ Len(order) \in Nat /\ Len(live) \in Nat
      /\ follower.from \in Nat /\ follower.next \in Nat /\ follower.out # <<>>
      /\ follower.batch \in Seq(Records) /\ Told(follower) \in Nat /\ follower.out \in Seq(Item)
      /\ follower.from + Len(live) = Len(order)
      /\ 1 =< follower.next /\ follower.asked =< Len(order)
      /\ OutOK(follower, order) /\ follower.st \notin Ended
  BY <1>2, RunningFacts
<1>4. /\ n \in Records /\ n = order[follower.from + follower.next]
      /\ next =< Len(live) + 1
  BY <1>2, LostFacts
<1>5. next \in Nat /\ 1 =< next
  BY <1>3
<1>6. item \in Item /\ Accounted(item) = Len(follower.batch) /\ item.records = follower.batch
  BY <1>3, Items
<1>7. Follows(item.records, order, Told(follower))
  BY <1>2, <1>6
<1> HIDE DEF item, n
<1>8. out \in Seq(Item) /\ follower.out \o <<item>> = out
  BY <1>3, <1>6
<1> HIDE DEF out, next
<1>9. follower' = [follower EXCEPT !.st = "recv", !.batch = <<>>, !.pending = n, !.next = next,
                                   !.out = out]
  BY <1>3, <1>8 DEF Sent, item, n, next, Follower
<1>10. /\ follower'.st = "recv" /\ follower'.batch = <<>> /\ follower'.pending = n
       /\ follower'.hand = <<>> /\ follower'.kind = "client"
       /\ follower'.from = follower.from /\ follower'.next = next
       /\ follower'.out = out /\ follower'.history = follower.history
       /\ follower'.asked = follower.asked
  BY <1>2, <1>3, <1>9 DEF Follower
<1>11. follower' \in Follower
  <2>1. <<>> \in Seq(Records)
    OBVIOUS
  <2> QED BY <1>3, <1>4, <1>5, <1>8, <1>9, <2>1, ZenonT(60) DEF Follower, States
<1>12. /\ Told(follower') = Told(follower) + Len(follower.batch) /\ Told(follower') \in Nat
       /\ follower'.out # <<>> /\ OutOK(follower', order)
  <2>1. follower'.out = Append(follower.out, item)
    BY <1>10 DEF out
  <2>2. follower'.from = follower.from /\ follower'.history = follower.history
    BY <1>10
  <2>3. /\ Told(follower') = Told(follower) + Accounted(item) /\ Told(follower') \in Nat
        /\ follower'.out # <<>> /\ OutOK(follower', order)
    BY <1>3, <1>6, <1>7, <2>1, <2>2, ItemAdded, ZenonT(60)
  <2> QED BY <1>6, <2>3
<1>13. HandOK(follower', order)
  <2> DEFINE told == Told(follower')
             all == Len(order)
             len == Len(live)
             at == follower.next
             from == follower.from
  <2>1. /\ told \in Nat /\ told + 1 = from + at /\ from + len = all /\ at + 1 =< len + 1
        /\ next = at + 1 /\ from \in Nat /\ at \in Nat /\ len \in Nat /\ all \in Nat
    BY <1>2, <1>3, <1>4, <1>12 DEF next
  <2>2. n = order[told + 1]
    BY <1>4, <2>1
  <2> HIDE DEF told, all, len, at, from
  <2>3. told + 1 =< all /\ told + 2 = from + next
    BY <2>1
  <2>4. Follows(<<n>>, order, told)
    BY <1>3, <2>1, <2>2, <2>3, OneFollows DEF all
  <2>5. Told(follower') + 2 = follower'.from + follower'.next
    BY <1>10, <2>3 DEF told, from
  <2>6. Follows(<<follower'.pending>>, order, Told(follower')) /\ Told(follower') \in Nat
    BY <1>10, <2>1, <2>4 DEF told
  <2> QED BY <1>3, <1>4, <1>5, <1>10, <2>5, <2>6, RecordInHand
<1>14. TaskOK(follower') /\ follower'.st \in Running
  BY <1>10 DEF TaskOK, Running
<1>15. UNCHANGED <<ring, nextSequence, taken, order, live>>
  BY DEF FollowerStep
<1>16. 1 =< follower'.next /\ follower'.next =< Len(live) + 1
  BY <1>4, <1>5, <1>10 DEF next
<1> QED BY <1>3, <1>10, <1>11, <1>12, <1>13, <1>14, <1>15, <1>16, StillRuns

(* The channel forgot records while a message was filled: it goes out, and *)
(* how many are missing after it.                                          *)
LEMMA ClientFillsLagged ==
  ASSUME EvInv, FollowerStep("fill"), Lost(follower) > 0, follower' = Lagged(follower)
  PROVE  EvInv'
<1> DEFINE n == Lost(follower)
           next == follower.next + n
           item == Holding(follower.batch)
           gap == Missing(n)
           some == Append(follower.out, item)
           out == Append(some, gap)
           mid == [follower EXCEPT !.out = some]
<1>1. follower.st = "fill"
  BY DEF FollowerStep
<1>2. /\ follower.kind = "client" /\ follower.pending = 0 /\ follower.hand = <<>>
      /\ follower.st \in Running /\ Len(follower.batch) \in Nat
      /\ Follows(follower.batch, order, Told(follower))
      /\ Told(follower) + Len(follower.batch) + 1 = follower.from + follower.next
  BY <1>1, Filling
<1>3. /\ follower \in Follower /\ order \in Seq(Records) /\ Len(order) \in Nat /\ Len(live) \in Nat
      /\ follower.from \in Nat /\ follower.next \in Nat /\ follower.out # <<>>
      /\ follower.batch \in Seq(Records) /\ Told(follower) \in Nat /\ follower.out \in Seq(Item)
      /\ follower.from + Len(live) = Len(order)
      /\ 1 =< follower.next /\ follower.asked =< Len(order)
      /\ OutOK(follower, order) /\ follower.st \notin Ended
  BY <1>2, RunningFacts
<1>4. n \in Nat /\ next =< Len(live) + 1
  BY <1>2, LostFacts
<1>5. next \in Nat /\ 1 =< next
  BY <1>3, <1>4, SMTT(30)
<1>6. item \in Item /\ Accounted(item) = Len(follower.batch) /\ item.records = follower.batch
  BY <1>3, Items
<1>7. gap \in Item /\ Accounted(gap) = n /\ gap.records = <<>>
  BY <1>4, Items
<1>8. Follows(item.records, order, Told(follower))
  BY <1>2, <1>6
<1> HIDE DEF item, gap, n
<1>9. some \in Seq(Item) /\ out \in Seq(Item) /\ follower.out \o <<item, gap>> = out
  BY <1>3, <1>6, <1>7, SMTT(30)
<1> HIDE DEF some, out, next
<1>10. follower' = [follower EXCEPT !.st = "recv", !.batch = <<>>, !.next = next, !.out = out]
  BY <1>3, <1>9 DEF Lagged, Sent, Caught, item, gap, n, next, Follower
<1>11. /\ follower'.st = "recv" /\ follower'.batch = <<>> /\ follower'.pending = 0
       /\ follower'.hand = <<>> /\ follower'.kind = "client"
       /\ follower'.from = follower.from /\ follower'.next = next
       /\ follower'.out = out /\ follower'.history = follower.history
       /\ follower'.asked = follower.asked
  BY <1>2, <1>3, <1>10 DEF Follower
<1>12. follower' \in Follower
  <2>1. <<>> \in Seq(Records)
    OBVIOUS
  <2> QED BY <1>3, <1>5, <1>9, <1>10, <2>1, ZenonT(60) DEF Follower, States
<1>13. /\ mid.from = follower.from /\ mid.history = follower.history /\ mid.out = some
  BY <1>3 DEF Follower
<1> HIDE DEF mid
<1>14. /\ Told(mid) = Told(follower) + Len(follower.batch) /\ Told(mid) \in Nat
       /\ mid.out \in Seq(Item) /\ mid.out # <<>> /\ OutOK(mid, order)
  <2>1. mid.out = Append(follower.out, item)
    BY <1>13 DEF some
  <2>2. /\ Told(mid) = Told(follower) + Accounted(item) /\ Told(mid) \in Nat
        /\ mid.out \in Seq(Item) /\ mid.out # <<>> /\ OutOK(mid, order)
    BY <1>3, <1>6, <1>8, <1>13, <2>1, ItemAdded
  <2> QED BY <1>6, <2>2
<1>15. Follows(gap.records, order, Told(mid))
  <2>1. Told(mid) =< Len(order)
    BY <1>2, <1>14 DEF Follows
  <2> QED BY <1>3, <1>7, <1>14, <2>1, EmptyFollows
<1>16. /\ Told(follower') = Told(mid) + n /\ Told(follower') \in Nat
       /\ follower'.out # <<>> /\ OutOK(follower', order)
  <2>1. follower'.out = Append(mid.out, gap)
    BY <1>11, <1>13 DEF out
  <2>2. mid.from \in Nat /\ follower'.from = mid.from /\ follower'.history = mid.history
    BY <1>3, <1>11, <1>13
  <2>3. /\ Told(follower') = Told(mid) + Accounted(gap) /\ Told(follower') \in Nat
        /\ follower'.out # <<>> /\ OutOK(follower', order)
    BY <1>7, <1>14, <1>15, <2>1, <2>2, ItemAdded
  <2> QED BY <1>7, <2>3
<1>17. HandOK(follower', order)
  <2> DEFINE told == Told(follower')
             before == Told(mid)
             all == Len(order)
             len == Len(live)
             at == follower.next
             from == follower.from
  <2>1. /\ before + 1 = from + at /\ told = before + n /\ before \in Nat
        /\ from + len = all /\ next =< len + 1 /\ next = at + n /\ n \in Nat
        /\ from \in Nat /\ at \in Nat /\ len \in Nat /\ all \in Nat
    BY <1>2, <1>3, <1>4, <1>14, <1>16 DEF next
  <2> HIDE DEF told, before, all, len, at, from
  <2>2. told =< all /\ told + 1 = from + next
    BY <2>1
  <2>3. /\ Told(follower') + 1 = follower'.from + follower'.next
        /\ Told(follower') =< Len(order)
    BY <1>11, <2>2 DEF told, from, all
  <2> QED BY <1>3, <1>5, <1>11, <1>16, <2>3, NothingInHand
<1>18. TaskOK(follower') /\ follower'.st \in Running
  BY <1>11 DEF TaskOK, Running
<1>19. UNCHANGED <<ring, nextSequence, taken, order, live>>
  BY DEF FollowerStep
<1>20. 1 =< follower'.next /\ follower'.next =< Len(live) + 1
  BY <1>4, <1>5, <1>11 DEF next
<1> QED BY <1>3, <1>11, <1>12, <1>16, <1>17, <1>18, <1>19, <1>20, StillRuns

(* A client's step is one of those.                                        *)
LEMMA ClientReceivesKeeps ==
  ASSUME EvInv, ClientReceives
  PROVE  EvInv'
<1>1. CASE /\ follower.pending # 0
           /\ follower' = [follower EXCEPT !.st = "fill", !.batch = <<follower.pending>>, !.pending = 0]
  BY <1>1, PendingOpens DEF ClientReceives
<1>2. CASE /\ follower.pending = 0 /\ Lost(follower) > 0
           /\ follower' = [Caught(follower) EXCEPT !.out = Append(@, Missing(Lost(follower)))]
  BY <1>2, ClientLags DEF ClientReceives
<1>3. CASE /\ follower.pending = 0 /\ Unread(follower) > 0
           /\ follower' = [follower EXCEPT !.st = "fill", !.batch = <<live[follower.next]>>,
                                           !.next = @ + 1]
  BY <1>3, ClientReads DEF ClientReceives
<1> QED BY <1>1, <1>2, <1>3 DEF ClientReceives

LEMMA ClientFillsKeeps ==
  ASSUME EvInv, ClientFills
  PROVE  EvInv'
<1> DEFINE taking == [follower EXCEPT !.next = @ + 1]
           fits == Bytes(follower.batch) + SizeOf[live[follower.next]] =< BatchBytes
<1>1. FollowerStep("fill") /\ follower.st \in Running
  BY DEF ClientFills, FollowerStep, Running
<1>2. Lost(follower) \in Nat /\ Unread(follower) \in Nat
  BY <1>1, LostFacts
<1>3. CASE Lost(follower) > 0
  <2>1. follower' = Lagged(follower)
    BY <1>3 DEF ClientFills
  <2> QED BY <1>1, <1>3, <2>1, ClientFillsLagged
<1>4. CASE ~(Lost(follower) > 0) /\ Unread(follower) = 0
  <2>1. follower' = Sent(follower, <<Holding(follower.batch)>>)
    BY <1>4 DEF ClientFills
  <2> QED BY <1>1, <2>1, ClientSends
<1>5. CASE ~(Lost(follower) > 0) /\ Unread(follower) # 0 /\ fits
  <2>1. follower' = [taking EXCEPT !.batch = Append(@, live[follower.next])]
    BY <1>5 DEF ClientFills
  <2>2. Unread(follower) > 0
    BY <1>2, <1>5
  <2> QED BY <1>1, <2>1, <2>2, ClientBatches
<1>6. CASE ~(Lost(follower) > 0) /\ Unread(follower) # 0 /\ ~fits
  <2>1. follower' = [Sent(taking, <<Holding(follower.batch)>>) EXCEPT !.pending = live[follower.next]]
    BY <1>6 DEF ClientFills
  <2>2. Unread(follower) > 0
    BY <1>2, <1>6
  <2> QED BY <1>1, <2>1, <2>2, ClientKeepsBack
<1> QED BY <1>3, <1>4, <1>5, <1>6

-----------------------------------------------------------------------------
(* A stream's end, and a file's stream *)

(* A task that ends leaves what it has sent or written as it is.           *)
LEMMA TaskEnds ==
  ASSUME EvInv, follower.st \notin Ended, UNCHANGED <<ring, nextSequence, taken, order, live>>,
         NEW st \in {"refused", "stopped", "failed", "aborted"},
         follower' = [follower EXCEPT !.st = st],
         st = "stopped" => Told(follower) >= follower.asked
  PROVE  EvInv'
<1>1. /\ follower \in Follower /\ LiveOK(follower, live, order) /\ FollowerOK(follower, order)
  BY DEF EvInv, EvTypeOK
<1>2. /\ follower'.st = st /\ follower'.from = follower.from /\ follower'.next = follower.next
      /\ follower'.out = follower.out /\ follower'.history = follower.history
      /\ follower'.asked = follower.asked
  BY <1>1 DEF Follower
<1>3. follower' \in Follower
  BY <1>1 DEF Follower, States
<1>4. OutOK(follower', order) /\ Told(follower') = Told(follower)
  BY <1>1, <1>2, SameOut DEF FollowerOK
<1>5. FollowerOK(follower', order)
  BY <1>2, <1>4 DEF FollowerOK, Running
<1>6. /\ follower'.asked =< Len(order) /\ 1 =< follower'.next
      /\ follower'.next =< Len(live) + 1
  BY <1>1, <1>2 DEF LiveOK
<1> QED BY <1>2, <1>3, <1>5, <1>6, StreamStep

LEMMA ClientAbortedKeeps ==
  ASSUME EvInv, ClientAborted
  PROVE  EvInv'
<1>1. /\ follower.st \in {"recv", "opening"} /\ follower' = [follower EXCEPT !.st = "aborted"]
      /\ UNCHANGED <<ring, nextSequence, taken, order, live>>
  BY DEF ClientAborted, FollowerStep
<1>2. follower.st \notin Ended
  BY <1>1 DEF Ended
<1> QED BY <1>1, <1>2, TaskEnds

LEMMA FileFailsKeeps ==
  ASSUME EvInv, FileFails
  PROVE  EvInv'
<1>1. /\ follower.st \in {"opening", "write", "drainWrite", "drain"}
      /\ UNCHANGED <<ring, nextSequence, taken, order, live>>
      /\ \/ follower' = [follower EXCEPT !.st = "refused"]
         \/ follower' = [follower EXCEPT !.st = "failed"]
  BY DEF FileFails, FollowerStep
<1>2. follower.st \notin Ended
  BY <1>1 DEF Ended
<1>3. CASE follower' = [follower EXCEPT !.st = "refused"]
  BY <1>1, <1>2, <1>3, TaskEnds
<1>4. CASE follower' = [follower EXCEPT !.st = "failed"]
  BY <1>1, <1>2, <1>4, TaskEnds
<1> QED BY <1>1, <1>3, <1>4

(* The next record is taken to be written, or how many the channel forgot. *)
LEMMA FileTakesKeeps ==
  ASSUME EvInv, follower.st \in {"recv", "drain"}, follower.kind = "file", Unread(follower) > 0,
         UNCHANGED <<ring, nextSequence, taken, order, live>>,
         NEW st \in {"write", "drainWrite"}, follower' = FileTakes(follower, st)
  PROVE  EvInv'
<1>1. follower.st \in Running
  BY DEF Running
<1>2. /\ follower \in Follower /\ order \in Seq(Records) /\ Len(order) \in Nat /\ Len(live) \in Nat
      /\ follower.from \in Nat /\ follower.next \in Nat /\ follower.out # <<>>
      /\ Told(follower) \in Nat /\ follower.from + Len(live) = Len(order)
      /\ 1 =< follower.next /\ follower.asked =< Len(order)
      /\ OutOK(follower, order) /\ TaskOK(follower) /\ follower.st \notin Ended
  BY <1>1, RunningFacts
<1>3. follower.pending = 0
  BY <1>2 DEF TaskOK
<1>4. /\ follower.batch = <<>> /\ follower.hand = <<>> /\ Told(follower) =< Len(order)
      /\ Told(follower) + 1 = follower.from + follower.next
  BY <1>3, Waiting
<1>5. PICK item \in Item, more \in Nat :
        /\ follower' = [follower EXCEPT !.st = st, !.hand = <<item>>, !.next = follower.next + more]
        /\ Accounted(item) = more /\ Follows(item.records, order, Told(follower))
        /\ follower.next + more =< Len(live) + 1
  <2>1. CASE Lost(follower) > 0
    <3> DEFINE n == Lost(follower)
    <3>1. n \in Nat /\ follower.next + n =< Len(live) + 1
      BY <1>1, LostFacts
    <3>2. Missing(n) \in Item /\ Accounted(Missing(n)) = n /\ Missing(n).records = <<>>
      BY <3>1, Items
    <3>3. Follows(Missing(n).records, order, Told(follower))
      BY <1>2, <1>4, <3>2, EmptyFollows
    <3>4. follower' = [follower EXCEPT !.st = st, !.hand = <<Missing(n)>>, !.next = follower.next + n]
      BY <1>2, <2>1 DEF FileTakes, Caught, Follower
    <3> HIDE DEF n
    <3> QED BY <3>1, <3>2, <3>3, <3>4
  <2>2. CASE ~(Lost(follower) > 0)
    <3> DEFINE n == live[follower.next]
               item == Holding(<<n>>)
    <3>1. /\ n \in Records /\ n = order[follower.from + follower.next]
          /\ follower.next + 1 =< Len(live) + 1
      BY <1>1, LostFacts
    <3>2. follower' = [follower EXCEPT !.st = st, !.hand = <<item>>, !.next = follower.next + 1]
      BY <1>2, <2>2 DEF FileTakes, Follower
    <3>3. <<n>> \in Seq(Records) /\ Len(<<n>>) = 1
      BY <3>1
    <3>4. item \in Item /\ Accounted(item) = 1 /\ item.records = <<n>>
      BY <3>3, Items
    <3>5. Follows(<<n>>, order, Told(follower))
      <4> DEFINE told == Told(follower)
                 all == Len(order)
                 len == Len(live)
                 at == follower.next
                 from == follower.from
      <4>1. /\ told \in Nat /\ told + 1 = from + at /\ from + len = all /\ at + 1 =< len + 1
            /\ from \in Nat /\ at \in Nat /\ len \in Nat /\ all \in Nat
        BY <1>2, <1>4, <3>1
      <4>2. n = order[told + 1]
        BY <3>1, <4>1
      <4> HIDE DEF told, all, len, at, from, n
      <4>3. told + 1 =< all
        BY <4>1
      <4>4. Follows(<<n>>, order, told)
        BY <1>2, <4>1, <4>2, <4>3, OneFollows DEF all
      <4> QED BY <4>4 DEF told
    <3> HIDE DEF item, n
    <3> QED BY <3>1, <3>2, <3>4, <3>5
  <2> QED BY <2>1, <2>2
<1> DEFINE hand == <<item>>
           next == follower.next + more
<1>6. hand \in Seq(Item) /\ Len(hand) = 1
  BY <1>5
<1>7. next \in Nat /\ 1 =< next /\ next =< Len(live) + 1
  BY <1>2, <1>5
<1>8. follower' = [follower EXCEPT !.st = st, !.hand = hand, !.next = next]
  BY <1>5
<1> HIDE DEF hand, next
<1>9. /\ follower'.st = st /\ follower'.batch = <<>> /\ follower'.pending = 0
      /\ follower'.hand = hand /\ follower'.kind = "file"
      /\ follower'.from = follower.from /\ follower'.next = next
      /\ follower'.out = follower.out /\ follower'.history = follower.history
      /\ follower'.asked = follower.asked
  BY <1>2, <1>3, <1>4, <1>8 DEF Follower
<1>10. follower' \in Follower
  BY <1>2, <1>6, <1>7, <1>8 DEF Follower, States
<1>11. Told(follower') = Told(follower) /\ OutOK(follower', order)
  BY <1>2, <1>9, SameOut
<1>12. HandOK(follower', order)
  <2> DEFINE told == Told(follower)
             at == follower.next
             from == follower.from
  <2>1. /\ told \in Nat /\ told + 1 = from + at /\ next = at + more
        /\ from \in Nat /\ at \in Nat /\ more \in Nat
    BY <1>2, <1>4, <1>5 DEF next
  <2> HIDE DEF told, at, from
  <2>2. told + more + 1 = from + next
    BY <2>1
  <2>3. Told(follower') + Accounted(item) + 1 = follower'.from + follower'.next
    BY <1>5, <1>9, <1>11, <2>2 DEF told, from
  <2>4. Told(follower') \in Nat /\ Follows(item.records, order, Told(follower'))
    BY <1>2, <1>5, <1>11
  <2>5. follower'.hand = <<item>> /\ follower'.from \in Nat /\ follower'.next \in Nat
    BY <1>2, <1>7, <1>9 DEF hand
  <2> QED BY <1>2, <1>5, <1>9, <2>3, <2>4, <2>5, ItemInHand
<1>13. TaskOK(follower') /\ follower'.st \in Running
  BY <1>6, <1>9 DEF TaskOK, Running
<1> QED BY <1>2, <1>7, <1>9, <1>10, <1>11, <1>12, <1>13, StillRuns

LEMMA FileReceivesKeeps ==
  ASSUME EvInv, FileReceives
  PROVE  EvInv'
<1>1. /\ follower.st \in {"recv", "drain"} /\ follower.kind = "file" /\ Unread(follower) > 0
      /\ UNCHANGED <<ring, nextSequence, taken, order, live>>
      /\ follower' = FileTakes(follower, "write")
  BY DEF FileReceives, FollowerStep
<1> QED BY <1>1, FileTakesKeeps

(* What was taken is written.                                              *)
LEMMA FileWritesKeeps ==
  ASSUME EvInv, NEW st \in {"write", "drainWrite"}, NEW then \in {"recv", "drain"},
         FileWrites(st, then)
  PROVE  EvInv'
<1> DEFINE item == follower.hand[1]
           out == Append(follower.out, item)
<1>1. /\ follower.st \in {"write", "drainWrite"} /\ follower.st \in Running
      /\ UNCHANGED <<ring, nextSequence, taken, order, live>>
      /\ follower' = [follower EXCEPT !.st = then, !.out = @ \o follower.hand, !.hand = <<>>]
  BY DEF FileWrites, FollowerStep, Running
<1>2. /\ follower \in Follower /\ order \in Seq(Records) /\ Len(order) \in Nat /\ Len(live) \in Nat
      /\ follower.from \in Nat /\ follower.next \in Nat /\ follower.out # <<>>
      /\ follower.out \in Seq(Item) /\ follower.hand \in Seq(Item) /\ Told(follower) \in Nat
      /\ follower.from + Len(live) = Len(order)
      /\ 1 =< follower.next /\ follower.next =< Len(live) + 1 /\ follower.asked =< Len(order)
      /\ OutOK(follower, order) /\ HandOK(follower, order) /\ TaskOK(follower)
      /\ follower.st \notin Ended
  BY <1>1, RunningFacts
<1>3. /\ Len(follower.hand) = 1 /\ follower.batch = <<>> /\ follower.pending = 0
      /\ follower.kind = "file"
  BY <1>1, <1>2 DEF TaskOK
<1>4. item \in Item /\ follower.hand = <<item>>
  BY <1>2, <1>3
<1>5. /\ Told(follower) + Accounted(item) = follower.from + follower.next - 1
      /\ Accounted(item) \in Nat
  <2>1. InHand(follower) = Accounted(item) /\ InHand(follower) \in Nat
    BY <1>2, <1>3, HandOne
  <2>2. Told(follower) + InHand(follower) = follower.from + follower.next - 1
    BY <1>2 DEF HandOK
  <2> QED BY <2>1, <2>2
<1>6. Follows(item.records, order, Told(follower))
  BY <1>2, <1>3 DEF HandOK
<1>7. out \in Seq(Item) /\ follower.out \o follower.hand = out
  <2> HIDE DEF item
  <2> QED BY <1>2, <1>4
<1> HIDE DEF item, out
<1>8. follower' = [follower EXCEPT !.st = then, !.out = out, !.hand = <<>>]
  BY <1>1, <1>7
<1>9. /\ follower'.st = then /\ follower'.batch = <<>> /\ follower'.pending = 0
      /\ follower'.hand = <<>> /\ follower'.kind = "file"
      /\ follower'.from = follower.from /\ follower'.next = follower.next
      /\ follower'.out = out /\ follower'.history = follower.history
      /\ follower'.asked = follower.asked
  BY <1>2, <1>3, <1>8 DEF Follower
<1>10. follower' \in Follower
  <2>1. <<>> \in Seq(Item)
    OBVIOUS
  <2> QED BY <1>2, <1>7, <1>8, <2>1 DEF Follower, States
<1>11. /\ Told(follower') = Told(follower) + Accounted(item) /\ Told(follower') \in Nat
       /\ follower'.out # <<>> /\ OutOK(follower', order)
  <2>1. follower'.out = Append(follower.out, item)
    BY <1>9 DEF out
  <2>2. follower'.from = follower.from /\ follower'.history = follower.history
    BY <1>9
  <2> QED BY <1>2, <1>4, <1>6, <2>1, <2>2, ItemAdded
<1>12. HandOK(follower', order)
  <2> DEFINE told == Told(follower')
             before == Told(follower)
             all == Len(order)
             len == Len(live)
             at == follower.next
             from == follower.from
             n == Accounted(item)
  <2>1. /\ told = before + n /\ before + n = from + at - 1 /\ before \in Nat /\ n \in Nat
        /\ from + len = all /\ at =< len + 1
        /\ from \in Nat /\ at \in Nat /\ len \in Nat /\ all \in Nat
    BY <1>2, <1>5, <1>11
  <2> HIDE DEF told, before, all, len, at, from, n
  <2>2. told =< all /\ told + 1 = from + at
    BY <2>1
  <2>3. /\ Told(follower') + 1 = follower'.from + follower'.next
        /\ Told(follower') =< Len(order)
    BY <1>9, <2>2 DEF told, from, at, all
  <2> QED BY <1>2, <1>9, <1>11, <2>3, NothingInHand
<1>13. TaskOK(follower') /\ follower'.st \in Running
  BY <1>9 DEF TaskOK, Running
<1> QED BY <1>1, <1>2, <1>9, <1>10, <1>11, <1>12, <1>13, StillRuns

(* The stop is heard: what the channel still holds is left to write.       *)
LEMMA FileStopsKeeps ==
  ASSUME EvInv, FileStops
  PROVE  EvInv'
<1>1. /\ follower.st = "recv" /\ follower.st \in Running /\ follower.kind = "file"
      /\ UNCHANGED <<ring, nextSequence, taken, order, live>>
      /\ follower' = [follower EXCEPT !.st = "drain"]
  BY DEF FileStops, FollowerStep, Running
<1>2. /\ follower \in Follower /\ order \in Seq(Records) /\ Told(follower) \in Nat
      /\ follower.from \in Nat /\ follower.next \in Nat /\ follower.out # <<>>
      /\ 1 =< follower.next /\ follower.next =< Len(live) + 1 /\ follower.asked =< Len(order)
      /\ OutOK(follower, order) /\ TaskOK(follower) /\ follower.st \notin Ended
  BY <1>1, RunningFacts
<1>3. follower.pending = 0
  BY <1>1, <1>2 DEF TaskOK
<1>4. /\ follower.batch = <<>> /\ follower.hand = <<>> /\ Told(follower) =< Len(order)
      /\ Told(follower) + 1 = follower.from + follower.next
  BY <1>1, <1>3, Waiting
<1>5. /\ follower'.st = "drain" /\ follower'.batch = <<>> /\ follower'.pending = 0
      /\ follower'.hand = <<>> /\ follower'.kind = "file"
      /\ follower'.from = follower.from /\ follower'.next = follower.next
      /\ follower'.out = follower.out /\ follower'.history = follower.history
      /\ follower'.asked = follower.asked
  BY <1>1, <1>2, <1>3, <1>4 DEF Follower
<1>6. follower' \in Follower
  BY <1>1, <1>2 DEF Follower, States
<1>7. Told(follower') = Told(follower) /\ OutOK(follower', order)
  BY <1>2, <1>5, SameOut
<1>8. HandOK(follower', order)
  BY <1>2, <1>4, <1>5, <1>7, NothingInHand
<1>9. TaskOK(follower') /\ follower'.st \in Running
  BY <1>5 DEF TaskOK, Running
<1> QED BY <1>1, <1>2, <1>5, <1>6, <1>7, <1>8, <1>9, StillRuns

(* ... and when nothing is left, the recording is whole.                   *)
LEMMA FileDrainsKeeps ==
  ASSUME EvInv, FileDrains
  PROVE  EvInv'
<1>1. /\ follower.st = "drain" /\ follower.st \in Running
      /\ UNCHANGED <<ring, nextSequence, taken, order, live>>
      /\ follower' = IF Unread(follower) > 0 THEN FileTakes(follower, "drainWrite")
                     ELSE [follower EXCEPT !.st = "stopped"]
  BY DEF FileDrains, FollowerStep, Running
<1>2. /\ TaskOK(follower) /\ follower.st \notin Ended /\ Told(follower) \in Nat
      /\ follower.from \in Nat /\ follower.next \in Nat /\ Len(live) \in Nat /\ Len(order) \in Nat
      /\ follower.from + Len(live) = Len(order) /\ follower.asked =< Len(order)
      /\ follower.asked \in Nat
  BY <1>1, RunningFacts
<1>3. follower.kind = "file" /\ follower.pending = 0
  BY <1>1, <1>2 DEF TaskOK
<1>4. CASE Unread(follower) > 0
  BY <1>1, <1>3, <1>4, FileTakesKeeps
<1>5. CASE ~(Unread(follower) > 0)
  <2>1. Unread(follower) \in Nat /\ Unread(follower) = Len(live) - follower.next + 1
    BY <1>1, LostFacts
  <2>2. Told(follower) + 1 = follower.from + follower.next
    BY <1>1, <1>3, Waiting
  <2>3. Told(follower) >= follower.asked
    <3> DEFINE told == Told(follower)
               all == Len(order)
               len == Len(live)
               at == follower.next
               from == follower.from
               asked == follower.asked
    <3>1. /\ len - at + 1 = 0 /\ told + 1 = from + at /\ from + len = all /\ asked =< all
          /\ told \in Nat /\ from \in Nat /\ at \in Nat /\ len \in Nat /\ all \in Nat
          /\ asked \in Nat
      BY <1>2, <1>5, <2>1, <2>2
    <3> HIDE DEF told, all, len, at, from, asked
    <3>2. told >= asked
      BY <3>1
    <3> QED BY <3>2 DEF told, asked
  <2> QED BY <1>1, <1>2, <1>5, <2>3, TaskEnds
<1> QED BY <1>4, <1>5

(* A stop is asked for.                                                    *)
LEMMA StreamStopKeeps ==
  ASSUME EvInv, StreamStop
  PROVE  EvInv'
<1>1. /\ follower.st \notin Ended /\ UNCHANGED <<ring, nextSequence, taken, order, live>>
      /\ follower' = [follower EXCEPT !.stop = TRUE, !.asked = Len(order)]
  BY DEF StreamStop
<1>2. /\ follower \in Follower /\ order \in Seq(Records) /\ Len(order) \in Nat
      /\ LiveOK(follower, live, order) /\ FollowerOK(follower, order)
  BY DEF EvInv, EvTypeOK
<1>3. /\ follower'.st = follower.st /\ follower'.batch = follower.batch
      /\ follower'.pending = follower.pending /\ follower'.dump = follower.dump
      /\ follower'.hand = follower.hand /\ follower'.kind = follower.kind
      /\ follower'.from = follower.from /\ follower'.next = follower.next
      /\ follower'.out = follower.out /\ follower'.history = follower.history
      /\ follower'.asked = Len(order)
  BY <1>1, <1>2 DEF Follower
<1>4. follower' \in Follower
  BY <1>1, <1>2 DEF Follower
<1>5. Told(follower') = Told(follower) /\ OutOK(follower', order)
  BY <1>2, <1>3, SameOut DEF FollowerOK
<1>6. InHand(follower') = InHand(follower)
  BY <1>3 DEF InHand
<1>7. HandOK(follower, order) => HandOK(follower', order)
  BY <1>3, <1>5, <1>6 DEF HandOK
<1>8. TaskOK(follower) => TaskOK(follower')
  BY <1>3 DEF TaskOK
<1>9. DumpOK(follower, follower.dump, order) => DumpOK(follower', follower'.dump, order)
  BY <1>3 DEF DumpOK
<1>10. follower'.st \notin {"none", "stopped"}
  BY <1>1, <1>3 DEF Ended
<1>11. FollowerOK(follower', order)
  BY <1>2, <1>3, <1>5, <1>7, <1>8, <1>9, <1>10 DEF FollowerOK
<1>12. /\ follower'.asked =< Len(order) /\ 1 =< follower'.next /\ follower'.next =< Len(live) + 1
  BY <1>2, <1>3 DEF LiveOK
<1> QED BY <1>1, <1>3, <1>4, <1>10, <1>11, <1>12, StreamStep

(* A stream begins where the order ends, with the ring as it is.           *)
LEMMA StartKeeps ==
  ASSUME EvInv, NEW kind \in {"client", "file"}, NEW history \in BOOLEAN, Start(kind, history)
  PROVE  EvInv'
<1> DEFINE kept == IF history THEN ring.kept ELSE <<>>
           dump == [missing |-> ring.dropped, records |-> kept]
           from == Len(order)
<1>1. /\ ring \in [capacity : Nat, kept : Seq(Records), dropped : Nat] /\ RingOK(ring, order)
      /\ order \in Seq(Records) /\ live \in Seq(Records)
      /\ LiveOK(follower, live, order) /\ follower.st = "none"
      /\ UNCHANGED <<ring, nextSequence, taken, order, live>>
  BY DEF EvInv, EvTypeOK, Start
<1>2. live = <<>> /\ Len(live) = 0 /\ from \in Nat
  BY <1>1 DEF LiveOK
<1>3. kept \in Seq(Records)
  BY <1>1
<1>4. \A i \in 1..Len(kept) : Recorded(kept[i], order, from)
  BY <1>1 DEF RingOK
<1>5. history => ring.dropped + Len(kept) = from
  BY <1>1 DEF RingOK
<1> HIDE DEF kept
<1>6. dump \in Item /\ dump.missing = ring.dropped /\ dump.records = kept
  BY <1>1, <1>3 DEF Item
<1> HIDE DEF dump
<1>7. follower' = [NoFollower EXCEPT !.st = "opening", !.kind = kind, !.history = history,
                                     !.from = from, !.next = 1, !.dump = dump]
  BY <1>2 DEF Start, dump, kept
<1> HIDE DEF from
<1>8. /\ follower'.st = "opening" /\ follower'.batch = <<>> /\ follower'.pending = 0
      /\ follower'.hand = <<>> /\ follower'.from = from /\ follower'.next = 1
      /\ follower'.out = <<>> /\ follower'.history = history /\ follower'.asked = 0
      /\ follower'.dump = dump
  BY <1>7 DEF NoFollower
<1>9. follower' \in Follower
  <2>1. <<>> \in Seq(Records) /\ <<>> \in Seq(Item)
    OBVIOUS
  <2> QED BY <1>2, <1>6, <1>7, <2>1 DEF NoFollower, Follower, States
<1>10. LiveOK(follower', live, order)
  BY <1>1, <1>2, <1>8 DEF LiveOK, Ended, from
<1>11. DumpOK(follower', dump, order)
  BY <1>4, <1>5, <1>6, <1>8 DEF DumpOK
<1>12. OutOK(follower', order)
  BY <1>8 DEF OutOK
<1>13. FollowerOK(follower', order)
  BY <1>6, <1>8, <1>11, <1>12 DEF FollowerOK, Running
<1> QED BY <1>1, <1>9, <1>10, <1>13 DEF EvInv, EvTypeOK

(* The dump is the first a stream sends or writes.                         *)
LEMMA DumpSentKeeps ==
  ASSUME EvInv, DumpSent
  PROVE  EvInv'
<1> DEFINE dump == follower.dump
           out == <<dump>>
<1>1. /\ follower.st = "opening" /\ UNCHANGED <<ring, nextSequence, taken, order, live>>
      /\ follower' = [follower EXCEPT !.st = "recv", !.out = out]
  BY DEF DumpSent
<1>2. /\ follower \in Follower /\ order \in Seq(Records) /\ live \in Seq(Records)
      /\ LiveOK(follower, live, order) /\ FollowerOK(follower, order)
      /\ follower.st \notin Ended
  BY <1>1 DEF EvInv, EvTypeOK, Ended
<1>3. /\ follower.batch = <<>> /\ follower.hand = <<>> /\ follower.pending = 0
      /\ follower.next = 1 /\ dump \in Item /\ DumpOK(follower, dump, order)
  BY <1>1, <1>2 DEF FollowerOK
<1>4. /\ follower.from \in Nat /\ Len(order) \in Nat /\ Len(live) \in Nat
      /\ follower.from + Len(live) = Len(order) /\ follower.asked =< Len(order)
  BY <1>2 DEF LiveOK, Follower
<1>5. out \in Seq(Item) /\ Len(out) = 1 /\ out # <<>> /\ out[1] = dump
  BY <1>3
<1> HIDE DEF dump, out
<1>6. /\ follower'.st = "recv" /\ follower'.batch = <<>> /\ follower'.pending = 0
      /\ follower'.hand = <<>> /\ follower'.kind = follower.kind
      /\ follower'.from = follower.from /\ follower'.next = 1
      /\ follower'.out = out /\ follower'.history = follower.history
      /\ follower'.asked = follower.asked
  BY <1>1, <1>2, <1>3 DEF Follower
<1>7. follower' \in Follower
  BY <1>1, <1>2, <1>5 DEF Follower, States
<1>8. Told(follower') = follower.from
  <2> DEFINE none == [j \in 2..1 |-> Accounted(out[j])]
  <2>1. 2..1 = {}
    OBVIOUS
  <2>2. DOMAIN none = {}
    BY <2>1
  <2> HIDE DEF none
  <2>3. SumOf(none) = 0
    BY <2>2, SumOfNothing
  <2>4. Told(follower') = follower.from + SumOf(none)
    BY <1>5, <1>6 DEF Told, UpTo, none
  <2>5. \A n \in Nat : n + 0 = n
    OBVIOUS
  <2> QED BY <1>4, <2>3, <2>4, <2>5
<1>9. OutOK(follower', order)
  <2>1. DumpOK(follower', follower'.out[1], order)
    BY <1>3, <1>5, <1>6 DEF DumpOK
  <2>2. \A i \in 2..Len(follower'.out) : FALSE
    <3>1. 2..1 = {} /\ Len(follower'.out) = 1
      BY <1>5, <1>6
    <3> QED BY <3>1
  <2> QED BY <2>1, <2>2 DEF OutOK
<1>10. HandOK(follower', order)
  <2>1. /\ Told(follower') \in Nat /\ Told(follower') =< Len(order)
        /\ Told(follower') + 1 = follower'.from + follower'.next
    BY <1>4, <1>6, <1>8
  <2> QED BY <1>2, <1>4, <1>6, <2>1, NothingInHand
<1>11. TaskOK(follower') /\ follower'.st \in Running
  BY <1>6 DEF TaskOK, Running
<1> QED BY <1>1, <1>2, <1>4, <1>5, <1>6, <1>7, <1>9, <1>10, <1>11, StillRuns

-----------------------------------------------------------------------------
(* The invariant *)

LEMMA EvInitInv ==
  ASSUME EvInit
  PROVE  EvInv
<1>1. PICK size \in RingSizes : ring = [capacity |-> size, kept |-> <<>>, dropped |-> 0]
  BY DEF EvInit
<1>2. /\ nextSequence = 1 /\ taken = [p \in Producers |-> 0]
      /\ order = <<>> /\ live = <<>> /\ follower = NoFollower
  BY DEF EvInit
<1>3. size \in Nat
  BY EvConstants DEF EvConstants
<1>4. /\ <<>> \in Seq(Records) /\ <<>> \in Seq(Item) /\ Len(<<>>) = 0
  OBVIOUS
<1>5. ring \in [capacity : Nat, kept : Seq(Records), dropped : Nat]
  BY <1>1, <1>3, <1>4
<1>6. ring.dropped = 0 /\ ring.kept = <<>>
  BY <1>1
<1>7. follower \in Follower
  BY <1>2, <1>4 DEF NoFollower, Follower, States
<1>8. /\ follower.st = "none" /\ follower.out = <<>> /\ follower.from = 0 /\ follower.next = 1
      /\ follower.asked = 0
  BY <1>2 DEF NoFollower
<1>9. EvTypeOK
  BY <1>2, <1>4, <1>5, <1>7 DEF EvTypeOK
<1>10. RingOK(ring, order)
  BY <1>2, <1>4, <1>6 DEF RingOK
<1>11. LiveOK(follower, live, order)
  BY <1>2, <1>4, <1>8 DEF LiveOK, Ended
<1>12. FollowerOK(follower, order)
  BY <1>8 DEF FollowerOK, OutOK, Running
<1> QED BY <1>9, <1>10, <1>11, <1>12 DEF EvInv

LEMMA EvNextInv ==
  ASSUME EvInv, [EvNext]_evVars
  PROVE  EvInv'
<1>1. ASSUME NEW p \in Producers, TakeSequence(p)  PROVE EvInv'
  BY <1>1, TakeSequenceKeeps
<1>2. ASSUME NEW p \in Producers, Record(p)  PROVE EvInv'
  BY <1>2, RecordKeeps
<1>3. ASSUME NEW size \in RingSizes, Configure(size)  PROVE EvInv'
  BY <1>3, ConfigureKeeps
<1>4. ASSUME NEW kind \in {"client", "file"}, NEW history \in BOOLEAN, Start(kind, history)
      PROVE  EvInv'
  BY <1>4, StartKeeps
<1>5. CASE DumpSent \/ StreamStop
  BY <1>5, DumpSentKeeps, StreamStopKeeps
<1>6. CASE ClientReceives \/ ClientFills \/ ClientAborted
  BY <1>6, ClientReceivesKeeps, ClientFillsKeeps, ClientAbortedKeeps
<1>7. CASE FileReceives \/ FileStops \/ FileDrains \/ FileFails
  BY <1>7, FileReceivesKeeps, FileStopsKeeps, FileDrainsKeeps, FileFailsKeeps
<1>8. CASE FileWrites("write", "recv") \/ FileWrites("drainWrite", "drain")
  BY <1>8, FileWritesKeeps
<1>9. CASE UNCHANGED evVars
  BY <1>9 DEF evVars, EvInv, EvTypeOK
<1> QED BY <1>1, <1>2, <1>3, <1>4, <1>5, <1>6, <1>7, <1>8, <1>9 DEF EvNext

(* The ring, the channel and a stream's task together hold every record in *)
(* its place: the inductive invariant of the journal (EventLog::record,    *)
(* snapshot_and_subscribe, and both stream tasks).                         *)
THEOREM EvInvariant == EvSpec => []EvInv
<1>1. EvInit => EvInv
  BY EvInitInv
<1>2. EvInv /\ [EvNext]_evVars => EvInv'
  BY EvNextInv
<1> QED BY <1>1, <1>2, PTL DEF EvSpec

(* Records that follow a position are the piece of the order there.        *)
LEMMA FollowsIsSubSeq ==
  ASSUME NEW s \in Seq(Records), NEW ord \in Seq(Records), NEW u \in Nat, Follows(s, ord, u)
  PROVE  s = SubSeq(ord, u + 1, u + Len(s))
<1> DEFINE m == Len(s)
           piece == SubSeq(ord, u + 1, u + m)
<1>1. m \in Nat /\ Len(ord) \in Nat /\ u + m =< Len(ord)
  BY DEF Follows
<1>2. \A i \in (u + 1)..(u + m) : i \in 1..Len(ord) /\ ord[i] \in Records
  <2>1. \A i \in (u + 1)..(u + m) : i \in 1..Len(ord)
    BY <1>1
  <2> QED BY <2>1
<1>3. piece \in Seq(Records) /\ Len(piece) = m
  BY <1>1, <1>2
<1>4. \A k \in 1..m : piece[k] = ord[u + k]
  BY <1>1
<1>5. \A k \in 1..m : s[k] = ord[u + k]
  BY DEF Follows
<1>6. s = [k \in 1..m |-> s[k]]
  OBVIOUS
<1> HIDE DEF piece
<1>7. piece = [k \in 1..Len(piece) |-> piece[k]]
  BY <1>3
<1> HIDE DEF m
<1>8. s = piece
  BY <1>3, <1>4, <1>5, <1>6, <1>7
<1> QED BY <1>8 DEF piece, m

(* A stream's dump, the records it holds and those it says it missed       *)
(* account for every record, in the order of the ring's lock, up to what   *)
(* its task and the channel still owe it.                                  *)
THEOREM EveryRecordIsAccountedFor == EvSpec => []StreamsAccountForEveryRecord
<1>1. EvInv => StreamsAccountForEveryRecord
  <2> SUFFICES ASSUME EvInv, follower.out # <<>>
               PROVE  /\ follower.history =>
                           follower.out[1].missing + Len(follower.out[1].records) = follower.from
                      /\ \A i \in 1..Len(follower.out[1].records) :
                           \E at \in 1..follower.from : order[at] = follower.out[1].records[i]
                      /\ InPlace(follower)
                      /\ follower.st \notin Ended =>
                           Told(follower) + InHand(follower) + Unread(follower) = Len(order)
    BY DEF StreamsAccountForEveryRecord
  <2>1. /\ follower \in Follower /\ order \in Seq(Records)
        /\ OutOK(follower, order) /\ FollowerOK(follower, order)
    BY DEF EvInv, EvTypeOK, FollowerOK
  <2>2. follower.out \in Seq(Item) /\ follower.from \in Nat
    BY <2>1 DEF Follower
  <2>3. DumpOK(follower, follower.out[1], order)
    BY <2>1 DEF OutOK
  <2>4. InPlace(follower)
    <3> SUFFICES ASSUME NEW i \in 2..Len(follower.out)
                 PROVE  follower.out[i].records =
                          SubSeq(order, UpTo(follower, i - 1) + 1,
                                 UpTo(follower, i - 1) + Len(follower.out[i].records))
      BY DEF InPlace
    <3>1. follower.out[i] \in Item /\ i - 1 \in Nat /\ i - 1 =< Len(follower.out)
      BY <2>2
    <3>2. follower.out[i].records \in Seq(Records) /\ UpTo(follower, i - 1) \in Nat
      BY <2>2, <3>1, UpToType DEF Item
    <3>3. Follows(follower.out[i].records, order, UpTo(follower, i - 1))
      BY <2>1 DEF OutOK
    <3> QED BY <2>1, <3>2, <3>3, FollowsIsSubSeq
  <2>5. ASSUME follower.st \notin Ended
        PROVE  Told(follower) + InHand(follower) + Unread(follower) = Len(order)
    <3>1. follower.st \in Running
      BY <2>1, <2>5 DEF Follower, States, Running, Ended, FollowerOK
    <3>2. /\ follower.from \in Nat /\ follower.next \in Nat /\ Len(live) \in Nat
          /\ Len(order) \in Nat /\ follower.from + Len(live) = Len(order)
      BY <3>1, RunningFacts
    <3>3. Told(follower) + InHand(follower) = follower.from + follower.next - 1
      BY <3>1, RunningFacts DEF HandOK
    <3>4. Unread(follower) = Len(live) - follower.next + 1
      BY DEF Unread
    <3> DEFINE told == Told(follower) + InHand(follower)
               all == Len(order)
               len == Len(live)
               at == follower.next
               from == follower.from
    <3>5. /\ told = from + at - 1 /\ from + len = all
          /\ from \in Nat /\ at \in Nat /\ len \in Nat /\ all \in Nat
      BY <3>2, <3>3
    <3> HIDE DEF told, all, len, at, from
    <3>6. told + (len - at + 1) = all
      BY <3>5
    <3> QED BY <3>4, <3>6 DEF told, all, len, at
  <2> QED BY <2>3, <2>4, <2>5 DEF DumpOK, Recorded
<1> QED BY <1>1, EvInvariant, PTL

(* A recording that was stopped and closed without an error has accounted  *)
(* for every record made before the stop was asked for.                    *)
THEOREM RecordingsAreWhole == EvSpec => []RecordingsEndWhole
<1>1. EvInv => RecordingsEndWhole
  BY DEF EvInv, FollowerOK, RecordingsEndWhole
<1> QED BY <1>1, EvInvariant, PTL
=============================================================================
