--------------------------- MODULE NetRelayProofs ---------------------------
(* Theorems about NetRelay: the connection's credit is the sum of what its *)
(* streams hold of it, and what is queued for targets is charged.          *)
EXTENDS NetRelay, FiniteSetTheorems, WellFoundedInduction, TLAPS

-----------------------------------------------------------------------------
(* The inductive invariant *)

Kinds == {"opened", "refused", "closed", "over_budget", "data", "ack"}
Frame == [kind : Kinds, n : Nat]

Stream ==
  [phase : {"none", "connecting", "gates", "register", "parked", "ready", "stopping", "closed", "gone"},
   id : StreamIds \cup {0}, window : Nat, acked : Nat, ackNew : BOOLEAN, sent : Nat,
   held : Nat, wake : BOOLEAN, done : BOOLEAN,
   writes : Seq(Nat), writer : {"none", "idle", "writing", "landed", "failed", "ended"}, writing : Nat,
   written : Nat, queued : Nat, taking : Nat, releasing : Nat]

View == [st : {"free", "opening", "open", "closing"}, got : Nat, acked : Nat, up : Nat,
         upAcked : Nat, window : Nat, half : BOOLEAN]

NetTypeOK ==
  /\ table \in [StreamIds -> 0..MaxStreams]
  /\ stream \in [Streams -> Stream]
  /\ outstanding \in Int /\ inbound \in Int
  /\ outbox \in [StreamIds -> Seq(Frame)]
  /\ client \in [StreamIds -> View]
  /\ plan \in Plans

(* A stream that was never opened is as it began, and one that is being    *)
(* opened has no writer; a share of the credit is held between the first   *)
(* look at the gates and the end; what its writer has or will have, and    *)
(* what is being admitted, is charged to the stream; what was taken from it*)
(* and not yet from the connection was just written.                       *)
StreamOK(s) ==
  /\ s.phase = "none" => s.queued = 0
  /\ s.phase # "none" => s.id \in StreamIds
  /\ s.phase \in {"none", "connecting"} => s.writer = "none"
  /\ s.phase \in {"none", "connecting", "gone"} => s.held = 0
  /\ s.writer # "ended" => s.queued = SumOf(s.writes) + s.writing + s.taking
  /\ s.writer # "writing" => s.writing = 0
  /\ s.writer \notin {"landed", "failed"} => s.releasing = 0
  /\ s.taking =< s.queued

(* What the connection's total has of a stream.                            *)
Share(s) == s.queued - s.taking + s.releasing

SameCharges(s, t) == t.queued = s.queued /\ t.taking = s.taking /\ t.releasing = s.releasing
USE DEF SameCharges

Held(ss) == [n \in Streams |-> ss[n].held]
Shares(ss) == [n \in Streams |-> Share(ss[n])]

NetInv ==
  /\ NetTypeOK
  /\ \A i \in StreamIds : table[i] # 0 => stream[table[i]].phase # "none"
  /\ \A n \in Streams : StreamOK(stream[n])
  /\ outstanding = SumOf(Held(stream))
  /\ inbound = SumOf(Shares(stream))
  /\ inbound =< InboundAggregate

-----------------------------------------------------------------------------
(* Sums *)

(* The units of a function on a finite set are finitely many.              *)
LEMMA UnitsFinite ==
  ASSUME NEW D, IsFiniteSet(D), NEW f \in [D -> Nat]
  PROVE  IsFiniteSet(Units(f)) /\ SumOf(f) \in Nat
<1> DEFINE Parts == {{x} \X (1..f[x]) : x \in D}
<1>1. \A x \in D : IsFiniteSet({x} \X (1..f[x]))
  <2> SUFFICES ASSUME NEW x \in D  PROVE IsFiniteSet({x} \X (1..f[x]))
    OBVIOUS
  <2>1. IsFiniteSet(1..f[x])
    BY FS_Interval
  <2> QED BY <2>1, FS_Singleton, FS_Product
<1>2. IsFiniteSet(Parts)
  <2> DEFINE g == [x \in D |-> {x} \X (1..f[x])]
  <2>1. g \in Surjection(D, Parts)
    BY DEF Surjection
  <2> QED BY <2>1, FS_Surjection
<1>3. DOMAIN f = D
  OBVIOUS
<1>4. IsFiniteSet(Units(f))
  BY <1>1, <1>2, <1>3, FS_UNION DEF Units
<1> QED BY <1>4, FS_CardinalityType DEF SumOf

(* One argument's units are as many as its value, and lie apart from the   *)
(* units of the others.                                                    *)
LEMMA SumSplit ==
  ASSUME NEW D, IsFiniteSet(D), NEW f \in [D -> Nat], NEW x \in D,
         NEW rest, rest = UNION {{y} \X (1..f[y]) : y \in D \ {x}}
  PROVE  IsFiniteSet(rest) /\ Cardinality(rest) \in Nat /\ SumOf(f) = Cardinality(rest) + f[x]
<1> DEFINE own == {x} \X (1..f[x])
<1>1. f[x] \in Nat /\ DOMAIN f = D
  OBVIOUS
<1>2. Units(f) = rest \cup own
  BY <1>1 DEF Units
<1>3. rest \cap own = {}
  OBVIOUS
<1>4. IsFiniteSet(rest)
  BY <1>2, UnitsFinite, FS_Subset
<1>5. IsFiniteSet(own) /\ Cardinality(own) = f[x]
  <2>1. IsFiniteSet(1..f[x]) /\ Cardinality(1..f[x]) = f[x]
    BY <1>1, FS_Interval
  <2>2. IsFiniteSet({x}) /\ Cardinality({x}) = 1
    BY FS_Singleton
  <2>3. IsFiniteSet(own) /\ Cardinality(own) = 1 * f[x]
    BY <2>1, <2>2, FS_Product, ZenonT(60)
  <2> QED BY <1>1, <2>3
<1> HIDE DEF own
<1>6. Cardinality(rest \cup own) = Cardinality(rest) + Cardinality(own) - Cardinality(rest \cap own)
  BY <1>4, <1>5, FS_Union
<1>7. Cardinality(rest) \in Nat /\ Cardinality({}) = 0
  BY <1>4, FS_CardinalityType, FS_EmptySet
<1>8. SumOf(f) = Cardinality(rest \cup own) /\ Cardinality(rest \cap own) = 0
  BY <1>2, <1>3, <1>7 DEF SumOf
<1>9. \A a, b, c \in Nat : c = 0 => a + b - c = a + b
  OBVIOUS
<1>10. SumOf(f) = Cardinality(rest) + f[x]
  BY <1>1, <1>5, <1>6, <1>7, <1>8, <1>9
<1> QED BY <1>4, <1>7, <1>10

(* A function that changes at one argument has a sum that changes by as    *)
(* much (CreditCharge::set, InboundWindow::admit and release).             *)
LEMMA SumChange ==
  ASSUME NEW D, IsFiniteSet(D), NEW f \in [D -> Nat], NEW g \in [D -> Nat], NEW x \in D,
         \A y \in D \ {x} : g[y] = f[y]
  PROVE  SumOf(g) = SumOf(f) + g[x] - f[x]
<1> DEFINE rest == UNION {{y} \X (1..f[y]) : y \in D \ {x}}
<1>1. rest = UNION {{y} \X (1..g[y]) : y \in D \ {x}}
  OBVIOUS
<1> HIDE DEF rest
<1>2. /\ Cardinality(rest) \in Nat
      /\ SumOf(f) = Cardinality(rest) + f[x]
      /\ SumOf(g) = Cardinality(rest) + g[x]
  BY <1>1, SumSplit DEF rest
<1> QED BY <1>2

(* A sum of zeros is zero.                                                 *)
LEMMA SumOfZeros ==
  ASSUME NEW D, NEW f \in [D -> Nat], \A x \in D : f[x] = 0
  PROVE  SumOf(f) = 0
<1>1. Units(f) = {}
  <2>1. \A x \in D : 1..f[x] = {}
    OBVIOUS
  <2> QED BY <2>1 DEF Units
<1> QED BY <1>1, FS_EmptySet DEF SumOf

(* An empty queue holds nothing.                                           *)
LEMMA SumOfEmpty ==
  SumOf(<<>>) = 0
<1>1. Units(<<>>) = {}
  BY DEF Units
<1> QED BY <1>1, FS_EmptySet DEF SumOf

(* A value at the end of a queue adds to its sum (Push).                   *)
LEMMA SumAppend ==
  ASSUME NEW s \in Seq(Nat), NEW k \in Nat
  PROVE  SumOf(s) \in Nat /\ SumOf(Append(s, k)) = SumOf(s) + k
<1> DEFINE D == 1..Len(s) + 1
           t == Append(s, k)
           rest == UNION {{y} \X (1..t[y]) : y \in D \ {Len(s) + 1}}
<1>1. /\ Len(s) \in Nat /\ s \in [1..Len(s) -> Nat] /\ DOMAIN s = 1..Len(s)
      /\ t \in [D -> Nat] /\ Len(s) + 1 \in D /\ t[Len(s) + 1] = k
      /\ \A i \in 1..Len(s) : t[i] = s[i]
  <2>1. /\ Len(s) \in Nat /\ s \in [1..Len(s) -> Nat] /\ DOMAIN s = 1..Len(s)
        /\ t \in Seq(Nat) /\ Len(t) = Len(s) + 1 /\ t[Len(s) + 1] = k
        /\ \A i \in 1..Len(s) : t[i] = s[i]
    OBVIOUS
  <2> HIDE DEF t
  <2>2. t \in [1..Len(t) -> Nat]
    BY <2>1
  <2> QED BY <2>1, <2>2
<1>2. IsFiniteSet(D) /\ IsFiniteSet(1..Len(s))
  BY <1>1, FS_Interval
<1>3. D \ {Len(s) + 1} = 1..Len(s)
  BY <1>1
<1>4. rest = Units(s)
  BY <1>1, <1>3 DEF Units
<1>5. SumOf(s) \in Nat
  BY <1>1, <1>2, UnitsFinite
<1> HIDE DEF D, t
<1>6. SumOf(t) = Cardinality(rest) + k
  BY <1>1, <1>2, SumSplit, SMTT(30)
<1> QED BY <1>4, <1>5, <1>6 DEF t, SumOf

(* What is taken off a queue's front is taken off its sum (TakeWrite).     *)
LEMMA SumTail ==
  ASSUME NEW s \in Seq(Nat), s # <<>>
  PROVE  Head(s) \in Nat /\ SumOf(Tail(s)) \in Nat /\ SumOf(s) = SumOf(Tail(s)) + Head(s)
<1> DEFINE D == 1..Len(s)
           t == Tail(s)
           rest == UNION {{y} \X (1..s[y]) : y \in D \ {1}}
           down == [u \in rest |-> <<u[1] - 1, u[2]>>]
<1>1. /\ Len(s) \in Nat /\ Len(s) > 0 /\ s \in [D -> Nat] /\ 1 \in D /\ s[1] = Head(s)
      /\ t \in Seq(Nat) /\ Len(t) = Len(s) - 1 /\ DOMAIN t = 1..Len(t)
      /\ t \in [1..Len(t) -> Nat]
      /\ \A i \in 1..Len(t) : t[i] = s[i + 1]
  <2>1. Len(s) \in Nat /\ Len(s) > 0 /\ s \in [D -> Nat] /\ s[1] = Head(s)
    OBVIOUS
  <2>2. t \in Seq(Nat) /\ Len(t) = Len(s) - 1 /\ \A i \in 1..Len(t) : t[i] = s[i + 1]
    OBVIOUS
  <2> HIDE DEF t
  <2>3. DOMAIN t = 1..Len(t) /\ t \in [1..Len(t) -> Nat]
    BY <2>2
  <2> QED BY <2>1, <2>2, <2>3
<1>2. IsFiniteSet(D) /\ IsFiniteSet(1..Len(t))
  BY <1>1, FS_Interval
<1> HIDE DEF t, D
<1>3. IsFiniteSet(rest) /\ SumOf(s) = Cardinality(rest) + s[1]
  BY <1>1, <1>2, SumSplit, SMTT(60)
<1> USE DEF D
<1>4. SumOf(t) \in Nat /\ IsFiniteSet(Units(t))
  BY <1>1, <1>2, UnitsFinite
<1>5. \A y, b : <<y, b>> \in rest <=> y \in 2..Len(s) /\ b \in 1..s[y]
  BY <1>1
<1>6. \A y, b : <<y, b>> \in Units(t) <=> y \in 1..Len(t) /\ b \in 1..t[y]
  BY <1>1 DEF Units
<1>7. \A u \in rest : u = <<u[1], u[2]>> /\ u[1] \in Int
  BY <1>1
<1>8. \A u \in Units(t) : u = <<u[1], u[2]>> /\ u[1] \in Int
  BY <1>1, SMTT(30) DEF Units
<1> HIDE DEF rest, D
<1>9. \A u \in rest : <<u[1] - 1, u[2]>> \in Units(t)
  <2> SUFFICES ASSUME NEW u \in rest  PROVE <<u[1] - 1, u[2]>> \in Units(t)
    OBVIOUS
  <2>1. u[1] \in 2..Len(s) /\ u[2] \in 1..s[u[1]]
    BY <1>5, <1>7
  <2>2. \A y \in 2..Len(s) : y - 1 \in 1..Len(t) /\ t[y - 1] = s[y]
    <3> SUFFICES ASSUME NEW y \in 2..Len(s)  PROVE y - 1 \in 1..Len(t) /\ t[y - 1] = s[y]
      OBVIOUS
    <3>1. y - 1 \in 1..Len(t) /\ y - 1 + 1 = y
      BY <1>1
    <3> QED BY <1>1, <3>1
  <2> QED BY <1>6, <2>1, <2>2
<1>10. \A u \in Units(t) : <<u[1] + 1, u[2]>> \in rest
  <2> SUFFICES ASSUME NEW u \in Units(t)  PROVE <<u[1] + 1, u[2]>> \in rest
    OBVIOUS
  <2>1. u[1] \in 1..Len(t) /\ u[2] \in 1..t[u[1]]
    BY <1>6, <1>8
  <2>2. \A y \in 1..Len(t) : y + 1 \in 2..Len(s) /\ s[y + 1] = t[y]
    BY <1>1
  <2> QED BY <1>5, <2>1, <2>2
<1>11. down \in Bijection(rest, Units(t))
  <2>1. down \in [rest -> Units(t)]
    BY <1>9
  <2>2. \A u, v \in rest : down[u] = down[v] => u = v
    BY <1>7
  <2>3. \A u \in Units(t) : \E v \in rest : down[v] = u
    <3> SUFFICES ASSUME NEW u \in Units(t)  PROVE \E v \in rest : down[v] = u
      OBVIOUS
    <3> DEFINE v == <<u[1] + 1, u[2]>>
    <3>1. v \in rest /\ v[1] = u[1] + 1 /\ v[2] = u[2]
      BY <1>10
    <3>2. v[1] - 1 = u[1]
      BY <1>8, <3>1
    <3>3. down[v] = u
      BY <1>8, <3>1, <3>2
    <3> QED BY <3>1, <3>3
  <2> HIDE DEF down
  <2>4. down \in Injection(rest, Units(t))
    BY <2>1, <2>2 DEF Injection, IsInjective
  <2>5. down \in Surjection(rest, Units(t))
    BY <2>1, <2>3 DEF Surjection
  <2> QED BY <2>4, <2>5 DEF Bijection
<1>12. Cardinality(Units(t)) = Cardinality(rest)
  BY <1>3, <1>11, FS_Bijection DEF ExistsBijection
<1> QED BY <1>1, <1>3, <1>4, <1>12 DEF SumOf, t

(* Every window is a number, and so is their sum.                          *)
LEMMA WindowIsNat ==
  ASSUME NEW n \in Nat, n > 0
  PROVE  PerStreamWindow(n) \in Nat
<1>1. Aggregate \in Nat /\ WindowMin \in Nat /\ WindowMax \in Nat
  BY NetConstants DEF NetConstants
<1>2. Aggregate \div n \in Nat
  BY <1>1
<1> QED BY <1>1, <1>2 DEF PerStreamWindow, Clamp

LEMMA AggregateIsNat ==
  InboundAggregate \in Nat
<1>1. MaxSockets \in Nat
  BY NetConstants DEF NetConstants
<1> DEFINE f == [n \in 1..MaxSockets |-> PerStreamWindow(n)]
<1>2. IsFiniteSet(1..MaxSockets) /\ f \in [1..MaxSockets -> Nat]
  <2>1. \A n \in 1..MaxSockets : PerStreamWindow(n) \in Nat
    BY <1>1, WindowIsNat
  <2> QED BY <1>1, <2>1, FS_Interval
<1> HIDE DEF f
<1>3. SumOf(f) \in Nat
  BY <1>2, UnitsFinite
<1> QED BY <1>3 DEF InboundAggregate, f

(* The least of the unused streams is one of them (Open).                  *)
LEMMA MinIsMember ==
  ASSUME NEW S, S \subseteq Nat, S # {}
  PROVE  Min(S) \in S
<1> DEFINE Less == {ss \in Nat \X Nat : ss[1] < ss[2]}
<1>1. IsWellFoundedOn(Less, Nat)
  BY NatLessThanWellFounded DEF OpToRel
<1>2. PICK x \in S : \A y \in S : <<y, x>> \notin Less
  BY <1>1, WFMin
<1>3. ASSUME NEW y \in S  PROVE x =< y
  <2>1. x \in Nat /\ y \in Nat
    OBVIOUS
  <2>2. <<y, x>> \in Nat \X Nat /\ <<y, x>>[1] = y /\ <<y, x>>[2] = x
    BY <2>1
  <2> QED BY <1>2, <2>1, <2>2
<1> QED BY <1>3 DEF Min

-----------------------------------------------------------------------------
(* What a step may do *)

(* Nothing that the invariant looks at changed: at most a wake-up.         *)
Alike(s, t) ==
  /\ t.phase = s.phase /\ t.id = s.id /\ t.held = s.held /\ SameCharges(s, t)
  /\ t.writes = s.writes /\ t.writer = s.writer /\ t.writing = s.writing

LEMMA AlikeKeepsOK ==
  ASSUME NEW s, NEW t, StreamOK(s), Alike(s, t)
  PROVE  StreamOK(t)
BY DEF StreamOK, Alike

(* The streams are finitely many, and none of them is numbered 0, which is *)
(* no entry.                                                               *)
LEMMA StreamsFinite ==
  IsFiniteSet(Streams) /\ MaxStreams \in Nat /\ Streams \subseteq Nat /\ 0 \notin Streams
<1>1. MaxStreams \in Nat
  BY NetConstants DEF NetConstants
<1>2. IsFiniteSet(1..MaxStreams)
  BY <1>1, FS_Interval
<1> QED BY <1>1, <1>2 DEF Streams

(* One stream's share changes, and the sum of all with it.                 *)
LEMMA SharesChange ==
  ASSUME NEW f \in [Streams -> Nat], NEW g \in [Streams -> Nat], NEW n \in Streams,
         \A m \in Streams \ {n} : g[m] = f[m]
  PROVE  SumOf(g) = SumOf(f) + g[n] - f[n] /\ SumOf(f) \in Nat
<1>1. IsFiniteSet(Streams)
  BY StreamsFinite
<1>2. SumOf(g) = SumOf(f) + g[n] - f[n]
  BY <1>1, SumChange
<1>3. SumOf(f) \in Nat
  BY <1>1, UnitsFinite
<1> QED BY <1>2, <1>3

(* The connection's total has no less of a stream than nothing.            *)
LEMMA ShareIsNat ==
  ASSUME NEW s \in Stream, StreamOK(s)
  PROVE  Share(s) \in Nat
<1>1. s.queued \in Nat /\ s.taking \in Nat /\ s.releasing \in Nat /\ s.taking =< s.queued
  BY DEF Stream, StreamOK
<1> QED BY <1>1 DEF Share

(* A step that changes one stream, and its share of either total by as     *)
(* much.                                                                   *)
LEMMA StepKeepsInv ==
  ASSUME NetInv, NEW n \in Streams,
         stream' \in [Streams -> Stream],
         \A m \in Streams \ {n} : Alike(stream[m], stream'[m]),
         StreamOK(stream'[n]), stream'[n].phase # "none",
         outstanding' = outstanding + stream'[n].held - stream[n].held,
         inbound' = inbound + Share(stream'[n]) - Share(stream[n]),
         inbound' =< InboundAggregate,
         table' \in [StreamIds -> 0..MaxStreams],
         \A i \in StreamIds : table'[i] \in {0, table[i], n},
         outbox' \in [StreamIds -> Seq(Frame)],
         client' \in [StreamIds -> View],
         plan' = plan
  PROVE  NetInv'
<1>1. /\ \A m \in Streams : stream[m] \in Stream /\ stream'[m] \in Stream
      /\ \A m \in Streams : stream[m].held \in Nat /\ stream'[m].held \in Nat
      /\ \A m \in Streams : Share(stream[m]) \in Nat /\ Share(stream'[m]) \in Nat
  <2>1. \A m \in Streams : stream[m] \in Stream /\ stream'[m] \in Stream
    BY DEF NetInv, NetTypeOK
  <2>2. \A m \in Streams : StreamOK(stream[m]) /\ StreamOK(stream'[m])
    <3> SUFFICES ASSUME NEW m \in Streams  PROVE StreamOK(stream[m]) /\ StreamOK(stream'[m])
      OBVIOUS
    <3>1. StreamOK(stream[m])
      BY DEF NetInv
    <3> QED BY <3>1, AlikeKeepsOK
  <2> QED BY <2>1, <2>2, ShareIsNat DEF Stream
<1>2. /\ Held(stream) \in [Streams -> Nat] /\ Held(stream') \in [Streams -> Nat]
      /\ Shares(stream) \in [Streams -> Nat] /\ Shares(stream') \in [Streams -> Nat]
  BY <1>1 DEF Held, Shares
<1>3. /\ SumOf(Held(stream')) = SumOf(Held(stream)) + Held(stream')[n] - Held(stream)[n]
      /\ SumOf(Held(stream)) \in Nat
  <2>1. \A m \in Streams \ {n} : Held(stream')[m] = Held(stream)[m]
    BY DEF Held, Alike
  <2> QED BY <1>2, <2>1, SharesChange
<1>4. /\ SumOf(Shares(stream')) = SumOf(Shares(stream)) + Shares(stream')[n] - Shares(stream)[n]
      /\ SumOf(Shares(stream)) \in Nat
  <2>1. \A m \in Streams \ {n} : Shares(stream')[m] = Shares(stream)[m]
    BY DEF Shares, Share, Alike
  <2> QED BY <1>2, <2>1, SharesChange
<1>5. outstanding' = SumOf(Held(stream'))
  BY <1>3 DEF NetInv, Held
<1>6. inbound' = SumOf(Shares(stream'))
  BY <1>4 DEF NetInv, Shares
<1>7. outstanding' \in Int /\ inbound' \in Int
  BY <1>1 DEF NetInv, NetTypeOK
<1>8. \A m \in Streams : StreamOK(stream'[m])
  <2> SUFFICES ASSUME NEW m \in Streams  PROVE StreamOK(stream'[m])
    OBVIOUS
  <2>1. StreamOK(stream[m])
    BY DEF NetInv
  <2> QED BY <2>1, AlikeKeepsOK
<1>9. \A i \in StreamIds : table'[i] # 0 => stream'[table'[i]].phase # "none"
  <2> SUFFICES ASSUME NEW i \in StreamIds, table'[i] # 0
               PROVE  stream'[table'[i]].phase # "none"
    OBVIOUS
  <2>1. CASE table'[i] = n
    BY <2>1
  <2>2. CASE table'[i] = table[i] /\ table[i] # n
    <3>1. table[i] \in Streams \ {n}
      BY <2>2, StreamsFinite DEF NetInv, NetTypeOK, Streams
    <3>2. stream[table[i]].phase # "none"
      BY <2>2 DEF NetInv
    <3> QED BY <2>2, <3>1, <3>2 DEF Alike
  <2> QED BY <2>1, <2>2
<1>10. NetTypeOK'
  BY <1>7 DEF NetInv, NetTypeOK
<1> QED BY <1>5, <1>6, <1>8, <1>9, <1>10 DEF NetInv

(* A step that changes no stream.                                          *)
LEMMA QuietKeepsInv ==
  ASSUME NetInv, UNCHANGED <<stream, outstanding, inbound, plan>>,
         table' \in [StreamIds -> 0..MaxStreams],
         \A i \in StreamIds : table'[i] \in {0, table[i]},
         outbox' \in [StreamIds -> Seq(Frame)],
         client' \in [StreamIds -> View]
  PROVE  NetInv'
<1>1. NetTypeOK'
  BY DEF NetInv, NetTypeOK
<1>2. \A i \in StreamIds : table'[i] # 0 => stream'[table'[i]].phase # "none"
  BY DEF NetInv
<1> QED BY <1>1, <1>2 DEF NetInv

(* An emitted frame is a frame.                                            *)
LEMMA EmitType ==
  ASSUME NetInv, NEW kind \in Kinds, NEW id \in StreamIds, NEW k \in Nat, Emit(kind, id, k)
  PROVE  outbox' \in [StreamIds -> Seq(Frame)]
<1>1. [kind |-> kind, n |-> k] \in Frame
  BY DEF Frame
<1>2. outbox[id] \in Seq(Frame)
  BY DEF NetInv, NetTypeOK
<1>3. Append(outbox[id], [kind |-> kind, n |-> k]) \in Seq(Frame)
  BY <1>1, <1>2
<1> QED BY <1>3 DEF Emit, NetInv, NetTypeOK

-----------------------------------------------------------------------------
(* The tasks of a stream *)

(* The common step of a task: one stream changes and holds as much of both *)
(* totals as before.                                                       *)
LEMMA TaskKeepsInv ==
  ASSUME NetInv, NEW n \in Streams, NEW t \in Stream,
         stream' = [stream EXCEPT ![n] = t],
         StreamOK(t), t.phase # "none",
         t.held = stream[n].held, SameCharges(stream[n], t),
         UNCHANGED <<table, outstanding, inbound, client, plan>>,
         outbox' \in [StreamIds -> Seq(Frame)]
  PROVE  NetInv'
<1>1. /\ stream \in [Streams -> Stream] /\ stream[n] \in Stream
      /\ outstanding \in Int /\ inbound \in Int /\ inbound =< InboundAggregate
      /\ table \in [StreamIds -> 0..MaxStreams] /\ client \in [StreamIds -> View]
  BY DEF NetInv, NetTypeOK
<1>2. /\ stream' \in [Streams -> Stream] /\ stream'[n] = t
      /\ \A m \in Streams \ {n} : stream'[m] = stream[m]
  BY <1>1
<1>3. \A m \in Streams \ {n} : Alike(stream[m], stream'[m])
  BY <1>2 DEF Alike
<1>4. t.held \in Nat /\ Share(t) \in Nat /\ Share(t) = Share(stream[n])
  BY ShareIsNat DEF Stream, Share
<1>5. /\ outstanding' = outstanding + stream'[n].held - stream[n].held
      /\ inbound' = inbound + Share(stream'[n]) - Share(stream[n])
  BY <1>1, <1>2, <1>4
<1> QED BY <1>1, <1>2, <1>3, <1>5, StepKeepsInv

(* Likewise, of a step that moves bytes between the charges of a stream.   *)
LEMMA EvenStepKeepsInv ==
  ASSUME NetInv, NEW n \in Streams, NEW t \in Stream,
         stream' = [stream EXCEPT ![n] = t],
         StreamOK(t), t.phase # "none",
         t.held = stream[n].held, Share(t) = Share(stream[n]),
         UNCHANGED <<table, outstanding, inbound, outbox, client, plan>>
  PROVE  NetInv'
<1>1. /\ stream \in [Streams -> Stream] /\ stream[n] \in Stream
      /\ outstanding \in Int /\ inbound \in Int /\ inbound =< InboundAggregate
      /\ table \in [StreamIds -> 0..MaxStreams] /\ client \in [StreamIds -> View]
      /\ outbox \in [StreamIds -> Seq(Frame)]
  BY DEF NetInv, NetTypeOK
<1>2. /\ stream' \in [Streams -> Stream] /\ stream'[n] = t
      /\ \A m \in Streams \ {n} : stream'[m] = stream[m]
  BY <1>1
<1>3. \A m \in Streams \ {n} : Alike(stream[m], stream'[m])
  BY <1>2 DEF Alike
<1>4. t.held \in Nat /\ Share(t) \in Nat
  BY ShareIsNat DEF Stream
<1>5. /\ outstanding' = outstanding + stream'[n].held - stream[n].held
      /\ inbound' = inbound + Share(stream'[n]) - Share(stream[n])
  BY <1>1, <1>2, <1>4
<1> QED BY <1>1, <1>2, <1>3, <1>5, StepKeepsInv

(* What is known of a stream whose task takes a step.                      *)
LEMMA StreamFacts ==
  ASSUME NetInv, NEW n \in Streams
  PROVE  /\ stream \in [Streams -> Stream] /\ stream[n] \in Stream /\ StreamOK(stream[n])
         /\ outbox \in [StreamIds -> Seq(Frame)]
         /\ stream[n].phase # "none" => stream[n].id \in StreamIds
         /\ stream[n].window \in Nat /\ stream[n].sent \in Nat /\ stream[n].acked \in Nat
         /\ stream[n].held \in Nat /\ stream[n].written \in Nat /\ stream[n].writing \in Nat
         /\ stream[n].queued \in Nat /\ stream[n].taking \in Nat /\ stream[n].releasing \in Nat
<1>1. stream \in [Streams -> Stream] /\ StreamOK(stream[n]) /\ outbox \in [StreamIds -> Seq(Frame)]
  BY DEF NetInv, NetTypeOK
<1>2. stream[n] \in Stream
  BY <1>1
<1> QED BY <1>1, <1>2 DEF StreamOK, Stream

(* A stream whose writer ends keeps its charges.                           *)
LEMMA EndWriterFacts ==
  ASSUME NEW s \in Stream
  PROVE  /\ EndWriter(s) \in Stream /\ EndWriter(s).phase = s.phase /\ EndWriter(s).id = s.id
         /\ EndWriter(s).held = s.held /\ SameCharges(s, EndWriter(s))
         /\ EndWriter(s).writer = "ended" /\ EndWriter(s).writing = 0
<1>1. <<>> \in Seq(Nat) /\ 0 \in Nat
  OBVIOUS
<1>2. EndWriter(s) \in Stream
  BY <1>1 DEF EndWriter, Stream
<1>3. /\ EndWriter(s).phase = s.phase /\ EndWriter(s).id = s.id
      /\ EndWriter(s).held = s.held /\ SameCharges(s, EndWriter(s))
      /\ EndWriter(s).writer = "ended" /\ EndWriter(s).writing = 0
  BY DEF EndWriter, Stream
<1> QED BY <1>2, <1>3

(* Resolution, connect and handshake end, one way or another.              *)
LEMMA ReachedKeeps ==
  ASSUME NetInv, NEW n \in Streams, Reached(n) \/ Unreachable(n) \/ GiveUp(n)
  PROVE  NetInv'
<1> DEFINE s == stream[n]
<1>1. /\ stream \in [Streams -> Stream] /\ s \in Stream /\ StreamOK(s)
      /\ s.phase = "connecting" /\ s.id \in StreamIds /\ s.window \in Nat
      /\ outbox \in [StreamIds -> Seq(Frame)]
  BY StreamFacts DEF Reached, Unreachable, GiveUp
<1>2. CASE Reached(n)
  <2> DEFINE t == [s EXCEPT !.phase = "gates", !.writer = "idle"]
  <2>1. stream' = [stream EXCEPT ![n] = t]
    BY <1>2 DEF Reached
  <2>2. t \in Stream /\ t.held = s.held /\ SameCharges(s, t) /\ t.phase # "none"
    BY <1>1 DEF Stream
  <2>3. StreamOK(t)
    BY <1>1 DEF StreamOK, Stream
  <2>4. outbox' \in [StreamIds -> Seq(Frame)]
    BY <1>1, <1>2, EmitType DEF Reached, Kinds
  <2> HIDE DEF t
  <2> QED BY <1>2, <2>1, <2>2, <2>3, <2>4, TaskKeepsInv DEF Reached
<1>3. CASE Unreachable(n)
  <2> DEFINE u == [s EXCEPT !.phase = "closed"]
             t == EndWriter(u)
  <2>1. stream' = [stream EXCEPT ![n] = t]
    BY <1>3 DEF Unreachable
  <2>2. /\ t \in Stream /\ t.held = s.held /\ SameCharges(s, t) /\ t.phase = u.phase
        /\ t.writer = "ended" /\ t.writing = 0 /\ t.id = s.id
    <3>1. u \in Stream /\ u.held = s.held /\ SameCharges(s, u) /\ u.id = s.id
      BY <1>1 DEF Stream
    <3> HIDE DEF u
    <3> QED BY <3>1, EndWriterFacts
  <2>3. StreamOK(t) /\ t.phase # "none"
    BY <1>1, <2>2 DEF StreamOK, Stream
  <2>4. outbox' \in [StreamIds -> Seq(Frame)]
    BY <1>1, <1>3, EmitType DEF Unreachable, Kinds
  <2> HIDE DEF t
  <2> QED BY <1>3, <2>1, <2>2, <2>3, <2>4, TaskKeepsInv DEF Unreachable
<1>4. CASE GiveUp(n)
  <2> DEFINE u == [s EXCEPT !.phase = "gone", !.done = TRUE]
             t == EndWriter(u)
  <2>1. stream' = [stream EXCEPT ![n] = t] /\ outbox' = outbox
    BY <1>4 DEF GiveUp
  <2>2. /\ t \in Stream /\ t.held = s.held /\ SameCharges(s, t) /\ t.phase = u.phase
        /\ t.writer = "ended" /\ t.writing = 0 /\ t.id = s.id
    <3>1. u \in Stream /\ u.held = s.held /\ SameCharges(s, u) /\ u.id = s.id
      BY <1>1 DEF Stream
    <3> HIDE DEF u
    <3> QED BY <3>1, EndWriterFacts
  <2>3. StreamOK(t) /\ t.phase # "none"
    BY <1>1, <2>2, ZenonT(60) DEF StreamOK, Stream
  <2> HIDE DEF t
  <2> QED BY <1>1, <1>4, <2>1, <2>2, <2>3, TaskKeepsInv DEF GiveUp
<1> QED BY <1>2, <1>3, <1>4

(* The steps that only move the reader on.                                 *)
LEMMA ReaderMovesKeep ==
  ASSUME NetInv, NEW n \in Streams,
         Register(n) \/ Wake(n) \/ AcksLost(n) \/ TargetEnds(n)
  PROVE  NetInv'
<1> DEFINE s == stream[n]
<1>1. /\ stream \in [Streams -> Stream] /\ s \in Stream /\ StreamOK(s)
      /\ outbox \in [StreamIds -> Seq(Frame)]
      /\ s.phase \in {"register", "parked", "ready"}
  BY StreamFacts DEF Register, Wake, AcksLost, TargetEnds
<1>2. PICK ph \in {"gates", "parked", "ready", "stopping"}, w \in BOOLEAN :
        stream' = [stream EXCEPT ![n] = [s EXCEPT !.phase = ph, !.wake = w]]
  <2>1. CASE Register(n)
    BY <2>1 DEF Register
  <2>2. CASE Wake(n)
    BY <2>2 DEF Wake
  <2>3. CASE AcksLost(n) \/ TargetEnds(n)
    <3>1. PICK ph \in {"ready", "stopping"} : stream' = [stream EXCEPT ![n].phase = ph]
      BY <2>3 DEF AcksLost, TargetEnds
    <3>2. s.wake \in BOOLEAN /\ [s EXCEPT !.phase = ph] = [s EXCEPT !.phase = ph, !.wake = s.wake]
      BY <1>1 DEF Stream
    <3> QED BY <1>1, <3>1, <3>2
  <2> QED BY <2>1, <2>2, <2>3
<1> DEFINE t == [s EXCEPT !.phase = ph, !.wake = w]
<1>3. t \in Stream /\ t.held = s.held /\ SameCharges(s, t) /\ t.phase # "none"
  BY <1>1 DEF Stream
<1>4. StreamOK(t)
  BY <1>1 DEF StreamOK, Stream
<1>5. UNCHANGED <<table, outstanding, inbound, outbox, client, plan>>
  BY DEF Register, Wake, AcksLost, TargetEnds
<1> HIDE DEF t
<1> QED BY <1>1, <1>2, <1>3, <1>4, <1>5, TaskKeepsInv DEF t

(* A wake-up changes nothing else (Credit.notify_waiters).                 *)
LEMMA WakeReadersType ==
  ASSUME NEW ss \in [Streams -> Stream]
  PROVE  /\ WakeReaders(ss) \in [Streams -> Stream]
         /\ \A n \in Streams : Alike(ss[n], WakeReaders(ss)[n])
<1> SUFFICES ASSUME NEW n \in Streams
             PROVE  WakeReaders(ss)[n] \in Stream /\ Alike(ss[n], WakeReaders(ss)[n])
  BY DEF WakeReaders
<1> DEFINE t == [ss[n] EXCEPT !.wake = TRUE]
<1>1. WakeReaders(ss)[n] \in {t, ss[n]} /\ ss[n] \in Stream
  BY DEF WakeReaders
<1>2. t \in Stream /\ Alike(ss[n], t) /\ Alike(ss[n], ss[n])
  BY <1>1 DEF Stream, Alike
<1> QED BY <1>1, <1>2

(* CreditCharge::set and drop: a step that sets the share of one stream to *)
(* want and otherwise leaves what both totals count.                       *)
LEMMA ChargeKeepsInv ==
  ASSUME NetInv, NEW n \in Streams, NEW want \in Nat, NEW u \in Stream,
         SetCharge(n, want, [stream EXCEPT ![n] = u]),
         u.held = stream[n].held, SameCharges(stream[n], u),
         StreamOK([u EXCEPT !.held = want]), u.phase # "none",
         UNCHANGED <<table, inbound, outbox, client, plan>>
  PROVE  NetInv'
<1> DEFINE ss == [stream EXCEPT ![n] = u]
           t == [u EXCEPT !.held = want]
           charged == [ss EXCEPT ![n].held = want]
<1>1. /\ stream \in [Streams -> Stream] /\ stream[n] \in Stream
      /\ outstanding \in Int /\ inbound \in Int /\ inbound =< InboundAggregate
      /\ table \in [StreamIds -> 0..MaxStreams] /\ client \in [StreamIds -> View]
      /\ outbox \in [StreamIds -> Seq(Frame)]
  BY DEF NetInv, NetTypeOK
<1>2. t \in Stream /\ t.held = want /\ SameCharges(stream[n], t) /\ t.phase = u.phase
  BY DEF Stream
<1>3. ss \in [Streams -> Stream] /\ ss[n] = u /\ \A m \in Streams \ {n} : ss[m] = stream[m]
  BY <1>1
<1>4. charged = [ss EXCEPT ![n] = t]
  BY <1>3
<1> HIDE DEF t, ss
<1>5. /\ charged \in [Streams -> Stream] /\ charged[n] = t
      /\ \A m \in Streams \ {n} : charged[m] = stream[m]
  BY <1>2, <1>3, <1>4
<1>6. /\ stream' \in {charged, WakeReaders(charged)}
      /\ outstanding' = outstanding + want - u.held
  BY <1>3 DEF SetCharge, ss
<1> HIDE DEF charged
<1>7. /\ stream' \in [Streams -> Stream] /\ \A m \in Streams : Alike(charged[m], stream'[m])
  <2>1. CASE stream' = charged
    BY <1>5, <2>1 DEF Alike
  <2>2. CASE stream' = WakeReaders(charged)
    BY <1>5, <2>2, WakeReadersType
  <2> QED BY <1>6, <2>1, <2>2
<1>8. \A m \in Streams \ {n} : Alike(stream[m], stream'[m])
  BY <1>5, <1>7
<1>9. StreamOK(stream'[n])
  <2>1. StreamOK(t) /\ Alike(t, stream'[n])
    BY <1>5, <1>7 DEF t
  <2> QED BY <2>1, AlikeKeepsOK
<1>10. stream'[n].held = want /\ SameCharges(stream[n], stream'[n]) /\ stream'[n].phase # "none"
  BY <1>2, <1>5, <1>7 DEF Alike
<1>11. inbound' = inbound + Share(stream'[n]) - Share(stream[n])
  <2>1. Share(stream[n]) \in Nat /\ Share(stream'[n]) = Share(stream[n])
    BY <1>1, <1>10, ShareIsNat DEF NetInv, Share
  <2> QED BY <1>1, <2>1
<1>12. outstanding' = outstanding + stream'[n].held - stream[n].held
  BY <1>6, <1>10
<1>13. table' \in [StreamIds -> 0..MaxStreams] /\ \A i \in StreamIds : table'[i] \in {0, table[i], n}
  BY <1>1
<1>14. outbox' \in [StreamIds -> Seq(Frame)] /\ client' \in [StreamIds -> View] /\ plan' = plan
       /\ inbound' =< InboundAggregate
  BY <1>1
<1> QED BY <1>7, <1>8, <1>9, <1>10, <1>11, <1>12, <1>13, <1>14, StepKeepsInv

(* The reader looks at its gates.                                          *)
LEMMA GatesKeeps ==
  ASSUME NetInv, NEW n \in Streams, Gates(n)
  PROVE  NetInv'
<1> DEFINE s == stream[n]
           want == s.sent - s.acked
<1>1. /\ stream \in [Streams -> Stream] /\ s \in Stream /\ StreamOK(s)
      /\ outbox \in [StreamIds -> Seq(Frame)] /\ s.phase = "gates" /\ want \in Int
  BY StreamFacts DEF Gates
<1>2. CASE want < 0
  <2> DEFINE t == [s EXCEPT !.phase = "stopping"]
  <2>1. /\ stream' = [stream EXCEPT ![n] = t]
        /\ UNCHANGED <<table, outstanding, inbound, outbox, client, plan>>
    BY <1>1, <1>2 DEF Gates
  <2>2. t \in Stream /\ t.held = s.held /\ SameCharges(s, t) /\ t.phase # "none"
    BY <1>1 DEF Stream
  <2>3. StreamOK(t)
    BY <1>1 DEF StreamOK, Stream
  <2> HIDE DEF t
  <2> QED BY <1>1, <2>1, <2>2, <2>3, TaskKeepsInv
<1>3. CASE want >= 0
  <2> DEFINE ph == IF GatesOpen(n, want) THEN "ready" ELSE "register"
             u == [s EXCEPT !.phase = ph, !.ackNew = FALSE]
  <2>1. ph \in {"ready", "register"}
    OBVIOUS
  <2>2. SetCharge(n, want, [stream EXCEPT ![n].phase = ph, ![n].ackNew = FALSE])
    BY <1>1, <1>3 DEF Gates
  <2>3. UNCHANGED <<table, inbound, outbox, client, plan>>
    BY DEF Gates
  <2> HIDE DEF ph
  <2>4. [stream EXCEPT ![n].phase = ph, ![n].ackNew = FALSE] = [stream EXCEPT ![n] = u]
    BY <1>1
  <2>5. u \in Stream /\ u.held = s.held /\ SameCharges(s, u) /\ u.phase # "none"
    BY <1>1, <2>1 DEF Stream
  <2>6. StreamOK([u EXCEPT !.held = want])
    BY <1>1, <2>1 DEF StreamOK, Stream
  <2>7. SetCharge(n, want, [stream EXCEPT ![n] = u]) /\ want \in Nat
    BY <1>1, <1>3, <2>2, <2>4
  <2> HIDE DEF u, want
  <2> QED BY <2>3, <2>5, <2>6, <2>7, ChargeKeepsInv
<1> QED BY <1>1, <1>2, <1>3

(* A reader that is aborted, and one that has told the client of the end,  *)
(* give their share back.                                                  *)
LEMMA ReaderEndsKeeps ==
  ASSUME NetInv, NEW n \in Streams, Aborted(n) \/ Finish(n)
  PROVE  NetInv'
<1> DEFINE s == stream[n]
<1>1. /\ stream \in [Streams -> Stream] /\ s \in Stream /\ StreamOK(s)
      /\ s.phase \in {"parked", "ready", "closed"}
      /\ UNCHANGED <<table, inbound, outbox, client, plan>>
  BY StreamFacts DEF Aborted, Finish
<1>2. CASE Aborted(n)
  <2> DEFINE u == [s EXCEPT !.phase = "gone", !.sent = 0, !.acked = 0, !.ackNew = FALSE,
                            !.wake = FALSE]
  <2>1. SetCharge(n, 0, [stream EXCEPT ![n] = u])
    BY <1>2 DEF Aborted
  <2>2. u \in Stream /\ u.held = s.held /\ SameCharges(s, u) /\ u.phase # "none"
    BY <1>1 DEF Stream
  <2>3. StreamOK([u EXCEPT !.held = 0])
    BY <1>1 DEF StreamOK, Stream
  <2> HIDE DEF u
  <2> QED BY <1>1, <2>1, <2>2, <2>3, ChargeKeepsInv
<1>3. CASE Finish(n)
  <2> DEFINE u == [s EXCEPT !.phase = "gone", !.done = TRUE]
  <2>1. SetCharge(n, 0, [stream EXCEPT ![n] = u])
    <3>1. [stream EXCEPT ![n].phase = "gone", ![n].done = TRUE] = [stream EXCEPT ![n] = u]
      BY <1>1
    <3> QED BY <1>3, <3>1 DEF Finish
  <2>2. u \in Stream /\ u.held = s.held /\ SameCharges(s, u) /\ u.phase # "none"
    BY <1>1 DEF Stream
  <2>3. StreamOK([u EXCEPT !.held = 0])
    BY <1>1 DEF StreamOK, Stream
  <2> HIDE DEF u
  <2> QED BY <1>1, <2>1, <2>2, <2>3, ChargeKeepsInv
<1> QED BY <1>2, <1>3

(* Data from the target, and the frame that carries it.                    *)
LEMMA ReadKeeps ==
  ASSUME NetInv, NEW n \in Streams, NEW k \in Chunks, Read(n, k)
  PROVE  NetInv'
<1> DEFINE s == stream[n]
<1>1. /\ stream \in [Streams -> Stream] /\ s \in Stream /\ StreamOK(s)
      /\ s.phase = "ready" /\ s.id \in StreamIds
      /\ UNCHANGED <<table, outstanding, inbound, client, plan>>
  BY StreamFacts DEF Read
<1>2. k \in Nat
  BY NetConstants DEF NetConstants
<1> DEFINE sum == s.sent + k
           t == [s EXCEPT !.phase = "gates", !.sent = sum]
<1>3. stream' = [stream EXCEPT ![n] = t]
  BY <1>1 DEF Read
<1>4. t \in Stream /\ t.held = s.held /\ SameCharges(s, t) /\ t.phase # "none"
  <2>1. sum \in Nat
    BY <1>2, StreamFacts
  <2> HIDE DEF sum
  <2> QED BY <1>1, <2>1 DEF Stream
<1>5. StreamOK(t)
  BY <1>1 DEF StreamOK, Stream
<1>6. outbox' \in [StreamIds -> Seq(Frame)]
  BY <1>1, <1>2, EmitType DEF Read, Kinds
<1> HIDE DEF t
<1> QED BY <1>1, <1>3, <1>4, <1>5, <1>6, TaskKeepsInv

(* The end is told to the client, and the writer goes with it.             *)
LEMMA StopKeeps ==
  ASSUME NetInv, NEW n \in Streams, Stop(n)
  PROVE  NetInv'
<1> DEFINE s == stream[n]
<1>1. /\ stream \in [Streams -> Stream] /\ s \in Stream /\ StreamOK(s)
      /\ s.phase = "stopping" /\ s.id \in StreamIds /\ s.writer \notin {"landed", "failed"}
      /\ UNCHANGED <<table, outstanding, inbound, client, plan>>
  BY StreamFacts DEF Stop
<1> DEFINE u == [s EXCEPT !.phase = "closed"]
           t == EndWriter(u)
<1>2. stream' = [stream EXCEPT ![n] = t]
  BY DEF Stop
<1>3. /\ t \in Stream /\ t.held = s.held /\ SameCharges(s, t) /\ t.phase = "closed"
      /\ t.writer = "ended" /\ t.writing = 0 /\ t.id = s.id
  <2>1. /\ u \in Stream /\ u.held = s.held /\ SameCharges(s, u) /\ u.id = s.id
        /\ u.phase = "closed"
    BY <1>1 DEF Stream
  <2> HIDE DEF u
  <2> QED BY <2>1, EndWriterFacts
<1>4. StreamOK(t)
  BY <1>1, <1>3 DEF StreamOK, Stream
<1>5. outbox' \in [StreamIds -> Seq(Frame)]
  BY <1>1, EmitType DEF Stop, Kinds
<1> HIDE DEF t
<1> QED BY <1>1, <1>2, <1>3, <1>4, <1>5, TaskKeepsInv

(* The writer takes the next write, or the half-close, or ends with its    *)
(* queue.                                                                  *)
LEMMA TakeWriteKeeps ==
  ASSUME NetInv, NEW n \in Streams, TakeWrite(n) \/ WritesEnd(n)
  PROVE  NetInv'
<1> DEFINE s == stream[n]
<1>1. /\ stream \in [Streams -> Stream] /\ s \in Stream /\ StreamOK(s) /\ s.writer = "idle"
      /\ outbox \in [StreamIds -> Seq(Frame)]
      /\ UNCHANGED <<table, outstanding, inbound, outbox, client, plan>>
  BY StreamFacts DEF TakeWrite, WritesEnd
<1>2. s.phase \notin {"none", "connecting"} /\ s.writes \in Seq(Nat) /\ s.writing \in Nat
  BY <1>1 DEF StreamOK, Stream
<1>3. CASE TakeWrite(n) /\ Head(s.writes) = 0
  <2> DEFINE t == EndWriter(s)
  <2>1. stream' = [stream EXCEPT ![n] = t]
    BY <1>3 DEF TakeWrite
  <2>2. /\ t \in Stream /\ t.held = s.held /\ SameCharges(s, t) /\ t.phase = s.phase
        /\ t.writer = "ended" /\ t.writing = 0 /\ t.id = s.id
    BY <1>1, EndWriterFacts
  <2> HIDE DEF t
  <2>3. StreamOK(t)
    BY <1>1, <1>2, <2>2 DEF StreamOK
  <2> QED BY <1>1, <1>2, <2>1, <2>2, <2>3, TaskKeepsInv
<1>4. CASE TakeWrite(n) /\ Head(s.writes) # 0
  <2> DEFINE head == Head(s.writes)
             rest == Tail(s.writes)
             t == [s EXCEPT !.writer = "writing", !.writing = head, !.writes = rest]
  <2>1. s.writes # <<>> /\ stream' = [stream EXCEPT ![n] = t]
    BY <1>4 DEF TakeWrite
  <2>2. head \in Nat /\ SumOf(rest) \in Nat /\ SumOf(s.writes) = SumOf(rest) + head
    BY <1>2, <2>1, SumTail
  <2>3. rest \in Seq(Nat)
    BY <1>2, <2>1
  <2> HIDE DEF head, rest
  <2>4. /\ t \in Stream /\ t.held = s.held /\ SameCharges(s, t) /\ t.phase = s.phase
        /\ t.writer = "writing" /\ t.writing = head /\ t.writes = rest /\ t.id = s.id
    BY <1>1, <2>2, <2>3 DEF Stream
  <2>5. s.writing = 0
    BY <1>1 DEF NetInv, StreamOK
  <2>6. s.queued = SumOf(s.writes) + s.taking /\ s.taking \in Nat /\ s.releasing = 0
    BY <1>1, <1>2, <2>2, <2>5 DEF StreamOK, Stream
  <2>7. t.queued = s.queued /\ t.taking = s.taking /\ t.releasing = s.releasing
    BY <1>1 DEF Stream
  <2> HIDE DEF t
  <2>8. t.queued = SumOf(t.writes) + t.writing + t.taking
    BY <1>2, <2>2, <2>4, <2>6, <2>7
  <2>9. StreamOK(t)
    BY <1>1, <1>2, <2>2, <2>4, <2>6, <2>7, <2>8 DEF StreamOK
  <2> QED BY <1>1, <1>2, <2>1, <2>4, <2>9, TaskKeepsInv
<1>5. CASE WritesEnd(n)
  <2> DEFINE t == [s EXCEPT !.writer = "ended"]
  <2>1. stream' = [stream EXCEPT ![n] = t]
    BY <1>5 DEF WritesEnd
  <2>2. t \in Stream /\ t.held = s.held /\ SameCharges(s, t) /\ t.phase # "none"
    BY <1>1, <1>2 DEF Stream
  <2>3. StreamOK(t)
    BY <1>1, <1>2 DEF StreamOK, Stream
  <2> HIDE DEF t
  <2> QED BY <1>1, <2>1, <2>2, <2>3, TaskKeepsInv
<1> QED BY <1>1, <1>3, <1>4, <1>5

(* A write ends, and its charge of the stream with it.                     *)
LEMMA WrittenKeeps ==
  ASSUME NetInv, NEW n \in Streams, NEW ok \in BOOLEAN, Written(n, ok)
  PROVE  NetInv'
<1> DEFINE s == stream[n]
           left == s.queued - s.writing
           w == IF ok THEN "landed" ELSE "failed"
           t == [s EXCEPT !.writer = w, !.queued = left, !.writing = 0, !.releasing = s.writing]
<1>1. /\ stream \in [Streams -> Stream] /\ s \in Stream /\ StreamOK(s) /\ s.writer = "writing"
      /\ stream' = [stream EXCEPT ![n] = t]
      /\ UNCHANGED <<table, outstanding, inbound, outbox, client, plan>>
  BY StreamFacts DEF Written
<1>2. /\ s.phase \notin {"none", "connecting"} /\ s.id \in StreamIds
      /\ s.writes \in Seq(Nat) /\ s.writing \in Nat /\ s.queued \in Nat /\ s.held \in Nat
      /\ s.taking \in Nat /\ s.releasing = 0
  BY <1>1 DEF StreamOK, Stream
<1>3. SumOf(s.writes) \in Nat
  BY <1>2, SumAppend
<1>4. left = SumOf(s.writes) + s.taking /\ left \in Nat
  BY <1>1, <1>2, <1>3 DEF StreamOK
<1>5. w \in {"landed", "failed"}
  OBVIOUS
<1> HIDE DEF w, left
<1>6. /\ t \in Stream /\ t.held = s.held /\ t.queued = left /\ t.phase = s.phase /\ t.id = s.id
      /\ t.writes = s.writes /\ t.writing = 0 /\ t.taking = s.taking /\ t.releasing = s.writing
      /\ t.writer = w
  BY <1>1, <1>2, <1>4, <1>5 DEF Stream
<1> HIDE DEF t
<1>7. StreamOK(t)
  BY <1>1, <1>2, <1>3, <1>4, <1>5, <1>6 DEF StreamOK
<1>8. Share(t) = Share(s) /\ Share(s) \in Nat
  <2>1. Share(s) = s.queued - s.taking /\ s.taking =< s.queued
    BY <1>1, <1>2 DEF Share, StreamOK
  <2>2. Share(t) = s.queued - s.writing - s.taking + s.writing
    BY <1>2, <1>6 DEF Share, left
  <2> QED BY <1>2, <2>1, <2>2
<1> QED BY <1>1, <1>2, <1>6, <1>7, <1>8, EvenStepKeepsInv

(* Its charge of the connection follows, and the acknowledgement.          *)
LEMMA WriteReleasedKeeps ==
  ASSUME NetInv, NEW n \in Streams, WriteReleased(n)
  PROVE  NetInv'
<1> DEFINE s == stream[n]
           rest == [s EXCEPT !.releasing = 0]
<1>1. /\ stream \in [Streams -> Stream] /\ s \in Stream /\ StreamOK(s)
      /\ s.writer \in {"landed", "failed"}
      /\ outbox \in [StreamIds -> Seq(Frame)] /\ s.written \in Nat
      /\ inbound' = inbound - s.releasing
      /\ UNCHANGED <<table, outstanding, client, plan>>
  BY StreamFacts DEF WriteReleased
<1>2. /\ s.phase \notin {"none", "connecting"} /\ s.id \in StreamIds
      /\ s.writes \in Seq(Nat) /\ s.writing = 0 /\ s.queued \in Nat /\ s.held \in Nat
      /\ s.taking \in Nat /\ s.releasing \in Nat
  BY <1>1 DEF StreamOK, Stream
<1>3. /\ rest \in Stream /\ rest.held = s.held /\ rest.queued = s.queued /\ rest.phase = s.phase
      /\ rest.id = s.id /\ rest.writes = s.writes /\ rest.writing = 0 /\ rest.taking = s.taking
      /\ rest.releasing = 0
  BY <1>1, <1>2 DEF Stream
<1>4. PICK t \in Stream :
        /\ stream' = [stream EXCEPT ![n] = t] /\ StreamOK(t)
        /\ t.held = s.held /\ t.queued = s.queued /\ t.taking = s.taking /\ t.releasing = 0
        /\ t.phase = s.phase
  <2>1. CASE s.writer = "landed"
    <3> DEFINE sum == s.written + s.releasing
               t == [rest EXCEPT !.writer = "idle", !.written = sum]
    <3>1. stream' = [stream EXCEPT ![n] = t]
      BY <1>1, <2>1 DEF WriteReleased
    <3>2. sum \in Nat
      BY <1>1, <1>2
    <3> HIDE DEF rest, sum
    <3>3. /\ t \in Stream /\ t.held = s.held /\ t.queued = s.queued /\ t.phase = s.phase
          /\ t.id = s.id /\ t.writes = s.writes /\ t.writing = 0 /\ t.writer = "idle"
          /\ t.taking = s.taking /\ t.releasing = 0
      BY <1>3, <3>2 DEF Stream
    <3> HIDE DEF t
    <3>4. StreamOK(t)
      BY <1>1, <1>2, <2>1, <3>3 DEF StreamOK
    <3> QED BY <3>1, <3>3, <3>4
  <2>2. CASE s.writer = "failed"
    <3> DEFINE t == EndWriter(rest)
    <3>1. stream' = [stream EXCEPT ![n] = t]
      BY <1>1, <2>2 DEF WriteReleased
    <3> HIDE DEF rest
    <3>2. /\ t \in Stream /\ t.held = s.held /\ t.queued = s.queued /\ t.phase = s.phase
          /\ t.id = s.id /\ t.writer = "ended" /\ t.writing = 0
          /\ t.taking = s.taking /\ t.releasing = 0
      BY <1>3, EndWriterFacts
    <3> HIDE DEF t
    <3>3. StreamOK(t)
      BY <1>1, <1>2, <3>2 DEF StreamOK
    <3> QED BY <3>1, <3>2, <3>3
  <2> QED BY <1>1, <2>1, <2>2
<1>5. /\ stream' \in [Streams -> Stream] /\ stream'[n] = t
      /\ \A m \in Streams \ {n} : Alike(stream[m], stream'[m])
  BY <1>1, <1>4 DEF Alike
<1>6. /\ outstanding \in Int /\ inbound \in Int /\ inbound =< InboundAggregate
      /\ table \in [StreamIds -> 0..MaxStreams] /\ client \in [StreamIds -> View]
      /\ InboundAggregate \in Int
  BY AggregateIsNat DEF NetInv, NetTypeOK
<1>7. Share(t) = Share(s) - s.releasing /\ Share(s) \in Int
  BY <1>2, <1>4 DEF Share
<1>8. /\ outstanding' = outstanding + stream'[n].held - stream[n].held
      /\ inbound' = inbound + Share(stream'[n]) - Share(stream[n])
      /\ inbound' =< InboundAggregate
  BY <1>1, <1>2, <1>4, <1>5, <1>6, <1>7, SMTT(30)
<1>9. outbox' \in [StreamIds -> Seq(Frame)]
  <2>1. CASE s.writer = "landed"
    <3>1. s.written + s.releasing \in Nat
      BY <1>1, <1>2
    <3>2. Emit("ack", s.id, s.written + s.releasing)
      BY <2>1 DEF WriteReleased
    <3> QED BY <1>2, <3>1, <3>2, EmitType DEF Kinds
  <2>2. CASE s.writer = "failed"
    BY <1>1, <2>2 DEF WriteReleased
  <2> QED BY <1>1, <2>1, <2>2
<1>10. \A i \in StreamIds : table'[i] \in {0, table[i], n}
  BY <1>1
<1> QED BY <1>1, <1>2, <1>4, <1>5, <1>6, <1>8, <1>9, <1>10, StepKeepsInv

-----------------------------------------------------------------------------
(* Requests *)

(* What a request finds: the client's view of an id, and its entry.        *)
LEMMA RequestFacts ==
  ASSUME NetInv, NEW id \in StreamIds
  PROVE  /\ table \in [StreamIds -> 0..MaxStreams] /\ table[id] \in 0..MaxStreams
         /\ stream \in [Streams -> Stream]
         /\ client \in [StreamIds -> View] /\ client[id] \in View
         /\ outbox \in [StreamIds -> Seq(Frame)] /\ outbox[id] \in Seq(Frame)
         /\ outstanding \in Int /\ inbound \in Int /\ inbound =< InboundAggregate
         /\ table[id] # 0 => /\ table[id] \in Streams /\ stream[table[id]] \in Stream
                             /\ StreamOK(stream[table[id]]) /\ stream[table[id]].phase # "none"
         /\ \A i \in StreamIds : table[i] \in {0, table[i]}
<1>1. /\ table \in [StreamIds -> 0..MaxStreams] /\ stream \in [Streams -> Stream]
      /\ client \in [StreamIds -> View] /\ outbox \in [StreamIds -> Seq(Frame)]
      /\ outstanding \in Int /\ inbound \in Int /\ inbound =< InboundAggregate
  BY DEF NetInv, NetTypeOK
<1>2. table[id] # 0 => table[id] \in Streams
  BY <1>1, StreamsFinite DEF Streams
<1>3. table[id] # 0 => StreamOK(stream[table[id]]) /\ stream[table[id]].phase # "none"
  BY <1>2 DEF NetInv
<1> QED BY <1>1, <1>2, <1>3

(* The views a client starts an id with.                                   *)
LEMMA FreshViews ==
  /\ NoView \in View
  /\ \A st \in {"opening", "closing"} : [NoView EXCEPT !.st = st] \in View
  /\ [NoView EXCEPT !.st = "opening", !.window = WindowMin] \in View
BY NetConstants DEF NetConstants, NoView, View

(* NET_OPEN: what has ended is swept, and a stream is opened or refused.   *)
LEMMA OpenKeeps ==
  ASSUME NetInv, NEW id \in StreamIds, Open(id)
  PROVE  NetInv'
<1>1. /\ table \in [StreamIds -> 0..MaxStreams] /\ stream \in [Streams -> Stream]
      /\ client \in [StreamIds -> View] /\ outbox \in [StreamIds -> Seq(Frame)]
      /\ outstanding \in Int /\ inbound \in Int /\ inbound =< InboundAggregate
      /\ UNCHANGED <<outstanding, inbound, plan>>
  BY RequestFacts DEF Open
<1>2. Swept \in [StreamIds -> 0..MaxStreams] /\ \A i \in StreamIds : Swept[i] \in {0, table[i]}
  BY <1>1, StreamsFinite DEF Swept
<1> DEFINE swept == Swept
<1>3. CASE OpenSocket(id, swept)
  <2> DEFINE n == Min(Unused)
             open == Cardinality(Entries(swept)) + 1
             window == PerStreamWindow(open)
             t == [NoStream EXCEPT !.phase = "connecting", !.id = id, !.window = window]
             c == [NoView EXCEPT !.st = "opening", !.window = WindowMin]
  <2>1. n \in Streams /\ stream[n].phase = "none"
    <3>1. Unused \subseteq Nat /\ Unused # {}
      BY StreamsFinite DEF Unused, Open
    <3>2. n \in Unused
      BY <3>1, MinIsMember
    <3> QED BY <3>2 DEF Unused
  <2>2. /\ table' = [swept EXCEPT ![id] = n] /\ stream' = [stream EXCEPT ![n] = t]
        /\ client' = [client EXCEPT ![id] = c] /\ outbox' = outbox
    BY <1>3 DEF OpenSocket
  <2> HIDE DEF n
  <2>3. window \in Nat
    <3>1. IsFiniteSet(Entries(swept))
      BY NetConstants, FS_Subset DEF NetConstants, Entries
    <3>2. open \in Nat /\ open > 0
      BY <3>1, FS_CardinalityType
    <3> HIDE DEF open
    <3> QED BY <3>2, WindowIsNat
  <2> HIDE DEF window, swept
  <2>4. /\ t.phase = "connecting" /\ t.id = id /\ t.held = 0 /\ t.queued = 0 /\ t.writes = <<>>
        /\ t.taking = 0 /\ t.releasing = 0
        /\ t.writer = "none" /\ t.writing = 0
    BY DEF NoStream
  <2>5. t \in Stream
    <3>1. <<>> \in Seq(Nat) /\ 0 \in Nat
      OBVIOUS
    <3> QED BY <2>3, <3>1 DEF NoStream, Stream
  <2> HIDE DEF t
  <2>6. StreamOK(t)
    <3>1. SumOf(<<>>) = 0
      BY SumOfEmpty
    <3> QED BY <2>4, <3>1 DEF StreamOK
  <2>7. /\ stream' \in [Streams -> Stream] /\ stream'[n] = t
        /\ \A m \in Streams \ {n} : Alike(stream[m], stream'[m])
    BY <1>1, <2>1, <2>2, <2>5 DEF Alike
  <2>8. stream[n].held = 0 /\ Share(stream[n]) = 0 /\ Share(t) = 0
    <3>1. StreamOK(stream[n]) /\ stream[n] \in Stream
      BY <1>1, <2>1 DEF NetInv
    <3> QED BY <2>1, <2>4, <3>1 DEF StreamOK, Stream, Share
  <2>9. /\ outstanding' = outstanding + stream'[n].held - stream[n].held
        /\ inbound' = inbound + Share(stream'[n]) - Share(stream[n])
    BY <1>1, <2>4, <2>7, <2>8
  <2>10. /\ table' \in [StreamIds -> 0..MaxStreams]
         /\ \A i \in StreamIds : table'[i] \in {0, table[i], n}
    <3>1. n \in 0..MaxStreams
      BY <2>1, StreamsFinite DEF Streams
    <3>2. swept \in [StreamIds -> 0..MaxStreams] /\ \A i \in StreamIds : swept[i] \in {0, table[i]}
      BY <1>2 DEF swept
    <3>3. table' = [swept EXCEPT ![id] = n]
      BY <2>2
    <3> QED BY <3>1, <3>2, <3>3
  <2>11. client' \in [StreamIds -> View]
    BY <1>1, <2>2, FreshViews
  <2> QED BY <1>1, <2>1, <2>2, <2>4, <2>6, <2>7, <2>9, <2>10, <2>11, StepKeepsInv, ZenonT(60)
<1>4. CASE ~OpenSocket(id, swept)
  <2>1. /\ table' = Swept /\ Emit("refused", id, 0) /\ stream' = stream
        /\ client' = [client EXCEPT ![id] = [NoView EXCEPT !.st = "opening"]]
    BY <1>4 DEF Open
  <2>2. client' \in [StreamIds -> View]
    BY <1>1, <2>1, FreshViews
  <2>3. outbox' \in [StreamIds -> Seq(Frame)]
    BY <2>1, EmitType DEF Kinds
  <2> QED BY <1>1, <1>2, <2>1, <2>2, <2>3, QuietKeepsInv
<1> QED BY <1>3, <1>4

(* NET_CLOSE, and what the client receives: no stream changes.             *)
LEMMA CloseKeeps ==
  ASSUME NetInv, NEW id \in StreamIds, Close(id)
  PROVE  NetInv'
<1>1. /\ table \in [StreamIds -> 0..MaxStreams] /\ client \in [StreamIds -> View]
      /\ outbox \in [StreamIds -> Seq(Frame)]
      /\ UNCHANGED <<outstanding, inbound, plan>>
      /\ client' = [client EXCEPT ![id] = [NoView EXCEPT !.st = "closing"]]
  BY RequestFacts, StreamsFinite DEF Close
<1>2. client' \in [StreamIds -> View]
  BY <1>1, FreshViews
<1>3. CASE table[id] = 0
  BY <1>1, <1>2, <1>3, QuietKeepsInv DEF Close
<1>4. CASE table[id] # 0
  <2>1. table' = [table EXCEPT ![id] = 0] /\ Emit("closed", id, 0) /\ stream' = stream
    BY <1>4 DEF Close, DropEntry, Unlisted
  <2>2. table' \in [StreamIds -> 0..MaxStreams] /\ \A i \in StreamIds : table'[i] \in {0, table[i]}
    BY <1>1, <2>1, StreamsFinite
  <2>3. outbox' \in [StreamIds -> Seq(Frame)]
    BY <2>1, EmitType DEF Kinds
  <2> QED BY <1>1, <1>2, <2>1, <2>2, <2>3, QuietKeepsInv
<1> QED BY <1>3, <1>4

LEMMA ReceiveKeeps ==
  ASSUME NetInv, NEW id \in StreamIds, Receive(id)
  PROVE  NetInv'
<1> DEFINE f == Head(outbox[id])
           c == client[id]
<1>1. /\ table \in [StreamIds -> 0..MaxStreams] /\ client \in [StreamIds -> View] /\ c \in View
      /\ outbox \in [StreamIds -> Seq(Frame)] /\ outbox[id] \in Seq(Frame) /\ outbox[id] # <<>>
      /\ UNCHANGED <<table, stream, outstanding, inbound, plan>>
  BY RequestFacts DEF Receive
<1>2. f \in Frame /\ Tail(outbox[id]) \in Seq(Frame)
  BY <1>1
<1>3. f.n \in Nat /\ c.got + f.n \in Nat
  BY <1>1, <1>2 DEF Frame, View
<1> DEFINE sum == c.got + f.n
           n == f.n
<1>4. \E d \in View : client' = [client EXCEPT ![id] = d]
  <2>1. client'= [client EXCEPT ![id] =
           CASE f.kind = "opened" /\ c.st = "opening" -> [c EXCEPT !.st = "open", !.window = n]
             [] f.kind = "data" /\ c.st \in {"opening", "open"} -> [c EXCEPT !.got = sum]
             [] f.kind = "ack" /\ n > c.upAcked /\ n =< c.up -> [c EXCEPT !.upAcked = n]
             [] f.kind \in {"refused", "closed", "over_budget"} -> NoView
             [] OTHER -> c]
    BY DEF Receive
  <2>2. sum \in Nat /\ n \in Nat
    BY <1>3
  <2> HIDE DEF f, sum, n
  <2>3. /\ [c EXCEPT !.st = "open", !.window = n] \in View
        /\ [c EXCEPT !.got = sum] \in View
        /\ [c EXCEPT !.upAcked = n] \in View
    BY <1>1, <2>2 DEF View
  <2> QED BY <1>1, <2>1, <2>3, FreshViews
<1>5. client' \in [StreamIds -> View]
  BY <1>1, <1>4
<1>6. outbox' \in [StreamIds -> Seq(Frame)]
  BY <1>1, <1>2 DEF Receive
<1> QED BY <1>1, <1>5, <1>6, QuietKeepsInv

(* What is pushed to a writer that still reads adds to its queue; a push to*)
(* one that has ended is lost.                                             *)
LEMMA PushFacts ==
  ASSUME NEW s \in Stream, NEW k \in Nat
  PROVE  /\ Push(s, k) \in Stream
         /\ Push(s, k).phase = s.phase /\ Push(s, k).id = s.id /\ Push(s, k).held = s.held
         /\ SameCharges(s, Push(s, k)) /\ Push(s, k).writer = s.writer
         /\ Push(s, k).writing = s.writing
         /\ SumOf(s.writes) \in Nat
         /\ s.writer # "ended" => SumOf(Push(s, k).writes) = SumOf(s.writes) + k
<1> DEFINE w == Append(s.writes, k)
           t == [s EXCEPT !.writes = w]
<1>1. s.writes \in Seq(Nat)
  BY DEF Stream
<1>2. w \in Seq(Nat) /\ SumOf(s.writes) \in Nat /\ SumOf(w) = SumOf(s.writes) + k
  BY <1>1, SumAppend
<1>3. Push(s, k) = IF s.writer = "ended" THEN s ELSE t
  BY DEF Push
<1> HIDE DEF w
<1>4. /\ t \in Stream /\ t.phase = s.phase /\ t.id = s.id /\ t.held = s.held
      /\ SameCharges(s, t) /\ t.writer = s.writer /\ t.writing = s.writing /\ t.writes = w
  BY <1>2 DEF Stream
<1> HIDE DEF t
<1> QED BY <1>2, <1>3, <1>4

(* The dispatch loop is at its next request.                               *)
BetweenRequests == \A n \in Streams : stream[n].taking = 0

(* NET_DATA: charged to its stream, too late, or beyond the window.        *)
LEMMA DataKeeps ==
  ASSUME NetInv, BetweenRequests, NEW id \in StreamIds, NEW k \in Chunks, Data(id, k)
  PROVE  NetInv'
<1> DEFINE n == table[id]
           s == stream[n]
           c == client[id]
<1>1. /\ table \in [StreamIds -> 0..MaxStreams] /\ stream \in [Streams -> Stream]
      /\ client \in [StreamIds -> View] /\ c \in View /\ outbox \in [StreamIds -> Seq(Frame)]
      /\ outstanding \in Int /\ inbound \in Int /\ inbound =< InboundAggregate
      /\ n # 0 => n \in Streams /\ s \in Stream /\ StreamOK(s) /\ s.phase # "none" /\ s.taking = 0
      /\ UNCHANGED <<outstanding, inbound, plan>>
  BY RequestFacts DEF Data, BetweenRequests
<1>2. k \in Nat
  BY NetConstants DEF NetConstants
<1>3. client' \in [StreamIds -> View]
  <2> DEFINE up == c.up + k
             d == [c EXCEPT !.up = up]
  <2>1. client' = [client EXCEPT ![id] = d]
    BY <1>1 DEF Data
  <2>2. up \in Nat
    BY <1>1, <1>2 DEF View
  <2> HIDE DEF up
  <2>3. d \in View
    BY <1>1, <2>2 DEF View
  <2> HIDE DEF d
  <2> QED BY <1>1, <2>1, <2>3
<1>4. CASE n = 0
  BY <1>1, <1>3, <1>4, QuietKeepsInv DEF Data
<1>5. CASE n # 0 /\ s.queued + k =< s.window
  <2> DEFINE q == s.queued + k
             t == [s EXCEPT !.queued = q, !.taking = k]
  <2>1. stream' = [stream EXCEPT ![n] = t] /\ UNCHANGED <<table, inbound, outbox>>
    <3>1. s.queued \in Nat /\ s.window \in Nat
      BY <1>1, <1>5 DEF Stream
    <3>2. ~(s.queued + k > s.window)
      BY <1>2, <1>5, <3>1
    <3> QED BY <1>5, <3>2 DEF Data
  <2>2. /\ s.queued \in Nat /\ q \in Nat /\ s.held \in Nat /\ s.taking = 0 /\ s.releasing \in Nat
        /\ s.writing \in Nat /\ s.writes \in Seq(Nat)
    BY <1>1, <1>2, <1>5 DEF Stream
  <2> HIDE DEF q
  <2>3. /\ t \in Stream /\ t.phase = s.phase /\ t.id = s.id /\ t.held = s.held /\ t.queued = q
        /\ t.writer = s.writer /\ t.writing = s.writing /\ t.writes = s.writes
        /\ t.taking = k /\ t.releasing = s.releasing
    BY <1>1, <1>2, <1>5, <2>2 DEF Stream
  <2> HIDE DEF t
  <2>4. SumOf(s.writes) \in Nat
    BY <2>2, SumAppend
  <2>5. StreamOK(t)
    BY <1>1, <1>2, <1>5, <2>2, <2>3, <2>4 DEF StreamOK, q
  <2>6. Share(t) = Share(s) /\ Share(s) \in Nat
    BY <1>2, <2>2, <2>3 DEF Share, q
  <2>7. /\ stream' \in [Streams -> Stream] /\ stream'[n] = t
        /\ \A m \in Streams \ {n} : Alike(stream[m], stream'[m])
    BY <1>1, <1>5, <2>1, <2>3 DEF Alike
  <2>8. /\ outstanding' = outstanding + stream'[n].held - stream[n].held
        /\ inbound' = inbound + Share(stream'[n]) - Share(stream[n])
    BY <1>1, <2>1, <2>2, <2>3, <2>6, <2>7
  <2>9. \A i \in StreamIds : table'[i] \in {0, table[i], n}
    BY <2>1
  <2>10. n \in Streams /\ t.phase # "none"
    BY <1>1, <1>5, <2>3
  <2> HIDE DEF n
  <2> QED BY <1>1, <1>3, <2>1, <2>5, <2>7, <2>8, <2>9, <2>10, StepKeepsInv
<1>6. CASE n # 0 /\ s.queued + k > s.window
  <2>1. /\ table' = [table EXCEPT ![id] = 0] /\ Emit("over_budget", id, 0)
        /\ UNCHANGED <<stream, inbound>>
    BY <1>6 DEF Data, DropEntry, Unlisted
  <2>2. table' \in [StreamIds -> 0..MaxStreams] /\ \A i \in StreamIds : table'[i] \in {0, table[i]}
    BY <1>1, <2>1, StreamsFinite
  <2>3. outbox' \in [StreamIds -> Seq(Frame)]
    BY <2>1, EmitType DEF Kinds
  <2> QED BY <1>1, <1>3, <2>1, <2>2, <2>3, QuietKeepsInv
<1>7. n # 0 => s.queued + k =< s.window \/ s.queued + k > s.window
  <2>1. n # 0 => s.queued \in Nat /\ s.window \in Nat
    BY <1>1 DEF Stream
  <2> QED BY <1>2, <2>1
<1> QED BY <1>4, <1>5, <1>6, <1>7

(* The second half of the admission, by the connection's total.            *)
LEMMA ChargeTotalKeeps ==
  ASSUME NetInv, NEW n \in Streams, ChargeTotal(n)
  PROVE  NetInv'
<1> DEFINE s == stream[n]
           k == s.taking
<1>1. /\ stream \in [Streams -> Stream] /\ s \in Stream /\ StreamOK(s) /\ k > 0 /\ k \in Nat
      /\ s.queued \in Nat /\ k =< s.queued /\ s.held \in Nat /\ s.releasing \in Nat
      /\ s.writes \in Seq(Nat) /\ s.writing \in Nat
      /\ UNCHANGED <<outstanding, client, plan>>
  BY StreamFacts DEF ChargeTotal, StreamOK, Stream
<1>2. s.phase # "none" /\ s.id \in StreamIds
  BY <1>1 DEF StreamOK
<1>3. /\ table \in [StreamIds -> 0..MaxStreams] /\ client \in [StreamIds -> View]
      /\ outbox \in [StreamIds -> Seq(Frame)]
      /\ outstanding \in Int /\ inbound \in Int /\ inbound =< InboundAggregate
      /\ InboundAggregate \in Int
  BY AggregateIsNat DEF NetInv, NetTypeOK
<1>4. SumOf(s.writes) \in Nat
  BY <1>1, SumAppend
<1>5. CASE inbound + k =< InboundAggregate
  <2> DEFINE u == [s EXCEPT !.taking = 0]
             t == Push(u, k)
  <2>1. /\ stream' = [stream EXCEPT ![n] = t] /\ inbound' = inbound + k
        /\ UNCHANGED <<table, outbox>>
    BY <1>1, <1>3, <1>5 DEF ChargeTotal
  <2>2. /\ u \in Stream /\ u.phase = s.phase /\ u.id = s.id /\ u.held = s.held
        /\ u.queued = s.queued /\ u.writer = s.writer /\ u.writing = s.writing
        /\ u.writes = s.writes /\ u.taking = 0 /\ u.releasing = s.releasing
    BY <1>1 DEF Stream
  <2> HIDE DEF u
  <2>3. /\ t \in Stream /\ t.phase = u.phase /\ t.id = u.id /\ t.held = u.held
        /\ SameCharges(u, t) /\ t.writer = u.writer /\ t.writing = u.writing
        /\ u.writer # "ended" => SumOf(t.writes) = SumOf(u.writes) + k
    BY <1>1, <2>2, PushFacts
  <2> HIDE DEF t
  <2>4. StreamOK(t)
    BY <1>1, <1>2, <1>4, <2>2, <2>3 DEF StreamOK
  <2>5. Share(t) = Share(s) + k /\ Share(s) \in Int
    BY <1>1, <2>2, <2>3 DEF Share
  <2>6. /\ stream' \in [Streams -> Stream] /\ stream'[n] = t
        /\ \A m \in Streams \ {n} : Alike(stream[m], stream'[m])
    BY <1>1, <2>1, <2>3 DEF Alike
  <2>7. /\ outstanding' = outstanding + stream'[n].held - stream[n].held
        /\ inbound' = inbound + Share(stream'[n]) - Share(stream[n]) /\ inbound' =< InboundAggregate
    BY <1>1, <1>3, <1>5, <2>1, <2>2, <2>3, <2>5, <2>6
  <2>8. \A i \in StreamIds : table'[i] \in {0, table[i], n}
    BY <2>1
  <2>9. t.phase # "none"
    BY <1>2, <2>2, <2>3
  <2> QED BY <1>1, <1>3, <2>1, <2>4, <2>6, <2>7, <2>8, <2>9, StepKeepsInv
<1>6. CASE inbound + k > InboundAggregate
  <2> DEFINE q == s.queued - k
             t == [s EXCEPT !.queued = q, !.taking = 0]
  <2>1. /\ stream' = [stream EXCEPT ![n] = t] /\ UNCHANGED inbound
        /\ table' = [table EXCEPT ![s.id] = 0] /\ Emit("over_budget", s.id, 0)
    <3>1. /\ stream' = [stream EXCEPT ![n].queued = @ - k, ![n].taking = 0] /\ UNCHANGED inbound
          /\ table' = [table EXCEPT ![s.id] = 0] /\ Emit("over_budget", s.id, 0)
      <4>1. ~(inbound + k =< InboundAggregate)
        BY <1>1, <1>3, <1>6
      <4> QED BY <4>1, Zenon DEF ChargeTotal, Unlisted
    <3> QED BY <1>1, <3>1
  <2>2. q \in Nat
    BY <1>1
  <2> HIDE DEF q
  <2>3. /\ t \in Stream /\ t.phase = s.phase /\ t.id = s.id /\ t.held = s.held /\ t.queued = q
        /\ t.writer = s.writer /\ t.writing = s.writing /\ t.writes = s.writes
        /\ t.taking = 0 /\ t.releasing = s.releasing
    BY <1>1, <2>2 DEF Stream
  <2> HIDE DEF t
  <2>4. StreamOK(t)
    BY <1>1, <1>2, <1>4, <2>2, <2>3 DEF StreamOK, q
  <2>5. Share(t) = Share(s) /\ Share(s) \in Int
    BY <1>1, <2>3 DEF Share, q
  <2>6. /\ stream' \in [Streams -> Stream] /\ stream'[n] = t
        /\ \A m \in Streams \ {n} : Alike(stream[m], stream'[m])
    BY <1>1, <2>1, <2>3 DEF Alike
  <2>7. /\ outstanding' = outstanding + stream'[n].held - stream[n].held
        /\ inbound' = inbound + Share(stream'[n]) - Share(stream[n]) /\ inbound' =< InboundAggregate
    BY <1>1, <1>3, <2>1, <2>3, <2>5, <2>6
  <2>8. table' \in [StreamIds -> 0..MaxStreams] /\ \A i \in StreamIds : table'[i] \in {0, table[i], n}
    BY <1>2, <1>3, <2>1, StreamsFinite
  <2>9. outbox' \in [StreamIds -> Seq(Frame)]
    BY <1>2, <2>1, EmitType DEF Kinds
  <2>10. t.phase # "none"
    BY <1>2, <2>3
  <2> QED BY <1>1, <1>3, <2>1, <2>4, <2>6, <2>7, <2>8, <2>9, <2>10, StepKeepsInv
<1> QED BY <1>1, <1>3, <1>5, <1>6

(* NET_CLOSE of the write side: the half-close is queued behind the data.  *)
LEMMA CloseWriteKeeps ==
  ASSUME NetInv, NEW id \in StreamIds, CloseWrite(id)
  PROVE  NetInv'
<1> DEFINE n == table[id]
           s == stream[n]
           c == client[id]
<1>1. /\ table \in [StreamIds -> 0..MaxStreams] /\ stream \in [Streams -> Stream]
      /\ client \in [StreamIds -> View] /\ c \in View /\ outbox \in [StreamIds -> Seq(Frame)]
      /\ outstanding \in Int /\ inbound \in Int /\ inbound =< InboundAggregate
      /\ n # 0 => n \in Streams /\ s \in Stream /\ StreamOK(s) /\ s.phase # "none"
      /\ UNCHANGED <<table, outstanding, inbound, outbox, plan>>
  BY RequestFacts DEF CloseWrite
<1>2. client' \in [StreamIds -> View]
  <2> DEFINE d == [c EXCEPT !.half = TRUE]
  <2>1. client' = [client EXCEPT ![id] = d]
    BY <1>1 DEF CloseWrite
  <2>2. d \in View
    BY <1>1 DEF View
  <2> HIDE DEF d
  <2> QED BY <1>1, <2>1, <2>2
<1>3. CASE n = 0
  BY <1>1, <1>2, <1>3, QuietKeepsInv DEF CloseWrite
<1>4. CASE n # 0
  <2> DEFINE t == Push(s, 0)
  <2>1. stream' = [stream EXCEPT ![n] = t]
    BY <1>4 DEF CloseWrite
  <2>2. /\ t \in Stream /\ t.phase = s.phase /\ t.id = s.id /\ t.held = s.held
        /\ SameCharges(s, t) /\ t.writer = s.writer /\ t.writing = s.writing
        /\ SumOf(s.writes) \in Nat
        /\ s.writer # "ended" => SumOf(t.writes) = SumOf(s.writes) + 0
    BY <1>1, <1>4, PushFacts
  <2> HIDE DEF t
  <2>3. StreamOK(t)
    BY <1>1, <1>4, <2>2 DEF StreamOK
  <2>4. /\ stream' \in [Streams -> Stream] /\ stream'[n] = t
        /\ \A m \in Streams \ {n} : Alike(stream[m], stream'[m])
    BY <1>1, <1>4, <2>1, <2>2 DEF Alike
  <2>5. s.held \in Nat /\ Share(s) \in Nat /\ Share(t) = Share(s)
    BY <1>1, <1>4, <2>2, ShareIsNat DEF Stream, Share
  <2>6. /\ outstanding' = outstanding + stream'[n].held - stream[n].held
        /\ inbound' = inbound + Share(stream'[n]) - Share(stream[n])
    BY <1>1, <2>2, <2>4, <2>5
  <2>7. \A i \in StreamIds : table'[i] \in {0, table[i], n}
    BY <1>1
  <2> HIDE DEF n
  <2>8. n \in Streams /\ stream'[n].phase # "none" /\ StreamOK(stream'[n])
    BY <1>1, <1>4, <2>2, <2>3, <2>4
  <2> QED BY <1>1, <1>2, <2>4, <2>6, <2>7, <2>8, StepKeepsInv
<1> QED BY <1>3, <1>4

(* NET_ACK: the latest acknowledgement is kept, and readers are woken.     *)
LEMMA AckKeeps ==
  ASSUME NetInv, NEW id \in StreamIds, Ack(id)
  PROVE  NetInv'
<1> DEFINE n == table[id]
           s == stream[n]
           c == client[id]
           got == c.got
<1>1. /\ table \in [StreamIds -> 0..MaxStreams] /\ stream \in [Streams -> Stream]
      /\ client \in [StreamIds -> View] /\ c \in View /\ outbox \in [StreamIds -> Seq(Frame)]
      /\ outstanding \in Int /\ inbound \in Int /\ inbound =< InboundAggregate
      /\ n # 0 => n \in Streams /\ s \in Stream /\ StreamOK(s) /\ s.phase # "none"
      /\ UNCHANGED <<table, outstanding, inbound, outbox, plan>>
  BY RequestFacts DEF Ack
<1>2. got \in Nat
  BY <1>1 DEF View
<1>3. client' \in [StreamIds -> View]
  <2> DEFINE d == [c EXCEPT !.acked = got]
  <2>1. client' = [client EXCEPT ![id] = d]
    BY <1>1 DEF Ack
  <2> HIDE DEF got
  <2>2. d \in View
    BY <1>1, <1>2 DEF View
  <2> HIDE DEF d
  <2> QED BY <1>1, <2>1, <2>2
<1>4. CASE stream' = stream
  BY <1>1, <1>3, <1>4, QuietKeepsInv
<1>5. CASE stream' # stream
  <2> DEFINE t == [s EXCEPT !.acked = got, !.ackNew = TRUE]
             ss == [stream EXCEPT ![n] = t]
  <2>1. n # 0 /\ stream' = WakeReaders([stream EXCEPT ![n].acked = got, ![n].ackNew = TRUE])
    BY <1>5 DEF Ack
  <2>2. [stream EXCEPT ![n].acked = got, ![n].ackNew = TRUE] = ss
    BY <1>1, <2>1
  <2> HIDE DEF got
  <2>3. t \in Stream /\ Alike(s, t)
    BY <1>1, <1>2, <2>1 DEF Stream, Alike
  <2> HIDE DEF t
  <2>4. /\ ss \in [Streams -> Stream] /\ ss[n] = t
        /\ \A m \in Streams \ {n} : ss[m] = stream[m]
    BY <1>1, <2>1, <2>3
  <2>5. stream' = WakeReaders(ss)
    BY <2>1, <2>2
  <2> HIDE DEF ss
  <2>6. stream' \in [Streams -> Stream] /\ \A m \in Streams : Alike(ss[m], stream'[m])
    BY <2>4, <2>5, WakeReadersType
  <2>7. \A m \in Streams : Alike(stream[m], stream'[m])
    BY <2>3, <2>4, <2>6 DEF Alike
  <2>8. StreamOK(stream'[n]) /\ stream'[n].phase # "none"
    <3>1. StreamOK(s) /\ s.phase # "none" /\ Alike(s, stream'[n])
      BY <1>1, <2>1, <2>7
    <3> QED BY <3>1, AlikeKeepsOK DEF Alike
  <2>9. s.held \in Nat /\ Share(s) \in Nat
    BY <1>1, <2>1, ShareIsNat DEF Stream
  <2>10. stream'[n].held = s.held /\ Share(stream'[n]) = Share(s)
    BY <1>1, <2>1, <2>7 DEF Alike, Share
  <2>11. /\ outstanding' = outstanding + stream'[n].held - stream[n].held
         /\ inbound' = inbound + Share(stream'[n]) - Share(stream[n])
    BY <1>1, <2>9, <2>10
  <2>12. \A i \in StreamIds : table'[i] \in {0, table[i], n}
    BY <1>1
  <2>13. n \in Streams
    BY <1>1, <2>1
  <2> HIDE DEF n
  <2> QED BY <1>1, <1>3, <2>6, <2>7, <2>8, <2>11, <2>12, <2>13, StepKeepsInv
<1> QED BY <1>4, <1>5

-----------------------------------------------------------------------------
(* Theorems *)

(* Nothing is open, charged or queued at first.                            *)
LEMMA InitHolds ==
  ASSUME NetInit
  PROVE  NetInv
<1>1. <<>> \in Seq(Nat) /\ <<>> \in Seq(Frame) /\ 0 \in Nat
  OBVIOUS
<1>2. NoStream \in Stream /\ NoView \in View
  BY <1>1, FreshViews DEF NoStream, Stream
<1>3. NetTypeOK
  BY <1>1, <1>2, StreamsFinite DEF NetInit, NetTypeOK
<1>4. StreamOK(NoStream)
  BY SumOfEmpty DEF StreamOK, NoStream
<1>5. \A n \in Streams : stream[n] = NoStream
  BY DEF NetInit
<1>6. SumOf(Held(stream)) = 0
  <2>1. Held(stream) \in [Streams -> Nat] /\ \A n \in Streams : Held(stream)[n] = 0
    BY <1>5 DEF Held, NoStream
  <2> QED BY <2>1, SumOfZeros
<1>7. SumOf(Shares(stream)) = 0
  <2>1. Shares(stream) \in [Streams -> Nat] /\ \A n \in Streams : Shares(stream)[n] = 0
    BY <1>5 DEF Shares, Share, NoStream
  <2> QED BY <2>1, SumOfZeros
<1>8. outstanding = 0 /\ inbound = 0 /\ 0 =< InboundAggregate
      /\ \A i \in StreamIds : table[i] = 0
  BY AggregateIsNat DEF NetInit
<1> QED BY <1>3, <1>4, <1>5, <1>6, <1>7, <1>8 DEF NetInv

(* Every step of the dispatch loop, of the client and of the tasks keeps   *)
(* the invariant.                                                          *)
LEMMA NextKeepsInv ==
  ASSUME NetInv, [NetNext]_netVars
  PROVE  NetInv'
<1>1. plan.ids \subseteq StreamIds
  BY NetConstants DEF NetConstants, NetInv, NetTypeOK
<1>2. ASSUME NEW id \in plan.ids, Open(id) \/ Ack(id) \/ CloseWrite(id) \/ Close(id)
      PROVE  NetInv'
  BY <1>1, <1>2, OpenKeeps, AckKeeps, CloseWriteKeeps, CloseKeeps
<1>3. ASSUME BetweenRequests, NEW id \in plan.ids, NEW k \in Chunks, Data(id, k)
      PROVE  NetInv'
  BY <1>1, <1>3, DataKeeps
<1>4. ASSUME NEW id \in plan.ids, Receive(id)
      PROVE  NetInv'
  BY <1>1, <1>4, ReceiveKeeps
<1>5. ASSUME NEW n \in Streams, Reader(n)
      PROVE  NetInv'
  <2>1. CASE Reached(n) \/ Unreachable(n) \/ GiveUp(n)
    BY <2>1, ReachedKeeps
  <2>2. CASE Gates(n)
    BY <2>2, GatesKeeps
  <2>3. CASE Register(n) \/ Wake(n) \/ AcksLost(n) \/ TargetEnds(n)
    BY <2>3, ReaderMovesKeep
  <2>4. CASE Aborted(n) \/ Finish(n)
    BY <2>4, ReaderEndsKeeps
  <2>5. CASE \E k \in Chunks : Read(n, k)
    BY <2>5, ReadKeeps
  <2>6. CASE Stop(n)
    BY <2>6, StopKeeps
  <2> QED BY <1>5, <2>1, <2>2, <2>3, <2>4, <2>5, <2>6 DEF Reader
<1>6. ASSUME NEW n \in Streams, Writer(n)
      PROVE  NetInv'
  BY <1>6, TakeWriteKeeps, WrittenKeeps, WriteReleasedKeeps DEF Writer
<1>7. CASE UNCHANGED netVars
  <2>1. UNCHANGED <<table, stream, outstanding, inbound, outbox, client, plan>>
    BY <1>7 DEF netVars
  <2> QED BY <2>1, QuietKeepsInv DEF NetInv, NetTypeOK
<1>8. CASE NetNext
  <2>1. CASE NetRequest
    BY <1>2, <1>3, <2>1, ChargeTotalKeeps DEF NetRequest, BetweenRequests
  <2> QED BY <1>4, <1>5, <1>6, <1>8, <2>1 DEF NetNext
<1> QED BY <1>7, <1>8

(* The invariant holds throughout.                                         *)
THEOREM NetInvariant == NetSpec => []NetInv
<1>1. NetInit => NetInv
  BY InitHolds
<1>2. NetInv /\ [NetNext]_netVars => NetInv'
  BY NextKeepsInv
<1> QED BY <1>1, <1>2, PTL DEF NetSpec

(* The connection's credit is the sum of its streams' shares, and a stream *)
(* that ended, by whatever exit, holds none (CreditCharge): no share is    *)
(* lost or counted twice, for any number of streams, any window and any    *)
(* order of acknowledgements, aborts and ends.                             *)
THEOREM CreditIsShared == NetSpec => []CreditIsTheSumOfShares
<1>1. NetInv => CreditIsTheSumOfShares
  <2> SUFFICES ASSUME NetInv  PROVE CreditIsTheSumOfShares
    OBVIOUS
  <2>1. outstanding = SumOf([n \in Streams |-> stream[n].held])
    BY DEF NetInv, Held
  <2>2. \A n \in Streams : stream[n].phase \in {"none", "connecting", "gone"} => stream[n].held = 0
    BY DEF NetInv, StreamOK
  <2> QED BY <2>1, <2>2 DEF CreditIsTheSumOfShares
<1> QED BY <1>1, NetInvariant, PTL

(* Whatever waits for a target is charged to its stream and to the         *)
(* connection, whose total never passes what all windows allow             *)
(* (InboundWindow::admit, release).                                        *)
THEOREM QueuesAreCharged == NetSpec => []QueuedIsCharged
<1>1. NetInv => QueuedIsCharged
  <2> SUFFICES ASSUME NetInv  PROVE QueuedIsCharged
    OBVIOUS
  <2>1. \A n \in Streams : stream[n].writer # "ended" =>
          stream[n].queued = SumOf(stream[n].writes) + stream[n].writing + stream[n].taking
    BY DEF NetInv, StreamOK
  <2>2. inbound = SumOf(Shares(stream)) /\ inbound =< InboundAggregate
    BY DEF NetInv
  <2>3. Shares(stream) = [n \in Streams |-> stream[n].queued - stream[n].taking + stream[n].releasing]
    BY DEF Shares, Share
  <2> QED BY <2>1, <2>2, <2>3 DEF QueuedIsCharged
<1> QED BY <1>1, NetInvariant, PTL

=============================================================================
